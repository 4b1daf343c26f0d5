SPECIFICATION LiveSpec
CONSTANTS
    Size = 8
    Guard = 2
    Lens <- MCLens
    MaxRecords = 4
    MaxResets = 2
    MaxDamage = 1
INVARIANT
    NoFalseAlarm
PROPERTIES
    ImplementsChannel
    HeadConsumed
CHECK_DEADLOCK FALSE
