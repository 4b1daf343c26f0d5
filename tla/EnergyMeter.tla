---------------------------- MODULE EnergyMeter ----------------------------
(***************************************************************************)
(* A session of the meter firmware (run_session of device_code_sync.py)    *)
(* over the energy register of the INA228, which goes on counting while    *)
(* the firmware reads.  The register wraps and sets ENERGYOF; reading the  *)
(* register clears ENERGYOF, and the flags are read some registers before  *)
(* the energy, so a wrap between the two reads loses its flag.             *)
(*                                                                         *)
(* Energy is counted in units of the register; formatting is left out.     *)
(***************************************************************************)
EXTENDS Integers

CONSTANTS
    Modulus,        \* the counts of the register, 2^40
    LogPeriod       \* LOG_PERIOD_NS

VARIABLES
    energy, energyOf,   \* the register and ENERGYOF
    total, since,       \* not in the code: energy in all, and since the last read
    pc,
    baseline, previous, \* energy_baseline, previous_energy
    latched,            \* math_latched, energy_latched or memory_latched
    discontinuity,      \* discontinuity_latched
    start,              \* not in the code: total at the baseline
    row                 \* the last row printed: energy_delta_J and valid, and
                        \* beside them the energy spent since the baseline

register == <<energy, energyOf, total, since>>
session == <<baseline, previous, latched, discontinuity, start, row>>
meterVars == <<register, pc, session>>

NoRow == [delta |-> 0, valid |-> FALSE, spent |-> 0]

\* The sensor integrates.  Less than a turn of the register passes between two
\* reads of it: a turn takes years at the rated power.
Accumulate ==
    \E e \in Nat :
        /\ since + e < Modulus
        /\ energy' = IF energy + e < Modulus THEN energy + e ELSE energy + e - Modulus
        /\ energyOf' = (energyOf \/ energy + e >= Modulus)
        /\ total' = total + e /\ since' = since + e
        /\ UNCHANGED <<pc, session>>

\* reset_accumulators
ResetAccumulators ==
    /\ pc = "idle"
    /\ energy' = 0 /\ energyOf' = FALSE /\ since' = 0
    /\ pc' = "initial_flags"
    /\ UNCHANGED <<total, session>>

\* alert_flags; "fault" is MATHOF or a failed MEMSTAT.
ReadFlags(fault) ==
    /\ \/ pc = "initial_flags" /\ pc' = "baseline" /\ latched' = (energyOf \/ fault)
       \/ pc = "flags" /\ pc' = "energy" /\ latched' = (latched \/ energyOf \/ fault)
    /\ UNCHANGED <<register, baseline, previous, discontinuity, start, row>>

\* The first read of the register opens the session.
ReadBaseline ==
    /\ pc = "baseline"
    /\ baseline' = energy /\ previous' = energy /\ start' = total
    /\ discontinuity' = FALSE /\ row' = NoRow
    /\ energyOf' = FALSE /\ since' = 0
    /\ pc' = "flags"
    /\ UNCHANGED <<energy, total, latched>>

\* The read of the register, the checks and the row.
ReadEnergy ==
    /\ pc = "energy"
    /\ discontinuity' = (discontinuity \/ energy < previous)
    /\ previous' = energy
    /\ row' = [delta |-> energy - baseline, valid |-> ~(latched \/ discontinuity'),
               spent |-> total - start]
    /\ energyOf' = FALSE /\ since' = 0
    /\ pc' = "flags"
    /\ UNCHANGED <<energy, total, baseline, latched, start>>

\* An OSError ends the session; main tries again.
IoError ==
    /\ pc' = "idle"
    /\ UNCHANGED <<register, session>>

MeterInit ==
    /\ energy \in 0 .. Modulus - 1 /\ energyOf \in BOOLEAN
    /\ total = 0 /\ since = 0 /\ start = 0
    /\ pc = "idle"
    /\ baseline = 0 /\ previous = 0
    /\ latched = FALSE /\ discontinuity = FALSE /\ row = NoRow

MeterNext ==
    \/ Accumulate \/ ResetAccumulators \/ (\E fault \in BOOLEAN : ReadFlags(fault))
    \/ ReadBaseline \/ ReadEnergy \/ IoError

MeterSpec == MeterInit /\ [][MeterNext]_meterVars

\* The next log time, after a row that ended at "finished".
NextLog(next, finished) ==
    LET slot == next + LogPeriod
    IN  IF slot <= finished
          THEN slot + ((finished - slot) \div LogPeriod + 1) * LogPeriod
          ELSE slot

----------------------------------------------------------------------------
\* A row marked valid tells the energy spent since the baseline, wherever the
\* register wraps between the reads.
ValidRowIsTrue == row.valid => row.delta = row.spent
============================================================================
