----------------------------- MODULE MCBringUp -----------------------------
(* One ring of eight 32-byte units, the shadow size zero of the reset being *)
(* the illegal one; pointers of two halves of two bits, with a misaligned   *)
(* low half among those the host writes.  SNAPSHOT is left to the start-up  *)
(* sequence: it changes nothing but the value read back.                    *)
EXTENDS BringUp

MCSizes == {8}
MCHalves == {0, 1, 2}
MCLengths == {2, 4}
MCHostRegs == {"CONTROL", "RING_SIZE", "RING_BASE", "RD_LO", "RD_HI",
               "SOFT_RESET", "CONFIG_COMMIT", "RD_COMMIT"}
MCClears == {TRUE, FALSE}
============================================================================
