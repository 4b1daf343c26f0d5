------------------------- MODULE MCThresholdCommit -------------------------
(* Two thresholds that differ from each other and from the reset value in  *)
(* both halves, so that every mixture of halves is recognised.             *)
EXTENDS ThresholdCommit

MCHalves == 0 .. 2
MCRequests == {<<1, 1>>, <<2, 2>>}
=============================================================================
