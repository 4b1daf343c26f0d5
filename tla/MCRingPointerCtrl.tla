------------------------- MODULE MCRingPointerCtrl -------------------------
(* The pointer controller on a ring of eight 64-byte blocks, with a legal  *)
(* and an illegal configuration, and pointers that end in the middle of    *)
(* the second lap, so that the overflow of W + len is reached.             *)
EXTENDS RingPointerCtrl

MCConfigs == {[size |-> 16, base64 |-> TRUE], [size |-> 6, base64 |-> TRUE]}
============================================================================
