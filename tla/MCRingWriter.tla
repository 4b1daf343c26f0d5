---------------------------- MODULE MCRingWriter ----------------------------
(* A ring of four 64-byte blocks and records of one and two blocks, which  *)
(* goes into its second lap, with and without a WRAP, drained and full.    *)
EXTENDS RingWriter

MCConfigs == {[size |-> 8, base64 |-> TRUE]}
Rec(len, beats, class, torn) ==
    [len |-> len, total |-> beats, left |-> beats, class |-> class,
     torn |-> torn]
MCRecords == {Rec(2, 1, "legal", FALSE), Rec(4, 2, "legal", FALSE),
              Rec(4, 1, "legal", TRUE), Rec(2, 2, "malformed", FALSE)}
=============================================================================
