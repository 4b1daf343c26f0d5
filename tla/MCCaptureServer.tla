-------------------------- MODULE MCCaptureServer --------------------------
(* CaptureServer with a baseline and one other threshold.                 *)
EXTENDS CaptureServer

MCThresholds == {0, 1}
=============================================================================
