--------------------------- MODULE MCAudioCapture ---------------------------
(***************************************************************************)
(* A ring of 5 samples that a step of 3 does not divide, so that samples   *)
(* pass its end at every position; callbacks of one and two samples and    *)
(* one that is larger than the ring; enough samples for three windows.     *)
(***************************************************************************)
EXTENDS AudioCapture
=============================================================================
