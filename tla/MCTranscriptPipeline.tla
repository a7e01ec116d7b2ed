------------------------ MODULE MCTranscriptPipeline ------------------------
(***************************************************************************)
(* The pipeline with a threshold of 2 in place of 10, three transcriptions *)
(* (one full buffer and one left for the exit) and two failures of the     *)
(* log file.                                                               *)
(***************************************************************************)
EXTENDS TranscriptPipeline
=============================================================================
