----------------------------- MODULE MCStreamWasm -----------------------------
(* Instance of StreamWasm for TLC. *)
EXTENDS StreamWasm

\* Speeches in which a phrase of three words comes again later, and overlaps itself.
MCSpeeches ==
  {<<"a", "b", "c", "a", "b", "c", "d">>,
   <<"a", "a", "a", "a", "b", "a", "c">>}
=============================================================================
