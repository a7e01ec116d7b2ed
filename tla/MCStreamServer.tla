--------------------------- MODULE MCStreamServer ---------------------------
(***************************************************************************)
(* The server on small instances.                                          *)
(*   MCStreamServer.cfg: one client, two transcriptions, no inject;        *)
(*     safety and liveness.                                                *)
(*   MCStreamServerClients.cfg: two clients, one transcription and one     *)
(*     inject; safety only, so the sessions are symmetric.                 *)
(*   MCStreamServerShutdown.cfg, MCStreamServerReturn.cfg: the smallest    *)
(*     instances that show what the code does not keep.                    *)
(***************************************************************************)
EXTENDS StreamServer, TLC

Symmetry == Permutations(Sessions)
=============================================================================
