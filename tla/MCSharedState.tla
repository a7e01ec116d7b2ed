--------------------------- MODULE MCSharedState ---------------------------
(***************************************************************************)
(* The registry on small instances.                                        *)
(*   MCSharedState.cfg: three connections compete for two slots while      *)
(*     broadcast_thread broadcasts, sessions inject and main calls         *)
(*     close_all().  Safety only, so the sessions are symmetric.           *)
(*   MCSharedStateLive.cfg: two connections, without symmetry, which is    *)
(*     not sound for liveness.                                             *)
(***************************************************************************)
EXTENDS SharedState, TLC

Symmetry == Permutations(Sessions)
=============================================================================
