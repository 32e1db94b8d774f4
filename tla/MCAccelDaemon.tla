--------------------------- MODULE MCAccelDaemon ---------------------------
(* Bounded instances of AccelDaemon; its constants are given by the .cfg. *)
EXTENDS AccelDaemon, TLC

Symmetry == Permutations(Daemon)
=============================================================================
