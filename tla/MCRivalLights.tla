---------------------------- MODULE MCRivalLights -----------------------------
(* Bounded instances of RivalLights. *)
EXTENDS RivalLights, TLC

Symmetry == Permutations(Zone) \cup Permutations(Color)
==============================================================================
