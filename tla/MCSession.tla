------------------------------ MODULE MCSession ------------------------------
(* Bounded instances of Session. *)
EXTENDS Session, TLC

Symmetry == Permutations(Light) \cup Permutations(Accel)
==============================================================================
