-------------------------- MODULE MCEngineControl --------------------------
(* Bounded instances of EngineControl; its constants are given by the .cfg. *)
EXTENDS EngineControl
=============================================================================
