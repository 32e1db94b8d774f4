---------------------------- MODULE MCSteelCommand ----------------------------
(* Bounded instances of SteelCommand: two brightnesses, one colour. *)
EXTENDS SteelCommand

MCCommand == {[op |-> "brightness", arg |-> 10], [op |-> "brightness", arg |-> 20],
              [op |-> "colors", arg |-> 1]}
==============================================================================
