---- MODULE MCDecision ----
(***************************************************************************)
(* Decisions for TLC: callers are interchangeable.                         *)
(***************************************************************************)
EXTENDS DecisionProperties, TLC

AnyCaller == Permutations(Callers)
====
