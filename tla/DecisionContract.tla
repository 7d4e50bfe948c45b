---- MODULE DecisionContract ----
(***************************************************************************)
(* What a governed decision promises: one answer, given once; an action    *)
(* that is started at most once, after approval only; and a record of its  *)
(* outcome that never changes.                                             *)
(***************************************************************************)
VARIABLES decision, execution

vars == <<decision, execution>>

Init == decision = "none" /\ execution = "none"

Create == /\ decision = "none"
          /\ decision' = "pending" /\ execution' = "pending"

Decide == /\ decision = "pending"
          /\ decision' \in {"approved", "rejected"}
          /\ UNCHANGED execution

Execute == /\ decision = "approved" /\ execution = "pending"
           /\ execution' = "running"
           /\ UNCHANGED decision

Conclude == /\ execution = "running"
            /\ execution' \in {"completed", "failed"}
            /\ UNCHANGED decision

Next == Create \/ Decide \/ Execute \/ Conclude

Spec == Init /\ [][Next]_vars
====
