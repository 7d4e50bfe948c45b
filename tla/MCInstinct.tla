---- MODULE MCInstinct ----
(***************************************************************************)
(* Two callers, one of which may die, and one instinct with evidence of    *)
(* every kind, from two projects, for TLC.                                 *)
(***************************************************************************)
EXTENDS InstinctStore, TLC

CONSTANTS pass, review, rollback, retry, north, south

Kinds == pass :> "positive" @@ review :> "positive" @@ rollback :> "strong" @@ retry :> "weak"
Projects == pass :> north @@ review :> south @@ rollback :> north @@ retry :> south
====
