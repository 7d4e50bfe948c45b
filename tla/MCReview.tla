---- MODULE MCReview ----
(***************************************************************************)
(* Two laps, a chain of two executors, one client and a server that may    *)
(* die, for TLC.                                                           *)
(***************************************************************************)
EXTENDS ReviewProperties, TLC

CONSTANTS main, beat1, beat2

Beats == 1 :> beat1 @@ 2 :> beat2
====
