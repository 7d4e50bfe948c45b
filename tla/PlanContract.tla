---- MODULE PlanContract ----
(***************************************************************************)
(* What a plan promises whoever reads its stored document: steps become    *)
(* verified, a step only after everything it depends on, and a verified    *)
(* step stays verified.  Several independent steps may become verified at  *)
(* once (a chat wave is saved as a whole).                                 *)
(***************************************************************************)
CONSTANTS Steps, Deps

VARIABLE verified

\* The store may hold a document that an earlier run brought some way.
Init == verified \in {S \in SUBSET Steps : \A s \in S : Deps[s] \subseteq S}

Verify(S) == /\ S # {}
             /\ \A s \in S : Deps[s] \subseteq verified
             /\ verified' = verified \cup S

Next == \E S \in SUBSET (Steps \ verified) : Verify(S)

Spec == Init /\ [][Next]_verified
====
