---- MODULE TopoOrder ----
(***************************************************************************)
(* PlanEngine.topo_order: Kahn's algorithm over a plan's depends_on lists, *)
(* one state per step taken off the queue.  PlanRunner asks for this order *)
(* before it picks steps, validate() for its verdict alone.                *)
(***************************************************************************)
EXTENDS Naturals, Sequences, FiniteSets, SequencesExt, FiniteSetsExt

CONSTANTS Ids,       \* the plan's step ids, in document order
          MaxRepeats \* bound: how often an id occurs in one depends_on list

ASSUME IdsAssumption == Ids \in Seq(STRING) /\ IsInjective(Ids)
ASSUME RepeatsAssumption == MaxRepeats \in Nat \ {0}

Nodes == ToSet(Ids)

VARIABLES uses,     \* uses[s][d]: how often d occurs in step s's depends_on
          indegree, \* indegree[s]: occurrences not yet accounted for
          queue,    \* ids whose occurrences are all accounted for
          order,    \* the order found so far
          verdict   \* "open", then "ordered" or "cycle"

vars == <<uses, indegree, queue, order, verdict>>

\* The ids of S among the first n, for n up to all of them.
InDocumentOrder(S) ==
    LET upTo[n \in 0..Len(Ids)] ==
            IF n = 0 THEN <<>>
            ELSE IF Ids[n] \in S THEN Append(upTo[n - 1], Ids[n]) ELSE upTo[n - 1]
    IN upTo[Len(Ids)]

\* How often ids of D occur in the depends_on list of s.
Occurrences(s, D) == MapThenSumSet(LAMBDA d : uses[s][d], D)

Init == /\ uses \in [Nodes -> [Nodes -> 0..MaxRepeats]]
        /\ indegree = [s \in Nodes |-> Occurrences(s, Nodes)]
        /\ queue = InDocumentOrder({s \in Nodes : indegree[s] = 0})
        /\ order = <<>>
        /\ verdict = "open"

\* Mutants: a repeated dependency is accounted for once; a child is queued as
\* soon as one of its dependencies was visited.
Settle_Once(node) ==
    indegree' = [s \in Nodes |-> indegree[s] - IF uses[s][node] > 0 THEN 1 ELSE 0]

Settle(node) ==
    indegree' = [s \in Nodes |-> indegree[s] - uses[s][node]]

Unblocked_Early(node) == {s \in Nodes : uses[s][node] > 0 /\ s \notin ToSet(order \o queue)}

\* The children whose last occurrence this was.
Unblocked(node) == {s \in Nodes : uses[s][node] > 0 /\ indegree'[s] = 0}

Visit == /\ queue # <<>>
         /\ order' = Append(order, Head(queue))
         /\ Settle(Head(queue))
         /\ queue' = Tail(queue) \o InDocumentOrder(Unblocked(Head(queue)))
         /\ UNCHANGED <<uses, verdict>>

\* Mutants: the number of visited ids is not compared with the number of ids;
\* the loop waits for the missing ones.
Finish_Unchecked == /\ queue = <<>> /\ verdict = "open"
                    /\ verdict' = "ordered"
                    /\ UNCHANGED <<uses, indegree, queue, order>>

Finish_WhenComplete == /\ queue = <<>> /\ verdict = "open"
                       /\ Len(order) = Len(Ids)
                       /\ verdict' = "ordered"
                       /\ UNCHANGED <<uses, indegree, queue, order>>

Finish == /\ queue = <<>> /\ verdict = "open"
          /\ verdict' = IF Len(order) = Len(Ids) THEN "ordered" ELSE "cycle"
          /\ UNCHANGED <<uses, indegree, queue, order>>

Next == Visit \/ Finish

Spec == Init /\ [][Next]_vars /\ WF_vars(Next)

-----------------------------------------------------------------------------

\* indegree counts exactly the dependencies that are not yet in the order, and
\* the queue holds exactly the unvisited ids for which none is left, once each,
\* with repeated dependencies too.
Accounting ==
    /\ \A s \in Nodes : indegree[s] = Occurrences(s, Nodes \ ToSet(order))
    /\ IsInjective(order \o queue)
    /\ ToSet(order \o queue) =
           {s \in Nodes : \A d \in Nodes : uses[s][d] > 0 => d \in ToSet(order)}

\* No step precedes one it depends on, at any point of the run.
RespectsDependencies ==
    \A i \in DOMAIN order : \A d \in Nodes :
        uses[order[i]][d] > 0 => \E j \in 1..(i - 1) : order[j] = d

\* A cycle: a set of steps each of which depends on one of the set.
HasCycle == \E S \in (SUBSET Nodes) \ {{}} :
                \A s \in S : \E d \in S : uses[s][d] > 0

\* topo_order raises for exactly the plans with a dependency cycle, and returns
\* every step of the others.
VerdictExact == /\ verdict = "cycle" => HasCycle
                /\ verdict = "ordered" => ~HasCycle /\ ToSet(order) = Nodes

TypeOK == /\ uses \in [Nodes -> [Nodes -> 0..MaxRepeats]]
          /\ indegree \in [Nodes -> Nat]
          /\ queue \in Seq(Nodes) /\ order \in Seq(Nodes)
          /\ verdict \in {"open", "ordered", "cycle"}

\* The inductive invariant: the verdict is given when nothing is queued, by
\* counting the ids found.
TopoInv == /\ TypeOK /\ Accounting /\ RespectsDependencies
           /\ verdict # "open" =>
                 queue = <<>> /\ (verdict = "ordered" <=> Len(order) = Len(Ids))

\* The loop ends, with a verdict, for cyclic plans too.
Ends == <>(verdict # "open")
====
