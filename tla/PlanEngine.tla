---- MODULE PlanEngine ----
(***************************************************************************)
(* The plan state machine of src/voly/plan: the plan document, the gate    *)
(* that decides which steps may start, the legal status changes, and the   *)
(* plan status computed from the step statuses.  A plan document is a      *)
(* value here: the modules that hold documents (a runner's memory, the     *)
(* store on disk, an API client's snapshot) apply these operators to them. *)
(***************************************************************************)
EXTENDS Naturals, FiniteSets

CONSTANTS
    Steps,        \* the ids of the plan's steps
    Deps,         \* Deps[s]: the steps s depends on (PlanStep.depends_on)
    Pos,          \* Pos[s]: the place of s in PlanEngine.topo_order(plan)
    Mode,         \* Mode[s]: "chat" | "executor" | "business"
    Acceptance,   \* Acceptance[s]: what the declared checks of s amount to
    InitialStatus \* InitialStatus[s]: the status s has in the stored document

StepStatus == {"pending", "running", "done", "verifying", "verified",
               "failed", "skipped"}

PlanStatus == {"pending", "running", "completed", "failed", "aborted"}

(***************************************************************************)
(* What the acceptance list of a step amounts to: empty; synchronous       *)
(* checks only; some human_review check; some action_succeeded check (the  *)
(* last two are resolved outside the runner).                              *)
(***************************************************************************)
AcceptanceKind == {"none", "checks", "human", "action"}

External == {s \in Steps : Acceptance[s] \in {"human", "action"}}

\* What PlanEngine.validate accepts: dependencies are steps of the plan, and
\* Kahn's algorithm found an order of all of them (TopoOrder.tla).
ASSUME DepsAssumption == Deps \in [Steps -> SUBSET Steps]

ASSUME OrderAssumption ==
    /\ Pos \in [Steps -> Nat]
    /\ \A s, t \in Steps : Pos[s] = Pos[t] => s = t
    /\ \A s \in Steps : \A d \in Deps[s] : Pos[d] < Pos[s]

ASSUME StepKindsAssumption ==
    /\ Mode \in [Steps -> {"chat", "executor", "business"}]
    /\ Acceptance \in [Steps -> AcceptanceKind]

\* A fresh document has every step pending, but for approval gates without a
\* task of their own, which are seeded at verifying.  One loaded with keep_status
\* has whatever statuses an earlier run left in it: a step that started did so
\* behind verified dependencies.
ASSUME InitialStatusAssumption ==
    /\ InitialStatus \in [Steps -> StepStatus]
    /\ \A s \in Steps : InitialStatus[s] \notin {"pending", "skipped"} =>
            \A d \in Deps[s] : InitialStatus[d] = "verified"

-----------------------------------------------------------------------------
(* The document *)

\* log[s] is the outcome recorded in the step's verify_log.
Verdict == {"none", "pass", "fail"}

Plan == [status : PlanStatus,
         step   : [Steps -> StepStatus],
         log    : [Steps -> Verdict]]

\* The verify_log of a kept document is kept with it.
InitialPlan == [status |-> "pending",
                step   |-> InitialStatus,
                log    |-> [s \in Steps |->
                              IF InitialStatus[s] = "verified" /\ Acceptance[s] # "none"
                              THEN "pass" ELSE "none"]]

LegalTransitions ==
    {<<"pending", "running">>,   <<"pending", "skipped">>,
     <<"running", "done">>,      <<"running", "failed">>,
     <<"done", "verifying">>,    <<"done", "verified">>,
     <<"verifying", "verified">>, <<"verifying", "failed">>,
     <<"failed", "running">>,    <<"failed", "skipped">>,
     <<"failed", "pending">>}

-----------------------------------------------------------------------------
(* The gate *)

UnmetDeps(p, s) == {d \in Deps[s] : p.step[d] # "verified"}

\* Mutants of can_start: without the dependency gate; picking verified steps up
\* again; never picking failed steps up.
CanStart_Ungated(p, s) == p.step[s] \in {"pending", "failed"}
CanStart_Reruns(p, s) == /\ p.step[s] \in {"pending", "failed", "verified"}
                         /\ UnmetDeps(p, s) = {}
CanStart_PendingOnly(p, s) == p.step[s] = "pending" /\ UnmetDeps(p, s) = {}

CanStart(p, s) == /\ p.step[s] \in {"pending", "failed"}
                  /\ UnmetDeps(p, s) = {}

RunnableSteps(p) == {s \in Steps : CanStart(p, s)}

\* runnable[0]: the first step of a set in the plan's topological order.
First(S) == CHOOSE s \in S : \A t \in S : Pos[s] <= Pos[t]

\* Mutant of is_terminal_step: failed counts as terminal.
TerminalStatus_Failed == {"verified", "skipped", "failed"}

TerminalStatus == {"verified", "skipped"}
InFlightStatus == {"running", "done", "verifying"}

AllTerminal(p) == \A s \in Steps : p.step[s] \in TerminalStatus
AnyStep(p, statuses) == \E s \in Steps : p.step[s] \in statuses

-----------------------------------------------------------------------------
(* Status changes *)

PlanStatusOf(p) ==
    IF p.status = "aborted" THEN "aborted"
    ELSE IF AllTerminal(p)
         THEN IF AnyStep(p, {"verified"}) THEN "completed" ELSE "failed"
    ELSE IF AnyStep(p, InFlightStatus) THEN "running"
    ELSE IF AnyStep(p, {"failed"})
         THEN IF AnyStep(p, {"pending"}) THEN "running" ELSE "failed"
    ELSE IF \A s \in Steps : p.step[s] = "pending" THEN "pending"
    ELSE "running"

RecomputePlanStatus(p) == [p EXCEPT !.status = PlanStatusOf(p)]

\* What transition accepts without force; skip is never allowed in a run.
MayTransition(p, s, to) ==
    /\ <<p.step[s], to>> \in LegalTransitions
    /\ to # "skipped"
    /\ to = "running" => UnmetDeps(p, s) = {}
    /\ p.step[s] = "done" => (to = "verifying") = (Acceptance[s] # "none")

\* The effect of transition: the steps of T take the status to, and the plan
\* status follows.  That a run asks without force only for what MayTransition
\* accepts, so that nothing is raised, is PlanProperties!TransitionsLegal.
SetSteps(p, T, to) ==
    RecomputePlanStatus(
        [p EXCEPT !.step = [s \in Steps |-> IF s \in T THEN to ELSE @[s]]])

\* Mutant of abort: the caller's word for it instead of the plan status.
Abort_Cancelled(p) == [p EXCEPT !.status = "cancelled"]

Abort(p) == [p EXCEPT !.status = "aborted"]
====
