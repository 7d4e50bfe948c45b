---- MODULE DecisionService ----
(***************************************************************************)
(* Governed business decisions: a two-step plan document, approve-option   *)
(* then execute-action, driven by API and CLI calls of create, decide and  *)
(* execute.  A call loads the document, changes its copy and saves it as a *)
(* whole; execute sends the action to an outside service between two       *)
(* saves.  Nothing locks the document, and the caller may die anywhere.    *)
(***************************************************************************)
EXTENDS Naturals, FiniteSets

CONSTANTS
    Callers,        \* API/CLI calls that may be in progress
    MayRaise,       \* what a call invokes may raise: the executor, another store
    \* Bounds
    MaxCalls, MaxCrashes

ASSUME DecisionAssumption ==
    /\ MayRaise \in BOOLEAN
    /\ {MaxCalls, MaxCrashes} \subseteq Nat

Approval == "approve-option"
Action == "execute-action"

\* The plan document of a decision is one of PlanEngine's.
DecisionSteps == {Approval, Action}
Engine == INSTANCE PlanEngine WITH
    Steps <- DecisionSteps,
    Deps <- [s \in DecisionSteps |-> IF s = Action THEN {Approval} ELSE {}],
    Pos <- [s \in DecisionSteps |-> IF s = Action THEN 2 ELSE 1],
    Mode <- [s \in DecisionSteps |-> "business"],
    Acceptance <- [s \in DecisionSteps |-> IF s = Action THEN "action" ELSE "human"],
    InitialStatus <- [s \in DecisionSteps |->
                        IF s = Action THEN "pending" ELSE "verifying"]

VARIABLES
    disk,     \* the document in PlanStore, or NoDoc
    call,     \* call[c]: what c is doing and its copy of the document
    recorded, \* the decisions calls have saved
    sent,     \* how often the action took effect outside
    events,   \* terminal TaskEvents emitted
    spent     \* calls made, those that died or raised, and those that started
              \* while another was in progress

vars == <<disk, call, recorded, sent, events, spent>>

NoDoc == [plan |-> Engine!InitialPlan, decision |-> "none", execution |-> "none"]

NewDoc == [plan |-> [Engine!InitialPlan EXCEPT !.status = "running"],
           decision |-> "pending", execution |-> "pending"]

Idle == [op |-> "none", at |-> "idle", doc |-> NoDoc]

Init == /\ disk = NoDoc
        /\ call = [c \in Callers |-> Idle]
        /\ recorded = {}
        /\ sent = 0
        /\ events = 0
        /\ spent = [calls |-> 0, crashes |-> 0, raised |-> 0, overlaps |-> 0]

InProgress(c) == call[c].at # "idle"

Overlap == IF \E d \in Callers : InProgress(d) THEN 1 ELSE 0

Start(c) == /\ ~InProgress(c)
            /\ spent.calls < MaxCalls
            /\ spent' = [spent EXCEPT !.calls = @ + 1, !.overlaps = @ + Overlap]
            /\ UNCHANGED <<disk, recorded, sent, events>>

\* The call goes on at a place with its own copy of the document.
Proceed(c, op, at, doc) ==
    call' = [call EXCEPT ![c] = [op |-> op, at |-> at, doc |-> doc]]

Return(c) == call' = [call EXCEPT ![c] = Idle]

Raise(c) == /\ MayRaise
            /\ Return(c)
            /\ spent' = [spent EXCEPT !.raised = @ + 1]

\* transition(): a legal change of one step, the plan status recomputed.
Moved(doc, s, to) == [doc EXCEPT !.plan = Engine!SetSteps(@, {s}, to)]

PlanStatusIs(doc, status) == [doc EXCEPT !.plan.status = status]

-----------------------------------------------------------------------------
(* create and decide *)

LoadCreate(c) ==
    /\ Start(c)
    /\ disk = NoDoc
    /\ Proceed(c, "create", "save", NewDoc)

\* Mutant: a decision that was taken may be taken again, the other way.
Open_Always(doc) == doc.decision # "none"

Open(doc) == doc.decision = "pending"

\* A repeated decision changes nothing and a conflicting one is refused, so
\* only the call that finds the decision open is a step.
LoadDecide(c) ==
    /\ Start(c)
    /\ Open(disk)
    /\ \/ Proceed(c, "approve", "save",
                  [Moved(disk, Approval, "verified") EXCEPT !.decision = "approved"])
       \/ Proceed(c, "reject", "save",
                  [PlanStatusIs(Moved(disk, Approval, "failed"), "failed")
                      EXCEPT !.decision = "rejected"])

Decided(op) == CASE op = "approve" -> {"approved"}
                 [] op = "reject" -> {"rejected"}
                 [] OTHER -> {}

\* Mutant: no TaskEvent follows a rejection.
SaveDecision_Silent(c) ==
    /\ call[c].at = "save"
    /\ disk' = call[c].doc
    /\ recorded' = recorded \cup Decided(call[c].op)
    /\ Return(c)
    /\ UNCHANGED <<sent, events, spent>>

\* A rejection is terminal: its TaskEvent follows the save.
SaveDecision(c) ==
    /\ call[c].at = "save"
    /\ disk' = call[c].doc
    /\ recorded' = recorded \cup Decided(call[c].op)
    /\ IF call[c].op = "reject" THEN Proceed(c, "reject", "report", NoDoc) ELSE Return(c)
    /\ UNCHANGED <<sent, events, spent>>

-----------------------------------------------------------------------------
(* execute *)

\* Mutant: neither the decision nor the gate is looked at.
MayExecute_Forced(doc) == doc.execution = "pending"

MayExecute(doc) == /\ doc.decision = "approved"
                   /\ doc.execution = "pending"
                   /\ Engine!CanStart(doc.plan, Action)

LoadExecute(c) ==
    /\ Start(c)
    /\ MayExecute(disk)
    /\ Proceed(c, "execute", "saveRunning",
               [Moved(disk, Action, "running") EXCEPT !.execution = "running"])

\* Mutant: the action is sent before the store knows it is running.
SaveRunning_Late(c) ==
    /\ call[c].at = "saveRunning"
    /\ Proceed(c, "execute", "act", call[c].doc)
    /\ UNCHANGED <<disk, recorded, sent, events, spent>>

SaveRunning(c) ==
    /\ call[c].at = "saveRunning"
    /\ disk' = call[c].doc
    /\ Proceed(c, "execute", "act", call[c].doc)
    /\ UNCHANGED <<recorded, sent, events, spent>>

Succeeded(doc) == [PlanStatusIs(Moved(doc, Action, "verified"), "completed")
                      EXCEPT !.execution = "completed"]

\* Mutants: the metadata keeps "running", or gets a name of its own.
NotSucceeded_Running(doc) == PlanStatusIs(Moved(doc, Action, "failed"), "failed")
NotSucceeded_Error(doc) == [NotSucceeded_Running(doc) EXCEPT !.execution = "error"]

NotSucceeded(doc) == [PlanStatusIs(Moved(doc, Action, "failed"), "failed")
                         EXCEPT !.execution = "failed"]

\* The executor answers: 2xx; another status, or an error it turned into a
\* result, either of which may follow an effect; or it refused to send.
Act(c) ==
    /\ call[c].at = "act"
    /\ \/ /\ sent' = sent + 1
          /\ Proceed(c, "execute", "saveResult", Succeeded(call[c].doc))
       \/ /\ sent' \in {sent, sent + 1}
          /\ Proceed(c, "execute", "saveResult", NotSucceeded(call[c].doc))
    /\ UNCHANGED <<disk, recorded, events, spent>>

\* An error the executor does not catch (no answer in time) ends the call.
ActRaises(c) ==
    /\ call[c].at = "act"
    /\ sent' \in {sent, sent + 1}
    /\ Raise(c)
    /\ UNCHANGED <<disk, recorded, events>>

SaveResult(c) ==
    /\ call[c].at = "saveResult"
    /\ disk' = call[c].doc
    /\ Proceed(c, "execute", "report", NoDoc)
    /\ UNCHANGED <<recorded, sent, events, spent>>

\* Evidence, TaskEvent and learning, after the store has the outcome.
Report(c) ==
    /\ call[c].at = "report"
    /\ events' = events + 1
    /\ Return(c)
    /\ UNCHANGED <<disk, recorded, sent, spent>>

\* A rejection is learned before its event, evidence is saved before the event
\* of an execution, which is learned last: any of these stores may raise.
ReportRaises(c) ==
    /\ call[c].at = "report"
    /\ events' \in {events} \cup IF call[c].op = "execute" THEN {events + 1} ELSE {}
    /\ Raise(c)
    /\ UNCHANGED <<disk, recorded, sent>>

-----------------------------------------------------------------------------

\* The process dies in the middle of a call.
Crash(c) ==
    /\ InProgress(c)
    /\ spent.crashes < MaxCrashes
    /\ spent' = [spent EXCEPT !.crashes = @ + 1]
    /\ Return(c)
    /\ UNCHANGED <<disk, recorded, sent, events>>

CallStep(c) == \/ SaveDecision(c) \/ SaveRunning(c) \/ Act(c)
               \/ ActRaises(c)    \/ SaveResult(c)  \/ Report(c)
               \/ ReportRaises(c)

Next == \E c \in Callers : \/ LoadCreate(c) \/ LoadDecide(c) \/ LoadExecute(c)
                           \/ CallStep(c)   \/ Crash(c)

Spec == Init /\ [][Next]_vars
====
