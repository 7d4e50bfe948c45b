---- MODULE DecisionProofs ----
(***************************************************************************)
(* Theorems about DecisionService: the records agree and no action goes    *)
(* before an approval under any interleaving of any number of calls; until *)
(* two calls overlap the action takes effect at most once, each outcome   *)
(* leaves one event, and the record implements DecisionContract.           *)
(***************************************************************************)
EXTENDS DecisionProperties, TLAPS

-----------------------------------------------------------------------------
(* The operations on one document *)

\* A transition changes one step and recomputes the plan status.
LEMMA MovedType ==
    ASSUME NEW doc \in Docs, NEW s \in DecisionSteps, NEW to \in Engine!StepStatus
    PROVE /\ Moved(doc, s, to) \in Docs
          /\ Moved(doc, s, to).decision = doc.decision
          /\ Moved(doc, s, to).execution = doc.execution
          /\ Moved(doc, s, to).plan.step =
                [t \in DecisionSteps |-> IF t = s THEN to ELSE doc.plan.step[t]]
          /\ Moved(doc, s, to).plan.status =
                Engine!PlanStatusOf([doc.plan EXCEPT !.step =
                    [t \in DecisionSteps |-> IF t = s THEN to ELSE doc.plan.step[t]]])
<1> DEFINE p == [doc.plan EXCEPT !.step =
                    [t \in DecisionSteps |-> IF t = s THEN to ELSE doc.plan.step[t]]]
           q == [p EXCEPT !.status = Engine!PlanStatusOf(p)]
<1>1. p \in Engine!Plan /\ p.step =
            [t \in DecisionSteps |-> IF t = s THEN to ELSE doc.plan.step[t]]
  BY DEF Docs, Engine!Plan
<1>2. Engine!PlanStatusOf(p) \in Engine!PlanStatus
  BY <1>1 DEF Engine!PlanStatusOf, Engine!PlanStatus
<1>3. q \in Engine!Plan /\ q.step = p.step /\ q.status = Engine!PlanStatusOf(p)
  <2> HIDE DEF p
  <2> QED BY <1>1, <1>2 DEF Engine!Plan
<1>4. Moved(doc, s, to) = [doc EXCEPT !.plan = q]
  BY DEF Moved, Engine!SetSteps, Engine!RecomputePlanStatus, Docs, Engine!Plan
<1> HIDE DEF p, q
<1>5. [doc EXCEPT !.plan = q] \in Docs /\ [doc EXCEPT !.plan = q].plan = q
      /\ [doc EXCEPT !.plan = q].decision = doc.decision
      /\ [doc EXCEPT !.plan = q].execution = doc.execution
  BY <1>3 DEF Docs
<1> QED BY <1>1, <1>3, <1>4, <1>5 DEF p

\* With the approval verified and the action not concluded, the plan runs.
LEMMA StillRunning ==
    ASSUME NEW p, p.status # "aborted", p.step[Approval] = "verified",
           p.step[Action] \in {"pending", "running"}
    PROVE Engine!PlanStatusOf(p) = "running"
<1>1. Approval \in DecisionSteps /\ Action \in DecisionSteps
      /\ DecisionSteps = {Approval, Action}
  BY DEF DecisionSteps
<1>2. ~Engine!AllTerminal(p)
  BY <1>1 DEF Engine!AllTerminal, Engine!TerminalStatus
<1>3. ~Engine!AnyStep(p, {"failed"})
  BY <1>1 DEF Engine!AnyStep
<1>4. ~(\A s \in DecisionSteps : p.step[s] = "pending")
  BY <1>1
<1> QED BY <1>2, <1>3, <1>4 DEF Engine!PlanStatusOf

\* A plan status set by hand changes nothing else.
LEMMA PlanStatusIsType ==
    ASSUME NEW doc \in Docs, NEW st \in Engine!PlanStatus
    PROVE /\ PlanStatusIs(doc, st) \in Docs
          /\ PlanStatusIs(doc, st).decision = doc.decision
          /\ PlanStatusIs(doc, st).execution = doc.execution
          /\ PlanStatusIs(doc, st).plan.step = doc.plan.step
          /\ PlanStatusIs(doc, st).plan.status = st
BY DEF PlanStatusIs, Docs, Engine!Plan

Approve(doc) == [Moved(doc, Approval, "verified") EXCEPT !.decision = "approved"]
Reject(doc) == [PlanStatusIs(Moved(doc, Approval, "failed"), "failed")
                   EXCEPT !.decision = "rejected"]
Running(doc) == [Moved(doc, Action, "running") EXCEPT !.execution = "running"]

\* A document after a change of one step and of the metadata, as far as Agrees
\* looks at it.
LEMMA ApproveAgrees ==
    ASSUME NEW doc \in Docs, Agrees(doc), Open(doc)
    PROVE /\ Approve(doc) \in Docs /\ Agrees(Approve(doc))
          /\ Approve(doc).decision = "approved"
          /\ Approve(doc).execution = doc.execution
<1> DEFINE m == Moved(doc, Approval, "verified")
           steps == [t \in DecisionSteps |->
                       IF t = Approval THEN "verified" ELSE doc.plan.step[t]]
<1>1. Approval \in DecisionSteps /\ "verified" \in Engine!StepStatus
  BY DEF DecisionSteps, Engine!StepStatus
<1>2. /\ m \in Docs /\ m.execution = doc.execution
      /\ m.plan.step = steps
      /\ m.plan.status = Engine!PlanStatusOf([doc.plan EXCEPT !.step = steps])
  BY <1>1, MovedType
<1>3. /\ doc.decision = "pending" /\ doc.execution \in {"none", "pending"}
      /\ doc.plan.step[Action] = "pending" /\ doc.plan.status = "running"
  BY DEF Agrees, Open, Docs, StepsFor, StatusFor, DecisionSteps, Approval, Action
<1>4. m.plan.status = "running"
  <2> DEFINE p == [doc.plan EXCEPT !.step = steps]
  <2> HIDE DEF m
  <2>1. p.status = "running" /\ p.step = steps
    BY <1>2, <1>3 DEF Docs, Engine!Plan
  <2>2. p.step[Approval] = "verified" /\ p.step[Action] = "pending"
    BY <1>2, <1>3, <2>1 DEF DecisionSteps, Approval, Action
  <2> HIDE DEF p
  <2>3. Engine!PlanStatusOf(p) = "running"
    BY <2>1, <2>2, StillRunning
  <2> QED BY <1>2, <2>3 DEF p
<1> DEFINE q == [m EXCEPT !.decision = "approved"]
<1>5. Approve(doc) = q
  BY DEF Approve
<1> HIDE DEF m
<1>6. /\ q \in Docs /\ q.decision = "approved" /\ q.execution = doc.execution
      /\ q.plan = m.plan
  BY <1>2 DEF Docs
<1> HIDE DEF q
<1>7. StepsFor(q) = m.plan.step
  BY <1>2, <1>3, <1>6 DEF StepsFor, DecisionSteps, Approval, Action
<1>8. StatusFor(q) = "running"
  BY <1>3, <1>6 DEF StatusFor
<1> QED BY <1>4, <1>5, <1>6, <1>7, <1>8 DEF Agrees

LEMMA RejectAgrees ==
    ASSUME NEW doc \in Docs, Agrees(doc), Open(doc)
    PROVE /\ Reject(doc) \in Docs /\ Agrees(Reject(doc))
          /\ Reject(doc).decision = "rejected"
          /\ Reject(doc).execution = doc.execution
<1> DEFINE m == Moved(doc, Approval, "failed")
           n == PlanStatusIs(m, "failed")
           q == [n EXCEPT !.decision = "rejected"]
<1>1. /\ Approval \in DecisionSteps /\ "failed" \in Engine!StepStatus
      /\ "failed" \in Engine!PlanStatus
  BY DEF DecisionSteps, Engine!StepStatus, Engine!PlanStatus
<1>2. /\ m \in Docs /\ m.execution = doc.execution
      /\ m.plan.step = [t \in DecisionSteps |->
                          IF t = Approval THEN "failed" ELSE doc.plan.step[t]]
  BY <1>1, MovedType
<1> HIDE DEF m
<1>3. /\ n \in Docs /\ n.execution = doc.execution
      /\ n.plan.step = m.plan.step /\ n.plan.status = "failed"
  BY <1>1, <1>2, PlanStatusIsType
<1>4. /\ doc.execution \in {"none", "pending"} /\ doc.plan.step[Action] = "pending"
  BY DEF Agrees, Open, Docs, StepsFor, DecisionSteps, Approval, Action
<1>5. Reject(doc) = q
  BY DEF Reject, m
<1> HIDE DEF n
<1>6. /\ q \in Docs /\ q.decision = "rejected" /\ q.execution = doc.execution
      /\ q.plan = n.plan
  BY <1>3 DEF Docs
<1> HIDE DEF q
<1>7. StepsFor(q) = m.plan.step
  BY <1>2, <1>4, <1>6 DEF StepsFor, DecisionSteps, Approval, Action
<1>8. StatusFor(q) = "failed"
  BY <1>4, <1>6 DEF StatusFor
<1> QED BY <1>3, <1>4, <1>5, <1>6, <1>7, <1>8 DEF Agrees

LEMMA RunningAgrees ==
    ASSUME NEW doc \in Docs, Agrees(doc), MayExecute(doc)
    PROVE /\ Running(doc) \in Docs /\ Agrees(Running(doc))
          /\ Running(doc).execution = "running"
          /\ Running(doc).decision = "approved"
<1> DEFINE m == Moved(doc, Action, "running")
           steps == [t \in DecisionSteps |->
                       IF t = Action THEN "running" ELSE doc.plan.step[t]]
           q == [m EXCEPT !.execution = "running"]
<1>1. Action \in DecisionSteps /\ "running" \in Engine!StepStatus
  BY DEF DecisionSteps, Engine!StepStatus
<1>2. /\ m \in Docs /\ m.decision = doc.decision
      /\ m.plan.step = steps
      /\ m.plan.status = Engine!PlanStatusOf([doc.plan EXCEPT !.step = steps])
  BY <1>1, MovedType
<1> HIDE DEF m
<1>3. /\ doc.decision = "approved" /\ doc.execution = "pending"
      /\ doc.plan.step[Approval] = "verified" /\ doc.plan.status = "running"
  BY DEF Agrees, MayExecute, StepsFor, StatusFor, DecisionSteps, Approval, Action
<1>4. m.plan.status = "running"
  <2> DEFINE p == [doc.plan EXCEPT !.step = steps]
  <2>1. p.status = "running" /\ p.step = steps
    BY <1>2, <1>3 DEF Docs, Engine!Plan
  <2>2. p.step[Approval] = "verified" /\ p.step[Action] = "running"
    BY <1>2, <1>3, <2>1 DEF DecisionSteps, Approval, Action
  <2> HIDE DEF p
  <2>3. Engine!PlanStatusOf(p) = "running"
    BY <2>1, <2>2, StillRunning
  <2> QED BY <1>2, <2>3 DEF p
<1>5. Running(doc) = q
  BY DEF Running, m
<1>6. /\ q \in Docs /\ q.execution = "running" /\ q.decision = "approved"
      /\ q.plan = m.plan
  BY <1>2, <1>3 DEF Docs
<1> HIDE DEF q
<1>7. StepsFor(q) = m.plan.step
  BY <1>2, <1>3, <1>6 DEF StepsFor, DecisionSteps, Approval, Action
<1>8. StatusFor(q) = "running"
  BY <1>6 DEF StatusFor
<1> QED BY <1>4, <1>5, <1>6, <1>7, <1>8 DEF Agrees

\* The outcome of an action that was running.
LEMMA OutcomeAgrees ==
    ASSUME NEW doc \in Docs, Agrees(doc), doc.execution = "running",
           NEW q \in {Succeeded(doc), NotSucceeded(doc)}
    PROVE /\ q \in Docs /\ Agrees(q) /\ q.execution \in {"completed", "failed"}
          /\ q.decision = "approved"
<1>1. doc.decision = "approved" /\ doc.plan.step[Approval] = "verified"
  BY DEF Agrees, StepsFor, DecisionSteps, Approval, Action
<1>2. ASSUME NEW to \in {"verified", "failed"}, NEW st \in {"completed", "failed"},
             st = (IF to = "verified" THEN "completed" ELSE "failed"),
             q = [PlanStatusIs(Moved(doc, Action, to), st) EXCEPT !.execution = st]
      PROVE /\ q \in Docs /\ Agrees(q) /\ q.execution \in {"completed", "failed"}
            /\ q.decision = "approved"
  <2> DEFINE m == Moved(doc, Action, to)
             n == PlanStatusIs(m, st)
  <2>1. /\ Action \in DecisionSteps /\ to \in Engine!StepStatus
        /\ st \in Engine!PlanStatus
    BY DEF DecisionSteps, Engine!StepStatus, Engine!PlanStatus
  <2>2. /\ m \in Docs /\ m.decision = doc.decision
        /\ m.plan.step = [t \in DecisionSteps |->
                            IF t = Action THEN to ELSE doc.plan.step[t]]
    BY <2>1, MovedType
  <2> HIDE DEF m
  <2>3. /\ n \in Docs /\ n.decision = doc.decision
        /\ n.plan.step = m.plan.step /\ n.plan.status = st
    BY <2>1, <2>2, PlanStatusIsType
  <2>4. q = [n EXCEPT !.execution = st]
    BY <1>2 DEF m
  <2> HIDE DEF n
  <2>5. /\ q \in Docs /\ q.execution = st /\ q.decision = "approved"
        /\ q.plan = n.plan
    BY <1>1, <2>3, <2>4 DEF Docs
  <2>6. StepsFor(q) = m.plan.step
    BY <1>1, <1>2, <2>2, <2>5 DEF StepsFor, DecisionSteps, Approval, Action
  <2>7. StatusFor(q) = st
    BY <2>5 DEF StatusFor
  <2> QED BY <2>3, <2>5, <2>6, <2>7 DEF Agrees
<1>3. CASE q = Succeeded(doc)
  BY <1>2, <1>3 DEF Succeeded
<1>4. CASE q = NotSucceeded(doc)
  BY <1>2, <1>4 DEF NotSucceeded
<1> QED BY <1>3, <1>4

LEMMA NoDocAgrees == NoDoc \in Docs /\ Agrees(NoDoc)
BY DEF NoDoc, Docs, Agrees, StepsFor, StatusFor, Engine!InitialPlan, Engine!Plan,
       Engine!PlanStatus, Engine!StepStatus, Engine!Verdict,
       DecisionSteps, Approval, Action

LEMMA NewDocAgrees ==
    /\ NewDoc \in Docs /\ Agrees(NewDoc)
    /\ NewDoc.decision = "pending" /\ NewDoc.execution = "pending"
BY DEF NewDoc, Docs, Agrees, StepsFor, StatusFor, Engine!InitialPlan, Engine!Plan,
       Engine!PlanStatus, Engine!StepStatus, Engine!Verdict,
       DecisionSteps, Approval, Action

-----------------------------------------------------------------------------
(* Any interleaving *)

\* A step of call c leaves the other calls alone, so it keeps GovernInv if its
\* own new state and the new store are in order.
LEMMA CallFrame ==
    ASSUME GovernInv, NEW c \in Callers, NEW k \in CallStates,
           call' = [call EXCEPT ![c] = k],
           Agrees(k.doc), ApprovalKnown(k)',
           disk' \in Docs, Agrees(disk'),
           disk'.decision = "approved" => "approved" \in recorded',
           recorded \subseteq recorded', recorded' \subseteq {"approved", "rejected"},
           sent' \in Nat, sent' > 0 => "approved" \in recorded',
           events' \in Nat, spent' \in [calls : Nat, crashes : Nat, raised : Nat, overlaps : Nat]
    PROVE GovernInv'
<1>1. TypeOK'
  BY DEF GovernInv, TypeOK
<1>2. ASSUME NEW d \in Callers PROVE Agrees(call'[d].doc) /\ ApprovalKnown(call[d])'
  <2>1. CASE d = c
    <3>1. call'[d] = k
      BY <2>1 DEF GovernInv, TypeOK
    <3> QED BY <3>1 DEF ApprovalKnown
  <2>2. CASE d # c
    <3>1. call'[d] = call[d]
      BY <2>2 DEF GovernInv, TypeOK
    <3>2. Agrees(call[d].doc) /\ ApprovalKnown(call[d])
      BY DEF GovernInv, RecordsAgree
    <3> QED BY <3>1, <3>2 DEF ApprovalKnown
  <2> QED BY <2>1, <2>2
<1>3. RecordsAgree'
  <2>1. \A d \in Callers : Agrees(call'[d].doc)
    BY <1>2
  <2> QED BY <2>1 DEF RecordsAgree, Agrees, StepsFor, StatusFor
<1> QED BY <1>1, <1>2, <1>3 DEF GovernInv, ApprovedFirst

LEMMA IdleAgrees == Idle \in CallStates /\ Agrees(Idle.doc) /\ Idle.at = "idle"
BY NoDocAgrees DEF Idle, CallStates

\* A call that returns, whatever else it did to the counters.
LEMMA ReturnGoverned ==
    ASSUME GovernInv, NEW c \in Callers, Return(c), disk' = disk, recorded' = recorded,
           sent' \in Nat, sent' > 0 => "approved" \in recorded,
           events' \in Nat, spent' \in [calls : Nat, crashes : Nat, raised : Nat, overlaps : Nat]
    PROVE GovernInv'
<1>1. ApprovalKnown(Idle)'
  BY IdleAgrees DEF ApprovalKnown, Idle
<1>2. disk \in Docs /\ Agrees(disk) /\ recorded \subseteq {"approved", "rejected"}
      /\ (disk.decision = "approved" => "approved" \in recorded)
  BY DEF GovernInv, RecordsAgree, TypeOK
<1>3. disk' \in Docs /\ Agrees(disk')
  BY <1>2
<1>4. call' = [call EXCEPT ![c] = Idle]
  BY DEF Return
<1> HIDE DEF Return
<1> QED BY <1>1, <1>2, <1>3, <1>4, IdleAgrees, CallFrame

\* A call that starts counts itself, and as an overlap if another is in progress.
LEMMA StartCounts ==
    ASSUME spent \in [calls : Nat, crashes : Nat, raised : Nat, overlaps : Nat],
           NEW c \in Callers, Start(c)
    PROVE /\ spent' \in [calls : Nat, crashes : Nat, raised : Nat, overlaps : Nat]
          /\ spent'.crashes = spent.crashes /\ spent'.raised = spent.raised
          /\ spent'.overlaps = 0 => spent.overlaps = 0 /\ ~\E d \in Callers : InProgress(d)
<1> DEFINE s == [spent EXCEPT !.calls = @ + 1]
<1>1. Overlap \in Nat /\ (Overlap = 0 => ~\E d \in Callers : InProgress(d))
  BY DEF Overlap
<1>2. /\ s \in [calls : Nat, crashes : Nat, raised : Nat, overlaps : Nat]
      /\ s.crashes = spent.crashes /\ s.raised = spent.raised
      /\ s.overlaps = spent.overlaps
  OBVIOUS
<1>3. spent' = [s EXCEPT !.overlaps = s.overlaps + Overlap]
  BY <1>2 DEF Start
<1> HIDE DEF s
<1> QED BY <1>1, <1>2, <1>3

LEMMA StartGoverned ==
    ASSUME GovernInv, NEW c \in Callers,
           LoadCreate(c) \/ LoadDecide(c) \/ LoadExecute(c)
    PROVE GovernInv'
<1>0. /\ disk \in Docs /\ Agrees(disk) /\ recorded \subseteq {"approved", "rejected"}
      /\ disk.decision = "approved" => "approved" \in recorded
      /\ sent \in Nat /\ (sent > 0 => "approved" \in recorded) /\ events \in Nat
  BY DEF GovernInv, RecordsAgree, TypeOK, ApprovedFirst
<1>1. /\ disk' = disk /\ recorded' = recorded /\ sent' = sent /\ events' = events
      /\ spent' \in [calls : Nat, crashes : Nat, raised : Nat, overlaps : Nat]
  <2>1. Start(c)
    BY DEF LoadCreate, LoadDecide, LoadExecute
  <2> QED BY <2>1, StartCounts DEF Start, GovernInv, TypeOK
<1>2. ASSUME NEW k \in CallStates, call' = [call EXCEPT ![c] = k], Agrees(k.doc),
             ApprovalKnown(k)
      PROVE GovernInv'
  <2>1. ApprovalKnown(k)'
    BY <1>1, <1>2 DEF ApprovalKnown
  <2> QED BY <1>0, <1>1, <1>2, <2>1, CallFrame
<1>3. CASE LoadCreate(c)
  <2> DEFINE k == [op |-> "create", at |-> "save", doc |-> NewDoc]
  <2>1. k \in CallStates /\ Agrees(k.doc) /\ ApprovalKnown(k)
    BY NewDocAgrees DEF CallStates, ApprovalKnown
  <2>2. call' = [call EXCEPT ![c] = k]
    BY <1>3 DEF LoadCreate, Proceed
  <2> QED BY <1>2, <2>1, <2>2
<1>4. CASE LoadDecide(c)
  <2>1. Open(disk)
    BY <1>4 DEF LoadDecide
  <2>2. CASE Proceed(c, "approve", "save", Approve(disk))
    <3> DEFINE k == [op |-> "approve", at |-> "save", doc |-> Approve(disk)]
    <3>1. k \in CallStates /\ Agrees(k.doc) /\ ApprovalKnown(k)
      BY <1>0, <2>1, ApproveAgrees DEF CallStates, ApprovalKnown
    <3>2. call' = [call EXCEPT ![c] = k]
      BY <2>2 DEF Proceed
    <3> QED BY <1>2, <3>1, <3>2
  <2>3. CASE Proceed(c, "reject", "save", Reject(disk))
    <3> DEFINE k == [op |-> "reject", at |-> "save", doc |-> Reject(disk)]
    <3>1. k \in CallStates /\ Agrees(k.doc) /\ ApprovalKnown(k)
      BY <1>0, <2>1, RejectAgrees DEF CallStates, ApprovalKnown
    <3>2. call' = [call EXCEPT ![c] = k]
      BY <2>3 DEF Proceed
    <3> QED BY <1>2, <3>1, <3>2
  <2> QED BY <1>4, <2>2, <2>3 DEF LoadDecide, Approve, Reject
<1>5. CASE LoadExecute(c)
  <2> DEFINE k == [op |-> "execute", at |-> "saveRunning", doc |-> Running(disk)]
  <2>1. MayExecute(disk) /\ disk.decision = "approved"
    BY <1>5 DEF LoadExecute, MayExecute
  <2>2. k \in CallStates /\ Agrees(k.doc) /\ ApprovalKnown(k)
    BY <1>0, <2>1, RunningAgrees DEF CallStates, ApprovalKnown
  <2>3. call' = [call EXCEPT ![c] = k]
    BY <1>5 DEF LoadExecute, Proceed, Running
  <2> QED BY <1>2, <2>2, <2>3
<1> QED BY <1>3, <1>4, <1>5

LEMMA CallStepGoverned ==
    ASSUME GovernInv, NEW c \in Callers, CallStep(c)
    PROVE GovernInv'
<1> DEFINE doc == call[c].doc
<1>0. /\ disk \in Docs /\ Agrees(disk) /\ recorded \subseteq {"approved", "rejected"}
      /\ disk.decision = "approved" => "approved" \in recorded
      /\ sent \in Nat /\ (sent > 0 => "approved" \in recorded) /\ events \in Nat
      /\ spent \in [calls : Nat, crashes : Nat, raised : Nat, overlaps : Nat]
  BY DEF GovernInv, RecordsAgree, TypeOK, ApprovedFirst
<1>1. /\ call[c] \in CallStates /\ doc \in Docs /\ Agrees(doc)
      /\ ApprovalKnown(call[c])
  BY DEF GovernInv, RecordsAgree, TypeOK, CallStates
<1>2. sent + 1 \in Nat /\ events + 1 \in Nat
      /\ [spent EXCEPT !.raised = @ + 1] \in [calls : Nat, crashes : Nat, raised : Nat, overlaps : Nat]
  BY <1>0
<1>3. CASE SaveDecision(c)
  <2>1. /\ disk' = doc /\ recorded' = recorded \cup Decided(call[c].op)
        /\ sent' = sent /\ events' = events /\ spent' = spent /\ call[c].at = "save"
    BY <1>3 DEF SaveDecision
  <2>2. disk' \in Docs /\ Agrees(disk')
    BY <1>1, <2>1
  <2>3. /\ recorded \subseteq recorded' /\ recorded' \subseteq {"approved", "rejected"}
        /\ disk'.decision = "approved" => "approved" \in recorded'
    BY <1>0, <1>1, <2>1 DEF ApprovalKnown, Decided
  <2>4. PICK k \in {Idle, [op |-> "reject", at |-> "report", doc |-> NoDoc]} :
            call' = [call EXCEPT ![c] = k]
    BY <1>3 DEF SaveDecision, Proceed, Return
  <2>5. k \in CallStates /\ Agrees(k.doc) /\ k.at \in {"idle", "report"}
    BY IdleAgrees, NoDocAgrees DEF CallStates
  <2>6. ApprovalKnown(k)'
    BY <2>5 DEF ApprovalKnown
  <2> QED BY <1>0, <2>1, <2>2, <2>3, <2>4, <2>5, <2>6, CallFrame
<1>4. CASE SaveRunning(c)
  <2>1. /\ disk' = doc /\ recorded' = recorded /\ sent' = sent /\ events' = events
        /\ spent' = spent /\ call[c].at = "saveRunning"
    BY <1>4 DEF SaveRunning
  <2>2. PICK d \in Docs : d = doc
    BY <1>1
  <2> DEFINE k == [op |-> "execute", at |-> "act", doc |-> d]
  <2>3. k \in CallStates /\ Agrees(k.doc)
    BY <1>1, <2>2 DEF CallStates
  <2>4. d.execution = "running" /\ "approved" \in recorded
    BY <1>1, <2>1, <2>2 DEF ApprovalKnown
  <2>5. ApprovalKnown(k)'
    BY <2>1, <2>4 DEF ApprovalKnown
  <2>6. call' = [call EXCEPT ![c] = k]
    BY <1>4, <2>2 DEF SaveRunning, Proceed
  <2>7. disk' \in Docs /\ Agrees(disk')
    BY <1>1, <2>1
  <2> HIDE DEF k
  <2> QED BY <1>0, <2>1, <2>3, <2>4, <2>5, <2>6, <2>7, CallFrame
<1>5. CASE Act(c)
  <2>1. /\ disk' = disk /\ recorded' = recorded /\ events' = events /\ spent' = spent
        /\ call[c].at = "act" /\ sent' \in {sent, sent + 1}
    BY <1>5 DEF Act
  <2>2. doc.execution = "running" /\ "approved" \in recorded
    BY <1>1, <2>1 DEF ApprovalKnown
  <2>3. PICK q \in {Succeeded(doc), NotSucceeded(doc)} :
            call' = [call EXCEPT ![c] = [op |-> "execute", at |-> "saveResult", doc |-> q]]
    BY <1>5 DEF Act, Proceed
  <2>4. q \in Docs /\ Agrees(q)
    BY <1>1, <2>2, OutcomeAgrees
  <2> DEFINE k == [op |-> "execute", at |-> "saveResult", doc |-> q]
  <2>5. k \in CallStates /\ Agrees(k.doc) /\ ApprovalKnown(k)'
    BY <2>1, <2>2, <2>4 DEF CallStates, ApprovalKnown
  <2>6. disk' \in Docs /\ Agrees(disk')
    BY <1>0, <2>1
  <2> HIDE DEF k
  <2>7. call' = [call EXCEPT ![c] = k]
    BY <2>3 DEF k
  <2> QED BY <1>0, <1>2, <2>1, <2>2, <2>5, <2>6, <2>7, CallFrame
<1>6. CASE ActRaises(c)
  <2>1. "approved" \in recorded
    BY <1>1, <1>6 DEF ApprovalKnown, ActRaises
  <2> QED BY <1>0, <1>2, <1>6, <2>1, ReturnGoverned DEF ActRaises, Raise
<1>7. CASE SaveResult(c)
  <2> DEFINE k == [op |-> "execute", at |-> "report", doc |-> NoDoc]
  <2>1. /\ disk' = doc /\ recorded' = recorded /\ sent' = sent /\ events' = events
        /\ spent' = spent /\ call[c].at = "saveResult"
        /\ call' = [call EXCEPT ![c] = k]
    BY <1>7 DEF SaveResult, Proceed
  <2>2. k \in CallStates /\ Agrees(k.doc) /\ ApprovalKnown(k)'
    BY NoDocAgrees DEF CallStates, ApprovalKnown
  <2>3. "approved" \in recorded
    BY <1>1, <2>1 DEF ApprovalKnown
  <2>4. disk' \in Docs /\ Agrees(disk')
    BY <1>1, <2>1
  <2> QED BY <1>0, <2>1, <2>2, <2>3, <2>4, CallFrame
<1>8. CASE Report(c)
  BY <1>0, <1>2, <1>8, ReturnGoverned DEF Report
<1>9. CASE ReportRaises(c)
  <2>1. events' \in {events, events + 1}
    BY <1>9 DEF ReportRaises
  <2> QED BY <1>0, <1>2, <1>9, <2>1, ReturnGoverned DEF ReportRaises, Raise
<1> QED BY <1>3, <1>4, <1>5, <1>6, <1>7, <1>8, <1>9 DEF CallStep

LEMMA GovernStep == GovernInv /\ [Next]_vars => GovernInv'
<1> SUFFICES ASSUME GovernInv, [Next]_vars PROVE GovernInv'
  OBVIOUS
<1>1. ASSUME NEW c \in Callers, LoadCreate(c) \/ LoadDecide(c) \/ LoadExecute(c)
      PROVE GovernInv'
  BY <1>1, StartGoverned
<1>2. ASSUME NEW c \in Callers, CallStep(c) PROVE GovernInv'
  BY <1>2, CallStepGoverned
<1>3. ASSUME NEW c \in Callers, Crash(c) PROVE GovernInv'
  <2>1. sent \in Nat /\ (sent > 0 => "approved" \in recorded) /\ events \in Nat
        /\ [spent EXCEPT !.crashes = @ + 1] \in [calls : Nat, crashes : Nat, raised : Nat, overlaps : Nat]
    BY DEF GovernInv, TypeOK, ApprovedFirst
  <2> QED BY <1>3, <2>1, ReturnGoverned DEF Crash
<1>4. CASE UNCHANGED vars
  BY <1>4 DEF vars, GovernInv, TypeOK, RecordsAgree, Agrees, StepsFor, StatusFor,
              ApprovedFirst, ApprovalKnown
<1> QED BY <1>1, <1>2, <1>3, <1>4 DEF Next

LEMMA GovernInit == Init => GovernInv
<1> SUFFICES ASSUME Init PROVE GovernInv
  OBVIOUS
<1>1. TypeOK
  BY IdleAgrees, NoDocAgrees DEF Init, TypeOK
<1>2. RecordsAgree /\ ApprovedFirst
  BY IdleAgrees, NoDocAgrees DEF Init, RecordsAgree, ApprovedFirst
<1>3. disk.decision # "approved" /\ \A c \in Callers : ApprovalKnown(call[c])
  BY IdleAgrees DEF Init, NoDoc, ApprovalKnown
<1> QED BY <1>1, <1>2, <1>3 DEF GovernInv

\* Every variable keeps its type, whatever calls overlap, die or raise.
THEOREM TypeCorrect == Spec => []TypeOK
<1>1. GovernInv => TypeOK
  BY DEF GovernInv
<1> QED BY <1>1, GovernInit, GovernStep, PTL DEF Spec

\* Whatever calls overlap, die or raise, the decision metadata, the steps and
\* the plan status agree in the store and in every copy.
THEOREM RecordsAlwaysAgree == Spec => []RecordsAgree
<1>1. GovernInv => RecordsAgree
  BY DEF GovernInv
<1> QED BY <1>1, GovernInit, GovernStep, PTL DEF Spec

\* Whatever calls overlap, die or raise, nothing is sent before an approval was
\* saved.
THEOREM ApprovedFirstHolds == Spec => []ApprovedFirst
<1>1. GovernInv => ApprovedFirst
  BY DEF GovernInv
<1> QED BY <1>1, GovernInit, GovernStep, PTL DEF Spec

-----------------------------------------------------------------------------
(* Until two calls overlap *)

\* When no other call is in progress, SerialInv is kept by a step that leaves
\* c's new state, the store and the count of sends in order.
LEMMA SerialFrame ==
    ASSUME GovernInv', NEW c \in Callers,
           \A d \in Callers \ {c} : ~InProgress(d) /\ call'[d] = call[d],
           call'[c].at = "act" => disk'.execution = "running",
           call'[c].at = "saveResult" => call'[c].doc.execution \in {"completed", "failed"},
           sent' <= 1,
           sent' > 0 => /\ disk'.execution \notin {"none", "pending"}
                        /\ call'[c].at \in {"idle", "saveResult", "report"}
    PROVE SerialInv'
<1>1. \A d \in Callers : d # c => call'[d].at = "idle"
  BY DEF InProgress
<1>2. \A d \in Callers : call'[d].at # "idle" => d = c
  BY <1>1
<1>3. \A d \in Callers : call'[d].at = "act" => disk'.execution = "running"
  BY <1>1
<1>4. \A d \in Callers : call'[d].at = "saveResult" =>
            call'[d].doc.execution \in {"completed", "failed"}
  BY <1>1
<1>5. sent' > 0 => /\ disk'.execution \notin {"none", "pending"}
                   /\ \A d \in Callers : call'[d].at \in {"idle", "saveResult", "report"}
  BY <1>1
<1> QED BY <1>2, <1>3, <1>4, <1>5 DEF SerialInv, InProgress, ActsOnce

\* What a call's own record is after it went on, or returned.
LEMMA CallMoves ==
    ASSUME call \in [Callers -> CallStates], NEW c \in Callers
    PROVE /\ \A op, at, doc : Proceed(c, op, at, doc) =>
                /\ call'[c].op = op /\ call'[c].at = at /\ call'[c].doc = doc
                /\ \A d \in Callers \ {c} : call'[d] = call[d]
          /\ Return(c) => /\ call'[c].at = "idle"
                          /\ \A d \in Callers \ {c} : call'[d] = call[d]
BY IdleAgrees DEF Proceed, Return

LEMMA SerialStart ==
    ASSUME Alone', SerialInv, GovernInv', NEW c \in Callers,
           LoadCreate(c) \/ LoadDecide(c) \/ LoadExecute(c)
    PROVE SerialInv'
<1>1. /\ call \in [Callers -> CallStates] /\ disk \in Docs /\ Agrees(disk)
      /\ sent \in Nat /\ (sent > 0 => disk.execution \notin {"none", "pending"})
      /\ spent \in [calls : Nat, crashes : Nat, raised : Nat, overlaps : Nat]
  BY DEF SerialInv, GovernInv, TypeOK, RecordsAgree
<1>2. Start(c)
  BY DEF LoadCreate, LoadDecide, LoadExecute
<1>3. disk.execution \in {"none", "pending"}
  BY <1>1 DEF LoadCreate, LoadDecide, LoadExecute, NoDoc, Open, MayExecute, Agrees, Docs
<1>4. sent' = 0
  BY <1>1, <1>2, <1>3 DEF Start
<1>5. /\ call'[c].at \in {"save", "saveRunning"}
      /\ \A d \in Callers \ {c} : call'[d] = call[d]
  BY <1>1, CallMoves DEF LoadCreate, LoadDecide, LoadExecute
<1>6. \A d \in Callers : ~InProgress(d)
  BY <1>1, <1>2, StartCounts DEF Alone
<1> QED BY <1>4, <1>5, <1>6, SerialFrame

LEMMA SerialCallStep ==
    ASSUME SerialInv, GovernInv', NEW c \in Callers, CallStep(c)
    PROVE SerialInv'
<1>1. /\ call \in [Callers -> CallStates] /\ sent \in Nat /\ sent <= 1
      /\ ApprovalKnown(call[c])
      /\ sent > 0 => /\ disk.execution \notin {"none", "pending"}
                     /\ call[c].at \in {"idle", "saveResult", "report"}
      /\ call[c].at = "act" => disk.execution = "running"
      /\ call[c].at = "saveResult" => call[c].doc.execution \in {"completed", "failed"}
  BY DEF SerialInv, GovernInv, TypeOK, ActsOnce
<1>2. InProgress(c)
  BY DEF CallStep, SaveDecision, SaveRunning, Act, ActRaises, SaveResult, Report,
         ReportRaises, InProgress
<1>3. \A d \in Callers \ {c} : ~InProgress(d) /\ call'[d] = call[d]
  <2>1. \A d \in Callers \ {c} : ~InProgress(d)
    BY <1>2 DEF SerialInv
  <2>2. \A d \in Callers \ {c} : call'[d] = call[d]
    BY <1>1, CallMoves DEF CallStep, SaveDecision, SaveRunning, Act, ActRaises,
                           SaveResult, Report, ReportRaises, Raise
  <2> QED BY <2>1, <2>2
<1>4. CASE SaveDecision(c)
  <2>1. sent' = sent /\ sent = 0
    BY <1>1, <1>4 DEF SaveDecision
  <2>2. call'[c].at \in {"idle", "report"}
    BY <1>1, <1>4, CallMoves DEF SaveDecision
  <2> QED BY <1>3, <2>1, <2>2, SerialFrame
<1>5. CASE SaveRunning(c)
  <2>1. sent' = sent /\ sent = 0 /\ disk'.execution = "running"
    BY <1>1, <1>5 DEF SaveRunning, ApprovalKnown
  <2>2. call'[c].at = "act"
    BY <1>1, <1>5, CallMoves DEF SaveRunning
  <2> QED BY <1>3, <2>1, <2>2, SerialFrame
<1>6. CASE Act(c)
  <2>1. disk' = disk /\ disk.execution = "running" /\ sent' \in {0, 1}
    BY <1>1, <1>6 DEF Act
  <2>2. /\ call[c].doc \in Docs /\ Agrees(call[c].doc)
        /\ call[c].doc.execution = "running"
    BY <1>1, <1>6 DEF Act, ApprovalKnown, CallStates, SerialInv, GovernInv, RecordsAgree
  <2>3. PICK q \in {Succeeded(call[c].doc), NotSucceeded(call[c].doc)} :
            Proceed(c, "execute", "saveResult", q)
    BY <1>6 DEF Act
  <2>4. q.execution \in {"completed", "failed"}
    BY <2>2, OutcomeAgrees
  <2>5. call'[c].at = "saveResult" /\ call'[c].doc.execution \in {"completed", "failed"}
    BY <1>1, <2>3, <2>4, CallMoves
  <2> QED BY <1>3, <2>1, <2>5, SerialFrame
<1>7. CASE SaveResult(c)
  <2>1. sent' = sent /\ disk'.execution \in {"completed", "failed"}
    BY <1>1, <1>7 DEF SaveResult
  <2>2. call'[c].at = "report"
    BY <1>1, <1>7, CallMoves DEF SaveResult
  <2> QED BY <1>1, <1>3, <2>1, <2>2, SerialFrame
<1>8. CASE ActRaises(c) \/ Report(c) \/ ReportRaises(c)
  <2>1. disk' = disk /\ call'[c].at = "idle"
    BY <1>1, <1>8, CallMoves DEF ActRaises, Report, ReportRaises, Raise
  <2>2. sent' <= 1 /\ (sent' > 0 => disk'.execution \notin {"none", "pending"})
    BY <1>1, <1>8 DEF ActRaises, Report, ReportRaises
  <2> QED BY <1>3, <2>1, <2>2, SerialFrame
<1> QED BY <1>4, <1>5, <1>6, <1>7, <1>8 DEF CallStep

LEMMA SerialStep == Alone' /\ SerialInv /\ [Next]_vars => SerialInv'
<1> SUFFICES ASSUME Alone', SerialInv, [Next]_vars PROVE SerialInv'
  OBVIOUS
<1>1. GovernInv'
  BY GovernStep DEF SerialInv
<1>2. ASSUME NEW c \in Callers, LoadCreate(c) \/ LoadDecide(c) \/ LoadExecute(c)
      PROVE SerialInv'
  BY <1>1, <1>2, SerialStart
<1>3. ASSUME NEW c \in Callers, CallStep(c) PROVE SerialInv'
  BY <1>1, <1>3, SerialCallStep
<1>4. ASSUME NEW c \in Callers, Crash(c) PROVE SerialInv'
  <2>1. call \in [Callers -> CallStates]
    BY DEF SerialInv, GovernInv, TypeOK
  <2>2. /\ disk' = disk /\ sent' = sent /\ call'[c].at = "idle"
        /\ \A d \in Callers \ {c} : ~InProgress(d) /\ call'[d] = call[d]
    BY <1>4, <2>1, CallMoves DEF Crash, SerialInv
  <2>3. sent' <= 1 /\ (sent' > 0 => disk'.execution \notin {"none", "pending"})
    BY <2>2 DEF SerialInv, ActsOnce
  <2> QED BY <1>1, <2>2, <2>3, SerialFrame
<1>5. CASE UNCHANGED vars
  BY <1>1, <1>5 DEF vars, SerialInv, InProgress, ActsOnce
<1> QED BY <1>2, <1>3, <1>4, <1>5 DEF Next

LEMMA SerialInit == Init => SerialInv
<1> SUFFICES ASSUME Init PROVE SerialInv
  OBVIOUS
<1>1. sent = 0 /\ \A c \in Callers : call[c].at = "idle"
  BY IdleAgrees DEF Init
<1> QED BY <1>1, GovernInit DEF SerialInv, InProgress, ActsOnce

-----------------------------------------------------------------------------
(* Until two calls overlap: the contract and the events *)

\* Before the step c was the only call that may be in progress, and its own new
\* state and the new store fit together.
LEMMA ContractFrame ==
    ASSUME SerialInv', NEW c \in Callers,
           \A d \in Callers \ {c} : call'[d].at = "idle",
           (disk'.decision = "none") = (disk'.execution = "none"),
           Ahead(call[c])',
           spent'.crashes = 0 /\ spent'.raised = 0 =>
                events' = IF Ended(disk') /\ call'[c].at # "report" THEN 1 ELSE 0
    PROVE ContractInv'
<1>1. ASSUME NEW d \in Callers PROVE Ahead(call[d])'
  <2>1. CASE d = c
    BY <2>1
  <2>2. CASE d # c
    <3>1. call'[d].at = "idle"
      BY <2>2
    <3> QED BY <3>1 DEF Ahead
  <2> QED BY <2>1, <2>2
<1>2. (\A d \in Callers : call'[d].at # "report") <=> call'[c].at # "report"
  <2>1. \A d \in Callers : d # c => call'[d].at # "report"
    OBVIOUS
  <2> QED BY <2>1
<1>3. EventsFit'
  BY <1>2 DEF EventsFit, Ended
<1> QED BY <1>1, <1>3 DEF ContractInv

LEMMA ContractStart ==
    ASSUME Alone', ContractInv, SerialInv', NEW c \in Callers,
           LoadCreate(c) \/ LoadDecide(c) \/ LoadExecute(c)
    PROVE ContractInv'
<1>1. /\ call \in [Callers -> CallStates] /\ disk \in Docs /\ Agrees(disk)
      /\ (disk.decision = "none") = (disk.execution = "none")
      /\ spent \in [calls : Nat, crashes : Nat, raised : Nat, overlaps : Nat]
  BY DEF ContractInv, SerialInv, GovernInv, TypeOK, RecordsAgree
<1>2. Start(c)
  BY DEF LoadCreate, LoadDecide, LoadExecute
<1>3. \A d \in Callers : call[d].at = "idle"
  BY <1>1, <1>2, StartCounts DEF InProgress, Alone
<1>4. /\ disk' = disk /\ events' = events
      /\ spent'.crashes = spent.crashes /\ spent'.raised = spent.raised
  BY <1>1, <1>2, StartCounts DEF Start
<1>5. spent.crashes = 0 /\ spent.raised = 0 => events = IF Ended(disk) THEN 1 ELSE 0
  BY <1>3 DEF ContractInv, EventsFit
<1>6. ~Ended(disk)
  BY <1>1 DEF LoadCreate, LoadDecide, LoadExecute, NoDoc, Open, MayExecute, Agrees, Docs,
              Ended
<1>7. /\ \A d \in Callers \ {c} : call'[d].at = "idle"
      /\ call'[c].at \in {"save", "saveRunning"}
  BY <1>1, <1>3, CallMoves DEF LoadCreate, LoadDecide, LoadExecute
<1>8. Ahead(call[c])'
  <2>1. CASE LoadCreate(c)
    <3>1. /\ call'[c].op = "create" /\ call'[c].at = "save" /\ call'[c].doc = NewDoc
          /\ disk.decision = "none"
      BY <1>1, <2>1, CallMoves DEF LoadCreate, NoDoc
    <3> QED BY <1>4, <3>1, NewDocAgrees DEF Ahead
  <2>2. CASE LoadDecide(c)
    <3>1. disk.decision = "pending" /\ disk.execution = "pending"
      BY <1>1, <2>2 DEF LoadDecide, Open, Agrees, Docs
    <3>2. CASE Proceed(c, "approve", "save", Approve(disk))
      <4>1. Approve(disk).decision = "approved" /\ Approve(disk).execution = "pending"
        BY <1>1, <3>1, ApproveAgrees DEF Open
      <4> HIDE DEF Approve
      <4>2. call'[c].op = "approve" /\ call'[c].at = "save" /\ call'[c].doc = Approve(disk)
        BY <1>1, <3>2, CallMoves
      <4> QED BY <1>4, <3>1, <4>1, <4>2 DEF Ahead
    <3>3. CASE Proceed(c, "reject", "save", Reject(disk))
      <4>1. Reject(disk).decision = "rejected" /\ Reject(disk).execution = "pending"
        BY <1>1, <3>1, RejectAgrees DEF Open
      <4>2. call'[c].op = "reject" /\ call'[c].at = "save" /\ call'[c].doc = Reject(disk)
        BY <1>1, <3>3, CallMoves
      <4> QED BY <1>4, <3>1, <4>1, <4>2 DEF Ahead
    <3> QED BY <2>2, <3>2, <3>3 DEF LoadDecide, Approve, Reject
  <2>3. CASE LoadExecute(c)
    <3>1. disk.decision = "approved" /\ disk.execution = "pending"
      BY <2>3 DEF LoadExecute, MayExecute
    <3>2. Running(disk).decision = "approved"
      BY <1>1, <2>3, <3>1, RunningAgrees DEF LoadExecute
    <3>3. call'[c].at = "saveRunning" /\ call'[c].doc = Running(disk)
      BY <1>1, <2>3, CallMoves DEF LoadExecute, Running
    <3> QED BY <1>4, <3>1, <3>2, <3>3 DEF Ahead
  <2> QED BY <2>1, <2>2, <2>3
<1>9. spent'.crashes = 0 /\ spent'.raised = 0 =>
        events' = IF Ended(disk') /\ call'[c].at # "report" THEN 1 ELSE 0
  BY <1>4, <1>5, <1>6
<1> QED BY <1>1, <1>4, <1>7, <1>8, <1>9, ContractFrame

\* What ContractInv says while call c is the one in progress.
LEMMA OnlyCall ==
    ASSUME ContractInv, NEW c \in Callers, InProgress(c)
    PROVE /\ call \in [Callers -> CallStates] /\ disk \in Docs
          /\ call[c].doc \in Docs
          /\ spent \in [calls : Nat, crashes : Nat, raised : Nat, overlaps : Nat]
          /\ \A d \in Callers \ {c} : call[d].at = "idle"
          /\ (disk.decision = "none") = (disk.execution = "none")
          /\ Ahead(call[c])
          /\ spent.crashes = 0 /\ spent.raised = 0 =>
                events = IF Ended(disk) /\ call[c].at # "report" THEN 1 ELSE 0
<1>1. /\ call \in [Callers -> CallStates] /\ disk \in Docs
      /\ spent \in [calls : Nat, crashes : Nat, raised : Nat, overlaps : Nat]
      /\ (disk.decision = "none") = (disk.execution = "none")
      /\ Ahead(call[c])
  BY DEF ContractInv, SerialInv, GovernInv, TypeOK
<1>2. call[c].doc \in Docs
  BY <1>1 DEF CallStates
<1>3. \A d \in Callers \ {c} : call[d].at = "idle"
  BY DEF ContractInv, SerialInv, InProgress
<1>4. (\A d \in Callers : call[d].at # "report") <=> call[c].at # "report"
  <2>1. \A d \in Callers : d # c => call[d].at # "report"
    BY <1>3
  <2> QED BY <2>1
<1> QED BY <1>1, <1>2, <1>3, <1>4 DEF ContractInv, EventsFit

LEMMA ContractCallStep ==
    ASSUME ContractInv, SerialInv', NEW c \in Callers, CallStep(c)
    PROVE ContractInv'
<1>0. InProgress(c)
  BY DEF CallStep, SaveDecision, SaveRunning, Act, ActRaises, SaveResult, Report,
         ReportRaises, InProgress
<1> DEFINE Counted == spent.crashes = 0 /\ spent.raised = 0 =>
                events = IF Ended(disk) /\ call[c].at # "report" THEN 1 ELSE 0
<1>1. /\ call \in [Callers -> CallStates] /\ disk \in Docs
      /\ call[c].doc \in Docs
      /\ spent \in [calls : Nat, crashes : Nat, raised : Nat, overlaps : Nat]
      /\ \A d \in Callers \ {c} : call[d].at = "idle"
      /\ (disk.decision = "none") = (disk.execution = "none")
      /\ Ahead(call[c])
      /\ Counted
  BY <1>0, OnlyCall
<1>2. \A d \in Callers \ {c} : call'[d].at = "idle"
  BY <1>1, CallMoves DEF CallStep, SaveDecision, SaveRunning, Act, ActRaises,
                         SaveResult, Report, ReportRaises, Raise
<1>3. CASE SaveDecision(c)
  <2>1. /\ disk' = call[c].doc /\ events' = events /\ spent' = spent
        /\ call[c].at = "save"
        /\ call'[c].at = IF call[c].op = "reject" THEN "report" ELSE "idle"
    BY <1>1, <1>3, CallMoves DEF SaveDecision
  <2>2. ~Ended(disk) /\ (Ended(disk') <=> call[c].op = "reject")
    <3>1. /\ disk.decision \in {"none", "pending"}
          /\ call[c].doc.execution = "pending"
          /\ call[c].doc.decision = "rejected" <=> call[c].op = "reject"
      BY <1>1, <2>1 DEF Ahead
    <3>2. disk.execution \in {"none", "pending"}
      BY <3>1, <1>1 DEF ContractInv, SerialInv, GovernInv, RecordsAgree, Agrees, Docs
    <3> QED BY <2>1, <3>1, <3>2 DEF Ended
  <2>3. (disk'.decision = "none") = (disk'.execution = "none")
    BY <1>1, <2>1 DEF Ahead
  <2>4. Ahead(call[c])'
    BY <2>1, <2>2 DEF Ahead, Ended
  <2> QED BY <1>1, <1>2, <2>1, <2>2, <2>3, <2>4, ContractFrame
<1>4. CASE SaveRunning(c)
  <2>1. /\ disk' = call[c].doc /\ events' = events /\ spent' = spent
        /\ call[c].at = "saveRunning"
        /\ call'[c].at = "act" /\ call'[c].doc = call[c].doc
    BY <1>1, <1>4, CallMoves DEF SaveRunning
  <2>2. disk'.decision = "approved" /\ disk'.execution = "running"
    <3>1. call[c].doc.execution = "running"
      BY <2>1 DEF ContractInv, SerialInv, GovernInv, ApprovalKnown
    <3> QED BY <1>1, <2>1, <3>1 DEF Ahead
  <2>3. ~Ended(disk) /\ ~Ended(disk')
    BY <1>1, <2>1, <2>2 DEF Ahead, Ended
  <2>4. Ahead(call[c])'
    BY <2>1, <2>2 DEF Ahead
  <2> QED BY <1>1, <1>2, <2>1, <2>2, <2>3, <2>4, ContractFrame
<1>5. CASE Act(c)
  <2>1. /\ disk' = disk /\ events' = events /\ spent' = spent
        /\ call[c].at = "act"
    BY <1>5 DEF Act
  <2>2. /\ disk.decision = "approved" /\ disk.execution = "running" /\ ~Ended(disk)
    BY <1>1, <2>1 DEF Ahead, Ended
  <2>3. PICK q \in {Succeeded(call[c].doc), NotSucceeded(call[c].doc)} :
            Proceed(c, "execute", "saveResult", q)
    BY <1>5 DEF Act
  <2>4. Agrees(call[c].doc) /\ call[c].doc.execution = "running"
    BY <2>1 DEF ContractInv, SerialInv, GovernInv, RecordsAgree, ApprovalKnown
  <2>5. q.decision = "approved"
    BY <1>1, <2>4, OutcomeAgrees
  <2>6. call'[c].at = "saveResult" /\ call'[c].doc = q
    BY <1>1, <2>3, CallMoves
  <2>7. Ahead(call[c])'
    BY <2>1, <2>2, <2>5, <2>6 DEF Ahead
  <2> QED BY <1>1, <1>2, <2>1, <2>2, <2>6, <2>7, ContractFrame
<1>6. CASE SaveResult(c)
  <2>1. /\ disk' = call[c].doc /\ events' = events /\ spent' = spent
        /\ call[c].at = "saveResult" /\ call'[c].at = "report"
    BY <1>1, <1>6, CallMoves DEF SaveResult
  <2>2. /\ disk'.decision = "approved" /\ disk'.execution \in {"completed", "failed"}
        /\ ~Ended(disk)
    <3>1. call[c].doc.execution \in {"completed", "failed"}
      BY <2>1 DEF ContractInv, SerialInv
    <3> QED BY <1>1, <2>1, <3>1 DEF Ahead, Ended
  <2>3. Ahead(call[c])'
    BY <2>1, <2>2 DEF Ahead, Ended
  <2> QED BY <1>1, <1>2, <2>1, <2>2, <2>3, ContractFrame
<1>7. CASE Report(c)
  <2>1. /\ disk' = disk /\ events' = events + 1 /\ spent' = spent
        /\ call[c].at = "report" /\ call'[c].at = "idle"
    BY <1>1, <1>7, CallMoves DEF Report
  <2>2. Ended(disk)
    BY <1>1, <2>1 DEF Ahead
  <2>3. Ahead(call[c])'
    BY <2>1 DEF Ahead
  <2> QED BY <1>1, <1>2, <2>1, <2>2, <2>3, ContractFrame
<1>8. CASE ActRaises(c) \/ ReportRaises(c)
  <2>1. /\ disk' = disk /\ call'[c].at = "idle"
        /\ spent' = [spent EXCEPT !.raised = @ + 1]
    BY <1>1, <1>8, CallMoves DEF ActRaises, ReportRaises, Raise
  <2>2. spent'.raised # 0
    BY <1>1, <2>1
  <2>3. Ahead(call[c])'
    BY <2>1 DEF Ahead
  <2> QED BY <1>1, <1>2, <2>1, <2>2, <2>3, ContractFrame
<1> QED BY <1>3, <1>4, <1>5, <1>6, <1>7, <1>8 DEF CallStep

LEMMA ContractStep == Alone' /\ ContractInv /\ [Next]_vars => ContractInv'
<1> SUFFICES ASSUME Alone', ContractInv, [Next]_vars PROVE ContractInv'
  OBVIOUS
<1>1. SerialInv'
  BY SerialStep DEF ContractInv
<1>2. ASSUME NEW c \in Callers, LoadCreate(c) \/ LoadDecide(c) \/ LoadExecute(c)
      PROVE ContractInv'
  BY <1>1, <1>2, ContractStart
<1>3. ASSUME NEW c \in Callers, CallStep(c) PROVE ContractInv'
  BY <1>1, <1>3, ContractCallStep
<1>4. ASSUME NEW c \in Callers, Crash(c) PROVE ContractInv'
  <2>1. InProgress(c) /\ disk' = disk /\ spent' = [spent EXCEPT !.crashes = @ + 1]
        /\ Return(c)
    BY <1>4 DEF Crash
  <2>2. /\ call \in [Callers -> CallStates]
        /\ spent \in [calls : Nat, crashes : Nat, raised : Nat, overlaps : Nat]
        /\ \A d \in Callers \ {c} : call[d].at = "idle"
        /\ (disk.decision = "none") = (disk.execution = "none")
    BY <2>1, OnlyCall
  <2>3. call'[c].at = "idle" /\ \A d \in Callers \ {c} : call'[d].at = "idle"
    BY <2>1, <2>2, CallMoves
  <2>4. spent'.crashes # 0 /\ Ahead(call[c])'
    BY <2>1, <2>2, <2>3 DEF Ahead
  <2> QED BY <1>1, <2>1, <2>2, <2>3, <2>4, ContractFrame
<1>5. CASE UNCHANGED vars
  BY <1>1, <1>5 DEF vars, ContractInv, Ahead, EventsFit, Ended
<1> QED BY <1>2, <1>3, <1>4, <1>5 DEF Next

LEMMA ContractInit == Init => ContractInv
<1> SUFFICES ASSUME Init PROVE ContractInv
  OBVIOUS
<1>1. /\ \A c \in Callers : call[c].at = "idle"
      /\ disk.decision = "none" /\ disk.execution = "none" /\ events = 0
  BY IdleAgrees DEF Init, NoDoc
<1>2. \A c \in Callers : Ahead(call[c])
  BY <1>1 DEF Ahead
<1>3. EventsFit
  BY <1>1 DEF EventsFit, Ended
<1> QED BY <1>1, <1>2, <1>3, SerialInit DEF ContractInv

-----------------------------------------------------------------------------
(* The theorems *)

\* What overlapped stays so.
LEMMA AloneStep == TypeOK /\ [Next]_vars /\ Alone' => Alone
<1> SUFFICES ASSUME TypeOK, [Next]_vars PROVE Alone' => Alone
  OBVIOUS
<1>1. spent \in [calls : Nat, crashes : Nat, raised : Nat, overlaps : Nat]
  BY DEF TypeOK
<1>2. ASSUME NEW c \in Callers, LoadCreate(c) \/ LoadDecide(c) \/ LoadExecute(c)
      PROVE Alone' => Alone
  <2>1. Start(c)
    BY <1>2 DEF LoadCreate, LoadDecide, LoadExecute
  <2> QED BY <1>1, <2>1, StartCounts DEF Alone
<1>3. ASSUME NEW c \in Callers, CallStep(c) \/ Crash(c) PROVE spent'.overlaps = spent.overlaps
  BY <1>1, <1>3 DEF CallStep, SaveDecision, SaveRunning, Act, ActRaises, SaveResult, Report,
                    ReportRaises, Raise, Crash
<1> QED BY <1>2, <1>3 DEF Next, vars, Alone

\* The invariant of the specification: GovernInv whatever overlaps, ContractInv
\* until something does.
AloneInv == GovernInv /\ (Alone => ContractInv)

LEMMA AloneInvHolds == Spec => []AloneInv
<1>1. Init => AloneInv
  BY GovernInit, ContractInit DEF AloneInv
<1>2. AloneInv /\ [Next]_vars => AloneInv'
  BY GovernStep, AloneStep, ContractStep DEF AloneInv, GovernInv
<1> QED BY <1>1, <1>2, PTL DEF Spec

\* As long as no two calls have overlapped, the action takes effect at most once,
\* wherever callers die or raise and however often execute is asked for again.
THEOREM ActsOnceHolds == Spec => []ActsOnce
<1>1. AloneInv => ActsOnce
  BY DEF AloneInv, ContractInv, SerialInv, ActsOnce
<1> QED BY <1>1, AloneInvHolds, PTL

\* As long as no two calls have overlapped and none died or raised, a rejection
\* and an executed action each left exactly one TaskEvent, and nothing else did.
THEOREM OneEventHolds == Spec => []OneEvent
<1>1. AloneInv => OneEvent
  BY DEF AloneInv, ContractInv, EventsFit, OneEvent, InProgress
<1> QED BY <1>1, AloneInvHolds, PTL

\* A save of a call is a step of the contract, anything else stutters.
LEMMA StepImplements ==
    ASSUME ContractInv, [Next]_vars
    PROVE [Contract!Next]_(Contract!vars)
<1> USE DEF Contract!Next, Contract!vars
<1>1. CASE disk' = disk
  BY <1>1
<1>2. ASSUME NEW c \in Callers, SaveDecision(c) PROVE [Contract!Next]_(Contract!vars)
  <2>1. /\ disk' = call[c].doc /\ call[c].at = "save" /\ InProgress(c)
    BY <1>2 DEF SaveDecision, InProgress
  <2>2. /\ disk \in Docs /\ Ahead(call[c])
        /\ (disk.decision = "none") = (disk.execution = "none")
    BY <2>1, OnlyCall
  <2>3. disk.decision = "pending" => disk.execution = "pending"
    BY <2>2 DEF ContractInv, SerialInv, GovernInv, RecordsAgree, Agrees, Docs
  <2> QED BY <2>1, <2>2, <2>3 DEF Ahead, Contract!Create, Contract!Decide
<1>3. ASSUME NEW c \in Callers, SaveRunning(c) PROVE [Contract!Next]_(Contract!vars)
  <2>1. /\ disk' = call[c].doc /\ call[c].at = "saveRunning" /\ InProgress(c)
    BY <1>3 DEF SaveRunning, InProgress
  <2>2. call[c].doc.execution = "running"
    BY <2>1 DEF ContractInv, SerialInv, GovernInv, ApprovalKnown
  <2> QED BY <2>1, <2>2, OnlyCall DEF Ahead, Contract!Execute
<1>4. ASSUME NEW c \in Callers, SaveResult(c) PROVE [Contract!Next]_(Contract!vars)
  <2>1. /\ disk' = call[c].doc /\ call[c].at = "saveResult" /\ InProgress(c)
    BY <1>4 DEF SaveResult, InProgress
  <2>2. call[c].doc.execution \in {"completed", "failed"}
    BY <2>1 DEF ContractInv, SerialInv
  <2> QED BY <2>1, <2>2, OnlyCall DEF Ahead, Contract!Conclude
<1> QED
  BY <1>1, <1>2, <1>3, <1>4
     DEF Next, LoadCreate, LoadDecide, LoadExecute, Start, CallStep, Act, ActRaises,
         Report, ReportRaises, Crash, vars

\* As long as no two calls have overlapped, the stored record is created,
\* answered once, started at most once and only after approval, and concluded
\* once, wherever callers die or raise: it implements DecisionContract.
THEOREM ImplementsContractHolds == Spec => ImplementsContract
<1>1. Init => Contract!Init
  BY DEF Init, NoDoc, Contract!Init
<1>2. AloneInv /\ [Next]_vars => [Alone' => [Contract!Next]_(Contract!vars)]_vars
  BY AloneStep, StepImplements DEF AloneInv, GovernInv
<1> QED BY <1>1, <1>2, AloneInvHolds, PTL DEF Spec, ImplementsContract
====
