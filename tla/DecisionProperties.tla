---- MODULE DecisionProperties ----
(***************************************************************************)
(* What DecisionService is expected to keep true of a decision's document, *)
(* of the action it governs and of what it reports.                        *)
(***************************************************************************)
EXTENDS DecisionService

Docs == [plan : Engine!Plan,
         decision : {"none", "pending", "approved", "rejected"},
         execution : {"none", "pending", "running", "completed", "failed"}]

CallStates ==
    [op : {"none", "create", "approve", "reject", "execute"},
     at : {"idle", "save", "saveRunning", "act", "saveResult", "report"},
     doc : Docs]

\* Types of the variables.
TypeOK ==
    /\ disk \in Docs
    /\ call \in [Callers -> CallStates]
    /\ recorded \subseteq {"approved", "rejected"}
    /\ sent \in Nat
    /\ events \in Nat
    /\ spent \in [calls : Nat, crashes : Nat, raised : Nat, overlaps : Nat]

-----------------------------------------------------------------------------
(* Under any interleaving of calls *)

\* The steps and the plan status that the metadata of a document stand for.
StepsFor(doc) ==
    [s \in DecisionSteps |->
        IF s = Approval
        THEN CASE doc.decision = "approved" -> "verified"
               [] doc.decision = "rejected" -> "failed"
               [] OTHER -> "verifying"
        ELSE CASE doc.execution = "running" -> "running"
               [] doc.execution = "completed" -> "verified"
               [] doc.execution = "failed" -> "failed"
               [] OTHER -> "pending"]

StatusFor(doc) == CASE doc.decision = "none" -> "pending"
                    [] doc.decision = "rejected" \/ doc.execution = "failed" -> "failed"
                    [] doc.execution = "completed" -> "completed"
                    [] OTHER -> "running"

Agrees(doc) == /\ doc.plan.step = StepsFor(doc)
               /\ doc.plan.status = StatusFor(doc)
               /\ doc.execution \notin {"none", "pending"} => doc.decision = "approved"

\* In the store and in every copy a call may write back, the decision metadata,
\* the two steps and the plan status agree: DecisionService keeps each fact
\* twice and changes the two in the same save.
RecordsAgree == Agrees(disk) /\ \A c \in Callers : Agrees(call[c].doc)

\* Nothing is sent outside before an approval of the option was saved, whatever
\* calls overlap.
ApprovedFirst == sent > 0 => "approved" \in recorded

\* What a call in progress has to do with approvals.
ApprovalKnown(k) ==
    /\ k.at \in {"saveRunning", "act"} => k.doc.execution = "running"
    /\ k.at \in {"saveRunning", "act", "saveResult"} => "approved" \in recorded
    /\ k.at = "save" /\ k.doc.decision = "approved" => k.op = "approve"

\* The inductive invariant behind RecordsAgree and ApprovedFirst.
GovernInv == /\ TypeOK /\ RecordsAgree /\ ApprovedFirst
             /\ disk.decision = "approved" => "approved" \in recorded
             /\ \A c \in Callers : ApprovalKnown(call[c])

-----------------------------------------------------------------------------
(* As long as no two calls have overlapped; callers may die or raise *)

Alone == spent.overlaps = 0

\* The action takes effect at most once: execute saves "running" before it
\* sends, and refuses a second time whatever became of the first.  (Overlapping
\* calls may both find the action pending.)
ActsOnce == Alone => sent <= 1

\* The inductive invariant behind ActsOnce while calls do not overlap: an action
\* was sent only if the store knows of the execution, and only by a call that is
\* past sending.
SerialInv ==
    /\ GovernInv
    /\ \A c, d \in Callers : InProgress(c) /\ InProgress(d) => c = d
    /\ \A c \in Callers : call[c].at = "act" => disk.execution = "running"
    /\ \A c \in Callers : call[c].at = "saveResult" =>
            call[c].doc.execution \in {"completed", "failed"}
    /\ sent <= 1
    /\ sent > 0 => /\ disk.execution \notin {"none", "pending"}
                   /\ \A c \in Callers : call[c].at \in {"idle", "saveResult", "report"}

Contract == INSTANCE DecisionContract
                WITH decision <- disk.decision, execution <- disk.execution

\* The stored record behaves as DecisionContract until calls overlap.
ImplementsContract ==
    Contract!Init /\ [][Alone' => [Contract!Next]_(Contract!vars)]_vars

\* The record of the decision is final.
Ended(doc) == doc.decision = "rejected" \/ doc.execution \in {"completed", "failed"}

\* A rejection and an executed action each left one TaskEvent once the calls
\* have returned, and nothing else did.
OneEvent ==
    /\ Alone /\ spent.crashes = 0 /\ spent.raised = 0
    /\ \A c \in Callers : ~InProgress(c)
    => events = IF Ended(disk) THEN 1 ELSE 0

\* What a call is about to write is one step of the contract ahead of the store.
Ahead(k) ==
    /\ k.at = "save" =>
         \/ /\ k.op = "create"
            /\ disk.decision = "none"
            /\ k.doc.decision = "pending" /\ k.doc.execution = "pending"
         \/ /\ k.op = "approve"
            /\ disk.decision = "pending"
            /\ k.doc.decision = "approved" /\ k.doc.execution = "pending"
         \/ /\ k.op = "reject"
            /\ disk.decision = "pending"
            /\ k.doc.decision = "rejected" /\ k.doc.execution = "pending"
    /\ k.at = "saveRunning" => disk.execution = "pending"
    /\ k.at \in {"saveRunning", "act"} => /\ disk.decision = "approved"
                                         /\ k.doc.decision = "approved"
    /\ k.at = "act" => disk.execution = "running"
    /\ k.at = "saveResult" => /\ disk.decision = "approved"
                              /\ disk.execution = "running"
                              /\ k.doc.decision = "approved"
    /\ k.at = "report" => Ended(disk)

\* Without deaths and exceptions an ended decision has its event, unless a call
\* is still about to emit it.
EventsFit ==
    spent.crashes = 0 /\ spent.raised = 0 =>
        events = IF Ended(disk) /\ \A c \in Callers : call[c].at # "report" THEN 1 ELSE 0

\* The inductive invariant behind ImplementsContract and OneEvent.
ContractInv == /\ SerialInv
               /\ (disk.decision = "none") = (disk.execution = "none")
               /\ \A c \in Callers : Ahead(call[c])
               /\ EventsFit
====
