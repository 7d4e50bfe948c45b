---- MODULE PlanProperties ----
(***************************************************************************)
(* What PlanRunner, cancel() and approval.decide() are expected to keep    *)
(* true of a plan document, whoever holds a copy of it.                    *)
(***************************************************************************)
EXTENDS PlanRunner

Calls == [op : {"none", "cancel", "approve", "reject"}, doc : Plan]

\* Types of the variables.
TypeOK ==
    /\ disk \in Plan
    /\ mem \in [Runners -> Plan]
    /\ pc \in [Runners -> PC]
    /\ wave \in [Runners -> SUBSET Steps]
    /\ retries \in [Runners -> [Steps -> Nat]]
    /\ mode \in [Runners -> {"shadow", "active"}]
    /\ client \in [Clients -> Calls]
    /\ spent \in [runs : Nat, crashes : Nat, saveErrors : Nat, ops : Nat]

\* Every copy of the document somebody may write back to the store.
EveryCopy(Holds(_)) == /\ Holds(disk)
                       /\ \A r \in Runners : Holds(mem[r])
                       /\ \A c \in Clients : Holds(client[c].doc)

-----------------------------------------------------------------------------
(* Invariants of every copy, under any interleaving of runs and clients *)

StartedAfterDeps(p) ==
    \A s \in Steps : p.step[s] \notin {"pending", "skipped"} => UnmetDeps(p, s) = {}

\* A step that has ever started has all its dependencies verified, in every
\* copy of the document: PlanEngine.can_start gates each start, and no later
\* write, of a stale copy or not, brings a started step and an unverified
\* dependency together.
DependencyGate == EveryCopy(StartedAfterDeps)

Approved(p) == \A s \in External :
    (\/ p.step[s] = "verified"
     \/ \E t \in Steps : s \in Deps[t] /\ p.step[t] \notin {"pending", "skipped"})
    => p.log[s] = "pass"

\* A human_review step counts as verified, and anything behind it starts, only
\* after approval.decide recorded the approval, in shadow mode too
\* (PlanRunner._verify parks the step, approval.py is the only way on).
HumanGate == EveryCopy(Approved)

Checked(p) == \A s \in Steps :
    Acceptance[s] = "checks" /\ p.step[s] = "verified" => p.log[s] = "pass"

\* In active mode a step with acceptance checks is verified only on the
\* evidence of its own passed checks, never on those of an earlier attempt
\* that were followed by a failure, and never after a crash in between.
CheckedGate == RunModes = {"active"} => EveryCopy(Checked)

\* The inductive invariant behind CheckedGate: the runs are active ones, too.
CheckedInv == TypeOK /\ (\A r \in Runners : mode[r] = "active") /\ EveryCopy(Checked)

NothingLeft(p) == \A s \in Steps : p.step[s] \in {"verified", "skipped"}

Truthful(p) == /\ p.status = "completed" => NothingLeft(p) /\ AnyStep(p, {"verified"})
               /\ p.status = "failed" => AnyStep(p, {"failed"}) \/ NothingLeft(p)

\* The stored plan status never claims more than the stored steps support:
\* completed plans have nothing left to do, failed ones have a failed step.
StatusTruthful == Truthful(disk) /\ \A c \in Clients : Truthful(client[c].doc)

\* The inductive invariant behind StatusTruthful: a copy whose status is about
\* to be saved as it is may be saved; elsewhere in the loop it may be stale.
TruthInv == /\ TypeOK
            /\ StatusTruthful
            /\ \A r \in Runners :
                  pc[r] \in {"start", "save", "resave"} => Truthful(mem[r])

RunningInCopy(r) ==
    /\ pc[r] = "exec" => \A s \in wave[r] : mem[r].step[s] = "running"
    /\ pc[r] = "reexec" => /\ wave[r] # {}
                           /\ mem[r].step[First(wave[r])] = "running"

\* The steps a runner is executing are running in its own copy until it
\* finalizes them: nothing it reads from the store meanwhile changes them.
WaveRunning == \A r \in Runners : RunningInCopy(r)

\* A document that respects the gate and, unless failures are waved through,
\* holds no externally resolved step verified without its approval.
Sound(p) == /\ StartedAfterDeps(p)
            /\ OnFail # "continue" =>
                  \A s \in External : p.step[s] = "verified" => p.log[s] = "pass"

\* The inductive invariant behind DependencyGate and HumanGate.
GateInv == TypeOK /\ WaveRunning /\ EveryCopy(Sound)

-----------------------------------------------------------------------------
(* One run at a time, decisions between runs *)

\* Once a step is verified in the store it stays verified, through failing
\* runs, crashes and resumes: its work is neither lost nor done again.
DurableProgress ==
    [][\A s \in Steps : disk.step[s] = "verified" => disk'.step[s] = "verified"]_vars

\* The document came without open steps, no process died during a run, and no
\* save of one failed.
NothingOpen == \A s \in Steps : InitialStatus[s] \notin {"running", "done"}
Undisturbed == NothingOpen /\ spent.crashes = 0 /\ spent.saveErrors = 0

\* A run that ends without a crash or an I/O error leaves no step running in
\* the store: nothing would ever pick such a step up before it counts as stale.
NoOrphanedStep == NoLiveRun /\ Undisturbed => ~AnyStep(disk, {"running", "done"})

OpenSteps(p) == {s \in Steps : p.step[s] \in {"running", "done"}}

\* The inductive invariant behind NoOrphanedStep: only the live run's copy holds
\* open steps, those it executes; between runs the store has none.
OrphanInv ==
    /\ TypeOK
    /\ \A r, q \in Runners : Live(r) /\ Live(q) => r = q
    /\ NoLiveRun \/ NoLiveCall
    /\ Undisturbed =>
          /\ NoLiveRun => OpenSteps(disk) = {}
          /\ \A r \in Runners : OpenSteps(mem[r]) \subseteq Executing(r)
          /\ \A c \in Clients : OpenSteps(client[c].doc) = {}

Contract == INSTANCE PlanContract
                WITH verified <- {s \in Steps : disk.step[s] = "verified"}

\* The store, seen as its set of verified steps, behaves as PlanContract.
ImplementsContract == Contract!Spec

\* What p may replace in the store: p verifies what d has verified, and what p
\* started waited for steps that d has verified.
Follows(d, p) ==
    /\ \A s \in Steps : d.step[s] = "verified" => p.step[s] = "verified"
    /\ \A s \in Steps : p.step[s] \notin {"pending", "skipped"} => UnmetDeps(d, s) = {}

NothingNew(d, p) ==
    \A s \in Steps : p.step[s] = "verified" => d.step[s] = "verified"

\* Where a runner's copy verifies nothing the store does not know of.
Between == {"start", "loop", "select", "outcome"}

\* The inductive invariant behind DurableProgress and ImplementsContract: a copy
\* somebody may save follows the store, as one run or one call is live at most.
SeriesInv ==
    /\ GateInv
    /\ \A r, q \in Runners : Live(r) /\ Live(q) => r = q
    /\ NoLiveRun \/ NoLiveCall
    /\ \A r \in Runners : /\ Live(r) => Follows(disk, mem[r])
                          /\ pc[r] \in Between => NothingNew(disk, mem[r])
    /\ \A c \in Clients : client[c].op # "none" => Follows(disk, client[c].doc)

At(p, s, status) == [p EXCEPT !.step[s] = status]

\* The moves of one attempt are made one by one in memory before any is saved:
\* the end of an execution passes done, and verifying where there are checks.
MayReach(p, s, to) ==
    \/ MayTransition(p, s, to)
    \/ /\ MayTransition(p, s, "done")
       /\ \/ MayTransition(At(p, s, "done"), s, to)
          \/ /\ MayTransition(At(p, s, "done"), s, "verifying")
             /\ MayTransition(At(p, s, "verifying"), s, to)

\* Checks that were run to verify a step passed.
OnEvidence(q, s) == q.step[s] = "verified" /\ Acceptance[s] # "none" => q.log[s] = "pass"

\* on_fail=continue forces a failed step verified through transition, shadow mode
\* assigns verified to a step that its failed checks brought to failed.
Forced(p, q, s) == OnFail = "continue" /\ p.step[s] = "failed" /\ q.step[s] = "verified"
SoftOpened(m, p, q, s) == /\ m = "shadow" /\ Acceptance[s] = "checks"
                          /\ q.step[s] = "verified" /\ q.log[s] = "fail"
                          /\ MayReach(p, s, "failed")

MovesLegally(m, p, q) ==
    \A s \in Steps : \/ p.step[s] = q.step[s]
                     \/ MayReach(p, s, q.step[s]) /\ OnEvidence(q, s)
                     \/ Forced(p, q, s)
                     \/ SoftOpened(m, p, q, s)

CopyOf(r) == IF Live(r) THEN mem[r] ELSE disk

\* From the load to the last save a step of the runner's copy moves only as
\* PlanEngine.transition accepts, which therefore never raises inside a run, and
\* becomes verified on the evidence of its passed checks, but for two moves:
\* the one on_fail=continue makes with force=True, and the assignment of
\* verified that shadow mode makes past transition when checks failed.
TransitionsLegal ==
    [][\A r \in Runners : Live(r)' => MovesLegally(mode'[r], CopyOf(r), mem'[r])]_vars

-----------------------------------------------------------------------------
(* Liveness, under FairSpec *)

\* Every run ends: failed steps stay startable, and only the outcome policy
\* keeps the loop from picking them again forever.
RunsEnd == \A r \in Runners : Live(r) ~> ~Live(r)

\* With on_fail=continue, a run whose copy holds no step left running by a
\* crashed process completes the plan, unless it crashes or is cancelled.
RecoveredRunCompletes ==
    \A r \in Runners :
        (/\ pc[r] = "start"
         /\ spent.crashes = MaxCrashes
         /\ spent.ops = MaxClientOps /\ NoLiveCall
         /\ ~AnyStep(mem[r], {"running"})) ~> disk.status = "completed"

\* A cancel saved while a step is executing, or before the check at the top
\* of the loop, ends the run and survives it.
CancelHonoured ==
    \A r \in Runners :
        (disk.status = "aborted" /\ pc[r] \in {"loop", "exec", "reexec"})
            ~> (NoLiveRun /\ disk.status = "aborted")

-----------------------------------------------------------------------------
(* What comments and docs say of the code, and the code does not keep *)

\* runner.py: the runner's copy is at least as fresh as the store for
\* everything but an abort, so its saves never undo a recorded approval.
ApprovalDurable ==
    [][\A s \in External : disk.step[s] = "verified" => disk'.step[s] = "verified"]_vars
====
