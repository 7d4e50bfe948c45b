---- MODULE PlanRunner ----
(***************************************************************************)
(* PlanRunner executions of one stored plan, and the API clients that act  *)
(* on the same document: cancel() and approval.decide().                   *)
(*                                                                         *)
(* A runner loads the document, works on its own copy and writes the whole *)
(* copy back; so does a client.  Nothing locks the document between a load *)
(* and the save that follows it, and a process may crash anywhere, so each *)
(* read and each write of the store is a step of its own here.             *)
(***************************************************************************)
EXTENDS PlanEngine

CONSTANTS
    Runners,        \* run()/resume() calls that may be live
    Clients,        \* API calls of cancel/decide that may be live
    RunModes,       \* the verification modes a run may ask for
    OnFail,         \* plan.default_on_verify_fail: "stop" | "retry" | "continue"
    MaxStepRetries, \* plan.max_step_retries
    MaxParallel,    \* workflow_sdk.max_parallel_nodes (1 when the SDK is off)
    HasTimeout,     \* run(timeout_seconds=...) was given
    \* What the environment is assumed to do
    OneRunAtATime,         \* nobody resumes a plan that has a live run
    ClientsBetweenRuns,    \* cancel/decide are called only while no run is live
    StepsOutliveThreshold, \* a live step may run past stale_running_seconds
    ReadsMayFail,          \* the look for an abort may fail to read the store
    \* Bounds
    MaxRuns, MaxCrashes, MaxSaveErrors, MaxClientOps

ASSUME PolicyAssumption ==
    /\ RunModes \subseteq {"shadow", "active"}
    /\ OnFail \in {"stop", "retry", "continue"}
    /\ MaxStepRetries \in Nat
    /\ MaxParallel \in Nat \ {0}

ASSUME EnvironmentAssumption ==
    /\ {HasTimeout, OneRunAtATime, ClientsBetweenRuns, StepsOutliveThreshold,
        ReadsMayFail} \subseteq BOOLEAN
    /\ {MaxRuns, MaxCrashes, MaxSaveErrors, MaxClientOps} \subseteq Nat

VARIABLES
    disk,    \* the document in PlanStore
    mem,     \* mem[r]: the copy runner r works on
    pc,      \* pc[r]: where r is in PlanRunner.run
    wave,    \* wave[r]: steps in flight, then those whose outcome is unhandled
    retries, \* retries[r]: the attempts already repeated, per step
    mode,    \* mode[r]: the verification mode of r's run
    client,  \* client[c]: the API call c is in and the document it loaded
    spent    \* how much of each bound is used

vars == <<disk, mem, pc, wave, retries, mode, client, spent>>
runnerVars == <<mem, pc, wave, retries, mode>>

PC == {"idle", "start", "loop", "select", "exec", "save", "outcome",
       "reexec", "resave", "giveup", "final"}

NoRetries == [s \in Steps |-> 0]
NoCall == [op |-> "none", doc |-> InitialPlan]

Init == /\ disk = InitialPlan
        /\ mem = [r \in Runners |-> InitialPlan]
        /\ pc = [r \in Runners |-> "idle"]
        /\ wave = [r \in Runners |-> {}]
        /\ retries = [r \in Runners |-> NoRetries]
        /\ mode = [r \in Runners |-> "active"]
        /\ client = [c \in Clients |-> NoCall]
        /\ spent = [runs |-> 0, crashes |-> 0, saveErrors |-> 0, ops |-> 0]

Live(r) == pc[r] # "idle"
NoLiveRun == \A r \in Runners : ~Live(r)
NoLiveCall == \A c \in Clients : client[c].op = "none"

\* The steps a live runner is executing right now.
Executing(r) == CASE pc[r] = "exec" -> wave[r]
                  [] pc[r] = "reexec" -> {First(wave[r])}
                  [] OTHER -> {}

Goto(r, label) == pc' = [pc EXCEPT ![r] = label]
SetMem(r, p) == mem' = [mem EXCEPT ![r] = p]

-----------------------------------------------------------------------------
(* run() / resume(): load the document, recover stale steps, first save *)

\* Running steps whose started_at may lie further back than the threshold:
\* any a crashed process left, and a live one's when it is slow.
MayBeStale(p) ==
    {s \in Steps : /\ p.step[s] = "running"
                   /\ \/ StepsOutliveThreshold
                      \/ \A q \in Runners : s \notin Executing(q)}

\* Mutant: stale steps go straight back to the queue.
RecoverStale_Requeue(p, S) ==
    [SetSteps(p, S, "pending") EXCEPT !.status = "running"]

RecoverStale(p, S) == [SetSteps(p, S, "failed") EXCEPT !.status = "running"]

LoadPlan(r) ==
    /\ pc[r] = "idle"
    /\ spent.runs < MaxRuns
    /\ OneRunAtATime => NoLiveRun
    /\ ClientsBetweenRuns => NoLiveCall
    /\ \E stale \in SUBSET MayBeStale(disk) : SetMem(r, RecoverStale(disk, stale))
    /\ \E m \in RunModes : mode' = [mode EXCEPT ![r] = m]
    /\ Goto(r, "start")
    /\ spent' = [spent EXCEPT !.runs = @ + 1]
    /\ UNCHANGED <<disk, wave, retries, client>>

SaveStart(r) ==
    /\ pc[r] = "start"
    /\ disk' = mem[r]
    /\ Goto(r, "loop")
    /\ UNCHANGED <<mem, wave, retries, mode, client, spent>>

-----------------------------------------------------------------------------
(* The run loop *)

\* _external_abort_requested: only the abort is taken from the stored document.
\* Mutant: the stored status is not looked at.
AdoptAbort_Never(p) == p

AdoptAbort(p) == IF disk.status = "aborted" THEN Abort(p) ELSE p

\* What the look may make of p: a store that cannot be read shows no abort.
AfterAbortCheck(p) == {AdoptAbort(p)} \cup IF ReadsMayFail THEN {p} ELSE {}

CheckAbort(r) ==
    /\ pc[r] = "loop"
    /\ \E p \in AfterAbortCheck(mem[r]) :
        /\ SetMem(r, p)
        /\ \/ Goto(r, IF p.status = "aborted" THEN "final" ELSE "select")
           \/ HasTimeout /\ Goto(r, "final")
    /\ UNCHANGED <<disk, wave, retries, mode, client, spent>>

\* A save inside run()'s try block: it may raise, and then the handler marks
\* the plan failed in memory and leaves the loop with the store untouched.
SaveOrRaise(r, p, next) ==
    \/ /\ disk' = p
       /\ SetMem(r, p)
       /\ Goto(r, next)
       /\ UNCHANGED spent
    \/ /\ spent.saveErrors < MaxSaveErrors
       /\ spent' = [spent EXCEPT !.saveErrors = @ + 1]
       /\ SetMem(r, [p EXCEPT !.status = "failed"])
       /\ Goto(r, "final")
       /\ UNCHANGED disk

\* Nothing can start: done, paused on a step in flight, or blocked.
NothingRunnable(r) ==
    /\ pc[r] = "select"
    /\ RunnableSteps(mem[r]) = {}
    /\ LET p == mem[r]
           blocked == /\ ~AllTerminal(p)
                      /\ ~AnyStep(p, InFlightStatus)
                      /\ AnyStep(p, {"pending"})
       IN SetMem(r, IF blocked THEN [p EXCEPT !.status = "failed"]
                               ELSE RecomputePlanStatus(p))
    /\ Goto(r, "final")
    /\ UNCHANGED <<disk, wave, retries, mode, client, spent>>

StartSteps(r, S) ==
    /\ wave' = [wave EXCEPT ![r] = S]
    /\ SaveOrRaise(r, SetSteps(mem[r], S, "running"), "exec")
    /\ UNCHANGED <<retries, mode, client>>

RunnableChats(r) == {s \in RunnableSteps(mem[r]) : Mode[s] = "chat"}
TakesWave(r) == Cardinality(RunnableChats(r)) > 1 /\ MaxParallel > 1

\* chat_ids[:max_parallel]: those with fewer than MaxParallel before them.
StartWave(r) ==
    /\ pc[r] = "select"
    /\ TakesWave(r)
    /\ LET chats == RunnableChats(r)
           before(s) == {t \in chats : Pos[t] < Pos[s]}
       IN StartSteps(r, {s \in chats : Cardinality(before(s)) < MaxParallel})

StartOne(r) ==
    /\ pc[r] = "select"
    /\ RunnableSteps(mem[r]) # {}
    /\ ~TakesWave(r)
    /\ StartSteps(r, {First(RunnableSteps(mem[r]))})

-----------------------------------------------------------------------------
(* One attempt of a step: execution, then verification *)

Failed(log) == [step |-> "failed", log |-> log]
Verified(log) == [step |-> "verified", log |-> log]

\* Mutants: shadow mode softens human gates too; verification failures are
\* soft in active mode; business steps run like any other.
Attempts_SoftHuman(s, m, log) ==
    {Failed(log)} \cup IF Mode[s] = "business" THEN {}
                      ELSE IF Acceptance[s] = "none" THEN {Verified(log)}
                      ELSE {Verified("pass"),
                            IF m = "shadow" THEN Verified("fail") ELSE Failed("fail")}

Attempts_SoftActive(s, m, log) ==
    {Failed(log)} \cup IF Mode[s] = "business" THEN {}
                      ELSE IF Acceptance[s] = "none" THEN {Verified(log)}
                      ELSE IF s \in External
                           THEN {[step |-> "verifying", log |-> "fail"]}
                      ELSE {Verified("pass"), Verified("fail")}

Attempts_Business(s, m, log) == {Failed(log), Verified(log)}

\* A failed execution leaves the verify_log of the attempt before it.  A
\* business step always fails here.  Externally resolved checks never pass in
\* the generic dispatch and park the step in verifying, in both modes.  A step
\* whose synchronous checks fail goes to failed; shadow mode then assigns
\* verified to it, past transition, and nothing is saved in between.
Attempts(s, m, log) ==
    {Failed(log)} \cup
    IF Mode[s] = "business" THEN {}
    ELSE IF Acceptance[s] = "none" THEN {Verified(log)}
    ELSE IF s \in External THEN {[step |-> "verifying", log |-> "fail"]}
    ELSE {Verified("pass"),
          IF m = "shadow" THEN Verified("fail") ELSE Failed("fail")}

Results(r, S) == {f \in [S -> [step : StepStatus, log : Verdict]] :
                    \A s \in S : f[s] \in Attempts(s, mode[r], mem[r].log[s])}

\* Mutant: finalizing a wave ends at its first failed member.
Finalize_UntilFailure(p, S, f) ==
    LET T == {s \in S : \A t \in S : Pos[t] < Pos[s] => f[t].step # "failed"}
    IN RecomputePlanStatus(
           [p EXCEPT !.step = [s \in Steps |-> IF s \in T THEN f[s].step ELSE @[s]]])

\* The steps of S finish with the results f and are finalized in this thread.
Finalize(p, S, f) ==
    RecomputePlanStatus(
        [p EXCEPT !.step = [s \in Steps |-> IF s \in S THEN f[s].step ELSE @[s]],
                  !.log = [s \in Steps |-> IF s \in S THEN f[s].log ELSE @[s]]])

\* Every attempt ends with the abort check that precedes its save.
FinishAttempt(r, S, label) ==
    /\ \E f \in Results(r, S) :
        \E p \in AfterAbortCheck(Finalize(mem[r], S, f)) : SetMem(r, p)
    /\ Goto(r, label)
    /\ UNCHANGED <<disk, wave, retries, mode, client, spent>>

FinishSteps(r) ==
    /\ pc[r] = "exec"
    /\ FinishAttempt(r, wave[r], "save")

SaveOutcome(r) ==
    /\ pc[r] = "save"
    /\ SaveOrRaise(r, mem[r],
                   IF mem[r].status = "aborted" THEN "final" ELSE "outcome")
    /\ UNCHANGED <<wave, retries, mode, client>>

-----------------------------------------------------------------------------
(* _handle_step_outcome, for the steps of the wave in their order *)

Handled(r) == wave' = [wave EXCEPT ![r] = @ \ {First(@)}]

Outcome(r, status) ==
    /\ pc[r] = "outcome"
    /\ wave[r] # {}
    /\ (mem[r].step[First(wave[r])] = "failed") = (status = "failed")

WaveHandled(r) ==
    /\ pc[r] = "outcome"
    /\ wave[r] = {}
    /\ Goto(r, "loop")
    /\ UNCHANGED <<disk, mem, wave, retries, mode, client, spent>>

KeepGoing(r) ==
    /\ Outcome(r, "ok")
    /\ Handled(r)
    /\ UNCHANGED <<disk, mem, pc, retries, mode, client, spent>>

MayRetry(r, s) == OnFail = "retry" /\ retries[r][s] < MaxStepRetries

\* The retry starts in memory only: the store keeps the failed attempt.
RetryStep(r) ==
    LET s == First(wave[r]) IN
    /\ Outcome(r, "failed")
    /\ MayRetry(r, s)
    /\ retries' = [retries EXCEPT ![r][s] = @ + 1]
    /\ SetMem(r, SetSteps(mem[r], {s}, "running"))
    /\ Goto(r, "reexec")
    /\ UNCHANGED <<disk, wave, mode, client, spent>>

ContinueAfterFail(r) ==
    /\ Outcome(r, "failed")
    /\ OnFail = "continue"
    /\ Handled(r)
    /\ SaveOrRaise(r, SetSteps(mem[r], {First(wave[r])}, "verified"), "outcome")
    /\ UNCHANGED <<retries, mode, client>>

\* Mutant: a failed step does not stop the run.
StopOnFail_Loops(r) ==
    /\ Outcome(r, "failed")
    /\ ~MayRetry(r, First(wave[r]))
    /\ Handled(r)
    /\ UNCHANGED <<disk, mem, pc, retries, mode, client, spent>>

StopOnFail(r) ==
    /\ \/ /\ Outcome(r, "failed")
          /\ ~MayRetry(r, First(wave[r]))
          /\ OnFail # "continue"
       \/ pc[r] = "giveup"
    /\ SetMem(r, [mem[r] EXCEPT !.status = "failed"])
    /\ Goto(r, "final")
    /\ UNCHANGED <<disk, wave, retries, mode, client, spent>>

FinishRetry(r) ==
    /\ pc[r] = "reexec"
    /\ FinishAttempt(r, {First(wave[r])}, "resave")

\* The repeated attempt is saved; unless it ended verified the run stops,
\* whatever is left of max_step_retries.
SaveRetry(r) ==
    LET s == First(wave[r]) IN
    /\ pc[r] = "resave"
    /\ CASE mem[r].status = "aborted" ->
                SaveOrRaise(r, mem[r], "final") /\ UNCHANGED wave
         [] mem[r].status # "aborted" /\ mem[r].step[s] = "verified" ->
                SaveOrRaise(r, mem[r], "outcome") /\ Handled(r)
         [] OTHER ->
                SaveOrRaise(r, mem[r], "giveup") /\ UNCHANGED wave
    /\ UNCHANGED <<retries, mode, client>>

-----------------------------------------------------------------------------
(* The end of run(), and of the process *)

\* The status run() leaves behind: recomputed, and failed if a step failed.
FinalPlan(p) ==
    LET q == RecomputePlanStatus(p)
    IN IF q.status \in {"pending", "running"} /\ AnyStep(q, {"failed"})
       THEN [q EXCEPT !.status = "failed"] ELSE q

Forget(r) == /\ SetMem(r, InitialPlan)
             /\ wave' = [wave EXCEPT ![r] = {}]
             /\ retries' = [retries EXCEPT ![r] = NoRetries]
             /\ mode' = [mode EXCEPT ![r] = "active"]
             /\ Goto(r, "idle")

\* The final save is not preceded by an abort check.
FinishRun(r) ==
    /\ pc[r] = "final"
    /\ disk' = FinalPlan(mem[r])
    /\ Forget(r)
    /\ UNCHANGED <<client, spent>>

\* The process dies, or a save outside the try block raises.
Crash(r) ==
    /\ Live(r)
    /\ spent.crashes < MaxCrashes
    /\ spent' = [spent EXCEPT !.crashes = @ + 1]
    /\ Forget(r)
    /\ UNCHANGED <<disk, client>>

-----------------------------------------------------------------------------
(* API clients: PlanRunner.cancel and approval.decide *)

CallIdle(c) == /\ client[c].op = "none"
               /\ spent.ops < MaxClientOps
               /\ ClientsBetweenRuns => NoLiveRun
               /\ spent' = [spent EXCEPT !.ops = @ + 1]
               /\ UNCHANGED <<disk, runnerVars>>

LoadCancel(c) ==
    /\ CallIdle(c)
    /\ client' = [client EXCEPT ![c] = [op |-> "cancel", doc |-> Abort(disk)]]

\* A decision on a step not awaiting review changes nothing (it is either
\* repeated or refused), so only the call that finds it verifying is a step.
LoadDecide(c) ==
    /\ CallIdle(c)
    /\ \E s \in Steps, decision \in {"approve", "reject"} :
        /\ Acceptance[s] = "human"
        /\ disk.step[s] = "verifying"
        /\ LET ok == decision = "approve"
               doc == SetSteps(disk, {s}, IF ok THEN "verified" ELSE "failed")
           IN client' = [client EXCEPT ![c] =
                [op |-> decision,
                 doc |-> [doc EXCEPT !.log[s] = IF ok THEN "pass" ELSE "fail"]]]

SaveCall(c) ==
    /\ client[c].op # "none"
    /\ disk' = client[c].doc
    /\ client' = [client EXCEPT ![c] = NoCall]
    /\ UNCHANGED <<runnerVars, spent>>

-----------------------------------------------------------------------------

RunStep(r) == \/ SaveStart(r)       \/ CheckAbort(r)  \/ NothingRunnable(r)
              \/ StartWave(r)       \/ StartOne(r)    \/ FinishSteps(r)
              \/ SaveOutcome(r)     \/ WaveHandled(r) \/ KeepGoing(r)
              \/ RetryStep(r)       \/ FinishRetry(r) \/ SaveRetry(r)
              \/ ContinueAfterFail(r) \/ StopOnFail(r) \/ FinishRun(r)

Next == \/ \E r \in Runners : LoadPlan(r) \/ RunStep(r) \/ Crash(r)
        \/ \E c \in Clients : LoadCancel(c) \/ LoadDecide(c) \/ SaveCall(c)

Spec == Init /\ [][Next]_vars

\* A live process keeps running: its thread is scheduled, its model and
\* executor calls return (they carry timeouts).  Starting a run, deciding and
\* crashing are the environment's choice.
Fairness == /\ \A r \in Runners : WF_vars(RunStep(r))
            /\ \A c \in Clients : WF_vars(SaveCall(c))

FairSpec == Spec /\ Fairness
====
