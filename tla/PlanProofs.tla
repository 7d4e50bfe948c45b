---- MODULE PlanProofs ----
(***************************************************************************)
(* Theorems about PlanRunner, for every plan, any number of concurrent     *)
(* runs and clients, and every bound: the type invariant first, on which   *)
(* the others rest, then the gates, the truth of the plan status and the   *)
(* legality of the moves it stores; and, for runs and API calls that do    *)
(* not overlap, that verified work is never lost, that the store           *)
(* implements PlanContract and that no step is left open between runs.     *)
(***************************************************************************)
EXTENDS PlanProperties, WellFoundedInduction, TLAPS

-----------------------------------------------------------------------------
(* The document operators stay within Plan and change what they say *)

\* recompute_plan_status yields one of the plan statuses.
LEMMA PlanStatusType ==
    ASSUME NEW p \in Plan PROVE PlanStatusOf(p) \in PlanStatus
BY DEF PlanStatusOf, PlanStatus

\* Recomputing changes the plan status only.
LEMMA RecomputeType ==
    ASSUME NEW p \in Plan
    PROVE /\ RecomputePlanStatus(p) \in Plan
          /\ RecomputePlanStatus(p).step = p.step
          /\ RecomputePlanStatus(p).log = p.log
BY PlanStatusType DEF RecomputePlanStatus, Plan

\* A transition of the steps in T changes their statuses and nothing else but
\* the plan status.
LEMMA SetStepsType ==
    ASSUME NEW p \in Plan, NEW T, NEW to \in StepStatus
    PROVE /\ SetSteps(p, T, to) \in Plan
          /\ SetSteps(p, T, to).step =
                [s \in Steps |-> IF s \in T THEN to ELSE p.step[s]]
          /\ SetSteps(p, T, to).log = p.log
<1> DEFINE q == [p EXCEPT !.step =
                    [s \in Steps |-> IF s \in T THEN to ELSE @[s]]]
<1>1. /\ q \in Plan
      /\ q.step = [s \in Steps |-> IF s \in T THEN to ELSE p.step[s]]
      /\ q.log = p.log
  BY DEF Plan
<1>2. SetSteps(p, T, to) = RecomputePlanStatus(q)
  BY DEF SetSteps
<1> QED BY <1>1, <1>2, RecomputeType

\* Any plan status may be put on a document without touching the rest.
LEMMA StatusType ==
    ASSUME NEW p \in Plan, NEW st \in PlanStatus
    PROVE /\ [p EXCEPT !.status = st] \in Plan
          /\ [p EXCEPT !.status = st].step = p.step
          /\ [p EXCEPT !.status = st].log = p.log
BY DEF Plan

LEMMA AbortType ==
    ASSUME NEW p \in Plan
    PROVE /\ Abort(p) \in Plan
          /\ Abort(p).step = p.step
          /\ Abort(p).log = p.log
BY DEF Abort, Plan, PlanStatus

LEMMA InitialPlanType == InitialPlan \in Plan
BY InitialStatusAssumption DEF InitialPlan, Plan, PlanStatus, StepStatus, Verdict

LEMMA AdoptAbortType ==
    ASSUME NEW p \in Plan
    PROVE /\ AdoptAbort(p) \in Plan
          /\ AdoptAbort(p).step = p.step
          /\ AdoptAbort(p).log = p.log
BY AbortType DEF AdoptAbort

\* The look for an abort leaves the steps alone, whether or not it can read.
LEMMA AfterAbortCheckType ==
    ASSUME NEW p \in Plan, NEW q \in AfterAbortCheck(p)
    PROVE q \in Plan /\ q.step = p.step /\ q.log = p.log
BY AdoptAbortType DEF AfterAbortCheck

LEMMA FinalPlanType ==
    ASSUME NEW p \in Plan
    PROVE /\ FinalPlan(p) \in Plan
          /\ FinalPlan(p).step = p.step
          /\ FinalPlan(p).log = p.log
<1>1. "failed" \in PlanStatus
  BY DEF PlanStatus
<1> QED BY <1>1, RecomputeType, StatusType DEF FinalPlan

\* Finalizing the steps of S gives them their results and leaves the others.
LEMMA FinalizeType ==
    ASSUME NEW p \in Plan, NEW S,
           NEW f \in [S -> [step : StepStatus, log : Verdict]]
    PROVE /\ Finalize(p, S, f) \in Plan
          /\ Finalize(p, S, f).step =
                [s \in Steps |-> IF s \in S THEN f[s].step ELSE p.step[s]]
          /\ Finalize(p, S, f).log =
                [s \in Steps |-> IF s \in S THEN f[s].log ELSE p.log[s]]
<1> DEFINE q == [p EXCEPT
                   !.step = [s \in Steps |-> IF s \in S THEN f[s].step ELSE @[s]],
                   !.log = [s \in Steps |-> IF s \in S THEN f[s].log ELSE @[s]]]
<1>1. /\ q \in Plan
      /\ q.step = [s \in Steps |-> IF s \in S THEN f[s].step ELSE p.step[s]]
      /\ q.log = [s \in Steps |-> IF s \in S THEN f[s].log ELSE p.log[s]]
  BY DEF Plan
<1>2. Finalize(p, S, f) = RecomputePlanStatus(q)
  BY DEF Finalize
<1> QED BY <1>1, <1>2, RecomputeType

-----------------------------------------------------------------------------
(* runnable[0] exists *)

\* Positions are natural numbers, so a nonempty set of steps has a first one.
LEMMA FirstInSet ==
    ASSUME NEW S \in SUBSET Steps, S # {}
    PROVE First(S) \in S /\ \A t \in S : Pos[First(S)] <= Pos[t]
<1> DEFINE P == {Pos[s] : s \in S}
<1>1. P \subseteq Nat /\ P # {}
  BY OrderAssumption
<1> DEFINE Less == {ss \in Nat \X Nat : ss[1] < ss[2]}
<1>a. IsWellFoundedOn(Less, Nat)
  BY NatLessThanWellFounded DEF OpToRel
<1>2. PICK x \in P : \A y \in P : ~(<<y, x>> \in Less)
  <2> HIDE DEF P, Less
  <2> QED BY <1>1, <1>a, WFMin
<1>3. \A y \in P : x <= y
  <2> SUFFICES ASSUME NEW y \in P PROVE x <= y
    OBVIOUS
  <2>1. x \in Nat /\ y \in Nat
    BY <1>1
  <2>2. ~(y < x)
    BY <1>2, <2>1
  <2> HIDE DEF P
  <2> QED BY <2>1, <2>2
<1>4. PICK s \in S : Pos[s] = x
  OBVIOUS
<1>5. \A t \in S : Pos[s] <= Pos[t]
  BY <1>3, <1>4
<1> QED BY <1>5 DEF First

-----------------------------------------------------------------------------
(* Type correctness *)

LEMMA InitType == Init => TypeOK
BY InitialPlanType
   DEF Init, TypeOK, NoCall, NoRetries, Calls, PC

\* The first save of an attempt, whether it succeeds or raises.
LEMMA SaveOrRaiseType ==
    ASSUME TypeOK, NEW r \in Runners, NEW p \in Plan, NEW next \in PC,
           SaveOrRaise(r, p, next)
    PROVE /\ disk' \in Plan
          /\ mem' \in [Runners -> Plan]
          /\ pc' \in [Runners -> PC]
          /\ spent' \in [runs : Nat, crashes : Nat, saveErrors : Nat, ops : Nat]
<1>1. "failed" \in PlanStatus /\ "final" \in PC
  BY DEF PlanStatus, PC
<1>2. [p EXCEPT !.status = "failed"] \in Plan
  BY <1>1, StatusType
<1> DEFINE raised == [p EXCEPT !.status = "failed"]
<1> HIDE DEF raised
<1> SUFFICES ASSUME \/ /\ disk' = p
                       /\ mem' = [mem EXCEPT ![r] = p]
                       /\ pc' = [pc EXCEPT ![r] = next]
                       /\ spent' = spent
                    \/ /\ disk' = disk
                       /\ mem' = [mem EXCEPT ![r] = raised]
                       /\ pc' = [pc EXCEPT ![r] = "final"]
                       /\ spent' = [spent EXCEPT !.saveErrors = @ + 1]
             PROVE  /\ disk' \in Plan
                    /\ mem' \in [Runners -> Plan]
                    /\ pc' \in [Runners -> PC]
                    /\ spent' \in [runs : Nat, crashes : Nat, saveErrors : Nat, ops : Nat]
  BY DEF SaveOrRaise, SetMem, Goto, raised
<1>3. raised \in Plan
  BY <1>2 DEF raised
<1>4. disk' \in Plan /\ mem' \in [Runners -> Plan]
  BY <1>3 DEF TypeOK
<1>5. pc' \in [Runners -> PC]
  BY <1>1 DEF TypeOK
<1>6. spent' \in [runs : Nat, crashes : Nat, saveErrors : Nat, ops : Nat]
  BY DEF TypeOK
<1> QED BY <1>4, <1>5, <1>6

LEMMA AttemptsType ==
    ASSUME NEW s, NEW m, NEW log \in Verdict
    PROVE Attempts(s, m, log) \subseteq [step : StepStatus, log : Verdict]
BY DEF Attempts, Failed, Verified, StepStatus, Verdict

LEMMA FinishAttemptType ==
    ASSUME TypeOK, NEW r \in Runners, NEW S, NEW label \in PC,
           FinishAttempt(r, S, label)
    PROVE TypeOK'
<1>1. PICK f \in Results(r, S) :
          \E q \in AfterAbortCheck(Finalize(mem[r], S, f)) : SetMem(r, q)
  BY DEF FinishAttempt
<1>q. PICK q \in AfterAbortCheck(Finalize(mem[r], S, f)) : SetMem(r, q)
  BY <1>1
<1>2. f \in [S -> [step : StepStatus, log : Verdict]]
  BY <1>1 DEF Results
<1>3. q \in Plan
  BY <1>2, FinalizeType, AfterAbortCheckType DEF TypeOK
<1> QED BY <1>q, <1>3 DEF FinishAttempt, SetMem, Goto, TypeOK

\* What the start, the end and a crash of a run do to the runner's variables.
LEMMA ForgetType ==
    ASSUME TypeOK, NEW r \in Runners, Forget(r)
    PROVE /\ mem' \in [Runners -> Plan]
          /\ pc' \in [Runners -> PC]
          /\ wave' \in [Runners -> SUBSET Steps]
          /\ retries' \in [Runners -> [Steps -> Nat]]
          /\ mode' \in [Runners -> {"shadow", "active"}]
<1>1. NoRetries \in [Steps -> Nat] /\ "idle" \in PC
  BY DEF NoRetries, PC
<1> QED BY <1>1, InitialPlanType DEF Forget, SetMem, Goto, TypeOK

LEMMA LoadPlanType ==
    ASSUME TypeOK, NEW r \in Runners, LoadPlan(r)
    PROVE TypeOK'
<1>1. PICK stale \in SUBSET MayBeStale(disk) : SetMem(r, RecoverStale(disk, stale))
  BY DEF LoadPlan
<1>2. RecoverStale(disk, stale) \in Plan
  <2>1. "failed" \in StepStatus /\ "running" \in PlanStatus
    BY DEF StepStatus, PlanStatus
  <2>2. disk \in Plan
    BY DEF TypeOK
  <2>3. SetSteps(disk, stale, "failed") \in Plan
    BY <2>1, <2>2, SetStepsType
  <2> QED BY <2>1, <2>3, StatusType DEF RecoverStale
<1>3. mem' \in [Runners -> Plan]
  BY <1>1, <1>2 DEF SetMem, TypeOK
<1>4. mode' \in [Runners -> {"shadow", "active"}]
  BY PolicyAssumption DEF LoadPlan, TypeOK
<1>5. pc' \in [Runners -> PC]
  BY DEF LoadPlan, Goto, PC, TypeOK
<1>6. spent' \in [runs : Nat, crashes : Nat, saveErrors : Nat, ops : Nat]
  BY DEF LoadPlan, TypeOK
<1> QED BY <1>3, <1>4, <1>5, <1>6 DEF LoadPlan, TypeOK

LEMMA StartStepsType ==
    ASSUME TypeOK, NEW r \in Runners, NEW S \in SUBSET Steps, StartSteps(r, S)
    PROVE TypeOK'
<1>1. "running" \in StepStatus /\ "exec" \in PC
  BY DEF StepStatus, PC
<1>2. SetSteps(mem[r], S, "running") \in Plan
  BY <1>1, SetStepsType DEF TypeOK
<1>3. SaveOrRaise(r, SetSteps(mem[r], S, "running"), "exec")
  BY DEF StartSteps
<1>4. /\ disk' \in Plan
      /\ mem' \in [Runners -> Plan]
      /\ pc' \in [Runners -> PC]
      /\ spent' \in [runs : Nat, crashes : Nat, saveErrors : Nat, ops : Nat]
  BY <1>1, <1>2, <1>3, SaveOrRaiseType
<1> QED BY <1>4 DEF StartSteps, TypeOK

LEMMA RunStepType ==
    ASSUME TypeOK, NEW r \in Runners, RunStep(r)
    PROVE TypeOK'
<1> USE DEF Goto, SetMem
<1>0. /\ mem[r] \in Plan
      /\ {"loop", "select", "final", "exec", "save", "outcome", "reexec",
          "resave", "giveup"} \subseteq PC
      /\ {"running", "verified"} \subseteq StepStatus
      /\ "failed" \in PlanStatus
  BY DEF TypeOK, PC, StepStatus, PlanStatus
<1>1. CASE SaveStart(r)
  BY <1>0, <1>1 DEF SaveStart, TypeOK
<1>2. CASE CheckAbort(r)
  BY <1>0, <1>2, AfterAbortCheckType DEF CheckAbort, TypeOK
<1>3. CASE NothingRunnable(r)
  BY <1>0, <1>3, RecomputeType, StatusType DEF NothingRunnable, TypeOK
<1>4. CASE StartWave(r)
  <2>1. PICK S \in SUBSET Steps : StartSteps(r, S)
    BY <1>4 DEF StartWave, RunnableChats, RunnableSteps
  <2> QED BY <2>1, StartStepsType
<1>5. CASE StartOne(r)
  <2>1. {First(RunnableSteps(mem[r]))} \in SUBSET Steps
    BY <1>5, FirstInSet DEF StartOne, RunnableSteps
  <2> QED BY <1>5, <2>1, StartStepsType DEF StartOne
<1>6. CASE FinishSteps(r)
  BY <1>0, <1>6, FinishAttemptType DEF FinishSteps
<1>7. CASE SaveOutcome(r)
  <2>1. (IF mem[r].status = "aborted" THEN "final" ELSE "outcome") \in PC
    BY <1>0
  <2> QED BY <1>0, <1>7, <2>1, SaveOrRaiseType DEF SaveOutcome, TypeOK
<1>8. CASE WaveHandled(r)
  BY <1>0, <1>8 DEF WaveHandled, TypeOK
<1>9. CASE KeepGoing(r)
  BY <1>9 DEF KeepGoing, Handled, TypeOK
<1>10. CASE RetryStep(r)
  <2>1. mem' \in [Runners -> Plan]
    BY <1>0, <1>10, SetStepsType DEF RetryStep, TypeOK
  <2>2. retries' \in [Runners -> [Steps -> Nat]]
    <3> DEFINE s == First(wave[r])
               n == [retries[r] EXCEPT ![s] = @ + 1]
    <3>1. retries' = [retries EXCEPT ![r] = n]
      BY <1>10 DEF RetryStep
    <3>2. retries[r] \in [Steps -> Nat]
      BY DEF TypeOK
    <3>3. n \in [Steps -> Nat]
      <4>1. n = [t \in Steps |-> IF t = s THEN retries[r][s] + 1 ELSE retries[r][t]]
        BY <3>2
      <4>2. \A t \in Steps : retries[r][t] \in Nat /\ retries[r][t] + 1 \in Nat
        BY <3>2
      <4> HIDE DEF n
      <4> QED BY <4>1, <4>2
    <3> HIDE DEF n
    <3> QED BY <3>1, <3>3 DEF TypeOK
  <2> QED BY <1>0, <1>10, <2>1, <2>2 DEF RetryStep, TypeOK
<1>11. CASE FinishRetry(r)
  BY <1>0, <1>11, FinishAttemptType DEF FinishRetry
<1>12. CASE SaveRetry(r)
  <2>1. \E next \in {"final", "outcome", "giveup"} : SaveOrRaise(r, mem[r], next)
    BY <1>12 DEF SaveRetry
  <2>2. wave' \in [Runners -> SUBSET Steps]
    BY <1>12 DEF SaveRetry, Handled, TypeOK
  <2> QED BY <1>0, <1>12, <2>1, <2>2, SaveOrRaiseType DEF SaveRetry, TypeOK
<1>13. CASE ContinueAfterFail(r)
  <2>1. SetSteps(mem[r], {First(wave[r])}, "verified") \in Plan
    BY <1>0, SetStepsType
  <2>2. wave' \in [Runners -> SUBSET Steps]
    BY <1>13 DEF ContinueAfterFail, Handled, TypeOK
  <2> QED
    BY <1>0, <1>13, <2>1, <2>2, SaveOrRaiseType DEF ContinueAfterFail, TypeOK
<1>14. CASE StopOnFail(r)
  BY <1>0, <1>14, StatusType DEF StopOnFail, TypeOK
<1>15. CASE FinishRun(r)
  <2>1. disk' \in Plan
    BY <1>0, <1>15, FinalPlanType DEF FinishRun
  <2> QED BY <1>15, <2>1, ForgetType DEF FinishRun, TypeOK
<1> QED
  BY <1>1, <1>2, <1>3, <1>4, <1>5, <1>6, <1>7, <1>8, <1>9, <1>10, <1>11,
     <1>12, <1>13, <1>14, <1>15 DEF RunStep

LEMMA ClientType ==
    ASSUME TypeOK, NEW c \in Clients,
           LoadCancel(c) \/ LoadDecide(c) \/ SaveCall(c)
    PROVE TypeOK'
<1>0. disk \in Plan /\ client[c].doc \in Plan
  BY DEF TypeOK, Calls
<1>1. CASE LoadCancel(c)
  <2>1. [op |-> "cancel", doc |-> Abort(disk)] \in Calls
    BY <1>0, AbortType DEF Calls
  <2>2. spent' \in [runs : Nat, crashes : Nat, saveErrors : Nat, ops : Nat]
    BY <1>1 DEF LoadCancel, CallIdle, TypeOK
  <2> QED BY <1>1, <2>1, <2>2 DEF LoadCancel, CallIdle, runnerVars, TypeOK
<1>2. CASE LoadDecide(c)
  <2>1. PICK s \in Steps, decision \in {"approve", "reject"} :
          LET ok == decision = "approve"
              doc == SetSteps(disk, {s}, IF ok THEN "verified" ELSE "failed")
          IN client' = [client EXCEPT ![c] =
               [op |-> decision,
                doc |-> [doc EXCEPT !.log[s] = IF ok THEN "pass" ELSE "fail"]]]
    BY <1>2 DEF LoadDecide
  <2> DEFINE doc == SetSteps(disk, {s}, IF decision = "approve" THEN "verified" ELSE "failed")
             new == [doc EXCEPT !.log[s] = IF decision = "approve" THEN "pass" ELSE "fail"]
  <2>2. doc \in Plan
    <3>1. (IF decision = "approve" THEN "verified" ELSE "failed") \in StepStatus
      BY DEF StepStatus
    <3> QED BY <1>0, <3>1, SetStepsType
  <2>3. new \in Plan
    <3> HIDE DEF doc
    <3> QED BY <2>2 DEF Plan, Verdict
  <2>4. client' = [client EXCEPT ![c] = [op |-> decision, doc |-> new]]
    BY <2>1
  <2>5. client' \in [Clients -> Calls]
    <3> HIDE DEF new
    <3> QED BY <2>3, <2>4 DEF TypeOK, Calls
  <2>6. spent' \in [runs : Nat, crashes : Nat, saveErrors : Nat, ops : Nat]
    BY <1>2 DEF LoadDecide, CallIdle, TypeOK
  <2> QED BY <1>2, <2>5, <2>6 DEF LoadDecide, CallIdle, runnerVars, TypeOK
<1>3. CASE SaveCall(c)
  <2>1. NoCall \in Calls
    BY InitialPlanType DEF NoCall, Calls
  <2> QED BY <1>0, <1>3, <2>1 DEF SaveCall, runnerVars, TypeOK
<1> QED BY <1>1, <1>2, <1>3

\* Every variable keeps its type, whatever the interleaving.
THEOREM TypeCorrect == Spec => []TypeOK
<1>1. TypeOK /\ [Next]_vars => TypeOK'
  <2> SUFFICES ASSUME TypeOK, [Next]_vars PROVE TypeOK'
    OBVIOUS
  <2>1. ASSUME NEW r \in Runners, LoadPlan(r) PROVE TypeOK'
    BY <2>1, LoadPlanType
  <2>2. ASSUME NEW r \in Runners, RunStep(r) PROVE TypeOK'
    BY <2>2, RunStepType
  <2>3. ASSUME NEW r \in Runners, Crash(r) PROVE TypeOK'
    <3>1. spent' \in [runs : Nat, crashes : Nat, saveErrors : Nat, ops : Nat]
      BY <2>3 DEF Crash, TypeOK
    <3> QED BY <2>3, <3>1, ForgetType DEF Crash, TypeOK
  <2>4. ASSUME NEW c \in Clients, LoadCancel(c) \/ LoadDecide(c) \/ SaveCall(c)
        PROVE TypeOK'
    BY <2>4, ClientType
  <2>5. CASE UNCHANGED vars
    BY <2>5 DEF vars, TypeOK
  <2> QED BY <2>1, <2>2, <2>3, <2>4, <2>5 DEF Next
<1> QED BY InitType, <1>1, PTL DEF Spec

-----------------------------------------------------------------------------
(* The gates: Sound is a property of single documents, kept by every        *)
(* operation on a document, and documents are only ever copied as a whole.  *)

\* A document derived from a sound one is sound if the steps that changed had
\* their dependencies verified and were not verified themselves, and every
\* newly verified external step carries its approval.
LEMMA SoundMove ==
    ASSUME NEW p \in Plan, NEW q \in Plan, Sound(p),
           \A s \in Steps : q.step[s] # p.step[s] =>
                p.step[s] # "verified" /\ UnmetDeps(p, s) = {},
           OnFail # "continue" => \A s \in External : q.step[s] = "verified" =>
                \/ q.log[s] = "pass"
                \/ p.step[s] = "verified" /\ q.log[s] = p.log[s]
    PROVE Sound(q)
<1>1. ASSUME NEW s \in Steps, q.step[s] \notin {"pending", "skipped"}
      PROVE UnmetDeps(q, s) = {}
  <2>1. UnmetDeps(p, s) = {}
    BY <1>1 DEF Sound, StartedAfterDeps
  <2>2. \A d \in Deps[s] : d \in Steps /\ p.step[d] = "verified"
    BY <2>1, DepsAssumption DEF UnmetDeps
  <2>3. \A d \in Deps[s] : q.step[d] = "verified"
    BY <2>2
  <2> QED BY <2>3 DEF UnmetDeps
<1>2. OnFail # "continue" =>
        \A s \in External : q.step[s] = "verified" => q.log[s] = "pass"
  BY DEF Sound
<1> QED BY <1>1, <1>2 DEF Sound, StartedAfterDeps

LEMMA SoundSame ==
    ASSUME NEW p \in Plan, NEW q \in Plan, Sound(p), q.step = p.step, q.log = p.log
    PROVE Sound(q)
BY DEF Sound, StartedAfterDeps, UnmetDeps

LEMMA InitialSound == Sound(InitialPlan)
<1>1. InitialPlan \in Plan /\ InitialPlan.step = InitialStatus
  BY InitialPlanType DEF InitialPlan
<1>2. \A s \in External : InitialStatus[s] = "verified" => InitialPlan.log[s] = "pass"
  BY DEF InitialPlan, External
<1>3. StartedAfterDeps(InitialPlan)
  BY <1>1, InitialStatusAssumption DEF StartedAfterDeps, UnmetDeps
<1> QED BY <1>1, <1>2, <1>3 DEF Sound

\* A step of runner r touches nobody else's copy.
LEMMA RunnerFrame ==
    ASSUME GateInv, TypeOK', NEW r \in Runners,
           Sound(disk'), Sound(mem'[r]), RunningInCopy(r)',
           client' = client,
           \A q \in Runners \ {r} :
                mem'[q] = mem[q] /\ pc'[q] = pc[q] /\ wave'[q] = wave[q]
    PROVE GateInv'
<1>1. ASSUME NEW q \in Runners PROVE Sound(mem'[q]) /\ RunningInCopy(q)'
  BY DEF GateInv, WaveRunning, EveryCopy, RunningInCopy
<1>2. \A c \in Clients : Sound(client'[c].doc)
  BY DEF GateInv, EveryCopy
<1> QED BY <1>1, <1>2 DEF GateInv, WaveRunning, EveryCopy

LEMMA SaveOrRaiseSound ==
    ASSUME GateInv, NEW r \in Runners, NEW p \in Plan, Sound(p), NEW next,
           SaveOrRaise(r, p, next)
    PROVE /\ Sound(disk') /\ Sound(mem'[r])
          /\ mem'[r].step = p.step
          /\ pc'[r] \in {next, "final"}
          /\ \A q \in Runners \ {r} : mem'[q] = mem[q] /\ pc'[q] = pc[q]
<1> DEFINE raised == [p EXCEPT !.status = "failed"]
<1>1. raised \in Plan /\ raised.step = p.step /\ raised.log = p.log
  <2>1. "failed" \in PlanStatus
    BY DEF PlanStatus
  <2> QED BY <2>1, StatusType
<1>2. Sound(raised) /\ Sound(disk)
  BY <1>1, SoundSame DEF GateInv, EveryCopy
<1>3. \/ disk' = p /\ mem' = [mem EXCEPT ![r] = p] /\ pc' = [pc EXCEPT ![r] = next]
      \/ disk' = disk /\ mem' = [mem EXCEPT ![r] = raised] /\ pc' = [pc EXCEPT ![r] = "final"]
  BY DEF SaveOrRaise, SetMem, Goto
<1>4. mem \in [Runners -> Plan] /\ pc \in [Runners -> PC]
  BY DEF GateInv, TypeOK
<1> HIDE DEF raised
<1> QED BY <1>1, <1>2, <1>3, <1>4

\* Starting a set of runnable steps.
LEMMA StartStepsSound ==
    ASSUME GateInv, TypeOK', NEW r \in Runners,
           NEW S \in SUBSET RunnableSteps(mem[r]), StartSteps(r, S)
    PROVE GateInv'
<1> DEFINE p == SetSteps(mem[r], S, "running")
<1>1. mem[r] \in Plan /\ Sound(mem[r])
  BY DEF GateInv, EveryCopy, TypeOK
<1>2. /\ p \in Plan
      /\ p.step = [s \in Steps |-> IF s \in S THEN "running" ELSE mem[r].step[s]]
      /\ p.log = mem[r].log
  BY <1>1, SetStepsType DEF StepStatus
<1> HIDE DEF p
<1>3. \A s \in S : CanStart(mem[r], s) /\ s \in Steps
  BY DEF RunnableSteps
<1>4. Sound(p)
  <2>1. \A s \in Steps : p.step[s] # mem[r].step[s] =>
            mem[r].step[s] # "verified" /\ UnmetDeps(mem[r], s) = {}
    BY <1>2, <1>3 DEF CanStart
  <2>2. \A s \in External : p.step[s] = "verified" => mem[r].step[s] = "verified"
    BY <1>2 DEF External
  <2> QED BY <1>1, <1>2, <2>1, <2>2, SoundMove
<1>5. SaveOrRaise(r, p, "exec") /\ wave' = [wave EXCEPT ![r] = S]
  BY DEF StartSteps, p
<1>6. /\ Sound(disk') /\ Sound(mem'[r])
      /\ mem'[r].step = p.step
      /\ pc'[r] \in {"exec", "final"}
      /\ \A q \in Runners \ {r} : mem'[q] = mem[q] /\ pc'[q] = pc[q]
  BY <1>2, <1>4, <1>5, SaveOrRaiseSound
<1>7. wave'[r] = S /\ \A q \in Runners \ {r} : wave'[q] = wave[q]
  BY <1>5 DEF GateInv, TypeOK
<1>8. RunningInCopy(r)'
  BY <1>2, <1>3, <1>6, <1>7 DEF RunningInCopy
<1> QED BY <1>6, <1>7, <1>8, RunnerFrame DEF StartSteps

\* Finalizing steps that were running in the runner's copy.
LEMMA FinishAttemptSound ==
    ASSUME GateInv, TypeOK', NEW r \in Runners, NEW S \in SUBSET Steps,
           NEW label \in {"save", "resave"},
           \A s \in S : mem[r].step[s] = "running",
           FinishAttempt(r, S, label)
    PROVE GateInv'
<1>1. PICK f \in Results(r, S) :
          \E q \in AfterAbortCheck(Finalize(mem[r], S, f)) : SetMem(r, q)
  BY DEF FinishAttempt
<1>q. PICK q \in AfterAbortCheck(Finalize(mem[r], S, f)) : SetMem(r, q)
  BY <1>1
<1>2. /\ f \in [S -> [step : StepStatus, log : Verdict]]
      /\ \A s \in S : f[s] \in Attempts(s, mode[r], mem[r].log[s])
  BY <1>1 DEF Results
<1> DEFINE p == Finalize(mem[r], S, f)
<1>3. mem[r] \in Plan /\ Sound(mem[r]) /\ Sound(disk)
  BY DEF GateInv, EveryCopy, TypeOK
<1>4. /\ p \in Plan
      /\ p.step = [s \in Steps |-> IF s \in S THEN f[s].step ELSE mem[r].step[s]]
      /\ p.log = [s \in Steps |-> IF s \in S THEN f[s].log ELSE mem[r].log[s]]
  BY <1>2, <1>3, FinalizeType
<1>5. q \in Plan /\ q.step = p.step /\ q.log = p.log
  BY <1>4, AfterAbortCheckType
<1>6. SetMem(r, q)
  BY <1>q
<1> HIDE DEF p
<1>7. Sound(p)
  <2>1. \A s \in Steps : p.step[s] # mem[r].step[s] =>
            mem[r].step[s] # "verified" /\ UnmetDeps(mem[r], s) = {}
    <3> SUFFICES ASSUME NEW s \in Steps, p.step[s] # mem[r].step[s]
                 PROVE mem[r].step[s] # "verified" /\ UnmetDeps(mem[r], s) = {}
      OBVIOUS
    <3>1. mem[r].step[s] = "running"
      BY <1>4
    <3> QED BY <1>3, <3>1 DEF Sound, StartedAfterDeps
  <2>2. \A s \in External : p.step[s] = "verified" =>
            mem[r].step[s] = "verified" /\ p.log[s] = mem[r].log[s]
    <3> SUFFICES ASSUME NEW s \in External, p.step[s] = "verified"
                 PROVE mem[r].step[s] = "verified" /\ p.log[s] = mem[r].log[s]
      OBVIOUS
    <3>1. s \in Steps /\ Acceptance[s] # "none"
      BY DEF External
    <3>2. s \notin S
      BY <1>2, <1>4, <3>1 DEF Attempts, Failed
    <3> QED BY <1>4, <3>1, <3>2
  <2> QED BY <1>3, <1>4, <2>1, <2>2, SoundMove
<1>8. Sound(q)
  BY <1>4, <1>5, <1>7, SoundSame
<1>9. /\ mem'[r] = q
      /\ pc'[r] = label
      /\ disk' = disk /\ wave' = wave /\ client' = client
      /\ \A x \in Runners \ {r} : mem'[x] = mem[x] /\ pc'[x] = pc[x]
  BY <1>6 DEF FinishAttempt, SetMem, Goto, GateInv, TypeOK
<1>10. RunningInCopy(r)'
  BY <1>9 DEF RunningInCopy
<1> QED BY <1>3, <1>8, <1>9, <1>10, RunnerFrame

\* Steps of r that change its own copy and program counter at most, and move it
\* to a place where it executes nothing.
LEMMA RunnerMove ==
    ASSUME GateInv, TypeOK', NEW r \in Runners, NEW p \in Plan, Sound(p),
           SetMem(r, p), NEW label, Goto(r, label), label \notin {"exec", "reexec"},
           Sound(disk'), client' = client, wave' = wave
    PROVE GateInv'
<1>1. /\ mem'[r] = p /\ pc'[r] = label
      /\ \A q \in Runners \ {r} : mem'[q] = mem[q] /\ pc'[q] = pc[q]
  BY DEF SetMem, Goto, GateInv, TypeOK
<1>2. RunningInCopy(r)'
  BY <1>1 DEF RunningInCopy
<1> QED BY <1>1, <1>2, RunnerFrame

\* The same for a save, after which the handled steps leave the wave.
LEMMA SavedMove ==
    ASSUME GateInv, TypeOK', NEW r \in Runners, NEW p \in Plan, Sound(p),
           NEW next, next \notin {"exec", "reexec"}, SaveOrRaise(r, p, next),
           client' = client, \A q \in Runners \ {r} : wave'[q] = wave[q]
    PROVE GateInv'
<1>1. /\ Sound(disk') /\ Sound(mem'[r])
      /\ pc'[r] \in {next, "final"}
      /\ \A q \in Runners \ {r} : mem'[q] = mem[q] /\ pc'[q] = pc[q]
  BY SaveOrRaiseSound
<1>2. RunningInCopy(r)'
  BY <1>1 DEF RunningInCopy
<1> QED BY <1>1, <1>2, RunnerFrame

\* The end of a run, normal or not: its copy is dropped.
LEMMA ForgetSound ==
    ASSUME GateInv, TypeOK', NEW r \in Runners, Forget(r), Sound(disk'),
           client' = client
    PROVE GateInv'
<1>1. /\ mem'[r] = InitialPlan /\ pc'[r] = "idle"
      /\ \A q \in Runners \ {r} :
            mem'[q] = mem[q] /\ pc'[q] = pc[q] /\ wave'[q] = wave[q]
  BY DEF Forget, SetMem, Goto, GateInv, TypeOK
<1>2. Sound(mem'[r])
  BY <1>1, InitialSound
<1>3. RunningInCopy(r)'
  BY <1>1 DEF RunningInCopy
<1> QED BY <1>1, <1>2, <1>3, RunnerFrame

\* A transition of started, unverified steps keeps the document sound if it
\* verifies no external step.
LEMMA SoundTransition ==
    ASSUME NEW p \in Plan, Sound(p), NEW T \in SUBSET Steps, NEW to \in StepStatus,
           \A s \in T : p.step[s] \notin {"pending", "skipped", "verified"},
           to # "verified" \/ OnFail = "continue"
    PROVE SetSteps(p, T, to) \in Plan /\ Sound(SetSteps(p, T, to))
<1> DEFINE q == SetSteps(p, T, to)
<1>1. /\ q \in Plan
      /\ q.step = [s \in Steps |-> IF s \in T THEN to ELSE p.step[s]]
      /\ q.log = p.log
  BY SetStepsType
<1> HIDE DEF q
<1>2. ASSUME NEW s \in Steps, q.step[s] # p.step[s]
      PROVE p.step[s] # "verified" /\ UnmetDeps(p, s) = {}
  <2>1. s \in T
    BY <1>1, <1>2
  <2> QED BY <2>1 DEF Sound, StartedAfterDeps
<1>3. OnFail # "continue" => \A s \in External :
        q.step[s] = "verified" => p.step[s] = "verified" /\ q.log[s] = p.log[s]
  BY <1>1 DEF External
<1>4. Sound(q)
  BY <1>1, <1>2, <1>3, SoundMove
<1> QED BY <1>1, <1>4 DEF q

LEMMA LoadPlanSound ==
    ASSUME GateInv, TypeOK', NEW r \in Runners, LoadPlan(r)
    PROVE GateInv'
<1>1. PICK stale \in SUBSET MayBeStale(disk) : SetMem(r, RecoverStale(disk, stale))
  BY DEF LoadPlan
<1>2. disk \in Plan /\ Sound(disk)
  BY DEF GateInv, EveryCopy, TypeOK
<1>3. stale \in SUBSET Steps /\ \A s \in stale : disk.step[s] = "running"
  BY DEF MayBeStale
<1> DEFINE p == SetSteps(disk, stale, "failed")
<1>4. p \in Plan /\ Sound(p)
  <2>1. "failed" \in StepStatus
    BY DEF StepStatus
  <2> QED BY <1>2, <1>3, <2>1, SoundTransition
<1> HIDE DEF p
<1>5. RecoverStale(disk, stale) = [p EXCEPT !.status = "running"]
  BY DEF RecoverStale, p
<1>6. Sound(RecoverStale(disk, stale)) /\ RecoverStale(disk, stale) \in Plan
  <2>1. "running" \in PlanStatus
    BY DEF PlanStatus
  <2> QED BY <1>4, <1>5, <2>1, StatusType, SoundSame
<1> QED BY <1>1, <1>2, <1>6, RunnerMove DEF LoadPlan

\* The steps of the outcome handler that answer a failed step.
LEMMA FailedStepSound ==
    ASSUME GateInv, TypeOK', NEW r \in Runners,
           RetryStep(r) \/ ContinueAfterFail(r)
    PROVE GateInv'
<1> DEFINE s == First(wave[r])
<1>1. Outcome(r, "failed")
  BY DEF RetryStep, ContinueAfterFail
<1>2. s \in Steps /\ mem[r].step[s] = "failed"
  <2>1. wave[r] \in SUBSET Steps /\ wave[r] # {}
    BY <1>1 DEF Outcome, GateInv, TypeOK
  <2> QED BY <1>1, <2>1, FirstInSet DEF Outcome
<1>3. mem[r] \in Plan /\ Sound(mem[r]) /\ Sound(disk)
  BY DEF GateInv, EveryCopy, TypeOK
<1>4. CASE RetryStep(r)
  <2> DEFINE p == SetSteps(mem[r], {s}, "running")
  <2>1. "running" \in StepStatus
    BY DEF StepStatus
  <2>2. Sound(p) /\ p \in Plan
    BY <1>2, <1>3, <2>1, SoundTransition
  <2>3. p.step[s] = "running"
    <3>1. p.step = [x \in Steps |-> IF x \in {s} THEN "running" ELSE mem[r].step[x]]
      BY <1>3, <2>1, SetStepsType
    <3> HIDE DEF p, s
    <3> QED BY <1>2, <3>1
  <2> HIDE DEF p
  <2>4. SetMem(r, p) /\ Goto(r, "reexec") /\ UNCHANGED <<disk, wave, mode, client, spent>>
    BY <1>4 DEF RetryStep, p
  <2>5. /\ mem'[r] = p /\ pc'[r] = "reexec"
        /\ \A q \in Runners \ {r} : mem'[q] = mem[q] /\ pc'[q] = pc[q]
    BY <2>4 DEF SetMem, Goto, GateInv, TypeOK
  <2>6. RunningInCopy(r)'
    <3>1. wave[r] # {}
      BY <1>1 DEF Outcome
    <3> QED BY <2>3, <2>4, <2>5, <3>1 DEF RunningInCopy
  <2> QED BY <1>3, <2>2, <2>4, <2>5, <2>6, RunnerFrame
<1>5. CASE ContinueAfterFail(r)
  <2> DEFINE p == SetSteps(mem[r], {s}, "verified")
  <2>1. OnFail = "continue" /\ SaveOrRaise(r, p, "outcome") /\ client' = client
    BY <1>5 DEF ContinueAfterFail
  <2>2. \A q \in Runners \ {r} : wave'[q] = wave[q]
    BY <1>5 DEF ContinueAfterFail, Handled, GateInv, TypeOK
  <2>3. p \in Plan /\ Sound(p)
    <3>1. "verified" \in StepStatus
      BY DEF StepStatus
    <3> QED BY <1>2, <1>3, <2>1, <3>1, SoundTransition
  <2> HIDE DEF p
  <2> QED BY <2>1, <2>2, <2>3, SavedMove
<1> QED BY <1>4, <1>5

LEMMA RunStepSound ==
    ASSUME GateInv, TypeOK', NEW r \in Runners, RunStep(r)
    PROVE GateInv'
<1>0. /\ mem[r] \in Plan /\ Sound(mem[r]) /\ Sound(disk)
      /\ wave[r] \in SUBSET Steps
      /\ RunningInCopy(r)
      /\ pc \in [Runners -> PC] /\ mem \in [Runners -> Plan]
      /\ wave \in [Runners -> SUBSET Steps]
  BY DEF GateInv, EveryCopy, TypeOK, WaveRunning
<1>f. "failed" \in PlanStatus
  BY DEF PlanStatus
<1>1. CASE SaveStart(r)
  <2>1. mem' = mem /\ wave' = wave /\ client' = client /\ Sound(disk')
    BY <1>0, <1>1 DEF SaveStart
  <2>2. pc'[r] = "loop" /\ \A q \in Runners \ {r} : pc'[q] = pc[q]
    BY <1>0, <1>1 DEF SaveStart, Goto
  <2>3. RunningInCopy(r)'
    BY <2>2 DEF RunningInCopy
  <2> QED BY <1>0, <2>1, <2>2, <2>3, RunnerFrame
<1>2. CASE CheckAbort(r)
  <2>0. PICK p \in AfterAbortCheck(mem[r]), label \in {"final", "select"} :
            SetMem(r, p) /\ Goto(r, label)
    BY <1>2 DEF CheckAbort
  <2>1. p \in Plan /\ Sound(p)
    BY <1>0, AfterAbortCheckType, SoundSame
  <2>2. SetMem(r, p) /\ Goto(r, label)
    BY <2>0
  <2> QED BY <1>0, <1>2, <2>1, <2>2, RunnerMove DEF CheckAbort
<1>3. CASE NothingRunnable(r)
  <2>1. PICK p \in {[mem[r] EXCEPT !.status = "failed"], RecomputePlanStatus(mem[r])} :
            SetMem(r, p)
    BY <1>3 DEF NothingRunnable
  <2>2. p \in Plan /\ p.step = mem[r].step /\ p.log = mem[r].log
    <3>1. CASE p = RecomputePlanStatus(mem[r])
      BY <1>0, <3>1, RecomputeType
    <3>2. CASE p = [mem[r] EXCEPT !.status = "failed"]
      BY <1>0, <1>f, <3>2, StatusType
    <3> QED BY <2>1, <3>1, <3>2
  <2>3. Sound(p)
    BY <1>0, <2>2, SoundSame
  <2> QED BY <1>0, <1>3, <2>1, <2>2, <2>3, RunnerMove DEF NothingRunnable
<1>4. CASE StartWave(r)
  <2>1. PICK S \in SUBSET RunnableSteps(mem[r]) : StartSteps(r, S)
    BY <1>4 DEF StartWave, RunnableChats
  <2> QED BY <2>1, StartStepsSound
<1>5. CASE StartOne(r)
  <2>1. First(RunnableSteps(mem[r])) \in RunnableSteps(mem[r])
    BY <1>5, FirstInSet DEF StartOne, RunnableSteps
  <2>2. {First(RunnableSteps(mem[r]))} \in SUBSET RunnableSteps(mem[r])
    BY <2>1
  <2> QED BY <1>5, <2>2, StartStepsSound DEF StartOne
<1>6. CASE FinishSteps(r)
  BY <1>0, <1>6, FinishAttemptSound DEF FinishSteps, RunningInCopy
<1>7. CASE SaveOutcome(r)
  <2>1. PICK next \in {"final", "outcome"} : SaveOrRaise(r, mem[r], next)
    BY <1>7 DEF SaveOutcome
  <2> QED BY <1>0, <1>7, <2>1, SavedMove DEF SaveOutcome
<1>8. CASE WaveHandled(r)
  <2>1. /\ mem' = mem /\ wave' = wave /\ client' = client /\ disk' = disk
        /\ pc'[r] = "loop" /\ \A q \in Runners \ {r} : pc'[q] = pc[q]
    BY <1>0, <1>8 DEF WaveHandled, Goto
  <2>2. RunningInCopy(r)'
    BY <2>1 DEF RunningInCopy
  <2> QED BY <1>0, <2>1, <2>2, RunnerFrame
<1>9. CASE KeepGoing(r)
  <2>1. /\ mem' = mem /\ pc' = pc /\ client' = client /\ disk' = disk
        /\ pc[r] = "outcome"
        /\ \A q \in Runners \ {r} : wave'[q] = wave[q]
    BY <1>0, <1>9 DEF KeepGoing, Handled, Outcome
  <2>2. RunningInCopy(r)'
    BY <2>1 DEF RunningInCopy
  <2> QED BY <1>0, <2>1, <2>2, RunnerFrame
<1>10. CASE RetryStep(r)
  BY <1>10, FailedStepSound
<1>11. CASE FinishRetry(r)
  <2>1. {First(wave[r])} \in SUBSET Steps /\ mem[r].step[First(wave[r])] = "running"
    BY <1>0, <1>11, FirstInSet DEF FinishRetry, RunningInCopy
  <2> QED BY <1>11, <2>1, FinishAttemptSound DEF FinishRetry
<1>12. CASE SaveRetry(r)
  <2>1. PICK next \in {"final", "outcome", "giveup"} : SaveOrRaise(r, mem[r], next)
    BY <1>12 DEF SaveRetry
  <2>2. client' = client /\ \A q \in Runners \ {r} : wave'[q] = wave[q]
    BY <1>0, <1>12 DEF SaveRetry, Handled
  <2> QED BY <1>0, <2>1, <2>2, SavedMove
<1>13. CASE ContinueAfterFail(r)
  BY <1>13, FailedStepSound
<1>14. CASE StopOnFail(r)
  <2> DEFINE p == [mem[r] EXCEPT !.status = "failed"]
  <2>1. p \in Plan /\ Sound(p)
    BY <1>0, <1>f, StatusType, SoundSame
  <2>2. SetMem(r, p) /\ Goto(r, "final") /\ client' = client /\ wave' = wave /\ disk' = disk
    BY <1>14 DEF StopOnFail
  <2> HIDE DEF p
  <2> QED BY <1>0, <2>1, <2>2, RunnerMove
<1>15. CASE FinishRun(r)
  <2>1. Sound(disk')
    BY <1>0, <1>15, FinalPlanType, SoundSame DEF FinishRun
  <2> QED BY <1>15, <2>1, ForgetSound DEF FinishRun
<1> QED
  BY <1>1, <1>2, <1>3, <1>4, <1>5, <1>6, <1>7, <1>8, <1>9, <1>10, <1>11,
     <1>12, <1>13, <1>14, <1>15 DEF RunStep

LEMMA ClientSound ==
    ASSUME GateInv, TypeOK', NEW c \in Clients,
           LoadCancel(c) \/ LoadDecide(c) \/ SaveCall(c)
    PROVE GateInv'
<1>0. /\ disk \in Plan /\ Sound(disk)
      /\ \A d \in Clients : client[d].doc \in Plan /\ Sound(client[d].doc)
      /\ client \in [Clients -> Calls]
  BY DEF GateInv, EveryCopy, TypeOK, Calls
<1>1. mem' = mem /\ pc' = pc /\ wave' = wave
  BY DEF LoadCancel, LoadDecide, SaveCall, CallIdle, runnerVars
<1>2. ASSUME Sound(disk'), \A d \in Clients : Sound(client'[d].doc)
      PROVE GateInv'
  BY <1>1, <1>2 DEF GateInv, EveryCopy, WaveRunning, RunningInCopy
<1>3. CASE LoadCancel(c)
  <2>1. Sound(Abort(disk))
    BY <1>0, AbortType, SoundSame
  <2> QED BY <1>0, <1>2, <1>3, <2>1 DEF LoadCancel, CallIdle
<1>4. CASE LoadDecide(c)
  <2>1. PICK s \in Steps, decision \in {"approve", "reject"} :
          /\ disk.step[s] = "verifying"
          /\ LET ok == decision = "approve"
                 doc == SetSteps(disk, {s}, IF ok THEN "verified" ELSE "failed")
             IN client' = [client EXCEPT ![c] =
                  [op |-> decision,
                   doc |-> [doc EXCEPT !.log[s] = IF ok THEN "pass" ELSE "fail"]]]
    BY <1>4 DEF LoadDecide
  <2> DEFINE to == IF decision = "approve" THEN "verified" ELSE "failed"
             verdict == IF decision = "approve" THEN "pass" ELSE "fail"
             doc == SetSteps(disk, {s}, to)
             new == [doc EXCEPT !.log[s] = verdict]
  <2>2. /\ doc \in Plan
        /\ doc.step = [t \in Steps |-> IF t \in {s} THEN to ELSE disk.step[t]]
        /\ doc.log = disk.log
    <3>1. to \in StepStatus
      BY DEF StepStatus
    <3> HIDE DEF to
    <3> QED BY <1>0, <3>1, SetStepsType
  <2>3. /\ new \in Plan
        /\ new.step = doc.step
        /\ new.log = [t \in Steps |-> IF t = s THEN verdict ELSE disk.log[t]]
    <3>1. verdict \in Verdict
      BY DEF Verdict
    <3> HIDE DEF doc, verdict
    <3> QED BY <2>2, <3>1 DEF Plan
  <2>4. client' = [client EXCEPT ![c] = [op |-> decision, doc |-> new]]
    BY <2>1
  <2>5. ASSUME NEW t \in Steps, new.step[t] # disk.step[t]
        PROVE disk.step[t] # "verified" /\ UnmetDeps(disk, t) = {}
    <3>1. t = s
      BY <2>2, <2>3, <2>5
    <3> QED BY <1>0, <2>1, <3>1 DEF Sound, StartedAfterDeps
  <2>6. ASSUME NEW t \in External, new.step[t] = "verified"
        PROVE \/ new.log[t] = "pass"
              \/ disk.step[t] = "verified" /\ new.log[t] = disk.log[t]
    <3>1. t \in Steps
      BY DEF External
    <3>2. CASE t = s
      BY <2>2, <2>3, <2>6, <3>1, <3>2
    <3>3. CASE t # s
      BY <2>2, <2>3, <2>6, <3>1, <3>3
    <3> QED BY <3>2, <3>3
  <2> HIDE DEF new, doc
  <2>7. Sound(new)
    BY <1>0, <2>3, <2>5, <2>6, SoundMove
  <2>8. \A d \in Clients : Sound(client'[d].doc)
    BY <1>0, <2>4, <2>7
  <2>9. disk' = disk
    BY <1>4 DEF LoadDecide, CallIdle
  <2> QED BY <1>0, <1>2, <2>8, <2>9
<1>5. CASE SaveCall(c)
  <2>1. disk' = client[c].doc /\ client' = [client EXCEPT ![c] = NoCall]
    BY <1>5 DEF SaveCall
  <2>2. Sound(NoCall.doc)
    BY InitialSound DEF NoCall
  <2>3. \A d \in Clients : Sound(client'[d].doc)
    <3> HIDE DEF NoCall
    <3> QED BY <1>0, <2>1, <2>2
  <2> QED BY <1>0, <1>2, <2>1, <2>3
<1> QED BY <1>3, <1>4, <1>5

\* Every copy of the document stays sound, in any interleaving of runs,
\* crashes and API calls: the inductive invariant behind both gates.
THEOREM GateInvariant == Spec => []GateInv
<1>1. Init => GateInv
  <2> SUFFICES ASSUME Init PROVE GateInv
    OBVIOUS
  <2>1. TypeOK
    BY InitType
  <2>2. WaveRunning
    BY DEF Init, WaveRunning, RunningInCopy
  <2>3. EveryCopy(Sound)
    BY InitialSound DEF Init, EveryCopy, NoCall
  <2> QED BY <2>1, <2>2, <2>3 DEF GateInv
<1>2. GateInv /\ TypeOK' /\ [Next]_vars => GateInv'
  <2> SUFFICES ASSUME GateInv, TypeOK', [Next]_vars PROVE GateInv'
    OBVIOUS
  <2>1. ASSUME NEW r \in Runners, LoadPlan(r) PROVE GateInv'
    BY <2>1, LoadPlanSound
  <2>2. ASSUME NEW r \in Runners, RunStep(r) PROVE GateInv'
    BY <2>2, RunStepSound
  <2>3. ASSUME NEW r \in Runners, Crash(r) PROVE GateInv'
    <3>1. Sound(disk') /\ Forget(r) /\ client' = client
      BY <2>3 DEF Crash, GateInv, EveryCopy
    <3> QED BY <3>1, ForgetSound
  <2>4. ASSUME NEW c \in Clients, LoadCancel(c) \/ LoadDecide(c) \/ SaveCall(c)
        PROVE GateInv'
    BY <2>4, ClientSound
  <2>5. CASE UNCHANGED vars
    BY <2>5 DEF vars, GateInv, TypeOK, WaveRunning, RunningInCopy, EveryCopy
  <2> QED BY <2>1, <2>2, <2>3, <2>4, <2>5 DEF Next
<1> QED BY <1>1, <1>2, TypeCorrect, PTL DEF Spec

\* A step of a copy of the plan that was ever started has its dependencies
\* verified in that copy, for any plan, failure policy, number of runs and
\* clients, crashes and save errors.
THEOREM DependencyGateHolds == Spec => []DependencyGate
<1>1. GateInv => DependencyGate
  BY DEF GateInv, DependencyGate, EveryCopy, Sound
<1> QED BY <1>1, GateInvariant, PTL

\* Unless failures are waved through with on_fail=continue, no externally
\* resolved step counts as verified, and none of its dependents starts,
\* without the approval recorded by decide().
THEOREM HumanGateHolds ==
    ASSUME OnFail # "continue" PROVE Spec => []HumanGate
<1>1. ASSUME NEW p, Sound(p) PROVE Approved(p)
  <2> SUFFICES ASSUME NEW s \in External,
                      \/ p.step[s] = "verified"
                      \/ \E t \in Steps :
                            s \in Deps[t] /\ p.step[t] \notin {"pending", "skipped"}
               PROVE  p.log[s] = "pass"
    BY DEF Approved
  <2>1. p.step[s] = "verified"
    BY <1>1 DEF Sound, StartedAfterDeps, UnmetDeps
  <2> QED BY <1>1, <2>1 DEF Sound
<1>2. GateInv => HumanGate
  BY <1>1 DEF GateInv, HumanGate, EveryCopy
<1> QED BY <1>2, GateInvariant, PTL

-----------------------------------------------------------------------------
(* Active runs: a step with checks is verified on its own passed checks       *)

LEMMA CheckedSame ==
    ASSUME NEW p, NEW q, Checked(p), q.step = p.step, q.log = p.log
    PROVE Checked(q)
BY DEF Checked

LEMMA CheckedInitial == Checked(InitialPlan)
BY InitialStatusAssumption DEF Checked, InitialPlan

\* A transition that verifies nothing leaves nothing to check.
LEMMA CheckedTransition ==
    ASSUME NEW p \in Plan, Checked(p), NEW T, NEW to \in StepStatus, to # "verified"
    PROVE SetSteps(p, T, to) \in Plan /\ Checked(SetSteps(p, T, to))
<1> DEFINE q == SetSteps(p, T, to)
<1>1. /\ q \in Plan
      /\ q.step = [s \in Steps |-> IF s \in T THEN to ELSE p.step[s]]
      /\ q.log = p.log
  BY SetStepsType
<1> HIDE DEF q
<1>2. Checked(q)
  BY <1>1 DEF Checked
<1> QED BY <1>1, <1>2 DEF q

\* A step of runner r touches nobody else's copy and no run's mode.
LEMMA CheckedFrame ==
    ASSUME CheckedInv, TypeOK', NEW r \in Runners, NEW p, mem' = [mem EXCEPT ![r] = p],
           Checked(p), Checked(disk'), client' = client,
           \A q \in Runners : mode'[q] = "active"
    PROVE CheckedInv'
<1>1. \A q \in Runners : Checked(mem'[q])
  BY DEF CheckedInv, EveryCopy, TypeOK
<1> QED BY <1>1 DEF CheckedInv, EveryCopy

LEMMA CheckedSave ==
    ASSUME CheckedInv, TypeOK', NEW r \in Runners, NEW p \in Plan, Checked(p), NEW next,
           SaveOrRaise(r, p, next), client' = client, mode' = mode
    PROVE CheckedInv'
<1> DEFINE raised == [p EXCEPT !.status = "failed"]
<1>1. raised.step = p.step /\ raised.log = p.log
  BY DEF Plan
<1>2. Checked(raised) /\ Checked(disk) /\ \A q \in Runners : mode'[q] = "active"
  BY <1>1, CheckedSame DEF CheckedInv, EveryCopy
<1>3. \/ disk' = p /\ mem' = [mem EXCEPT ![r] = p]
      \/ disk' = disk /\ mem' = [mem EXCEPT ![r] = raised]
  BY DEF SaveOrRaise, SetMem
<1> HIDE DEF raised
<1> QED BY <1>2, <1>3, CheckedFrame

\* Finalizing an attempt of an active run verifies a step with checks only on a
\* pass of this attempt.
LEMMA CheckedAttempt ==
    ASSUME CheckedInv, TypeOK', NEW r \in Runners, NEW S, NEW label,
           FinishAttempt(r, S, label)
    PROVE CheckedInv'
<1>1. PICK f \in Results(r, S) :
          \E q \in AfterAbortCheck(Finalize(mem[r], S, f)) : SetMem(r, q)
  BY DEF FinishAttempt
<1>q. PICK q \in AfterAbortCheck(Finalize(mem[r], S, f)) : SetMem(r, q)
  BY <1>1
<1>2. /\ f \in [S -> [step : StepStatus, log : Verdict]]
      /\ \A s \in S : f[s] \in Attempts(s, mode[r], mem[r].log[s])
  BY <1>1 DEF Results
<1>3. /\ mem[r] \in Plan /\ Checked(mem[r]) /\ Checked(disk) /\ mode[r] = "active"
  BY DEF CheckedInv, EveryCopy, TypeOK
<1> DEFINE p == Finalize(mem[r], S, f)
<1>4. /\ p \in Plan
      /\ p.step = [s \in Steps |-> IF s \in S THEN f[s].step ELSE mem[r].step[s]]
      /\ p.log = [s \in Steps |-> IF s \in S THEN f[s].log ELSE mem[r].log[s]]
  BY <1>2, <1>3, FinalizeType
<1>5. q.step = p.step /\ q.log = p.log
  BY <1>4, AfterAbortCheckType
<1>6. mem' = [mem EXCEPT ![r] = q]
  BY <1>q DEF SetMem
<1> HIDE DEF p
<1>7. ASSUME NEW s \in Steps, Acceptance[s] = "checks", p.step[s] = "verified"
      PROVE p.log[s] = "pass"
  <2>1. CASE s \in S
    <3>1. f[s].step = "verified" => f[s].log = "pass"
      BY <1>2, <1>3, <1>7, <2>1 DEF Attempts, Failed, Verified, External
    <3> QED BY <1>4, <1>7, <2>1, <3>1
  <2>2. CASE s \notin S
    BY <1>3, <1>4, <1>7, <2>2 DEF Checked
  <2> QED BY <2>1, <2>2
<1>8. Checked(q)
  BY <1>5, <1>7 DEF Checked
<1>9. disk' = disk /\ client' = client /\ \A x \in Runners : mode'[x] = "active"
  BY DEF FinishAttempt, CheckedInv
<1> QED BY <1>3, <1>6, <1>8, <1>9, CheckedFrame

LEMMA CheckedForget ==
    ASSUME CheckedInv, TypeOK', NEW r \in Runners, Forget(r), Checked(disk'),
           client' = client
    PROVE CheckedInv'
<1>1. mem' = [mem EXCEPT ![r] = InitialPlan] /\ \A q \in Runners : mode'[q] = "active"
  BY DEF Forget, SetMem, CheckedInv, TypeOK
<1> QED BY <1>1, CheckedInitial, CheckedFrame

LEMMA CheckedRunStep ==
    ASSUME CheckedInv, TypeOK', OnFail # "continue", NEW r \in Runners, RunStep(r)
    PROVE CheckedInv'
<1>0. /\ mem[r] \in Plan /\ Checked(mem[r]) /\ Checked(disk)
      /\ {"running", "failed"} \subseteq StepStatus /\ "failed" \in PlanStatus
      /\ \A q \in Runners : mode[q] = "active"
  BY DEF CheckedInv, EveryCopy, TypeOK, StepStatus, PlanStatus
<1>1. ASSUME NEW p, p.step = mem[r].step, p.log = mem[r].log, SetMem(r, p),
             disk' = disk, mode' = mode, client' = client
      PROVE CheckedInv'
  <2>1. Checked(p)
    BY <1>0, <1>1, CheckedSame
  <2> QED BY <1>0, <1>1, <2>1, CheckedFrame DEF SetMem
<1>2. ASSUME disk' \in {disk, mem[r]}, mem' = mem, mode' = mode, client' = client
      PROVE CheckedInv'
  BY <1>0, <1>2 DEF CheckedInv, EveryCopy
<1>3. CASE SaveStart(r) \/ WaveHandled(r) \/ KeepGoing(r)
  BY <1>2, <1>3 DEF SaveStart, WaveHandled, KeepGoing
<1>4. CASE CheckAbort(r)
  BY <1>0, <1>1, <1>4, AfterAbortCheckType DEF CheckAbort
<1>5. CASE NothingRunnable(r)
  <2>1. PICK p \in {[mem[r] EXCEPT !.status = "failed"], RecomputePlanStatus(mem[r])} :
            SetMem(r, p)
    BY <1>5 DEF NothingRunnable
  <2>2. p.step = mem[r].step /\ p.log = mem[r].log
    <3>1. CASE p = RecomputePlanStatus(mem[r])
      BY <1>0, <3>1, RecomputeType
    <3>2. CASE p = [mem[r] EXCEPT !.status = "failed"]
      BY <1>0, <3>2, StatusType
    <3> QED BY <2>1, <3>1, <3>2
  <2> QED BY <1>1, <1>5, <2>1, <2>2 DEF NothingRunnable
<1>6. CASE StartWave(r) \/ StartOne(r)
  <2>1. PICK S : StartSteps(r, S)
    BY <1>6 DEF StartWave, StartOne
  <2>2. /\ SetSteps(mem[r], S, "running") \in Plan
        /\ Checked(SetSteps(mem[r], S, "running"))
    BY <1>0, CheckedTransition
  <2> QED BY <2>1, <2>2, CheckedSave DEF StartSteps
<1>7. CASE FinishSteps(r) \/ FinishRetry(r)
  BY <1>7, CheckedAttempt DEF FinishSteps, FinishRetry
<1>8. CASE SaveOutcome(r) \/ SaveRetry(r)
  <2>1. \E next \in {"final", "outcome", "giveup"} : SaveOrRaise(r, mem[r], next)
    BY <1>8 DEF SaveOutcome, SaveRetry
  <2>2. mode' = mode /\ client' = client
    BY <1>8 DEF SaveOutcome, SaveRetry
  <2> QED BY <1>0, <2>1, <2>2, CheckedSave
<1>9. CASE RetryStep(r)
  <2>1. Checked(SetSteps(mem[r], {First(wave[r])}, "running"))
    BY <1>0, CheckedTransition
  <2> QED BY <1>0, <1>9, <2>1, CheckedFrame DEF RetryStep, SetMem
<1>10. CASE ContinueAfterFail(r)
  BY <1>10 DEF ContinueAfterFail
<1>11. CASE StopOnFail(r)
  <2>1. /\ [mem[r] EXCEPT !.status = "failed"].step = mem[r].step
        /\ [mem[r] EXCEPT !.status = "failed"].log = mem[r].log
    BY <1>0, StatusType
  <2> QED BY <1>1, <1>11, <2>1 DEF StopOnFail
<1>12. CASE FinishRun(r)
  <2>1. Checked(disk')
    BY <1>0, <1>12, FinalPlanType, CheckedSame DEF FinishRun
  <2> QED BY <1>12, <2>1, CheckedForget DEF FinishRun
<1> QED
  BY <1>3, <1>4, <1>5, <1>6, <1>7, <1>8, <1>9, <1>10, <1>11, <1>12 DEF RunStep

\* A decision concerns human gates only, a cancel no step at all.
LEMMA CheckedClient ==
    ASSUME CheckedInv, TypeOK', NEW c \in Clients,
           LoadCancel(c) \/ LoadDecide(c) \/ SaveCall(c)
    PROVE CheckedInv'
<1>0. /\ disk \in Plan /\ Checked(disk) /\ client \in [Clients -> Calls]
      /\ \A d \in Clients : Checked(client[d].doc)
  BY DEF CheckedInv, EveryCopy, TypeOK
<1>1. mem' = mem /\ mode' = mode
  BY DEF LoadCancel, LoadDecide, SaveCall, CallIdle, runnerVars
<1>2. ASSUME NEW op, NEW q, client' = [client EXCEPT ![c] = [op |-> op, doc |-> q]],
             Checked(q), Checked(disk')
      PROVE CheckedInv'
  <2>1. ASSUME NEW d \in Clients PROVE Checked(client'[d].doc)
    <3>1. CASE d = c
      <4>1. client'[d].doc = q
        BY <1>0, <1>2, <3>1
      <4> QED BY <1>2, <4>1
    <3>2. CASE d # c
      <4>1. client'[d].doc = client[d].doc
        BY <1>0, <1>2, <3>2
      <4> QED BY <1>0, <4>1
    <3> QED BY <3>1, <3>2
  <2> QED BY <1>1, <1>2, <2>1 DEF CheckedInv, EveryCopy
<1>3. CASE LoadCancel(c)
  <2>1. Checked(Abort(disk))
    BY <1>0, AbortType, CheckedSame
  <2> QED BY <1>0, <1>2, <1>3, <2>1 DEF LoadCancel, CallIdle
<1>4. CASE LoadDecide(c)
  <2>1. PICK s \in Steps, decision \in {"approve", "reject"} :
          /\ Acceptance[s] = "human"
          /\ LET ok == decision = "approve"
                 doc == SetSteps(disk, {s}, IF ok THEN "verified" ELSE "failed")
             IN client' = [client EXCEPT ![c] =
                  [op |-> decision,
                   doc |-> [doc EXCEPT !.log[s] = IF ok THEN "pass" ELSE "fail"]]]
    BY <1>4 DEF LoadDecide
  <2> DEFINE to == IF decision = "approve" THEN "verified" ELSE "failed"
             verdict == IF decision = "approve" THEN "pass" ELSE "fail"
             doc == SetSteps(disk, {s}, to)
             new == [doc EXCEPT !.log[s] = verdict]
  <2>2. to \in StepStatus
    BY DEF StepStatus
  <2>3. /\ doc \in Plan
        /\ doc.step = [t \in Steps |-> IF t \in {s} THEN to ELSE disk.step[t]]
        /\ doc.log = disk.log
    <3> HIDE DEF to
    <3> QED BY <1>0, <2>2, SetStepsType
  <2>4. client' = [client EXCEPT ![c] = [op |-> decision, doc |-> new]] /\ disk' = disk
    BY <1>4, <2>1 DEF LoadDecide, CallIdle
  <2> HIDE DEF doc, to, verdict
  <2>5. new.step = doc.step /\ \A t \in Steps : t # s => new.log[t] = disk.log[t]
    BY <2>3 DEF Plan
  <2>6. Checked(new)
    <3> SUFFICES ASSUME NEW t \in Steps, Acceptance[t] = "checks", new.step[t] = "verified"
                 PROVE  new.log[t] = "pass"
      BY DEF Checked
    <3>1. t # s
      BY <2>1
    <3> HIDE DEF new
    <3>2. disk.step[t] = "verified" /\ new.log[t] = disk.log[t]
      BY <2>3, <2>5, <3>1
    <3> QED BY <1>0, <3>2 DEF Checked
  <2> HIDE DEF new
  <2> QED BY <1>0, <1>2, <2>4, <2>6
<1>5. CASE SaveCall(c)
  <2>1. /\ client' = [client EXCEPT ![c] = [op |-> "none", doc |-> InitialPlan]]
        /\ disk' = client[c].doc
    BY <1>5 DEF SaveCall, NoCall
  <2>2. Checked(disk')
    BY <1>0, <2>1
  <2> QED BY <1>2, <2>1, <2>2, CheckedInitial
<1> QED BY <1>3, <1>4, <1>5

\* Unless failures are waved through with on_fail=continue, in active runs a step
\* with acceptance checks counts as verified, in any copy of the document, only
\* on the passed checks recorded with it, whatever runs, calls and crashes
\* overlap.
THEOREM CheckedGateHolds ==
    ASSUME OnFail # "continue"
    PROVE Spec => []CheckedGate
<1>1. RunModes = {"active"} /\ Init => CheckedInv
  <2> SUFFICES ASSUME Init PROVE CheckedInv
    OBVIOUS
  <2>1. EveryCopy(Checked) /\ \A r \in Runners : mode[r] = "active"
    BY CheckedInitial DEF Init, EveryCopy, NoCall
  <2> QED BY <2>1, InitType DEF CheckedInv
<1>2. RunModes = {"active"} /\ CheckedInv /\ TypeOK' /\ [Next]_vars => CheckedInv'
  <2> SUFFICES ASSUME RunModes = {"active"}, CheckedInv, TypeOK', [Next]_vars
               PROVE CheckedInv'
    OBVIOUS
  <2>0. Checked(disk) /\ disk \in Plan
    BY DEF CheckedInv, EveryCopy, TypeOK
  <2>1. ASSUME NEW r \in Runners, LoadPlan(r) PROVE CheckedInv'
    <3>1. PICK stale \in SUBSET MayBeStale(disk) :
              SetMem(r, RecoverStale(disk, stale))
      BY <2>1 DEF LoadPlan
    <3>2. /\ SetSteps(disk, stale, "failed") \in Plan
          /\ Checked(SetSteps(disk, stale, "failed"))
      <4>1. "failed" \in StepStatus
        BY DEF StepStatus
      <4> QED BY <2>0, <4>1, CheckedTransition
    <3>3. Checked(RecoverStale(disk, stale))
      <4>1. "running" \in PlanStatus
        BY DEF PlanStatus
      <4> QED BY <3>2, <4>1, StatusType, CheckedSame DEF RecoverStale
    <3>4. disk' = disk /\ client' = client /\ \A q \in Runners : mode'[q] = "active"
      BY <2>1 DEF LoadPlan, CheckedInv, TypeOK
    <3>5. mem' = [mem EXCEPT ![r] = RecoverStale(disk, stale)] /\ Checked(disk')
      BY <2>0, <3>1, <3>4 DEF SetMem
    <3> QED BY <3>3, <3>4, <3>5, CheckedFrame
  <2>2. ASSUME NEW r \in Runners, RunStep(r) PROVE CheckedInv'
    BY <2>2, CheckedRunStep
  <2>3. ASSUME NEW r \in Runners, Crash(r) PROVE CheckedInv'
    BY <2>0, <2>3, CheckedForget DEF Crash
  <2>4. ASSUME NEW c \in Clients, LoadCancel(c) \/ LoadDecide(c) \/ SaveCall(c)
        PROVE CheckedInv'
    BY <2>4, CheckedClient
  <2>5. CASE UNCHANGED vars
    BY <2>5 DEF vars, CheckedInv, TypeOK, EveryCopy
  <2> QED BY <2>1, <2>2, <2>3, <2>4, <2>5 DEF Next
<1>3. (RunModes = {"active"} => CheckedInv) => CheckedGate
  BY DEF CheckedInv, CheckedGate
<1>4. Init => (RunModes = {"active"} => CheckedInv)
  BY <1>1
<1>5. (RunModes = {"active"} => CheckedInv) /\ TypeOK' /\ [Next]_vars
        => (RunModes = {"active"} => CheckedInv)'
  BY <1>2
<1> QED BY <1>3, <1>4, <1>5, TypeCorrect, PTL DEF Spec

-----------------------------------------------------------------------------
(* The stored status claims no more than the stored steps support             *)

\* A recomputed status is truthful, and so is an abort.
LEMMA RecomputeTruthful ==
    ASSUME NEW p \in Plan
    PROVE Truthful(RecomputePlanStatus(p)) /\ Truthful(Abort(p))
<1> DEFINE q == RecomputePlanStatus(p)
<1>1. q.step = p.step /\ q.status = PlanStatusOf(p)
  <2>1. q = [p EXCEPT !.status = PlanStatusOf(p)]
    BY DEF RecomputePlanStatus
  <2> QED BY <2>1 DEF Plan
<1> HIDE DEF q
<1>2. q.status = "completed" => AllTerminal(p) /\ AnyStep(p, {"verified"})
  BY <1>1, Zenon DEF PlanStatusOf
<1>3. q.status = "failed" => AnyStep(p, {"failed"}) \/ AllTerminal(p)
  BY <1>1, Zenon DEF PlanStatusOf
<1>4. /\ AllTerminal(p) <=> NothingLeft(q)
      /\ \A statuses : AnyStep(p, statuses) <=> AnyStep(q, statuses)
  BY <1>1 DEF AllTerminal, NothingLeft, TerminalStatus, AnyStep
<1>5. Truthful(q)
  BY <1>2, <1>3, <1>4 DEF Truthful
<1>6. Abort(p).status = "aborted"
  BY DEF Abort, Plan
<1> QED BY <1>5, <1>6 DEF Truthful, q

\* A transition, whichever, recomputes the status.
LEMMA SetStepsTruthful ==
    ASSUME NEW p \in Plan, NEW T, NEW to \in StepStatus
    PROVE Truthful(SetSteps(p, T, to))
<1> DEFINE q == [p EXCEPT !.step = [s \in Steps |-> IF s \in T THEN to ELSE @[s]]]
<1>1. q \in Plan /\ SetSteps(p, T, to) = RecomputePlanStatus(q)
  BY DEF Plan, SetSteps
<1> QED BY <1>1, RecomputeTruthful

\* The status run() leaves behind: failed only with a failed step.
LEMMA FinalPlanTruthful ==
    ASSUME NEW p \in Plan PROVE Truthful(FinalPlan(p))
<1> DEFINE q == RecomputePlanStatus(p)
<1>1. q \in Plan /\ Truthful(q)
  BY RecomputeType, RecomputeTruthful
<1>2. FinalPlan(p) = IF q.status \in {"pending", "running"} /\ AnyStep(q, {"failed"})
                     THEN [q EXCEPT !.status = "failed"] ELSE q
  BY DEF FinalPlan
<1> HIDE DEF q
<1>3. AnyStep(q, {"failed"}) => Truthful([q EXCEPT !.status = "failed"])
  BY <1>1 DEF Truthful, AnyStep, Plan
<1> QED BY <1>1, <1>2, <1>3

\* Finalizing an attempt, and the abort check after it.
LEMMA FinalizeTruthful ==
    ASSUME NEW p \in Plan, NEW S, NEW f \in [S -> [step : StepStatus, log : Verdict]]
    PROVE \A d \in AfterAbortCheck(Finalize(p, S, f)) : Truthful(d)
<1> DEFINE q == [p EXCEPT
                   !.step = [s \in Steps |-> IF s \in S THEN f[s].step ELSE @[s]],
                   !.log = [s \in Steps |-> IF s \in S THEN f[s].log ELSE @[s]]]
<1>1. q \in Plan /\ Finalize(p, S, f) = RecomputePlanStatus(q)
  BY DEF Plan, Finalize
<1> HIDE DEF q
<1>2. Truthful(Finalize(p, S, f)) /\ Finalize(p, S, f) \in Plan
  BY <1>1, RecomputeTruthful, RecomputeType
<1> QED BY <1>2, RecomputeTruthful DEF AfterAbortCheck, AdoptAbort

LEMMA TruthfulInitial == Truthful(InitialPlan)
BY DEF Truthful, InitialPlan

\* A step of runner r changes nobody else's copy or place.
LEMMA TruthFrame ==
    ASSUME TruthInv, TypeOK', NEW r \in Runners, NEW p, NEW label,
           mem' = [mem EXCEPT ![r] = p], pc' = [pc EXCEPT ![r] = label],
           label \in {"start", "save", "resave"} => Truthful(p),
           Truthful(disk'), client' = client
    PROVE TruthInv'
<1>1. \A c \in Clients : Truthful(client'[c].doc)
  BY DEF TruthInv, StatusTruthful
<1>2. ASSUME NEW q \in Runners, pc'[q] \in {"start", "save", "resave"}
      PROVE Truthful(mem'[q])
  <2>1. CASE q = r
    <3>1. mem'[q] = p /\ pc'[q] = label
      BY <2>1 DEF TruthInv, TypeOK
    <3> QED BY <1>2, <3>1
  <2>2. CASE q # r
    <3>1. mem'[q] = mem[q] /\ pc'[q] = pc[q]
      BY <2>2 DEF TruthInv, TypeOK
    <3> QED BY <1>2, <3>1 DEF TruthInv
  <2> QED BY <2>1, <2>2
<1> QED BY <1>1, <1>2 DEF TruthInv, StatusTruthful

LEMMA TruthSave ==
    ASSUME TruthInv, TypeOK', NEW r \in Runners, NEW p, Truthful(p),
           NEW next, next \notin {"start", "save", "resave"}, SaveOrRaise(r, p, next),
           client' = client
    PROVE TruthInv'
<1> DEFINE raised == [p EXCEPT !.status = "failed"]
<1>1. \/ /\ disk' = p /\ mem' = [mem EXCEPT ![r] = p]
         /\ pc' = [pc EXCEPT ![r] = next]
      \/ /\ disk' = disk /\ mem' = [mem EXCEPT ![r] = raised]
         /\ pc' = [pc EXCEPT ![r] = "final"]
  BY DEF SaveOrRaise, SetMem, Goto
<1> HIDE DEF raised
<1>2. Truthful(disk')
  BY <1>1 DEF TruthInv, StatusTruthful
<1> QED BY <1>1, <1>2, TruthFrame

LEMMA TruthAttempt ==
    ASSUME TruthInv, TypeOK', NEW r \in Runners, NEW S, NEW label,
           FinishAttempt(r, S, label)
    PROVE TruthInv'
<1>1. PICK f \in Results(r, S) :
          \E q \in AfterAbortCheck(Finalize(mem[r], S, f)) : SetMem(r, q)
  BY DEF FinishAttempt
<1>q. PICK q \in AfterAbortCheck(Finalize(mem[r], S, f)) : SetMem(r, q)
  BY <1>1
<1>2. f \in [S -> [step : StepStatus, log : Verdict]] /\ mem[r] \in Plan
  BY <1>1 DEF Results, TruthInv, TypeOK
<1>3. Truthful(q)
  BY <1>2, FinalizeTruthful
<1>4. /\ mem' = [mem EXCEPT ![r] = q]
      /\ pc' = [pc EXCEPT ![r] = label] /\ client' = client /\ Truthful(disk')
  BY <1>q DEF FinishAttempt, SetMem, Goto, TruthInv, StatusTruthful
<1> QED BY <1>3, <1>4, TruthFrame

LEMMA TruthForget ==
    ASSUME TruthInv, TypeOK', NEW r \in Runners, Forget(r), Truthful(disk'),
           client' = client
    PROVE TruthInv'
BY TruthfulInitial, TruthFrame DEF Forget, SetMem, Goto

LEMMA TruthRunStep ==
    ASSUME TruthInv, TypeOK', NEW r \in Runners, RunStep(r)
    PROVE TruthInv'
<1>0. /\ mem[r] \in Plan /\ Truthful(disk)
      /\ mem \in [Runners -> Plan] /\ pc \in [Runners -> PC]
      /\ {"running", "verified"} \subseteq StepStatus
      /\ pc[r] \in {"start", "save", "resave"} => Truthful(mem[r])
  BY DEF TruthInv, StatusTruthful, TypeOK, StepStatus
<1>1. ASSUME NEW p, NEW label, label \notin {"start", "save", "resave"},
             SetMem(r, p), Goto(r, label), disk' = disk, client' = client
      PROVE TruthInv'
  <2>1. Truthful(disk')
    BY <1>0, <1>1
  <2> QED BY <1>1, <2>1, TruthFrame DEF SetMem, Goto
<1>2. CASE SaveStart(r)
  <2>1. /\ mem' = [mem EXCEPT ![r] = mem[r]] /\ pc' = [pc EXCEPT ![r] = "loop"]
        /\ client' = client /\ disk' = mem[r] /\ pc[r] = "start"
    BY <1>0, <1>2 DEF SaveStart, Goto
  <2>2. Truthful(disk')
    BY <1>0, <2>1
  <2> QED BY <2>1, <2>2, TruthFrame
<1>3. CASE CheckAbort(r)
  <2>1. PICK label \in {"final", "select"} : Goto(r, label)
    BY <1>3 DEF CheckAbort
  <2> QED BY <1>1, <1>3, <2>1 DEF CheckAbort
<1>4. CASE NothingRunnable(r) \/ StopOnFail(r)
  <2>1. PICK p : SetMem(r, p)
    BY <1>4 DEF NothingRunnable, StopOnFail
  <2> QED BY <1>1, <1>4, <2>1 DEF NothingRunnable, StopOnFail
<1>5. CASE StartWave(r) \/ StartOne(r)
  <2>1. PICK S : StartSteps(r, S)
    BY <1>5 DEF StartWave, StartOne
  <2>2. Truthful(SetSteps(mem[r], S, "running"))
    BY <1>0, SetStepsTruthful
  <2> QED BY <2>1, <2>2, TruthSave DEF StartSteps
<1>6. CASE FinishSteps(r) \/ FinishRetry(r)
  BY <1>6, TruthAttempt DEF FinishSteps, FinishRetry
<1>7. CASE SaveOutcome(r) \/ SaveRetry(r)
  <2>1. \E next \in {"final", "outcome", "giveup"} : SaveOrRaise(r, mem[r], next)
    BY <1>7 DEF SaveOutcome, SaveRetry
  <2>2. client' = client /\ Truthful(mem[r])
    BY <1>0, <1>7 DEF SaveOutcome, SaveRetry
  <2> QED BY <2>1, <2>2, TruthSave
<1>8. CASE WaveHandled(r)
  <2>1. SetMem(r, mem[r]) /\ Goto(r, "loop") /\ disk' = disk /\ client' = client
    BY <1>0, <1>8 DEF WaveHandled, SetMem
  <2> QED BY <1>1, <2>1
<1>9. CASE KeepGoing(r)
  BY <1>9 DEF KeepGoing, TruthInv, StatusTruthful, Truthful, NothingLeft, AnyStep
<1>10. CASE RetryStep(r)
  BY <1>1, <1>10 DEF RetryStep
<1>11. CASE ContinueAfterFail(r)
  <2>1. Truthful(SetSteps(mem[r], {First(wave[r])}, "verified"))
    BY <1>0, SetStepsTruthful
  <2> QED BY <1>11, <2>1, TruthSave DEF ContinueAfterFail
<1>12. CASE FinishRun(r)
  <2>1. Truthful(disk')
    BY <1>0, <1>12, FinalPlanTruthful DEF FinishRun
  <2> QED BY <1>12, <2>1, TruthForget DEF FinishRun
<1> QED
  BY <1>2, <1>3, <1>4, <1>5, <1>6, <1>7, <1>8, <1>9, <1>10, <1>11, <1>12 DEF RunStep

LEMMA TruthClient ==
    ASSUME TruthInv, TypeOK', NEW c \in Clients,
           LoadCancel(c) \/ LoadDecide(c) \/ SaveCall(c)
    PROVE TruthInv'
<1>0. /\ disk \in Plan /\ Truthful(disk) /\ client \in [Clients -> Calls]
      /\ \A d \in Clients : Truthful(client[d].doc)
  BY DEF TruthInv, StatusTruthful, TypeOK
<1>1. mem' = mem /\ pc' = pc
  BY DEF LoadCancel, LoadDecide, SaveCall, CallIdle, runnerVars
<1>2. ASSUME NEW op, NEW q, client' = [client EXCEPT ![c] = [op |-> op, doc |-> q]],
             Truthful(q), Truthful(disk')
      PROVE TruthInv'
  <2>1. ASSUME NEW d \in Clients PROVE Truthful(client'[d].doc)
    <3>1. CASE d = c
      <4>1. client'[d].doc = q
        BY <1>0, <1>2, <3>1
      <4> QED BY <1>2, <4>1
    <3>2. CASE d # c
      <4>1. client'[d].doc = client[d].doc
        BY <1>0, <1>2, <3>2
      <4> QED BY <1>0, <4>1
    <3> QED BY <3>1, <3>2
  <2>2. StatusTruthful'
    BY <1>2, <2>1 DEF StatusTruthful, Truthful, NothingLeft, AnyStep
  <2> QED BY <1>1, <2>2 DEF TruthInv, Truthful, NothingLeft, AnyStep
<1>3. CASE LoadCancel(c)
  <2>1. Truthful(Abort(disk))
    BY <1>0, RecomputeTruthful
  <2> QED BY <1>0, <1>2, <1>3, <2>1 DEF LoadCancel, CallIdle
<1>4. CASE LoadDecide(c)
  <2>1. PICK s \in Steps, decision \in {"approve", "reject"} :
          LET ok == decision = "approve"
              doc == SetSteps(disk, {s}, IF ok THEN "verified" ELSE "failed")
          IN client' = [client EXCEPT ![c] =
               [op |-> decision,
                doc |-> [doc EXCEPT !.log[s] = IF ok THEN "pass" ELSE "fail"]]]
    BY <1>4 DEF LoadDecide
  <2> DEFINE to == IF decision = "approve" THEN "verified" ELSE "failed"
             verdict == IF decision = "approve" THEN "pass" ELSE "fail"
             doc == SetSteps(disk, {s}, to)
             new == [doc EXCEPT !.log[s] = verdict]
  <2>2. to \in StepStatus
    BY DEF StepStatus
  <2>3. client' = [client EXCEPT ![c] = [op |-> decision, doc |-> new]] /\ disk' = disk
    BY <1>4, <2>1 DEF LoadDecide, CallIdle
  <2> HIDE DEF to, verdict
  <2>4. doc \in Plan /\ Truthful(doc)
    BY <1>0, <2>2, SetStepsType, SetStepsTruthful
  <2> HIDE DEF doc
  <2>5. new.step = doc.step /\ new.status = doc.status
    BY <2>4 DEF Plan
  <2> HIDE DEF new
  <2>6. Truthful(new)
    BY <2>4, <2>5 DEF Truthful, NothingLeft, AnyStep
  <2> QED BY <1>0, <1>2, <2>3, <2>6
<1>5. CASE SaveCall(c)
  <2>1. /\ client' = [client EXCEPT ![c] = [op |-> "none", doc |-> InitialPlan]]
        /\ disk' = client[c].doc
    BY <1>5 DEF SaveCall, NoCall
  <2>2. Truthful(disk')
    BY <1>0, <2>1
  <2> QED BY <1>2, <2>1, <2>2, TruthfulInitial
<1> QED BY <1>3, <1>4, <1>5

\* A stored plan, and one an API call is about to store, is completed only with
\* no work left, and failed only with a failed step or with nothing left to do,
\* whatever runs, calls and crashes overlap.
THEOREM StatusTruthfulHolds == Spec => []StatusTruthful
<1>1. Init => TruthInv
  BY InitType, TruthfulInitial DEF Init, TruthInv, StatusTruthful, NoCall
<1>2. TruthInv /\ TypeOK' /\ [Next]_vars => TruthInv'
  <2> SUFFICES ASSUME TruthInv, TypeOK', [Next]_vars PROVE TruthInv'
    OBVIOUS
  <2>0. Truthful(disk)
    BY DEF TruthInv, StatusTruthful
  <2>1. ASSUME NEW r \in Runners, LoadPlan(r) PROVE TruthInv'
    <3>1. PICK stale \in SUBSET MayBeStale(disk) :
              SetMem(r, RecoverStale(disk, stale))
      BY <2>1 DEF LoadPlan
    <3>2. SetSteps(disk, stale, "failed") \in Plan
      BY SetStepsType DEF TruthInv, TypeOK, StepStatus
    <3>3. RecoverStale(disk, stale).status = "running"
      BY <3>2 DEF RecoverStale, Plan
    <3>4. Truthful(RecoverStale(disk, stale))
      BY <3>3 DEF Truthful
    <3>5. /\ mem' = [mem EXCEPT ![r] = RecoverStale(disk, stale)]
          /\ pc' = [pc EXCEPT ![r] = "start"] /\ client' = client /\ Truthful(disk')
      BY <2>0, <2>1, <3>1 DEF LoadPlan, SetMem, Goto
    <3> QED BY <3>4, <3>5, TruthFrame
  <2>2. ASSUME NEW r \in Runners, RunStep(r) PROVE TruthInv'
    BY <2>2, TruthRunStep
  <2>3. ASSUME NEW r \in Runners, Crash(r) PROVE TruthInv'
    BY <2>0, <2>3, TruthForget DEF Crash
  <2>4. ASSUME NEW c \in Clients, LoadCancel(c) \/ LoadDecide(c) \/ SaveCall(c)
        PROVE TruthInv'
    BY <2>4, TruthClient
  <2>5. CASE UNCHANGED vars
    BY <2>5 DEF vars, TruthInv, StatusTruthful, Truthful, NothingLeft, AnyStep
  <2> QED BY <2>1, <2>2, <2>3, <2>4, <2>5 DEF Next
<1>3. TruthInv => StatusTruthful
  BY DEF TruthInv
<1> QED BY <1>1, <1>2, <1>3, TypeCorrect, PTL DEF Spec

-----------------------------------------------------------------------------
(* The moves of a step in a runner's copy *)

\* What transition accepts of a step that may start, and on the way from an
\* execution to each of its ends.
LEMMA RunMoves ==
    ASSUME NEW p \in Plan, NEW s \in Steps
    PROVE /\ p.step[s] \in {"pending", "failed"} /\ UnmetDeps(p, s) = {}
                => MayReach(p, s, "running")
          /\ p.step[s] = "running" => MayReach(p, s, "failed")
          /\ p.step[s] = "running" => MayReach(p, s, "verified")
          /\ p.step[s] = "running" /\ Acceptance[s] # "none" => MayReach(p, s, "verifying")
<1>1. /\ <<"pending", "running">> \in LegalTransitions
      /\ <<"failed", "running">> \in LegalTransitions
      /\ <<"running", "failed">> \in LegalTransitions
      /\ <<"running", "done">> \in LegalTransitions
      /\ <<"done", "verified">> \in LegalTransitions
      /\ <<"done", "verifying">> \in LegalTransitions
      /\ <<"verifying", "verified">> \in LegalTransitions
  BY DEF LegalTransitions
<1>2. \A status : At(p, s, status).step[s] = status
  BY DEF At, Plan
<1>3. p.step[s] \in {"pending", "failed"} /\ UnmetDeps(p, s) = {}
        => MayTransition(p, s, "running")
  BY <1>1 DEF MayTransition
<1>4. p.step[s] = "running" => MayTransition(p, s, "failed") /\ MayTransition(p, s, "done")
  BY <1>1 DEF MayTransition
<1>5. /\ Acceptance[s] = "none" => MayTransition(At(p, s, "done"), s, "verified")
      /\ Acceptance[s] # "none" => MayTransition(At(p, s, "done"), s, "verifying")
      /\ MayTransition(At(p, s, "verifying"), s, "verified")
  BY <1>1, <1>2 DEF MayTransition
<1> QED BY <1>3, <1>4, <1>5 DEF MayReach

\* A transition of the steps in T to running, all of which may start.
LEMMA StartsLegally ==
    ASSUME NEW m, NEW p \in Plan, NEW T \in SUBSET Steps,
           \A s \in T : p.step[s] \in {"pending", "failed"} /\ UnmetDeps(p, s) = {}
    PROVE MovesLegally(m, p, SetSteps(p, T, "running")) /\ SetSteps(p, T, "running") \in Plan
<1> DEFINE q == SetSteps(p, T, "running")
<1>1. /\ q \in Plan
      /\ q.step = [s \in Steps |-> IF s \in T THEN "running" ELSE p.step[s]]
      /\ q.log = p.log
  <2>1. "running" \in StepStatus
    BY DEF StepStatus
  <2> QED BY <2>1, SetStepsType
<1> HIDE DEF q
<1>2. ASSUME NEW s \in Steps
      PROVE p.step[s] = q.step[s] \/ (MayReach(p, s, q.step[s]) /\ OnEvidence(q, s))
  <2>1. CASE s \in T
    <3>1. q.step[s] = "running"
      BY <1>1, <2>1
    <3> QED BY <2>1, <3>1, RunMoves DEF OnEvidence
  <2>2. CASE s \notin T
    BY <1>1, <2>2
  <2> QED BY <2>1, <2>2
<1> QED BY <1>1, <1>2 DEF MovesLegally, q

LEMMA SameMoves ==
    ASSUME NEW m, NEW p, NEW q, q.step = p.step
    PROVE MovesLegally(m, p, q)
BY DEF MovesLegally

\* What a save, whether it succeeds or raises, leaves in the runner's copy.
LEMMA SaveMoves ==
    ASSUME mem \in [Runners -> Plan], NEW r \in Runners, NEW p \in Plan, NEW m,
           NEW next, SaveOrRaise(r, p, next), MovesLegally(m, mem[r], p)
    PROVE MovesLegally(m, mem[r], mem'[r])
<1>1. mem'[r] \in {p, [p EXCEPT !.status = "failed"]}
  BY DEF SaveOrRaise, SetMem
<1>2. [p EXCEPT !.status = "failed"].step = p.step /\ [p EXCEPT !.status = "failed"].log = p.log
  BY DEF Plan
<1>3. mem'[r].step = p.step /\ mem'[r].log = p.log
  BY <1>1, <1>2
<1> QED BY <1>3 DEF MovesLegally, OnEvidence, Forced, SoftOpened

\* An attempt ends for steps that were running.
LEMMA AttemptMoves ==
    ASSUME TypeOK, NEW r \in Runners, NEW S \in SUBSET Steps, NEW label,
           \A s \in S : mem[r].step[s] = "running", FinishAttempt(r, S, label)
    PROVE MovesLegally(mode[r], mem[r], mem'[r])
<1>0. mem[r] \in Plan /\ mem \in [Runners -> Plan] /\ mode[r] \in {"shadow", "active"}
  BY DEF TypeOK
<1>1. PICK f \in Results(r, S) :
          \E q \in AfterAbortCheck(Finalize(mem[r], S, f)) : SetMem(r, q)
  BY DEF FinishAttempt
<1>q. PICK q \in AfterAbortCheck(Finalize(mem[r], S, f)) : SetMem(r, q)
  BY <1>1
<1>2. /\ f \in [S -> [step : StepStatus, log : Verdict]]
      /\ \A s \in S : f[s] \in Attempts(s, mode[r], mem[r].log[s])
  BY <1>1 DEF Results
<1> DEFINE p == Finalize(mem[r], S, f)
<1>4. /\ p \in Plan
      /\ p.step = [s \in Steps |-> IF s \in S THEN f[s].step ELSE mem[r].step[s]]
      /\ p.log = [s \in Steps |-> IF s \in S THEN f[s].log ELSE mem[r].log[s]]
  BY <1>0, <1>2, FinalizeType
<1>5. mem'[r] = q
  BY <1>0, <1>q DEF SetMem
<1>6. mem'[r].step = p.step /\ mem'[r].log = p.log
  BY <1>4, <1>5, AfterAbortCheckType
<1> HIDE DEF p
<1> DEFINE n == mem'[r]
<1>7. ASSUME NEW s \in Steps
      PROVE \/ mem[r].step[s] = n.step[s]
            \/ MayReach(mem[r], s, n.step[s]) /\ OnEvidence(n, s)
            \/ SoftOpened(mode[r], mem[r], n, s)
  <2>1. CASE s \in S
    <3>1. /\ mem[r].step[s] = "running" /\ n.step[s] = f[s].step /\ n.log[s] = f[s].log
          /\ f[s] \in Attempts(s, mode[r], mem[r].log[s])
      BY <1>2, <1>4, <1>6, <2>1
    <3> HIDE DEF n
    <3>2. CASE f[s].step = "failed"
      BY <1>0, <3>1, <3>2, RunMoves DEF OnEvidence
    <3>3. CASE f[s].step = "verifying"
      <4>1. Acceptance[s] # "none"
        BY <3>1, <3>3 DEF Attempts, Failed, Verified, External
      <4> QED BY <1>0, <3>1, <3>3, <4>1, RunMoves DEF OnEvidence
    <3>4. CASE f[s].step = "verified"
      <4>1. \/ Acceptance[s] = "none" \/ f[s].log = "pass"
            \/ mode[r] = "shadow" /\ f[s].log = "fail" /\ s \notin External
        BY <3>1, <3>4 DEF Attempts, Failed, Verified
      <4>2. CASE Acceptance[s] = "none" \/ f[s].log = "pass"
        BY <1>0, <3>1, <3>4, <4>2, RunMoves DEF OnEvidence
      <4>3. CASE /\ Acceptance[s] # "none"
                 /\ mode[r] = "shadow" /\ f[s].log = "fail" /\ s \notin External
        <5>1. Acceptance[s] = "checks"
          BY <4>3, StepKindsAssumption DEF External, AcceptanceKind
        <5> QED BY <1>0, <3>1, <3>4, <4>3, <5>1, RunMoves DEF SoftOpened
      <4> QED BY <4>1, <4>2, <4>3
    <3>5. f[s].step \in {"failed", "verifying", "verified"}
      BY <3>1 DEF Attempts, Failed, Verified
    <3> QED BY <3>2, <3>3, <3>4, <3>5
  <2>2. CASE s \notin S
    BY <1>4, <1>6, <2>2
  <2> QED BY <2>1, <2>2
<1> QED BY <1>7 DEF MovesLegally

\* The runner's own steps, up to the last save.
LEMMA RunStepMoves ==
    ASSUME GateInv, NEW r \in Runners, RunStep(r), Live(r)'
    PROVE MovesLegally(mode'[r], mem[r], mem'[r])
<1>0. /\ TypeOK /\ mem \in [Runners -> Plan] /\ mem[r] \in Plan /\ pc \in [Runners -> PC]
      /\ wave[r] \in SUBSET Steps /\ RunningInCopy(r)
  BY DEF GateInv, TypeOK, WaveRunning
<1>m. mode'[r] = mode[r]
  <2>1. CASE FinishRun(r)
    BY <1>0, <2>1 DEF FinishRun, Forget, Goto, Live
  <2> QED
    BY <2>1 DEF RunStep, SaveStart, CheckAbort, NothingRunnable, StartWave, StartOne,
       StartSteps, FinishSteps, FinishAttempt, SaveOutcome, WaveHandled, KeepGoing,
       RetryStep, FinishRetry, SaveRetry, ContinueAfterFail, StopOnFail
<1>1. ASSUME NEW p, SetMem(r, p), p.step = mem[r].step
      PROVE MovesLegally(mode'[r], mem[r], mem'[r])
  BY <1>0, <1>1, SameMoves DEF SetMem
<1>2. CASE SaveStart(r) \/ WaveHandled(r) \/ KeepGoing(r)
  <2>1. mem' = mem
    BY <1>2 DEF SaveStart, WaveHandled, KeepGoing
  <2> QED BY <2>1, SameMoves
<1>3. CASE CheckAbort(r)
  BY <1>0, <1>1, <1>3, AfterAbortCheckType DEF CheckAbort
<1>4. CASE NothingRunnable(r) \/ StopOnFail(r)
  <2>1. PICK p \in {[mem[r] EXCEPT !.status = "failed"], RecomputePlanStatus(mem[r])} :
            SetMem(r, p)
    BY <1>4 DEF NothingRunnable, StopOnFail
  <2>2. CASE p = RecomputePlanStatus(mem[r])
    BY <1>0, <1>1, <2>1, <2>2, RecomputeType
  <2>3. CASE p = [mem[r] EXCEPT !.status = "failed"]
    <3>1. p.step = mem[r].step
      BY <1>0, <2>3 DEF Plan
    <3> QED BY <1>1, <2>1, <3>1
  <2> QED BY <2>1, <2>2, <2>3
<1>5. CASE StartWave(r) \/ StartOne(r)
  <2>1. PICK S \in SUBSET RunnableSteps(mem[r]) : StartSteps(r, S)
    <3>1. CASE StartWave(r)
      BY <3>1 DEF StartWave, RunnableChats
    <3>2. CASE StartOne(r)
      <4>1. First(RunnableSteps(mem[r])) \in RunnableSteps(mem[r])
        BY <3>2, FirstInSet DEF StartOne, RunnableSteps
      <4>2. {First(RunnableSteps(mem[r]))} \in SUBSET RunnableSteps(mem[r])
        BY <4>1
      <4> QED BY <3>2, <4>2 DEF StartOne
    <3> QED BY <1>5, <3>1, <3>2
  <2>2. /\ S \in SUBSET Steps
        /\ \A s \in S : mem[r].step[s] \in {"pending", "failed"} /\ UnmetDeps(mem[r], s) = {}
    BY DEF RunnableSteps, CanStart
  <2>3. /\ MovesLegally(mode'[r], mem[r], SetSteps(mem[r], S, "running"))
        /\ SetSteps(mem[r], S, "running") \in Plan
    BY <1>0, <2>2, StartsLegally
  <2> QED BY <1>0, <2>1, <2>3, SaveMoves DEF StartSteps
<1>6. CASE FinishSteps(r)
  BY <1>0, <1>m, <1>6, AttemptMoves DEF FinishSteps, RunningInCopy
<1>7. CASE FinishRetry(r)
  <2>1. {First(wave[r])} \in SUBSET Steps /\ mem[r].step[First(wave[r])] = "running"
    BY <1>0, <1>7, FirstInSet DEF FinishRetry, RunningInCopy
  <2> QED BY <1>0, <1>m, <1>7, <2>1, AttemptMoves DEF FinishRetry
<1>8. CASE SaveOutcome(r) \/ SaveRetry(r)
  <2>1. \E next \in {"final", "outcome", "giveup"} : SaveOrRaise(r, mem[r], next)
    BY <1>8 DEF SaveOutcome, SaveRetry
  <2> QED BY <1>0, <2>1, SaveMoves, SameMoves
<1>9. CASE RetryStep(r)
  <2> DEFINE s == First(wave[r])
  <2>1. s \in Steps /\ mem[r].step[s] = "failed"
    <3>1. wave[r] # {} /\ mem[r].step[s] = "failed"
      BY <1>9 DEF RetryStep, Outcome
    <3> QED BY <1>0, <3>1, FirstInSet
  <2>2. SetMem(r, SetSteps(mem[r], {s}, "running"))
    BY <1>9 DEF RetryStep
  <2> HIDE DEF s
  <2>3. /\ {s} \in SUBSET Steps
        /\ \A t \in {s} : mem[r].step[t] \in {"pending", "failed"} /\ UnmetDeps(mem[r], t) = {}
    <3>1. StartedAfterDeps(mem[r])
      BY DEF GateInv, EveryCopy, Sound
    <3> QED BY <2>1, <3>1 DEF StartedAfterDeps
  <2>4. MovesLegally(mode'[r], mem[r], SetSteps(mem[r], {s}, "running"))
    BY <1>0, <2>3, StartsLegally
  <2> QED BY <1>0, <2>2, <2>4 DEF SetMem
<1>10. CASE ContinueAfterFail(r)
  <2> DEFINE s == First(wave[r])
             p == SetSteps(mem[r], {s}, "verified")
  <2>1. mem[r].step[s] = "failed" /\ OnFail = "continue" /\ SaveOrRaise(r, p, "outcome")
    BY <1>10 DEF ContinueAfterFail, Outcome
  <2>2. p \in Plan /\ p.step = [t \in Steps |-> IF t \in {s} THEN "verified"
                                                        ELSE mem[r].step[t]]
    <3>1. "verified" \in StepStatus
      BY DEF StepStatus
    <3> QED BY <1>0, <3>1, SetStepsType
  <2> HIDE DEF s, p
  <2>3. MovesLegally(mode'[r], mem[r], p)
    BY <2>1, <2>2 DEF MovesLegally, Forced
  <2> QED BY <1>0, <2>1, <2>2, <2>3, SaveMoves
<1>11. CASE FinishRun(r)
  <2>1. pc'[r] = "idle"
    BY <1>0, <1>11 DEF FinishRun, Forget, Goto
  <2> QED BY <2>1 DEF Live
<1> QED
  BY <1>2, <1>3, <1>4, <1>5, <1>6, <1>7, <1>8, <1>9, <1>10, <1>11 DEF RunStep

\* A runner's step leaves the copies of the others and their places alone.
LEMMA StepOfAnother ==
    ASSUME TypeOK, NEW q \in Runners, RunStep(q), NEW r \in Runners, q # r
    PROVE mem'[r] = mem[r] /\ pc'[r] = pc[r]
<1>0. mem \in [Runners -> Plan] /\ pc \in [Runners -> PC]
  BY DEF TypeOK
<1>1. (\E p : SetMem(q, p)) => mem'[r] = mem[r]
  BY <1>0 DEF SetMem
<1>2. (\E label : Goto(q, label)) => pc'[r] = pc[r]
  BY <1>0 DEF Goto
<1>3. \A p, next : SaveOrRaise(q, p, next) => mem'[r] = mem[r] /\ pc'[r] = pc[r]
  BY <1>1, <1>2 DEF SaveOrRaise
<1>4. CASE SaveStart(q) \/ WaveHandled(q) \/ KeepGoing(q)
  BY <1>2, <1>4 DEF SaveStart, WaveHandled, KeepGoing
<1>5. CASE CheckAbort(q) \/ NothingRunnable(q) \/ StopOnFail(q)
  BY <1>1, <1>2, <1>5 DEF CheckAbort, NothingRunnable, StopOnFail
<1>6. CASE StartWave(q) \/ StartOne(q)
  BY <1>3, <1>6 DEF StartWave, StartOne, StartSteps
<1>7. CASE FinishSteps(q) \/ FinishRetry(q)
  BY <1>1, <1>2, <1>7 DEF FinishSteps, FinishRetry, FinishAttempt
<1>8. CASE SaveOutcome(q)
  BY <1>3, <1>8 DEF SaveOutcome
<1>9. CASE SaveRetry(q)
  BY <1>3, <1>9 DEF SaveRetry
<1>10. CASE ContinueAfterFail(q)
  BY <1>3, <1>10 DEF ContinueAfterFail
<1>11. CASE RetryStep(q)
  BY <1>1, <1>2, <1>11 DEF RetryStep
<1>12. CASE FinishRun(q)
  BY <1>1, <1>2, <1>12 DEF FinishRun, Forget
<1> QED
  BY <1>4, <1>5, <1>6, <1>7, <1>8, <1>9, <1>10, <1>11, <1>12 DEF RunStep

\* Loading moves the steps that are found stale from running to failed.
LEMMA LoadMoves ==
    ASSUME TypeOK, NEW r \in Runners, LoadPlan(r)
    PROVE MovesLegally(mode'[r], disk, mem'[r])
<1>0. disk \in Plan /\ mem \in [Runners -> Plan]
  BY DEF TypeOK
<1>1. PICK stale \in SUBSET MayBeStale(disk) : SetMem(r, RecoverStale(disk, stale))
  BY DEF LoadPlan
<1> DEFINE p == SetSteps(disk, stale, "failed")
<1>2. /\ p \in Plan
      /\ p.step = [s \in Steps |-> IF s \in stale THEN "failed" ELSE disk.step[s]]
      /\ p.log = disk.log
  <2>1. "failed" \in StepStatus
    BY DEF StepStatus
  <2> QED BY <1>0, <2>1, SetStepsType
<1>3. mem'[r] = [p EXCEPT !.status = "running"]
  BY <1>0, <1>1 DEF SetMem, RecoverStale
<1> HIDE DEF p
<1>4. mem'[r].step = p.step
  BY <1>2, <1>3 DEF Plan
<1>5. ASSUME NEW s \in Steps
      PROVE \/ disk.step[s] = mem'[r].step[s]
            \/ MayReach(disk, s, mem'[r].step[s]) /\ OnEvidence(mem'[r], s)
  <2>1. CASE s \in stale
    <3>1. disk.step[s] = "running" /\ mem'[r].step[s] = "failed"
      BY <1>2, <1>4, <2>1 DEF MayBeStale
    <3> QED BY <1>0, <3>1, RunMoves DEF OnEvidence
  <2>2. CASE s \notin stale
    BY <1>2, <1>4, <2>2
  <2> QED BY <2>1, <2>2
<1> QED BY <1>5 DEF MovesLegally

\* Every change of a step in a runner's copy is one that transition accepts, with
\* passed checks behind each verified step, or one of two moves: a failed step
\* that on_fail=continue forces to verified, and a step whose failed checks
\* brought it to failed and to which shadow mode assigns verified.  So transition
\* never raises inside a run, however many runs, clients and crashes interleave.
THEOREM TransitionsLegalHolds == Spec => TransitionsLegal
<1>1. GateInv /\ [Next]_vars =>
        [\A r \in Runners : Live(r)' => MovesLegally(mode'[r], CopyOf(r), mem'[r])]_vars
  <2> SUFFICES ASSUME GateInv, Next, NEW r \in Runners, Live(r)'
               PROVE MovesLegally(mode'[r], CopyOf(r), mem'[r])
    OBVIOUS
  <2>0. TypeOK /\ mem \in [Runners -> Plan] /\ pc \in [Runners -> PC]
    BY DEF GateInv, TypeOK
  <2>1. ASSUME mem'[r] = mem[r], pc'[r] = pc[r] PROVE MovesLegally(mode'[r], CopyOf(r), mem'[r])
    BY <2>1, SameMoves DEF CopyOf, Live
  <2>2. ASSUME NEW q \in Runners, LoadPlan(q) PROVE MovesLegally(mode'[r], CopyOf(r), mem'[r])
    <3>1. CASE q = r
      BY <2>0, <2>2, <3>1, LoadMoves DEF LoadPlan, CopyOf, Live
    <3>2. CASE q # r
      <4>1. mem'[r] = mem[r] /\ pc'[r] = pc[r]
        BY <2>0, <2>2, <3>2 DEF LoadPlan, SetMem, Goto
      <4> QED BY <4>1, <2>1
    <3> QED BY <3>1, <3>2
  <2>3. ASSUME NEW q \in Runners, RunStep(q) PROVE MovesLegally(mode'[r], CopyOf(r), mem'[r])
    <3>1. CASE q = r
      <4>1. Live(r)
        BY <2>3, <3>1
           DEF RunStep, SaveStart, CheckAbort, NothingRunnable, StartWave, StartOne,
               FinishSteps, SaveOutcome, WaveHandled, KeepGoing, RetryStep, FinishRetry,
               SaveRetry, ContinueAfterFail, StopOnFail, FinishRun, Outcome, Live
      <4> QED BY <2>3, <3>1, <4>1, RunStepMoves DEF CopyOf
    <3>2. CASE q # r
      <4>1. mem'[r] = mem[r] /\ pc'[r] = pc[r]
        BY <2>0, <2>3, <3>2, StepOfAnother
      <4> QED BY <4>1, <2>1
    <3> QED BY <3>1, <3>2
  <2>4. ASSUME NEW q \in Runners, Crash(q) PROVE MovesLegally(mode'[r], CopyOf(r), mem'[r])
    <3>1. q # r
      BY <2>0, <2>4 DEF Crash, Forget, Goto, Live
    <3>2. mem'[r] = mem[r] /\ pc'[r] = pc[r]
      BY <2>0, <2>4, <3>1 DEF Crash, Forget, SetMem, Goto
    <3> QED BY <3>2, <2>1
  <2>5. ASSUME NEW c \in Clients, LoadCancel(c) \/ LoadDecide(c) \/ SaveCall(c)
        PROVE MovesLegally(mode'[r], CopyOf(r), mem'[r])
    <3>1. mem' = mem /\ pc' = pc
      BY <2>5 DEF LoadCancel, LoadDecide, SaveCall, CallIdle, runnerVars
    <3> QED BY <3>1, <2>1
  <2> QED BY <2>2, <2>3, <2>4, <2>5 DEF Next
<1> QED BY <1>1, GateInvariant, PTL DEF Spec, TransitionsLegal

-----------------------------------------------------------------------------
(* Documents that follow one another *)

LEMMA FollowsSame ==
    ASSUME NEW d, NEW p, NEW q, Follows(d, p), q.step = p.step
    PROVE Follows(d, q)
BY DEF Follows

LEMMA FollowsSelf ==
    ASSUME NEW p, Sound(p)
    PROVE Follows(p, p)
BY DEF Follows, Sound, StartedAfterDeps

\* A change of steps that were not verified and may start on the word of the store.
LEMMA FollowsMove ==
    ASSUME NEW d, NEW p, NEW q, Follows(d, p),
           \A s \in Steps : q.step[s] # p.step[s] =>
                p.step[s] # "verified" /\ UnmetDeps(d, s) = {}
    PROVE Follows(d, q)
BY DEF Follows

\* A transition of started, unverified steps is such a change.
LEMMA FollowsTransition ==
    ASSUME NEW d, NEW p \in Plan, Follows(d, p), NEW T \in SUBSET Steps,
           NEW to \in StepStatus,
           \A s \in T : p.step[s] \notin {"pending", "skipped", "verified"}
    PROVE Follows(d, SetSteps(p, T, to)) /\ SetSteps(p, T, to) \in Plan
<1> DEFINE q == SetSteps(p, T, to)
<1>1. /\ q \in Plan
      /\ q.step = [s \in Steps |-> IF s \in T THEN to ELSE p.step[s]]
  BY SetStepsType
<1> HIDE DEF q
<1>2. ASSUME NEW s \in Steps, q.step[s] # p.step[s]
      PROVE p.step[s] # "verified" /\ UnmetDeps(d, s) = {}
  <2>1. s \in T
    BY <1>1, <1>2
  <2> QED BY <2>1 DEF Follows
<1>3. Follows(d, q)
  BY <1>2, FollowsMove
<1> QED BY <1>1, <1>3 DEF q

-----------------------------------------------------------------------------
(* The runner *)

\* What SeriesInv says of the one live run.
LEMMA OnlyRun ==
    ASSUME SeriesInv, NEW r \in Runners, Live(r)
    PROVE /\ \A q \in Runners \ {r} : ~Live(q)
          /\ \A c \in Clients : client[c].op = "none"
          /\ Follows(disk, mem[r]) /\ Follows(disk, disk)
          /\ mem[r] \in Plan /\ disk \in Plan /\ Sound(mem[r])
          /\ mem \in [Runners -> Plan] /\ pc \in [Runners -> PC]
          /\ wave \in [Runners -> SUBSET Steps]
          /\ RunningInCopy(r)
          /\ pc[r] \in Between => NothingNew(disk, mem[r])
BY FollowsSelf
   DEF SeriesInv, NoLiveRun, NoLiveCall, GateInv, TypeOK, WaveRunning, EveryCopy

\* A step of the one live run, or one that starts it.
LEMMA SeriesFrame ==
    ASSUME SeriesInv, GateInv', NEW r \in Runners, NEW p, NEW label,
           \A q \in Runners \ {r} : ~Live(q),
           \A c \in Clients : client[c].op = "none",
           client' = client, mem' = [mem EXCEPT ![r] = p],
           pc' = [pc EXCEPT ![r] = label],
           label # "idle" => Follows(disk', p),
           label \in Between => NothingNew(disk', p)
    PROVE SeriesInv'
<1>1. mem'[r] = p /\ pc'[r] = label
  BY DEF SeriesInv, GateInv, TypeOK
<1>2. \A q \in Runners \ {r} : pc'[q] = "idle"
  BY DEF SeriesInv, GateInv, TypeOK, Live
<1>3. \A q, x \in Runners : Live(q)' /\ Live(x)' => q = x
  BY <1>2 DEF Live
<1>4. NoLiveCall' /\ \A c \in Clients : client'[c].op = "none"
  BY DEF NoLiveCall
<1>5. ASSUME NEW q \in Runners
      PROVE /\ Live(q)' => Follows(disk', mem'[q])
            /\ pc'[q] \in Between => NothingNew(disk', mem'[q])
  <2>1. CASE q = r
    BY <1>1, <2>1 DEF Live
  <2>2. CASE q # r
    <3>1. pc'[q] = "idle"
      BY <1>2, <2>2
    <3> QED BY <3>1 DEF Live, Between
  <2> QED BY <2>1, <2>2
<1> QED BY <1>3, <1>4, <1>5 DEF SeriesInv

\* A step of the live run that writes nothing.
LEMMA SeriesMove ==
    ASSUME SeriesInv, GateInv', NEW r \in Runners, Live(r), NEW p, NEW label,
           SetMem(r, p), Goto(r, label), disk' = disk, client' = client,
           Follows(disk, p), label \in Between => NothingNew(disk, p)
    PROVE SeriesInv' /\ Follows(disk, disk')
<1>1. /\ \A q \in Runners \ {r} : ~Live(q)
      /\ \A c \in Clients : client[c].op = "none"
      /\ Follows(disk, disk')
  BY OnlyRun
<1>2. Follows(disk', p) /\ (label \in Between => NothingNew(disk', p))
  OBVIOUS
<1> QED BY <1>1, <1>2, SeriesFrame DEF SetMem, Goto

\* A save of the live run's copy, whether it succeeds or raises.
LEMMA SeriesSave ==
    ASSUME SeriesInv, GateInv', NEW r \in Runners, Live(r), NEW p \in Plan,
           Follows(disk, p), NEW next, SaveOrRaise(r, p, next), client' = client
    PROVE SeriesInv' /\ Follows(disk, disk')
<1> DEFINE raised == [p EXCEPT !.status = "failed"]
<1>1. \/ disk' = p /\ SetMem(r, p) /\ Goto(r, next)
      \/ disk' = disk /\ SetMem(r, raised) /\ Goto(r, "final")
  BY DEF SaveOrRaise
<1>2. Follows(disk, raised)
  <2>1. raised.step = p.step
    BY DEF Plan
  <2> QED BY <2>1, FollowsSame
<1> HIDE DEF raised
<1>3. CASE disk' = p /\ SetMem(r, p) /\ Goto(r, next)
  <2>1. Follows(disk', p) /\ NothingNew(disk', p)
    <3>1. Sound(disk')
      BY DEF GateInv, EveryCopy
    <3>2. Sound(p)
      BY <1>3, <3>1
    <3>3. Follows(p, p) /\ NothingNew(p, p)
      BY <3>2, FollowsSelf DEF NothingNew
    <3> QED BY <1>3, <3>3
  <2>2. Follows(disk, disk')
    BY <1>3
  <2> QED BY <1>3, <2>1, <2>2, OnlyRun, SeriesFrame DEF SetMem, Goto
<1>4. CASE disk' = disk /\ SetMem(r, raised) /\ Goto(r, "final")
  <2>1. "final" \notin Between
    BY DEF Between
  <2> QED BY <1>2, <1>4, <2>1, SeriesMove
<1> QED BY <1>1, <1>3, <1>4

\* Starting steps from the selection: the copy knows nothing more than the store,
\* so what the gate sees in the copy is in the store as well.
LEMMA SeriesStart ==
    ASSUME SeriesInv, GateInv', NEW r \in Runners, pc[r] = "select",
           NEW S \in SUBSET RunnableSteps(mem[r]), StartSteps(r, S)
    PROVE SeriesInv' /\ Follows(disk, disk')
<1> DEFINE p == SetSteps(mem[r], S, "running")
<1>1. Live(r) /\ pc[r] \in Between
  BY DEF Live, Between
<1>2. Follows(disk, mem[r]) /\ mem[r] \in Plan /\ NothingNew(disk, mem[r])
  BY <1>1, OnlyRun
<1>3. /\ p \in Plan
      /\ p.step = [s \in Steps |-> IF s \in S THEN "running" ELSE mem[r].step[s]]
      /\ p.log = mem[r].log
  BY <1>2, SetStepsType DEF StepStatus
<1>4. SaveOrRaise(r, p, "exec") /\ client' = client
  BY DEF StartSteps
<1> HIDE DEF p
<1>5. ASSUME NEW s \in Steps, p.step[s] # mem[r].step[s]
      PROVE mem[r].step[s] # "verified" /\ UnmetDeps(disk, s) = {}
  <2>1. CanStart(mem[r], s)
    BY <1>3, <1>5 DEF RunnableSteps
  <2>2. \A d \in Deps[s] : d \in Steps /\ mem[r].step[d] = "verified"
    BY <2>1, DepsAssumption DEF CanStart, UnmetDeps
  <2>3. \A d \in Deps[s] : disk.step[d] = "verified"
    BY <1>2, <2>2 DEF NothingNew
  <2> QED BY <2>1, <2>3 DEF CanStart, UnmetDeps
<1>6. Follows(disk, p)
  BY <1>2, <1>5, FollowsMove
<1> QED BY <1>1, <1>3, <1>4, <1>6, SeriesSave

\* An attempt ends for steps that were running in the copy.
LEMMA SeriesAttempt ==
    ASSUME SeriesInv, GateInv', NEW r \in Runners, Live(r), NEW S \in SUBSET Steps,
           NEW label \in {"save", "resave"},
           \A s \in S : mem[r].step[s] = "running",
           FinishAttempt(r, S, label)
    PROVE SeriesInv' /\ Follows(disk, disk')
<1>1. PICK f \in Results(r, S) :
          \E q \in AfterAbortCheck(Finalize(mem[r], S, f)) : SetMem(r, q)
  BY DEF FinishAttempt
<1>q. PICK q \in AfterAbortCheck(Finalize(mem[r], S, f)) : SetMem(r, q)
  BY <1>1
<1>2. f \in [S -> [step : StepStatus, log : Verdict]]
  BY <1>1 DEF Results
<1>3. Follows(disk, mem[r]) /\ mem[r] \in Plan
  BY OnlyRun
<1> DEFINE p == Finalize(mem[r], S, f)
<1>4. /\ p \in Plan
      /\ p.step = [s \in Steps |-> IF s \in S THEN f[s].step ELSE mem[r].step[s]]
      /\ p.log = [s \in Steps |-> IF s \in S THEN f[s].log ELSE mem[r].log[s]]
  BY <1>2, <1>3, FinalizeType
<1>5. q.step = p.step
  BY <1>4, AfterAbortCheckType
<1>6. SetMem(r, q)
  BY <1>q
<1> HIDE DEF p
<1>7. ASSUME NEW s \in Steps, q.step[s] # mem[r].step[s]
      PROVE mem[r].step[s] # "verified" /\ UnmetDeps(disk, s) = {}
  <2>1. mem[r].step[s] = "running"
    BY <1>4, <1>5, <1>7
  <2> QED BY <1>3, <2>1 DEF Follows
<1>8. Follows(disk, q)
  BY <1>3, <1>7, FollowsMove
<1>9. label \notin Between
  BY DEF Between
<1>10. Goto(r, label) /\ disk' = disk /\ client' = client
  BY DEF FinishAttempt
<1> QED BY <1>6, <1>8, <1>9, <1>10, SeriesMove

\* The answers to a failed step.
LEMMA SeriesFailedStep ==
    ASSUME SeriesInv, GateInv', NEW r \in Runners, RetryStep(r) \/ ContinueAfterFail(r)
    PROVE SeriesInv' /\ Follows(disk, disk')
<1> DEFINE s == First(wave[r])
<1>1. Outcome(r, "failed")
  BY DEF RetryStep, ContinueAfterFail
<1>2. Live(r)
  BY <1>1 DEF Outcome, Live
<1>3. Follows(disk, mem[r]) /\ mem[r] \in Plan /\ wave[r] \in SUBSET Steps
  BY <1>2, OnlyRun
<1>4. s \in Steps /\ mem[r].step[s] = "failed"
  <2>1. wave[r] # {}
    BY <1>1 DEF Outcome
  <2> QED BY <1>1, <1>3, <2>1, FirstInSet DEF Outcome
<1>5. ASSUME NEW to \in StepStatus
      PROVE Follows(disk, SetSteps(mem[r], {s}, to)) /\ SetSteps(mem[r], {s}, to) \in Plan
  <2>1. {s} \in SUBSET Steps
        /\ \A t \in {s} : mem[r].step[t] \notin {"pending", "skipped", "verified"}
    BY <1>4
  <2> HIDE DEF s
  <2> QED BY <1>3, <2>1, FollowsTransition
<1>6. CASE RetryStep(r)
  <2>1. /\ SetMem(r, SetSteps(mem[r], {s}, "running")) /\ Goto(r, "reexec")
        /\ disk' = disk /\ client' = client
    BY <1>6 DEF RetryStep
  <2>2. "reexec" \notin Between /\ "running" \in StepStatus
    BY DEF Between, StepStatus
  <2> HIDE DEF s
  <2> QED BY <1>2, <1>5, <2>1, <2>2, SeriesMove
<1>7. CASE ContinueAfterFail(r)
  <2>1. /\ SaveOrRaise(r, SetSteps(mem[r], {s}, "verified"), "outcome")
        /\ client' = client
    BY <1>7 DEF ContinueAfterFail
  <2>2. "verified" \in StepStatus
    BY DEF StepStatus
  <2> HIDE DEF s
  <2> QED BY <1>2, <1>5, <2>1, <2>2, SeriesSave
<1> QED BY <1>6, <1>7

\* The end of the live run: its copy is dropped, after a last save or without.
LEMMA SeriesEnd ==
    ASSUME SeriesInv, GateInv', NEW r \in Runners, Live(r), Forget(r),
           client' = client, Follows(disk, disk')
    PROVE SeriesInv' /\ Follows(disk, disk')
<1>1. /\ mem' = [mem EXCEPT ![r] = InitialPlan] /\ pc' = [pc EXCEPT ![r] = "idle"]
      /\ "idle" \notin Between
  BY DEF Forget, SetMem, Goto, Between
<1> QED BY <1>1, OnlyRun, SeriesFrame

LEMMA SeriesRunStep ==
    ASSUME SeriesInv, GateInv', NEW r \in Runners, RunStep(r)
    PROVE SeriesInv' /\ Follows(disk, disk')
<1>0. Live(r)
  BY DEF RunStep, SaveStart, CheckAbort, NothingRunnable, StartWave, StartOne,
         FinishSteps, SaveOutcome, WaveHandled, KeepGoing, RetryStep, FinishRetry,
         SaveRetry, ContinueAfterFail, StopOnFail, FinishRun, Outcome, Live
<1>1. /\ mem[r] \in Plan /\ Sound(mem[r]) /\ Follows(disk, mem[r]) /\ Follows(disk, disk)
      /\ mem \in [Runners -> Plan] /\ pc \in [Runners -> PC]
      /\ wave[r] \in SUBSET Steps
      /\ RunningInCopy(r)
      /\ pc[r] \in Between => NothingNew(disk, mem[r])
      /\ \A q \in Runners \ {r} : ~Live(q)
      /\ \A c \in Clients : client[c].op = "none"
  BY <1>0, OnlyRun
<1>2. ASSUME NEW p, NEW label, p.step = mem[r].step, SetMem(r, p), Goto(r, label),
             label \in Between => pc[r] \in Between,
             disk' = disk, client' = client
      PROVE SeriesInv' /\ Follows(disk, disk')
  <2>1. Follows(disk, p) /\ (label \in Between => NothingNew(disk, p))
    BY <1>1, <1>2, FollowsSame DEF NothingNew
  <2> QED BY <1>0, <1>2, <2>1, SeriesMove
<1>3. CASE SaveStart(r)
  <2>1. /\ disk' = mem[r] /\ client' = client /\ mem' = [mem EXCEPT ![r] = mem[r]]
        /\ pc' = [pc EXCEPT ![r] = "loop"]
    BY <1>1, <1>3 DEF SaveStart, Goto
  <2>2. Follows(disk', mem[r]) /\ NothingNew(disk', mem[r])
    BY <1>1, <2>1, FollowsSelf DEF NothingNew
  <2>3. Follows(disk, disk')
    BY <1>1, <2>1
  <2> QED BY <1>1, <2>1, <2>2, <2>3, SeriesFrame
<1>4. CASE CheckAbort(r)
  <2>1. PICK p \in AfterAbortCheck(mem[r]), label \in {"final", "select"} :
            SetMem(r, p) /\ Goto(r, label)
    BY <1>4 DEF CheckAbort
  <2>2. p.step = mem[r].step
    BY <1>1, AfterAbortCheckType
  <2>3. /\ SetMem(r, p) /\ pc[r] \in Between
        /\ disk' = disk /\ client' = client
    BY <1>4, <2>1 DEF CheckAbort, Between
  <2> QED BY <1>2, <2>1, <2>2, <2>3
<1>5. CASE NothingRunnable(r) \/ StopOnFail(r)
  <2>1. PICK p \in {[mem[r] EXCEPT !.status = "failed"], RecomputePlanStatus(mem[r])} :
            SetMem(r, p)
    BY <1>5 DEF NothingRunnable, StopOnFail
  <2>2. p.step = mem[r].step
    <3>1. CASE p = RecomputePlanStatus(mem[r])
      BY <1>1, <3>1, RecomputeType
    <3>2. CASE p = [mem[r] EXCEPT !.status = "failed"]
      BY <1>1, <3>2 DEF Plan
    <3> QED BY <2>1, <3>1, <3>2
  <2>3. Goto(r, "final") /\ disk' = disk /\ client' = client /\ "final" \notin Between
    BY <1>5 DEF NothingRunnable, StopOnFail, Between
  <2> QED BY <1>2, <2>1, <2>2, <2>3
<1>6. CASE StartWave(r) \/ StartOne(r)
  <2>1. pc[r] = "select"
    BY <1>6 DEF StartWave, StartOne
  <2>2. PICK S \in SUBSET RunnableSteps(mem[r]) : StartSteps(r, S)
    <3>1. CASE StartWave(r)
      BY <3>1 DEF StartWave, RunnableChats
    <3>2. CASE StartOne(r)
      <4>1. First(RunnableSteps(mem[r])) \in RunnableSteps(mem[r])
        BY <3>2, FirstInSet DEF StartOne, RunnableSteps
      <4>2. {First(RunnableSteps(mem[r]))} \in SUBSET RunnableSteps(mem[r])
        BY <4>1
      <4> QED BY <3>2, <4>2 DEF StartOne
    <3> QED BY <1>6, <3>1, <3>2
  <2> QED BY <2>1, <2>2, SeriesStart
<1>7. CASE FinishSteps(r)
  BY <1>0, <1>1, <1>7, SeriesAttempt DEF FinishSteps, RunningInCopy
<1>8. CASE FinishRetry(r)
  <2>1. {First(wave[r])} \in SUBSET Steps /\ mem[r].step[First(wave[r])] = "running"
    BY <1>1, <1>8, FirstInSet DEF FinishRetry, RunningInCopy
  <2> QED BY <1>0, <1>8, <2>1, SeriesAttempt DEF FinishRetry
<1>9. CASE SaveOutcome(r) \/ SaveRetry(r)
  <2>1. \E next \in {"final", "outcome", "giveup"} : SaveOrRaise(r, mem[r], next)
    BY <1>9 DEF SaveOutcome, SaveRetry
  <2>2. client' = client
    BY <1>9 DEF SaveOutcome, SaveRetry
  <2> QED BY <1>0, <1>1, <2>1, <2>2, SeriesSave
<1>10. CASE WaveHandled(r)
  <2>1. /\ SetMem(r, mem[r]) /\ Goto(r, "loop") /\ pc[r] \in Between
        /\ disk' = disk /\ client' = client
    BY <1>1, <1>10 DEF WaveHandled, SetMem, Between
  <2> QED BY <1>2, <2>1
<1>11. CASE KeepGoing(r)
  <2>1. /\ SetMem(r, mem[r]) /\ Goto(r, pc[r]) /\ disk' = disk /\ client' = client
    BY <1>1, <1>11 DEF KeepGoing, SetMem, Goto
  <2> QED BY <1>2, <2>1
<1>12. CASE RetryStep(r) \/ ContinueAfterFail(r)
  BY <1>12, SeriesFailedStep
<1>13. CASE FinishRun(r)
  <2>1. FinalPlan(mem[r]).step = mem[r].step
    BY <1>1, FinalPlanType
  <2>2. Follows(disk, FinalPlan(mem[r]))
    BY <1>1, <2>1, FollowsSame
  <2>3. Follows(disk, disk') /\ Forget(r) /\ client' = client
    BY <1>13, <2>2 DEF FinishRun
  <2> QED BY <1>0, <2>3, SeriesEnd
<1> QED
  BY <1>3, <1>4, <1>5, <1>6, <1>7, <1>8, <1>9, <1>10, <1>11, <1>12, <1>13 DEF RunStep

\* A run starts while nothing else is live.
LEMMA SeriesLoad ==
    ASSUME OneRunAtATime, ClientsBetweenRuns, SeriesInv, GateInv', NEW r \in Runners,
           LoadPlan(r)
    PROVE SeriesInv' /\ Follows(disk, disk')
<1>1. PICK stale \in SUBSET MayBeStale(disk) : SetMem(r, RecoverStale(disk, stale))
  BY DEF LoadPlan
<1>2. disk \in Plan /\ Follows(disk, disk)
  BY FollowsSelf DEF SeriesInv, GateInv, EveryCopy, TypeOK
<1>3. stale \in SUBSET Steps /\ \A s \in stale : disk.step[s] = "running"
  BY DEF MayBeStale
<1> DEFINE p == SetSteps(disk, stale, "failed")
           q == RecoverStale(disk, stale)
<1>4. /\ p \in Plan
      /\ p.step = [s \in Steps |-> IF s \in stale THEN "failed" ELSE disk.step[s]]
      /\ p.log = disk.log
  <2>1. "failed" \in StepStatus
    BY DEF StepStatus
  <2> QED BY <1>2, <2>1, SetStepsType
<1>5. Follows(disk, p)
  <2>1. "failed" \in StepStatus
    BY DEF StepStatus
  <2> QED BY <1>2, <1>3, <2>1, FollowsTransition
<1>6. q = [p EXCEPT !.status = "running"]
  BY DEF RecoverStale
<1> HIDE DEF p, q
<1>7. q.step = p.step
  BY <1>4, <1>6 DEF Plan
<1>8. Follows(disk, q) /\ NothingNew(disk, q)
  BY <1>4, <1>5, <1>7, FollowsSame DEF NothingNew
<1>9. /\ \A x \in Runners \ {r} : ~Live(x)
      /\ \A c \in Clients : client[c].op = "none"
      /\ mem' = [mem EXCEPT ![r] = q] /\ pc' = [pc EXCEPT ![r] = "start"]
      /\ disk' = disk /\ client' = client
  BY <1>1 DEF LoadPlan, NoLiveRun, NoLiveCall, SetMem, Goto, q
<1>10. Follows(disk', q) /\ NothingNew(disk', q) /\ Follows(disk, disk')
  BY <1>2, <1>8, <1>9
<1> QED BY <1>9, <1>10, SeriesFrame

\* A call loads and saves while no run is live, and no other call.
LEMMA SeriesClient ==
    ASSUME ClientsBetweenRuns, \A c, d \in Clients : c = d,
           SeriesInv, GateInv', NEW c \in Clients,
           LoadCancel(c) \/ LoadDecide(c) \/ SaveCall(c)
    PROVE SeriesInv' /\ Follows(disk, disk')
<1>0. /\ disk \in Plan /\ Sound(disk) /\ Follows(disk, disk)
      /\ client \in [Clients -> Calls]
  BY FollowsSelf DEF SeriesInv, GateInv, EveryCopy, TypeOK
<1>1. NoLiveRun /\ mem' = mem /\ pc' = pc
  BY DEF LoadCancel, LoadDecide, SaveCall, CallIdle, runnerVars, SeriesInv, NoLiveCall
<1>2. \A r \in Runners : pc'[r] = "idle"
  BY <1>1 DEF NoLiveRun, Live
<1>3. ASSUME NEW op, NEW q, client' = [client EXCEPT ![c] = [op |-> op, doc |-> q]],
             op # "none" => Follows(disk', q)
      PROVE SeriesInv'
  <2>1. client'[c].op = op /\ client'[c].doc = q
    BY <1>0, <1>3
  <2>2. \A d \in Clients : client'[d].op # "none" => Follows(disk', client'[d].doc)
    BY <1>3, <2>1
  <2>3. NoLiveRun' /\ \A r, x \in Runners : Live(r)' /\ Live(x)' => r = x
    BY <1>2 DEF NoLiveRun, Live
  <2>4. \A r \in Runners : ~Live(r)' /\ pc'[r] \notin Between
    BY <1>2 DEF Live, Between
  <2> QED BY <2>2, <2>3, <2>4 DEF SeriesInv
<1>4. CASE LoadCancel(c)
  <2>1. /\ client' = [client EXCEPT ![c] = [op |-> "cancel", doc |-> Abort(disk)]]
        /\ disk' = disk
    BY <1>4 DEF LoadCancel, CallIdle
  <2>2. Follows(disk, Abort(disk))
    BY <1>0, AbortType, FollowsSame
  <2>3. Follows(disk', Abort(disk)) /\ Follows(disk, disk')
    BY <1>0, <2>1, <2>2
  <2> QED BY <1>3, <2>1, <2>3
<1>5. CASE LoadDecide(c)
  <2>1. PICK s \in Steps, decision \in {"approve", "reject"} :
          /\ disk.step[s] = "verifying"
          /\ LET ok == decision = "approve"
                 doc == SetSteps(disk, {s}, IF ok THEN "verified" ELSE "failed")
             IN client' = [client EXCEPT ![c] =
                  [op |-> decision,
                   doc |-> [doc EXCEPT !.log[s] = IF ok THEN "pass" ELSE "fail"]]]
    BY <1>5 DEF LoadDecide
  <2> DEFINE to == IF decision = "approve" THEN "verified" ELSE "failed"
             verdict == IF decision = "approve" THEN "pass" ELSE "fail"
             doc == SetSteps(disk, {s}, to)
             new == [doc EXCEPT !.log[s] = verdict]
  <2>2. to \in StepStatus
    BY DEF StepStatus
  <2>3. client' = [client EXCEPT ![c] = [op |-> decision, doc |-> new]] /\ disk' = disk
    BY <1>5, <2>1 DEF LoadDecide, CallIdle
  <2> HIDE DEF to, verdict
  <2>4. doc \in Plan /\ Follows(disk, doc)
    <3>1. {s} \in SUBSET Steps
          /\ \A t \in {s} : disk.step[t] \notin {"pending", "skipped", "verified"}
      BY <2>1
    <3> QED BY <1>0, <2>2, <3>1, FollowsTransition
  <2> HIDE DEF doc
  <2>5. new.step = doc.step
    BY <2>4 DEF Plan
  <2> HIDE DEF new
  <2>6. Follows(disk', new) /\ Follows(disk, disk')
    BY <1>0, <2>3, <2>4, <2>5, FollowsSame
  <2> QED BY <1>3, <2>3, <2>6
<1>6. CASE SaveCall(c)
  <2>1. /\ client' = [client EXCEPT ![c] = [op |-> "none", doc |-> InitialPlan]]
        /\ disk' = client[c].doc /\ client[c].op # "none"
    BY <1>6 DEF SaveCall, NoCall
  <2>2. Follows(disk, disk')
    BY <2>1 DEF SeriesInv
  <2> QED BY <1>3, <2>1, <2>2
<1> QED BY <1>4, <1>5, <1>6

LEMMA SeriesStep ==
    ASSUME OneRunAtATime, ClientsBetweenRuns, \A c, d \in Clients : c = d,
           SeriesInv, GateInv', [Next]_vars
    PROVE SeriesInv' /\ Follows(disk, disk')
<1>1. ASSUME NEW r \in Runners, LoadPlan(r) PROVE SeriesInv' /\ Follows(disk, disk')
  BY <1>1, SeriesLoad
<1>2. ASSUME NEW r \in Runners, RunStep(r) PROVE SeriesInv' /\ Follows(disk, disk')
  BY <1>2, SeriesRunStep
<1>3. ASSUME NEW r \in Runners, Crash(r) PROVE SeriesInv' /\ Follows(disk, disk')
  <2>1. Live(r) /\ Forget(r) /\ client' = client /\ disk' = disk
    BY <1>3 DEF Crash
  <2>2. Follows(disk, disk')
    BY <2>1, OnlyRun
  <2> QED BY <2>1, <2>2, SeriesEnd
<1>4. ASSUME NEW c \in Clients, LoadCancel(c) \/ LoadDecide(c) \/ SaveCall(c)
      PROVE SeriesInv' /\ Follows(disk, disk')
  BY <1>4, SeriesClient
<1>5. CASE UNCHANGED vars
  <2>1. Follows(disk, disk)
    BY FollowsSelf DEF SeriesInv, GateInv, EveryCopy
  <2>2. /\ disk' = disk /\ mem' = mem /\ pc' = pc /\ client' = client
    BY <1>5 DEF vars
  <2>3. SeriesInv'
    BY <2>2 DEF SeriesInv, NoLiveRun, NoLiveCall, Live
  <2> QED BY <2>1, <2>2, <2>3
<1> QED BY <1>1, <1>2, <1>3, <1>4, <1>5 DEF Next

LEMMA SeriesInit == Init => SeriesInv
<1> SUFFICES ASSUME Init PROVE SeriesInv
  OBVIOUS
<1>1. GateInv
  BY InitType, InitialSound
     DEF Init, GateInv, WaveRunning, RunningInCopy, EveryCopy, NoCall
<1>2. /\ \A r \in Runners : pc[r] = "idle"
      /\ \A c \in Clients : client[c].op = "none"
  BY DEF Init, NoCall
<1> QED BY <1>1, <1>2 DEF SeriesInv, Live, NoLiveRun, Between

-----------------------------------------------------------------------------
(* Theorems *)

\* When runs of a plan do not overlap and a cancel or a decision falls between
\* them, a step that is verified in the store stays verified: through failing
\* and crashing runs, failing saves, retries, resumes and decisions.
THEOREM DurableProgressHolds ==
    ASSUME OneRunAtATime, ClientsBetweenRuns, \A c, d \in Clients : c = d
    PROVE Spec => DurableProgress
<1>1. SeriesInv /\ GateInv' /\ [Next]_vars => SeriesInv'
  BY SeriesStep
<1>2. SeriesInv /\ GateInv' /\ [Next]_vars =>
        [\A s \in Steps : disk.step[s] = "verified" => disk'.step[s] = "verified"]_vars
  BY SeriesStep DEF Follows
<1> QED BY <1>1, <1>2, SeriesInit, GateInvariant, PTL DEF Spec, DurableProgress

\* Under the same assumptions the store, seen as its set of verified steps,
\* implements PlanContract: steps become verified only after everything they
\* depend on, in the store itself and not in some copy.
THEOREM ImplementsContractHolds ==
    ASSUME OneRunAtATime, ClientsBetweenRuns, \A c, d \in Clients : c = d
    PROVE Spec => ImplementsContract
<1> DEFINE before == {s \in Steps : disk.step[s] = "verified"}
           after == {s \in Steps : disk'.step[s] = "verified"}
<1>1. Init => Contract!Init
  <2> SUFFICES ASSUME Init, NEW s \in before PROVE Deps[s] \subseteq before
    BY DEF Contract!Init
  <2>1. disk.step = InitialStatus
    BY DEF Init, InitialPlan
  <2> QED BY <2>1, InitialStatusAssumption, DepsAssumption
<1>2. SeriesInv /\ GateInv' /\ [Next]_vars => SeriesInv'
  BY SeriesStep
<1>3. SeriesInv /\ GateInv' /\ [Next]_vars => [Contract!Next]_before
  <2> SUFFICES ASSUME SeriesInv, GateInv', [Next]_vars, after # before
               PROVE  Contract!Next
    OBVIOUS
  <2>1. Follows(disk, disk')
    BY SeriesStep
  <2> DEFINE S == after \ before
  <2>2. S \in SUBSET (Steps \ before) /\ S # {} /\ after = before \cup S
    BY <2>1 DEF Follows
  <2>3. \A s \in S : Deps[s] \subseteq before
    <3> SUFFICES ASSUME NEW s \in S, NEW d \in Deps[s] PROVE d \in before
      OBVIOUS
    <3>1. s \in Steps /\ disk'.step[s] = "verified" /\ d \in Steps
      BY DepsAssumption
    <3>2. UnmetDeps(disk, s) = {}
      BY <2>1, <3>1 DEF Follows
    <3> QED BY <3>1, <3>2 DEF UnmetDeps
  <2> QED BY <2>2, <2>3 DEF Contract!Next, Contract!Verify
<1> QED
  BY <1>1, <1>2, <1>3, SeriesInit, GateInvariant, PTL
     DEF Spec, ImplementsContract, Contract!Spec

-----------------------------------------------------------------------------
(* No step is left open between runs *)

\* Nothing heals: what has happened to the bounds has happened.
LEMMA StaysDisturbed ==
    ASSUME TypeOK, Next, Undisturbed'
    PROVE Undisturbed
<1>0. spent \in [runs : Nat, crashes : Nat, saveErrors : Nat, ops : Nat]
  BY DEF TypeOK
<1>1. ASSUME NEW r \in Runners, NEW p, NEW next, SaveOrRaise(r, p, next)
      PROVE Undisturbed
  <2>1. \/ spent' = spent
        \/ spent' = [spent EXCEPT !.saveErrors = @ + 1]
    BY <1>1 DEF SaveOrRaise
  <2> QED BY <1>0, <2>1 DEF Undisturbed
<1>2. ASSUME NEW r \in Runners, LoadPlan(r) PROVE Undisturbed
  BY <1>0, <1>2 DEF LoadPlan, Undisturbed
<1>3. ASSUME NEW r \in Runners, RunStep(r) PROVE Undisturbed
  <2>1. spent' = spent \/ \E p, next : SaveOrRaise(r, p, next)
    BY <1>3
       DEF RunStep, SaveStart, CheckAbort, NothingRunnable, StartWave, StartOne, StartSteps,
           FinishSteps, FinishAttempt, SaveOutcome, WaveHandled, KeepGoing, RetryStep,
           FinishRetry, SaveRetry, ContinueAfterFail, StopOnFail, FinishRun
  <2> QED BY <1>1, <2>1 DEF Undisturbed
<1>4. ASSUME NEW r \in Runners, Crash(r) PROVE Undisturbed
  <2>1. spent'.crashes = spent.crashes + 1
    BY <1>0, <1>4 DEF Crash
  <2> QED BY <1>0, <2>1 DEF Undisturbed
<1>5. ASSUME NEW c \in Clients, LoadCancel(c) \/ LoadDecide(c) PROVE Undisturbed
  <2>1. spent' = [spent EXCEPT !.ops = @ + 1]
    BY <1>5 DEF LoadCancel, LoadDecide, CallIdle
  <2> QED BY <1>0, <2>1 DEF Undisturbed
<1>6. ASSUME NEW c \in Clients, SaveCall(c) PROVE Undisturbed
  BY <1>6 DEF SaveCall, Undisturbed
<1> QED BY <1>2, <1>3, <1>4, <1>5, <1>6 DEF Next

\* A step of the one live run, or one that starts it.
LEMMA OrphanFrame ==
    ASSUME OrphanInv, TypeOK', Undisturbed' => Undisturbed, NEW r \in Runners,
           \A q \in Runners \ {r} : ~Live(q), NoLiveCall, client' = client,
           NEW p, SetMem(r, p), NEW label, Goto(r, label),
           Undisturbed' => /\ label = "idle" => OpenSteps(disk') = {}
                           /\ OpenSteps(p) \subseteq Executing(r)'
    PROVE OrphanInv'
<1>0. mem \in [Runners -> Plan] /\ pc \in [Runners -> PC]
  BY DEF OrphanInv, TypeOK
<1>1. mem'[r] = p /\ pc'[r] = label
  BY <1>0 DEF SetMem, Goto
<1>2. \A q \in Runners \ {r} : pc[q] = "idle" /\ pc'[q] = "idle" /\ mem'[q] = mem[q]
  BY <1>0 DEF SetMem, Goto, Live
<1>3. \A q, x \in Runners : Live(q)' /\ Live(x)' => q = x
  BY <1>2 DEF Live
<1>4. NoLiveCall'
  BY DEF NoLiveCall
<1>5. ASSUME Undisturbed'
      PROVE /\ NoLiveRun' => OpenSteps(disk') = {}
            /\ \A q \in Runners : OpenSteps(mem'[q]) \subseteq Executing(q)'
            /\ \A c \in Clients : OpenSteps(client'[c].doc) = {}
  <2>1. NoLiveRun' => label = "idle"
    BY <1>1 DEF NoLiveRun, Live
  <2>2. ASSUME NEW q \in Runners, q # r
        PROVE OpenSteps(mem'[q]) \subseteq Executing(q)'
    <3>1. OpenSteps(mem[q]) \subseteq Executing(q)
      BY <1>5 DEF OrphanInv
    <3>2. Executing(q) = {}
      BY <1>2, <2>2 DEF Executing
    <3> QED BY <1>2, <2>2, <3>1, <3>2
  <2>3. \A c \in Clients : OpenSteps(client[c].doc) = {}
    BY <1>5 DEF OrphanInv
  <2> QED BY <1>1, <1>5, <2>1, <2>2, <2>3
<1> QED BY <1>3, <1>4, <1>5 DEF OrphanInv

LEMMA SameOpen ==
    ASSUME NEW p, NEW q, q.step = p.step
    PROVE OpenSteps(q) = OpenSteps(p)
BY DEF OpenSteps

LEMMA OpenInitially == NothingOpen => OpenSteps(InitialPlan) = {}
BY DEF OpenSteps, InitialPlan, NothingOpen

\* The process dies, or the last save raises: no promise any more.
LEMMA OrphanCrash ==
    ASSUME OrphanInv, TypeOK', Undisturbed' => Undisturbed, NEW r \in Runners, Crash(r)
    PROVE OrphanInv'
<1>1. spent'.crashes = spent.crashes + 1 /\ spent.crashes \in Nat
  BY DEF Crash, OrphanInv, TypeOK
<1>2. ~Undisturbed'
  BY <1>1 DEF Undisturbed
<1>3. /\ \A q \in Runners \ {r} : ~Live(q)
      /\ NoLiveCall
  BY DEF Crash, OrphanInv, NoLiveRun
<1>4. SetMem(r, InitialPlan) /\ Goto(r, "idle") /\ client' = client
  BY DEF Crash, Forget
<1> QED BY <1>2, <1>3, <1>4, OrphanFrame

\* A save of the live run, and the exception that takes its place.
LEMMA OrphanSave ==
    ASSUME OrphanInv, TypeOK', Undisturbed' => Undisturbed, NEW r \in Runners,
           \A q \in Runners \ {r} : ~Live(q), NoLiveCall, client' = client,
           NEW p, NEW next, next # "idle", SaveOrRaise(r, p, next),
           Undisturbed' /\ pc' = [pc EXCEPT ![r] = next] => OpenSteps(p) \subseteq Executing(r)'
    PROVE OrphanInv'
<1>1. CASE spent' = spent /\ SetMem(r, p) /\ Goto(r, next)
  BY <1>1, OrphanFrame DEF Goto
<1>2. CASE /\ spent' = [spent EXCEPT !.saveErrors = @ + 1]
           /\ SetMem(r, [p EXCEPT !.status = "failed"]) /\ Goto(r, "final")
  <2>1. spent'.saveErrors = spent.saveErrors + 1 /\ spent.saveErrors \in Nat
    BY <1>2 DEF OrphanInv, TypeOK
  <2>2. ~Undisturbed'
    BY <2>1 DEF Undisturbed
  <2> QED BY <1>2, <2>2, OrphanFrame
<1> QED BY <1>1, <1>2 DEF SaveOrRaise

\* An attempt ends: none of its steps is open any more.
LEMMA OrphanAttempt ==
    ASSUME OrphanInv, TypeOK', Undisturbed' => Undisturbed, NEW r \in Runners,
           \A q \in Runners \ {r} : ~Live(q), NoLiveCall,
           NEW label \in {"save", "resave"}, FinishAttempt(r, Executing(r), label)
    PROVE OrphanInv'
<1> SUFFICES ASSUME NEW S, S = Executing(r)
             PROVE OrphanInv'
  OBVIOUS
<1>0. mem[r] \in Plan /\ mode[r] \in {"shadow", "active"}
  BY DEF OrphanInv, TypeOK
<1>1. PICK f \in Results(r, S) :
          \E q \in AfterAbortCheck(Finalize(mem[r], S, f)) : SetMem(r, q)
  BY DEF FinishAttempt
<1>q. PICK q \in AfterAbortCheck(Finalize(mem[r], S, f)) : SetMem(r, q)
  BY <1>1
<1>2. f \in [S -> [step : StepStatus, log : Verdict]]
  BY <1>1 DEF Results
<1>3. \A s \in S : f[s].step \in {"failed", "verified", "verifying"}
  BY <1>1 DEF Results, Attempts, Failed, Verified
<1>4. Undisturbed' => OpenSteps(mem[r]) \subseteq S
  BY DEF OrphanInv
<1> DEFINE p == Finalize(mem[r], S, f)
<1>5. /\ p \in Plan
      /\ p.step = [s \in Steps |-> IF s \in S THEN f[s].step ELSE mem[r].step[s]]
      /\ p.log = [s \in Steps |-> IF s \in S THEN f[s].log ELSE mem[r].log[s]]
  BY <1>0, <1>2, FinalizeType
<1>6. q.step = p.step
  BY <1>5, AfterAbortCheckType
<1>7. SetMem(r, q)
  BY <1>q
<1> HIDE DEF p
<1>8. Undisturbed' => OpenSteps(q) = {}
  <2> SUFFICES ASSUME Undisturbed', NEW s \in Steps
               PROVE q.step[s] \notin {"running", "done"}
    BY DEF OpenSteps
  <2>1. CASE s \in S
    BY <1>3, <1>5, <1>6, <2>1
  <2>2. CASE s \notin S
    BY <1>4, <1>5, <1>6, <2>2 DEF OpenSteps
  <2> QED BY <2>1, <2>2
<1>9. Goto(r, label) /\ client' = client /\ label # "idle"
  BY DEF FinishAttempt
<1> QED BY <1>7, <1>8, <1>9, OrphanFrame

LEMMA OrphanRunStep ==
    ASSUME OrphanInv, TypeOK', Undisturbed' => Undisturbed, NEW r \in Runners, RunStep(r)
    PROVE OrphanInv'
<1>0. Live(r)
  BY DEF RunStep, SaveStart, CheckAbort, NothingRunnable, StartWave, StartOne,
         FinishSteps, SaveOutcome, WaveHandled, KeepGoing, RetryStep, FinishRetry,
         SaveRetry, ContinueAfterFail, StopOnFail, FinishRun, Outcome, Live
<1>1. /\ mem[r] \in Plan /\ mem \in [Runners -> Plan] /\ pc \in [Runners -> PC]
      /\ wave \in [Runners -> SUBSET Steps] /\ wave[r] \in SUBSET Steps
      /\ \A q \in Runners \ {r} : ~Live(q)
      /\ NoLiveCall
      /\ Undisturbed' => OpenSteps(mem[r]) \subseteq Executing(r)
  BY <1>0 DEF OrphanInv, TypeOK, NoLiveRun
\* Where nothing is executing and the copy's steps stay as they are.
<1>2. ASSUME NEW p, NEW label, p.step = mem[r].step, SetMem(r, p), Goto(r, label),
             pc[r] \notin {"exec", "reexec"}, label # "idle", client' = client
      PROVE OrphanInv'
  <2>1. Executing(r) = {}
    BY <1>2 DEF Executing
  <2>2. Undisturbed' => OpenSteps(p) \subseteq Executing(r)'
    BY <1>1, <1>2, <2>1, SameOpen
  <2> QED BY <1>1, <1>2, <2>2, OrphanFrame
<1>3. CASE SaveStart(r) \/ WaveHandled(r) \/ KeepGoing(r)
  <2>1. PICK label \in {"loop", "outcome"} : Goto(r, label)
    BY <1>1, <1>3 DEF SaveStart, WaveHandled, KeepGoing, Goto, Outcome
  <2>2. SetMem(r, mem[r]) /\ pc[r] \notin {"exec", "reexec"} /\ client' = client
    BY <1>1, <1>3 DEF SaveStart, WaveHandled, KeepGoing, SetMem, Outcome
  <2> QED BY <1>2, <2>1, <2>2
<1>4. CASE CheckAbort(r)
  <2>1. PICK p \in AfterAbortCheck(mem[r]), label \in {"final", "select"} :
            SetMem(r, p) /\ Goto(r, label)
    BY <1>4 DEF CheckAbort
  <2>2. p.step = mem[r].step
    BY <1>1, AfterAbortCheckType
  <2>3. SetMem(r, p) /\ pc[r] = "loop" /\ client' = client
    BY <1>4, <2>1 DEF CheckAbort
  <2> QED BY <1>2, <2>1, <2>2, <2>3
<1>5. CASE NothingRunnable(r) \/ StopOnFail(r)
  <2>1. PICK p \in {[mem[r] EXCEPT !.status = "failed"], RecomputePlanStatus(mem[r])} :
            SetMem(r, p)
    BY <1>5 DEF NothingRunnable, StopOnFail
  <2>2. p.step = mem[r].step
    <3>1. CASE p = RecomputePlanStatus(mem[r])
      BY <1>1, <3>1, RecomputeType
    <3>2. CASE p = [mem[r] EXCEPT !.status = "failed"]
      BY <1>1, <3>2 DEF Plan
    <3> QED BY <2>1, <3>1, <3>2
  <2>3. Goto(r, "final") /\ pc[r] \notin {"exec", "reexec"} /\ client' = client
    BY <1>5 DEF NothingRunnable, StopOnFail, Outcome
  <2> QED BY <1>2, <2>1, <2>2, <2>3
<1>6. CASE StartWave(r) \/ StartOne(r)
  <2>1. PICK S : StartSteps(r, S)
    BY <1>6 DEF StartWave, StartOne
  <2> DEFINE p == SetSteps(mem[r], S, "running")
  <2>2. /\ p \in Plan
        /\ p.step = [s \in Steps |-> IF s \in S THEN "running" ELSE mem[r].step[s]]
        /\ p.log = mem[r].log
    <3>1. "running" \in StepStatus
      BY DEF StepStatus
    <3> QED BY <1>1, <3>1, SetStepsType
  <2>3. /\ SaveOrRaise(r, p, "exec") /\ client' = client
        /\ wave' = [wave EXCEPT ![r] = S]
    BY <2>1 DEF StartSteps
  <2> HIDE DEF p
  <2>4. Undisturbed' => OpenSteps(p) \subseteq S
    <3> SUFFICES ASSUME Undisturbed', NEW s \in OpenSteps(p), s \notin S PROVE FALSE
      OBVIOUS
    <3>1. s \in OpenSteps(mem[r])
      BY <2>2 DEF OpenSteps
    <3>2. Executing(r) = {}
      BY <1>6 DEF StartWave, StartOne, Executing
    <3> QED BY <1>1, <3>1, <3>2
  <2>5. pc' = [pc EXCEPT ![r] = "exec"] => Executing(r)' = S
    BY <1>1, <2>3 DEF Executing
  <2> QED BY <1>1, <2>3, <2>4, <2>5, OrphanSave
<1>7. CASE FinishSteps(r)
  <2>1. Executing(r) = wave[r]
    BY <1>7 DEF FinishSteps, Executing
  <2>2. FinishAttempt(r, Executing(r), "save")
    BY <1>7, <2>1 DEF FinishSteps
  <2> QED BY <1>1, <2>1, <2>2, OrphanAttempt
<1>8. CASE FinishRetry(r)
  <2>1. Executing(r) = {First(wave[r])}
    BY <1>8 DEF FinishRetry, Executing
  <2>2. FinishAttempt(r, Executing(r), "resave")
    BY <1>8, <2>1 DEF FinishRetry
  <2> QED BY <1>1, <2>1, <2>2, OrphanAttempt
<1>9. CASE SaveOutcome(r) \/ SaveRetry(r)
  <2>1. PICK next \in {"final", "outcome", "giveup"} : SaveOrRaise(r, mem[r], next)
    BY <1>9 DEF SaveOutcome, SaveRetry
  <2>2. client' = client /\ Executing(r) = {}
    BY <1>9 DEF SaveOutcome, SaveRetry, Executing
  <2> QED BY <1>1, <2>1, <2>2, OrphanSave
<1>10. CASE RetryStep(r)
  <2> DEFINE s == First(wave[r])
             p == SetSteps(mem[r], {s}, "running")
  <2>1. /\ p \in Plan
        /\ p.step = [t \in Steps |-> IF t \in {s} THEN "running" ELSE mem[r].step[t]]
        /\ p.log = mem[r].log
    <3>1. "running" \in StepStatus
      BY DEF StepStatus
    <3> QED BY <1>1, <3>1, SetStepsType
  <2>2. SetMem(r, p) /\ Goto(r, "reexec") /\ client' = client /\ wave' = wave
    BY <1>10 DEF RetryStep
  <2>3. Executing(r)' = {s}
    BY <1>1, <2>2 DEF Executing, Goto
  <2>4. Executing(r) = {}
    BY <1>10 DEF RetryStep, Outcome, Executing
  <2> HIDE DEF p, s
  <2>5. Undisturbed' => OpenSteps(p) \subseteq Executing(r)'
    <3> SUFFICES ASSUME Undisturbed', NEW t \in OpenSteps(p), t # s PROVE FALSE
      BY <2>3
    <3>1. t \in OpenSteps(mem[r])
      BY <2>1 DEF OpenSteps
    <3> QED BY <1>1, <2>4, <3>1
  <2> QED BY <1>1, <2>2, <2>5, OrphanFrame
<1>11. CASE ContinueAfterFail(r)
  <2> DEFINE s == First(wave[r])
             p == SetSteps(mem[r], {s}, "verified")
  <2>1. /\ p \in Plan
        /\ p.step = [t \in Steps |-> IF t \in {s} THEN "verified" ELSE mem[r].step[t]]
        /\ p.log = mem[r].log
    <3>1. "verified" \in StepStatus
      BY DEF StepStatus
    <3> QED BY <1>1, <3>1, SetStepsType
  <2>2. SaveOrRaise(r, p, "outcome") /\ client' = client
    BY <1>11 DEF ContinueAfterFail
  <2>3. Executing(r) = {}
    BY <1>11 DEF ContinueAfterFail, Outcome, Executing
  <2> HIDE DEF p, s
  <2>4. Undisturbed' => OpenSteps(p) = {}
    <3> SUFFICES ASSUME Undisturbed', NEW t \in OpenSteps(p) PROVE FALSE
      OBVIOUS
    <3>1. t \in OpenSteps(mem[r])
      BY <2>1 DEF OpenSteps
    <3> QED BY <1>1, <2>3, <3>1
  <2> QED BY <1>1, <2>2, <2>4, OrphanSave
<1>12. CASE FinishRun(r)
  <2>1. disk'.step = mem[r].step
    BY <1>1, <1>12, FinalPlanType DEF FinishRun
  <2>2. Executing(r) = {}
    BY <1>12 DEF FinishRun, Executing
  <2>3. Undisturbed' => OpenSteps(disk') = {}
    BY <1>1, <2>1, <2>2, SameOpen
  <2>4. SetMem(r, InitialPlan) /\ Goto(r, "idle") /\ client' = client
    BY <1>12 DEF FinishRun, Forget
  <2> QED BY <1>1, <2>3, <2>4, OpenInitially, OrphanFrame DEF Undisturbed
<1> QED
  BY <1>3, <1>4, <1>5, <1>6, <1>7, <1>8, <1>9, <1>10, <1>11, <1>12 DEF RunStep

\* A run starts when no other is live, on a document without open steps.
LEMMA OrphanLoad ==
    ASSUME OneRunAtATime, ClientsBetweenRuns, OrphanInv, TypeOK',
           Undisturbed' => Undisturbed, NEW r \in Runners, LoadPlan(r)
    PROVE OrphanInv'
<1>0. disk \in Plan /\ NoLiveRun /\ NoLiveCall
  BY DEF LoadPlan, OrphanInv, TypeOK
<1>1. PICK stale \in SUBSET MayBeStale(disk) : SetMem(r, RecoverStale(disk, stale))
  BY DEF LoadPlan
<1> DEFINE p == SetSteps(disk, stale, "failed")
           q == RecoverStale(disk, stale)
<1>2. /\ p \in Plan
      /\ p.step = [s \in Steps |-> IF s \in stale THEN "failed" ELSE disk.step[s]]
      /\ p.log = disk.log
  <2>1. "failed" \in StepStatus
    BY DEF StepStatus
  <2> QED BY <1>0, <2>1, SetStepsType
<1>3. q = [p EXCEPT !.status = "running"]
  BY DEF RecoverStale
<1>4. SetMem(r, q)
  BY <1>1
<1> HIDE DEF p, q
<1>5. q.step = p.step
  BY <1>2, <1>3 DEF Plan
<1>6. Undisturbed' => OpenSteps(q) = {}
  <2> SUFFICES ASSUME Undisturbed', NEW s \in OpenSteps(q) PROVE FALSE
    OBVIOUS
  <2>1. s \in OpenSteps(disk)
    BY <1>2, <1>5 DEF OpenSteps
  <2> QED BY <1>0, <2>1 DEF OrphanInv
<1>7. Goto(r, "start") /\ client' = client /\ \A x \in Runners \ {r} : ~Live(x)
  BY <1>0 DEF LoadPlan, NoLiveRun
<1> QED BY <1>0, <1>4, <1>6, <1>7, OrphanFrame

\* A call loads a document without open steps, and saves it while no run is live.
LEMMA OrphanClient ==
    ASSUME ClientsBetweenRuns, OrphanInv, TypeOK', Undisturbed' => Undisturbed,
           NEW c \in Clients, LoadCancel(c) \/ LoadDecide(c) \/ SaveCall(c)
    PROVE OrphanInv'
<1>0. disk \in Plan /\ client \in [Clients -> Calls] /\ NoLiveRun
  BY DEF LoadCancel, LoadDecide, SaveCall, CallIdle, OrphanInv, TypeOK, NoLiveCall
<1>1. mem' = mem /\ pc' = pc /\ wave' = wave
  BY DEF LoadCancel, LoadDecide, SaveCall, CallIdle, runnerVars
<1>2. NoLiveRun'
  BY <1>0, <1>1 DEF NoLiveRun, Live
<1>3. ASSUME NEW op, NEW q, client' = [client EXCEPT ![c] = [op |-> op, doc |-> q]],
             Undisturbed' => OpenSteps(q) = {} /\ OpenSteps(disk') = {}
      PROVE OrphanInv'
  <2>1. client'[c].doc = q
    BY <1>0, <1>3
  <2>2. ASSUME Undisturbed', NEW d \in Clients PROVE OpenSteps(client'[d].doc) = {}
    <3>1. CASE d = c
      BY <1>3, <2>1, <2>2, <3>1
    <3>2. CASE d # c
      <4>1. client'[d] = client[d] /\ OpenSteps(client[d].doc) = {}
        BY <1>0, <1>3, <2>2, <3>2 DEF OrphanInv
      <4>2. client'[d].doc = client[d].doc
        BY <4>1
      <4> QED BY <4>1, <4>2
    <3> QED BY <3>1, <3>2
  <2>3. \A r \in Runners : Executing(r)' = Executing(r)
    BY <1>1 DEF Executing
  <2>4. Undisturbed' => \A r \in Runners : OpenSteps(mem[r]) \subseteq Executing(r)'
    BY <2>3 DEF OrphanInv
  <2> QED BY <1>1, <1>2, <1>3, <2>2, <2>4 DEF OrphanInv, NoLiveRun
<1>4. Undisturbed' => OpenSteps(disk) = {} /\ OpenSteps(client[c].doc) = {}
  BY <1>0 DEF OrphanInv
<1>5. CASE LoadCancel(c)
  <2>1. /\ client' = [client EXCEPT ![c] = [op |-> "cancel", doc |-> Abort(disk)]]
        /\ disk' = disk
    BY <1>5 DEF LoadCancel, CallIdle
  <2>2. OpenSteps(Abort(disk)) = OpenSteps(disk)
    BY <1>0, AbortType, SameOpen
  <2> QED BY <1>3, <1>4, <2>1, <2>2
<1>6. CASE LoadDecide(c)
  <2>1. PICK s \in Steps, decision \in {"approve", "reject"} :
          LET ok == decision = "approve"
              doc == SetSteps(disk, {s}, IF ok THEN "verified" ELSE "failed")
          IN client' = [client EXCEPT ![c] =
               [op |-> decision,
                doc |-> [doc EXCEPT !.log[s] = IF ok THEN "pass" ELSE "fail"]]]
    BY <1>6 DEF LoadDecide
  <2> DEFINE to == IF decision = "approve" THEN "verified" ELSE "failed"
             verdict == IF decision = "approve" THEN "pass" ELSE "fail"
             doc == SetSteps(disk, {s}, to)
             q == [doc EXCEPT !.log[s] = verdict]
  <2>2. to \in StepStatus /\ to \notin {"running", "done"}
    BY DEF StepStatus
  <2>3. client' = [client EXCEPT ![c] = [op |-> decision, doc |-> q]] /\ disk' = disk
    BY <1>6, <2>1 DEF LoadDecide, CallIdle
  <2> HIDE DEF to, verdict
  <2>4. /\ doc \in Plan
        /\ doc.step = [t \in Steps |-> IF t \in {s} THEN to ELSE disk.step[t]]
        /\ doc.log = disk.log
    BY <1>0, <2>2, SetStepsType
  <2> HIDE DEF doc
  <2>5. q.step = doc.step
    BY <2>4 DEF Plan
  <2> HIDE DEF q
  <2>6. OpenSteps(q) \subseteq OpenSteps(disk)
    BY <2>2, <2>4, <2>5 DEF OpenSteps
  <2> QED BY <1>3, <1>4, <2>3, <2>6
<1>7. CASE SaveCall(c)
  <2>1. /\ client' = [client EXCEPT ![c] = [op |-> "none", doc |-> InitialPlan]]
        /\ disk' = client[c].doc
    BY <1>7 DEF SaveCall, NoCall
  <2>2. Undisturbed' => NothingOpen
    BY DEF Undisturbed
  <2> QED BY <1>3, <1>4, <2>1, <2>2, OpenInitially
<1> QED BY <1>5, <1>6, <1>7

\* When runs of a plan do not overlap, API calls fall between them and nothing
\* crashes or fails to be saved, no run leaves a step running or done behind.
THEOREM NoOrphanedStepHolds ==
    ASSUME OneRunAtATime, ClientsBetweenRuns PROVE Spec => []NoOrphanedStep
<1>1. Init => OrphanInv
  <2> SUFFICES ASSUME Init PROVE OrphanInv
    OBVIOUS
  <2>1. TypeOK /\ NoLiveRun /\ \A r \in Runners : ~Live(r)
    BY InitType DEF Init, NoLiveRun, Live
  <2>2. /\ disk = InitialPlan /\ \A r \in Runners : mem[r] = InitialPlan
        /\ \A c \in Clients : client[c].doc = InitialPlan
    BY DEF Init, NoCall
  <2> QED BY <2>1, <2>2, OpenInitially DEF OrphanInv, Undisturbed
<1>2. OrphanInv /\ TypeOK' /\ [Next]_vars => OrphanInv'
  <2> SUFFICES ASSUME OrphanInv, TypeOK', [Next]_vars PROVE OrphanInv'
    OBVIOUS
  <2>1. CASE Next
    <3>1. Undisturbed' => Undisturbed
      BY <2>1, StaysDisturbed DEF OrphanInv
    <3>2. ASSUME NEW r \in Runners, LoadPlan(r) PROVE OrphanInv'
      BY <3>1, <3>2, OrphanLoad
    <3>3. ASSUME NEW r \in Runners, RunStep(r) PROVE OrphanInv'
      BY <3>1, <3>3, OrphanRunStep
    <3>4. ASSUME NEW r \in Runners, Crash(r) PROVE OrphanInv'
      BY <3>1, <3>4, OrphanCrash
    <3>5. ASSUME NEW c \in Clients, LoadCancel(c) \/ LoadDecide(c) \/ SaveCall(c)
          PROVE OrphanInv'
      BY <3>1, <3>5, OrphanClient
    <3> QED BY <2>1, <3>2, <3>3, <3>4, <3>5 DEF Next
  <2>2. CASE UNCHANGED vars
    <3>1. /\ disk' = disk /\ mem' = mem /\ pc' = pc /\ wave' = wave /\ client' = client
          /\ spent' = spent
      BY <2>2 DEF vars
    <3> QED BY <3>1 DEF OrphanInv, NoLiveRun, NoLiveCall, Live, Executing, Undisturbed
  <2> QED BY <2>1, <2>2
<1>3. OrphanInv => NoOrphanedStep
  BY DEF OrphanInv, NoOrphanedStep, OpenSteps, AnyStep
<1> QED BY <1>1, <1>2, <1>3, TypeCorrect, PTL DEF Spec
====
