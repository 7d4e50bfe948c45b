---- MODULE WaveProofs ----
(***************************************************************************)
(* Theorems about a multi-agent run for any roles and dependencies, any    *)
(* number of workers and every plan mode: what roles work on, what a       *)
(* report says, what a spend limit stops, and that the mirrored plan keeps *)
(* its contract.                                                           *)
(***************************************************************************)
EXTENDS WaveProperties, WellFoundedInduction, TLAPS

-----------------------------------------------------------------------------
(* The plan document and the first of several steps *)

\* recompute_plan_status yields one of the plan statuses.
LEMMA PlanStatusType ==
    ASSUME NEW p \in Plan PROVE PlanStatusOf(p) \in PlanStatus
BY DEF PlanStatusOf, PlanStatus

\* Recomputing changes the plan status only.
LEMMA RecomputeType ==
    ASSUME NEW p \in Plan
    PROVE /\ RecomputePlanStatus(p) \in Plan
          /\ RecomputePlanStatus(p).step = p.step
          /\ RecomputePlanStatus(p).log = p.log
BY PlanStatusType DEF RecomputePlanStatus, Plan

\* A transition of the steps in T changes their statuses and nothing else but
\* the plan status.
LEMMA SetStepsType ==
    ASSUME NEW p \in Plan, NEW T, NEW to \in StepStatus
    PROVE /\ SetSteps(p, T, to) \in Plan
          /\ SetSteps(p, T, to).step =
                [s \in Steps |-> IF s \in T THEN to ELSE p.step[s]]
          /\ SetSteps(p, T, to).log = p.log
<1> DEFINE q == [p EXCEPT !.step =
                    [s \in Steps |-> IF s \in T THEN to ELSE @[s]]]
<1>1. /\ q \in Plan
      /\ q.step = [s \in Steps |-> IF s \in T THEN to ELSE p.step[s]]
      /\ q.log = p.log
  BY DEF Plan
<1>2. SetSteps(p, T, to) = RecomputePlanStatus(q)
  BY DEF SetSteps
<1> QED BY <1>1, <1>2, RecomputeType

LEMMA InitialPlanType == InitialPlan \in Plan
BY InitialStatusAssumption DEF InitialPlan, Plan, PlanStatus, StepStatus, Verdict

\* Positions are natural numbers, so a nonempty set of steps has a first one.
LEMMA FirstInSet ==
    ASSUME NEW S \in SUBSET Steps, S # {}
    PROVE First(S) \in S /\ \A t \in S : Pos[First(S)] <= Pos[t]
<1> DEFINE P == {Pos[s] : s \in S}
<1>1. P \subseteq Nat /\ P # {}
  BY OrderAssumption
<1> DEFINE Less == {ss \in Nat \X Nat : ss[1] < ss[2]}
<1>a. IsWellFoundedOn(Less, Nat)
  BY NatLessThanWellFounded DEF OpToRel
<1>2. PICK x \in P : \A y \in P : ~(<<y, x>> \in Less)
  <2> HIDE DEF P, Less
  <2> QED BY <1>1, <1>a, WFMin
<1>3. \A y \in P : x <= y
  <2> SUFFICES ASSUME NEW y \in P PROVE x <= y
    OBVIOUS
  <2>1. x \in Nat /\ y \in Nat
    BY <1>1
  <2>2. ~(y < x)
    BY <1>2, <2>1
  <2> HIDE DEF P
  <2> QED BY <2>1, <2>2
<1>4. PICK s \in S : Pos[s] = x
  OBVIOUS
<1>5. \A t \in S : Pos[s] <= Pos[t]
  BY <1>3, <1>4
<1> QED BY <1>5 DEF First


-----------------------------------------------------------------------------
(* The invariant *)

\* Waves follow the dependencies: whatever a placed role needs has ended in an
\* earlier wave.
OrderInv ==
    /\ wave \subseteq placed
    /\ \A r \in todo : done[r].end = "open"
    /\ \A r \in Steps \ placed : done[r].end \in {"open", "dropped"}
    /\ \A r \in placed \ wave : Ended(r)
    /\ \A r \in placed : Deps[r] \subseteq placed \ wave
    /\ \A r \in Steps : done[r].end = "dropped" => stopped
    /\ outcome \notin {"running", "raised"} => \A r \in Steps : Ended(r)

\* The end e of role r and its step in the plan p tell the same.
Agrees(r, e, p) ==
    /\ e.end # "ran" => ~e.ok
    /\ Gated => /\ e.end \in {"open", "skipped", "blocked", "dropped"} => p.step[r] = "pending"
                /\ e.end = "working" => p.step[r] = "running"
                /\ e.end = "ran" => /\ p.step[r] \in {"verified", "failed"}
                                    /\ e.ok => p.step[r] = "verified"
    /\ gates = "active" /\ p.step[r] = "verified" /\ Acceptance[r] = "checks" =>
          p.log[r] = "pass" /\ (Proven(r) => e.ok)

HasInput(r) ==
    /\ Gated => \A d \in Deps[r] : plan.step[d] = "verified"
    /\ ~Gated /\ Deps[r] # {} =>
          \E d \in Deps[r] : Ended(d) /\ (done[d].ok \/ (Mode[r] = "executor" /\ done[d].code))

\* Chat roles are answered, and one that was told of the spend limit is in the
\* wave, and stops the run when its result is taken in.
Told(r) ==
    /\ reply[r] # "none" => r \notin handed
    /\ reply[r] = "spend" => /\ r \in wave
                             /\ done[r].end \in {"working", "ran"}
                             /\ done[r].end = "ran" => stopped

WaveInv ==
    /\ TypeOK
    /\ OrderInv
    /\ plan.status # "aborted"
    /\ \A r \in Steps : Agrees(r, done[r], plan)
    /\ \A r \in Steps : Started(r) => HasInput(r)
    /\ FailureIsCounted
    /\ \A r \in Steps : Told(r)
    /\ CompletedMeansAll

-----------------------------------------------------------------------------
(* Operators *)

\* A plan that is not aborted does not become so.
LEMMA NotAborted ==
    ASSUME NEW p \in Plan, p.status # "aborted", NEW T, NEW to \in StepStatus
    PROVE /\ SetSteps(p, T, to).status # "aborted"
          /\ RecomputePlanStatus(p).status # "aborted"
<1>1. ASSUME NEW q \in Plan, q.status # "aborted"
      PROVE RecomputePlanStatus(q).status # "aborted"
  <2>1. PlanStatusOf(q) # "aborted"
    BY <1>1 DEF PlanStatusOf
  <2> QED BY <2>1 DEF RecomputePlanStatus, Plan
<1>2. [p EXCEPT !.step = [s \in Steps |-> IF s \in T THEN to ELSE @[s]]] \in Plan
  BY DEF Plan
<1>3. [p EXCEPT !.step = [s \in Steps |-> IF s \in T THEN to ELSE @[s]]].status = p.status
  BY DEF Plan
<1> QED BY <1>1, <1>2, <1>3 DEF SetSteps

\* Steps to a new status.
LEMMA SetStatus ==
    ASSUME NEW p \in Plan, p.status # "aborted", NEW T, NEW to \in StepStatus
    PROVE /\ SetSteps(p, T, to) \in Plan
          /\ SetSteps(p, T, to).status # "aborted"
          /\ SetSteps(p, T, to).log = p.log
          /\ \A s \in Steps : SetSteps(p, T, to).step[s] = IF s \in T THEN to ELSE p.step[s]
<1>1. /\ SetSteps(p, T, to) \in Plan /\ SetSteps(p, T, to).log = p.log
      /\ SetSteps(p, T, to).step = [s \in Steps |-> IF s \in T THEN to ELSE p.step[s]]
  BY SetStepsType
<1>2. SetSteps(p, T, to).status # "aborted"
  BY NotAborted
<1>3. \A s \in Steps : SetSteps(p, T, to).step[s] = IF s \in T THEN to ELSE p.step[s]
  BY <1>1
<1> QED BY <1>1, <1>2, <1>3

LEMMA FinishStepType ==
    ASSUME NEW p \in Plan, p.status # "aborted", NEW r \in Steps,
           NEW success \in BOOLEAN, NEW passed \in BOOLEAN
    PROVE LET q == FinishStep(p, r, success, passed)
          IN /\ q \in Plan /\ q.status # "aborted"
             /\ q.step[r] \in {"verified", "failed"}
             /\ \A s \in Steps \ {r} : q.step[s] = p.step[s] /\ q.log[s] = p.log[s]
             /\ q.step[r] = "verified" /\ Acceptance[r] = "checks" =>
                   success /\ (gates # "shadow" => passed /\ q.log[r] = "pass")
<1> DEFINE verdict == IF passed THEN "pass" ELSE "fail"
           checked == [p EXCEPT !.log[r] = verdict]
           to == IF passed \/ gates = "shadow" THEN "verified" ELSE "failed"
<1>s. "verified" \in StepStatus /\ "failed" \in StepStatus /\ to \in StepStatus
  BY DEF StepStatus
<1>1. /\ checked \in Plan /\ checked.status = p.status /\ checked.step = p.step
      /\ checked.log[r] = verdict
      /\ \A s \in Steps \ {r} : checked.log[s] = p.log[s]
  BY DEF Plan, Verdict
<1>2. CASE ~success
  <2> DEFINE q == SetSteps(p, {r}, "failed")
  <2>1. FinishStep(p, r, success, passed) = q
    BY <1>2 DEF FinishStep
  <2>2. /\ q \in Plan /\ q.status # "aborted" /\ q.log = p.log /\ q.step[r] = "failed"
        /\ \A s \in Steps \ {r} : q.step[s] = p.step[s]
    <3> HIDE DEF checked, to, verdict
    <3> QED BY <1>s, SetStatus
  <2> HIDE DEF q
  <2> QED BY <2>1, <2>2
<1>3. CASE success /\ Acceptance[r] = "none"
  <2> DEFINE q == SetSteps(p, {r}, "verified")
  <2>1. FinishStep(p, r, success, passed) = q
    BY <1>3 DEF FinishStep
  <2>2. /\ q \in Plan /\ q.status # "aborted" /\ q.log = p.log /\ q.step[r] = "verified"
        /\ \A s \in Steps \ {r} : q.step[s] = p.step[s]
    <3> HIDE DEF checked, to, verdict
    <3> QED BY <1>s, SetStatus
  <2> HIDE DEF q
  <2> QED BY <1>3, <2>1, <2>2
<1>4. CASE success /\ Acceptance[r] = "checks"
  <2> DEFINE q == SetSteps(checked, {r}, to)
  <2>1. FinishStep(p, r, success, passed) = q
    BY <1>4 DEF FinishStep
  <2>2. /\ q \in Plan /\ q.status # "aborted" /\ q.log = checked.log
        /\ q.step[r] = to
        /\ \A s \in Steps \ {r} : q.step[s] = checked.step[s]
    <3> HIDE DEF checked, to, verdict
    <3> QED BY <1>1, <1>s, SetStatus
  <2> HIDE DEF q, checked
  <2> QED BY <1>1, <1>4, <2>1, <2>2
<1>5. Acceptance[r] \in {"none", "checks"}
  BY FreshPlanAssumption
<1> QED BY <1>2, <1>3, <1>4, <1>5

\* A step with checks is only verified behind a success, and outside shadow mode
\* behind a pass.
LEMMA FinishVerified ==
    ASSUME NEW p \in Plan, p.status # "aborted", NEW r \in Steps, Acceptance[r] = "checks",
           NEW success \in BOOLEAN, NEW passed \in BOOLEAN,
           NEW q, q = FinishStep(p, r, success, passed), q.step[r] = "verified"
    PROVE success /\ (gates # "shadow" => passed /\ q.log[r] = "pass")
BY FinishStepType, Zenon

\* The next wave is a set of new roles whose dependencies are all placed.
LEMMA NextWaveType ==
    ASSUME placed \subseteq Steps, placed # Steps
    PROVE /\ NextWave \subseteq Steps \ placed
          /\ \A r \in NextWave : Deps[r] \subseteq placed
<1>1. CASE Workers > 1
  BY <1>1 DEF NextWave
<1>2. CASE ~(Workers > 1)
  <2> DEFINE r == First(Steps \ placed)
  <2>1. r \in Steps \ placed /\ \A t \in Steps \ placed : Pos[r] <= Pos[t]
    BY FirstInSet
  <2>2. NextWave = {r}
    BY <1>2 DEF NextWave
  <2>3. ASSUME NEW d \in Deps[r] PROVE d \in placed
    <3> HIDE DEF r
    <3>1. d \in Steps /\ Pos[d] < Pos[r] /\ Pos[r] \in Nat /\ Pos[d] \in Nat
      BY <2>1, <2>3, DepsAssumption, OrderAssumption
    <3> QED BY <2>1, <3>1
  <2> QED BY <2>1, <2>2, <2>3
<1> QED BY <1>1, <1>2

-----------------------------------------------------------------------------
(* One role of the current wave takes a step *)

\* What a role worked on stays as it was while another role goes on.
LEMMA InputStays ==
    ASSUME WaveInv, NEW r \in Steps, ~Ended(r), NEW e \in Ends,
           done' = [done EXCEPT ![r] = e], gates' = gates,
           \A s \in Steps \ {r} : plan'.step[s] = plan.step[s],
           NEW s \in Steps, HasInput(s)
    PROVE HasInput(s)'
<1>1. Deps[s] \subseteq Steps
  BY DepsAssumption
<1>2. \A d \in Steps \ {r} : done'[d] = done[d]
  BY DEF WaveInv, TypeOK
<1>3. Gated => plan.step[r] # "verified"
  <2>1. done[r].end \in {"open", "working"} /\ Agrees(r, done[r], plan)
    BY DEF WaveInv, Ended
  <2> QED BY <2>1 DEF Agrees
<1>4. \A d \in Steps : Ended(d) => d # r
  OBVIOUS
<1>5. CASE Gated
  <2>1. \A d \in Deps[s] : plan'.step[d] = "verified"
    BY <1>1, <1>3, <1>5 DEF HasInput
  <2> QED BY <1>5, <2>1 DEF HasInput, Gated
<1>6. CASE ~Gated
  <2>1. CASE Deps[s] = {}
    BY <1>6, <2>1 DEF HasInput, Gated
  <2>2. CASE Deps[s] # {}
    <3>1. PICK d \in Deps[s] : Ended(d) /\ (done[d].ok \/ (Mode[s] = "executor" /\ done[d].code))
      BY <1>6, <2>2 DEF HasInput
    <3>2. d \in Steps /\ done'[d] = done[d]
      BY <1>1, <1>2, <1>4, <3>1
    <3>3. Ended(d)' /\ (done'[d].ok \/ (Mode[s] = "executor" /\ done'[d].code))
      BY <3>1, <3>2 DEF Ended
    <3> QED BY <1>6, <3>3 DEF HasInput, Gated
  <2> QED BY <2>1, <2>2
<1> QED BY <1>5, <1>6

\* The invariant survives whatever a role that has not ended goes over to, as
\* long as the role, its step, its reply and its reasons fit together.
LEMMA RoleStep ==
    ASSUME WaveInv, NEW r \in wave, ~Ended(r),
           NEW e \in Ends, e.end \notin {"open", "dropped"},
           done' = [done EXCEPT ![r] = e],
           plan' \in Plan, plan'.status # "aborted",
           \A s \in Steps \ {r} : plan'.step[s] = plan.step[s] /\ plan'.log[s] = plan.log[s],
           todo' \subseteq todo \ {r},
           gates' = gates, handed' = handed, wave' = wave, placed' = placed, reply' = reply, outcome' = outcome,
           stopped' \in BOOLEAN, stopped => stopped',
           Agrees(r, e, plan'),
           e.end \in {"working", "ran"} => HasInput(r),
           e.end \in {"skipped", "blocked"} => \E d \in Steps : Unlucky(d),
           reply[r] = "spend" => /\ e.end \in {"working", "ran"}
                                 /\ e.end = "ran" => stopped'
    PROVE WaveInv'
<1>1. r \in Steps /\ r \in placed /\ r \notin todo'
  BY DEF WaveInv, TypeOK, OrderInv
<1>2. done'[r] = e /\ \A s \in Steps \ {r} : done'[s] = done[s]
  BY <1>1 DEF WaveInv, TypeOK
<1>3. TypeOK'
  BY <1>1 DEF WaveInv, TypeOK
<1>4. outcome \in {"running", "raised"} /\ outcome' = outcome
  BY <1>1 DEF WaveInv, OrderInv
<1>5. OrderInv'
  <2>1. wave' \subseteq placed'
    BY DEF WaveInv, OrderInv
  <2>2. \A s \in todo' : done'[s].end = "open"
    BY <1>1, <1>2, <1>3 DEF WaveInv, OrderInv, TypeOK
  <2>3. \A s \in Steps \ placed' : done'[s].end \in {"open", "dropped"}
    BY <1>1, <1>2 DEF WaveInv, OrderInv
  <2>4. \A s \in placed' \ wave' : Ended(s)'
    BY <1>1, <1>2 DEF WaveInv, OrderInv, Ended, TypeOK
  <2>5. \A s \in placed' : Deps[s] \subseteq placed' \ wave'
    BY DEF WaveInv, OrderInv
  <2>6. \A s \in Steps : done'[s].end = "dropped" => stopped'
    BY <1>2 DEF WaveInv, OrderInv
  <2> QED BY <1>4, <2>1, <2>2, <2>3, <2>4, <2>5, <2>6 DEF OrderInv
<1>6. \A s \in Steps : Agrees(s, done[s], plan)'
  <2>1. Agrees(r, done[r], plan)'
    BY <1>2 DEF Agrees, Proven, Gated
  <2>2. ASSUME NEW s \in Steps \ {r} PROVE Agrees(s, done[s], plan)'
    <3>1. done'[s] = done[s] /\ plan'.step[s] = plan.step[s] /\ plan'.log[s] = plan.log[s]
      BY <1>2
    <3>2. Agrees(s, done[s], plan)
      BY DEF WaveInv
    <3> QED BY <3>1, <3>2 DEF Agrees, Proven, Gated
  <2> QED BY <2>1, <2>2
<1>7. ASSUME NEW s \in Steps, Started(s)' PROVE HasInput(s)'
  <2>1. HasInput(s)
    BY <1>2, <1>7 DEF WaveInv, Started
  <2> QED BY <1>1, <2>1, InputStays
<1>8. FailureIsCounted'
  <2> SUFFICES ASSUME NEW s \in Steps, done'[s].end \in {"skipped", "blocked"}
               PROVE \E d \in Steps : Unlucky(d)'
    BY DEF FailureIsCounted
  <2>1. PICK d \in Steps : Unlucky(d)
    BY <1>2 DEF WaveInv, FailureIsCounted
  <2>2. d # r
    BY <2>1 DEF Unlucky, Ended
  <2> QED BY <1>2, <2>1, <2>2 DEF Unlucky
<1>9. \A s \in Steps : Told(s)'
  BY <1>2 DEF WaveInv, Told
<1> QED BY <1>3, <1>4, <1>5, <1>6, <1>7, <1>8, <1>9 DEF WaveInv, CompletedMeansAll

\* The end of a role's work, behind the executor or when its reply is taken in.
LEMMA FinishKeeps ==
    ASSUME WaveInv, NEW r \in wave, Working(r),
           NEW ok \in BOOLEAN, NEW code \in BOOLEAN,
           NEW success \in BOOLEAN, NEW passed \in BOOLEAN,
           Proven(r) /\ success /\ passed => ok,
           Finish(r, ok, code, success, passed),
           UNCHANGED <<gates, handed, wave, placed, todo, reply, outcome>>,
           stopped' \in BOOLEAN, stopped => stopped', reply[r] = "spend" => stopped'
    PROVE WaveInv'
<1> DEFINE p == IF Gated THEN FinishStep(plan, r, success, passed) ELSE plan
           o == IF Gated THEN RoleOk(p, r, ok) ELSE ok
           e == [end |-> "ran", ok |-> o, code |-> code]
<1>1. r \in Steps /\ ~Ended(r) /\ done[r].end = "working" /\ Started(r)
      /\ plan \in Plan /\ plan.status # "aborted"
  BY DEF WaveInv, TypeOK, Working, Ended, Started
<1>2. plan' = p /\ done' = [done EXCEPT ![r] = e]
  BY DEF Finish
<1>3. /\ p \in Plan /\ p.status # "aborted"
      /\ \A s \in Steps \ {r} : p.step[s] = plan.step[s] /\ p.log[s] = plan.log[s]
      /\ Gated => /\ p.step[r] \in {"verified", "failed"}
                  /\ p.step[r] = "verified" /\ Acceptance[r] = "checks" =>
                        success /\ (gates # "shadow" => passed /\ p.log[r] = "pass")
  <2>1. CASE Gated
    <3>1. p = FinishStep(plan, r, success, passed)
      BY <2>1
    <3> HIDE DEF p, o, e
    <3> DEFINE q == FinishStep(plan, r, success, passed)
    <3>2. q \in Plan /\ q.status # "aborted" /\ q.step[r] \in {"verified", "failed"}
      BY <1>1, FinishStepType
    <3>3. \A s \in Steps \ {r} : q.step[s] = plan.step[s] /\ q.log[s] = plan.log[s]
      BY <1>1, FinishStepType
    <3>4. q.step[r] = "verified" /\ Acceptance[r] = "checks" =>
                   success /\ (gates # "shadow" => passed /\ q.log[r] = "pass")
      BY <1>1, FinishVerified, Zenon
    <3>5. p = q
      BY <3>1
    <3> HIDE DEF q
    <3> QED BY <3>5, <3>2, <3>3, <3>4, Zenon
  <2>2. CASE ~Gated
    BY <1>1, <2>2 DEF WaveInv
  <2> QED BY <2>1, <2>2
<1> HIDE DEF p
<1>4. o \in BOOLEAN /\ (Gated /\ o => p.step[r] # "failed")
      /\ (gates # "shadow" /\ p.step[r] # "failed" => o = ok)
  BY DEF RoleOk
<1> HIDE DEF o
<1>5. e \in Ends /\ e.end = "ran" /\ e.ok = o
  BY <1>4 DEF Ends
<1> HIDE DEF e
<1>6. Agrees(r, e, p)
  <2>1. gates = "active" => Gated
    BY DEF Gated
  <2>2. gates = "active" /\ p.step[r] = "verified" /\ Acceptance[r] = "checks" =>
          p.log[r] = "pass" /\ (Proven(r) => e.ok)
    BY <1>3, <1>4, <1>5, <2>1
  <2> QED BY <1>3, <1>4, <1>5, <2>2 DEF Agrees
<1>7. HasInput(r)
  BY <1>1 DEF WaveInv
<1>8. r \notin todo
  BY <1>1 DEF WaveInv, OrderInv
<1> QED
  BY <1>1, <1>2, <1>3, <1>5, <1>6, <1>7, <1>8, RoleStep

-----------------------------------------------------------------------------
(* Every step keeps the invariant *)

LEMMA InitKeeps == Init => WaveInv
<1> SUFFICES ASSUME Init PROVE WaveInv
  OBVIOUS
<1>1. TypeOK
  BY InitialPlanType, GatesAssumption DEF Init, TypeOK, WithEnd, Ends, ExecutorRoles
<1>2. \A r \in Steps : done[r].end = "open" /\ ~done[r].ok /\ plan.step[r] = "pending"
  BY FreshPlanAssumption DEF Init, WithEnd, InitialPlan
<1>3. plan.status # "aborted" /\ outcome = "running" /\ placed = {} /\ wave = {} /\ todo = {}
      /\ \A r \in Steps : reply[r] = "none"
  BY DEF Init, InitialPlan
<1>4. \A r \in Steps : Agrees(r, done[r], plan)
  BY <1>2 DEF Agrees
<1> QED
  BY <1>1, <1>2, <1>3, <1>4
     DEF WaveInv, OrderInv, Started, FailureIsCounted, Told, CompletedMeansAll

LEMMA StartWaveKeeps ==
    ASSUME WaveInv, StartWave PROVE WaveInv'
<1>1. /\ placed \subseteq Steps /\ placed # Steps /\ ~stopped
      /\ wave \subseteq placed
  BY DEF WaveInv, TypeOK, OrderInv, StartWave
<1>o. outcome \in {"running", "raised"}
  <2>1. PICK r \in Steps : r \notin placed
    BY <1>1
  <2>2. ~Ended(r)
    BY <1>1, <2>1 DEF WaveInv, OrderInv, Ended
  <2> QED BY <2>2 DEF WaveInv, OrderInv, TypeOK
<1>2. NextWave \subseteq Steps \ placed /\ \A r \in NextWave : Deps[r] \subseteq placed
  BY <1>1, NextWaveType
<1>3. /\ wave' = NextWave /\ todo' = NextWave /\ placed' = placed \cup NextWave
      /\ UNCHANGED <<gates, handed, plan, reply, done, stopped, outcome>>
  BY DEF StartWave
<1>4. \A r \in placed : Ended(r)
  BY DEF WaveInv, OrderInv, StartWave
<1>5. TypeOK'
  BY <1>1, <1>2, <1>3 DEF WaveInv, TypeOK
<1>6. OrderInv'
  <2>1. \A r \in Steps \ placed : done[r].end = "open"
    BY <1>1 DEF WaveInv, OrderInv
  <2> QED
    BY <1>1, <1>o, <1>2, <1>3, <1>4, <2>1 DEF WaveInv, OrderInv, Ended
<1>7. \A r \in Steps : Agrees(r, done[r], plan)'
  BY <1>3 DEF WaveInv, Agrees, Proven, Gated
<1>8. \A r \in Steps : Started(r)' => HasInput(r)'
  BY <1>3 DEF WaveInv, Started, HasInput, Gated, Ended
<1>9. \A r \in Steps : Told(r)'
  BY <1>1, <1>3 DEF WaveInv, Told, StartWave, Ended
<1> QED BY <1>1, <1>o, <1>3, <1>5, <1>6, <1>7, <1>8, <1>9
           DEF WaveInv, FailureIsCounted, Unlucky, CompletedMeansAll

\* The role that is prepared.
LEMMA PreparedRole ==
    ASSUME WaveInv, NEW r, Preparing(r)
    PROVE /\ r \in wave /\ r \in Steps /\ done[r].end = "open" /\ ~done[r].ok
          /\ Gated => plan.step[r] = "pending"
          /\ reply[r] # "spend"
          /\ \A d \in Deps[r] : d \in Steps /\ Ended(d)
<1>1. todo # {} /\ r = First(todo) /\ todo \subseteq wave /\ wave \subseteq Steps
      /\ wave \subseteq placed
  BY DEF Preparing, WaveInv, TypeOK, OrderInv
<1>2. r \in todo
  BY <1>1, FirstInSet
<1>3. r \in wave /\ r \in Steps /\ r \in placed /\ done[r].end = "open"
  BY <1>1, <1>2 DEF WaveInv, OrderInv
<1>4. Agrees(r, done[r], plan) /\ Told(r)
  BY <1>3 DEF WaveInv
<1>5. \A d \in Deps[r] : d \in Steps /\ Ended(d)
  BY <1>3, DepsAssumption DEF WaveInv, OrderInv
<1> QED BY <1>3, <1>4, <1>5 DEF Agrees, Told

\* A failed prior role means that some role has failed that counts.
LEMMA FailureBehind ==
    ASSUME WaveInv, NEW d \in Steps, Ended(d), ~done[d].ok
    PROVE \E u \in Steps : Unlucky(u)
<1>1. done[d].end \in {"ran", "skipped", "blocked", "dropped"}
  BY DEF WaveInv, TypeOK, Ends, Ended
<1>2. CASE done[d].end \in {"ran", "dropped"}
  BY <1>2 DEF Unlucky
<1>3. CASE done[d].end \in {"skipped", "blocked"}
  BY <1>3 DEF WaveInv, FailureIsCounted
<1> QED BY <1>1, <1>2, <1>3

LEMMA SkipKeeps ==
    ASSUME WaveInv, NEW r \in Steps, Skip(r) PROVE WaveInv'
<1> DEFINE e == WithEnd("skipped")
<1>1. Preparing(r) /\ Cascades(r) /\ done' = [done EXCEPT ![r] = e] /\ plan' = plan
  BY DEF Skip
<1>2. e \in Ends /\ e.end = "skipped" /\ ~e.ok
  BY DEF WithEnd, Ends
<1> HIDE DEF e
<1>3. \E u \in Steps : Unlucky(u)
  <2>1. PICK d \in Deps[r] : Ended(d) /\ ~done[d].ok
    BY <1>1 DEF Cascades, Failed
  <2> QED BY <1>1, <2>1, PreparedRole, FailureBehind
<1>4. Agrees(r, e, plan')
  BY <1>1, <1>2, PreparedRole DEF Agrees, Gated
<1>5. todo' = todo \ {r} /\ UNCHANGED <<gates, handed, wave, placed, reply, stopped, outcome>>
  BY <1>1 DEF Preparing
<1>6. plan \in Plan /\ plan.status # "aborted" /\ stopped \in BOOLEAN
  BY DEF WaveInv, TypeOK
<1>7. r \in wave /\ ~Ended(r) /\ reply[r] # "spend"
  BY <1>1, PreparedRole DEF Ended
<1> QED BY <1>1, <1>2, <1>3, <1>4, <1>5, <1>6, <1>7, RoleStep

LEMMA BlockKeeps ==
    ASSUME WaveInv, NEW r \in Steps, Block(r) PROVE WaveInv'
<1> DEFINE e == WithEnd("blocked")
<1>1. /\ Preparing(r) /\ Gated /\ ~CanStart(plan, r)
      /\ done' = [done EXCEPT ![r] = e] /\ plan' = plan
  BY DEF Block
<1>2. e \in Ends /\ e.end = "blocked" /\ ~e.ok
  BY DEF WithEnd, Ends
<1> HIDE DEF e
<1>3. \E u \in Steps : Unlucky(u)
  <2>1. PICK d \in Deps[r] : plan.step[d] # "verified"
    BY <1>1, PreparedRole DEF CanStart, UnmetDeps
  <2>2. d \in Steps /\ Ended(d) /\ Agrees(d, done[d], plan)
    BY <1>1, PreparedRole DEF WaveInv
  <2>3. ~done[d].ok
    BY <1>1, <2>1, <2>2 DEF Agrees
  <2> QED BY <2>2, <2>3, FailureBehind
<1>4. Agrees(r, e, plan')
  BY <1>1, <1>2, PreparedRole DEF Agrees, Gated
<1>5. todo' = todo \ {r} /\ UNCHANGED <<gates, handed, wave, placed, reply, stopped, outcome>>
  BY <1>1 DEF Preparing
<1>6. plan \in Plan /\ plan.status # "aborted" /\ stopped \in BOOLEAN
  BY DEF WaveInv, TypeOK
<1>7. r \in wave /\ ~Ended(r) /\ reply[r] # "spend"
  BY <1>1, PreparedRole DEF Ended
<1> QED BY <1>1, <1>2, <1>3, <1>4, <1>5, <1>6, <1>7, RoleStep

LEMMA AcceptKeeps ==
    ASSUME WaveInv, NEW r \in Steps, Accept(r) PROVE WaveInv'
<1> DEFINE e == [done[r] EXCEPT !.end = "working"]
           p == IF Gated THEN SetSteps(plan, {r}, "running") ELSE plan
<1>1. /\ Preparing(r) /\ ~Cascades(r) /\ (Gated => CanStart(plan, r))
      /\ done' = [done EXCEPT ![r] = e] /\ plan' = p
  BY DEF Accept
<1>2. e \in Ends /\ e.end = "working" /\ ~e.ok
  BY PreparedRole, <1>1 DEF WaveInv, TypeOK, Ends
<1>3. plan \in Plan /\ plan.status # "aborted" /\ stopped \in BOOLEAN
  BY DEF WaveInv, TypeOK
<1>4. /\ p \in Plan /\ p.status # "aborted" /\ p.log = plan.log
      /\ \A s \in Steps \ {r} : p.step[s] = plan.step[s]
      /\ Gated => p.step[r] = "running"
  <2>1. "running" \in StepStatus
    BY DEF StepStatus
  <2>2. CASE Gated
    BY <1>3, <2>1, <2>2, SetStatus
  <2>3. CASE ~Gated
    BY <1>3, <2>3
  <2> QED BY <2>2, <2>3
<1> HIDE DEF e, p
<1>5. Agrees(r, e, plan')
  BY <1>1, <1>2, <1>4 DEF Agrees, Gated
<1>6. HasInput(r)
  <2>1. Gated => \A d \in Deps[r] : plan.step[d] = "verified"
    BY <1>1 DEF CanStart, UnmetDeps
  <2>2. ASSUME ~Gated, Deps[r] # {}
        PROVE \E d \in Deps[r] : Ended(d) /\ (done[d].ok \/ (Mode[r] = "executor" /\ done[d].code))
    <3>1. \A d \in Deps[r] : Ended(d)
      BY <1>1, PreparedRole
    <3>2. CASE Failed(r) = {}
      BY <2>2, <3>1, <3>2 DEF Failed
    <3>3. CASE Failed(r) # {} /\ Mode[r] = "executor"
      BY <1>1, <3>3 DEF Cascades, HasCode
    <3>4. CASE Failed(r) # {} /\ Mode[r] = "chat"
      BY <1>1, <3>4 DEF Cascades, Succeeded
    <3> QED BY <3>2, <3>3, <3>4, FreshPlanAssumption
  <2> QED BY <2>1, <2>2 DEF HasInput
<1>7. todo' = todo \ {r} /\ UNCHANGED <<gates, handed, wave, placed, reply, stopped, outcome>>
  BY <1>1 DEF Preparing
<1>8. r \in wave /\ ~Ended(r) /\ reply[r] # "spend"
  BY <1>1, PreparedRole DEF Ended
<1> QED BY <1>1, <1>2, <1>3, <1>4, <1>5, <1>6, <1>7, <1>8, RoleStep

\* A chat role is called or answered.
LEMMA ReplyKeeps ==
    ASSUME WaveInv, NEW r \in wave, Working(r), r \notin handed,
           NEW a \in Replies \cup {"asked"}, reply' = [reply EXCEPT ![r] = a],
           UNCHANGED <<gates, handed, plan, wave, placed, todo, done, stopped, outcome>>
    PROVE WaveInv'
<1>1. TypeOK'
  BY DEF WaveInv, TypeOK
<1>2. OrderInv'
  BY DEF WaveInv, OrderInv, Ended
<1>3. \A s \in Steps : Agrees(s, done[s], plan)'
  BY DEF WaveInv, Agrees, Proven, Gated
<1>4. \A s \in Steps : Started(s)' => HasInput(s)'
  BY DEF WaveInv, Started, HasInput, Gated, Ended
<1>5. ASSUME NEW s \in Steps PROVE Told(s)'
  <2>1. CASE s = r
    BY <2>1 DEF WaveInv, TypeOK, Told, Working
  <2>2. CASE s # r
    BY <2>2 DEF WaveInv, TypeOK, Told
  <2> QED BY <2>1, <2>2
<1> QED BY <1>1, <1>2, <1>3, <1>4, <1>5
           DEF WaveInv, FailureIsCounted, Unlucky, CompletedMeansAll, Gated

LEMMA AskKeeps ==
    ASSUME WaveInv, NEW r \in Steps, Ask(r) PROVE WaveInv'
<1>1. Unasked \subseteq Steps
  BY DEF WaveInv, TypeOK, Unasked, WaveChats
<1>2. r \in Unasked
  BY <1>1, FirstInSet DEF Ask
<1>3. r \in wave /\ Working(r) /\ r \notin handed
  BY <1>2 DEF Unasked, WaveChats
<1>4. /\ reply' = [reply EXCEPT ![r] = "asked"]
      /\ UNCHANGED <<gates, handed, plan, wave, placed, todo, done, stopped, outcome>>
  BY DEF Ask
<1> QED BY <1>3, <1>4, ReplyKeeps

LEMMA AnswerKeeps ==
    ASSUME WaveInv, NEW r \in Steps, Answer(r) PROVE WaveInv'
<1>1. r \in wave /\ Working(r) /\ r \notin handed
  BY DEF Answer, Asked, WaveChats
<1>2. PICK a \in Replies : reply' = [reply EXCEPT ![r] = a]
  BY DEF Answer
<1>3. UNCHANGED <<gates, handed, plan, wave, placed, todo, done, stopped, outcome>>
  BY DEF Answer
<1> QED BY <1>1, <1>2, <1>3, ReplyKeeps

LEMMA ExecuteKeeps ==
    ASSUME WaveInv, NEW r \in Steps, Execute(r) PROVE WaveInv'
<1>1. WaveExecutors \subseteq Steps
  BY DEF WaveInv, TypeOK, WaveExecutors
<1>2. r \in WaveExecutors
  BY <1>1, FirstInSet DEF Execute
<1>3. r \in wave /\ Working(r) /\ r \in handed
  BY <1>2 DEF WaveExecutors
<1>4. PICK success, code, passed \in BOOLEAN :
        LET ok == success /\ (RequiresCode => code)
        IN Finish(r, ok, code, ok, passed)
  BY DEF Execute
<1> DEFINE ok == success /\ (RequiresCode => code)
<1>5. ok \in BOOLEAN /\ Finish(r, ok, code, ok, passed)
  BY <1>4
<1>6. UNCHANGED <<gates, handed, wave, placed, todo, reply, stopped, outcome>>
  BY DEF Execute
<1>7. stopped \in BOOLEAN /\ reply[r] # "spend"
  BY <1>3 DEF WaveInv, TypeOK, Told
<1> HIDE DEF ok
<1> QED BY <1>3, <1>5, <1>6, <1>7, FinishKeeps

LEMMA FinalizeChatKeeps ==
    ASSUME WaveInv, NEW r \in Steps, FinalizeChat(r) PROVE WaveInv'
<1>1. WaveChats \subseteq Steps
  BY DEF WaveInv, TypeOK, WaveChats
<1>2. r \in WaveChats
  BY <1>1, FirstInSet DEF FinalizeChat
<1>3. r \in wave /\ Working(r) /\ r \notin handed
  BY <1>2 DEF WaveChats
<1> DEFINE ok == reply[r] = "content"
           success == reply[r] \in {"content", "empty"}
<1>4. PICK passed \in BOOLEAN : /\ reply[r] = "empty" /\ r \in NeedsOutput => ~passed
                               /\ Finish(r, ok, FALSE, success, passed)
  BY DEF FinalizeChat
<1>5. ok \in BOOLEAN /\ success \in BOOLEAN /\ (Proven(r) /\ success /\ passed => ok)
  BY <1>3, <1>4 DEF Proven
<1>6. UNCHANGED <<gates, handed, wave, placed, todo, reply, outcome>>
  BY DEF FinalizeChat
<1>7. stopped' \in BOOLEAN /\ (stopped => stopped') /\ (reply[r] = "spend" => stopped')
  BY DEF FinalizeChat, StopAfter, WaveInv, TypeOK
<1> HIDE DEF ok, success
<1> QED BY <1>3, <1>4, <1>5, <1>6, <1>7, FinishKeeps

\* An exception that ends the run leaves roles and plan as they are.
LEMMA RaiseKeeps ==
    ASSUME WaveInv, Raise PROVE WaveInv'
BY DEF WaveInv, Raise, TypeOK, OrderInv, Agrees, Proven, Gated, Started, HasInput, Ended,
       FailureIsCounted, Unlucky, Told, CompletedMeansAll

LEMMA StopKeeps ==
    ASSUME WaveInv, Stop PROVE WaveInv'
<1>1. /\ stopped
      /\ done' = [r \in Steps |-> IF Ended(r) THEN done[r] ELSE WithEnd("dropped")]
      /\ UNCHANGED <<gates, handed, plan, wave, placed, todo, reply, stopped, outcome>>
      /\ \A r \in wave : Ended(r)
      /\ \E r \in Steps : ~Ended(r)
  BY DEF Stop
<1>2. \A r \in Steps : Ended(r) => done'[r] = done[r]
  BY <1>1
<1>3. \A r \in Steps : ~Ended(r) => /\ done'[r] = WithEnd("dropped")
                                    /\ done[r].end = "open"
  BY <1>1 DEF WaveInv, OrderInv, Ended
<1>4. WithEnd("dropped") \in Ends /\ WithEnd("dropped").end = "dropped"
      /\ ~WithEnd("dropped").ok
  BY DEF WithEnd, Ends
<1>5. \A r \in Steps : Ended(r)' /\ (Started(r)' => Started(r) /\ done'[r] = done[r])
  BY <1>2, <1>3, <1>4 DEF Ended, Started
<1>6. TypeOK'
  BY <1>1, <1>4 DEF WaveInv, TypeOK
<1>7. OrderInv'
  <2>1. todo = {}
    BY <1>1 DEF WaveInv, OrderInv, TypeOK, Ended
  <2>2. \A r \in Steps \ placed : done'[r].end = "dropped"
    BY <1>2, <1>3, <1>4 DEF WaveInv, OrderInv, Ended
  <2> QED BY <1>1, <1>5, <2>1, <2>2 DEF WaveInv, OrderInv, TypeOK
<1>8. ASSUME NEW r \in Steps PROVE Agrees(r, done[r], plan)'
  <2>1. Agrees(r, done[r], plan)
    BY DEF WaveInv
  <2>2. CASE Ended(r)
    BY <1>1, <1>2, <2>1, <2>2 DEF Agrees, Proven, Gated
  <2>3. CASE ~Ended(r)
    <3>1. done'[r].end = "dropped" /\ ~done'[r].ok /\ done[r].end = "open"
      BY <1>3, <1>4, <2>3
    <3> QED BY <1>1, <2>1, <3>1 DEF Agrees, Gated
  <2> QED BY <2>2, <2>3
<1>9. ASSUME NEW r \in Steps, Started(r)' PROVE HasInput(r)'
  <2>1. HasInput(r)
    BY <1>5, <1>9 DEF WaveInv
  <2>2. Deps[r] \subseteq Steps
    BY DepsAssumption
  <2>3. \A d \in Deps[r] : Ended(d) => Ended(d)' /\ done'[d] = done[d]
    BY <1>2, <1>5, <2>2
  <2> QED BY <1>1, <2>1, <2>3 DEF HasInput, Gated
<1>10. FailureIsCounted'
  <2> SUFFICES ASSUME NEW s \in Steps, done'[s].end \in {"skipped", "blocked"}
               PROVE \E d \in Steps : Unlucky(d)'
    BY DEF FailureIsCounted
  <2>1. Ended(s) /\ done'[s] = done[s]
    BY <1>2, <1>3, <1>4
  <2>2. PICK d \in Steps : Unlucky(d)
    BY <2>1 DEF WaveInv, FailureIsCounted
  <2> QED BY <1>2, <2>2 DEF Unlucky, Ended
<1>11. \A r \in Steps : Told(r)'
  BY <1>1, <1>2 DEF WaveInv, Told, Ended
<1>12. outcome \in {"running", "raised"}
  BY <1>1 DEF WaveInv, OrderInv
<1> QED BY <1>1, <1>6, <1>7, <1>8, <1>9, <1>10, <1>11, <1>12 DEF WaveInv, CompletedMeansAll

\* Behind a report of completion every role ran and is ok.
LEMMA CompletedOutcome ==
    ASSUME WaveInv, \A r \in Steps : Ended(r), Outcome = "completed"
    PROVE /\ \A r \in Steps : done[r].end = "ran" /\ done[r].ok
          /\ Steps # {}
<1> DEFINE active == {r \in Steps : done[r].end \notin {"skipped", "blocked"}}
<1>1. (\E r \in active : done[r].ok) /\ \A r \in active : done[r].ok
  BY DEF Outcome
<1>2. \A r \in Steps : ~Unlucky(r)
  BY <1>1 DEF Unlucky
<1>3. active = Steps
  BY <1>2 DEF WaveInv, FailureIsCounted
<1> QED BY <1>1, <1>3 DEF WaveInv, Agrees

LEMMA ReportKeeps ==
    ASSUME WaveInv, Report PROVE WaveInv'
<1> DEFINE p == IF Gated THEN RecomputePlanStatus(plan) ELSE plan
<1>1. /\ \A r \in Steps : Ended(r)
      /\ outcome' = Outcome /\ plan' = p
      /\ UNCHANGED <<gates, handed, wave, placed, todo, reply, done, stopped>>
  BY DEF Report
<1>2. plan \in Plan /\ plan.status # "aborted"
  BY DEF WaveInv, TypeOK
<1>3. p \in Plan /\ p.status # "aborted" /\ p.step = plan.step /\ p.log = plan.log
  <2>1. "pending" \in StepStatus
    BY DEF StepStatus
  <2> QED BY <1>2, <2>1, RecomputeType, NotAborted
<1>4. Gated => p.status = PlanStatusOf(plan)
  BY <1>2 DEF RecomputePlanStatus, Plan
<1> HIDE DEF p
<1>5. TypeOK'
  BY <1>1, <1>3 DEF WaveInv, TypeOK, Outcome
<1>6. OrderInv'
  BY <1>1 DEF WaveInv, OrderInv, Ended
<1>7. \A r \in Steps : Agrees(r, done[r], plan)'
  BY <1>1, <1>3 DEF WaveInv, Agrees, Proven, Gated
<1>8. \A r \in Steps : Started(r)' => HasInput(r)'
  BY <1>1, <1>3 DEF WaveInv, Started, HasInput, Gated, Ended
<1>9. FailureIsCounted' /\ \A r \in Steps : Told(r)'
  BY <1>1 DEF WaveInv, FailureIsCounted, Unlucky, Told
<1>10. CompletedMeansAll'
  <2> SUFFICES ASSUME Outcome = "completed"
               PROVE /\ \A r \in Steps : done[r].end = "ran" /\ done[r].ok
                     /\ Gated => p.status = "completed"
    BY <1>1 DEF CompletedMeansAll, Gated
  <2>1. (\A r \in Steps : done[r].end = "ran" /\ done[r].ok) /\ Steps # {}
    BY <1>1, CompletedOutcome
  <2>2. ASSUME Gated PROVE PlanStatusOf(plan) = "completed"
    <3>1. \A r \in Steps : plan.step[r] = "verified"
      BY <2>1, <2>2 DEF WaveInv, Agrees
    <3> QED BY <1>2, <2>1, <3>1 DEF PlanStatusOf, AllTerminal, AnyStep, TerminalStatus
  <2> QED BY <1>4, <2>1, <2>2
<1> QED BY <1>1, <1>3, <1>5, <1>6, <1>7, <1>8, <1>9, <1>10 DEF WaveInv

LEMMA StutterKeeps ==
    ASSUME WaveInv, UNCHANGED vars PROVE WaveInv'
BY DEF WaveInv, vars, TypeOK, OrderInv, Agrees, Proven, Gated, Started, HasInput, Ended,
       FailureIsCounted, Unlucky, Told, CompletedMeansAll

LEMMA NextKeeps == WaveInv /\ [Next]_vars => WaveInv'
<1> SUFFICES ASSUME WaveInv, [Next]_vars PROVE WaveInv'
  OBVIOUS
<1>1. CASE StartWave
  BY <1>1, StartWaveKeeps
<1>2. CASE Raise \/ Stop
  BY <1>2, RaiseKeeps, StopKeeps
<1>3. CASE Report
  BY <1>3, ReportKeeps
<1>4. ASSUME NEW r \in Steps, Role(r) PROVE WaveInv'
  BY <1>4, SkipKeeps, BlockKeeps, AcceptKeeps, AskKeeps, AnswerKeeps, ExecuteKeeps,
     FinalizeChatKeeps DEF Role
<1>5. CASE UNCHANGED vars
  BY <1>5, StutterKeeps
<1> QED BY <1>1, <1>2, <1>3, <1>4, <1>5 DEF Next

-----------------------------------------------------------------------------
(* The plan and its contract *)

\* While one step changes its status, and verified only behind verified ones,
\* the plan takes a step of its contract or none.
LEMMA OneStepContract ==
    ASSUME NEW r \in Steps, plan.step[r] # "verified",
           \A s \in Steps \ {r} : plan'.step[s] = plan.step[s],
           plan'.step[r] = "verified" => \A d \in Deps[r] : plan.step[d] = "verified"
    PROVE Contract!Next \/ VerifiedRoles' = VerifiedRoles
<1>1. Deps[r] \subseteq Steps
  BY DepsAssumption
<1>2. CASE plan'.step[r] = "verified"
  <2>1. VerifiedRoles' = VerifiedRoles \cup {r}
    BY <1>2 DEF VerifiedRoles
  <2>2. Deps[r] \subseteq VerifiedRoles /\ {r} \in SUBSET (Steps \ VerifiedRoles)
    BY <1>1, <1>2 DEF VerifiedRoles
  <2>3. Contract!Verify({r})
    BY <2>1, <2>2 DEF Contract!Verify
  <2> QED BY <2>2, <2>3 DEF Contract!Next
<1>3. CASE plan'.step[r] # "verified"
  BY <1>3 DEF VerifiedRoles
<1> QED BY <1>2, <1>3

LEMMA FinishContract ==
    ASSUME WaveInv, NEW r \in Steps, Working(r),
           NEW ok \in BOOLEAN, NEW code \in BOOLEAN,
           NEW success \in BOOLEAN, NEW passed \in BOOLEAN,
           Finish(r, ok, code, success, passed)
    PROVE Contract!Next \/ VerifiedRoles' = VerifiedRoles
<1>1. CASE ~Gated
  BY <1>1 DEF Finish, VerifiedRoles
<1>2. CASE Gated
  <2>1. plan' = FinishStep(plan, r, success, passed)
    BY <1>2 DEF Finish
  <2>2. plan \in Plan /\ plan.status # "aborted" /\ Started(r) /\ Agrees(r, done[r], plan)
    BY DEF WaveInv, TypeOK, Working, Started
  <2>3. \A s \in Steps \ {r} :
          /\ FinishStep(plan, r, success, passed).step[s] = plan.step[s]
          /\ FinishStep(plan, r, success, passed).log[s] = plan.log[s]
    BY <2>2, FinishStepType
  <2>4. plan.step[r] # "verified"
    BY <1>2, <2>2 DEF Agrees, Working
  <2>5. \A d \in Deps[r] : plan.step[d] = "verified"
    BY <1>2, <2>2 DEF WaveInv, HasInput
  <2> QED BY <2>1, <2>3, <2>4, <2>5, OneStepContract
<1> QED BY <1>1, <1>2

LEMMA NextContract ==
    WaveInv /\ [Next]_vars => Contract!Next \/ VerifiedRoles' = VerifiedRoles
<1> SUFFICES ASSUME WaveInv, [Next]_vars
             PROVE Contract!Next \/ VerifiedRoles' = VerifiedRoles
  OBVIOUS
<1>1. ASSUME plan' = plan PROVE VerifiedRoles' = VerifiedRoles
  BY <1>1 DEF VerifiedRoles
<1>2. CASE StartWave \/ Raise \/ Stop \/ UNCHANGED vars
  BY <1>1, <1>2 DEF StartWave, Raise, Stop, vars
<1>3. CASE Report
  BY <1>3, RecomputeType DEF Report, VerifiedRoles, WaveInv, TypeOK
<1>4. ASSUME NEW r \in Steps, Role(r)
      PROVE Contract!Next \/ VerifiedRoles' = VerifiedRoles
  <2>1. CASE Skip(r) \/ Block(r) \/ Ask(r) \/ Answer(r)
    BY <1>1, <2>1 DEF Skip, Block, Ask, Answer
  <2>2. CASE Accept(r)
    <3>1. CASE ~Gated
      BY <1>1, <2>2, <3>1 DEF Accept
    <3>2. CASE Gated
      <4>1. plan' = SetSteps(plan, {r}, "running") /\ Preparing(r)
        BY <2>2, <3>2 DEF Accept
      <4>2. plan \in Plan /\ plan.status # "aborted" /\ "running" \in StepStatus
        BY DEF WaveInv, TypeOK, StepStatus
      <4>3. \A s \in Steps : plan'.step[s] = IF s \in {r} THEN "running" ELSE plan.step[s]
        BY <4>1, <4>2, SetStatus
      <4>4. plan.step[r] # "verified"
        BY <3>2, <4>1, PreparedRole
      <4> QED BY <4>3, <4>4, OneStepContract
    <3> QED BY <3>1, <3>2
  <2>3. CASE Execute(r)
    <3>1. r \in WaveExecutors
      BY <2>3, FirstInSet DEF Execute, WaveExecutors, WaveInv, TypeOK
    <3>2. PICK success, code, passed \in BOOLEAN :
            LET ok == success /\ (RequiresCode => code)
            IN Finish(r, ok, code, ok, passed)
      BY <2>3 DEF Execute
    <3> DEFINE ok == success /\ (RequiresCode => code)
    <3>3. ok \in BOOLEAN /\ Finish(r, ok, code, ok, passed)
      BY <3>2
    <3> HIDE DEF ok
    <3> QED BY <3>1, <3>3, FinishContract DEF WaveExecutors
  <2>4. CASE FinalizeChat(r)
    <3>1. r \in WaveChats
      BY <2>4, FirstInSet DEF FinalizeChat, WaveChats, WaveInv, TypeOK
    <3> DEFINE ok == reply[r] = "content"
               success == reply[r] \in {"content", "empty"}
    <3>2. PICK passed \in BOOLEAN : Finish(r, ok, FALSE, success, passed)
      BY <2>4 DEF FinalizeChat
    <3>3. ok \in BOOLEAN /\ success \in BOOLEAN
      OBVIOUS
    <3> HIDE DEF ok, success
    <3> QED BY <3>1, <3>2, <3>3, FinishContract DEF WaveChats
  <2> QED BY <1>4, <2>1, <2>2, <2>3, <2>4 DEF Role
<1> QED BY <1>2, <1>3, <1>4 DEF Next

-----------------------------------------------------------------------------
(* Theorems *)

\* The invariant above holds throughout a run (run_waves, finalize_outcome).
THEOREM WaveInvHolds == Spec => []WaveInv
<1>1. Init => WaveInv
  BY InitKeeps
<1>2. WaveInv /\ [Next]_vars => WaveInv'
  BY NextKeeps
<1> QED BY <1>1, <1>2, PTL DEF Spec

\* A role that runs has usable results of its prior roles (multiagent_roles
\* .prepare), for any roles, dependencies, gates and number of workers.
THEOREM InputUsableHolds == Spec => []InputUsable
<1>1. WaveInv => InputUsable
  <2> SUFFICES ASSUME WaveInv, NEW r \in Steps, Started(r)
               PROVE /\ gates = "active" =>
                          \A d \in Deps[r] : /\ plan.step[d] = "verified"
                                             /\ Acceptance[d] = "checks" => plan.log[d] = "pass"
                                             /\ Proven(d) => done[d].ok
                     /\ Deps[r] # {} =>
                          \E d \in Deps[r] : /\ Ended(d)
                                             /\ IF Gated THEN plan.step[d] = "verified"
                                                ELSE done[d].ok \/ (Mode[r] = "executor" /\ done[d].code)
    BY DEF InputUsable
  <2>1. HasInput(r) /\ Deps[r] \subseteq Steps
    BY DepsAssumption DEF WaveInv
  <2>2. ASSUME NEW d \in Deps[r], Gated
        PROVE /\ plan.step[d] = "verified" /\ Ended(d)
              /\ gates = "active" /\ Acceptance[d] = "checks" => plan.log[d] = "pass"
              /\ gates = "active" /\ Proven(d) => done[d].ok
    <3>1. d \in Steps /\ plan.step[d] = "verified" /\ Agrees(d, done[d], plan)
      BY <2>1, <2>2 DEF WaveInv, HasInput
    <3>2. Ended(d)
      BY <2>2, <3>1 DEF Agrees, Ended
    <3> QED BY <3>1, <3>2 DEF Agrees, Proven
  <2>3. CASE Gated
    BY <2>2, <2>3
  <2>4. CASE ~Gated
    BY <2>1, <2>4 DEF HasInput, Gated
  <2> QED BY <2>3, <2>4
<1> QED BY <1>1, WaveInvHolds, PTL

\* A run reported as completed had every role run and be ok, and a completed
\* plan if it was gated (evaluate_multiagent_outcome).
THEOREM CompletedMeansAllHolds == Spec => []CompletedMeansAll
<1>1. WaveInv => CompletedMeansAll
  BY DEF WaveInv
<1> QED BY <1>1, WaveInvHolds, PTL

\* Behind a spend limit no role of a later wave begins (run_waves).
THEOREM SpendContainedHolds == Spec => SpendContained
<1>1. WaveInv => \A c, r \in Steps : reply[c] = "spend" /\ Begins(r) => c \in wave
  BY DEF WaveInv, Told
<1> QED BY <1>1, WaveInvHolds, PTL DEF SpendContained

\* The mirrored plan keeps the contract of every stored plan (plan_bridge).
THEOREM ImplementsContractHolds == Spec => ImplementsContract
<1>1. Init => Contract!Init
  BY FreshPlanAssumption DEF Init, InitialPlan, Contract!Init, VerifiedRoles
<1>2. WaveInv /\ [Next]_vars => [Contract!Next]_VerifiedRoles
  BY NextContract
<1> QED BY <1>1, <1>2, WaveInvHolds, PTL DEF Spec, ImplementsContract, Contract!Spec
====
