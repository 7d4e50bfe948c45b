---- MODULE WaveRun ----
(***************************************************************************)
(* A local multi-agent run (src/voly/a2a): the roles are grouped into      *)
(* dependency waves, each wave is prepared role by role, its chat roles    *)
(* are called in parallel, its executors run one after the other, and the  *)
(* chat results are taken in at the end.  A plan mirrors the roles, one    *)
(* step each (PlanEngine), and gates them.                                 *)
(*                                                                         *)
(* The steps of PlanEngine are the roles and Pos is their place in the     *)
(* list of assignments; the run is the only writer of its plan and saves   *)
(* it after every change, so one variable stands for both copies.          *)
(***************************************************************************)
EXTENDS PlanEngine

CONSTANTS
    Gates,        \* plan modes a run may be started with
    Workers,      \* max_parallel_roles, 1 when parallel_waves is off
    RequiresCode, \* the task asks for code (requires_code_gen)
    Implementers, \* roles that count as implementation whatever their mode
    NeedsOutput   \* chat roles whose checks ask for an answer (output_nonempty)

ASSUME GatesAssumption == Gates \subseteq {"off", "shadow", "active"}
ASSUME WorkersAssumption == Workers \in Nat \ {0}
ASSUME RunAssumption == RequiresCode \in BOOLEAN /\ Implementers \subseteq Steps

\* assignments_to_plan makes a fresh document of chat and executor steps whose
\* checks are all evaluated by the run itself.
ASSUME FreshPlanAssumption ==
    \A r \in Steps : /\ InitialStatus[r] = "pending"
                     /\ Mode[r] \in {"chat", "executor"}
                     /\ Acceptance[r] \in {"none", "checks"}

\* default_acceptance_for_role: chat_require_output gives every chat role the
\* check; without it a chat tester may still have its command as only check.
ASSUME OutputAssumption ==
    NeedsOutput \subseteq {r \in Steps : Mode[r] = "chat" /\ Acceptance[r] = "checks"}

VARIABLES
    gates,   \* the plan mode of this run
    handed,  \* the roles the caller's executor_runner is to run
    plan,    \* the mirrored plan
    wave,    \* the current wave
    placed,  \* roles of this wave and of all earlier ones
    todo,    \* roles of the wave still to be prepared
    reply,   \* reply[r]: what the gateway answered to chat role r
    done,    \* done[r]: the assignment of r after its end
    stopped, \* a spend limit was found in a wave's results
    outcome  \* the status the tracker is given

vars == <<gates, handed, plan, wave, placed, todo, reply, done, stopped, outcome>>

Replies == {"content", "empty", "error", "spend"}

Ends == [end  : {"open", "working", "ran", "skipped", "blocked", "dropped"},
         ok   : BOOLEAN,
         code : BOOLEAN] \* files outside .voly/ were touched

Ended(r) == done[r].end \notin {"open", "working"}
Working(r) == done[r].end = "working"
WithEnd(e) == [end |-> e, ok |-> FALSE, code |-> FALSE]

ExecutorRoles == {r \in Steps : Mode[r] = "executor"}

\* Without an executor_runner the executor roles are called as chat roles; in
\* the plan and for the cascade they stay what they are.
Init == /\ gates \in Gates
        /\ handed \in {ExecutorRoles, {}}
        /\ plan = InitialPlan
        /\ wave = {} /\ placed = {} /\ todo = {}
        /\ reply = [r \in Steps |-> "none"]
        /\ done = [r \in Steps |-> WithEnd("open")]
        /\ stopped = FALSE
        /\ outcome = "running"

-----------------------------------------------------------------------------
(* Waves *)

\* Mutant of build_waves: waits for the dependencies to succeed.
NextWave_Successful == {r \in Steps \ placed : \A d \in Deps[r] : done[d].ok}

\* One level of the dependency order, or the next assignment of the list when
\* roles are not run in parallel.  (The fallback for a dependency cycle is the
\* same next assignment; Deps has none.)
NextWave == IF Workers > 1 THEN {r \in Steps \ placed : Deps[r] \subseteq placed}
                           ELSE {First(Steps \ placed)}

StartWave == /\ \A r \in wave : Ended(r)
             /\ placed # Steps /\ ~stopped
             /\ wave' = NextWave
             /\ todo' = NextWave
             /\ placed' = placed \cup NextWave
             /\ UNCHANGED <<gates, handed, plan, reply, done, stopped, outcome>>

-----------------------------------------------------------------------------
(* Preparing a role: the cascade of failures, then the plan gate *)

Failed(r) == {d \in Deps[r] : Ended(d) /\ ~done[d].ok}
Succeeded(r) == {d \in Deps[r] : Ended(d) /\ done[d].ok}
HasCode(d) == done[d].ok \/ done[d].code

\* Executors are through and none of them left any code.
NoCode == LET impl == {d \in Steps : Ended(d) /\ Mode[d] = "executor"}
          IN impl # {} /\ \A d \in impl : ~HasCode(d)

\* Mutant of the cascade: chat roles are held to nothing.
Cascades_ExecutorsOnly(r) ==
    /\ Failed(r) # {}
    /\ \/ RequiresCode /\ Succeeded(r) # {} /\ NoCode
       \/ Mode[r] = "executor" /\ ~\E d \in Deps[r] : Ended(d) /\ HasCode(d)

Cascades(r) ==
    /\ Failed(r) # {}
    /\ \/ RequiresCode /\ Succeeded(r) # {} /\ NoCode
       \/ Mode[r] = "executor" /\ ~\E d \in Deps[r] : Ended(d) /\ HasCode(d)
       \/ Mode[r] = "chat" /\ Succeeded(r) = {}

Gated == gates # "off"

Preparing(r) == /\ todo # {} /\ r = First(todo)
                /\ todo' = todo \ {r}
                /\ UNCHANGED <<gates, handed, wave, placed, reply, stopped, outcome>>

Skip(r) == /\ Preparing(r)
           /\ Cascades(r)
           /\ done' = [done EXCEPT ![r] = WithEnd("skipped")]
           /\ UNCHANGED plan

Block(r) == /\ Preparing(r)
            /\ ~Cascades(r)
            /\ Gated /\ ~CanStart(plan, r)
            /\ done' = [done EXCEPT ![r] = WithEnd("blocked")]
            /\ UNCHANGED plan

Accept(r) == /\ Preparing(r)
             /\ ~Cascades(r)
             /\ Gated => CanStart(plan, r)
             /\ done' = [done EXCEPT ![r].end = "working"]
             /\ plan' = IF Gated THEN SetSteps(plan, {r}, "running") ELSE plan

-----------------------------------------------------------------------------
(* Running the accepted roles of a wave *)

WaveChats == {r \in wave \ handed : Working(r)}
WaveExecutors == {r \in wave \cap handed : Working(r)}
Unasked == {r \in WaveChats : reply[r] = "none"}
Asked == {r \in WaveChats : reply[r] = "asked"}

\* The pool takes the calls in the order of the list, Workers at a time.
Ask(r) == /\ todo = {}
          /\ Unasked # {} /\ r = First(Unasked)
          /\ Cardinality(Asked) < Workers
          /\ reply' = [reply EXCEPT ![r] = "asked"]
          /\ UNCHANGED <<gates, handed, plan, wave, placed, todo, done, stopped, outcome>>

\* chat_with_provider_fallback, over all providers of the role's tier.
Answer(r) == /\ r \in Asked
             /\ \E a \in Replies : reply' = [reply EXCEPT ![r] = a]
             /\ UNCHANGED <<gates, handed, plan, wave, placed, todo, done, stopped, outcome>>

\* What finish_step_plan makes of the step: a failed role fails it, checks are
\* evaluated and logged, and shadow mode lets a failed check pass.
FinishStep(p, r, success, passed) ==
    LET verdict == IF passed THEN "pass" ELSE "fail"
        checked == [p EXCEPT !.log[r] = verdict]
    IN CASE ~success -> SetSteps(p, {r}, "failed")
         [] success /\ Acceptance[r] = "none" -> SetSteps(p, {r}, "verified")
         [] success /\ Acceptance[r] = "checks" ->
                SetSteps(checked, {r},
                         IF passed \/ gates = "shadow" THEN "verified" ELSE "failed")

\* Mutant: a failed verification does not reach the assignment.
RoleOk_Unverified(p, r, ok) == ok

\* The ok of the assignment after finish_step_plan: FALSE behind a failed step,
\* TRUE behind a verification that only shadow mode let pass.
RoleOk(p, r, ok) == /\ p.step[r] # "failed"
                    /\ ok \/ (gates = "shadow" /\ p.log[r] = "fail")

\* The end of role r whose work came out as ok, with the success reported to
\* the plan and the verdict of the checks, were they evaluated.
Finish(r, ok, code, success, passed) ==
    LET p == IF Gated THEN FinishStep(plan, r, success, passed) ELSE plan
    IN /\ plan' = p
       /\ done' = [done EXCEPT ![r] = [end  |-> "ran",
                                       ok   |-> IF Gated THEN RoleOk(p, r, ok) ELSE ok,
                                       code |-> code]]

\* An executor raises, reports failure or reports success, with or without
\* files; on a task that asks for code a success without files is a failure.
Execute(r) == /\ todo = {} /\ Unasked = {} /\ Asked = {}
              /\ WaveExecutors # {} /\ r = First(WaveExecutors)
              /\ \E success, code, passed \in BOOLEAN :
                    LET ok == success /\ (RequiresCode => code)
                    IN Finish(r, ok, code, ok, passed)
              /\ UNCHANGED <<gates, handed, wave, placed, todo, reply, stopped, outcome>>

\* Mutant: every result taken in says anew whether to stop.
StopAfter_Last(r) == reply[r] = "spend"

StopAfter(r) == stopped \/ reply[r] = "spend"

\* With gates an empty reply counts as executed and is left to the checks: those
\* of an executor role called as a chat, or a tester's command, may let it pass.
FinalizeChat(r) ==
    /\ todo = {} /\ Unasked = {} /\ Asked = {} /\ WaveExecutors = {}
    /\ WaveChats # {} /\ r = First(WaveChats)
    /\ \E passed \in BOOLEAN :
          /\ reply[r] = "empty" /\ r \in NeedsOutput => ~passed
          /\ Finish(r, reply[r] = "content", FALSE, reply[r] \in {"content", "empty"}, passed)
    /\ stopped' = StopAfter(r)
    /\ UNCHANGED <<gates, handed, wave, placed, todo, reply, outcome>>

-----------------------------------------------------------------------------
(* The end of the run *)

\* prepare, run_executor and finalize_chat let some exceptions through (a save of
\* the plan that fails, a result of the runner that cannot be read), and
\* run_waves ends with them: roles stay as they are and nothing is reported.
\* The calls of the pool catch theirs.
Raise == /\ \E r \in wave : ~Ended(r)
         /\ todo # {} \/ Unasked \cup Asked = {}
         /\ outcome' = "raised"
         /\ UNCHANGED <<gates, handed, plan, wave, placed, todo, reply, done, stopped>>

\* The roles a spend stop leaves: failed with the limit's error, their steps
\* as they are.
Stop == /\ \A r \in wave : Ended(r)
        /\ stopped
        /\ \E r \in Steps : ~Ended(r)
        /\ done' = [r \in Steps |-> IF Ended(r) THEN done[r] ELSE WithEnd("dropped")]
        /\ UNCHANGED <<gates, handed, plan, wave, placed, todo, reply, stopped, outcome>>

\* evaluate_multiagent_outcome: roles that were skipped or blocked are not
\* counted, except as missing implementation.
Outcome ==
    LET active == {r \in Steps : done[r].end \notin {"skipped", "blocked"}}
        impl == {r \in Steps : Mode[r] = "executor" \/ r \in Implementers}
    IN IF ~\E r \in active : done[r].ok THEN "failed"
       ELSE IF impl # {} /\ \A r \in impl : ~HasCode(r) THEN "partial"
       ELSE IF \A r \in active : done[r].ok THEN "completed"
       ELSE "partial"

Report == /\ \A r \in Steps : Ended(r)
          /\ outcome' = Outcome
          /\ plan' = IF Gated THEN RecomputePlanStatus(plan) ELSE plan
          /\ UNCHANGED <<gates, handed, wave, placed, todo, reply, done, stopped>>

-----------------------------------------------------------------------------

Role(r) == \/ Skip(r) \/ Block(r) \/ Accept(r)
           \/ Ask(r) \/ Answer(r) \/ Execute(r) \/ FinalizeChat(r)

Next == /\ outcome = "running"
        /\ StartWave \/ Raise \/ Stop \/ Report \/ \E r \in Steps : Role(r)

\* One thread drives the run, gateway calls and executors have timeouts.
Spec == Init /\ [][Next]_vars /\ WF_vars(Next)
====
