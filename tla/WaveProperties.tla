---- MODULE WaveProperties ----
(***************************************************************************)
(* What a multi-agent run is expected to keep true of its roles, its plan  *)
(* and its report.                                                         *)
(***************************************************************************)
EXTENDS WaveRun

TypeOK == /\ gates \in Gates
          /\ handed \subseteq ExecutorRoles
          /\ plan \in Plan
          /\ wave \subseteq Steps /\ placed \subseteq Steps /\ todo \subseteq wave
          /\ reply \in [Steps -> Replies \cup {"none", "asked"}]
          /\ done \in [Steps -> Ends]
          /\ stopped \in BOOLEAN
          /\ outcome \in {"running", "completed", "partial", "failed", "raised"}

Started(r) == done[r].end \in {"working", "ran"}

\* Roles that no empty answer gets past their checks.
Proven(r) == Acceptance[r] = "checks" /\ r \in handed \cup NeedsOutput

\* A role that runs has something to work on.  In active mode all its prior
\* roles are verified, those with checks on passed ones, and are ok if an
\* executor ran them or their checks ask for an answer; without gates an
\* executor has a prior role that is ok or left code, a chat role one that is
\* ok (multiagent_roles.prepare, over all orders in which priors may fail).
InputUsable ==
    \A r \in Steps : Started(r) =>
        /\ gates = "active" =>
             \A d \in Deps[r] : /\ plan.step[d] = "verified"
                                /\ Acceptance[d] = "checks" => plan.log[d] = "pass"
                                /\ Proven(d) => done[d].ok
        /\ Deps[r] # {} =>
             \E d \in Deps[r] : /\ Ended(d)
                                /\ IF Gated THEN plan.step[d] = "verified"
                                   ELSE done[d].ok \/ (Mode[r] = "executor" /\ done[d].code)

\* A run is only reported as completed when every role ran and is ok, although
\* evaluate_multiagent_outcome leaves skipped and blocked roles out of account:
\* behind each of those stands a role that counts and failed.  With gates the
\* plan then is completed, too.
CompletedMeansAll ==
    outcome = "completed" => /\ \A r \in Steps : done[r].end = "ran" /\ done[r].ok
                             /\ Gated => plan.status = "completed"

\* The inductive part of it: nothing is skipped or blocked without a failure
\* that counts.
Unlucky(r) == done[r].end \in {"ran", "dropped"} /\ ~done[r].ok
FailureIsCounted ==
    (\E r \in Steps : done[r].end \in {"skipped", "blocked"}) => \E r \in Steps : Unlucky(r)

Begins(r) == \/ reply[r] = "none" /\ reply'[r] = "asked"
             \/ r \in handed /\ Working(r) /\ ~Working(r)'

\* Once the gateway has answered a role that the spend limit is reached, no
\* role of a later wave is called or executed; what is left of the same wave
\* still is (multiagent_run.run_waves looks for the limit after the wave).
SpendContained ==
    [][\A c, r \in Steps : reply[c] = "spend" /\ Begins(r) => c \in wave]_vars

\* Every run reports or raises, whatever gateway and executors answer: there is
\* always a role to prepare, to call, to run or to take in until all have ended.
RunEnds == <>(outcome # "running")

VerifiedRoles == {r \in Steps : plan.step[r] = "verified"}

Contract == INSTANCE PlanContract WITH verified <- VerifiedRoles

\* The plan that mirrors the run keeps the promise of every stored plan: a step
\* is verified once, after everything it depends on.
ImplementsContract == Contract!Spec
====
