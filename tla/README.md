# TLA+ models of VOLY

VOLY (`voly/`, Python) orchestrates AI agents: it runs plans of dependent steps
on chat models and coding agents, verifies their results, waits for human
approvals, governs actions on outside services, and accounts for cost. This
directory holds TLA+ models of the parts where ordering, failure and
concurrency decide correctness, TLC configurations that check them on small
instances, and TLAPS proofs of the most important invariants for all instances.

`tlc -config <cfg> <module>` runs a check (the table below pairs them) and
`tlapm <module>` checks a proof module.

## 1. The system

### Components, their state and what makes them correct

| Component (source) | State it keeps | Operations | Correct when |
|---|---|---|---|
| Plan engine (`plan/engine.py`, `plan/types.py`) | none: functions on a plan document | validate, topo_order, can_start, transition, recompute_plan_status, abort | a step starts only behind verified dependencies; only legal transitions; exact cycle verdict |
| Plan runner (`plan/runner.py`) | its copy of the document, retries, the wave in flight | run, resume, cancel; waves of chat steps, one executor step at a time, retry/continue/stop, timeout, stale recovery | gates hold in every copy; progress survives crashes; runs end; cancels are honoured |
| Plan store (`plan/store.py`) | one JSON document per plan | load, save (atomic replace, no lock, no version) | readers see whole documents (nothing more is promised) |
| Approval (`plan/approval.py`) | none | decide: load, change one step, save | a human gate passes only by a decision |
| Business decisions (`decisions.py`) | a plan of two steps and its metadata (decision, execution) | create, decide, execute, list | no action before approval, at most one, metadata and steps agree, one event per outcome |
| Action executors (`executor/http_action.py`, `notify.py`) | none | run | every failure becomes a result |
| Working directory lock (`a2a/cwd_lock.py`) | `.voly/executor.lock` | enter, steal, leave | one executor per directory, or as few more as possible; dead holders do not block it |
| Workflow SDK (`sdk/`) | builds plans, loop laps | run, resume, cancel, map, loop | laps bounded, cancellation reaches the lap in progress |
| Multi-agent runs (`a2a/`) | assignments, done set, optional plan | prepare, chat_call, run_executor, finalize_chat, run_waves | a role works on usable results of its priors, a spend stop ends the chain, report and plan mirror tell what happened |
| Agent runner (`runner/`, `executor/safety.py`) | attempt list, heartbeat thread, git snapshot | run, with fallback executors, budget verdict, safety policy, rollback | the record tells how the run ended, protected files are restored |
| Run tracking (`runtime/`) | one RunRecord file per run | start, heartbeat, workflow_update, graph_update, request_cancel, finish, list, reap | a record that says completed is true, none says running for ever, an accepted cancel is honoured |
| Review loop (`workflow/`) | laps, verdicts | developer and reviewer turns | ends after max laps, a clean verdict, a failure or a cancel, and records which |
| AI gateway (`ai_gateway/`) | metrics, spend, cache, provider health | chat | limits are overshot by no more than what is in flight, attempts are bounded, calls return |
| Capability packs (`capability/`) | pack files and manifests | discover, install, verify, remove | installed content is what was reviewed |
| Continuous learning (`learning/`) | one JSON file of instincts | propose, approve, add_evidence, promote_global, remove | approval and scope rest on evidence, evidence counts once, the file survives |
| The rest | see `PROJECT.json` | routing tables, catalog, configuration, CLI, web, telemetry, DSPy, integrations, Cloudflare workers, UI, vendored `headroom/` | |

### How they interact

Everything durable is a JSON file that is loaded as a whole, changed in memory
and written back as a whole. The plan document is shared by run/resume (CLI,
SDK, web thread pool), cancel, `approval.decide` and, for decisions,
`DecisionService`. None of them locks it and it carries no version, so what a
step reads may be stale when it writes: that is the central difficulty of this
code, and the models make each load and each save a step of its own.
`PlanRunner` calls `topo_order` to pick steps in order; the A2A executor path
takes the working directory lock around an executor; `DecisionService.execute`
calls an executor between two saves and evidence, telemetry and learning after
the second. A multi-agent run mirrors its roles in a plan of its own, to which
it applies the same engine operators. Its chat roles and all other model calls
go through one `AIGateway` per process, whose books and health marks all threads
share. The review loop runs `AgentRunner` for each developer turn; loop,
heartbeat threads, clients that cancel and the server's watchdog meet in the
run records, written like plans: whole and without a lock. Instincts are one
more such file, with a temporary name that all writers share.

### What is hard to test here

The `hazards` of `PROJECT.json` list them by line: overlapping load/change/save
of the plan document; steps in flight when a cancel or a decision lands; a crash
between any two saves; steps left running; the wall-clock guess at staleness;
retries that exist in memory only; members of a wave finishing in any order; the
action of a decision taking effect although its caller died; removal of a lock
file that is no longer the one that was judged; roles behind failed priors; a
spend limit found in the middle of a wave; limits that many calls pass together;
exclusions that expire between two attempts; run records written back from old
copies; two savers in one temporary file.

## 2. Modules

| Module | Models | Builds on |
|---|---|---|
| `PlanEngine` | the plan document, gate, transitions, plan status: operators on a document | |
| `PlanRunner` | runs, crashes, cancel and decide on one stored document | `PlanEngine` |
| `PlanContract` | abstract: the set of verified steps grows along the dependencies | |
| `PlanProperties` | properties of `PlanRunner`, refinement of `PlanContract` | `PlanRunner`, `PlanContract` |
| `MCPlan` | small plans for TLC | `PlanProperties` |
| `PlanProofs` | theorems under any overlap, then for runs that do not overlap | `PlanProperties` |
| `TopoOrder`, `MCTopo`, `TopoProofs` | `topo_order`, one state per visited step, and its properties; TLC definitions, theorems | |
| `DecisionService` | create, decide, execute on one stored decision | `PlanEngine` (INSTANCE) |
| `DecisionContract` | abstract: one decision, then at most one execution with one outcome | |
| `DecisionProperties`, `MCDecision`, `DecisionProofs` | properties, TLC definitions, theorems | `DecisionService`, `DecisionContract` |
| `CwdLock`, `MCLock`, `CwdLockProofs` | the lock file and its properties, TLC definitions, theorems | |
| `WaveRun` | a multi-agent run and the plan that mirrors it | `PlanEngine` |
| `WaveProperties`, `MCWave` | its properties, refinement of `PlanContract`; six roles for TLC | `WaveRun`, `PlanContract` |
| `WaveProofs` | theorems | `WaveProperties` |
| `Gateway`, `MCGateway`, `GatewayProofs` | `AIGateway.chat` by several threads and its properties, TLC definitions, theorems | |
| `RunTracker` | run records, their writers, request_cancel, watchdog | |
| `ReviewLoop` | the review loop with its executor runs, on those records | `RunTracker` |
| `ReviewProperties`, `MCReview`, `ReviewProofs` | properties, TLC definitions, theorems | `ReviewLoop` |
| `InstinctStore`, `MCInstinct`, `InstinctProofs` | the instinct file and its properties, TLC definitions, theorems | |

### PlanEngine and PlanRunner

A document is a record: plan status, status of each step, and for each step the
outcome last written to its `verify_log`. Tasks, outputs, costs and error texts
are left out. `disk` is the stored document; `mem[r]` the copy of runner `r`;
`client[c]` the copy of an API call between its load and its save. `pc[r]`
follows `PlanRunner.run`:

| Action | Code |
|---|---|
| `LoadPlan`, `SaveStart` | resume's load, `_recover_stale_running_steps`, the first save |
| `CheckAbort` | top of the loop: `_external_abort_requested`, the timeout |
| `NothingRunnable` | done, paused or blocked |
| `StartWave`, `StartOne` | transition to running and the save that follows |
| `FinishSteps`, `SaveOutcome` | results, verification, abort check, save |
| `KeepGoing`, `RetryStep`, `FinishRetry`, `SaveRetry`, `ContinueAfterFail`, `StopOnFail`, `WaveHandled` | `_handle_step_outcome`, step by step in the order of the wave |
| `FinishRun` | status after the loop, last save |
| `Crash` | the process dies, or a save outside the try block raises |
| `LoadCancel`, `LoadDecide`, `SaveCall` | `cancel` and `approval.decide` |

Abstractions: a run starts from a stored document. A fresh one has every step
pending or seeded at verifying (an approval gate without a task); one loaded
with `keep_status` has the statuses, and the logs, an earlier run left in it.
The loader takes any statuses; `InitialStatusAssumption` asks that a step which
started did so behind verified dependencies, as every document written by this
code has it. A document typed by hand that contradicts the gates is outside the
models.

`MayTransition` is what `PlanEngine.transition` accepts without `force`,
`SetSteps` its effect. The actions apply `SetSteps` directly; that they ask only
for what `MayTransition` accepts, so that `IllegalTransition` is never raised in
a run, is the property `TransitionsLegal`. The result of a step is chosen from
`Attempts`: failed execution; verified; failed checks; parked at verifying for
externally resolved checks; business steps always fail here. In shadow mode
failed checks take the step to failed and then, by an assignment that goes round
`transition` (`runner.py:618-627`), to verified: no load or save comes between,
so the model makes both in one step, and `TransitionsLegal` names the outcome as
an exception of its own. A look at the store for an abort may find it unreadable
and then sees none (`AfterAbortCheck`, if `ReadsMayFail`). The clock is not
modelled: a step counts as stale when it is running and not being executed, or,
if `StepsOutliveThreshold`, in any case; the choice is free. `SaveOrRaise` is a
save in the try block, which may raise. Decisions on a step that is not waiting
change nothing and are no step. Kahn's order is the constant `Pos`; that an
order exists exactly for acyclic plans is what `TopoOrder` is for. Threads of a
wave touch only their own step's output, so a wave finishes as one step,
finalized in document order as the code does.

### DecisionService

`disk` is the stored plan with its `decision` and `execution` metadata,
`call[c]` a call in progress with its copy and the place it has reached: every
load, save, the outside action, and the report are separate steps. The outside
effect is counted by `sent`, terminal TaskEvents by `events`; `spent.overlaps`
counts the calls that started while another was in progress, and a property that
says `Alone` is about the time before the first of them. The two steps and the
plan status are those of `PlanEngine`. `Act` is the executor answering,
`ActRaises` an exception it does not turn into a result (possible after the
effect), `ReportRaises` one of the evidence, event and learning stores. A
configuration is assumed to be present; calls that change nothing (repeated or
refused) are no step.

### CwdLock

Each system call of `cwd_executor_lock` is a step: exclusive create, write of
the process id, read of the owner, probe, unlink, release. A process dies with
all its threads, and any number of threads may wait, with the id of a dead
owner in hand or with an outdated one. `Stale` is also true of a live process of
another user (`Foreign`), which cannot be signalled. `robbed` counts for the
properties how often a waiter removed the file of a thread that holds the lock.
The paths that yield without a lock (no directory, directory not writable) are
left out, and so is reuse of process ids.

### WaveRun

One run, driven by one thread, from its assignments to its report. `done[r]` is
the assignment of role `r` after its end (how it ended, `ok`, whether it left
code), `plan` the mirrored document, `placed` and `wave` what `build_waves` has
laid out so far, `reply[r]` the gateway's answer, `stopped` the spend stop.
`StartWave` is the next round of `run_waves`; `Skip`, `Block` and `Accept` are
the ends of `prepare` (the cascade of failures comes before the plan gate);
`Ask` and `Answer` the parallel chat calls, at most `Workers` at a time;
`Execute` the executors one after the other, `handed` the executor roles
(without an `executor_runner` there are none, and those roles are called as
chats); `FinalizeChat` the results taken in at the end of the wave; `Raise` an
exception that passes through `run_waves` (a result of the runner that cannot be
read, a save of the plan that fails), which leaves the run unreported; `Stop`
the roles a spend stop leaves; `Report` `evaluate_multiagent_outcome` and the
last recomputation of the plan. `gates` is chosen at the start: no plan, shadow,
active. Answers, executor results and verdicts of checks are free, except that
`output_nonempty` cannot pass on an empty answer: `NeedsOutput` are the chat
roles that have this check, all of them with `chat_require_output`. An executor
role called as a chat, or a tester whose only check is a command, may have an
empty answer pass. The run is the only writer of its plan, so one variable
stands for its copy and the file.

### Gateway

`call[c]` is the chat call thread `c` is making, at one of the places between
which other threads may act: rerouting and the cache, the rate limit
(`PassRate`), the budgets (`CheckSpend`), each attempt and its answer, the
charge, the cache entry. `spent`, `spentBy` and `recent` are the books,
`excluded` the providers marked unhealthy. Midnight, the end of a minute and the
end of an exclusion come at any time (`Time`). The order of attempts follows
from the constants as in the code: through the Cloudflare gateway over the
fallback chain, or to an upstream gateway with or without direct fallback, or
directly with or without the chain. Left out: the DLP scan and the disabled
gateway, both of which return before anything changes; the second service an
unknown Cloudflare provider is sent to within one attempt. `Charge` is one step,
and so is a check with its reset at midnight: an addition to a counter has no
call inside at which the interpreter would switch threads, and the metrics list,
which is rebuilt when it grows past its limit, may lose an entry in the middle
of that, which is not modelled.

### RunTracker and ReviewLoop

`record[r]` is the file of run `r`, `held[<<w, r>>]` the copy of it that writer
`w` has loaded and not yet written: every operation is a load, a change and an
atomic replacement. `ReviewLoop` adds the loop: `at` is its place, `todo` the
updates of records it still makes before it goes on, in the order of the code,
`beating` the executor runs whose heartbeat thread nobody has stopped. Each turn
may end well, badly or by an exception, and exceptions may also come before the
loop's first update (`Refuse`) or between the turns (`Raise`). The disk may fail
the writers in `Unlucky`: `_write` swallows what it cannot write, and what
cannot be read (`Read`) is taken for no record, so that an update is skipped,
the watchdog passes over the record and no cancel is seen (`Unseen`). The server
may die at any place, and with it every thread: the loop, heartbeats, requests
and the watchdog with its list (`Die`). It dies at most once; what acts
afterwards stands for a restarted server. All records are in one directory in
the models. In the code the watchdog scans the directory beside the server's
evidence, or that of the home directory (`web/server.py:42-50,73`), and the
agent runner writes to `telemetry.runs_dir` (`agent_runner.py:136`): where the
two settings differ, nobody closes an executor's record. A record is silent when
its heartbeat is older than the watchdog's threshold, which may happen only to
records nobody is about to refresh. Nodes, edges and numbers in the records
decide nothing and are left out (`Touch`).

### InstinctStore

Inodes are modelled: a caller opens the shared temporary name (truncating what
is there), writes its payload to the inode it has opened, wherever that has been
renamed to since, and renames. Writing where something is already written may
leave `Torn` content. A caller may die at each place. Confidence is counted in
steps of 0.05, of which all changes are multiples; `known` remembers the
evidence an approver saw and exists for the properties only.

### Environment constants

What a run assumes of its surroundings is a constant, not a hidden habit:
`OneRunAtATime`, `ClientsBetweenRuns`, `StepsOutliveThreshold`, `ReadsMayFail`
(plan; a cancel, `plan_continue`, is honoured where the store can be read and
written); `MayRaise` (decisions); `Mortal`, `Foreign`, `MayTimeOut` (lock); `Mortal`, `Unlucky` (review); `Mortal` (instincts).
`MaxRuns`, `MaxCrashes`, `MaxSaveErrors`, `MaxClientOps`, `MaxCalls` and
`MaxRepeats` bound the exploration only; the environment stops when they are
used up, hence `CHECK_DEADLOCK FALSE`.

## 3. What TLC checks

| Run | Shows | Bounds |
|---|---|---|
| `plan_overlap` | `TypeOK`, `DependencyGate`, `HumanGate`, `StatusTruthful` with two overlapping runs, a client, failing saves and reads, both modes | 3 steps, 2 runs, 1 crash, 1 failing save, 2 client calls (2.4 M states) |
| `plan_series` | `NoOrphanedStep`, `CheckedGate`, `DurableProgress`, `ImplementsContract`, `RunsEnd` over run, crash, decision, resume | 6 steps (wave of 2 of 3 chats, executor, seeded business gate, business step), 1 retry, 4 runs, 2 crashes, 3 client calls (0.2 M states) |
| `plan_continue` | `RecoveredRunCompletes`, `CancelHonoured`, `TransitionsLegal` with on_fail=continue, in shadow and active runs | 4 steps of a kept document, 3 runs, 2 crashes, 1 cancel at any time |
| `topo` | `Accounting`, `RespectsDependencies`, `VerdictExact`, `Ends` | all graphs of 3 steps, entries repeated up to twice |
| `decision` | `TypeOK`, `RecordsAgree`, `ApprovedFirst` under any overlap; `ActsOnce`, `OneEvent`, `ImplementsContract` until calls overlap | 3 callers, 6 calls, 2 deaths, any number of exceptions; callers symmetric (38 k states) |
| `lock` | `LockInv`, `OverlapBounded`, `StaleLockRemoved` | 4 threads in 3 processes, of which two may die and one belongs to another user |
| `waves` | `InputUsable`, `CompletedMeansAll`, `SpendContained`, `RunEnds`, `ImplementsContract` in the three plan modes, with and without an executor runner | the six standard roles, 2 workers, a task that asks for code |
| `gateway` | `SpendBounded`, `RateBounded`, `AttemptsBounded`, `CallsReturn` with overlapping calls | 2 callers, one for an agent with a budget of its own, 4 providers, upstream gateway, chain with 1 retry, budgets 2 and 1, cost up to 2, 1 request a minute (0.7 M states) |
| `review` | `SuccessTruthful`, `CancelHonoured`, `RecordsClose` | 2 laps, 2 executors, 1 client, a server that may die, failing reads and writes of the loop (1.2 M states) |
| `instincts` | `Governed`, `Earned`, `Durable` | 2 callers, 6 calls, 1 instinct, 4 pieces of evidence, of three kinds and two projects (3.2 M states) |
| `lost_approval` | `ApprovalDurable` is violated, see below | 3 steps, 1 run, 1 client |
| `lock_steal` | `MutualExclusion` is violated | 3 threads, each in a process of its own, one of which may die |

Why the bounds suffice: two runs and one client give every pair of a load and a
save by others in between; a third overlapping copy adds no new kind of write,
as every write is of a copy for which the same invariant holds (this is what the
proofs make precise). A series needs a crash, a recovery, a decision and one
more run to see its effects: four runs cover it with one to spare. Three graph
nodes give self-loops, cycles of length two and three, diamonds with repeated
entries. Lock stealing takes a dead or foreign holder and two waiters that judge
it; four threads leave a holder beside them, and two threads of one process
meet. Six roles give chat and executor roles in one wave, roles with one,
several and no priors, and a role whose priors are skipped in turn. Two gateway
callers make each pair of a check and a charge overlap, with budgets of the size
of one call, so that every limit is met; more callers overshoot by as much more,
which is what is proved. Two laps give a record that is over beside one that is
written. In `review` only the loop's own thread is unlucky: what a failing disk
of the watchdog would leave open is not bounded by anything (`RecordsClose`
needs it to work), and the theorems about completed records and cancels hold for
any unlucky writers. Six calls of the instinct store are enough to propose,
contradict, approve, suspend, approve again and promote.

Fairness: `FairSpec` of `PlanRunner` assumes that a live run takes its next step
and that a call that loaded its document saves it: threads are scheduled, and
model and executor calls carry timeouts. Nobody is obliged to start runs, to
decide, or to crash. The lock assumes that waiters poll and holders finish. The
loop of `topo_order` is sequential code that runs. A multi-agent run is one
thread whose gateway calls and executors have timeouts: `WF(Next)`. A call of
the gateway goes on (`WF(Chat(c))`), nobody need make one. The review loop's
thread, started heartbeats, accepted cancels and the watchdog (every two minutes
in the server) go on, and time passes; nobody need cancel, and the server need
not die. The instinct store has no liveness property and no fairness.

Abstract specifications: `ImplementsContract` of `plan_series` maps the set of
verified steps on disk to `PlanContract` (a step is verified only on top of its
dependencies, and stays so), that of `waves` the verified steps of the mirrored
plan to the same contract; the one of `decision` maps the stored metadata to
`DecisionContract`, for every step up to the first overlap of two calls.

### Statements of the repository the code does not keep

Two runs end in a counterexample (`findings` quotes the statements):

- `lost_approval`: a run executes a step for minutes and then saves its own
  copy; an approval stored meanwhile is undone.
- `lock_steal`: a waiter judges an owner that is gone; the file it unlinks is
  the one another waiter has created since, and both enter. TLC's trace has an
  owner that left and died later; two waiters that both read the id of a dead
  holder, the slower one removing the new lock of the faster, is the longer form
  of it.

The others were met while modelling. They are not runs; each follows from the
actions named, and where a formula is given, TLC finds it violated under the
constants of the passing run named with it. Plans:

- a cancel stored before the first save of a run (`SaveStart`), or between the
  look at the top of the loop (`CheckAbort`) and the save that starts a step
  (`StartOne`), is overwritten and the run goes on:
  `[][disk.status = "aborted" => disk'.status = "aborted"]_vars`
  (`plan_continue`), against `docs/backend/plan.md:163-164`. The loss that text
  speaks of, while a step executes, does not happen (`CancelHonoured`);
- with `max_step_retries: 2` a step gets one retry, as a failed retry ends the
  run without a look at the count (`runner.py:385-410`);
- with on_fail=continue a human gate whose execution failed is forced verified
  (`HumanGate` with `OnFail = "continue"`), against `plan/approval.py:13`;
- the failed status of a plan blocked by a skipped step is recomputed to running
  before the last save (`runner.py:253`), against `runner.py:195`;
- a run that recovered a stale step and then times out ends failed
  (`runner.py:260`), against `runner.py:138`;
- a slow step of a live run is recovered by another run, against
  `runner.py:318`;
- a look at the store that fails shows no abort, and the next save overwrites it
  (`runner.py:352`).

Decisions and the lock:

- two overlapping calls of decide are both accepted; an approval saved over a
  rejection lets the action be sent:
  `[][disk.decision = "rejected" => sent' = sent]_vars` (`decision`), against
  `docs/backend/decisions.md:11`;
- overlapping calls of execute both send the action: `sent <= 1` (`decision`,
  where `ActsOnce` holds), against `docs/backend/api.md:45`;
- a store that raises between the save of an outcome and its TaskEvent leaves it
  without one for good, as no later call gets there again (`ReportRaises`),
  against `docs/backend/decisions.md:37`;
- a read timeout or a reset while reading the response is none of the exceptions
  `HttpActionExecutor.run` catches; the execution stays `running` for good,
  without evidence or event (`ActRaises`);
- a create that overlaps another create and a decide resets the decision
  (`decisions.py:92`);
- the lock of a live process of another user is taken from it (`Foreign`), and
  the empty lock file of a process that died between open and write is never
  removed, against `cwd_lock.py:48`;
- `approval.decide` on the gate of a business decision verifies the step and
  leaves the decision's metadata pending; the two components are modelled apart.

Multi-agent runs:

- the outcome is evaluated as if the task asked for code whatever the run's own
  setting (the argument is left at its default), as `Outcome` does;
- executors of the wave in which the spend limit is found still run
  (`SpendContained` speaks of later waves for that reason);
- an executor result that cannot be read, or a plan that cannot be saved, ends the
  run without a report (`Raise`; `RunEnds` says that a run reports or raises).

Gateway:

- the last error is charged to the *requested* provider's health, even when a
  fallback or the upstream made it; a fallback's answer is cached and priced as
  the requested model's;
- failed requests never count for the rate limit;
- an unhealthy provider is passed over without looking at the retry limit.

Run records:

- an update of a run record that loaded it before the cancel request writes the
  flag back as it was: `[][record[0].cancel => record'[0].cancel]_vars`
  (`review`), against `docs/backend/workflows.md:80`. `CancelHonoured` of the
  review loop is stated for the time nobody holds an older copy;
- an executor that raises anything but the errors it handles leaves its heartbeat
  thread alive, and the record at running as long as the server lives (the
  exception in `RecordsClose`), against `docs/backend/api.md:415`;
- `request_cancel` answers yes even if its write failed;
- the workflow's own record is not refreshed during a turn: behind a long chain
  of executors the watchdog marks a live loop stale, and `request_cancel` then
  refuses;
- `finish` does not look at the status it replaces, so a record that is completed
  between the watchdog's listing and its write becomes stale;
- a record that cannot be read shows no cancel, and the loop goes on;
- the watchdog may scan another directory than the one executor runs are recorded
  in (see RunTracker above);
- the cost of abandoned attempts of a fallback chain is not part of a lap's cost.

Instincts:

- of two overlapping calls one loses its evidence or approval; two in the
  temporary file can leave a torn file, on which every later call raises, or make
  a rename fail (`Durable` holds only while calls do not overlap).

## 4. What is proved

All theorems hold for every value of the constants that satisfies the named
assumptions: any finite or infinite set of steps, runners, threads; finite ones
where properties count (gateway callers, evidence). The TLC runs above checked
the same formulas first.

- `PlanProofs!TypeCorrect`, `DependencyGateHolds`, `HumanGateHolds`. The gates
  are not inductive: a wave that finishes sets its steps to verified or failed,
  which is harmless only because they are running in that runner's copy and so
  have verified dependencies. `GateInv` adds `WaveRunning` (the steps a runner
  executes are running in its own copy) and states the gate of *every* copy
  that may be written back (`EveryCopy(Sound)`). Each action either moves such
  a copy or makes one by operators that keep `Sound`: starting steps behind
  `CanStart`, finishing a wave, deciding, recovering stale steps.
  `HumanGateHolds` assumes `OnFail # "continue"`, without which it is false.
- `PlanProofs!CheckedGateHolds` (same assumption), `StatusTruthfulHolds`: under
  any overlap again. `CheckedInv` adds that every run is an active one, since a
  shadow run verifies on failed checks. `TruthInv` is about the program counter:
  a runner's copy is truthful where it is saved as it stands (`start`, `save`,
  `resave`); between those places its status may be stale, and every other save
  computes the status first.
- `PlanProofs!TransitionsLegalHolds`: under any overlap and for every policy, a
  step of a runner's copy moves only by moves `MayTransition` accepts (one after
  the other within an attempt), and becomes verified on the evidence of its
  checks. Two moves are outside and named by the property: the failed step
  on_fail=continue forces (`Forced`) and the one shadow mode assigns verified
  after its checks failed (`SoftOpened`). It needs no invariant beyond
  `GateInv`. `plan_continue` checks it where both exceptions occur.
- `PlanProofs!DurableProgressHolds`, `ImplementsContractHolds` assume
  `OneRunAtATime`, `ClientsBetweenRuns` and one client (the run `lost_approval`
  shows what happens when a decision falls into a run). `SeriesInv` says that
  the one copy somebody may save `Follows` the store: it verifies what the store
  verified, and whatever it started waited for steps verified *in the store*.
  The second part is inductive only because the copy knows nothing new wherever
  it selects steps (`NothingNew`, at the places in `Between`). One lemma,
  `SeriesStep`, gives both theorems: what a step writes follows what it
  replaces.
- `PlanProofs!NoOrphanedStepHolds` assumes `OneRunAtATime` and
  `ClientsBetweenRuns`. The property speaks of the store between runs only;
  `OrphanInv` says where the open steps are in the meantime: in the one live
  copy, and there they are the steps that run executes, at every place of the
  loop. A crash or a failed save breaks it for good, which is why the property
  is about undisturbed plans.
- `TopoProofs!AccountingHolds`, `RespectsDependenciesHolds`,
  `VerdictExactHolds`, for any number of steps and any dependencies. `TopoInv`
  is the three of them without the last, plus what the verdict is based on. The
  work is in the operators: a sum over dependencies does not depend on their
  order (`SumSplit`), is zero when each is (`SumZero`), and the queue receives
  each step once (`DocumentOrder`). These are facts about recursive functions.
  They are proved without the library's induction theorems, from a smallest set
  or number for which they would be wrong (`SmallestSet`, `SmallestNumber`);
  that the recursions have a solution is proved the same way (`SumsExist`,
  `FiltersExist`). The verdict follows by counting (`EmptyQueue`) and by the
  earliest step of a cycle (`OrderedNoCycle`).
- `DecisionProofs!RecordsAlwaysAgree`, `ApprovedFirstHolds`: under any overlap
  of calls, deaths and exceptions. The inductive `GovernInv` adds what a call at
  each place knows (`ApprovalKnown`): its copy is running only after an approval
  was saved. The lemmas show for one document that decide, execute and the two
  outcomes keep `Agrees`, through the recomputed plan status.
- `DecisionProofs!ActsOnceHolds`, as long as no two calls have overlapped
  (`Alone`): `SerialInv` adds that a sent action is known to the store and that no
  call before the send is then in progress. Afterwards it is false, see above.
- `DecisionProofs!OneEventHolds`, `ImplementsContractHolds`, for the same time:
  `ContractInv` adds that what a call is about to save is one step of
  the contract `Ahead` of the store, and counts the events of calls that have yet
  to report (`EventsFit`). Every save is then one step of `DecisionContract`.
- `CwdLockProofs!LockInvHolds`, `OverlapBoundedHolds`, for any finite set of
  threads, any processes, deaths and foreign users. The file on the path need
  not be its holder's, so exclusion is no invariant. `LockInv` counts instead:
  the holders without their file (`Bereft`) are at most as many as were robbed
  of it, since a thread loses its file only to a waiter, or to a leaving thread
  that was robbed itself and now stops holding. `OverlapBounded` follows: all
  holders but one are bereft. And a waiter that removes a file read the id of a
  dead or foreign process, so that without those nobody is robbed and the lock
  excludes: `ExclusiveAmongTheLiving`. How often one can be robbed is not
  bounded by the code; `lock_steal` shows that once is enough.
- `WaveProofs!InputUsableHolds`, `CompletedMeansAllHolds`,
  `SpendContainedHolds`, `ImplementsContractHolds`, for any roles, dependencies,
  modes and workers. What a run does with one role rests on what is true of all
  others, so there is one invariant, `WaveInv`: `OrderInv` (what a placed role
  needs ended in an earlier wave), `Agrees` (a role's end and its step tell the
  same; in active mode verified means checked and ok), `HasInput` (what a role
  was given is still so: ended roles never change), `FailureIsCounted` (nothing
  is skipped or blocked without a failure the report counts) and `Told` (a role
  that was told of the spend limit is in the current wave, and stops the run
  when taken in). `RoleStep` shows once that it survives whatever one role of
  the wave goes over to; the actions only supply its conditions. The refinement
  maps each action to `Verify({r})` or to nothing (`OneStepContract`).
- `GatewayProofs!TypeCorrect`, `AttemptsBoundedHolds`: `AttemptsInv` ties the
  number of attempts sent to the place in the list of providers.
  `RateBoundedHolds`, `SpendBoundedHolds`: a bound on what is in the books alone
  is not inductive, as a charge only moves cost from a call in flight to the
  books. `BooksInv` says that what is in the books and what the calls in flight
  may still cost fit together (`Fits`), for the day and for each limited agent;
  passing the check needs room for one more call, a charge uses it up, and the
  first check of a new day empties the books. For the rate, the calls that
  passed it and are not in the books yet are `Admitted`.
- `InstinctProofs!GovernedHolds`, `EarnedHolds`: the properties are about the
  file, but a caller's payload and every inode may become the file. The invariant
  states them for every book there is, and each operation keeps them for one book;
  overlap and death then only choose among good books.
- `InstinctProofs!DurableHolds` excludes overlap: while no two calls have
  overlapped, a file that exists stays, is whole after each step and drops no
  evidence of an instinct that stays. `AloneInv` says what the one caller at
  work knows: its payload extends the file's book, the inode it has opened is
  not the file's, and what it has written there is whole before it renames.
- `ReviewProofs!SuccessTruthfulHolds`, `CancelHonouredHolds`, for any number of
  laps, executors and clients. Writers replace records by copies that may be
  old, so neither property is inductive. `TruthInv` states the truth of a
  completed record for every copy that somebody may write and for every update
  the loop has still to make (`MayComplete`), and that the loop holds a copy
  only for its next update (`MainInv`); once true it stays true, since laps only
  go on. `PromiseInv` says that every copy carries an accepted request and that
  no update is left which starts the record anew; a promise ends where the loop
  cannot read the record (`Unseen`). They assume that the loop has a thread of
  its own (`MainAssumption`); which writers the disk fails is arbitrary.

Model-checked only: liveness (`RunsEnd`, `RecoveredRunCompletes`,
`CancelHonoured` of plans, `Ends`, `StaleLockRemoved`, `RunEnds`, `CallsReturn`,
`RecordsClose`), which the prover does not handle under fairness. Every safety
invariant and every safety action property that a passing run checks is stated
by a theorem.

## 5. Not modelled

- Text: prompts, parsing of answers and verdicts, formatting, redaction.
- The acceptance checks and the executors' work: commands, files, git, HTTP. Their
  outcome is a free choice. With them, the executor safety policy's snapshot and
  rollback, which are operations on a working tree.
- Code without state of its own or with one call at a time: routing and scoring,
  configuration, catalog and registry loading, the pack store, evidence and
  evaluation reports, memory files, telemetry assembly, the command line.
- The Workflow SDK compiles graphs to plans and runs them with `PlanRunner`; the
  plans it makes are covered there, its loop node (one plan per lap) is not.
- The spend client: one request per call, failures ignored, no state.
- Code in other languages and other projects: the TypeScript workers, the UI, and
  `headroom/`, which is a vendored project of its own and by far the largest part
  of the repository. The models therefore cover a small share of all lines: they
  are the coordination core of `voly/`, where state is shared or survives.

`PROJECT.json` lists every part with its reason.

What could follow: `DecisionService` and the workflow route of `approval.decide`
on one document; two overlapping multi-agent runs in one directory behind
`CwdLock`.
