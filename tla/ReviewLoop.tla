---- MODULE ReviewLoop ----
(***************************************************************************)
(* review-until-clean (src/voly/workflow) with the executor runs of its    *)
(* developer turns (src/voly/runner/agent_runner.py), as the web server    *)
(* starts it.  One thread takes turns as developer and reviewer and keeps  *)
(* the workflow's record and, during a developer turn, the record of the   *)
(* executor run, which a heartbeat thread refreshes.  Run 0 is the         *)
(* workflow, run k the executor run of its lap k.                          *)
(***************************************************************************)
EXTENDS RunTracker, Sequences

CONSTANTS
    MaxRounds, \* max_rounds
    Executors, \* length of the fallback chain from the first executor on,
               \* 0 when that one is in no chain
    Main,      \* the thread of the loop
    Beat,      \* Beat[k]: the heartbeat thread of run k
    Mortal     \* the server process may die

ASSUME LoopAssumption ==
    /\ MaxRounds \in Nat \ {0} /\ Runs = 0..MaxRounds
    /\ Executors \in Nat /\ Mortal \in BOOLEAN
    /\ Threads = {Main} \cup {Beat[k] : k \in 1..MaxRounds}

\* The loop has a thread of its own.
ASSUME MainAssumption ==
    Main \notin Clients \cup {Watchdog} \cup {Beat[k] : k \in 1..MaxRounds}

VARIABLES
    at,       \* where the loop is
    todo,     \* updates of records it makes before it goes on
    lap,
    attempt,  \* place of the working executor in the fallback chain
    verdict,  \* what the last turn ended with
    beating,  \* runs whose heartbeat thread has not been told to stop
    promised  \* a cancel was accepted during a turn, nobody else writing, and
              \* the loop has since been able to read the record

loopVars == <<at, todo, lap, attempt, verdict, beating, promised>>
vars == <<trackerVars, loopVars>>

Places == {"new", "top", "start", "developing", "developed", "ready",
           "reviewing", "over", "dead"}

Verdicts == {"none", "ok", "failed", "budget", "clean", "blocking", "error"}

Init == /\ TrackerInit
        /\ at = "new" /\ todo = <<>> /\ lap = 0 /\ attempt = 0
        /\ verdict = "none" /\ beating = {} /\ promised = FALSE

-----------------------------------------------------------------------------
(* Updates of records *)

Update(r, op) == [run |-> r, op |-> op]

\* graph_update and workflow_update change what no decision depends on.
Touch == Update(0, "touch")
Twice == <<Touch, Touch>>

Updated(op, rec) == CASE op = "open"  -> [rec EXCEPT !.workflow = TRUE]
                      [] op = "touch" -> rec
                      [] op \in Statuses -> [rec EXCEPT !.status = op]

\* start replaces whatever is there.
StartRecord == /\ todo # <<>> /\ Head(todo).op = "start"
               /\ Save(Main, Head(todo).run, Started)
               /\ todo' = Tail(todo)
               /\ UNCHANGED <<held, stale, asked, at, lap, attempt, verdict, beating, promised>>

LoadRecord == /\ todo # <<>> /\ Head(todo).op # "start"
              /\ Load(Main, Head(todo).run)
              /\ UNCHANGED <<record, silent, stale, asked, loopVars>>

WriteRecord == /\ todo # <<>>
               /\ LET u == Head(todo)
                  IN /\ Holds(Main, u.run)
                     /\ Write(Main, u.run, Updated(u.op, held[<<Main, u.run>>]))
               /\ todo' = Tail(todo)
               /\ UNCHANGED <<stale, asked, at, lap, attempt, verdict, beating, promised>>

\* The loop goes on once its updates are made.
Go(from, to, updates) == /\ at = from /\ todo = <<>>
                         /\ at' = to
                         /\ todo' = updates
                         /\ UNCHANGED trackerVars

Loop(from, to, updates) == Go(from, to, updates) /\ UNCHANGED promised

\* _finish writes the reason, then the status; the server's finish_run writes
\* the status again unless its client has left.
Closing(status) == {<<Touch, Update(0, status)>>,
                    <<Touch, Update(0, status), Update(0, status)>>}

-----------------------------------------------------------------------------
(* The loop *)

\* prepare_run, then the first updates of run.
Begin == /\ Loop("new", "top", <<Update(0, "start"), Update(0, "start"), Update(0, "open"),
                                 Touch, Touch, Touch>>)
         /\ UNCHANGED <<lap, attempt, verdict, beating>>

\* What the server reports unless the exception finds its client gone.
Failing == {<<>>, <<Update(0, "failed")>>}

\* An exception before the first update of run.
Refuse == /\ \E updates \in Failing : Loop("new", "over", <<Update(0, "start")>> \o updates)
          /\ UNCHANGED <<lap, attempt, verdict, beating>>

Cancelled == record[0].cancel

\* No cancel is seen: there is none, or the record cannot be read.
Unseen == \/ ~Cancelled /\ UNCHANGED promised
          \/ Main \in Unlucky /\ promised' = FALSE

\* Before a lap: the rounds are used up, a cancel is seen or the deadline has
\* passed.
StopLoop == /\ \E updates \in Closing("failed") : Loop("top", "over", updates)
            /\ UNCHANGED <<lap, attempt, verdict, beating>>

NextLap == /\ lap < MaxRounds /\ Unseen
           /\ Go("top", "start", Twice)
           /\ lap' = lap + 1
           /\ UNCHANGED <<attempt, verdict, beating>>

\* AgentRunner.run writes its record and starts the heartbeat thread.
Develop == /\ Loop("start", "developing", <<Update(lap, "start")>>)
           /\ attempt' = 1
           /\ beating' = beating \cup {lap}
           /\ UNCHANGED <<lap, verdict>>

\* Without credits or out of service: the next executor of the chain that is
\* available is tried, if there is one.
FallBack == /\ at = "developing" /\ todo = <<>>
            /\ \E next \in attempt + 1 .. Executors : attempt' = next
            /\ UNCHANGED <<trackerVars, at, todo, lap, verdict, beating, promised>>

\* The status an executor run is given: over budget is not a failure of it.
Report(result) == IF result = "failed" THEN "failed" ELSE "completed"

\* The run ends as a success within budget, one over budget, or a failure
\* (of the last executor, by itself, or in the eyes of the safety policy).
Developed == \E result \in {"ok", "budget", "failed"} :
                /\ Loop("developing", "developed", <<Update(lap, Report(result))>>)
                /\ verdict' = result
                /\ beating' = beating \ {lap}
                /\ attempt' = 0
                /\ UNCHANGED lap

Judge == /\ verdict = "ok"
         /\ Loop("developed", "ready", <<Touch>>)
         /\ UNCHANGED <<lap, attempt, verdict, beating>>

GiveUp == /\ verdict # "ok"
          /\ \E updates \in Closing("failed") : Loop("developed", "over", Twice \o updates)
          /\ UNCHANGED <<lap, attempt, verdict, beating>>

\* Mutant: the cancel is only looked at before a lap.
Review_Unasked == /\ Loop("ready", "reviewing", Twice)
                  /\ UNCHANGED <<lap, attempt, verdict, beating>>

Review == /\ Unseen
          /\ Go("ready", "reviewing", Twice)
          /\ UNCHANGED <<lap, attempt, verdict, beating>>

\* The deadline has passed or a cancel is seen.
StopReview == /\ \E updates \in Closing("failed") : Loop("ready", "over", updates)
              /\ UNCHANGED <<lap, attempt, verdict, beating>>

\* Mutant: an answer that is no verdict counts as clean.
Verdict_Lenient(v) == IF v \in {"clean", "error"} THEN "completed" ELSE "failed"

Verdict(v) == IF v = "clean" THEN "completed" ELSE "failed"

\* An error of the gateway and an answer that is no valid verdict end the loop.
Reviewed ==
    \E v \in {"clean", "blocking", "error"} :
        /\ CASE v = "blocking" -> Loop("reviewing", "top", Twice)
             [] v = "clean" -> \E updates \in Closing(Verdict(v)) :
                                   Loop("reviewing", "over", Twice \o updates)
             [] v = "error" -> \E updates \in Closing(Verdict(v)) :
                                   Loop("reviewing", "over", <<Touch>> \o updates)
        /\ verdict' = v
        /\ UNCHANGED <<lap, attempt, beating>>

\* An exception in a turn, or over what the executor reports, leaves everything
\* as it is, the heartbeat thread of an executor run included.
Raise == /\ \E turn \in {"developing", "developed", "reviewing"}, updates \in Failing :
               Loop(turn, "over", updates)
         /\ UNCHANGED <<lap, attempt, verdict, beating>>

LoopStep == \/ StartRecord \/ LoadRecord \/ WriteRecord
            \/ Begin \/ Refuse \/ StopLoop \/ NextLap
            \/ Develop \/ FallBack \/ Developed \/ Judge \/ GiveUp
            \/ Review \/ StopReview \/ Reviewed \/ Raise

-----------------------------------------------------------------------------
(* The heartbeat threads, the clients, time and death *)

BeatLoad(k) == /\ k \in beating /\ ~(todo # <<>> /\ Head(todo) = Update(k, "start"))
               /\ Load(Beat[k], k)
               /\ UNCHANGED <<record, silent, stale, asked, loopVars>>

BeatWrite(k) == /\ Holds(Beat[k], k)
                /\ Write(Beat[k], k, held[<<Beat[k], k>>])
                /\ UNCHANGED <<stale, asked, loopVars>>

\* Every copy of the workflow's record that may be written carries the request.
Carried(copies) == \A k \in DOMAIN copies : k[2] = 0 => copies[k] = Absent \/ copies[k].cancel

InTurn == at \in {"developing", "reviewing"} /\ todo = <<>>

Cancel(c) == \/ CancelLoad(c, 0) /\ UNCHANGED loopVars
             \/ /\ CancelWrite(c, 0)
                /\ promised' = (promised \/ (InTurn /\ record'[0].cancel /\ Carried(held')))
                /\ UNCHANGED <<at, todo, lap, attempt, verdict, beating>>

\* Only what is not about to be written grows old: the workflow's record
\* during a turn and after the loop, a run's without its heartbeat thread.
Age(r) == /\ record[r].status = "running" /\ r \notin silent
          /\ IF r = 0 THEN InTurn \/ (at \in {"over", "dead"} /\ todo = <<>>)
                      ELSE r \notin beating /\ ~Holds(Beat[r], r) /\ (r = lap => at # "developing")
          /\ silent' = silent \cup {r}
          /\ UNCHANGED <<record, held, stale, asked, loopVars>>

\* With the server die its threads: the loop, the heartbeats, the requests of
\* clients and the watchdog.  A restarted server answers later requests and
\* starts another watchdog.
Die == /\ Mortal /\ at # "dead"
       /\ at' = "dead"
       /\ todo' = <<>>
       /\ beating' = {}
       /\ held' = <<>>
       /\ stale' = {}
       /\ UNCHANGED <<record, silent, asked, lap, attempt, verdict, promised>>

-----------------------------------------------------------------------------

Next == \/ LoopStep
        \/ \E k \in 1..MaxRounds : BeatLoad(k) \/ BeatWrite(k)
        \/ \E c \in Clients : Cancel(c)
        \/ WatchdogStep /\ UNCHANGED loopVars
        \/ \E r \in Runs : Age(r)
        \/ Die

\* Threads run, turns have timeouts, time passes and the server's watchdog
\* wakes every two minutes.
Spec == /\ Init /\ [][Next]_vars
        /\ WF_vars(LoopStep)
        /\ \A k \in 1..MaxRounds : WF_vars(BeatWrite(k))
        /\ \A c \in Clients : WF_vars(CancelWrite(c, 0) /\ Cancel(c))
        /\ WF_vars(WatchdogStep /\ UNCHANGED loopVars)
        /\ \A r \in Runs : WF_vars(Age(r))
====
