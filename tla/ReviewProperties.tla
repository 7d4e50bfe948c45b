---- MODULE ReviewProperties ----
(***************************************************************************)
(* What the review loop, its executor runs and their records are expected  *)
(* to keep true, whoever else writes the records.                          *)
(***************************************************************************)
EXTENDS ReviewLoop

Updates == [run : Runs, op : {"start", "open", "touch"} \cup Statuses]

Elements(seq) == {seq[i] : i \in 1..Len(seq)}

TypeOK == /\ record \in [Runs -> RunRecord]
          /\ DOMAIN held \subseteq Writers \X Runs
          /\ \A k \in DOMAIN held : held[k] \in RunRecord
          /\ silent \subseteq Runs /\ stale \subseteq Runs /\ asked \subseteq Clients
          /\ at \in Places
          /\ todo \in Seq(Updates)
          /\ lap \in 0..MaxRounds
          /\ verdict \in Verdicts
          /\ beating \subseteq 1..MaxRounds
          /\ promised \in BOOLEAN

TurnBegins == \/ at = "start" /\ at' = "developing"
              \/ at = "ready" /\ at' = "reviewing"

\* A cancel request that is accepted while the developer or the reviewer works
\* stops the loop before the next turn (request_cancel, _cancelled), unless
\* somebody holds an older copy of the record at that time or the loop cannot
\* read it; heartbeats, watchdog and the loop's own updates carry it along.
CancelHonoured == [][promised' => ~TurnBegins]_vars

\* A record that says completed is true, although every writer writes back all
\* of a copy that may be old: the loop's last verdict was clean, the executor
\* run of the current lap is over and did not fail.
SuccessTruthful ==
    /\ record[0].status = "completed" => verdict = "clean" /\ at \in {"over", "dead"}
    /\ \A k \in 1..MaxRounds : record[k].status = "completed" =>
          /\ k <= lap
          /\ k = lap => at \notin {"start", "developing"} /\ verdict # "failed"

\* When a record of r may say completed.
MayComplete(r) ==
    IF r = 0 THEN verdict = "clean" /\ at \in {"over", "dead"}
             ELSE r <= lap /\ (r = lap => at \notin {"start", "developing"} /\ verdict # "failed")

\* The thread of the loop holds a record only to make the update that is next.
MainInv == \A r \in Runs : Holds(Main, r) =>
               todo # <<>> /\ Head(todo).op # "start" /\ Head(todo).run = r

\* The inductive invariant behind SuccessTruthful: a completed record is true in
\* every copy somebody may write, and among the updates still to be made.
TruthInv ==
    /\ TypeOK /\ MainInv
    /\ at \in {"start", "developing"} => lap # 0
    /\ \A r \in Runs : record[r].status = "completed" => MayComplete(r)
    /\ \A k \in DOMAIN held : held[k].status = "completed" => MayComplete(k[2])
    /\ \A u \in Elements(todo) : u.op = "completed" => MayComplete(u.run)

\* The inductive invariant behind CancelHonoured: every copy carries the request,
\* and the loop is past the updates that would start the record anew.
PromiseInv ==
    promised => /\ at \notin {"new", "start"}
                /\ record[0].cancel
                /\ Carried(held)
                /\ Update(0, "start") \notin Elements(todo)

\* No record says running for ever: not after a crash, a heartbeat that
\* overtakes finish, a cancel request that brings back an old status or a
\* write that failed, thanks to the watchdog.  The exception is an executor run
\* that raised in a server that lives on, whose heartbeat nobody stops.
RecordsClose ==
    \A r \in Runs : <>[](record[r].status # "running" \/ (at = "over" /\ r \in beating))
====
