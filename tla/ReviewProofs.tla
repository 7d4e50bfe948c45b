---- MODULE ReviewProofs ----
(***************************************************************************)
(* Theorems about the review loop and the records it shares with clients,  *)
(* heartbeats and the watchdog, for any number of rounds, executors and    *)
(* clients, whatever interleaves, fails to be written or dies: a record    *)
(* that says completed is true, and an accepted cancel is not lost.        *)
(***************************************************************************)
EXTENDS ReviewProperties, SequenceTheorems, TLAPS

-----------------------------------------------------------------------------
(* Sequences of updates *)

LEMMA ElementsEmpty == Elements(<<>>) = {}
BY DEF Elements

LEMMA ElementsOne == ASSUME NEW a PROVE Elements(<<a>>) = {a}
BY DEF Elements

LEMMA ElementsTwo == ASSUME NEW a, NEW b PROVE Elements(<<a, b>>) = {a, b}
<1>1. 1..Len(<<a, b>>) = {1, 2}
  OBVIOUS
<1> QED BY <1>1 DEF Elements

LEMMA ElementsThree ==
    ASSUME NEW a, NEW b, NEW c PROVE Elements(<<a, b, c>>) = {a, b, c}
<1>1. 1..Len(<<a, b, c>>) = {1, 2, 3}
  OBVIOUS
<1> QED BY <1>1 DEF Elements

LEMMA ElementsConcat ==
    ASSUME NEW S, NEW s \in Seq(S), NEW t \in Seq(S)
    PROVE s \o t \in Seq(S) /\ Elements(s \o t) = Elements(s) \cup Elements(t)
<1>1. /\ s \o t \in Seq(S)
      /\ Len(s) \in Nat /\ Len(t) \in Nat
      /\ Len(s \o t) = Len(s) + Len(t)
      /\ \A i \in 1 .. Len(s) + Len(t) :
            (s \o t)[i] = IF i <= Len(s) THEN s[i] ELSE t[i - Len(s)]
  BY ConcatProperties, LenProperties
<1>2. ASSUME NEW i \in 1..Len(s) PROVE s[i] = (s \o t)[i] /\ i \in 1..Len(s \o t)
  BY <1>1
<1>3. ASSUME NEW i \in 1..Len(t)
      PROVE t[i] = (s \o t)[i + Len(s)] /\ i + Len(s) \in 1..Len(s \o t)
  BY <1>1
<1>4. ASSUME NEW i \in 1..Len(s \o t), i > Len(s)
      PROVE (s \o t)[i] = t[i - Len(s)] /\ i - Len(s) \in 1..Len(t)
  BY <1>1, <1>4
<1>5. ASSUME NEW i \in 1..Len(s \o t), ~(i > Len(s))
      PROVE (s \o t)[i] = s[i] /\ i \in 1..Len(s)
  BY <1>1, <1>5
<1>6. Elements(s) \subseteq Elements(s \o t) /\ Elements(t) \subseteq Elements(s \o t)
  BY <1>2, <1>3 DEF Elements
<1>7. Elements(s \o t) \subseteq Elements(s) \cup Elements(t)
  BY <1>4, <1>5 DEF Elements
<1> QED BY <1>1, <1>6, <1>7

LEMMA ElementsTail ==
    ASSUME NEW S, NEW s \in Seq(S), s # <<>>
    PROVE /\ Head(s) \in Elements(s) /\ Head(s) \in S
          /\ Tail(s) \in Seq(S) /\ Elements(Tail(s)) \subseteq Elements(s)
<1>1. /\ Head(s) \in S /\ Tail(s) \in Seq(S)
      /\ Len(Tail(s)) = Len(s) - 1
      /\ \A i \in 1 .. Len(Tail(s)) : Tail(s)[i] = s[i+1]
      /\ Len(s) \in Nat \ {0}
  BY HeadTailProperties, EmptySeq
<1>2. Head(s) = s[1]
  OBVIOUS
<1>3. ASSUME NEW i \in 1..Len(Tail(s)) PROVE Tail(s)[i] \in Elements(s)
  <2>1. i + 1 \in 1..Len(s) /\ Tail(s)[i] = s[i + 1]
    BY <1>1
  <2> QED BY <2>1 DEF Elements
<1> QED BY <1>1, <1>2, <1>3 DEF Elements

\* What the loop's updates consist of.
LEMMA UpdateType ==
    /\ Touch \in Updates /\ Touch.op = "touch" /\ Twice \in Seq(Updates)
    /\ Elements(Twice) = {Touch}
    /\ \A r \in Runs, op \in {"start", "open", "touch"} \cup Statuses :
          /\ Update(r, op) \in Updates
          /\ Update(r, op).run = r /\ Update(r, op).op = op
<1>1. 0 \in Runs
  BY LoopAssumption
<1>2. \A r \in Runs, op \in {"start", "open", "touch"} \cup Statuses :
          /\ Update(r, op) \in Updates
          /\ Update(r, op).run = r /\ Update(r, op).op = op
  BY DEF Update, Updates
<1>3. Touch \in Updates /\ Touch.op = "touch"
  BY <1>1, <1>2 DEF Touch
<1>4. Twice \in Seq(Updates) /\ Elements(Twice) = {Touch}
  BY <1>3, ElementsTwo DEF Twice
<1> QED BY <1>2, <1>3, <1>4

LEMMA ClosingType ==
    ASSUME NEW status \in {"completed", "failed"}, NEW updates \in Closing(status)
    PROVE /\ updates \in Seq(Updates)
          /\ Elements(updates) = {Touch, Update(0, status)}
<1>1. Update(0, status) \in Updates /\ Touch \in Updates
  BY UpdateType, LoopAssumption DEF Statuses
<1> DEFINE U == Update(0, status)
<1>2. updates = <<Touch, U>> \/ updates = <<Touch, U, U>>
  BY DEF Closing
<1> HIDE DEF U
<1>3. CASE updates = <<Touch, U>>
  BY <1>1, <1>3, ElementsTwo DEF U
<1>4. CASE updates = <<Touch, U, U>>
  BY <1>1, <1>4, ElementsThree DEF U
<1> QED BY <1>2, <1>3, <1>4

-----------------------------------------------------------------------------
(* Loads and writes *)

LEMMA AbsentRecord == Absent \in RunRecord /\ Absent.status = "absent" /\ ~Absent.cancel
BY DEF Absent, RunRecord

LEMMA Loads ==
    ASSUME TypeOK, NEW w \in Writers, NEW r \in Runs, Load(w, r)
    PROVE /\ DOMAIN held' = DOMAIN held \cup {<<w, r>>}
          /\ held'[<<w, r>>] \in {record[r], Absent}
          /\ \A k \in DOMAIN held : held'[k] = held[k]
<1>1. PICK rec \in {record[r], Absent} :
         held' = [k \in DOMAIN held \cup {<<w, r>>} |->
                     IF k = <<w, r>> THEN rec ELSE held[k]]
  BY DEF Load, Read
<1>2. <<w, r>> \notin DOMAIN held
  BY DEF Load, Holds
<1> QED BY <1>1, <1>2

LEMMA Writes ==
    ASSUME TypeOK, NEW w, NEW r \in Runs, NEW new, Write(w, r, new)
    PROVE /\ <<w, r>> \in DOMAIN held
          /\ DOMAIN held' = DOMAIN held \ {<<w, r>>}
          /\ \A k \in DOMAIN held' : held'[k] = held[k]
          /\ record' = record \/ record' = [record EXCEPT ![r] = new]
          /\ held[<<w, r>>] = Absent => record' = record
          /\ silent' \subseteq silent
BY DEF Write, Holds, Without, Save

-----------------------------------------------------------------------------
(* Records, copies and clients *)

\* Somebody loads a record for an update; the loop does for its next one only.
LEMMA LoadTruth ==
    ASSUME TruthInv, NEW w \in Writers, NEW r \in Runs, Load(w, r),
           w = Main => todo # <<>> /\ Head(todo).op # "start" /\ Head(todo).run = r,
           UNCHANGED <<record, silent, stale>>, asked' \subseteq Clients,
           UNCHANGED <<at, todo, lap, verdict, beating>>, promised' \in BOOLEAN
    PROVE TruthInv'
<1>1. /\ DOMAIN held' = DOMAIN held \cup {<<w, r>>}
      /\ held'[<<w, r>>] \in {record[r], Absent}
      /\ \A k \in DOMAIN held : held'[k] = held[k]
  BY Loads DEF TruthInv
<1>2. TypeOK'
  BY <1>1, AbsentRecord DEF TruthInv, TypeOK
<1>3. MainInv'
  BY <1>1 DEF TruthInv, MainInv, Holds
<1>4. \A k \in DOMAIN held' : held'[k].status = "completed" => MayComplete(k[2])
  BY <1>1, AbsentRecord DEF TruthInv
<1> QED BY <1>2, <1>3, <1>4 DEF TruthInv, MayComplete

LEMMA LoadPromise ==
    ASSUME TruthInv, PromiseInv, NEW w \in Writers, NEW r \in Runs, Load(w, r),
           record' = record, UNCHANGED <<at, todo, promised>>
    PROVE PromiseInv'
<1>1. /\ DOMAIN held' = DOMAIN held \cup {<<w, r>>}
      /\ held'[<<w, r>>] \in {record[r], Absent}
      /\ \A k \in DOMAIN held : held'[k] = held[k]
  BY Loads DEF TruthInv
<1> QED BY <1>1 DEF PromiseInv, Carried

\* Somebody writes back a copy with a status that does not claim success.
LEMMA WriteTruth ==
    ASSUME TruthInv, NEW w \in Writers, NEW r \in Runs, NEW new \in RunRecord,
           Write(w, r, new), new.status = "completed" => MayComplete(r),
           todo' = todo \/ (w = Main /\ todo # <<>> /\ Head(todo).run = r /\ todo' = Tail(todo)),
           stale' \subseteq Runs, asked' = asked,
           UNCHANGED <<at, lap, verdict, beating>>, promised' \in BOOLEAN
    PROVE TruthInv'
<1>1. /\ <<w, r>> \in DOMAIN held
      /\ DOMAIN held' = DOMAIN held \ {<<w, r>>}
      /\ \A k \in DOMAIN held' : held'[k] = held[k]
      /\ record' = record \/ record' = [record EXCEPT ![r] = new]
      /\ silent' \subseteq silent
  BY Writes DEF TruthInv
<1>2. /\ todo' \in Seq(Updates)
      /\ Elements(todo') \subseteq Elements(todo)
  BY ElementsTail DEF TruthInv, TypeOK
<1>3. record' \in [Runs -> RunRecord]
      /\ \A q \in Runs : record'[q].status = "completed" => MayComplete(q)
  BY <1>1 DEF TruthInv, TypeOK
<1>4. TypeOK'
  BY <1>1, <1>2, <1>3 DEF TruthInv, TypeOK
<1>5. MainInv'
  <2> SUFFICES ASSUME NEW q \in Runs, <<Main, q>> \in DOMAIN held'
               PROVE todo' # <<>> /\ Head(todo').op # "start" /\ Head(todo').run = q
    BY DEF MainInv, Holds
  <2>1. todo # <<>> /\ Head(todo).op # "start" /\ Head(todo).run = q
    BY <1>1 DEF TruthInv, MainInv, Holds
  <2>2. todo' = todo
    BY <1>1, <2>1
  <2> QED BY <2>1, <2>2
<1>6. \A k \in DOMAIN held' : held'[k].status = "completed" => MayComplete(k[2])
  BY <1>1 DEF TruthInv
<1>7. \A u \in Elements(todo') : u.op = "completed" => MayComplete(u.run)
  BY <1>2 DEF TruthInv
<1> QED BY <1>3, <1>4, <1>5, <1>6, <1>7 DEF TruthInv, MayComplete

LEMMA WritePromise ==
    ASSUME TruthInv, PromiseInv, NEW w \in Writers, NEW r \in Runs, NEW new,
           Write(w, r, new), held[<<w, r>>].cancel => new.cancel,
           Elements(todo') \subseteq Elements(todo), UNCHANGED <<at, promised>>
    PROVE PromiseInv'
<1>1. /\ <<w, r>> \in DOMAIN held
      /\ DOMAIN held' = DOMAIN held \ {<<w, r>>}
      /\ \A k \in DOMAIN held' : held'[k] = held[k]
      /\ record' = record \/ record' = [record EXCEPT ![r] = new]
      /\ held[<<w, r>>] = Absent => record' = record
  BY Writes DEF TruthInv
<1>2. SUFFICES ASSUME promised PROVE PromiseInv'
  BY DEF PromiseInv
<1>3. record[0].cancel /\ Carried(held)
  BY <1>2 DEF PromiseInv
<1>4. r = 0 => held[<<w, r>>] = Absent \/ new.cancel
  BY <1>1, <1>3 DEF Carried
<1>5. record'[0].cancel
  BY <1>1, <1>3, <1>4, LoopAssumption DEF TruthInv, TypeOK
<1>6. Carried(held')
  BY <1>1, <1>3 DEF Carried
<1> QED BY <1>1, <1>2, <1>3, <1>5, <1>6 DEF PromiseInv

ReviewInv == TruthInv /\ PromiseInv

\* A heartbeat loads its run's record, or writes back what it has loaded.
LEMMA BeatStep ==
    ASSUME ReviewInv, NEW k \in 1..MaxRounds, BeatLoad(k) \/ BeatWrite(k)
    PROVE ReviewInv'
<1>1. k \in Runs /\ Beat[k] \in Writers /\ Beat[k] # Main
  BY LoopAssumption, MainAssumption DEF Writers
<1>2. CASE BeatLoad(k)
  <2>1. Load(Beat[k], k) /\ UNCHANGED <<record, silent, stale, asked, loopVars>>
    BY <1>2 DEF BeatLoad
  <2>2. asked' \subseteq Clients /\ promised' \in BOOLEAN
    BY <2>1 DEF ReviewInv, TruthInv, TypeOK, loopVars
  <2>3. TruthInv'
    BY <1>1, <2>1, <2>2, LoadTruth DEF ReviewInv, loopVars
  <2>4. PromiseInv'
    BY <1>1, <2>1, LoadPromise DEF ReviewInv, loopVars
  <2> QED BY <2>3, <2>4 DEF ReviewInv
<1>3. CASE BeatWrite(k)
  <2>1. /\ <<Beat[k], k>> \in DOMAIN held
        /\ Write(Beat[k], k, held[<<Beat[k], k>>])
        /\ UNCHANGED <<stale, asked, loopVars>>
    BY <1>3 DEF BeatWrite, Holds
  <2>2. /\ held[<<Beat[k], k>>] \in RunRecord
        /\ held[<<Beat[k], k>>].status = "completed" => MayComplete(k)
    BY <2>1 DEF ReviewInv, TruthInv, TypeOK
  <2>3. stale' \subseteq Runs /\ promised' \in BOOLEAN
    BY <2>1 DEF ReviewInv, TruthInv, TypeOK, loopVars
  <2>4. TruthInv'
    BY <1>1, <2>1, <2>2, <2>3, WriteTruth DEF ReviewInv, loopVars
  <2>5. PromiseInv'
    BY <1>1, <2>1, WritePromise DEF ReviewInv, loopVars
  <2> QED BY <2>4, <2>5 DEF ReviewInv
<1> QED BY <1>2, <1>3

\* A client asks to cancel the workflow.
LEMMA CancelStep ==
    ASSUME ReviewInv, NEW c \in Clients, Cancel(c)
    PROVE ReviewInv'
<1>1. 0 \in Runs /\ c \in Writers /\ c # Main
  BY LoopAssumption, MainAssumption DEF Writers
<1>2. CASE CancelLoad(c, 0) /\ UNCHANGED loopVars
  <2>1. UNCHANGED <<record, silent, stale, loopVars>> /\ asked' = asked \cup {c}
    BY <1>2 DEF CancelLoad
  <2>2. asked' \subseteq Clients /\ promised' \in BOOLEAN
    BY <2>1 DEF ReviewInv, TruthInv, TypeOK, loopVars
  <2>3. CASE Load(c, 0)
    <3>1. TruthInv'
      BY <1>1, <2>1, <2>2, <2>3, LoadTruth DEF ReviewInv, loopVars
    <3>2. PromiseInv'
      BY <1>1, <2>1, <2>3, LoadPromise DEF ReviewInv, loopVars
    <3> QED BY <3>1, <3>2 DEF ReviewInv
  <2>4. CASE UNCHANGED held
    BY <2>1, <2>2, <2>4
       DEF ReviewInv, TruthInv, PromiseInv, TypeOK, MainInv, Holds, Carried, MayComplete,
           loopVars
  <2> QED BY <1>2, <2>3, <2>4 DEF CancelLoad
<1>3. ASSUME CancelWrite(c, 0),
             promised' = (promised \/ (InTurn /\ record'[0].cancel /\ Carried(held'))),
             UNCHANGED <<at, todo, lap, attempt, verdict, beating>>
      PROVE ReviewInv'
  <2> DEFINE new == [held[<<c, 0>>] EXCEPT !.cancel = TRUE]
  <2>1. <<c, 0>> \in DOMAIN held /\ Write(c, 0, new) /\ UNCHANGED <<stale, asked>>
    BY <1>3 DEF CancelWrite, Holds
  <2>2. /\ new \in RunRecord /\ new.cancel
        /\ new.status = "completed" => MayComplete(0)
    BY <2>1 DEF ReviewInv, TruthInv, TypeOK, RunRecord
  <2>3. stale' \subseteq Runs /\ promised' \in BOOLEAN
    BY <1>3, <2>1 DEF ReviewInv, TruthInv, TypeOK, InTurn, loopVars
  <2> HIDE DEF new
  <2>4. TruthInv'
    BY <1>1, <1>3, <2>1, <2>2, <2>3, WriteTruth DEF ReviewInv
  <2>5. CASE promised' = promised
    <3>1. PromiseInv'
      BY <1>1, <1>3, <2>1, <2>2, <2>5, WritePromise DEF ReviewInv
    <3> QED BY <2>4, <3>1 DEF ReviewInv
  <2>6. CASE InTurn /\ record'[0].cancel /\ Carried(held')
    <3>1. /\ at' \in {"developing", "reviewing"}
          /\ todo' = <<>>
      BY <1>3, <2>6 DEF InTurn
    <3>2. Elements(todo') = {}
      BY <3>1, ElementsEmpty
    <3>3. PromiseInv'
      BY <2>6, <3>1, <3>2 DEF PromiseInv, Carried
    <3> QED BY <2>4, <3>3 DEF ReviewInv
  <2>7. CASE ~(InTurn /\ record'[0].cancel /\ Carried(held'))
    <3>1. promised' = promised
      BY <1>3, <2>7 DEF ReviewInv, TruthInv, TypeOK
    <3> QED BY <2>5, <3>1
  <2> QED BY <2>6, <2>7
<1> QED BY <1>2, <1>3 DEF Cancel

\* The watchdog lists silent runs and marks them as stale.
LEMMA WatchStep ==
    ASSUME ReviewInv, WatchdogStep, UNCHANGED loopVars
    PROVE ReviewInv'
<1>1. Watchdog \in Writers /\ Watchdog # Main
  BY MainAssumption DEF Writers
<1>2. promised' \in BOOLEAN
  BY DEF ReviewInv, TruthInv, TypeOK, loopVars
<1>3. CASE Scan
  BY <1>3
     DEF Scan, ReviewInv, TruthInv, PromiseInv, TypeOK, MainInv, Holds, Carried,
         MayComplete, loopVars
<1>4. ASSUME NEW r \in Runs, ReapLoad(r) PROVE ReviewInv'
  <2>1. Load(Watchdog, r) /\ UNCHANGED <<record, silent, stale, asked>>
    BY <1>4 DEF ReapLoad
  <2>2. asked' \subseteq Clients
    BY <2>1 DEF ReviewInv, TruthInv, TypeOK
  <2>3. TruthInv'
    BY <1>1, <1>2, <2>1, <2>2, LoadTruth DEF ReviewInv, loopVars
  <2>4. PromiseInv'
    BY <1>1, <2>1, LoadPromise DEF ReviewInv, loopVars
  <2> QED BY <2>3, <2>4 DEF ReviewInv
<1>5. ASSUME NEW r \in Runs, ReapWrite(r) PROVE ReviewInv'
  <2> DEFINE new == [held[<<Watchdog, r>>] EXCEPT !.status = "stale"]
  <2>1. /\ <<Watchdog, r>> \in DOMAIN held /\ Write(Watchdog, r, new)
        /\ stale' = stale \ {r} /\ asked' = asked
    BY <1>5 DEF ReapWrite, Holds
  <2>2. /\ new \in RunRecord /\ new.status = "stale"
        /\ new.cancel = held[<<Watchdog, r>>].cancel
    BY <2>1 DEF ReviewInv, TruthInv, TypeOK, RunRecord, Statuses
  <2>3. stale' \subseteq Runs
    BY <2>1 DEF ReviewInv, TruthInv, TypeOK
  <2> HIDE DEF new
  <2>4. TruthInv'
    BY <1>1, <1>2, <2>1, <2>2, <2>3, WriteTruth DEF ReviewInv, loopVars
  <2>5. PromiseInv'
    BY <1>1, <2>1, <2>2, WritePromise DEF ReviewInv, loopVars
  <2> QED BY <2>4, <2>5 DEF ReviewInv
<1> QED BY <1>3, <1>4, <1>5 DEF WatchdogStep

-----------------------------------------------------------------------------
(* Updates of the loop *)

\* start replaces the record; the loop holds no copy then.
LEMMA StartStep ==
    ASSUME ReviewInv, StartRecord
    PROVE ReviewInv'
<1> DEFINE u == Head(todo)
<1>1. /\ u \in Updates /\ u \in Elements(todo) /\ u.op = "start"
      /\ Tail(todo) \in Seq(Updates) /\ Elements(Tail(todo)) \subseteq Elements(todo)
  BY ElementsTail DEF StartRecord, ReviewInv, TruthInv, TypeOK
<1>2. u.run \in Runs /\ u = Update(u.run, "start")
  BY <1>1 DEF Updates, Update
<1>3. /\ record' = record \/ record' = [record EXCEPT ![u.run] = Started]
      /\ silent' \subseteq silent
      /\ todo' = Tail(todo)
      /\ UNCHANGED <<held, stale, asked, at, lap, attempt, verdict, beating, promised>>
  BY DEF StartRecord, Save
<1>4. Started \in RunRecord /\ Started.status = "running"
  BY DEF Started, Absent, RunRecord, Statuses
<1>5. \A r \in Runs : ~Holds(Main, r)
  BY <1>1 DEF ReviewInv, TruthInv, MainInv
<1> HIDE DEF u
<1>6. /\ record' \in [Runs -> RunRecord]
      /\ \A q \in Runs : record'[q].status = "completed" => MayComplete(q)
  BY <1>2, <1>3, <1>4 DEF ReviewInv, TruthInv, TypeOK
<1>7. TypeOK'
  BY <1>1, <1>3, <1>6 DEF ReviewInv, TruthInv, TypeOK
<1>8. MainInv'
  BY <1>3, <1>5 DEF MainInv, Holds
<1>9. TruthInv'
  BY <1>1, <1>3, <1>6, <1>7, <1>8 DEF ReviewInv, TruthInv, MayComplete
<1>10. PromiseInv'
  <2> SUFFICES ASSUME promised PROVE PromiseInv'
    BY <1>3 DEF PromiseInv
  <2>1. record[0].cancel /\ Update(0, "start") \notin Elements(todo)
    BY DEF ReviewInv, PromiseInv
  <2>2. u.run # 0
    BY <1>1, <1>2, <2>1
  <2>3. record'[0].cancel
    BY <1>2, <1>3, <2>1, <2>2, LoopAssumption DEF ReviewInv, TruthInv, TypeOK
  <2> QED BY <1>1, <1>3, <2>1, <2>3 DEF ReviewInv, PromiseInv, Carried
<1> QED BY <1>9, <1>10 DEF ReviewInv

LEMMA LoadStep ==
    ASSUME ReviewInv, LoadRecord
    PROVE ReviewInv'
<1>1. Head(todo) \in Updates
  BY ElementsTail DEF LoadRecord, ReviewInv, TruthInv, TypeOK
<1>2. Head(todo).run \in Runs /\ Main \in Writers
  BY <1>1, LoopAssumption DEF Updates, Writers
<1>3. /\ todo # <<>> /\ Head(todo).op # "start" /\ Load(Main, Head(todo).run)
      /\ UNCHANGED <<record, silent, stale, asked, loopVars>>
  BY DEF LoadRecord
<1>4. asked' \subseteq Clients /\ promised' \in BOOLEAN
  BY <1>3 DEF ReviewInv, TruthInv, TypeOK, loopVars
<1>5. TruthInv'
  BY <1>2, <1>3, <1>4, LoadTruth DEF ReviewInv, loopVars
<1>6. PromiseInv'
  BY <1>2, <1>3, LoadPromise DEF ReviewInv, loopVars
<1> QED BY <1>5, <1>6 DEF ReviewInv

\* What the loop writes: the copy it holds with the next update's status.
LEMMA UpdatedRecord ==
    ASSUME NEW op \in {"open", "touch"} \cup Statuses, NEW rec \in RunRecord
    PROVE /\ Updated(op, rec) \in RunRecord
          /\ Updated(op, rec).cancel = rec.cancel
          /\ Updated(op, rec).status = "completed" =>
                op = "completed" \/ rec.status = "completed"
<1>1. CASE op = "open"
  BY <1>1 DEF Updated, RunRecord
<1>2. CASE op = "touch"
  BY <1>2 DEF Updated, Statuses
<1>3. CASE op \in Statuses
  <2>1. op # "open" /\ op # "touch"
    BY <1>3 DEF Statuses
  <2>2. Updated(op, rec) = [rec EXCEPT !.status = op]
    BY <1>3, <2>1 DEF Updated
  <2> QED BY <1>3, <2>2 DEF RunRecord
<1> QED BY <1>1, <1>2, <1>3

LEMMA WriteStep ==
    ASSUME ReviewInv, WriteRecord
    PROVE ReviewInv'
<1> DEFINE u == Head(todo)
           old == held[<<Main, u.run>>]
           new == Updated(u.op, old)
<1>1. /\ todo # <<>> /\ <<Main, u.run>> \in DOMAIN held /\ Write(Main, u.run, new)
      /\ todo' = Tail(todo)
      /\ UNCHANGED <<stale, asked, at, lap, attempt, verdict, beating, promised>>
  BY DEF WriteRecord, Holds
<1>2. /\ u \in Updates /\ u \in Elements(todo)
      /\ Elements(Tail(todo)) \subseteq Elements(todo)
  BY <1>1, ElementsTail DEF ReviewInv, TruthInv, TypeOK
<1>3. u.run \in Runs /\ Main \in Writers
  BY <1>2, LoopAssumption DEF Updates, Writers
<1>4. u.op # "start"
  BY <1>1, <1>3 DEF ReviewInv, TruthInv, MainInv, Holds
<1>5. u.op \in {"open", "touch"} \cup Statuses
  BY <1>2, <1>4 DEF Updates
<1>6. /\ old \in RunRecord
      /\ old.status = "completed" => MayComplete(u.run)
  BY <1>1 DEF ReviewInv, TruthInv, TypeOK
<1>7. u.op = "completed" => MayComplete(u.run)
  BY <1>2 DEF ReviewInv, TruthInv
<1>8. /\ new \in RunRecord /\ new.cancel = old.cancel
      /\ new.status = "completed" => MayComplete(u.run)
  BY <1>5, <1>6, <1>7, UpdatedRecord
<1>9. stale' \subseteq Runs /\ promised' \in BOOLEAN
  BY <1>1 DEF ReviewInv, TruthInv, TypeOK
<1> HIDE DEF new
<1>10. TruthInv'
  BY <1>1, <1>3, <1>8, <1>9, WriteTruth DEF ReviewInv
<1>11. PromiseInv'
  BY <1>1, <1>2, <1>3, <1>8, WritePromise DEF ReviewInv
<1> QED BY <1>10, <1>11 DEF ReviewInv

-----------------------------------------------------------------------------
(* The loop goes on *)

\* With all updates made the loop holds no copy, so a step that leaves the
\* records alone has to answer for its place, its verdict and its new updates.
LEMMA LoopFrame ==
    ASSUME ReviewInv, todo = <<>>, UNCHANGED trackerVars,
           promised' \in BOOLEAN, promised' => promised,
           at' \in Places, lap' \in 0..MaxRounds, verdict' \in Verdicts,
           beating' \subseteq 1..MaxRounds, todo' \in Seq(Updates),
           \A r \in Runs : MayComplete(r) => MayComplete(r)',
           \A u \in Elements(todo') : u.op = "completed" => MayComplete(u.run)',
           at' \in {"start", "developing"} => lap' # 0,
           promised' => at' \notin {"new", "start"} /\ Update(0, "start") \notin Elements(todo')
    PROVE ReviewInv'
<1>1. UNCHANGED <<record, held, silent, stale, asked>>
  BY DEF trackerVars
<1>2. TypeOK'
  BY <1>1 DEF ReviewInv, TruthInv, TypeOK
<1>3. MainInv'
  BY <1>1 DEF ReviewInv, TruthInv, MainInv, Holds
<1>4. \A k \in DOMAIN held : k[2] \in Runs
  BY DEF ReviewInv, TruthInv, TypeOK
<1>5. \A r \in Runs : record'[r].status = "completed" => MayComplete(r)'
  BY <1>1 DEF ReviewInv, TruthInv
<1>6. \A k \in DOMAIN held' : held'[k].status = "completed" => MayComplete(k[2])'
  BY <1>1, <1>4 DEF ReviewInv, TruthInv
<1>7. TruthInv'
  BY <1>2, <1>3, <1>5, <1>6 DEF TruthInv, MayComplete
<1>8. PromiseInv'
  BY <1>1 DEF ReviewInv, PromiseInv, Carried
<1> QED BY <1>7, <1>8 DEF ReviewInv

\* The facts the steps of the loop need of the state they start in.
LEMMA GoFacts ==
    ASSUME ReviewInv, NEW from, NEW to, NEW updates, Go(from, to, updates)
    PROVE /\ at = from /\ todo = <<>> /\ at' = to /\ todo' = updates
          /\ UNCHANGED trackerVars
          /\ lap \in 0..MaxRounds /\ verdict \in Verdicts /\ beating \subseteq 1..MaxRounds
          /\ at \in {"start", "developing"} => lap # 0
          /\ promised => at \notin {"new", "start"} /\ Cancelled
          /\ promised \in BOOLEAN
BY DEF ReviewInv, TruthInv, PromiseInv, TypeOK, Go, Cancelled

LEMMA LoopFacts ==
    ASSUME ReviewInv, NEW from, NEW to, NEW updates, Loop(from, to, updates)
    PROVE /\ at = from /\ todo = <<>> /\ at' = to /\ todo' = updates
          /\ UNCHANGED trackerVars
          /\ promised' = promised /\ promised' \in BOOLEAN
          /\ lap \in 0..MaxRounds /\ verdict \in Verdicts /\ beating \subseteq 1..MaxRounds
          /\ at \in {"start", "developing"} => lap # 0
          /\ promised => at \notin {"new", "start"} /\ Cancelled
BY GoFacts DEF Loop

\* A step that sees no cancel breaks no promise: it keeps or ends it.
LEMMA UnseenFacts ==
    ASSUME ReviewInv, Unseen
    PROVE promised' \in BOOLEAN /\ ~promised'
<1>1. promised \in BOOLEAN
  BY DEF ReviewInv, TruthInv, TypeOK
<1>2. promised => Cancelled
  BY DEF ReviewInv, PromiseInv, Cancelled
<1>3. CASE ~Cancelled /\ promised' = promised
  BY ONLY <1>1, <1>2, <1>3, Zenon
<1>4. CASE promised' = FALSE
  BY <1>4
<1> QED BY <1>3, <1>4 DEF Unseen

LEMMA BeginStep == ASSUME ReviewInv, Begin PROVE ReviewInv'
<1> DEFINE updates == <<Update(0, "start"), Update(0, "start"), Update(0, "open"),
                        Touch, Touch, Touch>>
<1>1. Loop("new", "top", updates) /\ UNCHANGED <<lap, attempt, verdict, beating>>
  BY DEF Begin
<1>2. 1..Len(updates) = {1, 2, 3, 4, 5, 6}
  OBVIOUS
<1>3. 0 \in Runs
  BY LoopAssumption
<1>4. /\ updates \in Seq(Updates)
      /\ Elements(updates) = {Update(0, "start"), Update(0, "open"), Touch}
  BY <1>2, <1>3, UpdateType DEF Elements
<1>5. \A u \in Elements(updates) : u.op # "completed"
  BY <1>3, <1>4, UpdateType
<1> HIDE DEF updates
<1>6. at' = "top" /\ "top" \in Places
  BY <1>1, LoopFacts DEF Places
<1>7. \A r \in Runs : MayComplete(r) => MayComplete(r)'
  BY <1>1, <1>6, LoopFacts DEF MayComplete
<1> QED BY <1>1, <1>4, <1>5, <1>6, <1>7, LoopFacts, LoopFrame

\* What an exception leaves to be done.
LEMMA FailingType ==
    ASSUME NEW updates \in Failing
    PROVE updates \in Seq(Updates) /\ Elements(updates) \subseteq {Update(0, "failed")}
<1>1. Update(0, "failed") \in Updates
  BY UpdateType, LoopAssumption DEF Statuses
<1>2. CASE updates = <<>>
  BY <1>2, ElementsEmpty
<1>3. CASE updates = <<Update(0, "failed")>>
  BY <1>1, <1>3, ElementsOne
<1> QED BY <1>2, <1>3 DEF Failing

LEMMA RefuseStep == ASSUME ReviewInv, Refuse PROVE ReviewInv'
<1> DEFINE first == <<Update(0, "start")>>
<1>1. PICK updates \in Failing : Loop("new", "over", first \o updates)
  BY DEF Refuse
<1>2. /\ Update(0, "start") \in Updates /\ Update(0, "start").op = "start"
      /\ Update(0, "failed").op = "failed"
  BY UpdateType, LoopAssumption DEF Statuses
<1>3. first \in Seq(Updates) /\ Elements(first) = {Update(0, "start")}
  BY <1>2, ElementsOne
<1> HIDE DEF first
<1>4. /\ first \o updates \in Seq(Updates)
      /\ Elements(first \o updates) \subseteq {Update(0, "start"), Update(0, "failed")}
  BY <1>3, FailingType, ElementsConcat
<1>5. \A u \in Elements(first \o updates) : u.op # "completed"
  BY <1>2, <1>4
<1>6. at' = "over" /\ "over" \in Places /\ ~promised
  BY <1>1, LoopFacts DEF Places
<1>7. UNCHANGED <<lap, attempt, verdict, beating>>
  BY DEF Refuse
<1>8. \A r \in Runs : MayComplete(r) => MayComplete(r)'
  BY <1>1, <1>6, <1>7, LoopFacts DEF MayComplete
<1> QED BY <1>1, <1>4, <1>5, <1>6, <1>7, <1>8, LoopFacts, LoopFrame

\* Before a lap and before a review: the loop ends as a failure.
LEMMA StopStep ==
    ASSUME ReviewInv, NEW from \in {"top", "ready"}, NEW updates \in Closing("failed"),
           Loop(from, "over", updates), UNCHANGED <<lap, attempt, verdict, beating>>
    PROVE ReviewInv'
<1>1. updates \in Seq(Updates) /\ Elements(updates) = {Touch, Update(0, "failed")}
  BY ClosingType
<1>2. \A u \in Elements(updates) : u.op \in {"touch", "failed"}
  BY <1>1, UpdateType, LoopAssumption DEF Statuses
<1>3. Update(0, "start") \notin Elements(updates)
  BY <1>2, UpdateType, LoopAssumption
<1>4. at' = "over" /\ "over" \in Places
  BY LoopFacts DEF Places
<1>5. \A r \in Runs : MayComplete(r) => MayComplete(r)'
  BY <1>4, LoopFacts DEF MayComplete
<1> QED BY <1>1, <1>2, <1>3, <1>4, <1>5, LoopFacts, LoopFrame

LEMMA NextLapStep == ASSUME ReviewInv, NextLap PROVE ReviewInv'
<1>1. /\ lap < MaxRounds /\ Unseen /\ lap' = lap + 1
      /\ Go("top", "start", Twice) /\ UNCHANGED <<attempt, verdict, beating>>
  BY DEF NextLap
<1>2. at' = "start" /\ "start" \in Places
  BY <1>1, GoFacts DEF Places
<1>3. lap' \in 0..MaxRounds /\ lap' # 0
  BY <1>1, GoFacts, LoopAssumption
<1>4. \A r \in Runs : MayComplete(r) => MayComplete(r)'
  BY <1>1, <1>2, GoFacts, LoopAssumption DEF MayComplete
<1>5. \A u \in Elements(Twice) : u.op # "completed"
  BY UpdateType
<1> QED BY <1>1, <1>2, <1>3, <1>4, <1>5, UpdateType, UnseenFacts, GoFacts, LoopFrame

LEMMA DevelopStep == ASSUME ReviewInv, Develop PROVE ReviewInv'
<1> DEFINE updates == <<Update(lap, "start")>>
<1>1. /\ Loop("start", "developing", updates)
      /\ beating' = beating \cup {lap} /\ UNCHANGED <<lap, verdict>>
  BY DEF Develop
<1>2. lap \in Runs /\ lap \in 1..MaxRounds
  BY <1>1, LoopFacts, LoopAssumption
<1>3. updates \in Seq(Updates) /\ Elements(updates) = {Update(lap, "start")}
  BY <1>2, UpdateType, ElementsOne
<1>4. \A u \in Elements(updates) : u.op # "completed"
  BY <1>2, <1>3, UpdateType
<1> HIDE DEF updates
<1>5. at' = "developing" /\ "developing" \in Places
  BY <1>1, LoopFacts DEF Places
<1>6. \A r \in Runs : MayComplete(r) => MayComplete(r)'
  BY <1>1, <1>5, LoopFacts DEF MayComplete
<1>7. ~promised
  BY <1>1, LoopFacts
<1> QED BY <1>1, <1>2, <1>3, <1>4, <1>5, <1>6, <1>7, LoopFacts, LoopFrame

LEMMA FallBackStep == ASSUME ReviewInv, FallBack PROVE ReviewInv'
BY DEF FallBack, ReviewInv, TruthInv, PromiseInv, TypeOK, MainInv, Holds, Carried,
       MayComplete, trackerVars

\* A run is reported as completed when the executor did not fail.
LEMMA DevelopedStep == ASSUME ReviewInv, Developed PROVE ReviewInv'
<1>1. PICK result \in {"ok", "budget", "failed"} :
         /\ Loop("developing", "developed", <<Update(lap, Report(result))>>)
         /\ verdict' = result
         /\ beating' = beating \ {lap}
         /\ UNCHANGED lap
  BY DEF Developed
<1> DEFINE updates == <<Update(lap, Report(result))>>
<1>2. lap \in Runs /\ lap # 0
  BY <1>1, LoopFacts, LoopAssumption
<1>3. Report(result) \in {"failed", "completed"}
      /\ (Report(result) = "completed" => result # "failed")
  BY DEF Report
<1>4. /\ Update(lap, Report(result)) \in Updates
      /\ Update(lap, Report(result)).run = lap
      /\ Update(lap, Report(result)).op = Report(result)
  BY <1>2, <1>3, UpdateType DEF Statuses
<1>5. /\ updates \in Seq(Updates)
      /\ Elements(updates) = {Update(lap, Report(result))}
  BY <1>4, ElementsOne
<1>6. at' = "developed" /\ "developed" \in Places /\ verdict' \in Verdicts /\ todo' = updates
  BY <1>1, LoopFacts DEF Places, Verdicts
<1>7. \A u \in Elements(updates) : u.op = "completed" => MayComplete(u.run)'
  BY <1>1, <1>2, <1>3, <1>4, <1>5, <1>6, LoopFacts DEF MayComplete
<1> HIDE DEF updates
<1>8. Update(0, "start") \notin Elements(updates)
  <2>1. Update(0, "start").op = "start"
    BY UpdateType, LoopAssumption
  <2>2. Update(lap, Report(result)).op # "start"
    BY <1>3, <1>4
  <2> QED BY <1>5, <2>1, <2>2
<1>9. \A r \in Runs : MayComplete(r) => MayComplete(r)'
  BY <1>1, <1>2, <1>6, LoopFacts DEF MayComplete
<1>10. at = "developing" /\ todo = <<>> /\ UNCHANGED trackerVars
       /\ promised' = promised /\ promised' \in BOOLEAN
       /\ lap' \in 0..MaxRounds /\ beating' \subseteq 1..MaxRounds
  BY <1>1, LoopFacts
<1> QED BY <1>5, <1>6, <1>7, <1>8, <1>9, <1>10, LoopFrame

LEMMA JudgeStep == ASSUME ReviewInv, Judge PROVE ReviewInv'
<1>1. Loop("developed", "ready", <<Touch>>) /\ UNCHANGED <<lap, attempt, verdict, beating>>
  BY DEF Judge
<1>2. <<Touch>> \in Seq(Updates) /\ Elements(<<Touch>>) = {Touch}
  BY UpdateType, ElementsOne
<1>3. \A u \in Elements(<<Touch>>) : u.op \notin {"completed", "start"}
  BY <1>2, UpdateType
<1>4. Update(0, "start") \notin Elements(<<Touch>>)
  BY <1>3, UpdateType, LoopAssumption
<1>5. at' = "ready" /\ "ready" \in Places
  BY <1>1, LoopFacts DEF Places
<1>6. \A r \in Runs : MayComplete(r) => MayComplete(r)'
  BY <1>1, <1>5, LoopFacts DEF MayComplete
<1> QED BY <1>1, <1>2, <1>3, <1>4, <1>5, <1>6, LoopFacts, LoopFrame

\* After a turn: the loop ends, as a success only after a clean verdict.
LEMMA EndStep ==
    ASSUME ReviewInv, NEW from \in {"developed", "reviewing"}, NEW prefix \in {Twice, <<Touch>>},
           NEW status \in {"completed", "failed"}, NEW updates \in Closing(status),
           Loop(from, "over", prefix \o updates), UNCHANGED <<lap, attempt, beating>>,
           verdict' \in Verdicts, verdict' = verdict \/ verdict' # "failed",
           status = "completed" => verdict' = "clean"
    PROVE ReviewInv'
<1>1. prefix \in Seq(Updates) /\ Elements(prefix) = {Touch}
  <2>1. CASE prefix = Twice
    BY <2>1, UpdateType
  <2>2. CASE prefix = <<Touch>>
    BY <2>2, UpdateType, ElementsOne
  <2> QED BY <2>1, <2>2
<1>2. updates \in Seq(Updates) /\ Elements(updates) = {Touch, Update(0, status)}
  BY ClosingType
<1>3. /\ prefix \o updates \in Seq(Updates)
      /\ Elements(prefix \o updates) = {Touch, Update(0, status)}
  BY <1>1, <1>2, ElementsConcat
<1>4. /\ Touch.op = "touch"
      /\ Update(0, status).run = 0 /\ Update(0, status).op = status
      /\ Update(0, "start").op = "start"
  BY UpdateType, LoopAssumption DEF Statuses
<1>5. at' = "over" /\ "over" \in Places
  BY LoopFacts DEF Places
<1>6. \A u \in Elements(prefix \o updates) : u.op = "completed" => MayComplete(u.run)'
  BY <1>3, <1>4, <1>5 DEF MayComplete
<1>7. Update(0, "start") \notin Elements(prefix \o updates)
  BY <1>3, <1>4
<1>8. \A r \in Runs : MayComplete(r) => MayComplete(r)'
  BY <1>5, LoopFacts DEF MayComplete
<1> QED BY <1>3, <1>5, <1>6, <1>7, <1>8, LoopFacts, LoopFrame

LEMMA GiveUpStep == ASSUME ReviewInv, GiveUp PROVE ReviewInv'
<1>1. PICK updates \in Closing("failed") : Loop("developed", "over", Twice \o updates)
  BY DEF GiveUp
<1>2. UNCHANGED <<lap, attempt, verdict, beating>> /\ verdict' \in Verdicts
  BY DEF GiveUp, ReviewInv, TruthInv, TypeOK
<1> QED BY <1>1, <1>2, EndStep

LEMMA ReviewStep == ASSUME ReviewInv, Review PROVE ReviewInv'
<1>1. /\ Unseen /\ Go("ready", "reviewing", Twice)
      /\ UNCHANGED <<lap, attempt, verdict, beating>>
  BY DEF Review
<1>2. \A u \in Elements(Twice) : u.op \notin {"completed", "start"}
  BY UpdateType
<1>3. Update(0, "start") \notin Elements(Twice)
  BY <1>2, UpdateType, LoopAssumption
<1>4. at' = "reviewing" /\ "reviewing" \in Places
  BY <1>1, GoFacts DEF Places
<1>5. \A r \in Runs : MayComplete(r) => MayComplete(r)'
  BY <1>1, <1>4, GoFacts DEF MayComplete
<1> QED BY <1>1, <1>2, <1>3, <1>4, <1>5, UpdateType, UnseenFacts, GoFacts, LoopFrame

\* The workflow is reported as completed on a clean verdict only.
LEMMA ReviewedStep == ASSUME ReviewInv, Reviewed PROVE ReviewInv'
<1>1. PICK v \in {"clean", "blocking", "error"} :
        /\ CASE v = "blocking" -> Loop("reviewing", "top", Twice)
             [] v = "clean" -> \E updates \in Closing(Verdict(v)) :
                                   Loop("reviewing", "over", Twice \o updates)
             [] v = "error" -> \E updates \in Closing(Verdict(v)) :
                                   Loop("reviewing", "over", <<Touch>> \o updates)
        /\ verdict' = v
        /\ UNCHANGED <<lap, attempt, beating>>
  BY DEF Reviewed
<1>2. verdict' \in Verdicts /\ verdict' # "failed"
  BY <1>1 DEF Verdicts
<1>3. Verdict(v) \in {"completed", "failed"} /\ (Verdict(v) = "completed" => v = "clean")
  BY DEF Verdict
<1>4. CASE v = "blocking"
  <2>1. Loop("reviewing", "top", Twice)
    BY <1>1, <1>4
  <2>2. \A u \in Elements(Twice) : u.op \notin {"completed", "start"}
    BY UpdateType
  <2>3. Update(0, "start") \notin Elements(Twice)
    BY <2>2, UpdateType, LoopAssumption
  <2>4. at' = "top" /\ "top" \in Places
    BY <2>1, LoopFacts DEF Places
  <2>5. \A r \in Runs : MayComplete(r) => MayComplete(r)'
    BY <1>1, <1>2, <2>1, <2>4, LoopFacts DEF MayComplete
  <2> QED BY <1>1, <1>2, <2>1, <2>2, <2>3, <2>4, <2>5, UpdateType, LoopFacts, LoopFrame
<1>5. CASE v = "clean"
  <2>1. PICK updates \in Closing(Verdict(v)) : Loop("reviewing", "over", Twice \o updates)
    BY <1>1, <1>5
  <2> QED BY <1>1, <1>2, <1>3, <2>1, EndStep
<1>6. CASE v = "error"
  <2>1. PICK updates \in Closing(Verdict(v)) :
           Loop("reviewing", "over", <<Touch>> \o updates)
    BY <1>1, <1>6
  <2> QED BY <1>1, <1>2, <1>3, <2>1, EndStep
<1> QED BY <1>4, <1>5, <1>6

LEMMA RaiseStep == ASSUME ReviewInv, Raise PROVE ReviewInv'
<1>1. PICK turn \in {"developing", "developed", "reviewing"}, updates \in Failing :
         Loop(turn, "over", updates)
  BY DEF Raise
<1>2. UNCHANGED <<lap, attempt, verdict, beating>>
  BY DEF Raise
<1>3. /\ Update(0, "failed").op = "failed" /\ Update(0, "start").op = "start"
  BY UpdateType, LoopAssumption DEF Statuses
<1>4. /\ \A u \in Elements(updates) : u.op # "completed"
      /\ Update(0, "start") \notin Elements(updates)
  BY <1>3, FailingType
<1>5. at' = "over" /\ "over" \in Places
  BY <1>1, LoopFacts DEF Places
<1>6. \A r \in Runs : MayComplete(r) => MayComplete(r)'
  BY <1>1, <1>2, <1>5, LoopFacts DEF MayComplete
<1> QED BY <1>1, <1>2, <1>4, <1>5, <1>6, FailingType, LoopFacts, LoopFrame

-----------------------------------------------------------------------------
(* The rest of the system *)

\* The server dies, and every copy with it.
LEMMA DieStep == ASSUME ReviewInv, Die PROVE ReviewInv'
<1>1. /\ at' = "dead" /\ todo' = <<>> /\ beating' = {} /\ stale' = {}
      /\ held' = <<>> /\ DOMAIN held' = {}
      /\ UNCHANGED <<record, silent, asked, lap, attempt, verdict, promised>>
  BY DEF Die
<1>2. Elements(todo') = {} /\ todo' \in Seq(Updates)
  BY <1>1, ElementsEmpty
<1>3. TypeOK'
  BY <1>1, <1>2 DEF ReviewInv, TruthInv, TypeOK, Places
<1>4. MainInv'
  BY <1>1 DEF MainInv, Holds
<1>5. \A r \in Runs : MayComplete(r) => MayComplete(r)'
  BY <1>1 DEF MayComplete
<1>6. \A r \in Runs : record'[r].status = "completed" => MayComplete(r)'
  BY <1>1, <1>5 DEF ReviewInv, TruthInv
<1>7. TruthInv'
  BY <1>1, <1>2, <1>3, <1>4, <1>6 DEF TruthInv, MayComplete
<1>8. PromiseInv'
  BY <1>1, <1>2 DEF ReviewInv, PromiseInv, Carried
<1> QED BY <1>7, <1>8 DEF ReviewInv

LEMMA AgeStep == ASSUME ReviewInv, NEW r \in Runs, Age(r) PROVE ReviewInv'
BY DEF Age, ReviewInv, TruthInv, PromiseInv, TypeOK, MainInv, Holds, Carried, MayComplete,
       loopVars

LEMMA LoopStepInv == ASSUME ReviewInv, LoopStep PROVE ReviewInv'
<1>1. CASE StartRecord \/ LoadRecord \/ WriteRecord
  BY <1>1, StartStep, LoadStep, WriteStep
<1>2. CASE StopLoop
  BY <1>2, StopStep DEF StopLoop
<1>3. CASE StopReview
  BY <1>3, StopStep DEF StopReview
<1>4. CASE Begin \/ Refuse \/ NextLap \/ Develop \/ FallBack \/ Developed
  BY <1>4, BeginStep, RefuseStep, NextLapStep, DevelopStep, FallBackStep, DevelopedStep
<1>5. CASE Judge \/ GiveUp \/ Review \/ Reviewed \/ Raise
  BY <1>5, JudgeStep, GiveUpStep, ReviewStep, ReviewedStep, RaiseStep
<1> QED BY <1>1, <1>2, <1>3, <1>4, <1>5 DEF LoopStep

LEMMA ReviewInvStep == ASSUME ReviewInv, [Next]_vars PROVE ReviewInv'
<1>1. CASE LoopStep
  BY <1>1, LoopStepInv
<1>2. CASE \E k \in 1..MaxRounds : BeatLoad(k) \/ BeatWrite(k)
  BY <1>2, BeatStep
<1>3. CASE \E c \in Clients : Cancel(c)
  BY <1>3, CancelStep
<1>4. CASE WatchdogStep /\ UNCHANGED loopVars
  BY <1>4, WatchStep
<1>5. CASE \E r \in Runs : Age(r)
  BY <1>5, AgeStep
<1>6. CASE Die
  BY <1>6, DieStep
<1>7. CASE UNCHANGED vars
  BY <1>7 DEF ReviewInv, TruthInv, PromiseInv, TypeOK, MainInv, Holds, Carried, MayComplete,
              vars, loopVars, trackerVars
<1> QED BY <1>1, <1>2, <1>3, <1>4, <1>5, <1>6, <1>7 DEF Next

LEMMA ReviewInvInit == Init => ReviewInv
<1> SUFFICES ASSUME Init PROVE ReviewInv
  OBVIOUS
<1>1. /\ record = [r \in Runs |-> Absent] /\ held = <<>>
      /\ silent = {} /\ stale = {} /\ asked = {}
      /\ at = "new" /\ todo = <<>> /\ lap = 0 /\ verdict = "none" /\ beating = {}
      /\ promised = FALSE
  BY DEF Init, TrackerInit
<1>2. Absent \in RunRecord /\ Absent.status = "absent"
  BY DEF Absent, RunRecord
<1>3. DOMAIN held = {}
  BY <1>1
<1>4. TypeOK
  <2>1. record \in [Runs -> RunRecord]
    BY <1>1, <1>2
  <2>2. todo \in Seq(Updates) /\ lap \in 0..MaxRounds
    BY <1>1, LoopAssumption
  <2> QED BY <1>1, <1>3, <2>1, <2>2 DEF TypeOK, Places, Verdicts
<1>5. Elements(todo) = {}
  BY <1>1, ElementsEmpty
<1> QED BY <1>1, <1>2, <1>3, <1>4, <1>5
        DEF ReviewInv, TruthInv, PromiseInv, MainInv, Holds, Carried

LEMMA Invariant == Spec => []ReviewInv
<1>1. Init => ReviewInv
  BY ReviewInvInit
<1>2. ReviewInv /\ [Next]_vars => ReviewInv'
  BY ReviewInvStep
<1> QED BY <1>1, <1>2, PTL DEF Spec

-----------------------------------------------------------------------------
(* What holds of every run *)

\* The records have the shape that RunRecord and its writers give them.
THEOREM TypeCorrect == Spec => []TypeOK
<1>1. ReviewInv => TypeOK
  BY DEF ReviewInv, TruthInv
<1> QED BY <1>1, Invariant, PTL

\* A record that says completed is true whoever wrote it last and from however
\* old a copy: the loop's last verdict was clean, the executor run of the
\* current lap is over and did not fail.
THEOREM SuccessTruthfulHolds == Spec => []SuccessTruthful
<1>1. ReviewInv => SuccessTruthful
  <2> SUFFICES ASSUME ReviewInv PROVE SuccessTruthful
    OBVIOUS
  <2>1. \A r \in Runs : record[r].status = "completed" => MayComplete(r)
    BY DEF ReviewInv, TruthInv
  <2>2. 0 \in Runs /\ \A k \in 1..MaxRounds : k \in Runs /\ k # 0
    BY LoopAssumption
  <2> QED BY <2>1, <2>2 DEF SuccessTruthful, MayComplete
<1> QED BY <1>1, Invariant, PTL

\* Only Develop and Review take the loop into a turn.
LEMMA TurnSteps == ASSUME [Next]_vars, TurnBegins PROVE Develop \/ Review
<1>1. /\ at # at' /\ at \in {"start", "ready"} /\ at' \in {"developing", "reviewing"}
  BY DEF TurnBegins
<1>2. CASE StartRecord \/ LoadRecord \/ WriteRecord \/ FallBack
  BY <1>1, <1>2 DEF StartRecord, LoadRecord, WriteRecord, FallBack, loopVars
<1>3. CASE Begin \/ Refuse \/ StopLoop \/ NextLap \/ Developed
  BY <1>1, <1>3 DEF Begin, Refuse, StopLoop, NextLap, Developed, Loop, Go
<1>4. CASE Judge \/ GiveUp \/ StopReview \/ Raise
  BY <1>1, <1>4 DEF Judge, GiveUp, StopReview, Raise, Loop, Go
<1>5. CASE Reviewed
  <2>1. PICK v \in {"clean", "blocking", "error"} :
           CASE v = "blocking" -> Loop("reviewing", "top", Twice)
             [] v = "clean" -> \E updates \in Closing(Verdict(v)) :
                                   Loop("reviewing", "over", Twice \o updates)
             [] v = "error" -> \E updates \in Closing(Verdict(v)) :
                                   Loop("reviewing", "over", <<Touch>> \o updates)
    BY <1>5 DEF Reviewed
  <2>2. \/ Loop("reviewing", "top", Twice)
        \/ \E updates : Loop("reviewing", "over", updates)
    BY <2>1
  <2> QED BY <1>1, <2>2 DEF Loop, Go
<1>6. CASE \E k \in 1..MaxRounds : BeatLoad(k) \/ BeatWrite(k)
  BY <1>1, <1>6 DEF BeatLoad, BeatWrite, loopVars
<1>7. CASE \E c \in Clients : Cancel(c)
  BY <1>1, <1>7 DEF Cancel, loopVars
<1>8. CASE WatchdogStep /\ UNCHANGED loopVars
  BY <1>1, <1>8 DEF loopVars
<1>9. CASE (\E r \in Runs : Age(r)) \/ Die
  BY <1>1, <1>9 DEF Age, Die, loopVars
<1>10. CASE UNCHANGED vars
  BY <1>1, <1>10 DEF vars, loopVars
<1> QED BY <1>2, <1>3, <1>4, <1>5, <1>6, <1>7, <1>8, <1>9, <1>10 DEF Next, LoopStep

LEMMA TurnsBegin == ASSUME ReviewInv, [Next]_vars, TurnBegins PROVE ~promised'
<1>1. CASE Develop
  BY <1>1, LoopFacts DEF Develop
<1>2. CASE Review
  BY <1>2, UnseenFacts DEF Review
<1> QED BY <1>1, <1>2, TurnSteps

\* A cancel that is accepted during a turn while nobody holds an older copy of
\* the record stops the loop before the next turn as long as the loop can read
\* the record: every copy from then on carries it, and the loop looks at it
\* before it starts a turn.
THEOREM CancelHonouredHolds == Spec => CancelHonoured
<1>1. ReviewInv /\ [Next]_vars => [promised' => ~TurnBegins]_vars
  BY TurnsBegin
<1> QED BY <1>1, Invariant, PTL DEF Spec, CancelHonoured
====
