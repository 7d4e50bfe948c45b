---- MODULE CwdLock ----
(***************************************************************************)
(* cwd_executor_lock: the file .voly/executor.lock that keeps executors of *)
(* concurrent "voly run" processes apart in one working directory.  Whoever*)
(* creates the file holds the lock; the process id in it lets the others   *)
(* find out that the holder is gone and remove the file.  Every system     *)
(* call is a step of its own.                                              *)
(***************************************************************************)
EXTENDS Naturals, FiniteSets

CONSTANTS
    Threads,    \* threads that take the lock
    Pids,       \* their processes
    Pid,        \* Pid[t]: the process of thread t
    Nobody,     \* no thread and no process
    Foreign,    \* processes of another user: signalling them is not permitted
    MayTimeOut, \* waiters may reach their deadline
    Mortal      \* processes that may die while they wait for or hold the lock

ASSUME ThreadsAssumption == IsFiniteSet(Threads)
ASSUME PidAssumption == Pid \in [Threads -> Pids]
ASSUME NobodyAssumption == Nobody \notin Threads \cup Pids
ASSUME ForeignAssumption == Foreign \subseteq Pids
ASSUME LockAssumption == MayTimeOut \in BOOLEAN /\ Mortal \subseteq Pids

VARIABLES
    file,  \* the lock file, or NoFile
    pc,    \* pc[t]: where t is in cwd_executor_lock
    owner, \* owner[t]: the process id t last read from the file
    dead,  \* processes that have died
    robbed \* how often a waiter removed the file of a thread that holds the
           \* lock; for the properties only, counted up to the number of threads

vars == <<file, pc, owner, dead, robbed>>

\* The file carries its creator's process id once that was written to it.
Files == [by : Threads, pid : Pids \cup {Nobody}]
NoFile == [by |-> Nobody, pid |-> Nobody]

PC == {"out", "try", "write", "in", "read", "probe", "steal"}

Init == /\ file = NoFile
        /\ pc = [t \in Threads |-> "out"]
        /\ owner = [t \in Threads |-> Nobody]
        /\ dead = {}
        /\ robbed = 0

Alive(t) == Pid[t] \notin dead

\* A thread that created the file and has not removed it, in a live process.
Holds(t) == Alive(t) /\ pc[t] \in {"write", "in"}

Step(t, from, to) == /\ Alive(t)
                     /\ pc[t] = from
                     /\ pc' = [pc EXCEPT ![t] = to]

-----------------------------------------------------------------------------

Enter(t) == /\ Step(t, "out", "try")
            /\ UNCHANGED <<file, owner, dead, robbed>>

\* Mutant: O_CREAT without O_EXCL.
Create_NotExclusive(t) == /\ Step(t, "try", "write")
                          /\ file' = [by |-> t, pid |-> Nobody]
                          /\ UNCHANGED <<owner, dead, robbed>>

\* os.open with O_CREAT and O_EXCL.
Create(t) == /\ Step(t, "try", "write")
             /\ file = NoFile
             /\ file' = [by |-> t, pid |-> Nobody]
             /\ UNCHANGED <<owner, dead, robbed>>

\* os.write goes to the file t created, should another have replaced it.
WritePid(t) == /\ Step(t, "write", "in")
               /\ file' = IF file.by = t THEN [file EXCEPT !.pid = Pid[t]] ELSE file
               /\ UNCHANGED <<owner, dead, robbed>>

Busy(t) == /\ file # NoFile
           /\ \/ Step(t, "try", "read")
              \/ MayTimeOut /\ Step(t, "try", "out")
           /\ UNCHANGED <<file, owner, dead, robbed>>

\* No process id can be read from a missing or empty file.
ReadOwner(t) == /\ Step(t, "read", "probe")
                /\ owner' = [owner EXCEPT ![t] = file.pid]
                /\ UNCHANGED <<file, dead, robbed>>

\* Mutants of the test for a stale lock: any holder counts as gone, or none.
Stale_Any(t) == owner[t] # Nobody
Stale_Never(t) == FALSE

\* os.kill(owner, 0) fails for a dead process, and for a live one of another
\* user.
Stale(t) == /\ owner[t] \notin {Nobody, Pid[t]}
            /\ owner[t] \in dead \cup Foreign

\* An id that was judged is not looked at again.
Probe(t) == /\ Step(t, "probe", IF Stale(t) THEN "steal" ELSE "try")
            /\ owner' = IF Stale(t) THEN owner ELSE [owner EXCEPT ![t] = Nobody]
            /\ UNCHANGED <<file, dead, robbed>>

\* The threads that hold the lock without having the file on the path.
Bereft == {t \in Threads : Holds(t) /\ file.by # t}
FileIsLive == \E t \in Threads : Holds(t) /\ file.by = t

\* The file that is removed is the one that is there now, whether or not it is
\* the one whose process id was read.
Steal(t) == /\ Step(t, "steal", "try")
            /\ file' = NoFile
            /\ robbed' = IF FileIsLive /\ robbed < Cardinality(Threads)
                           THEN robbed + 1
                           ELSE robbed
            /\ owner' = [owner EXCEPT ![t] = Nobody]
            /\ UNCHANGED dead

Release(t) == /\ Step(t, "in", "out")
              /\ file' = NoFile
              /\ UNCHANGED <<owner, dead, robbed>>

\* A process dies, and all its threads with it; its file stays.
Die(p) == /\ p \in Mortal \ dead
          /\ dead' = dead \cup {p}
          /\ UNCHANGED <<file, pc, owner, robbed>>

-----------------------------------------------------------------------------

Acquire(t) == \/ Create(t) \/ WritePid(t) \/ Busy(t)
              \/ ReadOwner(t) \/ Probe(t) \/ Steal(t)

Next == \/ \E t \in Threads : Enter(t) \/ Acquire(t) \/ Release(t)
        \/ \E p \in Pids : Die(p)

Spec == Init /\ [][Next]_vars

\* Waiting threads poll until they have the lock, and holders finish: the
\* executors they run have timeouts.
FairSpec == Spec /\ \A t \in Threads : WF_vars(Acquire(t)) /\ WF_vars(Release(t))

-----------------------------------------------------------------------------

TypeOK == /\ file \in Files \cup {NoFile}
          /\ pc \in [Threads -> PC]
          /\ owner \in [Threads -> Pids \cup {Nobody}]
          /\ dead \subseteq Pids
          /\ robbed \in 0..Cardinality(Threads)

\* The body of the lock, an executor at work in the directory, is executed by
\* one thread at a time, across threads and processes.
MutualExclusion == \A t, u \in Threads : Holds(t) /\ Holds(u) => t = u

\* How far the lock falls short of that: every removal of a live holder's file
\* lets in at most one thread more, although a thread that was robbed will remove
\* its successor's file when it leaves.
OverlapBounded == Cardinality({t \in Threads : Holds(t)}) <= 1 + robbed

\* The inductive invariant.  Who is about to remove the file read the id of
\* another process that cannot be signalled; so nobody is robbed as long as no
\* process died or belongs to another user, and as long as nobody is, the file on
\* the path is the holder's.
LockInv == /\ TypeOK
           /\ \A t \in Threads : pc[t] = "steal" => owner[t] \in (dead \cup Foreign) \ {Pid[t]}
           /\ robbed > 0 => dead \cup Foreign # {}
           /\ Cardinality(Bereft) <= robbed

Waiting(t) == Alive(t) /\ pc[t] \in {"try", "read", "probe", "steal"}
HolderDied == file # NoFile /\ Pid[file.by] \in dead

\* As long as somebody waits, a lock file whose holder died after writing its
\* process id is removed.
StaleLockRemoved ==
    \A t \in Threads :
        (HolderDied /\ file.pid # Nobody /\ Waiting(t)) ~> (~HolderDied \/ ~Waiting(t))
====
