---- MODULE CwdLockProofs ----
(***************************************************************************)
(* What cwd_executor_lock promises for any number of threads and           *)
(* processes, however many of them die, time out or belong to other users. *)
(***************************************************************************)
EXTENDS CwdLock, FiniteSetTheorems, TLAPS

\* A set of threads has a size, and a part of it is no larger.
LEMMA Smaller ==
    ASSUME NEW T \in SUBSET Threads, NEW S \in SUBSET T
    PROVE /\ IsFiniteSet(S)
          /\ Cardinality(S) \in Nat /\ Cardinality(T) \in Nat
          /\ Cardinality(S) <= Cardinality(T)
<1>1. IsFiniteSet(T)
  BY ThreadsAssumption, FS_Subset
<1> QED BY <1>1, FS_Subset, FS_CardinalityType

\* One element more, or one exchanged for another.
LEMMA OneMore ==
    ASSUME NEW T \in SUBSET Threads, NEW S \in SUBSET Threads, NEW x
    PROVE /\ S \subseteq T \cup {x} => Cardinality(S) <= Cardinality(T) + 1
          /\ \A y \in T : S \subseteq (T \ {y}) \cup {x} => Cardinality(S) <= Cardinality(T)
<1>1. IsFiniteSet(T) /\ IsFiniteSet(S) /\ Cardinality(T) \in Nat /\ Cardinality(S) \in Nat
  BY ThreadsAssumption, FS_Subset, FS_CardinalityType
<1>2. ASSUME NEW U, IsFiniteSet(U), S \subseteq U \cup {x}
      PROVE Cardinality(S) <= Cardinality(U) + 1
  <2>1. /\ IsFiniteSet(U \cup {x}) /\ Cardinality(U) \in Nat
        /\ Cardinality(U \cup {x}) \in {Cardinality(U), Cardinality(U) + 1}
    BY <1>2, FS_AddElement, FS_CardinalityType
  <2>2. Cardinality(S) <= Cardinality(U \cup {x})
    BY <1>2, <2>1, FS_Subset
  <2> QED BY <1>1, <2>1, <2>2
<1>3. ASSUME NEW y \in T, S \subseteq (T \ {y}) \cup {x}
      PROVE Cardinality(S) <= Cardinality(T)
  <2>1. IsFiniteSet(T \ {y}) /\ Cardinality(T \ {y}) = Cardinality(T) - 1
    BY <1>1, FS_RemoveElement
  <2> QED BY <1>1, <1>2, <1>3, <2>1
<1> QED BY <1>1, <1>2, <1>3

\* What a step has to show of the ids that were read and of the robbed threads.
LEMMA Keeps ==
    ASSUME LockInv, TypeOK', robbed' \in {robbed, robbed + 1},
           dead \subseteq dead',
           \A t \in Threads : pc'[t] = "steal" =>
               owner'[t] \in (dead' \cup Foreign) \ {Pid[t]},
           robbed' > robbed => dead' \cup Foreign # {},
           Cardinality(Bereft') <= robbed'
    PROVE LockInv'
BY DEF LockInv, TypeOK

\* Steps that rob nobody.
LEMMA RobsNobody ==
    ASSUME LockInv, TypeOK', robbed' = robbed, dead \subseteq dead', Bereft' \subseteq Bereft,
           \A t \in Threads : pc'[t] = "steal" =>
               owner'[t] \in (dead' \cup Foreign) \ {Pid[t]}
    PROVE LockInv'
<1>1. Bereft \subseteq Threads
  BY DEF Bereft
<1>2. Cardinality(Bereft') <= robbed'
  BY <1>1, Smaller, ThreadsAssumption, FS_CardinalityType DEF LockInv, TypeOK
<1>3. robbed \in Nat
  BY ThreadsAssumption, FS_CardinalityType DEF LockInv, TypeOK
<1> QED BY <1>2, <1>3, Keeps

\* Steps of a thread that leave the file alone and do not take the lock.
LEMMA KeepsFile ==
    ASSUME LockInv, NEW t \in Threads, NEW from, NEW to \in PC \ {"write", "in"},
           Step(t, from, to), file' = file, dead' = dead, robbed' = robbed,
           owner' \in [Threads -> Pids \cup {Nobody}],
           \A u \in Threads \ {t} : owner'[u] = owner[u],
           to = "steal" => owner'[t] \in (dead \cup Foreign) \ {Pid[t]}
    PROVE LockInv'
<1>1. pc' = [pc EXCEPT ![t] = to] /\ pc[t] = from
  BY DEF Step
<1>2. TypeOK'
  BY <1>1 DEF LockInv, TypeOK
<1>3. \A u \in Threads : pc'[u] = "steal" => owner'[u] \in (dead' \cup Foreign) \ {Pid[u]}
  BY <1>1 DEF LockInv, TypeOK
<1>4. Bereft' \subseteq Bereft
  BY <1>1 DEF Bereft, Holds, Alive, LockInv, TypeOK
<1> QED BY <1>2, <1>3, <1>4, RobsNobody

LEMMA LockStep ==
    ASSUME LockInv, [Next]_vars
    PROVE LockInv'
<1>0. {"out", "try", "read", "probe", "steal"} = PC \ {"write", "in"}
  BY DEF PC
<1>t. /\ TypeOK
      /\ \A t \in Threads : pc[t] = "steal" => owner[t] \in (dead \cup Foreign) \ {Pid[t]}
  BY DEF LockInv
<1>r. robbed \in Nat /\ Cardinality(Threads) \in Nat
  BY <1>t, ThreadsAssumption, FS_CardinalityType DEF TypeOK
<1>1. ASSUME NEW t \in Threads, Enter(t) PROVE LockInv'
  BY <1>0, <1>t, <1>1, KeepsFile DEF Enter, TypeOK
<1>2. ASSUME NEW t \in Threads, Create(t) PROVE LockInv'
  <2>1. /\ pc' = [pc EXCEPT ![t] = "write"] /\ pc[t] = "try"
        /\ file = NoFile /\ file' = [by |-> t, pid |-> Nobody]
        /\ owner' = owner /\ dead' = dead /\ robbed' = robbed
    BY <1>2 DEF Create, Step
  <2>2. TypeOK'
    BY <1>t, <2>1 DEF TypeOK, Files, PC
  <2>3. Bereft' \subseteq Bereft
    <3> SUFFICES ASSUME NEW u \in Threads, Holds(u)', file'.by # u PROVE u \in Bereft
      BY DEF Bereft
    <3>1. u # t
      BY <2>1
    <3>2. Holds(u)
      BY <1>t, <2>1, <3>1 DEF Holds, Alive, TypeOK
    <3>3. file.by # u
      BY <2>1, NobodyAssumption DEF NoFile
    <3> QED BY <3>2, <3>3 DEF Bereft
  <2>4. \A u \in Threads : pc'[u] = "steal" => owner'[u] \in (dead' \cup Foreign) \ {Pid[u]}
    BY <1>t, <2>1 DEF TypeOK
  <2> QED BY <2>1, <2>2, <2>3, <2>4, RobsNobody
<1>3. ASSUME NEW t \in Threads, WritePid(t) PROVE LockInv'
  <2>1. /\ pc' = [pc EXCEPT ![t] = "in"] /\ pc[t] = "write"
        /\ owner' = owner /\ dead' = dead /\ robbed' = robbed
    BY <1>3 DEF WritePid, Step
  <2>2. file' \in Files \cup {NoFile} /\ file'.by = file.by
    <3>1. CASE file.by = t
      <4>1. file \in Files
        BY <1>t, <3>1, NobodyAssumption DEF TypeOK, NoFile
      <4> QED BY <1>3, <3>1, <4>1, PidAssumption DEF WritePid, Files
    <3>2. CASE file.by # t
      BY <1>3, <1>t, <3>2 DEF WritePid, TypeOK
    <3> QED BY <3>1, <3>2
  <2>3. TypeOK'
    BY <1>t, <2>1, <2>2 DEF TypeOK, PC
  <2>4. Bereft' \subseteq Bereft
    BY <1>t, <2>1, <2>2 DEF Bereft, Holds, Alive, TypeOK
  <2>5. \A u \in Threads : pc'[u] = "steal" => owner'[u] \in (dead' \cup Foreign) \ {Pid[u]}
    BY <1>t, <2>1 DEF TypeOK
  <2> QED BY <2>1, <2>3, <2>4, <2>5, RobsNobody
<1>4. ASSUME NEW t \in Threads, Busy(t) PROVE LockInv'
  <2>1. PICK to \in {"read", "out"} : Step(t, "try", to)
    BY <1>4 DEF Busy
  <2> QED BY <1>0, <1>t, <1>4, <2>1, KeepsFile DEF Busy, TypeOK
<1>5. ASSUME NEW t \in Threads, ReadOwner(t) PROVE LockInv'
  <2>1. file.pid \in Pids \cup {Nobody}
    BY <1>t DEF TypeOK, Files, NoFile
  <2>2. owner' \in [Threads -> Pids \cup {Nobody}]
    BY <1>t, <1>5, <2>1 DEF ReadOwner, TypeOK
  <2> QED BY <1>0, <1>t, <1>5, <2>2, KeepsFile DEF ReadOwner, TypeOK
<1>6. ASSUME NEW t \in Threads, Probe(t) PROVE LockInv'
  <2>1. PICK to \in {"try", "steal"} : /\ Step(t, "probe", to)
                                       /\ to = "steal" => Stale(t) /\ owner' = owner
    BY <1>6 DEF Probe
  <2>2. /\ owner' \in [Threads -> Pids \cup {Nobody}]
        /\ \A u \in Threads \ {t} : owner'[u] = owner[u]
    BY <1>t, <1>6 DEF Probe, TypeOK
  <2>3. to = "steal" => owner'[t] \in (dead \cup Foreign) \ {Pid[t]}
    BY <2>1 DEF Stale
  <2> QED BY <1>0, <1>6, <2>1, <2>2, <2>3, KeepsFile DEF Probe
<1>7. ASSUME NEW t \in Threads, Steal(t) PROVE LockInv'
  <2>1. /\ pc' = [pc EXCEPT ![t] = "try"] /\ pc[t] = "steal"
        /\ file' = NoFile /\ dead' = dead /\ owner' = [owner EXCEPT ![t] = Nobody]
    BY <1>7 DEF Steal, Step
  <2>2. robbed' = IF FileIsLive /\ robbed < Cardinality(Threads) THEN robbed + 1 ELSE robbed
    BY <1>7 DEF Steal
  <2>3. TypeOK'
    BY <1>t, <1>r, <2>1, <2>2 DEF TypeOK, PC
  <2>4. \A u \in Threads : pc'[u] = "steal" => owner'[u] \in (dead' \cup Foreign) \ {Pid[u]}
    BY <1>t, <2>1 DEF TypeOK
  <2>5. dead' \cup Foreign # {}
    BY <1>t, <2>1
  <2>6. Bereft' \subseteq Bereft \cup {file.by}
    BY <1>t, <2>1 DEF Bereft, Holds, Alive, TypeOK
  <2>7. Bereft \subseteq Threads /\ Bereft' \subseteq Threads
    BY DEF Bereft
  <2>8. Cardinality(Bereft') <= robbed'
    <3>1. Cardinality(Bereft) \in Nat /\ Cardinality(Bereft') \in Nat
      BY <2>7, Smaller
    <3>2. CASE FileIsLive /\ robbed < Cardinality(Threads)
      BY <1>r, <2>2, <2>6, <2>7, <3>1, <3>2, OneMore DEF LockInv
    <3>3. CASE FileIsLive /\ ~(robbed < Cardinality(Threads))
      <4>1. Cardinality(Bereft') <= Cardinality(Threads)
        BY <2>7, Smaller
      <4>2. robbed = Cardinality(Threads)
        BY <1>t, <1>r, <3>3 DEF TypeOK
      <4> QED BY <2>2, <3>3, <4>1, <4>2
    <3>4. CASE ~FileIsLive
      <4>1. Bereft' \subseteq Bereft
        <5> SUFFICES ASSUME NEW u \in Bereft' PROVE u \in Bereft
          OBVIOUS
        <5>1. u \in Threads /\ Holds(u)
          BY <1>t, <2>1 DEF Bereft, Holds, Alive, TypeOK
        <5> QED BY <3>4, <5>1 DEF FileIsLive, Bereft
      <4>2. Cardinality(Bereft') <= Cardinality(Bereft)
        BY <2>7, <4>1, Smaller
      <4> QED BY <1>r, <2>2, <3>1, <3>4, <4>2 DEF LockInv
    <3> QED BY <3>2, <3>3, <3>4
  <2> QED BY <2>1, <2>2, <2>3, <2>4, <2>5, <2>8, Keeps
<1>8. ASSUME NEW t \in Threads, Release(t) PROVE LockInv'
  <2>1. /\ pc' = [pc EXCEPT ![t] = "out"] /\ pc[t] = "in" /\ Alive(t)
        /\ file' = NoFile /\ owner' = owner /\ dead' = dead /\ robbed' = robbed
    BY <1>8 DEF Release, Step
  <2>2. TypeOK'
    BY <1>t, <2>1 DEF TypeOK, PC
  <2>3. \A u \in Threads : pc'[u] = "steal" => owner'[u] \in (dead' \cup Foreign) \ {Pid[u]}
    BY <1>t, <2>1 DEF TypeOK
  <2>4. \A u \in Bereft' : u \in Threads \ {t} /\ Holds(u)
    BY <1>t, <2>1 DEF Bereft, Holds, Alive, TypeOK
  <2>5. CASE file.by = t
    <3>1. Bereft' \subseteq Bereft
      BY <2>4, <2>5 DEF Bereft
    <3> QED BY <2>1, <2>2, <2>3, <3>1, RobsNobody
  <2>6. CASE file.by # t
    <3>1. t \in Bereft
      BY <2>1, <2>6 DEF Bereft, Holds
    <3>2. Bereft' \subseteq (Bereft \ {t}) \cup {file.by}
      BY <2>4 DEF Bereft
    <3>3. Bereft \subseteq Threads /\ Bereft' \subseteq Threads
      BY DEF Bereft
    <3>4. Cardinality(Bereft') <= Cardinality(Bereft)
      BY <3>1, <3>2, <3>3, OneMore
    <3>5. Cardinality(Bereft) \in Nat /\ Cardinality(Bereft') \in Nat
      BY <3>3, Smaller
    <3>6. Cardinality(Bereft') <= robbed'
      BY <1>r, <2>1, <3>4, <3>5 DEF LockInv
    <3> QED BY <1>r, <2>1, <2>2, <2>3, <3>6, Keeps
  <2> QED BY <2>5, <2>6
<1>9. ASSUME NEW p \in Pids, Die(p) PROVE LockInv'
  <2>1. /\ dead' = dead \cup {p}
        /\ file' = file /\ pc' = pc /\ owner' = owner /\ robbed' = robbed
    BY <1>9 DEF Die
  <2>2. TypeOK'
    BY <1>t, <2>1 DEF TypeOK
  <2>3. Bereft' \subseteq Bereft
    BY <2>1 DEF Bereft, Holds, Alive
  <2>4. \A u \in Threads : pc'[u] = "steal" => owner'[u] \in (dead' \cup Foreign) \ {Pid[u]}
    BY <1>t, <2>1
  <2> QED BY <2>1, <2>2, <2>3, <2>4, RobsNobody
<1>10. CASE UNCHANGED vars
  BY <1>10 DEF vars, LockInv, TypeOK, Bereft, Holds, Alive
<1> QED
  BY <1>1, <1>2, <1>3, <1>4, <1>5, <1>6, <1>7, <1>8, <1>9, <1>10
     DEF Next, Acquire

\* The inductive invariant: whoever is about to unlink the file read the id of
\* another process that cannot be signalled, and no more threads hold the lock
\* without a file than were robbed of it.
THEOREM LockInvHolds == Spec => []LockInv
<1>1. Init => LockInv
  <2> SUFFICES ASSUME Init PROVE LockInv
    OBVIOUS
  <2>1. Bereft = {}
    BY DEF Init, Bereft, Holds
  <2>2. Cardinality(Bereft) = 0
    BY <2>1, FS_EmptySet
  <2>3. Cardinality(Threads) \in Nat
    BY ThreadsAssumption, FS_CardinalityType
  <2> QED BY <2>2, <2>3 DEF Init, LockInv, TypeOK, PC
<1>2. LockInv /\ [Next]_vars => LockInv'
  BY LockStep
<1> QED BY <1>1, <1>2, PTL DEF Spec

\* At most one executor more than live holders were robbed is at work in the
\* directory, although a robbed thread removes its successor's file.
THEOREM OverlapBoundedHolds == Spec => []OverlapBounded
<1>1. LockInv => OverlapBounded
  <2> SUFFICES ASSUME LockInv PROVE OverlapBounded
    OBVIOUS
  <2> DEFINE H == {t \in Threads : Holds(t)}
  <2>1. H \subseteq Bereft \cup {file.by} /\ Bereft \subseteq Threads /\ H \subseteq Threads
    BY DEF Bereft
  <2>2. Cardinality(H) <= Cardinality(Bereft) + 1
    BY <2>1, OneMore
  <2>3. Cardinality(H) \in Nat /\ Cardinality(Bereft) \in Nat /\ robbed \in Nat
    BY <2>1, Smaller, ThreadsAssumption, FS_CardinalityType DEF LockInv, TypeOK
  <2> QED BY <2>2, <2>3 DEF LockInv, OverlapBounded
<1> QED BY <1>1, LockInvHolds, PTL

\* As long as no process died and none belongs to another user, one thread at a
\* time executes the body of the lock.
THEOREM ExclusiveAmongTheLiving ==
    Spec => [](dead \cup Foreign = {} => MutualExclusion)
<1>1. LockInv => (dead \cup Foreign = {} => MutualExclusion)
  <2> SUFFICES ASSUME LockInv, dead \cup Foreign = {} PROVE MutualExclusion
    OBVIOUS
  <2>1. robbed = 0
    BY ThreadsAssumption, FS_CardinalityType DEF LockInv, TypeOK
  <2>2. IsFiniteSet(Bereft) /\ Cardinality(Bereft) \in Nat
    BY Smaller DEF Bereft
  <2>3. Bereft = {}
    BY <2>1, <2>2, FS_EmptySet DEF LockInv
  <2> QED BY <2>3 DEF Bereft, MutualExclusion
<1> QED BY <1>1, LockInvHolds, PTL
====
