---- MODULE InstinctStore ----
(***************************************************************************)
(* The learned instincts of src/voly/learning/instincts.py: one JSON file  *)
(* that every call loads, changes and saves.  _save writes a temporary     *)
(* file whose name is the same for everybody and renames it over the file; *)
(* nothing keeps two calls apart, and a caller may die anywhere.  Whoever  *)
(* has opened the temporary file goes on writing the same inode after it   *)
(* was renamed.                                                            *)
(***************************************************************************)
EXTENDS Integers, FiniteSets

CONSTANTS
    Callers,
    Ids,       \* instincts: a project's trigger and action
    Evidence,  \* pairs of kind and source, by which evidence is told apart
    Kind,      \* Kind[e]: "positive", "strong" (rollback, contradiction,
               \* user_correction), "weak" (test_failed, retry) or "neutral"
    Project,   \* Project[e]: the project e comes from
    Nothing,   \* no inode
    MaxCalls,  \* bound on the calls made
    Mortal     \* callers that may die

ASSUME EvidenceAssumption ==
    /\ IsFiniteSet(Evidence)
    /\ Kind \in [Evidence -> {"positive", "strong", "weak", "neutral"}]

\* At most one inode per caller and one behind the name of the file are in use.
Inodes == 0..Cardinality(Callers) + 1

ASSUME StoreAssumption ==
    /\ IsFiniteSet(Callers) /\ Mortal \subseteq Callers
    /\ MaxCalls \in Nat /\ Nothing \notin Inodes

VARIABLES
    data,       \* data[n]: the content of inode n
    path,       \* the inode behind the file's name
    tmp,        \* the inode behind the temporary file's name
    fd,         \* fd[c]: the inode c has opened for writing
    at,         \* where c is in its call
    new,        \* new[c]: the instincts c is going to save
    calls,      \* calls begun
    overlapped  \* two calls have been under way at the same time

vars == <<data, path, tmp, fd, at, new, calls, overlapped>>

\* Confidence in steps of 0.05, as all changes are multiples of it.
MaxConfidence == 20
Instinct == [scope      : {"project", "global"},
             lifecycle  : {"candidate", "approved", "suspended"},
             evidence   : SUBSET Evidence,
             known      : SUBSET Evidence, \* its evidence when it was approved
             confidence : 0..MaxConfidence]

Fresh == [scope |-> "project", lifecycle |-> "candidate", evidence |-> {},
          known |-> {}, confidence |-> 5]

\* What a file holds: instincts, nothing yet, or parts of two payloads.
Book(instincts) == [state |-> "whole", instincts |-> instincts]
Empty == [state |-> "empty", instincts |-> <<>>]
Torn == [state |-> "torn", instincts |-> <<>>]

Init == /\ data = [n \in Inodes |-> Empty]
        /\ path = Nothing /\ tmp = Nothing
        /\ fd = [c \in Callers |-> Nothing]
        /\ at = [c \in Callers |-> "idle"]
        /\ new = [c \in Callers |-> <<>>]
        /\ calls = 0
        /\ overlapped = FALSE

-----------------------------------------------------------------------------
(* What the operations make of the instincts they have loaded *)

Least(m, n) == IF m <= n THEN m ELSE n
Greatest(m, n) == IF m >= n THEN m ELSE n

Reweighted(kind, confidence) ==
    CASE kind = "positive"          -> Least(MaxConfidence, confidence + 3)
      [] kind \in {"strong", "weak"} -> Greatest(0, confidence - 4)
      [] kind = "neutral"           -> confidence

\* Mutant: evidence that is there already counts again.
Weighed_Twice(i, e) ==
    [i EXCEPT !.evidence = @ \cup {e},
              !.confidence = Reweighted(Kind[e], @),
              !.lifecycle = IF Kind[e] = "strong" /\ @ = "approved" THEN "suspended" ELSE @]

\* New evidence changes the confidence, and some suspends what is approved.
Weighed(i, e) ==
    IF e \in i.evidence THEN i
    ELSE [i EXCEPT !.evidence = @ \cup {e},
                   !.confidence = Reweighted(Kind[e], @),
                   !.lifecycle = IF Kind[e] = "strong" /\ @ = "approved" THEN "suspended" ELSE @]

Positive(i) == {e \in i.evidence : Kind[e] = "positive"}

With(book, id, i) == [j \in DOMAIN book \cup {id} |-> IF j = id THEN i ELSE book[j]]

\* The books an operation on id may save when it has loaded book; none when it
\* raises or has nothing to save.
Propose(book, id) ==
    {With(book, id, Weighed(IF id \in DOMAIN book THEN book[id] ELSE Fresh, e)) : e \in Evidence}

AddEvidence(book, id) ==
    {With(book, id, Weighed(book[id], e)) :
         e \in IF id \in DOMAIN book THEN Evidence \ book[id].evidence ELSE {}}

Approved(i) == [i EXCEPT !.lifecycle = "approved", !.known = i.evidence]

\* Mutant of approve: any evidence will do.
Approve_Evidence(book, id) ==
    IF id \in DOMAIN book /\ book[id].evidence # {}
    THEN {With(book, id, Approved(book[id]))} ELSE {}

Approve(book, id) ==
    IF id \in DOMAIN book /\ Positive(book[id]) # {}
    THEN {With(book, id, Approved(book[id]))} ELSE {}

PromoteGlobal(book, id) ==
    IF /\ id \in DOMAIN book
       /\ Cardinality({Project[e] : e \in Positive(book[id])}) >= 2
       /\ book[id].lifecycle = "approved"
    THEN {With(book, id, [book[id] EXCEPT !.scope = "global"])} ELSE {}

Remove(book, id) ==
    IF id \in DOMAIN book THEN {[i \in DOMAIN book \ {id} |-> book[i]]} ELSE {}

Saved(book, id) == Propose(book, id) \cup AddEvidence(book, id) \cup Approve(book, id)
                   \cup PromoteGlobal(book, id) \cup Remove(book, id)

-----------------------------------------------------------------------------
(* A call *)

Loaded == IF path = Nothing THEN <<>> ELSE data[path].instincts

\* Load and change; a file that cannot be parsed raises.
Call(c) == /\ at[c] = "idle" /\ calls < MaxCalls
           /\ path # Nothing => data[path].state = "whole"
           /\ \E id \in Ids : \E book \in Saved(Loaded, id) : new' = [new EXCEPT ![c] = book]
           /\ at' = [at EXCEPT ![c] = "open"]
           /\ calls' = calls + 1
           /\ overlapped' = (overlapped \/ \E d \in Callers \ {c} : at[d] # "idle")
           /\ UNCHANGED <<data, path, tmp, fd>>

Unused == {n \in Inodes : n \notin {path, tmp} /\ \A c \in Callers : fd[c] # n}
Free == CHOOSE n \in Unused : TRUE

\* Mutant of _save: the file itself is opened.
Open_InPlace(c) == /\ at[c] = "open"
                   /\ LET n == IF path = Nothing THEN Free ELSE path
                      IN /\ data' = [data EXCEPT ![n] = Empty]
                         /\ tmp' = n
                         /\ fd' = [fd EXCEPT ![c] = n]
                   /\ at' = [at EXCEPT ![c] = "write"]
                   /\ UNCHANGED <<path, new, calls, overlapped>>

\* The temporary file is created, or truncated when it is there.
Open(c) == /\ at[c] = "open"
           /\ LET n == IF tmp = Nothing THEN Free ELSE tmp
              IN /\ data' = [data EXCEPT ![n] = Empty]
                 /\ tmp' = n
                 /\ fd' = [fd EXCEPT ![c] = n]
           /\ at' = [at EXCEPT ![c] = "write"]
           /\ UNCHANGED <<path, new, calls, overlapped>>

\* Written from the beginning: over another payload, the longer end of that one
\* stays.  Closed with it.
Write(c) == /\ at[c] = "write"
            /\ \E written \in {Book(new[c])} \cup (IF data[fd[c]] = Empty THEN {} ELSE {Torn}) :
                  data' = [data EXCEPT ![fd[c]] = written]
            /\ at' = [at EXCEPT ![c] = "rename"]
            /\ fd' = [fd EXCEPT ![c] = Nothing]
            /\ UNCHANGED <<path, tmp, new, calls, overlapped>>

Finish(c) == /\ at' = [at EXCEPT ![c] = "idle"]
             /\ new' = [new EXCEPT ![c] = <<>>]

\* Raises when somebody else has renamed the temporary file.
Rename(c) == /\ at[c] = "rename"
             /\ IF tmp = Nothing THEN UNCHANGED <<path, tmp>>
                                 ELSE path' = tmp /\ tmp' = Nothing
             /\ Finish(c)
             /\ UNCHANGED <<data, fd, calls, overlapped>>

\* The next caller is another process.
Die(c) == /\ c \in Mortal /\ at[c] # "idle"
          /\ fd' = [fd EXCEPT ![c] = Nothing]
          /\ Finish(c)
          /\ UNCHANGED <<data, path, tmp, calls, overlapped>>

Next == \E c \in Callers : Call(c) \/ Open(c) \/ Write(c) \/ Rename(c) \/ Die(c)

Spec == Init /\ [][Next]_vars

-----------------------------------------------------------------------------
(* Properties *)

TypeOK == /\ path \in Inodes \cup {Nothing} /\ tmp \in Inodes \cup {Nothing}
          /\ fd \in [Callers -> Inodes \cup {Nothing}]
          /\ at \in [Callers -> {"idle", "open", "write", "rename"}]
          /\ \A n \in Inodes : /\ data[n].state \in {"whole", "empty", "torn"}
                               /\ \A id \in DOMAIN data[n].instincts :
                                      id \in Ids /\ data[n].instincts[id] \in Instinct
          /\ calls \in 0..MaxCalls
          /\ overlapped \in BOOLEAN

InFile == {Loaded[id] : id \in DOMAIN Loaded}

\* Whatever calls overlap and die: an instinct is approved only on positive
\* evidence and with every contradiction known to its approver, since one that
\* comes later suspends it, and it is global only behind an approval and
\* positive evidence from two projects (approve, add_evidence, promote_global).
Governed ==
    \A i \in InFile :
        /\ i.lifecycle = "approved" =>
               \A e \in i.evidence : Kind[e] = "strong" => e \in i.known
        /\ i.lifecycle # "candidate" => \E e \in i.known : Kind[e] = "positive"
        /\ i.scope = "global" =>
               /\ i.lifecycle # "candidate"
               /\ \E d, e \in Positive(i) : Project[d] # Project[e]

\* Confidence is earned: a call that is repeated does not count twice, and no
\* order of praise and penalty lifts an instinct above what its evidence is
\* worth or below what it costs.
Earned ==
    \A i \in InFile :
        LET penalties == {e \in i.evidence : Kind[e] \in {"strong", "weak"}}
        IN /\ i.confidence <= 5 + 3 * Cardinality(Positive(i))
           /\ i.confidence >= Least(MaxConfidence, 5 + 3 * Cardinality(Positive(i)))
                              - 4 * Cardinality(penalties)

\* As long as calls do not overlap, a caller that dies anywhere leaves a file
\* that can be read, and evidence is only ever added to an instinct that stays.
Durable ==
    [][~overlapped' =>
          /\ path # Nothing => path' # Nothing
          /\ path' # Nothing => data'[path'].state = "whole"
          /\ \A id \in DOMAIN Loaded \cap DOMAIN Loaded' :
                 Loaded[id].evidence \subseteq Loaded'[id].evidence]_vars
====
