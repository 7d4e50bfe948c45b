---- MODULE InstinctProofs ----
(***************************************************************************)
(* What an approved or global instinct rests on and what its confidence is *)
(* worth, for any number of callers, instincts and pieces of evidence,     *)
(* whatever calls overlap and whoever dies: every file and every copy in   *)
(* memory holds good instincts only, whichever of them wins.               *)
(***************************************************************************)
EXTENDS InstinctStore, TLAPS, FiniteSetTheorems

-----------------------------------------------------------------------------
(* One instinct *)

Penalties(i) == {e \in i.evidence : Kind[e] \in {"strong", "weak"}}
Praise(i) == Cardinality(Positive(i))
Blame(i) == Cardinality(Penalties(i))

Rests(i) ==
    /\ i.known \subseteq i.evidence
    /\ i.lifecycle = "approved" =>
           \A e \in i.evidence : Kind[e] = "strong" => e \in i.known
    /\ i.lifecycle # "candidate" => \E e \in i.known : Kind[e] = "positive"
    /\ i.scope = "global" =>
           /\ i.lifecycle # "candidate"
           /\ \E d, e \in Positive(i) : Project[d] # Project[e]

Worth(i) ==
    /\ i.confidence <= 5 + 3 * Praise(i)
    /\ i.confidence >= Least(MaxConfidence, 5 + 3 * Praise(i)) - 4 * Blame(i)

Good(i) == i \in Instinct /\ Rests(i) /\ Worth(i)

LEMMA Counts ==
    ASSUME NEW i \in Instinct
    PROVE /\ IsFiniteSet(Positive(i)) /\ Praise(i) \in Nat
          /\ IsFiniteSet(Penalties(i)) /\ Blame(i) \in Nat
<1>1. Positive(i) \in SUBSET Evidence /\ Penalties(i) \in SUBSET Evidence
  BY DEF Positive, Penalties, Instinct
<1>2. IsFiniteSet(Positive(i)) /\ IsFiniteSet(Penalties(i))
  BY <1>1, EvidenceAssumption, FS_Subset
<1> QED BY <1>2, FS_CardinalityType DEF Praise, Blame

LEMMA FreshGood == Good(Fresh)
<1>1. Fresh \in Instinct
  BY DEF Fresh, Instinct, MaxConfidence
<1>2. Rests(Fresh)
  BY DEF Fresh, Rests
<1>3. Positive(Fresh) = {} /\ Penalties(Fresh) = {}
  BY DEF Fresh, Positive, Penalties
<1>4. Praise(Fresh) = 0 /\ Blame(Fresh) = 0
  BY <1>3, FS_EmptySet DEF Praise, Blame
<1>5. Worth(Fresh)
  BY <1>4 DEF Worth, Fresh, Least, MaxConfidence
<1> QED BY <1>1, <1>2, <1>5 DEF Good

\* New evidence keeps an instinct good: it counts once, and a contradiction of
\* an approved instinct suspends it.
LEMMA WeighedGood ==
    ASSUME NEW i, Good(i), NEW e \in Evidence
    PROVE Good(Weighed(i, e))
<1>i. i \in Instinct /\ i.confidence \in 0..20 /\ Rests(i) /\ Worth(i)
  BY DEF Good, Instinct, MaxConfidence
<1>k. Kind[e] \in {"positive", "strong", "weak", "neutral"}
  BY EvidenceAssumption
<1>0. CASE e \in i.evidence
  BY <1>0 DEF Weighed
<1>1. CASE e \notin i.evidence
  <2> DEFINE j == [i EXCEPT !.evidence = @ \cup {e},
                            !.confidence = Reweighted(Kind[e], @),
                            !.lifecycle = IF Kind[e] = "strong" /\ @ = "approved"
                                          THEN "suspended" ELSE @]
  <2>1. Reweighted(Kind[e], i.confidence) \in 0..20
    BY <1>i, <1>k DEF Reweighted, Least, Greatest, MaxConfidence
  <2>2. j \in Instinct
    BY <1>i, <2>1 DEF Instinct, MaxConfidence
  <2>3. /\ j.evidence = i.evidence \cup {e} /\ j.known = i.known /\ j.scope = i.scope
        /\ j.confidence = Reweighted(Kind[e], i.confidence)
        /\ j.lifecycle = IF Kind[e] = "strong" /\ i.lifecycle = "approved"
                         THEN "suspended" ELSE i.lifecycle
    BY <1>i DEF Instinct
  <2> HIDE DEF j
  <2>4. Rests(j)
    BY <1>i, <2>3 DEF Rests, Positive
  <2>5. /\ Positive(j) = IF Kind[e] = "positive" THEN Positive(i) \cup {e} ELSE Positive(i)
        /\ Penalties(j) = IF Kind[e] \in {"strong", "weak"} THEN Penalties(i) \cup {e}
                                                           ELSE Penalties(i)
        /\ e \notin Positive(i) /\ e \notin Penalties(i)
    BY <1>1, <2>3 DEF Positive, Penalties
  <2>6. /\ Praise(j) = IF Kind[e] = "positive" THEN Praise(i) + 1 ELSE Praise(i)
        /\ Blame(j) = IF Kind[e] \in {"strong", "weak"} THEN Blame(i) + 1 ELSE Blame(i)
        /\ Praise(i) \in Nat /\ Blame(i) \in Nat
    BY <1>i, <2>5, Counts, FS_AddElement DEF Praise, Blame
  <2>7. Worth(j)
    BY <1>i, <1>k, <2>3, <2>6 DEF Worth, Reweighted, Least, Greatest, MaxConfidence
  <2>8. Weighed(i, e) = j
    BY <1>1 DEF Weighed, j
  <2> QED BY <2>2, <2>4, <2>7, <2>8 DEF Good
<1> QED BY <1>0, <1>1

LEMMA ApprovedGood ==
    ASSUME NEW i, Good(i), Positive(i) # {}
    PROVE Good(Approved(i))
<1> DEFINE j == Approved(i)
<1>i. i \in Instinct /\ Rests(i) /\ Worth(i)
  BY DEF Good
<1>1. j \in Instinct
  BY <1>i DEF Approved, Instinct
<1>2. /\ j.evidence = i.evidence /\ j.known = i.evidence /\ j.scope = i.scope
      /\ j.confidence = i.confidence /\ j.lifecycle = "approved"
  BY <1>i DEF Approved, Instinct
<1> HIDE DEF j
<1>3. Positive(j) = Positive(i) /\ Penalties(j) = Penalties(i)
  BY <1>2 DEF Positive, Penalties
<1>4. Rests(j)
  BY <1>i, <1>2, <1>3 DEF Rests, Positive
<1>5. Worth(j)
  BY <1>i, <1>2, <1>3 DEF Worth, Praise, Blame
<1> QED BY <1>1, <1>4, <1>5 DEF Good, j

LEMMA PromotedGood ==
    ASSUME NEW i, Good(i), i.lifecycle = "approved",
           \E d, e \in Positive(i) : Project[d] # Project[e]
    PROVE Good([i EXCEPT !.scope = "global"])
<1> DEFINE j == [i EXCEPT !.scope = "global"]
<1>i. i \in Instinct /\ Rests(i) /\ Worth(i)
  BY DEF Good
<1>1. j \in Instinct
  BY <1>i DEF Instinct
<1>2. /\ j.evidence = i.evidence /\ j.known = i.known /\ j.scope = "global"
      /\ j.confidence = i.confidence /\ j.lifecycle = i.lifecycle
  BY <1>i DEF Instinct
<1> HIDE DEF j
<1>3. Positive(j) = Positive(i) /\ Penalties(j) = Penalties(i)
  BY <1>2 DEF Positive, Penalties
<1>4. Rests(j)
  BY <1>i, <1>2, <1>3 DEF Rests
<1>5. Worth(j)
  BY <1>i, <1>2, <1>3 DEF Worth, Praise, Blame
<1> QED BY <1>1, <1>4, <1>5 DEF Good, j

-----------------------------------------------------------------------------
(* Books and calls *)

GoodBook(book) == \A id \in DOMAIN book : Good(book[id])

\* Two projects among the projects of some evidence differ.
LEMMA TwoProjects ==
    ASSUME NEW i \in Instinct, Cardinality({Project[e] : e \in Positive(i)}) >= 2
    PROVE \E d, e \in Positive(i) : Project[d] # Project[e]
<1> DEFINE P == {Project[e] : e \in Positive(i)}
<1> SUFFICES ASSUME \A d, e \in Positive(i) : Project[d] = Project[e]
             PROVE Cardinality(P) \in {0, 1}
  BY DEF P
<1>1. CASE Positive(i) = {}
  <2>1. P = {}
    BY <1>1
  <2> QED BY <2>1, FS_EmptySet
<1>2. CASE Positive(i) # {}
  <2>1. PICK e \in Positive(i) : TRUE
    BY <1>2
  <2>2. P = {Project[e]}
    BY <2>1
  <2> QED BY <2>2, FS_Singleton
<1> QED BY <1>1, <1>2

LEMMA SavedGood ==
    ASSUME NEW book, GoodBook(book), NEW id, NEW saved \in Saved(book, id)
    PROVE GoodBook(saved)
<1>w. ASSUME NEW i, Good(i) PROVE GoodBook(With(book, id, i))
  BY <1>w DEF GoodBook, With
<1>1. CASE saved \in Propose(book, id)
  <2>1. PICK e \in Evidence :
          saved = With(book, id, Weighed(IF id \in DOMAIN book THEN book[id] ELSE Fresh, e))
    BY <1>1 DEF Propose
  <2>2. Good(IF id \in DOMAIN book THEN book[id] ELSE Fresh)
    BY FreshGood DEF GoodBook
  <2> QED BY <1>w, <2>1, <2>2, WeighedGood
<1>2. CASE saved \in AddEvidence(book, id)
  <2>1. PICK e \in Evidence : id \in DOMAIN book /\ saved = With(book, id, Weighed(book[id], e))
    BY <1>2 DEF AddEvidence
  <2>2. Good(book[id])
    BY <2>1 DEF GoodBook
  <2> QED BY <1>w, <2>1, <2>2, WeighedGood
<1>3. CASE saved \in Approve(book, id)
  <2>1. /\ id \in DOMAIN book /\ Positive(book[id]) # {}
        /\ saved = With(book, id, Approved(book[id]))
    BY <1>3 DEF Approve
  <2>2. Good(book[id])
    BY <2>1 DEF GoodBook
  <2> QED BY <1>w, <2>1, <2>2, ApprovedGood
<1>4. CASE saved \in PromoteGlobal(book, id)
  <2>1. /\ id \in DOMAIN book /\ book[id].lifecycle = "approved"
        /\ Cardinality({Project[e] : e \in Positive(book[id])}) >= 2
        /\ saved = With(book, id, [book[id] EXCEPT !.scope = "global"])
    BY <1>4 DEF PromoteGlobal
  <2>2. Good(book[id]) /\ book[id] \in Instinct
    BY <2>1 DEF GoodBook, Good
  <2>3. \E d, e \in Positive(book[id]) : Project[d] # Project[e]
    BY <2>1, <2>2, TwoProjects
  <2>4. Good([book[id] EXCEPT !.scope = "global"])
    BY <2>1, <2>2, <2>3, PromotedGood
  <2> QED BY <1>w, <2>1, <2>4
<1>5. CASE saved \in Remove(book, id)
  BY <1>5 DEF Remove, GoodBook
<1> QED BY <1>1, <1>2, <1>3, <1>4, <1>5 DEF Saved

\* There is always an inode left for a new temporary file, beside the file's own.
LEMMA InodeLeft ==
    ASSUME tmp = Nothing, fd \in [Callers -> Inodes \cup {Nothing}]
    PROVE Free \in Inodes /\ Free # path
<1> DEFINE used == {fd[c] : c \in Callers}
           n == Cardinality(Callers)
<1>1. IsFiniteSet(Callers) /\ n \in Nat
  BY StoreAssumption, FS_CardinalityType
<1>2. fd \in Surjection(Callers, used)
  BY DEF Surjection
<1>3. IsFiniteSet(used) /\ Cardinality(used) <= n
  BY <1>1, <1>2, FS_Surjection
<1>4. /\ IsFiniteSet(used \cup {path}) /\ Cardinality(used \cup {path}) <= n + 1
      /\ Cardinality(used) \in Nat
  <2> HIDE DEF used, n
  <2>1. Cardinality(used) \in Nat
    BY <1>3, FS_CardinalityType
  <2>2. /\ IsFiniteSet(used \cup {path})
        /\ Cardinality(used \cup {path}) \in {Cardinality(used), Cardinality(used) + 1}
    BY <1>3, FS_AddElement
  <2> QED BY <1>1, <1>3, <2>1, <2>2
<1>5. IsFiniteSet(Inodes) /\ Cardinality(Inodes) = n + 2
  BY <1>1, FS_Interval DEF Inodes
<1>6. PICK m \in Inodes : m \notin used \cup {path}
  <2> SUFFICES ASSUME Inodes \subseteq used \cup {path} PROVE FALSE
    OBVIOUS
  <2>1. Cardinality(Inodes) <= Cardinality(used \cup {path})
    BY <1>4, FS_Subset
  <2>2. Cardinality(used \cup {path}) \in Nat
    BY <1>4, FS_CardinalityType
  <2> QED BY <1>1, <1>4, <1>5, <2>1, <2>2
<1>7. m \in Unused
  BY <1>6, StoreAssumption DEF Unused
<1> QED BY <1>7 DEF Free, Unused

GoodStore ==
    /\ path \in Inodes \cup {Nothing} /\ tmp \in Inodes \cup {Nothing}
    /\ fd \in [Callers -> Inodes \cup {Nothing}]
    /\ DOMAIN data = Inodes
    /\ \A n \in Inodes : GoodBook(data[n].instincts)
    /\ DOMAIN new = Callers
    /\ \A c \in Callers : GoodBook(new[c])

LEMMA NoInstincts == GoodBook(<<>>)
BY DEF GoodBook

LEMMA GoodInit == Init => GoodStore
BY NoInstincts DEF Init, GoodStore, Empty

LEMMA GoodStep ==
    ASSUME GoodStore, [Next]_vars
    PROVE GoodStore'
<1>s. /\ path \in Inodes \cup {Nothing} /\ tmp \in Inodes \cup {Nothing}
      /\ fd \in [Callers -> Inodes \cup {Nothing}]
      /\ DOMAIN data = Inodes /\ DOMAIN new = Callers
      /\ \A n \in Inodes : GoodBook(data[n].instincts)
      /\ \A c \in Callers : GoodBook(new[c])
  BY DEF GoodStore
<1>1. ASSUME NEW c \in Callers, Call(c) PROVE GoodStore'
  <2>1. PICK id \in Ids : \E book \in Saved(Loaded, id) : new' = [new EXCEPT ![c] = book]
    BY <1>1 DEF Call
  <2>2. PICK book \in Saved(Loaded, id) : new' = [new EXCEPT ![c] = book]
    BY <2>1
  <2>3. GoodBook(Loaded)
    BY <1>s, NoInstincts DEF Loaded
  <2>4. GoodBook(book)
    BY <2>3, SavedGood
  <2>5. UNCHANGED <<data, path, tmp, fd>>
    BY <1>1 DEF Call
  <2> QED BY <1>s, <2>2, <2>4, <2>5 DEF GoodStore
<1>2. ASSUME NEW c \in Callers, Open(c) PROVE GoodStore'
  <2> DEFINE n == IF tmp = Nothing THEN Free ELSE tmp
  <2>1. n \in Inodes
    BY <1>s, InodeLeft
  <2>2. /\ data' = [data EXCEPT ![n] = Empty] /\ tmp' = n /\ fd' = [fd EXCEPT ![c] = n]
        /\ UNCHANGED <<path, new>>
    BY <1>2 DEF Open
  <2>3. GoodBook(Empty.instincts)
    BY NoInstincts DEF Empty
  <2> HIDE DEF n
  <2> QED BY <1>s, <2>1, <2>2, <2>3 DEF GoodStore
<1>3. ASSUME NEW c \in Callers, Write(c) PROVE GoodStore'
  <2>1. PICK written \in {Book(new[c]), Torn} : data' = [data EXCEPT ![fd[c]] = written]
    BY <1>3 DEF Write
  <2>2. GoodBook(written.instincts)
    BY <1>s, <2>1, NoInstincts DEF Book, Torn
  <2>3. fd' = [fd EXCEPT ![c] = Nothing] /\ UNCHANGED <<path, tmp, new>>
    BY <1>3 DEF Write
  <2> QED BY <1>s, <2>1, <2>2, <2>3 DEF GoodStore
<1>4. ASSUME NEW c \in Callers, Rename(c) PROVE GoodStore'
  <2>1. /\ path' \in {path, tmp} /\ tmp' \in {tmp, Nothing}
        /\ new' = [new EXCEPT ![c] = <<>>] /\ UNCHANGED <<data, fd>>
    BY <1>4 DEF Rename, Finish
  <2> QED BY <1>s, <2>1, NoInstincts DEF GoodStore
<1>5. ASSUME NEW c \in Callers, Die(c) PROVE GoodStore'
  <2>1. /\ fd' = [fd EXCEPT ![c] = Nothing]
        /\ new' = [new EXCEPT ![c] = <<>>] /\ UNCHANGED <<data, path, tmp>>
    BY <1>5 DEF Die, Finish
  <2> QED BY <1>s, <2>1, NoInstincts DEF GoodStore
<1>6. ASSUME UNCHANGED vars PROVE GoodStore'
  BY <1>6, <1>s DEF vars, GoodStore
<1> QED BY <1>1, <1>2, <1>3, <1>4, <1>5, <1>6 DEF Next

LEMMA GoodAlways == Spec => []GoodStore
<1>1. GoodStore /\ [Next]_vars => GoodStore'
  BY GoodStep
<1> QED BY <1>1, GoodInit, PTL DEF Spec

LEMMA FileGood ==
    ASSUME GoodStore, NEW i \in InFile
    PROVE Good(i)
<1>1. GoodBook(Loaded)
  BY NoInstincts DEF GoodStore, Loaded
<1> QED BY <1>1 DEF InFile, GoodBook

\* Approval rests on positive evidence and on every contradiction being known,
\* global scope on approval and two projects, whatever overlaps and dies
\* (approve, add_evidence, propose, promote_global).
THEOREM GovernedHolds == Spec => []Governed
<1>1. GoodStore => Governed
  BY FileGood DEF Governed, Good, Rests
<1> QED BY <1>1, GoodAlways, PTL

\* Confidence stays between what the evidence is worth and what it costs, each
\* piece counted once (propose, add_evidence).
THEOREM EarnedHolds == Spec => []Earned
<1>1. GoodStore => Earned
  BY FileGood DEF Earned, Good, Worth, Praise, Blame, Penalties
<1> QED BY <1>1, GoodAlways, PTL

-----------------------------------------------------------------------------
(* Calls that do not overlap *)

\* Whatever is in both books has in the second the evidence of the first.
Extends(old, book) ==
    \A id \in DOMAIN old \cap DOMAIN book : old[id].evidence \subseteq book[id].evidence

\* While no two calls have overlapped, the temporary file belongs to the one
\* caller that has opened it, and the file itself is complete.
AloneInv ==
    /\ \A c, d \in Callers : at[c] # "idle" /\ at[d] # "idle" => c = d
    /\ path # Nothing => path # tmp /\ data[path].state = "whole"
    /\ \A c \in Callers :
          /\ at[c] # "idle" => Extends(Loaded, new[c])
          /\ fd[c] # Nothing => at[c] = "write"
          /\ at[c] = "write" => tmp # Nothing /\ fd[c] = tmp /\ data[tmp] = Empty
          /\ at[c] = "rename" => tmp # Nothing /\ data[tmp] = Book(new[c])

\* An operation adds evidence to the instincts it keeps.
LEMMA SavedExtends ==
    ASSUME NEW book, GoodBook(book), NEW id, NEW saved \in Saved(book, id)
    PROVE Extends(book, saved)
<1>w. ASSUME NEW i, id \in DOMAIN book => book[id].evidence \subseteq i.evidence
      PROVE Extends(book, With(book, id, i))
  BY <1>w DEF Extends, With
<1>e. ASSUME NEW i \in Instinct, NEW e \in Evidence
      PROVE i.evidence \subseteq Weighed(i, e).evidence
  BY <1>e DEF Weighed, Instinct
<1>1. CASE saved \in Propose(book, id)
  <2>1. PICK e \in Evidence :
          saved = With(book, id, Weighed(IF id \in DOMAIN book THEN book[id] ELSE Fresh, e))
    BY <1>1 DEF Propose
  <2>2. id \in DOMAIN book => book[id] \in Instinct
    BY DEF GoodBook, Good
  <2> QED BY <1>w, <1>e, <2>1, <2>2
<1>2. CASE saved \in AddEvidence(book, id)
  <2>1. PICK e \in Evidence : id \in DOMAIN book /\ saved = With(book, id, Weighed(book[id], e))
    BY <1>2 DEF AddEvidence
  <2>2. book[id] \in Instinct
    BY <2>1 DEF GoodBook, Good
  <2> QED BY <1>w, <1>e, <2>1, <2>2
<1>3. CASE saved \in Approve(book, id) \cup PromoteGlobal(book, id)
  <2>1. id \in DOMAIN book
    BY <1>3 DEF Approve, PromoteGlobal
  <2>2. book[id] \in Instinct
    BY <2>1 DEF GoodBook, Good
  <2>3. PICK i \in {Approved(book[id]), [book[id] EXCEPT !.scope = "global"]} :
            saved = With(book, id, i)
    BY <1>3 DEF Approve, PromoteGlobal
  <2>4. Approved(book[id]).evidence = book[id].evidence
    BY <2>2 DEF Approved, Instinct
  <2>5. [book[id] EXCEPT !.scope = "global"].evidence = book[id].evidence
    BY <2>2 DEF Instinct
  <2> QED BY <1>w, <2>3, <2>4, <2>5
<1>4. CASE saved \in Remove(book, id)
  BY <1>4 DEF Remove, Extends
<1> QED BY <1>1, <1>2, <1>3, <1>4 DEF Saved

LEMMA AloneStep ==
    ASSUME GoodStore, at \in [Callers -> {"idle", "open", "write", "rename"}],
           ~overlapped => AloneInv, [Next]_vars, ~overlapped'
    PROVE /\ AloneInv' /\ (path # Nothing => path' # Nothing)
          /\ Extends(Loaded, Loaded')
<1>s. /\ path \in Inodes \cup {Nothing} /\ tmp \in Inodes \cup {Nothing}
      /\ fd \in [Callers -> Inodes \cup {Nothing}]
      /\ DOMAIN data = Inodes /\ DOMAIN new = Callers
      /\ Nothing \notin Inodes
  BY StoreAssumption DEF GoodStore
<1>a. AloneInv
  BY DEF Next, Call, Open, Write, Rename, Die, vars
<1>x. Extends(Loaded, Loaded)
  BY DEF Extends
<1>1. ASSUME NEW c \in Callers, Call(c)
      PROVE AloneInv' /\ path' = path /\ Loaded' = Loaded
  <2>0. PICK id \in Ids : \E book \in Saved(Loaded, id) : new' = [new EXCEPT ![c] = book]
    BY <1>1 DEF Call
  <2>1. PICK book \in Saved(Loaded, id) : new' = [new EXCEPT ![c] = book]
    BY <2>0
  <2>2. GoodBook(Loaded)
    BY <1>s, NoInstincts DEF Loaded, GoodStore
  <2>3. Extends(Loaded, book)
    BY <2>2, SavedExtends
  <2>4. /\ UNCHANGED <<data, path, tmp, fd>> /\ at' = [at EXCEPT ![c] = "open"]
        /\ \A d \in Callers \ {c} : at[d] = "idle"
        /\ at[c] = "idle"
    BY <1>1 DEF Call
  <2>5. Loaded' = Loaded
    BY <2>4 DEF Loaded
  <2>6. new'[c] = book
    BY <1>s, <2>1
  <2> QED BY <1>a, <2>3, <2>4, <2>5, <2>6 DEF AloneInv
<1>2. ASSUME NEW c \in Callers, Open(c)
      PROVE AloneInv' /\ path' = path /\ Loaded' = Loaded
  <2> DEFINE n == IF tmp = Nothing THEN Free ELSE tmp
  <2>1. n \in Inodes /\ n # path
    BY <1>s, <1>a, InodeLeft DEF AloneInv
  <2>2. /\ data' = [data EXCEPT ![n] = Empty] /\ tmp' = n /\ fd' = [fd EXCEPT ![c] = n]
        /\ at' = [at EXCEPT ![c] = "write"] /\ at[c] = "open"
        /\ UNCHANGED <<path, new>>
    BY <1>2 DEF Open
  <2> HIDE DEF n
  <2>3. Loaded' = Loaded
    BY <1>s, <2>1, <2>2 DEF Loaded
  <2>4. \A d \in Callers \ {c} : at[d] = "idle"
    BY <1>a, <2>2 DEF AloneInv
  <2>5. data'[n] = Empty /\ (path # Nothing => data'[path] = data[path])
    BY <1>s, <2>1, <2>2
  <2> QED BY <1>s, <1>a, <2>1, <2>2, <2>3, <2>4, <2>5 DEF AloneInv
<1>3. ASSUME NEW c \in Callers, Write(c)
      PROVE AloneInv' /\ path' = path /\ Loaded' = Loaded
  <2>1. at[c] = "write" /\ tmp # Nothing /\ fd[c] = tmp /\ data[tmp] = Empty
    BY <1>3, <1>a DEF Write, AloneInv
  <2>2. /\ data' = [data EXCEPT ![tmp] = Book(new[c])]
        /\ at' = [at EXCEPT ![c] = "rename"] /\ fd' = [fd EXCEPT ![c] = Nothing]
        /\ UNCHANGED <<path, tmp, new>>
    BY <1>3, <2>1 DEF Write
  <2>3. Loaded' = Loaded
    BY <1>s, <1>a, <2>1, <2>2 DEF Loaded, AloneInv
  <2>4. \A d \in Callers \ {c} : at[d] = "idle"
    BY <1>a, <2>1 DEF AloneInv
  <2>5. data'[tmp] = Book(new[c]) /\ (path # Nothing => data'[path] = data[path])
    BY <1>s, <1>a, <2>1, <2>2 DEF AloneInv
  <2> QED BY <1>s, <1>a, <2>1, <2>2, <2>3, <2>4, <2>5 DEF AloneInv
<1>4. ASSUME NEW c \in Callers, Rename(c)
      PROVE AloneInv' /\ path' # Nothing /\ Extends(Loaded, Loaded')
  <2>1. at[c] = "rename" /\ tmp # Nothing /\ data[tmp] = Book(new[c])
    BY <1>4, <1>a DEF Rename, AloneInv
  <2>2. /\ path' = tmp /\ tmp' = Nothing /\ UNCHANGED <<data, fd>>
        /\ at' = [at EXCEPT ![c] = "idle"] /\ new' = [new EXCEPT ![c] = <<>>]
    BY <1>4, <2>1 DEF Rename, Finish
  <2>3. Loaded' = new[c]
    BY <2>1, <2>2 DEF Loaded, Book
  <2>4. Extends(Loaded, new[c])
    BY <1>a, <2>1 DEF AloneInv
  <2>5. \A d \in Callers : at'[d] = "idle"
    BY <1>a, <2>1, <2>2 DEF AloneInv
  <2>6. \A d \in Callers : fd'[d] = Nothing
    BY <1>a, <2>1, <2>2 DEF AloneInv
  <2>7. data'[path'].state = "whole"
    BY <2>1, <2>2 DEF Book
  <2> QED BY <2>1, <2>2, <2>3, <2>4, <2>5, <2>6, <2>7 DEF AloneInv
<1>5. ASSUME NEW c \in Callers, Die(c)
      PROVE AloneInv' /\ path' = path /\ Loaded' = Loaded
  <2>1. /\ fd' = [fd EXCEPT ![c] = Nothing] /\ at' = [at EXCEPT ![c] = "idle"]
        /\ new' = [new EXCEPT ![c] = <<>>] /\ UNCHANGED <<data, path, tmp>>
    BY <1>5 DEF Die, Finish
  <2>2. Loaded' = Loaded
    BY <2>1 DEF Loaded
  <2>3. \A d \in Callers : at'[d] = "idle" /\ fd'[d] = Nothing
    BY <1>s, <1>a, <1>5, <2>1 DEF AloneInv, Die
  <2> QED BY <1>a, <2>1, <2>2, <2>3 DEF AloneInv
<1>6. CASE UNCHANGED vars
  BY <1>6, <1>a DEF vars, AloneInv, Loaded, Extends
<1>7. CASE Next
  <2>1. PICK c \in Callers : Call(c) \/ Open(c) \/ Write(c) \/ Rename(c) \/ Die(c)
    BY <1>7 DEF Next
  <2>2. AloneInv'
    BY <1>1, <1>2, <1>3, <1>4, <1>5, <2>1
  <2>3. path # Nothing => path' # Nothing
    BY <1>1, <1>2, <1>3, <1>4, <1>5, <2>1
  <2>4. CASE Rename(c)
    BY <1>4, <2>2, <2>4
  <2>5. CASE ~Rename(c)
    <3>1. Loaded' = Loaded
      BY <1>1, <1>2, <1>3, <1>5, <2>1, <2>5
    <3> QED BY <1>x, <2>2, <2>3, <3>1
  <2> QED BY <2>2, <2>3, <2>4, <2>5
<1> QED BY <1>6, <1>7, <1>x DEF vars, Loaded

\* As long as no two calls overlap, the file can be read after any step,
\* the death of a caller included, and an instinct that stays keeps its evidence
\* (_save with its temporary file, propose, add_evidence, remove).
THEOREM DurableHolds == Spec => Durable
<1> DEFINE Places == {"idle", "open", "write", "rename"}
           Inv == at \in [Callers -> Places] /\ (~overlapped => AloneInv)
<1>1. Init => Inv
  <2> SUFFICES ASSUME Init PROVE Inv
    OBVIOUS
  <2>1. /\ at = [c \in Callers |-> "idle"] /\ fd = [c \in Callers |-> Nothing]
        /\ path = Nothing
    BY DEF Init
  <2> QED BY <2>1 DEF AloneInv
<1>2. GoodStore /\ Inv /\ [Next]_vars => Inv'
  <2> SUFFICES ASSUME GoodStore, Inv, [Next]_vars PROVE Inv'
    OBVIOUS
  <2>1. at' \in [Callers -> Places]
    BY DEF Next, Call, Open, Write, Rename, Die, Finish, vars
  <2>2. ~overlapped' => AloneInv'
    BY AloneStep
  <2> QED BY <2>1, <2>2
<1>3. GoodStore /\ Inv /\ [Next]_vars =>
        [~overlapped' =>
            /\ path # Nothing => path' # Nothing
            /\ path' # Nothing => data'[path'].state = "whole"
            /\ \A id \in DOMAIN Loaded \cap DOMAIN Loaded' :
                   Loaded[id].evidence \subseteq Loaded'[id].evidence]_vars
  <2> SUFFICES ASSUME GoodStore, Inv, [Next]_vars, ~overlapped'
               PROVE /\ path # Nothing => path' # Nothing
                     /\ path' # Nothing => data'[path'].state = "whole"
                     /\ \A id \in DOMAIN Loaded \cap DOMAIN Loaded' :
                            Loaded[id].evidence \subseteq Loaded'[id].evidence
    OBVIOUS
  <2>1. /\ AloneInv' /\ (path # Nothing => path' # Nothing)
        /\ Extends(Loaded, Loaded')
    BY AloneStep
  <2> QED BY <2>1 DEF AloneInv, Extends
<1> HIDE DEF Inv
<1> QED BY <1>1, <1>2, <1>3, GoodAlways, PTL DEF Spec, Durable
====
