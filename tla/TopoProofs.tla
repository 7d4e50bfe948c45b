---- MODULE TopoProofs ----
(***************************************************************************)
(* Theorems about the topological order of plan steps, for any number of   *)
(* steps and any dependencies, repeated ones and cycles included: the      *)
(* accounting of the loop, the order it builds and the verdict it ends     *)
(* with.  The sums and the filtered sequences of the loop are recursive    *)
(* functions, so the lemmas about them argue with a smallest set or number *)
(* for which they would be wrong.                                          *)
(***************************************************************************)
EXTENDS TopoOrder, FiniteSetTheorems, SequenceTheorems, TLAPS

-----------------------------------------------------------------------------
(* Smallest counterexamples *)

LEMMA SmallestNumber ==
    ASSUME NEW B \in SUBSET Nat, B # {}
    PROVE \E n \in B : \A m \in B : n <= m
<1> DEFINE Less == {ss \in Nat \X Nat : ss[1] < ss[2]}
<1>1. IsWellFoundedOn(Less, Nat)
  BY NatLessThanWellFounded DEF OpToRel
<1>2. PICK n \in B : \A m \in B : ~(<<m, n>> \in Less)
  <2> HIDE DEF Less
  <2> QED BY <1>1, WFMin
<1>3. \A m \in B : n <= m
  <2> SUFFICES ASSUME NEW m \in B PROVE n <= m
    OBVIOUS
  <2>1. n \in Nat /\ m \in Nat
    OBVIOUS
  <2>2. ~(m < n)
    BY <1>2, <2>1
  <2> QED BY <2>1, <2>2
<1> QED BY <1>3

LEMMA SmallestSet ==
    ASSUME NEW S, IsFiniteSet(S), NEW B \in SUBSET (SUBSET S), B # {}
    PROVE \E T \in B : \A U \in SUBSET T : U # T => U \notin B
<1>1. IsWellFoundedOn(StrictSubsetOrdering(S), SUBSET S)
  BY FS_StrictSubsetOrderingWellFounded, FS_FiniteSubsetsOfFinite
<1>2. PICK T \in B : \A U \in B : ~(<<U, T>> \in StrictSubsetOrdering(S))
  BY <1>1, WFMin
<1> QED BY <1>2 DEF StrictSubsetOrdering

-----------------------------------------------------------------------------
(* Sums *)

Some(T) == CHOOSE x \in T : TRUE

\* g sums f over the sets of D.
Sums(g, f, D) ==
    g = [T \in D |-> IF T = {} THEN 0 ELSE f[Some(T)] + g[T \ {Some(T)}]]

Sum(f, S) == MapThenSumSet(LAMBDA d : f[d], S)

LEMMA SumDef == ASSUME NEW f, NEW S
                PROVE Sum(f, S) = (CHOOSE g : Sums(g, f, SUBSET S))[S]
BY DEF Sum, MapThenSumSet, MapThenFoldSet, Sums, Some

LEMMA SomeIn == ASSUME NEW T, T # {} PROVE Some(T) \in T
BY DEF Some

\* The recursion that defines a sum has a solution.
LEMMA SumsExist ==
    ASSUME NEW S, IsFiniteSet(S), NEW f
    PROVE \E g : Sums(g, f, SUBSET S)
<1> DEFINE Small(n) == {T \in SUBSET S : Cardinality(T) <= n}
           Bad == {n \in Nat : ~\E g : Sums(g, f, Small(n))}
<1>1. \A T \in SUBSET S : IsFiniteSet(T) /\ Cardinality(T) \in Nat
  BY FS_Subset, FS_CardinalityType
<1>2. Bad = {}
  <2> SUFFICES ASSUME Bad # {} PROVE FALSE
    OBVIOUS
  <2>1. PICK n \in Bad : \A m \in Bad : n <= m
    BY SmallestNumber
  <2>2. CASE n = 0
    <3>1. \A T \in Small(0) : T = {}
      BY <1>1, FS_EmptySet
    <3>2. Sums([T \in Small(0) |-> 0], f, Small(0))
      BY <3>1 DEF Sums
    <3> QED BY <2>2, <3>2
  <2>3. CASE n # 0
    <3>1. n - 1 \in Nat /\ n - 1 \notin Bad
      <4>1. n \in Nat
        OBVIOUS
      <4> HIDE DEF Bad
      <4> QED BY <2>1, <2>3, <4>1
    <3>2. PICK g : Sums(g, f, Small(n - 1))
      BY <3>1
    <3> DEFINE h == [T \in Small(n) |->
                        IF T = {} THEN 0 ELSE f[Some(T)] + g[T \ {Some(T)}]]
    <3>3. ASSUME NEW T \in Small(n), T # {}
          PROVE T \ {Some(T)} \in Small(n - 1) /\ T \ {Some(T)} \in Small(n)
      <4>1. Cardinality(T \ {Some(T)}) = Cardinality(T) - 1
        BY <1>1, <3>3, SomeIn, FS_RemoveElement
      <4> QED BY <1>1, <4>1
    <3>4. \A T \in Small(n - 1) : h[T] = g[T]
      <4> SUFFICES ASSUME NEW T \in Small(n - 1) PROVE h[T] = g[T]
        OBVIOUS
      <4>1. T \in Small(n)
        BY <1>1
      <4>2. g[T] = IF T = {} THEN 0 ELSE f[Some(T)] + g[T \ {Some(T)}]
        <5> HIDE DEF Small
        <5> QED BY <3>2 DEF Sums
      <4> HIDE DEF Small
      <4> QED BY <4>1, <4>2
    <3>5. Sums(h, f, Small(n))
      <4> HIDE DEF Small
      <4>1. h = [T \in Small(n) |->
                   IF T = {} THEN 0 ELSE f[Some(T)] + h[T \ {Some(T)}]]
        BY <3>3, <3>4
      <4> HIDE DEF h
      <4> QED BY <4>1 DEF Sums
    <3> QED BY <3>5
  <2> QED BY <2>2, <2>3
<1>3. Cardinality(S) \in Nat /\ Small(Cardinality(S)) = SUBSET S
  BY FS_Subset, FS_CardinalityType
<1> QED BY <1>2, <1>3

LEMMA SumsAgree ==
    ASSUME NEW S, IsFiniteSet(S), NEW T \in SUBSET S, NEW f, NEW g, NEW h,
           Sums(g, f, SUBSET S), Sums(h, f, SUBSET T)
    PROVE g[T] = h[T]
<1> DEFINE Bad == {U \in SUBSET T : g[U] # h[U]}
<1>1. IsFiniteSet(T)
  BY FS_Subset
<1> SUFFICES ASSUME Bad # {} PROVE FALSE
  OBVIOUS
<1>2. PICK U \in Bad : \A V \in SUBSET U : V # U => V \notin Bad
  <2>1. Bad \in SUBSET (SUBSET T)
    OBVIOUS
  <2> HIDE DEF Bad
  <2> QED BY <1>1, <2>1, SmallestSet
<1>3. U \in SUBSET T /\ U \in SUBSET S /\ g[U] # h[U]
  BY <1>2
<1>4. /\ g[U] = IF U = {} THEN 0 ELSE f[Some(U)] + g[U \ {Some(U)}]
      /\ h[U] = IF U = {} THEN 0 ELSE f[Some(U)] + h[U \ {Some(U)}]
  BY <1>3 DEF Sums
<1>5. U # {} /\ Some(U) \in U
  BY <1>3, <1>4, SomeIn
<1>6. g[U \ {Some(U)}] = h[U \ {Some(U)}]
  <2>1. U \ {Some(U)} \in SUBSET U /\ U \ {Some(U)} # U /\ U \ {Some(U)} \in SUBSET T
    BY <1>3, <1>5
  <2> QED BY <1>2, <2>1
<1> QED BY <1>3, <1>4, <1>5, <1>6

LEMMA SumEmpty == ASSUME NEW f PROVE Sum(f, {}) = 0
<1>1. PICK g : Sums(g, f, SUBSET {})
  BY SumsExist, FS_EmptySet
<1> DEFINE c == CHOOSE h : Sums(h, f, SUBSET {})
<1>2. Sums(c, f, SUBSET {})
  BY <1>1
<1> HIDE DEF c
<1>3. c[{}] = 0
  BY <1>2 DEF Sums
<1> QED BY <1>3, SumDef DEF c

LEMMA SumUnfold ==
    ASSUME NEW S, IsFiniteSet(S), S # {}, NEW f
    PROVE Sum(f, S) = f[Some(S)] + Sum(f, S \ {Some(S)})
<1> DEFINE T == S \ {Some(S)}
           g == CHOOSE h : Sums(h, f, SUBSET S)
           k == CHOOSE h : Sums(h, f, SUBSET T)
<1>1. T \in SUBSET S /\ IsFiniteSet(T)
  BY FS_Subset
<1>2. Sums(g, f, SUBSET S)
  BY SumsExist
<1>3. Sums(k, f, SUBSET T)
  BY <1>1, SumsExist
<1>4. Sum(f, S) = g[S] /\ Sum(f, T) = k[T]
  BY SumDef
<1> HIDE DEF g, k
<1>5. g[S] = f[Some(S)] + g[T]
  BY <1>2 DEF Sums
<1>6. g[T] = k[T]
  BY <1>1, <1>2, <1>3, SumsAgree
<1> QED BY <1>4, <1>5, <1>6

\* What a term adds does not depend on the order of the terms.
LEMMA SumSplit ==
    ASSUME NEW S, IsFiniteSet(S), NEW f \in [S -> Nat]
    PROVE \A T \in SUBSET S : /\ Sum(f, T) \in Nat
                              /\ \A x \in T : Sum(f, T) = f[x] + Sum(f, T \ {x})
<1> DEFINE Good(T) == /\ Sum(f, T) \in Nat
                      /\ \A x \in T : Sum(f, T) = f[x] + Sum(f, T \ {x})
           Bad == {T \in SUBSET S : ~Good(T)}
<1>1. Bad = {}
  <2> SUFFICES ASSUME Bad # {} PROVE FALSE
    OBVIOUS
  <2>1. PICK T \in Bad : \A U \in SUBSET T : U # T => U \notin Bad
    <3>1. Bad \in SUBSET (SUBSET S)
      OBVIOUS
    <3> HIDE DEF Bad
    <3> QED BY <3>1, SmallestSet
  <2>2. T \in SUBSET S /\ ~Good(T) /\ IsFiniteSet(T)
    BY <2>1, FS_Subset
  <2>3. \A U \in SUBSET T : U # T => Good(U)
    BY <2>1, <2>2
  <2> HIDE DEF Bad
  <2>4. CASE T = {}
    BY <2>2, <2>4, SumEmpty
  <2>5. CASE T # {}
    <3> DEFINE c == Some(T)
    <3>1. c \in T
      BY <2>5, SomeIn
    <3>2. Sum(f, T) = f[c] + Sum(f, T \ {c})
      BY <2>2, <2>5, SumUnfold
    <3> HIDE DEF c
    <3>3. T \ {c} \in SUBSET T /\ T \ {c} # T
      BY <3>1
    <3>4. Good(T \ {c})
      BY <2>3, <3>3
    <3>5. f[c] \in Nat /\ Sum(f, T \ {c}) \in Nat
      BY <2>2, <3>1, <3>4
    <3>6. ASSUME NEW x \in T, x # c PROVE Sum(f, T) = f[x] + Sum(f, T \ {x})
      <4>1. T \ {x} \in SUBSET T /\ T \ {x} # T
        OBVIOUS
      <4>2. Good(T \ {x})
        BY <2>3, <4>1
      <4>3. x \in T \ {c} /\ c \in T \ {x} /\ (T \ {x}) \ {c} = (T \ {c}) \ {x}
        BY <3>1, <3>6
      <4> DEFINE rest == Sum(f, (T \ {c}) \ {x})
      <4>4. (T \ {c}) \ {x} \in SUBSET T /\ (T \ {c}) \ {x} # T
        BY <3>6
      <4>5. Good((T \ {c}) \ {x})
        BY <2>3, <4>4
      <4>6. rest \in Nat /\ f[x] \in Nat
        BY <2>2, <4>5
      <4>7. Sum(f, T \ {c}) = f[x] + rest /\ Sum(f, T \ {x}) = f[c] + rest
        BY <3>4, <4>2, <4>3
      <4> HIDE DEF rest
      <4> QED BY <3>2, <3>5, <4>6, <4>7
    <3>7. Good(T)
      BY <3>2, <3>5, <3>6
    <3> QED BY <2>2, <3>7
  <2> QED BY <2>4, <2>5
<1> QED BY <1>1

LEMMA SumZero ==
    ASSUME NEW S, IsFiniteSet(S), NEW f \in [S -> Nat]
    PROVE \A T \in SUBSET S : Sum(f, T) = 0 <=> \A x \in T : f[x] = 0
<1> DEFINE Good(T) == Sum(f, T) = 0 <=> \A x \in T : f[x] = 0
           Bad == {T \in SUBSET S : ~Good(T)}
<1>1. Bad = {}
  <2> SUFFICES ASSUME Bad # {} PROVE FALSE
    OBVIOUS
  <2>1. PICK T \in Bad : \A U \in SUBSET T : U # T => U \notin Bad
    <3>1. Bad \in SUBSET (SUBSET S)
      OBVIOUS
    <3> HIDE DEF Bad
    <3> QED BY <3>1, SmallestSet
  <2>2. T \in SUBSET S /\ ~Good(T)
    BY <2>1
  <2>3. T # {}
    BY <2>2, SumEmpty
  <2>4. PICK x \in T : TRUE
    BY <2>3
  <2>5. /\ Sum(f, T) = f[x] + Sum(f, T \ {x})
        /\ f[x] \in Nat /\ Sum(f, T \ {x}) \in Nat
    BY <2>2, SumSplit
  <2>6. Good(T \ {x})
    <3>1. T \ {x} \in SUBSET T /\ T \ {x} # T
      OBVIOUS
    <3> QED BY <2>1, <2>2, <3>1
  <2> QED BY <2>2, <2>5, <2>6
<1> QED BY <1>1

-----------------------------------------------------------------------------
(* Sequences without repetition *)

LEMMA ToSetEmpty == ToSet(<<>>) = {} /\ IsInjective(<<>>)
BY DEF ToSet, IsInjective

LEMMA ToSetConcat ==
    ASSUME NEW N, NEW s \in Seq(N), NEW t \in Seq(N)
    PROVE /\ ToSet(s \o t) = ToSet(s) \cup ToSet(t)
          /\ IsInjective(s) /\ IsInjective(t) /\ ToSet(s) \cap ToSet(t) = {}
                => IsInjective(s \o t)
<1>1. /\ Len(s) \in Nat /\ Len(t) \in Nat
      /\ DOMAIN s = 1..Len(s) /\ DOMAIN t = 1..Len(t)
      /\ DOMAIN (s \o t) = 1 .. Len(s) + Len(t)
      /\ \A i \in 1 .. Len(s) + Len(t) :
            (s \o t)[i] = IF i <= Len(s) THEN s[i] ELSE t[i - Len(s)]
  BY ConcatProperties, LenProperties
<1>2. ASSUME NEW i \in DOMAIN s PROVE i \in DOMAIN (s \o t) /\ (s \o t)[i] = s[i]
  BY <1>1
<1>3. ASSUME NEW i \in DOMAIN t
      PROVE i + Len(s) \in DOMAIN (s \o t) /\ (s \o t)[i + Len(s)] = t[i]
  BY <1>1
<1>4. ASSUME NEW i \in DOMAIN (s \o t), i <= Len(s)
      PROVE i \in DOMAIN s /\ (s \o t)[i] = s[i]
  BY <1>1, <1>4
<1>5. ASSUME NEW i \in DOMAIN (s \o t), ~(i <= Len(s))
      PROVE i - Len(s) \in DOMAIN t /\ (s \o t)[i] = t[i - Len(s)]
  BY <1>1, <1>5
<1>6. ToSet(s) \cup ToSet(t) \subseteq ToSet(s \o t)
  BY <1>2, <1>3 DEF ToSet
<1>7. ToSet(s \o t) \subseteq ToSet(s) \cup ToSet(t)
  BY <1>4, <1>5 DEF ToSet
<1>8. ASSUME IsInjective(s), IsInjective(t), ToSet(s) \cap ToSet(t) = {},
             NEW i \in DOMAIN (s \o t), NEW j \in DOMAIN (s \o t), (s \o t)[i] = (s \o t)[j]
      PROVE i = j
  <2>1. i \in Nat /\ j \in Nat
    BY <1>1
  <2>2. CASE i <= Len(s) /\ j <= Len(s)
    <3>1. i \in DOMAIN s /\ j \in DOMAIN s /\ s[i] = s[j]
      BY <1>4, <1>8, <2>2
    <3> QED BY <1>8, <3>1 DEF IsInjective
  <2>3. CASE ~(i <= Len(s)) /\ ~(j <= Len(s))
    <3>1. /\ i - Len(s) \in DOMAIN t /\ j - Len(s) \in DOMAIN t
          /\ t[i - Len(s)] = t[j - Len(s)]
      BY <1>5, <1>8, <2>3
    <3>2. i - Len(s) = j - Len(s)
      BY <1>8, <3>1 DEF IsInjective
    <3> QED BY <1>1, <2>1, <3>2
  <2>4. CASE i <= Len(s) /\ ~(j <= Len(s))
    <3>1. (s \o t)[i] \in ToSet(s)
      BY <1>4, <2>4 DEF ToSet
    <3>2. (s \o t)[j] \in ToSet(t)
      BY <1>5, <2>4 DEF ToSet
    <3> QED BY <1>8, <3>1, <3>2
  <2>5. CASE ~(i <= Len(s)) /\ j <= Len(s)
    <3>1. (s \o t)[j] \in ToSet(s)
      BY <1>4, <2>5 DEF ToSet
    <3>2. (s \o t)[i] \in ToSet(t)
      BY <1>5, <2>5 DEF ToSet
    <3> QED BY <1>8, <3>1, <3>2
  <2> QED BY <2>2, <2>3, <2>4, <2>5
<1>9. IsInjective(s) /\ IsInjective(t) /\ ToSet(s) \cap ToSet(t) = {}
         => IsInjective(s \o t)
  BY <1>8 DEF IsInjective
<1> QED BY <1>6, <1>7, <1>9

LEMMA ToSetOne == ASSUME NEW e PROVE ToSet(<<e>>) = {e} /\ IsInjective(<<e>>)
BY DEF ToSet, IsInjective

LEMMA ToSetAppend ==
    ASSUME NEW N, NEW s \in Seq(N), NEW e \in N
    PROVE /\ Append(s, e) \in Seq(N)
          /\ ToSet(Append(s, e)) = ToSet(s) \cup {e}
          /\ IsInjective(s) /\ e \notin ToSet(s) => IsInjective(Append(s, e))
<1>1. <<e>> \in Seq(N) /\ Append(s, e) = s \o <<e>>
  BY AppendIsConcat
<1>2. ToSet(<<e>>) = {e} /\ IsInjective(<<e>>)
  BY ToSetOne
<1>3. /\ s \o <<e>> \in Seq(N)
      /\ ToSet(s \o <<e>>) = ToSet(s) \cup ToSet(<<e>>)
      /\ IsInjective(s) /\ IsInjective(<<e>>) /\ ToSet(s) \cap ToSet(<<e>>) = {}
            => IsInjective(s \o <<e>>)
  BY <1>1, ToSetConcat, ConcatProperties
<1>4. ToSet(s) \cap {e} = {} <=> e \notin ToSet(s)
  OBVIOUS
<1> QED BY <1>1, <1>2, <1>3, <1>4

-----------------------------------------------------------------------------
(* The ids in document order *)

LEMMA NodesFinite ==
    /\ IsFiniteSet(Nodes) /\ Cardinality(Nodes) = Len(Ids)
    /\ Len(Ids) \in Nat /\ DOMAIN Ids = 1..Len(Ids) /\ \A i \in 1..Len(Ids) : Ids[i] \in Nodes
<1>1. Len(Ids) \in Nat /\ DOMAIN Ids = 1..Len(Ids) /\ Ids \in [1..Len(Ids) -> STRING]
  BY IdsAssumption, LenProperties
<1>2. Ids \in Surjection(1..Len(Ids), Nodes) /\ Ids \in Injection(1..Len(Ids), Nodes)
  BY <1>1, IdsAssumption DEF Nodes, ToSet, Surjection, Injection, IsInjective
<1>3. IsFiniteSet(1..Len(Ids)) /\ Cardinality(1..Len(Ids)) = Len(Ids)
  BY <1>1, FS_Interval
<1>4. IsFiniteSet(Nodes) /\ Cardinality(Nodes) = Len(Ids)
  BY <1>2, <1>3, FS_Surjection
<1> QED BY <1>1, <1>4 DEF Nodes, ToSet

\* u filters the first n ids, for every n up to m.
Filters(u, m, S) ==
    u = [n \in 0..m |->
            IF n = 0 THEN <<>>
            ELSE IF Ids[n] \in S THEN Append(u[n - 1], Ids[n]) ELSE u[n - 1]]

LEMMA FiltersExist ==
    ASSUME NEW S, NEW m \in Nat
    PROVE \E u : Filters(u, m, S)
<1> DEFINE Bad == {n \in Nat : ~\E u : Filters(u, n, S)}
<1>1. Bad = {}
  <2> SUFFICES ASSUME Bad # {} PROVE FALSE
    OBVIOUS
  <2>1. PICK n \in Bad : \A k \in Bad : n <= k
    <3>1. Bad \in SUBSET Nat
      OBVIOUS
    <3> HIDE DEF Bad
    <3> QED BY <3>1, SmallestNumber
  <2>2. n \in Nat /\ ~\E u : Filters(u, n, S)
    BY <2>1
  <2>3. CASE n = 0
    <3> DEFINE u == [k \in 0..0 |-> <<>>]
    <3>1. Filters(u, 0, S)
      BY DEF Filters
    <3> QED BY <2>2, <2>3, <3>1
  <2>4. CASE n # 0
    <3>1. n - 1 \in Nat /\ n - 1 \notin Bad
      <4> HIDE DEF Bad
      <4> QED BY <2>1, <2>2, <2>4
    <3>2. PICK u : Filters(u, n - 1, S)
      BY <3>1
    <3> DEFINE v == [k \in 0..n |->
                        IF k = 0 THEN <<>>
                        ELSE IF Ids[k] \in S THEN Append(u[k - 1], Ids[k]) ELSE u[k - 1]]
    <3>3. \A k \in 0..(n - 1) : v[k] = u[k]
      <4> SUFFICES ASSUME NEW k \in 0..(n - 1) PROVE v[k] = u[k]
        OBVIOUS
      <4>1. k \in 0..n
        BY <2>2
      <4>2. u[k] = IF k = 0 THEN <<>>
                   ELSE IF Ids[k] \in S THEN Append(u[k - 1], Ids[k]) ELSE u[k - 1]
        BY <3>2 DEF Filters
      <4> QED BY <4>1, <4>2
    <3>4. \A k \in 0..n : k # 0 => k - 1 \in 0..(n - 1) /\ k - 1 \in 0..n
      BY <2>2
    <3>5. v = [k \in 0..n |->
                 IF k = 0 THEN <<>>
                 ELSE IF Ids[k] \in S THEN Append(v[k - 1], Ids[k]) ELSE v[k - 1]]
      BY <3>3, <3>4
    <3> HIDE DEF v
    <3>6. Filters(v, n, S)
      BY <3>5 DEF Filters
    <3> QED BY <2>2, <3>6
  <2> QED BY <2>3, <2>4
<1> QED BY <1>1

\* The queue gets the ids of S, each once.
LEMMA DocumentOrder ==
    ASSUME NEW S \in SUBSET Nodes
    PROVE /\ InDocumentOrder(S) \in Seq(Nodes)
          /\ ToSet(InDocumentOrder(S)) = S
          /\ IsInjective(InDocumentOrder(S))
<1> DEFINE u == CHOOSE f : Filters(f, Len(Ids), S)
           m == Len(Ids)
           Good(n) == /\ u[n] \in Seq(Nodes) /\ IsInjective(u[n])
                      /\ ToSet(u[n]) = {Ids[i] : i \in 1..n} \cap S
           Bad == {n \in Nat : n <= m /\ ~Good(n)}
<1>1. m \in Nat /\ DOMAIN Ids = 1..m /\ \A i \in 1..m : Ids[i] \in Nodes
  BY NodesFinite
<1>2. InDocumentOrder(S) = u[m]
  BY DEF InDocumentOrder, Filters
<1>3. Filters(u, m, S)
  BY <1>1, FiltersExist
<1> HIDE DEF u, m
<1>4. Bad = {}
  <2> SUFFICES ASSUME Bad # {} PROVE FALSE
    OBVIOUS
  <2>1. PICK n \in Bad : \A k \in Bad : n <= k
    <3>1. Bad \in SUBSET Nat
      OBVIOUS
    <3> HIDE DEF Bad
    <3> QED BY <3>1, SmallestNumber
  <2>2. n \in Nat /\ n <= m /\ ~Good(n) /\ n \in 0..m
    BY <1>1, <2>1
  <2>3. u[n] = IF n = 0 THEN <<>>
               ELSE IF Ids[n] \in S THEN Append(u[n - 1], Ids[n]) ELSE u[n - 1]
    BY <1>3, <2>2 DEF Filters
  <2>4. CASE n = 0
    BY <2>2, <2>3, <2>4, ToSetEmpty
  <2>5. CASE n # 0
    <3>1. n - 1 \in Nat /\ n - 1 <= m /\ n - 1 \notin Bad
      <4> HIDE DEF Bad
      <4> QED BY <1>1, <2>1, <2>2, <2>5
    <3>2. Good(n - 1)
      <4> HIDE DEF Good
      <4> QED BY <3>1
    <3>3. n \in 1..m /\ Ids[n] \in Nodes
      BY <1>1, <2>2, <2>5
    <3>4. {Ids[i] : i \in 1..n} = {Ids[i] : i \in 1..(n - 1)} \cup {Ids[n]}
      <4>1. 1..n = 1..(n - 1) \cup {n}
        BY <2>2, <2>5
      <4> QED BY <4>1
    <3>5. Ids[n] \notin {Ids[i] : i \in 1..(n - 1)}
      BY <1>1, <3>3, IdsAssumption DEF IsInjective
    <3>6. CASE Ids[n] \in S
      <4>1. u[n] = Append(u[n - 1], Ids[n])
        BY <2>3, <2>5, <3>6
      <4>2. Good(n)
        BY <3>2, <3>3, <3>4, <3>5, <3>6, <4>1, ToSetAppend
      <4> QED BY <2>2, <4>2
    <3>7. CASE Ids[n] \notin S
      <4>1. u[n] = u[n - 1]
        BY <2>3, <2>5, <3>7
      <4>2. Good(n)
        BY <3>2, <3>4, <3>7, <4>1
      <4> QED BY <2>2, <4>2
    <3> QED BY <3>6, <3>7
  <2> QED BY <2>4, <2>5
<1>5. Good(m)
  <2>1. m \in Nat /\ m <= m
    BY <1>1
  <2> HIDE DEF Good
  <2> QED BY <1>4, <2>1
<1>6. {Ids[i] : i \in 1..m} = Nodes
  BY <1>1 DEF Nodes, ToSet
<1> QED BY <1>2, <1>5, <1>6

-----------------------------------------------------------------------------
(* The loop *)

LEMMA OccurrencesSum == ASSUME NEW s, NEW D PROVE Occurrences(s, D) = Sum(uses[s], D)
BY DEF Occurrences, Sum

LEMMA OccurrencesNext ==
    ASSUME NEW s
    PROVE Occurrences(s, Nodes \ ToSet(order))' = Sum(uses'[s], Nodes \ ToSet(order'))
BY DEF Occurrences, Sum, MapThenSumSet, MapThenFoldSet

LEMMA AccountingFrame ==
    ASSUME Accounting, UNCHANGED <<uses, indegree, queue, order>>
    PROVE Accounting'
<1>1. ASSUME NEW s \in Nodes
      PROVE indegree'[s] = Occurrences(s, Nodes \ ToSet(order))'
  <2>1. indegree[s] = Sum(uses[s], Nodes \ ToSet(order))
    BY OccurrencesSum DEF Accounting
  <2>2. indegree'[s] = Sum(uses'[s], Nodes \ ToSet(order'))
    BY <2>1
  <2> QED BY <2>2, OccurrencesNext
<1> QED BY <1>1 DEF Accounting

LEMMA UsesType ==
    ASSUME TypeOK, NEW s \in Nodes
    PROVE uses[s] \in [Nodes -> Nat]
BY DEF TypeOK

LEMMA OccurrencesFacts ==
    ASSUME TypeOK, NEW s \in Nodes, NEW D \in SUBSET Nodes
    PROVE /\ Occurrences(s, D) \in Nat
          /\ \A x \in D : Occurrences(s, D) = uses[s][x] + Occurrences(s, D \ {x})
          /\ Occurrences(s, D) = 0 <=> \A d \in D : uses[s][d] = 0
<1>1. uses[s] \in [Nodes -> Nat] /\ IsFiniteSet(Nodes)
  BY UsesType, NodesFinite
<1>2. /\ Sum(uses[s], D) \in Nat
      /\ \A x \in D : Sum(uses[s], D) = uses[s][x] + Sum(uses[s], D \ {x})
      /\ Sum(uses[s], D) = 0 <=> \A d \in D : uses[s][d] = 0
  BY <1>1, SumSplit, SumZero
<1>3. \A E : Occurrences(s, E) = Sum(uses[s], E)
  BY OccurrencesSum
<1> QED BY <1>2, <1>3

LEMMA AccountingInit == Init => TypeOK /\ Accounting
<1> SUFFICES ASSUME Init PROVE TypeOK /\ Accounting
  OBVIOUS
<1> DEFINE Free == {s \in Nodes : indegree[s] = 0}
<1>1. /\ uses \in [Nodes -> [Nodes -> 0..MaxRepeats]]
      /\ indegree = [s \in Nodes |-> Occurrences(s, Nodes)]
      /\ queue = InDocumentOrder(Free)
      /\ order = <<>> /\ verdict = "open"
  BY DEF Init
<1>2. ASSUME NEW s \in Nodes
      PROVE /\ indegree[s] = Occurrences(s, Nodes) /\ indegree[s] \in Nat
            /\ indegree[s] = 0 <=> \A d \in Nodes : uses[s][d] = 0
  <2>1. uses[s] \in [Nodes -> Nat] /\ IsFiniteSet(Nodes)
    BY <1>1, RepeatsAssumption, NodesFinite
  <2>2. /\ Sum(uses[s], Nodes) \in Nat
        /\ Sum(uses[s], Nodes) = 0 <=> \A d \in Nodes : uses[s][d] = 0
    BY <2>1, SumSplit, SumZero
  <2>3. Occurrences(s, Nodes) = Sum(uses[s], Nodes)
    BY OccurrencesSum
  <2>4. indegree[s] = Occurrences(s, Nodes)
    BY <1>1
  <2> QED BY <2>2, <2>3, <2>4
<1>3. /\ queue \in Seq(Nodes) /\ ToSet(queue) = Free /\ IsInjective(queue)
  <2>1. Free \in SUBSET Nodes
    OBVIOUS
  <2> HIDE DEF Free
  <2> QED BY <1>1, <2>1, DocumentOrder
<1>4. TypeOK
  BY <1>1, <1>2, <1>3 DEF TypeOK
<1>5. order \o queue = queue /\ ToSet(order) = {}
  BY <1>1, <1>3, ConcatEmptySeq, ToSetEmpty
<1>6. Nodes \ ToSet(order) = Nodes
  BY <1>5
<1>7. Free = {s \in Nodes : \A d \in Nodes : uses[s][d] > 0 => d \in ToSet(order)}
  <2>1. ASSUME NEW s \in Nodes, NEW d \in Nodes
        PROVE uses[s][d] > 0 <=> ~(uses[s][d] = 0)
    BY <1>1, RepeatsAssumption
  <2> QED BY <1>2, <1>5, <2>1
<1>8. Accounting
  BY <1>2, <1>3, <1>5, <1>6, <1>7 DEF Accounting
<1> QED BY <1>4, <1>8

\* The queue's head is in no order yet, and its dependencies are.
LEMMA HeadReady ==
    ASSUME TypeOK, Accounting, queue # <<>>
    PROVE /\ Head(queue) \in Nodes /\ Head(queue) \notin ToSet(order)
          /\ Tail(queue) \in Seq(Nodes)
          /\ queue = <<Head(queue)>> \o Tail(queue)
          /\ \A d \in Nodes : uses[Head(queue)][d] > 0 => d \in ToSet(order)
<1>1. /\ Head(queue) \in Nodes /\ Tail(queue) \in Seq(Nodes)
      /\ Len(Tail(queue)) = Len(queue) - 1 /\ Len(queue) \in Nat \ {0}
      /\ \A i \in 1..Len(Tail(queue)) : Tail(queue)[i] = queue[i + 1]
  BY HeadTailProperties, EmptySeq DEF TypeOK
<1>2. Head(queue) = queue[1]
  BY DEF TypeOK
<1>3. queue = <<Head(queue)>> \o Tail(queue)
  <2> DEFINE q == <<Head(queue)>> \o Tail(queue)
  <2>1. <<Head(queue)>> \in Seq(Nodes) /\ Len(<<Head(queue)>>) = 1
    BY <1>1
  <2>2. /\ q \in Seq(Nodes) /\ Len(q) = 1 + Len(Tail(queue))
        /\ \A i \in 1 .. 1 + Len(Tail(queue)) :
              q[i] = IF i <= 1 THEN <<Head(queue)>>[i] ELSE Tail(queue)[i - 1]
    BY <1>1, <2>1, ConcatProperties
  <2>3. \A i \in 1..Len(queue) : q[i] = queue[i]
    <3> SUFFICES ASSUME NEW i \in 1..Len(queue) PROVE q[i] = queue[i]
      OBVIOUS
    <3> HIDE DEF q
    <3>1. CASE i = 1
      BY <1>1, <1>2, <2>2, <3>1
    <3>2. CASE i # 1
      <4>1. i - 1 \in 1..Len(Tail(queue)) /\ (i - 1) + 1 = i /\ i \in 1 .. 1 + Len(Tail(queue))
        BY <1>1, <3>2
      <4>2. q[i] = Tail(queue)[i - 1] /\ Tail(queue)[i - 1] = queue[i]
        BY <1>1, <2>2, <3>2, <4>1
      <4> QED BY <4>2
    <3> QED BY <3>1, <3>2
  <2> HIDE DEF q
  <2>4. Len(q) = Len(queue) /\ queue \in Seq(Nodes)
    BY <1>1, <2>2 DEF TypeOK
  <2>5. q = queue
    BY <2>2, <2>3, <2>4, SeqEqual
  <2> QED BY <2>5 DEF q
<1>4. Head(queue) \in ToSet(queue)
  BY <1>1, <1>2, LenProperties DEF TypeOK, ToSet
<1>5. ToSet(order \o queue) = ToSet(order) \cup ToSet(queue)
  BY ToSetConcat DEF TypeOK
<1>6. Head(queue) \notin ToSet(order)
  <2> SUFFICES ASSUME NEW i \in DOMAIN order, order[i] = Head(queue) PROVE FALSE
    BY DEF ToSet
  <2>1. /\ Len(order) \in Nat /\ DOMAIN order = 1..Len(order) /\ DOMAIN queue = 1..Len(queue)
        /\ DOMAIN (order \o queue) = 1 .. Len(order) + Len(queue)
        /\ \A j \in 1 .. Len(order) + Len(queue) :
              (order \o queue)[j] = IF j <= Len(order) THEN order[j] ELSE queue[j - Len(order)]
    BY ConcatProperties, LenProperties DEF TypeOK
  <2>2. (order \o queue)[i] = order[i] /\ i \in DOMAIN (order \o queue)
    BY <1>1, <2>1
  <2>3. /\ Len(order) + 1 \in DOMAIN (order \o queue)
        /\ (order \o queue)[Len(order) + 1] = queue[1]
    BY <1>1, <2>1
  <2>4. i = Len(order) + 1
    BY <1>2, <2>2, <2>3 DEF Accounting, IsInjective
  <2> QED BY <2>1, <2>4
<1> QED BY <1>1, <1>3, <1>4, <1>5, <1>6 DEF Accounting

\* Visiting the head settles its occurrences and queues what they blocked.
LEMMA VisitAccounting ==
    ASSUME TypeOK, Accounting, Visit
    PROVE TypeOK' /\ Accounting'
<1> DEFINE h == Head(queue)
           rest == Nodes \ ToSet(order)
           free == {s \in Nodes : uses[s][h] > 0 /\ indegree'[s] = 0}
<1>1. /\ order' = Append(order, h)
      /\ indegree' = [s \in Nodes |-> indegree[s] - uses[s][h]]
      /\ queue' = Tail(queue) \o InDocumentOrder(free)
      /\ UNCHANGED <<uses, verdict>>
  BY DEF Visit, Settle, Unblocked
<1>2. /\ h \in Nodes /\ h \notin ToSet(order) /\ Tail(queue) \in Seq(Nodes)
      /\ queue = <<h>> \o Tail(queue)
      /\ \A d \in Nodes : uses[h][d] > 0 => d \in ToSet(order)
  BY HeadReady DEF Visit
<1>3. /\ InDocumentOrder(free) \in Seq(Nodes) /\ ToSet(InDocumentOrder(free)) = free
      /\ IsInjective(InDocumentOrder(free))
  <2>1. free \in SUBSET Nodes
    OBVIOUS
  <2> HIDE DEF free
  <2> QED BY <2>1, DocumentOrder
<1> HIDE DEF h, free
<1>4. ToSet(order') = ToSet(order) \cup {h} /\ order' \in Seq(Nodes)
  BY <1>1, <1>2, ToSetAppend DEF TypeOK
<1>5. Nodes \ ToSet(order') = rest \ {h} /\ h \in rest /\ rest \ {h} \in SUBSET Nodes
  BY <1>2, <1>4
<1>6. ASSUME NEW s \in Nodes
      PROVE /\ indegree'[s] = Occurrences(s, rest \ {h})
            /\ indegree'[s] \in Nat
            /\ indegree'[s] = 0 <=> \A d \in Nodes \ ToSet(order') : uses[s][d] = 0
  <2>1. indegree[s] = Occurrences(s, rest)
    BY DEF Accounting
  <2>2. /\ Occurrences(s, rest) = uses[s][h] + Occurrences(s, rest \ {h})
        /\ Occurrences(s, rest \ {h}) \in Nat
        /\ Occurrences(s, rest \ {h}) = 0 <=> \A d \in rest \ {h} : uses[s][d] = 0
    BY <1>5, OccurrencesFacts
  <2>3. uses[s][h] \in Nat
    BY <1>2, UsesType
  <2>4. indegree'[s] = indegree[s] - uses[s][h]
    BY <1>1
  <2>5. indegree'[s] = Occurrences(s, rest \ {h})
    BY <2>1, <2>2, <2>3, <2>4
  <2> QED BY <1>5, <2>2, <2>5
<1>7. queue' \in Seq(Nodes)
  BY <1>1, <1>2, <1>3, ConcatProperties
<1>8. TypeOK'
  BY <1>1, <1>4, <1>6, <1>7 DEF TypeOK
<1>9. order' \o queue' = (order \o queue) \o InDocumentOrder(free)
  <2> DEFINE t == Tail(queue)
             f == InDocumentOrder(free)
  <2>1. order \in Seq(Nodes) /\ <<h>> \in Seq(Nodes) /\ t \in Seq(Nodes) /\ f \in Seq(Nodes)
    BY <1>2, <1>3 DEF TypeOK
  <2>2. order' = order \o <<h>> /\ queue' = t \o f /\ queue = <<h>> \o t
    BY <1>1, <1>2, <2>1, AppendIsConcat
  <2> HIDE DEF t, f
  <2>3. <<h>> \o t \in Seq(Nodes) /\ t \o f \in Seq(Nodes) /\ order \o <<h>> \in Seq(Nodes)
    BY <2>1, ConcatProperties
  <2>4. (order \o <<h>>) \o (t \o f) = order \o (<<h>> \o (t \o f))
    BY <2>1, <2>3, ConcatAssociative
  <2>5. <<h>> \o (t \o f) = (<<h>> \o t) \o f
    BY <2>1, ConcatAssociative
  <2>6. order \o ((<<h>> \o t) \o f) = (order \o (<<h>> \o t)) \o f
    BY <2>1, <2>3, ConcatAssociative
  <2>7. order' \o queue' = (order \o queue) \o f
    BY <2>2, <2>4, <2>5, <2>6
  <2> QED BY <2>7 DEF f
<1>10. order \o queue \in Seq(Nodes)
  BY ConcatProperties DEF TypeOK
<1>11. \A s, d \in Nodes : uses[s][d] > 0 <=> ~(uses[s][d] = 0)
  BY DEF TypeOK
<1>12. ToSet(order \o queue) =
         {s \in Nodes : \A d \in Nodes : uses[s][d] > 0 => d \in ToSet(order)}
  BY DEF Accounting
<1>13. ToSet(order \o queue) \cap free = {}
  BY <1>2, <1>12 DEF free
<1>14. IsInjective(order' \o queue')
  BY <1>3, <1>9, <1>10, <1>13, ToSetConcat DEF Accounting
<1>15. ToSet(order' \o queue') = ToSet(order \o queue) \cup free
  <2> DEFINE s == order \o queue
             t == InDocumentOrder(free)
  <2>1. s \in Seq(Nodes) /\ t \in Seq(Nodes)
    BY <1>3, <1>10
  <2> HIDE DEF s, t
  <2>2. ToSet(s \o t) = ToSet(s) \cup ToSet(t)
    BY <2>1, ToSetConcat
  <2> QED BY <1>3, <1>9, <2>2 DEF s, t
<1>16. ToSet(order' \o queue') =
         {s \in Nodes : \A d \in Nodes : uses[s][d] > 0 => d \in ToSet(order')}
  <2>1. ASSUME NEW s \in free
        PROVE s \in Nodes /\ \A d \in Nodes : uses[s][d] > 0 => d \in ToSet(order')
    BY <1>6, <1>11, <2>1 DEF free
  <2>2. ASSUME NEW s \in Nodes, \A d \in Nodes : uses[s][d] > 0 => d \in ToSet(order'),
               uses[s][h] > 0
        PROVE s \in free
    BY <1>6, <1>11, <2>2 DEF free
  <2>3. ASSUME NEW s \in Nodes, \A d \in Nodes : uses[s][d] > 0 => d \in ToSet(order'),
               ~(uses[s][h] > 0)
        PROVE s \in ToSet(order \o queue)
    BY <1>4, <1>12, <2>3
  <2> QED BY <1>4, <1>12, <1>15, <2>1, <2>2, <2>3
<1>17. \A s \in Nodes : indegree'[s] = Occurrences(s, Nodes \ ToSet(order))'
  <2> SUFFICES ASSUME NEW s \in Nodes
               PROVE indegree'[s] = Occurrences(s, Nodes \ ToSet(order))'
    OBVIOUS
  <2>1. Occurrences(s, Nodes \ ToSet(order))' = Occurrences(s, Nodes \ ToSet(order'))
    BY <1>1, OccurrencesNext, OccurrencesSum
  <2> QED BY <1>5, <1>6, <2>1
<1> QED BY <1>1, <1>8, <1>14, <1>16, <1>17 DEF Accounting

\* The head comes after what it depends on.
LEMMA VisitRespects ==
    ASSUME TypeOK, Accounting, RespectsDependencies, Visit
    PROVE RespectsDependencies'
<1> DEFINE h == Head(queue)
<1>1. order' = Append(order, h) /\ uses' = uses
  BY DEF Visit
<1>2. h \in Nodes /\ \A d \in Nodes : uses[h][d] > 0 => d \in ToSet(order)
  BY HeadReady DEF Visit
<1> HIDE DEF h
<1>3. /\ Len(order) \in Nat /\ DOMAIN order = 1..Len(order)
      /\ DOMAIN order' = 1 .. Len(order) + 1
      /\ \A i \in 1..Len(order) : order'[i] = order[i]
      /\ order'[Len(order) + 1] = h
  BY <1>1, <1>2, AppendProperties, LenProperties DEF TypeOK
<1> SUFFICES ASSUME NEW i \in DOMAIN order', NEW d \in Nodes, uses[order'[i]][d] > 0
             PROVE \E j \in 1..(i - 1) : order'[j] = d
  BY <1>1 DEF RespectsDependencies
<1>4. CASE i \in DOMAIN order
  <2>1. uses[order[i]][d] > 0
    BY <1>3, <1>4
  <2>2. PICK j \in 1..(i - 1) : order[j] = d
    BY <1>4, <2>1 DEF RespectsDependencies
  <2>3. j \in 1..Len(order)
    BY <1>3, <1>4, <2>2
  <2> QED BY <1>3, <2>2, <2>3
<1>5. CASE i \notin DOMAIN order
  <2>1. i = Len(order) + 1
    BY <1>3, <1>5
  <2>2. PICK j \in DOMAIN order : order[j] = d
    BY <1>2, <1>3, <2>1 DEF ToSet
  <2>3. j \in 1..(i - 1)
    BY <1>3, <2>1, <2>2
  <2> QED BY <1>3, <2>2, <2>3
<1> QED BY <1>4, <1>5

LEMMA TopoStep == ASSUME TopoInv, [Next]_vars PROVE TopoInv'
<1>1. CASE Visit
  <2>1. TypeOK' /\ Accounting' /\ RespectsDependencies'
    BY <1>1, VisitAccounting, VisitRespects DEF TopoInv
  <2>2. verdict' = "open"
    BY <1>1 DEF Visit, TopoInv, TypeOK
  <2> QED BY <2>1, <2>2 DEF TopoInv
<1>2. CASE Finish
  BY <1>2, AccountingFrame DEF Finish, TopoInv, TypeOK, RespectsDependencies
<1>3. CASE UNCHANGED vars
  BY <1>3, AccountingFrame DEF vars, TopoInv, TypeOK, RespectsDependencies
<1> QED BY <1>1, <1>2, <1>3 DEF Next

LEMMA TopoInvariant == Spec => []TopoInv
<1>1. Init => TopoInv
  <2> SUFFICES ASSUME Init PROVE TopoInv
    OBVIOUS
  <2>1. TypeOK /\ Accounting
    BY AccountingInit
  <2>2. DOMAIN order = {} /\ verdict = "open"
    BY DEF Init
  <2> QED BY <2>1, <2>2 DEF TopoInv, RespectsDependencies
<1> QED BY <1>1, TopoStep, PTL DEF Spec

-----------------------------------------------------------------------------
(* What holds of every run *)

\* indegree counts exactly the dependencies that are not yet in the order, and
\* the queue holds exactly the unvisited ids for which none is left, once each,
\* however often a dependency is repeated.
THEOREM AccountingHolds == Spec => []Accounting
<1>1. TopoInv => Accounting
  BY DEF TopoInv
<1> QED BY <1>1, TopoInvariant, PTL

\* No step ever precedes one it depends on.
THEOREM RespectsDependenciesHolds == Spec => []RespectsDependencies
<1>1. TopoInv => RespectsDependencies
  BY DEF TopoInv
<1> QED BY <1>1, TopoInvariant, PTL

\* Nothing is queued: either every id is in the order or the others need each
\* other.
LEMMA EmptyQueue ==
    ASSUME TypeOK, Accounting, queue = <<>>
    PROVE /\ ToSet(order) = {s \in Nodes : \A d \in Nodes : uses[s][d] > 0 => d \in ToSet(order)}
          /\ Len(order) = Len(Ids) <=> ToSet(order) = Nodes
<1>1. order \o queue = order /\ order \in Seq(Nodes)
  BY ConcatEmptySeq DEF TypeOK
<1>2. IsInjective(order) /\ ToSet(order) \in SUBSET Nodes
  BY <1>1 DEF Accounting
<1>3. Len(order) \in Nat /\ DOMAIN order = 1..Len(order) /\ order \in [1..Len(order) -> Nodes]
  BY <1>1, LenProperties
<1>4. /\ order \in Surjection(1..Len(order), ToSet(order))
      /\ order \in Injection(1..Len(order), ToSet(order))
  BY <1>2, <1>3 DEF ToSet, Surjection, Injection, IsInjective
<1>5. IsFiniteSet(1..Len(order)) /\ Cardinality(1..Len(order)) = Len(order)
  <2>1. \A n \in Nat : IsFiniteSet(1..n) /\ Cardinality(1..n) = n
    BY FS_Interval
  <2> QED BY <1>3, <2>1
<1>6. Cardinality(ToSet(order)) = Len(order)
  BY <1>4, <1>5, FS_Surjection
<1>7. Len(order) = Len(Ids) <=> ToSet(order) = Nodes
  BY <1>2, <1>6, NodesFinite, FS_Subset
<1> QED BY <1>1, <1>7 DEF Accounting

\* The earliest step of a cycle in the order would need one before it.
LEMMA OrderedNoCycle ==
    ASSUME TypeOK, RespectsDependencies, ToSet(order) = Nodes
    PROVE ~HasCycle
<1> SUFFICES ASSUME NEW S \in (SUBSET Nodes) \ {{}},
                    \A s \in S : \E d \in S : uses[s][d] > 0
             PROVE FALSE
  BY DEF HasCycle
<1> DEFINE At == {i \in DOMAIN order : order[i] \in S}
<1>1. Len(order) \in Nat /\ DOMAIN order = 1..Len(order)
  BY LenProperties DEF TypeOK
<1>2. At \in SUBSET Nat /\ At # {}
  BY <1>1 DEF ToSet
<1>3. PICK i \in At : \A j \in At : i <= j
  <2> HIDE DEF At
  <2> QED BY <1>2, SmallestNumber
<1>4. i \in DOMAIN order /\ order[i] \in S /\ i \in Nat
  BY <1>1, <1>3
<1>5. PICK d \in S : uses[order[i]][d] > 0
  BY <1>4
<1>6. PICK j \in 1..(i - 1) : order[j] = d
  BY <1>4, <1>5 DEF RespectsDependencies
<1>7. j \in At /\ j \in Nat /\ ~(i <= j)
  BY <1>1, <1>4, <1>5, <1>6
<1> HIDE DEF At
<1> QED BY <1>3, <1>7

\* topo_order raises for exactly the plans with a dependency cycle, and returns
\* every step of the others.
THEOREM VerdictExactHolds == Spec => []VerdictExact
<1>1. TopoInv => VerdictExact
  <2> SUFFICES ASSUME TopoInv PROVE VerdictExact
    OBVIOUS
  <2>1. TypeOK /\ Accounting /\ RespectsDependencies
    BY DEF TopoInv
  <2>2. ASSUME verdict = "ordered" PROVE ~HasCycle /\ ToSet(order) = Nodes
    BY <2>1, <2>2, EmptyQueue, OrderedNoCycle DEF TopoInv
  <2>3. ASSUME verdict = "cycle" PROVE HasCycle
    <3> DEFINE S == Nodes \ ToSet(order)
    <3>1. queue = <<>> /\ Len(order) # Len(Ids)
      BY <2>3 DEF TopoInv
    <3>2. /\ ToSet(order) =
                {s \in Nodes : \A d \in Nodes : uses[s][d] > 0 => d \in ToSet(order)}
          /\ ToSet(order) # Nodes
      BY <2>1, <3>1, EmptyQueue
    <3>3. S \in (SUBSET Nodes) \ {{}}
      BY <3>2
    <3>4. \A s \in S : \E d \in S : uses[s][d] > 0
      BY <3>2
    <3> HIDE DEF S
    <3> QED BY <3>3, <3>4 DEF HasCycle
  <2> QED BY <2>2, <2>3 DEF VerdictExact
<1> QED BY <1>1, TopoInvariant, PTL
====
