---- MODULE GatewayProofs ----
(***************************************************************************)
(* The bounds of AIGateway.chat for any number of threads, providers and   *)
(* agents: how often one call is sent, how many requests a minute holds    *)
(* and by how much a budget is overshot.                                   *)
(***************************************************************************)
EXTENDS Gateway, TLAPS, FiniteSetTheorems, SequenceTheorems, WellFoundedInduction

-----------------------------------------------------------------------------
(* Arithmetic and cardinalities *)

LEMMA TimesMonotonic ==
    ASSUME NEW m \in Nat, NEW n \in Nat, NEW k \in Nat, m <= n
    PROVE m * k \in Nat /\ n * k \in Nat /\ m * k <= n * k
OBVIOUS

LEMMA TimesPredecessor ==
    ASSUME NEW n \in Nat, NEW k \in Nat
    PROVE (n - 1) * k = n * k - k
OBVIOUS

\* Callers in flight among the callers of a set, as one of them comes and goes.
LEMMA InFlightCount ==
    ASSUME NEW S \in SUBSET Callers
    PROVE /\ IsFiniteSet(S) /\ Cardinality(S) \in Nat
          /\ \A T \in SUBSET S : /\ Cardinality(T) \in Nat /\ Cardinality(T) <= Cardinality(S)
                                 /\ T # S => Cardinality(T) < Cardinality(S)
                                 /\ \A c \in T : Cardinality(T \ {c}) = Cardinality(T) - 1
<1>1. IsFiniteSet(S)
  BY CallerAssumption, FS_Subset
<1>2. \A T \in SUBSET S : /\ IsFiniteSet(T) /\ Cardinality(T) <= Cardinality(S)
                          /\ Cardinality(S) = Cardinality(T) => S = T
  BY <1>1, FS_Subset
<1>3. Cardinality(S) \in Nat /\ \A T \in SUBSET S : Cardinality(T) \in Nat
  BY <1>1, <1>2, FS_CardinalityType
<1>4. \A T \in SUBSET S : \A c \in T : Cardinality(T \ {c}) = Cardinality(T) - 1
  BY <1>2, FS_RemoveElement
<1> QED BY <1>1, <1>2, <1>3, <1>4

\* Some number of a set is the least one.
LEMMA FirstOfNumbers ==
    ASSUME NEW S \in SUBSET Nat, S # {}
    PROVE \E i \in S : \A j \in S : i <= j
<1>1. IsWellFoundedOn(OpToRel(<, Nat), Nat)
  BY NatLessThanWellFounded
<1>2. PICK i \in S : \A j \in S : ~(<<j, i>> \in OpToRel(<, Nat))
  BY <1>1, WFMin
<1>3. \A j \in S : ~(j < i)
  BY <1>2 DEF OpToRel
<1> QED BY <1>3

-----------------------------------------------------------------------------
(* Attempts *)

Limit(p) == Retries + (IF Delegated(p) THEN 2 ELSE 1)

LEMMA AttemptsTyped ==
    ASSUME NEW p \in Providers
    PROVE /\ Attempts(p) \in Seq(Providers)
          /\ Len(Attempts(p)) \in Nat \ {0}
          /\ Limit(p) \in Nat
          /\ p \in Routed => Limit(p) = Retries + 1
          /\ p \notin Routed => Len(Attempts(p)) <= Limit(p)
<1> DEFINE n == Smaller(Retries, Len(Chain))
           fallback == SubSeq(Chain, 1, n)
           last == IF FallbackOn THEN fallback ELSE <<>>
           own == IF Delegated(p) /\ ~UpstreamFallback THEN <<>> ELSE <<p>> \o last
           first == IF Delegated(p) THEN <<Upstream>> ELSE <<>>
<1>1. Chain \in Seq(Providers) /\ Retries \in Nat /\ Len(Chain) \in Nat
  BY ProviderAssumption, LenProperties
<1>2. n \in Nat /\ n <= Retries /\ n <= Len(Chain)
  BY <1>1 DEF Smaller
<1>3. \A i \in 1..n : Chain[i] \in Providers
  BY <1>1, <1>2, ElementOfSeq
<1>4. fallback \in Seq(Providers) /\ Len(fallback) = n
  <2> HIDE DEF n
  <2>1. fallback \in Seq(Providers) /\ Len(fallback) = IF 1 <= n THEN n - 1 + 1 ELSE 0
    BY <1>2, <1>3, SubSeqProperties
  <2> QED BY <1>2, <2>1
<1>5. last \in Seq(Providers) /\ Len(last) \in Nat /\ Len(last) <= Retries
  <2>1. <<>> \in Seq(Providers) /\ Len(<<>>) = 0
    BY EmptySeq
  <2> HIDE DEF fallback, n
  <2> QED BY <1>1, <1>2, <1>4, <2>1
<1>6. <<p>> \in Seq(Providers) /\ Len(<<p>>) = 1
  OBVIOUS
<1>7. /\ <<p>> \o last \in Seq(Providers) /\ Len(<<p>> \o last) = 1 + Len(last)
      /\ <<p>> \o Chain \in Seq(Providers) /\ Len(<<p>> \o Chain) = 1 + Len(Chain)
  <2> HIDE DEF last
  <2> QED BY <1>1, <1>5, <1>6, ConcatProperties
<1>8. /\ own \in Seq(Providers)
      /\ Len(own) = IF Delegated(p) /\ ~UpstreamFallback THEN 0 ELSE 1 + Len(last)
  <2> HIDE DEF last
  <2> QED BY <1>7, EmptySeq
<1>9. first \in Seq(Providers) /\ Len(first) = IF Delegated(p) THEN 1 ELSE 0
  BY ProviderAssumption DEF Delegated
<1>10. first \o own \in Seq(Providers) /\ Len(first \o own) = Len(first) + Len(own)
  <2> HIDE DEF first, own
  <2> QED BY <1>8, <1>9, ConcatProperties
<1>11. p \in Routed => ~Delegated(p)
  BY DEF Delegated
<1>12. Attempts(p) = IF p \in Routed THEN <<p>> \o Chain ELSE first \o own
  BY DEF Attempts
<1> HIDE DEF first, own, last
<1>13. CASE p \in Routed
  BY <1>1, <1>7, <1>11, <1>12, <1>13 DEF Limit
<1>14. CASE p \notin Routed
  <2>1. Attempts(p) \in Seq(Providers) /\ Len(Attempts(p)) = Len(first) + Len(own)
    BY <1>10, <1>12, <1>14
  <2>2. /\ Len(first) + Len(own) \in Nat \ {0}
        /\ Limit(p) \in Nat
        /\ Len(first) + Len(own) <= Limit(p)
    <3>1. CASE Delegated(p)
      BY <1>1, <1>5, <1>8, <1>9, <3>1 DEF Limit
    <3>2. CASE ~Delegated(p)
      BY <1>1, <1>5, <1>8, <1>9, <3>2 DEF Limit
    <3> QED BY <3>1, <3>2
  <2> QED BY <1>14, <2>1, <2>2
<1> QED BY <1>13, <1>14

\* Where a call may be, and how often it has been sent by then.  Up to the
\* next attempt it has been sent less often than its place in the list and,
\* routed, at most as often as it is repeated; the last attempt adds one.
Progress(k) ==
    /\ k.tried <= Limit(k.prov)
    /\ k.at \in {"idle", "admit", "budget"} => k.i = 1 /\ k.tried = 0
    /\ k.at \in {"next", "asking"} => k.i \in 1..Len(Attempts(k.prov))
    /\ k.at = "next" => k.tried < k.i /\ (k.prov \in Routed => k.tried <= Retries)
    /\ k.at = "asking" => k.tried <= k.i

AttemptsInv == TypeOK /\ \A c \in Callers : Progress(call[c])

LEMMA UntriedProgress ==
    ASSUME NEW p \in Providers, NEW place \in {"idle", "admit"}
    PROVE Untried(place, p) \in Calls /\ Progress(Untried(place, p))
<1>1. Limit(p) \in Nat
  BY AttemptsTyped
<1>2. 0 \in 0..MaxCost
  BY LimitAssumption
<1>3. Untried(place, p) \in Calls
  BY <1>2 DEF Untried, Calls, Places
<1>4. Progress(Untried(place, p))
  BY <1>1 DEF Untried, Progress
<1> QED BY <1>3, <1>4

LEMMA FreshProgress ==
    ASSUME NEW c \in Callers
    PROVE Fresh(c) \in Calls /\ Progress(Fresh(c))
BY UntriedProgress, CallerAssumption DEF Fresh

\* A step of one call keeps the others' progress.
LEMMA PutKeeps ==
    ASSUME AttemptsInv, NEW c \in Callers, NEW k \in Calls, Progress(k), Put(c, k)
    PROVE /\ call' \in [Callers -> Calls]
          /\ \A d \in Callers : Progress(call'[d])
BY DEF AttemptsInv, TypeOK, Put

\* What routing finds is a provider.
LEMMA BestIsProvider ==
    ASSUME NEW p \in Providers
    PROVE BestProvider(p) \in Providers
<1> DEFINE first == CHOOSE i \in Alternatives(p) : \A j \in Alternatives(p) : i <= j
<1>1. CASE Healthy(p) \/ Alternatives(p) = {}
  BY <1>1 DEF BestProvider
<1>2. CASE ~Healthy(p) /\ Alternatives(p) # {}
  <2>1. Alternatives(p) \subseteq 1..Len(Priority) /\ Len(Priority) \in Nat
    BY ProviderAssumption, LenProperties DEF Alternatives
  <2>2. \E i \in Alternatives(p) : \A j \in Alternatives(p) : i <= j
    BY <1>2, <2>1, FirstOfNumbers
  <2>3. first \in 1..Len(Priority)
    BY <2>1, <2>2
  <2>4. Priority[first] \in Providers
    BY <2>3, ProviderAssumption, ElementOfSeq
  <2> QED BY <1>2, <2>4 DEF BestProvider
<1> QED BY <1>1, <1>2

\* Updates of a call that count.
LEMMA CallsClosed ==
    ASSUME NEW k \in Calls, NEW l \in {"none", "auth", "other"}
    PROVE /\ [k EXCEPT !.i = @ + 1, !.last = l] \in Calls
          /\ [k EXCEPT !.at = "next", !.last = l, !.i = @ + 1] \in Calls
          /\ [k EXCEPT !.at = "asking", !.tried = @ + 1] \in Calls
<1>1. k.i + 1 \in Nat /\ k.tried + 1 \in Nat
  BY DEF Calls
<1>2. \A n \in Nat : [k EXCEPT !.i = n, !.last = l] \in Calls
  BY DEF Calls
<1>3. \A n \in Nat : [k EXCEPT !.at = "next", !.last = l, !.i = n] \in Calls
  BY DEF Calls, Places
<1>4. \A n \in Nat : [k EXCEPT !.at = "asking", !.tried = n] \in Calls
  BY DEF Calls, Places
<1> QED BY <1>1, <1>2, <1>3, <1>4

LEMMA AttemptsInit == Init => AttemptsInv
<1> SUFFICES ASSUME Init PROVE AttemptsInv
  OBVIOUS
<1>1. \A c \in Callers : call[c] = Fresh(c) /\ Fresh(c) \in Calls /\ Progress(Fresh(c))
  BY FreshProgress DEF Init
<1> QED BY <1>1 DEF Init, AttemptsInv, TypeOK

LEMMA AttemptsStep ==
    ASSUME AttemptsInv, [Next]_vars
    PROVE AttemptsInv'
<1>t. /\ TypeOK
      /\ \A c \in Callers : call[c] \in Calls /\ Progress(call[c])
      /\ \A c \in Callers : call[c].prov \in Providers
  BY DEF AttemptsInv, TypeOK, Calls
<1>s. ASSUME NEW c \in Callers, NEW k \in Calls, Progress(k), Put(c, k),
             spent' \in Nat, spentBy' \in [Agents -> Nat], dayOver' \in BOOLEAN,
             recent' \in Nat, excluded' \subseteq Providers,
             cache' \subseteq Questions \X Providers
      PROVE AttemptsInv'
  BY <1>s, PutKeeps DEF AttemptsInv, TypeOK
<1>r. ASSUME NEW c \in Callers, Return(c),
             spent' \in Nat, spentBy' \in [Agents -> Nat], dayOver' \in BOOLEAN,
             recent' \in Nat, excluded' \subseteq Providers,
             cache' \subseteq Questions \X Providers
      PROVE AttemptsInv'
  BY <1>r, <1>s, FreshProgress DEF Return
<1>1. ASSUME NEW c \in Callers, Route(c) PROVE AttemptsInv'
  <2>1. PICK p \in Providers : Put(c, Untried("admit", p))
    BY <1>1, BestIsProvider, CallerAssumption DEF Route
  <2>2. Untried("admit", p) \in Calls /\ Progress(Untried("admit", p))
    BY UntriedProgress
  <2> QED BY <1>1, <1>s, <1>t, <2>1, <2>2 DEF Route, limits, TypeOK
<1>2. ASSUME NEW c \in Callers, TooFast(c) PROVE AttemptsInv'
  BY <1>2, <1>r, <1>t DEF TooFast, limits, TypeOK
<1>p. ASSUME NEW c \in Callers, PassRate(c) PROVE AttemptsInv'
  <2> DEFINE k == [call[c] EXCEPT !.at = "budget"]
  <2>1. call[c] \in Calls /\ Progress(call[c]) /\ call[c].at = "admit"
    BY <1>p, <1>t DEF PassRate, At
  <2>2. k \in Calls
    BY <2>1 DEF Calls, Places
  <2>3. Progress(k)
    BY <2>1 DEF Progress, Calls
  <2>4. Put(c, k) /\ UNCHANGED <<limits, recent, excluded, cache>>
    BY <1>p DEF PassRate
  <2> HIDE DEF k
  <2> QED BY <1>s, <1>t, <2>2, <2>3, <2>4 DEF limits, TypeOK
<1>3. ASSUME NEW c \in Callers, CheckSpend(c) PROVE AttemptsInv'
  <2> DEFINE k == [call[c] EXCEPT !.at = "next"]
  <2>1. call[c] \in Calls /\ Progress(call[c]) /\ call[c].at = "budget"
    BY <1>3, <1>t DEF CheckSpend, At
  <2>2. k \in Calls
    BY <2>1 DEF Calls, Places
  <2>3. Len(Attempts(call[c].prov)) \in Nat \ {0}
    BY <1>t, AttemptsTyped
  <2>4. Progress(k)
    BY <2>1, <2>3, ProviderAssumption DEF Progress, Calls
  <2>5. spent' \in Nat /\ spentBy' \in [Agents -> Nat] /\ dayOver' \in BOOLEAN
    BY <1>3, <1>t DEF CheckSpend, SpentToday, SpentBy, TypeOK
  <2>6. recent' \in Nat /\ excluded' \subseteq Providers /\ cache' \subseteq Questions \X Providers
    BY <1>3, <1>t DEF CheckSpend, TypeOK
  <2>7. Put(c, k) \/ Return(c)
    BY <1>3 DEF CheckSpend
  <2> HIDE DEF k
  <2> QED BY <1>r, <1>s, <2>2, <2>4, <2>5, <2>6, <2>7
<1>u. ASSUME NEW c \in Callers, UNCHANGED <<limits, recent, cache>>
      PROVE /\ spent' \in Nat /\ spentBy' \in [Agents -> Nat] /\ dayOver' \in BOOLEAN
            /\ recent' \in Nat /\ cache' \subseteq Questions \X Providers
  BY <1>t, <1>u DEF limits, TypeOK
<1>4. ASSUME NEW c \in Callers, SkipUnhealthy(c) PROVE AttemptsInv'
  <2> DEFINE k == call[c]
  <2>1. k \in Calls /\ Progress(k) /\ k.at = "next" /\ Len(Attempts(k.prov)) \in Nat
    BY <1>4, <1>t, AttemptsTyped DEF SkipUnhealthy
  <2>2. PICK l \in {"none", "auth", "other"} :
          Put(c, IF k.i = Len(Attempts(k.prov)) THEN [k EXCEPT !.at = "failed", !.last = l]
                                                ELSE [k EXCEPT !.i = @ + 1, !.last = l])
    <3>1. CASE k.prov \in Routed
      BY <1>4, <3>1 DEF SkipUnhealthy
    <3>2. CASE k.prov \notin Routed
      <4>1. k.last \in {"none", "auth", "other"}
        BY <2>1 DEF Calls
      <4> QED BY <1>4, <3>2, <4>1 DEF SkipUnhealthy
    <3> QED BY <3>1, <3>2
  <2>3. excluded' = excluded /\ excluded \subseteq Providers
    BY <1>4, <1>t DEF SkipUnhealthy, TypeOK
  <2>4. UNCHANGED <<limits, recent, cache>>
    BY <1>4 DEF SkipUnhealthy
  <2>5. CASE k.i = Len(Attempts(k.prov))
    <3>1. [k EXCEPT !.at = "failed", !.last = l] \in Calls
      BY <2>1 DEF Calls, Places
    <3>2. Progress([k EXCEPT !.at = "failed", !.last = l])
      BY <2>1 DEF Progress, Calls
    <3> QED BY <1>s, <1>u, <2>2, <2>3, <2>4, <2>5, <3>1, <3>2
  <2>6. CASE k.i # Len(Attempts(k.prov))
    <3>1. [k EXCEPT !.i = @ + 1, !.last = l] \in Calls
      BY <2>1, CallsClosed
    <3>2. Progress([k EXCEPT !.i = @ + 1, !.last = l])
      BY <2>1, <2>6, ProviderAssumption DEF Progress, Calls
    <3> QED BY <1>s, <1>u, <2>2, <2>3, <2>4, <2>6, <3>1, <3>2
  <2> QED BY <2>5, <2>6
<1>5. ASSUME NEW c \in Callers, Send(c) PROVE AttemptsInv'
  <2> DEFINE k == call[c]
             n == [k EXCEPT !.at = "asking", !.tried = @ + 1]
  <2>1. k \in Calls /\ Progress(k) /\ k.at = "next" /\ k.prov \in Providers
    BY <1>5, <1>t DEF Send
  <2>2. /\ Len(Attempts(k.prov)) \in Nat /\ Limit(k.prov) \in Nat
        /\ k.prov \in Routed => Limit(k.prov) = Retries + 1
        /\ k.prov \notin Routed => Len(Attempts(k.prov)) <= Limit(k.prov)
    BY <2>1, AttemptsTyped
  <2>3. n \in Calls
    BY <2>1, CallsClosed
  <2>4. k.tried + 1 <= Limit(k.prov) /\ k.tried + 1 <= k.i
    BY <2>1, <2>2, ProviderAssumption DEF Progress, Calls
  <2>5. Progress(n)
    BY <2>1, <2>4 DEF Progress, Calls
  <2>6. Put(c, n) /\ UNCHANGED <<limits, recent, excluded, cache>>
    BY <1>5 DEF Send
  <2> HIDE DEF n
  <2> QED BY <1>s, <1>t, <1>u, <2>3, <2>5, <2>6 DEF TypeOK
<1>6. ASSUME NEW c \in Callers, Succeed(c) PROVE AttemptsInv'
  <2>1. call[c] \in Calls /\ Progress(call[c]) /\ call[c].at = "asking"
    BY <1>6, <1>t DEF Succeed, At
  <2>2. PICK cost \in 0..MaxCost : Put(c, [call[c] EXCEPT !.at = "charge", !.cost = cost])
    BY <1>6 DEF Succeed
  <2> DEFINE n == [call[c] EXCEPT !.at = "charge", !.cost = cost]
  <2>3. n \in Calls
    BY <2>1 DEF Calls, Places
  <2>4. Progress(n)
    BY <2>1 DEF Progress, Calls
  <2>5. Put(c, n) /\ UNCHANGED <<limits, recent, excluded, cache>>
    BY <1>6, <2>2 DEF Succeed
  <2> HIDE DEF n
  <2> QED BY <1>s, <1>t, <1>u, <2>3, <2>4, <2>5 DEF TypeOK
<1>7. ASSUME NEW c \in Callers, Err(c) PROVE AttemptsInv'
  <2> DEFINE k == call[c]
             p == Attempts(k.prov)[k.i]
  <2>1. k \in Calls /\ Progress(k) /\ k.at = "asking" /\ k.prov \in Providers
    BY <1>7, <1>t DEF Err
  <2>2. Len(Attempts(k.prov)) \in Nat /\ Attempts(k.prov) \in Seq(Providers)
    BY <2>1, AttemptsTyped
  <2>3. p \in Providers
    BY <2>1, <2>2, ElementOfSeq DEF Progress
  <2>4. PICK kind \in {"auth", "other"} :
          /\ excluded' \subseteq excluded \cup {p}
          /\ Put(c, IF LastAttempt(k.prov, k.i)
                    THEN [k EXCEPT !.at = "failed", !.last = kind]
                    ELSE [k EXCEPT !.at = "next", !.last = kind, !.i = @ + 1])
    BY <1>7 DEF Err
  <2>5. excluded' \subseteq Providers
    BY <1>t, <2>3, <2>4 DEF TypeOK
  <2>6. UNCHANGED <<limits, recent, cache>>
    BY <1>7 DEF Err
  <2>7. CASE LastAttempt(k.prov, k.i)
    <3>1. [k EXCEPT !.at = "failed", !.last = kind] \in Calls
      BY <2>1 DEF Calls, Places
    <3>2. Progress([k EXCEPT !.at = "failed", !.last = kind])
      BY <2>1 DEF Progress, Calls
    <3> QED BY <1>s, <1>u, <2>4, <2>5, <2>6, <2>7, <3>1, <3>2
  <2>8. CASE ~LastAttempt(k.prov, k.i)
    <3> DEFINE n == [k EXCEPT !.at = "next", !.last = kind, !.i = @ + 1]
    <3>1. n \in Calls
      BY <2>1, CallsClosed
    <3>2. k.i # Len(Attempts(k.prov)) /\ (k.prov \in Routed => ~(k.i > Retries))
      BY <2>8 DEF LastAttempt
    <3>3. Progress(n)
      BY <2>1, <2>2, <3>2, ProviderAssumption DEF Progress, Calls
    <3>4. Put(c, n)
      BY <2>4, <2>8
    <3> HIDE DEF n
    <3> QED BY <1>s, <1>u, <2>5, <2>6, <3>1, <3>3, <3>4
  <2> QED BY <2>7, <2>8
<1>8. ASSUME NEW c \in Callers, Fail(c) PROVE AttemptsInv'
  <2>1. excluded' \subseteq Providers
    BY <1>8, <1>t DEF Fail, TypeOK
  <2> QED BY <1>8, <1>r, <1>u, <2>1 DEF Fail
<1>9. ASSUME NEW c \in Callers, Charge(c) PROVE AttemptsInv'
  <2> DEFINE n == [call[c] EXCEPT !.at = "fill"]
  <2>1. call[c] \in Calls /\ Progress(call[c]) /\ call[c].at = "charge" /\ call[c].cost \in Nat
    BY <1>9, <1>t, LimitAssumption DEF Charge, At, Calls
  <2>2. n \in Calls
    BY <2>1 DEF Calls, Places
  <2>3. Progress(n)
    BY <2>1 DEF Progress, Calls
  <2>4. spent' \in Nat /\ spentBy' \in [Agents -> Nat] /\ recent' \in Nat
    BY <1>9, <1>t, <2>1, CallerAssumption DEF Charge, TypeOK
  <2>5. /\ dayOver' \in BOOLEAN /\ excluded' \subseteq Providers
        /\ cache' \subseteq Questions \X Providers
    BY <1>9, <1>t DEF Charge, TypeOK
  <2>6. Put(c, n)
    BY <1>9 DEF Charge
  <2> HIDE DEF n
  <2> QED BY <1>s, <2>2, <2>3, <2>4, <2>5, <2>6
<1>10. ASSUME NEW c \in Callers, Fill(c) PROVE AttemptsInv'
  <2>1. cache' \subseteq Questions \X Providers
    BY <1>10, <1>t, CallerAssumption DEF Fill, TypeOK
  <2> QED BY <1>10, <1>r, <1>t, <2>1 DEF Fill, limits, TypeOK
<1>11. ASSUME Time PROVE AttemptsInv'
  <2>1. call' = call
    BY <1>11 DEF Time, Midnight, Minute, Expire, Evict
  <2>2. ASSUME Midnight PROVE TypeOK'
    BY <1>t, <2>2 DEF Midnight, TypeOK
  <2>3. ASSUME Minute PROVE TypeOK'
    BY <1>t, <2>3 DEF Minute, TypeOK, limits
  <2>4. ASSUME Evict PROVE TypeOK'
    BY <1>t, <2>4 DEF Evict, TypeOK, limits
  <2>5. ASSUME \E p \in Providers : Expire(p) PROVE TypeOK'
    BY <1>t, <2>5 DEF Expire, TypeOK, limits
  <2>6. TypeOK'
    BY <1>11, <2>2, <2>3, <2>4, <2>5 DEF Time
  <2> QED BY <1>t, <2>1, <2>6 DEF AttemptsInv
<1>12. ASSUME UNCHANGED vars PROVE AttemptsInv'
  BY <1>12, <1>t DEF AttemptsInv, TypeOK, vars
<1> QED BY <1>1, <1>2, <1>p, <1>3, <1>4, <1>5, <1>6, <1>7, <1>8, <1>9, <1>10, <1>11, <1>12
        DEF Next, Chat

LEMMA AttemptsAlways == Spec => []AttemptsInv
<1>1. AttemptsInv /\ [Next]_vars => AttemptsInv'
  BY AttemptsStep
<1> QED BY <1>1, AttemptsInit, PTL DEF Spec

\* The variables of the gateway keep their types, so every attempt is at a
\* place of the list of providers the call may be sent to (AIGateway.chat).
THEOREM TypeCorrect == Spec => []TypeOK
<1>1. AttemptsInv => TypeOK
  BY DEF AttemptsInv
<1> QED BY <1>1, AttemptsAlways, PTL

\* One call is sent at most once more than the configured retries, and once
\* more if it is delegated, for every chain and all providers' health
\* (_gateway_call, _delegated_or_direct).
THEOREM AttemptsBoundedHolds == Spec => []AttemptsBounded
<1>1. AttemptsInv => AttemptsBounded
  BY DEF AttemptsInv, AttemptsBounded, Progress, Limit
<1> QED BY <1>1, AttemptsAlways, PTL

-----------------------------------------------------------------------------
(* The books *)

Open == {"next", "asking", "failed", "charge"}

LEMMA InFlightPut ==
    ASSUME TypeOK, NEW c \in Callers, NEW k, Put(c, k)
    PROVE /\ InFlight' \subseteq Callers /\ InFlight \subseteq Callers
          /\ k.at \in Open => InFlight' = InFlight \cup {c}
          /\ k.at \notin Open => InFlight' = InFlight \ {c}
BY DEF TypeOK, Put, InFlight, Open

\* A step changes what is in flight not at all, by one caller that was just
\* admitted, by one that is charged or by one that failed.
LEMMA StepInFlight ==
    ASSUME AttemptsInv, [Next]_vars
    PROVE \/ /\ InFlight' = InFlight
             /\ spent' = spent /\ spentBy' = spentBy
             /\ recent' \in Nat /\ recent' <= recent
          \/ \E c \in Callers :
                /\ CheckSpend(c) /\ WithinBudget(Agent[c])
                /\ InFlight' = InFlight \cup {c}
          \/ \E c \in Callers :
                /\ CheckSpend(c)
                /\ InFlight' = InFlight /\ c \notin InFlight
          \/ \E c \in Callers :
                /\ Charge(c)
                /\ InFlight' = InFlight \ {c} /\ c \in InFlight
          \/ \E c \in Callers :
                /\ InFlight' = InFlight \ {c}
                /\ UNCHANGED <<limits, recent>>
<1> DEFINE Goal == \/ /\ InFlight' = InFlight
                      /\ spent' = spent /\ spentBy' = spentBy
                      /\ recent' \in Nat /\ recent' <= recent
                   \/ \E c \in Callers :
                         /\ CheckSpend(c) /\ WithinBudget(Agent[c])
                         /\ InFlight' = InFlight \cup {c}
                   \/ \E c \in Callers :
                         /\ CheckSpend(c)
                         /\ InFlight' = InFlight /\ c \notin InFlight
                   \/ \E c \in Callers :
                         /\ Charge(c)
                         /\ InFlight' = InFlight \ {c} /\ c \in InFlight
                   \/ \E c \in Callers :
                         /\ InFlight' = InFlight \ {c}
                         /\ UNCHANGED <<limits, recent>>
<1>t. TypeOK /\ recent \in Nat /\ \A c \in Callers : call[c] \in Calls
  BY DEF AttemptsInv, TypeOK
<1>f. \A c \in Callers : Fresh(c).at = "idle" /\ {"idle", "admit", "budget"} \cap Open = {}
  BY DEF Fresh, Untried, Open
<1>i. \A c \in Callers : call[c].at \in Open <=> c \in InFlight
  BY DEF InFlight, Open
<1>0. InFlight \subseteq Callers
  BY DEF InFlight
<1>n. ASSUME NEW c \in Callers, NEW k, Put(c, k), k.at \in Open <=> call[c].at \in Open,
             UNCHANGED <<limits, recent>>
      PROVE Goal
  <2>1. InFlight' = InFlight
    BY <1>0, <1>i, <1>n, <1>t, InFlightPut
  <2> QED BY <1>n, <1>t, <2>1 DEF limits
<1>1. ASSUME NEW c \in Callers, Route(c) PROVE Goal
  <2>1. PICK p : Put(c, Untried("admit", p))
    BY <1>1 DEF Route
  <2>2. Untried("admit", p).at = "admit" /\ call[c].at = "idle"
    BY <1>1 DEF Untried, Route, At
  <2> QED BY <1>1, <1>f, <1>n, <2>1, <2>2 DEF Route, Open
<1>2. ASSUME NEW c \in Callers, TooFast(c) PROVE Goal
  BY <1>2, <1>f, <1>n DEF TooFast, Return, At
<1>p. ASSUME NEW c \in Callers, PassRate(c) PROVE Goal
  <2> DEFINE k == [call[c] EXCEPT !.at = "budget"]
  <2>1. k.at = "budget" /\ call[c].at = "admit"
    BY <1>p, <1>t DEF PassRate, At, Calls
  <2>2. Put(c, k) /\ UNCHANGED <<limits, recent>>
    BY <1>p DEF PassRate
  <2> HIDE DEF k
  <2> QED BY <1>n, <2>1, <2>2 DEF Open
<1>3. ASSUME NEW c \in Callers, CheckSpend(c) PROVE Goal
  <2>1. call[c].at = "budget" /\ call[c] \in Calls
    BY <1>3, <1>t DEF CheckSpend, At
  <2>2. c \notin InFlight
    BY <1>f, <1>i, <2>1
  <2>3. CASE WithinBudget(Agent[c])
    <3>1. [call[c] EXCEPT !.at = "next"].at \in Open
      BY <2>1 DEF Open, Calls
    <3>2. Put(c, [call[c] EXCEPT !.at = "next"])
      BY <1>3, <2>3 DEF CheckSpend
    <3>3. InFlight' = InFlight \cup {c}
      BY <1>t, <3>1, <3>2, InFlightPut
    <3> QED BY <1>3, <2>3, <3>3
  <2>4. CASE ~WithinBudget(Agent[c])
    <3>1. Put(c, Fresh(c))
      BY <1>3, <2>4 DEF CheckSpend, Return
    <3>2. InFlight' = InFlight
      BY <1>f, <1>t, <2>2, <3>1, InFlightPut
    <3> QED BY <1>3, <2>2, <3>2
  <2> QED BY <2>3, <2>4
<1>4. ASSUME NEW c \in Callers, SkipUnhealthy(c) PROVE Goal
  <2> DEFINE l == IF call[c].prov \in Routed THEN "other" ELSE call[c].last
             last == [call[c] EXCEPT !.at = "failed", !.last = l]
             next == [call[c] EXCEPT !.i = @ + 1, !.last = l]
  <2>1. call[c] \in Calls /\ call[c].at = "next"
    BY <1>4, <1>t DEF SkipUnhealthy
  <2>2. last.at = "failed" /\ next.at = "next"
    BY <2>1 DEF Calls
  <2>3. Put(c, last) \/ Put(c, next)
    BY <1>4 DEF SkipUnhealthy
  <2>4. UNCHANGED <<limits, recent>>
    BY <1>4 DEF SkipUnhealthy
  <2> HIDE DEF last, next
  <2> QED BY <1>n, <2>1, <2>2, <2>3, <2>4 DEF Open
<1>5. ASSUME NEW c \in Callers, Send(c) PROVE Goal
  <2> DEFINE k == [call[c] EXCEPT !.at = "asking", !.tried = @ + 1]
  <2>1. call[c] \in Calls /\ call[c].at = "next"
    BY <1>5, <1>t DEF Send
  <2>2. k.at = "asking"
    BY <2>1 DEF Calls
  <2>3. Put(c, k) /\ UNCHANGED <<limits, recent>>
    BY <1>5 DEF Send
  <2> HIDE DEF k
  <2> QED BY <1>n, <2>1, <2>2, <2>3 DEF Open
<1>6. ASSUME NEW c \in Callers, Succeed(c) PROVE Goal
  <2>1. PICK cost \in 0..MaxCost : Put(c, [call[c] EXCEPT !.at = "charge", !.cost = cost])
    BY <1>6 DEF Succeed
  <2> DEFINE k == [call[c] EXCEPT !.at = "charge", !.cost = cost]
  <2>2. call[c] \in Calls /\ call[c].at = "asking" /\ UNCHANGED <<limits, recent>>
    BY <1>6, <1>t DEF Succeed, At
  <2>3. k.at = "charge"
    BY <2>2 DEF Calls
  <2>4. Put(c, k)
    BY <2>1
  <2> HIDE DEF k
  <2> QED BY <1>n, <2>2, <2>3, <2>4 DEF Open
<1>7. ASSUME NEW c \in Callers, Err(c) PROVE Goal
  <2>1. PICK kind \in {"auth", "other"} :
          Put(c, IF LastAttempt(call[c].prov, call[c].i)
                 THEN [call[c] EXCEPT !.at = "failed", !.last = kind]
                 ELSE [call[c] EXCEPT !.at = "next", !.last = kind, !.i = @ + 1])
    BY <1>7 DEF Err
  <2> DEFINE last == [call[c] EXCEPT !.at = "failed", !.last = kind]
             next == [call[c] EXCEPT !.at = "next", !.last = kind, !.i = @ + 1]
  <2>2. call[c] \in Calls /\ call[c].at = "asking" /\ UNCHANGED <<limits, recent>>
    BY <1>7, <1>t DEF Err
  <2>3. last.at = "failed" /\ next.at = "next"
    BY <2>2 DEF Calls
  <2>4. Put(c, last) \/ Put(c, next)
    BY <2>1
  <2> HIDE DEF last, next
  <2> QED BY <1>n, <2>2, <2>3, <2>4 DEF Open
<1>8. ASSUME NEW c \in Callers, Fail(c) PROVE Goal
  <2>1. InFlight' = InFlight \ {c}
    BY <1>8, <1>f, <1>t, InFlightPut DEF Fail, Return
  <2> QED BY <1>8, <2>1 DEF Fail
<1>9. ASSUME NEW c \in Callers, Charge(c) PROVE Goal
  <2>1. PICK k : Put(c, k) /\ k.at = "fill"
    BY <1>9, <1>t DEF Charge, Calls
  <2>2. InFlight' = InFlight \ {c}
    BY <1>t, <2>1, InFlightPut DEF Open
  <2>3. c \in InFlight
    BY <1>9 DEF Charge, At, InFlight
  <2> QED BY <1>9, <2>2, <2>3
<1>10. ASSUME NEW c \in Callers, Fill(c) PROVE Goal
  BY <1>10, <1>f, <1>n DEF Fill, Return, At, Open
<1>11. ASSUME Time PROVE Goal
  <2>1. call' = call /\ spent' = spent /\ spentBy' = spentBy
    BY <1>11 DEF Time, Midnight, Minute, Expire, Evict, limits
  <2>2. recent' \in Nat /\ recent' <= recent
    BY <1>11, <1>t DEF Time, Midnight, Minute, Expire, Evict
  <2> QED BY <2>1, <2>2 DEF InFlight
<1>12. ASSUME UNCHANGED vars PROVE Goal
  BY <1>12, <1>t DEF vars, InFlight
<1> QED BY <1>1, <1>2, <1>p, <1>3, <1>4, <1>5, <1>6, <1>7, <1>8, <1>9, <1>10, <1>11, <1>12
        DEF Next, Chat

Counted == {"budget", "next", "asking", "failed", "charge"}

LEMMA AdmittedPut ==
    ASSUME TypeOK, NEW c \in Callers, NEW k, Put(c, k)
    PROVE /\ Admitted' \subseteq Callers /\ Admitted \subseteq Callers
          /\ Admitted' \subseteq Admitted \cup {c}
          /\ k.at \notin Counted \/ c \in Admitted => Admitted' \subseteq Admitted
          /\ k.at \notin Counted => Admitted' = Admitted \ {c}
BY DEF TypeOK, Put, Admitted, Counted

\* A step admits nobody and counts nothing, admits one caller below the limit,
\* or counts one that was admitted.
LEMMA StepAdmitted ==
    ASSUME AttemptsInv, [Next]_vars
    PROVE \/ Admitted' \subseteq Admitted /\ recent' \in Nat /\ recent' <= recent
          \/ recent < Rpm /\ recent' = recent /\ Admitted' \subseteq Callers
          \/ \E c \in Admitted : Admitted' = Admitted \ {c} /\ recent' = recent + 1
<1> DEFINE Goal ==
      \/ Admitted' \subseteq Admitted /\ recent' \in Nat /\ recent' <= recent
      \/ recent < Rpm /\ recent' = recent /\ Admitted' \subseteq Callers
      \/ \E c \in Admitted : Admitted' = Admitted \ {c} /\ recent' = recent + 1
<1>t. TypeOK /\ recent \in Nat /\ \A c \in Callers : call[c] \in Calls
  BY DEF AttemptsInv, TypeOK
<1>s. ASSUME NEW c \in Callers, NEW k, Put(c, k), recent' = recent,
             k.at \notin Counted \/ c \in Admitted
      PROVE Goal
  BY <1>s, <1>t, AdmittedPut
<1>r. ASSUME NEW c \in Callers, Return(c), recent' = recent PROVE Goal
  BY <1>r, <1>s DEF Return, Fresh, Untried, Counted
<1>1. ASSUME NEW c \in Callers, Route(c) PROVE Goal
  BY <1>1, <1>s DEF Route, Untried, Counted
<1>2. ASSUME NEW c \in Callers, PassRate(c) PROVE Goal
  BY <1>2, <1>t, AdmittedPut DEF PassRate, WithinRate
<1>3. ASSUME NEW c \in Callers, TooFast(c) \/ Fail(c) \/ Fill(c) PROVE Goal
  BY <1>3, <1>r DEF TooFast, Fail, Fill
<1>4. ASSUME NEW c \in Callers,
             CheckSpend(c) \/ SkipUnhealthy(c) \/ Send(c) \/ Succeed(c) \/ Err(c)
      PROVE Goal
  <2>1. c \in Admitted
    BY <1>4 DEF CheckSpend, SkipUnhealthy, Send, Succeed, Err, At, Admitted
  <2>2. recent' = recent /\ \E k : Put(c, k)
    BY <1>4 DEF CheckSpend, SkipUnhealthy, Send, Succeed, Err, Return, Put
  <2> QED BY <1>s, <2>1, <2>2
<1>5. ASSUME NEW c \in Callers, Charge(c) PROVE Goal
  <2>1. PICK k : Put(c, k) /\ k.at = "fill"
    BY <1>5, <1>t DEF Charge, Calls
  <2>2. Admitted' = Admitted \ {c}
    BY <1>t, <2>1, AdmittedPut DEF Counted
  <2>3. c \in Admitted /\ recent' = recent + 1
    BY <1>5 DEF Charge, At, Admitted
  <2> QED BY <2>2, <2>3
<1>6. ASSUME Time \/ UNCHANGED vars PROVE Goal
  <2>1. call' = call
    BY <1>6 DEF Time, Midnight, Minute, Expire, Evict, vars
  <2>2. recent' \in Nat /\ recent' <= recent
    BY <1>6, <1>t DEF Time, Midnight, Minute, Expire, Evict, vars
  <2> QED BY <2>1, <2>2 DEF Admitted
<1> QED BY <1>1, <1>2, <1>3, <1>4, <1>5, <1>6 DEF Next, Chat

LEMMA RateStep ==
    ASSUME AttemptsInv, RateBounded, [Next]_vars
    PROVE RateBounded'
<1>n. /\ Cardinality(Callers) \in Nat /\ Admitted \in SUBSET Callers
      /\ Cardinality(Admitted) \in Nat /\ Rpm \in Nat /\ recent \in Nat
  BY InFlightCount, LimitAssumption DEF Admitted, AttemptsInv, TypeOK
<1>1. CASE Admitted' \subseteq Admitted /\ recent' \in Nat /\ recent' <= recent
  <2>1. Cardinality(Admitted') \in Nat /\ Cardinality(Admitted') <= Cardinality(Admitted)
    BY <1>1, <1>n, InFlightCount
  <2> QED BY <1>1, <1>n, <2>1 DEF RateBounded
<1>2. CASE recent < Rpm /\ recent' = recent /\ Admitted' \subseteq Callers
  <2>1. Cardinality(Admitted') \in Nat /\ Cardinality(Admitted') <= Cardinality(Callers)
    BY <1>2, InFlightCount
  <2> QED BY <1>2, <1>n, <2>1 DEF RateBounded
<1>3. ASSUME NEW c \in Admitted, Admitted' = Admitted \ {c}, recent' = recent + 1
      PROVE RateBounded'
  <2>1. Cardinality(Admitted') = Cardinality(Admitted) - 1
    BY <1>3, <1>n, InFlightCount
  <2> QED BY <1>3, <1>n, <2>1 DEF RateBounded
<1> QED BY <1>1, <1>2, <1>3, StepAdmitted

\* An amount spent for the callers S, and what those of them among T may still
\* cost, stay within what the limit leaves for all of S.
Fits(amount, limit, S, T) ==
    amount + Cardinality(T \cap S) * MaxCost <= limit - Estimate + Cardinality(S) * MaxCost

LEMMA FitsShrinks ==
    ASSUME NEW S \in SUBSET Callers, NEW T, NEW U, U \cap S \subseteq T \cap S,
           NEW a \in Nat, NEW b \in Nat, b <= a, NEW l \in Nat, Fits(a, l, S, T)
    PROVE Fits(b, l, S, U)
<1>1. Cardinality(U \cap S) <= Cardinality(T \cap S)
  <2>1. T \cap S \in SUBSET Callers /\ U \cap S \in SUBSET (T \cap S)
    OBVIOUS
  <2> QED BY <2>1, InFlightCount
<1>2. Cardinality(U \cap S) \in Nat /\ Cardinality(T \cap S) \in Nat /\ Cardinality(S) \in Nat
  BY InFlightCount
<1>3. /\ Cardinality(U \cap S) * MaxCost \in Nat /\ Cardinality(T \cap S) * MaxCost \in Nat
      /\ Cardinality(U \cap S) * MaxCost <= Cardinality(T \cap S) * MaxCost
  BY <1>1, <1>2, TimesMonotonic, LimitAssumption
<1>4. Cardinality(S) * MaxCost \in Nat
  BY <1>2, TimesMonotonic, LimitAssumption
<1> QED BY <1>3, <1>4, LimitAssumption DEF Fits

LEMMA FitsCharged ==
    ASSUME NEW S \in SUBSET Callers, NEW T, NEW c \in T \cap S, NEW cost \in 0..MaxCost,
           NEW a \in Nat, NEW l \in Nat, Fits(a, l, S, T)
    PROVE Fits(a + cost, l, S, T \ {c})
<1>1. (T \ {c}) \cap S = (T \cap S) \ {c}
  OBVIOUS
<1>2. Cardinality((T \cap S) \ {c}) = Cardinality(T \cap S) - 1
  BY InFlightCount
<1>3. Cardinality(T \cap S) \in Nat /\ Cardinality(S) \in Nat
  BY InFlightCount
<1>4. /\ (Cardinality(T \cap S) - 1) * MaxCost = Cardinality(T \cap S) * MaxCost - MaxCost
      /\ Cardinality(T \cap S) * MaxCost \in Nat /\ Cardinality(S) * MaxCost \in Nat
  BY <1>3, TimesPredecessor, TimesMonotonic, LimitAssumption
<1> DEFINE x == Cardinality(T \cap S) * MaxCost
           y == Cardinality(S) * MaxCost
<1>5. Cardinality((T \ {c}) \cap S) * MaxCost = x - MaxCost
  BY <1>1, <1>2, <1>4
<1>6. a + x <= l - Estimate + y
  BY DEF Fits
<1>7. x \in Nat /\ y \in Nat /\ cost \in Nat /\ cost <= MaxCost /\ MaxCost \in Nat /\ Estimate \in Nat
  BY <1>4, LimitAssumption
<1>8. a + cost + (x - MaxCost) <= l - Estimate + y
  <2> HIDE DEF x, y
  <2> QED BY <1>6, <1>7
<1> QED BY <1>5, <1>8 DEF Fits

\* What check has let pass fits whoever else is in flight.
LEMMA FitsAdmitted ==
    ASSUME NEW S \in SUBSET Callers, NEW T, NEW a \in Nat, NEW l \in Nat, a + Estimate <= l
    PROVE Fits(a, l, S, T)
<1>1. /\ Cardinality(T \cap S) \in Nat /\ Cardinality(S) \in Nat
      /\ Cardinality(T \cap S) <= Cardinality(S)
  BY InFlightCount
<1>2. /\ Cardinality(T \cap S) * MaxCost \in Nat /\ Cardinality(S) * MaxCost \in Nat
      /\ Cardinality(T \cap S) * MaxCost <= Cardinality(S) * MaxCost
  BY <1>1, TimesMonotonic, LimitAssumption
<1> QED BY <1>2, LimitAssumption DEF Fits

LEMMA FitsAtFirst ==
    ASSUME NEW S \in SUBSET Callers, S # {}, NEW l \in Nat
    PROVE Fits(0, l, S, {})
<1>1. {} \cap S = {} /\ Cardinality({}) = 0
  BY FS_EmptySet
<1>2. Cardinality(S) \in Nat /\ 0 < Cardinality(S)
  <2>1. {} \in SUBSET S /\ {} # S
    OBVIOUS
  <2>2. Cardinality(S) \in Nat /\ Cardinality({}) < Cardinality(S)
    BY <2>1, InFlightCount
  <2> QED BY <1>1, <2>2
<1>3. 1 * MaxCost <= Cardinality(S) * MaxCost /\ Cardinality(S) * MaxCost \in Nat
  BY <1>2, TimesMonotonic, LimitAssumption
<1> QED BY <1>1, <1>3, LimitAssumption DEF Fits

BooksInv ==
    /\ Fits(spent, Budget, Callers, InFlight)
    /\ \A a \in Limited : CallersOf(a) # {} =>
          Fits(spentBy[a], AgentBudget[a], CallersOf(a), InFlight)

LEMMA BooksInit == Init => BooksInv
<1> SUFFICES ASSUME Init PROVE BooksInv
  OBVIOUS
<1>1. InFlight = {}
  BY DEF Init, InFlight, Fresh, Untried
<1>4. Fits(spent, Budget, Callers, InFlight)
  BY <1>1, FitsAtFirst, CallerAssumption, LimitAssumption DEF Init
<1>5. ASSUME NEW a \in Limited, CallersOf(a) # {}
      PROVE Fits(spentBy[a], AgentBudget[a], CallersOf(a), InFlight)
  BY <1>1, <1>5, FitsAtFirst, LimitAssumption DEF Init, CallersOf
<1> QED BY <1>4, <1>5 DEF BooksInv

LEMMA BooksStep ==
    ASSUME AttemptsInv, BooksInv, [Next]_vars
    PROVE BooksInv'
<1>t. /\ spent \in Nat /\ spentBy \in [Agents -> Nat] /\ recent \in Nat
      /\ dayOver \in BOOLEAN
      /\ \A c \in Callers : call[c].cost \in 0..MaxCost
  BY DEF AttemptsInv, TypeOK, Calls
<1>n. Cardinality(Callers) \in Nat /\ InFlight \in SUBSET Callers
  BY InFlightCount DEF InFlight
<1>l. /\ Budget \in Nat /\ Rpm \in Nat /\ Limited \subseteq Agents
      /\ AgentBudget \in [Agents -> Nat] /\ Estimate \in Nat
  BY LimitAssumption
<1>a. \A a : CallersOf(a) \in SUBSET Callers
  BY DEF CallersOf
\* Nothing is added to the books, and nobody comes in flight.
<1>s. ASSUME InFlight' \subseteq InFlight,
             spent' \in Nat, spent' <= spent,
             \A a \in Agents : spentBy'[a] \in Nat /\ spentBy'[a] <= spentBy[a]
      PROVE BooksInv'
  <2>3. Fits(spent', Budget, Callers, InFlight')
    <3>1. Fits(spent, Budget, Callers, InFlight)
      BY DEF BooksInv
    <3>2. InFlight' \cap Callers \subseteq InFlight \cap Callers
      BY <1>s
    <3> QED BY <1>l, <1>s, <1>t, <3>1, <3>2, FitsShrinks
  <2>4. ASSUME NEW a \in Limited, CallersOf(a) # {}
        PROVE Fits(spentBy'[a], AgentBudget[a], CallersOf(a), InFlight')
    <3>1. Fits(spentBy[a], AgentBudget[a], CallersOf(a), InFlight)
      BY <2>4 DEF BooksInv
    <3>2. InFlight' \cap CallersOf(a) \subseteq InFlight \cap CallersOf(a)
      BY <1>s
    <3>3. /\ spentBy[a] \in Nat /\ spentBy'[a] \in Nat /\ spentBy'[a] <= spentBy[a]
          /\ AgentBudget[a] \in Nat
      BY <1>l, <1>s, <1>t
    <3> QED BY <1>a, <3>1, <3>2, <3>3, FitsShrinks
  <2> QED BY <2>3, <2>4 DEF BooksInv, Fits, CallersOf
<1>c. ASSUME NEW c \in Callers, CheckSpend(c)
      PROVE /\ spent' = SpentToday /\ spent' \in Nat /\ spent' <= spent
            /\ \A a \in Agents : /\ spentBy'[a] = SpentBy(a)
                                 /\ spentBy'[a] \in Nat /\ spentBy'[a] <= spentBy[a]
  BY <1>c, <1>t DEF CheckSpend, SpentToday, SpentBy
<1>1. CASE /\ InFlight' = InFlight
           /\ spent' = spent /\ spentBy' = spentBy
           /\ recent' \in Nat /\ recent' <= recent
  BY <1>1, <1>s, <1>t
<1>2. ASSUME NEW c \in Callers, CheckSpend(c), WithinBudget(Agent[c]),
             InFlight' = InFlight \cup {c}
      PROVE BooksInv'
  <2>3. Fits(spent', Budget, Callers, InFlight')
    <3>1. spent' + Estimate <= Budget
      BY <1>2, <1>c DEF WithinBudget
    <3> QED BY <1>2, <1>c, <1>l, <3>1, FitsAdmitted
  <2>4. ASSUME NEW a \in Limited, CallersOf(a) # {}
        PROVE Fits(spentBy'[a], AgentBudget[a], CallersOf(a), InFlight')
    <3>1. /\ spentBy[a] \in Nat /\ spentBy'[a] \in Nat /\ spentBy'[a] <= spentBy[a]
          /\ AgentBudget[a] \in Nat /\ spentBy'[a] = SpentBy(a)
      BY <1>2, <1>c, <1>l, <1>t
    <3>2. CASE a = Agent[c]
      <4>1. spentBy'[a] + Estimate <= AgentBudget[a]
        BY <1>2, <3>1, <3>2 DEF WithinBudget
      <4> QED BY <1>a, <3>1, <4>1, FitsAdmitted
    <3>3. CASE a # Agent[c]
      <4>1. InFlight' \cap CallersOf(a) \subseteq InFlight \cap CallersOf(a)
        BY <1>2, <3>3 DEF CallersOf
      <4>2. Fits(spentBy[a], AgentBudget[a], CallersOf(a), InFlight)
        BY <2>4 DEF BooksInv
      <4> QED BY <1>a, <3>1, <4>1, <4>2, FitsShrinks
    <3> QED BY <3>2, <3>3
  <2> QED BY <2>3, <2>4 DEF BooksInv, Fits, CallersOf
<1>3. ASSUME NEW c \in Callers, CheckSpend(c), InFlight' = InFlight
      PROVE BooksInv'
  BY <1>3, <1>c, <1>s, <1>t
<1>4. ASSUME NEW c \in Callers, Charge(c), InFlight' = InFlight \ {c}, c \in InFlight
      PROVE BooksInv'
  <2> DEFINE cost == call[c].cost
  <2>1. /\ spent' = spent + cost /\ cost \in 0..MaxCost
        /\ spentBy' = [spentBy EXCEPT ![Agent[c]] = @ + cost]
    BY <1>4, <1>t DEF Charge
  <2>3. Fits(spent', Budget, Callers, InFlight')
    <3>1. Fits(spent, Budget, Callers, InFlight) /\ c \in InFlight \cap Callers
      BY <1>4 DEF BooksInv
    <3> HIDE DEF cost
    <3> QED BY <1>4, <1>l, <1>t, <2>1, <3>1, FitsCharged
  <2>4. ASSUME NEW a \in Limited, CallersOf(a) # {}
        PROVE Fits(spentBy'[a], AgentBudget[a], CallersOf(a), InFlight')
    <3>1. spentBy[a] \in Nat /\ AgentBudget[a] \in Nat /\ a \in Agents
      BY <1>l, <1>t
    <3>2. Fits(spentBy[a], AgentBudget[a], CallersOf(a), InFlight)
      BY <2>4 DEF BooksInv
    <3>3. CASE a = Agent[c]
      <4>1. spentBy'[a] = spentBy[a] + cost
        BY <1>t, <2>1, <3>1, <3>3
      <4>2. c \in InFlight \cap CallersOf(a)
        BY <1>4, <3>3 DEF CallersOf
      <4> HIDE DEF cost
      <4>3. Fits(spentBy[a] + cost, AgentBudget[a], CallersOf(a), InFlight \ {c})
        BY <1>a, <2>1, <3>1, <3>2, <4>2, FitsCharged
      <4> QED BY <1>4, <4>1, <4>3
    <3>4. CASE a # Agent[c]
      <4>1. spentBy'[a] = spentBy[a]
        BY <1>t, <2>1, <3>1, <3>4
      <4>2. InFlight' \cap CallersOf(a) \subseteq InFlight \cap CallersOf(a)
        BY <1>4
      <4> QED BY <1>a, <3>1, <3>2, <4>1, <4>2, FitsShrinks
    <3> QED BY <3>3, <3>4
  <2> QED BY <2>3, <2>4 DEF BooksInv, Fits, CallersOf
<1>5. ASSUME NEW c \in Callers, InFlight' = InFlight \ {c}, UNCHANGED <<limits, recent>>
      PROVE BooksInv'
  BY <1>5, <1>s, <1>t DEF limits
<1> QED BY <1>1, <1>2, <1>3, <1>4, <1>5, StepInFlight

LEMMA BooksAlways == Spec => []BooksInv
<1>1. AttemptsInv /\ BooksInv /\ [Next]_vars => BooksInv'
  BY BooksStep
<1> QED BY <1>1, BooksInit, AttemptsAlways, PTL DEF Spec

\* Fewer requests are answered within a minute than the limit and the number
\* of threads together, as the limit is compared with the answered ones
\* (requests_in_last_minute, record_request).
THEOREM RateBoundedHolds == Spec => []RateBounded
<1>1. Init => RateBounded
  <2> SUFFICES ASSUME Init PROVE RateBounded
    OBVIOUS
  <2>1. Admitted = {}
    BY DEF Init, Admitted, Fresh, Untried
  <2>2. Cardinality({}) = 0 /\ Cardinality(Callers) \in Nat /\ 0 < Cardinality(Callers)
    BY FS_EmptySet, InFlightCount, CallerAssumption
  <2> QED BY <2>1, <2>2, LimitAssumption DEF Init, RateBounded
<1>2. AttemptsInv /\ RateBounded /\ [Next]_vars => RateBounded'
  BY RateStep
<1> QED BY <1>1, <1>2, AttemptsAlways, PTL DEF Spec

\* The budget of the day and those of agents are overshot by at most what the
\* callers that share them may have in flight (SpendLimit.check and record).
THEOREM SpendBoundedHolds == Spec => []SpendBounded
<1>1. AttemptsInv /\ BooksInv => SpendBounded
  <2> SUFFICES ASSUME AttemptsInv, BooksInv PROVE SpendBounded
    OBVIOUS
  <2>1. ASSUME NEW S \in SUBSET Callers, NEW a \in Nat, NEW l \in Nat, Fits(a, l, S, InFlight)
        PROVE a <= l - Estimate + Cardinality(S) * MaxCost
    <3>1. Cardinality(InFlight \cap S) \in Nat /\ Cardinality(S) \in Nat
      BY InFlightCount
    <3>2. Cardinality(InFlight \cap S) * MaxCost \in Nat /\ Cardinality(S) * MaxCost \in Nat
      BY <3>1, TimesMonotonic, LimitAssumption
    <3> QED BY <2>1, <3>2, LimitAssumption DEF Fits
  <2>2. spent <= Budget - Estimate + Cardinality(Callers) * MaxCost
    BY <2>1, LimitAssumption DEF AttemptsInv, TypeOK, BooksInv
  <2>3. ASSUME NEW a \in Limited, CallersOf(a) # {}
        PROVE spentBy[a] <= AgentBudget[a] - Estimate + Cardinality(CallersOf(a)) * MaxCost
    <3>1. spentBy[a] \in Nat /\ AgentBudget[a] \in Nat /\ CallersOf(a) \in SUBSET Callers
      BY LimitAssumption DEF AttemptsInv, TypeOK, CallersOf
    <3>2. Fits(spentBy[a], AgentBudget[a], CallersOf(a), InFlight)
      BY <2>3 DEF BooksInv
    <3> QED BY <2>1, <3>1, <3>2
  <2> QED BY <2>2, <2>3 DEF SpendBounded
<1> QED BY <1>1, AttemptsAlways, BooksAlways, PTL
====
