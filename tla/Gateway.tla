---- MODULE Gateway ----
(***************************************************************************)
(* AIGateway.chat (src/voly/ai_gateway) called by several threads of one   *)
(* process: rerouting away from unhealthy providers, the response cache,   *)
(* the rate and spend limits, the attempts on one provider after another,  *)
(* and the books kept on a success.  Limits are read before the call goes  *)
(* out and charged after it came back; what happens in between belongs to  *)
(* the other threads.                                                      *)
(***************************************************************************)
EXTENDS Integers, Sequences, FiniteSets

CONSTANTS
    Callers,     \* threads that call the gateway
    Providers,
    Agents,      \* the agents calls are made for
    Questions,   \* requests that are told apart by the cache
    NoProvider,
    Agent,       \* Agent[c]: the agent c calls for
    Question,    \* Question[c]: what c asks
    Requested,   \* Requested[c]: the provider c asks for
    MayReroute,  \* callers that leave the choice of another provider to chat
    Configured,  \* providers whose keys are there
    Routed,      \* providers that go through the Cloudflare gateway
    Priority,    \* PROVIDER_PRIORITY
    Chain,       \* the configured fallback chain
    FallbackOn,  \* the chain is used for direct providers, too
    Retries,     \* FallbackChain.retries
    Upstream,    \* the gateway calls are delegated to, or NoProvider
    UpstreamFallback \* upstream_fallback_direct

CONSTANTS
    Budget,      \* daily_budget_usd, in the unit of all costs
    Limited,     \* agents with a budget of their own
    AgentBudget, \* AgentBudget[a]: per_agent_budget of a limited agent
    Estimate,    \* the estimate of a call's cost before it
    MaxCost,     \* no call costs more
    Rpm          \* requests_per_minute

ASSUME CallerAssumption ==
    /\ IsFiniteSet(Callers) /\ Callers # {}
    /\ Agent \in [Callers -> Agents]
    /\ Question \in [Callers -> Questions]
    /\ Requested \in [Callers -> Providers]
    /\ MayReroute \subseteq Callers

ASSUME ProviderAssumption ==
    /\ NoProvider \notin Providers
    /\ Configured \subseteq Providers /\ Routed \subseteq Providers
    /\ Priority \in Seq(Providers) /\ Chain \in Seq(Providers)
    /\ FallbackOn \in BOOLEAN /\ UpstreamFallback \in BOOLEAN
    /\ Retries \in Nat
    /\ Upstream \in Providers \cup {NoProvider}

ASSUME LimitAssumption ==
    /\ Budget \in Nat /\ MaxCost \in Nat /\ Rpm \in Nat
    /\ Estimate \in 0..MaxCost
    /\ Limited \subseteq Agents
    /\ AgentBudget \in [Agents -> Nat]

VARIABLES
    spent,    \* SpendLimit.spent_today
    spentBy,  \* SpendLimit.spent_per_agent
    dayOver,  \* more than a day has passed since reset_at
    recent,   \* requests recorded within the last minute
    excluded, \* providers marked unhealthy whose exclusion has not expired
    cache,    \* the keys of the response cache
    call      \* call[c]: the call c is making

vars == <<spent, spentBy, dayOver, recent, excluded, cache, call>>

Places == {"idle", "admit", "budget", "next", "asking", "failed", "charge", "fill"}

Calls == [at    : Places,
          prov  : Providers,               \* the provider after rerouting
          i     : Nat,                     \* the next attempt
          tried : Nat,                     \* attempts sent out
          last  : {"none", "auth", "other"}, \* kind of the last error
          cost  : 0..MaxCost]

\* A call that has made no attempt yet.
Untried(place, p) == [at |-> place, prov |-> p, i |-> 1, tried |-> 0,
                      last |-> "none", cost |-> 0]

Fresh(c) == Untried("idle", Requested[c])

Init == /\ spent = 0
        /\ spentBy = [a \in Agents |-> 0]
        /\ dayOver = TRUE
        /\ recent = 0
        /\ excluded = {}
        /\ cache = {}
        /\ call = [c \in Callers |-> Fresh(c)]

At(c, place) == call[c].at = place
Put(c, new) == call' = [call EXCEPT ![c] = new]
Return(c) == Put(c, Fresh(c))

limits == <<spent, spentBy, dayOver>>

-----------------------------------------------------------------------------
(* Health and cache *)

Healthy(p) == p \in Configured \ excluded

Alternatives(p) == {i \in DOMAIN Priority : Priority[i] # p /\ Healthy(Priority[i])}

\* checker.best_provider for an unhealthy provider.
BestProvider(p) ==
    IF Healthy(p) \/ Alternatives(p) = {} THEN p
    ELSE Priority[CHOOSE i \in Alternatives(p) : \A j \in Alternatives(p) : i <= j]

\* Up to the cache lookup; a hit is returned and nothing is recorded.
Route(c) ==
    /\ At(c, "idle")
    /\ LET p == IF c \in MayReroute THEN BestProvider(Requested[c]) ELSE Requested[c]
       IN /\ <<Question[c], p>> \notin cache
          /\ Put(c, Untried("admit", p))
    /\ UNCHANGED <<limits, recent, excluded, cache>>

-----------------------------------------------------------------------------
(* Limits *)

SpentToday == IF dayOver THEN 0 ELSE spent
SpentBy(a) == IF dayOver THEN 0 ELSE spentBy[a]

\* Mutant of check: refuses once a limit is exceeded, and forgets the agent's.
WithinBudget_Exceeded(a) == SpentToday <= Budget

WithinBudget(a) == /\ SpentToday + Estimate <= Budget
                   /\ a \in Limited => SpentBy(a) + Estimate <= AgentBudget[a]

\* Mutant of the rate check: compares with the limit as if it could be reached.
WithinRate_Late == recent <= Rpm

WithinRate == recent < Rpm

TooFast(c) == /\ At(c, "admit")
              /\ ~WithinRate
              /\ Return(c)
              /\ UNCHANGED <<limits, recent, excluded, cache>>

PassRate(c) == /\ At(c, "admit")
               /\ WithinRate
               /\ Put(c, [call[c] EXCEPT !.at = "budget"])
               /\ UNCHANGED <<limits, recent, excluded, cache>>

\* SpendLimit.check: the new day begins with the first check in it.
CheckSpend(c) ==
    /\ At(c, "budget")
    /\ IF WithinBudget(Agent[c]) THEN Put(c, [call[c] EXCEPT !.at = "next"])
                                 ELSE Return(c)
    /\ spent' = SpentToday
    /\ spentBy' = [a \in Agents |-> SpentBy(a)]
    /\ dayOver' = FALSE
    /\ UNCHANGED <<recent, excluded, cache>>

-----------------------------------------------------------------------------
(* Attempts *)

Smaller(m, n) == IF m <= n THEN m ELSE n

Delegated(p) == p \notin Routed /\ Upstream \notin {NoProvider, p}

\* The providers a call with provider p may be sent to, in order.
Attempts(p) ==
    IF p \in Routed THEN <<p>> \o Chain
    ELSE (IF Delegated(p) THEN <<Upstream>> ELSE <<>>)
         \o (IF Delegated(p) /\ ~UpstreamFallback THEN <<>> ELSE
               <<p>> \o (IF FallbackOn THEN SubSeq(Chain, 1, Smaller(Retries, Len(Chain)))
                                       ELSE <<>>))

\* Attempts that do not ask for the provider's health: the upstream and the
\* provider itself when it is called directly.
Unchecked(p, i) == p \notin Routed /\ i <= (IF Delegated(p) THEN 2 ELSE 1)

\* Mutant of the retry limit: off by one.
LastAttempt_Late(p, i) == i = Len(Attempts(p)) \/ (p \in Routed /\ i > Retries + 1)

\* No attempt follows attempt i: the list is through, or the retries are.
LastAttempt(p, i) == i = Len(Attempts(p)) \/ (p \in Routed /\ i > Retries)

\* An unhealthy provider is passed over, without a look at the retries.
SkipUnhealthy(c) ==
    LET k == call[c]
    IN /\ k.at = "next"
       /\ ~Unchecked(k.prov, k.i) /\ ~Healthy(Attempts(k.prov)[k.i])
       /\ Put(c, IF k.i = Len(Attempts(k.prov))
                 THEN [k EXCEPT !.at = "failed",
                                !.last = IF k.prov \in Routed THEN "other" ELSE @]
                 ELSE [k EXCEPT !.i = @ + 1,
                                !.last = IF k.prov \in Routed THEN "other" ELSE @])
       /\ UNCHANGED <<limits, recent, excluded, cache>>

Send(c) ==
    LET k == call[c]
    IN /\ k.at = "next"
       /\ Unchecked(k.prov, k.i) \/ Healthy(Attempts(k.prov)[k.i])
       /\ Put(c, [k EXCEPT !.at = "asking", !.tried = @ + 1])
       /\ UNCHANGED <<limits, recent, excluded, cache>>

\* An answer with content; what it costs follows from the usage it reports, or
\* is the estimate.
Succeed(c) ==
    /\ At(c, "asking")
    /\ \E cost \in 0..MaxCost : Put(c, [call[c] EXCEPT !.at = "charge", !.cost = cost])
    /\ UNCHANGED <<limits, recent, excluded, cache>>

\* An error, an exception or an empty answer.  An authentication or billing
\* error excludes the provider, at once unless it was called unchecked.
Err(c) ==
    LET k == call[c]
        p == Attempts(k.prov)[k.i]
    IN /\ k.at = "asking"
       /\ \E kind \in {"auth", "other"} :
             /\ excluded' = IF kind = "auth" /\ ~Unchecked(k.prov, k.i)
                            THEN excluded \cup {p} ELSE excluded
             /\ Put(c, IF LastAttempt(k.prov, k.i)
                       THEN [k EXCEPT !.at = "failed", !.last = kind]
                       ELSE [k EXCEPT !.at = "next", !.last = kind, !.i = @ + 1])
       /\ UNCHANGED <<limits, recent, cache>>

\* Mutant: a failed call is made anew.
Fail_Again(c) == /\ At(c, "failed")
                 /\ Put(c, [call[c] EXCEPT !.at = "admit", !.i = 1])
                 /\ UNCHANGED <<limits, recent, excluded, cache>>

\* chat takes the last error for one of its own provider, whoever made it.
Fail(c) == /\ At(c, "failed")
           /\ excluded' = IF call[c].last = "auth" THEN excluded \cup {call[c].prov}
                                                   ELSE excluded
           /\ Return(c)
           /\ UNCHANGED <<limits, recent, cache>>

-----------------------------------------------------------------------------
(* The books *)

\* spend_limit.record and metrics.record_request.
Charge(c) == /\ At(c, "charge")
             /\ spent' = spent + call[c].cost
             /\ spentBy' = [spentBy EXCEPT ![Agent[c]] = @ + call[c].cost]
             /\ recent' = recent + 1
             /\ Put(c, [call[c] EXCEPT !.at = "fill"])
             /\ UNCHANGED <<dayOver, excluded, cache>>

\* The answer, a fallback's one as well, is cached under the call's own key.
Fill(c) == /\ At(c, "fill")
           /\ cache' = cache \cup {<<Question[c], call[c].prov>>}
           /\ Return(c)
           /\ UNCHANGED <<limits, recent, excluded>>

-----------------------------------------------------------------------------
(* Time *)

Midnight == /\ ~dayOver
            /\ dayOver' = TRUE
            /\ UNCHANGED <<spent, spentBy, recent, excluded, cache, call>>

\* Requests grow older than a minute.
Minute == /\ \E n \in 0..recent : n # recent /\ recent' = n
          /\ UNCHANGED <<limits, excluded, cache, call>>

Expire(p) == /\ p \in excluded
             /\ excluded' = excluded \ {p}
             /\ UNCHANGED <<limits, recent, cache, call>>

\* A cached answer expires or is evicted.
Evict == /\ \E key \in cache : cache' = cache \ {key}
         /\ UNCHANGED <<limits, recent, excluded, call>>

-----------------------------------------------------------------------------

Chat(c) == \/ TooFast(c) \/ PassRate(c) \/ CheckSpend(c)
           \/ SkipUnhealthy(c) \/ Send(c) \/ Succeed(c) \/ Err(c) \/ Fail(c)
           \/ Charge(c) \/ Fill(c)

Time == Midnight \/ Minute \/ Evict \/ \E p \in Providers : Expire(p)

Next == Time \/ \E c \in Callers : Route(c) \/ Chat(c)

\* Threads run, and provider calls have timeouts.
Spec == Init /\ [][Next]_vars /\ \A c \in Callers : WF_vars(Chat(c))

-----------------------------------------------------------------------------
(* Properties *)

TypeOK == /\ spent \in Nat
          /\ spentBy \in [Agents -> Nat]
          /\ dayOver \in BOOLEAN
          /\ recent \in Nat
          /\ excluded \subseteq Providers
          /\ cache \subseteq Questions \X Providers
          /\ call \in [Callers -> Calls]

\* Calls that passed the rate limit and are not in the books yet, and those of
\* them that passed the budgets, too.
Admitted ==
    {c \in Callers : call[c].at \in {"budget", "next", "asking", "failed", "charge"}}
InFlight == {c \in Callers : call[c].at \in {"next", "asking", "failed", "charge"}}

CallersOf(a) == {c \in Callers : Agent[c] = a}

\* The budgets are overshot by what the calls in flight may cost, never by
\* more: check adds the estimate of one call to what is in the books, and all
\* others that passed it before may still be charged, also those of yesterday
\* to the budget of today (SpendLimit.check and record).
SpendBounded ==
    /\ spent <= Budget - Estimate + Cardinality(Callers) * MaxCost
    /\ \A a \in Limited : CallersOf(a) # {} =>
          spentBy[a] <= AgentBudget[a] - Estimate + Cardinality(CallersOf(a)) * MaxCost

\* Answered requests within a minute exceed requests_per_minute by less than
\* the number of callers, as each is counted when its answer has come.
RateBounded == recent + Cardinality(Admitted) < Rpm + Cardinality(Callers)

\* A call makes at most one attempt more than the configured retries, and
\* one more if it is delegated, although providers that are passed over do not
\* count (the break of _gateway_call comes after the continue).
AttemptsBounded ==
    \A c \in Callers :
        call[c].tried <= Retries + (IF Delegated(call[c].prov) THEN 2 ELSE 1)

\* Every call returns, whatever the providers answer.
CallsReturn == \A c \in Callers : ~At(c, "idle") ~> At(c, "idle")
====
