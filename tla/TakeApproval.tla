--------------------------- MODULE TakeApproval ---------------------------
(***************************************************************************)
(* The approval of one external take by the hybrid executor: two routes    *)
(* are probed, each quote goes through the gas and profit policy           *)
(* (discovery/external-take/approval-policy.ts, discovery/gas-policy.ts),  *)
(* the approved ones are ranked, the best is approved again, revalidated   *)
(* and approved with a forced gas price, then executed with the others as  *)
(* fallbacks (take/engine.ts, discovery/external-take/hybrid.ts).          *)
(*                                                                         *)
(* Amounts are small integers with a price in units of 1/Wad, so that      *)
(* every division rounds.  The auction runs through a given course.  Ages  *)
(* count up to the value at which they stop to matter.  A source of the    *)
(* native conversion that gives no rate stands for an open circuit, a      *)
(* timeout and an empty answer alike; an abandoned probe leaves behind     *)
(* only the gas price fetch that it began.  One calldata provider is       *)
(* configured.                                                             *)
(***************************************************************************)
EXTENDS Integers, Sequences, FiniteSets

CONSTANTS
  Course,           \* the states of the auction in the order they come
  Amounts,          \* what a route may quote
  Slip,             \* by how much the floor of a direct swap is below its quote
  GasPrices, GasLimit,
  Rates, RateUnit,  \* quote token per RateUnit of the native token
  Wad,
  FactorNum, FactorDen,  \* take.marketPriceFactor
  BufferNum, BufferDen,  \* the gas cost buffer of an L2
  Ttl,              \* getDiscoveryGasPriceFreshnessTtlMs
  Long, Short,      \* GAS_QUOTE_CONVERSION_CACHE_TTL_MS, FALLBACK_...
  MaxEntries,       \* MAX_GAS_QUOTE_CONVERSION_CACHE_ENTRIES
  Environments      \* see EnvType

Routes == {"direct", "aggregator"}

\* A limit or a floor of zero is one that is not configured.
EnvType == [
  maximize : BOOLEAN,   \* routeSelectionMode maximize_profit, else direct_dex_first
  fallback : BOOLEAN,   \* hybridGasQuoteFailureFallbackMode direct_dex_first
  subsidy : BOOLEAN,    \* take.allowSubsidy
  drift : BOOLEAN,      \* gasPriceDriftToleranceBasisPoints is set: no rise is tolerated
  par : BOOLEAN,        \* the quote token is the wrapped native token
  maxGas : Nat, maxNative : Nat, maxQuote : Nat,  \* maxGasPriceGwei, maxGasCostNative, ...
  minQuote : Nat, minNative : Nat,  \* minExpectedProfitQuote, minProfitNative
  gas : SUBSET GasPrices, rates : SUBSET Rates,   \* what is answered
  stray : BOOLEAN,      \* other evaluations ask for the gas price too
  flaky : BOOLEAN]      \* fetches and reads may fail

ASSUME ApprovalAssumption ==
  /\ Course \in Seq([price : Nat, coll : Nat, debt : Nat])
  /\ Course # <<>> /\ Course[1].coll > 0
  /\ Amounts \cup GasPrices \cup {Slip, GasLimit, FactorDen, BufferNum, Ttl, Long} \subseteq Nat
  /\ Rates \subseteq Nat \ {0} /\ RateUnit \in Rates
  /\ Wad \in Nat \ {0} /\ MaxEntries \in Nat \ {0}
  /\ FactorNum \in 1 .. FactorDen /\ BufferDen \in 1 .. BufferNum
  /\ Short \in 0 .. Long
  /\ Environments \subseteq EnvType

VARIABLES
  env,
  world,     \* index of the state that the auction is in
  gas,       \* rpcCache.gasPrice with the age of gasPriceFetchedAt, capped
  asking,    \* rpcCache.gasPriceInflight
  cache,     \* rpcCache.gasQuoteConversions: an entry for each of the Keys, and their order
  stage,     \* where the evaluation is
  facts,     \* index of the state that the evaluation read last
  quote,     \* the evaluation of a route
  job,       \* the quote or approval of a route that is under way
  plan, idx, \* the execution plan and the candidate that is tried
  eased,     \* the context hybrid_gas_quote_fallback
  since      \* a gas price was answered since the facts were read

shared == <<gas, asking, cache>>
flow == <<stage, facts, plan, idx, eased>>
approvalVars == <<env, world, shared, flow, quote, job, since>>

-----------------------------------------------------------------------------
\* Sizes and prices.

CeilDiv(a, b) == (a + b - 1) \div b
MaxOf(a, b) == IF a >= b THEN a ELSE b

Constrained(a) ==
  IF a.debt > 0 /\ a.price > 0 /\ (a.debt * Wad) \div a.price < a.coll
  THEN (a.debt * Wad) \div a.price ELSE a.coll

Size(r, i) == IF r = "aggregator" THEN Constrained(Course[i]) ELSE Course[i].coll

Due(size, price) == CeilDiv(size * price, Wad)

MarketFloor(due) == CeilDiv(due * FactorDen, FactorNum)

Native(price) == CeilDiv(price * GasLimit * BufferNum, BufferDen)
Converted(native, rate) == (native * rate) \div RateUnit

Whole(price, rate) == Converted(Native(price) + env.minNative, rate)

\* The part of the converted sum that pays for gas, and the part that is profit.
GasShare(price, rate) ==
  IF Native(price) + env.minNative = 0 THEN 0
  ELSE CeilDiv(Whole(price, rate) * Native(price), Native(price) + env.minNative)
NativeFloor(price, rate) == Whole(price, rate) - GasShare(price, rate)

ChargeGasOnly(q) == IF q.rate = 0 THEN 0 ELSE GasShare(q.gas, q.rate)  \* mutant

\* What an evaluation has to yield beyond the repayment; no rate, no cost.
Charge(q) ==
  IF q.rate = 0 THEN 0
  ELSE GasShare(q.gas, q.rate) + MaxOf(env.minQuote, NativeFloor(q.gas, q.rate))

\* The market floor of a direct route is computed anew, that of a calldata quote kept.
Market(r, q) ==
  MarketFloor(IF r = "direct" THEN q.due ELSE Due(Size(r, q.base), Course[q.base].price))
Required(r, q) == MaxOf(Market(r, q), q.due + Charge(q))
Executable(r, q) ==
  /\ q.amount >= q.due /\ q.amount >= Market(r, q)
  /\ env.subsidy \/ q.amount >= Required(r, q)
MinOut(r, q) ==
  MaxOf(IF r = "direct" THEN q.amount - Slip ELSE q.amount,
        IF env.subsidy THEN q.due ELSE Required(r, q))

\* The auction price that takeablePrice still allows: the market price of the
\* quote times the smaller of the factor and the break-even factor.
Takeable(r, q, price) ==
  /\ price * Size(r, q.base) * FactorDen <= Wad * q.amount * FactorNum
  /\ env.subsidy \/ price * Size(r, q.base) * Required(r, q) <= Wad * q.amount * q.due

Subsidised(r, q) == env.subsidy /\ q.amount < Required(r, q)
Net(q) ==
  MaxOf(0, q.amount - q.due - (IF q.rate = 0 THEN 0 ELSE GasShare(q.gas, q.rate)))

Before(r, s) ==
  LET q == quote[r]
      p == quote[s]
      lack(t) == IF Subsidised(t, quote[t]) THEN Required(t, quote[t]) - quote[t].amount ELSE 0
  IN IF Subsidised(r, q) # Subsidised(s, p) THEN Subsidised(s, p)
     ELSE IF lack(r) # lack(s) THEN lack(r) < lack(s)
     ELSE IF Net(q) # Net(p) THEN Net(q) > Net(p)
     ELSE r = "direct"

-----------------------------------------------------------------------------
\* The gas policy.

Eased(r) == eased /\ r = "direct"
Floors == env.minQuote > 0 \/ env.minNative > 0
Priced(r) == (env.maximize /\ ~Eased(r)) \/ env.maxQuote > 0 \/ Floors
Eligible ==
  env.fallback /\ env.maximize /\ env.maxNative > 0 /\ env.maxQuote = 0 /\ ~Floors

Forced(why) == why \in {"fallback", "last", "candidate"}
Fresh(q) == q.stamp \in 0 .. Ttl /\ (env.drift => gas.price <= q.wei)

ReusableForced(r) == job[r].why # "context" /\ Fresh(quote[r])  \* mutant

\* Both tests of hasFreshExternalTakeGasPolicy; a route context has nothing to reuse.
Reusable(r) == job[r].why # "context" /\ ~Forced(job[r].why) /\ Fresh(quote[r])
NeedsGas(r) == Forced(job[r].why) \/ gas.age > Ttl

Capped(price) ==
  \/ env.maxGas > 0 /\ price > env.maxGas
  \/ env.maxNative > 0 /\ Native(price) > env.maxNative

\* An entry of the conversion cache.  Its rate is zero when there is none; older are
\* the keys that come before it in the map.
Keys == Routes \X GasPrices
Missing == [rate |-> 0, own |-> TRUE, age |-> 0, real |-> 0, older |-> {}]
Limit(e) == IF e.own THEN Long ELSE Short
Live(map) == {k \in Keys : map[k].rate > 0}

\* The entry that serves a conversion of route r at this price.
Cached(r, price) ==
  LET e == cache[<<r, price>>] IN IF e.age <= Limit(e) THEN e ELSE Missing

\* A map without the entries at these keys.
Erased(map, gone) ==
  [k \in Keys |-> IF k \in gone \/ map[k].rate = 0 THEN Missing
                  ELSE [map[k] EXCEPT !.older = @ \ gone]]

\* What is older than the longer limit is pruned.
Kept == Erased(cache, {k \in Keys : cache[k].age > Long})

\* The map with e as its last entry, or without one for that key.
Last(map, key, e) ==
  LET others == Erased(map, {key}) IN
  IF e.rate = 0 THEN others ELSE [others EXCEPT ![key] = [e EXCEPT !.older = Live(others)]]

TouchedAnew(r, price, e) == Last(Kept, <<r, price>>, [e EXCEPT !.age = 0])  \* mutant

\* The map after a look-up that found e or nothing: the expired entries are
\* gone and the one that served is the last.
Touched(r, price, e) == Last(Kept, <<r, price>>, e)

\* The map with a new entry; the first one makes way when there are too many.
Stored(r, price, e) ==
  LET map == Last(Kept, <<r, price>>, e) IN
  IF Cardinality(Live(map)) <= MaxEntries THEN map
  ELSE Erased(map, {k \in Live(map) : map[k].older = {}})

NoQuote == [at |-> 1, base |-> 1, amount |-> 0, due |-> 0, gas |-> 0, wei |-> 0,
            rate |-> 0, stamp |-> -1, recent |-> TRUE]
Off == [step |-> "off", why |-> "probe", gas |-> 0, left |-> 0]
JobAt(step, why) == [step |-> step, why |-> why, gas |-> 0, left |-> 0]

Ended(r) == job[r].step \in {"approved", "rejected", "norate", "thrown"}
End(r, result) == job' = [job EXCEPT ![r] = [@ EXCEPT !.step = result, !.gas = 0, !.left = 0]]

ApprovalTypeOK ==
  /\ env \in Environments /\ world \in DOMAIN Course /\ facts \in DOMAIN Course
  /\ gas \in [price : GasPrices \cup {0}, age : 0 .. Ttl + 1] /\ asking \in BOOLEAN
  /\ cache \in [Keys -> [rate : Rates \cup {0}, own : BOOLEAN, age : 0 .. Long + 1,
                         real : 0 .. Long + 1, older : SUBSET Keys]]
  /\ stage \in {"idle", "probe", "fallback", "approve", "revalidate", "last", "refresh",
                "candidate", "execute", "sent", "ended"}
  /\ quote \in [Routes -> [at : DOMAIN Course, base : DOMAIN Course, amount : Amounts \cup {0},
                           due : Nat, gas : GasPrices \cup {0}, wei : GasPrices \cup {0},
                           rate : Rates \cup {0}, stamp : -1 .. Ttl + 1, recent : BOOLEAN]]
  /\ job \in [Routes -> [
       step : {"off", "quote", "enter", "waiting", "price", "ask", "approved", "rejected",
               "norate", "thrown"},
       why : {"context", "probe", "fallback", "approve", "last", "candidate"},
       gas : GasPrices \cup {0}, left : 0 .. 2]]
  /\ plan \in {<<>>, <<"direct">>, <<"aggregator">>, <<"direct", "aggregator">>,
               <<"aggregator", "direct">>}
  /\ idx \in 0 .. 2 /\ (stage = "execute" => idx \in DOMAIN plan)
  /\ eased \in BOOLEAN /\ since \in BOOLEAN

ApprovalInit ==
  /\ env \in Environments /\ world = 1
  /\ gas = [price |-> 0, age |-> Ttl + 1] /\ asking = FALSE
  /\ cache = [k \in Keys |-> Missing]
  /\ stage = "idle" /\ facts = 1 /\ plan = <<>> /\ idx = 0 /\ eased = FALSE
  /\ quote = [r \in Routes |-> NoQuote] /\ job = [r \in Routes |-> Off]
  /\ since = FALSE

-----------------------------------------------------------------------------
\* The auction, the clock and the node.

Move ==
  /\ world < Len(Course) /\ world' = world + 1
  /\ UNCHANGED <<env, shared, flow, quote, job, since>>

Grown(n, limit) == IF n < limit THEN n + 1 ELSE n

Tick ==
  /\ gas' = [gas EXCEPT !.age = Grown(@, Ttl + 1)]
  /\ cache' = [k \in Keys |-> IF cache[k].rate = 0 THEN cache[k]
                               ELSE [cache[k] EXCEPT !.age = Grown(@, Long + 1),
                                                     !.real = Grown(@, Long + 1)]]
  /\ quote' = [r \in Routes |-> IF quote[r].stamp < 0 THEN quote[r]
                                ELSE [quote[r] EXCEPT !.stamp = Grown(@, Ttl + 1)]]
  /\ <<gas, cache, quote>>' # <<gas, cache, quote>>
  /\ UNCHANGED <<env, world, asking, flow, job, since>>

\* Another evaluation, or a probe that was given up, asks for the gas price.
StrayFetch ==
  /\ env.stray /\ ~asking /\ asking' = TRUE
  /\ UNCHANGED <<env, world, gas, cache, flow, quote, job, since>>

Waiting == {r \in Routes : job[r].step = "waiting"}

GasAnswered ==
  /\ asking /\ asking' = FALSE
  /\ \E p \in env.gas : gas' = [price |-> p, age |-> 0]
  /\ job' = [r \in Routes |-> IF r \in Waiting THEN [job[r] EXCEPT !.step = "price"] ELSE job[r]]
  /\ since' = TRUE
  /\ UNCHANGED <<env, world, cache, flow, quote>>

GasFailedForOne ==  \* mutant
  /\ asking /\ env.flaky /\ asking' = FALSE
  /\ \E one \in Waiting : job' = [job EXCEPT ![one].step = "thrown"]
  /\ UNCHANGED <<env, world, gas, cache, flow, quote, since>>

GasFailed ==
  /\ asking /\ env.flaky /\ asking' = FALSE
  /\ job' = [r \in Routes |-> IF r \in Waiting THEN [job[r] EXCEPT !.step = "thrown"] ELSE job[r]]
  /\ UNCHANGED <<env, world, gas, cache, flow, quote, since>>

-----------------------------------------------------------------------------
\* One quote and its approval.

Drop(r, result) == End(r, result) /\ quote' = [quote EXCEPT ![r] = NoQuote]
Reject(r) == Drop(r, "rejected")

\* A direct quote is judged with the cost of its route context, if there is one.
Judged(r, amount) ==
  [quote[r] EXCEPT !.at = facts, !.base = facts, !.amount = amount,
                   !.due = Due(Size(r, facts), Course[facts].price)]

Quote(r) ==
  /\ job[r].step = "quote"
  /\ \/ Reject(r)
     \/ \E a \in Amounts :
          IF Executable(r, Judged(r, a))
          THEN /\ quote' = [quote EXCEPT ![r] = Judged(r, a)]
               /\ job' = [job EXCEPT ![r].step = "enter",
                                     ![r].why = IF @ = "context" THEN "probe" ELSE @]
          ELSE Reject(r)
  /\ UNCHANGED <<env, world, shared, flow, since>>

Enter(r) ==
  /\ job[r].step = "enter"
  /\ \/ Reusable(r) /\ End(r, "approved") /\ UNCHANGED asking
     \/ /\ ~Reusable(r) /\ NeedsGas(r)
        /\ asking' = TRUE /\ job' = [job EXCEPT ![r].step = "waiting"]
     \/ /\ ~Reusable(r) /\ ~NeedsGas(r)
        /\ job' = [job EXCEPT ![r].step = "price"] /\ UNCHANGED asking
  /\ UNCHANGED <<env, world, gas, cache, flow, quote, since>>

\* The end of the policy for a gas price and a rate: a rate of zero is none.  A
\* route context is stamped before its conversion, and records the gas price
\* it finds after it.
Decide(r, price, rate, recent) ==
  LET asked == job[r].step = "ask"
      q == [quote[r] EXCEPT !.gas = price, !.rate = rate, !.recent = recent,
                            !.wei = IF job[r].why = "context" THEN gas.price ELSE price,
                            !.stamp = IF asked /\ job[r].why = "context" THEN @ ELSE 0]
      new == [q EXCEPT !.due = Due(Size(r, q.at), Course[facts].price)]
  IN IF env.maxQuote > 0 /\ GasShare(price, rate) > env.maxQuote
     THEN Reject(r)
     ELSE IF job[r].why = "context"
     THEN quote' = [quote EXCEPT ![r] = q] /\ job' = [job EXCEPT ![r] = JobAt("quote", "context")]
     ELSE IF rate = 0 /\ ~Eased(r)
     THEN quote' = [quote EXCEPT ![r] = q] /\ End(r, "approved")
     ELSE IF Executable(r, new)
     THEN quote' = [quote EXCEPT ![r] = new] /\ End(r, "approved")
     ELSE Reject(r)

Price(r) ==
  LET hit == Cached(r, gas.price) IN
  /\ job[r].step = "price"
  /\ \/ Reusable(r) /\ End(r, "approved") /\ UNCHANGED <<cache, quote>>
     \/ /\ ~Reusable(r) /\ Capped(gas.price)
        /\ Reject(r) /\ UNCHANGED cache
     \/ /\ ~Reusable(r) /\ ~Capped(gas.price) /\ ~Priced(r)
        /\ Decide(r, gas.price, 0, TRUE) /\ UNCHANGED cache
     \/ /\ ~Reusable(r) /\ ~Capped(gas.price) /\ Priced(r) /\ env.par
        /\ Decide(r, gas.price, RateUnit, TRUE) /\ UNCHANGED cache
     \/ /\ ~Reusable(r) /\ ~Capped(gas.price) /\ Priced(r) /\ ~env.par /\ hit.rate > 0
        /\ cache' = Touched(r, gas.price, hit)
        /\ Decide(r, gas.price, hit.rate, hit.real <= Limit(hit))
     \/ /\ ~Reusable(r) /\ ~Capped(gas.price) /\ Priced(r) /\ ~env.par /\ hit.rate = 0
        /\ cache' = Touched(r, gas.price, hit)
        /\ job' = [job EXCEPT ![r] = [@ EXCEPT !.step = "ask", !.gas = gas.price, !.left = 2]]
        /\ quote' = IF job[r].why = "context" THEN [quote EXCEPT ![r].stamp = 0] ELSE quote
  /\ UNCHANGED <<env, world, gas, asking, flow, since>>

\* The preferred source is asked first, then the other one.
SourceAnswers(r) ==
  /\ job[r].step = "ask"
  /\ \E rate \in env.rates :
       /\ cache' = Stored(r, job[r].gas, [Missing EXCEPT !.rate = rate, !.own = job[r].left = 2])
       /\ Decide(r, job[r].gas, rate, TRUE)
  /\ UNCHANGED <<env, world, gas, asking, flow, since>>

SourceFails(r) ==
  /\ job[r].step = "ask"
  /\ IF job[r].left > 1 THEN job' = [job EXCEPT ![r].left = @ - 1] /\ UNCHANGED quote
     ELSE Drop(r, "norate")
  /\ UNCHANGED <<env, world, shared, flow, since>>

ProbeTimeout(r) ==
  /\ stage = "probe" /\ ~Ended(r) /\ job[r].step # "off" /\ Reject(r)
  /\ UNCHANGED <<env, world, shared, flow, since>>

-----------------------------------------------------------------------------
\* The evaluation.

Probing(r) == JobAt(IF r = "direct" /\ Floors THEN "enter" ELSE "quote",
                    IF r = "direct" /\ Floors THEN "context" ELSE "probe")

ReadFacts ==
  /\ stage = "idle" /\ Course[world].coll > 0
  /\ stage' = "probe" /\ facts' = world /\ since' = FALSE
  /\ job' = [r \in Routes |-> IF r = "direct" \/ env.maximize THEN Probing(r) ELSE Off]
  /\ UNCHANGED <<env, world, shared, plan, idx, eased, quote>>

Approved(r) == job[r].step = "approved"
Good(r) == Approved(r) /\ ~Subsidised(r, quote[r])

ProbeAggregator ==
  /\ stage = "probe" /\ ~env.maximize
  /\ Ended("direct") /\ ~Good("direct") /\ job["aggregator"].step = "off"
  /\ job' = [job EXCEPT !["aggregator"] = Probing("aggregator")]
  /\ UNCHANGED <<env, world, shared, flow, quote, since>>

Probed ==
  /\ Ended("direct")
  /\ Ended("aggregator") \/ (~env.maximize /\ Good("direct"))

\* direct_dex_first takes the first route without a subsidy and no fallback.
Chosen ==
  LET approved == {r \in Routes : Approved(r)} IN
  IF ~env.maximize /\ Good("direct") THEN <<"direct">>
  ELSE IF ~env.maximize /\ Good("aggregator") THEN <<"aggregator">>
  ELSE CASE approved = {} -> <<>>
         [] approved = {"direct"} -> <<"direct">>
         [] approved = {"aggregator"} -> <<"aggregator">>
         [] OTHER -> IF Before("direct", "aggregator") THEN <<"direct", "aggregator">>
                     ELSE <<"aggregator", "direct">>

\* The plan goes to the engine, which approves its first route once more.
Planned(new) ==
  /\ plan' = new
  /\ IF new = <<>> THEN stage' = "ended" /\ idx' = 0 /\ UNCHANGED job
     ELSE /\ stage' = "approve" /\ idx' = 1
          /\ job' = [job EXCEPT ![new[1]] = JobAt("enter", "approve")]

Select ==
  /\ stage = "probe" /\ Probed
  /\ IF Eligible /\ job["direct"].step = "norate"
     THEN /\ stage' = "fallback" /\ plan' = Chosen /\ eased' = TRUE /\ UNCHANGED idx
          /\ job' = [job EXCEPT !["direct"] = JobAt("quote", "fallback")]
     ELSE Planned(Chosen) /\ UNCHANGED eased
  /\ UNCHANGED <<env, world, shared, facts, quote, since>>

AfterFallback ==
  /\ stage = "fallback" /\ Ended("direct")
  /\ Planned(CASE Approved("direct") -> Append(plan, "direct")
               [] job["direct"].step = "thrown" -> <<>>
               [] OTHER -> plan)
  /\ UNCHANGED <<env, world, shared, facts, eased, quote, since>>

Route == plan[idx]

AfterApprove ==
  /\ stage = "approve" /\ Ended(Route)
  /\ stage' = IF Approved(Route) THEN "revalidate" ELSE "ended"
  /\ UNCHANGED <<env, world, shared, facts, plan, idx, eased, quote, job, since>>

Unchanged(r, i) ==
  /\ Course[i].coll > 0 /\ Takeable(r, quote[r], Course[i].price)
  /\ Size(r, i) = Size(r, quote[r].at) /\ Course[i].price <= Course[quote[r].at].price

Revalidate ==
  /\ stage = "revalidate" /\ facts' = world /\ since' = FALSE
  /\ IF Unchanged(Route, world)
     THEN stage' = "last" /\ job' = [job EXCEPT ![Route] = JobAt("enter", "last")]
     ELSE stage' = "ended" /\ UNCHANGED job
  /\ UNCHANGED <<env, world, shared, plan, idx, eased, quote>>

RevalidationFails ==
  /\ stage = "revalidate" /\ env.flaky /\ stage' = "ended"
  /\ UNCHANGED <<env, world, shared, facts, plan, idx, eased, quote, job, since>>

\* withExternalTakeApprovalContext: the quote now speaks of the facts just read.
Rebound(r) == quote' = [quote EXCEPT ![r].at = facts]

AfterLast ==
  /\ stage = "last" /\ Ended(Route)
  /\ IF Approved(Route)
     THEN stage' = (IF Eased(Route) THEN "refresh" ELSE "execute") /\ Rebound(Route)
     ELSE stage' = "ended" /\ UNCHANGED quote
  /\ UNCHANGED <<env, world, shared, facts, plan, idx, eased, job, since>>

\* The next candidate is refreshed and approved again before it is executed.
NextCandidate ==
  IF idx < Len(plan) THEN stage' = "refresh" /\ idx' = idx + 1
  ELSE stage' = "ended" /\ UNCHANGED idx

Refresh ==
  /\ stage = "refresh" /\ facts' = world /\ since' = FALSE
  /\ stage' = "candidate" /\ job' = [job EXCEPT ![Route] = JobAt("enter", "candidate")]
  /\ UNCHANGED <<env, world, shared, plan, idx, eased, quote>>

RefreshFails ==
  /\ stage = "refresh" /\ env.flaky /\ NextCandidate
  /\ UNCHANGED <<env, world, shared, facts, plan, eased, quote, job, since>>

AfterCandidate ==
  /\ stage = "candidate" /\ Ended(Route)
  /\ CASE Approved(Route) -> stage' = "execute" /\ UNCHANGED idx /\ Rebound(Route)
       [] job[Route].step = "thrown" -> stage' = "ended" /\ UNCHANGED <<idx, quote>>
       [] OTHER -> NextCandidate /\ UNCHANGED quote
  /\ UNCHANGED <<env, world, shared, facts, plan, eased, job, since>>

\* The last checks before the take is handed over.  A calldata quote is asked
\* for again and has to reach the floor; a direct swap has to repay the pool.
Passes(r) ==
  IF r = "aggregator"
  THEN /\ quote[r].at = facts /\ Size(r, facts) > 0
       /\ \E a \in Amounts : a >= MinOut(r, quote[r])
  ELSE MinOut(r, quote[r]) >= Due(Size(r, facts), Course[facts].price)

Execute ==
  /\ stage = "execute" /\ Passes(Route) /\ stage' = "sent"
  /\ UNCHANGED <<env, world, shared, facts, plan, idx, eased, quote, job, since>>

ExecutionFails ==
  /\ stage = "execute" /\ NextCandidate
  /\ UNCHANGED <<env, world, shared, facts, plan, eased, quote, job, since>>

\* The next run evaluates the auction again; what the last one knew is gone.
Again ==
  /\ stage \in {"sent", "ended"} /\ stage' = "idle"
  /\ facts' = 1 /\ plan' = <<>> /\ idx' = 0 /\ eased' = FALSE /\ since' = FALSE
  /\ quote' = [r \in Routes |-> NoQuote] /\ job' = [r \in Routes |-> Off]
  /\ UNCHANGED <<env, world, shared>>

RouteStep(r) == Quote(r) \/ Enter(r) \/ Price(r) \/ SourceAnswers(r) \/ SourceFails(r)
FlowStep ==
  \/ ReadFacts \/ ProbeAggregator \/ Select \/ AfterFallback \/ AfterApprove
  \/ Revalidate \/ RevalidationFails \/ AfterLast \/ Refresh \/ RefreshFails
  \/ AfterCandidate \/ Execute \/ ExecutionFails \/ Again

ApprovalNext ==
  \/ Move \/ Tick \/ StrayFetch \/ GasAnswered \/ GasFailed
  \/ \E r \in Routes : RouteStep(r) \/ ProbeTimeout(r)
  \/ FlowStep

ApprovalSpec == ApprovalInit /\ [][ApprovalNext]_approvalVars

\* The node answers or fails, the providers too, and the evaluation goes on.
FairApprovalSpec ==
  /\ ApprovalSpec /\ WF_approvalVars(GasAnswered \/ GasFailed)
  /\ WF_approvalVars(FlowStep \/ \E r \in Routes : RouteStep(r))

-----------------------------------------------------------------------------
\* Properties.

\* The minimum output repays the pool for the collateral and at the price of the last
\* read, rounded up.
DueCovered(r) == MinOut(r, quote[r]) * Wad >= Size(r, facts) * Course[facts].price

\* What a priced take without a subsidy must yield for the facts of the last read:
\* the repayment, the gas at the approved price and each of the two profit floors.
CostsCovered(r) ==
  LET q == quote[r]
      surplus == MinOut(r, q) - Due(Size(r, facts), Course[facts].price)
  IN surplus >= Whole(q.gas, q.rate)
     /\ surplus >= Converted(Native(q.gas), q.rate) + env.minQuote

\* The facts of the last read against those that the amount was quoted for.
SizeHeld(r) == Size(r, facts) <= Size(r, quote[r].base)
PriceHeld(r) == Course[facts].price <= Course[quote[r].base].price

\* A route is handed over only if its minimum output covers the repayment and, without a
\* subsidy, the converted gas cost and the profit floors for the facts of the last read,
\* whatever rounding, re-approval or re-binding came before (approval-policy.ts,
\* route-amounts.ts, execution.ts).  A fallback candidate is approved with the size of
\* its quote and bound to the new one after that, so this holds where the size, or for a
\* repayment that was not computed again the price, has not risen.
SentCoversCosts ==
  stage = "sent" =>
    /\ Route = "direct" \/ (SizeHeld(Route) /\ PriceHeld(Route)) => DueCovered(Route)
    /\ ~env.subsidy /\ Priced(Route) /\ SizeHeld(Route) => CostsCovered(Route)

\* What the comment of the auction cost says of every approval: the profit test reflects
\* what the take can realize (approval-policy.ts).
ReboundCoversCosts ==
  stage = "sent" /\ ~env.subsidy /\ Priced(Route) => CostsCovered(Route)

\* Between the last read of the auction and the hand-over of a take the node was
\* heard: the forced refresh may join a fetch that began earlier, but it never
\* takes an answer from before the read (refreshDiscoveryGasPriceIfStale).
GasReadSinceRevalidation == stage = "sent" => since

\* No conversion is priced with a rate that is older than its time to live, which is
\* shorter for a rate from a source that was not the preferred one, however often the
\* entry served in between (quoteExactNativeAmountToQuote).
RateIsRecent == \A r \in Routes : quote[r].recent

\* Every evaluation ends with a take or without one: no failure of the shared gas
\* price fetch, of a conversion or of a candidate leaves it waiting.
ApprovalEnds == stage = "probe" ~> stage \in {"sent", "ended"}
=============================================================================
