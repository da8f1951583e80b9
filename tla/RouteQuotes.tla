---------------------------- MODULE RouteQuotes ----------------------------
(***************************************************************************)
(* What the three calldata aggregators may answer to a request for a swap  *)
(* of `amount` units of the collateral into the quote token, and which     *)
(* answers the validators let through (dex/one-inch.ts, dex/router.ts,     *)
(* dex/sushi-aggregator, dex/lifi, take/*/quote-service.ts).               *)
(*                                                                         *)
(* An answer is a good one or differs from a good one in one respect.      *)
(* `call` is what the calldata makes the target do.  1inch and Sushi       *)
(* calldata is decoded by the validators, LI.FI calldata is opaque to      *)
(* them: they see the description that comes with it.  A value that is     *)
(* missing or malformed is "" or 0.                                        *)
(***************************************************************************)
EXTENDS Integers, Sequences

CONSTANTS
  Router,            \* dex.oneInch.routers of the chain
  BandNum, BandDen,  \* the share of Sushi's output that its minimum may lack
  MaxImpact,         \* maxPriceImpact
  Exchanges,         \* the filters of dex.lifi, see ExchangesType
  RejectFees,        \* feeCostPolicy is reject_all
  ExecutorsListed    \* oneInchAggregationExecutorAllowlist names "executor" for the chain;
                     \* otherwise it has no entry: the "permissive monitoring mode"

Providers == {"oneinch", "sushi", "lifi", "direct"}  \* a direct DEX is quoted elsewhere

Addresses == {"venue", "proxy", "stranger"}
Selectors == {"swap", "else"}

PolicyType == [targets : SUBSET Addresses, spenders : SUBSET Addresses,
               selectors : SUBSET (Addresses \X Selectors)]

\* What the validators of the file ask of the allowlists of a provider: no list is empty,
\* and selectors are given for every target and for nothing else.
ListsFilled(p) == p.targets # {} /\ p.spenders # {}
SelectorsCover(p) == {ts[1] : ts \in p.selectors} = p.targets
PolicyOk(p) == ListsFilled(p) /\ SelectorsCover(p)

\* LI.FI's exchanges: "feecollection" takes a fee, "" stands for all of them.
Tools == {"dex", "stranger", "lifi", "feecollection", ""}
Broad == {""}
Unsupported == {"feecollection"}

ExchangesType == [policy : {"concrete_allowlist", "reviewed_broad"},
                  allow : SUBSET Tools, prefer : SUBSET Tools, deny : SUBSET Tools]

\* normalizeFilterList, normalizeLifiExchangeFilters in mode production
Concrete(tools) == tools \cap (Broad \cup Unsupported) = {}
FiltersOk(x) ==
  /\ Concrete(x.allow \cup x.prefer \cup x.deny)
  /\ x.allow \cap x.prefer = {} /\ x.allow \cap x.deny = {} /\ x.prefer \cap x.deny = {}

\* normalizeProductionLifiExchangePolicy
ExchangesOk(x) == FiltersOk(x) /\ (x.policy = "reviewed_broad" <=> x.allow = {})

ASSUME QuotesAssumption ==
  /\ Router \in Addresses
  /\ BandDen \in Nat \ {0} /\ BandNum \in 0 .. BandDen /\ MaxImpact \in Nat
  /\ Exchanges \in ExchangesType /\ ExchangesOk(Exchanges) /\ RejectFees \in BOOLEAN
  /\ ExecutorsListed \in BOOLEAN

\* The swap that is asked for.
Asked(amount, min) ==
  [sells |-> "collateral", buys |-> "quote", payee |-> "taker", amount |-> amount, min |-> min]

Misled(call) ==
  {[call EXCEPT !.sells = "other"], [call EXCEPT !.buys = "other"],
   [call EXCEPT !.payee = "stranger"], [call EXCEPT !.amount = @ + 1],
   [call EXCEPT !.amount = @ - 1], [call EXCEPT !.min = 0]}

-----------------------------------------------------------------------------
\* 1inch: the target of the transaction, and the description in the calldata of `swap`.

OneInchGood(amount, out, min) ==
  [to |-> Router, value |-> 0, out |-> out, method |-> "swap", executor |-> "executor",
   into |-> "executor", flags |-> 0, call |-> Asked(amount, min)]

OneInchAnswers(amount, out, min) ==
  LET g == OneInchGood(amount, out, min)
  IN {g} \cup {[g EXCEPT !.call = c] : c \in Misled(g.call)}
         \cup {[g EXCEPT !.to = "stranger"], [g EXCEPT !.value = 1], [g EXCEPT !.out = 0],
               [g EXCEPT !.method = "else"], [g EXCEPT !.executor = ""],
               [g EXCEPT !.executor = "stranger"],
               [g EXCEPT !.executor = "stranger", !.into = "stranger"],
               [g EXCEPT !.into = Router], [g EXCEPT !.into = "stranger"],
               [g EXCEPT !.flags = 1]}

\* getSwapDataFromOneInch: the transaction is for the configured router.
OneInchTransaction(a) == a.to = Router

\* An executor is never missing or zero, and one of the list if there is one.
ExecutorFits(a) == a.executor # "" /\ (ExecutorsListed => a.executor = "executor")

OneInchFitsAnyPayee(a, amount) ==  \* mutant
  /\ ExecutorFits(a) /\ a.into \in {Router, a.executor} /\ a.flags = 0
  /\ a.call.sells = "collateral" /\ a.call.buys = "quote"
  /\ a.call.amount = amount /\ a.call.min > 0

\* validateOneInchSwapDetailsForAtomicTake
OneInchFits(a, amount) ==
  /\ ExecutorFits(a) /\ a.into \in {Router, a.executor} /\ a.flags = 0
  /\ a.call.sells = "collateral" /\ a.call.buys = "quote" /\ a.call.payee = "taker"
  /\ a.call.amount = amount /\ a.call.min > 0

OneInchAccepted(a, amount) ==
  /\ OneInchTransaction(a) /\ a.out > 0
  /\ a.method = "swap"  \* anything else does not decode
  /\ OneInchFits(a, amount)

OneInchQuote(a) ==
  [target |-> a.to, spender |-> Router, selector |-> a.method, value |-> a.value,
   out |-> a.out, min |-> a.call.min, call |-> a.call]

-----------------------------------------------------------------------------
\* Sushi: a summary in JSON, and calldata whose first five words are known.

SushiGood(amount, out, min) ==
  [status |-> "Success", amountIn |-> amount, out |-> out, impact |-> 0, to |-> "venue",
   value |-> 0, selector |-> "swap", tokens |-> <<"collateral", "quote">>,
   call |-> Asked(amount, min)]

SushiAnswers(amount, out, min) ==
  LET g == SushiGood(amount, out, min)
  IN {g} \cup {[g EXCEPT !.call = c] : c \in Misled(g.call)}
         \cup {[g EXCEPT !.status = "NoWay"], [g EXCEPT !.amountIn = @ + 1],
               [g EXCEPT !.out = 0], [g EXCEPT !.impact = MaxImpact + 1],
               [g EXCEPT !.to = "stranger"], [g EXCEPT !.value = 1],
               [g EXCEPT !.selector = "else"], [g EXCEPT !.tokens[2] = "other"]}

\* The decoded head against the request, its minimum within the band below the output.
SushiCallFits(a, amount) ==
  /\ a.call = Asked(amount, a.call.min)
  /\ a.call.min > 0 /\ a.call.min <= a.out
  /\ a.call.min >= (a.out * (BandDen - BandNum)) \div BandDen

\* validateSushiAggregatorQuote; the target is also the spender.
SushiAccepted(a, amount, policy) ==
  /\ a.status = "Success" /\ a.amountIn = amount /\ a.out > 0 /\ a.impact <= MaxImpact
  /\ a.to \in policy.targets /\ a.to \in policy.spenders /\ a.value = 0
  /\ a.selector = "swap"  \* the only layout that is proven
  /\ <<a.to, a.selector>> \in policy.selectors
  /\ SushiCallFits(a, amount)
  /\ a.tokens = <<"collateral", "quote">>

SushiQuote(a) ==
  [target |-> a.to, spender |-> a.to, selector |-> a.selector, value |-> 0,
   out |-> a.out, min |-> a.call.min, call |-> a.call]

-----------------------------------------------------------------------------
\* LI.FI: a step, which may include a step that takes a fee and one that swaps the rest.

Step(type, tool, sells, buys, amount, out, min) ==
  [type |-> type, tool |-> tool, sells |-> sells, buys |-> buys, amount |-> amount,
   out |-> out, min |-> min, spender |-> "proxy", payee |-> "taker", fees |-> {},
   away |-> FALSE,     \* another chain, or a call at the destination
   nested |-> FALSE]   \* has steps of its own

Fee(token, amount) == [token |-> token, amount |-> amount, included |-> TRUE]

Swap1(amount, out, min) == Step("swap", "dex", "collateral", "quote", amount, out, min)
Whole1(amount, out, min) == Step("lifi", "lifi", "collateral", "quote", amount, out, min)
FeeStep(amount) ==
  Step("protocol", "feecollection", "collateral", "collateral", amount, amount - 1, amount - 1)

LifiWith(top, steps, amount, min) ==
  [top |-> top, steps |-> steps, to |-> "venue", selector |-> "swap", value |-> 0,
   chain |-> TRUE, from |-> "taker", call |-> Asked(amount, min)]

LifiGood(amount, out, min) ==
  {LifiWith(Swap1(amount, out, min), <<>>, amount, min),
   LifiWith(Whole1(amount, out, min), <<Swap1(amount, out, min)>>, amount, min)} \cup
  (IF amount < 2 THEN {}
   ELSE {LifiWith([Whole1(amount, out, min) EXCEPT !.fees = {Fee("collateral", 1)}],
                  <<FeeStep(amount), Swap1(amount - 1, out, min)>>, amount, min)})

StepVariants(s) ==
  {[s EXCEPT !.type = "cross"], [s EXCEPT !.tool = "stranger"], [s EXCEPT !.tool = ""],
   [s EXCEPT !.sells = "other"], [s EXCEPT !.buys = "other"], [s EXCEPT !.amount = @ + 1],
   [s EXCEPT !.out = 0], [s EXCEPT !.min = 0], [s EXCEPT !.min = s.out + 1],
   [s EXCEPT !.out = @ - 1], [s EXCEPT !.spender = "stranger"], [s EXCEPT !.spender = ""],
   [s EXCEPT !.payee = "stranger"], [s EXCEPT !.away = TRUE], [s EXCEPT !.nested = TRUE],
   [s EXCEPT !.fees = {Fee("quote", 1)}], [s EXCEPT !.fees = {Fee("other", 1)}],
   [s EXCEPT !.fees = {Fee("collateral", 2)}],
   [s EXCEPT !.fees = {[Fee("quote", 1) EXCEPT !.included = FALSE]}]}

LifiVariants(g) ==
  {[g EXCEPT !.top = s] : s \in StepVariants(g.top)} \cup
  UNION {{[g EXCEPT !.steps[i] = s] : s \in StepVariants(g.steps[i])} : i \in DOMAIN g.steps} \cup
  {[g EXCEPT !.steps = Append(@, Swap1(1, 1, 1))], [g EXCEPT !.steps = <<>>],
   [g EXCEPT !.to = "stranger"], [g EXCEPT !.to = ""], [g EXCEPT !.selector = "else"],
   [g EXCEPT !.value = 1], [g EXCEPT !.chain = FALSE], [g EXCEPT !.from = "stranger"]} \cup
  {[g EXCEPT !.call = c] : c \in Misled(g.call)}

LifiAnswers(amount, out, min) ==
  UNION {{g} \cup LifiVariants(g) : g \in LifiGood(amount, out, min)}

\* Only a concrete allowlist is held against the answer; denied and preferred exchanges are
\* asked for in the request.
ToolOk(tool) == Exchanges.policy = "reviewed_broad" \/ tool \in Exchanges.allow

\* assertTokenAddress, requirePositiveAmount: what is malformed fits nothing.
Meant(s, sells, buys, amount) == s.sells = sells /\ s.buys = buys /\ s.amount = amount

\* normalizeLifiStepSemantics; only the whole route has to name the taker.
StepFits(s, type, sells, buys, amount) == s.type = type /\ Meant(s, sells, buys, amount) /\ ~s.away

OutputsFit(s) == s.min > 0 /\ s.min <= s.out

\* A step that takes a fee leaves some of the collateral, and exactly what it says.
FeeStepFits(s, amount) ==
  /\ s.tool = "feecollection" /\ StepFits(s, "protocol", "collateral", "collateral", amount)
  /\ OutputsFit(s) /\ s.out = s.min /\ s.out < amount

HasFeeStep(a) == Len(a.steps) = 2

\* getIncludedSteps, getExecutableIncludedSwap: the step that swaps, and what it may sell.
SwapStep(a) == a.steps[Len(a.steps)]
StepsFit(a, amount) ==
  /\ \A i \in DOMAIN a.steps : ~a.steps[i].nested
  /\ \/ a.steps = <<>> /\ a.top.type = "swap"
     \/ Len(a.steps) = 1 /\ StepFits(SwapStep(a), "swap", "collateral", "quote", amount)
     \/ /\ HasFeeStep(a) /\ FeeStepFits(a.steps[1], amount)
        /\ StepFits(SwapStep(a), "swap", "collateral", "quote", a.steps[1].out)

\* normalizeLifiRouteShape
ShapeFits(a, amount) ==
  /\ a.top.type \in {"swap", "lifi"} /\ a.top.tool # ""
  /\ StepFits(a.top, a.top.type, "collateral", "quote", amount) /\ a.top.payee = "taker"
  /\ a.top.type = "swap" \/ a.top.tool # "lifi" => ToolOk(a.top.tool)
  /\ StepsFit(a, amount)
  /\ a.steps # <<>> => SwapStep(a).tool # "" /\ ToolOk(SwapStep(a).tool)

\* assertIncludedStepEstimate; after a fee step the swap is made by LI.FI itself.
IncludedFits(a, policy) ==
  LET s == SwapStep(a)
  IN /\ a.top.type = "swap" \/ ~HasFeeStep(a)
          => s.spender \in policy.spenders /\ s.spender = a.top.spender
     /\ OutputsFit(s) /\ s.min >= a.top.min

\* validateLifiFeeCosts: what is charged in the collateral is what the fee step took.
FeesFit(a, amount) ==
  LET kept == a.top.fees \cup (IF HasFeeStep(a) THEN a.steps[1].fees ELSE {})
      sold == IF a.steps = <<>> THEN {} ELSE SwapStep(a).fees
      taken(f) == HasFeeStep(a) /\ f.token = "collateral" /\ f.amount = amount - a.steps[1].out
  IN /\ RejectFees => kept \cup sold = {}
     /\ \A f \in kept \cup sold : f.included
     /\ \A f \in kept : f.token = "quote" \/ taken(f)
     /\ \A f \in sold : f.token = "quote"

\* validateLifiQuote
LifiAccepted(a, amount, policy) ==
  /\ ShapeFits(a, amount) /\ OutputsFit(a.top)
  /\ a.top.spender \in policy.spenders
  /\ a.steps # <<>> => IncludedFits(a, policy)
  /\ FeesFit(a, amount)
  /\ a.to \in policy.targets /\ <<a.to, a.selector>> \in policy.selectors
  /\ a.value = 0 /\ a.chain /\ a.from = "taker"

LifiQuote(a) ==
  [target |-> a.to, spender |-> a.top.spender, selector |-> a.selector, value |-> a.value,
   out |-> a.top.out, min |-> a.top.min, call |-> a.call]

-----------------------------------------------------------------------------
\* The quotes that a request to a provider may yield; any other answer is an error.
Quotes(provider, policy, amount, out, min) ==
  CASE provider = "oneinch" ->
         {OneInchQuote(a) : a \in {b \in OneInchAnswers(amount, out, min) : OneInchAccepted(b, amount)}}
    [] provider = "sushi" ->
         {SushiQuote(a) : a \in {b \in SushiAnswers(amount, out, min) : SushiAccepted(b, amount, policy)}}
    [] provider = "lifi" ->
         {LifiQuote(a) : a \in {b \in LifiAnswers(amount, out, min) : LifiAccepted(b, amount, policy)}}

=============================================================================
