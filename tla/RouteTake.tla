----------------------------- MODULE RouteTake -----------------------------
(***************************************************************************)
(* One external take from its approved evaluation to its transaction       *)
(* (take/aggregator-calldata/execution.ts, take/direct-dex,                *)
(* discovery/route-preflight-validation.ts): the daemon compares its file  *)
(* with the lists of the taker contract once, approves a route for what an *)
(* auction offers, asks the provider anew, and hands over a transaction    *)
(* that the contract admits and executes as TakerTake says.  Meanwhile the *)
(* auction moves, the quote gets old, and the owner changes the contract.  *)
(***************************************************************************)
EXTENDS TakerTake, RouteQuotes

CONSTANTS
  Deployments,   \* a configuration and what earlier calls of the owner left, see DeploymentType
  OwnersEntries, \* what the owner's calls are about while the daemon runs
  Auctions,      \* what a pool may offer, see AuctionType
  Mins,          \* minima of quotes, and floors of direct routes
  MaxAge,        \* maxQuoteAgeMs in ticks
  MaxOwnerCalls  \* bound on calls of the owner while the daemon runs

FileType == [
  provider : Providers, policy : PolicyType,
  checks : BOOLEAN,    \* the preflight is asked for
  dry : BOOLEAN,
  complete : BOOLEAN]  \* router and taker are given

\* An entry of a list of BaseAggregatorCalldataTaker.
Entries ==
  ({"target", "spender"} \X Addresses) \cup
  ({"selector"} \X (Addresses \X Selectors))

\* _knownCallTargets and the like, and the flags.
ListsType == [known : SUBSET Entries, allowed : SUBSET Entries]

DeploymentType ==
  [file : FileType, lists : ListsType, registered : {"none", "configured", "other"}]

AuctionType == [coll : Nat \ {0}, price : Nat \ {0}, debt : Nat]

ASSUME RouteAssumption ==
  /\ Deployments \subseteq DeploymentType /\ OwnersEntries \subseteq Entries
  /\ \A d \in Deployments : PolicyOk(d.file.policy) /\ d.lists.allowed \subseteq d.lists.known
  /\ Auctions \subseteq AuctionType /\ Mins \subseteq Nat \ {0}
  /\ \A a, b \in Auctions, m \in Mins, s \in Setups : \A n \in 0 .. a.coll :
       FloorDiv(n, s.collateralScale) > 0 =>
         [maxAmount |-> n, auctionPrice |-> b.price, amountOutMinimum |-> m,
          amountIn |-> FloorDiv(n, s.collateralScale)] \in Orders
  /\ MaxAge \in Nat /\ MaxOwnerCalls \in Nat

VARIABLES
  file,
  lists,             \* of the taker contract
  registered,        \* takerContracts of the source in the router
  trust,             \* the preflight passed, and the owner called since
  calls,             \* of the owner
  auction,           \* what the pool offers
  stage,
  plan,              \* the approved evaluation
  fresh,             \* the quote that is executed
  age,               \* of that quote
  accepted,          \* the transport took the transaction
  told               \* results of the quote, failures of the take, the last failure's preBroadcast

contract == <<lists, registered>>
keeper == <<plan, fresh, age, accepted, told>>
chain == <<file, contract, trust, calls>>
routeVars == <<chain, auction, stage, keeper, vars>>

NoPlan == [size |-> 0, price |-> 0, min |-> 0]
NoFresh ==
  [target |-> "", spender |-> "", selector |-> "", value |-> 0, out |-> 0, min |-> 0,
   call |-> Asked(0, 0)]
Untold == [results |-> 0, good |-> 0, failures |-> 0, pre |-> FALSE, consumed |-> FALSE]

RouteInit ==
  /\ Init
  /\ \E d \in Deployments : file = d.file /\ lists = d.lists /\ registered = d.registered
  /\ setup.exact = (file.provider # "direct")
  /\ trust = "no" /\ calls = 0
  /\ auction \in Auctions /\ stage = "idle"
  /\ plan = NoPlan /\ fresh = NoFresh /\ age = 0 /\ accepted = FALSE /\ told = Untold

-----------------------------------------------------------------------------
\* The contract's lists, as it shows and as it uses them.

EverListed(kind) == {e[2] : e \in {x \in lists.known : x[1] = kind}}  \* mutant
GetAllowed(kind) == {e[2] : e \in {x \in lists.known : x[1] = kind /\ x \in lists.allowed}}

\* setCallTarget, setApprovalSpender, setCallSelector
SetAllowed(entry, flag) ==
  lists' = [known |-> lists.known \cup {entry},
            allowed |-> IF flag THEN lists.allowed \cup {entry} ELSE lists.allowed \ {entry}]

\* _validateSwapDetails and what comes before it; another contract is not the receiver of
\* the swap.  A direct taker, whichever is registered, has no lists.
Admits(o) ==
  /\ registered # "none"
  /\ IF setup.exact
     THEN /\ registered = "configured" /\ o.amountIn > 0 /\ o.amountOutMinimum > 0
          /\ <<"target", fresh.target>> \in lists.allowed
          /\ <<"spender", fresh.spender>> \in lists.allowed
          /\ <<"selector", <<fresh.target, fresh.selector>>>> \in lists.allowed
     ELSE FloorDiv(o.maxAmount, setup.collateralScale) > 0

\* A call of the owner is a transaction of its own.
OwnerCall ==
  /\ calls < MaxOwnerCalls /\ pc = "idle"
  /\ \/ \E e \in OwnersEntries, flag \in BOOLEAN : SetAllowed(e, flag) /\ UNCHANGED registered
     \/ \E r \in {"none", "configured", "other"} : registered' = r /\ UNCHANGED lists
  /\ contract' # contract
  /\ trust' = IF trust = "checked" THEN "changed" ELSE trust
  /\ calls' = calls + 1
  /\ UNCHANGED <<file, auction, stage, keeper, vars>>

-----------------------------------------------------------------------------
\* The preflight.

\* reconcileTakerAllowlistSnapshot in mode exact; selectors are read for the targets that
\* either side lists.
Reconciled ==
  /\ GetAllowed("target") = file.policy.targets
  /\ GetAllowed("spender") = file.policy.spenders
  /\ {ts \in GetAllowed("selector") : ts[1] \in file.policy.targets} = file.policy.selectors

\* What a 1inch take approves.
RouterMaySpend == file.provider = "oneinch" => Router \in file.policy.spenders

Preflight ==
  /\ file.checks /\ trust = "no" /\ stage = "idle"
  /\ registered = "configured"
  /\ setup.exact => Reconciled
  /\ RouterMaySpend
  /\ trust' = "checked"
  /\ UNCHANGED <<file, contract, calls, auction, stage, keeper, vars>>

-----------------------------------------------------------------------------
\* Sizes and floors.

LeastOf(a, b) == IF a < b THEN a ELSE b

\* getExpectedQuotedCollateralWad: what the debt allows for an aggregator, all for a direct DEX.
Size(a) ==
  IF setup.exact /\ a.debt > 0 THEN LeastOf(FloorDiv(a.debt * Wad, a.price), a.coll) ELSE a.coll

\* getQuoteAmountDueRawForScale
DueForFloored(size, price) == FloorDiv(FloorDiv(size * price, Wad), setup.quoteScale)  \* mutant
DueFor(size, price) == CeilDiv(CeilDiv(size * price, Wad), setup.quoteScale)

\* convertWadToTokenDecimals
InTokens(size) == FloorDiv(size, setup.collateralScale)

QuotesFor(size) ==
  UNION {Quotes(file.provider, file.policy, InTokens(size), out, min) : out \in Mins, min \in Mins}

\* The floors of the evaluations that are approved: a calldata quote counts with its own
\* minimum, which the repayment may not exceed, and has no native value.
Covering(size, price) == {m \in Mins : m >= DueFor(size, price)}
WithoutValue(quotes) == {q \in quotes : q.value = 0}
AggregatorFloors(size, price) ==
  {q.min : q \in WithoutValue(QuotesFor(size))} \cap Covering(size, price)

Floors(size, price) ==
  IF InTokens(size) = 0 THEN {}
  ELSE IF setup.exact THEN AggregatorFloors(size, price) ELSE Covering(size, price)

-----------------------------------------------------------------------------
\* The keeper.

\* A failure is before the broadcast unless the transport took the transaction or the nonce
\* was found to be used.
PreUnlessAccepted(consumed) == ~accepted  \* mutant
PreBroadcast(consumed) == ~accepted /\ ~consumed

Failed(t, consumed) ==
  /\ stage' = "over"
  /\ told' = [t EXCEPT !.failures = @ + 1, !.pre = PreBroadcast(consumed),
                       !.consumed = consumed]

BadResult == [told EXCEPT !.results = @ + 1]
GoodResult == [BadResult EXCEPT !.good = @ + 1]

Goes(next) == stage' = next /\ UNCHANGED told

\* A route is evaluated and approved.
Approve ==
  /\ stage = "idle" /\ (file.checks => trust # "no")
  /\ \E m \in Floors(Size(auction), auction.price) :
       plan' = [size |-> Size(auction), price |-> auction.price, min |-> m]
  /\ Goes("planned")
  /\ UNCHANGED <<chain, auction, fresh, age, accepted, vars>>

\* The price decays, others take, interest accrues.
AuctionMoves ==
  /\ stage = "planned"
  /\ \E a \in Auctions : a # auction /\ a.price <= auction.price /\ auction' = a
  /\ UNCHANGED <<chain, stage, keeper, vars>>

\* executeTakeDecision: the facts are read anew; the discovered takes are approved for them.
StillFits == Size(auction) = plan.size /\ auction.price <= plan.price

Skip ==
  /\ stage = "planned" /\ ~StillFits
  /\ Goes("over")
  /\ UNCHANGED <<chain, auction, plan, fresh, age, accepted, vars>>

Reapprove ==
  /\ stage = "planned" /\ StillFits /\ plan.price # auction.price
  /\ plan' = [plan EXCEPT !.price = auction.price]
  /\ UNCHANGED <<chain, auction, stage, fresh, age, accepted, told, vars>>

\* getAggregatorQuoteContextMismatch; a direct DEX only asks for the repayment.
MismatchedSize == setup.exact /\ plan.size # Size(auction)  \* mutant
Mismatched == setup.exact /\ (plan.size # Size(auction) \/ plan.price # auction.price)

\* computeDirectDexAmountOutMinimum
Repays == plan.min >= DueFor(auction.coll, auction.price)

Rejected ==
  /\ Failed(told, FALSE)
  /\ UNCHANGED <<chain, auction, plan, fresh, age, accepted, vars>>

\* Before the dry run the mismatch is found, after it that an address is missing.
Reject ==
  /\ stage = "planned" /\ StillFits /\ setup.exact
  /\ Mismatched \/ (~file.dry /\ ~file.complete)
  /\ Rejected

RejectDirect ==
  /\ stage = "planned" /\ StillFits /\ ~setup.exact /\ ~file.dry
  /\ ~file.complete \/ ~Repays
  /\ Rejected

DryRun ==
  /\ stage = "planned" /\ StillFits /\ ~Mismatched /\ file.dry
  /\ Goes("over")
  /\ UNCHANGED <<chain, auction, plan, fresh, age, accepted, vars>>

Prepare ==
  /\ stage = "planned" /\ StillFits /\ setup.exact /\ ~file.dry
  /\ ~Mismatched /\ file.complete
  /\ Goes("asking")
  /\ UNCHANGED <<chain, auction, plan, fresh, age, accepted, vars>>

PrepareDirect ==
  /\ stage = "planned" /\ StillFits /\ ~setup.exact /\ ~file.dry
  /\ file.complete /\ Repays
  /\ Goes("queued")
  /\ UNCHANGED <<chain, auction, plan, fresh, age, accepted, vars>>

\* The answer is an error, or a quote below the floor or too old.
QuoteFails ==
  /\ stage = "asking"
  /\ Failed(BadResult, FALSE)
  /\ UNCHANGED <<chain, auction, plan, fresh, age, accepted, vars>>

\* The age of Sushi's quotes counts from the request.
Ages == IF file.provider = "sushi" THEN 0 .. MaxAge ELSE {0}

\* getAggregatorFreshQuoteFloorError
ClearsFloor(q) == q.out >= plan.min /\ q.min >= plan.min

QuoteArrives ==
  /\ stage = "asking"
  /\ \E q \in QuotesFor(plan.size) : ClearsFloor(q) /\ fresh' = q
  /\ age' \in Ages
  /\ Goes("queued")
  /\ UNCHANGED <<chain, auction, plan, accepted, vars>>

Tick ==
  /\ stage \in {"queued", "estimated", "populated"} /\ setup.exact /\ age <= MaxAge
  /\ age' = age + 1
  /\ UNCHANGED <<chain, auction, stage, plan, fresh, accepted, told, vars>>

\* assertFreshQuoteStillCurrent, before each step of the queued callback.
Stale ==
  /\ stage \in {"queued", "estimated", "populated"} /\ age > MaxAge
  /\ Failed(BadResult, FALSE)
  /\ UNCHANGED <<chain, auction, plan, fresh, age, accepted, vars>>

\* The arguments of takeWithAtomicSwap.
Order ==
  [maxAmount |-> IF setup.exact THEN plan.size ELSE auction.coll,
   auctionPrice |-> auction.price,
   amountOutMinimum |-> plan.min,
   amountIn |-> InTokens(IF setup.exact THEN plan.size ELSE auction.coll)]

Estimate ==
  /\ stage = "queued" /\ age <= MaxAge /\ Admits(Order)
  /\ Goes("estimated")
  /\ UNCHANGED <<chain, auction, plan, fresh, age, accepted, vars>>

\* Estimating or populating the transaction throws; the estimate executes it.
StepFails ==
  /\ stage \in {"queued", "estimated"} /\ age <= MaxAge
  /\ Failed(told, FALSE)
  /\ UNCHANGED <<chain, auction, plan, fresh, age, accepted, vars>>

Populate ==
  /\ stage = "estimated" /\ age <= MaxAge
  /\ Goes("populated")
  /\ UNCHANGED <<chain, auction, plan, fresh, age, accepted, vars>>

\* onQuoteConsumed, then the transport takes the transaction or throws.
Consumed == IF setup.exact THEN GoodResult ELSE told

Submit ==
  /\ stage = "populated" /\ age <= MaxAge
  /\ accepted' = TRUE /\ stage' = "sent" /\ told' = Consumed
  /\ UNCHANGED <<chain, auction, plan, fresh, age, vars>>

TransportThrows(consumed) ==
  /\ stage = "populated" /\ age <= MaxAge
  /\ Failed(Consumed, consumed)
  /\ UNCHANGED <<chain, auction, plan, fresh, age, accepted, vars>>

\* The wait for the receipt ends without a successful one; the contract may have refused.
WaitFails(consumed) ==
  /\ stage = "sent" /\ pc = "idle"
  /\ Failed(told, consumed)
  /\ UNCHANGED <<chain, auction, plan, fresh, age, accepted, vars>>

\* Everything is forgotten and the next cycle looks at the auctions, also after one that
\* approved nothing.
NextCycle ==
  /\ stage \in {"idle", "over"} /\ stage' = "idle"
  /\ auction' \in Auctions
  /\ plan' = NoPlan /\ fresh' = NoFresh /\ age' = 0 /\ accepted' = FALSE /\ told' = Untold
  /\ UNCHANGED <<chain, vars>>

-----------------------------------------------------------------------------
\* The transaction.

Land ==
  /\ stage = "sent" /\ Admits(Order) /\ Begin(Order)
  /\ UNCHANGED <<chain, auction, stage, keeper>>

Settled ==
  /\ Settle /\ Goes("over")
  /\ UNCHANGED <<chain, auction, plan, fresh, age, accepted>>

Reverted ==
  /\ Revert /\ Failed(told, FALSE)
  /\ UNCHANGED <<chain, auction, plan, fresh, age, accepted>>

\* Stray tokens matter to a transaction that is about to land.
Within ==
  /\ \/ stage = "sent" /\ \E q, c \in 0 .. MaxStray : Stray(q, c)
     \/ \E f \in 0 .. order.maxAmount, price \in 0 .. order.auctionPrice : PoolSends(f, price)
     \/ \E used \in 0 .. fill, out \in Outs : Swap(used, out)
     \/ Check \/ PoolPulls
  /\ UNCHANGED <<chain, auction, stage, keeper>>

RouteNext ==
  \/ OwnerCall \/ Preflight
  \/ Approve \/ AuctionMoves \/ Skip \/ Reapprove \/ DryRun
  \/ Reject \/ Prepare \/ RejectDirect \/ PrepareDirect
  \/ QuoteFails \/ QuoteArrives \/ Tick \/ Stale \/ Estimate \/ StepFails \/ Populate
  \/ Submit \/ NextCycle
  \/ \E consumed \in BOOLEAN : TransportThrows(consumed) \/ WaitFails(consumed)
  \/ Land \/ Settled \/ Reverted \/ Within

RouteSpec == RouteInit /\ [][RouteNext]_routeVars

-----------------------------------------------------------------------------
\* Properties.

\* A take whose contract is as the preflight found it is not refused by the router or by the
\* taker, whatever quote was chosen for it: the file's policy, which admits the quote, is the
\* contract's.  1inch quotes are for the configured router, so that one has to be a target.
NeverRefused ==
  /\ trust = "checked" /\ stage \in {"queued", "estimated", "populated", "sent"}
  /\ file.provider = "oneinch" => <<Router, "swap">> \in file.policy.selectors
  => Admits(Order)

\* What is sent is what was approved for the auction that is being taken: amount and price of
\* one evaluation, a floor that repays them, and a quote that is young, clears the floor, and,
\* where the calldata can be read, sells that amount for the taker (prepare- and
\* submitCalldataAggregatorTake, computeDirectDexAmountOutMinimum).
SentAsApproved ==
  stage = "sent" =>
    /\ Order.amountOutMinimum >= DueFor(Order.maxAmount, Order.auctionPrice)
    /\ setup.exact =>
         /\ plan.size = Size(auction) /\ plan.price = auction.price
         /\ age <= MaxAge /\ fresh.min >= plan.min /\ fresh.out >= plan.min
         /\ file.provider # "lifi" =>
              /\ fresh.call = Asked(Order.amountIn, fresh.call.min)
              /\ fresh.call.min >= plan.min

\* A take that ends reports at most one outcome of its quote and at most one failure, which
\* lets another route be tried exactly when nothing was broadcast; a quote whose transaction was
\* taken counts as a success whatever becomes of it (onCalldataAggregatorQuoteResult,
\* onCalldataAggregatorExecutionFailure).
OutcomeOnce ==
  stage = "over" =>
    /\ told.results <= 1 /\ told.failures <= 1
    /\ told.failures = 1 => told.pre = (~accepted /\ ~told.consumed)
    /\ accepted /\ setup.exact => told.good = 1

\* The keeper's floor repays the pool: a swap that yields what the taker asks for by that
\* floor yields what the pool pulls, for whatever part of the order is filled and however far
\* the price has fallen (getQuoteAmountDueRawForScale, TakerTakeScaling scaleAmountOutMinimum).
FloorRepays ==
  pc \in {"callback", "swapped"} /\ (setup.exact => fill = order.amountIn) => MinimumOut >= Pull

\* What quote-approval.ts says of native values (comment before hasNonZeroNativeValue), of the
\* quote that is executed.  It does not hold: that one is asked for after the check.
ValueFailsClosed == stage = "sent" /\ setup.exact => fresh.value = 0

=============================================================================
