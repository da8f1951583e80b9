----------------------------- MODULE TakerTake -----------------------------
(***************************************************************************)
(* One take with an atomic swap by a taker contract (contracts/base,       *)
(* contracts/takers, contracts/libraries/TakerTakeScaling.sol): the taker  *)
(* lets the pool pull quote tokens, the pool sends it collateral and calls *)
(* it back, it swaps the collateral at a venue and checks what it got, the *)
(* pool pulls what is due, and the taker sends the rest to its owner.      *)
(*                                                                         *)
(* All of it is one transaction: a check that fails undoes everything.     *)
(* Prices and amounts of the pool are fixed-point numbers with unit Wad;   *)
(* amounts of tokens are in units of the token, Wad numbers divided by the *)
(* scale of the token.                                                     *)
(***************************************************************************)
EXTENDS Integers

CONSTANTS
  Wad,
  Setups,    \* see SetupType
  Orders,    \* see OrderType
  MaxStray,  \* bound on tokens that lie on the taker before a take
  Outs       \* what a venue may give for the collateral

SetupType == [
  exact : BOOLEAN,             \* a calldata aggregator, which takes its fill or none
  collateralScale : Nat \ {0},
  quoteScale : Nat \ {0}]

OrderType == [
  maxAmount : Nat \ {0},
  auctionPrice : Nat \ {0},
  amountOutMinimum : Nat \ {0},
  amountIn : Nat \ {0}]        \* amountInTokenUnits of an aggregator's route

ASSUME TakerAssumption ==
  /\ Wad \in Nat \ {0} /\ MaxStray \in Nat /\ Outs \subseteq Nat
  /\ Setups \subseteq SetupType /\ Orders \subseteq OrderType

VARIABLES
  setup, order,
  pc,
  quote, collateral,  \* balances of the taker
  toPool, toVenue,    \* allowances it gave: quote to the pool, collateral to the venue
  bound,              \* _activeCallbackPool is set
  fill,               \* the collateral that the pool sent
  owed,               \* what the pool charges for it, a Wad number
  quoteBefore,        \* quoteBalanceBefore of the swap
  stray               \* the balances before the transaction

balances == <<quote, collateral>>
allowances == <<toPool, toVenue>>
vars == <<setup, order, pc, balances, allowances, bound, fill, owed, quoteBefore, stray>>

NoOrder == [maxAmount |-> 0, auctionPrice |-> 0, amountOutMinimum |-> 0, amountIn |-> 0]

FloorDiv(a, b) == a \div b
CeilDiv(a, b) == (a + b - 1) \div b

TypeOK ==
  /\ setup \in Setups /\ order \in Orders \cup {NoOrder}
  /\ pc \in {"idle", "take", "callback", "swapped", "pull", "settle"}
  /\ pc # "idle" => order \in Orders
  /\ quote \in Nat /\ collateral \in Nat /\ toPool \in Nat /\ toVenue \in Nat
  /\ bound \in BOOLEAN
  /\ fill \in Nat /\ owed \in Nat /\ quoteBefore \in Nat
  /\ stray \in [quote : Nat, collateral : Nat]

Init ==
  /\ setup \in Setups /\ order = NoOrder /\ pc = "idle"
  /\ quote = 0 /\ collateral = 0 /\ toPool = 0 /\ toVenue = 0 /\ bound = FALSE
  /\ fill = 0 /\ owed = 0 /\ quoteBefore = 0
  /\ stray = [quote |-> 0, collateral |-> 0]

-----------------------------------------------------------------------------
\* Operators of TakerTakeScaling and KeeperTakerBase.

\* plannedTakeAmount
Planned == FloorDiv(order.maxAmount, setup.collateralScale)

\* scaleAmountOutMinimum; an aggregator's fill is all that was planned.
ScaledDown == FloorDiv(order.amountOutMinimum * fill, Planned)  \* mutant
ScaledUp == CeilDiv(order.amountOutMinimum * fill, Planned)
Scaled == ScaledUp
MinimumOut == IF setup.exact THEN order.amountOutMinimum ELSE Scaled

\* quoteAmountDue as the pool reports it, and what it pulls.
Reported == FloorDiv(owed, setup.quoteScale)
Pull == CeilDiv(owed, setup.quoteScale)

\* quoteAmountDueCeiling
Due == IF setup.quoteScale > 1 THEN Reported + 1 ELSE Reported

\* _approveQuoteForTake
Approval(o) == CeilDiv(CeilDiv(o.maxAmount * o.auctionPrice, Wad), setup.quoteScale)

-----------------------------------------------------------------------------
\* Tokens may lie on the taker before a take: someone sent them, or a venue refunded late.
Stray(q, c) ==
  /\ pc = "idle" /\ q <= MaxStray /\ c <= MaxStray /\ <<q, c>> # <<quote, collateral>>
  /\ quote' = q /\ collateral' = c
  /\ UNCHANGED <<setup, order, pc, allowances, bound, fill, owed, quoteBefore, stray>>

\* takeWithAtomicSwap of the owner, directly or through the router, up to pool.take.
Begin(o) ==
  /\ pc = "idle" /\ ~bound
  /\ FloorDiv(o.maxAmount, setup.collateralScale) > 0 \/ setup.exact
  /\ order' = o /\ pc' = "take" /\ bound' = TRUE
  /\ toPool' = Approval(o)
  /\ stray' = [quote |-> quote, collateral |-> collateral]
  /\ UNCHANGED <<setup, balances, toVenue, fill, owed, quoteBefore>>

\* The pool sends collateral, no more than asked for and less where the debt is small, at a
\* price that has only fallen since it was read.
Fills ==
  {f \in 0 .. order.maxAmount : f * setup.collateralScale <= order.maxAmount}

Charges(f, price) ==
  {FloorDiv(f * setup.collateralScale * price, Wad), CeilDiv(f * setup.collateralScale * price, Wad)}

PoolSends(f, price) ==
  /\ pc = "take" /\ pc' = "callback"
  /\ f \in Fills /\ price <= order.auctionPrice
  /\ fill' = f /\ owed' \in Charges(f, price)
  /\ collateral' = collateral + f
  /\ UNCHANGED <<setup, order, quote, allowances, bound, quoteBefore, stray>>

\* The venue gets an allowance for the fill, and uses all of it or, an aggregator, a part.
Swap(used, out) ==
  /\ pc = "callback" /\ bound /\ fill > 0
  /\ setup.exact => fill = order.amountIn
  /\ used <= fill /\ (setup.exact \/ used = fill)
  /\ toVenue' = fill - used
  /\ collateral' = collateral - used /\ quote' = quote + out
  /\ quoteBefore' = quote
  /\ pc' = "swapped"
  /\ UNCHANGED <<setup, order, toPool, bound, fill, owed, stray>>

\* What the callback holds against MinimumOut and Due.
Balance == quote  \* mutant
Received == quote - quoteBefore

Kept(allowance) == allowance  \* mutant
Withdrawn(allowance) == 0

\* _safeApproveWithReset to zero, and the backstop on the output.
Check ==
  /\ pc = "swapped" /\ pc' = "pull"
  /\ Received >= MinimumOut /\ Received >= Due
  /\ toVenue' = Withdrawn(toVenue)
  /\ UNCHANGED <<setup, order, balances, toPool, bound, fill, owed, quoteBefore, stray>>

PoolPulls ==
  /\ pc = "pull" /\ pc' = "settle"
  /\ toPool >= Pull /\ quote >= Pull
  /\ quote' = quote - Pull /\ toPool' = toPool - Pull
  /\ UNCHANGED <<setup, order, collateral, toVenue, bound, fill, owed, quoteBefore, stray>>

Over ==
  /\ pc' = "idle" /\ order' = NoOrder /\ fill' = 0 /\ owed' = 0 /\ quoteBefore' = 0
  /\ stray' = [quote |-> 0, collateral |-> 0]

\* _endCallbackBinding, _settleAfterTake: the owner gets all there is.
Settle ==
  /\ pc = "settle" /\ Over
  /\ bound' = FALSE /\ toPool' = 0 /\ quote' = 0 /\ collateral' = 0
  /\ UNCHANGED <<setup, toVenue>>

\* Wherever the transaction reverts: a check that fails, a venue or a pool that reverts.
Revert ==
  /\ pc # "idle" /\ Over
  /\ bound' = FALSE /\ toPool' = 0 /\ toVenue' = 0
  /\ quote' = stray.quote /\ collateral' = stray.collateral
  /\ UNCHANGED setup

Next ==
  \/ \E q, c \in 0 .. MaxStray : Stray(q, c)
  \/ \E o \in Orders : Begin(o)
  \/ \E f \in 0 .. order.maxAmount, price \in 0 .. order.auctionPrice : PoolSends(f, price)
  \/ \E used \in 0 .. fill, out \in Outs : Swap(used, out)
  \/ Check \/ PoolPulls \/ Settle \/ Revert

Spec == Init /\ [][Next]_vars

-----------------------------------------------------------------------------
\* Properties.

\* What passes the callback's check repays the pool: the pull, rounded up where the reported
\* due was rounded down, is within the allowance given before the fill and its price were
\* known, and within what the swap itself brought, so that no token that lay on the taker is
\* spent (TakerTakeScaling quoteAmountDueCeiling, KeeperTakerBase _approveQuoteForTake).
PullCovered ==
  pc = "pull" => toPool >= Pull /\ quote - stray.quote >= Pull

\* A fill of whatever size that passes the check was sold at no less per unit than the keeper
\* quoted for the full size (TakerTakeScaling scaleAmountOutMinimum).
UnitFloorKept ==
  pc = "pull" =>
    IF setup.exact THEN fill = order.amountIn /\ Received >= order.amountOutMinimum
    ELSE Received * Planned >= order.amountOutMinimum * fill

\* Between transactions nobody may move a token of the taker and no callback is expected,
\* whether a take was settled or undone and however much of its fill the venue used
\* (KeeperTakerBase _settleAfterTake, BaseAggregatorCalldataTaker _executeAggregatorCall).
NothingLeftOpen ==
  pc = "idle" => toPool = 0 /\ toVenue = 0 /\ ~bound

=============================================================================
