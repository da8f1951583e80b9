-------------------------- MODULE TakerTakeProofs --------------------------
(***************************************************************************)
(* Proofs about TakerTake, for every unit, scale, order, stray balance and *)
(* output of a venue, and about RouteTake, whose transactions are takes of *)
(* TakerTake.                                                              *)
(***************************************************************************)
EXTENDS RouteTake, TLAPS

\* Products grow with their factors.
LEMMA ProductGrows ==
  ASSUME NEW a \in Nat, NEW b \in Nat, NEW c \in Nat, NEW d \in Nat, a <= c, b <= d
  PROVE  a * b \in Nat /\ a * b <= c * d
<1>1. a * b <= c * b
  BY SMT
<1>2. c * b <= c * d
  BY SMT
<1> QED
  BY <1>1, <1>2, SMT

\* A quotient is the number of times the divisor goes into the dividend.
LEMMA FloorDivIs ==
  ASSUME NEW a \in Nat, NEW b \in Nat \ {0}
  PROVE  /\ FloorDiv(a, b) \in Nat
         /\ FloorDiv(a, b) * b <= a /\ a < (FloorDiv(a, b) + 1) * b
BY SMT DEF FloorDiv

\* A quotient rounded up is the least number of times that covers the dividend.
LEMMA CeilDivIs ==
  ASSUME NEW a \in Nat, NEW b \in Nat \ {0}
  PROVE  /\ CeilDiv(a, b) \in Nat
         /\ a <= CeilDiv(a, b) * b /\ CeilDiv(a, b) * b < a + b
<1>1. CeilDiv(a, b) = FloorDiv(a + b - 1, b) /\ a + b - 1 \in Nat
  BY SMT DEF CeilDiv, FloorDiv
<1>2. /\ FloorDiv(a + b - 1, b) \in Nat
      /\ FloorDiv(a + b - 1, b) * b <= a + b - 1
      /\ a + b - 1 < (FloorDiv(a + b - 1, b) + 1) * b
  BY <1>1, FloorDivIs
<1>3. \A q \in Nat : (q + 1) * b = q * b + b /\ q * b \in Nat
  BY SMT
<1> QED
  BY <1>1, <1>2, <1>3, SMT

\* The least number that covers a dividend is no greater than any that covers it.
LEMMA CeilDivLeast ==
  ASSUME NEW a \in Nat, NEW b \in Nat \ {0}, NEW n \in Nat, a <= n * b
  PROVE  CeilDiv(a, b) <= n
<1> DEFINE q == CeilDiv(a, b)
<1>1. q \in Nat /\ q * b < a + b
  BY CeilDivIs
<1> HIDE DEF q
<1>2. SUFFICES ASSUME n + 1 <= q PROVE FALSE
  BY <1>1, SMT DEF q
<1>3. (n + 1) * b <= q * b
  BY <1>1, <1>2, ProductGrows
<1>4. (n + 1) * b = n * b + b /\ n * b \in Nat /\ q * b \in Nat
  BY <1>1, SMT
<1> QED
  BY <1>1, <1>3, <1>4, SMT

LEMMA CeilDivGrows ==
  ASSUME NEW a \in Nat, NEW b \in Nat \ {0}, NEW c \in Nat, a <= c
  PROVE  CeilDiv(a, b) <= CeilDiv(c, b)
<1>1. CeilDiv(c, b) \in Nat /\ c <= CeilDiv(c, b) * b
  BY CeilDivIs
<1>2. CeilDiv(c, b) * b \in Nat
  BY <1>1, SMT
<1>3. a <= CeilDiv(c, b) * b
  BY <1>1, <1>2, SMT
<1> QED
  BY <1>1, <1>3, CeilDivLeast

LEMMA FloorBelowCeil ==
  ASSUME NEW a \in Nat, NEW b \in Nat \ {0}
  PROVE  FloorDiv(a, b) <= CeilDiv(a, b) /\ CeilDiv(a, b) <= FloorDiv(a, b) + 1
<1> DEFINE f == FloorDiv(a, b)
           c == CeilDiv(a, b)
<1>1. f \in Nat /\ f * b <= a /\ a < (f + 1) * b
  BY FloorDivIs
<1>2. c \in Nat /\ a <= c * b
  BY CeilDivIs
<1> HIDE DEF f, c
<1>3. c <= f + 1
  BY <1>1, CeilDivLeast, SMT DEF c
<1>4. f <= c
  <2>1. SUFFICES ASSUME c + 1 <= f PROVE FALSE
    BY <1>1, <1>2, SMT
  <2>2. (c + 1) * b <= f * b
    BY <1>1, <1>2, <2>1, ProductGrows
  <2>3. (c + 1) * b = c * b + b /\ c * b \in Nat /\ f * b \in Nat
    BY <1>1, <1>2, SMT
  <2> QED
    BY <1>1, <1>2, <2>2, <2>3, SMT
<1> QED
  BY <1>3, <1>4 DEF f, c

-----------------------------------------------------------------------------
\* What a taker computes.

LEMMA ApprovalIs ==
  ASSUME NEW o \in OrderType, setup \in SetupType
  PROVE  /\ CeilDiv(o.maxAmount * o.auctionPrice, Wad) \in Nat /\ Approval(o) \in Nat
         /\ Approval(o) = CeilDiv(CeilDiv(o.maxAmount * o.auctionPrice, Wad), setup.quoteScale)
<1>1. o.maxAmount \in Nat /\ o.auctionPrice \in Nat /\ setup.quoteScale \in Nat \ {0}
  BY DEF OrderType, SetupType
<1>2. o.maxAmount * o.auctionPrice \in Nat
  BY <1>1, SMT
<1>3. CeilDiv(o.maxAmount * o.auctionPrice, Wad) \in Nat
  BY <1>2, CeilDivIs, TakerAssumption
<1> QED
  BY <1>1, <1>3, CeilDivIs DEF Approval

LEMMA PullIs ==
  ASSUME owed \in Nat, setup \in SetupType
  PROVE  Pull \in Nat /\ Due \in Nat /\ Reported \in Nat /\ Pull <= Due
<1>1. setup.quoteScale \in Nat \ {0}
  BY DEF SetupType
<1>2. /\ Pull \in Nat /\ Reported \in Nat
      /\ Reported <= Pull /\ Pull <= Reported + 1
  BY <1>1, CeilDivIs, FloorDivIs, FloorBelowCeil DEF Pull, Reported
<1>3. CASE setup.quoteScale > 1
  BY <1>2, <1>3, SMT DEF Due
<1>4. CASE setup.quoteScale = 1
  <2>1. CeilDiv(owed, 1) <= owed
    BY CeilDivLeast, SMT
  <2>2. FloorDiv(owed, 1) * 1 <= owed /\ owed < (FloorDiv(owed, 1) + 1) * 1 /\ FloorDiv(owed, 1) \in Nat
    BY FloorDivIs, SMT
  <2>3. FloorDiv(owed, 1) = owed
    BY <2>2, SMT
  <2>4. Pull <= Reported
    BY <1>4, <2>1, <2>3 DEF Pull, Reported
  <2> QED
    BY <1>2, <1>4, <2>4, SMT DEF Due
<1> QED
  BY <1>1, <1>3, <1>4, SMT

\* The charge for a fill is no more than the whole order costs at the price that was read.
LEMMA ChargesBounded ==
  ASSUME NEW f \in Nat, NEW price \in Nat, setup \in SetupType, order \in OrderType,
         f * setup.collateralScale <= order.maxAmount, price <= order.auctionPrice,
         NEW w \in Charges(f, price)
  PROVE  w \in Nat /\ w <= CeilDiv(order.maxAmount * order.auctionPrice, Wad)
<1> DEFINE wad == f * setup.collateralScale
           a == wad * price
           most == order.maxAmount * order.auctionPrice
<1>1. /\ setup.collateralScale \in Nat /\ order.maxAmount \in Nat /\ order.auctionPrice \in Nat
      /\ Wad \in Nat \ {0}
  BY TakerAssumption DEF SetupType, OrderType
<1>2. wad \in Nat /\ wad <= order.maxAmount
  BY <1>1, SMT
<1> HIDE DEF wad
<1>3. a \in Nat /\ a <= most /\ most \in Nat
  BY <1>1, <1>2, ProductGrows, SMT
<1>4. w \in {FloorDiv(a, Wad), CeilDiv(a, Wad)}
  BY DEF Charges, wad
<1> HIDE DEF a, most
<1>5. CeilDiv(a, Wad) <= CeilDiv(most, Wad) /\ CeilDiv(most, Wad) \in Nat
  BY <1>1, <1>3, CeilDivGrows, CeilDivIs
<1>6. /\ FloorDiv(a, Wad) \in Nat /\ CeilDiv(a, Wad) \in Nat
      /\ FloorDiv(a, Wad) <= CeilDiv(a, Wad)
  BY <1>1, <1>3, FloorDivIs, CeilDivIs, FloorBelowCeil
<1> QED
  BY <1>4, <1>5, <1>6, SMT DEF most

-----------------------------------------------------------------------------
\* The inductive invariant.

InTake == pc \in {"take", "callback", "swapped", "pull"}

\* The pool may pull what the order was approved for, and charges no more than that.
Approved ==
  /\ InTake => toPool = Approval(order)
  /\ pc \in {"callback", "swapped", "pull"} =>
       owed <= CeilDiv(order.maxAmount * order.auctionPrice, Wad)

\* The tokens that lay on the taker are where they were, below what the swap brought.
StrayUntouched ==
  /\ pc \in {"take", "callback"} => quote = stray.quote
  /\ pc \in {"swapped", "pull"} => quoteBefore = stray.quote /\ quoteBefore <= quote

FillHeld == pc = "callback" => fill <= collateral

\* What the callback has checked.
Planning == InTake => setup.exact \/ Planned > 0
Filled == pc \in {"swapped", "pull"} /\ setup.exact => fill = order.amountIn
CheckedOut == pc = "pull" => Received >= MinimumOut /\ Received >= Due

Closed ==
  /\ pc \in {"idle", "take", "callback", "pull", "settle"} => toVenue = 0
  /\ pc = "idle" => toPool = 0 /\ ~bound

IInv ==
  /\ TypeOK /\ Approved /\ StrayUntouched /\ FillHeld
  /\ Planning /\ Filled /\ CheckedOut /\ Closed

\* The named steps of a transaction.
LEMMA Steps ==
  ASSUME Next
  PROVE  \/ \E q, c \in 0 .. MaxStray : Stray(q, c)
         \/ \E o \in Orders : Begin(o)
         \/ \E f \in 0 .. order.maxAmount, price \in 0 .. order.auctionPrice : PoolSends(f, price)
         \/ \E used \in 0 .. fill, out \in Outs : Swap(used, out)
         \/ Check \/ PoolPulls \/ Settle \/ Revert
BY DEF Next

LEMMA InitInv == Init => IInv
<1> SUFFICES ASSUME Init PROVE IInv
  OBVIOUS
<1>1. TypeOK
  BY DEF Init, TypeOK
<1> QED
  BY <1>1 DEF Init, IInv, Approved, InTake, StrayUntouched, FillHeld, Planning, Filled,
     CheckedOut, Closed

LEMMA TypeStep == TypeOK /\ FillHeld /\ [Next]_vars => TypeOK'
<1> SUFFICES ASSUME TypeOK, FillHeld, [Next]_vars PROVE TypeOK'
  OBVIOUS
<1> USE TakerAssumption
<1>1. setup \in SetupType
  BY DEF TypeOK
<1>2. CASE \E q, c \in 0 .. MaxStray : Stray(q, c)
  <2> PICK q \in 0 .. MaxStray, c \in 0 .. MaxStray : Stray(q, c)
    BY <1>2
  <2> QED
    BY DEF Stray, TypeOK, allowances
<1>3. ASSUME NEW o \in Orders, Begin(o) PROVE TypeOK'
  <2>1. Approval(o) \in Nat
    BY <1>1, ApprovalIs
  <2> QED
    BY <1>3, <2>1 DEF Begin, TypeOK, balances
<1>4. ASSUME NEW f \in 0 .. order.maxAmount, NEW price \in 0 .. order.auctionPrice,
             PoolSends(f, price)
      PROVE  TypeOK'
  <2>1. order \in OrderType
    BY <1>4 DEF PoolSends, TypeOK
  <2>2. f \in Nat /\ price \in Nat
    BY <2>1 DEF OrderType
  <2>3. f * setup.collateralScale <= order.maxAmount /\ price <= order.auctionPrice
    BY <1>4 DEF PoolSends, Fills
  <2>4. owed' \in Nat
    BY <1>1, <1>4, <2>1, <2>2, <2>3, ChargesBounded DEF PoolSends
  <2> QED
    BY <1>4, <2>2, <2>4 DEF PoolSends, TypeOK, allowances
<1>5. ASSUME NEW used \in 0 .. fill, NEW out \in Outs, Swap(used, out) PROVE TypeOK'
  <2>1. out \in Nat /\ used \in Nat /\ fill - used \in Nat /\ collateral - used \in Nat
    BY <1>5, SMT DEF TypeOK, FillHeld, Swap
  <2> QED
    BY <1>5, <2>1 DEF Swap, TypeOK
<1>6. CASE Check
  BY <1>6 DEF Check, Withdrawn, TypeOK, balances
<1>7. CASE PoolPulls
  <2>1. Pull \in Nat
    BY <1>1, PullIs DEF TypeOK
  <2> QED
    BY <1>7, <2>1 DEF PoolPulls, TypeOK
<1>8. CASE Settle
  BY <1>8 DEF Settle, Over, TypeOK
<1>9. CASE Revert
  BY <1>9 DEF Revert, Over, TypeOK
<1>10. CASE UNCHANGED vars
  BY <1>10 DEF vars, balances, allowances, TypeOK
<1> QED
  BY <1>2, <1>3, <1>4, <1>5, <1>6, <1>7, <1>8, <1>9, <1>10, Steps

\* Each of the other conjuncts is disturbed by few steps.
LEMMA ApprovedStep == TypeOK /\ Approved /\ [Next]_vars => Approved'
<1> SUFFICES ASSUME TypeOK, Approved, [Next]_vars PROVE Approved'
  OBVIOUS
<1> USE DEF Approved, InTake
<1>1. setup \in SetupType /\ (pc # "idle" => order \in OrderType) /\ Orders \subseteq OrderType
  BY TakerAssumption DEF TypeOK
<1>2. CASE \E q, c \in 0 .. MaxStray : Stray(q, c)
  BY <1>2 DEF Stray
<1>3. ASSUME NEW o \in Orders, Begin(o) PROVE Approved'
  BY <1>3 DEF Begin, Approval
<1>4. ASSUME NEW f \in 0 .. order.maxAmount, NEW price \in 0 .. order.auctionPrice,
             PoolSends(f, price)
      PROVE  Approved'
  <2>1. order \in OrderType
    BY <1>1, <1>4 DEF PoolSends
  <2>2. f \in Nat /\ price \in Nat
    BY <2>1 DEF OrderType
  <2>3. f * setup.collateralScale <= order.maxAmount /\ price <= order.auctionPrice
    BY <1>4 DEF PoolSends, Fills
  <2>4. owed' <= CeilDiv(order.maxAmount * order.auctionPrice, Wad)
    BY <1>1, <1>4, <2>1, <2>2, <2>3, ChargesBounded DEF PoolSends
  <2>5. UNCHANGED <<setup, order, toPool>> /\ pc = "take" /\ pc' = "callback"
    BY <1>4 DEF PoolSends, allowances
  <2> QED
    BY <2>4, <2>5 DEF Approval
<1>5. ASSUME NEW used \in 0 .. fill, NEW out \in Outs, Swap(used, out) PROVE Approved'
  BY <1>5 DEF Swap, Approval
<1>6. CASE Check
  BY <1>6 DEF Check, Approval
<1>7. CASE PoolPulls \/ Settle \/ Revert
  BY <1>7 DEF PoolPulls, Settle, Revert, Over
<1>8. CASE UNCHANGED vars
  BY <1>8 DEF vars, allowances, Approval
<1> QED
  BY <1>2, <1>3, <1>4, <1>5, <1>6, <1>7, <1>8, Steps

LEMMA StrayStep == TypeOK /\ StrayUntouched /\ [Next]_vars => StrayUntouched'
<1> SUFFICES ASSUME TypeOK, StrayUntouched, [Next]_vars PROVE StrayUntouched'
  OBVIOUS
<1> USE DEF StrayUntouched
<1>1. CASE \E q, c \in 0 .. MaxStray : Stray(q, c)
  BY <1>1 DEF Stray
<1>2. ASSUME NEW o \in Orders, Begin(o) PROVE StrayUntouched'
  BY <1>2 DEF Begin, balances
<1>3. ASSUME NEW f, NEW price, PoolSends(f, price) PROVE StrayUntouched'
  BY <1>3 DEF PoolSends
<1>4. ASSUME NEW used \in 0 .. fill, NEW out \in Outs, Swap(used, out) PROVE StrayUntouched'
  <2>1. out \in Nat /\ quote \in Nat
    BY TakerAssumption DEF TypeOK
  <2> QED
    BY <1>4, <2>1, SMT DEF Swap
<1>5. CASE Check
  BY <1>5 DEF Check, balances
<1>6. CASE PoolPulls \/ Settle \/ Revert
  BY <1>6 DEF PoolPulls, Settle, Revert, Over
<1>7. CASE UNCHANGED vars
  BY <1>7 DEF vars, balances
<1> QED
  BY <1>1, <1>2, <1>3, <1>4, <1>5, <1>6, <1>7, Steps

LEMMA FillStep == TypeOK /\ FillHeld /\ Filled /\ [Next]_vars => FillHeld' /\ Filled'
<1> SUFFICES ASSUME TypeOK, FillHeld, Filled, [Next]_vars PROVE FillHeld' /\ Filled'
  OBVIOUS
<1> USE DEF FillHeld, Filled
<1>1. CASE \E q, c \in 0 .. MaxStray : Stray(q, c)
  BY <1>1 DEF Stray
<1>2. ASSUME NEW o \in Orders, Begin(o) PROVE FillHeld' /\ Filled'
  BY <1>2 DEF Begin
<1>3. ASSUME NEW f \in 0 .. order.maxAmount, NEW price, PoolSends(f, price)
      PROVE  FillHeld' /\ Filled'
  <2>1. f \in Nat /\ collateral \in Nat
    BY <1>3, TakerAssumption DEF TypeOK, PoolSends, OrderType
  <2> QED
    BY <1>3, <2>1, SMT DEF PoolSends
<1>4. ASSUME NEW used, NEW out, Swap(used, out) PROVE FillHeld' /\ Filled'
  BY <1>4 DEF Swap
<1>5. CASE Check
  BY <1>5 DEF Check
<1>6. CASE PoolPulls \/ Settle \/ Revert
  BY <1>6 DEF PoolPulls, Settle, Revert, Over
<1>7. CASE UNCHANGED vars
  BY <1>7 DEF vars, balances
<1> QED
  BY <1>1, <1>2, <1>3, <1>4, <1>5, <1>6, <1>7, Steps

LEMMA PlanningStep == TypeOK /\ Planning /\ [Next]_vars => Planning'
<1> SUFFICES ASSUME TypeOK, Planning, [Next]_vars PROVE Planning'
  OBVIOUS
<1> USE DEF Planning, InTake, Planned
<1>1. CASE \E q, c \in 0 .. MaxStray : Stray(q, c)
  BY <1>1 DEF Stray
<1>2. ASSUME NEW o \in Orders, Begin(o) PROVE Planning'
  BY <1>2 DEF Begin
<1>3. ASSUME NEW f, NEW price, PoolSends(f, price) PROVE Planning'
  BY <1>3 DEF PoolSends
<1>4. ASSUME NEW used, NEW out, Swap(used, out) PROVE Planning'
  BY <1>4 DEF Swap
<1>5. CASE Check
  BY <1>5 DEF Check
<1>6. CASE PoolPulls \/ Settle \/ Revert
  BY <1>6 DEF PoolPulls, Settle, Revert, Over
<1>7. CASE UNCHANGED vars
  BY <1>7 DEF vars
<1> QED
  BY <1>1, <1>2, <1>3, <1>4, <1>5, <1>6, <1>7, Steps

LEMMA CheckedStep == CheckedOut /\ [Next]_vars => CheckedOut'
<1> SUFFICES ASSUME CheckedOut, [Next]_vars PROVE CheckedOut'
  OBVIOUS
<1> USE DEF CheckedOut
<1>1. CASE \E q, c \in 0 .. MaxStray : Stray(q, c)
  BY <1>1 DEF Stray
<1>2. ASSUME NEW o \in Orders, Begin(o) PROVE CheckedOut'
  BY <1>2 DEF Begin
<1>3. ASSUME NEW f, NEW price, PoolSends(f, price) PROVE CheckedOut'
  BY <1>3 DEF PoolSends
<1>4. ASSUME NEW used, NEW out, Swap(used, out) PROVE CheckedOut'
  BY <1>4 DEF Swap
<1>5. CASE Check
  BY <1>5 DEF Check, balances, Received, MinimumOut, Scaled, ScaledUp, Planned, Due, Reported
<1>6. CASE PoolPulls \/ Settle \/ Revert
  BY <1>6 DEF PoolPulls, Settle, Revert, Over
<1>7. CASE UNCHANGED vars
  BY <1>7 DEF vars, balances, Received, MinimumOut, Scaled, ScaledUp, Planned, Due, Reported
<1> QED
  BY <1>1, <1>2, <1>3, <1>4, <1>5, <1>6, <1>7, Steps

LEMMA ClosedStep == Closed /\ [Next]_vars => Closed'
<1> SUFFICES ASSUME Closed, [Next]_vars PROVE Closed'
  OBVIOUS
<1> USE DEF Closed
<1>1. CASE \E q, c \in 0 .. MaxStray : Stray(q, c)
  BY <1>1 DEF Stray, allowances
<1>2. ASSUME NEW o \in Orders, Begin(o) PROVE Closed'
  BY <1>2 DEF Begin
<1>3. ASSUME NEW f, NEW price, PoolSends(f, price) PROVE Closed'
  BY <1>3 DEF PoolSends, allowances
<1>4. ASSUME NEW used, NEW out, Swap(used, out) PROVE Closed'
  BY <1>4 DEF Swap
<1>5. CASE Check
  BY <1>5 DEF Check, Withdrawn
<1>6. CASE PoolPulls
  BY <1>6 DEF PoolPulls
<1>7. CASE Settle
  BY <1>7 DEF Settle, Over
<1>8. CASE Revert
  BY <1>8 DEF Revert, Over
<1>9. CASE UNCHANGED vars
  BY <1>9 DEF vars, allowances
<1> QED
  BY <1>1, <1>2, <1>3, <1>4, <1>5, <1>6, <1>7, <1>8, <1>9, Steps

LEMMA Invariance == Spec => []IInv
<1>1. IInv /\ [Next]_vars => IInv'
  BY TypeStep, ApprovedStep, StrayStep, FillStep, PlanningStep, CheckedStep, ClosedStep DEF IInv
<1> QED
  BY <1>1, InitInv, PTL DEF Spec

-----------------------------------------------------------------------------
\* Theorems.

\* The taker's balances, allowances and amounts stay natural numbers: no check of the callback
\* and no pull of the pool is made with more than there is.
THEOREM TypeCorrect == Spec => []TypeOK
<1>1. IInv => TypeOK
  BY DEF IInv
<1> QED
  BY <1>1, Invariance, PTL

\* What passes the callback's check repays the pool, from the swap's proceeds and within the
\* allowance, whatever the scales, the amounts and the way in which the pool rounds.
THEOREM RepaysThePool == Spec => []PullCovered
<1>1. IInv => PullCovered
  <2> SUFFICES ASSUME IInv, pc = "pull" PROVE toPool >= Pull /\ quote - stray.quote >= Pull
    BY DEF PullCovered
  <2>1. /\ setup \in SetupType /\ order \in OrderType /\ owed \in Nat
        /\ quote \in Nat /\ quoteBefore \in Nat
    BY TakerAssumption DEF IInv, TypeOK
  <2>2. Pull \in Nat /\ Due \in Nat /\ Pull <= Due
    BY <2>1, PullIs
  <2>3. quoteBefore = stray.quote /\ Received >= Due
    BY DEF IInv, StrayUntouched, CheckedOut
  <2>4. quote - stray.quote >= Pull
    BY <2>1, <2>2, <2>3, SMT DEF Received
  <2> DEFINE cost == CeilDiv(order.maxAmount * order.auctionPrice, Wad)
  <2>5. /\ toPool = CeilDiv(cost, setup.quoteScale) /\ cost \in Nat
        /\ toPool \in Nat /\ owed <= cost
    BY <2>1, ApprovalIs DEF IInv, Approved, InTake
  <2> HIDE DEF cost
  <2>6. CeilDiv(owed, setup.quoteScale) <= CeilDiv(cost, setup.quoteScale)
    BY <2>1, <2>5, CeilDivGrows DEF SetupType
  <2> QED
    BY <2>2, <2>4, <2>5, <2>6, SMT DEF Pull
<1> QED
  BY <1>1, Invariance, PTL

\* A fill of any size was sold at no less per unit than quoted for the full size.
THEOREM SoldAtTheFloor == Spec => []UnitFloorKept
<1>1. IInv => UnitFloorKept
  <2> SUFFICES ASSUME IInv, pc = "pull" PROVE UnitFloorKept
    BY DEF UnitFloorKept
  <2>1. /\ setup \in SetupType /\ order \in OrderType /\ fill \in Nat
        /\ quote \in Nat /\ quoteBefore \in Nat /\ quoteBefore <= quote
    BY TakerAssumption DEF IInv, TypeOK, StrayUntouched
  <2>2. Received >= MinimumOut /\ Received \in Nat
    BY <2>1, SMT DEF IInv, CheckedOut, Received
  <2>3. CASE setup.exact
    BY <2>2, <2>3 DEF IInv, Filled, MinimumOut, UnitFloorKept
  <2>4. CASE ~setup.exact
    <3>1. /\ order.maxAmount \in Nat /\ order.amountOutMinimum \in Nat
          /\ setup.collateralScale \in Nat \ {0}
      BY <2>1 DEF OrderType, SetupType
    <3>2. Planned \in Nat \ {0}
      <4>1. Planned \in Nat
        BY <3>1, FloorDivIs DEF Planned
      <4>2. Planned > 0
        BY <2>4 DEF IInv, Planning, InTake
      <4> QED
        BY <4>1, <4>2, SMT
    <3> DEFINE floor == order.amountOutMinimum * fill
    <3>3. floor \in Nat
      BY <2>1, <3>1, SMT
    <3>4. MinimumOut = CeilDiv(floor, Planned)
      BY <2>4 DEF MinimumOut, Scaled, ScaledUp
    <3> HIDE DEF floor
    <3>5. MinimumOut \in Nat /\ floor <= MinimumOut * Planned
      BY <3>2, <3>3, <3>4, CeilDivIs
    <3>6. MinimumOut * Planned <= Received * Planned /\ MinimumOut * Planned \in Nat
          /\ Received * Planned \in Nat
      BY <2>2, <3>2, <3>5, ProductGrows, SMT
    <3>7. floor <= Received * Planned
      BY <3>3, <3>5, <3>6, SMT
    <3> QED
      BY <2>4, <3>3, <3>6, <3>7, SMT DEF UnitFloorKept, floor
  <2> QED
    BY <2>3, <2>4
<1> QED
  BY <1>1, Invariance, PTL

\* Between transactions no allowance and no callback binding of a taker is left.
THEOREM LeavesNothingOpen == Spec => []NothingLeftOpen
<1>1. IInv => NothingLeftOpen
  BY DEF IInv, Closed, NothingLeftOpen
<1> QED
  BY <1>1, Invariance, PTL

-----------------------------------------------------------------------------
\* A route and its transaction (RouteTake): each transaction is a take of TakerTake.

UnderWay == {"asking", "queued", "estimated", "populated", "sent"}

\* What a plan holds until it is forgotten.
PlanOK ==
  stage # "idle" =>
    /\ plan.min \in Mins
    /\ \E a \in Auctions : plan.size \in 0 .. a.coll

\* A transaction runs for a take that was sent, which waits for it.
TakeIsSent == pc # "idle" => stage = "sent"

RouteTypes == setup \in Setups /\ auction \in Auctions /\ PlanOK /\ TakeIsSent

LEMMA SizeIs ==
  ASSUME NEW a \in AuctionType
  PROVE  Size(a) \in 0 .. a.coll
<1>1. a.coll \in Nat /\ a.price \in Nat \ {0} /\ a.debt \in Nat /\ Wad \in Nat
  BY TakerAssumption DEF AuctionType
<1>2. a.debt * Wad \in Nat
  BY <1>1, SMT
<1>3. FloorDiv(a.debt * Wad, a.price) \in Nat
  BY <1>1, <1>2, FloorDivIs
<1> QED
  BY <1>1, <1>3, SMT DEF Size, LeastOf

\* An order that the contract admits is one that TakerTake considers.
LEMMA OrderIs ==
  ASSUME RouteTypes, stage # "idle", Admits(Order)
  PROVE  Order \in Orders
<1> DEFINE n == IF setup.exact THEN plan.size ELSE auction.coll
<1>1. Order = [maxAmount |-> n, auctionPrice |-> auction.price,
               amountOutMinimum |-> plan.min, amountIn |-> FloorDiv(n, setup.collateralScale)]
  BY DEF Order, InTokens
<1>2. FloorDiv(n, setup.collateralScale) > 0
  BY <1>1 DEF Admits
<1>3. PICK a \in Auctions : n \in 0 .. a.coll
  <2>1. auction \in Auctions /\ auction.coll \in 0 .. auction.coll
    BY RouteAssumption, SMT DEF RouteTypes, AuctionType
  <2> QED
    BY <2>1 DEF RouteTypes, PlanOK
<1>4. setup \in Setups /\ auction \in Auctions /\ plan.min \in Mins
  BY DEF RouteTypes, PlanOK
<1> HIDE DEF n
<1> QED
  BY <1>1, <1>2, <1>3, <1>4, RouteAssumption

LEMMA FloorsAreMins == ASSUME NEW n, NEW price PROVE Floors(n, price) \subseteq Mins
BY DEF Floors, AggregatorFloors, Covering

\* The named steps of a route, those of the keeper apart from those of the transaction.
KeeperStep ==
  \/ OwnerCall \/ Preflight
  \/ Approve \/ AuctionMoves \/ Skip \/ Reapprove \/ DryRun
  \/ Reject \/ Prepare \/ RejectDirect \/ PrepareDirect
  \/ QuoteFails \/ QuoteArrives \/ Tick \/ Stale \/ Estimate \/ StepFails \/ Populate
  \/ Submit \/ NextCycle
  \/ \E consumed \in BOOLEAN : TransportThrows(consumed) \/ WaitFails(consumed)

TakerStep == Land \/ Settled \/ Reverted \/ Within

LEMMA KeeperLeavesTaker == KeeperStep => UNCHANGED vars
BY DEF KeeperStep, OwnerCall, Preflight, Approve, AuctionMoves, Skip, Reapprove, DryRun, Reject,
   Prepare, RejectDirect, Rejected, PrepareDirect, QuoteFails, QuoteArrives, Tick, Stale, Estimate,
   StepFails, Populate, Submit, NextCycle, TransportThrows, WaitFails

LEMMA TakerIsTaken == RouteTypes /\ TakerStep => Next
<1> SUFFICES ASSUME RouteTypes, TakerStep PROVE Next
  OBVIOUS
<1>1. CASE Land
  <2>1. Order \in Orders /\ Begin(Order)
    BY <1>1, OrderIs DEF Land
  <2> QED
    BY <2>1 DEF Next
<1>2. CASE Settled
  BY <1>2 DEF Settled, Next
<1>3. CASE Reverted
  BY <1>3 DEF Reverted, Next
<1>4. CASE Within
  BY <1>4 DEF Within, Next
<1> QED
  BY <1>1, <1>2, <1>3, <1>4 DEF TakerStep

LEMMA TakerKeepsSetup == Next => setup' = setup
BY DEF Next, Stray, Begin, PoolSends, Swap, Check, PoolPulls, Settle, Revert

LEMMA RouteSteps == RouteNext <=> KeeperStep \/ TakerStep
BY DEF RouteNext, KeeperStep, TakerStep

LEMMA TakeIsSentStep == TakeIsSent /\ [RouteNext]_routeVars => TakeIsSent'
<1> SUFFICES ASSUME TakeIsSent, [RouteNext]_routeVars PROVE TakeIsSent'
  OBVIOUS
<1> USE DEF TakeIsSent
<1>1. CASE KeeperStep
  <2>1. pc' = pc
    BY <1>1, KeeperLeavesTaker DEF vars
  <2>2. stage' = stage \/ stage # "sent" \/ pc = "idle"
    BY <1>1 DEF KeeperStep, OwnerCall, Preflight, Approve, AuctionMoves, Skip, Reapprove, DryRun,
       Reject, Prepare, RejectDirect, Rejected, PrepareDirect, QuoteFails, QuoteArrives, Tick, Stale,
       Estimate, StepFails, Populate, Submit, NextCycle, TransportThrows, WaitFails
  <2> QED
    BY <2>1, <2>2
<1>2. CASE Land
  BY <1>2 DEF Land
<1>3. CASE Settled \/ Reverted
  BY <1>3 DEF Settled, Settle, Reverted, Revert, Over
<1>4. CASE Within
  <2>1. stage' = stage
    BY <1>4 DEF Within
  <2>2. stage = "sent" \/ pc # "idle"
    BY <1>4 DEF Within, PoolSends, Swap, Check, PoolPulls
  <2> QED
    BY <2>1, <2>2
<1>5. CASE UNCHANGED routeVars
  BY <1>5 DEF routeVars, vars
<1> QED
  BY <1>1, <1>2, <1>3, <1>4, <1>5, RouteSteps DEF TakerStep

LEMMA RouteTypesStep == RouteTypes /\ [RouteNext]_routeVars => RouteTypes'
<1> SUFFICES ASSUME RouteTypes, [RouteNext]_routeVars PROVE RouteTypes'
  OBVIOUS
<1> USE DEF RouteTypes, PlanOK
<1>1. setup' = setup
  BY KeeperLeavesTaker, TakerIsTaken, TakerKeepsSetup, RouteSteps DEF routeVars, vars
<1>2. TakeIsSent'
  BY TakeIsSentStep
<1>3. CASE Approve
  <2>1. auction \in AuctionType /\ auction \in Auctions
    BY RouteAssumption
  <2>2. PICK m \in Floors(Size(auction), auction.price) :
          plan' = [size |-> Size(auction), price |-> auction.price, min |-> m]
    BY <1>3 DEF Approve
  <2>3. m \in Mins
    BY <2>2, FloorsAreMins
  <2>4. Size(auction) \in 0 .. auction.coll
    BY <2>1, SizeIs
  <2>5. plan'.size = Size(auction) /\ plan'.min = m /\ auction' = auction
    BY <1>3, <2>2 DEF Approve
  <2> QED
    BY <1>1, <1>2, <2>1, <2>3, <2>4, <2>5
<1>4. CASE NextCycle
  BY <1>1, <1>2, <1>4 DEF NextCycle
<1>5. CASE Reapprove
  <2>1. plan'.size = plan.size /\ plan'.min = plan.min
    BY <1>5 DEF Reapprove
  <2> QED
    BY <1>1, <1>2, <1>5, <2>1 DEF Reapprove
<1>6. ASSUME KeeperStep, ~Approve, ~Reapprove, ~NextCycle PROVE RouteTypes'
  <2>1. plan' = plan /\ (stage # "idle" \/ stage' = stage)
    BY <1>6 DEF KeeperStep, OwnerCall, Preflight, AuctionMoves, Skip, DryRun, Reject, Prepare,
       RejectDirect, Rejected, PrepareDirect, QuoteFails, QuoteArrives, Tick, Stale, Estimate,
       StepFails, Populate, Submit, TransportThrows, WaitFails, keeper, chain
  <2>2. auction' \in Auctions
    BY <1>6 DEF KeeperStep, OwnerCall, Preflight, AuctionMoves, Skip, DryRun, Reject, Prepare,
       RejectDirect, Rejected, PrepareDirect, QuoteFails, QuoteArrives, Tick, Stale, Estimate,
       StepFails, Populate, Submit, TransportThrows, WaitFails, keeper, chain
  <2> QED
    BY <1>1, <1>2, <2>1, <2>2
<1>7. CASE TakerStep
  <2>1. plan' = plan /\ auction' = auction
    BY <1>7 DEF TakerStep, Land, Settled, Reverted, Within, keeper
  <2>2. stage # "idle" \/ stage' = stage
    BY <1>7 DEF TakerStep, Land, Settled, Settle, Reverted, Revert, Within, TakeIsSent
  <2> QED
    BY <1>1, <1>2, <2>1, <2>2
<1>8. CASE UNCHANGED routeVars
  BY <1>2, <1>8 DEF routeVars, keeper, chain, vars
<1> QED
  BY <1>3, <1>4, <1>5, <1>6, <1>7, <1>8, RouteSteps

LEMMA RouteTypesHold == RouteSpec => []RouteTypes
<1>1. RouteInit => RouteTypes
  BY DEF RouteInit, Init, RouteTypes, PlanOK, TakeIsSent
<1> QED
  BY <1>1, RouteTypesStep, PTL DEF RouteSpec

-----------------------------------------------------------------------------
\* What is known of a route at each stage.

FileOK ==
  /\ file \in FileType /\ PolicyOk(file.policy)
  /\ setup.exact <=> file.provider # "direct"
  /\ lists \in ListsType

LEMMA FileOKStep == FileOK /\ setup' = setup /\ [RouteNext]_routeVars => FileOK'
<1> SUFFICES ASSUME FileOK, setup' = setup, [RouteNext]_routeVars PROVE FileOK'
  OBVIOUS
<1> USE DEF FileOK
<1>1. CASE OwnerCall
  <2>1. file' = file
    BY <1>1 DEF OwnerCall
  <2>2. CASE lists' = lists
    BY <2>1, <2>2
  <2>3. ASSUME NEW e \in OwnersEntries, NEW flag \in BOOLEAN, SetAllowed(e, flag)
        PROVE  lists' \in ListsType
    <3>1. e \in Entries
      BY RouteAssumption
    <3>2. lists.known \cup {e} \subseteq Entries
      BY <3>1 DEF ListsType
    <3>3. (IF flag THEN lists.allowed \cup {e} ELSE lists.allowed \ {e}) \subseteq Entries
      BY <3>1 DEF ListsType
    <3> QED
      BY <2>3, <3>2, <3>3 DEF SetAllowed, ListsType
  <2>4. lists' \in ListsType
    BY <1>1, <2>2, <2>3 DEF OwnerCall
  <2> QED
    BY <2>1, <2>4
<1>2. ASSUME KeeperStep, ~OwnerCall PROVE UNCHANGED <<file, lists>>
  BY <1>2 DEF KeeperStep, Preflight, Approve, AuctionMoves, Skip, Reapprove, DryRun, Reject,
     Prepare, RejectDirect, Rejected, PrepareDirect, QuoteFails, QuoteArrives, Tick, Stale, Estimate,
     StepFails, Populate, Submit, NextCycle, TransportThrows, WaitFails, chain, contract
<1>3. CASE TakerStep
  BY <1>3 DEF TakerStep, Land, Settled, Reverted, Within, chain, contract
<1>4. CASE UNCHANGED routeVars
  BY <1>4 DEF routeVars, chain, contract
<1> QED
  BY <1>1, <1>2, <1>3, <1>4, RouteSteps

\* The plan covers what it costs, and once the take is under way it is for what the pool offers.
PlanCovers ==
  /\ stage \in UnderWay \cup {"planned"} =>
       /\ InTokens(plan.size) > 0
       /\ plan.price \in Nat /\ plan.min >= DueFor(plan.size, plan.price)
  /\ stage \in UnderWay =>
       /\ plan.size = Size(auction)
       /\ setup.exact => plan.price = auction.price
       /\ ~setup.exact => plan.min >= DueFor(auction.coll, auction.price)

LEMMA DueForIs ==
  ASSUME setup \in Setups, NEW size \in Nat, NEW price \in Nat
  PROVE  /\ DueFor(size, price) \in Nat
         /\ \A low \in Nat : low <= price => DueFor(size, low) <= DueFor(size, price)
<1>1. Wad \in Nat \ {0} /\ setup.quoteScale \in Nat \ {0}
  BY TakerAssumption DEF SetupType
<1>2. size * price \in Nat /\ CeilDiv(size * price, Wad) \in Nat
  BY <1>1, CeilDivIs, SMT
<1>3. ASSUME NEW low \in Nat, low <= price
      PROVE  DueFor(size, low) <= DueFor(size, price)
  <2>1. size * low \in Nat /\ size * low <= size * price
    BY <1>3, ProductGrows
  <2>2. CeilDiv(size * low, Wad) \in Nat /\ CeilDiv(size * low, Wad) <= CeilDiv(size * price, Wad)
    BY <1>1, <1>2, <2>1, CeilDivIs, CeilDivGrows
  <2> QED
    BY <1>1, <1>2, <2>2, CeilDivGrows DEF DueFor
<1> QED
  BY <1>1, <1>2, <1>3, CeilDivIs DEF DueFor

LEMMA FloorsCover ==
  ASSUME NEW n, NEW price, NEW m \in Floors(n, price)
  PROVE  m >= DueFor(n, price) /\ InTokens(n) # 0
BY DEF Floors, AggregatorFloors, Covering

LEMMA PlanSizes ==
  ASSUME RouteTypes, stage # "idle"
  PROVE  plan.size \in Nat /\ plan.min \in Nat \ {0} /\ auction \in AuctionType
<1>1. PICK a \in Auctions : plan.size \in 0 .. a.coll
  BY DEF RouteTypes, PlanOK
<1>2. a.coll \in Nat
  BY RouteAssumption DEF AuctionType
<1>3. plan.size \in Nat
  BY <1>1, <1>2, SMT
<1>4. plan.min \in Mins /\ auction \in Auctions
  BY DEF RouteTypes, PlanOK
<1> QED
  BY <1>3, <1>4, RouteAssumption

LEMMA PlanCoversStep == RouteTypes /\ PlanCovers /\ [RouteNext]_routeVars => PlanCovers'
<1> SUFFICES ASSUME RouteTypes, PlanCovers, [RouteNext]_routeVars PROVE PlanCovers'
  OBVIOUS
<1> USE DEF PlanCovers, UnderWay
<1>1. setup' = setup /\ setup \in Setups
  BY KeeperLeavesTaker, TakerIsTaken, TakerKeepsSetup, RouteSteps DEF routeVars, vars, RouteTypes
<1>2. CASE Approve
  <2>1. PICK m \in Floors(Size(auction), auction.price) :
          plan' = [size |-> Size(auction), price |-> auction.price, min |-> m]
    BY <1>2 DEF Approve
  <2>2. auction \in AuctionType
    BY RouteAssumption DEF RouteTypes
  <2>3. Size(auction) \in Nat /\ auction.price \in Nat
    BY <2>2, SizeIs DEF AuctionType
  <2>4. m >= DueFor(Size(auction), auction.price) /\ InTokens(Size(auction)) # 0
    BY FloorsCover
  <2>5. InTokens(Size(auction)) \in Nat
    BY <1>1, <2>3, FloorDivIs, TakerAssumption DEF InTokens, SetupType
  <2>6. InTokens(Size(auction)) > 0
    BY <2>4, <2>5, SMT
  <2>7. stage' = "planned" /\ plan'.size = Size(auction) /\ plan'.price = auction.price /\ plan'.min = m
    BY <1>2, <2>1 DEF Approve, Goes
  <2>8. InTokens(plan.size)' = InTokens(Size(auction))
        /\ DueFor(plan.size, plan.price)' = DueFor(Size(auction), auction.price)
    BY <1>1, <2>7 DEF InTokens, DueFor
  <2> QED
    BY <2>3, <2>4, <2>6, <2>7, <2>8
<1>3. CASE Reapprove
  <2>1. /\ plan'.size = plan.size /\ plan'.min = plan.min /\ plan'.price = auction.price
        /\ stage = "planned" /\ stage' = "planned" /\ auction.price <= plan.price
    BY <1>3 DEF Reapprove, StillFits
  <2>2. plan.size \in Nat /\ plan.min \in Nat /\ auction.price \in Nat
    BY <2>1, PlanSizes DEF AuctionType
  <2>3. /\ DueFor(plan.size, auction.price) <= DueFor(plan.size, plan.price)
        /\ DueFor(plan.size, auction.price) \in Nat /\ DueFor(plan.size, plan.price) \in Nat
    BY <1>1, <2>1, <2>2, DueForIs
  <2>4. plan.min >= DueFor(plan.size, auction.price)
    BY <2>1, <2>2, <2>3, SMT
  <2>5. InTokens(plan.size)' = InTokens(plan.size)
        /\ DueFor(plan.size, plan.price)' = DueFor(plan.size, auction.price)
    BY <1>1, <2>1 DEF InTokens, DueFor
  <2> QED
    BY <2>1, <2>2, <2>4, <2>5
<1>4. CASE Prepare
  BY <1>1, <1>4 DEF Prepare, Mismatched, Goes, InTokens, DueFor, Size, LeastOf
<1>5. CASE PrepareDirect
  BY <1>1, <1>5 DEF PrepareDirect, Repays, StillFits, Goes, InTokens, DueFor, Size, LeastOf
<1>6. CASE AuctionMoves
  BY <1>1, <1>6 DEF AuctionMoves, keeper, InTokens, DueFor
<1>7. CASE NextCycle
  BY <1>7 DEF NextCycle
<1>8. ASSUME KeeperStep, ~Approve, ~Reapprove, ~Prepare, ~PrepareDirect, ~AuctionMoves, ~NextCycle
      PROVE  PlanCovers'
  <2>1. plan' = plan /\ auction' = auction
    BY <1>8 DEF KeeperStep, OwnerCall, Preflight, Skip, DryRun, Reject, RejectDirect, Rejected,
       QuoteFails, QuoteArrives, Tick, Stale, Estimate, StepFails, Populate, Submit,
       TransportThrows, WaitFails, keeper
  <2>2. stage' = stage \/ stage' = "over" \/ {stage, stage'} \subseteq UnderWay
    BY <1>8 DEF KeeperStep, OwnerCall, Preflight, Skip, DryRun, Reject, RejectDirect, Rejected,
       QuoteFails, QuoteArrives, Tick, Stale, Estimate, StepFails, Populate, Submit,
       TransportThrows, WaitFails, Goes, Failed
  <2> QED
    BY <1>1, <2>1, <2>2 DEF InTokens, DueFor, Size, LeastOf
<1>9. CASE TakerStep
  <2>1. plan' = plan /\ auction' = auction /\ (stage' = stage \/ stage' = "over")
    BY <1>9 DEF TakerStep, Land, Settled, Reverted, Within, keeper, Goes, Failed
  <2> QED
    BY <1>1, <2>1 DEF InTokens, DueFor, Size, LeastOf
<1>10. CASE UNCHANGED routeVars
  BY <1>1, <1>10 DEF routeVars, keeper, InTokens, DueFor, Size, LeastOf
<1> QED
  BY <1>2, <1>3, <1>4, <1>5, <1>6, <1>7, <1>8, <1>9, <1>10, RouteSteps

-----------------------------------------------------------------------------
\* The quotes that a provider's answers may yield.

\* The calldata of an answer has the fields of a swap, whatever they say.
LEMMA MisledIs ==
  ASSUME NEW amount, NEW min, NEW c \in Misled(Asked(amount, min)) \cup {Asked(amount, min)}
  PROVE  c = [sells |-> c.sells, buys |-> c.buys, payee |-> c.payee, amount |-> c.amount,
              min |-> c.min]
BY DEF Misled, Asked

LEMMA OneInchFitsRequest ==
  ASSUME NEW amount, NEW out, NEW min, NEW a \in OneInchAnswers(amount, out, min),
         OneInchAccepted(a, amount)
  PROVE  LET q == OneInchQuote(a)
         IN /\ q.call = Asked(amount, q.min) /\ q.call.min = q.min
            /\ q.target = Router /\ q.spender = Router /\ q.selector = "swap"
<1>1. a.call \in Misled(Asked(amount, min)) \cup {Asked(amount, min)}
  <2> DEFINE g == OneInchGood(amount, out, min)
  <2>1. \/ \E c \in Misled(g.call) : a = [g EXCEPT !.call = c]
        \/ a = [g EXCEPT !.executor = "stranger", !.into = "stranger"]
        \/ a \in OneInchAnswers(amount, out, min) /\ a.call = g.call
    BY DEF OneInchAnswers, OneInchGood
  <2>2. g.call = Asked(amount, min)
    BY DEF OneInchGood
  <2>3. ASSUME NEW c \in Misled(g.call)
        PROVE  [g EXCEPT !.call = c].call = c
    BY DEF OneInchGood
  <2>4. [g EXCEPT !.executor = "stranger", !.into = "stranger"].call = g.call
    BY DEF OneInchGood
  <2> QED BY <2>1, <2>2, <2>3, <2>4
<1>2. a.call = Asked(amount, a.call.min)
  <2>1. a.call = [sells |-> a.call.sells, buys |-> a.call.buys, payee |-> a.call.payee,
                  amount |-> a.call.amount, min |-> a.call.min]
    BY <1>1, MisledIs
  <2> QED
    BY <2>1 DEF OneInchAccepted, OneInchFits, Asked
<1> QED
  BY <1>2 DEF OneInchQuote, OneInchAccepted, OneInchTransaction

LEMMA SushiFitsRequest ==
  ASSUME NEW amount, NEW a, NEW policy, SushiAccepted(a, amount, policy)
  PROVE  LET q == SushiQuote(a)
         IN /\ q.call = Asked(amount, q.min) /\ q.call.min = q.min
            /\ q.target \in policy.targets /\ q.spender \in policy.spenders
            /\ <<q.target, q.selector>> \in policy.selectors
BY DEF SushiAccepted, SushiCallFits, SushiQuote

LEMMA LifiFitsPolicy ==
  ASSUME NEW amount, NEW a, NEW policy, LifiAccepted(a, amount, policy)
  PROVE  LET q == LifiQuote(a)
         IN /\ q.target \in policy.targets /\ q.spender \in policy.spenders
            /\ <<q.target, q.selector>> \in policy.selectors
BY DEF LifiAccepted, LifiQuote

\* What a quote of the configured provider is known to be.
LEMMA QuotesFit ==
  ASSUME FileOK, setup.exact, NEW n, NEW q \in QuotesFor(n)
  PROVE  /\ file.provider # "lifi" => q.call = Asked(InTokens(n), q.min) /\ q.call.min = q.min
         /\ file.provider = "oneinch" => q.target = Router /\ q.spender = Router /\ q.selector = "swap"
         /\ file.provider # "oneinch" =>
              /\ q.target \in file.policy.targets /\ q.spender \in file.policy.spenders
              /\ <<q.target, q.selector>> \in file.policy.selectors
<1>1. PICK out \in Mins, min \in Mins : q \in Quotes(file.provider, file.policy, InTokens(n), out, min)
  BY DEF QuotesFor
<1>2. file.provider \in {"oneinch", "sushi", "lifi"}
  BY DEF FileOK, FileType, Providers
<1>3. CASE file.provider = "oneinch"
  <2>1. PICK a \in OneInchAnswers(InTokens(n), out, min) :
          OneInchAccepted(a, InTokens(n)) /\ q = OneInchQuote(a)
    BY <1>1, <1>3 DEF Quotes
  <2> QED
    BY <1>3, <2>1, OneInchFitsRequest
<1>4. CASE file.provider = "sushi"
  <2>1. PICK a \in SushiAnswers(InTokens(n), out, min) :
          SushiAccepted(a, InTokens(n), file.policy) /\ q = SushiQuote(a)
    BY <1>1, <1>4 DEF Quotes
  <2> QED
    BY <1>4, <2>1, SushiFitsRequest
<1>5. CASE file.provider = "lifi"
  <2>1. PICK a \in LifiAnswers(InTokens(n), out, min) :
          LifiAccepted(a, InTokens(n), file.policy) /\ q = LifiQuote(a)
    BY <1>1, <1>5 DEF Quotes
  <2> QED
    BY <1>5, <2>1, LifiFitsPolicy
<1> QED
  BY <1>2, <1>3, <1>4, <1>5

-----------------------------------------------------------------------------
\* The quote, the contract and what was told at each stage.

Routed == {"queued", "estimated", "populated", "sent"}

\* The quote that is executed is for the plan.
FreshFits ==
  stage \in Routed /\ setup.exact =>
    /\ fresh \in QuotesFor(plan.size) /\ ClearsFloor(fresh)
    /\ stage = "sent" => age <= MaxAge

LEMMA FreshFitsStep == RouteTypes /\ FreshFits /\ [RouteNext]_routeVars => FreshFits'
<1> SUFFICES ASSUME RouteTypes, FreshFits, [RouteNext]_routeVars PROVE FreshFits'
  OBVIOUS
<1> USE DEF FreshFits, Routed
<1>1. setup' = setup
  BY KeeperLeavesTaker, TakerIsTaken, TakerKeepsSetup, RouteSteps DEF routeVars, vars
<1>2. CASE QuoteArrives
  <2>1. file' = file /\ plan' = plan /\ stage' = "queued"
    BY <1>2 DEF QuoteArrives, chain, Goes
  <2>2. fresh' \in QuotesFor(plan.size) /\ ClearsFloor(fresh)'
    BY <1>2, <2>1 DEF QuoteArrives, ClearsFloor
  <2>3. QuotesFor(plan.size)' = QuotesFor(plan.size)
    BY <1>1, <2>1 DEF QuotesFor, InTokens
  <2> QED
    BY <2>1, <2>2, <2>3
<1>3. CASE Approve \/ Reapprove \/ NextCycle \/ Prepare
  BY <1>3 DEF Approve, Reapprove, NextCycle, Prepare, Goes
<1>4. CASE PrepareDirect
  BY <1>1, <1>4 DEF PrepareDirect
<1>5. ASSUME KeeperStep, ~QuoteArrives, ~Approve, ~Reapprove, ~NextCycle, ~Prepare, ~PrepareDirect
      PROVE  FreshFits'
  <2>1. file' = file /\ plan' = plan /\ fresh' = fresh
    BY <1>5 DEF KeeperStep, OwnerCall, Preflight, AuctionMoves, Skip, DryRun, Reject, RejectDirect,
       Rejected, QuoteFails, Tick, Stale, Estimate, StepFails, Populate, Submit, TransportThrows,
       WaitFails, keeper, chain
  <2>2. \/ stage' \in {"over", "planned", "idle", "asking"}
        \/ stage' = stage /\ (age' = age \/ stage # "sent")
        \/ stage \in Routed /\ stage' \in Routed \ {"sent"}
        \/ stage = "populated" /\ stage' = "sent" /\ age' = age /\ age <= MaxAge
    BY <1>5 DEF KeeperStep, OwnerCall, Preflight, AuctionMoves, Skip, DryRun, Reject, RejectDirect,
       Rejected, QuoteFails, Tick, Stale, Estimate, StepFails, Populate, Submit, TransportThrows,
       WaitFails, Goes, Failed, keeper
  <2>3. QuotesFor(plan.size)' = QuotesFor(plan.size) /\ ClearsFloor(fresh)' = ClearsFloor(fresh)
    BY <1>1, <2>1 DEF QuotesFor, InTokens, ClearsFloor
  <2> QED
    BY <1>1, <2>1, <2>2, <2>3
<1>6. CASE TakerStep \/ UNCHANGED routeVars
  <2>1. /\ file' = file /\ plan' = plan /\ fresh' = fresh /\ age' = age
        /\ stage' = stage \/ stage' = "over"
    BY <1>6 DEF TakerStep, Land, Settled, Reverted, Within, keeper, chain, routeVars, Goes, Failed
  <2>2. QuotesFor(plan.size)' = QuotesFor(plan.size) /\ ClearsFloor(fresh)' = ClearsFloor(fresh)
    BY <1>1, <2>1 DEF QuotesFor, InTokens, ClearsFloor
  <2> QED
    BY <1>1, <2>1, <2>2
<1> QED
  BY <1>2, <1>3, <1>4, <1>5, <1>6, RouteSteps

\* The contract is as the preflight found it.
Trusted ==
  trust = "checked" =>
    registered = "configured" /\ (setup.exact => Reconciled) /\ RouterMaySpend

LEMMA TrustedStep == RouteTypes /\ Trusted /\ [RouteNext]_routeVars => Trusted'
<1> SUFFICES ASSUME RouteTypes, Trusted, [RouteNext]_routeVars PROVE Trusted'
  OBVIOUS
<1> USE DEF Trusted
<1>1. setup' = setup
  BY KeeperLeavesTaker, TakerIsTaken, TakerKeepsSetup, RouteSteps DEF routeVars, vars
<1>2. ASSUME UNCHANGED <<file, lists>>
      PROVE  Reconciled' = Reconciled /\ RouterMaySpend' = RouterMaySpend
  BY <1>2 DEF Reconciled, GetAllowed, RouterMaySpend
<1>3. CASE OwnerCall
  BY <1>3 DEF OwnerCall
<1>4. CASE Preflight
  BY <1>1, <1>2, <1>4 DEF Preflight, contract
<1>5. ASSUME KeeperStep, ~OwnerCall, ~Preflight PROVE UNCHANGED <<trust, registered, file, lists>>
  BY <1>5 DEF KeeperStep, Approve, AuctionMoves, Skip, Reapprove, DryRun, Reject,
     Prepare, RejectDirect, Rejected, PrepareDirect, QuoteFails, QuoteArrives, Tick, Stale, Estimate,
     StepFails, Populate, Submit, NextCycle, TransportThrows, WaitFails, chain, contract
<1>6. CASE TakerStep \/ UNCHANGED routeVars
  <2>1. UNCHANGED <<trust, registered, file, lists>>
    BY <1>6 DEF TakerStep, Land, Settled, Reverted, Within, chain, contract, routeVars
  <2> QED
    BY <1>1, <1>2, <2>1
<1> QED
  BY <1>1, <1>2, <1>3, <1>4, <1>5, <1>6, RouteSteps

\* Nothing is told of a take before it ends, but the result of the quote it was sent with.
Reports == [results : Nat, good : Nat, failures : Nat, pre : BOOLEAN, consumed : BOOLEAN]

Told(t, results, good) ==
  t \in Reports /\ t.results = results /\ t.good = good /\ t.failures = 0

ToldInv ==
  /\ stage \in {"idle", "planned", "asking", "queued", "estimated", "populated"} =>
       Told(told, 0, 0) /\ accepted = FALSE
  /\ stage = "sent" =>
       /\ accepted = TRUE
       /\ IF setup.exact THEN Told(told, 1, 1) ELSE Told(told, 0, 0)
  /\ OutcomeOnce

LEMMA ResultsTold ==
  ASSUME Told(told, 0, 0)
  PROVE  Told(BadResult, 1, 0) /\ Told(GoodResult, 1, 1)
<1>1. told \in Reports /\ told.results = 0 /\ told.good = 0 /\ told.failures = 0
  BY DEF Told
<1>2. Told(BadResult, 1, 0)
  BY <1>1, SMT DEF BadResult, Told, Reports
<1>3. Told(GoodResult, 1, 1)
  BY <1>2, SMT DEF GoodResult, Told, Reports
<1> QED
  BY <1>2, <1>3

LEMMA UntoldIs == Told(Untold, 0, 0)
BY DEF Untold, Told, Reports

LEMMA ToldStep == RouteTypes /\ ToldInv /\ [RouteNext]_routeVars => ToldInv'
<1> SUFFICES ASSUME RouteTypes, ToldInv, [RouteNext]_routeVars PROVE ToldInv'
  OBVIOUS
<1> USE DEF ToldInv, OutcomeOnce
<1>1. setup' = setup
  BY KeeperLeavesTaker, TakerIsTaken, TakerKeepsSetup, RouteSteps DEF routeVars, vars
<1> DEFINE Before == {"idle", "planned", "asking", "queued", "estimated", "populated"}
<1>2. ASSUME stage' \in Before, Told(told, 0, 0)', accepted' = FALSE PROVE ToldInv'
  BY <1>2
<1>3. ASSUME stage' = "over", told' = told, accepted' = accepted, stage \in Before \cup {"sent"}
      PROVE  ToldInv'
  <2>1. CASE stage \in Before
    BY <1>1, <1>3, <2>1 DEF Told
  <2>2. CASE stage = "sent"
    BY <1>1, <1>3, <2>2 DEF Told
  <2> QED
    BY <1>3, <2>1, <2>2
\* The failure of a take, with the result of its quote or without.
<1>4. ASSUME NEW results \in {0, 1}, NEW good \in {0, 1}, NEW consumed \in BOOLEAN,
             NEW t, Told(t, results, good), Failed(t, consumed), accepted' = accepted, accepted \in BOOLEAN,
             accepted = TRUE /\ setup.exact => good = 1
      PROVE  ToldInv'
  <2>1. stage' = "over"
    BY <1>4 DEF Failed
  <2>2. t \in Reports /\ t.results = results /\ t.good = good /\ t.failures = 0
    BY <1>4 DEF Told
  <2>3. told'.results = results /\ told'.good = good /\ told'.failures = 1
    BY <1>4, <2>2, SMT DEF Failed, Reports
  <2>4. told'.pre = PreBroadcast(consumed) /\ told'.consumed = consumed
    BY <1>4, <2>2 DEF Failed, Reports
  <2>5. told'.pre = (~accepted' /\ ~told'.consumed)
    BY <1>4, <2>4 DEF PreBroadcast
  <2> QED
    BY <1>1, <1>4, <2>1, <2>3, <2>5
<1>5. stage \in Before => accepted = FALSE /\ Told(told, 0, 0)
  OBVIOUS
<1>6. CASE UNCHANGED <<stage, told, accepted>>
  BY <1>1, <1>6
<1>7. CASE NextCycle
  BY <1>2, <1>7, UntoldIs DEF NextCycle
<1>8. CASE Approve \/ Prepare \/ PrepareDirect \/ QuoteArrives \/ Estimate \/ Populate
  BY <1>2, <1>8 DEF Approve, Prepare, PrepareDirect, QuoteArrives, Estimate, Populate, Goes
<1>9. CASE Skip \/ DryRun
  BY <1>3, <1>9 DEF Skip, DryRun, Goes
<1>10. CASE OwnerCall \/ Preflight \/ AuctionMoves \/ Reapprove \/ Tick
  BY <1>6, <1>10 DEF OwnerCall, Preflight, AuctionMoves, Reapprove, Tick, keeper
<1>11. CASE Reject \/ RejectDirect \/ StepFails
  <2>1. stage \in Before /\ Failed(told, FALSE) /\ accepted' = accepted
    BY <1>11 DEF Reject, RejectDirect, Rejected, StepFails
  <2> QED
    BY <1>4, <1>5, <2>1
<1>12. CASE QuoteFails \/ Stale
  <2>1. stage \in Before /\ Failed(BadResult, FALSE) /\ accepted' = accepted
    BY <1>12 DEF QuoteFails, Stale
  <2>2. Told(BadResult, 1, 0)
    BY <1>5, <2>1, ResultsTold
  <2> QED
    BY <1>4, <1>5, <2>1, <2>2
<1>13. stage = "populated" => IF setup.exact THEN Told(Consumed, 1, 1) ELSE Told(Consumed, 0, 0)
  BY <1>5, ResultsTold DEF Consumed
<1>14. CASE Submit
  BY <1>1, <1>13, <1>14 DEF Submit, Told
<1>15. ASSUME NEW consumed \in BOOLEAN, TransportThrows(consumed) PROVE ToldInv'
  <2>1. stage = "populated" /\ Failed(Consumed, consumed) /\ accepted' = accepted
    BY <1>15 DEF TransportThrows
  <2> QED
    BY <1>4, <1>5, <1>13, <2>1
<1>16. ASSUME stage = "sent", NEW consumed \in BOOLEAN, Failed(told, consumed), accepted' = accepted
       PROVE  ToldInv'
  BY <1>4, <1>16
<1>17. CASE Land \/ Within
  BY <1>6, <1>17 DEF Land, Within, keeper
<1>18. CASE Settled
  <2>1. stage = "sent"
    BY <1>18 DEF Settled, Settle, RouteTypes, TakeIsSent
  <2> QED
    BY <1>3, <1>18, <2>1 DEF Settled, Goes
<1>19. CASE Reverted
  <2>1. stage = "sent"
    BY <1>19 DEF Reverted, Revert, RouteTypes, TakeIsSent
  <2>2. Failed(told, FALSE) /\ accepted' = accepted
    BY <1>19 DEF Reverted
  <2> QED
    BY <1>16, <2>1, <2>2
<1>20. ASSUME NEW consumed \in BOOLEAN, WaitFails(consumed) PROVE ToldInv'
  BY <1>16, <1>20 DEF WaitFails
<1>21. CASE UNCHANGED routeVars
  BY <1>6, <1>21 DEF routeVars, keeper
<1> HIDE DEF ToldInv
<1> QED
  BY <1>7, <1>8, <1>9, <1>10, <1>11, <1>12, <1>13, <1>14, <1>15, <1>17, <1>18, <1>19, <1>20,
     <1>21,
     RouteSteps DEF KeeperStep, TakerStep

\* The order in the taker is the one that was sent.
OrderCovers ==
  /\ pc # "idle" => order.amountOutMinimum >= DueFor(order.maxAmount, order.auctionPrice)
  /\ pc # "idle" /\ setup.exact => order.amountIn = FloorDiv(order.maxAmount, setup.collateralScale)
  /\ pc \in {"callback", "swapped"} =>
       /\ fill * setup.collateralScale <= order.maxAmount
       /\ owed <= CeilDiv(fill * setup.collateralScale * order.auctionPrice, Wad)

\* The order of a take that is under way repays, and is not empty.
LEMMA OrderCovered ==
  ASSUME RouteTypes, PlanCovers, stage \in UnderWay
  PROVE  /\ Order.amountOutMinimum >= DueFor(Order.maxAmount, Order.auctionPrice)
         /\ Order.amountOutMinimum > 0
         /\ Order.amountIn = FloorDiv(Order.maxAmount, setup.collateralScale)
         /\ Order.amountIn > 0
<1>1. plan.size = Size(auction) /\ (setup.exact => plan.price = auction.price)
  BY DEF PlanCovers
<1>2. Order.maxAmount = plan.size
  BY <1>1 DEF Order, Size
<1>3. Order.auctionPrice = auction.price /\ Order.amountOutMinimum = plan.min
      /\ Order.amountIn = InTokens(Order.maxAmount)
  BY DEF Order
<1>4. plan.min >= DueFor(plan.size, auction.price)
  BY <1>1, <1>2 DEF PlanCovers, Size
<1>5. plan.min \in Nat \ {0}
  BY PlanSizes DEF UnderWay
<1>6. InTokens(plan.size) > 0
  BY DEF PlanCovers
<1> QED
  BY <1>2, <1>3, <1>4, <1>5, <1>6, SMT DEF InTokens

LEMMA ChargesBelow ==
  ASSUME setup \in SetupType, NEW f \in Nat, NEW price \in Nat, NEW top \in Nat, price <= top,
         NEW w \in Charges(f, price)
  PROVE  w <= CeilDiv(f * setup.collateralScale * top, Wad)
<1> DEFINE wad == f * setup.collateralScale
<1>1. Wad \in Nat \ {0} /\ setup.collateralScale \in Nat
  BY TakerAssumption DEF SetupType
<1>2. wad \in Nat
  BY <1>1, SMT
<1>3. w \in {FloorDiv(wad * price, Wad), CeilDiv(wad * price, Wad)}
  BY DEF Charges
<1> SUFFICES w <= CeilDiv(wad * top, Wad)
  OBVIOUS
<1> HIDE DEF wad
<1>4. wad * price \in Nat /\ wad * top \in Nat /\ wad * price <= wad * top
  BY <1>2, ProductGrows, SMT
<1>5. CeilDiv(wad * price, Wad) <= CeilDiv(wad * top, Wad)
  BY <1>1, <1>4, CeilDivGrows
<1>6. /\ FloorDiv(wad * price, Wad) \in Nat /\ CeilDiv(wad * price, Wad) \in Nat
      /\ CeilDiv(wad * top, Wad) \in Nat
      /\ FloorDiv(wad * price, Wad) <= CeilDiv(wad * price, Wad)
  BY <1>1, <1>4, FloorDivIs, CeilDivIs, FloorBelowCeil
<1> QED
  BY <1>3, <1>5, <1>6, SMT

LEMMA OrderCoversStep ==
  RouteTypes /\ PlanCovers /\ TypeOK /\ OrderCovers /\ [RouteNext]_routeVars => OrderCovers'
<1> SUFFICES ASSUME RouteTypes, PlanCovers, TypeOK, OrderCovers, [RouteNext]_routeVars
             PROVE  OrderCovers'
  OBVIOUS
<1> USE DEF OrderCovers
<1>1. setup' = setup /\ setup \in SetupType
  BY KeeperLeavesTaker, TakerIsTaken, TakerKeepsSetup, RouteSteps, TakerAssumption
     DEF routeVars, vars, TypeOK
<1>2. CASE UNCHANGED vars
  BY <1>2 DEF vars, DueFor
<1>3. CASE Land
  <2>1. stage = "sent" /\ order' = Order /\ pc' = "take"
    BY <1>3 DEF Land, Begin
  <2>2. /\ Order.amountOutMinimum >= DueFor(Order.maxAmount, Order.auctionPrice)
        /\ Order.amountIn = FloorDiv(Order.maxAmount, setup.collateralScale)
    BY <2>1, OrderCovered DEF UnderWay
  <2>3. DueFor(order.maxAmount, order.auctionPrice)' = DueFor(Order.maxAmount, Order.auctionPrice)
    BY <1>1, <2>1 DEF DueFor
  <2> QED
    BY <1>1, <2>1, <2>2, <2>3
<1>4. CASE Settled \/ Reverted
  BY <1>4 DEF Settled, Settle, Reverted, Revert, Over
<1>5. ASSUME NEW f \in 0 .. order.maxAmount, NEW price \in 0 .. order.auctionPrice,
             PoolSends(f, price)
      PROVE  OrderCovers'
  <2>1. order \in OrderType
    BY <1>5, TakerAssumption DEF PoolSends, TypeOK
  <2>2. f \in Nat /\ price \in Nat /\ order.auctionPrice \in Nat /\ price <= order.auctionPrice
    BY <2>1, SMT DEF OrderType
  <2>3. f * setup.collateralScale <= order.maxAmount /\ fill' = f /\ order' = order
        /\ pc = "take" /\ owed' \in Charges(f, price)
    BY <1>5 DEF PoolSends, Fills
  <2>4. owed' <= CeilDiv(f * setup.collateralScale * order.auctionPrice, Wad)
    BY <1>1, <2>2, <2>3, ChargesBelow
  <2> QED
    BY <1>1, <2>3, <2>4 DEF DueFor
<1>6. CASE Within
  <2>1. CASE \E q, c \in 0 .. MaxStray : Stray(q, c)
    BY <2>1 DEF Stray
  <2>2. ASSUME NEW used \in 0 .. fill, NEW out \in Outs, Swap(used, out) PROVE OrderCovers'
    BY <1>1, <2>2 DEF Swap, DueFor
  <2>3. CASE Check \/ PoolPulls
    BY <1>1, <2>3 DEF Check, PoolPulls, DueFor
  <2> QED
    BY <1>5, <1>6, <2>1, <2>2, <2>3 DEF Within
<1>7. CASE UNCHANGED routeVars
  BY <1>2, <1>7 DEF routeVars
<1> QED
  BY <1>2, <1>3, <1>4, <1>6, <1>7, RouteSteps, KeeperLeavesTaker DEF TakerStep

RouteInv ==
  /\ RouteTypes /\ FileOK /\ PlanCovers /\ FreshFits /\ Trusted /\ ToldInv /\ OrderCovers

LEMMA RouteInvariance == RouteSpec => [](RouteInv /\ IInv)
<1>1. RouteInit => RouteInv
  <2> SUFFICES ASSUME RouteInit PROVE RouteInv
    OBVIOUS
  <2>1. RouteTypes /\ PlanCovers /\ FreshFits /\ Trusted /\ OrderCovers
    BY DEF RouteInit, Init, RouteTypes, PlanOK, TakeIsSent, PlanCovers, UnderWay, FreshFits, Routed,
       Trusted, OrderCovers
  <2>2. FileOK
    <3>1. PICK d \in Deployments : file = d.file /\ lists = d.lists
      BY DEF RouteInit
    <3>2. d \in DeploymentType /\ PolicyOk(d.file.policy)
      BY RouteAssumption
    <3> QED
      BY <3>1, <3>2 DEF RouteInit, DeploymentType, FileOK
  <2>3. ToldInv
    <3>1. told = Untold /\ stage = "idle" /\ accepted = FALSE
      BY DEF RouteInit
    <3> QED
      BY <3>1, UntoldIs DEF ToldInv, OutcomeOnce
  <2> QED
    BY <2>1, <2>2, <2>3 DEF RouteInv
<1>2. RouteInit => IInv
  BY InitInv DEF RouteInit
<1>3. RouteInv /\ IInv /\ [RouteNext]_routeVars => RouteInv'
  <2> SUFFICES ASSUME RouteInv, IInv, [RouteNext]_routeVars PROVE RouteInv'
    OBVIOUS
  <2>1. setup' = setup
    BY KeeperLeavesTaker, TakerIsTaken, TakerKeepsSetup, RouteSteps DEF routeVars, vars, RouteInv
  <2> QED
    BY <2>1, RouteTypesStep, FileOKStep, PlanCoversStep, FreshFitsStep, TrustedStep, ToldStep,
       OrderCoversStep DEF RouteInv, IInv
<1>4. RouteTypes /\ IInv /\ [RouteNext]_routeVars => IInv'
  <2> SUFFICES ASSUME RouteTypes, IInv, [RouteNext]_routeVars PROVE IInv'
    OBVIOUS
  <2>1. [Next]_vars
    BY KeeperLeavesTaker, TakerIsTaken, RouteSteps DEF routeVars
  <2> QED
    BY <2>1, TypeStep, ApprovedStep, StrayStep, FillStep, PlanningStep, CheckedStep, ClosedStep
       DEF IInv
<1>5. RouteInv => RouteTypes
  BY DEF RouteInv
<1> QED
  BY <1>1, <1>2, <1>3, <1>4, <1>5, PTL DEF RouteSpec

-----------------------------------------------------------------------------
\* The floor of a full order repays a part of it.

LEMMA Cancels ==
  ASSUME NEW a \in Nat, NEW b \in Nat, NEW p \in Nat \ {0}, a * p <= b * p
  PROVE  a <= b
<1>1. SUFFICES ASSUME b + 1 <= a PROVE FALSE
  BY SMT
<1>2. (b + 1) * p <= a * p
  BY <1>1, ProductGrows, SMT
<1>3. (b + 1) * p = b * p + p /\ a * p \in Nat /\ b * p \in Nat
  BY SMT
<1> QED
  BY <1>2, <1>3, SMT

LEMMA ScaledFloorRepays ==
  ASSUME NEW most \in Nat, NEW price \in Nat, NEW least \in Nat, NEW f \in Nat,
         NEW cs \in Nat \ {0}, NEW qs \in Nat \ {0}, NEW due \in Nat,
         FloorDiv(most, cs) > 0,
         least >= CeilDiv(CeilDiv(most * price, Wad), qs),
         due <= CeilDiv(f * cs * price, Wad)
  PROVE  CeilDiv(due, qs) <= CeilDiv(least * f, FloorDiv(most, cs))
<1> DEFINE planned == FloorDiv(most, cs)
           whole == CeilDiv(most * price, Wad)
           part == CeilDiv(least * f, planned)
<1>1. Wad \in Nat \ {0}
  BY TakerAssumption
<1>2. planned \in Nat \ {0} /\ planned * cs <= most
  BY FloorDivIs, SMT
<1>3. /\ most * price \in Nat /\ whole \in Nat /\ most * price <= whole * Wad
      /\ CeilDiv(whole, qs) \in Nat /\ whole <= CeilDiv(whole, qs) * qs
  <2>1. most * price \in Nat
    BY SMT
  <2> QED
    BY <1>1, <2>1, CeilDivIs
<1>4. least * f \in Nat /\ part \in Nat /\ least * f <= part * planned
  <2>1. least * f \in Nat
    BY SMT
  <2> QED
    BY <1>2, <2>1, CeilDivIs
<1>5. least >= CeilDiv(whole, qs)
  OBVIOUS
<1> SUFFICES CeilDiv(due, qs) <= part
  OBVIOUS
<1> HIDE DEF planned, whole, part
\* most * price <= least * qs * Wad
<1>6. most * price <= (least * qs) * Wad /\ least * qs \in Nat
  <2>1. CeilDiv(whole, qs) * qs <= least * qs /\ least * qs \in Nat /\ CeilDiv(whole, qs) * qs \in Nat
    BY <1>3, <1>5, ProductGrows, SMT
  <2>2. whole <= least * qs
    BY <1>3, <2>1, SMT
  <2>3. whole * Wad <= (least * qs) * Wad
    BY <1>1, <1>3, <2>1, <2>2, ProductGrows, SMT
  <2>4. whole * Wad \in Nat /\ (least * qs) * Wad \in Nat
    BY <1>1, <1>3, <2>1, SMT
  <2> QED
    BY <1>3, <2>1, <2>3, <2>4, SMT
\* (f * cs * price) * planned <= (part * qs * Wad) * planned
<1> DEFINE cost == (f * cs) * price
           value == (part * qs) * Wad
<1>7. cost \in Nat /\ value \in Nat
  <2>1. f * cs \in Nat /\ part * qs \in Nat
    BY <1>4, SMT
  <2> QED
    BY <1>1, <2>1, SMT
<1>8. cost * planned <= value * planned
  <2>1. cost * planned = (f * price) * (planned * cs)
    BY <1>2, SMT
  <2>2. f * price \in Nat /\ planned * cs \in Nat
    BY <1>2, SMT
  <2>3. (f * price) * (planned * cs) <= (f * price) * most
    BY <1>2, <2>2, ProductGrows, SMT
  <2>4. (f * price) * most = f * (most * price)
    BY SMT
  <2>5. f * (most * price) <= f * ((least * qs) * Wad)
    <3>1. (least * qs) * Wad \in Nat
      BY <1>1, <1>6, SMT
    <3> QED
      BY <1>3, <1>6, <3>1, ProductGrows, SMT
  <2>6. f * ((least * qs) * Wad) = (least * f) * (qs * Wad)
    BY <1>1, SMT
  <2>7. (least * f) * (qs * Wad) <= (part * planned) * (qs * Wad)
    <3>1. qs * Wad \in Nat /\ part * planned \in Nat
      BY <1>1, <1>2, <1>4, SMT
    <3> QED
      BY <1>4, <3>1, ProductGrows, SMT
  <2>8. (part * planned) * (qs * Wad) = value * planned
    BY <1>1, <1>2, <1>4, SMT
  <2> DEFINE x1 == (f * price) * most
             x2 == (least * f) * (qs * Wad)
  <2>9. x1 \in Nat /\ x2 \in Nat /\ cost * planned \in Nat /\ value * planned \in Nat
    <3>1. qs * Wad \in Nat
      BY <1>1, SMT
    <3> QED
      BY <1>2, <1>4, <1>7, <2>2, <3>1, SMT
  <2>10. cost * planned <= x1 /\ x1 <= x2 /\ x2 <= value * planned
    BY <2>1, <2>3, <2>4, <2>5, <2>6, <2>7, <2>8
  <2> HIDE DEF x1, x2, cost, value
  <2> QED
    BY <2>9, <2>10, SMT
<1>9. cost <= value
  <2> HIDE DEF cost, value
  <2> QED
    BY <1>2, <1>7, <1>8, Cancels
<1>10. CeilDiv(cost, Wad) <= part * qs /\ CeilDiv(cost, Wad) \in Nat /\ part * qs \in Nat
  <2>1. part * qs \in Nat
    BY <1>4, SMT
  <2> HIDE DEF cost
  <2> QED
    BY <1>1, <1>7, <1>9, <2>1, CeilDivLeast, CeilDivIs
<1>11. due <= part * qs
  <2>1. due <= CeilDiv(cost, Wad)
    OBVIOUS
  <2> HIDE DEF cost
  <2> QED
    BY <1>10, <2>1, SMT
<1> QED
  BY <1>4, <1>11, CeilDivLeast

-----------------------------------------------------------------------------
\* Theorems on routes.

\* Whatever the keeper approves, quotes and hands over, the taker contract sees a take of
\* TakerTake, one after the other: orders that the contract admits, and nothing of the keeper's
\* in the middle of one.
THEOREM RoutesTakeOnly == RouteSpec => Spec
<1>1. RouteInit => Init
  BY DEF RouteInit
<1>2. RouteTypes /\ [RouteNext]_routeVars => [Next]_vars
  <2> SUFFICES ASSUME RouteTypes, [RouteNext]_routeVars PROVE [Next]_vars
    OBVIOUS
  <2>1. CASE UNCHANGED routeVars
    BY <2>1 DEF routeVars
  <2> QED
    BY <2>1, RouteSteps, KeeperLeavesTaker, TakerIsTaken
<1> QED
  BY <1>1, <1>2, RouteTypesHold, PTL DEF RouteSpec, Spec

\* So every take of the keeper repays its pool out of its own swap, at the price per unit it was
\* quoted, and leaves nothing open.
THEOREM RoutesRepay == RouteSpec => [](PullCovered /\ UnitFloorKept /\ NothingLeftOpen)
BY RoutesTakeOnly, RepaysThePool, SoldAtTheFloor, LeavesNothingOpen, PTL

\* Whatever the auction, the quotes and the clock did since the approval, what is handed over is
\* of one evaluation, for what the pool offers, young, and repays.
THEOREM ApprovedIsSent == RouteSpec => []SentAsApproved
<1>1. RouteInv => SentAsApproved
  <2> SUFFICES ASSUME RouteInv, stage = "sent" PROVE SentAsApproved
    BY DEF SentAsApproved
  <2>1. /\ Order.amountOutMinimum >= DueFor(Order.maxAmount, Order.auctionPrice)
    BY OrderCovered DEF RouteInv, UnderWay
  <2>2. ASSUME setup.exact
        PROVE  /\ plan.size = Size(auction) /\ plan.price = auction.price
               /\ age <= MaxAge /\ fresh.min >= plan.min /\ fresh.out >= plan.min
    BY <2>2 DEF RouteInv, PlanCovers, UnderWay, FreshFits, Routed, ClearsFloor
  <2>3. ASSUME setup.exact, file.provider # "lifi"
        PROVE  fresh.call = Asked(Order.amountIn, fresh.call.min) /\ fresh.call.min >= plan.min
    <3>1. fresh \in QuotesFor(plan.size) /\ FileOK
      BY <2>3 DEF RouteInv, FreshFits, Routed
    <3>2. fresh.call = Asked(InTokens(plan.size), fresh.min) /\ fresh.call.min = fresh.min
      BY <2>3, <3>1, QuotesFit
    <3>3. Order.amountIn = InTokens(plan.size)
      BY <2>3 DEF Order
    <3> QED
      BY <2>2, <2>3, <3>2, <3>3
  <2> QED
    BY <2>1, <2>2, <2>3 DEF SentAsApproved
<1> QED
  BY <1>1, RouteInvariance, PTL

\* However a take ends, one failure at most is told, which says before the broadcast only if
\* nothing was, and the quote of a transaction that was taken counts as good.
THEOREM ToldOnce == RouteSpec => []OutcomeOnce
<1>1. RouteInv => OutcomeOnce
  BY DEF RouteInv, ToldInv
<1> QED
  BY <1>1, RouteInvariance, PTL

\* With lists that the preflight found equal to the file's, the contract admits every quote that
\* the file's policy admits.
THEOREM PreflightSuffices == RouteSpec => []NeverRefused
<1>1. RouteInv => NeverRefused
  <2> SUFFICES ASSUME RouteInv, trust = "checked",
                      stage \in {"queued", "estimated", "populated", "sent"},
                      file.provider = "oneinch" => <<Router, "swap">> \in file.policy.selectors
               PROVE  Admits(Order)
    BY DEF NeverRefused
  <2>1. registered = "configured" /\ (setup.exact => Reconciled) /\ RouterMaySpend
    BY DEF RouteInv, Trusted
  <2>2. /\ Order.amountIn > 0 /\ Order.amountOutMinimum > 0
        /\ Order.amountIn = FloorDiv(Order.maxAmount, setup.collateralScale)
    BY OrderCovered DEF RouteInv, UnderWay
  <2>3. CASE ~setup.exact
    BY <2>1, <2>2, <2>3 DEF Admits
  <2>4. CASE setup.exact
    <3>1. fresh \in QuotesFor(plan.size) /\ FileOK
      BY <2>4 DEF RouteInv, FreshFits, Routed
    <3>2. \A ts \in file.policy.selectors : ts[1] \in file.policy.targets
      BY <3>1 DEF FileOK, PolicyOk, SelectorsCover
    <3>3. /\ fresh.target \in file.policy.targets /\ fresh.spender \in file.policy.spenders
          /\ <<fresh.target, fresh.selector>> \in file.policy.selectors
      <4>1. CASE file.provider = "oneinch"
        <5>1. fresh.target = Router /\ fresh.spender = Router /\ fresh.selector = "swap"
          BY <2>4, <3>1, <4>1, QuotesFit
        <5>2. <<Router, "swap">> \in file.policy.selectors
          BY <4>1
        <5> QED
          BY <2>1, <3>2, <4>1, <5>1, <5>2 DEF RouterMaySpend
      <4>2. CASE file.provider # "oneinch"
        BY <2>4, <3>1, <4>2, QuotesFit
      <4> QED
        BY <4>1, <4>2
    <3>4. /\ fresh.target \in GetAllowed("target") /\ fresh.spender \in GetAllowed("spender")
          /\ <<fresh.target, fresh.selector>> \in GetAllowed("selector")
      BY <2>1, <2>4, <3>3 DEF Reconciled
    <3>5. ASSUME NEW kind, NEW v \in GetAllowed(kind) PROVE <<kind, v>> \in lists.allowed
      <4>1. PICK x \in lists.known : x[1] = kind /\ x \in lists.allowed /\ x[2] = v
        BY <3>5 DEF GetAllowed
      <4>2. x \in Entries
        BY <3>1, <4>1 DEF FileOK, ListsType
      <4>3. x = <<x[1], x[2]>>
        BY <4>2 DEF Entries
      <4> QED
        BY <4>1, <4>3
    <3> QED
      BY <2>1, <2>2, <2>4, <3>4, <3>5 DEF Admits
  <2> QED
    BY <2>3, <2>4
<1> QED
  BY <1>1, RouteInvariance, PTL

\* The floor that the keeper gives repays the pool whatever part of the order is filled, at
\* whatever lower price, and however the charge is rounded.
THEOREM FloorsRepay == RouteSpec => []FloorRepays
<1>1. RouteInv /\ IInv => FloorRepays
  <2> SUFFICES ASSUME RouteInv, IInv, pc \in {"callback", "swapped"},
                      setup.exact => fill = order.amountIn
               PROVE  MinimumOut >= Pull
    BY DEF FloorRepays
  <2>1. /\ order \in OrderType /\ setup \in SetupType /\ fill \in Nat /\ owed \in Nat
    BY TakerAssumption DEF IInv, TypeOK
  <2>2. /\ order.maxAmount \in Nat /\ order.auctionPrice \in Nat /\ order.amountOutMinimum \in Nat
        /\ setup.collateralScale \in Nat \ {0} /\ setup.quoteScale \in Nat \ {0} /\ Wad \in Nat \ {0}
    BY <2>1, TakerAssumption DEF OrderType, SetupType
  <2>3. /\ order.amountOutMinimum >= DueFor(order.maxAmount, order.auctionPrice)
        /\ fill * setup.collateralScale <= order.maxAmount
        /\ owed <= CeilDiv(fill * setup.collateralScale * order.auctionPrice, Wad)
    BY DEF RouteInv, OrderCovers
  <2>4. Pull \in Nat
    BY <2>1, PullIs
  <2>5. CASE ~setup.exact
    <3>1. Planned > 0
      BY <2>5 DEF IInv, Planning, InTake
    <3>2. CeilDiv(owed, setup.quoteScale)
            <= CeilDiv(order.amountOutMinimum * fill, FloorDiv(order.maxAmount, setup.collateralScale))
      BY <2>1, <2>2, <2>3, <3>1, ScaledFloorRepays DEF DueFor, Planned
    <3>3. Pull <= MinimumOut
      BY <2>5, <3>2 DEF Pull, MinimumOut, Scaled, ScaledUp, Planned
    <3>4. MinimumOut \in Nat
      <4>1. Planned \in Nat
        BY <2>2, FloorDivIs DEF Planned
      <4>2. Planned \in Nat \ {0}
        BY <3>1, <4>1, SMT
      <4>3. order.amountOutMinimum * fill \in Nat
        BY <2>1, <2>2, SMT
      <4> QED
        BY <2>5, <4>2, <4>3, CeilDivIs DEF MinimumOut, Scaled, ScaledUp
    <3> QED
      BY <2>4, <3>3, <3>4, SMT
  <2>6. CASE setup.exact
    <3> DEFINE wad == fill * setup.collateralScale
               cost == CeilDiv(order.maxAmount * order.auctionPrice, Wad)
    <3>1. wad \in Nat /\ wad <= order.maxAmount
      BY <2>1, <2>2, <2>3, SMT
    <3>2. /\ wad * order.auctionPrice \in Nat /\ order.maxAmount * order.auctionPrice \in Nat
          /\ wad * order.auctionPrice <= order.maxAmount * order.auctionPrice
      <4> HIDE DEF wad
      <4> QED
        BY <2>2, <3>1, ProductGrows, SMT
    <3>3. /\ CeilDiv(wad * order.auctionPrice, Wad) <= cost /\ cost \in Nat
          /\ CeilDiv(wad * order.auctionPrice, Wad) \in Nat
      <4> HIDE DEF wad
      <4> QED
        BY <2>2, <3>2, CeilDivGrows, CeilDivIs
    <3>4. owed <= CeilDiv(wad * order.auctionPrice, Wad)
      BY <2>3
    <3> HIDE DEF wad, cost
    <3>5. owed <= cost
      BY <2>1, <3>3, <3>4, SMT
    <3>6. Pull <= CeilDiv(cost, setup.quoteScale) /\ CeilDiv(cost, setup.quoteScale) \in Nat
      BY <2>1, <2>2, <3>3, <3>5, CeilDivGrows, CeilDivIs DEF Pull
    <3>7. order.amountOutMinimum >= CeilDiv(cost, setup.quoteScale)
      BY <2>3 DEF DueFor, cost
    <3>8. MinimumOut = order.amountOutMinimum
      BY <2>6 DEF MinimumOut
    <3> QED
      BY <2>2, <2>4, <3>6, <3>7, <3>8, SMT
  <2> QED
    BY <2>5, <2>6
<1> QED
  BY <1>1, RouteInvariance, PTL

=============================================================================
