-------------------------- MODULE KickCycleProofs --------------------------
(***************************************************************************)
(* Proofs about the kick loop, for any pools, loans, bonds and limits.     *)
(***************************************************************************)
EXTENDS KickCycle, TLAPS

USE DEF chain, where, loan, reads, budget

\* What the assumption says of one environment.
LEMMA EnvFacts == ASSUME env \in Environments
  PROVE /\ env.manual \subseteq Pools /\ Discovered \subseteq Pools
        /\ env.poolCap \in Nat
BY KickAssumption DEF EnvType, Discovered

-----------------------------------------------------------------------------
\* Types.  A step disturbs few parts of the state at a time.

\* A step keeps the types of what is on chain.
LEMMA ChainStep == ASSUME TypeOK, [Next]_vars PROVE ChainOK'
<1> USE KickAssumption, EnvFacts DEF TypeOK, ChainOK, LoopOK, PlaceOK, Acting,
  Discovered
<1>1. CASE UNCHANGED chain
  BY <1>1
<1>2. CASE Approved
  BY <1>2 DEF Approved, Amounts
<1>3. CASE ApproveFails
  BY <1>3 DEF ApproveFails, Return, Amounts, Approval, TxType
<1>4. CASE Kick
  <2>1. cur \in Loans /\ \A l \in Loans : bond[l] \in 0 .. MaxBond
    BY <1>4 DEF Kick, Bonds
  <2> QED
    BY <1>4, <2>1 DEF Kick, Post
<1>5. CASE KickFails
  BY <1>5 DEF KickFails, Return, Kicking, TxType
<1>6. CASE Cleared
  BY <1>6 DEF Cleared, LeavePool
<1>7. CASE ClearFails
  BY <1>7 DEF ClearFails, LeavePool, Approval, TxType
<1>8. CASE Land
  <2>1. PICK tx \in flying :
         \/ tx.kind = "kick" /\ Post(tx.loan)
         \/ /\ tx.kind = "approve"
            /\ allowance' = [allowance EXCEPT ![tx.pool] = tx.amount]
            /\ UNCHANGED <<stake, locked>>
    BY <1>8 DEF Land
  <2>2. bond' = bond /\ flying' = {} /\ tx.amount \in Nat
    BY <1>8 DEF Land, TxType
  <2>3. CASE tx.kind = "kick" /\ Post(tx.loan)
    <3>1. tx.loan \in Loans /\ \A l \in Loans : bond[l] \in 0 .. MaxBond
      BY <2>3 DEF TxType, Bonds
    <3> QED
      BY <2>2, <2>3, <3>1 DEF Post
  <2>4. CASE UNCHANGED <<stake, locked>> /\ allowance' = [allowance EXCEPT ![tx.pool] = tx.amount]
    BY <2>2, <2>4
  <2> QED
    BY <2>1, <2>3, <2>4
<1>9. CASE Drop
  BY <1>9 DEF Drop
<1>10. CASE Crash
  BY <1>10 DEF Crash, ForgetCycle, Amounts, Approval, Kicking, TxType
<1>11. ASSUME NEW l \in Loans, End(l) PROVE ChainOK'
  BY <1>11 DEF End
<1>12. ASSUME NEW l \in Loans, Move(l) PROVE ChainOK'
  BY <1>12 DEF Move, Bonds
<1> QED
  BY <1>1, <1>2, <1>3, <1>4, <1>5, <1>6, <1>7, <1>8, <1>9, <1>10, <1>11, <1>12
    DEF Next, Keeper, Chain, vars, LeavePool, Return, ForgetCycle, Begin,
    PassEnds, PickFails, GiveUp, Approve, Clear, ClearThrows, Source,
    Hydrated, PoolDone, Rest, PassLoans, PassFails, PassPriceless, Hydrate,
    HydrateLoans, Pick, Decide

\* ... of the loop's own state, ...
LEMMA LoopStep == ASSUME TypeOK, [Next]_vars PROVE LoopOK'
<1> USE KickAssumption, EnvFacts DEF TypeOK, ChainOK, LoopOK, PlaceOK, Acting,
  Unread, None, LoansOf
<1>1. CASE Begin
  BY <1>1 DEF Begin
<1>2. CASE PassEnds
  <2>1. CASE pool \in env.dry
    BY <1>2, <2>1 DEF PassEnds, LeavePool
  <2>2. CASE pool \notin env.dry
    BY <1>2, <2>2 DEF PassEnds
  <2> QED
    BY <2>1, <2>2
<1>3. CASE PickFails
  BY <1>3 DEF PickFails, LeavePool
<1>4. CASE GiveUp
  BY <1>4 DEF GiveUp, Return
<1>5. CASE Approve
  BY <1>5 DEF Approve
<1>6. CASE Approved
  BY <1>6 DEF Approved, Amounts
<1>7. CASE ApproveFails
  BY <1>7 DEF ApproveFails, Return, Amounts, Approval, TxType
<1>8. CASE Kick
  BY <1>8 DEF Kick, Return, Post, Bonds
<1>9. CASE KickFails
  BY <1>9 DEF KickFails, Return, Kicking, TxType
<1>10. CASE Clear
  <2>1. CASE zero[pool] = 0 /\ allowance[pool] > 0
    BY <1>10, <2>1 DEF Clear
  <2>2. CASE ~(zero[pool] = 0 /\ allowance[pool] > 0)
    <3>1. zero' \in [Pools -> 0 .. ZeroCycles]
      BY <1>10, <2>2 DEF Clear, LeavePool
    <3> QED
      BY <1>10, <2>2, <3>1 DEF Clear, LeavePool
  <2> QED
    BY <2>1, <2>2
<1>11. CASE ClearThrows
  BY <1>11 DEF ClearThrows, LeavePool
<1>12. CASE Cleared
  BY <1>12 DEF Cleared, LeavePool
<1>13. CASE ClearFails
  BY <1>13 DEF ClearFails, LeavePool, Approval, TxType
<1>14. CASE Source
  BY <1>14 DEF Source
<1>15. CASE Hydrated
  BY <1>15 DEF Hydrated
<1>16. CASE PoolDone
  BY <1>16 DEF PoolDone
<1>17. CASE Rest
  BY <1>17 DEF Rest, ForgetCycle
<1>18. CASE Land
  BY <1>18 DEF Land, Post, Bonds, TxType
<1>19. CASE Drop
  BY <1>19 DEF Drop
<1>20. CASE Crash
  BY <1>20 DEF Crash, ForgetCycle, Amounts, Approval, Kicking, TxType
<1>21. ASSUME NEW p \in Pools, PassLoans(p) PROVE LoopOK'
  BY <1>21 DEF PassLoans, Bonds
<1>22. ASSUME NEW p \in Pools, PassFails(p) PROVE LoopOK'
  BY <1>22 DEF PassFails
<1>23. ASSUME NEW p \in Pools, PassPriceless(p) PROVE LoopOK'
  BY <1>23 DEF PassPriceless
<1>24. ASSUME NEW p \in Pools, Hydrate(p) PROVE LoopOK'
  BY <1>24 DEF Hydrate
<1>25. ASSUME NEW p \in Pools, HydrateLoans(p) PROVE LoopOK'
  BY <1>25 DEF HydrateLoans, Bonds
<1>26. ASSUME NEW l \in Loans, Pick(l) PROVE LoopOK'
  BY <1>26 DEF Pick, Bonds
<1>27. ASSUME NEW l \in Loans, Decide(l) PROVE LoopOK'
  BY <1>27 DEF Decide, Fits
<1>28. ASSUME NEW l \in Loans, End(l) PROVE LoopOK'
  BY <1>28 DEF End
<1>29. ASSUME NEW l \in Loans, Move(l) PROVE LoopOK'
  BY <1>29 DEF Move, Bonds
<1>30. CASE UNCHANGED vars
  BY <1>30 DEF vars
<1> QED
  BY <1>1, <1>2, <1>3, <1>4, <1>5, <1>6, <1>7, <1>8, <1>9, <1>10, <1>11,
    <1>12, <1>13, <1>14, <1>15, <1>16, <1>17, <1>18, <1>19, <1>20, <1>21,
    <1>22, <1>23, <1>24, <1>25, <1>26, <1>27, <1>28, <1>29, <1>30 DEF Next,
    Keeper, Chain

\* ... of the budget, ...
LEMMA BudgetStep == ASSUME TypeOK, [Next]_vars PROVE BudgetOK'
<1> USE KickAssumption, EnvFacts DEF TypeOK, ChainOK, LoopOK, BudgetOK, None,
  Discovered
<1>1. CASE UNCHANGED <<env, hydrated, base, reserved, total, kickedIn>>
  BY <1>1
<1>2. ASSUME NEW p \in Pools, Hydrate(p) PROVE BudgetOK'
  BY <1>2 DEF Hydrate
<1>3. ASSUME NEW p \in Pools, HydrateLoans(p) PROVE BudgetOK'
  BY <1>3 DEF HydrateLoans, Bonds
<1>4. ASSUME NEW l \in Loans, Decide(l) PROVE BudgetOK'
  BY <1>4 DEF Decide, Fits
<1>5. CASE PoolDone
  BY <1>5 DEF PoolDone
<1>6. CASE Rest
  BY <1>6 DEF Rest, ForgetCycle
<1>7. CASE Crash
  BY <1>7 DEF Crash, ForgetCycle, Amounts, Approval, Kicking, TxType
<1> QED
  BY <1>1, <1>2, <1>3, <1>4, <1>5, <1>6, <1>7 DEF Next, Keeper, Chain, vars,
    LeavePool, Return, ForgetCycle, Begin, PassEnds, PickFails, GiveUp,
    Approve, Approved, ApproveFails, Kick, KickFails, Clear, ClearThrows,
    Cleared, ClearFails, Source, Hydrated, Land, Drop, PassLoans, PassFails,
    PassPriceless, Pick, End, Move

\* ... and of the flags, ...
LEMMA FlagsStep == ASSUME FlagsOK, [Next]_vars PROVE FlagsOK'
BY Zenon DEF FlagsOK, vars, Next, Keeper, Chain, LeavePool, Return,
  ForgetCycle, Begin, PassEnds, PickFails, GiveUp, Approve, Approved,
  ApproveFails, Kick, KickFails, Clear, ClearThrows, Cleared, ClearFails,
  Source, Hydrated, PoolDone, Rest, Land, Drop, Crash, PassLoans, PassFails,
  PassPriceless, Hydrate, HydrateLoans, Pick, Decide, End, Move

\* ... and keeps the pool and the loan at hand with the place the loop is in.
LEMMA PlaceStep == ASSUME TypeOK, [Next]_vars PROVE PlaceOK'
<1> USE KickAssumption, EnvFacts DEF TypeOK, ChainOK, LoopOK, BudgetOK,
  PlaceOK, Acting, Unread, None, Discovered, LoansOf
<1>1. CASE Begin
  BY <1>1 DEF Begin
<1>2. CASE PassEnds
  BY <1>2 DEF PassEnds, LeavePool
<1>3. CASE PickFails
  BY <1>3 DEF PickFails, LeavePool
<1>4. CASE GiveUp
  BY <1>4 DEF GiveUp, Return
<1>5. CASE Approve
  BY <1>5 DEF Approve
<1>6. CASE Approved
  BY <1>6 DEF Approved, Amounts
<1>7. CASE ApproveFails
  BY <1>7 DEF ApproveFails, Return, Amounts, Approval, TxType
<1>8. CASE Kick
  BY <1>8 DEF Kick, Return, Post, Bonds
<1>9. CASE KickFails
  BY <1>9 DEF KickFails, Return, Kicking, TxType
<1>10. CASE Clear
  BY <1>10 DEF Clear, LeavePool
<1>11. CASE ClearThrows
  BY <1>11 DEF ClearThrows, LeavePool
<1>12. CASE Cleared
  BY <1>12 DEF Cleared, LeavePool
<1>13. CASE ClearFails
  BY <1>13 DEF ClearFails, LeavePool, Approval, TxType
<1>14. CASE Source
  BY <1>14 DEF Source
<1>15. CASE Hydrated
  BY <1>15 DEF Hydrated
<1>16. CASE PoolDone
  BY <1>16 DEF PoolDone
<1>17. CASE Rest
  BY <1>17 DEF Rest, ForgetCycle
<1>18. CASE Land
  BY <1>18 DEF Land, Post, Bonds, TxType
<1>19. CASE Drop
  BY <1>19 DEF Drop
<1>20. CASE Crash
  BY <1>20 DEF Crash, ForgetCycle, Amounts, Approval, Kicking, TxType
<1>21. ASSUME NEW p \in Pools, PassLoans(p) PROVE PlaceOK'
  BY <1>21 DEF PassLoans, Bonds
<1>22. ASSUME NEW p \in Pools, PassFails(p) PROVE PlaceOK'
  BY <1>22 DEF PassFails
<1>23. ASSUME NEW p \in Pools, PassPriceless(p) PROVE PlaceOK'
  BY <1>23 DEF PassPriceless
<1>24. ASSUME NEW p \in Pools, Hydrate(p) PROVE PlaceOK'
  BY <1>24 DEF Hydrate
<1>25. ASSUME NEW p \in Pools, HydrateLoans(p) PROVE PlaceOK'
  BY <1>25 DEF HydrateLoans, Bonds
<1>26. ASSUME NEW l \in Loans, Pick(l) PROVE PlaceOK'
  BY <1>26 DEF Pick, Bonds
<1>27. ASSUME NEW l \in Loans, Decide(l) PROVE PlaceOK'
  BY <1>27 DEF Decide, Fits
<1>28. ASSUME NEW l \in Loans, End(l) PROVE PlaceOK'
  BY <1>28 DEF End
<1>29. ASSUME NEW l \in Loans, Move(l) PROVE PlaceOK'
  BY <1>29 DEF Move, Bonds
<1>30. CASE UNCHANGED vars
  BY <1>30 DEF vars
<1> QED
  BY <1>1, <1>2, <1>3, <1>4, <1>5, <1>6, <1>7, <1>8, <1>9, <1>10, <1>11,
    <1>12, <1>13, <1>14, <1>15, <1>16, <1>17, <1>18, <1>19, <1>20, <1>21,
    <1>22, <1>23, <1>24, <1>25, <1>26, <1>27, <1>28, <1>29, <1>30 DEF Next,
    Keeper, Chain

\* The kick loop keeps its types, for any pools, loans, bonds and limits.
THEOREM KickTypeOK == Spec => []TypeOK
<1>1. Init => TypeOK
  <2> SUFFICES ASSUME Init PROVE TypeOK
    OBVIOUS
  <2>1. ChainOK
    BY KickAssumption DEF Init, ChainOK, Unread, None
  <2>2. LoopOK /\ BudgetOK
    BY KickAssumption DEF Init, LoopOK, BudgetOK, Unread, None
  <2>3. FlagsOK
    BY Zenon DEF Init, FlagsOK
  <2>4. PlaceOK
    BY DEF Init, PlaceOK, Acting
  <2> QED
    BY <2>1, <2>2, <2>3, <2>4 DEF TypeOK, Init
<1>2. TypeOK /\ [Next]_vars => TypeOK'
  <2> SUFFICES ASSUME TypeOK, [Next]_vars PROVE TypeOK'
    OBVIOUS
  <2>1. env' = env
    BY DEF vars, Next, Keeper, Chain, Begin, PassEnds, PickFails, GiveUp,
      Approve, Approved, ApproveFails, Kick, KickFails, Clear, ClearThrows,
      Cleared, ClearFails, Source, Hydrated, PoolDone, Rest, Land, Drop,
      Crash, PassLoans, PassFails, PassPriceless, Hydrate, HydrateLoans, Pick,
      Decide, End, Move
  <2> QED
    BY <2>1, ChainStep, LoopStep, BudgetStep, FlagsStep, PlaceStep DEF TypeOK
<1> QED
  BY <1>1, <1>2, PTL DEF Spec

-----------------------------------------------------------------------------
(***************************************************************************)
(* Fresh terms.  Between two loans of a pass the prices that are cached    *)
(* are those read since the last kick, and the snapshot is used only while *)
(* nothing was kicked.                                                     *)
(***************************************************************************)
FreshInv ==
  /\ pc = "pick" => (cached => "prices" \in fresh) /\ (again \/ "snapshot" \in fresh)
  /\ KicksOnFreshTerms

\* A pass over a manual pool acts on no loan with terms read before its last kick.
THEOREM KickFreshTerms == Spec => []KicksOnFreshTerms
<1>1. Init => FreshInv
  BY DEF Init, FreshInv, KicksOnFreshTerms
<1>2. TypeOK /\ FreshInv /\ [Next]_vars => FreshInv'
  <2> SUFFICES ASSUME TypeOK, FreshInv, [Next]_vars PROVE FreshInv'
    OBVIOUS
  <2> USE DEF FreshInv, KicksOnFreshTerms, TypeOK, PlaceOK, Acting, Discovered
  <2>1. CASE Begin
    BY <2>1 DEF Begin
  <2>2. CASE PassEnds
    BY <2>2 DEF PassEnds, LeavePool
  <2>3. CASE PickFails
    BY <2>3 DEF PickFails, LeavePool
  <2>4. CASE GiveUp
    BY <2>4 DEF GiveUp, Return
  <2>5. CASE Approve
    BY <2>5 DEF Approve
  <2>6. CASE Approved
    BY <2>6 DEF Approved
  <2>7. CASE ApproveFails
    BY <2>7 DEF ApproveFails, Return
  <2>8. CASE Kick
    BY <2>8 DEF Kick, Return
  <2>9. CASE KickFails
    BY <2>9 DEF KickFails, Return
  <2>10. CASE Clear
    BY <2>10 DEF Clear, LeavePool
  <2>11. CASE ClearThrows
    BY <2>11 DEF ClearThrows, LeavePool
  <2>12. CASE Cleared
    BY <2>12 DEF Cleared, LeavePool
  <2>13. CASE ClearFails
    BY <2>13 DEF ClearFails, LeavePool
  <2>14. CASE Source
    BY <2>14 DEF Source
  <2>15. CASE Hydrated
    BY <2>15 DEF Hydrated
  <2>16. CASE PoolDone
    BY <2>16 DEF PoolDone
  <2>17. CASE Rest
    BY <2>17 DEF Rest, ForgetCycle
  <2>18. CASE Land
    BY <2>18 DEF Land
  <2>19. CASE Drop
    BY <2>19 DEF Drop
  <2>20. CASE Crash
    BY <2>20 DEF Crash, ForgetCycle
  <2>21. ASSUME NEW p \in Pools, PassLoans(p) PROVE FreshInv'
    BY <2>21 DEF PassLoans
  <2>22. ASSUME NEW p \in Pools, PassFails(p) PROVE FreshInv'
    BY <2>22 DEF PassFails
  <2>23. ASSUME NEW p \in Pools, PassPriceless(p) PROVE FreshInv'
    BY <2>23 DEF PassPriceless
  <2>24. ASSUME NEW p \in Pools, Hydrate(p) PROVE FreshInv'
    BY <2>24 DEF Hydrate
  <2>25. ASSUME NEW p \in Pools, HydrateLoans(p) PROVE FreshInv'
    BY <2>25 DEF HydrateLoans
  <2>26. ASSUME NEW l \in Loans, Pick(l) PROVE FreshInv'
    BY <2>26 DEF Pick
  <2>27. ASSUME NEW l \in Loans, Decide(l) PROVE FreshInv'
    BY <2>27 DEF Decide
  <2>28. ASSUME NEW l \in Loans, End(l) PROVE FreshInv'
    BY <2>28 DEF End
  <2>29. ASSUME NEW l \in Loans, Move(l) PROVE FreshInv'
    BY <2>29 DEF Move
  <2>30. CASE UNCHANGED vars
    BY <2>30 DEF vars
  <2> QED
    BY <2>1, <2>2, <2>3, <2>4, <2>5, <2>6, <2>7, <2>8, <2>9, <2>10, <2>11,
      <2>12, <2>13, <2>14, <2>15, <2>16, <2>17, <2>18, <2>19, <2>20, <2>21,
      <2>22, <2>23, <2>24, <2>25, <2>26, <2>27, <2>28, <2>29, <2>30 DEF
      Next, Keeper, Chain
<1> QED
  BY <1>1, <1>2, KickTypeOK, PTL DEF Spec, FreshInv

-----------------------------------------------------------------------------
\* Where no answer is lost nothing is in flight, ...
Told == ~env.loses /\ ~env.kills

ZeroInv == Told => flying = {} /\ \A p \in Pools : zero[p] > 0 => allowance[p] = 0

\* ... and a zero is cached only when it was read or approved, and dropped by an
\* approval.
LEMMA ZeroStep == ASSUME TypeOK, ZeroInv, [Next]_vars PROVE ZeroInv'
<1> USE KickAssumption, EnvFacts DEF Told, ZeroInv, TypeOK, ChainOK, LoopOK,
  PlaceOK, Acting, None, Discovered
<1>1. CASE UNCHANGED <<env, allowance, flying, zero>>
  BY <1>1
<1>2. CASE Approved
  BY <1>2 DEF Approved, Amounts
<1>3. CASE ApproveFails
  BY <1>3 DEF ApproveFails
<1>4. CASE Kick
  BY <1>4 DEF Kick, Post
<1>5. CASE KickFails
  BY <1>5 DEF KickFails
<1>6. CASE Clear
  <2>1. CASE zero[pool] = 0 /\ allowance[pool] > 0
    BY <1>6, <2>1 DEF Clear
  <2>2. CASE ~(zero[pool] = 0 /\ allowance[pool] > 0)
    BY <1>6, <2>2 DEF Clear
  <2> QED
    BY <2>1, <2>2
<1>7. CASE Cleared
  BY <1>7 DEF Cleared
<1>8. CASE ClearFails
  BY <1>8 DEF ClearFails
<1>9. CASE Land
  BY <1>9 DEF Land
<1>10. CASE Drop
  BY <1>10 DEF Drop
<1>11. CASE Crash
  BY <1>11 DEF Crash
<1>12. ASSUME NEW l \in Loans, End(l) PROVE ZeroInv'
  BY <1>12 DEF End
<1>13. ASSUME NEW l \in Loans, Move(l) PROVE ZeroInv'
  BY <1>13 DEF Move, Bonds
<1> QED
  BY <1>1, <1>2, <1>3, <1>4, <1>5, <1>6, <1>7, <1>8, <1>9, <1>10, <1>11,
    <1>12, <1>13 DEF Next, Keeper, Chain, vars, LeavePool, Return,
    ForgetCycle, Begin, PassEnds, PickFails, GiveUp, Approve, ClearThrows,
    Source, Hydrated, PoolDone, Rest, PassLoans, PassFails, PassPriceless,
    Hydrate, HydrateLoans, Pick, Decide

\* The cached zero of a pool's allowance is true as long as no answer is lost.
THEOREM KickCachedZero == Spec => []CachedZeroIsZero
<1>1. Init => ZeroInv
  BY DEF Init, ZeroInv, None
<1>2. TypeOK /\ ZeroInv /\ [Next]_vars => ZeroInv'
  BY ZeroStep
<1>3. ZeroInv => CachedZeroIsZero
  BY DEF ZeroInv, Told, CachedZeroIsZero
<1> QED
  BY <1>1, <1>2, <1>3, KickTypeOK, PTL DEF Spec

-----------------------------------------------------------------------------
(***************************************************************************)
(* The cap.  While the budget of a pool counts, the bond locked there and  *)
(* the one about to be posted are within the baseline and the              *)
(* reservations, and nothing is posted that was not reserved under the cap.*)
(* The baseline is an upper bound because only this cycle posts bonds in a *)
(* discovered pool, and auctions that end only release them.               *)
(***************************************************************************)
Posting == pc \in Acting /\ pool \in Discovered

InCycle == pc \in {"hydrate", "pools", "decide"} \/ Posting

Counts(p) == p \in hydrated \/ (pc \in {"decide"} \cup Acting /\ p = pool)

CapInv ==
  Calm =>
    /\ flying = {}
    /\ ~InCycle => hydrated = {}
    /\ pool \notin hydrated
    /\ pc = "decide" \/ Posting => \A l \in left : seen[l] = bond[l]
    /\ Posting => /\ ask = bond[cur]
                  /\ locked[pool] + ask <= base[pool] + reserved[pool]
                  /\ base[pool] + reserved[pool] <= env.poolCap
    /\ \A p \in Discovered : Counts(p) => locked[p] <= base[p] + reserved[p]

\* Every step keeps the bonds of a counted pool within its budget.
LEMMA CapStep == ASSUME TypeOK, CapInv, [Next]_vars PROVE CapInv'
<1> USE KickAssumption, EnvFacts DEF CapInv, Calm, Posting, InCycle, Counts,
  TypeOK, ChainOK, LoopOK, BudgetOK, PlaceOK, Acting, Discovered, LoansOf
<1>1. CASE Begin
  BY <1>1 DEF Begin
<1>2. CASE PassEnds
  BY <1>2 DEF PassEnds, LeavePool
<1>3. CASE PickFails
  BY <1>3 DEF PickFails, LeavePool
<1>4. CASE GiveUp
  BY <1>4 DEF GiveUp, Return
<1>5. CASE Approve
  BY <1>5 DEF Approve
<1>6. CASE Approved
  BY <1>6 DEF Approved
<1>7. CASE ApproveFails
  BY <1>7 DEF ApproveFails, Return
<1>8. CASE Kick
  BY <1>8 DEF Kick, Return, Post, Bonds
<1>9. CASE KickFails
  BY <1>9 DEF KickFails, Return
<1>10. CASE Clear
  BY <1>10 DEF Clear, LeavePool
<1>11. CASE ClearThrows
  BY <1>11 DEF ClearThrows, LeavePool
<1>12. CASE Cleared
  BY <1>12 DEF Cleared, LeavePool
<1>13. CASE ClearFails
  BY <1>13 DEF ClearFails, LeavePool
<1>14. CASE Source
  BY <1>14 DEF Source
<1>15. CASE Hydrated
  BY <1>15 DEF Hydrated
<1>16. CASE PoolDone
  BY <1>16 DEF PoolDone
<1>17. CASE Rest
  BY <1>17 DEF Rest, ForgetCycle
<1>18. CASE Land
  BY <1>18 DEF Land
<1>19. CASE Drop
  BY <1>19 DEF Drop
<1>20. CASE Crash
  BY <1>20 DEF Crash, ForgetCycle
<1>21. ASSUME NEW p \in Pools, PassLoans(p) PROVE CapInv'
  BY <1>21 DEF PassLoans
<1>22. ASSUME NEW p \in Pools, PassFails(p) PROVE CapInv'
  BY <1>22 DEF PassFails
<1>23. ASSUME NEW p \in Pools, PassPriceless(p) PROVE CapInv'
  BY <1>23 DEF PassPriceless
<1>24. ASSUME NEW p \in Pools, Hydrate(p) PROVE CapInv'
  BY <1>24 DEF Hydrate
<1>25. ASSUME NEW p \in Pools, HydrateLoans(p) PROVE CapInv'
  BY <1>25 DEF HydrateLoans, Bonds
<1>26. ASSUME NEW l \in Loans, Pick(l) PROVE CapInv'
  BY <1>26 DEF Pick
<1>27. ASSUME NEW l \in Loans, Decide(l) PROVE CapInv'
  BY <1>27 DEF Decide, Fits, Bonds
<1>28. ASSUME NEW l \in Loans, End(l) PROVE CapInv'
  BY <1>28 DEF End
<1>29. ASSUME NEW l \in Loans, Move(l) PROVE CapInv'
  BY <1>29 DEF Move
<1>30. CASE UNCHANGED vars
  BY <1>30 DEF vars
<1> QED
  BY <1>1, <1>2, <1>3, <1>4, <1>5, <1>6, <1>7, <1>8, <1>9, <1>10, <1>11,
    <1>12, <1>13, <1>14, <1>15, <1>16, <1>17, <1>18, <1>19, <1>20, <1>21,
    <1>22, <1>23, <1>24, <1>25, <1>26, <1>27, <1>28, <1>29, <1>30 DEF Next,
    Keeper, Chain

\* A kick in a discovered pool never takes the keeper's locked bond there above
\* the pool's cap, for any loans, bonds, caps and numbers of cycles.
THEOREM KickWithinPoolCap == Spec => KicksWithinPoolCap
<1>1. Init => CapInv
  BY DEF Init, CapInv, Posting, InCycle, Counts, Acting
<1>2. TypeOK /\ CapInv /\ [Next]_vars => CapInv'
  BY CapStep
<1>3. TypeOK /\ CapInv /\ [Next]_vars =>
        [Calm => \A p \in Discovered : locked'[p] > locked[p] => locked'[p] <= env.poolCap]_vars
  <2> SUFFICES ASSUME TypeOK, CapInv, [Next]_vars, Calm,
                      NEW p \in Discovered, locked'[p] > locked[p]
               PROVE locked'[p] <= env.poolCap
    OBVIOUS
  <2> USE KickAssumption, EnvFacts DEF TypeOK, ChainOK, LoopOK, PlaceOK, BudgetOK, Acting, Discovered
  <2>1. CASE UNCHANGED locked
    BY <2>1
  <2>2. CASE Kick
    <3>1. locked' = [locked EXCEPT ![pool] = @ + bond[cur]]
      BY <2>2 DEF Kick, Post
    <3>2. p = pool /\ pc = "submit"
      BY <2>2, <3>1 DEF Kick
    <3> QED
      BY <3>1, <3>2 DEF CapInv, Posting, Bonds
  <2>3. CASE Land
    BY <2>3 DEF Land, CapInv
  <2>4. ASSUME NEW l \in Loans, End(l) PROVE FALSE
    BY <2>4 DEF End
  <2> QED
    BY <2>1, <2>2, <2>3, <2>4 DEF Next, Keeper, Chain, vars, Begin, PassEnds,
      PickFails, GiveUp, Approve, Approved, ApproveFails, KickFails, Clear,
      ClearThrows, Cleared, ClearFails, Source, Hydrated, PoolDone, Rest,
      Drop, Crash, PassLoans, PassFails, PassPriceless, Hydrate, HydrateLoans,
      Pick, Decide, Move
<1> QED
  BY <1>1, <1>2, <1>3, KickTypeOK, PTL DEF Spec, KicksWithinPoolCap
=============================================================================
