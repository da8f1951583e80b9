-------------------------- MODULE RecoveryProofs --------------------------
(***************************************************************************)
(* The money that comes back to the keeper: proofs about BondRecovery (the *)
(* loops that settle auctions and withdraw bonds) and about LpRewards (the *)
(* loop that redeems LP rewards).                                          *)
(***************************************************************************)
EXTENDS BondRecovery, LpRewards, FiniteSetTheorems, TLAPS

\* The registry holds whom a loop is settling.
Registered == \A l \in Loops : pc[l] \in Settling => current[l] \in active

\* The keeper has no more bonds in the pool than it may have.
BondsBounded == Cardinality(Locked) + claimable <= MaxBonds

\* While a scan, or the cache, says that there was no auction, those that began since
\* then are no older than it.
CacheDated ==
  ~env.lags =>
    /\ \A l \in Loops : pc[l] = "check" /\ ~listed[l] /\ elapsed[l] < Window =>
                          \A b \in Borrowers : age[b] <= elapsed[l]
    /\ UsesCache => \A b \in Borrowers : age[b] <= cacheAge

BondInv == TypeOK /\ Registered /\ OneSettlerEach /\ BondsBounded /\ CacheDated

LEMMA LoopNames == Loops = {"bond", "settle", "reward"}
  BY DEF Loops

-----------------------------------------------------------------------------
(* The bonds of the keeper. *)

\* An auction that ends frees at most the bond that it locks.
LEMMA EndsBounded ==
  ASSUME TypeOK, BondsBounded, NEW b \in Borrowers, age[b] >= 0, Ends(b)
  PROVE  BondsBounded' /\ PoolOK' /\ mine' \in [Borrowers -> BOOLEAN]
<1> USE BondAssumption DEF TypeOK, PoolOK, FlagsOK
<1>1. IsFiniteSet(Locked) /\ IsFiniteSet(Locked')
  <2>1. Locked \subseteq Borrowers /\ Locked' \subseteq Borrowers
    BY DEF Locked, Alive
  <2> QED BY <2>1, FS_Subset
<1>2. Cardinality(Locked) \in Nat /\ Cardinality(Locked') \in Nat
  BY <1>1, FS_CardinalityType
<1>3. Locked' = Locked \ {b}
  BY DEF Ends, Locked, Alive
<1>4. CASE mine[b]
  <2>1. b \in Locked
    BY <1>4 DEF Locked, Alive
  <2>2. Cardinality(Locked') = Cardinality(Locked) - 1
    BY <1>1, <1>3, <2>1, FS_RemoveElement
  <2>3. BondsBounded' /\ claimable' \in 0 .. MaxBonds
    BY <1>2, <1>4, <2>2 DEF Ends, BondsBounded
  <2> QED BY <2>3 DEF Ends
<1>5. CASE ~mine[b]
  <2>1. Locked' = Locked
    BY <1>3, <1>5 DEF Locked, Alive
  <2>2. BondsBounded' /\ claimable' \in 0 .. MaxBonds
    BY <1>2, <1>5, <2>1 DEF Ends, BondsBounded
  <2> QED BY <2>2 DEF Ends
<1> QED BY <1>4, <1>5

LEMMA KickedBounded ==
  ASSUME TypeOK, BondsBounded, NEW b \in Borrowers, NEW own \in BOOLEAN, Kicked(b, own),
         own => Cardinality(Locked) + claimable < MaxBonds
  PROVE  BondsBounded'
<1> USE BondAssumption DEF TypeOK, PoolOK, FlagsOK
<1>1. IsFiniteSet(Locked) /\ IsFiniteSet(Locked')
  <2>1. Locked \subseteq Borrowers /\ Locked' \subseteq Borrowers
    BY DEF Locked, Alive
  <2> QED BY <2>1, FS_Subset
<1>2. Cardinality(Locked) \in Nat /\ Cardinality(Locked') \in Nat
  BY <1>1, FS_CardinalityType
<1>3. claimable' = claimable /\ b \notin Locked
  BY DEF Kicked, Locked, Alive
<1>4. CASE own
  <2>1. Locked' = Locked \cup {b}
    BY <1>4 DEF Kicked, Locked, Alive
  <2>2. Cardinality(Locked') = Cardinality(Locked) + 1
    BY <1>1, <1>3, <2>1, FS_AddElement
  <2> QED BY <1>2, <1>3, <1>4, <2>2 DEF BondsBounded
<1>5. CASE ~own
  <2>1. Locked' = Locked
    BY <1>5 DEF Kicked, Locked, Alive
  <2> QED BY <1>3, <2>1 DEF BondsBounded
<1> QED BY <1>4, <1>5

LEMMA SettleBounded ==
  ASSUME TypeOK, BondsBounded, NEW b \in Borrowers, SettleOnChain(b)
  PROVE  BondsBounded' /\ PoolOK' /\ mine' \in [Borrowers -> BOOLEAN]
<1>1. age[b] >= 0
  BY BondAssumption DEF TypeOK, PoolOK, SettleOnChain
<1>2. CASE bad[b] = 1
  BY <1>1, <1>2, EndsBounded DEF SettleOnChain
<1>3. CASE bad[b] # 1
  <2>1. UNCHANGED <<age, mine, claimable>>
    BY <1>3 DEF SettleOnChain
  <2>2. bad' = [bad EXCEPT ![b] = @ - 1] /\ bad[b] - 1 \in 0 .. MaxParts
    BY <1>3, BondAssumption DEF SettleOnChain, TypeOK, PoolOK
  <2>3. PoolOK' /\ mine' \in [Borrowers -> BOOLEAN]
    BY <1>1, <2>1, <2>2 DEF TypeOK, PoolOK, FlagsOK
  <2> QED BY <2>1, <2>3 DEF BondsBounded, Locked, Alive
<1> QED BY <1>2, <1>3

LEMMA BondTypes ==
  ASSUME TypeOK, Registered, BondsBounded, [Next]_vars
  PROVE  TypeOK'
<1> USE BondAssumption DEF TypeOK, PoolOK, SharedOK, ScanOK, FlagsOK, poolState, cache, scan, work, Loops
<1>1. CASE Tick
  BY <1>1 DEF Tick, Grown
<1>2. CASE KickDone
  <2>1. idle' \in {0, idle}
    BY <1>2 DEF KickDone
  <2>2. UNCHANGED <<env, age, mine, bad, claimable, active, cacheAge, cacheEmpty, pc, elapsed,
                    listed, young, retryable, todo, ripe, found, current, iteration, seen>>
    BY <1>2 DEF KickDone
  <2>3. kicking' \in BOOLEAN
    BY <1>2 DEF KickDone
  <2> QED BY <2>1, <2>2, <2>3
<1>3. ASSUME NEW b \in Borrowers, Kick(b)
      PROVE  TypeOK'
  BY <1>3 DEF Kick, Kicked
<1>4. ASSUME NEW b \in Borrowers, OtherKick(b)
      PROVE  TypeOK'
  BY <1>4 DEF OtherKick, Kicked
<1>5. ASSUME NEW b \in Borrowers, Drain(b)
      PROVE  TypeOK'
  BY <1>5 DEF Drain
<1>6. ASSUME NEW b \in Borrowers, Close(b)
      PROVE  TypeOK'
  <2>1. PoolOK' /\ mine' \in [Borrowers -> BOOLEAN]
    <3> HIDE DEF TypeOK, PoolOK
    <3> QED BY <1>6, EndsBounded DEF Close
  <2> QED BY <1>6, <2>1 DEF Close
<1>7. ASSUME NEW l \in Loops, Ask(l)
      PROVE  TypeOK'
  BY <1>7 DEF Ask, At, Begins
<1>8. ASSUME NEW l \in Loops, Answer(l)
      PROVE  TypeOK'
  <2>1. PICK list \in SUBSET Borrowers, old \in SUBSET Borrowers :
          /\ listed' = [listed EXCEPT ![l] = list # {}]
          /\ todo' = [todo EXCEPT ![l] = old]
          /\ young' = [young EXCEPT ![l] = old # list]
    BY <1>8 DEF Answer, Alive
  <2>2. (list # {}) \in BOOLEAN /\ (old # list) \in BOOLEAN
    OBVIOUS
  <2> QED BY <1>8, <2>1, <2>2 DEF Answer, At
<1>9. ASSUME NEW l \in Loops, AskFails(l)
      PROVE  TypeOK'
  BY <1>9 DEF AskFails, At
<1>10. ASSUME NEW l \in Loops, Checked(l)
      PROVE  TypeOK'
  <2>1. cacheAge' \in 0 .. Window /\ cacheEmpty' \in BOOLEAN
    <3>1. CASE Cacheable(l)
      BY <1>10, <3>1 DEF Checked
    <3>2. CASE ~Cacheable(l)
      BY <1>10, <3>2 DEF Checked
    <3> QED BY <3>1, <3>2
  <2> QED BY <1>10, <2>1 DEF Checked, At
<1>11. ASSUME NEW l \in Loops, NEW b \in Borrowers, Check(l, b)
      PROVE  TypeOK'
  BY <1>11 DEF Check
<1>12. ASSUME NEW l \in Loops, NEW b \in Borrowers, CheckFails(l, b)
      PROVE  TypeOK'
  <2>1. retryable' \in [Loops -> BOOLEAN]
    BY <1>12 DEF CheckFails
  <2> QED BY <1>12, <2>1 DEF CheckFails
<1>13. ASSUME NEW l \in Loops, NEW b \in Borrowers, PassOver(l, b)
      PROVE  TypeOK'
  BY <1>13 DEF PassOver
<1>14. ASSUME NEW l \in Loops, NEW b \in Borrowers, Claim(l, b)
      PROVE  TypeOK'
  BY <1>14 DEF Claim, At, Settling
<1>15. ASSUME NEW l \in Loops, Recheck(l)
      PROVE  TypeOK'
  BY <1>15 DEF Recheck, At
<1>16. ASSUME NEW l \in Loops, GivesUp(l)
      PROVE  TypeOK'
  BY <1>16 DEF GivesUp, At, Release, Settling
<1>17. ASSUME NEW l \in Loops, Settle(l)
      PROVE  TypeOK'
  <2>1. current[l] \in Borrowers
    BY <1>17 DEF Settle, At, Registered, Settling
  <2>2. PoolOK' /\ mine' \in [Borrowers -> BOOLEAN]
    <3> HIDE DEF TypeOK, PoolOK
    <3> QED BY <1>17, <2>1, SettleBounded DEF Settle
  <2> QED BY <1>17, <2>2 DEF Settle, At
<1>18. ASSUME NEW l \in Loops, SettleFails(l)
      PROVE  TypeOK'
  BY <1>18 DEF SettleFails, At, Release, Settling
<1>19. ASSUME NEW l \in Loops, SettleLost(l)
      PROVE  TypeOK'
  <2>1. current[l] \in Borrowers
    BY <1>19 DEF SettleLost, At, Registered, Settling
  <2>2. PoolOK' /\ mine' \in [Borrowers -> BOOLEAN]
    <3> HIDE DEF TypeOK, PoolOK
    <3> QED BY <1>19, <2>1, SettleBounded DEF SettleLost
  <2> QED BY <1>19, <2>2 DEF SettleLost, At, Release
<1>20. ASSUME NEW l \in Loops, Iterate(l)
      PROVE  TypeOK'
  BY <1>20 DEF Iterate, At
<1>21. ASSUME NEW l \in Loops, SettleOver(l)
      PROVE  TypeOK'
  BY <1>21 DEF SettleOver, At, Release, Settling
<1>22. ASSUME NEW l \in Loops, Processed(l)
      PROVE  TypeOK'
  BY <1>22 DEF Processed, At
<1>23. CASE ScanCached
  BY <1>23 DEF ScanCached, At
<1>24. CASE BondSkip
  BY <1>24 DEF BondSkip
<1>25. CASE BondAsk
  BY <1>25 DEF BondAsk, At, Unseen
<1>26. CASE BondWithdraws
  BY <1>26 DEF BondWithdraws, At, Unseen
<1>27. CASE BondSettles
  BY <1>27 DEF BondSettles, At, Unseen
<1>28. CASE BondLeaves
  BY <1>28 DEF BondLeaves, At, Unseen
<1>29. CASE BondIdle
  BY <1>29 DEF BondIdle, At
<1>30. CASE BondReread
  BY <1>30 DEF BondReread, At
<1>31. CASE BondWithdraw
  BY <1>31 DEF BondWithdraw, At
<1>32. CASE BondWithdrawFails
  BY <1>32 DEF BondWithdrawFails, At
<1>33. CASE UNCHANGED vars
  BY <1>33 DEF vars
<1> QED
  BY <1>1, <1>2, <1>3, <1>4, <1>5, <1>6, <1>7, <1>8, <1>9, <1>10, <1>11, <1>12, <1>13, <1>14, <1>15, <1>16, <1>17, <1>18, <1>19, <1>20, <1>21, <1>22, <1>23, <1>24, <1>25, <1>26, <1>27, <1>28, <1>29, <1>30, <1>31, <1>32, <1>33
     DEF Next, PoolStep, LoopStep, ScanStep, ProcessStep, BondStep

LEMMA RegistryStep ==
  ASSUME TypeOK, Registered, OneSettlerEach, [Next]_vars
  PROVE  Registered' /\ OneSettlerEach'
<1> USE DEF TypeOK, SharedOK, ScanOK, Registered, OneSettlerEach, Settling, work, Loops
<1>1. CASE Tick
  BY <1>1 DEF Tick
<1>2. CASE KickDone
  BY <1>2 DEF KickDone
<1>3. ASSUME NEW b \in Borrowers, Kick(b)
      PROVE  Registered' /\ OneSettlerEach'
  BY <1>3 DEF Kick, Kicked
<1>4. ASSUME NEW b \in Borrowers, OtherKick(b)
      PROVE  Registered' /\ OneSettlerEach'
  BY <1>4 DEF OtherKick, Kicked
<1>5. ASSUME NEW b \in Borrowers, Drain(b)
      PROVE  Registered' /\ OneSettlerEach'
  BY <1>5 DEF Drain
<1>6. ASSUME NEW b \in Borrowers, Close(b)
      PROVE  Registered' /\ OneSettlerEach'
  BY <1>6 DEF Close
<1>7. ASSUME NEW l \in Loops, Ask(l)
      PROVE  Registered' /\ OneSettlerEach'
  BY <1>7 DEF Ask, At, Begins
<1>8. ASSUME NEW l \in Loops, Answer(l)
      PROVE  Registered' /\ OneSettlerEach'
  BY <1>8 DEF Answer, At
<1>9. ASSUME NEW l \in Loops, AskFails(l)
      PROVE  Registered' /\ OneSettlerEach'
  BY <1>9 DEF AskFails, At
<1>10. ASSUME NEW l \in Loops, Checked(l)
      PROVE  Registered' /\ OneSettlerEach'
  BY <1>10 DEF Checked, At
<1>11. ASSUME NEW l \in Loops, NEW b \in Borrowers, Check(l, b)
      PROVE  Registered' /\ OneSettlerEach'
  BY <1>11 DEF Check
<1>12. ASSUME NEW l \in Loops, NEW b \in Borrowers, CheckFails(l, b)
      PROVE  Registered' /\ OneSettlerEach'
  BY <1>12 DEF CheckFails
<1>13. ASSUME NEW l \in Loops, NEW b \in Borrowers, PassOver(l, b)
      PROVE  Registered' /\ OneSettlerEach'
  BY <1>13 DEF PassOver
<1>14. ASSUME NEW l \in Loops, NEW b \in Borrowers, Claim(l, b)
      PROVE  Registered' /\ OneSettlerEach'
  BY <1>14 DEF Claim, At
<1>15. ASSUME NEW l \in Loops, Recheck(l)
      PROVE  Registered' /\ OneSettlerEach'
  BY <1>15 DEF Recheck, At
<1>16. ASSUME NEW l \in Loops, GivesUp(l)
      PROVE  Registered' /\ OneSettlerEach'
  BY <1>16 DEF GivesUp, At, Release
<1>17. ASSUME NEW l \in Loops, Settle(l)
      PROVE  Registered' /\ OneSettlerEach'
  BY <1>17 DEF Settle, At
<1>18. ASSUME NEW l \in Loops, SettleFails(l)
      PROVE  Registered' /\ OneSettlerEach'
  BY <1>18 DEF SettleFails, At, Release
<1>19. ASSUME NEW l \in Loops, SettleLost(l)
      PROVE  Registered' /\ OneSettlerEach'
  BY <1>19 DEF SettleLost, At, Release
<1>20. ASSUME NEW l \in Loops, Iterate(l)
      PROVE  Registered' /\ OneSettlerEach'
  BY <1>20 DEF Iterate, At
<1>21. ASSUME NEW l \in Loops, SettleOver(l)
      PROVE  Registered' /\ OneSettlerEach'
  BY <1>21 DEF SettleOver, At, Release
<1>22. ASSUME NEW l \in Loops, Processed(l)
      PROVE  Registered' /\ OneSettlerEach'
  BY <1>22 DEF Processed, At
<1>23. CASE ScanCached
  BY <1>23 DEF ScanCached, At
<1>24. CASE BondSkip
  BY <1>24 DEF BondSkip
<1>25. CASE BondAsk
  BY <1>25 DEF BondAsk, At
<1>26. CASE BondWithdraws
  BY <1>26 DEF BondWithdraws, At
<1>27. CASE BondSettles
  BY <1>27 DEF BondSettles, At
<1>28. CASE BondLeaves
  BY <1>28 DEF BondLeaves, At
<1>29. CASE BondIdle
  BY <1>29 DEF BondIdle, At
<1>30. CASE BondReread
  BY <1>30 DEF BondReread, At
<1>31. CASE BondWithdraw
  BY <1>31 DEF BondWithdraw, At
<1>32. CASE BondWithdrawFails
  BY <1>32 DEF BondWithdrawFails, At
<1>33. CASE UNCHANGED vars
  BY <1>33 DEF vars, work
<1> QED
  BY <1>1, <1>2, <1>3, <1>4, <1>5, <1>6, <1>7, <1>8, <1>9, <1>10, <1>11, <1>12, <1>13, <1>14, <1>15, <1>16, <1>17, <1>18, <1>19, <1>20, <1>21, <1>22, <1>23, <1>24, <1>25, <1>26, <1>27, <1>28, <1>29, <1>30, <1>31, <1>32, <1>33
     DEF Next, PoolStep, LoopStep, ScanStep, ProcessStep, BondStep

\* Ticks leave the locked bonds alone; most steps of a loop, the whole pool.
LEMMA BoundedStep ==
  ASSUME TypeOK, Registered, BondsBounded, [Next]_vars
  PROVE  BondsBounded'
<1> USE BondAssumption
<1>1. ASSUME UNCHANGED <<age, mine, claimable>>
      PROVE  BondsBounded'
  BY <1>1 DEF BondsBounded, Locked, Alive
<1>2. CASE Tick
  <2>1. Locked' = Locked /\ claimable' = claimable
    BY <1>2 DEF Tick, Grown, Locked, Alive, TypeOK, PoolOK
  <2> QED BY <2>1 DEF BondsBounded
<1>3. ASSUME NEW b \in Borrowers, Kick(b) \/ OtherKick(b)
      PROVE  BondsBounded'
  BY <1>3, KickedBounded DEF Kick, OtherKick
<1>4. ASSUME NEW b \in Borrowers, Close(b)
      PROVE  BondsBounded'
  BY <1>4, EndsBounded DEF Close
<1>5. ASSUME NEW l \in Loops, Settle(l) \/ SettleLost(l)
      PROVE  BondsBounded'
  <2>1. current[l] \in Borrowers
    BY <1>5 DEF Settle, SettleLost, At, Registered, Settling, TypeOK, SharedOK
  <2> QED BY <1>5, <2>1, SettleBounded DEF Settle, SettleLost
<1>6. CASE BondWithdraw
  <2>1. Locked' = Locked /\ claimable' = 0
    BY <1>6 DEF BondWithdraw, Locked, Alive
  <2>2. IsFiniteSet(Locked)
    <3>1. Locked \subseteq Borrowers
      BY DEF Locked, Alive
    <3> QED BY <3>1, FS_Subset
  <2> QED BY <2>1, <2>2, FS_CardinalityType DEF BondsBounded, TypeOK, PoolOK
<1>7. CASE KickDone \/ \E b \in Borrowers : Drain(b)
  BY <1>1, <1>7 DEF KickDone, Drain, poolState
<1>8. ASSUME NEW l \in Loops, ScanStep(l)
      PROVE  BondsBounded'
  BY <1>1, <1>8 DEF ScanStep, Ask, Answer, AskFails, Check, CheckFails, Checked, poolState
<1>9. ASSUME NEW l \in Loops, ProcessStep(l), ~Settle(l), ~SettleLost(l)
      PROVE  BondsBounded'
  BY <1>1, <1>9 DEF ProcessStep, PassOver, Claim, Recheck, GivesUp, SettleFails, Iterate,
                    SettleOver, Processed, poolState
<1>10. CASE BondStep /\ ~BondWithdraw
  BY <1>1, <1>10 DEF BondStep, ScanCached, BondSkip, BondAsk, BondWithdraws, BondSettles,
                     BondLeaves, BondIdle, BondReread, BondWithdrawFails, poolState
<1>11. CASE UNCHANGED vars
  BY <1>1, <1>11 DEF vars, poolState
<1> QED
  BY <1>2, <1>3, <1>4, <1>5, <1>6, <1>7, <1>8, <1>9, <1>10, <1>11
     DEF Next, PoolStep, LoopStep

\* A settle call, whatever it takes away, makes no auction older.
LEMMA SettleAges ==
  ASSUME TypeOK, NEW b \in Borrowers, SettleOnChain(b)
  PROVE  \A c \in Borrowers : age'[c] <= age[c]
  BY BondAssumption DEF SettleOnChain, Ends, TypeOK, PoolOK

\* The parts of the state that CacheDated speaks of.
LEMMA AgesKept ==
  ASSUME TypeOK, CacheDated, env' = env, cache' = cache,
         \A b \in Borrowers : age'[b] <= age[b] \/ age'[b] = 0,
         age' \in [Borrowers -> -1 .. MinAge],
         \A l \in Loops : pc'[l] = "check" =>
            pc[l] = "check" /\ listed'[l] = listed[l] /\ elapsed'[l] = elapsed[l]
  PROVE  CacheDated'
<1> USE BondAssumption DEF TypeOK, PoolOK, SharedOK, ScanOK, FlagsOK, cache
<1>1. ASSUME ~env.lags, NEW l \in Loops, pc'[l] = "check", ~listed'[l], elapsed'[l] < Window,
             NEW b \in Borrowers
      PROVE  age'[b] <= elapsed'[l]
  <2>1. age[b] <= elapsed[l] /\ elapsed'[l] = elapsed[l]
    BY <1>1 DEF CacheDated
  <2>2. age[b] \in -1 .. MinAge /\ age'[b] \in -1 .. MinAge /\ elapsed[l] \in 0 .. Window
    BY <1>1
  <2> QED BY <1>1, <2>1, <2>2
<1>2. ASSUME ~env.lags, UsesCache', NEW b \in Borrowers
      PROVE  age'[b] <= cacheAge'
  <2>1. age[b] <= cacheAge /\ cacheAge' = cacheAge
    BY <1>2 DEF CacheDated, UsesCache
  <2>2. age[b] \in -1 .. MinAge /\ age'[b] \in -1 .. MinAge /\ cacheAge \in 0 .. Window
    BY <1>2
  <2> QED BY <1>2, <2>1, <2>2
<1> QED BY <1>1, <1>2 DEF CacheDated

LEMMA DatedStep ==
  ASSUME BondInv, TypeOK', [Next]_vars
  PROVE  CacheDated'
<1> USE BondAssumption
<1>1. TypeOK /\ Registered /\ CacheDated /\ env' = env
  <2>1. env' = env
    BY DEF Next, PoolStep, LoopStep, ScanStep, ProcessStep, BondStep, Tick, KickDone, Kick,
           OtherKick, Kicked, Drain, Close, Ask, Answer, AskFails, Check, CheckFails, Checked,
           PassOver, Claim, Recheck, GivesUp, Settle, SettleFails, SettleLost, Iterate,
           SettleOver, Processed, ScanCached, BondSkip, BondAsk, BondWithdraws, BondSettles,
           BondLeaves, BondIdle, BondReread, BondWithdraw, BondWithdrawFails, vars
  <2> QED BY <2>1 DEF BondInv
<1>2. age' \in [Borrowers -> -1 .. MinAge]
  BY DEF TypeOK, PoolOK
<1>3. CASE Tick
  <2> USE <1>1 DEF TypeOK, PoolOK, SharedOK, ScanOK, FlagsOK
  <2>1. ASSUME ~env.lags, NEW l \in Loops, pc'[l] = "check", ~listed'[l],
               elapsed'[l] < Window, NEW b \in Borrowers
        PROVE  age'[b] <= elapsed'[l]
    <3>1. pc[l] = "check" /\ ~listed[l] /\ elapsed'[l] = Grown(elapsed[l], Window)
      BY <1>3, <2>1 DEF Tick
    <3>2. elapsed[l] \in 0 .. Window /\ age[b] \in -1 .. MinAge
      BY <2>1
    <3>3. elapsed[l] < Window /\ elapsed'[l] = elapsed[l] + 1
      BY <2>1, <3>1, <3>2 DEF Grown
    <3>4. age[b] <= elapsed[l]
      BY <2>1, <3>1, <3>3 DEF CacheDated
    <3>5. age'[b] <= age[b] + 1
      BY <1>3, <3>2 DEF Tick, Grown
    <3> QED BY <3>2, <3>3, <3>4, <3>5, <1>2
  <2>2. ASSUME ~env.lags, UsesCache', NEW b \in Borrowers
        PROVE  age'[b] <= cacheAge'
    <3>1. cacheEmpty /\ cacheAge < Window /\ cacheAge' = cacheAge + 1
      BY <1>3, <2>2 DEF Tick, UsesCache, Grown
    <3>2. age[b] <= cacheAge /\ age[b] \in -1 .. MinAge
      BY <2>2, <3>1 DEF CacheDated, UsesCache
    <3>3. age'[b] <= age[b] + 1
      BY <1>3, <3>2 DEF Tick, Grown
    <3> QED BY <3>1, <3>2, <3>3, <1>2
  <2> QED BY <2>1, <2>2, <1>1 DEF CacheDated
<1>4. ASSUME NEW b \in Borrowers, Kick(b) \/ OtherKick(b) \/ Drain(b) \/ Close(b)
      PROVE  CacheDated'
  <2>1. \A c \in Borrowers : age'[c] <= age[c] \/ age'[c] = 0
    BY <1>1, <1>4 DEF Kick, OtherKick, Kicked, Drain, Close, Ends, TypeOK, PoolOK
  <2>2. UNCHANGED <<cache, pc, listed, elapsed>>
    BY <1>4 DEF Kick, OtherKick, Kicked, Drain, Close, scan
  <2> QED BY <1>1, <1>2, <2>1, <2>2, AgesKept
<1>5. ASSUME NEW l \in Loops, Settle(l) \/ SettleLost(l)
      PROVE  CacheDated'
  <2>1. current[l] \in Borrowers
    BY <1>1, <1>5 DEF Settle, SettleLost, At, Registered, Settling, TypeOK, SharedOK
  <2>2. \A c \in Borrowers : age'[c] <= age[c]
    BY <1>1, <1>5, <2>1, SettleAges DEF Settle, SettleLost
  <2>3. UNCHANGED <<cache, listed, elapsed>>
    BY <1>5 DEF Settle, SettleLost, scan
  <2>4. \A k \in Loops : pc'[k] = "check" => pc[k] = "check"
    BY <1>1, <1>5 DEF Settle, SettleLost, At, TypeOK, ScanOK
  <2> QED BY <1>1, <1>2, <2>2, <2>3, <2>4, AgesKept
<1>6. ASSUME UNCHANGED <<age, cache>>,
             \A k \in Loops : pc'[k] = "check" =>
               pc[k] = "check" /\ listed'[k] = listed[k] /\ elapsed'[k] = elapsed[k]
      PROVE  CacheDated'
  <2>1. \A b \in Borrowers : age'[b] <= age[b]
    BY <1>1, <1>6 DEF TypeOK, PoolOK
  <2> QED BY <1>1, <1>2, <1>6, <2>1, AgesKept
<1>7. ASSUME NEW l \in Loops, Ask(l) \/ AskFails(l)
      PROVE  CacheDated'
  <2>1. UNCHANGED <<age, cache, listed>>
    BY <1>7 DEF Ask, AskFails, poolState
  <2>2. \A k \in Loops : pc'[k] = "check" => pc[k] = "check" /\ elapsed'[k] = elapsed[k]
    BY <1>1, <1>7 DEF Ask, AskFails, Begins, At, TypeOK, ScanOK
  <2> QED BY <1>6, <2>1, <2>2
<1>8. ASSUME NEW l \in Loops, Answer(l)
      PROVE  CacheDated'
  <2> USE DEF TypeOK, PoolOK, SharedOK, ScanOK, FlagsOK
  <2>1. UNCHANGED <<age, cache, elapsed>> /\ pc[l] = "asked" /\ pc' = [pc EXCEPT ![l] = "check"]
    BY <1>8 DEF Answer, At, poolState
  <2>2. ASSUME ~env.lags, ~listed'[l], NEW b \in Borrowers
        PROVE  age[b] = -1
    <3>1. listed' = [listed EXCEPT ![l] = (Alive # {})]
      BY <1>8, <2>2 DEF Answer
    <3>2. Alive = {}
      BY <1>1, <2>2, <3>1
    <3> QED BY <1>1, <2>2, <3>2 DEF Alive
  <2>3. \A k \in Loops \ {l} : listed'[k] = listed[k] /\ pc'[k] = pc[k]
    BY <1>1, <1>8, <2>1 DEF Answer
  <2>4. ASSUME ~env.lags, NEW k \in Loops, pc'[k] = "check", ~listed'[k],
               elapsed'[k] < Window, NEW b \in Borrowers
        PROVE  age'[b] <= elapsed'[k]
    <3>1. elapsed[k] \in 0 .. Window
      BY <1>1
    <3>2. CASE k = l
      BY <2>1, <2>2, <2>4, <3>1, <3>2
    <3>3. CASE k # l
      BY <1>1, <2>1, <2>3, <2>4, <3>3 DEF CacheDated
    <3> QED BY <3>2, <3>3
  <2>5. UsesCache' = UsesCache /\ cacheAge' = cacheAge
    BY <2>1 DEF UsesCache, cache
  <2> QED BY <1>1, <2>1, <2>4, <2>5 DEF CacheDated
<1>9. ASSUME NEW l \in Loops, Checked(l)
      PROVE  CacheDated'
  <2> USE DEF TypeOK, PoolOK, SharedOK, ScanOK, FlagsOK
  <2>1. age' = age /\ pc[l] = "check"
        /\ \A k \in Loops : pc'[k] = "check" =>
             pc[k] = "check" /\ listed'[k] = listed[k] /\ elapsed'[k] = elapsed[k]
    BY <1>1, <1>9 DEF Checked, At, poolState
  <2>2. CASE ~Cacheable(l)
    BY <1>6, <1>9, <2>1, <2>2 DEF Checked
  <2>3. CASE Cacheable(l)
    <3>1. cacheAge' = elapsed[l] /\ cacheEmpty' = (found[l] = {})
      BY <1>9, <2>3 DEF Checked
    <3>2. UsesCache' => elapsed[l] < Window /\ ~listed[l]
      BY <2>3, <3>1 DEF UsesCache, Cacheable
    <3>3. ~env.lags /\ UsesCache' => \A b \in Borrowers : age'[b] <= cacheAge'
      BY <1>1, <2>1, <3>1, <3>2 DEF CacheDated
    <3>4. ASSUME ~env.lags, NEW k \in Loops, pc'[k] = "check", ~listed'[k],
                 elapsed'[k] < Window, NEW b \in Borrowers
          PROVE  age'[b] <= elapsed'[k]
      BY <1>1, <2>1, <3>4 DEF CacheDated
    <3> QED BY <1>1, <3>3, <3>4 DEF CacheDated
  <2> QED BY <2>2, <2>3
<1>10. ASSUME NEW l \in Loops, NEW b \in Borrowers, Check(l, b) \/ CheckFails(l, b)
       PROVE  CacheDated'
  BY <1>6, <1>10 DEF Check, CheckFails, poolState
<1>11. ASSUME NEW l \in Loops, ProcessStep(l), ~Settle(l), ~SettleLost(l)
       PROVE  CacheDated'
  <2>1. UNCHANGED <<age, cache, listed, elapsed>>
    BY <1>11 DEF ProcessStep, PassOver, Claim, Recheck, GivesUp, SettleFails, Iterate,
                 SettleOver, Processed, poolState, scan
  <2>2. \A k \in Loops : pc'[k] = "check" => pc[k] = "check"
    BY <1>1, <1>11 DEF ProcessStep, PassOver, Claim, Recheck, GivesUp, SettleFails, Iterate,
                       SettleOver, Processed, At, TypeOK, ScanOK
  <2> QED BY <1>6, <2>1, <2>2
<1>12. CASE BondStep \/ KickDone \/ UNCHANGED vars
  <2>1. UNCHANGED <<age, cache, listed, elapsed>>
    BY <1>12 DEF BondStep, ScanCached, BondSkip, BondAsk, BondWithdraws, BondSettles,
                 BondLeaves, BondIdle, BondReread, BondWithdraw, BondWithdrawFails, KickDone,
                 vars, poolState, scan
  <2>2. \A k \in Loops : pc'[k] = "check" => pc[k] = "check"
    BY <1>1, <1>12 DEF BondStep, ScanCached, BondSkip, BondAsk, BondWithdraws, BondSettles,
                       BondLeaves, BondIdle, BondReread, BondWithdraw, BondWithdrawFails,
                       KickDone, vars, At, TypeOK, ScanOK, Loops
  <2> QED BY <1>6, <2>1, <2>2
<1> QED
  BY <1>3, <1>4, <1>5, <1>7, <1>8, <1>9, <1>10, <1>11, <1>12
     DEF Next, PoolStep, LoopStep, ScanStep

LEMMA BondInvInit == Init => BondInv
<1> SUFFICES ASSUME Init PROVE BondInv
  OBVIOUS
<1> USE BondAssumption DEF Init
<1>1. TypeOK /\ Registered /\ OneSettlerEach
  <2>1. PoolOK /\ SharedOK
    BY DEF PoolOK, SharedOK
  <2>2. ScanOK
    BY DEF ScanOK
  <2>3. FlagsOK
    BY DEF FlagsOK, Unseen
  <2>4. Registered /\ OneSettlerEach
    BY DEF Registered, OneSettlerEach, Settling
  <2> QED BY <2>1, <2>2, <2>3, <2>4 DEF TypeOK
<1>2. BondsBounded
  <2>1. Locked = {}
    BY DEF Locked, Alive
  <2> QED BY <2>1, FS_EmptySet DEF BondsBounded
<1>3. CacheDated
  BY DEF CacheDated, UsesCache
<1> QED BY <1>1, <1>2, <1>3 DEF BondInv

LEMMA BondInvStep == BondInv /\ [Next]_vars => BondInv'
  BY BondTypes, RegistryStep, BoundedStep, DatedStep DEF BondInv

LEMMA BondInvariant == Spec => []BondInv
  BY BondInvInit, BondInvStep, PTL DEF Spec

\* Whatever the loops do at the same time: the types, and the bonds of the keeper.
THEOREM BondTypesCorrect == Spec => [](TypeOK /\ BondsBounded)
  BY BondInvariant, PTL DEF BondInv

\* However many loops find the same auctions: activeSettlements lets one of them settle
\* a borrower at a time.
THEOREM SettledByOneLoop == Spec => []OneSettlerEach
  BY BondInvariant, PTL DEF BondInv

\* For every minimum age, and every window that is no longer: an answer from the scan
\* cache hides no auction that is old enough to be settled.
THEOREM CacheHidesNoWork == Spec => []CacheHidesNothing
<1>1. BondInv => CacheHidesNothing
  <2> SUFFICES ASSUME BondInv, UsesCache, ~env.lags, NEW b \in Borrowers
               PROVE  age[b] < MinAge
    BY DEF CacheHidesNothing
  <2>1. age[b] <= cacheAge /\ cacheAge < Window /\ cacheAge \in Nat /\ age[b] \in Int
    BY DEF BondInv, CacheDated, UsesCache, TypeOK, PoolOK, SharedOK
  <2> QED BY <2>1, BondAssumption
<1> QED BY <1>1, BondInvariant, PTL

-----------------------------------------------------------------------------
(* The LP rewards: what is invariant. *)

\* No bucket changes between a read and its use, no answer is lost, none is stale.
Calm == ~(world.moving \/ world.lossy \/ world.lagging)

Reading == stage \in {"firstRead", "secondRead"}

\* What the withdrawal under way has burned, between its answer and the next read.
Paid == IF Reading THEN before - lp[bucket] ELSE 0

\* The legs of a collection together redeem no more than the capped reward, and the
\* signer's balance covers what is left of it.
LegsCapped ==
  /\ stage \notin Legs => used = 0
  /\ stage \in Legs =>
       /\ reward <= lpMap[bucket] /\ used <= reward
       /\ used + Paid <= reward
       /\ Calm => /\ ~Reading => reward - used <= lp[bucket]
                  /\ Reading => lp[bucket] <= before /\ reward - used <= before

\* What is credited and not burned is in the map, but for the collection under way.
LedgerKept ==
  Undisturbed =>
    \A b \in Buckets :
      burned[b] + lpMap[b] <= given[b] + (IF b = bucket THEN used + Paid ELSE 0)

\* Time runs ahead of the events, and of the cursor.
TimesOrdered ==
  /\ cursor <= now
  /\ \A e \in Events : stamp[e] <= now /\ (e \in indexed => stamp[e] > 0)

\* A good event that is in the seen set was indexed, and has its own time there; one
\* that was taken in is there, or no query lists it any more.
Met(e) == e \in pending \cup dropped \/ credited[e] > 0
SeenSound ==
  /\ stage # "dispatch" => pending = {}
  /\ \A e \in Events :
       /\ Kind[e] = "good" /\ seenAt[e] # -1 => e \in indexed /\ seenAt[e] = stamp[e]
       /\ Met(e) => /\ Kind[e] = "good" /\ e \in indexed
                    /\ seenAt[e] # -1 \/ stamp[e] < Floor(cursor)
       /\ e \in pending => credited[e] = 0

IntakeOK ==
  /\ now \in Times /\ stamp \in [Events -> Times]
  /\ indexed \subseteq Events /\ behind \subseteq Events
  /\ IngestOK /\ TimesOrdered /\ SeenSound /\ CreditedOnce /\ NoneMissed

-----------------------------------------------------------------------------
(* The steps of the ingester. *)

LEMMA FloorMonotone ==
  ASSUME NEW s \in Times, NEW t \in Times, s <= t
  PROVE  Floor(s) \in Times /\ Floor(s) <= Floor(t) /\ Floor(t) <= t
  BY LpAssumption DEF Floor, Max2, Times

\* What every step but those of the ingester leaves alone.
intake == <<now, stamp, indexed, behind, ingester, pending, credits>>

LEMMA IntakeFrame ==
  ASSUME IntakeOK, intake' = intake, stage # "dispatch" \/ stage' = "dispatch" \/ pending = {}
  PROVE  IntakeOK'
  BY DEF IntakeOK, intake, ingester, credits, IngestOK, TimesOrdered, SeenSound, Met,
         CreditedOnce, NoneMissed

\* Ingest takes in what it has not seen, and forgets nothing that a query lists again.
LEMMA IngestStep ==
  ASSUME IntakeOK, Ingest
  PROVE  IntakeOK'
<1> USE LpAssumption DEF IntakeOK
<1> DEFINE new == {e \in Listed : seenAt[e] = -1}
           dated == {e \in new : Kind[e] # "undated"}
           recorded == [e \in Events |-> IF e \notin new THEN seenAt[e]
                                         ELSE IF e \in dated THEN stamp[e] ELSE cursor]
<1>1. /\ UNCHANGED <<now, stamp, indexed, behind, credits>> /\ stage = "idle"
      /\ stage' = "dispatch" /\ pending' = {e \in new : Kind[e] = "good"}
  BY DEF Ingest, chain
<1>2. PICK top \in {cursor} \cup {stamp[e] : e \in dated} :
        /\ cursor <= top /\ \A e \in dated : stamp[e] <= top
        /\ cursor' = top /\ seenAt' = Pruned(top, recorded)
  BY DEF Ingest
<1>3. new \subseteq Events /\ dated \subseteq new /\ new \subseteq indexed
  BY DEF Listed
<1>4. cursor \in Times /\ top \in Times /\ top <= now /\ now \in Times
  BY <1>2, <1>3 DEF IngestOK, TimesOrdered
<1>5. Floor(cursor) \in Times /\ Floor(top) \in Times /\ Floor(cursor) <= Floor(top)
  BY <1>2, <1>4, FloorMonotone
<1>6. ASSUME NEW e \in Events
      PROVE  seenAt'[e] = IF Floor(top) > recorded[e] THEN -1 ELSE recorded[e]
  BY <1>2, <1>6 DEF Pruned
<1>7. \A e \in Events : stamp[e] \in Times /\ seenAt[e] \in Times \cup {-1}
  BY DEF IngestOK
<1>8. IngestOK'
  <2>1. seenAt' \in [Events -> Times \cup {-1}]
    BY <1>2, <1>3, <1>4, <1>7 DEF Pruned
  <2> QED BY <1>1, <1>2, <1>3, <1>4, <2>1 DEF IngestOK, credits
<1>9. TimesOrdered'
  BY <1>1, <1>2, <1>4 DEF TimesOrdered
<1>10. ASSUME NEW e \in Events, Kind[e] = "good"
       PROVE  /\ e \in new <=> e \in indexed /\ stamp[e] >= Floor(cursor) /\ seenAt[e] = -1
              /\ e \in new => recorded[e] = stamp[e]
              /\ e \notin new => recorded[e] = seenAt[e]
              /\ e \in pending' <=> e \in new
  BY <1>1, <1>10 DEF Listed
<1>11. SeenSound'
  <2>1. ASSUME NEW e \in Events, Kind[e] = "good", seenAt'[e] # -1
        PROVE  e \in indexed /\ seenAt'[e] = stamp[e]
    BY <1>3, <1>6, <1>10, <2>1 DEF SeenSound
  <2>2. ASSUME NEW e \in Events, Met(e)'
        PROVE  /\ Kind[e] = "good" /\ e \in indexed
               /\ seenAt'[e] # -1 \/ stamp[e] < Floor(top)
    <3>1. CASE e \in new /\ Kind[e] = "good"
      BY <1>3, <1>4, <1>5, <1>6, <1>7, <1>10, <3>1, FloorMonotone DEF Times
    <3>2. CASE ~(e \in new /\ Kind[e] = "good")
      <4>1. Met(e)
        BY <1>1, <2>2, <3>2 DEF Met, credits
      <4>2. /\ Kind[e] = "good" /\ e \in indexed
            /\ seenAt[e] # -1 \/ stamp[e] < Floor(cursor)
        BY <4>1 DEF SeenSound
      <4>3. recorded[e] = seenAt[e] /\ (seenAt[e] # -1 => seenAt[e] = stamp[e])
        BY <1>10, <3>2, <4>2 DEF SeenSound
      <4> QED BY <1>5, <1>6, <1>7, <4>2, <4>3 DEF Times
    <3> QED BY <3>1, <3>2
  <2>3. ASSUME NEW e \in Events, e \in pending'
        PROVE  credited'[e] = 0
    <3>1. Kind[e] = "good" /\ e \in new
      BY <1>1, <2>3
    <3>2. ~Met(e)
      BY <1>5, <1>7, <1>10, <3>1 DEF SeenSound, Times
    <3>3. credited[e] \in Nat /\ credited' = credited
      BY <1>1 DEF IngestOK, credits
    <3> QED BY <3>2, <3>3 DEF Met
  <2> QED BY <1>1, <1>2, <2>1, <2>2, <2>3 DEF SeenSound
<1>12. CreditedOnce'
  BY <1>1 DEF CreditedOnce, credits
<1>13. NoneMissed'
  <2> SUFFICES ASSUME NEW e \in indexed \ (behind \cup dropped \cup pending'),
                      Kind[e] = "good", credited[e] = 0
               PROVE  FALSE
    BY <1>1 DEF NoneMissed, credits
  <2>1. e \in Events /\ e \notin pending
    BY <1>1 DEF SeenSound
  <2>2. seenAt[e] = -1 /\ cursor <= stamp[e] + Lookback
    BY <2>1 DEF NoneMissed
  <2>3. stamp[e] >= Floor(cursor)
    BY <1>4, <1>7, <2>1, <2>2 DEF Floor, Max2, Times
  <2> QED BY <1>10, <2>1, <2>2, <2>3
<1> QED BY <1>1, <1>8, <1>9, <1>11, <1>12, <1>13

LEMMA AwardStep ==
  ASSUME IntakeOK, NEW e \in Events, Award(e)
  PROVE  IntakeOK'
<1> USE LpAssumption DEF IntakeOK
<1>1. /\ UNCHANGED <<now, indexed, behind, ingester, pending, stage, credits>>
      /\ stamp[e] = 0 /\ stamp' = [stamp EXCEPT ![e] = now]
  BY DEF Award
<1>2. e \notin indexed
  BY <1>1 DEF TimesOrdered
<1>3. \A c \in indexed : stamp'[c] = stamp[c]
  BY <1>1, <1>2
<1>4. TimesOrdered'
  BY <1>1, <1>3 DEF TimesOrdered, ingester, Times
<1>5. SeenSound'
  BY <1>1, <1>3 DEF SeenSound, Met, ingester, credits
<1>6. NoneMissed'
  BY <1>1, <1>3 DEF NoneMissed, ingester, credits
<1> QED BY <1>1, <1>4, <1>5, <1>6 DEF IngestOK, CreditedOnce, ingester, credits

LEMMA IndexStep ==
  ASSUME IntakeOK, NEW e \in Events, Index(e)
  PROVE  IntakeOK'
<1> USE LpAssumption DEF IntakeOK
<1>1. /\ UNCHANGED <<now, stamp, ingester, pending, stage, credits>>
      /\ stamp[e] > 0 /\ e \notin indexed /\ indexed' = indexed \cup {e}
      /\ behind' = IF now > stamp[e] + Lookback THEN behind \cup {e} ELSE behind
  BY DEF Index
<1>2. Kind[e] = "good" => seenAt[e] = -1
  BY <1>1 DEF SeenSound
<1>3. TimesOrdered' /\ SeenSound'
  BY <1>1 DEF TimesOrdered, SeenSound, Met, ingester, credits
<1>4. NoneMissed'
  <2> SUFFICES ASSUME NEW c \in indexed' \ (behind' \cup dropped \cup pending),
                      Kind[c] = "good", credited[c] = 0
               PROVE  seenAt[c] = -1 /\ cursor <= stamp[c] + Lookback
    BY <1>1 DEF NoneMissed, ingester, credits
  <2>1. CASE c = e
    BY <1>1, <1>2, <2>1 DEF TimesOrdered, IngestOK, Times
  <2>2. CASE c # e
    BY <1>1, <2>2 DEF NoneMissed
  <2> QED BY <2>1, <2>2
<1> QED BY <1>1, <1>3, <1>4 DEF IngestOK, CreditedOnce, ingester, credits

LEMMA DispatchStep ==
  ASSUME IntakeOK, NEW e \in Events, Dispatch(e)
  PROVE  IntakeOK'
<1> USE LpAssumption DEF IntakeOK
<1>1. /\ UNCHANGED <<now, stamp, indexed, behind, ingester, stage, dropped>>
      /\ stage = "dispatch" /\ e \in pending /\ pending' = pending \ {e}
      /\ credited' = [credited EXCEPT ![e] = @ + 1]
      /\ given' = [given EXCEPT ![BucketOf[e]] = @ + Amount[e]]
  BY DEF Dispatch, chain
<1>2. credited[e] = 0
  BY <1>1 DEF SeenSound
<1>3. IngestOK' /\ TimesOrdered' /\ CreditedOnce'
  BY <1>1, <1>2 DEF IngestOK, TimesOrdered, CreditedOnce, ingester
<1>4. \A c \in Events : Met(c)' => Met(c)
  BY <1>1 DEF Met
<1>5. SeenSound'
  BY <1>1, <1>4 DEF SeenSound, ingester, IngestOK
<1>6. NoneMissed'
  BY <1>1, <1>2 DEF NoneMissed, ingester, IngestOK
<1> QED BY <1>1, <1>3, <1>5, <1>6

LEMMA IntakeStep ==
  ASSUME IntakeOK, [LpNext]_lpVars
  PROVE  IntakeOK'
<1> USE DEF intake, chain, ingester, credits
<1>1. CASE LpTick
  <2> USE <1>1 DEF LpTick, IntakeOK
  <2>1. now' \in Times /\ now <= now'
    BY LpAssumption DEF Times
  <2>2. TimesOrdered'
    <3>1. cursor \in Int /\ \A e \in Events : stamp[e] \in Int
      BY DEF IngestOK, Times
    <3> QED BY <2>1, <3>1 DEF TimesOrdered, Times
  <2>3. IngestOK' /\ SeenSound' /\ CreditedOnce' /\ NoneMissed'
    BY DEF IngestOK, SeenSound, Met, CreditedOnce, NoneMissed
  <2> QED BY <2>1, <2>2, <2>3
<1>2. CASE Restart
  BY <1>2, LpAssumption
     DEF Restart, IntakeOK, IngestOK, TimesOrdered, SeenSound, Met, CreditedOnce, NoneMissed,
         None, Times
<1>3. ASSUME NEW e \in Events, Award(e) \/ Index(e) \/ Dispatch(e)
      PROVE  IntakeOK'
  BY <1>3, AwardStep, IndexStep, DispatchStep
<1>4. CASE Ingest
  BY <1>4, IngestStep
<1>5. ASSUME NEW p \in Pools, DispatchFails(p)
      PROVE  IntakeOK'
  BY <1>5 DEF DispatchFails, Rewards, IntakeOK, IngestOK, TimesOrdered, SeenSound, Met,
              CreditedOnce, NoneMissed
<1>6. CASE IngestFails \/ Dispatched \/ SweptAll \/ ActionsDone
  BY <1>6, IntakeFrame DEF IngestFails, Dispatched, SweptAll, ActionsDone
<1>7. CASE SweepStep
  <2>1. intake' = intake /\ stage # "dispatch"
    BY <1>7 DEF SweepStep, SweepPool, Read, ReadFails, SweepDone, Skip, Withdraw,
                WithdrawFails, WithdrawLost, WithdrawStale, WithdrawJammed, Measure, LegBreaks,
                Settled, NotSettled, Submits
  <2> QED BY <2>1, IntakeFrame
<1>8. ASSUME NEW t \in Sides, Forward(t) \/ Discard(t) \/ ForwardFails(t) \/ ForwardLost(t)
      PROVE  IntakeOK'
  BY <1>8, IntakeFrame DEF Forward, Discard, ForwardFails, ForwardLost, Handled
<1>9. CASE UNCHANGED lpVars
  BY <1>9, IntakeFrame DEF lpVars
<1> QED
  BY <1>1, <1>2, <1>3, <1>4, <1>5, <1>6, <1>7, <1>8, <1>9 DEF LpNext, KeeperStep

-----------------------------------------------------------------------------
(* The steps of a sweep. *)

SweepInv ==
  /\ world \in LpEnvironments /\ again \in BOOLEAN /\ given \in [Buckets -> Nat]
  /\ lp \in [Buckets -> Nat] /\ SweepOK /\ LegsCapped /\ LedgerKept

LEMMA Minimum ==
  ASSUME NEW m \in Int, NEW n \in Int
  PROVE  /\ Min2(m, n) \in {m, n} /\ Min2(m, n) <= m /\ Min2(m, n) <= n
         /\ Max2(m, n) \in {m, n} /\ m <= Max2(m, n) /\ n <= Max2(m, n)
  BY DEF Min2, Max2

LEMMA Settings ==
  ASSUME SweepInv
  PROVE  /\ world.principal \in Nat /\ world.dust \in Nat /\ world.first \in Sides
         /\ world.configured \subseteq Pools
         /\ Side \in Sides /\ avail[Side] \in Nat
  BY LpAssumption DEF SweepInv, SweepOK, LpEnvType, Side, Other, Sides

\* The collection that ends takes what its legs have redeemed off the entry.
LEMMA FinishStep ==
  ASSUME SweepInv, world' = world, given' = given, stage \in {"first", "second", "secondRead"},
         NEW spent \in Nat, spent <= reward, Finish(spent),
         lp' \in [Buckets -> Nat], burned' \in [Buckets -> Nat],
         Undisturbed => burned' = burned /\ spent = used + Paid
  PROVE  SweepInv'
<1> USE LpAssumption DEF SweepInv, SweepOK, Legs
<1>1. /\ stage' = "sweep" /\ left' = left \ {bucket} /\ bucket' = NoBucket
      /\ reward' = 0 /\ used' = 0 /\ before' = 0 /\ avail' = Unavailable
      /\ UNCHANGED <<pools, pool, again>>
  BY DEF Finish, Collected
<1>2. bucket \in Buckets /\ reward <= lpMap[bucket]
  BY DEF LegsCapped
<1>3. /\ redeemers' = redeemers /\ attempts' \in [Buckets -> 0 .. MaxAttempts]
      /\ lpMap' \in [Buckets -> Nat] /\ lpMap'[bucket] <= lpMap[bucket] - spent
      /\ \A b \in Buckets : b # bucket => lpMap'[b] = lpMap[b]
  <2> DEFINE remains == lpMap[bucket] - spent
  <2>1. remains \in Nat
    BY <1>2
  <2>2. CASE remains <= 0 \/ (spent = 0 /\ attempts[bucket] + 1 >= MaxAttempts)
    <3>1. /\ lpMap' = [lpMap EXCEPT ![bucket] = 0] /\ attempts' = [attempts EXCEPT ![bucket] = 0]
          /\ redeemers' = redeemers
      BY <2>2 DEF Finish, DropEntry
    <3> QED BY <1>2, <2>1, <3>1
  <2>3. CASE ~(remains <= 0 \/ (spent = 0 /\ attempts[bucket] + 1 >= MaxAttempts))
    <3>1. /\ lpMap' = [lpMap EXCEPT ![bucket] = remains] /\ redeemers' = redeemers
          /\ attempts' = [attempts EXCEPT ![bucket] = IF spent > 0 THEN 0 ELSE @ + 1]
      BY <2>3 DEF Finish
    <3>2. (IF spent > 0 THEN 0 ELSE attempts[bucket] + 1) \in 0 .. MaxAttempts
      BY <1>2, <2>1, <2>3
    <3> QED BY <1>2, <2>1, <3>1, <3>2
  <2> QED BY <2>2, <2>3
<1>4. SweepOK'
  BY <1>1, <1>2, <1>3 DEF Unavailable
<1>5. LegsCapped'
  BY <1>1 DEF LegsCapped
<1>6. LedgerKept'
  <2> SUFFICES ASSUME Undisturbed, NEW b \in Buckets
               PROVE  burned[b] + lpMap'[b] <= given[b]
    BY <1>1, <1>2, <1>3 DEF LedgerKept, Undisturbed, Paid, Reading
  <2>1. CASE b = bucket
    BY <1>2, <1>3, <2>1 DEF LedgerKept
  <2>2. CASE b # bucket
    BY <1>2, <1>3, <2>2 DEF LedgerKept
  <2> QED BY <2>1, <2>2
<1> QED BY <1>1, <1>4, <1>5, <1>6

\* After a leg that redeemed nothing, as far as the keeper knows.
LEMMA GoOnStep ==
  ASSUME SweepInv, world' = world, given' = given, stage \in {"first", "second"},
         NEW reread \in BOOLEAN, GoOn(reread),
         lp' \in [Buckets -> Nat], burned' \in [Buckets -> Nat],
         Calm => lp' = lp /\ burned' = burned
  PROVE  SweepInv'
<1> USE DEF SweepInv, SweepOK
<1>1. used <= reward /\ Paid = 0
  BY DEF LegsCapped, Legs, Paid, Reading
<1>2. CASE stage = "second"
  <2>1. Finish(used) /\ (Undisturbed => burned' = burned)
    BY <1>2 DEF GoOn, Undisturbed, Calm
  <2> QED BY <1>1, <1>2, <2>1, FinishStep
<1>3. CASE stage = "first"
  <2>1. stage' = "second" /\ UNCHANGED <<place, reward, used, before, book>>
    BY <1>3 DEF GoOn
  <2>2. avail' \in [Sides -> 0 .. MaxAvail]
    BY <1>3 DEF GoOn
  <2>3. SweepOK'
    BY <1>3, <2>1, <2>2 DEF place, book, Legs
  <2>4. LegsCapped'
    BY <1>3, <2>1 DEF place, book, LegsCapped, Legs, Calm, Reading, Paid
  <2>5. LedgerKept'
    BY <1>3, <2>1 DEF place, book, LedgerKept, Undisturbed, Calm, Reading, Paid
  <2> QED BY <2>1, <2>3, <2>4, <2>5 DEF place
<1> QED BY <1>2, <1>3

\* A leg wants no more than the rest of the reward, and burns no more than it wants.
LEMMA BurnBounds ==
  ASSUME SweepInv, Submits, Burn
  PROVE  /\ bucket \in Buckets /\ Want \in Nat /\ Want <= reward - used
         /\ \E n \in Nat :
              /\ n <= Want /\ n <= lp[bucket] /\ (Calm => n = Want)
              /\ lp' = [lp EXCEPT ![bucket] = @ - n]
              /\ burned' = [burned EXCEPT ![bucket] = @ + n]
              /\ withdrawn' = [withdrawn EXCEPT ![Side] = @ + n]
<1> USE DEF SweepInv, SweepOK
<1>1. bucket \in Buckets /\ ~Reading /\ used <= reward /\ (Calm => reward - used <= lp[bucket])
  BY DEF Submits, LegsCapped, Legs, Reading
<1>2. Want \in Nat /\ Want <= reward - used
  <2>1. Want \in Int /\ Want <= reward - used
    BY Settings, Minimum DEF Want
  <2>2. Want > world.dust
    BY DEF Submits
  <2> QED BY <2>1, <2>2, Settings
<1>3. PICK n \in (IF world.moving \/ world.lossy \/ world.lagging
                  THEN 1 .. Min2(Want, lp[bucket]) ELSE {Want}) :
        /\ lp' = [lp EXCEPT ![bucket] = @ - n]
        /\ burned' = [burned EXCEPT ![bucket] = @ + n]
        /\ withdrawn' = [withdrawn EXCEPT ![Side] = @ + n]
  BY DEF Burn
<1>4. CASE Calm
  <2>1. n = Want
    BY <1>3, <1>4 DEF Calm
  <2>2. Want <= lp[bucket]
    BY <1>1, <1>2, <1>4
  <2>3. /\ Want <= Want /\ Want <= lp[bucket] /\ (Calm => Want = Want)
        /\ lp' = [lp EXCEPT ![bucket] = @ - Want]
        /\ burned' = [burned EXCEPT ![bucket] = @ + Want]
        /\ withdrawn' = [withdrawn EXCEPT ![Side] = @ + Want]
    BY <1>2, <1>3, <2>1, <2>2
  <2> HIDE DEF SweepInv, SweepOK
  <2> QED BY <1>1, <1>2, <2>3
<1>5. CASE ~Calm
  <2>1. n \in 1 .. Min2(Want, lp[bucket])
    BY <1>3, <1>5 DEF Calm
  <2>2. Min2(Want, lp[bucket]) <= Want /\ Min2(Want, lp[bucket]) <= lp[bucket]
        /\ Min2(Want, lp[bucket]) \in Int
    BY <1>1, <1>2, Minimum
  <2>3. n \in Nat /\ n <= Want /\ n <= lp[bucket]
    BY <1>1, <1>2, <2>1, <2>2
  <2> QED BY <1>1, <1>2, <1>3, <1>5, <2>3
<1> QED BY <1>4, <1>5

LEMMA WithdrawStep ==
  ASSUME SweepInv, Withdraw
  PROVE  SweepInv'
<1> USE DEF SweepInv, SweepOK, Legs
<1>1. /\ UNCHANGED <<world, place, book, reward, used, avail, given>> /\ before' = lp[bucket]
      /\ Submits /\ Burn /\ stage \in {"first", "second"} /\ Reading'
      /\ stage' \in {"firstRead", "secondRead"}
  BY DEF Withdraw, Submits, credits, Reading
<1>2. bucket \in Buckets /\ Want \in Nat /\ Want <= reward - used
  BY <1>1, BurnBounds
<1>3. PICK n \in Nat : /\ n <= Want /\ n <= lp[bucket] /\ (Calm => n = Want)
                       /\ lp' = [lp EXCEPT ![bucket] = @ - n]
                       /\ burned' = [burned EXCEPT ![bucket] = @ + n]
  BY <1>1, BurnBounds
<1>4. lp' \in [Buckets -> Nat] /\ burned' \in [Buckets -> Nat]
  BY <1>2, <1>3
<1>5. Paid' = n /\ Paid = 0
  BY <1>1, <1>2, <1>3 DEF Paid, Reading, place
<1>6. SweepOK'
  BY <1>1, <1>2, <1>4 DEF place, book
<1>7. LegsCapped'
  <2>1. reward <= lpMap[bucket] /\ used <= reward /\ (Calm => reward - used <= lp[bucket])
    BY <1>1 DEF LegsCapped, Reading
  <2>2. lp'[bucket] = lp[bucket] - n
    BY <1>2, <1>3
  <2> QED BY <1>1, <1>2, <1>3, <1>5, <2>1, <2>2 DEF LegsCapped, Calm, place, book
<1>8. LedgerKept'
  BY <1>1, <1>2, <1>3, <1>5 DEF LedgerKept, Undisturbed, place, book
<1> QED BY <1>1, <1>4, <1>6, <1>7, <1>8 DEF place

LEMMA MeasureStep ==
  ASSUME SweepInv, Measure
  PROVE  SweepInv'
<1> USE DEF SweepInv, SweepOK, Legs
<1>1. /\ UNCHANGED <<world, lp, burned, given>> /\ Reading
      /\ stage \in {"firstRead", "secondRead"}
  BY DEF Measure, chain, credits, redeemed, Reading
<1>2. bucket \in Buckets /\ used <= reward /\ used + (before - lp[bucket]) <= reward
      /\ reward <= lpMap[bucket]
      /\ (Calm => lp[bucket] <= before /\ reward - used <= before)
  BY <1>1 DEF LegsCapped, Paid
<1>3. PICK balance \in {lp[bucket]} \cup (IF world.lagging THEN {before} ELSE {}) :
        LET spent == used + Max2(0, before - balance) IN
        IF stage = "firstRead"
        THEN /\ stage' = "second" /\ used' = spent /\ avail' \in [Sides -> 0 .. MaxAvail]
             /\ UNCHANGED <<place, reward, before, book>>
        ELSE Finish(spent)
  BY DEF Measure
<1> DEFINE spent == used + Max2(0, before - balance)
<1>4. balance \in {lp[bucket], before} /\ balance \in Nat
  BY <1>2, <1>3
<1>5. Max2(0, before - balance) \in {0, before - balance}
      /\ 0 <= Max2(0, before - balance) /\ before - balance <= Max2(0, before - balance)
  BY <1>4, Minimum
<1>6. spent \in Nat /\ spent <= reward
  BY <1>2, <1>4, <1>5
<1>7. Undisturbed => spent = used + Paid
  <2> SUFFICES ASSUME Undisturbed PROVE spent = used + Paid
    OBVIOUS
  <2>1. balance = lp[bucket] /\ Calm
    BY <1>3 DEF Undisturbed, Calm
  <2>2. Max2(0, before - balance) = before - balance
    BY <1>2, <1>4, <1>5, <2>1
  <2> QED BY <1>1, <2>1, <2>2 DEF Paid
<1>8. CASE stage = "secondRead"
  <2>1. Finish(spent)
    BY <1>3, <1>8
  <2> HIDE DEF spent
  <2> QED BY <1>1, <1>6, <1>7, <1>8, <2>1, FinishStep
<1>9. CASE stage = "firstRead"
  <2>1. /\ stage' = "second" /\ used' = spent /\ avail' \in [Sides -> 0 .. MaxAvail]
        /\ UNCHANGED <<place, reward, before, book>>
    BY <1>3, <1>9
  <2> HIDE DEF spent
  <2>2. SweepOK'
    BY <1>1, <1>6, <1>9, <2>1 DEF place, book
  <2>3. ~Reading' /\ Paid' = 0
    BY <2>1 DEF Reading, Paid
  <2>4. Calm => reward - spent <= lp[bucket]
    <3> SUFFICES ASSUME Calm PROVE reward - spent <= lp[bucket]
      OBVIOUS
    <3>1. balance = lp[bucket]
      BY <1>3 DEF Calm
    <3> QED BY <1>2, <1>4, <1>5, <3>1 DEF spent
  <2>5. LegsCapped'
    BY <1>1, <1>2, <1>6, <2>1, <2>3, <2>4 DEF LegsCapped, Calm, place, book
  <2>6. LedgerKept'
    <3> SUFFICES ASSUME Undisturbed, NEW b \in Buckets
                 PROVE  burned[b] + lpMap[b] <= given[b] + (IF b = bucket THEN spent ELSE 0)
      BY <1>1, <1>6, <2>1, <2>3 DEF LedgerKept, Undisturbed, place, book
    <3> QED BY <1>7 DEF LedgerKept
  <2> QED BY <1>1, <2>1, <2>2, <2>5, <2>6 DEF place
<1> QED BY <1>1, <1>8, <1>9

LEMMA ReadStep ==
  ASSUME SweepInv, NEW b \in Buckets, Read(b)
  PROVE  SweepInv'
<1> USE LpAssumption DEF SweepInv, SweepOK, Legs
<1>1. /\ UNCHANGED <<world, lp, burned, given>> /\ stage = "sweep" /\ b \in left
      /\ Paid = 0 /\ bucket = NoBucket
  BY DEF Read, chain, credits, redeemed, Reading, Paid
<1>2. PICK balance \in {lp[b]} \cup (IF world.lagging THEN {0} ELSE {}),
           can \in [Sides -> 0 .. MaxAvail] :
        IF balance = 0 \/ can = Unavailable
        THEN Collected(b) /\ DropEntry(b)
        ELSE /\ stage' = "first" /\ bucket' = b /\ avail' = can
             /\ reward' = Min2(lpMap[b], balance)
             /\ UNCHANGED <<pools, pool, left, again, used, before, book>>
  BY DEF Read
<1>3. balance \in Nat /\ (Calm => balance = lp[b])
  BY <1>2 DEF Calm
<1>4. CASE balance = 0 \/ can = Unavailable
  <2>1. Collected(b) /\ DropEntry(b)
    BY <1>2, <1>4
  <2>2. SweepOK' /\ stage' = "sweep" /\ bucket' = NoBucket /\ again' = again
    BY <1>1, <2>1 DEF Collected, DropEntry, Unavailable
  <2>3. LegsCapped' /\ LedgerKept'
    BY <1>1, <2>1, <2>2 DEF LegsCapped, LedgerKept, Undisturbed, DropEntry, Collected, Paid,
                            Reading
  <2> QED BY <1>1, <2>2, <2>3
<1>5. CASE ~(balance = 0 \/ can = Unavailable)
  <2>1. /\ stage' = "first" /\ bucket' = b /\ avail' = can /\ reward' = Min2(lpMap[b], balance)
        /\ UNCHANGED <<pools, pool, left, again, used, before, book>>
    BY <1>2, <1>5
  <2>2. reward' \in Nat /\ reward' <= lpMap[b] /\ reward' <= balance
    <3>1. lpMap[b] \in Nat
      OBVIOUS
    <3> HIDE DEF SweepInv
    <3> QED BY <1>3, <2>1, <3>1, Minimum
  <2>3. used = 0
    BY <1>1 DEF LegsCapped
  <2>4. SweepOK'
    BY <1>1, <2>1, <2>2 DEF book
  <2>5. LegsCapped'
    BY <1>1, <1>3, <2>1, <2>2, <2>3 DEF LegsCapped, Calm, Reading, Paid, book
  <2>6. LedgerKept'
    BY <1>1, <2>1, <2>3 DEF LedgerKept, Undisturbed, Paid, Reading, book
  <2> QED BY <1>1, <2>1, <2>4, <2>5, <2>6
<1> QED BY <1>4, <1>5

\* Between two collections: nothing but the place of the sweep changes.
LEMMA PlaceStep ==
  ASSUME SweepInv, UNCHANGED <<world, book, leg, burned, given, bucket>>,
         stage \notin Legs, stage' \in {"idle", "dispatch", "next", "sweep", "jammed", "actions"},
         lp' \in [Buckets -> Nat], pools' \subseteq Pools, pool' \in Pools \cup {NoPool},
         left' \subseteq Buckets, again' \in BOOLEAN
  PROVE  SweepInv'
<1> USE DEF SweepInv, SweepOK, Legs, book, leg
<1>1. SweepOK'
  OBVIOUS
<1>2. Paid' = 0 /\ Paid = 0
  BY DEF Paid, Reading
<1>3. LegsCapped' /\ LedgerKept'
  BY <1>2 DEF LegsCapped, LedgerKept, Undisturbed
<1> QED BY <1>1, <1>3

LEMMA SweepFrame ==
  ASSUME SweepInv, UNCHANGED <<world, lp, book, leg, burned, given, stage, place>>
  PROVE  SweepInv'
  BY DEF SweepInv, SweepOK, LegsCapped, LedgerKept, Undisturbed, Calm, Paid, Reading, book, leg,
         place

\* A collection that breaks off; its entry stays, or is dropped.
LEMMA BreakStep ==
  ASSUME SweepInv, UNCHANGED <<world, lp, burned, given, pools, pool, again>>,
         stage \in Legs, stage' \in {"sweep", "jammed"}, bucket' = NoBucket,
         reward' = 0, used' = 0, before' = 0, avail' = Unavailable,
         left' = left \/ left' = left \ {bucket},
         \/ book' = book /\ (Undisturbed => used + Paid = 0)
         \/ DropEntry(bucket)
  PROVE  SweepInv'
<1> USE LpAssumption DEF SweepInv, SweepOK
<1>1. bucket \in Buckets /\ used + Paid <= reward /\ reward <= lpMap[bucket]
  BY DEF LegsCapped
<1>2. SweepOK' /\ Paid' = 0
  BY <1>1 DEF Legs, Unavailable, DropEntry, book, Paid, Reading
<1>3. LegsCapped'
  BY DEF LegsCapped, Legs
<1>4. LedgerKept'
  <2> SUFFICES ASSUME Undisturbed, NEW b \in Buckets
               PROVE  burned[b] + lpMap'[b] <= given[b]
    BY <1>2 DEF LedgerKept, Undisturbed
  <2>1. burned[b] + lpMap[b] <= given[b] + (IF b = bucket THEN used + Paid ELSE 0)
    BY DEF LedgerKept
  <2>2. CASE book' = book /\ (Undisturbed => used + Paid = 0)
    BY <2>1, <2>2 DEF book
  <2>3. CASE DropEntry(bucket)
    <3>1. used + Paid \in Int
      BY <1>1 DEF Paid
    <3>2. lpMap' = [lpMap EXCEPT ![bucket] = 0]
      BY <2>3 DEF DropEntry
    <3>3. CASE b = bucket
      <4>1. lpMap'[b] = 0
        BY <1>1, <3>2, <3>3
      <4> QED BY <1>1, <2>1, <3>1, <3>3, <4>1
    <3>4. CASE b # bucket
      <4>1. lpMap'[b] = lpMap[b]
        BY <3>2, <3>4
      <4> QED BY <2>1, <3>4, <4>1
    <3> QED BY <3>3, <3>4
  <2> QED BY <2>2, <2>3
<1> QED BY <1>2, <1>3, <1>4

LEMMA AwardedStep ==
  ASSUME SweepInv, NEW e \in Events, Award(e)
  PROVE  SweepInv'
<1> USE LpAssumption DEF SweepInv, SweepOK
<1>1. UNCHANGED <<world, book, leg, burned, given, stage, place>>
  BY DEF Award, credits, redeemed
<1>2. lp' = [lp EXCEPT ![BucketOf[e]] = @ + Amount[e]] /\ lp' \in [Buckets -> Nat]
      /\ \A b \in Buckets : lp[b] <= lp'[b]
  BY DEF Award
<1>3. SweepOK'
  BY <1>1 DEF book, leg, place
<1>4. CASE stage \notin Legs
  <2>1. Paid' = 0 /\ Paid = 0
    BY <1>1, <1>4 DEF Paid, Reading, Legs
  <2> QED BY <1>1, <1>2, <1>3, <1>4, <2>1 DEF LegsCapped, LedgerKept, Undisturbed, book, leg, place
<1>5. CASE stage \in Legs
  <2>1. ~Calm /\ ~Undisturbed /\ bucket \in Buckets
    BY <1>5 DEF Award, Calm, Undisturbed
  <2>2. ~Calm' /\ ~Undisturbed'
    BY <1>1, <2>1 DEF Calm, Undisturbed
  <2>3. used + Paid <= reward => used' + Paid' <= reward'
    BY <1>1, <1>2, <2>1 DEF Paid, Reading, leg, place
  <2>4. LegsCapped' /\ LedgerKept'
    BY <1>1, <1>5, <2>2, <2>3 DEF LegsCapped, LedgerKept, book, leg, place
  <2> QED BY <1>1, <1>2, <1>3, <2>4 DEF place
<1> QED BY <1>4, <1>5

LEMMA SweepInvStep ==
  ASSUME SweepInv, [LpNext]_lpVars
  PROVE  SweepInv'
<1> USE DEF chain, credits, redeemed
<1>1. CASE \/ LpTick \/ IngestFails \/ ActionsDone \/ UNCHANGED lpVars
           \/ \E e \in Events : Index(e)
           \/ \E p \in Pools : DispatchFails(p)
           \/ \E t \in Sides : Forward(t) \/ Discard(t) \/ ForwardFails(t) \/ ForwardLost(t)
  <2>1. CASE IngestFails \/ ActionsDone
    BY <2>1, PlaceStep DEF IngestFails, ActionsDone, place, Legs, SweepInv, SweepOK
  <2>2. CASE ~(IngestFails \/ ActionsDone)
    BY <1>1, <2>2, SweepFrame
       DEF LpTick, Index, DispatchFails, Forward, Discard, ForwardFails, ForwardLost, Handled,
           lpVars
  <2> QED BY <2>1, <2>2
<1>2. CASE Ingest \/ SweptAll
  BY <1>2, PlaceStep DEF Ingest, SweptAll, place, Legs, SweepInv, SweepOK
<1>3. CASE Dispatched
  <2>1. pools' \subseteq Pools
    BY <1>3 DEF Dispatched, SweepInv, SweepOK
  <2> QED BY <1>3, <2>1, PlaceStep DEF Dispatched, Legs, SweepInv, SweepOK
<1>4. ASSUME NEW e \in Events, Dispatch(e)
      PROVE  SweepInv'
  <2> USE LpAssumption DEF SweepInv, SweepOK, Legs
  <2>1. /\ UNCHANGED <<world, lp, attempts, stage, place, leg, burned>> /\ stage = "dispatch"
        /\ redeemers' = redeemers \cup {PoolOf[BucketOf[e]]}
        /\ lpMap' = [lpMap EXCEPT ![BucketOf[e]] = @ + Amount[e]]
        /\ given' = [given EXCEPT ![BucketOf[e]] = @ + Amount[e]]
    BY <1>4 DEF Dispatch
  <2>2. BucketOf[e] \in Buckets /\ Amount[e] \in Nat /\ PoolOf[BucketOf[e]] \in Pools
    OBVIOUS
  <2>3. lpMap' \in [Buckets -> Nat] /\ given' \in [Buckets -> Nat]
    BY <2>1, <2>2
  <2>4. SweepOK'
    BY <2>1, <2>2, <2>3 DEF leg, place
  <2>5. LegsCapped'
    BY <2>1 DEF LegsCapped, leg, place
  <2>6. LedgerKept'
    BY <2>1, <2>2, <2>3 DEF LedgerKept, Undisturbed, Paid, Reading, leg, place
  <2> QED BY <2>1, <2>3, <2>4, <2>5, <2>6 DEF place
<1>5. ASSUME NEW e \in Events, Award(e)
      PROVE  SweepInv'
  BY <1>5, AwardedStep
<1>6. CASE Restart
  <2> USE <1>6 DEF Restart, SweepInv, SweepOK, Legs
  <2>1. SweepOK'
    BY LpAssumption DEF None, Unavailable
  <2>2. Paid' = 0
    BY DEF Paid, Reading
  <2>3. LegsCapped' /\ LedgerKept'
    BY <2>2 DEF LegsCapped, LedgerKept, None
  <2> QED BY <2>1, <2>3 DEF None
<1>7. ASSUME NEW p \in Pools, SweepPool(p)
      PROVE  SweepInv'
  <2>1. left' \subseteq Buckets
    BY <1>7 DEF SweepPool, Entries
  <2> QED BY <1>7, <2>1, PlaceStep DEF SweepPool, Legs, SweepInv, SweepOK
<1>8. ASSUME NEW b \in Buckets, Read(b)
      PROVE  SweepInv'
  BY <1>8, ReadStep
<1>9. ASSUME NEW b \in Buckets, ReadFails(b)
      PROVE  SweepInv'
  <2> USE DEF SweepInv, SweepOK, Legs
  <2>1. /\ UNCHANGED <<world, lp, book, burned, given, pools, pool, again>> /\ stage = "sweep"
        /\ stage' = "sweep" /\ left' = left \ {b} /\ bucket' = NoBucket
        /\ reward' = 0 /\ used' = 0 /\ before' = 0 /\ avail' = Unavailable
    BY <1>9 DEF ReadFails, Collected
  <2>2. SweepOK' /\ Paid = 0 /\ Paid' = 0 /\ bucket = NoBucket /\ NoBucket \notin Buckets
    BY <2>1, LpAssumption DEF book, Unavailable, Paid, Reading
  <2>3. LegsCapped' /\ LedgerKept'
    BY <2>1, <2>2 DEF LegsCapped, LedgerKept, Undisturbed, book
  <2> QED BY <2>1, <2>2, <2>3
<1>10. CASE SweepDone \/ NotSettled
  <2> USE DEF SweepInv, SweepOK, Legs
  <2>1. /\ UNCHANGED <<world, lp, book, burned, given, pools>> /\ stage \in {"sweep", "jammed"}
        /\ stage' = "next" /\ pool' = NoPool /\ left' = {} /\ bucket' = NoBucket
        /\ again' = FALSE /\ reward' = 0 /\ used' = 0 /\ before' = 0 /\ avail' = Unavailable
    BY <1>10 DEF SweepDone, NotSettled, PoolOver
  <2>2. SweepOK' /\ Paid = 0 /\ Paid' = 0 /\ bucket = NoBucket /\ NoBucket \notin Buckets
    BY <2>1, LpAssumption DEF book, Unavailable, Paid, Reading
  <2>3. LegsCapped' /\ LedgerKept'
    BY <2>1, <2>2 DEF LegsCapped, LedgerKept, Undisturbed, book
  <2> QED BY <2>1, <2>2, <2>3
<1>11. CASE Skip \/ WithdrawFails
  <2>1. PICK reread \in BOOLEAN : GoOn(reread)
    BY <1>11 DEF Skip, WithdrawFails
  <2> QED BY <1>11, <2>1, GoOnStep DEF Skip, WithdrawFails, Submits, SweepInv, SweepOK
<1>12. CASE WithdrawLost
  <2>1. ~Calm /\ Submits /\ Burn /\ GoOn(TRUE) /\ stage \in {"first", "second"}
        /\ UNCHANGED <<world, given>>
    BY <1>12 DEF WithdrawLost, Submits, Calm
  <2>2. lp' \in [Buckets -> Nat] /\ burned' \in [Buckets -> Nat]
    BY <2>1, BurnBounds DEF SweepInv, SweepOK
  <2> QED BY <2>1, <2>2, GoOnStep
<1>13. CASE Withdraw \/ Measure
  BY <1>13, WithdrawStep, MeasureStep
<1>14. CASE WithdrawStale \/ WithdrawJammed
  <2>1. CASE WithdrawStale
    BY <2>1, BreakStep DEF WithdrawStale, Submits, Collected, Legs
  <2>2. CASE WithdrawJammed
    <3>1. stage \in Legs /\ (Undisturbed => used = 0) /\ Paid = 0
      BY <2>2 DEF WithdrawJammed, Submits, Legs, Undisturbed, Paid, Reading, SweepInv, SweepOK
    <3> QED BY <2>2, <3>1, BreakStep DEF WithdrawJammed, SweepInv, SweepOK
  <2> QED BY <1>14, <2>1, <2>2
<1>15. CASE LegBreaks
  <2>1. stage \in Legs /\ (Undisturbed => used + Paid = 0)
    BY <1>15 DEF LegBreaks, Legs, Undisturbed, Paid, Reading
  <2> QED BY <1>15, <2>1, BreakStep DEF LegBreaks, Collected
<1>16. CASE Settled
  <2>1. left' \subseteq Buckets
    BY <1>16 DEF Settled, Entries
  <2> QED BY <1>16, <2>1, PlaceStep DEF Settled, Legs, SweepInv, SweepOK
<1> QED
  BY <1>1, <1>2, <1>3, <1>4, <1>5, <1>6, <1>7, <1>8, <1>9, <1>10, <1>11, <1>12, <1>13,
     <1>14, <1>15, <1>16
     DEF LpNext, KeeperStep, SweepStep

-----------------------------------------------------------------------------
(* The steps of the tokens. *)

TokenInv == ActionsOK /\ EveryTokenAccounted

\* What a withdrawal puts on the queue is what it yields, if nothing disturbs it.
LEMMA WithdrawnStep ==
  ASSUME SweepInv, TokenInv, Withdraw
  PROVE  TokenInv'
<1> USE DEF TokenInv, ActionsOK
<1>1. /\ UNCHANGED <<world, retry, tokens, forwarded, gaveUp, tries>> /\ queued' = Enqueued
      /\ Submits /\ Burn
  BY DEF Withdraw
<1>2. Want \in Nat /\ Side \in Sides
  BY <1>1, BurnBounds, Settings
<1>3. PICK n \in Nat : (Calm => n = Want) /\ withdrawn' = [withdrawn EXCEPT ![Side] = @ + n]
  BY <1>1, BurnBounds
<1>4. queued' \in [Sides -> Nat] /\ withdrawn' \in [Sides -> Nat]
  BY <1>1, <1>2, <1>3 DEF Enqueued
<1>5. EveryTokenAccounted'
  <2> SUFFICES ASSUME NEW t \in Sides, world.action[t] # "none", Calm
               PROVE  withdrawn'[t] = queued'[t] + forwarded[t] + gaveUp[t]
    BY <1>1 DEF EveryTokenAccounted, Calm
  <2>1. withdrawn[t] = queued[t] + forwarded[t] + gaveUp[t]
    BY DEF EveryTokenAccounted, Calm
  <2>2. CASE t = Side
    <3>1. queued'[t] = queued[t] + Want
      BY <1>1, <1>2, <2>2 DEF Enqueued
    <3>2. withdrawn'[t] = withdrawn[t] + Want
      BY <1>2, <1>3, <2>2
    <3>3. queued[t] \in Nat /\ withdrawn[t] \in Nat /\ forwarded[t] \in Nat /\ gaveUp[t] \in Nat
      OBVIOUS
    <3> HIDE DEF TokenInv, ActionsOK
    <3> QED BY <1>2, <2>1, <3>1, <3>2, <3>3
  <2>3. CASE t # Side
    <3>1. queued'[t] = queued[t]
      BY <1>1, <2>3 DEF Enqueued
    <3>2. withdrawn'[t] = withdrawn[t]
      BY <1>3, <2>3
    <3> QED BY <2>1, <3>1, <3>2
  <2> QED BY <2>2, <2>3
<1> QED BY <1>1, <1>4, <1>5

\* A token leaves the queue for the wallet that it was sent to, or is given up.
LEMMA HandledStep ==
  ASSUME TokenInv, world' = world, withdrawn' = withdrawn, tokens' \subseteq Sides,
         NEW t \in Sides,
         \/ Forward(t) \/ Discard(t) \/ ForwardFails(t) \/ ForwardLost(t)
  PROVE  TokenInv'
<1> USE LpAssumption DEF TokenInv, ActionsOK
<1>1. CASE Forward(t) \/ Discard(t)
  <2>1. /\ queued' = [queued EXCEPT ![t] = 0] /\ tries' = [tries EXCEPT ![t] = 0]
        /\ retry' \in {retry, [retry EXCEPT ![t] = 0]}
    BY <1>1 DEF Forward, Discard, Removed
  <2>2. \/ forwarded' = [forwarded EXCEPT ![t] = @ + queued[t]] /\ gaveUp' = gaveUp
        \/ gaveUp' = [gaveUp EXCEPT ![t] = @ + queued[t]] /\ forwarded' = forwarded
    BY <1>1 DEF Forward, Discard
  <2>3. ActionsOK'
    BY <2>1, <2>2
  <2>4. EveryTokenAccounted'
    BY <2>1, <2>2 DEF EveryTokenAccounted
  <2> QED BY <2>3, <2>4
<1>2. ASSUME NEW done \in {0, queued[t]}, Retried(t, done)
      PROVE  /\ queued' \in [Sides -> Nat] /\ gaveUp' \in [Sides -> Nat]
             /\ retry' \in [Sides -> 0 .. MaxRetry] /\ tries' \in [Sides -> Nat]
             /\ done = 0 => \A c \in Sides : queued'[c] + gaveUp'[c] = queued[c] + gaveUp[c]
  <2>1. CASE retry[t] + 1 >= MaxRetry
    BY <1>2, <2>1 DEF Retried, Removed
  <2>2. CASE ~(retry[t] + 1 >= MaxRetry)
    <3>1. retry[t] + 1 \in 0 .. MaxRetry
      BY <2>2
    <3> QED BY <1>2, <2>2, <3>1 DEF Retried
  <2> QED BY <2>1, <2>2
<1>3. CASE ForwardFails(t)
  <2>1. Retried(t, 0) /\ forwarded' = forwarded
    BY <1>3 DEF ForwardFails
  <2>2. ActionsOK'
    BY <1>2, <2>1
  <2>3. \A c \in Sides : queued'[c] + gaveUp'[c] = queued[c] + gaveUp[c]
    BY <1>2, <2>1
  <2>4. EveryTokenAccounted'
    <3> SUFFICES ASSUME NEW c \in Sides,
                        withdrawn[c] = queued[c] + forwarded[c] + gaveUp[c]
                 PROVE  withdrawn[c] = queued'[c] + forwarded[c] + gaveUp'[c]
      BY <2>1 DEF EveryTokenAccounted
    <3>1. /\ queued[c] \in Nat /\ forwarded[c] \in Nat /\ gaveUp[c] \in Nat
          /\ queued'[c] \in Nat /\ gaveUp'[c] \in Nat
      BY <2>2
    <3> HIDE LpAssumption DEF TokenInv, ActionsOK
    <3> QED BY <2>3, <3>1
  <2> QED BY <2>2, <2>4
<1>4. CASE ForwardLost(t)
  <2>1. /\ Retried(t, queued[t]) /\ world.lossy
        /\ forwarded' = [forwarded EXCEPT ![t] = @ + queued[t]]
    BY <1>4 DEF ForwardLost
  <2>2. ActionsOK'
    BY <1>2, <2>1
  <2> QED BY <2>1, <2>2 DEF EveryTokenAccounted
<1> QED BY <1>1, <1>3, <1>4

LEMMA TokenFrame ==
  ASSUME TokenInv, world' = world, UNCHANGED <<queued, retry, flows>>, tokens' \subseteq Sides
  PROVE  TokenInv'
  BY DEF TokenInv, ActionsOK, EveryTokenAccounted, flows

LEMMA TokenInvStep ==
  ASSUME SweepInv, TokenInv, [LpNext]_lpVars
  PROVE  TokenInv'
<1>1. tokens \subseteq Sides
  BY DEF TokenInv, ActionsOK
<1>2. CASE Withdraw
  BY <1>2, WithdrawnStep
<1>3. CASE WithdrawLost
  <2>1. /\ UNCHANGED <<world, queued, retry, tokens, forwarded, gaveUp, tries>>
        /\ world.lossy /\ Submits /\ Burn
    BY <1>3 DEF WithdrawLost, tracker
  <2>2. withdrawn' \in [Sides -> Nat]
    <3>1. PICK n \in Nat : withdrawn' = [withdrawn EXCEPT ![Side] = @ + n]
      BY <2>1, BurnBounds
    <3> QED BY <3>1, Settings DEF TokenInv, ActionsOK
  <2> QED BY <2>1, <2>2 DEF TokenInv, ActionsOK, EveryTokenAccounted
<1>4. ASSUME NEW t \in Sides, Forward(t) \/ Discard(t) \/ ForwardFails(t) \/ ForwardLost(t)
      PROVE  TokenInv'
  <2>1. world' = world /\ withdrawn' = withdrawn /\ tokens' \subseteq Sides
    BY <1>1, <1>4 DEF Forward, Discard, ForwardFails, ForwardLost, Handled
  <2> QED BY <1>4, <2>1, HandledStep
<1>5. CASE SweptAll
  <2>1. tokens' \subseteq Sides /\ UNCHANGED <<world, queued, retry, flows>>
    BY <1>5 DEF SweptAll
  <2> QED BY <2>1, TokenFrame
<1>6. CASE Restart
  <2>1. /\ queued' = Unavailable /\ retry' = Unavailable /\ tokens' = {}
        /\ withdrawn' = Unavailable /\ forwarded' = Unavailable /\ gaveUp' = Unavailable
        /\ tries' = Unavailable
    BY <1>6 DEF Restart
  <2> QED BY <2>1, LpAssumption DEF TokenInv, ActionsOK, EveryTokenAccounted, Unavailable
<1>7. CASE \/ LpTick \/ Ingest \/ IngestFails \/ Dispatched \/ ActionsDone \/ UNCHANGED lpVars
           \/ \E e \in Events : Award(e) \/ Index(e) \/ Dispatch(e)
           \/ \E p \in Pools : DispatchFails(p)
  <2>1. UNCHANGED <<world, tracker, flows>>
    BY <1>7 DEF LpTick, Award, Index, Ingest, IngestFails, Dispatch, DispatchFails, Dispatched,
                ActionsDone, lpVars
  <2> QED BY <1>1, <2>1, TokenFrame DEF tracker
<1>8. CASE SweepStep /\ ~Withdraw /\ ~WithdrawLost
  <2>1. UNCHANGED <<world, tracker, flows>>
    BY <1>8 DEF SweepStep, SweepPool, Read, ReadFails, SweepDone, Skip, WithdrawFails,
                WithdrawStale, WithdrawJammed, Measure, LegBreaks, Settled, NotSettled
  <2> QED BY <1>1, <2>1, TokenFrame DEF tracker
<1> QED
  BY <1>2, <1>3, <1>4, <1>5, <1>6, <1>7, <1>8 DEF LpNext, KeeperStep

-----------------------------------------------------------------------------
(* The deposit of the signer: every unit of LP counted. *)

\* The units of LP that the events of a set award in a bucket.
Units(set, b) == {u \in set \X Nat : BucketOf[u[1]] = b /\ u[2] \in 1 .. Amount[u[1]]}

Awarded == {e \in Events : stamp[e] > 0}
Credited == {e \in Events : credited[e] > 0}

\* The signer has in a bucket what was deposited and awarded there, but for what this
\* and earlier lives redeemed; and a life counts each event that it credited once.
DepositInv ==
  /\ earlier \in [Buckets -> Nat]
  /\ \A b \in Buckets :
       /\ IsFiniteSet(Units(Awarded, b))
       /\ lp[b] + burned[b] + earlier[b] = world.principal + Cardinality(Units(Awarded, b))
       /\ given[b] = Cardinality(Units(Credited, b))

\* One more event adds its amount in its bucket, and nothing in the others.
LEMMA UnitsAdded ==
  ASSUME NEW set \in SUBSET Events, NEW e \in Events, e \notin set, NEW b \in Buckets,
         IsFiniteSet(Units(set, b))
  PROVE  /\ IsFiniteSet(Units(set \cup {e}, b))
         /\ Cardinality(Units(set, b)) \in Nat
         /\ Cardinality(Units(set \cup {e}, b))
              = Cardinality(Units(set, b)) + (IF BucketOf[e] = b THEN Amount[e] ELSE 0)
<1> DEFINE own == {e} \X (1 .. Amount[e])
<1>1. Cardinality(Units(set, b)) \in Nat
  BY FS_CardinalityType
<1>2. CASE BucketOf[e] # b
  <2>1. Units(set \cup {e}, b) = Units(set, b)
    BY <1>2 DEF Units
  <2> QED BY <1>1, <1>2, <2>1
<1>3. CASE BucketOf[e] = b
  <2>1. Amount[e] \in Nat /\ Amount[e] > 0
    BY LpAssumption
  <2>2. Units(set \cup {e}, b) = Units(set, b) \cup own
    BY <1>3, <2>1 DEF Units
  <2>3. Units(set, b) \cap own = {}
    BY DEF Units
  <2>4. IsFiniteSet(own) /\ Cardinality(own) = Amount[e]
    <3>1. IsFiniteSet(1 .. Amount[e]) /\ Cardinality(1 .. Amount[e]) = Amount[e]
      <4>1. 1 \in Int /\ Amount[e] \in Int /\ ~(1 > Amount[e]) /\ Amount[e] - 1 + 1 = Amount[e]
        BY <2>1
      <4> HIDE DEF own
      <4> QED BY <4>1, FS_Interval
    <3>2. IsFiniteSet({e}) /\ Cardinality({e}) = 1
      BY FS_Singleton
    <3>3. IsFiniteSet(own) /\ Cardinality(own) = Cardinality({e}) * Cardinality(1 .. Amount[e])
      BY <3>1, <3>2, FS_Product
    <3> QED BY <2>1, <3>1, <3>2, <3>3
  <2>5. /\ IsFiniteSet(Units(set, b) \cup own)
        /\ Cardinality(Units(set, b) \cup own)
             = Cardinality(Units(set, b)) + Cardinality(own) - Cardinality(Units(set, b) \cap own)
    BY <2>4, FS_Union
  <2>6. Cardinality(Units(set, b) \cap own) = 0
    BY <2>3, FS_EmptySet
  <2>7. Cardinality(Units(set \cup {e}, b)) = Cardinality(Units(set, b)) + Amount[e]
    <3> HIDE DEF own
    <3>1. Cardinality(Units(set \cup {e}, b)) = Cardinality(Units(set, b)) + Amount[e] - 0
      BY <2>2, <2>4, <2>5, <2>6
    <3> QED BY <1>1, <2>1, <3>1
  <2> QED BY <1>1, <1>3, <2>2, <2>5, <2>7
<1> QED BY <1>2, <1>3

\* Only what was awarded is ever credited.
LEMMA CreditedUnits ==
  ASSUME IntakeOK, DepositInv, NEW b \in Buckets
  PROVE  /\ IsFiniteSet(Units(Credited, b))
         /\ Cardinality(Units(Credited, b)) <= Cardinality(Units(Awarded, b))
         /\ Cardinality(Units(Awarded, b)) \in Nat
         /\ Cardinality(Units(Credited, b)) \in Nat
<1>1. Credited \subseteq Awarded
  BY DEF Credited, Awarded, IntakeOK, SeenSound, Met, TimesOrdered
<1>2. Units(Credited, b) \in SUBSET Units(Awarded, b)
  BY <1>1 DEF Units
<1>3. IsFiniteSet(Units(Awarded, b))
  BY DEF DepositInv
<1> QED BY <1>2, <1>3, FS_Subset, FS_CardinalityType

\* What a step that neither awards, credits nor redeems leaves alone.
deposit == <<world, stamp, credited, given, lp, redeemed>>

LEMMA DepositStep ==
  ASSUME IntakeOK, SweepInv, DepositInv, [LpNext]_lpVars
  PROVE  DepositInv'
<1>0. /\ lp \in [Buckets -> Nat] /\ burned \in [Buckets -> Nat] /\ given \in [Buckets -> Nat]
      /\ earlier \in [Buckets -> Nat] /\ world.principal \in Nat
  BY Settings DEF SweepInv, SweepOK, DepositInv
<1>1. CASE deposit' = deposit
  BY <1>1 DEF deposit, redeemed, DepositInv, Awarded, Credited
<1>2. ASSUME NEW e \in Events, Award(e)
      PROVE  DepositInv'
  <2>1. /\ UNCHANGED <<world, credited, given, burned, earlier>> /\ stamp[e] = 0 /\ now > 0
        /\ stamp' = [stamp EXCEPT ![e] = now]
        /\ lp' = [lp EXCEPT ![BucketOf[e]] = @ + Amount[e]]
    BY <1>2 DEF Award, credits, redeemed
  <2>2. e \notin Awarded /\ Awarded' = Awarded \cup {e} /\ Credited' = Credited
    BY <2>1 DEF Awarded, Credited, IntakeOK
  <2> SUFFICES ASSUME NEW b \in Buckets
               PROVE  /\ IsFiniteSet(Units(Awarded', b))
                      /\ lp'[b] + burned[b] + earlier[b]
                           = world.principal + Cardinality(Units(Awarded', b))
    BY <2>1, <2>2 DEF DepositInv
  <2>3. /\ IsFiniteSet(Units(Awarded, b))
        /\ lp[b] + burned[b] + earlier[b] = world.principal + Cardinality(Units(Awarded, b))
    BY DEF DepositInv
  <2>4. /\ IsFiniteSet(Units(Awarded', b)) /\ Cardinality(Units(Awarded, b)) \in Nat
        /\ Cardinality(Units(Awarded', b))
             = Cardinality(Units(Awarded, b)) + (IF BucketOf[e] = b THEN Amount[e] ELSE 0)
    <3>1. Awarded \in SUBSET Events
      BY DEF Awarded
    <3> QED BY <2>2, <2>3, <3>1, UnitsAdded
  <2>5. lp'[b] = lp[b] + (IF BucketOf[e] = b THEN Amount[e] ELSE 0) /\ Amount[e] \in Nat
    BY <1>0, <2>1, LpAssumption
  <2>6. lp[b] \in Nat /\ burned[b] \in Nat /\ earlier[b] \in Nat
    BY <1>0
  <2> QED BY <1>0, <2>3, <2>4, <2>5, <2>6
<1>3. ASSUME NEW e \in Events, Dispatch(e)
      PROVE  DepositInv'
  <2>1. /\ UNCHANGED <<world, stamp, lp, burned, earlier>> /\ e \in pending
        /\ given' = [given EXCEPT ![BucketOf[e]] = @ + Amount[e]]
        /\ credited' = [credited EXCEPT ![e] = @ + 1]
    BY <1>3 DEF Dispatch, chain, redeemed
  <2>2. e \notin Credited /\ Credited' = Credited \cup {e} /\ Awarded' = Awarded
    BY <2>1 DEF Awarded, Credited, IntakeOK, IngestOK, SeenSound
  <2> SUFFICES ASSUME NEW b \in Buckets
               PROVE  given'[b] = Cardinality(Units(Credited', b))
    BY <2>1, <2>2 DEF DepositInv
  <2>3. Cardinality(Units(Credited', b))
          = Cardinality(Units(Credited, b)) + (IF BucketOf[e] = b THEN Amount[e] ELSE 0)
    <3>1. Credited \in SUBSET Events
      BY DEF Credited
    <3> QED BY <2>2, <3>1, CreditedUnits, UnitsAdded
  <2>4. given[b] = Cardinality(Units(Credited, b))
    BY DEF DepositInv
  <2> QED BY <1>0, <2>1, <2>3, <2>4, LpAssumption
<1>4. CASE Withdraw \/ WithdrawLost
  <2>1. Submits /\ Burn /\ UNCHANGED <<world, stamp, credited, given, earlier>>
    BY <1>4 DEF Withdraw, WithdrawLost, credits
  <2>2. PICK n \in Nat : /\ lp' = [lp EXCEPT ![bucket] = @ - n]
                         /\ burned' = [burned EXCEPT ![bucket] = @ + n]
    BY <2>1, BurnBounds
  <2>3. \A b \in Buckets : lp'[b] + burned'[b] = lp[b] + burned[b]
    BY <1>0, <2>2
  <2>4. \A b \in Buckets : lp'[b] \in Int /\ burned'[b] \in Int
    BY <1>0, <2>2
  <2>5. Awarded' = Awarded /\ Credited' = Credited
    BY <2>1 DEF Awarded, Credited
  <2>6. \A b \in Buckets : lp'[b] + burned'[b] + earlier[b] = lp[b] + burned[b] + earlier[b]
    BY <2>3
  <2> QED BY <2>1, <2>5, <2>6 DEF DepositInv
<1>5. CASE Restart
  <2>1. /\ UNCHANGED <<world, stamp, lp>>
        /\ credited' = [e \in Events |-> 0] /\ given' = None /\ burned' = None
        /\ earlier' = [b \in Buckets |-> earlier[b] + burned[b]]
    BY <1>5 DEF Restart, chain
  <2>2. Awarded' = Awarded /\ Credited' = {}
    BY <2>1 DEF Awarded, Credited
  <2>3. \A b \in Buckets : given'[b] = Cardinality(Units(Credited', b))
    <3>1. \A b \in Buckets : Units({}, b) = {}
      BY DEF Units
    <3> QED BY <2>1, <2>2, <3>1, FS_EmptySet DEF None
  <2>4. ASSUME NEW b \in Buckets
        PROVE  lp'[b] + burned'[b] + earlier'[b] = lp[b] + burned[b] + earlier[b]
    BY <1>0, <2>1 DEF None
  <2>5. earlier' \in [Buckets -> Nat]
    BY <1>0, <2>1
  <2> QED BY <2>1, <2>2, <2>3, <2>4, <2>5 DEF DepositInv
<1>6. CASE \/ LpTick \/ Ingest \/ IngestFails \/ Dispatched \/ SweptAll \/ ActionsDone
           \/ UNCHANGED lpVars
           \/ \E e \in Events : Index(e)
           \/ \E p \in Pools : DispatchFails(p)
           \/ \E t \in Sides : Forward(t) \/ Discard(t) \/ ForwardFails(t) \/ ForwardLost(t)
  <2>1. deposit' = deposit
    BY <1>6 DEF deposit, LpTick, Ingest, IngestFails, Dispatched, SweptAll, ActionsDone, Index,
                DispatchFails, Forward, Discard, ForwardFails, ForwardLost, Handled, chain,
                credits, redeemed, lpVars
  <2> QED BY <1>1, <2>1
<1>7. CASE SweepStep /\ ~Withdraw /\ ~WithdrawLost
  <2>1. deposit' = deposit
    BY <1>7 DEF deposit, SweepStep, SweepPool, Read, ReadFails, SweepDone, Skip, WithdrawFails,
                WithdrawStale, WithdrawJammed, Measure, LegBreaks, Settled, NotSettled, chain,
                credits
  <2> QED BY <1>1, <2>1
<1> QED
  BY <1>2, <1>3, <1>4, <1>5, <1>6, <1>7 DEF LpNext, KeeperStep, SweepStep

-----------------------------------------------------------------------------
LpInv == IntakeOK /\ SweepInv /\ TokenInv /\ DepositInv

LEMMA LpInvInit == LpInit => LpInv
<1> SUFFICES ASSUME LpInit PROVE LpInv
  OBVIOUS
<1> USE LpAssumption DEF LpInit
<1>1. IntakeOK
  <2>1. IngestOK /\ TimesOrdered /\ now \in Times /\ stamp \in [Events -> Times]
    BY DEF IngestOK, TimesOrdered, None, Times
  <2>2. SeenSound /\ CreditedOnce /\ NoneMissed
    BY DEF SeenSound, Met, CreditedOnce, NoneMissed
  <2> QED BY <2>1, <2>2 DEF IntakeOK
<1>2. SweepInv
  <2>1. world.principal \in Nat
    BY DEF LpEnvType
  <2>2. SweepOK /\ lp \in [Buckets -> Nat] /\ given \in [Buckets -> Nat]
    BY <2>1 DEF SweepOK, None, Unavailable, Legs
  <2>3. Paid = 0
    BY DEF Paid, Reading
  <2>4. LegsCapped /\ LedgerKept
    BY <2>3 DEF LegsCapped, LedgerKept, Legs, None
  <2> QED BY <2>2, <2>4 DEF SweepInv
<1>3. TokenInv
  BY DEF TokenInv, ActionsOK, EveryTokenAccounted, Unavailable
<1>4. DepositInv
  <2>1. Awarded = {} /\ Credited = {}
    BY DEF Awarded, Credited
  <2>2. \A b \in Buckets : Units({}, b) = {}
    BY DEF Units
  <2>3. world.principal \in Nat
    BY DEF LpEnvType
  <2>4. earlier \in [Buckets -> Nat]
    BY DEF None
  <2>5. ASSUME NEW b \in Buckets
        PROVE  lp[b] = world.principal /\ burned[b] = 0 /\ earlier[b] = 0 /\ given[b] = 0
    BY DEF None
  <2>6. \A b \in Buckets :
          /\ IsFiniteSet(Units(Awarded, b)) /\ Cardinality(Units(Awarded, b)) = 0
          /\ Cardinality(Units(Credited, b)) = 0
    BY <2>1, <2>2, FS_EmptySet
  <2> QED BY <2>3, <2>4, <2>5, <2>6 DEF DepositInv
<1> QED BY <1>1, <1>2, <1>3, <1>4 DEF LpInv

LEMMA LpInvStep == LpInv /\ [LpNext]_lpVars => LpInv'
  BY IntakeStep, SweepInvStep, TokenInvStep, DepositStep DEF LpInv

LEMMA LpInvariant == LpSpec => []LpInv
  BY LpInvInit, LpInvStep, PTL DEF LpSpec

\* The cursor, the seen events, the map, a collection at its leg and the entries of the
\* tracker keep their types.
THEOREM LpTypesCorrect == LpSpec => []LpTypeOK
<1>1. LpInv => LpTypeOK
  BY DEF LpInv, IntakeOK, SweepInv, TokenInv, DepositInv, LpTypeOK, ChainOK
<1> QED BY <1>1, LpInvariant, PTL

\* However the queries overlap, and whatever is pruned in between: a reward is credited
\* once in the life of a process.
THEOREM RewardsCreditedOnce == LpSpec => []CreditedOnce
  BY LpInvariant, PTL DEF LpInv, IntakeOK

\* However far newer events have moved the cursor: what the subgraph indexed within the
\* lookback is below no floor of a query to come before it is taken in.
THEOREM NoRewardMissed == LpSpec => []NoneMissed
  BY LpInvariant, PTL DEF LpInv, IntakeOK

\* For any events, amounts and deposits: the collections of all lives together leave
\* the signer what was deposited in a bucket, but for what earlier lives redeemed and a
\* restart has credited again.
THEOREM DepositKept == LpSpec => []PrincipalKept
<1>1. LpInv => PrincipalKept
  <2> SUFFICES ASSUME LpInv, Undisturbed, NEW b \in Buckets
               PROVE  lp[b] + earlier[b] >= world.principal
    BY DEF PrincipalKept
  <2>1. burned[b] <= given[b]
    <3> USE DEF LpInv, SweepInv, SweepOK
    <3>1. burned[b] + lpMap[b] <= given[b] + (IF b = bucket THEN used + Paid ELSE 0)
      BY DEF LedgerKept
    <3>2. CASE b = bucket
      <4>1. used + Paid <= reward /\ reward <= lpMap[b]
        BY <3>2, LpAssumption DEF LegsCapped
      <4>2. Paid \in Int
        BY <3>2 DEF Paid
      <4> QED BY <3>1, <3>2, <4>1, <4>2
    <3>3. CASE b # bucket
      BY <3>1, <3>3
    <3> QED BY <3>2, <3>3
  <2>2. /\ given[b] = Cardinality(Units(Credited, b))
        /\ lp[b] + burned[b] + earlier[b] = world.principal + Cardinality(Units(Awarded, b))
        /\ lp[b] \in Nat /\ burned[b] \in Nat /\ earlier[b] \in Nat /\ world.principal \in Nat
    BY Settings DEF LpInv, DepositInv, SweepInv, SweepOK
  <2>3. /\ Cardinality(Units(Credited, b)) <= Cardinality(Units(Awarded, b))
        /\ Cardinality(Units(Awarded, b)) \in Nat /\ Cardinality(Units(Credited, b)) \in Nat
    BY CreditedUnits DEF LpInv
  <2> QED BY <2>1, <2>2, <2>3
<1> QED BY <1>1, LpInvariant, PTL

\* What the withdrawals yield is queued, forwarded or given up, whatever breaks off.
THEOREM TokensAccounted == LpSpec => []EveryTokenAccounted
  BY LpInvariant, PTL DEF LpInv, TokenInv

=============================================================================
