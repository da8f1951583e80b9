----------------------- MODULE DiscoveryRuntimeProofs -----------------------
(***************************************************************************)
(* Proofs about DiscoveryRuntime: its types, and how old the data may be   *)
(* by which a target is chosen, for every interval, window and time to     *)
(* live.  SubgraphScan, with the query page by page and endpoint by        *)
(* endpoint, is shown to implement it.                                     *)
(***************************************************************************)
EXTENDS SubgraphScan, TLAPS

LEMMA Steps ==
  ASSUME Next
  PROVE  \/ Tick \/ Arrives \/ ArriveFails
         \/ TakeBegins \/ TakeResolves \/ Taken \/ TakeEnds
         \/ SettleBegins \/ SettleResolves \/ Returned \/ SettleEnds
         \/ \E p \in Pools : Auction(p) \/ Settled(p)
         \/ \E l \in Loops :
              \/ \E p \in Pools : Target(l, p)
              \/ LoadDone(l) \/ LoadFails(l) \/ Throws(l)
BY DEF Next, TakeStep, SettleStep, LoopStep, Loops

LEMMA LoopsAre == "take" \in Loops /\ "settle" \in Loops
BY DEF Loops

\* What the invariants take from the environment.
EnvOK ==
  /\ env.lists \subseteq Pools /\ env.policies \subseteq Loops
  /\ env.manual \in [Loops -> SUBSET Pools]

LEMMA EnvIs == env \in Environments => EnvOK
BY DiscoveryAssumption DEF EnvOK, EnvType

LEMMA EnvStep == env \in Environments /\ [Next]_vars => env' \in Environments
BY DEF Next, vars, Tick, TimePasses, Arrives, ArrivesWith, ArriveFails, TakeStep, TakeBegins, TakeResolves, Taken,
   TakeEnds, SettleStep, SettleBegins, SettleResolves, Returned, Settled, SettleEnds,
   LoopStep, Target, LoadDone, LoadFails, Throws, Succeeds, Auction

LEMMA ListingStep == EnvOK /\ ListingOK /\ [Next]_vars => ListingOK'
<1> SUFFICES ASSUME EnvOK, ListingOK, [Next]_vars PROVE ListingOK'
  OBVIOUS
<1> USE DiscoveryAssumption, LoopsAre
<1>1. CASE Tick
  BY <1>1 DEF Tick, TimePasses, Grown, EnvOK, ListingOK, Nothing, States, Stale, scan, hot, gate, poolMap,
     answer, work
<1>2. CASE Arrives
  BY <1>2 DEF Arrives, ArrivesWith, Answers, QueryOver, EnvOK, ListingOK, Nothing, States, Stale, scan, hot,
     gate, poolMap, answer, work
<1>3. CASE ArriveFails
  BY <1>3 DEF ArriveFails, QueryOver, FallsBack, YoungEnough, EnvOK, ListingOK, Nothing,
     States, Stale, scan, hot, gate, poolMap, answer, work
<1>4. CASE TakeBegins
  BY <1>4 DEF TakeBegins, Starts, Ask, Reusable, ManualOnly, EnvOK, ListingOK, Nothing, States,
     Stale, scan, hot, gate, poolMap, answer, work
<1>5. CASE TakeResolves
  BY <1>5 DEF TakeResolves, HotTakes, Targets, Some, FreshTakes, StillHot, Unexpired, EnvOK,
     ListingOK, Nothing, States, Stale, scan, hot, gate, poolMap, answer, work
<1>6. CASE SettleBegins
  BY <1>6 DEF SettleBegins, Starts, Ask, Reusable, ManualOnly, SettlementDue, RetryWaits,
     NeedsRefresh, EnvOK, ListingOK, Nothing, States, Stale, scan, hot, gate, poolMap, answer,
     work
<1>7. CASE SettleResolves
  BY <1>7 DEF SettleResolves, Targets, Some, EnvOK, ListingOK, Nothing, States, Stale, scan,
     hot, gate, poolMap, answer, work
<1>8. CASE Taken
  BY <1>8 DEF Taken, Succeeds, Leaves, EnvOK, ListingOK, Nothing, States, Stale, scan, hot,
     gate, poolMap, answer, work
<1>9. CASE Returned
  BY <1>9 DEF Returned, Succeeds, Leaves, EnvOK, ListingOK, Nothing, States, Stale, scan, hot,
     gate, poolMap, answer, work
<1>10. CASE TakeEnds
  BY <1>10 DEF TakeEnds, Ends, EnvOK, ListingOK, Nothing, States, Stale, scan, hot, gate,
     poolMap, answer, work
<1>11. CASE SettleEnds
  BY <1>11 DEF SettleEnds, Ends, Dated, EnvOK, ListingOK, Nothing, States, Stale, scan, hot,
     gate, poolMap, answer, work
<1>12. ASSUME NEW p \in Pools, Auction(p) PROVE ListingOK'
  BY <1>12 DEF Auction, EnvOK, ListingOK, Nothing, States, Stale, scan, hot, gate, poolMap,
     answer, work
<1>13. ASSUME NEW p \in Pools, Settled(p) PROVE ListingOK'
  BY <1>13 DEF Settled, Succeeds, Leaves, EnvOK, ListingOK, Nothing, States, Stale, scan, hot,
     gate, poolMap, answer, work
<1>14. ASSUME NEW l \in Loops, NEW p \in Pools, Target(l, p) PROVE ListingOK'
  BY <1>14 DEF Target, Runs, Loads, FindsLoaded, FindsCooling, EnvOK, ListingOK, Nothing,
     States, Stale, scan, hot, gate, poolMap, answer, work
<1>15. ASSUME NEW l \in Loops, LoadDone(l) PROVE ListingOK'
  BY <1>15 DEF LoadDone, EnvOK, ListingOK, Nothing, States, Stale, scan, hot, gate, poolMap,
     answer, work
<1>16. ASSUME NEW l \in Loops, LoadFails(l) PROVE ListingOK'
  BY <1>16 DEF LoadFails, Leaves, EnvOK, ListingOK, Nothing, States, Stale, scan, hot, gate,
     poolMap, answer, work
<1>17. ASSUME NEW l \in Loops, Throws(l) PROVE ListingOK'
  BY <1>17 DEF Throws, Leaves, EnvOK, ListingOK, Nothing, States, Stale, scan, hot, gate,
     poolMap, answer, work
<1>18. CASE UNCHANGED vars
  BY <1>18 DEF vars, EnvOK, ListingOK, Nothing, States, Stale, scan, hot, gate, poolMap,
     answer, work
<1> QED
  BY <1>1, <1>2, <1>3, <1>4, <1>5, <1>6, <1>7, <1>8, <1>9, <1>10, <1>11, <1>12, <1>13, <1>14,
     <1>15, <1>16, <1>17, <1>18, Steps

LEMMA KeptStep == EnvOK /\ ListingOK /\ KeptOK /\ CycleOK /\ [Next]_vars => KeptOK'
<1> SUFFICES ASSUME EnvOK, ListingOK, KeptOK, CycleOK, [Next]_vars PROVE KeptOK'
  OBVIOUS
<1> USE DiscoveryAssumption, LoopsAre
<1>1. CASE Tick
  BY <1>1 DEF Tick, TimePasses, Grown, EnvOK, ListingOK, KeptOK, CycleOK, States, Stale, StaleHot, scan,
     hot, gate, poolMap, answer, work
<1>2. CASE Arrives
  BY <1>2 DEF Arrives, ArrivesWith, Answers, QueryOver, EnvOK, ListingOK, KeptOK, CycleOK, States, Stale,
     StaleHot, scan, hot, gate, poolMap, answer, work
<1>3. CASE ArriveFails
  BY <1>3 DEF ArriveFails, QueryOver, FallsBack, YoungEnough, EnvOK, ListingOK, KeptOK,
     CycleOK, States, Stale, StaleHot, scan, hot, gate, poolMap, answer, work
<1>4. CASE TakeBegins
  BY <1>4 DEF TakeBegins, Starts, Ask, Reusable, ManualOnly, EnvOK, ListingOK, KeptOK, CycleOK,
     States, Stale, StaleHot, scan, hot, gate, poolMap, answer, work
<1>5. CASE TakeResolves
  <2>1. UNCHANGED <<gate, poolMap>>
    BY <1>5 DEF TakeResolves
  <2>2. gotHeard["take"] \in 0 .. StaleHot
    BY DEF CycleOK, Stale, StaleHot
  <2>3. ASSUME NEW picked, HotTakes(picked)
        PROVE  hotAge' \in [Pools -> -1 .. Ttl + 1] /\ hotHeard' \in [Pools -> 0 .. StaleHot]
    BY <2>2, <2>3 DEF HotTakes, KeptOK, StaleHot
  <2>4. CASE UNCHANGED hot
    BY <2>1, <2>4 DEF KeptOK, scan, hot, gate, poolMap, answer, work
  <2> QED
    BY <1>5, <2>1, <2>3, <2>4 DEF TakeResolves, KeptOK, scan, hot, gate, poolMap, answer, work
<1>6. CASE SettleBegins
  BY <1>6 DEF SettleBegins, Starts, Ask, Reusable, ManualOnly, SettlementDue, RetryWaits,
     NeedsRefresh, EnvOK, ListingOK, KeptOK, CycleOK, States, Stale, StaleHot, scan, hot, gate,
     poolMap, answer, work
<1>7. CASE SettleResolves
  BY <1>7 DEF SettleResolves, Targets, Some, EnvOK, ListingOK, KeptOK, CycleOK, States, Stale,
     StaleHot, scan, hot, gate, poolMap, answer, work
<1>8. CASE Taken
  BY <1>8 DEF Taken, Succeeds, Leaves, EnvOK, ListingOK, KeptOK, CycleOK, States, Stale,
     StaleHot, scan, hot, gate, poolMap, answer, work
<1>9. CASE Returned
  BY <1>9 DEF Returned, Succeeds, Leaves, EnvOK, ListingOK, KeptOK, CycleOK, States, Stale,
     StaleHot, scan, hot, gate, poolMap, answer, work
<1>10. CASE TakeEnds
  BY <1>10 DEF TakeEnds, Ends, EnvOK, ListingOK, KeptOK, CycleOK, States, Stale, StaleHot,
     scan, hot, gate, poolMap, answer, work
<1>11. CASE SettleEnds
  BY <1>11 DEF SettleEnds, Ends, Dated, EnvOK, ListingOK, KeptOK, CycleOK, States, Stale,
     StaleHot, scan, hot, gate, poolMap, answer, work
<1>12. ASSUME NEW p \in Pools, Auction(p) PROVE KeptOK'
  BY <1>12 DEF Auction, EnvOK, ListingOK, KeptOK, CycleOK, States, Stale, StaleHot, scan, hot,
     gate, poolMap, answer, work
<1>13. ASSUME NEW p \in Pools, Settled(p) PROVE KeptOK'
  BY <1>13 DEF Settled, Succeeds, Leaves, EnvOK, ListingOK, KeptOK, CycleOK, States, Stale,
     StaleHot, scan, hot, gate, poolMap, answer, work
<1>14. ASSUME NEW l \in Loops, NEW p \in Pools, Target(l, p) PROVE KeptOK'
  <2> UNCHANGED <<env, auction, scan, hot, gate, answer, chosen, someOk, dataAge>> /\ pc[l] = "next"
    BY <1>14 DEF Target
  <2>1. CASE Runs(l, p) /\ UNCHANGED cooling
    BY <2>1 DEF Runs, Loads, FindsLoaded, FindsCooling, EnvOK, ListingOK, KeptOK, CycleOK,
       States, Stale, StaleHot, scan, hot, gate, poolMap, answer, work
  <2>2. CASE FindsLoaded(l, p)
    BY <2>2 DEF Runs, Loads, FindsLoaded, FindsCooling, EnvOK, ListingOK, KeptOK, CycleOK,
       States, Stale, StaleHot, scan, hot, gate, poolMap, answer, work
  <2>3. CASE FindsCooling(l, p)
    BY <2>3 DEF Runs, Loads, FindsLoaded, FindsCooling, EnvOK, ListingOK, KeptOK, CycleOK,
       States, Stale, StaleHot, scan, hot, gate, poolMap, answer, work
  <2>4. CASE Loads(l, p)
    BY <2>4 DEF Runs, Loads, FindsLoaded, FindsCooling, EnvOK, ListingOK, KeptOK, CycleOK,
       States, Stale, StaleHot, scan, hot, gate, poolMap, answer, work
  <2> QED
    BY <1>14, <2>1, <2>2, <2>3, <2>4 DEF Target
<1>15. ASSUME NEW l \in Loops, LoadDone(l) PROVE KeptOK'
  BY <1>15 DEF LoadDone, EnvOK, ListingOK, KeptOK, CycleOK, States, Stale, StaleHot, scan, hot,
     gate, poolMap, answer, work
<1>16. ASSUME NEW l \in Loops, LoadFails(l) PROVE KeptOK'
  BY <1>16 DEF LoadFails, Leaves, EnvOK, ListingOK, KeptOK, CycleOK, States, Stale, StaleHot,
     scan, hot, gate, poolMap, answer, work
<1>17. ASSUME NEW l \in Loops, Throws(l) PROVE KeptOK'
  BY <1>17 DEF Throws, Leaves, EnvOK, ListingOK, KeptOK, CycleOK, States, Stale, StaleHot,
     scan, hot, gate, poolMap, answer, work
<1>18. CASE UNCHANGED vars
  BY <1>18 DEF vars, EnvOK, ListingOK, KeptOK, CycleOK, States, Stale, StaleHot, scan, hot,
     gate, poolMap, answer, work
<1> QED
  BY <1>1, <1>2, <1>3, <1>4, <1>5, <1>6, <1>7, <1>8, <1>9, <1>10, <1>11, <1>12, <1>13, <1>14,
     <1>15, <1>16, <1>17, <1>18, Steps

LEMMA CycleStep == EnvOK /\ ListingOK /\ KeptOK /\ CycleOK /\ [Next]_vars => CycleOK'
<1> SUFFICES ASSUME EnvOK, ListingOK, KeptOK, CycleOK, [Next]_vars PROVE CycleOK'
  OBVIOUS
<1> USE DiscoveryAssumption, LoopsAre
<1>1. CASE Tick
  BY <1>1 DEF Tick, TimePasses, Grown, EnvOK, ListingOK, KeptOK, CycleOK, States, Stale, StaleHot, Nothing,
     NoAges, scan, hot, gate, poolMap, answer, work
<1>2. CASE Arrives
  BY <1>2 DEF Arrives, ArrivesWith, Answers, QueryOver, EnvOK, ListingOK, KeptOK, CycleOK, States, Stale,
     StaleHot, Nothing, NoAges, scan, hot, gate, poolMap, answer, work
<1>3. CASE ArriveFails
  BY <1>3 DEF ArriveFails, QueryOver, FallsBack, YoungEnough, EnvOK, ListingOK, KeptOK,
     CycleOK, States, Stale, StaleHot, Nothing, NoAges, scan, hot, gate, poolMap, answer, work
<1>4. CASE TakeBegins
  <2> UNCHANGED <<env, auction, hot, gate, poolMap>> /\ pc["take"] = "idle"
    BY <1>4 DEF TakeBegins, Starts
  <2>1. CASE ManualOnly("take") /\ UNCHANGED <<scan, got, gotHeard, current>>
    <3>1. env.manual["take"] \in SUBSET Pools /\ NoAges \in [Pools -> 0 .. StaleHot]
      BY DEF EnvOK, NoAges, StaleHot
    <3> QED
      BY <2>1, <3>1 DEF ManualOnly, CycleOK, scan, hot, gate, poolMap, answer, work
  <2>2. CASE Ask("take") /\ Reusable /\ UNCHANGED work
    <3>1. waiting' = waiting /\ pc' = [pc EXCEPT !["take"] = "resolve"]
          /\ got' = [got EXCEPT !["take"] = listing] /\ gotHeard' = [gotHeard EXCEPT !["take"] = heard]
      BY <2>2 DEF Ask
    <3>2. heard \in 0 .. Stale /\ listing \in [Pools -> States]
      BY <2>2 DEF Reusable, ListingOK
    <3> QED
      BY <2>2, <3>1, <3>2 DEF CycleOK, scan, hot, gate, poolMap, answer, work
  <2>3. CASE Ask("take") /\ ~Reusable /\ UNCHANGED work
    <3>1. waiting' = waiting \cup {"take"} /\ pc' = [pc EXCEPT !["take"] = "wait"]
          /\ UNCHANGED <<got, gotHeard>>
      BY <2>3 DEF Ask
    <3> QED
      BY <2>3, <3>1 DEF CycleOK, scan, hot, gate, poolMap, answer, work
  <2> QED
    BY <1>4, <2>1, <2>2, <2>3 DEF TakeBegins, answer
<1>5. CASE TakeResolves
  BY <1>5 DEF TakeResolves, HotTakes, Targets, Some, FreshTakes, StillHot, Unexpired, EnvOK,
     ListingOK, KeptOK, CycleOK, States, Stale, StaleHot, Nothing, NoAges, scan, hot, gate,
     poolMap, answer, work
<1>6. CASE SettleBegins
  <2> UNCHANGED <<env, auction, hot, gate, poolMap>> /\ pc["settle"] = "idle"
    BY <1>6 DEF SettleBegins, Starts
  <2>1. CASE ManualOnly("settle") /\ UNCHANGED <<scan, got, gotHeard, current>>
    <3>1. env.manual["settle"] \in SUBSET Pools /\ NoAges \in [Pools -> 0 .. StaleHot]
      BY DEF EnvOK, NoAges, StaleHot
    <3> QED
      BY <2>1, <3>1 DEF ManualOnly, CycleOK, scan, hot, gate, poolMap, answer, work
  <2>2. CASE Ask("settle") /\ Reusable /\ UNCHANGED work
    <3>1. waiting' = waiting /\ pc' = [pc EXCEPT !["settle"] = "resolve"]
          /\ got' = [got EXCEPT !["settle"] = listing] /\ gotHeard' = [gotHeard EXCEPT !["settle"] = heard]
      BY <2>2 DEF Ask
    <3>2. heard \in 0 .. Stale /\ listing \in [Pools -> States]
      BY <2>2 DEF Reusable, ListingOK
    <3> QED
      BY <2>2, <3>1, <3>2 DEF CycleOK, scan, hot, gate, poolMap, answer, work
  <2>3. CASE Ask("settle") /\ ~Reusable /\ UNCHANGED work
    <3>1. waiting' = waiting \cup {"settle"} /\ pc' = [pc EXCEPT !["settle"] = "wait"]
          /\ UNCHANGED <<got, gotHeard>>
      BY <2>3 DEF Ask
    <3> QED
      BY <2>3, <3>1 DEF CycleOK, scan, hot, gate, poolMap, answer, work
  <2>4. CASE ~NeedsRefresh /\ UNCHANGED <<work, scan>>
             /\ got' = [got EXCEPT !["settle"] = listing]
             /\ gotHeard' = [gotHeard EXCEPT !["settle"] = heard]
             /\ pc' = [pc EXCEPT !["settle"] = "resolve"]
    <3>1. heard \in 0 .. Stale /\ listing \in [Pools -> States]
      BY <2>4 DEF NeedsRefresh, ListingOK
    <3> QED
      BY <2>4, <3>1 DEF CycleOK, scan, hot, gate, poolMap, answer, work
  <2> QED
    BY <1>6, <2>1, <2>2, <2>3, <2>4 DEF SettleBegins
<1>7. CASE SettleResolves
  BY <1>7 DEF SettleResolves, Targets, Some, EnvOK, ListingOK, KeptOK, CycleOK, States, Stale,
     StaleHot, Nothing, NoAges, scan, hot, gate, poolMap, answer, work
<1>8. CASE Taken
  BY <1>8 DEF Taken, Succeeds, Leaves, EnvOK, ListingOK, KeptOK, CycleOK, States, Stale,
     StaleHot, Nothing, NoAges, scan, hot, gate, poolMap, answer, work
<1>9. CASE Returned
  BY <1>9 DEF Returned, Succeeds, Leaves, EnvOK, ListingOK, KeptOK, CycleOK, States, Stale,
     StaleHot, Nothing, NoAges, scan, hot, gate, poolMap, answer, work
<1>10. CASE TakeEnds
  BY <1>10 DEF TakeEnds, Ends, EnvOK, ListingOK, KeptOK, CycleOK, States, Stale, StaleHot,
     Nothing, NoAges, scan, hot, gate, poolMap, answer, work
<1>11. CASE SettleEnds
  BY <1>11 DEF SettleEnds, Ends, Dated, EnvOK, ListingOK, KeptOK, CycleOK, States, Stale,
     StaleHot, Nothing, NoAges, scan, hot, gate, poolMap, answer, work
<1>12. ASSUME NEW p \in Pools, Auction(p) PROVE CycleOK'
  BY <1>12 DEF Auction, EnvOK, ListingOK, KeptOK, CycleOK, States, Stale, StaleHot, Nothing,
     NoAges, scan, hot, gate, poolMap, answer, work
<1>13. ASSUME NEW p \in Pools, Settled(p) PROVE CycleOK'
  BY <1>13 DEF Settled, Succeeds, Leaves, EnvOK, ListingOK, KeptOK, CycleOK, States, Stale,
     StaleHot, Nothing, NoAges, scan, hot, gate, poolMap, answer, work
<1>14. ASSUME NEW l \in Loops, NEW p \in Pools, Target(l, p) PROVE CycleOK'
  <2> UNCHANGED <<env, auction, scan, hot, gate, answer, chosen, someOk, dataAge>> /\ pc[l] = "next"
    BY <1>14 DEF Target
  <2>1. CASE Runs(l, p) /\ UNCHANGED cooling
    BY <2>1 DEF Runs, Loads, FindsLoaded, FindsCooling, EnvOK, ListingOK, KeptOK, CycleOK,
       States, Stale, StaleHot, Nothing, NoAges, scan, hot, gate, poolMap, answer, work
  <2>2. CASE FindsLoaded(l, p)
    BY <2>2 DEF Runs, Loads, FindsLoaded, FindsCooling, EnvOK, ListingOK, KeptOK, CycleOK,
       States, Stale, StaleHot, Nothing, NoAges, scan, hot, gate, poolMap, answer, work
  <2>3. CASE FindsCooling(l, p)
    BY <2>3 DEF Runs, Loads, FindsLoaded, FindsCooling, EnvOK, ListingOK, KeptOK, CycleOK,
       States, Stale, StaleHot, Nothing, NoAges, scan, hot, gate, poolMap, answer, work
  <2>4. CASE Loads(l, p)
    BY <2>4 DEF Runs, Loads, FindsLoaded, FindsCooling, EnvOK, ListingOK, KeptOK, CycleOK,
       States, Stale, StaleHot, Nothing, NoAges, scan, hot, gate, poolMap, answer, work
  <2> QED
    BY <1>14, <2>1, <2>2, <2>3, <2>4 DEF Target
<1>15. ASSUME NEW l \in Loops, LoadDone(l) PROVE CycleOK'
  BY <1>15 DEF LoadDone, EnvOK, ListingOK, KeptOK, CycleOK, States, Stale, StaleHot, Nothing,
     NoAges, scan, hot, gate, poolMap, answer, work
<1>16. ASSUME NEW l \in Loops, LoadFails(l) PROVE CycleOK'
  BY <1>16 DEF LoadFails, Leaves, EnvOK, ListingOK, KeptOK, CycleOK, States, Stale, StaleHot,
     Nothing, NoAges, scan, hot, gate, poolMap, answer, work
<1>17. ASSUME NEW l \in Loops, Throws(l) PROVE CycleOK'
  BY <1>17 DEF Throws, Leaves, EnvOK, ListingOK, KeptOK, CycleOK, States, Stale, StaleHot,
     Nothing, NoAges, scan, hot, gate, poolMap, answer, work
<1>18. CASE UNCHANGED vars
  BY <1>18 DEF vars, EnvOK, ListingOK, KeptOK, CycleOK, States, Stale, StaleHot, Nothing,
     NoAges, scan, hot, gate, poolMap, answer, work
<1> QED
  BY <1>1, <1>2, <1>3, <1>4, <1>5, <1>6, <1>7, <1>8, <1>9, <1>10, <1>11, <1>12, <1>13, <1>14,
     <1>15, <1>16, <1>17, <1>18, Steps

LEMMA FlagsStep == FlagsOK /\ [Next]_vars => FlagsOK'
<1> SUFFICES ASSUME FlagsOK, [Next]_vars PROVE FlagsOK'
  OBVIOUS
<1> USE DiscoveryAssumption, LoopsAre
<1>1. CASE Tick
  BY <1>1, Zenon DEF Tick, TimePasses, Grown, FlagsOK, scan, hot, gate, poolMap, answer, work
<1>2. CASE Arrives
  BY <1>2, Zenon DEF Arrives, ArrivesWith, Answers, QueryOver, FlagsOK, scan, hot, gate, poolMap, answer,
     work
<1>3. CASE ArriveFails
  BY <1>3, Zenon DEF ArriveFails, QueryOver, FallsBack, YoungEnough, FlagsOK, scan, hot, gate,
     poolMap, answer, work
<1>4. CASE TakeBegins
  BY <1>4, Zenon DEF TakeBegins, Starts, Ask, Reusable, ManualOnly, FlagsOK, scan, hot, gate,
     poolMap, answer, work
<1>5. CASE TakeResolves
  BY <1>5, Zenon DEF TakeResolves, HotTakes, Targets, Some, FreshTakes, StillHot, Unexpired,
     FlagsOK, scan, hot, gate, poolMap, answer, work
<1>6. CASE SettleBegins
  BY <1>6, Zenon DEF SettleBegins, Starts, Ask, Reusable, ManualOnly, SettlementDue,
     RetryWaits, NeedsRefresh, FlagsOK, scan, hot, gate, poolMap, answer, work
<1>7. CASE SettleResolves
  BY <1>7, Zenon DEF SettleResolves, Targets, Some, FlagsOK, scan, hot, gate, poolMap, answer,
     work
<1>8. CASE Taken
  BY <1>8, Zenon DEF Taken, Succeeds, Leaves, FlagsOK, scan, hot, gate, poolMap, answer, work
<1>9. CASE Returned
  BY <1>9, Zenon DEF Returned, Succeeds, Leaves, FlagsOK, scan, hot, gate, poolMap, answer, work
<1>10. CASE TakeEnds
  BY <1>10, Zenon DEF TakeEnds, Ends, FlagsOK, scan, hot, gate, poolMap, answer, work
<1>11. CASE SettleEnds
  BY <1>11, Zenon DEF SettleEnds, Ends, Dated, FlagsOK, scan, hot, gate, poolMap, answer, work
<1>12. ASSUME NEW p \in Pools, Auction(p) PROVE FlagsOK'
  BY <1>12, Zenon DEF Auction, FlagsOK, scan, hot, gate, poolMap, answer, work
<1>13. ASSUME NEW p \in Pools, Settled(p) PROVE FlagsOK'
  BY <1>13, Zenon DEF Settled, Succeeds, Leaves, FlagsOK, scan, hot, gate, poolMap, answer, work
<1>14. ASSUME NEW l \in Loops, NEW p \in Pools, Target(l, p) PROVE FlagsOK'
  BY <1>14, Zenon DEF Target, Runs, Loads, FindsLoaded, FindsCooling, FlagsOK, scan, hot, gate,
     poolMap, answer, work
<1>15. ASSUME NEW l \in Loops, LoadDone(l) PROVE FlagsOK'
  BY <1>15, Zenon DEF LoadDone, FlagsOK, scan, hot, gate, poolMap, answer, work
<1>16. ASSUME NEW l \in Loops, LoadFails(l) PROVE FlagsOK'
  BY <1>16, Zenon DEF LoadFails, Leaves, FlagsOK, scan, hot, gate, poolMap, answer, work
<1>17. ASSUME NEW l \in Loops, Throws(l) PROVE FlagsOK'
  BY <1>17, Zenon DEF Throws, Leaves, FlagsOK, scan, hot, gate, poolMap, answer, work
<1>18. CASE UNCHANGED vars
  BY <1>18, Zenon DEF vars, FlagsOK, scan, hot, gate, poolMap, answer, work
<1> QED
  BY <1>1, <1>2, <1>3, <1>4, <1>5, <1>6, <1>7, <1>8, <1>9, <1>10, <1>11, <1>12, <1>13, <1>14,
     <1>15, <1>16, <1>17, <1>18, Steps

-----------------------------------------------------------------------------
LEMMA TypeInit == Init => TypeOK
<1> SUFFICES ASSUME Init PROVE TypeOK
  OBVIOUS
<1> USE DiscoveryAssumption
<1>1. EnvOK
  BY EnvIs DEF Init
<1>2. ListingOK
  BY DEF Init, ListingOK, Nothing, States, Stale
<1>3. KeptOK
  BY <1>1, LoopsAre DEF Init, KeptOK, EnvOK, StaleHot
<1>4. CycleOK
  BY DEF Init, CycleOK, Nothing, NoAges, States, Stale, StaleHot
<1>5. FlagsOK
  BY DEF Init, FlagsOK
<1> QED
  BY <1>2, <1>3, <1>4, <1>5 DEF TypeOK, Init

LEMMA TypeStep == TypeOK /\ [Next]_vars => TypeOK'
<1> SUFFICES ASSUME TypeOK, [Next]_vars PROVE TypeOK'
  OBVIOUS
<1>1. env \in Environments /\ EnvOK /\ ListingOK /\ KeptOK /\ CycleOK /\ FlagsOK
  BY EnvIs DEF TypeOK
<1> QED
  BY <1>1, EnvStep, ListingStep, KeptStep, CycleStep, FlagsStep DEF TypeOK

\* Everything that the runtime keeps and every cycle holds has its type (runtime.ts
\* createDiscoveryRuntime, targets.ts ensurePoolLoaded), whatever fails.
THEOREM TypeCorrect == Spec => []TypeOK
<1> QED
  BY TypeInit, TypeStep, PTL DEF Spec

-----------------------------------------------------------------------------
\* How old the data may be: behind a snapshot by a scan window at most, behind a kept
\* candidate by what it was seen with, and in the hands of a cycle.
Ages ==
  /\ heard <= stored + Window
  /\ \A p \in Pools : hotAge[p] >= 0 => hotHeard[p] <= hotAge[p] + Interval + Window
  /\ \A l \in Loops : gotHeard[l] <= Interval + Window

\* What the ages take from the types.
AgeTypes ==
  /\ heard \in -1 .. Stale /\ stored \in -1 .. Interval + 1 /\ (heard = -1 <=> stored = -1)
  /\ hotAge \in [Pools -> -1 .. Ttl + 1] /\ hotHeard \in [Pools -> 0 .. StaleHot]
  /\ gotHeard \in [Loops -> 0 .. Stale] /\ dataAge \in [Loops -> [Pools -> 0 .. StaleHot]]

LEMMA AgesStep == AgeTypes /\ Ages /\ [Next]_vars => Ages'
<1> SUFFICES ASSUME AgeTypes, Ages, [Next]_vars PROVE Ages'
  OBVIOUS
<1> USE DiscoveryAssumption, LoopsAre
<1>1. CASE Tick
  BY <1>1 DEF Tick, TimePasses, Grown, AgeTypes, Ages, Stale, StaleHot, NoAges, scan, hot, gate, poolMap,
     answer, work
<1>2. CASE Arrives
  BY <1>2 DEF Arrives, ArrivesWith, Answers, QueryOver, AgeTypes, Ages, Stale, StaleHot, NoAges, scan, hot,
     gate, poolMap, answer, work
<1>3. CASE ArriveFails
  BY <1>3 DEF ArriveFails, QueryOver, FallsBack, YoungEnough, AgeTypes, Ages, Stale, StaleHot,
     NoAges, scan, hot, gate, poolMap, answer, work
<1>4. CASE TakeBegins
  <2> UNCHANGED hot
    BY <1>4 DEF TakeBegins
  <2>1. CASE UNCHANGED <<scan, gotHeard>>
    BY <2>1 DEF AgeTypes, Ages, Stale, StaleHot, NoAges, scan, hot, gate, poolMap, answer, work
  <2>2. CASE Ask("take") /\ Reusable
    <3>1. gotHeard' = [gotHeard EXCEPT !["take"] = heard] /\ stored' = 0 /\ heard' = heard
      BY <2>2 DEF Ask
    <3> QED
      BY <2>2, <3>1 DEF Reusable, AgeTypes, Ages, Stale, StaleHot, NoAges, scan, hot, gate,
         poolMap, answer, work
  <2>3. CASE Ask("take") /\ ~Reusable
    BY <2>3 DEF Ask, AgeTypes, Ages, Stale, StaleHot, NoAges, scan, hot, gate, poolMap, answer,
       work
  <2> QED
    BY <1>4, <2>1, <2>2, <2>3 DEF TakeBegins, answer, scan
<1>5. CASE TakeResolves
  <2>1. UNCHANGED scan /\ gotHeard' = [gotHeard EXCEPT !["take"] = 0]
    BY <1>5 DEF TakeResolves, Targets
  <2>2. ASSUME NEW picked, HotTakes(picked)
        PROVE  \A p \in Pools : hotAge'[p] >= 0 => hotHeard'[p] <= hotAge'[p] + Interval + Window
    BY <2>2 DEF HotTakes, AgeTypes, Ages, Stale, StaleHot, NoAges
  <2> QED
    BY <1>5, <2>1, <2>2 DEF TakeResolves, AgeTypes, Ages, Stale, StaleHot, NoAges, scan, hot,
       gate, poolMap, answer, work
<1>6. CASE SettleBegins
  <2> UNCHANGED hot
    BY <1>6 DEF SettleBegins
  <2>1. CASE UNCHANGED <<scan, gotHeard>>
    BY <2>1 DEF AgeTypes, Ages, Stale, StaleHot, NoAges, scan, hot, gate, poolMap, answer, work
  <2>2. CASE Ask("settle") /\ Reusable
    <3>1. gotHeard' = [gotHeard EXCEPT !["settle"] = heard] /\ stored' = 0 /\ heard' = heard
      BY <2>2 DEF Ask
    <3> QED
      BY <2>2, <3>1 DEF Reusable, AgeTypes, Ages, Stale, StaleHot, NoAges, scan, hot, gate,
         poolMap, answer, work
  <2>3. CASE Ask("settle") /\ ~Reusable
    BY <2>3 DEF Ask, AgeTypes, Ages, Stale, StaleHot, NoAges, scan, hot, gate, poolMap, answer,
       work
  <2>4. CASE ~NeedsRefresh /\ UNCHANGED scan
             /\ gotHeard' = [gotHeard EXCEPT !["settle"] = heard]
    BY <2>4 DEF NeedsRefresh, AgeTypes, Ages, Stale, StaleHot, NoAges, scan, hot, gate,
       poolMap, answer, work
  <2> QED
    BY <1>6, <2>1, <2>2, <2>3, <2>4 DEF SettleBegins
<1>7. CASE SettleResolves
  BY <1>7 DEF SettleResolves, Targets, Some, AgeTypes, Ages, Stale, StaleHot, NoAges, scan,
     hot, gate, poolMap, answer, work
<1>8. CASE Taken
  BY <1>8 DEF Taken, Succeeds, Leaves, AgeTypes, Ages, Stale, StaleHot, NoAges, scan, hot,
     gate, poolMap, answer, work
<1>9. CASE Returned
  BY <1>9 DEF Returned, Succeeds, Leaves, AgeTypes, Ages, Stale, StaleHot, NoAges, scan, hot,
     gate, poolMap, answer, work
<1>10. CASE TakeEnds
  BY <1>10 DEF TakeEnds, Ends, AgeTypes, Ages, Stale, StaleHot, NoAges, scan, hot, gate,
     poolMap, answer, work
<1>11. CASE SettleEnds
  BY <1>11 DEF SettleEnds, Ends, Dated, AgeTypes, Ages, Stale, StaleHot, NoAges, scan, hot,
     gate, poolMap, answer, work
<1>12. ASSUME NEW p \in Pools, Auction(p) PROVE Ages'
  BY <1>12 DEF Auction, AgeTypes, Ages, Stale, StaleHot, NoAges, scan, hot, gate, poolMap,
     answer, work
<1>13. ASSUME NEW p \in Pools, Settled(p) PROVE Ages'
  BY <1>13 DEF Settled, Succeeds, Leaves, AgeTypes, Ages, Stale, StaleHot, NoAges, scan, hot,
     gate, poolMap, answer, work
<1>14. ASSUME NEW l \in Loops, NEW p \in Pools, Target(l, p) PROVE Ages'
  BY <1>14 DEF Target, Runs, Loads, FindsLoaded, FindsCooling, AgeTypes, Ages, Stale, StaleHot,
     NoAges, scan, hot, gate, poolMap, answer, work
<1>15. ASSUME NEW l \in Loops, LoadDone(l) PROVE Ages'
  BY <1>15 DEF LoadDone, AgeTypes, Ages, Stale, StaleHot, NoAges, scan, hot, gate, poolMap,
     answer, work
<1>16. ASSUME NEW l \in Loops, LoadFails(l) PROVE Ages'
  BY <1>16 DEF LoadFails, Leaves, AgeTypes, Ages, Stale, StaleHot, NoAges, scan, hot, gate,
     poolMap, answer, work
<1>17. ASSUME NEW l \in Loops, Throws(l) PROVE Ages'
  BY <1>17 DEF Throws, Leaves, AgeTypes, Ages, Stale, StaleHot, NoAges, scan, hot, gate,
     poolMap, answer, work
<1>18. CASE UNCHANGED vars
  BY <1>18 DEF vars, AgeTypes, Ages, Stale, StaleHot, NoAges, scan, hot, gate, poolMap, answer,
     work
<1> QED
  BY <1>1, <1>2, <1>3, <1>4, <1>5, <1>6, <1>7, <1>8, <1>9, <1>10, <1>11, <1>12, <1>13, <1>14,
     <1>15, <1>16, <1>17, <1>18, Steps

LEMMA FreshStep == AgeTypes /\ Ages /\ TargetsFresh /\ [Next]_vars => TargetsFresh'
<1> SUFFICES ASSUME AgeTypes, Ages, TargetsFresh, [Next]_vars PROVE TargetsFresh'
  OBVIOUS
<1> USE DiscoveryAssumption, LoopsAre
<1>1. CASE Tick
  BY <1>1 DEF Tick, TimePasses, Grown, AgeTypes, Ages, TargetsFresh, NoAges, Stale, StaleHot, scan, hot,
     gate, poolMap, answer, work
<1>2. CASE Arrives
  BY <1>2 DEF Arrives, ArrivesWith, Answers, QueryOver, AgeTypes, Ages, TargetsFresh, NoAges, Stale,
     StaleHot, scan, hot, gate, poolMap, answer, work
<1>3. CASE ArriveFails
  BY <1>3 DEF ArriveFails, QueryOver, FallsBack, YoungEnough, AgeTypes, Ages, TargetsFresh,
     NoAges, Stale, StaleHot, scan, hot, gate, poolMap, answer, work
<1>4. CASE TakeBegins
  BY <1>4 DEF TakeBegins, Starts, Ask, Reusable, ManualOnly, AgeTypes, Ages, TargetsFresh,
     NoAges, Stale, StaleHot, scan, hot, gate, poolMap, answer, work
<1>5. CASE TakeResolves
  <2>1. PICK picked \in SUBSET Pools :
          /\ \/ HotTakes(picked)
             \/ UNCHANGED hot /\ picked \in Some(FreshTakes, env.most["take"])
          /\ Targets("take", picked, [p \in picked |-> IF p \in FreshTakes THEN gotHeard["take"]
                                                     ELSE hotHeard[p]])
    BY <1>5 DEF TakeResolves
  <2>2. ASSUME NEW p \in picked, p \notin FreshTakes
        PROVE  hotHeard[p] <= Interval + Window + Ttl
    <3>1. p \in StillHot
      BY <2>1, <2>2 DEF HotTakes, Some
    <3> QED
      BY <3>1 DEF StillHot, Unexpired, AgeTypes, Ages, TargetsFresh, NoAges, Stale, StaleHot
  <2>3. dataAge' = [dataAge EXCEPT !["take"] = [p \in Pools |-> IF p \in picked
                                                THEN IF p \in FreshTakes THEN gotHeard["take"] ELSE hotHeard[p]
                                                ELSE 0]]
    BY <2>1 DEF Targets
  <2>4. \A p \in Pools : dataAge'["take"][p] <= Interval + Window + Ttl
    BY <2>2, <2>3 DEF AgeTypes, Ages, TargetsFresh, NoAges, Stale, StaleHot
  <2>5. dataAge'["settle"] = dataAge["settle"]
    BY <2>3 DEF AgeTypes
  <2> QED
    BY <2>4, <2>5 DEF TargetsFresh
<1>6. CASE SettleBegins
  BY <1>6 DEF SettleBegins, Starts, Ask, Reusable, ManualOnly, SettlementDue, RetryWaits,
     NeedsRefresh, AgeTypes, Ages, TargetsFresh, NoAges, Stale, StaleHot, scan, hot, gate,
     poolMap, answer, work
<1>7. CASE SettleResolves
  <2>1. PICK picked \in SUBSET Pools : Targets("settle", picked, [p \in picked |-> gotHeard["settle"]])
    BY <1>7 DEF SettleResolves, Some
  <2>2. dataAge' = [dataAge EXCEPT !["settle"] = [p \in Pools |-> IF p \in picked
                                                  THEN gotHeard["settle"] ELSE 0]]
    BY <2>1 DEF Targets
  <2> QED
    BY <2>2 DEF AgeTypes, Ages, TargetsFresh, NoAges, Stale, StaleHot
<1>8. CASE Taken
  BY <1>8 DEF Taken, Succeeds, Leaves, AgeTypes, Ages, TargetsFresh, NoAges, Stale, StaleHot,
     scan, hot, gate, poolMap, answer, work
<1>9. CASE Returned
  BY <1>9 DEF Returned, Succeeds, Leaves, AgeTypes, Ages, TargetsFresh, NoAges, Stale,
     StaleHot, scan, hot, gate, poolMap, answer, work
<1>10. CASE TakeEnds
  BY <1>10 DEF TakeEnds, Ends, AgeTypes, Ages, TargetsFresh, NoAges, Stale, StaleHot, scan,
     hot, gate, poolMap, answer, work
<1>11. CASE SettleEnds
  BY <1>11 DEF SettleEnds, Ends, Dated, AgeTypes, Ages, TargetsFresh, NoAges, Stale, StaleHot,
     scan, hot, gate, poolMap, answer, work
<1>12. ASSUME NEW p \in Pools, Auction(p) PROVE TargetsFresh'
  BY <1>12 DEF Auction, AgeTypes, Ages, TargetsFresh, NoAges, Stale, StaleHot, scan, hot, gate,
     poolMap, answer, work
<1>13. ASSUME NEW p \in Pools, Settled(p) PROVE TargetsFresh'
  BY <1>13 DEF Settled, Succeeds, Leaves, AgeTypes, Ages, TargetsFresh, NoAges, Stale,
     StaleHot, scan, hot, gate, poolMap, answer, work
<1>14. ASSUME NEW l \in Loops, NEW p \in Pools, Target(l, p) PROVE TargetsFresh'
  BY <1>14 DEF Target, Runs, Loads, FindsLoaded, FindsCooling, AgeTypes, Ages, TargetsFresh,
     NoAges, Stale, StaleHot, scan, hot, gate, poolMap, answer, work
<1>15. ASSUME NEW l \in Loops, LoadDone(l) PROVE TargetsFresh'
  BY <1>15 DEF LoadDone, AgeTypes, Ages, TargetsFresh, NoAges, Stale, StaleHot, scan, hot,
     gate, poolMap, answer, work
<1>16. ASSUME NEW l \in Loops, LoadFails(l) PROVE TargetsFresh'
  BY <1>16 DEF LoadFails, Leaves, AgeTypes, Ages, TargetsFresh, NoAges, Stale, StaleHot, scan,
     hot, gate, poolMap, answer, work
<1>17. ASSUME NEW l \in Loops, Throws(l) PROVE TargetsFresh'
  BY <1>17 DEF Throws, Leaves, AgeTypes, Ages, TargetsFresh, NoAges, Stale, StaleHot, scan,
     hot, gate, poolMap, answer, work
<1>18. CASE UNCHANGED vars
  BY <1>18 DEF vars, AgeTypes, Ages, TargetsFresh, NoAges, Stale, StaleHot, scan, hot, gate,
     poolMap, answer, work
<1> QED
  BY <1>1, <1>2, <1>3, <1>4, <1>5, <1>6, <1>7, <1>8, <1>9, <1>10, <1>11, <1>12, <1>13, <1>14,
     <1>15, <1>16, <1>17, <1>18, Steps

\* What is proved to hold in every state.
IInv == TypeOK /\ Ages /\ TargetsFresh

\* A settlement target is chosen by data that the subgraph gave at most an interval and a scan
\* window ago, a take target by data at most a time to live older (runtime.ts
\* getCachedDiscoverySnapshotForFallback, targets.ts HotAuctionCandidateCache).
THEOREM ChosenByFreshData == Spec => []TargetsFresh
<1>1. Init => IInv
  <2> SUFFICES ASSUME Init PROVE Ages /\ TargetsFresh
    BY TypeInit DEF IInv
  <2> QED
    BY DiscoveryAssumption DEF Init, Ages, TargetsFresh, NoAges, Loops
<1>2. IInv /\ [Next]_vars => IInv'
  <2>1. TypeOK => AgeTypes
    BY DEF TypeOK, ListingOK, KeptOK, CycleOK, AgeTypes
  <2> QED
    BY <2>1, TypeStep, AgesStep, FreshStep DEF IInv
<1>3. IInv => TargetsFresh
  BY DEF IInv
<1> QED
  BY <1>1, <1>2, <1>3, PTL DEF Spec

-----------------------------------------------------------------------------
\* What one step does not do to a target whose pool is loaded.
KeepsLoaded ==
  \A l \in Loops, p \in Pools :
    pc[l] = "next" /\ p \in todo[l] /\ p \in loaded /\ p \notin todo'[l] => pc'[l] = "run"

LEMMA KeepsLoadedStep == CycleOK /\ [Next]_vars => KeepsLoaded
<1> SUFFICES ASSUME CycleOK, [Next]_vars, NEW l \in Loops, NEW p \in Pools,
                    pc[l] = "next", p \in todo[l], p \in loaded, p \notin todo'[l]
             PROVE  FALSE
  BY DEF KeepsLoaded
<1>1. todo \in [Loops -> SUBSET Pools] /\ pc \in [Loops -> {"idle", "wait", "resolve", "next", "load", "run"}]
  BY DEF CycleOK
<1>2. todo'[l] # todo[l]
  OBVIOUS
<1>3. CASE \E k \in Loops : pc[k] = "run" /\ Leaves(k)
  BY <1>1, <1>2, <1>3 DEF Leaves
<1>4. CASE \E k \in Loops : LoadFails(k)
  BY <1>1, <1>2, <1>4 DEF LoadFails, Leaves
<1>5. ASSUME NEW k \in Loops, NEW q \in Pools, Target(k, q) PROVE FALSE
  BY <1>1, <1>2, <1>5 DEF Target, Runs, Loads, FindsLoaded, FindsCooling
<1>6. CASE TakeBegins
  BY <1>1, <1>2, <1>6 DEF TakeBegins, Starts, ManualOnly, work
<1>7. CASE SettleBegins
  BY <1>1, <1>2, <1>7 DEF SettleBegins, Starts, ManualOnly, work
<1>8. CASE TakeResolves
  BY <1>1, <1>2, <1>8 DEF TakeResolves, Targets
<1>9. CASE SettleResolves
  BY <1>1, <1>2, <1>9 DEF SettleResolves, Targets
<1>10. CASE UNCHANGED todo
  BY <1>2, <1>10
<1> QED
  <2>1. CASE Taken \/ Returned \/ \E q \in Pools : Settled(q)
    BY <1>3, <2>1, LoopsAre DEF Taken, Returned, Settled, Succeeds
  <2>2. CASE \E k \in Loops : Throws(k)
    BY <1>3, <2>2 DEF Throws
  <2>3. CASE Tick \/ Arrives \/ ArriveFails \/ TakeEnds \/ SettleEnds \/ UNCHANGED vars
    BY <1>10, <2>3 DEF Tick, TimePasses, Arrives, ArrivesWith, ArriveFails, TakeEnds, SettleEnds, Ends, vars, work
  <2>4. CASE (\E q \in Pools : Auction(q)) \/ \E k \in Loops : LoadDone(k)
    BY <1>10, <2>4 DEF Auction, LoadDone, work
  <2> QED
    BY <1>4, <1>5, <1>6, <1>7, <1>8, <1>9, <2>1, <2>2, <2>3, <2>4, Steps

\* No target is given up for a cooldown while its pool is loaded (targets.ts
\* ensurePoolLoaded, where two loops load one pool and one of them fails).
THEOREM LoadedPoolsAreUsed == Spec => LoadedNotSkipped
<1>1. TypeOK /\ [Next]_vars => [KeepsLoaded]_vars
  BY KeepsLoadedStep DEF TypeOK
<1> QED
  BY <1>1, TypeInit, TypeStep, PTL DEF Spec, LoadedNotSkipped, KeepsLoaded

-----------------------------------------------------------------------------
\* The query of SubgraphScan.

LEMMA EnvStays == [Next]_vars => env' = env
BY DEF Next, vars, Tick, TimePasses, Arrives, ArrivesWith, ArriveFails, TakeStep, TakeBegins,
   TakeResolves, Taken, TakeEnds, SettleStep, SettleBegins, SettleResolves, Returned, Settled,
   SettleEnds, LoopStep, Target, LoadDone, LoadFails, Throws, Succeeds, Auction

\* Pools that are not allowed never have an auction that the keeper is shown.
LEMMA AuctionsStayAllowed ==
  ASSUME auction \in Answers, [Next]_vars
  PROVE  auction' \in Answers'
<1> USE DEF Answers, States
<1>1. ASSUME NEW p \in Pools, Auction(p) PROVE auction' \in Answers'
  BY <1>1 DEF Auction
<1>2. ASSUME NEW p \in Pools, Settled(p) PROVE auction' \in Answers'
  <2>1. auction' = [auction EXCEPT ![p] = "none"] /\ env' = env
    BY <1>2 DEF Settled, Succeeds
  <2> QED
    BY <2>1
<1>3. CASE UNCHANGED auction
  BY <1>3, EnvStays
<1> QED
  BY <1>1, <1>2, <1>3, Steps DEF vars, Tick, TimePasses, Arrives, ArrivesWith, ArriveFails, TakeBegins,
     TakeResolves, Taken, TakeEnds, SettleBegins, SettleResolves, Returned, SettleEnds, Target,
     LoadDone, LoadFails, Throws

\* What a page adds to what the pages before it listed is an answer, too.
LEMMA PagesAddUp ==
  ASSUME items \in Answers, auction \in Answers, NEW shown \in Shown, NEW listed \in SUBSET Pools
  PROVE  [p \in Pools |-> IF p \in listed THEN shown[p] ELSE items[p]] \in Answers
BY DEF Shown, Answers

\* A step of the query with all that it does to the endpoints is a step of the runtime, which
\* sees the end of a scan and nothing of the pages before.
LEMMA QueryStep ==
  ASSUME RequestOK, PageArrives \/ AttemptFails
  PROVE  [Next]_vars /\ items' \in Answers
<1> USE DEF RequestOK
<1>1. Nothing \in Answers
  BY DEF Nothing, Answers, States
<1>2. CASE PageArrives
  <2>1. PICK shown \in Shown :
          LET sofar == [p \in Pools |-> IF p \in Listed(shown) THEN shown[p] ELSE items[p]]
          IN  (ArrivesWith(sofar) /\ Idle) \/ (items' = sofar /\ UNCHANGED vars)
    BY <1>2, Zenon DEF PageArrives
  <2>2. [p \in Pools |-> IF p \in Listed(shown) THEN shown[p] ELSE items[p]] \in Answers
    <3>1. Listed(shown) \in SUBSET Pools
      BY DEF Listed
    <3> QED
      BY <3>1, PagesAddUp
  <2> QED
    BY <1>1, <2>1, <2>2 DEF Idle, Next, Arrives
<1>3. CASE AttemptFails
  BY <1>1, <1>3 DEF AttemptFails, TriesNext, Idle, Next
<1> QED
  BY <1>2, <1>3

LEMMA ScanSteps ==
  ASSUME RequestOK, [ScanNext]_scanVars
  PROVE  [Next]_vars /\ RequestOK'
<1>1. [Next]_vars
  <2>1. CASE ScanTick
    BY <2>1 DEF ScanTick, Next, Tick
  <2>2. CASE Takes \/ Settles
    BY <2>2 DEF Takes, Settles, Next
  <2>3. CASE PageArrives \/ AttemptFails
    BY <2>3, QueryStep
  <2>4. CASE UNCHANGED scanVars \/ \E u \in Urls : OtherRequest(u)
    BY <2>4 DEF OtherRequest, scanVars
  <2>5. CASE \E p \in Pools : Auction(p) /\ Quiet
    BY <2>5 DEF Next
  <2> QED
    BY <2>1, <2>2, <2>3, <2>4, <2>5 DEF ScanNext
<1>2. env' = env /\ auction' \in Answers'
  BY <1>1, EnvStays, AuctionsStayAllowed DEF RequestOK
<1>3. reader' = reader
  BY DEF ScanNext, scanVars, ScanTick, Takes, Settles, PageArrives, AttemptFails, OtherRequest, Quiet
<1>4. items' \in Answers
  <2>1. CASE PageArrives \/ AttemptFails
    BY <2>1, QueryStep
  <2>2. CASE UNCHANGED items
    BY <2>2 DEF RequestOK
  <2> QED
    BY <2>1, <2>2 DEF ScanNext, scanVars, ScanTick, Takes, Settles, Requests, OtherRequest, Quiet, request
<1> QED
  BY <1>1, <1>2, <1>3, <1>4 DEF RequestOK, Answers

\* The paged query with its failover, its timeouts and the endpoints that rest is no more than
\* what the runtime expects of a scan (subgraph.ts requestSubgraph, paginateSubgraphCursor): it
\* is over once, with an answer or without one, and what it lists are allowed pools.
THEOREM ScanImplementsRuntime == ScanSpec => Spec
<1>1. ScanInit => Init /\ RequestOK
  BY DEF ScanInit, Init, RequestOK, Answers, Nothing, States
<1>2. RequestOK /\ [ScanNext]_scanVars => RequestOK' /\ [Next]_vars
  BY ScanSteps
<1> QED
  BY <1>1, <1>2, PTL DEF ScanSpec, Spec

\* So whatever the endpoints do, and however many requests a scan takes, a target is chosen by
\* a scan that ended within the windows ...
THEOREM ScanChosenByFreshData == ScanSpec => []TargetsFresh
BY ScanImplementsRuntime, ChosenByFreshData, PTL

\* ... and no target whose pool is loaded is passed over.
THEOREM ScanUsesLoadedPools == ScanSpec => LoadedNotSkipped
BY ScanImplementsRuntime, LoadedPoolsAreUsed, PTL

=============================================================================
