------------------------- MODULE DiscoveryRuntime -------------------------
(***************************************************************************)
(* How the take loop and the settlement loop find the pools they work on   *)
(* (discovery/runtime.ts, discovery/targets.ts): both ask the subgraph for *)
(* the auctions of the chain through one shared scan, keep the answer as a *)
(* snapshot, fall back to it when a later scan fails, remember candidates  *)
(* that takes saw before, and load pools on demand with a cooldown after a *)
(* failure.  The settlement loop turns to discovered pools only at an      *)
(* interval, or earlier after a failure.                                   *)
(*                                                                         *)
(* The last answer of the scan is also what the snapshot holds: each scan  *)
(* is stored by a loop that waits for it, so one variable, listing, stands *)
(* for both, with an age for each.  Ages are counted up to the value at    *)
(* which they stop to matter.                                              *)
(***************************************************************************)
EXTENDS Integers, FiniteSets

CONSTANTS
  Pools, NoPool,
  Window,      \* DISCOVERY_SCAN_CACHE_WINDOW_MS
  Interval,    \* of discovered settlements; also the greatest age of a fallback
  RetryAfter,  \* computeDiscoveredSettlementFailureRetrySeconds
  Ttl,         \* hotAuctionCandidateTtlMs
  Cooldown,    \* hydrateCooldownSec
  Environments \* see EnvType

Loops == {"take", "settle"}
States == {"none", "coll", "bad"}  \* no auction; one with collateral; only bad debt

EnvType == [
  loops : SUBSET Loops,
  policies : SUBSET Loops,           \* loops with a discovery policy
  manual : [Loops -> SUBSET Pools],  \* pools with settings of their own
  lists : SUBSET Pools,              \* pools that have auctions and are allowed
  most : [Loops -> 1 .. Cardinality(Pools)],  \* maxPoolsPerRun
  hot : 0 .. Cardinality(Pools),     \* maxHotAuctionCandidates, 0 without the cache
  flaky : BOOLEAN]                   \* loads and targets may fail

ASSUME DiscoveryAssumption ==
  /\ IsFiniteSet(Pools) /\ NoPool \notin Pools
  /\ Window \in Nat /\ Interval \in Nat \ {0} /\ RetryAfter \in 1 .. Interval
  /\ Ttl \in Nat /\ Cooldown \in Nat
  /\ Environments \subseteq EnvType

VARIABLES
  env,
  auction,   \* the state of the auction of a pool
  \* the shared scan and the snapshot
  listing,   \* the last answer
  heard,     \* its age (fetchedAt of the scan), -1 before the first
  stored,    \* the age of the snapshot (fetchedAt of the snapshot), -1 before the first
  waiting,   \* loops that wait for the scan under way, none without one
  \* kept by the runtime
  hotAge, hotHeard,  \* per pool: time since lastSeenAtMs, -1 when not kept; age of the data
  known,             \* chainId has been read
  lastOk, lastFail,  \* time since a discovered settlement cycle ended, -1 for undefined
  loaded, cooling,   \* poolMap; time until a pool may be loaded again
  \* one cycle of a loop
  pc,
  got, gotHeard,     \* the auctions it works with and their age
  usable,            \* ~snapshotRefreshFailed \/ snapshotFallbackUsed
  included,          \* includeDiscoveredTargets
  todo, chosen,      \* targets left; the discovered ones among all
  current, someOk,   \* the target in hand; discoveredTargetSuccesses > 0
  dataAge            \* the age of the data that a discovered target was chosen by

scan == <<listing, heard, stored, waiting>>
hot == <<hotAge, hotHeard, known>>
gate == <<lastOk, lastFail>>
poolMap == <<loaded, cooling>>
answer == <<got, gotHeard, usable, included>>
work == <<todo, chosen, current, someOk, dataAge>>
vars == <<env, auction, scan, hot, gate, poolMap, pc, answer, work>>

Stale == Interval + Window + 1        \* ages of a listing beyond this are alike
StaleHot == Interval + Window + Ttl + 1
Grown(n, limit) == IF n >= 0 /\ n < limit THEN n + 1 ELSE n
Nothing == [p \in Pools |-> "none"]
NoAges == [p \in Pools |-> 0]

ListingOK ==
  /\ auction \in [Pools -> States] /\ listing \in [Pools -> States]
  /\ heard \in -1 .. Stale /\ stored \in -1 .. Interval + 1
  /\ waiting \subseteq Loops
  /\ heard = -1 <=> stored = -1

KeptOK ==
  /\ hotAge \in [Pools -> -1 .. Ttl + 1] /\ hotHeard \in [Pools -> 0 .. StaleHot]
  /\ lastOk \in -1 .. Interval /\ lastFail \in -1 .. RetryAfter
  /\ loaded \subseteq Pools /\ cooling \in [Pools -> 0 .. Cooldown]

CycleOK ==
  /\ pc \in [Loops -> {"idle", "wait", "resolve", "next", "load", "run"}]
  /\ \A l \in Loops : /\ l \in waiting <=> pc[l] = "wait"
                      /\ pc[l] \in {"load", "run"} => current[l] \in Pools
  /\ got \in [Loops -> [Pools -> States]] /\ gotHeard \in [Loops -> 0 .. Stale]
  /\ todo \in [Loops -> SUBSET Pools] /\ chosen \in [Loops -> SUBSET Pools]
  /\ current \in [Loops -> Pools \cup {NoPool}]
  /\ dataAge \in [Loops -> [Pools -> 0 .. StaleHot]]

FlagsOK ==
  /\ known \in BOOLEAN /\ usable \in [Loops -> BOOLEAN]
  /\ included \in [Loops -> BOOLEAN] /\ someOk \in [Loops -> BOOLEAN]

TypeOK == env \in Environments /\ ListingOK /\ KeptOK /\ CycleOK /\ FlagsOK

Init ==
  /\ env \in Environments
  /\ auction = Nothing
  /\ listing = Nothing /\ heard = -1 /\ stored = -1 /\ waiting = {}
  /\ hotAge = [p \in Pools |-> -1] /\ hotHeard = [p \in Pools |-> 0] /\ known = FALSE
  /\ lastOk = -1 /\ lastFail = -1
  /\ loaded = env.manual["take"] \cup env.manual["settle"]
  /\ cooling = [p \in Pools |-> 0]
  /\ pc = [l \in Loops |-> "idle"]
  /\ got = [l \in Loops |-> Nothing] /\ gotHeard = [l \in Loops |-> 0]
  /\ usable = [l \in Loops |-> TRUE] /\ included = [l \in Loops |-> FALSE]
  /\ todo = [l \in Loops |-> {}] /\ chosen = [l \in Loops |-> {}]
  /\ current = [l \in Loops |-> NoPool] /\ someOk = [l \in Loops |-> FALSE]
  /\ dataAge = [l \in Loops |-> NoAges]

-----------------------------------------------------------------------------
\* The chain and the clock.

\* Auctions start, lose their collateral, and end, whoever does it.
Auction(p) ==
  /\ p \in env.lists
  /\ \/ auction[p] = "none" /\ auction' = [auction EXCEPT ![p] = "coll"]
     \/ auction[p] = "coll" /\ auction' = [auction EXCEPT ![p] = "bad"]
     \/ auction[p] = "coll" /\ auction' = [auction EXCEPT ![p] = "none"]
  /\ UNCHANGED <<env, scan, hot, gate, poolMap, pc, answer, work>>

\* A loop chooses its targets in the instant in which it has the auctions.
TimePasses ==
  /\ \A l \in Loops : pc[l] # "resolve"
  /\ heard' = Grown(heard, Stale) /\ stored' = Grown(stored, Interval + 1)
  /\ hotAge' = [p \in Pools |-> Grown(hotAge[p], Ttl + 1)]
  /\ hotHeard' = [p \in Pools |-> IF hotAge[p] = -1 THEN hotHeard[p]
                                  ELSE Grown(hotHeard[p], StaleHot)]
  /\ lastOk' = Grown(lastOk, Interval) /\ lastFail' = Grown(lastFail, RetryAfter)
  /\ cooling' = [p \in Pools |-> IF cooling[p] > 0 THEN cooling[p] - 1 ELSE 0]
  /\ UNCHANGED <<env, auction, listing, waiting, known, loaded, pc, answer, work>>

Tick == TimePasses /\ vars' # vars

-----------------------------------------------------------------------------
\* The scan that the loops share.

ReusableAtAnyAge == heard >= 0  \* mutant
Reusable == heard >= 0 /\ heard <= Window

\* refreshDiscoverySnapshot: reuse the last scan, join the one under way, or start one.
Ask(l) ==
  /\ UNCHANGED <<listing, heard>>
  /\ IF Reusable
     THEN /\ stored' = 0 /\ waiting' = waiting
          /\ pc' = [pc EXCEPT ![l] = "resolve"]
          /\ got' = [got EXCEPT ![l] = listing]
          /\ gotHeard' = [gotHeard EXCEPT ![l] = heard]
     ELSE /\ waiting' = waiting \cup {l} /\ pc' = [pc EXCEPT ![l] = "wait"]
          /\ UNCHANGED <<stored, got, gotHeard>>
  /\ usable' = [usable EXCEPT ![l] = TRUE]

\* What the pages of a scan may add up to: the subgraph lags behind the chain, and pages are
\* read at different times (see SubgraphScan).
Answers == {a \in [Pools -> States] : \A p \in Pools \ env.lists : a[p] = "none"}

\* A query that is over, with or without an answer, is no longer joined.
QueryOver == {}

\* The answer reaches every loop that waits, and each stores it as the snapshot.
ArrivesWith(a) ==
  /\ waiting # {}
  /\ listing' = a /\ heard' = 0 /\ stored' = 0 /\ waiting' = QueryOver
  /\ got' = [l \in Loops |-> IF l \in waiting THEN a ELSE got[l]]
  /\ gotHeard' = [l \in Loops |-> IF l \in waiting THEN 0 ELSE gotHeard[l]]
  /\ pc' = [l \in Loops |-> IF l \in waiting THEN "resolve" ELSE pc[l]]
  /\ UNCHANGED <<env, auction, hot, gate, poolMap, usable, included, work>>

Arrives == \E a \in Answers : ArrivesWith(a)

\* getCachedDiscoverySnapshotForFallback
YoungEnough == stored >= 0 /\ stored <= Interval
FallsBack == YoungEnough

ArriveFails ==
  /\ waiting # {}
  /\ waiting' = QueryOver
  /\ got' = [l \in Loops |-> IF l \notin waiting THEN got[l]
                             ELSE IF FallsBack THEN listing ELSE Nothing]
  /\ gotHeard' = [l \in Loops |-> IF l \notin waiting THEN gotHeard[l]
                                  ELSE IF FallsBack THEN heard ELSE 0]
  /\ usable' = [l \in Loops |-> IF l \in waiting THEN FallsBack ELSE usable[l]]
  /\ pc' = [l \in Loops |-> IF l \in waiting THEN "resolve" ELSE pc[l]]
  /\ UNCHANGED <<env, auction, listing, heard, stored, hot, gate, poolMap, included, work>>

-----------------------------------------------------------------------------
\* The beginning of a cycle: which targets.

Starts(l) == l \in env.loops /\ pc[l] = "idle"

\* Only the pools with settings of their own.
ManualOnly(l) ==
  /\ todo' = [todo EXCEPT ![l] = env.manual[l]]
  /\ chosen' = [chosen EXCEPT ![l] = {}] /\ dataAge' = [dataAge EXCEPT ![l] = NoAges]
  /\ someOk' = [someOk EXCEPT ![l] = FALSE]
  /\ pc' = [pc EXCEPT ![l] = "next"]

\* A cycle that cannot create its write transport ends before it begins.
TakeBegins ==
  /\ Starts("take")
  /\ IF "take" \in env.policies
     THEN Ask("take") /\ UNCHANGED <<included, work>>
     ELSE ManualOnly("take") /\ UNCHANGED <<scan, answer, current>>
  /\ UNCHANGED <<env, auction, hot, gate, poolMap>>

\* shouldRunDiscoveredSettlementCycle
RetryWaits == lastFail # -1 /\ lastFail < RetryAfter
SettlementDue ==
  /\ "settle" \in env.policies
  /\ ~RetryWaits
  /\ lastOk = -1 \/ lastOk >= Interval

\* The take loop keeps the snapshot young when it discovers, too.
NeedsRefreshOnlyFirst == stored = -1  \* mutant
NeedsRefresh == "take" \notin env.policies \/ stored = -1 \/ stored >= Interval

SettleBegins ==
  /\ Starts("settle")
  /\ included' = [included EXCEPT !["settle"] = SettlementDue]
  /\ IF ~SettlementDue
     THEN ManualOnly("settle") /\ UNCHANGED <<scan, got, gotHeard, usable, current>>
     ELSE /\ UNCHANGED work
          /\ \/ NeedsRefresh /\ Ask("settle")
             \/ /\ ~NeedsRefresh
                /\ got' = [got EXCEPT !["settle"] = listing]
                /\ gotHeard' = [gotHeard EXCEPT !["settle"] = heard]
                /\ usable' = [usable EXCEPT !["settle"] = TRUE]
                /\ pc' = [pc EXCEPT !["settle"] = "resolve"]
                /\ UNCHANGED scan
  /\ UNCHANGED <<env, auction, hot, gate, poolMap>>

\* At most so many of a set; which ones depends on debts, which are not modelled.
Some(S, limit) ==
  {C \in SUBSET S : Cardinality(C) = IF Cardinality(S) < limit THEN Cardinality(S) ELSE limit}

Targets(l, picked, age) ==
  /\ todo' = [todo EXCEPT ![l] = env.manual[l] \cup picked]
  /\ chosen' = [chosen EXCEPT ![l] = picked]
  /\ dataAge' = [dataAge EXCEPT ![l] = [p \in Pools |-> IF p \in picked THEN age[p] ELSE 0]]
  /\ someOk' = [someOk EXCEPT ![l] = FALSE]
  /\ pc' = [pc EXCEPT ![l] = "next"]
  /\ got' = [got EXCEPT ![l] = Nothing] /\ gotHeard' = [gotHeard EXCEPT ![l] = 0]

\* buildDiscoveredSettlementTargets
SettleResolves ==
  /\ pc["settle"] = "resolve"
  /\ \E picked \in Some({p \in Pools \ env.manual["settle"] : got["settle"][p] = "bad"},
                        env.most["settle"]) :
       Targets("settle", picked, [p \in picked |-> gotHeard["settle"]])
  /\ UNCHANGED <<env, auction, scan, hot, gate, poolMap, usable, included, current>>

FreshTakes == {p \in Pools \ env.manual["take"] : got["take"][p] = "coll"}

\* pruneExpired
Unexpired(p) == hotAge[p] >= 0 /\ hotAge[p] <= Ttl
StillHot == {p \in Pools : Unexpired(p)}

\* pruneToMax drops those that were seen least recently.
Retained(kept) ==
  LET seen(p) == IF p \in FreshTakes THEN 0 ELSE hotAge[p]
  IN  \A p \in (FreshTakes \cup StillHot) \ kept : \A q \in kept : seen(p) >= seen(q)

\* buildDiscoveredTakeTargets with the cache of candidates that were seen before.
HotTakes(picked) ==
  \E kept \in Some(FreshTakes \cup StillHot, env.hot) :
    /\ Retained(kept)
    /\ hotAge' = [p \in Pools |-> IF p \notin kept THEN -1
                                  ELSE IF p \in FreshTakes THEN 0 ELSE hotAge[p]]
    /\ hotHeard' = [p \in Pools |-> IF p \notin kept THEN 0
                                    ELSE IF p \in FreshTakes THEN gotHeard["take"]
                                    ELSE hotHeard[p]]
    /\ picked \in Some(FreshTakes \cup kept, env.most["take"])

TakeResolves ==
  /\ pc["take"] = "resolve"
  /\ \E picked \in SUBSET Pools :
       /\ \/ /\ env.hot > 0 /\ known' = TRUE   \* getRuntimeChainId
             /\ HotTakes(picked)
          \/ /\ env.hot = 0 \/ (env.flaky /\ ~known)
             /\ UNCHANGED hot
             /\ picked \in Some(FreshTakes, env.most["take"])
       /\ Targets("take", picked, [p \in picked |-> IF p \in FreshTakes THEN gotHeard["take"]
                                                    ELSE hotHeard[p]])
  /\ UNCHANGED <<env, auction, scan, gate, poolMap, usable, included, current>>

-----------------------------------------------------------------------------
\* The rest of a cycle: one target after the other.

Leaves(l) == todo' = [todo EXCEPT ![l] = @ \ {current[l]}]
           /\ current' = [current EXCEPT ![l] = NoPool]
           /\ pc' = [pc EXCEPT ![l] = "next"]

Loads(l, p) ==
  /\ current' = [current EXCEPT ![l] = p] /\ pc' = [pc EXCEPT ![l] = "load"]
  /\ UNCHANGED <<loaded, cooling, todo>>

Runs(l, p) ==
  /\ current' = [current EXCEPT ![l] = p] /\ pc' = [pc EXCEPT ![l] = "run"]
  /\ UNCHANGED <<loaded, todo>>

\* A pool that is there is used, whatever a failed attempt of another loop left behind.
FindsLoaded(l, p) ==
  p \in loaded /\ cooling' = [cooling EXCEPT ![p] = 0] /\ Runs(l, p)

FindsCoolingFirst(l, p) ==  \* mutant
  /\ cooling[p] > 0
  /\ todo' = [todo EXCEPT ![l] = @ \ {p}]
  /\ UNCHANGED <<loaded, cooling, current, pc>>
FindsCooling(l, p) ==
  /\ p \notin loaded /\ cooling[p] > 0
  /\ todo' = [todo EXCEPT ![l] = @ \ {p}]
  /\ UNCHANGED <<loaded, cooling, current, pc>>

\* resolveEffectiveTargetPool, ensurePoolLoaded
Target(l, p) ==
  /\ pc[l] = "next" /\ p \in todo[l]
  /\ p \in env.manual[l] \/ todo[l] \cap env.manual[l] = {}
  /\ \/ p \in env.manual[l] /\ Runs(l, p) /\ UNCHANGED cooling
     \/ p \notin env.manual[l] /\ FindsLoaded(l, p)
     \/ p \notin env.manual[l] /\ FindsCooling(l, p)
     \/ p \notin env.manual[l] /\ p \notin loaded /\ cooling[p] = 0 /\ Loads(l, p)
  /\ UNCHANGED <<env, auction, scan, hot, gate, answer, chosen, someOk, dataAge>>

LoadDone(l) ==
  /\ pc[l] = "load"
  /\ loaded' = loaded \cup {current[l]}
  /\ cooling' = [cooling EXCEPT ![current[l]] = 0]
  /\ pc' = [pc EXCEPT ![l] = "run"]
  /\ UNCHANGED <<env, auction, scan, hot, gate, answer, work>>

LoadFails(l) ==
  /\ pc[l] = "load" /\ env.flaky
  /\ cooling' = [cooling EXCEPT ![current[l]] = Cooldown]
  /\ Leaves(l)
  /\ UNCHANGED <<env, auction, scan, hot, gate, loaded, answer, chosen, someOk, dataAge>>

Succeeds(l) ==
  /\ someOk' = [someOk EXCEPT ![l] = @ \/ current[l] \in chosen[l]]
  /\ Leaves(l)
  /\ UNCHANGED <<env, scan, gate, poolMap, answer, chosen, dataAge>>

\* A take target was evaluated; a candidate found inactive is no longer kept.
Taken ==
  /\ pc["take"] = "run" /\ Succeeds("take")
  /\ LET gone == current["take"] \in chosen["take"] /\ known
                 /\ auction[current["take"]] # "coll"
         p == current["take"]
     IN  /\ hotAge' = IF gone THEN [hotAge EXCEPT ![p] = -1] ELSE hotAge
         /\ hotHeard' = IF gone THEN [hotHeard EXCEPT ![p] = 0] ELSE hotHeard
  /\ UNCHANGED <<auction, known>>

\* The auctions of a target were settled, or its handler returned without settling.
Settled(p) ==
  /\ pc["settle"] = "run" /\ p = current["settle"] /\ auction[p] = "bad"
  /\ auction' = [auction EXCEPT ![p] = "none"]
  /\ Succeeds("settle") /\ UNCHANGED hot

Returned ==
  /\ pc["settle"] = "run" /\ (env.flaky \/ auction[current["settle"]] # "bad")
  /\ Succeeds("settle") /\ UNCHANGED <<auction, hot>>

\* The handler of a target throws, or its gas price cannot be read.
Throws(l) ==
  /\ pc[l] = "run" /\ env.flaky
  /\ Leaves(l)
  /\ UNCHANGED <<env, auction, scan, hot, gate, poolMap, answer, chosen, someOk, dataAge>>

\* What a cycle has for itself goes with it.
Ends(l) ==
  /\ pc[l] = "next" /\ todo[l] = {}
  /\ pc' = [pc EXCEPT ![l] = "idle"]
  /\ chosen' = [chosen EXCEPT ![l] = {}] /\ someOk' = [someOk EXCEPT ![l] = FALSE]
  /\ dataAge' = [dataAge EXCEPT ![l] = NoAges]
  /\ usable' = [usable EXCEPT ![l] = TRUE] /\ included' = [included EXCEPT ![l] = FALSE]
  /\ UNCHANGED <<got, gotHeard, todo, current>>

TakeEnds == Ends("take") /\ UNCHANGED <<env, auction, scan, hot, gate, poolMap>>

Completed == usable["settle"] /\ (chosen["settle"] = {} \/ someOk["settle"])

\* A cycle with discovered targets is dated, as a success or as a failure.
Dated ==
  IF Completed THEN lastOk' = 0 /\ lastFail' = -1 ELSE lastFail' = 0 /\ UNCHANGED lastOk

SettleEnds ==
  /\ Ends("settle")
  /\ IF included["settle"] THEN Dated ELSE UNCHANGED gate
  /\ UNCHANGED <<env, auction, scan, hot, poolMap>>

LoopStep(l) ==
  \/ \E p \in Pools : Target(l, p)
  \/ LoadDone(l) \/ LoadFails(l) \/ Throws(l)

TakeStep == TakeBegins \/ TakeResolves \/ Taken \/ TakeEnds \/ LoopStep("take")

SettleStep ==
  \/ SettleBegins \/ SettleResolves \/ Returned \/ SettleEnds \/ LoopStep("settle")
  \/ \E p \in Pools : Settled(p)

Next ==
  \/ Tick \/ Arrives \/ ArriveFails \/ TakeStep \/ SettleStep
  \/ \E p \in Pools : Auction(p)

Spec == Init /\ [][Next]_vars

-----------------------------------------------------------------------------
\* Properties.

\* However often scans fail, reuse one another or give way to a snapshot, and whatever is kept
\* of earlier answers: a settlement target is chosen by a scan that ended at most an interval
\* and a scan window ago, a take target by one at most the time to live of a kept
\* candidate older (runtime.ts getCachedDiscoverySnapshotForFallback, targets.ts
\* HotAuctionCandidateCache).
TargetsFresh ==
  \A p \in Pools :
    /\ dataAge["settle"][p] <= Interval + Window
    /\ dataAge["take"][p] <= Interval + Window + Ttl

\* No target is given up for a cooldown while its pool is loaded, even if another loop's
\* attempt at the same pool fails after it was loaded (targets.ts ensurePoolLoaded).
LoadedNotSkipped ==
  [][\A l \in Loops, p \in Pools :
       pc[l] = "next" /\ p \in todo[l] /\ p \in loaded /\ p \notin todo'[l] => pc'[l] = "run"]_vars

=============================================================================
