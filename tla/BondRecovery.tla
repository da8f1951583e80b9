--------------------------- MODULE BondRecovery ---------------------------
(***************************************************************************)
(* How the bonds of one pool come back: the bond loop withdraws what is    *)
(* claimable and settles what holds a bond (rewards/collect-bond.ts), the  *)
(* settlement loop settles the auctions of a manual or of a discovered     *)
(* target, and the LP-reward loop settles when an auction is in its way    *)
(* (settlement/*.ts, discovery/settlement-executor.ts).  The loops run     *)
(* concurrently in one process and share the registry of the settlements   *)
(* under way, the scan cache and the cache of idle bonds.                  *)
(*                                                                         *)
(* Ages are counted up to the value at which they stop to matter, so that  *)
(* the model needs no bound on time.                                       *)
(***************************************************************************)
EXTENDS Integers, FiniteSets

CONSTANTS
  Borrowers, NoBorrower,
  MinAge,         \* settlement.minAuctionAge
  Window,         \* the smaller of QUERY_CACHE_DURATION and the minimum age
  IdleCycles,     \* IDLE_BOND_CACHE_CYCLES
  MaxIterations,  \* settlement.maxIterations
  MaxParts,       \* bound on the settle calls that an auction needs
  MaxBonds,       \* bound on the keeper's bonds in the pool
  Environments    \* see EnvType

Loops == {"bond", "settle", "reward"}

EnvType == [
  runs : SUBSET Loops,
  own : SUBSET Borrowers,    \* whom this keeper may kick
  others : SUBSET Borrowers, \* whom other accounts may kick
  discovered : BOOLEAN,      \* the settlement loop has the pool as a discovered target
  enabled : BOOLEAN,         \* settlement.enabled
  incentive : BOOLEAN,       \* settlement.checkBotIncentive
  dry : BOOLEAN,             \* dryRun
  lags : BOOLEAN,            \* the subgraph may list any auctions
  flaky : BOOLEAN,           \* queries and reads may fail
  refuses : BOOLEAN,         \* transactions may fail
  lossy : BOOLEAN]           \* answers to accepted transactions may get lost

ASSUME BondAssumption ==
  /\ NoBorrower \notin Borrowers /\ IsFiniteSet(Borrowers)
  /\ MinAge \in Nat \ {0} /\ Window \in 1 .. MinAge
  /\ IdleCycles \in Nat \ {0} /\ MaxIterations \in Nat \ {0}
  /\ MaxParts \in Nat \ {0} /\ MaxBonds \in Nat
  /\ Environments \subseteq EnvType

VARIABLES
  env,
  \* the pool
  age,        \* age of the auction of a borrower, -1 without one
  mine,       \* whether this keeper kicked it
  bad,        \* settle calls until its bad debt is gone, 0 while it has collateral
  claimable,  \* bonds that the keeper may withdraw
  \* shared by the loops
  active,     \* SettlementHandler.activeSettlements
  cacheAge, cacheEmpty,  \* the scan cache: time since lastSubgraphQuery, no cachedAuctions
  idle,       \* idleBondStateCache, 0 when not there
  kicking,    \* the kick loop is between poolKick and invalidateIdleBondCache
  \* one pass of a loop
  pc, elapsed,     \* time since the scan read the clock
  listed,          \* the answer of the subgraph was not empty
  young, retryable, \* sawTooYoungAuction, hadRetryableCheckFailures
  todo, ripe,      \* auctions to check; those that are old enough
  found,           \* auctions to process
  current, iteration,
  seen             \* what kickerInfo answered: whether bonds are locked, claimable

poolState == <<age, mine, bad, claimable>>
cache == <<cacheAge, cacheEmpty>>
scan == <<elapsed, listed, young, retryable, todo, ripe>>
work == <<found, current, iteration>>
vars == <<env, poolState, active, cache, idle, kicking, pc, scan, work, seen>>

Alive == {b \in Borrowers : age[b] >= 0}
Locked == {b \in Alive : mine[b]}
Unseen == [locked |-> FALSE, claimable |-> FALSE]
Grown(n, limit) == IF n < limit THEN n + 1 ELSE n

PoolOK ==
  /\ age \in [Borrowers -> -1 .. MinAge] /\ bad \in [Borrowers -> 0 .. MaxParts]
  /\ claimable \in 0 .. MaxBonds
  /\ \A b \in Borrowers : bad[b] > 0 => age[b] >= 0

SharedOK ==
  /\ active \subseteq Borrowers /\ cacheAge \in 0 .. Window /\ idle \in 0 .. IdleCycles

ScanOK ==
  /\ pc \in [Loops -> {"idle", "info", "locked", "asked", "check", "process", "claimed",
                       "settle", "settled", "reread", "withdraw"}]
  /\ elapsed \in [Loops -> 0 .. Window]
  /\ todo \in [Loops -> SUBSET Borrowers] /\ ripe \in [Loops -> SUBSET Borrowers]
  /\ found \in [Loops -> SUBSET Borrowers]
  /\ current \in [Loops -> Borrowers \cup {NoBorrower}]
  /\ iteration \in [Loops -> 0 .. MaxIterations]

FlagsOK ==
  /\ mine \in [Borrowers -> BOOLEAN] /\ cacheEmpty \in BOOLEAN /\ kicking \in BOOLEAN
  /\ listed \in [Loops -> BOOLEAN] /\ young \in [Loops -> BOOLEAN]
  /\ retryable \in [Loops -> BOOLEAN]
  /\ seen \in [locked : BOOLEAN, claimable : BOOLEAN]

TypeOK == env \in Environments /\ PoolOK /\ SharedOK /\ ScanOK /\ FlagsOK

Init ==
  /\ env \in Environments
  /\ age = [b \in Borrowers |-> -1] /\ mine = [b \in Borrowers |-> FALSE]
  /\ bad = [b \in Borrowers |-> 0] /\ claimable = 0
  /\ active = {} /\ cacheAge = Window /\ cacheEmpty = TRUE /\ idle = 0 /\ kicking = FALSE
  /\ pc = [l \in Loops |-> "idle"] /\ elapsed = [l \in Loops |-> 0]
  /\ listed = [l \in Loops |-> FALSE] /\ young = [l \in Loops |-> FALSE]
  /\ retryable = [l \in Loops |-> FALSE]
  /\ todo = [l \in Loops |-> {}] /\ ripe = [l \in Loops |-> {}]
  /\ found = [l \in Loops |-> {}] /\ current = [l \in Loops |-> NoBorrower]
  /\ iteration = [l \in Loops |-> 0]
  /\ seen = Unseen

-----------------------------------------------------------------------------
\* The pool and the rest of the keeper.

Tick ==
  /\ age' = [b \in Borrowers |-> IF age[b] < 0 THEN -1 ELSE Grown(age[b], MinAge)]
  /\ cacheAge' = Grown(cacheAge, Window)
  /\ elapsed' = [l \in Loops |-> IF pc[l] \in {"asked", "check"}
                                 THEN Grown(elapsed[l], Window) ELSE elapsed[l]]
  /\ <<age, cacheAge, elapsed>>' # <<age, cacheAge, elapsed>>
  /\ UNCHANGED <<env, mine, bad, claimable, active, cacheEmpty, idle, kicking, pc, listed,
                 young, retryable, todo, ripe, work, seen>>

Kicked(b, own) ==
  /\ age[b] = -1
  /\ age' = [age EXCEPT ![b] = 0] /\ mine' = [mine EXCEPT ![b] = own]
  /\ UNCHANGED <<env, bad, claimable, active, cache, idle, pc, scan, work, seen>>

\* poolKick of this keeper's kick loop, and of another account.
Kick(b) ==
  /\ b \in env.own /\ ~kicking /\ Cardinality(Locked) + claimable < MaxBonds
  /\ Kicked(b, TRUE) /\ kicking' = TRUE

OtherKick(b) == b \in env.others /\ Kicked(b, FALSE) /\ UNCHANGED kicking

\* invalidateIdleBondCache, which an answer of poolKick that is lost leaves out.
KickDone ==
  /\ kicking /\ kicking' = FALSE
  /\ idle' \in {0} \cup (IF env.lossy THEN {idle} ELSE {})
  /\ UNCHANGED <<env, poolState, active, cache, pc, scan, work, seen>>

\* The last collateral of an auction is taken, and debt remains.
Drain(b) ==
  /\ age[b] >= 0 /\ bad[b] = 0
  /\ bad' \in {[bad EXCEPT ![b] = n] : n \in 1 .. MaxParts}
  /\ UNCHANGED <<env, age, mine, claimable, active, cache, idle, kicking, pc, scan, work,
                 seen>>

\* The auction of b ends, and a bond of this keeper's becomes claimable.
Ends(b) ==
  /\ age' = [age EXCEPT ![b] = -1] /\ bad' = [bad EXCEPT ![b] = 0]
  /\ claimable' = IF mine[b] THEN claimable + 1 ELSE claimable
  /\ mine' = [mine EXCEPT ![b] = FALSE]

\* The debt is repaid, or another account settles.
Close(b) ==
  /\ age[b] >= 0 /\ Ends(b)
  /\ UNCHANGED <<env, active, cache, idle, kicking, pc, scan, work, seen>>

-----------------------------------------------------------------------------
\* SettlementScanner.findSettleableAuctions, and the checks of a discovered target.

At(l, from, to) == pc[l] = from /\ pc' = [pc EXCEPT ![l] = to]

Begins(l, to) ==
  IF l = "bond" THEN At(l, "locked", to) ELSE l \in env.runs /\ At(l, "idle", to)

Prevalidates(l) == l = "settle" /\ env.discovered

UsesCache == cacheAge < Window /\ cacheEmpty

\* Of the bond loop; the pass of another loop ends as it began.
ScanCached ==
  /\ UsesCache /\ At("bond", "locked", "idle")
  /\ UNCHANGED <<env, poolState, active, cache, idle, kicking, scan, work, seen>>

\* The clock is read, then the subgraph is asked; a discovered target has its
\* candidates from a snapshot.
Ask(l) ==
  /\ Begins(l, "asked") /\ (UsesCache => Prevalidates(l))
  /\ l = "settle" => env.enabled
  /\ l = "reward" => env.enabled /\ Alive # {}
  /\ elapsed' = [elapsed EXCEPT ![l] = 0]
  /\ ripe' = [ripe EXCEPT ![l] = {b \in Borrowers : age[b] = MinAge}]
  /\ UNCHANGED <<env, poolState, active, cache, idle, kicking, listed, young, retryable, todo,
                 work, seen>>

\* What the scan finds too young it does not check.
Answer(l) ==
  /\ At(l, "asked", "check")
  /\ \E list \in IF env.lags THEN SUBSET Borrowers ELSE {Alive} :
       /\ listed' = [listed EXCEPT ![l] = list # {}]
       /\ \E old \in {IF Prevalidates(l) THEN list ELSE list \cap ripe[l]} \cup
                     (IF env.lags THEN {list} ELSE {}) :
            /\ todo' = [todo EXCEPT ![l] = old]
            /\ young' = [young EXCEPT ![l] = old # list]
  /\ retryable' = [retryable EXCEPT ![l] = FALSE]
  /\ ripe' = [ripe EXCEPT ![l] = {}]
  /\ UNCHANGED <<env, poolState, active, cache, idle, kicking, elapsed, work, seen>>

AskFails(l) ==
  /\ At(l, "asked", "idle") /\ env.flaky
  /\ ripe' = [ripe EXCEPT ![l] = {}] /\ elapsed' = [elapsed EXCEPT ![l] = 0]
  /\ UNCHANGED <<env, poolState, active, cache, idle, kicking, listed, young, retryable, todo,
                 work, seen>>

Incentive(b) == env.incentive => mine[b]

\* needsSettlement, on the chain, also gives the time of the kick.
Check(l, b) ==
  /\ pc[l] = "check" /\ b \in todo[l]
  /\ todo' = [todo EXCEPT ![l] = @ \ {b}]
  /\ found' = IF bad[b] > 0 /\ (Prevalidates(l) => Incentive(b))
              THEN [found EXCEPT ![l] = @ \cup {b}] ELSE found
  /\ ripe' = IF age[b] = MinAge THEN [ripe EXCEPT ![l] = @ \cup {b}] ELSE ripe
  /\ UNCHANGED <<env, poolState, active, cache, idle, kicking, pc, elapsed, listed, young,
                 retryable, current, iteration, seen>>

CheckFails(l, b) ==
  /\ pc[l] = "check" /\ b \in todo[l] /\ env.flaky
  /\ todo' = [todo EXCEPT ![l] = @ \ {b}]
  /\ retryable' \in {retryable, [retryable EXCEPT ![l] = TRUE]}
  /\ UNCHANGED <<env, poolState, active, cache, idle, kicking, pc, elapsed, listed, young,
                 ripe, work, seen>>

Cacheable(l) ==
  /\ ~Prevalidates(l) /\ ~retryable[l]
  /\ found[l] # {} \/ (~young[l] /\ ~listed[l])

CheckedDatedNow(l) ==  \* mutant
  /\ At(l, "check", IF found[l] = {} THEN "idle" ELSE "process") /\ todo[l] = {}
  /\ IF Cacheable(l) THEN cacheAge' = 0 /\ cacheEmpty' = (found[l] = {})
     ELSE UNCHANGED cache
  /\ listed' = [listed EXCEPT ![l] = FALSE] /\ young' = [young EXCEPT ![l] = FALSE]
  /\ retryable' = [retryable EXCEPT ![l] = FALSE] /\ elapsed' = [elapsed EXCEPT ![l] = 0]
  /\ ripe' = [ripe EXCEPT ![l] = @ \cap found[l]]
  /\ UNCHANGED <<env, poolState, active, idle, kicking, todo, work, seen>>

\* The cache is dated with the time at which the scan began.
Checked(l) ==
  /\ At(l, "check", IF found[l] = {} THEN "idle" ELSE "process") /\ todo[l] = {}
  /\ IF Cacheable(l) THEN cacheAge' = elapsed[l] /\ cacheEmpty' = (found[l] = {})
     ELSE UNCHANGED cache
  /\ listed' = [listed EXCEPT ![l] = FALSE] /\ young' = [young EXCEPT ![l] = FALSE]
  /\ retryable' = [retryable EXCEPT ![l] = FALSE] /\ elapsed' = [elapsed EXCEPT ![l] = 0]
  /\ ripe' = [ripe EXCEPT ![l] = @ \cap found[l]]
  /\ UNCHANGED <<env, poolState, active, idle, kicking, todo, work, seen>>

-----------------------------------------------------------------------------
\* SettlementHandler.processAuction and settleAuctionCompletely.

\* Another loop has the borrower, or the auction checked was too young.
PassOver(l, b) ==
  /\ pc[l] = "process" /\ b \in found[l] /\ (b \in active \/ b \notin ripe[l])
  /\ found' = [found EXCEPT ![l] = @ \ {b}]
  /\ UNCHANGED <<env, poolState, active, cache, idle, kicking, pc, scan, current, iteration, seen>>

ClaimUnasked(l, b) ==  \* mutant
  /\ At(l, "process", "claimed") /\ b \in found[l] \cap ripe[l]
  /\ active' = active \cup {b}
  /\ current' = [current EXCEPT ![l] = b]
  /\ UNCHANGED <<env, poolState, cache, idle, kicking, scan, found, iteration, seen>>

Claim(l, b) ==
  /\ At(l, "process", "claimed")
  /\ b \in found[l] \ active /\ b \in ripe[l]
  /\ active' = active \cup {b}
  /\ current' = [current EXCEPT ![l] = b]
  /\ UNCHANGED <<env, poolState, cache, idle, kicking, scan, found, iteration, seen>>

ReleaseForgets(l) ==  \* mutant
  /\ found' = [found EXCEPT ![l] = @ \ {current[l]}]
  /\ current' = [current EXCEPT ![l] = NoBorrower]
  /\ iteration' = [iteration EXCEPT ![l] = 0]
  /\ UNCHANGED active

\* The "finally" of processAuction.
Release(l) ==
  /\ active' = active \ {current[l]}
  /\ found' = [found EXCEPT ![l] = @ \ {current[l]}]
  /\ current' = [current EXCEPT ![l] = NoBorrower]
  /\ iteration' = [iteration EXCEPT ![l] = 0]

Wanted(l) ==
  /\ ~env.dry
  /\ Prevalidates(l) \/ (bad[current[l]] > 0 /\ Incentive(current[l]))

Recheck(l) ==
  /\ At(l, "claimed", "settle") /\ Wanted(l)
  /\ iteration' = [iteration EXCEPT ![l] = 1]
  /\ UNCHANGED <<env, poolState, active, cache, idle, kicking, scan, found, current, seen>>

GivesUp(l) ==
  /\ At(l, "claimed", "process") /\ (~Wanted(l) \/ (env.flaky /\ ~Prevalidates(l)))
  /\ Release(l)
  /\ UNCHANGED <<env, poolState, cache, idle, kicking, scan, seen>>

\* A settle call takes a part of the bad debt away, and the last one the auction.
SettleOnChain(b) ==
  /\ bad[b] > 0
  /\ IF bad[b] = 1 THEN Ends(b)
     ELSE bad' = [bad EXCEPT ![b] = @ - 1] /\ UNCHANGED <<age, mine, claimable>>

Settle(l) ==
  /\ At(l, "settle", "settled") /\ SettleOnChain(current[l])
  /\ UNCHANGED <<env, active, cache, idle, kicking, scan, work, seen>>

\* The call reverts where there is nothing to settle (any more).
SettleFails(l) ==
  /\ At(l, "settle", "process") /\ (env.refuses \/ bad[current[l]] = 0)
  /\ Release(l)
  /\ UNCHANGED <<env, poolState, cache, idle, kicking, scan, seen>>

SettleLost(l) ==
  /\ At(l, "settle", "process") /\ env.lossy /\ SettleOnChain(current[l])
  /\ Release(l)
  /\ UNCHANGED <<env, cache, idle, kicking, scan, seen>>

\* auctionInfo after the call: another iteration while there is an auction.
Iterate(l) ==
  /\ At(l, "settled", "settle") /\ age[current[l]] >= 0 /\ iteration[l] < MaxIterations
  /\ iteration' = [iteration EXCEPT ![l] = @ + 1]
  /\ UNCHANGED <<env, poolState, active, cache, idle, kicking, scan, found, current, seen>>

SettleOver(l) ==
  /\ At(l, "settled", "process")
  /\ age[current[l]] < 0 \/ iteration[l] = MaxIterations \/ env.flaky
  /\ Release(l)
  /\ UNCHANGED <<env, poolState, cache, idle, kicking, scan, seen>>

\* The bond loop goes on if no bond is locked any more.
Processed(l) ==
  /\ found[l] = {}
  /\ At(l, "process", IF l = "bond" /\ Locked = {} THEN "reread" ELSE "idle")
  /\ ripe' = [ripe EXCEPT ![l] = {}]
  /\ UNCHANGED <<env, poolState, active, cache, idle, kicking, elapsed, listed, young, retryable,
                 todo, work, seen>>

-----------------------------------------------------------------------------
\* collectBondFromPool.

BondSkipForEver ==  \* mutant
  /\ "bond" \in env.runs /\ pc["bond"] = "idle" /\ idle > 0
  /\ UNCHANGED vars

\* consumeIdleBondCache.
BondSkip ==
  /\ "bond" \in env.runs /\ pc["bond"] = "idle" /\ idle > 0
  /\ idle' = idle - 1
  /\ UNCHANGED <<env, poolState, active, cache, kicking, pc, scan, work, seen>>

\* The node reads kickerInfo; the keeper acts on the answer later.
BondAsk ==
  /\ "bond" \in env.runs /\ idle = 0 /\ At("bond", "idle", "info")
  /\ seen' = [locked |-> Locked # {}, claimable |-> claimable > 0]
  /\ UNCHANGED <<env, poolState, active, cache, idle, kicking, scan, work>>

BondWithdraws ==
  /\ ~seen.locked /\ seen.claimable /\ ~env.dry
  /\ At("bond", "info", "withdraw") /\ seen' = Unseen
  /\ UNCHANGED <<env, poolState, active, cache, idle, kicking, scan, work>>

BondSettles ==
  /\ seen.locked /\ env.enabled
  /\ At("bond", "info", "locked") /\ seen' = Unseen
  /\ UNCHANGED <<env, poolState, active, cache, idle, kicking, scan, work>>

\* The answer fails, or it leaves nothing to do.
BondLeaves ==
  /\ At("bond", "info", "idle") /\ seen' = Unseen
  /\ \/ env.flaky
     \/ seen.locked /\ ~env.enabled
     \/ ~seen.locked /\ seen.claimable /\ env.dry
  /\ UNCHANGED <<env, poolState, active, cache, idle, kicking, scan, work>>

\* Case 3: neither locked nor claimable.
BondIdle ==
  /\ ~seen.locked /\ ~seen.claimable
  /\ At("bond", "info", "idle")
  /\ idle' = IdleCycles
  /\ UNCHANGED <<env, poolState, active, cache, kicking, scan, work, seen>>

\* kickerInfo after the settlement.
BondReread ==
  /\ At("bond", "reread",
        IF Locked = {} /\ claimable > 0 /\ ~env.dry THEN "withdraw" ELSE "idle")
  /\ UNCHANGED <<env, poolState, active, cache, idle, kicking, scan, work, seen>>

BondWithdraw ==
  /\ At("bond", "withdraw", "idle")
  /\ claimable' = 0
  /\ UNCHANGED <<env, age, mine, bad, active, cache, idle, kicking, scan, work, seen>>

BondWithdrawFails ==
  /\ At("bond", "withdraw", "idle") /\ env.refuses
  /\ UNCHANGED <<env, poolState, active, cache, idle, kicking, scan, work, seen>>

-----------------------------------------------------------------------------
ScanStep(l) ==
  \/ Ask(l) \/ Answer(l) \/ AskFails(l) \/ Checked(l)
  \/ \E b \in Borrowers : Check(l, b) \/ CheckFails(l, b)

ProcessStep(l) ==
  \/ \E b \in Borrowers : PassOver(l, b) \/ Claim(l, b)
  \/ Recheck(l) \/ GivesUp(l) \/ Settle(l) \/ SettleFails(l) \/ SettleLost(l)
  \/ Iterate(l) \/ SettleOver(l) \/ Processed(l)

BondStep ==
  \/ ScanCached \/ BondSkip \/ BondAsk \/ BondWithdraws \/ BondSettles \/ BondLeaves \/ BondIdle
  \/ BondReread \/ BondWithdraw \/ BondWithdrawFails

LoopStep(l) == ScanStep(l) \/ ProcessStep(l) \/ (l = "bond" /\ BondStep)

PoolStep ==
  \/ Tick \/ KickDone
  \/ \E b \in Borrowers : Kick(b) \/ OtherKick(b) \/ Drain(b) \/ Close(b)

Next == PoolStep \/ \E l \in Loops : LoopStep(l)

\* Time passes, the loops keep running, and a kick returns.
Fairness == WF_vars(Tick) /\ WF_vars(KickDone) /\ \A l \in Loops : WF_vars(LoopStep(l))

Spec == Init /\ [][Next]_vars /\ Fairness

-----------------------------------------------------------------------------
(* Properties. *)

Settling == {"claimed", "settle", "settled"}

\* No two loops have a settlement of the same borrower under way, although they
\* find the same auctions (activeSettlements).
OneSettlerEach ==
  \A k, l \in Loops :
    k # l /\ pc[k] \in Settling /\ pc[l] \in Settling => current[k] # current[l]

\* While a scan would answer from the cache, no auction is old enough to be settled:
\* the cache never hides work (canCacheEmptyResult, shouldUseCache, and the clock that
\* is read before the query).
CacheHidesNothing ==
  UsesCache /\ ~env.lags => \A b \in Borrowers : age[b] < MinAge

\* Nothing stops the loops for ever.
Works == env.enabled /\ ~(env.dry \/ env.lags \/ env.flaky \/ env.refuses)

\* Bad debt does not stay: the settlement loop comes to it, whatever the other loops
\* have under way, where the configuration wants it settled.
BadDebtSettled ==
  \A b \in Borrowers :
    bad[b] > 0 /\ Works /\ Incentive(b) /\ "settle" \in env.runs ~> bad[b] = 0

\* A claimable bond is withdrawn once nothing is locked, although the cache of idle
\* bonds, or a kick at the same time, may hide it for some cycles.
BondReturned ==
  claimable > 0 /\ Works /\ "bond" \in env.runs ~> claimable = 0 \/ Locked # {}

\* What collectBondFromPool says of the cache: "Invalidated externally when this
\* keeper kicks a loan (which locks a bond)".
KickEndsIdle == Locked # {} /\ ~kicking => idle = 0
=============================================================================
