----------------------------- MODULE LpRewards -----------------------------
(***************************************************************************)
(* The LP-reward loop (collectLpRewardsLoop, src/src/run.ts): it polls the *)
(* subgraph for bucket takes (LpIngester), credits them to the redeemers   *)
(* of their pools (LpManager), redeems what each bucket is credited with   *)
(* (LpRedeemer, with a reactive settlement where an auction is in the      *)
(* way), and sends or swaps the tokens (RewardActionTracker).              *)
(*                                                                         *)
(* LP and tokens are a few units at a price of one.  Everything that is    *)
(* tracked lives in memory: a restart begins with the whole history.       *)
(***************************************************************************)
EXTENDS Integers

CONSTANTS
  Events, Buckets, Pools, NoBucket, NoPool,
  BucketOf, PoolOf,  \* the bucket of an event, the pool of a bucket
  Amount,            \* the LP an event awards
  Kind,              \* "good", "malformed" or "undated" (no parsable timestamp)
  MaxTime,           \* bound on the time of the chain
  Lookback,          \* rewards.lpLookbackSeconds
  MaxAvail,          \* bound on what a bucket can pay out on one side
  MaxAttempts,       \* MAX_CONSECUTIVE_BELOW_THRESHOLD_ATTEMPTS
  MaxRetry,          \* MAX_RETRY_COUNT
  LpEnvironments     \* see LpEnvType

Sides == {"quote", "collateral"}
Other(side) == IF side = "quote" THEN "collateral" ELSE "quote"

LpEnvType == [
  takes : SUBSET Events,     \* the bucket takes that happen
  first : Sides,             \* redeemFirst
  dust : Nat,                \* minAmountQuote and minAmountCollateral
  action : [Sides -> {"none", "exchange", "transfer", "void"}],
                             \* rewardAction*; "void" is a swap that cannot be validated
  configured : SUBSET Pools, \* pools of manual.pools[]
  principal : Nat,           \* LP the signer deposited as a lender, in each bucket
  dry : BOOLEAN,             \* dryRun
  flaky : BOOLEAN,           \* queries, reads and hydrations may fail
  lagging : BOOLEAN,         \* reads may come from a node that is a block behind
  breaks : BOOLEAN,          \* a collection may fail after its first withdrawal
  lossy : BOOLEAN,           \* answers to accepted transactions may get lost
  moving : BOOLEAN,          \* buckets change while a leg is under way
  refuses : BOOLEAN,         \* transactions may fail
  jams : BOOLEAN,            \* auctions may be in the way of a withdrawal
  kills : BOOLEAN]           \* the process may be restarted

ASSUME LpAssumption ==
  /\ NoBucket \notin Buckets /\ NoPool \notin Pools
  /\ BucketOf \in [Events -> Buckets] /\ PoolOf \in [Buckets -> Pools]
  /\ Amount \in [Events -> Nat \ {0}]
  /\ Kind \in [Events -> {"good", "malformed", "undated"}]
  /\ MaxTime \in Nat /\ Lookback \in Nat /\ MaxAvail \in Nat
  /\ MaxAttempts \in Nat \ {0} /\ MaxRetry \in Nat \ {0}
  /\ LpEnvironments \subseteq LpEnvType

VARIABLES
  world,
  \* the chain and the subgraph
  now, stamp,         \* the time; the block time of an event, 0 before it happens
  indexed, behind,    \* events the subgraph knows; those it indexed too late (history)
  lp,                 \* the signer's lpBalance
  \* LpIngester
  cursor, seenAt,     \* cursorBlockTimestamp; seenEventIds, -1 when not there
  pending,            \* parsed rewards that wait to be dispatched
  \* LpRedeemer
  redeemers, lpMap, attempts,
  \* the sweep
  stage, pools, pool, \* pools left to sweep (toSweep), the one at hand
  left, bucket, again,\* entries left there, the one at hand, whether it is the retry
  reward, used,       \* rewardLp (capped) and reedemed of the bucket at hand
  before, avail,      \* lpBalanceBefore, what either side can pay out
  \* RewardActionTracker
  queued, retry, tokens,         \* feeTokenAmountMap, retryCountMap, entries left
  \* history, of one life of the process
  credited, given, burned,       \* per event, per bucket, per bucket
  dropped,                       \* events whose pool had no redeemer
  withdrawn, forwarded, gaveUp,  \* per token
  tries,                         \* failures of what is queued, per token
  \* history, of all lives of the process
  earlier                        \* per bucket: what lives before this one redeemed

chain == <<now, stamp, indexed, behind, lp>>
ingester == <<cursor, seenAt>>
book == <<redeemers, lpMap, attempts>>
place == <<pools, pool, left, bucket, again>>
leg == <<reward, used, before, avail>>
tracker == <<queued, retry, tokens>>
credits == <<credited, given, dropped>>
redeemed == <<burned, earlier>>
flows == <<withdrawn, forwarded, gaveUp, tries>>
lpVars == <<world, chain, ingester, pending, book, stage, place, leg, tracker, credits,
            redeemed, flows>>

Times == 0 .. MaxTime
Min2(a, b) == IF a < b THEN a ELSE b
Max2(a, b) == IF a > b THEN a ELSE b

\* subtractSecondsClamped of the cursor: the floor of a query and of the seen set.
Floor(t) == Max2(0, t - Lookback)

Unavailable == [s \in Sides |-> 0]
None == [b \in Buckets |-> 0]
Entries(p, m) == {b \in Buckets : PoolOf[b] = p /\ m[b] > 0}

Legs == {"first", "firstRead", "second", "secondRead"}

ChainOK ==
  /\ now \in Times /\ stamp \in [Events -> Times]
  /\ indexed \subseteq Events /\ behind \subseteq Events
  /\ lp \in [Buckets -> Nat]

IngestOK ==
  /\ cursor \in Times /\ seenAt \in [Events -> Times \cup {-1}]
  /\ pending \subseteq Events /\ dropped \subseteq Events
  /\ credited \in [Events -> Nat] /\ given \in [Buckets -> Nat]

SweepOK ==
  /\ redeemers \subseteq Pools
  /\ lpMap \in [Buckets -> Nat] /\ attempts \in [Buckets -> 0 .. MaxAttempts]
  /\ stage \in {"idle", "dispatch", "next", "sweep", "jammed", "actions"} \cup Legs
  /\ pools \subseteq Pools /\ pool \in Pools \cup {NoPool}
  /\ left \subseteq Buckets /\ bucket \in Buckets \cup {NoBucket}
  /\ stage \in Legs <=> bucket # NoBucket
  /\ reward \in Nat /\ used \in Nat /\ before \in Nat
  /\ avail \in [Sides -> 0 .. MaxAvail]
  /\ burned \in [Buckets -> Nat]

ActionsOK ==
  /\ queued \in [Sides -> Nat] /\ retry \in [Sides -> 0 .. MaxRetry]
  /\ tokens \subseteq Sides
  /\ \A flow \in {withdrawn, forwarded, gaveUp, tries} : flow \in [Sides -> Nat]

LpTypeOK ==
  /\ world \in LpEnvironments /\ again \in BOOLEAN /\ earlier \in [Buckets -> Nat]
  /\ ChainOK /\ IngestOK /\ SweepOK /\ ActionsOK

\* A process starts with nothing.
LpInit ==
  /\ world \in LpEnvironments
  /\ now = 0 /\ stamp = [e \in Events |-> 0] /\ indexed = {} /\ behind = {}
  /\ lp = [b \in Buckets |-> world.principal]
  /\ cursor = 0 /\ seenAt = [e \in Events |-> -1] /\ pending = {}
  /\ redeemers = {} /\ lpMap = None /\ attempts = None
  /\ stage = "idle" /\ pools = {} /\ pool = NoPool
  /\ left = {} /\ bucket = NoBucket /\ again = FALSE
  /\ reward = 0 /\ used = 0 /\ before = 0 /\ avail = Unavailable
  /\ queued = Unavailable /\ retry = Unavailable /\ tokens = {}
  /\ credited = [e \in Events |-> 0] /\ given = None /\ burned = None /\ dropped = {}
  /\ earlier = None
  /\ withdrawn = Unavailable /\ forwarded = Unavailable /\ gaveUp = Unavailable
  /\ tries = Unavailable

-----------------------------------------------------------------------------
\* The chain and the subgraph.

LpTick ==
  /\ now < MaxTime
  /\ now' = now + 1
  /\ UNCHANGED <<world, stamp, indexed, behind, lp, ingester, pending, book, stage, place,
                 leg, tracker, credits, redeemed, flows>>

\* A bucket take, by this keeper or on an auction that it kicked.
Award(e) ==
  /\ e \in world.takes /\ stamp[e] = 0 /\ now > 0
  /\ world.moving \/ stage \notin Legs
  /\ stamp' = [stamp EXCEPT ![e] = now]
  /\ lp' = [lp EXCEPT ![BucketOf[e]] = @ + Amount[e]]
  /\ UNCHANGED <<world, now, indexed, behind, ingester, pending, book, stage, place, leg,
                 tracker, credits, redeemed, flows>>

\* The subgraph indexes an event, in any order.
Index(e) ==
  /\ stamp[e] > 0 /\ e \notin indexed
  /\ indexed' = indexed \cup {e}
  /\ behind' = IF now > stamp[e] + Lookback THEN behind \cup {e} ELSE behind
  /\ UNCHANGED <<world, now, stamp, lp, ingester, pending, book, stage, place, leg, tracker,
                 credits, redeemed, flows>>

-----------------------------------------------------------------------------
\* LpManager.ingestAndDispatch.

ListedWithoutLookback == {e \in indexed : stamp[e] >= cursor}  \* mutant

Listed == {e \in indexed : stamp[e] >= Floor(cursor)}

\* pruneSeenEventIds: what no query will list again is forgotten.
PrunedAtCursor(top, seen) ==  \* mutant
  [e \in Events |-> IF top > seen[e] THEN -1 ELSE seen[e]]

Pruned(top, seen) == [e \in Events |-> IF Floor(top) > seen[e] THEN -1 ELSE seen[e]]

\* The answer to a query: what was not seen before is recorded, and the cursor moves
\* to the highest timestamp.  An undated event is recorded at the old cursor.
Ingest ==
  /\ stage = "idle"
  /\ LET new == {e \in Listed : seenAt[e] = -1}
         dated == {e \in new : Kind[e] # "undated"}
         recorded == [e \in Events |->
                        IF e \notin new THEN seenAt[e]
                        ELSE IF e \in dated THEN stamp[e] ELSE cursor]
     IN /\ \E top \in {cursor} \cup {stamp[e] : e \in dated} :
             /\ cursor <= top /\ \A e \in dated : stamp[e] <= top
             /\ cursor' = top /\ seenAt' = Pruned(top, recorded)
        /\ pending' = {e \in new : Kind[e] = "good"}
  /\ stage' = "dispatch"
  /\ UNCHANGED <<world, chain, book, place, leg, tracker, credits, redeemed, flows>>

\* The query fails: the cursor stays, and the sweep goes on without it.
IngestFails ==
  /\ stage = "idle" /\ world.flaky
  /\ stage' = "dispatch"
  /\ UNCHANGED <<world, chain, ingester, pending, book, place, leg, tracker, credits,
                 redeemed, flows>>

Rewards(p) == {e \in pending : PoolOf[BucketOf[e]] = p}

\* The resolver has a redeemer for the pool, or makes one, which then holds all the
\* rewards of the pool: they are credited one after the other.
Dispatch(e) ==
  /\ stage = "dispatch" /\ e \in pending
  /\ redeemers' = redeemers \cup {PoolOf[BucketOf[e]]}
  /\ lpMap' = [lpMap EXCEPT ![BucketOf[e]] = @ + Amount[e]]
  /\ given' = [given EXCEPT ![BucketOf[e]] = @ + Amount[e]]
  /\ credited' = [credited EXCEPT ![e] = @ + 1]
  /\ pending' = pending \ {e}
  /\ UNCHANGED <<world, chain, ingester, attempts, stage, place, leg, tracker, dropped,
                 redeemed, flows>>

\* The pool cannot be hydrated, is cooling down, or has no settings that resolve.
DispatchFails(p) ==
  /\ stage = "dispatch" /\ Rewards(p) # {} /\ p \notin redeemers /\ world.flaky
  /\ dropped' = dropped \cup Rewards(p)
  /\ pending' = pending \ Rewards(p)
  /\ UNCHANGED <<world, chain, ingester, book, stage, place, leg, tracker, credited, given,
                 redeemed, flows>>

Dispatched ==
  /\ stage = "dispatch" /\ pending = {}
  /\ stage' = "next" /\ pools' = {p \in redeemers : Entries(p, lpMap) # {}}
  /\ UNCHANGED <<world, chain, ingester, pending, book, pool, left, bucket, again, leg,
                 tracker, credits, redeemed, flows>>

-----------------------------------------------------------------------------
\* LpRedeemer.sweep, called from sweepRedeemerWithReactiveSettlement.

SweepPool(p) ==
  /\ stage = "next" /\ p \in pools
  /\ stage' = "sweep" /\ pools' = pools \ {p} /\ pool' = p
  /\ left' = Entries(p, lpMap) /\ again' = FALSE
  /\ UNCHANGED <<world, chain, ingester, pending, book, bucket, leg, tracker, credits,
                 redeemed, flows>>

\* The sweep of a pool is over, whatever came of it.
PoolOver ==
  /\ stage' = "next" /\ pool' = NoPool /\ left' = {} /\ bucket' = NoBucket /\ again' = FALSE
  /\ reward' = 0 /\ used' = 0 /\ before' = 0 /\ avail' = Unavailable

SweepDone ==
  /\ stage = "sweep" /\ left = {}
  /\ PoolOver
  /\ UNCHANGED <<world, chain, ingester, pending, book, pools, tracker, credits, redeemed, flows>>

\* The collection of a bucket is over; the next one follows.
Collected(b) ==
  /\ stage' = "sweep" /\ left' = left \ {b} /\ bucket' = NoBucket
  /\ reward' = 0 /\ used' = 0 /\ before' = 0 /\ avail' = Unavailable
  /\ UNCHANGED <<pools, pool, again>>

DropEntry(b) ==
  /\ lpMap' = [lpMap EXCEPT ![b] = 0] /\ attempts' = [attempts EXCEPT ![b] = 0]
  /\ UNCHANGED redeemers

\* collectLpRewardFromBucket caps the reward with the balance it reads, and drops
\* an entry that can pay nothing.
Read(b) ==
  /\ stage = "sweep" /\ b \in left
  /\ \E balance \in {lp[b]} \cup (IF world.lagging THEN {0} ELSE {}),
        can \in [Sides -> 0 .. MaxAvail] :
       IF balance = 0 \/ can = Unavailable
       THEN Collected(b) /\ DropEntry(b)
       ELSE /\ stage' = "first" /\ bucket' = b /\ avail' = can
            /\ reward' = Min2(lpMap[b], balance)
            /\ UNCHANGED <<pools, pool, left, again, used, before, book>>
  /\ UNCHANGED <<world, chain, ingester, pending, tracker, credits, redeemed, flows>>

ReadFails(b) ==
  /\ stage = "sweep" /\ b \in left /\ world.flaky
  /\ Collected(b)
  /\ UNCHANGED <<world, chain, ingester, pending, book, tracker, credits, redeemed, flows>>

\* What the leg at hand withdraws: no more than the rest of the reward is worth.
Side == IF stage = "first" THEN world.first ELSE Other(world.first)
WantAllOnFirst ==  \* mutant
  IF stage = "first" THEN avail[Side] ELSE Min2(reward - used, avail[Side])

Want == Min2(reward - used, avail[Side])

FinishWithoutCount(spent) ==  \* mutant
  LET rest == lpMap[bucket] - spent
  IN /\ Collected(bucket)
     /\ IF rest <= 0 THEN DropEntry(bucket)
        ELSE lpMap' = [lpMap EXCEPT ![bucket] = rest] /\ UNCHANGED <<redeemers, attempts>>

\* subtractReward, and the count of the collections that redeemed nothing.
Finish(spent) ==
  LET b == bucket
      rest == lpMap[b] - spent
  IN /\ Collected(b)
     /\ IF rest <= 0 \/ (spent = 0 /\ attempts[b] + 1 >= MaxAttempts)
        THEN DropEntry(b)
        ELSE /\ lpMap' = [lpMap EXCEPT ![b] = rest]
             /\ attempts' = [attempts EXCEPT ![b] = IF spent > 0 THEN 0 ELSE @ + 1]
             /\ UNCHANGED redeemers

\* After a leg that counts as one of nothing; where it was tried, the bucket is
\* read again.
GoOn(reread) ==
  IF stage = "first"
  THEN /\ stage' = "second"
       /\ avail' \in (IF reread THEN [Sides -> 0 .. MaxAvail] ELSE {avail})
       /\ UNCHANGED <<place, reward, used, before, book>>
  ELSE Finish(used)

\* The leg is not worth a transaction, or nothing is left of the reward.
Skip ==
  /\ stage \in {"first", "second"} /\ (Want <= world.dust \/ world.dry)
  /\ GoOn(FALSE)
  /\ UNCHANGED <<world, chain, ingester, pending, tracker, credits, redeemed, flows>>

Submits == stage \in {"first", "second"} /\ Want > world.dust /\ ~world.dry

\* The pool burns the LP that the tokens are worth: what was asked for, if nothing
\* has changed since the bucket was read, and no more than the signer has.
Burn ==
  \E n \in (IF world.moving \/ world.lossy \/ world.lagging
            THEN 1 .. Min2(Want, lp[bucket]) ELSE {Want}) :
    /\ lp' = [lp EXCEPT ![bucket] = @ - n]
    /\ burned' = [burned EXCEPT ![bucket] = @ + n]
    /\ withdrawn' = [withdrawn EXCEPT ![Side] = @ + n]

EnqueuedForFirst ==  \* mutant
  IF world.action[Side] = "none" THEN queued ELSE [queued EXCEPT ![world.first] = @ + Want]

Enqueued == IF world.action[Side] = "none" THEN queued
            ELSE [queued EXCEPT ![Side] = @ + Want]

\* The withdrawal succeeds, and what it should have yielded is queued at once.
Withdraw ==
  /\ Submits /\ Burn
  /\ before' = lp[bucket] /\ queued' = Enqueued
  /\ stage' = IF stage = "first" THEN "firstRead" ELSE "secondRead"
  /\ UNCHANGED <<world, now, stamp, indexed, behind, ingester, pending, book, place,
                 reward, used, avail, retry, tokens, credits, earlier, forwarded, gaveUp,
                 tries>>

WithdrawFails ==
  /\ Submits /\ (world.refuses \/ lp[bucket] = 0)
  /\ GoOn(TRUE)
  /\ UNCHANGED <<world, chain, ingester, pending, tracker, credits, redeemed, flows>>

\* The withdrawal succeeds, but its answer is lost: it counts as failed.
WithdrawLost ==
  /\ Submits /\ world.lossy /\ Burn
  /\ GoOn(TRUE)
  /\ UNCHANGED <<world, now, stamp, indexed, behind, ingester, pending, tracker, credits,
                 earlier, forwarded, gaveUp, tries>>

\* The pool says that the claim is stale (isStaleLpRedemptionError).
WithdrawStale ==
  /\ Submits /\ world.refuses
  /\ Collected(bucket) /\ DropEntry(bucket)
  /\ UNCHANGED <<world, chain, ingester, pending, tracker, credits, redeemed, flows>>

\* AuctionNotCleared ends the sweep of the pool; a leg already redeemed is forgotten.
WithdrawJammed ==
  /\ Submits /\ world.jams /\ (used > 0 => world.breaks)
  /\ stage' = "jammed" /\ bucket' = NoBucket
  /\ reward' = 0 /\ used' = 0 /\ before' = 0 /\ avail' = Unavailable
  /\ UNCHANGED <<world, chain, ingester, pending, book, pools, pool, left, again, tracker,
                 credits, redeemed, flows>>

\* The balance after the withdrawal; a negative difference counts as zero.
Measure ==
  /\ stage \in {"firstRead", "secondRead"}
  /\ \E balance \in {lp[bucket]} \cup (IF world.lagging THEN {before} ELSE {}) :
       LET spent == used + Max2(0, before - balance) IN
       IF stage = "firstRead"
       THEN /\ stage' = "second" /\ used' = spent /\ avail' \in [Sides -> 0 .. MaxAvail]
            /\ UNCHANGED <<place, reward, before, book>>
       ELSE Finish(spent)
  /\ UNCHANGED <<world, chain, ingester, pending, tracker, credits, redeemed, flows>>

\* A read after a leg fails: the collection ends and the entry stays as it was,
\* whatever the legs have redeemed.
LegBreaks ==
  /\ stage \in {"firstRead", "second", "secondRead"}
  /\ IF stage = "second" /\ used = 0 THEN world.flaky ELSE world.breaks
  /\ Collected(bucket)
  /\ UNCHANGED <<world, chain, ingester, pending, book, tracker, credits, redeemed, flows>>

\* tryReactiveSettlement for a pool of the configuration, once per cycle: with the
\* bonds free, the pool is swept again from the start.
Settled ==
  /\ stage = "jammed" /\ pool \in world.configured /\ ~again
  /\ stage' = "sweep" /\ left' = Entries(pool, lpMap) /\ again' = TRUE
  /\ UNCHANGED <<world, chain, ingester, pending, book, pools, pool, bucket, leg, tracker,
                 credits, redeemed, flows>>

NotSettled ==
  /\ stage = "jammed"
  /\ PoolOver
  /\ UNCHANGED <<world, chain, ingester, pending, book, pools, tracker, credits, redeemed, flows>>

-----------------------------------------------------------------------------
\* RewardActionTracker.handleAllTokens.

SweptAll ==
  /\ stage = "next" /\ pools = {}
  /\ stage' = "actions" /\ tokens' = {s \in Sides : queued[s] > 0}
  /\ UNCHANGED <<world, chain, ingester, pending, book, place, leg, queued, retry, credits,
                 redeemed, flows>>

Handled(s) ==
  /\ stage = "actions" /\ s \in tokens /\ tokens' = tokens \ {s}
  /\ UNCHANGED <<world, chain, ingester, pending, book, stage, place, leg, credits, redeemed,
                 withdrawn>>

Removed(s) == queued' = [queued EXCEPT ![s] = 0] /\ tries' = [tries EXCEPT ![s] = 0]

\* A swap that succeeds clears the retry count, a transfer does not.
Forward(s) ==
  /\ Handled(s) /\ Removed(s) /\ world.action[s] # "void"
  /\ forwarded' = [forwarded EXCEPT ![s] = @ + queued[s]]
  /\ retry' = IF world.action[s] = "exchange" THEN [retry EXCEPT ![s] = 0] ELSE retry
  /\ UNCHANGED gaveUp

\* A swap that cannot be validated, and less than a unit of the token, are removed.
Discard(s) ==
  /\ Handled(s) /\ Removed(s)
  /\ world.action[s] = "void" \/ (world.action[s] = "transfer" /\ world.refuses)
  /\ gaveUp' = [gaveUp EXCEPT ![s] = @ + queued[s]]
  /\ UNCHANGED <<retry, forwarded>>

\* What failed often enough is removed with its count, so that the branch for a
\* count at its maximum is never taken.
Retried(s, done) ==
  IF retry[s] + 1 >= MaxRetry
  THEN /\ Removed(s) /\ retry' = [retry EXCEPT ![s] = 0]
       /\ gaveUp' = [gaveUp EXCEPT ![s] = @ + (queued[s] - done)]
  ELSE /\ retry' = [retry EXCEPT ![s] = @ + 1] /\ tries' = [tries EXCEPT ![s] = @ + 1]
       /\ UNCHANGED <<queued, gaveUp>>

ForwardFails(s) ==
  /\ Handled(s) /\ world.action[s] # "void" /\ world.refuses
  /\ Retried(s, 0)
  /\ UNCHANGED forwarded

\* The tokens have left the wallet, but the answer is lost.
ForwardLost(s) ==
  /\ Handled(s) /\ world.action[s] # "void" /\ world.lossy
  /\ forwarded' = [forwarded EXCEPT ![s] = @ + queued[s]]
  /\ Retried(s, queued[s])

ActionsDone ==
  /\ stage = "actions" /\ tokens = {}
  /\ stage' = "idle"
  /\ UNCHANGED <<world, chain, ingester, pending, book, place, leg, tracker, credits,
                 redeemed, flows>>

-----------------------------------------------------------------------------
Restart ==
  /\ world.kills /\ stage # "idle"
  /\ cursor' = 0 /\ seenAt' = [e \in Events |-> -1] /\ pending' = {}
  /\ redeemers' = {} /\ lpMap' = None /\ attempts' = None
  /\ stage' = "idle" /\ pools' = {} /\ pool' = NoPool
  /\ left' = {} /\ bucket' = NoBucket /\ again' = FALSE
  /\ reward' = 0 /\ used' = 0 /\ before' = 0 /\ avail' = Unavailable
  /\ queued' = Unavailable /\ retry' = Unavailable /\ tokens' = {}
  /\ credited' = [e \in Events |-> 0] /\ given' = None /\ burned' = None /\ dropped' = {}
  /\ earlier' = [b \in Buckets |-> earlier[b] + burned[b]]
  /\ withdrawn' = Unavailable /\ forwarded' = Unavailable /\ gaveUp' = Unavailable
  /\ tries' = Unavailable
  /\ UNCHANGED <<world, chain>>

SweepStep ==
  \/ \E p \in Pools : SweepPool(p)
  \/ \E b \in Buckets : Read(b) \/ ReadFails(b)
  \/ SweepDone \/ Skip \/ Withdraw \/ WithdrawFails \/ WithdrawLost \/ WithdrawStale
  \/ WithdrawJammed \/ Measure \/ LegBreaks \/ Settled \/ NotSettled

KeeperStep ==
  \/ Ingest \/ IngestFails \/ Dispatched \/ SweptAll \/ ActionsDone
  \/ \E e \in Events : Dispatch(e)
  \/ \E p \in Pools : DispatchFails(p)
  \/ SweepStep
  \/ \E s \in Sides : Forward(s) \/ Discard(s) \/ ForwardFails(s) \/ ForwardLost(s)

LpNext ==
  \/ LpTick \/ Restart
  \/ \E e \in Events : Award(e) \/ Index(e)
  \/ KeeperStep

\* The loop keeps running.
LpFairness == WF_lpVars(KeeperStep)
LpSpec == LpInit /\ [][LpNext]_lpVars /\ LpFairness

-----------------------------------------------------------------------------
(* Properties. *)

\* An event is credited at most once in the life of a process, however often the
\* overlapping queries list it (seenEventIds and pruneSeenEventIds).
CreditedOnce == \A e \in Events : credited[e] <= 1

\* What the subgraph indexed within the lookback, and the keeper has not met yet,
\* is never below the floor of a query to come (subtractSecondsClamped), although
\* newer events have moved the cursor.
NoneMissed ==
  \A e \in indexed \ (behind \cup dropped \cup pending) :
    Kind[e] = "good" /\ credited[e] = 0 => seenAt[e] = -1 /\ cursor <= stamp[e] + Lookback

\* Nothing happens to the bucket between a read and the use of it, and every
\* answer arrives.
Undisturbed == ~(world.lossy \/ world.moving \/ world.lagging \/ world.breaks)

\* The collections of a bucket leave the signer's own deposit alone: both legs of all
\* of them together redeem no more LP than the bucket takes have awarded
\* (collectLpRewardFromBucket).  Only a restart, which credits the whole history
\* again, may have the deposit redeemed, as the head comment of collect-lp.ts says
\* ("the sweep may burn principal"), and then by no more than what lives before
\* this one have redeemed.
PrincipalKept ==
  Undisturbed => \A b \in Buckets : lp[b] + earlier[b] >= world.principal

\* What a withdrawal yielded is in the queue until it is sent, swapped or given up,
\* even when a collection breaks off after it.
EveryTokenAccounted ==
  \A s \in Sides :
    world.action[s] # "none" /\ ~(world.lossy \/ world.moving \/ world.lagging) =>
      withdrawn[s] = queued[s] + forwarded[s] + gaveUp[s]

\* An entry of the map does not stay for ever: it is redeemed, or dropped after
\* MaxAttempts collections that yield nothing, unless reads or auctions stop them.
EntriesDrain ==
  \A b \in Buckets :
    lpMap[b] > 0 ~> lpMap[b] = 0 \/ world.flaky \/ world.breaks \/ world.jams

\* What LpManager.ingestAndDispatch says of the rewards of a pool that cannot be
\* hydrated: "a later cycle can pick them up once the pool becomes hydratable".
PickedUpLater == \A e \in Events : e \in dropped ~> credited[e] > 0

\* What handleAllTokens logs when it gives up ("after 3 failed attempts"): a count
\* does not run ahead of the failures of what is queued.
TriedInFull == \A s \in Sides : queued[s] > 0 => retry[s] <= tries[s]
=============================================================================
