# A verification project for the Ajna keeper

The keeper is a TypeScript daemon that kicks undercollateralised loans of Ajna
pools, takes their liquidation auctions (with a swap on a DEX or an aggregator,
or against the pool's own buckets), settles what is left, and collects bonds and
LP rewards. It runs several loops in one process over one wallet. This directory
holds TLA+ models of the parts whose correctness depends on interleavings,
failures and restarts, their TLC configurations, and proofs checked by TLAPS.

Paths below are relative to the repository.

## 1. Inventory

| Component | Source | State it keeps | Operations | Talks to | What is hard | What makes it correct |
|---|---|---|---|---|---|---|
| Transaction queue | `src/nonce.ts` 140-210 | `queues`: a promise per address | `queueTransaction` | every loop that sends a transaction | calls of several loops interleave at awaits; clean-up races a new call | one transaction of an address at a time, in order; addresses independent; the map is cleaned |
| Nonce tracker | `src/nonce.ts` | `nonces`, `nonceReaders` | `getNonce`, `handleFailedNonce`, `reconcileConsumedNonce`, `applyDurableNonceFloor` | providers, the state file | what a node, relay or mempool did is only partly visible; lookups fail | no live nonce is used twice; none is skipped |
| Take-write transports | `src/take/write-transport.ts` | none of their own | submit and wait, public, private RPC or relay | the nonce tracker, relays | lost answers, timeouts, acceptance that cannot be seen | a submission that may be live ends as nonce-consumed, and its floor is on disk |
| Durable nonce state | `src/durable-nonce-state.ts` | a JSON file, a lock file, a cached copy | get, upsert, clear | other processes | stale locks, two processes, a crash in the middle | no recorded floor is lost |
| Take engine | `src/take/engine.ts` and its callers | local state of one run | `processTakeCandidates`, `executeTakeDecision` | status readers, route executors | statuses go stale while others, and its own transactions, change the pool | acts on nothing older than its own last transaction; respects its cap; ends |
| External take routes | `src/discovery/external-take/`, `src/take/aggregator-calldata`, `src/take/direct-dex` | circuits, caches | probe, rank, execute, fall back | aggregator APIs, DEX quoters | probes time out and answer late; failures around the broadcast | one submission per borrower that may have been accepted |
| Route probe limiter | `src/utils.ts` 88-306 | `active`, `abandonedUnsettled`, `waiters` | `run`, abort, hard cap | probes | aborts between grant and start, late settlements | no permit lost or doubled; a bound on probes at large |
| Kick cycle, bond budget | `src/kick/` | snapshot and prices of a pass, cached zero allowances, reservations of a cycle | `handleKicks`, `clearAllowances`, `runDiscoveredKickCycle`, `tryReserve` | pools, tokens, the transaction queue | failing reads, lost answers, terms that move with each kick, bond locked earlier | bond at risk stays below the caps; kicks act on fresh terms; allowances are taken back |
| Bond collection | `src/rewards/collect-bond.ts` | idle cache: cycles a pool without bonds is passed over | collect, invalidate | kicks, settlement | a kick while a pool counts as idle | claimable bond is collected in the end |
| LP rewards, reward actions | `src/rewards/` | cursor, seen ids, rewards to redeem, retry counts | ingest, redeem sweep, exchange, transfer | subgraph, pools, DEXes | late events, partial redemptions, retries | every reward is redeemed once and forwarded once |
| Settlement | `src/settlement/`, `src/discovery/settlement-executor.ts` | `activeSettlements`, a scan cache | find, settle in steps | bond collection, the settlement loop | two callers, bounded iterations | no two settlements of a borrower at once; it makes progress |
| Discovery | `src/discovery/runtime.ts`, `targets.ts`, `handlers.ts` | snapshot, hot-auction cache, cooldowns | refresh, build targets, dispatch | subgraph, pools | failing scans, budgets, stale snapshots | manual pools win; no snapshot older than its limit is used |
| Daemon | `src/run.ts`, `src/index.ts`, `src/process-safety.ts` | timers, the five loops | start, run-once, five supervised loops, stop | all of the above | loops interleave; a loop that throws restarts | a failure of one loop leaves none dead |
| Configuration, route preflight | `src/config/`, `src/discovery/route-preflight-validation.ts` | none | resolve routes, validate, preflight contracts | the daemon's start, the contracts | three computations over the same file have to agree | what runs live was validated and preflighted |
| Quotes, gas, profitability | `src/discovery/gas-policy.ts`, `src/take/external-take/`, `src/take/arb-strategy.ts` | small caches | evaluate, approve | quoters | rounding, stale ceilings | no take below its floor |
| DEX clients, pricing, subgraph | `src/dex/`, `src/pricing/`, `src/subgraph.ts` | caches | reads, validation | outside services | shape of third-party data | only what was validated is used |
| Taker contracts | `contracts/` | allowances, owner, registered takers, lists of targets, spenders and selectors | `takeWithAtomicSwap`, callbacks, the owner's calls | Ajna pools, the preflight | scaling, callbacks, lists that drift from the file | repays the pool, keeps nothing approved, admits what the file admits |

Which module models which part: the queue `TxQueue`; nonce tracker and transports `NonceTracker`; the state file `DurableNonceFile`; the
take engine `TakeEngine`; routes and approvals `QuoteProbes` and `TakeApproval` (partly); the limiter `RouteProbeLimiter`; kicks `KickCycle`; bonds and
settlement `BondRecovery`; LP rewards `LpRewards`; discovery `DiscoveryRuntime` and, for its query, `SubgraphScan` (partly); one take and the taker contracts `RouteTake` with `TakerTake`; the answers of the
aggregators and their validation `RouteQuotes`; the start, the loops and
their queue `Keeper`; the configuration `TakeConfig` (partly). `PROJECT.json` has the
lines each definition stands for. The modules meet in five places: `DurableNonceFile` implements the record (`NonceFloors`) that `NonceTracker` assumes;
`NonceTracker` assumes one turn at a time, which `TxQueue` guarantees; `QuoteProbes` is built on the actions of `RouteProbeLimiter`; `Keeper` is built on those of
`TxQueue` and on the operators of `TakeConfig`; and `RouteTake` leads from the keeper through the operators of `RouteQuotes` to the actions of `TakerTake`.

## 2. Modules

### TxQueue and SerialExecutor

`TxQueue` is `queueTransaction` as the promise chain it is. `queues[a]` is the map entry (the
caught promise of the last call), `previous[t]` is the promise the call closed over, `state[t]`
follows the call from "new" to "released" (its clean-up callback has run). `Enqueue` is the
synchronous part, one step because there is no await between the read and the write of the map;
`Start` is the callback that runs when the previous promise has settled; `Settle` the end of the
transaction function, either way; `Release` the clean-up that compares before it deletes.
`SerialExecutor` is what callers rely on: calls draw a ticket when they are submitted and are
served in that order, each address for itself. `ticket`, `issued` and `served` are history
variables of `TxQueue` that make this a refinement mapping. The names of its specification begin with `Queue` (`QueueInit`, `QueueSpec`), since
`Keeper` extends it; `LpRewards` (`Lp`) and `TakeApproval` (`Approval`) do the same, so that one module can prove about two.

### TakeConfig and Keeper

`TakeConfig` has no state. A configuration is a record, and three groups of operators read it as three parts of the code do: `Routes` is what the running
keeper resolves (`src/config/route-policy.ts`, `src/take/manual-context.ts`, `src/take/direct-dex/route-candidates.ts`), `AutoDiscoverOk` and `TakeLoopOk` are what
the validators of the start accept, and `PreflightRequirements` is what the deployment preflight looks at. A section of `dex` is absent, partial
or complete, where "complete" is what a live keeper needs of it. `Reports` says for which wrong facts of a deployment the preflight of a source has an eye.

`Keeper` extends it, and `TxQueue`. `main` is where `main()` stands: one action per step of `startKeeperFromConfig` in its order, each going on or
ending the process, then the daemon or the two cycles of a run-once. `loops[l]` is where a loop stands, or the queued call it awaits. `fault` is the
one thing that is wrong with the contracts on chain, chosen when the preflight looks. An iteration submits any of its loop's calls, returns or throws; `Wake` is the end of
the pause that follows either way. `LpRewardsSetup` is the only part of a loop outside of its recovery, and ends the process when it throws (`superviseDaemonLoop`). A signal may `Stop` the process at
any step.

Numbers are one Boolean for all bounds of a kind (`tiers`, `scalars`); the take-write transport that cannot be reached yet
is not told apart from one that can, since the take loop goes on with both; transactions are settled or hang, as in `TxQueue`.

### NonceTracker

One address, one turn of its queue at a time (that there is only one is the theorem about `TxQueue`). A turn starts
(`BeginTurn` = `getNonce`), its transaction function runs on one of five channels, and an error leads to
`handleFailedNonce` ("failed") or `reconcileConsumedNonce` ("consumed"):

| channel | code | error before acceptance | answer lost | wait fails |
|---|---|---|---|---|
| wallet | `src/transactions.ts`, `src/erc20.ts`: the signer, receipt awaited without limit | ordinary | ordinary | ordinary |
| swap | `src/dex/curve-router.ts` 255-281, `src/dex/universal-router.ts` 365-390: 120 s, then an ordinary error | ordinary | ordinary | ordinary |
| public | `createPublicRpcTakeWriteTransport` | ordinary | ordinary | consumed |
| private | `createPrivateRpcTakeWriteTransport`: the floor is written only after a failed wait | ordinary | ordinary | floor, consumed |
| relay | `createRelayTakeWriteTransport`: the floor is written before the wait, and for ambiguous answers | ordinary | floor, consumed | consumed |

A pending lookup is two steps, as in the code: `Observe` (the largest answer of the registered readers) and
`ApplyFloor`/`KeepExpiredFloor` (the floor is read and perhaps cleared after it), so that the miner
can move in between. `mined`, `pub` and `priv` are the world: the account's nonce on chain and the live transactions,
visible or known to a private endpoint only. `env` is the environment, constant in a
behaviour: which channels are configured, whether lookups (`readsFail`), the state file (`fileFails`) and answers may fail,
whether a relay may drop a transaction, what the floor's expiry means, and where the process may be killed.

Two kinds of environment give guarantees, and both need a state file that works: every lookup ends in `applyDurableNonceFloor`
(nonce.ts 306, 371-402), which reads the floor and may clear it under the lock.

* `Counted`: every reader answers and counts every live transaction (public and wallet channels; a
  private endpoint only if it counts its own and drops none). The pending count then tells the truth whatever
  answer was lost. `OnPublic` and `OnPrivateSeen` are such.
* `Floored`: the readers see nothing (relay or hidden private endpoint only). The floor must do
  it: it must not expire while a transaction is live, and the process must not be
  killed between the acceptance and the write (the window `README.md` 309-320 documents; for a private
  node it lasts as long as the wait). `OnRelay` and `OnHidden` are such.

`Hostile` has everything at once and is in the run so that every step is explored. Outside the two
classes nonces are reused or skipped. A state file that fails is enough: the lookup after a refused send throws, `handleFailedNonce` keeps
the next nonce (243-250), and the hole holds up a wallet transaction behind it for ever, while a private one behind it times out and is sent again (TLC finds both
when `Counted` leaves out `fileFails`). Of the other cases two contradict what the code says of itself (section 4).

The branch of `applyDurableNonceFloor` for a failing `getChainId` (nonce.ts 371-375) is left out: the signer's provider is a
`StaticJsonRpcProvider`, whose chain id is known once it is detected.

### TakeEngine

One run of `processTakeCandidates` with the hybrid executor of discovered targets. `profile` is the way the engine is
called; `Discovered(max, concurrency)` and `Manual` are the two call sites. `pc` walks through the
window loop: "window" (batch read), "evaluate", "pick" (the decisions in order), then
`executeTakeDecision`: "revalidate", "submit" (one route), "fallback" (refresh and reapprove the next
route), "recheck" and "arb", and back through "returned" or "failed". `plan` is the list of routes that are left.
The auctions move meanwhile (`AuctionMoves`): prices decay, others take, an ended
auction is kicked again. Submissions succeed, are refused before the broadcast, are accepted and then
end without a good receipt (`SubmitConsumed`), or, where the profile is `lossy`, are accepted while the
answer is lost (`SubmitLost`). A status carries the number of own transactions that were out when it was
read (`epoch`), and this is what makes staleness expressible; `epoch`, `sent`, `accepted` and `read` are
history variables.

Prices and collateral are a few levels; whether a quote or a policy approves is a free choice wherever the
code asks one. `candidateStatuses` is passed by no caller, so statuses known in advance come from the
window's batch read alone. A fallback route is refreshed but its quote is not compared with
the refreshed collateral and price (the minimum output is computed for the new ones); the model does the same.

### RouteProbeLimiter and QuoteProbes

`RouteProbeLimiter` is the class of that name: `state[o]` follows a call of `run` from "new" through "queued", "granted"
(its promise is resolved), "running" and perhaps "abandoned" (capped or aborted, but not settled) to "over". `Drained` is the loop
of `drain`, which ends every handler but one, in one step with what the handler did before. Resolving a promise and the turn that
continues after it are two steps (`Drained`, `TakeUp`), because an abort may come between them; where the event loop happens to
leave no room for one, the model has more behaviours than the code.

`QuoteProbes` extends it: its calls are the probes of the discovered takes. `mode` is the way the executor is configured
(the two orders of the hybrid executor, or one route without it), `phase` follows an evaluation, `probe` what has become of each
probe, `failures` and `open` are the circuits. `Answer`, `Timeout` and `Cap` are the three ways a race of `withProbeTimeout` and
`withTimeoutAbort` is decided, `Shell` and `Finish` the two places that record an outcome. The timer of the quote and that of the probe have one
action, since both run from the start of the probe and abort the same call. The probes of a round start in one turn of the event
loop in the code, one by one in the model; a direct probe makes a call of the limiter for each route it tries, here one. `charges`
and `unasked` are history variables.

### NonceFloors and DurableNonceFile

`NonceFloors` is what `NonceTracker` takes for granted: one record, in which only a process itself moves its floor, up or to
nothing, and which a write that reported success has reached. `DurableNonceFile` is the file that keeps this promise. `pc[p]`
follows a call of a process: "load" and "loadSign" are `reloadFromDisk` of a read; a write goes through "open", "stat" and
"remove" (`acquireStateLock`, `clearStaleStateLockIfNeeded`), then, inside the lock, "read", "sign", "change", "write", "rename" and
"resign", and leaves by "release" or, after an error, by "drop". Every system call is a step. `lock` says who made the lock file
(the code does not know, and neither `Remove` nor `Release` asks), `old` whether it has reached `STATE_LOCK_STALE_MS`; `late` is the
deadline of two seconds. A signature is modelled by what it is compared for: `fresh[p]` holds while no replacement of the file came
after p took it. Two replacements within the resolution of the file times that leave the size alone are taken for different.

`mem[p]` is a copy of the whole file, as in the code, so that a save writes what the process last read of the others. `tried` (history) is
what a process's failed writes wanted: `entries.set` comes before `persistLoadedEntries`, so after a failed save the process itself sees a floor
that no other reader of the file does. `env` is the environment: who shares the file, whose system calls fail, whether locks
are left behind (a kill inside, a failing `rm`) and whether a live process may hold one for 10 s. Keepers that share the file have
addresses of their own (`README.md` 12), and a process makes one call at a time, since the calls come from the turns of its
transaction queue. Left out: partly written temporary files (rename comes after the write has returned) and unparsable ones.

### KickCycle

The kick loop, which runs forever: `Begin` starts `processKickCycle`, `Rest` ends it. In "manual" the configured pools are left to
do; a pass goes from "pick" (one loan after the other, the largest bond of the snapshot first) through `kick` ("approve",
"approving", "submit") and back, then "clear" and "clearing" (`clearAllowances`). The discovered cycle goes through "hydrate" and
"pools" to "decide", and from there through the same `kick`. `Return` is what follows a kick in either caller. Prices are not modelled: what the gates
say, what a read may throw and what the pool does are free choices, so the model has every outcome of `evaluateKickCandidate`
and the discovered cycle may skip any loan, listed or not. `fresh` (history) is what was read since the
last kick of the pass. `locked` is the bond of the keeper on chain, `stake` the part each loan has of it; auctions
end at any time (`End`), and where `env` says so borrowers change their loans, answers get lost (`flying` is the transaction that
nobody heard of, mined or dropped later) and the process is killed once. `answers` decides at the start of a pass whether its
reads all succeed; it restricts nothing, and fairness needs only one condition then.

Left out: the idle cache of bond collection, which a kick invalidates (it is in `BondRecovery`), the margin of one percent on approvals,
and the conversion of prices to bucket indexes. Bonds of a discovered pool have one unit, so the missing normalisation of the global cap is not in the model.

### LpRewards

The LP-reward loop, one step of it per read, transaction or hand-over. `Ingest` is `LpIngester.ingest`: `cursor` is the
time of the newest event it saw, the query goes back by `Lookback` from there, and `seenAt` keeps the ids of that window. The world lets a bucket take
happen (`stamp`), and the subgraph index it at once or later (`behind` remembers those that came later than the lookback allows). `Dispatch` credits
one parsed reward to the redeemer of its pool (`lpMap`), which is loaded where there is none yet, and `DispatchFails` drops those of a pool that cannot be; the sweep goes over the pools with entries (`pools`), their entries (`left`)
and the two legs of a redemption, each bounded by what the bucket can pay (`avail`) and by what the signer's LP were before (`before`). An auction in the
way leads to the reactive settlement and one more try (`again`). What was withdrawn is queued (`queued`, `retry`) and swapped or sent by `RewardActionTracker`.
Histories relate LP awarded, LP redeemed and tokens passed on: `credited`, `given` and `burned` of the life of the process, `earlier` of all the lives before it, and
`dropped`, `withdrawn`, `forwarded`, `gaveUp` and `tries`.

All of it is in memory: a restart begins with an empty map and the whole history of the subgraph, so an event is credited again whether its
LP was redeemed before or not. On an address that also lends, the sweep may then redeem the deposit, as the head comment of `collect-lp.ts` says (47-54): it cannot tell the two apart. `PrincipalKept` therefore says
of a first life that the deposit stays whole, and of a later one that it loses at most what the lives before had redeemed (`earlier`). LP and tokens are a few units at a price of one; the choice of the swap route
is left out, and a swap is confirmed, refused, or of unknown outcome.

### BondRecovery

One pool and the three loops that settle in it: the bond loop (withdraw, and settle if the bonds are locked), the settlement loop (for a manual or a discovered
target) and the LP-reward loop (which settles when an auction is in its way). Each has its own place and locals (functions over `Loops`), and they share what
is shared in the process: `active` is `activeSettlements`, `cacheAge` and `cacheEmpty` the scan cache of the pool, `idle` the idle-bond cache. The pool has, per
borrower, the age of the auction, whether this keeper kicked it, and how many settle calls its bad debt needs. `Claim` is the synchronous check-and-add
of the registry; `Settle`, `Recheck` and `Iterate` are the iterations, with the read of the auction between two of them, and `Release` ends them. The kick loop appears as two steps, since
its kick and its invalidation of the idle cache are two (`Kick`, `KickDone`). Ages count up to the value where they stop to matter, so nothing bounds time.

### DiscoveryRuntime

The take loop and the settlement loop with the one `DiscoveryRuntime` they share. A loop that wants the auctions of the chain joins the scan under way, uses
the answer of one that is young enough or begins one (`waiting` are the loops that await it); the answer becomes the snapshot. A scan that fails
leads to the snapshot, if its age allows, or to a cycle with manual targets only. `hotAge` and `hotHeard` are the candidates that takes saw before; `loaded` and `cooling` the
pools of `poolMap` and the cooldown after a failed load; `lastOk` and `lastFail` the gate in front of discovered settlements. `dataAge` is
the age of what the target in hand was chosen by. One listing stands for the scan's answer and the snapshot's, with two ages, because each scan is stored by a loop that
waits for it. The age of an answer counts from the end of its scan, as `fetchedAt` does. Which targets come first is a free choice within `maxPoolsPerRun` (the code ranks by debt), and the caches of RPC answers within a cycle are left out.

### SubgraphScan

It extends `DiscoveryRuntime` and puts the query in the place of `Arrives` and `ArriveFails`. `line` holds the endpoints the request under way may still try, in the order
`orderEndpointsByHealth` gave them when it was made; `page` and `items` are how far the pagination has come. `PageArrives` ends the scan or makes the next request, for which the endpoints
are ordered again; `AttemptFails` (a refusal, or the timeout of 8 s) charges the endpoint and goes on to the next, and a request whose last endpoint fails is the end of the scan, pages read
before included. `OtherRequest` stands for the other queries of the daemon, which share the health of the endpoints by their address. The health of a lone endpoint orders nothing and is not kept.
Every step of it is a step of `DiscoveryRuntime` or leaves that alone, which is proved.

### TakerTake

One take by a taker contract, which is one transaction: `Begin` (entry and approval of the pool), `PoolSends` (the fill, and the call back), `Swap` at a venue that
gives anything, `Check` (the minimum output for the fill, repayment), `PoolPulls`, `Settle` (allowances back to zero, what is left to the owner) and `Revert`, which
undoes everything. Amounts of the pool are fixed-point numbers with unit `Wad`; amounts of tokens are those divided by the token's scale, with the rounding
of `TakerTakeScaling.sol`. Both kinds of taker are there: `exact` is the calldata aggregator that sells the fill of its route or nothing. Tokens may lie on the taker
before. `TakerTake` begins where the contract has admitted the caller's arguments; whether it does, and where the arguments come from, is in `RouteTake`.

### RouteQuotes and RouteTake

`RouteQuotes` has no state. For each aggregator it has the answers a request may get (a good one, or one that differs from a good one in one respect: another token,
payee, amount, target, selector, native value, fee, step) and what the validators let through. `call` is what the calldata makes the target do. The validators of 1inch and Sushi
decode the calldata, so their conditions speak of `call` (`ExecutorsListed` says whether the file has an allowlist of 1inch executors; the run takes the mode without one, which lets more through); that of LI.FI sees only the description next to it, and so a LI.FI quote may have any `call`. A quote is what the rest of the
code keeps of an answer: target, spender, selector, native value, output and minimum.

`RouteTake` extends it and `TakerTake`, and follows one take at a time:

| `stage` | code | leaves by |
|---|---|---|
| "idle" | the evaluation and approval of a cycle | `Approve` (sizes and floors as the code rounds them) |
| "planned" | between the approval and `executeTakeDecision`; the auction moves | `Skip`, `Reapprove` (discovered takes at a lower price), `Reject`, `DryRun`, `Prepare`, for direct routes `RejectDirect`, `PrepareDirect` |
| "asking" | the request for the quote that is executed | `QuoteArrives`, `QuoteFails` |
| "queued", "estimated", "populated" | the callback in the queue of the wallet, whose age check comes before each step | `Estimate`, `Populate`, `StepFails`, `Stale`, `Submit`, `TransportThrows` |
| "sent" | the transport has the transaction | `Land` and the steps of `TakerTake`, `Settled`, `Reverted`, `WaitFails` |
| "over" | what was reported is in `told` | `NextCycle` |

On the other side is the contract: `lists` (every entry ever set, and those that are allowed now) and `registered`. `Preflight` compares them with the file's policy at the start,
as `reconcileTakerAllowlistSnapshot` does in its exact mode; `OwnerCall` changes them at any time between transactions. `trust` (history) says whether the preflight passed and no call of the owner came since.
`Admits` is what the router and the taker ask before the take begins. A deployment is a file and the lists earlier calls left.

The auction moves while a take is planned; that it decays further, or loses collateral to others, before the transaction lands is in `PoolSends`, which fills any part at any lower price.
The reads of the preflight are one step. A transaction that is still pending when its wait fails is left to `NonceTracker`; here `WaitFails` ends the take. One unit of tokens may
make the contract refuse what repays the pool exactly, since `quoteAmountDueCeiling` adds one wherever the token has a scale; the model has that rounding, and such a take reverts.

### TakeApproval

The approval of one external take: a world that goes through a given `Course` of auction states; `gas` and `asking`, the gas price of the shared `rpcCache` and the fetch
under way; `cache`, the bounded map of native-to-quote conversions by route and gas price, with the two lifetimes and the order of insertion by which it evicts (`older`); and the evaluation itself, whose `stage` goes from
the probes of the two routes over ranking, approval of the plan, the candidate's approval, revalidation and the approval with a forced gas price to the hand-over (`sent`) or to the next
candidate. A quote or an approval under way is `job`, with steps for the gas price, the conversion and the judgement, so that the auction
and other evaluations move in between. All amounts are small integers, and every division of the code rounds here in the same direction. `since` (history) says that a gas price was
answered since the facts were read. A quote keeps the gas price it was charged with (`gas`) and the one that is recorded for the drift test (`wei`):
they differ only for a direct route's context, which records the price found after its conversion. The run's environment with a drift tolerance has no such context; the proofs cover it.

A source of the conversion that gives no rate stands for an open circuit, a timeout and an empty answer; a probe that is abandoned leaves only
the gas price fetch it began; one calldata provider is configured. A route of either kind may fail before its broadcast (`ExecutionFails`), and makes way for the next candidate.
A fallback candidate is approved anew with the size its old quote was made for and then bound to the size just read (`Rebound`), so `SentCoversCosts` claims the costs where
the size (and, for a repayment that is not computed again, the price) has not risen since the quote: `SizeHeld` and `PriceHeld`. Section 4 has what happens otherwise.

## 3. Runs

| Run | Configuration | Shows |
|---|---|---|
| Keeper | 3,200 configurations: everything that decides the routes together with one gap in what they need, the rest one field at a time; every fault of a contract; three daemons with two calls at their wallet and one that hangs at another | a route that runs live can be executed and, through an aggregator, was preflighted; no loop is left dead; refinement of `SerialExecutor` |
| NonceTracker | five environments, nonces 0..3 | no live nonce reused, no hole, turns end |
| TakeEngine | 3 candidates; windows of 1 and 2, caps 1 and 2, a lossy node, manual, dry run; collateral 0..2, price 0..2, one outside event | fresh facts, no second submission, the cap, the run ends |
| QuoteProbes | 2 evaluations of a direct route and an aggregator with a circuit of threshold 2, one permit, two abandoned at most, every mode and every past of the circuit | accounts of the limiter, circuits are charged once, evaluations end |
| DurableNonceFile | two processes, floors 0..1, nobody killed; one process, floors 0..2, with kills, failing calls and stalls | the lock excludes, refinement of `NonceFloors`, writing goes on after a lock was left behind |
| KickCycle | two pools with two loans and one, bonds of 1 and 2: caps with one and two discovered pools, lost answers, moving loans, a kill, a dry run | fresh terms, the cap of a pool, allowances taken back |
| KickTotalCap (violation) | the same, without failures | the bond at risk passes the global cap in the second cycle |
| LpRewards | five events in two buckets of two pools, one with the signer's own deposit; time 0..3, lookback 1; nine environments from a dry run to lost answers | an event is credited once in a life, none is missed, the deposit stays but for what a restart credits a second time, every token withdrawn is accounted for, the entries drain |
| BondRecovery | two borrowers, auctions that can be settled after two units of time, a scan cache that serves for one, an idle cache of two cycles; eight environments of loops and failures | one settler for each borrower, no cache hides work, bad debt is settled, bonds come back |
| SubgraphScan | two pools, pages of one, two endpoints, one of which may fail for ever, a threshold of 2, rest, scan window, time to live and cooldown of 1, an interval of 2; seven deployments of loops, manual pools, endpoints and failures | targets are chosen by young data, a loaded pool is never passed over, discovered bad debt is settled |
| RouteTake | 18 deployments (each provider, a dry run, missing addresses, lists that lack, exceed or once had an entry), four states of the auction, unit 3, scales 1 and 2, amounts up to 5, quotes that age by up to two ticks, one call of the owner, tokens astray on the taker, every price and fill | what is sent was approved for the auction at hand, is admitted if the preflight passed, is reported once, and is repaid by the keeper's floor; what passes the callback repays the pool, and the floor per unit holds |
| TakeApproval | a course of four auction states, two gas prices, two rates, a cache of one conversion; six environments of policies and failures | what is sent covers the debt, and for a size that has not risen the gas and floors; gas and rate are recent; evaluations end |

**Why the bounds are enough.** The two calls of a daemon let a clean-up of an old promise meet a newer entry (five calls were run once, with the same result), and the
third hangs elsewhere. A gap of a configuration concerns one source at a time, since every check looks at one source; fields that decide the routes are combined because the three
computations combine them. `MaxNonce` = 3 gives four turns: a hidden transaction, one behind
it, a restart and a reuse need three. Three candidates give a window of two and one after it, which is
what a break has to skip or keep; collateral has a partial take, a full one and a re-kick; one event from outside lets a status
go stale at any point, and two change no property that one does not (two were run once: 2.9 million states, same result).
Four probes over one permit fill the permit and both abandoned slots and leave one that waits; two evaluations record with one
circuit in either order, and a threshold of two is opened by both or by one after an earlier failure.

Two processes are what a lock is for; a third would only wait like the second. Floors 0..2 of one process have a raise, a lower one that is
refused, a clear and a failed one between; of two, what matters is whether one's save carries the other's entry, for which 0 and 1 do.
Two processes with failing calls were run once for the invariants (1.1 million states); the proofs cover them.

In `KickCycle` a pool with two loans has one before and one after a kick; with bonds of 1 and 2 and a cap of 2 a second kick is refused or allowed by
what the first took, in the same cycle or the one before, and an auction may end and its loan be kicked again. `ZeroCycles` = 1 instead of 10 leaves
one pass that trusts the cached zero. Cycles are not bounded.

In `LpRewards` three units of time with a lookback of one have an event below the floor, one at it, and one above; two of the events are in one bucket, so an
entry grows while it is swept, and one cannot be dated and is dropped. Two attempts have a retry and a last one. In `BondRecovery` two borrowers are what a
registry of borrowers has to tell apart, and an auction that needs two calls is settled over two iterations, with another
loop or a kick in between; nothing bounds time or the number of kicks. In `DiscoveryRuntime` and `SubgraphScan` ages stop growing where the code stops telling them
apart (`Stale`, `StaleHot`). In `RouteTake` every quotient comes with and without remainder in each
division; one call of the owner makes lists match that did not, or differ that did match; and takes follow one another, so what one leaves behind meets the next. The proofs cover all amounts, deployments and calls. The course of `TakeApproval` has a fall of the price, a partial take that moves the amount from a debt-limited to a
collateral-limited one, and an end; the prices and gas costs are such that each floor is decisive in one environment. With one place in the cache the two routes and the two gas
prices evict one another.

**Fairness.** `Keeper`: the event loop runs every ready callback and timer, an iteration that awaits no transaction ends (its reads have timeouts), and only the transactions
of `Responsive` addresses settle. `NonceTracker`: turns are started while there is work (the daemon loops), lookups answer or time
out (4 s per reader), sends return, receipts are polled, and the account's next transaction is mined;
private relays owe nothing. `TakeEngine`: every read, quote and submission returns, which the timeouts of the readers and of the transports
give; the auctions may stand still or move. `QuoteProbes`: turns and timers run and the reads before a direct quote end, but
operations at providers need not settle; only the single direct route has no timer, and for it fewer operations than the
limiter may abandon are allowed to hang (`Settling`). `DurableNonceFile`: system calls return, deadlines pass and a lock that stays
ages; reads, writes and kills come or do not, and `WritesResume` says of the writes what it needs of them.
`KickCycle`: the loop goes on
(`runResilientLoop`), transactions without an answer are mined or dropped (now and then before the loop gives up on the clearing, whose nonce comes after theirs), and now and then a whole pass gets its reads answered and a clearing
succeeds (strong fairness; with reads that fail for ever no allowance is ever taken back). The run has one manual pool at a time.

`LpRewards`: the loop takes its next step, whatever that is; the world owes it nothing, and `EntriesDrain` is stated for what a pass can drain. `BondRecovery`: each
loop goes on, time passes, and a kick that was mined comes to its invalidation; failures are kept out by the environments for which
progress is claimed (`Works`), since a subgraph that always fails settles nothing. `SubgraphScan`: the loops go on and every attempt at an endpoint ends, by its timeout if nothing else; a load and a settlement that are tried
again and again succeed at some time, and one endpoint of the list, `sound`, answers a page if it is asked for it again and again (strong fairness; the code retries for ever). The other endpoints
may fail always, so `DiscoveredSettled` shows that the failover reaches the sound one. `TakeApproval`: the
evaluation goes on and the gas price is answered or fails; conversions have a timeout of their own.

**Deadlock** is not checked in `Keeper`, `NonceTracker`, `TakeEngine`, `QuoteProbes` and `TakeApproval`, which end where their bound, or the run or evaluation they
describe, ends. The other models never stop, and TLC checks that.

## 4. Findings

`KickTotalCap` is the run of a disagreement between code and documentation: each cycle makes a new `BondBudget` without `lockedNormalized`, so bonds of
earlier cycles that are still locked do not count towards
`maxTotalBondExposure`, against README.md 52 ("caps the aggregate") and config/schema.ts 371 ("total bond at risk across all discovered pools"). The cap of a
pool does count them (`KicksWithinPoolCap`).

The modules state further properties that comments, documents or tests promise and that TLC refutes in the environment named. They are in no run; to see one,
check it with the constant set of environments (`Profiles` in `TakeEngine`) given by that operator of the MC module:

| Property | Module, environment | What happens | Against |
|---|---|---|---|
| `NoReuseAfterTimeout` | `NonceTracker`, `MCRelayBesidePublic` | After an ordinary error `handleFailedNonce` takes what `getPendingNonce` answers. With a relay's transaction hidden at nonce 0 and its floor at 1, a swap at nonce 1 that was accepted and then waits longer than 120 s is reset to 1 while it is live | `src/nonce.ts` 145-147 |
| `SkippedNonceRecovers` | `NonceTracker`, `MCFailingReads` | A failed transaction whose lookup fails too skips a nonce. Nothing resyncs it, and the wallet's next `tx.wait()` never returns, which holds the queue | `src/nonce.ts` 244-246 |
| `NoFallbackAfterMaybeAccepted` | `TakeEngine`, `MCLossy` | On public and private RPC a lost answer of `sendTransaction` counts as a failure before the broadcast, so the next route is submitted for the same borrower. (On a relay it does not.) | `src/discovery/external-take/provider.ts` 48-50 |
| `UnaskedNotCharged` | `QuoteProbes` | The timer of a probe starts before it queues in the limiter, so a probe that times out in the queue counts as a failure of a provider nobody asked | `production_setup_guide.md` 736 ("Retryable 1inch failures before the local circuit opens") |
| `MergesOnSave` | `DurableNonceFile`, `MCKilled` | Whoever finds an old lock removes the lock file of that name, which by then may be another one; the later of two saves is of a map read before the earlier. It takes a kill, two keepers on one file, and two calls within the same moment after it | `tests/unit/durable-nonce-state.test.ts` 102 ("merges on-disk durable nonce floors instead of clobbering them on save") |
| `TriedInFull` | `LpRewards`, `MCRefusing` | The attempts are counted by token and action, so an amount that is added after two failures is dropped after one of its own | `src/rewards/action-tracker.ts` 254 ("Removing token ... after 3 failed attempts") |
| `PickedUpLater` | `LpRewards`, `MCFlaky` | The cursor has moved over the events of a pool that could not be loaded, and they are in the set of those seen | `src/rewards/collect-lp.ts` 827-829 ("a later cycle can pick them up once the pool becomes hydratable") |
| `KickEndsIdle` | `BondRecovery`, `MCUsual` | A read of the bonds that began before the kick marks the pool idle after the kick's invalidation; the cycles of the idle cache bound the delay (`BondReturned` holds) | `src/rewards/collect-bond.ts` 144 ("Invalidated externally when this keeper kicks a loan") |
| `ValueFailsClosed` | `RouteTake` | The evaluation's quote is checked for a native value, the one that is executed is asked for later; the value of a 1inch answer is dropped, since the take sends none | `src/take/aggregator-calldata/quote-approval.ts` 90-93 ("would be silently dropped. Fail closed instead") |
| `ReboundCoversCosts` | `TakeApproval`, `MCRisingGas` | The first route fails before its broadcast, the auction has fallen meanwhile, and more of its collateral is needed for the debt at the lower price. The fallback is approved with the `quotedCollateralWad` of its old quote and executed for the new size, whose yield may be below gas and floor (it still repays the pool) | `src/discovery/external-take/approval-policy.ts` 320-322 ("so absolute profit-vs-gas checks reflect what the take can actually realize") |

One more disagreement has no state to refute it in: `processKickCycle` (`src/run.ts` 562) and `runDiscoveredKickStep` (`src/kick/discovered-step.ts` 119-124) read the kick
policy without asking for `discovery.enabled`, while `validateAutoDiscoverConfig` returns early when discovery is not enabled (`src/config/auto-discover-validation.ts` 58-61). With
`enabled: false` and a kick policy left in the file, discovered kicks run without a validated bond cap and without discovery of takes, against README.md 29 and the comment at
`auto-discover-validation.ts` 111-112. 

Two more were met in the code around a take, where it is deployed and started:

* `validateOneInchAggregatorAllowlistPreflight` (`src/discovery/route-preflight-validation.ts` 472-487) asks that the 1inch router is an approval spender, not that it is a call target with the selector of `swap`,
  although a 1inch take calls it. A file whose targets leave it out passes the start, and the contract refuses each of its takes; `production_setup_guide.md` 241 says that the
  router is both. `NeverRefused` therefore has this as a condition for 1inch.
* `reconcileTakerAllowlists` (`scripts/deployment/deploy-registry.ts` 244-345) makes its contract from an ABI that has the getters only and then calls the setters, so it throws wherever a list differs, against
  the comment at 237-243.

Two rules are stricter than they need to be: a market price factor in the defaults without a source is refused although only named providers would use
it, and a direct source in the defaults is preflighted although only aggregators are allowed.

## 5. Proofs

The modules `*Proofs` prove, for every value of the constants:

* `WalletProofs` is about the queue, the process around it and its nonces. `QueueTypesCorrect`, `QueueMutualExclusion`, `QueueRefinement`: the invariant `QueueInv` says that the closed-over
  promises are the order of the tickets: tickets are distinct and over exactly when served, the map holds the last ticket, and a
  queued call closed over the one before its own. Mutual exclusion alone is not inductive: that two
  calls cannot start together follows only from what they closed over. The refinement maps `Start` to `Begin` because of the last part.
* `KeeperServesInOrder`: every step of the process is a step of the queue or leaves it alone, so the refinement holds of the whole process. `RoutesAlwaysUsable` and
  `RoutesAlwaysPreflighted`, for every configuration of the type `ConfigOK` and every single fault: `KeeperInv` keeps what each validator of the start has established once `main` is past it
  (`Past`), and the rest is about the three readings of one file. Every route of `Routes` is a manual one, which the take loop's validator saw, or a discovered one, which the validator of
  discovery saw; either way its router, taker and section are there (`Usable`), and an aggregator is among the `PreflightRequirements`, whose
  checks look at each fact that can be wrong with a usable one (`PreflightSees`).
* `NonceTypeOK`, `NoNonceReuse`, `NoNonceSkipped`, `FloorCoversHidden`, for every set of environments and every `MaxNonce`. In a counted environment
  the live transactions are an interval from the account's nonce up to a number p (`Tip(p)`), and whatever the turn knows is p, because every lookup is answered and applied; in a floored one
  everything the turn knows is above every live transaction (`FlooredInv`) and so is the durable floor (`FloorCovers`). The proof goes step by step
  over the actions, once for each class.
* `EngineTypeOK`, `EngineReadsBeforeEach`, `EngineSubmitsOnce`, and, for every set of profiles the callers can produce
  (`Called`), `EngineActsOnFresh`, `EngineDropsNone` and `EngineLimits`. `FreshFacts` alone says nothing of the places between a
  submission and the next decision. `FreshInv` does: all that is still evaluated is fresh, or the execution under way will throw it
  away (`changed`, or `attempted` in earnest), or nothing is left. The last case is the manual target's, whose
  executor tracks no attempts: it is sound only because its windows are of one (`WindowInv`). `NoneDropped` needs the same fact of runs
  that go on. `SentInv` says for the limit of one that whoever was transacted with is the current candidate and that the
  run will stop.

* `QuoteProofs` begins with the limiter alone: `LimiterTypes`, `LimiterBoundsPressure`, `LimiterServes`, `LimiterHeedsAborts`, for any calls and
  limits. The invariant is `Accounts`: the counters are the
  cardinalities of the calls in the states they count, the queue holds the queued calls once each, and after every handler nothing
  more could be granted. One lemma about `Drained` (from any such accounts to settled ones) serves all handlers.
* `ProbesUseLimiter` shows that every step of `QuoteProbes` is a step of the limiter or leaves it alone, so
  `ProbesBoundPressure`, `ProbesServed` and `ProbesHeedTimeouts` follow from the theorems on the limiter. `ProbesTypeOK`, `ProbesChargeOnce` and
  `ProbesLeaveNothing` come from `ProbesInv`: a call waits or runs only for a probe that still waits for its quote
  (`Placed`), only probes of a round that has begun are anything but idle (`InRounds`), and a charge comes with the result of
  the shell or with the end of the evaluation (`Charged`); without the last, nothing keeps a second charge out.
* `ApprovalTypesCorrect`, `SentTakesCoverCosts`, `GasHeardAfterRead` and `RatesAreRecent`, also in `QuoteProofs`, for any course of the auction, amounts, prices, rates and policies. The
  arithmetic is a few lemmas: what is owed grows with size and price (`DueMonotone`), a share of the gas that is rounded up covers it (`ShareBound`), and so the charge of an approval covers gas and floors
  (`ChargeCovers`) and the minimum output of an approved quote covers its charge (`MinOutCovers`), in all orders of rounding. The invariant `ApprovalInv` follows the numbers to the hand-over. While routes are
  probed, an approved one speaks of the facts that were read (`Quoted`). The candidate that is tried, and those behind it in the plan, owe what was computed for the size of their quote (`Sound`);
  a forced approval computes the debt again at the price just read (`Owed`), so the sum is right for the quoted size, and `SizeHeld` carries it to the size just read. `Current` also ties `since` to the
  steps of a forced approval: it passes the gas price only after an answer. For `RateIsRecent` the entries have to be as old as they seem (`Dated`), through every move to the end and every eviction.

* `FileTypeOK`, `FileOneInside`, `FileReadsTrue` and `FileImplementsFloors`, for any processes, bounds and environments; the last for
  environments that are all `Sound`, that is one process with everything that may go wrong, or any number that leave no
  lock behind. That the lock excludes rests on `Guarded`: among several processes no lock grows old under its holder, so none is ever in "remove". The
  copies rest on that: `Copied` says at each step of a write what the copy has to do with the file, the whole map inside
  the lock and the own entry outside of it, so that what is saved is the file with one entry changed. The refinement maps `Rename` to `Apply`, and
  a call is a success only if `Done` survived from the change to the release.

* `KickTypeOK`, `KickFreshTerms`, `KickCachedZero` and `KickWithinPoolCap`, for any pools, loans, bonds, limits and environments. The first three are
  near inductive (`PlaceOK` ties the place in the loop to the pool at hand; `FreshInv` and `ZeroInv` add the cached prices and what is in flight). For the cap,
  `CapInv` says of every pool the budget counts that the bond locked there is at most baseline plus reservations, and of the loan at hand that
  its bond is still apart and that baseline plus reservations are within the cap. It holds because no other step of the keeper posts a
  bond in a discovered pool between the baseline and the kick, and where nothing is lost or moves (`Calm`).

* `DiscoveryRuntimeProofs`: `TypeCorrect`, `ChosenByFreshData` and `LoadedPoolsAreUsed`, for any pools, windows, intervals and environments. The
  invariant adds `Ages` to `TargetsFresh`: how old the snapshot can be follows from how old a reused answer was when it was stored, so
  the two ages have to be bounded together, and the candidates that were kept with them. `ScanImplementsRuntime` maps each step of `SubgraphScan` to a step of `DiscoveryRuntime` or a stutter, for any endpoints, page sizes
  and limits: what the pages read so far list is an answer the scan may have (`RequestOK`). `ScanChosenByFreshData` and `ScanUsesLoadedPools` follow for the query with its failover.

* `RecoveryProofs` is about the money that comes back. `BondTypesCorrect`, `SettledByOneLoop` and `CacheHidesNoWork`, for any borrowers, ages and lifetimes: whom a loop is settling is in the registry
  (`Registered`), and whatever began since the last scan is no older than the scan (`CacheDated`), so while a cached "nothing" serves nothing is old enough; that is why the assumption bounds the cache's life by the age
  of an auction that can be settled. `BondsBounded` keeps the bonds of the type finite.
* `LpTypesCorrect`, `RewardsCreditedOnce`, `NoRewardMissed`, `DepositKept` and `TokensAccounted`, in the same module, for any events, pools and lookback. `SeenSound` is what makes the first two inductive: an
  event that was taken in is in the seen set with its own time, or so old that no query lists it any more, since the cursor only grows and the set is pruned below the floor. `PrincipalKept` follows from three
  ledgers: the legs of one collection together stay below the capped reward (`LegsCapped`), what is burned and still in the map is at most what was given in this life (`LedgerKept`), and the LP of a bucket with what all lives have redeemed there
  is the principal with the LP of every event ever awarded there, of which what this life was given is a part, since none is credited twice (`DepositInv`, which counts units of LP so that the sums are cardinalities of finite sets). The
  term `earlier` cannot be left out: without it TLC finds the restart that burns the deposit, in 17 steps. `TokenInv` carries the tokens from withdrawal
  to the queue and from there to the swap or transfer.

* `TakerTakeProofs` begins with the contract alone: `TypeCorrect`, `RepaysThePool`, `SoldAtTheFloor` and `LeavesNothingOpen`, for any unit, scales, orders and venue. The lemmas on rounding
  (the division that rounds up is monotone, and an amount rounded up to whole tokens is worth at least what the pool asks) carry the proof; the
  invariant follows the take through its stages (`FillHeld`, `Planning`, `Filled`, `CheckedOut`, `Closed`), and `StrayUntouched` keeps what lay on the
  taker apart, without which the repayment could come out of it.
* `RoutesTakeOnly` shows that every step of `RouteTake` is a step of `TakerTake` or leaves it alone, so `RoutesRepay` follows from the above for every deployment. `ApprovedIsSent`, `ToldOnce`,
  `PreflightSuffices` and `FloorsRepay` come from `RouteInv`, which says at each stage what is known of the plan and the quote: from the preparation on the plan has the size and price of the
  auction and a floor that covers them (`PlanCovers`); the quote is one of the validated answers for that size and clears the floor (`FreshFits`); while `trust` is "checked" the contract's
  lists are the file's (`Trusted`), which the quotes were validated against; nothing was told before the hand-over but one result (`ToldInv`). For the last theorem `OrderCovers` follows the order into the contract,
  and `ScaledFloorRepays` is the arithmetic: a floor that covers the whole order, scaled down to a fill and rounded up, covers the charge for that fill.

The assumptions are the named ASSUMEs on the constants (`QueueAssumption`, `UnsetAssumption`, `KeeperAssumption`, `NonceAssumption`, `EngineAssumption`, `LimiterAssumption`, `ProbesAssumption`, `ApprovalAssumption`, `FileAssumption`, `KickAssumption`,
`BondAssumption`, `LpAssumption`, `DiscoveryAssumption`, `SubgraphAssumption`, `TakerAssumption`, `QuotesAssumption`, `RouteAssumption`), which TLC evaluates in the runs. Some theorems state a property no run repeats (`MutualExclusion`, `NobodyWaitsInVain`, `FloorCovers`, `ReadBeforeEach`, `NoneDropped`, `DoneLeavesNothing`,
`AbortedNeverStarts`, `OneInside`, `OneBorrowerPerRun`, `NothingLeftOpen`, `ReadsTrue`, `CachedZeroIsZero`, and the `TypeOK` of each module proved about); TLC found them to hold before they were proved.

Only model-checked: every liveness property (`LoopsGoOn`, `TurnEnds`, `RunEnds`, `EvaluationsEnd`, `WritesResume`, `AllowanceTakenBack`, `EntriesDrain`, `BadDebtSettled`, `BondReturned`,
`DiscoveredSettled`, `ApprovalEnds`): the prover has no rule for ENABLED and fairness.
Every invariant that a run checks is stated by a theorem. Induction over data and recursive operators are out of the prover's reach as
well; the modules proved about have none.

## 6. Not modelled

* Of the routes and approvals: the cache of arbitrage ceilings (`src/take/arb-strategy.ts` 46), the gas policy of arbitrage takes and settlements, the circuits inside the
  conversions of gas, several calldata providers in one evaluation, and the quoters of the direct DEXes, whose quotes are any number. They use the rounding and the freshness rules
  that `TakeApproval` has for external takes.
* Of the contracts: the swap calls to each venue, which `TakerTake` replaces by a venue that gives anything, the recovery of tokens by the owner between takes, and whether an address has code.
* Of the configuration: the bounds of single numbers, and the rules for kick settings and reward actions, which are checked field by field. Of the daemon: the lengths of
  its pauses. What an iteration does is in the module of what it runs; the manual and discovered cycles of one loop follow each other there.
* Of the DEX clients: URLs, headers, retries and the parsing of numbers, and the canaries that probe routes by hand. Of pricing and the subgraph, all but the scan of the auctions and the failover of its requests (the read RPC has a failover of its own, which is not modelled): requests and what comes back,
  without state whose interleaving matters. What a caller can observe of them (an answer, a late or lost one, a failure) is a choice in the modules that call them.
* Scripts, fixtures and the no-spend harness under `scripts/` are tools around the keeper, not the keeper.
