----------------------------- MODULE KickCycle -----------------------------
(***************************************************************************)
(* The kick loop (processKickCycle, src/src/run.ts): a pass over every     *)
(* manual pool (handleKicks), which ends by clearing the pool's allowance, *)
(* and then the cycle over the discovered pools (runDiscoveredKickCycle),  *)
(* which charges a budget of bonds.                                        *)
(*                                                                         *)
(* A bond is a few units.  Prices are abstract: whether a loan passes the  *)
(* gates on price and debt is a free choice wherever the code asks, and so *)
(* is what a kick meets on chain.  Every other await is a step, between    *)
(* which auctions end, borrowers change their loans and answers get lost.  *)
(***************************************************************************)
EXTENDS Integers, FiniteSetsExt

CONSTANTS
  Pools, Loans, NoPool, NoLoan,
  PoolOf,         \* the pool of a loan
  MaxBond,        \* bound on the bond of a loan
  ZeroCycles,     \* ZERO_ALLOWANCE_CACHE_CYCLES
  Environments    \* see EnvType

Bonds == 1 .. MaxBond

EnvType == [
  manual : SUBSET Pools,  \* the configured pools; the others are discovered
  dry : SUBSET Pools,     \* those under dryRun or dryRunNewPools
  poolCap : Nat,          \* maxBondExposure
  totalCap : Nat,         \* maxTotalBondExposure; one out of reach stands for none
  maxPools : Nat,         \* maxPoolsPerRun, likewise
  loses : BOOLEAN,        \* answers to accepted transactions may get lost
  moves : BOOLEAN,        \* borrowers may change their loans at any time
  kills : BOOLEAN]        \* the process may be killed, once

ASSUME KickAssumption ==
  /\ NoPool \notin Pools /\ NoLoan \notin Loans
  /\ PoolOf \in [Loans -> Pools]
  /\ MaxBond \in Nat \ {0} /\ ZeroCycles \in Nat \ {0}
  /\ Environments \subseteq EnvType

VARIABLES
  env,
  \* the pools
  bond,           \* what a kick of a loan would cost
  stake,          \* the bond posted on a loan in auction, 0 when there is none
  locked,         \* kickerInfo.locked of the keeper
  allowance,      \* of quote token, for the pool
  flying,         \* a transaction whose answer was lost: a set of one at most
  killed,
  \* the loop
  pc, todo, pool, \* where it is, the pools left, the one at hand
  left, cur, ask, \* the loans left there, the one at hand, its bond as read
  seen,           \* loanMap: the bonds read for the whole pool
  cached, again,  \* cachedPoolPrices is there; kickedThisPass
  answers,        \* whether every read of this pass will be answered
  zero,           \* zeroAllowanceCache: cycles left
  \* the discovered cycle
  hydrated, base, \* hydratedPools and their lockedByPool
  reserved, total,\* perPoolReserved and normalizedReserved
  kickedIn, here, \* poolsKickedIn, kickedInThisPool
  \* history
  fresh           \* of the prices, the snapshot and the loan at hand: those
                  \* read since the last kick of the pass

chain == <<bond, stake, locked, allowance, flying>>
where == <<todo, pool, left>>
loan == <<cur, ask>>
reads == <<seen, cached, again, answers, fresh>>
budget == <<hydrated, base, reserved, total, kickedIn, here>>
vars == <<env, chain, killed, pc, where, loan, reads, zero, budget>>

Discovered == Pools \ env.manual
LoansOf(p) == {l \in Loans : PoolOf[l] = p}

\* Transactions without an answer: a kick of a loan, or an approval for a pool.
Kicking(l) == [kind |-> "kick", loan |-> l, pool |-> PoolOf[l], amount |-> 0]
Approval(p, n) == [kind |-> "approve", loan |-> NoLoan, pool |-> p, amount |-> n]
TxType ==
  [kind : {"kick"}, loan : Loans, pool : Pools, amount : {0}]
    \cup [kind : {"approve"}, loan : {NoLoan}, pool : Pools, amount : Nat]

Acting == {"approve", "approving", "submit"}

ChainOK ==
  /\ bond \in [Loans -> Bonds] /\ stake \in [Loans -> 0 .. MaxBond]
  /\ locked \in [Pools -> Int] /\ allowance \in [Pools -> Nat]
  /\ flying \subseteq TxType

LoopOK ==
  /\ todo \subseteq Pools /\ pool \in Pools \cup {NoPool}
  /\ left \subseteq Loans /\ cur \in Loans \cup {NoLoan} /\ ask \in 0 .. MaxBond
  /\ seen \in [Loans -> 0 .. MaxBond]
  /\ fresh \subseteq {"prices", "snapshot", "loan"}
  /\ zero \in [Pools -> 0 .. ZeroCycles]

BudgetOK ==
  /\ hydrated \subseteq Discovered
  /\ base \in [Pools -> Int] /\ reserved \in [Pools -> Nat] /\ total \in Nat
  /\ kickedIn \in Nat

FlagsOK == \A flag \in {killed, cached, again, answers, here} : flag \in BOOLEAN

PlaceOK ==
  /\ pc \in {"idle", "manual", "pick", "clear", "clearing", "hydrate",
             "pools", "decide"} \cup Acting
  /\ pc \in Acting => cur \in Loans /\ pool = PoolOf[cur]
  /\ pc \in {"pick", "clear", "clearing"} => pool \in env.manual
  /\ pc = "decide" => pool \in Discovered
  /\ pc \in {"pick", "decide"} \cup Acting => left \subseteq LoansOf(pool)
  /\ pc # "hydrate" => todo \subseteq env.manual
  /\ pc \in {"idle", "manual", "hydrate", "pools"} => pool = NoPool

TypeOK == env \in Environments /\ ChainOK /\ LoopOK /\ BudgetOK /\ FlagsOK /\ PlaceOK

None == [p \in Pools |-> 0]
Unread == [l \in Loans |-> 0]

Init ==
  /\ env \in Environments
  /\ bond \in [Loans -> Bonds] /\ stake = Unread
  /\ locked = None /\ allowance = None /\ flying = {} /\ killed = FALSE
  /\ pc = "idle" /\ todo = {} /\ pool = NoPool
  /\ left = {} /\ cur = NoLoan /\ ask = 0
  /\ seen = Unread /\ cached = FALSE /\ again = FALSE /\ answers = FALSE /\ fresh = {}
  /\ zero = None
  /\ hydrated = {} /\ base = None /\ reserved = None /\ total = 0
  /\ kickedIn = 0 /\ here = FALSE

-----------------------------------------------------------------------------
\* The pass over one manual pool: handleKicks and getLoansToKick.

Begin ==
  /\ pc = "idle"
  /\ pc' = "manual" /\ todo' = env.manual
  /\ UNCHANGED <<env, chain, killed, pool, left, loan, reads, zero, budget>>

\* The loan list, the snapshot of the loans and the static price are there.
PassLoans(p) ==
  /\ pc = "manual" /\ p \in todo
  /\ pc' = "pick" /\ pool' = p /\ left' = LoansOf(p)
  /\ seen' = [l \in Loans |-> IF PoolOf[l] = p THEN bond[l] ELSE 0]
  /\ cached' = FALSE /\ again' = FALSE /\ fresh' = {"snapshot"} /\ answers' \in BOOLEAN
  /\ UNCHANGED <<env, chain, killed, todo, loan, zero, budget>>

\* A read throws before the first loan: the catch of processKickCycle goes on.
PassFails(p) ==
  /\ pc = "manual" /\ p \in todo
  /\ todo' = todo \ {p}
  /\ UNCHANGED <<env, chain, killed, pc, pool, left, loan, reads, zero, budget>>

\* No static price: no loan is yielded.  (A dry pass then ends like PassFails.)
PassPriceless(p) ==
  /\ pc = "manual" /\ p \in todo \ env.dry
  /\ pc' = "clear" /\ pool' = p /\ answers' \in BOOLEAN
  /\ UNCHANGED <<env, chain, killed, todo, left, loan, seen, cached, again, fresh,
                 zero, budget>>

LeavePool ==
  /\ pc' = "manual" /\ todo' = todo \ {pool} /\ pool' = NoPool
  /\ left' = {} /\ seen' = Unread /\ cached' = FALSE /\ again' = FALSE /\ answers' = FALSE
  /\ fresh' = {}

\* The next loan of the pass, the largest bond first.  Both reads are of now,
\* or both are the pass's own; a loan that fails a gate is skipped.
Pick(l) ==
  /\ pc = "pick" /\ l \in left /\ \A k \in left : seen[l] >= seen[k]
  /\ left' = left \ {l}
  /\ cached' = TRUE
  /\ fresh' = (fresh \ {"loan"})
                \cup (IF cached THEN {} ELSE {"prices"})
                \cup (IF again \/ "snapshot" \in fresh THEN {"loan"} ELSE {})
  /\ \/ UNCHANGED <<pc, loan>>
     \/ /\ pc' = "approve" /\ cur' = l
        /\ ask' = IF again THEN bond[l] ELSE seen[l]
  /\ UNCHANGED <<env, chain, killed, todo, pool, seen, again, answers, zero, budget>>

PickFails ==
  /\ pc = "pick" /\ left # {} /\ (again \/ ~cached) /\ ~answers
  /\ LeavePool
  /\ UNCHANGED <<env, chain, killed, loan, zero, budget>>

PassEnds ==
  /\ pc = "pick" /\ left = {}
  /\ IF pool \in env.dry
       THEN LeavePool
       ELSE pc' = "clear" /\ UNCHANGED <<where, reads>>
  /\ UNCHANGED <<env, chain, killed, loan, zero, budget>>

-----------------------------------------------------------------------------
\* kick: the same for both kinds of pool.

\* A mutant of Return: the loans after a kick are taken from the snapshot.
ReturnStale ==
  /\ cur' = NoLoan /\ ask' = 0
  /\ IF pool \in env.manual
       THEN pc' = "pick" /\ cached' = FALSE /\ again' = again /\ here' = here
       ELSE pc' = "decide" /\ here' = TRUE /\ UNCHANGED <<cached, again>>
  /\ UNCHANGED <<where, seen, answers, hydrated, base, reserved, total, kickedIn>>

\* Back in the generator, which drops its prices, or in the discovered cycle,
\* which counts the loan as kicked.
Return ==
  /\ cur' = NoLoan /\ ask' = 0
  /\ IF pool \in env.manual
       THEN pc' = "pick" /\ cached' = FALSE /\ again' = TRUE /\ here' = here
       ELSE pc' = "decide" /\ here' = TRUE /\ UNCHANGED <<cached, again>>
  /\ UNCHANGED <<where, seen, answers, hydrated, base, reserved, total, kickedIn>>

\* A dry run, a balance below the bond, or a failed read.
GiveUp ==
  /\ pc = "approve"
  /\ Return
  /\ UNCHANGED <<env, chain, killed, fresh, zero>>

\* The allowance, read now, covers the bond or an approval is sent.
Approve ==
  /\ pc = "approve" /\ pool \notin env.dry
  /\ pc' = IF allowance[pool] >= ask THEN "submit" ELSE "approving"
  /\ UNCHANGED <<env, chain, killed, where, loan, reads, zero, budget>>

\* estimatedRemainingBond, or the bond alone when the balance is short of it.
\* The discovered cycle passes the bond for both.  The margin of one percent is
\* less than a unit.
Remaining == MapThenSumSet(LAMBDA l : seen[l], left)

Amounts == {ask, IF pool \in env.manual THEN ask + Remaining ELSE ask} \cap Nat

Approved ==
  /\ pc = "approving" /\ flying = {}
  /\ \E n \in Amounts : allowance' = [allowance EXCEPT ![pool] = n]
  /\ zero' = [zero EXCEPT ![pool] = 0]
  /\ pc' = "submit"
  /\ UNCHANGED <<env, bond, stake, locked, flying, killed, where, loan, reads, budget>>

ApproveFails ==
  /\ pc = "approving"
  /\ \/ UNCHANGED flying
     \/ /\ env.loses /\ flying = {}
        /\ \E n \in Amounts : flying' = {Approval(pool, n)}
  /\ Return
  /\ UNCHANGED <<env, bond, stake, locked, allowance, killed, fresh, zero>>

\* The pool takes the bond, as much of it as the keeper's claimable bonds do not
\* cover from the allowance.
Post(l) ==
  /\ stake[l] = 0
  /\ \E paid \in 0 .. bond[l] :
       /\ paid <= allowance[PoolOf[l]]
       /\ allowance' = [allowance EXCEPT ![PoolOf[l]] = @ - paid]
  /\ stake' = [stake EXCEPT ![l] = bond[l]]
  /\ locked' = [locked EXCEPT ![PoolOf[l]] = @ + bond[l]]

Kick ==
  /\ pc = "submit" /\ flying = {}
  /\ Post(cur)
  /\ fresh' = {}
  /\ Return
  /\ UNCHANGED <<env, bond, flying, killed, zero>>

KickFails ==
  /\ pc = "submit"
  /\ \/ UNCHANGED flying
     \/ env.loses /\ flying = {} /\ flying' = {Kicking(cur)}
  /\ fresh' = {}
  /\ Return
  /\ UNCHANGED <<env, bond, stake, locked, allowance, killed, zero>>

-----------------------------------------------------------------------------
\* clearAllowances.

\* A mutant of Clear: the count of cycles stands still.
ClearForGood ==
  /\ pc = "clear"
  /\ IF zero[pool] = 0 /\ allowance[pool] > 0
       THEN pc' = "clearing" /\ UNCHANGED <<where, reads, zero>>
       ELSE zero' = [zero EXCEPT ![pool] = ZeroCycles] /\ LeavePool
  /\ UNCHANGED <<env, chain, killed, loan, budget>>

\* The read, which the cache of a known zero saves for some cycles.
Clear ==
  /\ pc = "clear"
  /\ IF zero[pool] = 0 /\ allowance[pool] > 0
       THEN pc' = "clearing" /\ UNCHANGED <<where, reads, zero>>
       ELSE /\ zero' = [zero EXCEPT ![pool] = IF @ > 0 THEN @ - 1 ELSE ZeroCycles]
            /\ LeavePool
  /\ UNCHANGED <<env, chain, killed, loan, budget>>

ClearThrows ==
  /\ pc = "clear" /\ zero[pool] = 0 /\ ~answers
  /\ LeavePool
  /\ UNCHANGED <<env, chain, killed, loan, zero, budget>>

Cleared ==
  /\ pc = "clearing" /\ flying = {}
  /\ allowance' = [allowance EXCEPT ![pool] = 0]
  /\ zero' = [zero EXCEPT ![pool] = ZeroCycles]
  /\ LeavePool
  /\ UNCHANGED <<env, bond, stake, locked, flying, killed, loan, budget>>

ClearFails ==
  /\ pc = "clearing"
  /\ \/ UNCHANGED flying
     \/ env.loses /\ flying = {} /\ flying' = {Approval(pool, 0)}
  /\ LeavePool
  /\ UNCHANGED <<env, bond, stake, locked, allowance, killed, loan, zero, budget>>

-----------------------------------------------------------------------------
\* The discovered cycle.

ForgetCycle ==
  /\ todo' = {} /\ pool' = NoPool /\ left' = {}
  /\ seen' = Unread /\ cached' = FALSE /\ again' = FALSE /\ answers' = FALSE
  /\ fresh' = {}
  /\ hydrated' = {} /\ base' = None /\ reserved' = None /\ total' = 0
  /\ kickedIn' = 0 /\ here' = FALSE

\* The kickable loans of the chain, by pool.  A pool without any is left out by
\* Hydrate, and a loan that is not among them by Decide, like what they skip.
Source ==
  /\ pc = "manual" /\ todo = {}
  /\ pc' = "hydrate" /\ todo' = Pools
  /\ UNCHANGED <<env, chain, killed, pool, left, loan, reads, zero, budget>>

\* hydratePool: prices and kickerInfo.locked, for a pool no configuration names
\* and that loads.
Hydrate(p) ==
  /\ pc = "hydrate" /\ p \in todo
  /\ todo' = todo \ {p}
  /\ \/ UNCHANGED <<hydrated, base>>
     \/ /\ p \in Discovered
        /\ hydrated' = hydrated \cup {p}
        /\ base' = [base EXCEPT ![p] = locked[p]]
  /\ UNCHANGED <<env, chain, killed, pc, pool, left, loan, reads, zero,
                 reserved, total, kickedIn, here>>

Hydrated ==
  /\ pc = "hydrate" /\ todo = {}
  /\ pc' = "pools"
  /\ UNCHANGED <<env, chain, killed, where, loan, reads, zero, budget>>

\* hydrateLoans: the loans of one pool, in one read.
HydrateLoans(p) ==
  /\ pc = "pools" /\ p \in hydrated /\ kickedIn < env.maxPools
  /\ hydrated' = hydrated \ {p}
  /\ pc' = "decide" /\ pool' = p
  /\ left' = LoansOf(p)
  /\ seen' = [l \in Loans |-> IF PoolOf[l] = p THEN bond[l] ELSE 0]
  /\ UNCHANGED <<env, chain, killed, todo, loan, cached, again, answers, fresh, zero,
                 base, reserved, total, kickedIn, here>>

\* A mutant of Fits: what this cycle reserved in the pool is forgotten.
FitsForgetful(p, b) ==
  /\ base[p] + b <= env.poolCap
  /\ total + b <= env.totalCap

\* BondBudget.tryReserve.
Fits(p, b) ==
  /\ base[p] + reserved[p] + b <= env.poolCap
  /\ total + b <= env.totalCap

\* evaluateKickCandidate: the budget is charged last, by a loan the gates pass.
Decide(l) ==
  /\ pc = "decide" /\ l \in left
  /\ left' = left \ {l}
  /\ \/ UNCHANGED <<pc, loan, reserved, total>>
     \/ /\ Fits(pool, seen[l])
        /\ reserved' = [reserved EXCEPT ![pool] = @ + seen[l]]
        /\ total' = total + seen[l]
        /\ pc' = "approve" /\ cur' = l /\ ask' = seen[l]
  /\ UNCHANGED <<env, chain, killed, todo, pool, reads, zero, hydrated, base, kickedIn, here>>

PoolDone ==
  /\ pc = "decide" /\ left = {}
  /\ pc' = "pools" /\ pool' = NoPool /\ seen' = Unread
  /\ kickedIn' = IF here THEN kickedIn + 1 ELSE kickedIn
  /\ here' = FALSE
  /\ UNCHANGED <<env, chain, killed, todo, left, loan, cached, again, answers, fresh, zero,
                 hydrated, base, reserved, total>>

\* The cycle is over, throttled, off, or a read of it threw.
Rest ==
  /\ \/ pc = "manual" /\ todo = {}
     \/ pc = "hydrate" /\ todo # {}
     \/ pc = "pools"
  /\ pc' = "idle"
  /\ ForgetCycle
  /\ UNCHANGED <<env, chain, killed, loan, zero>>

-----------------------------------------------------------------------------
\* The chain and the process.

\* A transaction without an answer is mined, or never is.
Land ==
  /\ \E tx \in flying :
       \/ tx.kind = "kick" /\ Post(tx.loan)
       \/ /\ tx.kind = "approve"
          /\ allowance' = [allowance EXCEPT ![tx.pool] = tx.amount]
          /\ UNCHANGED <<stake, locked>>
  /\ flying' = {}
  /\ UNCHANGED <<env, bond, killed, pc, where, loan, reads, zero, budget>>

Drop ==
  /\ flying # {} /\ flying' = {}
  /\ UNCHANGED <<env, bond, stake, locked, allowance, killed, pc, where, loan, reads,
                 zero, budget>>

\* An auction ends and its bond is claimable again.
End(l) ==
  /\ stake[l] > 0
  /\ stake' = [stake EXCEPT ![l] = 0]
  /\ locked' = [locked EXCEPT ![PoolOf[l]] = @ - stake[l]]
  /\ UNCHANGED <<env, bond, allowance, flying, killed, pc, where, loan, reads, zero, budget>>

\* A borrower draws or repays debt.
Move(l) ==
  /\ env.moves /\ stake[l] = 0
  /\ \E b \in Bonds \ {bond[l]} : bond' = [bond EXCEPT ![l] = b]
  /\ UNCHANGED <<env, stake, locked, allowance, flying, killed, pc, where, loan, reads,
                 zero, budget>>

\* The process is killed, perhaps with a transaction out, and starts again.
Crash ==
  /\ env.kills /\ ~killed /\ pc # "idle"
  /\ killed' = TRUE /\ pc' = "idle"
  /\ \/ UNCHANGED flying
     \/ /\ flying = {}
        /\ \/ pc = "approving" /\ \E n \in Amounts : flying' = {Approval(pool, n)}
           \/ pc = "clearing" /\ flying' = {Approval(pool, 0)}
           \/ pc = "submit" /\ flying' = {Kicking(cur)}
  /\ cur' = NoLoan /\ ask' = 0
  /\ zero' = None
  /\ ForgetCycle
  /\ UNCHANGED <<env, bond, stake, locked, allowance>>

-----------------------------------------------------------------------------
Keeper ==
  \/ Begin \/ PickFails \/ PassEnds
  \/ \E p \in Pools :
       PassLoans(p) \/ PassFails(p) \/ PassPriceless(p) \/ Hydrate(p) \/ HydrateLoans(p)
  \/ \E l \in Loans : Pick(l) \/ Decide(l)
  \/ GiveUp \/ Approve \/ Approved \/ ApproveFails \/ Kick \/ KickFails
  \/ Clear \/ ClearThrows \/ Cleared \/ ClearFails
  \/ Source \/ Hydrated \/ PoolDone \/ Rest

Chain ==
  \/ Land \/ Drop \/ Crash
  \/ \E l \in Loans : End(l) \/ Move(l)

Next == Keeper \/ Chain

(***************************************************************************)
(* Every await of the loop settles and the loop is always run again        *)
(* (runResilientLoop); a transaction without an answer is mined or not in  *)
(* the end, now and then while the next one, which has to wait for it, is  *)
(* still awaited; and what fails does not fail for ever: now and then all  *)
(* the reads of a pass are answered, and an allowance that is cleared is.  *)
(***************************************************************************)
Fairness ==
  /\ WF_vars(Keeper) /\ WF_vars(Land \/ Drop)
  /\ SF_vars(\E p \in Pools : (PassLoans(p) \/ PassPriceless(p)) /\ answers')
  /\ SF_vars(pc = "clearing" /\ (Land \/ Drop))
  /\ SF_vars(Cleared)

Spec == Init /\ [][Next]_vars /\ Fairness

-----------------------------------------------------------------------------
\* In a pass over a manual pool, no loan is acted on with prices or terms read
\* before the last kick of the pass: the first kick moves both (getLoansToKick's
\* cachedPoolPrices and kickedThisPass).
KicksOnFreshTerms ==
  pc = "approve" /\ pool \in env.manual => {"prices", "loan"} \subseteq fresh

\* While the cache says that a pool's allowance is zero it is, unless an
\* approval was sent whose answer never came (zeroAllowanceCache).
CachedZeroIsZero ==
  ~env.loses /\ ~env.kills => \A p \in Pools : zero[p] > 0 => allowance[p] = 0

\* While no answer is lost and the terms of a loan stay what they were, a kick
\* in a discovered pool never takes the keeper's locked bond there above the
\* pool's cap, whatever was locked, kicked, failed or settled before it
\* (BondBudget, whose reservations and baseline are kept apart).
Calm == ~env.loses /\ ~env.moves /\ ~env.kills

KicksWithinPoolCap ==
  [][Calm => \A p \in Discovered : locked'[p] > locked[p] => locked'[p] <= env.poolCap]_vars

\* The quote allowance a manual pool was given is always taken back, through
\* failed passes, lost answers, the cycles that trust the cached zero, and a
\* restart (clearAllowances).
AllowanceTakenBack ==
  \A p \in Pools : []<>(p \in env.manual \ env.dry => allowance[p] = 0)

\* What the configuration says of maxTotalBondExposure: it caps the bond at risk
\* in all discovered pools together.
TotalCapHolds ==
  Calm => MapThenSumSet(LAMBDA p : locked[p], Discovered) <= env.totalCap
=============================================================================
