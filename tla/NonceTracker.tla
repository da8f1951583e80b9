---------------------------- MODULE NonceTracker ----------------------------
(***************************************************************************)
(* How the keeper numbers the transactions of its wallet                   *)
(* (src/src/nonce.ts) over the ways it submits them: the wallet's public   *)
(* provider (src/src/transactions.ts, erc20.ts, dex/) and the take-write   *)
(* transports (src/src/take/write-transport.ts).                           *)
(*                                                                         *)
(* One address, and one queue turn at a time: TxQueue shows that the       *)
(* transactions of an address exclude each other.  A turn takes a nonce    *)
(* (getNonce), hands it to a transaction function, and on an error asks    *)
(* the network what became of it.  The errors are of two kinds: "the nonce *)
(* is consumed" (the transport knows the transaction was accepted, or may  *)
(* have been) and all others, where only the pending count can tell.       *)
(*                                                                         *)
(* What the keeper cannot see is part of the model: the transactions that  *)
(* are live, visible (pub) or known to a private relay alone (priv), the   *)
(* miner, and a kill -9 at any point.  The durable floor is the record in  *)
(* the state file that survives it.                                        *)
(***************************************************************************)
EXTENDS Integers, FiniteSets

CONSTANTS
  Scenario,   \* the environments considered, see ScenarioType
  MaxNonce,   \* bound: no turn starts beyond this nonce
  None        \* undefined

\* The ways to submit.  "wallet": the signer, waiting for a receipt without a
\* limit.  "swap": the Curve and Universal Router swaps, which give up waiting
\* with an ordinary error.  The others are the take-write transport modes.
Channels == {"wallet", "swap", "public", "private", "relay"}
Visible == {"wallet", "swap", "public"}

Lookups == {"resolve", "consumed", "failed"}
Places == {"idle", "send", "mark", "wait"} \cup Lookups

ScenarioType ==
  [channels : SUBSET Channels,        \* the ways to submit that are in use
   readsFail : BOOLEAN,               \* no reader may answer a pending lookup
   lossy : BOOLEAN,                   \* an accepting node's answer may be lost
   fileFails : BOOLEAN,               \* the state file may not be readable,
                                      \* lockable or writable
   auxSees : BOOLEAN,                 \* the private endpoint counts its own
   drops : BOOLEAN,                   \* a relay may give a transaction up
   expiry : {"none", "dead", "early"},\* floors never expire; expire once what
                                      \* they cover is dead; or while it lives
   crash : SUBSET Places]             \* where the process may be killed

FloorType == [next : Nat, expired : BOOLEAN]

ASSUME NonceAssumption ==
  /\ Scenario \subseteq ScenarioType
  /\ MaxNonce \in Nat
  /\ None \notin Int /\ None \notin FloorType

VARIABLES
  env,      \* the scenario, fixed at the start
  pc,       \* where the current turn stands
  chan,     \* how the current turn submits
  nonce,    \* the nonce it was given
  doubt,    \* its transaction's fate is not an orderly wait: after the floor
            \* is written the turn ends as nonce-consumed
  seen,     \* the highest pending count its readers answered, None before
  stored,   \* this.nonces.get(address), None if undefined
  floor,    \* the durable floor of the address, None or [next, expired]
  mined,    \* the account's next nonce on chain
  pub,      \* nonces of live transactions in the public mempool
  priv      \* nonces of live transactions only a private endpoint knows

turn == <<pc, chan, nonce, doubt, seen>>
chain == <<mined, pub, priv>>
vars == <<env, turn, stored, floor, chain>>

Nonces == 0 .. MaxNonce

TypeOK ==
  /\ env \in Scenario
  /\ pc \in Places
  /\ chan \in Channels
  /\ nonce \in Nat
  /\ doubt \in BOOLEAN
  /\ seen \in Nat \cup {None}
  /\ stored \in Nat \cup {None}
  /\ floor \in FloorType \cup {None}
  /\ mined \in Nat
  /\ pub \subseteq Nat
  /\ priv \subseteq Nat

Init ==
  /\ env \in Scenario
  /\ pc = "idle" /\ chan = "wallet" /\ nonce = 0 /\ doubt = FALSE
  /\ seen = None
  /\ stored = None
  /\ floor = None
  /\ mined = 0 /\ pub = {} /\ priv = {}

Larger(m, n) == IF m >= n THEN m ELSE n

-----------------------------------------------------------------------------
(***************************************************************************)
(* Taking a nonce                                                          *)
(***************************************************************************)

\* The bound on the model: no lookup of a turn can answer more than MaxNonce.
WithinBound ==
  /\ stored # None => stored <= MaxNonce
  /\ floor # None => floor.next <= MaxNonce
  /\ mined <= MaxNonce
  /\ MaxNonce \notin pub \cup priv

\* A turn starts: getNonce uses the stored nonce, or asks the network for it.
BeginTurn(c) ==
  /\ pc = "idle"
  /\ c \in env.channels
  /\ WithinBound
  /\ chan' = c
  /\ doubt' = FALSE
  /\ seen' = None
  /\ IF stored = None
     THEN /\ pc' = "resolve"
          /\ UNCHANGED <<nonce, stored>>
     ELSE /\ pc' = "send"
          /\ nonce' = stored
          /\ stored' = stored + 1
  /\ UNCHANGED <<env, floor, chain>>

\* The pending count of a node that knows the transactions in live: the first
\* nonce from the chain's on that none of them uses.
IsPendingCount(p, live) ==
  /\ p >= mined
  /\ p \notin live
  /\ \A k \in mined .. (p - 1) : k \in live

\* What getPendingNonce may find as the largest answer of its readers: the
\* public provider's, or that of the private endpoint if it counts its own
\* and (unless readers may fail) is heard.
IsAnswer(p) ==
  \/ /\ env.auxSees /\ "private" \in env.channels
     /\ IsPendingCount(p, pub \cup priv)
  \/ /\ env.auxSees /\ "private" \in env.channels => env.readsFail
     /\ IsPendingCount(p, pub)

Observe ==
  /\ pc \in Lookups
  /\ seen = None
  /\ \E p \in 0 .. (MaxNonce + 1) : IsAnswer(p) /\ seen' = p
  /\ UNCHANGED <<env, pc, chan, nonce, doubt, stored, floor, chain>>

\* Where a lookup's answer r goes: getNonce takes it and counts on,
\* reconcileConsumedNonce never goes back, handleFailedNonce takes it as it is.
Deliver(r) ==
  CASE pc = "resolve" ->
         /\ pc' = "send"
         /\ nonce' = r
         /\ stored' = r + 1
    [] pc = "consumed" ->
         /\ pc' = "idle"
         /\ stored' = Larger(Larger(stored, nonce + 1), r)
         /\ UNCHANGED nonce
    [] pc = "failed" ->
         /\ pc' = "idle"
         /\ stored' = r
         /\ UNCHANGED nonce

\* Mutant: a floor the network is behind of is dropped, not applied.
ApplyNoFloor ==
  /\ pc \in Lookups
  /\ seen # None
  /\ floor' = None
  /\ Deliver(seen)
  /\ UNCHANGED <<env, chan, doubt, seen, chain>>

\* applyDurableNonceFloor: the network has caught up, or the floor is expired,
\* and it is cleared; otherwise it overrules the pending count.
ApplyFloor ==
  /\ pc \in Lookups
  /\ seen # None
  /\ IF floor = None \/ floor.next <= seen \/ floor.expired
     THEN floor' = None /\ Deliver(seen)
     ELSE floor' = floor /\ Deliver(floor.next)
  /\ UNCHANGED <<env, chan, doubt, seen, chain>>

\* The block height of an expired floor cannot be read, or the floor cannot be
\* cleared: it stays and overrules the pending count.
KeepExpiredFloor ==
  /\ env.readsFail \/ env.fileFails
  /\ pc \in Lookups
  /\ seen # None
  /\ floor # None
  /\ floor.expired /\ seen < floor.next
  /\ Deliver(floor.next)
  /\ UNCHANGED <<env, chan, doubt, seen, floor, chain>>

\* No reader answers; or one does, and the floor cannot be read, or not cleared,
\* where a clear that fails may have reached the record or not.  The turn is
\* over; what is stored stays, incremented as it is.
LookupFails ==
  /\ pc \in Lookups
  /\ \/ env.readsFail /\ floor' = floor
     \/ env.fileFails /\ seen # None /\ floor' \in {floor, None}
  /\ pc' = "idle"
  /\ stored' = IF pc = "consumed" THEN Larger(stored, nonce + 1) ELSE stored
  /\ UNCHANGED <<env, chan, nonce, doubt, seen, chain>>

-----------------------------------------------------------------------------
(***************************************************************************)
(* The transaction function                                                *)
(***************************************************************************)

Accept ==
  /\ nonce >= mined
  /\ IF chan \in Visible
     THEN pub' = pub \cup {nonce} /\ priv' = priv
     ELSE priv' = priv \cup {nonce} /\ pub' = pub
  /\ mined' = mined

\* Mutant: the error is passed on without handleFailedNonce.
SendRefusedUnhandled ==
  /\ pc = "send"
  /\ pc' = "idle"
  /\ UNCHANGED <<env, chan, nonce, doubt, seen, stored, floor, chain>>

\* An ordinary error before anything was accepted: gas estimation, a node that
\* refuses, a relay that answers with an explicit error.
SendRefused ==
  /\ pc = "send"
  /\ pc' = "failed"
  /\ seen' = None
  /\ UNCHANGED <<env, chan, nonce, doubt, stored, floor, chain>>

\* Accepted, and the keeper is told so.  A relay submission is first recorded.
SendAccepted ==
  /\ pc = "send"
  /\ Accept
  /\ pc' = IF chan = "relay" THEN "mark" ELSE "wait"
  /\ UNCHANGED <<env, chan, nonce, doubt, seen, stored, floor>>

\* Accepted, but the answer is lost.  A relay's silence counts as consumed; a
\* node's is an ordinary error.
SendLost ==
  /\ env.lossy
  /\ pc = "send"
  /\ Accept
  /\ pc' = IF chan = "relay" THEN "mark" ELSE "failed"
  /\ doubt' = TRUE
  /\ seen' = None
  /\ UNCHANGED <<env, chan, nonce, stored, floor>>

\* The relay never got it, and its silence counts as consumed all the same.
RelayVanishes ==
  /\ env.lossy
  /\ pc = "send"
  /\ chan = "relay"
  /\ pc' = "mark"
  /\ doubt' = TRUE
  /\ UNCHANGED <<env, chan, nonce, seen, stored, floor, chain>>

\* upsertDurableNonceFloor: a larger floor is kept as it is.
Raised(f, n) ==
  IF f # None /\ f.next > n THEN f ELSE [next |-> n, expired |-> FALSE]

\* markDurableNonceFloor; an accepted relay submission goes on to its receipt.
MarkFloor ==
  /\ pc = "mark"
  /\ floor' = Raised(floor, nonce + 1)
  /\ pc' = IF doubt THEN "consumed" ELSE "wait"
  /\ seen' = None
  /\ UNCHANGED <<env, chan, nonce, doubt, stored, chain>>

\* The record is not made, as far as the keeper knows.
MarkFails ==
  /\ env.fileFails
  /\ pc = "mark"
  /\ floor' \in {floor, Raised(floor, nonce + 1)}
  /\ pc' = "consumed"
  /\ seen' = None
  /\ UNCHANGED <<env, chan, nonce, doubt, stored, chain>>

\* The receipt comes and the turn is over.
Confirmed ==
  /\ pc = "wait"
  /\ nonce < mined
  /\ pc' = "idle"
  /\ UNCHANGED <<env, chan, nonce, doubt, seen, stored, floor, chain>>

\* Mutant: the wait for a receipt has no time limit on any channel.
WaitFailsOnReceipt ==
  /\ pc = "wait"
  /\ nonce < mined
  /\ pc' = CASE chan \in {"wallet", "swap"} -> "failed"
             [] chan \in {"public", "relay"} -> "consumed"
             [] chan = "private" -> "mark"
  /\ doubt' = TRUE
  /\ seen' = None
  /\ UNCHANGED <<env, chan, nonce, stored, floor, chain>>

\* No good receipt: the transaction reverted or was replaced, or, except for
\* the wallet's own transactions, it was waited for too long.  The transports
\* know that the nonce is gone; a private one writes the floor only now.
WaitFails ==
  /\ pc = "wait"
  /\ chan = "wallet" => nonce < mined
  /\ pc' = CASE chan \in {"wallet", "swap"} -> "failed"
             [] chan \in {"public", "relay"} -> "consumed"
             [] chan = "private" -> "mark"
  /\ doubt' = TRUE
  /\ seen' = None
  /\ UNCHANGED <<env, chan, nonce, stored, floor, chain>>

-----------------------------------------------------------------------------
(***************************************************************************)
(* Everything else                                                         *)
(***************************************************************************)

\* The account's next transaction is included.
Mine ==
  /\ mined \in pub \cup priv
  /\ mined' = mined + 1
  /\ pub' = pub \ {mined}
  /\ priv' = priv \ {mined}
  /\ UNCHANGED <<env, turn, stored, floor>>

\* A relay gives a transaction up.
DropPrivate(n) ==
  /\ env.drops
  /\ n \in priv
  /\ priv' = priv \ {n}
  /\ UNCHANGED <<env, turn, stored, floor, mined, pub>>

\* The floor's deadline passes.  Where the relay honours it (maxBlockNumber),
\* nothing the floor covers is live by then.
FloorExpires ==
  /\ floor # None
  /\ ~floor.expired
  /\ env.expiry # "none"
  /\ env.expiry = "dead" => \A k \in priv : k >= floor.next
  /\ floor' = [floor EXCEPT !.expired = TRUE]
  /\ UNCHANGED <<env, turn, stored, chain>>

\* The process is killed and started again: the map of nonces is empty.
Crash ==
  /\ pc \in env.crash
  /\ pc' = "idle"
  /\ stored' = None
  /\ UNCHANGED <<env, chan, nonce, doubt, seen, floor, chain>>

Transact ==
  \/ SendRefused \/ SendAccepted \/ SendLost \/ RelayVanishes
  \/ MarkFloor \/ MarkFails
  \/ Confirmed \/ WaitFails

Lookup == Observe \/ ApplyFloor \/ KeepExpiredFloor \/ LookupFails

Next ==
  \/ \E c \in Channels : BeginTurn(c)
  \/ Lookup
  \/ Transact
  \/ Mine
  \/ \E n \in Nonces : DropPrivate(n)
  \/ FloorExpires
  \/ Crash

Spec == Init /\ [][Next]_vars

(***************************************************************************)
(* Turns are taken for as long as there is work, lookups answer, sends     *)
(* return, receipts are polled, and the next transaction of the account is *)
(* included in the end.                                                    *)
(***************************************************************************)
Fairness ==
  /\ WF_vars(\E c \in Channels : BeginTurn(c))
  /\ WF_vars(Lookup)
  /\ WF_vars(Transact)
  /\ WF_vars(Mine)

FairSpec == Spec /\ Fairness

-----------------------------------------------------------------------------
(***************************************************************************)
(* Properties                                                              *)
(***************************************************************************)

(***************************************************************************)
(* Two kinds of environments in which the tracker keeps nonces apart.  In  *)
(* the first the readers always answer and count every live transaction;   *)
(* in the second they see none of the keeper's and the durable floor has   *)
(* to do it.  In both the state file works: every lookup consults it, and  *)
(* one that fails after a refused send leaves a hole.  Outside them nonces *)
(* are reused or skipped, see the runs that expect a violation.            *)
(***************************************************************************)
Counted(e) ==
  /\ "relay" \notin e.channels
  /\ ~e.readsFail /\ ~e.fileFails
  /\ "private" \in e.channels => e.auxSees /\ ~e.drops

Floored(e) ==
  /\ e.channels \subseteq {"relay", "private"}
  /\ ~e.fileFails
  /\ e.expiry # "early"
  /\ "mark" \notin e.crash
  /\ "private" \in e.channels => ~e.auxSees /\ ~e.lossy /\ "wait" \notin e.crash

Guaranteed(e) == Counted(e) \/ Floored(e)

\* A transaction about to be sent never has the nonce of one that is still
\* live: nothing the keeper submitted is replaced, through errors, lost
\* answers, timeouts and restarts.  (A kill while a floor is about to be written
\* and a floor that expires early are outside Floored.)
FreshNonce ==
  Guaranteed(env) /\ pc = "send" => nonce \notin pub \cup priv

\* Where the readers count every live transaction no nonce is ever skipped:
\* each number below the next one is used, or its transaction is live, so
\* nothing waits behind a hole.
NoHole ==
  Counted(env) /\ pc = "idle" /\ stored # None =>
    \A k \in mined .. (stored - 1) : k \in pub \cup priv

\* The nonce just accepted whose floor is not written yet: a relay's until the
\* record is made, a private node's for as long as its receipt is awaited.
InFlight(k) ==
  k = nonce /\ (pc = "mark" \/ (pc = "wait" /\ chan = "private"))

\* Where the readers see nothing the state file covers every live transaction
\* but the one in flight, so a restart cannot lose sight of it.
FloorCovers ==
  Floored(env) =>
    \A k \in priv :
      InFlight(k) \/ (floor # None /\ ~floor.expired /\ k < floor.next)

\* A turn ends: no lost answer, timeout or restart leaves the queue of the
\* wallet blocked.
TurnEnds == Guaranteed(env) /\ pc # "idle" ~> pc = "idle"

\* What the comment on queueTransaction says of the check after an error
\* (nonce.ts): it "prevents nonce reuse when a tx times out after being sent
\* to the mempool".
NoReuseAfterTimeout == pc = "send" => nonce \notin pub

\* What handleFailedNonce says of a nonce it skips when no reader answers: it
\* "is recoverable (next cycle resyncs)".  A hole at the account's next nonce
\* is filled or taken back, unless the bound stops the model first.
Hole == pc = "idle" /\ stored # None /\ mined < stored /\ mined \notin pub \cup priv

SkippedNonceRecovers ==
  Hole ~> \/ stored = None
          \/ stored <= mined
          \/ mined \in pub \cup priv
          \/ ~WithinBound

-----------------------------------------------------------------------------
(***************************************************************************)
(* The inductive invariant                                                 *)
(***************************************************************************)

\* Within a turn the stored nonce is the one after the turn's.
InTurn ==
  /\ pc # "idle" => chan \in env.channels
  /\ pc \notin {"idle", "resolve"} => stored = nonce + 1

\* The live transactions are those from mined up to p: p is the pending count,
\* what is stored between turns, and the nonce that is sent.
Tip(p) ==
  /\ p >= mined
  /\ pub \cup priv = mined .. (p - 1)
  /\ "private" \notin env.channels => priv = {}
  /\ pc \in Lookups /\ seen # None => seen = p
  /\ pc = "idle" /\ stored # None => stored = p
  /\ pc = "send" => nonce = p
  /\ pc \in {"mark", "wait", "consumed"} => nonce + 1 = p
  /\ floor # None => floor.next <= p

CountedInv ==
  Counted(env) => \E p \in {mined} \cup {k + 1 : k \in pub \cup priv} : Tip(p)

\* The readers are behind, the floor and the stored nonce are ahead of every
\* live transaction, and the stored nonce is not behind the floor.
FlooredInv ==
  Floored(env) =>
    /\ pub = {}
    /\ \A k \in priv : k >= mined
    /\ stored # None => \A k \in priv : k < stored
    /\ pc = "send" => \A k \in priv : k < nonce
    /\ floor # None /\ stored # None => floor.next <= stored
    /\ floor # None /\ pc = "send" => floor.next <= nonce
    /\ pc \in Lookups /\ seen # None => seen <= mined

IInv == TypeOK /\ InTurn /\ CountedInv /\ FlooredInv /\ FloorCovers
=============================================================================
