--------------------------- MODULE SerialExecutor ---------------------------
(***************************************************************************)
(* What NonceTracker.queueTransaction promises its callers (the comment on *)
(* the method, src/src/nonce.ts): the transactions of one address run one  *)
(* at a time, each waiting for those submitted before it, and an address   *)
(* never waits for another one.                                            *)
(*                                                                         *)
(* A call draws a ticket when it is submitted and runs when its ticket is  *)
(* the one being served.  Nothing here says how the waiting is done: that  *)
(* is TxQueue, which implements this specification.                        *)
(***************************************************************************)
EXTENDS Naturals

CONSTANTS
  Task,      \* the calls of queueTransaction, each one made at most once
  Address,   \* the wallet addresses they submit from
  AddressOf  \* the address of the signer of each call

VARIABLES
  phase,     \* phase[t]: "new", "waiting", "running" or "done"
  ticket,    \* ticket[t]: the turn the call drew when it was submitted
  issued,    \* issued[a]: the tickets drawn so far at address a
  served     \* served[a]: the calls of address a that are over

vars == <<phase, ticket, issued, served>>

Init ==
  /\ phase = [t \in Task |-> "new"]
  /\ ticket = [t \in Task |-> 0]
  /\ issued = [a \in Address |-> 0]
  /\ served = [a \in Address |-> 0]

Submit(t) ==
  /\ phase[t] = "new"
  /\ phase' = [phase EXCEPT ![t] = "waiting"]
  /\ ticket' = [ticket EXCEPT ![t] = issued[AddressOf[t]]]
  /\ issued' = [issued EXCEPT ![AddressOf[t]] = @ + 1]
  /\ UNCHANGED served

Begin(t) ==
  /\ phase[t] = "waiting"
  /\ ticket[t] = served[AddressOf[t]]
  /\ phase' = [phase EXCEPT ![t] = "running"]
  /\ UNCHANGED <<ticket, issued, served>>

Finish(t) ==
  /\ phase[t] = "running"
  /\ phase' = [phase EXCEPT ![t] = "done"]
  /\ served' = [served EXCEPT ![AddressOf[t]] = @ + 1]
  /\ UNCHANGED <<ticket, issued>>

Next == \E t \in Task : Submit(t) \/ Begin(t) \/ Finish(t)

Spec == Init /\ [][Next]_vars
=============================================================================
