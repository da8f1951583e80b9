------------------------------ MODULE TxQueue ------------------------------
(***************************************************************************)
(* The per-address transaction queue of the NonceTracker singleton         *)
(* (src/src/nonce.ts, queueTransaction).                                   *)
(*                                                                         *)
(* The code keeps no list of waiting calls.  this.queues maps an address   *)
(* to the promise of the call that came last; a new call closes over that  *)
(* promise, replaces it by its own, and runs when the one it closed over   *)
(* is settled.  When a call's promise is settled a callback deletes the    *)
(* map entry if, and only if, it still is that promise: the deletion and   *)
(* the start of the next call are two microtasks, and other calls may be   *)
(* submitted around them.                                                  *)
(*                                                                         *)
(* ticket, issued and served are history variables: they count calls for   *)
(* the refinement of SerialExecutor and guard nothing.                     *)
(***************************************************************************)
EXTENDS Naturals

CONSTANTS
  Task,        \* the calls of queueTransaction, each one made at most once
  Address,     \* the wallet addresses they submit from
  AddressOf,   \* the address of the signer of each call
  NoTask       \* Promise.resolve(): no earlier call to wait for

ASSUME QueueAssumption ==
  /\ NoTask \notin Task
  /\ AddressOf \in [Task -> Address]

VARIABLES
  queues,      \* this.queues: the last call of each address, or NoTask
  previous,    \* the promise each call closed over when it was submitted
  state,       \* where each call stands
  ticket, issued, served

queueVars == <<queues, previous, state, ticket, issued, served>>
history == <<ticket, issued, served>>

States == {"new", "queued", "running", "settled", "released"}

QueueTypeOK ==
  /\ queues \in [Address -> Task \cup {NoTask}]
  /\ previous \in [Task -> Task \cup {NoTask}]
  /\ state \in [Task -> States]
  /\ ticket \in [Task -> Nat]
  /\ issued \in [Address -> Nat]
  /\ served \in [Address -> Nat]

QueueInit ==
  /\ queues = [a \in Address |-> NoTask]
  /\ previous = [t \in Task |-> NoTask]
  /\ state = [t \in Task |-> "new"]
  /\ ticket = [t \in Task |-> 0]
  /\ issued = [a \in Address |-> 0]
  /\ served = [a \in Address |-> 0]

Settled(t) == state[t] \in {"settled", "released"}

\* Mutant: one queue for all addresses.
EnqueueGlobally(t) ==
  /\ state[t] = "new"
  /\ previous' = [previous EXCEPT ![t] =
                    IF \E a \in Address : queues[a] # NoTask
                    THEN queues[CHOOSE a \in Address : queues[a] # NoTask]
                    ELSE NoTask]
  /\ queues' = [a \in Address |-> t]
  /\ state' = [state EXCEPT ![t] = "queued"]
  /\ ticket' = [ticket EXCEPT ![t] = issued[AddressOf[t]]]
  /\ issued' = [issued EXCEPT ![AddressOf[t]] = @ + 1]
  /\ UNCHANGED served

\* Mutant: the map is not written (a call that forgets to store its promise).
EnqueueUnstored(t) ==
  /\ state[t] = "new"
  /\ previous' = [previous EXCEPT ![t] = queues[AddressOf[t]]]
  /\ state' = [state EXCEPT ![t] = "queued"]
  /\ ticket' = [ticket EXCEPT ![t] = issued[AddressOf[t]]]
  /\ issued' = [issued EXCEPT ![AddressOf[t]] = @ + 1]
  /\ UNCHANGED <<queues, served>>

\* The synchronous part of queueTransaction, after the address is known: read
\* the map, build the promise that waits for what was read, write the map.
Enqueue(t) ==
  /\ state[t] = "new"
  /\ previous' = [previous EXCEPT ![t] = queues[AddressOf[t]]]
  /\ queues' = [queues EXCEPT ![AddressOf[t]] = t]
  /\ state' = [state EXCEPT ![t] = "queued"]
  /\ ticket' = [ticket EXCEPT ![t] = issued[AddressOf[t]]]
  /\ issued' = [issued EXCEPT ![AddressOf[t]] = @ + 1]
  /\ UNCHANGED served

\* previous.catch(() => {}).then(...): the call asks for its nonce and runs.
Start(t) ==
  /\ state[t] = "queued"
  /\ previous[t] # NoTask => Settled(previous[t])
  /\ state' = [state EXCEPT ![t] = "running"]
  /\ UNCHANGED <<queues, previous, history>>

\* The call's promise is resolved or rejected; a rejection is caught, so the
\* chain goes on either way.
Settle(t) ==
  /\ state[t] = "running"
  /\ state' = [state EXCEPT ![t] = "settled"]
  /\ served' = [served EXCEPT ![AddressOf[t]] = @ + 1]
  /\ UNCHANGED <<queues, previous, ticket, issued>>

\* The clean-up callback: delete the entry only if it is this call's promise.
Release(t) ==
  /\ state[t] = "settled"
  /\ state' = [state EXCEPT ![t] = "released"]
  /\ queues' = IF queues[AddressOf[t]] = t
               THEN [queues EXCEPT ![AddressOf[t]] = NoTask]
               ELSE queues
  /\ UNCHANGED <<previous, history>>

QueueNext == \E t \in Task : Enqueue(t) \/ Start(t) \/ Settle(t) \/ Release(t)

QueueSpec == QueueInit /\ [][QueueNext]_queueVars

-----------------------------------------------------------------------------
(***************************************************************************)
(* Properties                                                              *)
(***************************************************************************)

\* Two calls of one address are never between their nonce and their outcome at
\* the same time: the queue is what keeps two loops from being handed the same
\* nonce, whatever the order of submissions, settlements and clean-ups.
MutualExclusion ==
  \A t, u \in Task :
    /\ state[t] = "running"
    /\ state[u] = "running"
    /\ AddressOf[t] = AddressOf[u]
    => t = u

PhaseOf(s) ==
  IF s = "queued" THEN "waiting"
  ELSE IF s \in {"settled", "released"} THEN "done" ELSE s

Abstract ==
  INSTANCE SerialExecutor WITH phase <- [t \in Task |-> PhaseOf(state[t])]

\* The promise chain implements the serial executor.
ImplementsSerialExecutor == Abstract!Spec

-----------------------------------------------------------------------------
(***************************************************************************)
(* The inductive invariant: the chain of closed-over promises is the order *)
(* of the tickets.                                                         *)
(***************************************************************************)

\* Tickets are distinct, and a call is over exactly when its ticket is served.
TicketsOrdered ==
  /\ \A a \in Address : served[a] <= issued[a]
  /\ \A t \in Task :
       /\ state[t] # "new" => ticket[t] < issued[AddressOf[t]]
       /\ state[t] # "new" =>
            (Settled(t) <=> ticket[t] < served[AddressOf[t]])
       /\ state[t] = "running" => ticket[t] = served[AddressOf[t]]
  /\ \A t, u \in Task :
       /\ state[t] # "new" /\ state[u] # "new"
       /\ AddressOf[t] = AddressOf[u] /\ ticket[t] = ticket[u]
       => t = u

\* The map holds the call with the last ticket; no entry means all are over.
TailIsLast ==
  \A a \in Address :
    IF queues[a] = NoTask
    THEN issued[a] = served[a]
    ELSE /\ AddressOf[queues[a]] = a
         /\ state[queues[a]] \notin {"new", "released"}
         /\ issued[a] = ticket[queues[a]] + 1

\* A call closed over the promise of the ticket before its own.
PreviousIsBefore ==
  \A t \in Task :
    state[t] = "queued" =>
      IF previous[t] = NoTask
      THEN ticket[t] <= served[AddressOf[t]]
      ELSE /\ AddressOf[previous[t]] = AddressOf[t]
           /\ state[previous[t]] # "new"
           /\ ticket[t] = ticket[previous[t]] + 1

QueueInv == QueueTypeOK /\ TicketsOrdered /\ TailIsLast /\ PreviousIsBefore
=============================================================================
