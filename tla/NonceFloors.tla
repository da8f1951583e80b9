---------------------------- MODULE NonceFloors ----------------------------
(***************************************************************************)
(* What the durable nonce state promises the nonce trackers of the keepers *)
(* that share its file (src/src/durable-nonce-state.ts): one record, in    *)
(* which every process has a floor that only it moves, and which a write   *)
(* that reported success has reached.  A write that reported a failure may *)
(* have reached it or not, and the process that tried may still see its    *)
(* own value.  NonceTracker assumes this of its floor; how the file keeps  *)
(* the promise is DurableNonceFile.                                        *)
(***************************************************************************)
EXTENDS Naturals

CONSTANTS
  Procs,      \* the keeper processes, each with an address of its own
  MaxFloor

VARIABLES
  floor,      \* floor[p]: the next nonce of p, or 0 for no entry
  busy,       \* the processes with a write under way
  want,       \* what it writes: a floor, or 0 to clear
  tried       \* what writes of p that failed wanted since the last good one

vars == <<floor, busy, want, tried>>

Init ==
  /\ floor = [p \in Procs |-> 0]
  /\ busy = {}
  /\ want = [p \in Procs |-> 0]
  /\ tried = [p \in Procs |-> {}]

Ask(p) ==
  /\ p \notin busy
  /\ busy' = busy \cup {p}
  /\ \E n \in 0 .. MaxFloor : want' = [want EXCEPT ![p] = n]
  /\ UNCHANGED <<floor, tried>>

\* A floor is cleared or raised, and by a write of its own process.
Apply(p) ==
  /\ p \in busy
  /\ want[p] = 0 \/ want[p] >= floor[p]
  /\ floor' = [floor EXCEPT ![p] = want[p]]
  /\ UNCHANGED <<busy, want, tried>>

Over(p, seen) ==
  /\ busy' = busy \ {p}
  /\ want' = [want EXCEPT ![p] = 0]
  /\ tried' = [tried EXCEPT ![p] = seen]
  /\ UNCHANGED floor

Succeed(p) ==
  /\ p \in busy
  /\ IF want[p] = 0 THEN floor[p] = 0 ELSE floor[p] >= want[p]
  /\ Over(p, {})

Fail(p) == p \in busy /\ Over(p, tried[p] \cup {want[p]})

\* A new process knows only the record.
Restart(p) == Over(p, {})

Next ==
  \E p \in Procs : Ask(p) \/ Apply(p) \/ Succeed(p) \/ Fail(p) \/ Restart(p)

Spec == Init /\ [][Next]_vars
=============================================================================
