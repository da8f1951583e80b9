-------------------------- MODULE RouteProbeLimiter --------------------------
(***************************************************************************)
(* The limiter that all route probes of a window of candidates share       *)
(* (src/src/utils.ts, RouteProbeLimiter).                                  *)
(*                                                                         *)
(* At most MaxConcurrent operations hold a permit; the others wait in the  *)
(* order of their arrival.  An operation that exceeds the hard cap, or     *)
(* whose caller aborts it, loses its permit although it goes on: it counts *)
(* as abandoned until it settles, and while MaxAbandoned are abandoned no  *)
(* permit is granted.  A permit is granted by resolving the promise of the *)
(* waiter, which takes it up in a later turn of the event loop, when it    *)
(* may find that its caller has aborted it meanwhile.                      *)
(***************************************************************************)
EXTENDS Naturals, Sequences, FiniteSets

CONSTANTS
  Ops,            \* the calls of run
  MaxConcurrent,
  MaxAbandoned

ASSUME LimiterAssumption ==
  /\ IsFiniteSet(Ops)
  /\ MaxConcurrent \in Nat \ {0}
  /\ MaxAbandoned \in Nat \ {0}

VARIABLES
  state,              \* how far the call is
  aborted,            \* its signal
  active,
  abandonedUnsettled,
  waiters

limiterVars == <<state, aborted, active, abandonedUnsettled, waiters>>

States == {"new", "queued", "granted", "running", "abandoned", "over"}

LimiterTypeOK ==
  /\ state \in [Ops -> States]
  /\ aborted \in [Ops -> BOOLEAN]
  /\ active \in 0 .. MaxConcurrent
  /\ abandonedUnsettled \in Nat
  /\ waiters \in Seq(Ops)

LimiterInit ==
  /\ state = [o \in Ops |-> "new"]
  /\ aborted = [o \in Ops |-> FALSE]
  /\ active = 0 /\ abandonedUnsettled = 0
  /\ waiters = <<>>

\* Math.max(0, n - 1).
OneLess(n) == IF n > 0 THEN n - 1 ELSE 0

\* How many waiters drain grants a permit, with these counters and waiters.
Grants(act, unsettled, wait) ==
  IF unsettled >= MaxAbandoned \/ act >= MaxConcurrent THEN 0
  ELSE IF Len(wait) < MaxConcurrent - act THEN Len(wait)
  ELSE MaxConcurrent - act

\* The end of every handler: drain, after it has left the counters, the waiters
\* and the states of the calls like this.
Drained(act, unsettled, wait, st) ==
  LET n == Grants(act, unsettled, wait)
      granted == {wait[i] : i \in 1 .. n}
  IN /\ active' = act + n
     /\ abandonedUnsettled' = unsettled
     /\ waiters' = SubSeq(wait, n + 1, Len(wait))
     /\ state' = [o \in Ops |-> IF o \in granted THEN "granted" ELSE st[o]]

Became(o, s) == [state EXCEPT ![o] = s]

\* removeWaiter: splice at the index of the waiter.
Without(o) ==
  LET index == CHOOSE i \in 1 .. Len(waiters) : waiters[i] = o
  IN [i \in 1 .. (Len(waiters) - 1) |->
        IF i < index THEN waiters[i] ELSE waiters[i + 1]]

-----------------------------------------------------------------------------

\* run up to its first await: an aborted call ends here, the others queue.
Run(o) ==
  /\ state[o] = "new"
  /\ IF aborted[o]
     THEN /\ state' = Became(o, "over")
          /\ UNCHANGED <<active, abandonedUnsettled, waiters>>
     ELSE Drained(active, abandonedUnsettled, Append(waiters, o), Became(o, "queued"))
  /\ UNCHANGED aborted

\* The waiter takes up its permit, or gives it back if it was aborted.
TakeUp(o) ==
  /\ state[o] = "granted"
  /\ IF aborted[o]
     THEN Drained(OneLess(active), abandonedUnsettled, waiters, Became(o, "over"))
     ELSE /\ state' = Became(o, "running")
          /\ UNCHANGED <<active, abandonedUnsettled, waiters>>
  /\ UNCHANGED aborted

\* Mutant: the new count of abandoned probes is not there yet when it drains.
AbandonLate(o) ==
  \E n \in {Grants(OneLess(active), abandonedUnsettled, waiters)} :
    /\ active' = OneLess(active) + n
    /\ abandonedUnsettled' = abandonedUnsettled + 1
    /\ waiters' = SubSeq(waiters, n + 1, Len(waiters))
    /\ state' = [p \in Ops |->
                   IF p \in {waiters[i] : i \in 1 .. n} THEN "granted"
                   ELSE Became(o, "abandoned")[p]]

\* abandonProbe: the permit is passed on, the operation goes on.
Abandon(o) ==
  Drained(OneLess(active), abandonedUnsettled + 1, waiters, Became(o, "abandoned"))

HardCap(o) ==
  /\ state[o] = "running"
  /\ Abandon(o)
  /\ UNCHANGED aborted

\* The caller aborts: a waiter is removed, a running operation abandoned.  For a
\* granted permit nobody listens; a call that is over is past caring.
Abort(o) ==
  /\ ~aborted[o] /\ state[o] # "over"
  /\ aborted' = [aborted EXCEPT ![o] = TRUE]
  /\ CASE state[o] = "queued" ->
            Drained(active, abandonedUnsettled, Without(o), Became(o, "over"))
       [] state[o] = "running" -> Abandon(o)
       [] OTHER -> UNCHANGED <<state, active, abandonedUnsettled, waiters>>

\* The operation settles, either way.
Settle(o) ==
  /\ \/ /\ state[o] = "running"
        /\ Drained(OneLess(active), abandonedUnsettled, waiters, Became(o, "over"))
     \/ /\ state[o] = "abandoned"
        /\ Drained(active, OneLess(abandonedUnsettled), waiters, Became(o, "over"))
  /\ UNCHANGED aborted

LimiterNext ==
  \E o \in Ops : Run(o) \/ TakeUp(o) \/ HardCap(o) \/ Abort(o) \/ Settle(o)

LimiterSpec == LimiterInit /\ [][LimiterNext]_limiterVars

-----------------------------------------------------------------------------
(***************************************************************************)
(* Properties                                                              *)
(***************************************************************************)

HoldingIn(st) == {o \in Ops : st[o] \in {"granted", "running"}}
AbandonedIn(st) == {o \in Ops : st[o] = "abandoned"}

Holding == HoldingIn(state)
Abandoned == AbandonedIn(state)

\* However operations are granted, aborted, capped and settled, those with a
\* permit are at most MaxConcurrent, and those under way at most MaxAbandoned
\* minus one more (drain, releasePermit, settleAbandonedProbe).
PressureBounded ==
  /\ Cardinality(Holding) <= MaxConcurrent
  /\ Cardinality(Holding \cup Abandoned) <= MaxConcurrent + MaxAbandoned - 1

\* No permit is lost and no waiter forgotten: while somebody waits, either all
\* permits are held or the abandoned operations use up their allowance, and it
\* is the calls that are queued who wait.
NobodyWaitsInVain ==
  /\ {waiters[i] : i \in 1 .. Len(waiters)} = {o \in Ops : state[o] = "queued"}
  /\ waiters # <<>> =>
       \/ Cardinality(Holding) = MaxConcurrent
       \/ Cardinality(Abandoned) >= MaxAbandoned

\* An operation that was aborted while its call was queued, or before it took up
\* its permit, is never started.
AbortedNeverStarts ==
  [][\A o \in Ops : aborted[o] /\ state[o] \in {"new", "queued", "granted"}
                      => state'[o] \notin {"running", "abandoned"}]_limiterVars

-----------------------------------------------------------------------------
(***************************************************************************)
(* The inductive invariant                                                 *)
(***************************************************************************)

\* The counters count, the queue holds the queued calls, each once, and every
\* grant has respected both limits; drain may start from any such accounts.
Counted(act, unsettled, wait, st) ==
  /\ st \in [Ops -> States]
  /\ wait \in Seq(Ops)
  /\ act = Cardinality(HoldingIn(st))
  /\ unsettled = Cardinality(AbandonedIn(st))
  /\ \A i \in 1 .. Len(wait) : st[wait[i]] = "queued"
  /\ \A i, j \in 1 .. Len(wait) : wait[i] = wait[j] => i = j
  /\ \A o \in Ops : st[o] = "queued" => \E i \in 1 .. Len(wait) : wait[i] = o
  /\ act <= MaxConcurrent
  /\ act + unsettled <= MaxConcurrent + MaxAbandoned - 1

\* After a drain nobody waits for a permit that could be granted.
Settled ==
  waiters # <<>> =>
    active = MaxConcurrent \/ abandonedUnsettled >= MaxAbandoned

Accounts == Counted(active, abandonedUnsettled, waiters, state) /\ Settled
=============================================================================
