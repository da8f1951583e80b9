----------------------------- MODULE QuoteProbes -----------------------------
(***************************************************************************)
(* How the discovered takes of a run get their quotes: the probes of the   *)
(* hybrid executor (discovery/external-take/hybrid.ts), the quote shell of *)
(* the providers (quotes.ts), their circuits (one-inch-circuit.ts,         *)
(* lifi-circuit.ts) and the limiter that all probes share.                 *)
(*                                                                         *)
(* The evaluation of a candidate probes the providers and ends when each   *)
(* probe has a result: the answer, a refusal, or what its timer says.  A   *)
(* probe whose timer fires is aborted wherever it is, in the queue of the  *)
(* limiter, at the provider or in the approval of its quote; its operation *)
(* may go on.  When all are in, the results are recorded with the circuits *)
(* of their providers.  A single configured route has no such executor:    *)
(* its quote records itself, and a direct one has no timer.                *)
(***************************************************************************)
EXTENDS RouteProbeLimiter

CONSTANTS
  Evaluations,    \* the candidates under evaluation
  Aggregators,    \* providers with a circuit
  Direct,         \* the direct DEX route, which has none
  Threshold,      \* retryable failures that open a circuit
  Settling        \* probes whose operation settles in the end, abandoned or not

Providers == Aggregators \cup {Direct}

ASSUME ProbesAssumption ==
  /\ Direct \notin Aggregators
  /\ {"max_profit", "direct_dex_first"} \cap Providers = {}
  /\ Ops = Evaluations \X Providers
  /\ MaxAbandoned = 2 * MaxConcurrent
  /\ Threshold \in Nat \ {0}
  /\ Settling \subseteq Ops

\* The two orders of the hybrid executor, or the one route there is.
Modes == {"max_profit", "direct_dex_first"} \cup Providers

VARIABLES
  mode,
  phase,      \* of an evaluation
  probe,      \* what has become of a probe
  failures,   \* of a circuit
  open,       \* its cooldown is running
  charges,    \* how often a probe was recorded as a failure (history)
  unasked     \* probes that timed out in the queue of the limiter (history)

circuitVars == <<failures, open, charges>>
vars == <<limiterVars, mode, phase, probe, circuitVars, unasked>>

Phases == {"waiting", "direct", "probing", "done"}
Results == {"approved", "success", "neutral", "failure", "skipped"}

TypeOK ==
  /\ LimiterTypeOK
  /\ mode \in Modes
  /\ phase \in [Evaluations -> Phases]
  /\ probe \in [Ops -> {"idle", "quoting", "approving"} \cup Results]
  /\ failures \in [Aggregators -> Nat]
  /\ open \in [Aggregators -> BOOLEAN]
  /\ charges \in [Ops -> Nat]
  /\ unasked \subseteq Ops

\* The circuits have a past: they are kept across the runs.
Init ==
  /\ LimiterInit
  /\ mode \in Modes
  /\ phase = [e \in Evaluations |-> "waiting"]
  /\ probe = [o \in Ops |-> "idle"]
  /\ failures \in [Aggregators -> 0 .. Threshold]
  /\ open = [a \in Aggregators |-> failures[a] >= Threshold]
  /\ charges = [o \in Ops |-> 0]
  /\ unasked = {}

Single == mode \in Providers

\* The probes that evaluation e has started or is about to start.
Round(e) ==
  {o \in {e} \X Providers :
     \/ phase[e] = "direct" /\ o[2] = Direct
     \/ /\ phase[e] = "probing"
        /\ \/ Single /\ o[2] = mode
           \/ mode = "max_profit"
           \/ mode = "direct_dex_first" /\ o[2] # Direct}

\* Only the single direct route is quoted without a timer of its own.
Timed == mode # Direct

Ends(o, r) == probe' = [probe EXCEPT ![o] = r]

\* The results pr of the probes S, at most one for a provider, are recorded:
\* a success resets the circuit, a failure counts and opens it at the threshold.
Records(S, pr) ==
  LET of(a) == {pr[o] : o \in {p \in S : p[2] = a}}
      failed(a) == "failure" \in of(a)
      succeeded(a) == of(a) \cap {"approved", "success"} # {}
      n == [a \in Aggregators |->
              IF succeeded(a) THEN 0
              ELSE failures[a] + (IF failed(a) THEN 1 ELSE 0)]
  IN /\ failures' = n
     /\ open' = [a \in Aggregators |-> n[a] >= Threshold]
     /\ charges' = [o \in Ops |->
          charges[o] + (IF o \in S /\ o[2] # Direct /\ failed(o[2]) THEN 1 ELSE 0)]

\* Mutant: the quote shell records the probes of the hybrid executor, too.
ShellAlways(o) == Records({o}, probe')

\* The quote shell records a result itself only when no hybrid executor does.
Shell(o) == IF Single THEN Records({o}, probe') ELSE UNCHANGED circuitVars

-----------------------------------------------------------------------------

Begin(e) ==
  /\ phase[e] = "waiting"
  /\ phase' = [phase EXCEPT ![e] = IF mode = "direct_dex_first" THEN "direct" ELSE "probing"]
  /\ UNCHANGED <<limiterVars, mode, probe, circuitVars, unasked>>

\* A probe starts.  That of an aggregator looks at its circuit and queues; the
\* direct one has reads to do first.  The probes of a round start one after the
\* other in one turn; here other steps may come between them.
Start(o) ==
  /\ o \in Round(o[1]) /\ probe[o] = "idle"
  /\ IF o[2] = Direct
     THEN Ends(o, "quoting") /\ UNCHANGED limiterVars
     ELSE IF open[o[2]]
     THEN Ends(o, "skipped") /\ UNCHANGED limiterVars
     ELSE Ends(o, "quoting") /\ Run(o)
  /\ UNCHANGED <<mode, phase, circuitVars, unasked>>

\* The direct route reaches the limiter, perhaps after its timer has fired, or
\* is refused before.
QueueDirect(o) ==
  /\ o[2] = Direct
  /\ probe[o] \in {"quoting", "failure"}
  /\ Run(o)
  /\ UNCHANGED <<mode, phase, probe, circuitVars, unasked>>

RefuseDirect(o) ==
  /\ o[2] = Direct
  /\ probe[o] = "quoting" /\ state[o] = "new"
  /\ Ends(o, "neutral")
  /\ UNCHANGED <<limiterVars, mode, phase, circuitVars, unasked>>

TakeUpProbe(o) ==
  /\ TakeUp(o)
  /\ UNCHANGED <<mode, phase, probe, circuitVars, unasked>>

\* The operation settles.  Unless it was abandoned its answer is the result: a
\* quote to approve, one that is not good enough (an answer all the same), a
\* local refusal, or an error that may be retried.
Answer(o) ==
  /\ Settle(o)
  /\ IF state[o] = "abandoned"
     THEN UNCHANGED <<probe, circuitVars>>
     ELSE /\ \E r \in {"approving", "success", "neutral", "failure"} :
               Ends(o, IF r = "approving" /\ Single THEN "success" ELSE r)
          /\ Shell(o)
  /\ UNCHANGED <<mode, phase, unasked>>

\* The quote was good for the circuit, whatever its approval says.
Approve(o) ==
  /\ probe[o] = "approving"
  /\ \E r \in {"approved", "success"} : Ends(o, r)
  /\ UNCHANGED <<limiterVars, mode, phase, circuitVars, unasked>>

\* Mutant: the timer of a probe runs from its permit only.
TimeoutOfStarted(o) ==
  /\ Timed /\ probe[o] \in {"quoting", "approving"}
  /\ state[o] \in {"running", "over"}
  /\ Ends(o, "failure")
  /\ IF state[o] = "over" THEN UNCHANGED limiterVars ELSE Abort(o)
  /\ Shell(o)
  /\ UNCHANGED <<mode, phase, unasked>>

\* The timer of the probe, or that of its quote: both are set when the probe
\* starts.  The abort reaches a call that waits or runs; one that is over stays.
Timeout(o) ==
  /\ Timed /\ probe[o] \in {"quoting", "approving"}
  /\ Ends(o, "failure")
  /\ IF state[o] = "over" THEN UNCHANGED limiterVars ELSE Abort(o)
  /\ Shell(o)
  /\ unasked' = IF state[o] = "queued" THEN unasked \cup {o} ELSE unasked
  /\ UNCHANGED <<mode, phase>>

\* The hold of a permit is capped at more than the timeout of a probe, so the
\* cap matters only where there is no timer.
Cap(o) ==
  /\ ~Timed
  /\ HardCap(o)
  /\ Ends(o, "failure")
  /\ UNCHANGED <<mode, phase, circuitVars, unasked>>

\* A direct route that is approved and needs no subsidy ends the evaluation; any
\* other result lets the aggregators try.
DirectDone(e) ==
  /\ phase[e] = "direct" /\ probe[<<e, Direct>>] \in Results
  /\ \/ /\ probe[<<e, Direct>>] = "approved"
        /\ phase' = [phase EXCEPT ![e] = "done"]
     \/ phase' = [phase EXCEPT ![e] = "probing"]
  /\ UNCHANGED <<limiterVars, mode, probe, circuitVars, unasked>>

\* All probes of the last round have a result.
Finish(e) ==
  /\ phase[e] = "probing"
  /\ \A o \in Round(e) : probe[o] \in Results
  /\ IF Single THEN UNCHANGED circuitVars ELSE Records(Round(e), probe)
  /\ phase' = [phase EXCEPT ![e] = "done"]
  /\ UNCHANGED <<limiterVars, mode, probe, unasked>>

\* The cooldown of a circuit passes; whoever looks next finds it reset.
CoolDown(a) ==
  /\ open[a]
  /\ open' = [open EXCEPT ![a] = FALSE]
  /\ failures' = [failures EXCEPT ![a] = 0]
  /\ UNCHANGED <<limiterVars, mode, phase, probe, charges, unasked>>

Step(o) ==
  \/ Start(o) \/ QueueDirect(o) \/ RefuseDirect(o) \/ TakeUpProbe(o)
  \/ Answer(o) \/ Approve(o) \/ Timeout(o) \/ Cap(o)

Next ==
  \/ \E e \in Evaluations : Begin(e) \/ DirectDone(e) \/ Finish(e)
  \/ \E o \in Ops : Step(o)
  \/ \E a \in Aggregators : CoolDown(a)

Spec == Init /\ [][Next]_vars

\* The process runs its turns and its timers, and the reads before a direct
\* quote end; no more than the operations in Settling need ever settle.
FairSpec ==
  /\ Spec
  /\ \A e \in Evaluations : WF_vars(DirectDone(e)) /\ WF_vars(Finish(e))
  /\ \A o \in Ops :
       /\ WF_vars(Start(o)) /\ WF_vars(TakeUpProbe(o))
       /\ WF_vars(QueueDirect(o) \/ RefuseDirect(o))
       /\ WF_vars(Timeout(o)) /\ WF_vars(Cap(o))
  /\ \A o \in Settling : WF_vars(Answer(o))

-----------------------------------------------------------------------------
(***************************************************************************)
(* Properties                                                              *)
(***************************************************************************)

\* Every evaluation ends: with timers even if no provider ever answers, for the
\* single direct route if fewer operations than the limiter may abandon hang.
EvaluationsEnd ==
  \A e \in Evaluations : phase[e] # "waiting" ~> phase[e] = "done"

\* The timeout of a probe takes its call out of the limiter: when an evaluation
\* is done, whatever is left of its probes holds no permit and waits for none,
\* but for a permit that is given back in the next turn (withProbeTimeout).
DoneLeavesNothing ==
  \A o \in Ops : phase[o[1]] = "done" =>
    /\ state[o] \notin {"queued", "running"}
    /\ state[o] = "granted" => aborted[o]

\* A circuit is open exactly while it counts failures up to its threshold, also
\* after a cooldown and a late success, and no probe is charged twice, by its
\* quote and by the executor, or by its timer and a late answer.
CircuitsCount ==
  /\ \A a \in Aggregators : open[a] <=> failures[a] >= Threshold
  /\ \A o \in Ops : charges[o] <= 1

\* "Retryable 1inch failures before the local circuit opens"
\* (production_setup_guide.md): a probe that its provider never saw, because it
\* timed out in the queue of the limiter, is not charged to it.  It is.
UnaskedNotCharged == \A o \in unasked : charges[o] = 0

-----------------------------------------------------------------------------
(***************************************************************************)
(* The inductive invariant, with the accounts of the limiter               *)
(***************************************************************************)

\* A call waits or runs only for a probe that is still waiting for its quote.
Placed ==
  \A o \in Ops :
    /\ state[o] \in {"queued", "running"} => ~aborted[o] /\ probe[o] = "quoting"
    /\ state[o] = "granted" /\ ~aborted[o] => probe[o] = "quoting"
    /\ state[o] = "new" /\ probe[o] = "failure" => aborted[o]

\* Only the probes of a round that has begun have left "idle".
InRounds ==
  \A e \in Evaluations :
    /\ phase[e] = "waiting" => \A p \in Providers : probe[<<e, p>>] = "idle"
    /\ phase[e] = "direct" =>
         /\ mode = "direct_dex_first"
         /\ \A a \in Aggregators : probe[<<e, a>>] = "idle"
    /\ phase[e] = "probing" =>
         /\ Single => \A p \in Providers \ {mode} : probe[<<e, p>>] = "idle"
         /\ mode = "direct_dex_first" => probe[<<e, Direct>>] \in Results
    /\ phase[e] = "done" =>
         \A p \in Providers : probe[<<e, p>>] \in Results \cup {"idle"}

\* A charge comes with the result of the shell or the end of the evaluation.
Charged ==
  \A o \in Ops : charges[o] > 0 =>
    IF Single THEN probe[o] \in Results ELSE phase[o[1]] = "done"

ProbesInv == TypeOK /\ CircuitsCount /\ Placed /\ InRounds /\ Charged
=============================================================================
