----------------------------- MODULE TakeEngine -----------------------------
(***************************************************************************)
(* One run of the take engine over the candidates of a pool                *)
(* (src/src/take/engine.ts, processTakeCandidates), with the executor of   *)
(* external takes and their fallbacks that discovery plugs into it         *)
(* (src/src/discovery/external-take/hybrid.ts).                            *)
(*                                                                         *)
(* Candidates are evaluated a window at a time, from a status read for the *)
(* whole window or for the one candidate, and the decisions are executed   *)
(* one by one: the status is read again, the quote compared with it, the   *)
(* external routes tried in order, and an arb take may follow.  Meanwhile  *)
(* the auctions go on: prices decay, others take, an auction ends and the  *)
(* borrower is kicked again.  The engine's own transactions change the     *)
(* pool too, and may do so although the keeper was told they failed.       *)
(*                                                                         *)
(* A status carries the number of own transactions that were out when it   *)
(* was read (epoch).  epoch, sent, accepted and read are history variables *)
(* and guard nothing.                                                      *)
(***************************************************************************)
EXTENDS Naturals, Sequences, FiniteSets

CONSTANTS
  Profile,        \* the ways the engine is called, see ProfileType
  NumCandidates,  \* the candidates are 1 .. NumCandidates, in this order
  MaxColl,        \* collateral of a fresh auction
  MaxPrice,       \* price of a fresh auction
  TakeablePrice,  \* highest price at which a route or a bucket may pay
  MaxEvents,      \* bound: what others do to the auctions during the run
  None

ProfileType ==
  [concurrency : Nat \ {0},  \* maxConcurrentCandidateEvaluations
   max : Nat,                \* maxExecutions, 0 for no limit
   stop : BOOLEAN,           \* stopAfterExecution
   stopFailed : BOOLEAN,     \* stopAfterAttemptedSubmissionFailure
   revalidate : BOOLEAN,     \* revalidateBeforeExecution, and reapproval
   tracked : BOOLEAN,        \* didExternalTakeAttemptSubmission is there
   hybrid : BOOLEAN,         \* several routes compete, the rest fall back
   dryRun : BOOLEAN,
   lossy : BOOLEAN]          \* a node may accept and its answer be lost

\* handleDiscoveredTakeTarget: several executions force sequential evaluation.
Discovered(max, concurrency) ==
  [concurrency |-> IF max > 1 THEN 1 ELSE concurrency,
   max |-> max, stop |-> max <= 1,
   stopFailed |-> TRUE, revalidate |-> TRUE, tracked |-> TRUE,
   hybrid |-> TRUE, dryRun |-> FALSE, lossy |-> FALSE]

\* runManualTakeCandidateEngine.
Manual ==
  [concurrency |-> 1, max |-> 0, stop |-> FALSE, stopFailed |-> FALSE,
   revalidate |-> FALSE, tracked |-> FALSE,
   hybrid |-> FALSE, dryRun |-> FALSE, lossy |-> FALSE]

Candidates == 1 .. NumCandidates
Routes == {"direct_dex", "aggregator", "gas_fallback"}

Auction == [coll : 0 .. MaxColl, price : 0 .. MaxPrice]
Status == [coll : 0 .. MaxColl, price : 0 .. MaxPrice, epoch : Nat]
Decision == [plan : Seq(Routes), arb : BOOLEAN, facts : Status \cup {None}]

\* Without a candidate there is no run.
ASSUME EngineAssumption ==
  /\ Profile \subseteq ProfileType
  /\ NumCandidates \in Nat \ {0} /\ MaxColl \in Nat /\ MaxPrice \in Nat
  /\ TakeablePrice \in 0 .. MaxPrice /\ MaxEvents \in Nat
  /\ None \notin Status

VARIABLES
  profile,   \* how this run is called
  auction,   \* the auction of each candidate on chain; coll 0: none
  events,    \* counts towards MaxEvents
  pc,
  next,      \* windowStart
  preload,   \* windowCandidateStatuses
  valid,     \* preloadedStatusesValid
  outcome,   \* evaluationOutcomes of the window, None before
  current,   \* the candidate being executed
  plan,      \* the external routes left to try
  arb,       \* approvedArbTake
  facts,     \* collateral and auctionPrice as last read
  executed,  \* this candidate had a successful take or arb take
  changed,   \* poolStateMayHaveChanged
  attempted, \* externalTakeAttemptedSubmission
  count,     \* successfulExecutionCount
  dropped,   \* the run moved on without these
  epoch, sent, accepted, read

decision == <<current, plan, arb, facts, executed, changed, attempted>>
history == <<sent, accepted>>
world == <<auction, events>>
vars == <<profile, world, pc, next, preload, valid, outcome, decision, count,
          dropped, epoch, history, read>>

TypeOK ==
  /\ profile \in Profile
  /\ auction \in [Candidates -> Auction]
  /\ events \in 0 .. MaxEvents
  /\ pc \in {"window", "evaluate", "pick", "revalidate", "submit", "fallback",
             "recheck", "arb", "returned", "failed", "done"}
  /\ next \in Nat \ {0}
  /\ preload \in [Candidates -> Status \cup {None}]
  /\ valid \in BOOLEAN
  /\ outcome \in [Candidates -> Decision \cup {None}]
  /\ current \in Candidates
  /\ plan \in Seq(Routes)
  /\ arb \in BOOLEAN
  /\ facts \in Status \cup {None}
  /\ executed \in BOOLEAN /\ changed \in BOOLEAN /\ attempted \in BOOLEAN
  /\ count \in Nat
  /\ dropped \subseteq Candidates
  /\ epoch \in Nat
  /\ sent \subseteq Candidates
  /\ accepted \in BOOLEAN
  /\ read \in BOOLEAN

Unread == [c \in Candidates |-> None]

Init ==
  /\ profile \in Profile
  /\ auction = [c \in Candidates |-> [coll |-> MaxColl, price |-> TakeablePrice]]
  /\ events = 0
  /\ pc = "window" /\ next = 1
  /\ preload = Unread /\ valid = TRUE /\ outcome = Unread
  /\ current = 1 /\ plan = <<>> /\ arb = FALSE /\ facts = None
  /\ executed = FALSE /\ changed = FALSE /\ attempted = FALSE
  /\ count = 0 /\ dropped = {}
  /\ epoch = 0 /\ sent = {} /\ accepted = FALSE /\ read = FALSE

\* What auctionStatus answers now.
StatusOf(c) ==
  [coll |-> auction[c].coll, price |-> auction[c].price, epoch |-> epoch]

Window == {c \in Candidates : next <= c /\ c < next + profile.concurrency}
Pending == {c \in Window : outcome[c] # None}

-----------------------------------------------------------------------------
(***************************************************************************)
(* Evaluating a window                                                     *)
(***************************************************************************)

\* The statuses of a window of several are read together as far as the reads
\* succeed, unless an own transaction has made such statuses unsafe.
ReadWindow ==
  /\ pc = "window"
  /\ Window # {}
  /\ \E got \in SUBSET Window :
       /\ got # {} => valid /\ Cardinality(Window) > 1
       /\ preload' = [c \in Candidates |->
                        IF c \in got THEN StatusOf(c) ELSE None]
  /\ outcome' = Unread
  /\ pc' = "evaluate"
  /\ UNCHANGED <<profile, world, next, valid, decision, count, dropped, epoch,
                 history, read>>

EndRun ==
  /\ pc = "window"
  /\ Window = {}
  /\ pc' = "done"
  /\ UNCHANGED <<profile, world, next, preload, valid, outcome, decision, count,
                 dropped, epoch, history, read>>

\* The orders in which approved routes may be tried.  A single path has one;
\* the gas-quote fallback stands alone or behind an aggregator.
Plans ==
  LET ranked == {<<"direct_dex">>, <<"aggregator">>,
                 <<"direct_dex", "aggregator">>, <<"aggregator", "direct_dex">>}
  IN IF ~profile.hybrid
     THEN {<<"direct_dex">>, <<"aggregator">>}
     ELSE ranked \cup {<<"gas_fallback">>, <<"aggregator", "gas_fallback">>}

\* What quotes, buckets and policies may approve at a status.
Approvable(s) ==
  IF s.coll = 0 \/ s.price > TakeablePrice
  THEN {[plan |-> <<>>, arb |-> FALSE, facts |-> s]}
  ELSE [plan : Plans \cup {<<>>}, arb : BOOLEAN, facts : {s}]

\* evaluateTakeDecision.
Evaluate(c) ==
  /\ pc = "evaluate"
  /\ c \in Window /\ outcome[c] = None
  /\ \E o \in Approvable(IF preload[c] # None THEN preload[c] ELSE StatusOf(c)) :
       outcome' = [outcome EXCEPT ![c] = o]
  /\ pc' = IF Pending \cup {c} = Window THEN "pick" ELSE "evaluate"
  /\ UNCHANGED <<profile, world, next, preload, valid, decision, count, dropped,
                 epoch, history, read>>

\* A read, quote or approval throws: the candidate is skipped.
EvaluateFails(c) ==
  /\ pc = "evaluate"
  /\ c \in Window /\ outcome[c] = None
  /\ outcome' = [outcome EXCEPT
                   ![c] = [plan |-> <<>>, arb |-> FALSE, facts |-> None]]
  /\ pc' = IF Pending \cup {c} = Window THEN "pick" ELSE "evaluate"
  /\ UNCHANGED <<profile, world, next, preload, valid, decision, count, dropped,
                 epoch, history, read>>

\* The decisions are taken up in the order of the candidates.
First(c) == c \in Pending /\ \A d \in Pending : c <= d

Skip(c) ==
  /\ pc = "pick"
  /\ First(c)
  /\ outcome[c].plan = <<>> /\ ~outcome[c].arb
  /\ outcome' = [outcome EXCEPT ![c] = None]
  /\ UNCHANGED <<profile, world, pc, next, preload, valid, decision, count,
                 dropped, epoch, history, read>>

NextWindow ==
  /\ pc = "pick"
  /\ Pending = {}
  /\ pc' = "window"
  /\ next' = next + profile.concurrency
  /\ UNCHANGED <<profile, world, preload, valid, outcome, decision, count,
                 dropped, epoch, history, read>>

-----------------------------------------------------------------------------
(***************************************************************************)
(* Executing a decision (executeTakeDecision)                              *)
(***************************************************************************)

\* resetExternalTakeAttemptSubmission, and into executeTakeDecision.
Begin(c) ==
  /\ pc = "pick"
  /\ First(c)
  /\ LET o == outcome[c] IN
       /\ o.plan # <<>> \/ o.arb
       /\ plan' = o.plan /\ arb' = o.arb /\ facts' = o.facts
       /\ pc' = IF profile.revalidate THEN "revalidate"
                ELSE IF o.plan # <<>> THEN "submit" ELSE "arb"
  /\ current' = c
  /\ outcome' = [outcome EXCEPT ![c] = None]
  /\ executed' = FALSE /\ changed' = FALSE /\ attempted' = FALSE
  /\ accepted' = FALSE /\ read' = FALSE
  /\ UNCHANGED <<profile, world, next, preload, valid, count, dropped, epoch,
                 sent>>

\* May an arb take approved before still be approved at status s?
ArbApprovals(s) ==
  IF arb /\ s.coll > 0 /\ s.price <= TakeablePrice THEN BOOLEAN ELSE {FALSE}

\* An external take is still takeable at status s, and its quote still fits.
QuoteFits(s) == s.coll = facts.coll /\ s.price <= facts.price

\* The status is read again, the approvals are withdrawn where it no longer
\* bears them out, and a quote for other collateral or a lower price, or one
\* the policies now reject, ends the execution, the arb take's too.
Revalidate ==
  /\ pc = "revalidate"
  /\ LET s == StatusOf(current)
         takeable == plan # <<>> /\ s.coll > 0 /\ s.price <= TakeablePrice
     IN \E arbApproved \in ArbApprovals(s), reapproved \in BOOLEAN :
          /\ facts' = s
          /\ read' = TRUE
          /\ arb' = arbApproved
          /\ IF takeable
             THEN /\ plan' = plan
                  /\ pc' = IF ~QuoteFits(s) \/ ~reapproved THEN "pick"
                           ELSE IF Head(plan) = "gas_fallback" THEN "fallback"
                           ELSE "submit"
             ELSE /\ plan' = <<>>
                  /\ pc' = IF arbApproved THEN "arb" ELSE "pick"
  /\ UNCHANGED <<profile, world, next, preload, valid, outcome, current,
                 executed, changed, attempted, count, dropped, epoch, history>>

RevalidateFails ==
  /\ pc = "revalidate"
  /\ pc' = "failed"
  /\ UNCHANGED <<profile, world, next, preload, valid, outcome, decision, count,
                 dropped, epoch, history, read>>

\* An own transaction is, or may be, in the hands of the network.
Out ==
  /\ epoch' = epoch + 1
  /\ sent' = sent \cup {current}
  /\ read' = FALSE

\* It is included: the auction loses collateral.
Included ==
  /\ auction[current].coll > 0
  /\ \E k \in 0 .. (auction[current].coll - 1) :
       auction' = [auction EXCEPT ![current].coll = k]
  /\ UNCHANGED events

SubmitSucceeds ==
  /\ pc = "submit"
  /\ ~profile.dryRun
  /\ Out /\ Included /\ accepted' = TRUE
  /\ executed' = TRUE /\ changed' = TRUE
  /\ pc' = IF arb THEN "recheck" ELSE "returned"
  /\ UNCHANGED <<profile, next, preload, valid, outcome, current, plan, arb,
                 facts, attempted, count, dropped>>

\* A dry run reports success where it would submit.
SubmitDry ==
  /\ pc = "submit"
  /\ profile.dryRun
  /\ executed' = TRUE
  /\ read' = FALSE
  /\ pc' = IF arb THEN "recheck" ELSE "returned"
  /\ UNCHANGED <<profile, world, next, preload, valid, outcome, current, plan,
                 arb, facts, changed, attempted, count, dropped, epoch, history>>

\* On to the next route, if there is one.
NextRoute ==
  /\ plan' = Tail(plan)
  /\ pc' = IF Tail(plan) # <<>> THEN "fallback" ELSE "failed"

\* Nothing was submitted, and the provider says so (preBroadcast).
SubmitRefused ==
  /\ pc = "submit"
  /\ NextRoute
  /\ read' = FALSE
  /\ UNCHANGED <<profile, world, next, preload, valid, outcome, current, arb,
                 facts, executed, changed, attempted, count, dropped, epoch,
                 history>>

\* Mutant: a failure after acceptance is reported like one before it.
SubmitConsumedUntracked ==
  /\ pc = "submit"
  /\ ~profile.dryRun
  /\ Out /\ accepted' = TRUE
  /\ NextRoute
  /\ UNCHANGED <<profile, world, next, preload, valid, outcome, current, arb,
                 facts, executed, changed, attempted, count, dropped>>

\* Accepted, and then no good receipt: no other route is tried.
SubmitConsumed ==
  /\ pc = "submit"
  /\ ~profile.dryRun
  /\ Out /\ accepted' = TRUE
  /\ attempted' = profile.tracked
  /\ pc' = "failed"
  /\ UNCHANGED <<profile, world, next, preload, valid, outcome, current, plan,
                 arb, facts, executed, changed, count, dropped>>

\* Accepted by a node whose answer is lost: sendTransaction throws before the
\* submission counts as accepted.
SubmitLost ==
  /\ pc = "submit"
  /\ profile.lossy /\ ~profile.dryRun
  /\ Out /\ accepted' = TRUE
  /\ NextRoute
  /\ UNCHANGED <<profile, world, next, preload, valid, outcome, current, arb,
                 facts, executed, changed, attempted, count, dropped>>

\* refreshAndReapproveDiscoveryExternalTake: approved on a fresh status, or
\* passed over because the read fails or a policy rejects it.
Fallback ==
  /\ pc = "fallback"
  /\ \/ /\ facts' = StatusOf(current)
        /\ read' = TRUE
        /\ pc' = "submit"
        /\ UNCHANGED plan
     \/ NextRoute /\ UNCHANGED <<facts, read>>
  /\ UNCHANGED <<profile, world, next, preload, valid, outcome, current, arb,
                 executed, changed, attempted, count, dropped, epoch, history>>

\* After an external take the arb take needs a fresh approval; a failing read
\* is the end of it.
Recheck ==
  /\ pc = "recheck"
  /\ \/ LET s == StatusOf(current) IN
        \E approved \in ArbApprovals(s) :
          /\ facts' = s /\ read' = TRUE
          /\ arb' = approved
          /\ pc' = IF approved THEN "arb" ELSE "returned"
     \/ /\ arb' = FALSE /\ pc' = "returned"
        /\ UNCHANGED <<facts, read>>
  /\ UNCHANGED <<profile, world, next, preload, valid, outcome, current, plan,
                 executed, changed, attempted, count, dropped, epoch, history>>

ArbSucceeds ==
  /\ pc = "arb"
  /\ ~profile.dryRun
  /\ Out /\ Included
  /\ executed' = TRUE /\ changed' = TRUE
  /\ pc' = "returned"
  /\ UNCHANGED <<profile, next, preload, valid, outcome, current, plan, arb,
                 facts, attempted, count, dropped, accepted>>

ArbDry ==
  /\ pc = "arb"
  /\ profile.dryRun
  /\ executed' = TRUE
  /\ read' = FALSE
  /\ pc' = "returned"
  /\ UNCHANGED <<profile, world, next, preload, valid, outcome, current, plan,
                 arb, facts, changed, attempted, count, dropped, epoch, history>>

\* Accepted without a good receipt: the nonce-consumed error is not swallowed.
ArbConsumed ==
  /\ pc = "arb"
  /\ ~profile.dryRun
  /\ Out
  /\ changed' = TRUE
  /\ pc' = "returned"
  /\ UNCHANGED <<profile, world, next, preload, valid, outcome, current, plan,
                 arb, facts, executed, attempted, count, dropped, accepted>>

\* Any other error is swallowed: no arb take.
ArbRefused ==
  /\ pc = "arb"
  /\ ~profile.dryRun
  /\ read' = FALSE
  /\ pc' = "returned"
  /\ UNCHANGED <<profile, world, next, preload, valid, outcome, decision, count,
                 dropped, epoch, history>>

ArbLost ==
  /\ pc = "arb"
  /\ profile.lossy /\ ~profile.dryRun
  /\ Out
  /\ pc' = "returned"
  /\ UNCHANGED <<profile, world, next, preload, valid, outcome, decision, count,
                 dropped, accepted>>

-----------------------------------------------------------------------------
(***************************************************************************)
(* Back in processTakeCandidates                                           *)
(***************************************************************************)

Stop == pc' = "done" /\ UNCHANGED <<next, outcome, dropped>>

Continue == pc' = "pick" /\ UNCHANGED <<next, outcome, dropped>>

\* Out of the window: what is left of it was evaluated on old statuses.
Break ==
  /\ pc' = "window"
  /\ next' = next + profile.concurrency
  /\ dropped' = dropped \cup Pending
  /\ outcome' = Unread

\* executeTakeDecision returned.
Return ==
  /\ pc = "returned"
  /\ count' = IF executed THEN count + 1 ELSE count
  /\ IF executed /\ profile.max > 0 /\ count' >= profile.max
     THEN Stop /\ UNCHANGED valid
     ELSE /\ valid' = (valid /\ ~changed)
          /\ IF changed
             THEN IF profile.stop THEN Stop ELSE Break
             ELSE Continue
  /\ UNCHANGED <<profile, world, preload, decision, epoch, history, read>>

\* Mutant: a failed execution is skipped like a failed evaluation.
CatchIgnoring ==
  /\ pc = "failed"
  /\ Continue
  /\ UNCHANGED <<profile, world, preload, valid, decision, count, epoch, history,
                 read>>

\* Mutant: a decision that failed before its broadcast is tried again at once.
CatchRetrying ==
  /\ pc = "failed"
  /\ IF ~profile.dryRun /\ attempted
     THEN /\ valid' = FALSE
          /\ IF profile.stop \/ profile.stopFailed THEN Stop ELSE Break
     ELSE /\ pc' = IF profile.revalidate THEN "revalidate" ELSE "failed"
          /\ UNCHANGED <<next, outcome, dropped, valid>>
  /\ UNCHANGED <<profile, world, preload, decision, count, epoch, history, read>>

\* It threw: after an attempted submission the pool may have changed.
Catch ==
  /\ pc = "failed"
  /\ IF ~profile.dryRun /\ attempted
     THEN /\ valid' = FALSE
          /\ IF profile.stop \/ profile.stopFailed THEN Stop ELSE Break
     ELSE Continue /\ UNCHANGED valid
  /\ UNCHANGED <<profile, world, preload, decision, count, epoch, history, read>>

-----------------------------------------------------------------------------
(***************************************************************************)
(* The auctions                                                            *)
(***************************************************************************)

\* A price decays, a taker (or an own transaction thought lost) reduces the
\* collateral, or the borrower of an auction that ended is kicked again.
AuctionMoves(c) ==
  /\ pc # "done"
  /\ events < MaxEvents
  /\ events' = events + 1
  /\ \/ /\ auction[c].coll > 0 /\ auction[c].price > 0
        /\ auction' = [auction EXCEPT ![c].price = @ - 1]
     \/ \E k \in 0 .. (MaxColl - 1) :
          /\ k < auction[c].coll
          /\ auction' = [auction EXCEPT ![c].coll = k]
     \/ /\ auction[c].coll = 0
        /\ auction' = [auction EXCEPT ![c] = [coll |-> MaxColl, price |-> MaxPrice]]
  /\ UNCHANGED <<profile, pc, next, preload, valid, outcome, decision, count,
                 dropped, epoch, history, read>>

Evaluation ==
  \/ ReadWindow \/ EndRun \/ NextWindow
  \/ \E c \in Candidates :
       Evaluate(c) \/ EvaluateFails(c) \/ Skip(c) \/ Begin(c)

External ==
  \/ SubmitSucceeds \/ SubmitDry \/ SubmitRefused \/ SubmitConsumed \/ SubmitLost
  \/ Fallback

Arb == ArbSucceeds \/ ArbDry \/ ArbConsumed \/ ArbRefused \/ ArbLost

Step ==
  \/ Evaluation
  \/ Revalidate \/ RevalidateFails
  \/ External
  \/ Recheck
  \/ Arb
  \/ Return \/ Catch

Next == Step \/ \E c \in Candidates : AuctionMoves(c)

Spec == Init /\ [][Next]_vars

\* Every read, quote and submission returns in the end.
FairSpec == Spec /\ WF_vars(Step)

-----------------------------------------------------------------------------
(***************************************************************************)
(* Properties                                                              *)
(***************************************************************************)

\* Where every answer arrives, what the engine acts on, or drops a candidate
\* for, was read after its last transaction that may have changed the pool:
\* no failed, half-failed or successful submission leaves a stale status in
\* use (preloadedStatusesValid, the breaks and returns of the window loop, the
\* revalidation of the arb take and the refresh of a fallback route).
FreshFacts ==
  ~profile.lossy =>
    /\ pc \in {"submit", "arb"} => facts.epoch = epoch
    /\ pc = "pick" =>
         \A c \in Candidates :
           First(c) /\ outcome[c].facts # None => outcome[c].facts.epoch = epoch

\* Where every answer arrives, no external route is tried for a borrower after
\* one whose transaction may have been accepted (ExternalTakeExecution-
\* AttemptResult in discovery/external-take/provider.ts).
NoSecondSubmission == ~profile.lossy /\ pc = "submit" => ~accepted

\* Every transaction of a discovered target has a reading of the auction of its
\* own since the one before, the fallbacks and the arb take after a take too.
ReadBeforeEach == profile.revalidate /\ pc \in {"submit", "arb"} => read

\* With the default of one execution per pool and run, one borrower at most is
\* transacted with, failed submissions that may have been accepted included,
\* and no run counts more successes than its limit.
OneBorrowerPerRun ==
  /\ profile.max > 0 => count <= profile.max
  /\ ~profile.lossy /\ profile.max = 1 => Cardinality(sent) <= 1

\* A run that goes on after a transaction has left no candidate of the window
\* unexamined: where it may go on the windows are of one.
NoneDropped == dropped = {}

\* A run ends, however the auctions move and whatever fails.
RunEnds == <>(pc = "done")

\* What provider.ts says of an attempt: once a submission is accepted or maybe
\* accepted it is not reported as failed before the broadcast, "so no
\* double-submit or fallback occurs".
NoFallbackAfterMaybeAccepted == pc = "submit" => ~accepted

-----------------------------------------------------------------------------
(***************************************************************************)
(* The inductive invariants                                                *)
(***************************************************************************)

\* Between a decision's taking up and its end.
Executing ==
  pc \in {"revalidate", "submit", "fallback", "recheck", "arb", "returned",
          "failed"}

\* There is a route to submit, or to fall back to.
Routed == pc \in {"submit", "fallback"} => plan # <<>>

\* What is evaluated belongs to the window, and all of it is gone before the
\* next; a window of one is empty once its decision is executed.
WindowInv ==
  /\ \A c \in Candidates : outcome[c] # None => c \in Window
  /\ pc = "window" => Pending = {}
  /\ profile.concurrency = 1 /\ Executing => Pending = {}

\* Read after the last transaction, like everything that is still to be
\* executed, which has a status unless there is nothing to execute.
AllFresh ==
  \A c \in Candidates :
    outcome[c] # None =>
      IF outcome[c].facts = None
      THEN outcome[c].plan = <<>> /\ ~outcome[c].arb
      ELSE outcome[c].facts.epoch = epoch

\* As long as no transaction has gone out everything is fresh; after one, what
\* is stale is thrown away where the execution ends, on account of changed or
\* attempted, or there is nothing left.
FreshInv ==
  ~profile.lossy =>
    /\ pc = "evaluate" =>
         \A c \in Candidates : preload[c] # None => preload[c].epoch = epoch
    /\ pc \in {"window", "evaluate", "pick", "revalidate", "submit", "fallback"}
         => AllFresh
    /\ pc \in {"recheck", "arb", "returned"} => AllFresh \/ changed
    /\ pc = "failed" =>
         AllFresh \/ (attempted /\ ~profile.dryRun) \/ Pending = {}
    /\ pc \in {"submit", "arb"} => facts # None /\ facts.epoch = epoch

\* No submission has been accepted while there are routes left to try.
AcceptedInv ==
  ~profile.lossy /\ pc \in {"revalidate", "submit", "fallback"} => ~accepted

\* The run stops with the execution that reaches the limit.
CapInv == profile.max > 0 /\ pc # "done" => count < profile.max

\* With a limit of one, the first borrower transacted with is the last.
SentInv ==
  ~profile.lossy /\ profile.max = 1 =>
    /\ pc \in {"window", "evaluate", "pick", "revalidate", "submit", "fallback"}
         => sent = {}
    /\ pc \in {"recheck", "arb", "returned"} => sent = {} \/ changed
    /\ pc = "failed" => sent = {} \/ (attempted /\ ~profile.dryRun)
    /\ sent \subseteq {current}

\* How the engine is called: by handleDiscoveredTakeTarget or for a manual
\* target, in earnest or dry, over any node.
Called(p) ==
  \E max, concurrency \in Nat \ {0}, dry, lossy \in BOOLEAN :
    \/ p = [Discovered(max, concurrency) EXCEPT !.dryRun = dry, !.lossy = lossy]
    \/ p = [Manual EXCEPT !.dryRun = dry, !.lossy = lossy]
=============================================================================
