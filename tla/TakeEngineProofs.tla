-------------------------- MODULE TakeEngineProofs --------------------------
(***************************************************************************)
(* Proofs about the take engine, for any number of candidates, any window, *)
(* any limit of executions, and auctions of any size.                      *)
(*                                                                         *)
(* Each invariant is inductive by itself, relative to those before it:     *)
(* types and routes first, then the window, then freshness and the         *)
(* counters, whose arguments all run along the program counter.            *)
(***************************************************************************)
EXTENDS TakeEngine, FiniteSetTheorems, TLAPS

-----------------------------------------------------------------------------
(***************************************************************************)
(* Types                                                                   *)
(***************************************************************************)

\* A status read from the chain is a status, is not None, and is as old as the
\* last own transaction.
LEMMA AuctionStatus ==
  ASSUME TypeOK, NEW c \in Candidates
  PROVE  /\ StatusOf(c) \in Status
         /\ StatusOf(c).epoch = epoch
         /\ StatusOf(c) # None
<1>1. auction[c] \in Auction
  BY DEF TypeOK
<1>2. StatusOf(c) \in Status
  BY <1>1 DEF TypeOK, StatusOf, Status, Auction
<1> QED BY <1>2, EngineAssumption DEF StatusOf

\* Every order in which routes may be tried is a sequence of routes.
LEMMA PlansRoutes == Plans \cup {<<>>} \subseteq Seq(Routes)
<1>1. /\ <<"direct_dex">> \in Seq(Routes) /\ <<"aggregator">> \in Seq(Routes)
      /\ <<"gas_fallback">> \in Seq(Routes) /\ <<>> \in Seq(Routes)
  BY DEF Routes
<1>2. /\ <<"direct_dex", "aggregator">> \in Seq(Routes)
      /\ <<"aggregator", "direct_dex">> \in Seq(Routes)
      /\ <<"aggregator", "gas_fallback">> \in Seq(Routes)
  BY DEF Routes
<1> QED BY <1>1, <1>2, Zenon DEF Plans

\* What may be approved at a status is a decision on that status.
LEMMA ApprovableType ==
  ASSUME NEW s \in Status, NEW o \in Approvable(s)
  PROVE  o \in Decision /\ o.facts = s
<1>1. o \in [plan : Plans \cup {<<>>}, arb : BOOLEAN, facts : {s}]
  <2>1. CASE s.coll = 0 \/ s.price > TakeablePrice
    <3>1. o = [plan |-> <<>>, arb |-> FALSE, facts |-> s]
      BY <2>1 DEF Approvable
    <3> QED BY <3>1
  <2>2. CASE ~(s.coll = 0 \/ s.price > TakeablePrice)
    BY <2>2 DEF Approvable
  <2> QED BY <2>1, <2>2
<1> QED BY <1>1, PlansRoutes DEF Decision

\* The next route exists, or the candidate has failed.
LEMMA RoutesLeft ==
  ASSUME TypeOK, Routed, NextRoute, pc \in {"submit", "fallback"}
  PROVE  plan' \in Seq(Routes) /\ pc' \in {"fallback", "failed"} /\ Routed'
  BY DEF TypeOK, Routed, NextRoute

\* A transaction that goes out keeps the types of the history.
LEMMA OutTypes ==
  ASSUME TypeOK, Out
  PROVE  /\ epoch' \in Nat
         /\ sent' \subseteq Candidates
         /\ read' \in BOOLEAN
<1>1. read' \in BOOLEAN
  BY Zenon DEF Out
<1> QED BY <1>1 DEF TypeOK, Out

\* A transaction that is included leaves an auction an auction.
LEMMA IncludedType ==
  ASSUME TypeOK, Included
  PROVE  auction' \in [Candidates -> Auction] /\ events' = events
<1>1. PICK k \in 0 .. (auction[current].coll - 1) :
        auction' = [auction EXCEPT ![current].coll = k]
  BY DEF Included
<1>2. auction[current] \in Auction
  BY DEF TypeOK
<1>3. [auction[current] EXCEPT !.coll = k] \in Auction
  BY <1>1, <1>2, EngineAssumption DEF Auction
<1> QED BY <1>1, <1>3 DEF TypeOK, Included

\* The first states of a run have the types.
LEMMA InitTypes == Init => TypeOK /\ Routed
<1> SUFFICES ASSUME Init PROVE TypeOK /\ Routed
  OBVIOUS
<1> USE DEF Init
<1>1. current \in Candidates
  BY EngineAssumption DEF Candidates
<1>2. auction \in [Candidates -> Auction]
  <2>1. [coll |-> MaxColl, price |-> TakeablePrice] \in Auction
    BY EngineAssumption DEF Auction
  <2> QED BY <2>1
<1>3. /\ preload \in [Candidates -> Status \cup {None}]
      /\ outcome \in [Candidates -> Decision \cup {None}]
  BY DEF Unread
<1>4. events \in 0 .. MaxEvents
  BY EngineAssumption
<1>5. plan \in Seq(Routes)
  OBVIOUS
<1>6. Routed
  BY DEF Routed
<1>7. /\ profile \in Profile /\ next \in Nat \ {0} /\ count \in Nat
      /\ pc \in {"window", "evaluate", "pick", "revalidate", "submit", "fallback",
                "recheck", "arb", "returned", "failed", "done"}
      /\ facts \in Status \cup {None} /\ epoch \in Nat
  OBVIOUS
<1>9. /\ valid \in BOOLEAN /\ arb \in BOOLEAN /\ executed \in BOOLEAN
      /\ changed \in BOOLEAN /\ attempted \in BOOLEAN /\ accepted \in BOOLEAN
      /\ read \in BOOLEAN
  BY Zenon
<1>8. dropped \subseteq Candidates /\ sent \subseteq Candidates
  OBVIOUS
<1> QED BY <1>1, <1>2, <1>3, <1>4, <1>5, <1>6, <1>7, <1>8, <1>9 DEF TypeOK

\* Every step keeps the types, and never leaves a submission without a route.
LEMMA StepTypes == TypeOK /\ Routed /\ [Next]_vars => TypeOK' /\ Routed'
<1> SUFFICES ASSUME TypeOK, Routed, [Next]_vars
             PROVE  TypeOK' /\ Routed'
  OBVIOUS
<1> USE DEF TypeOK, Routed
<1>1. CASE ReadWindow
  <2>1. preload' \in [Candidates -> Status \cup {None}]
    BY <1>1, AuctionStatus DEF ReadWindow
  <2>2. outcome' \in [Candidates -> Decision \cup {None}]
    BY <1>1 DEF ReadWindow, Unread
  <2> QED BY <1>1, <2>1, <2>2 DEF ReadWindow, decision, world, history
<1>2. CASE EndRun \/ NextWindow
  <2>1. profile.concurrency \in Nat \ {0}
    BY EngineAssumption DEF ProfileType
  <2> QED BY <1>2, <2>1 DEF EndRun, NextWindow, decision, world, history
<1>3. ASSUME NEW c \in Candidates, Evaluate(c)
      PROVE  TypeOK' /\ Routed'
  <2>1. outcome' \in [Candidates -> Decision \cup {None}]
    <3>1. PICK s \in Status : \E o \in Approvable(s) :
                                outcome' = [outcome EXCEPT ![c] = o]
      BY <1>3, AuctionStatus DEF Evaluate
    <3> QED BY <3>1, ApprovableType
  <2> QED BY <1>3, <2>1 DEF Evaluate, decision, world, history
<1>4. ASSUME NEW c \in Candidates, EvaluateFails(c)
      PROVE  TypeOK' /\ Routed'
  <2>1. [plan |-> <<>>, arb |-> FALSE, facts |-> None] \in Decision
    BY DEF Decision
  <2> QED BY <1>4, <2>1 DEF EvaluateFails, decision, world, history
<1>5. ASSUME NEW c \in Candidates, Skip(c)
      PROVE  TypeOK' /\ Routed'
  BY <1>5 DEF Skip, decision, world, history
<1>6. ASSUME NEW c \in Candidates, Begin(c)
      PROVE  TypeOK' /\ Routed'
  <2>1. outcome[c] \in Decision
    BY <1>6 DEF Begin, First, Pending, Window
  <2>2. /\ outcome[c].plan \in Seq(Routes)
        /\ outcome[c].arb \in BOOLEAN
        /\ outcome[c].facts \in Status \cup {None}
    BY <2>1 DEF Decision
  <2> QED BY <1>6, <2>2 DEF Begin, world
<1>7. CASE Revalidate \/ RevalidateFails
  <2>1. CASE Revalidate
    <3>1. arb' \in BOOLEAN
      BY <2>1, Zenon DEF Revalidate, ArbApprovals
    <3>2. facts' \in Status \cup {None}
      BY <2>1, AuctionStatus DEF Revalidate
    <3>3. plan' \in Seq(Routes)
      <4>1. plan' = plan \/ plan' = <<>>
        BY <2>1, Zenon DEF Revalidate
      <4>2. <<>> \in Seq(Routes) /\ plan \in Seq(Routes)
        BY PlansRoutes
      <4> QED BY <4>1, <4>2, Zenon
    <3>5. read' \in BOOLEAN
      BY <2>1, Zenon DEF Revalidate
    <3>4. pc' \in {"pick", "fallback", "submit", "arb"} /\ Routed'
      BY <2>1 DEF Revalidate
    <3> QED BY <2>1, <3>1, <3>2, <3>3, <3>4, <3>5 DEF Revalidate, world, history
  <2>2. CASE RevalidateFails
    BY <2>2 DEF RevalidateFails, decision, world, history
  <2> QED BY <1>7, <2>1, <2>2
<1>8. CASE External
  <2>1. CASE SubmitSucceeds
    <3>1. /\ accepted' \in BOOLEAN /\ executed' \in BOOLEAN
          /\ changed' \in BOOLEAN
      BY <2>1, Zenon DEF SubmitSucceeds
    <3>2. pc' \in {"recheck", "returned"}
      BY <2>1 DEF SubmitSucceeds
    <3> QED BY <2>1, <3>1, <3>2, OutTypes, IncludedType DEF SubmitSucceeds
  <2>2. CASE SubmitDry
    BY <2>2 DEF SubmitDry, world, history
  <2>3. CASE SubmitRefused
    BY <2>3, RoutesLeft DEF SubmitRefused, world, history
  <2>4. CASE SubmitConsumed
    <3>1. accepted' \in BOOLEAN
      BY <2>4, Zenon DEF SubmitConsumed
    <3>2. attempted' \in BOOLEAN
      BY <2>4, EngineAssumption DEF SubmitConsumed, ProfileType
    <3> QED BY <2>4, <3>1, <3>2, OutTypes DEF SubmitConsumed, world
  <2>5. CASE SubmitLost
    <3>1. accepted' \in BOOLEAN
      BY <2>5, Zenon DEF SubmitLost
    <3> QED BY <2>5, <3>1, RoutesLeft, OutTypes DEF SubmitLost, world
  <2>6. CASE Fallback
    BY <2>6, RoutesLeft, AuctionStatus DEF Fallback, world, history
  <2> QED BY <1>8, <2>1, <2>2, <2>3, <2>4, <2>5, <2>6 DEF External
<1>9. CASE Recheck
  BY <1>9, AuctionStatus DEF Recheck, ArbApprovals, world, history
<1>10. CASE Arb
  <2>1. CASE ArbSucceeds
    <3>1. executed' \in BOOLEAN /\ changed' \in BOOLEAN
      BY <2>1, Zenon DEF ArbSucceeds
    <3> QED BY <2>1, <3>1, OutTypes, IncludedType DEF ArbSucceeds
  <2>2. CASE ArbDry \/ ArbRefused
    BY <2>2 DEF ArbDry, ArbRefused, decision, world, history
  <2>3. CASE ArbConsumed
    <3>1. changed' \in BOOLEAN
      BY <2>3, Zenon DEF ArbConsumed
    <3> QED BY <2>3, <3>1, OutTypes DEF ArbConsumed, world
  <2>4. CASE ArbLost
    BY <2>4, OutTypes DEF ArbLost, decision, world
  <2> QED BY <1>10, <2>1, <2>2, <2>3, <2>4 DEF Arb
<1>11. CASE Return \/ Catch
  <2>1. profile.concurrency \in Nat \ {0}
    BY EngineAssumption DEF ProfileType
  <2>2. Stop \/ Continue \/ Break
    BY <1>11 DEF Return, Catch
  <2>3. /\ pc' \in {"done", "pick", "window"}
        /\ next' \in Nat \ {0}
        /\ outcome' \in [Candidates -> Decision \cup {None}]
        /\ dropped' \subseteq Candidates
    BY <2>1, <2>2 DEF Stop, Continue, Break, Unread, Pending, Window
  <2>4. valid' \in BOOLEAN
    BY <1>11 DEF Return, Catch
  <2>5. count' \in Nat
    BY <1>11 DEF Return, Catch
  <2>6. UNCHANGED <<profile, world, preload, decision, epoch, history, read>>
    BY <1>11 DEF Return, Catch
  <2> QED BY <2>3, <2>4, <2>5, <2>6 DEF decision, world, history
<1>12. ASSUME NEW c \in Candidates, AuctionMoves(c)
       PROVE  TypeOK' /\ Routed'
  <2>1. auction[c] \in Auction
    OBVIOUS
  <2>2. PICK a \in Auction : auction' = [auction EXCEPT ![c] = a]
    <3>1. CASE auction[c].price > 0 /\ auction' = [auction EXCEPT ![c].price = @ - 1]
      <4>1. [auction[c] EXCEPT !.price = @ - 1] \in Auction
        BY <2>1, <3>1, EngineAssumption DEF Auction
      <4> QED BY <3>1, <4>1
    <3>2. ASSUME NEW k \in 0 .. (MaxColl - 1),
                 auction' = [auction EXCEPT ![c].coll = k]
          PROVE  \E a \in Auction : auction' = [auction EXCEPT ![c] = a]
      <4> DEFINE a == [auction[c] EXCEPT !.coll = k]
      <4>1. k \in 0 .. MaxColl
        BY EngineAssumption
      <4>2. a \in Auction
        BY <2>1, <4>1 DEF Auction
      <4> QED BY <3>2, <4>2
    <3>3. CASE auction' = [auction EXCEPT ![c] = [coll |-> MaxColl, price |-> MaxPrice]]
      <4>1. [coll |-> MaxColl, price |-> MaxPrice] \in Auction
        BY EngineAssumption DEF Auction
      <4> QED BY <3>3, <4>1
    <3> QED BY <1>12, <3>1, <3>2, <3>3 DEF AuctionMoves
  <2>3. auction' \in [Candidates -> Auction]
    BY <2>2
  <2>4. events' \in 0 .. MaxEvents
    BY <1>12, EngineAssumption DEF AuctionMoves
  <2> QED BY <1>12, <2>3, <2>4 DEF AuctionMoves, decision, history
<1>13. CASE UNCHANGED vars
  BY <1>13 DEF vars, decision, world, history
<1> QED BY <1>1, <1>2, <1>3, <1>4, <1>5, <1>6, <1>7, <1>8, <1>9, <1>10, <1>11,
           <1>12, <1>13 DEF Next, Step, Evaluation

\* In every state of a run of processTakeCandidates the variables have their
\* types, and there is a route wherever one is to be submitted or fallen back to.
THEOREM EngineTypeOK == Spec => [](TypeOK /\ Routed)
<1>1. Init => TypeOK /\ Routed
  BY InitTypes
<1>2. (TypeOK /\ Routed) /\ [Next]_vars => (TypeOK /\ Routed)'
  BY StepTypes
<1> QED BY <1>1, <1>2, PTL DEF Spec

-----------------------------------------------------------------------------
(***************************************************************************)
(* What a step may do along the program counter                            *)
(***************************************************************************)

\* An evaluation step leads to another one or into an execution, and sends and
\* counts nothing.
LEMMA EvaluationSteps ==
  ASSUME Evaluation
  PROVE  /\ pc \in {"window", "evaluate", "pick"}
         /\ pc' \in {"window", "evaluate", "pick", "done"}
              \/ \E c \in Candidates : Begin(c)
         /\ UNCHANGED <<profile, count, dropped, epoch, sent>>
<1>1. CASE ReadWindow \/ EndRun \/ NextWindow
  BY <1>1 DEF ReadWindow, EndRun, NextWindow, history
<1>2. ASSUME NEW c \in Candidates, Evaluate(c) \/ EvaluateFails(c) \/ Skip(c)
      PROVE  /\ pc \in {"window", "evaluate", "pick"}
             /\ pc' \in {"window", "evaluate", "pick", "done"}
             /\ UNCHANGED <<profile, count, dropped, epoch, sent>>
  BY <1>2 DEF Evaluate, EvaluateFails, Skip, history
<1>3. ASSUME NEW c \in Candidates, Begin(c)
      PROVE  pc = "pick" /\ UNCHANGED <<profile, count, dropped, epoch, sent>>
  BY <1>3 DEF Begin
<1> QED BY <1>1, <1>2, <1>3 DEF Evaluation

\* Every submission of a discovered target, fallbacks and arb takes included,
\* follows a reading of the auction made after the submission before it.
THEOREM EngineReadsBeforeEach == Spec => []ReadBeforeEach
<1> USE DEF ReadBeforeEach
<1>1. Init => ReadBeforeEach
  BY DEF Init
<1>2. ReadBeforeEach /\ [Next]_vars => ReadBeforeEach'
  <2> SUFFICES ASSUME ReadBeforeEach, [Next]_vars
               PROVE  ReadBeforeEach'
    OBVIOUS
  <2>1. CASE Evaluation
    <3>1. CASE pc' \in {"window", "evaluate", "pick", "done"}
      BY <3>1
    <3>2. ASSUME NEW c \in Candidates, Begin(c)
          PROVE  ReadBeforeEach'
      BY <3>2 DEF Begin
    <3> QED BY <2>1, <3>1, <3>2, EvaluationSteps
  <2>2. CASE Revalidate \/ RevalidateFails
    BY <2>2 DEF Revalidate, RevalidateFails
  <2>3. CASE External
    BY <2>3 DEF External, SubmitSucceeds, SubmitDry, SubmitRefused,
                SubmitConsumed, SubmitLost, Fallback, NextRoute
  <2>4. CASE Recheck
    BY <2>4 DEF Recheck
  <2>5. CASE Arb
    BY <2>5 DEF Arb, ArbSucceeds, ArbDry, ArbConsumed, ArbRefused, ArbLost
  <2>6. CASE Return \/ Catch
    BY <2>6 DEF Return, Catch, Stop, Break, Continue
  <2>7. CASE UNCHANGED vars \/ \E c \in Candidates : AuctionMoves(c)
    BY <2>7 DEF vars, AuctionMoves
  <2> QED BY <2>1, <2>2, <2>3, <2>4, <2>5, <2>6, <2>7 DEF Next, Step
<1> QED BY <1>1, <1>2, PTL DEF Spec

\* Where answers arrive, no external route is submitted after one that may have
\* been accepted for the same candidate.
THEOREM EngineSubmitsOnce == Spec => []NoSecondSubmission
<1> USE DEF AcceptedInv
<1>1. Init => AcceptedInv
  BY DEF Init
<1>2. AcceptedInv /\ [Next]_vars => AcceptedInv'
  <2> SUFFICES ASSUME AcceptedInv, [Next]_vars
               PROVE  AcceptedInv'
    OBVIOUS
  <2>1. CASE Evaluation
    <3>1. CASE pc' \in {"window", "evaluate", "pick", "done"}
      BY <3>1
    <3>2. ASSUME NEW c \in Candidates, Begin(c)
          PROVE  AcceptedInv'
      BY <3>2 DEF Begin
    <3> QED BY <2>1, <3>1, <3>2, EvaluationSteps
  <2>2. CASE Revalidate \/ RevalidateFails
    BY <2>2 DEF Revalidate, RevalidateFails, history
  <2>3. CASE External
    BY <2>3 DEF External, SubmitSucceeds, SubmitDry, SubmitRefused,
                SubmitConsumed, SubmitLost, Fallback, NextRoute, history
  <2>4. CASE Recheck
    BY <2>4 DEF Recheck
  <2>5. CASE Arb
    BY <2>5 DEF Arb, ArbSucceeds, ArbDry, ArbConsumed, ArbRefused, ArbLost
  <2>6. CASE Return \/ Catch
    BY <2>6 DEF Return, Catch, Stop, Break, Continue
  <2>7. CASE UNCHANGED vars \/ \E c \in Candidates : AuctionMoves(c)
    BY <2>7 DEF vars, AuctionMoves, history
  <2> QED BY <2>1, <2>2, <2>3, <2>4, <2>5, <2>6, <2>7 DEF Next, Step
<1>3. AcceptedInv => NoSecondSubmission
  BY DEF NoSecondSubmission
<1> QED BY <1>1, <1>2, <1>3, PTL DEF Spec

-----------------------------------------------------------------------------
(***************************************************************************)
(* The window and the limits                                               *)
(***************************************************************************)

\* What the callers' options have in common.
LEMMA CalledOptions ==
  ASSUME NEW p, Called(p)
  PROVE  /\ p.tracked \/ p.concurrency = 1
         /\ ~p.stop => p.concurrency = 1
         /\ p.max = 1 => p.tracked /\ p.stop
<1>1. PICK max \in Nat \ {0}, concurrency \in Nat \ {0},
           dry \in BOOLEAN, lossy \in BOOLEAN :
        \/ p = [Discovered(max, concurrency) EXCEPT !.dryRun = dry, !.lossy = lossy]
        \/ p = [Manual EXCEPT !.dryRun = dry, !.lossy = lossy]
  BY DEF Called
<1>2. CASE p = [Discovered(max, concurrency) EXCEPT !.dryRun = dry, !.lossy = lossy]
  <2>1. p.tracked /\ p.max = max /\ (max <= 1 => p.stop)
    BY <1>2, Zenon DEF Discovered
  <2>2. max > 1 => p.concurrency = 1
    BY <1>2, Zenon DEF Discovered
  <2>3. max = 1 => max <= 1
    OBVIOUS
  <2>4. max <= 1 \/ max > 1
    OBVIOUS
  <2> QED BY <2>1, <2>2, <2>3, <2>4, Zenon
<1>3. CASE p = [Manual EXCEPT !.dryRun = dry, !.lossy = lossy]
  BY <1>3 DEF Manual
<1> QED BY <1>1, <1>2, <1>3

\* Nothing pending in the window is nothing evaluated at all.
LEMMA NothingPending ==
  ASSUME WindowInv, Pending = {}
  PROVE  \A c \in Candidates : outcome[c] = None
BY DEF WindowInv, Pending

\* A window of one has nothing left once its decision is taken up.
LEMMA LastOfOne ==
  ASSUME TypeOK, profile.concurrency = 1, WindowInv, NEW c \in Candidates, Begin(c)
  PROVE  \A d \in Candidates : outcome'[d] = None
<1>1. c \in Window
  BY DEF Begin, First, Pending
<1>2. \A d \in Window : d = c
  BY <1>1 DEF Window, Candidates, TypeOK
<1>3. outcome' = [outcome EXCEPT ![c] = None]
  BY DEF Begin
<1> QED BY <1>2, <1>3 DEF WindowInv, TypeOK

\* Every step keeps what is evaluated inside the window.
LEMMA WindowStep ==
  TypeOK /\ WindowInv /\ [Next]_vars => WindowInv'
<1> SUFFICES ASSUME TypeOK, WindowInv, [Next]_vars
             PROVE  WindowInv'
  OBVIOUS
<1>1. CASE ReadWindow
  BY <1>1 DEF ReadWindow, WindowInv, Unread, Pending, Window, Executing
<1>2. CASE EndRun
  BY <1>2 DEF EndRun, WindowInv, Pending, Window, Executing
<1>3. CASE NextWindow
  <2>1. \A c \in Candidates : outcome'[c] = None
    BY <1>3, NothingPending DEF NextWindow
  <2> QED BY <1>3, <2>1 DEF NextWindow, WindowInv, Pending, Window, Executing
<1>4. ASSUME NEW c \in Candidates, Evaluate(c) \/ EvaluateFails(c) \/ Skip(c)
      PROVE  WindowInv'
  <2>1. \A d \in Candidates : d # c => outcome'[d] = outcome[d]
    BY <1>4 DEF Evaluate, EvaluateFails, Skip, TypeOK
  <2>2. c \in Window /\ UNCHANGED <<profile, next>> /\ pc' \in {"evaluate", "pick"}
    BY <1>4 DEF Evaluate, EvaluateFails, Skip, First, Pending
  <2> QED BY <2>1, <2>2 DEF WindowInv, Pending, Window, Executing
<1>5. ASSUME NEW c \in Candidates, Begin(c)
      PROVE  WindowInv'
  <2>1. outcome' = [outcome EXCEPT ![c] = None] /\ pc' # "window"
    BY <1>5 DEF Begin
  <2>2. UNCHANGED <<profile, next>>
    BY <1>5 DEF Begin
  <2>3. profile.concurrency = 1 => Pending' = {}
    BY <1>5, LastOfOne DEF Pending, Window
  <2> QED BY <2>1, <2>2, <2>3 DEF WindowInv, Pending, Window, TypeOK
<1>6. CASE Revalidate \/ RevalidateFails \/ External \/ Recheck \/ Arb
  <2>1. UNCHANGED <<profile, next, outcome>> /\ Executing /\ pc' # "window"
    BY <1>6 DEF Revalidate, RevalidateFails, External, SubmitSucceeds, SubmitDry,
                SubmitRefused, SubmitConsumed, SubmitLost, Fallback, NextRoute,
                Recheck, Arb, ArbSucceeds, ArbDry, ArbConsumed, ArbRefused,
                ArbLost, decision, Executing
  <2> QED BY <2>1 DEF WindowInv, Pending, Window
<1>7. CASE Return \/ Catch
  <2>1. UNCHANGED profile /\ (Stop \/ Continue \/ Break)
    BY <1>7 DEF Return, Catch
  <2>2. CASE Stop \/ Continue
    BY <2>1, <2>2 DEF Stop, Continue, WindowInv, Pending, Window, Executing
  <2>3. CASE Break
    BY <2>1, <2>3 DEF Break, Unread, WindowInv, Pending, Window, Executing
  <2> QED BY <2>1, <2>2, <2>3
<1>8. CASE UNCHANGED vars \/ \E c \in Candidates : AuctionMoves(c)
  BY <1>8 DEF vars, AuctionMoves, WindowInv, Pending, Window, Executing
<1> QED BY <1>1, <1>2, <1>3, <1>4, <1>5, <1>6, <1>7, <1>8
        DEF Next, Step, Evaluation

\* What is evaluated belongs to the window being executed, is gone before the
\* next one, and with a window of one is gone when its decision is taken up.
THEOREM EngineWindows == Spec => []WindowInv
<1>1. Init => WindowInv
  <2> SUFFICES ASSUME Init PROVE WindowInv
    OBVIOUS
  <2>1. pc = "window" /\ \A c \in Candidates : outcome[c] = None
    BY DEF Init, Unread
  <2> QED BY <2>1 DEF WindowInv, Pending, Window, Executing
<1> QED BY <1>1, WindowStep, EngineTypeOK, PTL DEF Spec

-----------------------------------------------------------------------------
(***************************************************************************)
(* Freshness: the hypothesis on the profile is what CalledOptions gives.   *)
(***************************************************************************)

Options(p) == p.tracked \/ p.concurrency = 1

\* An evaluation decides on a status read after the last transaction.
LEMMA ApprovedFresh ==
  ASSUME TypeOK, FreshInv, ~profile.lossy, NEW c \in Candidates, Evaluate(c)
  PROVE  \E o \in Decision :
           /\ outcome' = [outcome EXCEPT ![c] = o]
           /\ o.facts # None /\ o.facts.epoch = epoch
<1> DEFINE s == IF preload[c] # None THEN preload[c] ELSE StatusOf(c)
<1>1. s \in Status /\ s # None /\ s.epoch = epoch
  BY AuctionStatus DEF TypeOK, FreshInv, Evaluate
<1>2. PICK o \in Approvable(s) : outcome' = [outcome EXCEPT ![c] = o]
  BY DEF Evaluate
<1> HIDE DEF s
<1>3. o \in Decision /\ o.facts = s
  BY <1>1, <1>2, ApprovableType
<1> QED BY <1>1, <1>2, <1>3

\* Every step keeps what may still be acted upon fresh.
LEMMA FreshStep ==
  TypeOK /\ WindowInv /\ Options(profile) /\ FreshInv /\ [Next]_vars => FreshInv'
<1> SUFFICES ASSUME TypeOK, WindowInv, Options(profile), FreshInv, [Next]_vars,
                    ~profile'.lossy
             PROVE  FreshInv'
  BY DEF FreshInv
<1>0. ~profile.lossy
  BY DEF Next, Step, Evaluation, ReadWindow, EndRun, NextWindow, Evaluate,
         EvaluateFails, Skip, Begin, Revalidate, RevalidateFails, External,
         SubmitSucceeds, SubmitDry, SubmitRefused, SubmitConsumed, SubmitLost,
         Fallback, Recheck, Arb, ArbSucceeds, ArbDry, ArbConsumed, ArbRefused,
         ArbLost, Return, Catch, AuctionMoves, vars
<1>1. CASE ReadWindow
  BY <1>1, AuctionStatus DEF ReadWindow, Unread, FreshInv, AllFresh
<1>2. CASE EndRun
  BY <1>2 DEF EndRun, FreshInv
<1>3. CASE NextWindow
  BY <1>0, <1>3 DEF NextWindow, FreshInv, AllFresh
<1>4. ASSUME NEW c \in Candidates, Evaluate(c)
      PROVE  FreshInv'
  <2>1. PICK o \in Decision :
          /\ outcome' = [outcome EXCEPT ![c] = o]
          /\ o.facts # None /\ o.facts.epoch = epoch
    BY <1>0, <1>4, ApprovedFresh
  <2>2. AllFresh /\ pc = "evaluate"
    BY <1>0, <1>4 DEF Evaluate, FreshInv
  <2>3. UNCHANGED <<epoch, preload>> /\ pc' \in {"pick", "evaluate"}
    BY <1>4 DEF Evaluate
  <2>4. AllFresh'
    BY <2>1, <2>2, <2>3 DEF AllFresh, TypeOK
  <2> QED BY <1>0, <2>2, <2>3, <2>4 DEF FreshInv
<1>5. ASSUME NEW c \in Candidates, EvaluateFails(c)
      PROVE  FreshInv'
  <2>1. AllFresh'
    BY <1>0, <1>5 DEF EvaluateFails, FreshInv, AllFresh, TypeOK
  <2> QED BY <1>0, <1>5, <2>1 DEF EvaluateFails, FreshInv
<1>6. ASSUME NEW c \in Candidates, Skip(c)
      PROVE  FreshInv'
  <2>1. AllFresh'
    BY <1>0, <1>6 DEF Skip, FreshInv, AllFresh, TypeOK
  <2> QED BY <1>0, <1>6, <2>1 DEF Skip, FreshInv
<1>7. ASSUME NEW c \in Candidates, Begin(c)
      PROVE  FreshInv'
  <2>1. AllFresh /\ outcome[c] # None
    BY <1>0, <1>7 DEF Begin, First, Pending, FreshInv
  <2>2. AllFresh'
    BY <1>7, <2>1 DEF Begin, AllFresh, TypeOK
  <2>3. facts' # None /\ facts'.epoch = epoch
    BY <1>7, <2>1 DEF Begin, AllFresh
  <2>4. pc' \in {"revalidate", "submit", "arb"} /\ UNCHANGED epoch
    BY <1>7 DEF Begin
  <2> QED BY <2>2, <2>3, <2>4 DEF FreshInv
<1>8. CASE Revalidate
  BY <1>0, <1>8, AuctionStatus DEF Revalidate, FreshInv, AllFresh, TypeOK
<1>9. CASE RevalidateFails
  BY <1>0, <1>9 DEF RevalidateFails, FreshInv, AllFresh
<1>10. CASE SubmitSucceeds
  BY <1>10 DEF SubmitSucceeds, FreshInv
<1>11. CASE SubmitDry
  BY <1>0, <1>11 DEF SubmitDry, FreshInv, AllFresh, history
<1>12. CASE SubmitRefused
  BY <1>0, <1>12 DEF SubmitRefused, NextRoute, FreshInv, AllFresh
<1>13. CASE SubmitConsumed
  <2>1. /\ pc' = "failed" /\ UNCHANGED <<profile, next, outcome>>
        /\ ~profile.dryRun
        /\ attempted' = profile.tracked
    BY <1>13 DEF SubmitConsumed
  <2>2. CASE profile.tracked
    BY <2>1, <2>2 DEF FreshInv
  <2>3. CASE profile.concurrency = 1
    <3>1. Pending = {}
      BY <1>13, <2>3 DEF SubmitConsumed, WindowInv, Executing
    <3>2. Pending' = {}
      BY <2>1, <3>1 DEF Pending, Window
    <3> QED BY <2>1, <3>2 DEF FreshInv
  <2> QED BY <2>2, <2>3 DEF Options
<1>14. CASE SubmitLost
  BY <1>0, <1>14 DEF SubmitLost
<1>15. CASE Fallback
  BY <1>0, <1>15, AuctionStatus DEF Fallback, NextRoute, FreshInv, AllFresh, TypeOK
<1>16. CASE Recheck
  BY <1>0, <1>16, AuctionStatus DEF Recheck, FreshInv, AllFresh, TypeOK
<1>17. CASE ArbSucceeds \/ ArbConsumed
  BY <1>17 DEF ArbSucceeds, ArbConsumed, FreshInv
<1>18. CASE ArbDry \/ ArbRefused
  BY <1>0, <1>18 DEF ArbDry, ArbRefused, FreshInv, AllFresh, decision
<1>19. CASE ArbLost
  BY <1>0, <1>19 DEF ArbLost
<1>20. CASE Return
  <2>1. CASE Stop
    BY <2>1 DEF Stop, FreshInv
  <2>2. CASE Break
    BY <2>2 DEF Break, Unread, FreshInv, AllFresh
  <2>3. CASE Continue /\ ~changed
    <3>1. AllFresh
      BY <1>0, <1>20, <2>3 DEF Return, FreshInv
    <3> QED BY <1>20, <2>3, <3>1 DEF Return, Continue, FreshInv, AllFresh
  <2> QED BY <1>20, <2>1, <2>2, <2>3 DEF Return
<1>21. CASE Catch
  <2>1. CASE Stop
    BY <2>1 DEF Stop, FreshInv
  <2>2. CASE Break
    BY <2>2 DEF Break, Unread, FreshInv, AllFresh
  <2>3. CASE Continue /\ ~(attempted /\ ~profile.dryRun)
    <3>1. AllFresh
      <4>1. AllFresh \/ Pending = {}
        BY <1>0, <1>21, <2>3 DEF Catch, FreshInv
      <4> QED BY <4>1, NothingPending DEF AllFresh
    <3> QED BY <1>21, <2>3, <3>1 DEF Catch, Continue, FreshInv, AllFresh
  <2> QED BY <1>21, <2>1, <2>2, <2>3 DEF Catch
<1>22. ASSUME NEW c \in Candidates, AuctionMoves(c)
       PROVE  FreshInv'
  BY <1>0, <1>22 DEF AuctionMoves, FreshInv, AllFresh, Pending, Window, decision
<1>23. CASE UNCHANGED vars
  BY <1>0, <1>23 DEF vars, FreshInv, AllFresh, Pending, Window, decision
<1> QED BY <1>1, <1>2, <1>3, <1>4, <1>5, <1>6, <1>7, <1>8, <1>9, <1>10, <1>11,
           <1>12, <1>13, <1>14, <1>15, <1>16, <1>17, <1>18, <1>19, <1>20, <1>21,
           <1>22, <1>23 DEF Next, Step, Evaluation, External, Arb

\* However the engine is called, nothing stale is acted upon.
THEOREM EngineActsOnFresh ==
  ASSUME \A p \in Profile : Called(p)
  PROVE  Spec => []FreshFacts
<1>1. Init => FreshInv
  BY DEF Init, FreshInv, AllFresh, Unread
<1>2. TypeOK => Options(profile)
  BY CalledOptions DEF TypeOK, Options
<1>3. FreshInv => FreshFacts
  BY DEF FreshInv, FreshFacts, AllFresh, First, Pending
<1>4. (TypeOK /\ Routed) /\ WindowInv /\ FreshInv /\ [Next]_vars => FreshInv'
  BY <1>2, FreshStep
<1> QED BY <1>1, <1>3, <1>4, EngineTypeOK, EngineWindows, PTL DEF Spec

\* However the engine is called, a run that goes on examines every candidate.
THEOREM EngineDropsNone ==
  ASSUME \A p \in Profile : Called(p)
  PROVE  Spec => []NoneDropped
<1>1. Init => NoneDropped
  BY DEF Init, NoneDropped
<1>2. TypeOK /\ WindowInv /\ NoneDropped /\ [Next]_vars => NoneDropped'
  <2> SUFFICES ASSUME TypeOK, WindowInv, NoneDropped, [Next]_vars
               PROVE  NoneDropped'
    OBVIOUS
  <2>1. CASE Return \/ Catch
    <3>1. ~profile.stop => Pending = {}
      BY <2>1, CalledOptions DEF Return, Catch, TypeOK, WindowInv, Executing
    <3> QED BY <2>1, <3>1 DEF Return, Catch, Stop, Continue, Break, NoneDropped
  <2>2. CASE ~(Return \/ Catch)
    <3>1. UNCHANGED dropped
      BY <2>2
         DEF Next, Step, Evaluation, ReadWindow, EndRun, NextWindow, Evaluate,
             EvaluateFails, Skip, Begin, Revalidate, RevalidateFails, External,
             SubmitSucceeds, SubmitDry, SubmitRefused, SubmitConsumed, SubmitLost,
             Fallback, Recheck, Arb, ArbSucceeds, ArbDry, ArbConsumed, ArbRefused,
             ArbLost, AuctionMoves, vars
    <3> QED BY <3>1 DEF NoneDropped
  <2> QED BY <2>1, <2>2
<1> QED BY <1>1, <1>2, EngineTypeOK, EngineWindows, PTL DEF Spec

-----------------------------------------------------------------------------
(***************************************************************************)
(* The limits                                                              *)
(***************************************************************************)

\* The count is below the limit until the run is over.
Limits ==
  /\ CapInv
  /\ profile.max > 0 => count <= profile.max

\* Every step keeps the count of executions below the limit until the run ends.
LEMMA LimitStep == TypeOK /\ Limits /\ [Next]_vars => Limits'
<1> SUFFICES ASSUME TypeOK, Limits, [Next]_vars
             PROVE  Limits'
  OBVIOUS
<1>1. profile.max \in Nat
  BY EngineAssumption DEF TypeOK, ProfileType
<1>2. CASE Return
  <2>1. count' = IF executed THEN count + 1 ELSE count
    BY <1>2 DEF Return
  <2>2. count' >= profile.max /\ profile.max > 0 /\ executed => pc' = "done"
    BY <1>2 DEF Return, Stop
  <2> QED BY <1>1, <1>2, <2>1, <2>2 DEF Limits, CapInv, Return, TypeOK
<1>3. CASE ~Return
  <2>1. UNCHANGED <<profile, count>> /\ (pc' # "done" => pc # "done")
    BY <1>3
       DEF Next, Step, Evaluation, ReadWindow, EndRun, NextWindow, Evaluate,
           EvaluateFails, Skip, Begin, Revalidate, RevalidateFails, External,
           SubmitSucceeds, SubmitDry, SubmitRefused, SubmitConsumed, SubmitLost,
           Fallback, Recheck, Arb, ArbSucceeds, ArbDry, ArbConsumed, ArbRefused,
           ArbLost, Catch, AuctionMoves, vars, decision
  <2> QED BY <2>1 DEF Limits, CapInv
<1> QED BY <1>2, <1>3

\* With a limit of one every step keeps nothing sent before the execution that
\* ends the run, and that one's borrower alone after it.
LEMMA SentStep ==
  ASSUME profile.max = 1 => profile.tracked /\ profile.stop
  PROVE  SentInv /\ [Next]_vars => SentInv'
<1> SUFFICES ASSUME SentInv, [Next]_vars, ~profile'.lossy, profile'.max = 1
             PROVE  SentInv'
  BY DEF SentInv
<1>0. ~profile.lossy /\ profile.max = 1 /\ profile.tracked /\ profile.stop
  BY DEF Next, Step, Evaluation, ReadWindow, EndRun, NextWindow, Evaluate,
         EvaluateFails, Skip, Begin, Revalidate, RevalidateFails, External,
         SubmitSucceeds, SubmitDry, SubmitRefused, SubmitConsumed, SubmitLost,
         Fallback, Recheck, Arb, ArbSucceeds, ArbDry, ArbConsumed, ArbRefused,
         ArbLost, Return, Catch, AuctionMoves, vars
<1> USE <1>0
<1>1. CASE Evaluation
  <2>1. sent = {} /\ UNCHANGED sent
    BY <1>1, EvaluationSteps DEF SentInv
  <2> QED BY <2>1 DEF SentInv
<1>2. CASE Revalidate \/ RevalidateFails
  BY <1>2 DEF Revalidate, RevalidateFails, SentInv, decision, history
<1>3. CASE SubmitSucceeds
  BY <1>3 DEF SubmitSucceeds, Out, SentInv
<1>4. CASE SubmitConsumed
  BY <1>4 DEF SubmitConsumed, Out, SentInv
<1>5. CASE SubmitDry \/ SubmitRefused \/ SubmitLost \/ Fallback
  BY <1>5 DEF SubmitDry, SubmitRefused, SubmitLost, Fallback, NextRoute, SentInv,
              history
<1>6. CASE Recheck
  BY <1>6 DEF Recheck, SentInv, history
<1>7. CASE ArbSucceeds \/ ArbConsumed
  BY <1>7 DEF ArbSucceeds, ArbConsumed, Out, SentInv
<1>8. CASE ArbDry \/ ArbRefused \/ ArbLost
  BY <1>8 DEF ArbDry, ArbRefused, ArbLost, SentInv, decision, history
<1>9. CASE Return
  BY <1>9 DEF Return, Stop, Continue, SentInv, decision, history
<1>10. CASE Catch
  BY <1>10 DEF Catch, Stop, Continue, SentInv, decision, history
<1>11. CASE UNCHANGED vars \/ \E c \in Candidates : AuctionMoves(c)
  BY <1>11 DEF vars, AuctionMoves, SentInv, decision, history
<1> QED BY <1>1, <1>2, <1>3, <1>4, <1>5, <1>6, <1>7, <1>8, <1>9, <1>10, <1>11
        DEF Next, Step, External, Arb

\* However the engine is called, no run exceeds its limit, and a run with the
\* limit of one transacts with one borrower.
THEOREM EngineLimits ==
  ASSUME \A p \in Profile : Called(p)
  PROVE  Spec => []OneBorrowerPerRun
<1>1. Init => Limits /\ SentInv
  <2> SUFFICES ASSUME Init PROVE Limits /\ SentInv
    OBVIOUS
  <2>1. profile.max \in Nat
    BY EngineAssumption DEF Init, ProfileType
  <2>2. Limits
    BY <2>1 DEF Init, Limits, CapInv
  <2>3. SentInv
    BY DEF Init, SentInv
  <2> QED BY <2>2, <2>3
<1>2. TypeOK => (profile.max = 1 => profile.tracked /\ profile.stop)
  BY CalledOptions DEF TypeOK
<1>3. (TypeOK /\ Routed) /\ Limits /\ SentInv /\ [Next]_vars => (Limits /\ SentInv)'
  BY <1>2, LimitStep, SentStep
<1>4. Limits /\ SentInv => OneBorrowerPerRun
  <2> SUFFICES ASSUME SentInv, ~profile.lossy, profile.max = 1
               PROVE  Cardinality(sent) <= 1
    BY DEF Limits, OneBorrowerPerRun
  <2>1. sent = {} \/ sent = {current}
    BY DEF SentInv
  <2>2. Cardinality({}) = 0 /\ Cardinality({current}) = 1
    BY FS_EmptySet, FS_Singleton
  <2> QED BY <2>1, <2>2
<1> QED BY <1>1, <1>3, <1>4, EngineTypeOK, PTL DEF Spec
=============================================================================
