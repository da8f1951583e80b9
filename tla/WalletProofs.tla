---------------------------- MODULE WalletProofs ----------------------------
(***************************************************************************)
(* The wallet of a keeper: proofs about the transaction queue of its       *)
(* address, about the process whose loops submit to it, and about the      *)
(* nonces that are handed out in a turn of that queue.                     *)
(***************************************************************************)
EXTENDS Keeper, NonceTracker, TLAPS

-----------------------------------------------------------------------------
(***************************************************************************)
(* The queue, for any set of calls and addresses.  The chain of promises   *)
(* is a linked list through closures, one link per call, with the map      *)
(* holding only its end.  The inductive invariant QueueInv ties each link  *)
(* to the tickets of the history variables: a call closed over the promise *)
(* of the ticket just before its own.  Once a link is known to be settled, *)
(* its ticket is served, hence the next one's turn has come, and two calls *)
(* of an address cannot have their turn together.                          *)
(***************************************************************************)

LEMMA QueueInvInit == QueueInit => QueueInv
  BY QueueAssumption
     DEF QueueInit, QueueInv, QueueTypeOK, States, TicketsOrdered, TailIsLast,
         PreviousIsBefore, Settled

LEMMA QueueInvStep == QueueInv /\ [QueueNext]_queueVars => QueueInv'
<1> SUFFICES ASSUME QueueInv, [QueueNext]_queueVars PROVE QueueInv'
  OBVIOUS
<1> USE QueueAssumption DEF QueueInv, QueueTypeOK, States, Settled
<1>1. CASE UNCHANGED queueVars
  BY <1>1 DEF queueVars, TicketsOrdered, TailIsLast, PreviousIsBefore
<1>2. ASSUME NEW t \in Task, Enqueue(t) PROVE QueueInv'
  <2>1. QueueTypeOK'
    BY <1>2 DEF Enqueue
  <2>2. TicketsOrdered'
    BY <1>2 DEF Enqueue, TicketsOrdered, TailIsLast
  <2>3. TailIsLast'
    BY <1>2 DEF Enqueue, TailIsLast
  <2>4. PreviousIsBefore'
    BY <1>2 DEF Enqueue, TicketsOrdered, TailIsLast, PreviousIsBefore
  <2> QED BY <2>1, <2>2, <2>3, <2>4
<1>3. ASSUME NEW t \in Task, Start(t) PROVE QueueInv'
  <2>1. QueueTypeOK'
    BY <1>3 DEF Start, history
  <2>2. ticket[t] = served[AddressOf[t]]
    BY <1>3 DEF Start, TicketsOrdered, PreviousIsBefore
  <2>3. TicketsOrdered'
    BY <1>3, <2>2 DEF Start, history, TicketsOrdered
  <2>4. TailIsLast'
    BY <1>3 DEF Start, history, TailIsLast
  <2>5. PreviousIsBefore'
    BY <1>3 DEF Start, history, PreviousIsBefore
  <2> QED BY <2>1, <2>3, <2>4, <2>5
<1>4. ASSUME NEW t \in Task, Settle(t) PROVE QueueInv'
  <2>1. QueueTypeOK'
    BY <1>4 DEF Settle
  <2>2. TicketsOrdered'
    BY <1>4 DEF Settle, TicketsOrdered
  <2>3. TailIsLast'
    BY <1>4 DEF Settle, TicketsOrdered, TailIsLast
  <2>4. PreviousIsBefore'
    BY <1>4 DEF Settle, PreviousIsBefore
  <2> QED BY <2>1, <2>2, <2>3, <2>4
<1>5. ASSUME NEW t \in Task, Release(t) PROVE QueueInv'
  <2>1. QueueTypeOK'
    BY <1>5 DEF Release, history
  <2>2. TicketsOrdered'
    BY <1>5 DEF Release, history, TicketsOrdered
  <2>3. TailIsLast'
    BY <1>5 DEF Release, history, TicketsOrdered, TailIsLast
  <2>4. PreviousIsBefore'
    BY <1>5 DEF Release, history, PreviousIsBefore
  <2> QED BY <2>1, <2>2, <2>3, <2>4
<1> QED BY <1>1, <1>2, <1>3, <1>4, <1>5 DEF QueueNext

\* The chain of promises follows the tickets in every reachable state.
THEOREM QueueInvariant == QueueSpec => []QueueInv
<1>1. QueueInit => QueueInv
  BY QueueInvInit
<1>2. QueueInv /\ [QueueNext]_queueVars => QueueInv'
  BY QueueInvStep
<1> QED BY <1>1, <1>2, PTL DEF QueueSpec

\* queueTransaction keeps its variables well typed.
THEOREM QueueTypesCorrect == QueueSpec => []QueueTypeOK
<1>1. QueueInv => QueueTypeOK
  BY DEF QueueInv
<1> QED BY <1>1, QueueInvariant, PTL

\* Two transactions of one address never run at the same time, however many
\* loops submit and in whatever order promises settle and entries are deleted.
THEOREM QueueMutualExclusion == QueueSpec => []MutualExclusion
<1>1. QueueInv => MutualExclusion
  BY DEF QueueInv, TicketsOrdered, MutualExclusion, QueueTypeOK
<1> QED BY <1>1, QueueInvariant, PTL

-----------------------------------------------------------------------------
(***************************************************************************)
(* The refinement.                                                         *)
(***************************************************************************)

LEMMA InitRefines == QueueInit => Abstract!Init
  BY DEF QueueInit, Abstract!Init, PhaseOf

\* A step that moves one call moves its image, and no other.
LEMMA PhaseMoves ==
  ASSUME state \in [Task -> States], NEW t \in Task, NEW s \in States,
         state' = [state EXCEPT ![t] = s]
  PROVE  [u \in Task |-> PhaseOf(state[u])]'
           = [[u \in Task |-> PhaseOf(state[u])] EXCEPT ![t] = PhaseOf(s)]
  OBVIOUS

LEMMA StepRefines == QueueInv /\ [QueueNext]_queueVars => [Abstract!Next]_Abstract!vars
<1> SUFFICES ASSUME QueueInv, [QueueNext]_queueVars PROVE [Abstract!Next]_Abstract!vars
  OBVIOUS
<1> USE QueueAssumption DEF QueueInv, QueueTypeOK, States
<1>1. CASE UNCHANGED queueVars
  BY <1>1 DEF queueVars, Abstract!vars
<1>2. ASSUME NEW t \in Task, Enqueue(t) PROVE Abstract!Next
  <2>1. Abstract!Submit(t)
    BY <1>2, PhaseMoves DEF Enqueue, Abstract!Submit, PhaseOf
  <2> QED BY <2>1 DEF Abstract!Next
<1>3. ASSUME NEW t \in Task, Start(t) PROVE Abstract!Next
  <2>1. ticket[t] = served[AddressOf[t]]
    BY <1>3 DEF Start, TicketsOrdered, PreviousIsBefore, Settled
  <2>2. Abstract!Begin(t)
    BY <1>3, <2>1, PhaseMoves DEF Start, history, Abstract!Begin, PhaseOf
  <2> QED BY <2>2 DEF Abstract!Next
<1>4. ASSUME NEW t \in Task, Settle(t) PROVE Abstract!Next
  <2>1. Abstract!Finish(t)
    BY <1>4, PhaseMoves DEF Settle, Abstract!Finish, PhaseOf
  <2> QED BY <2>1 DEF Abstract!Next
<1>5. ASSUME NEW t \in Task, Release(t) PROVE UNCHANGED Abstract!vars
  BY <1>5, PhaseMoves DEF Release, history, Abstract!vars, PhaseOf
<1> QED BY <1>1, <1>2, <1>3, <1>4, <1>5 DEF QueueNext

\* The promise chain implements the serial executor: first come, first served,
\* one at a time, per address.
THEOREM QueueRefinement == QueueSpec => ImplementsSerialExecutor
<1>1. QueueInit => Abstract!Init
  BY InitRefines
<1>2. QueueInv /\ [QueueNext]_queueVars => [Abstract!Next]_Abstract!vars
  BY StepRefines
<1> QED BY <1>1, <1>2, QueueInvariant, PTL
        DEF QueueSpec, ImplementsSerialExecutor, Abstract!Spec

-----------------------------------------------------------------------------
(***************************************************************************)
(* The keeper process: what its start has checked still holds of whatever  *)
(* it runs, since the configuration is read once and the routes, the       *)
(* validation and the preflight are functions of it.                       *)
(***************************************************************************)

\* What RoutesUsable asks of one source.
Usable(c, s) ==
  Deployed(c, s) /\ c.sections[s] = "complete" /\ (s = "curve" => c.tokens)

\* A live keeper's validator accepts a section only when it is complete.
LEMMA SectionComplete ==
  ASSUME NEW c, ConfigOK(c), ~c.dryRun, NEW s \in Sources, SectionOk(c, s)
  PROVE  c.sections[s] = "complete" /\ (s = "curve" => c.tokens)
<1> USE DEF SectionOk, PolicyComplete, UniswapOk, CurveOk, OneInchOk, LifiOk, SushiOk
<1>1. s \in {"uniswapV3", "curve", "lifi", "sushi", "oneinch"}
  BY DEF Sources, DirectDex, Aggregators
<1>2. CASE s = "uniswapV3"
  BY <1>2
<1>3. CASE s = "curve"
  BY <1>3
<1>4. CASE s = "lifi"
  BY <1>4
<1>5. CASE s = "oneinch"
  BY <1>5
<1>6. CASE s = "sushi"
  BY <1>6
<1> QED BY <1>1, <1>2, <1>3, <1>4, <1>5, <1>6

\* Settings that were validated for a source make the source usable.
LEMMA SettingsUsable ==
  ASSUME NEW c, ConfigOK(c), ~c.dryRun, NEW t, HasTake(t), TakeSettingsOk(c, t)
  PROVE  t.source \in Sources /\ Usable(c, t.source)
<1>1. t.source \in Sources /\ Deployed(c, t.source) /\ SectionOk(c, t.source)
  BY DEF TakeSettingsOk, TakerRegistered
<1> QED BY <1>1, SectionComplete DEF Usable

LEMMA WithUsable ==
  ASSUME NEW c, ConfigOK(c), ~c.dryRun, NEW t \in TakeSettings, t.factor,
         NEW s \in Sources, TakeSettingsOk(c, With(t, s))
  PROVE  Usable(c, s)
<1>1. With(t, s).source = s /\ With(t, s).factor
  BY DEF With, TakeSettings
<1>2. HasTake(With(t, s))
  BY <1>1, UnsetAssumption DEF HasTake
<1> QED BY <1>1, <1>2, SettingsUsable

\* What initializeTakeLoop validates covers the pools that the file lists.
LEMMA ManualUsable ==
  ASSUME NEW c, ConfigOK(c), ~c.dryRun, TakeLoopOk(c), NEW s \in ManualRoutes(c)
  PROVE  s \in Sources /\ Usable(c, s)
<1>1. PICK t \in c.manual : t.source = s /\ t.factor
  BY DEF ManualRoutes
<1>2. s \in Sources
  BY DEF ManualRoutes
<1>3. HasTake(t)
  BY <1>1, <1>2, UnsetAssumption DEF HasTake
<1>4. TakeSettingsOk(c, t)
  BY DEF TakeLoopOk, TakeLoopConfigured
<1> QED BY <1>1, <1>3, <1>4, SettingsUsable

\* A discovered route is one of the direct sources that the validator has gone
\* through, or one of the providers.
LEMMA DiscoveredSplit ==
  ASSUME NEW c, ConfigOK(c), AutoDiscoverOk(c), NEW s \in DiscoveredRoutes(c)
  PROVE  /\ TakePolicyOk(c) /\ DiscoversTakes(c)
         /\ c.take \in TakeSettings /\ c.take # Unset /\ c.take.factor
         /\ TakeSettingsOk(c, With(c.take, s))
         /\ \/ s \in DirectDex
            \/ /\ AggregatorFamily(c, c.take.source)
               /\ s \in Providers(c, c.take.source) \cap Aggregators
<1> DEFINE src == c.take.source
           direct == "direct_dex" \in ExternalTakePaths(c, src) /\ DefaultDirect(c, src) # Unset
           listed == IF c.direct \notin {Unset, {}} THEN c.direct \cap DirectDex
                                                    ELSE {DefaultDirect(c, src)}
<1>1. DiscoversTakes(c) /\ c.take # Unset /\ c.take.factor
  BY DEF DiscoveredRoutes
<1>2. TakePolicyOk(c)
  BY <1>1 DEF AutoDiscoverOk, DiscoversTakes
<1>3. c.take \in TakeSettings
  BY <1>1 DEF ConfigOK
<1>4. PathsOk(c, src) /\ LiquiditySourcesOk(c, c.take)
  BY <1>2 DEF TakePolicyOk
<1>5. \/ direct /\ s \in listed
      \/ AggregatorFamily(c, src) /\ s \in Providers(c, src)
  <2>1. s \in (IF direct THEN listed ELSE {})
                \cup (IF AggregatorFamily(c, src) THEN Providers(c, src) ELSE {})
    BY <1>1, Zenon DEF DiscoveredRoutes
  <2> QED BY <2>1
<1>6. CASE direct /\ s \in listed
  <2>1. DirectSourcesOk(c, c.take)
    BY <1>4 DEF LiquiditySourcesOk
  <2>2. CASE c.direct \notin {Unset, {}}
    <3>1. s \in c.direct \cap DirectDex
      BY <1>6, <2>2
    <3>2. TakeSettingsOk(c, With(c.take, s))
      BY <2>1, <2>2, <3>1 DEF DirectSourcesOk
    <3> QED BY <1>1, <1>2, <1>3, <3>1, <3>2
  <2>3. CASE c.direct \in {Unset, {}}
    <3>1. s = DefaultDirect(c, src)
      BY <1>6, <2>3
    <3>2. s \in DirectDex
      BY <1>6, <3>1 DEF DefaultDirect
    <3>3. c.direct = Unset
      BY <2>1, <2>3 DEF DirectSourcesOk
    <3>4. TakeSettingsOk(c, With(c.take, DefaultDirect(c, src)))
      BY <1>6, <2>1, <3>3 DEF DirectSourcesOk
    <3> QED BY <1>1, <1>2, <1>3, <3>1, <3>2, <3>4
  <2> QED BY <2>2, <2>3
<1>7. CASE AggregatorFamily(c, src) /\ s \in Providers(c, src)
  <2>1. s \in Aggregators
    BY <1>7 DEF Providers, ConfigOK, Aggregators
  <2>2. TakeSettingsOk(c, With(c.take, s))
    BY <1>4, <1>7 DEF LiquiditySourcesOk
  <2> QED BY <1>1, <1>2, <1>3, <1>7, <2>1, <2>2
<1> QED BY <1>5, <1>6, <1>7

\* The validators cover every route that the running keeper resolves.
LEMMA ValidatedRoutes ==
  ASSUME NEW c, ConfigOK(c), ~c.dryRun, AutoDiscoverOk(c), TakeLoopOk(c),
         NEW s \in Routes(c)
  PROVE  s \in Sources /\ Usable(c, s)
<1>1. CASE s \in ManualRoutes(c)
  BY <1>1, ManualUsable
<1>2. CASE s \in DiscoveredRoutes(c)
  <2>1. s \in Sources
    BY <1>2, DiscoveredSplit DEF Sources
  <2> QED BY <1>2, <2>1, DiscoveredSplit, WithUsable
<1> QED BY <1>1, <1>2 DEF Routes

\* The preflight covers every aggregator that the running keeper resolves: a
\* manual one by itself, a discovered one because the validator insists on
\* deployCheck.
LEMMA RequiredRoutes ==
  ASSUME NEW c, ConfigOK(c), ~c.dryRun, AutoDiscoverOk(c),
         NEW s \in Routes(c) \cap Aggregators
  PROVE  s \in PreflightRequirements(c)
<1>1. s \notin DirectDex
  BY DEF DirectDex, Aggregators
<1>2. CASE s \in ManualRoutes(c)
  <2>1. s \in Sources /\ \E t \in c.manual : t.source = s
    BY <1>2 DEF ManualRoutes
  <2>2. RequiresPreflight(s)
    BY <1>1 DEF RequiresPreflight, PathOf
  <2> QED BY <2>1, <2>2 DEF PreflightRequirements, ManualRequirements
<1>3. CASE s \in DiscoveredRoutes(c)
  <2>1. /\ TakePolicyOk(c) /\ DiscoversTakes(c) /\ c.take # Unset
        /\ AggregatorFamily(c, c.take.source) /\ s \in Providers(c, c.take.source)
    BY <1>1, <1>3, DiscoveredSplit
  <2>2. c.deployCheck
    BY <2>1 DEF TakePolicyOk, PathsOk
  <2> QED BY <2>1, <2>2 DEF PreflightRequirements, DiscoveredRequirements
<1> QED BY <1>2, <1>3 DEF Routes

\* Whatever is wrong with a usable aggregator is looked at.
LEMMA PreflightSees ==
  ASSUME NEW c, NEW s \in Aggregators, Usable(c, s), s \in PreflightRequirements(c),
         NEW f \in Faults, PreflightOk(c, f)
  PROVE  f[1] \notin {s, "router"}
<1>1. \A fact \in Facts : Reports(c, s, fact)
  <2>1. s \in c.takers /\ c.router /\ c.sections[s] = "complete"
    BY DEF Usable, Deployed
  <2>2. AllowlistChecked(c, s)
    BY <2>1 DEF AllowlistChecked, Aggregators, OneInchAllowlistChecked,
                LifiAllowlistChecked, SushiAllowlistChecked, PolicyComplete
  <2> QED BY <2>1, <2>2 DEF Facts, Reports, TakerCodeChecked, RegistryChecked, SectionCodeChecked
<1>2. f # <<"router", "routerCode">> /\ ~(f[1] = s /\ Reports(c, s, f[2]))
  BY DEF PreflightOk
<1>3. s \in Sources /\ "router" \notin Sources
  BY DEF Sources, Aggregators, DirectDex
<1>4. CASE f = <<NoFault, NoFault>>
  BY <1>3, <1>4, KeeperAssumption
<1>5. CASE f \in Sources \X Facts
  BY <1>1, <1>2, <1>3, <1>5
<1> QED BY <1>2, <1>4, <1>5 DEF Faults

\* What the start has established when main() stands where it stands.
Past(steps) == main \in steps \cup {"launching", "daemon"} \cup OnceLoops

KeeperInv ==
  /\ KeeperTypeOK /\ QueueInv
  /\ Past({"initialising", "preflight", "consistency", "loading"}) => AutoDiscoverOk(config)
  /\ Past({"preflight", "consistency", "loading"}) => TakeLoopOk(config)
  /\ Past({"consistency", "loading"}) => PreflightOk(config, fault)

LEMMA KeeperInvInit == KInit => KeeperInv
<1> SUFFICES ASSUME KInit PROVE KeeperInv
  OBVIOUS
<1>1. QueueInv /\ QueueTypeOK
  BY QueueInvInit DEF KInit, QueueInv
<1>2. KeeperTypeOK
  BY <1>1, KeeperAssumption DEF KInit, KeeperTypeOK, Faults, Starting
<1> QED BY <1>1, <1>2 DEF KInit, KeeperInv, Past, OnceLoops

\* A step of the process is a step of the queue, or leaves it alone.
LEMMA KeeperStepsQueue == KNext => [QueueNext]_queueVars
  BY DEF KNext, StartUp, ReadConfig, AssertAcknowledged, ValidateAutoDiscover,
         InitializeTakeLoop, PreflightRoutes, AssertConsistency, LoadPools, LaunchDaemon,
         LaunchOnce, StartStep, LpRewardsSetup, OnceReturns, OnceThrows, Stop, Submit,
         Elsewhere, QueueStart, QueueSettle, QueueRelease, Resume, IterationReturns,
         IterationThrows, Wake, QueueNext

LEMMA KeeperInvStep == KeeperInv /\ [KNext]_kvars => KeeperInv'
<1> SUFFICES ASSUME KeeperInv, [KNext]_kvars PROVE KeeperInv'
  OBVIOUS
<1> DEFINE Checked == /\ Past({"initialising", "preflight", "consistency", "loading"})
                           => AutoDiscoverOk(config)
                      /\ Past({"preflight", "consistency", "loading"}) => TakeLoopOk(config)
                      /\ Past({"consistency", "loading"}) => PreflightOk(config, fault)
           Stages == Starting \cup OnceLoops \cup {"daemon", "done", "failed", "stopped"}
           Standings(L) == [Loops -> {"off", "setup", "iterating", "paused", "returned"} \cup Task]
<1>1. QueueInv' /\ QueueTypeOK'
  <2>1. [QueueNext]_queueVars
    BY KeeperStepsQueue DEF kvars
  <2> QED BY <2>1, QueueInvStep DEF KeeperInv, QueueInv
<1>2. /\ ConfigOK(config) /\ fault \in Faults /\ main \in Stages /\ loops \in Standings(Loops)
      /\ Checked
  BY DEF KeeperInv, KeeperTypeOK
<1>3. SUFFICES /\ ConfigOK(config)' /\ fault' \in Faults /\ main' \in Stages
               /\ loops' \in Standings(Loops) /\ Checked'
  BY <1>1 DEF KeeperInv, KeeperTypeOK
<1> HIDE DEF Checked
<1>4. ASSUME UNCHANGED <<config, fault>>, main' = main, loops' \in Standings(Loops)
      PROVE  ConfigOK(config)' /\ fault' \in Faults /\ main' \in Stages
             /\ loops' \in Standings(Loops) /\ Checked'
  BY <1>2, <1>4 DEF Checked, Past
<1>5. ASSUME UNCHANGED <<config, fault>>, main' \in {"failed", "stopped", "done"},
             loops' \in Standings(Loops)
      PROVE  ConfigOK(config)' /\ fault' \in Faults /\ main' \in Stages
             /\ loops' \in Standings(Loops) /\ Checked'
  BY <1>2, <1>5 DEF Checked, Past, OnceLoops
<1>6. CASE UNCHANGED kvars
  BY <1>2, <1>4, <1>6 DEF kvars
<1>7. CASE StartUp
  <2>1. CASE ReadConfig \/ AssertAcknowledged
    BY <1>2, <2>1 DEF ReadConfig, AssertAcknowledged, StartStep, Checked, Past, Starting, OnceLoops
  <2>2. CASE ValidateAutoDiscover
    BY <1>2, <2>2 DEF ValidateAutoDiscover, StartStep, Checked, Past, Starting, OnceLoops
  <2>3. CASE InitializeTakeLoop
    BY <1>2, <2>3 DEF InitializeTakeLoop, StartStep, Checked, Past, Starting, OnceLoops
  <2>4. CASE PreflightRoutes
    <3>1. PICK f \in Faults : fault' = f /\ StartStep("preflight", PreflightOk(config, f), "consistency")
      BY <2>4 DEF PreflightRoutes
    <3>2. UNCHANGED <<config, loops>> /\ main = "preflight" /\ fault' \in Faults
          /\ main' = IF PreflightOk(config, fault') THEN "consistency" ELSE "failed"
      BY <3>1 DEF StartStep
    <3>3. PreflightOk(config, fault)' = PreflightOk(config, fault')
      BY <3>2
    <3> QED BY <1>2, <3>2, <3>3 DEF Checked, Past, Starting, OnceLoops
  <2>5. CASE AssertConsistency \/ LoadPools
    BY <1>2, <2>5 DEF AssertConsistency, LoadPools, StartStep, Checked, Past, Starting, OnceLoops
  <2>6. CASE LaunchDaemon
    BY <1>2, <2>6 DEF LaunchDaemon, Checked, Past, Starting, OnceLoops
  <2>7. CASE LaunchOnce
    BY <1>2, <2>7 DEF LaunchOnce, BeginCycle, NextCycle, Checked, Past, Starting, OnceLoops
  <2> QED BY <1>7, <2>1, <2>2, <2>3, <2>4, <2>5, <2>6, <2>7 DEF StartUp
<1>8. CASE LpRewardsSetup
  BY <1>2, <1>4, <1>5, <1>8 DEF LpRewardsSetup
<1>9. CASE OnceReturns
  BY <1>2, <1>9 DEF OnceReturns, BeginCycle, NextCycle, Checked, Past, Starting, OnceLoops
<1>10. CASE OnceThrows \/ Stop
  BY <1>2, <1>5, <1>10 DEF OnceThrows, Stop
<1>11. ASSUME NEW t \in Task,
              Submit(t) \/ Elsewhere(t) \/ QueueStart(t) \/ QueueSettle(t) \/ QueueRelease(t)
       PROVE  UNCHANGED <<config, fault>> /\ main' = main /\ loops' \in Standings(Loops)
  BY <1>2, <1>11 DEF Submit, Elsewhere, QueueStart, QueueSettle, QueueRelease, keeper
<1>12. ASSUME NEW l \in Loops, Resume(l) \/ IterationReturns(l) \/ IterationThrows(l) \/ Wake(l)
       PROVE  UNCHANGED <<config, fault>> /\ main' = main /\ loops' \in Standings(Loops)
  BY <1>2, <1>12 DEF Resume, IterationReturns, IterationThrows, Wake
<1> QED
  BY <1>4, <1>6, <1>7, <1>8, <1>9, <1>10, <1>11, <1>12 DEF KNext

LEMMA KeeperInvariant == KSpec => []KeeperInv
  BY KeeperInvInit, KeeperInvStep, PTL DEF KSpec

\* The types of the configuration, the process and its loops, with those of
\* the queue below them.
THEOREM KeeperTypesCorrect == KSpec => []KeeperTypeOK
<1>1. KeeperInv => KeeperTypeOK
  BY DEF KeeperInv
<1> QED BY <1>1, KeeperInvariant, PTL

LEMMA LaunchedChecked ==
  ASSUME KeeperInv, LaunchedLive
  PROVE  /\ ConfigOK(config) /\ ~config.dryRun /\ fault \in Faults
         /\ AutoDiscoverOk(config) /\ TakeLoopOk(config) /\ PreflightOk(config, fault)
  BY DEF KeeperInv, KeeperTypeOK, LaunchedLive, Running, Past, OnceLoops

\* Every route that a live keeper resolves can be executed, whatever the
\* configuration file says: the validators of the start look at all that the
\* take modules later combine, however it is spread over the file.
THEOREM RoutesAlwaysUsable == KSpec => []RoutesUsable
<1>1. KeeperInv => RoutesUsable
  <2> SUFFICES ASSUME KeeperInv, LaunchedLive, NEW s \in Routes(config)
               PROVE  Usable(config, s)
    BY DEF RoutesUsable, Usable
  <2> QED BY LaunchedChecked, ValidatedRoutes
<1> QED BY <1>1, KeeperInvariant, PTL

\* No aggregator route of a live keeper contradicts the chain: the preflight
\* looks at every one of them, and at everything about it.
THEOREM RoutesAlwaysPreflighted == KSpec => []RoutesPreflighted
<1>1. KeeperInv => RoutesPreflighted
  <2> SUFFICES ASSUME KeeperInv, LaunchedLive, NEW s \in Routes(config) \cap Aggregators
               PROVE  fault[1] \notin {s, "router"}
    BY DEF RoutesPreflighted
  <2>1. Usable(config, s)
    BY LaunchedChecked, ValidatedRoutes
  <2>2. s \in PreflightRequirements(config)
    BY LaunchedChecked, RequiredRoutes
  <2> QED BY <2>1, <2>2, LaunchedChecked, PreflightSees
<1> QED BY <1>1, KeeperInvariant, PTL

\* The process runs the queue and nothing but the queue: whatever its loops do,
\* the transactions of an address are served first come, first served.
THEOREM KeeperServesInOrder == KSpec => ImplementsSerialExecutor
<1>1. KInit => QueueInit
  BY DEF KInit
<1>2. [KNext]_kvars => [QueueNext]_queueVars
  BY KeeperStepsQueue DEF kvars
<1>3. KSpec => QueueSpec
  BY <1>1, <1>2, PTL DEF KSpec, QueueSpec
<1> QED BY <1>3, QueueRefinement

-----------------------------------------------------------------------------
(***************************************************************************)
(* The nonces, for every set of environments and every bound on them.      *)
(***************************************************************************)

USE DEF Lookups, Places

\* A turn's environment is one of the scenario records.
LEMMA EnvType ==
  ASSUME TypeOK
  PROVE  /\ env \in ScenarioType
         /\ None \notin Nat /\ None \notin FloorType
         /\ MaxNonce \in Nat
  BY NonceAssumption DEF TypeOK

-----------------------------------------------------------------------------
(***************************************************************************)
(* Types, and what is known within a turn                                  *)
(***************************************************************************)

\* Where each lookup's answer goes, in the terms the invariants use.
LEMMA DeliverFacts ==
  ASSUME TypeOK, InTurn, NEW r \in Nat, pc \in Lookups, Deliver(r)
  PROVE  /\ nonce' \in Nat /\ stored' \in Nat
         /\ pc = "resolve" => pc' = "send" /\ nonce' = r /\ stored' = r + 1
         /\ pc # "resolve" => pc' = "idle" /\ nonce' = nonce
         /\ pc = "consumed" => IF r > nonce + 1 THEN stored' = r
                                                ELSE stored' = nonce + 1
         /\ pc = "failed" => stored' = r
  <1>1. CASE pc = "resolve"
    BY <1>1 DEF Deliver
  <1>2. CASE pc = "consumed"
    <2>1. stored = nonce + 1 /\ nonce \in Nat
      BY <1>2 DEF InTurn, TypeOK
    <2>2. Larger(stored, nonce + 1) = nonce + 1
      BY <2>1 DEF Larger
    <2>3. stored' = Larger(nonce + 1, r) /\ pc' = "idle" /\ nonce' = nonce
      BY <1>2, <2>2 DEF Deliver
    <2> QED BY <1>2, <2>1, <2>3 DEF Larger
  <1>3. CASE pc = "failed"
    BY <1>3 DEF Deliver, TypeOK
  <1> QED BY <1>1, <1>2, <1>3

\* What a recorded floor looks like: it covers n and is not expired, unless it
\* was further already.
LEMMA RaisedFacts ==
  ASSUME NEW f \in FloorType \cup {None}, NEW n \in Nat, None \notin Nat
  PROVE  /\ Raised(f, n) \in FloorType
         /\ f # None /\ f.next > n => Raised(f, n) = f
         /\ f = None \/ f.next <= n =>
              Raised(f, n).next = n /\ ~Raised(f, n).expired
  <1>1. CASE f # None /\ f.next > n
    BY <1>1 DEF Raised, FloorType
  <1>2. CASE ~(f # None /\ f.next > n)
    <2>1. Raised(f, n) = [next |-> n, expired |-> FALSE]
      BY <1>2 DEF Raised
    <2>2. Raised(f, n) \in FloorType
      BY <2>1 DEF FloorType
    <2> QED BY <1>2, <2>1, <2>2
  <1> QED BY <1>1, <1>2 DEF FloorType

LEMMA InitIInv == Init => IInv
  <1> SUFFICES ASSUME Init PROVE IInv
    OBVIOUS
  <1>1. TypeOK /\ InTurn
    BY DEF Init, TypeOK, InTurn, Channels
  <1>2. Tip(0)
    BY DEF Init, Tip
  <1>3. FlooredInv /\ FloorCovers
    BY DEF Init, FlooredInv, FloorCovers
  <1> QED BY <1>1, <1>2, <1>3 DEF IInv, CountedInv, Init

LEMMA TypeStep ==
  ASSUME TypeOK, InTurn, [Next]_vars
  PROVE  TypeOK' /\ InTurn'
  <1>0. None \notin Nat
    BY EnvType
  <1>1. ASSUME NEW c \in Channels, BeginTurn(c) PROVE TypeOK' /\ InTurn'
    <2>1. CASE stored = None
      BY <1>1, <2>1 DEF BeginTurn, chain, TypeOK, InTurn
    <2>2. CASE stored # None
      <3>1. /\ pc' = "send" /\ nonce' = stored /\ stored' = stored + 1
            /\ chan' = c /\ c \in env.channels /\ seen' = None
            /\ UNCHANGED <<env, floor, mined, pub, priv>>
        BY <1>1, <2>2 DEF BeginTurn, chain
      <3>2. doubt' \in BOOLEAN
        BY <1>1 DEF BeginTurn
      <3>3. nonce' \in Nat /\ stored' \in Nat
        BY <2>2, <3>1 DEF TypeOK
      <3> QED BY <3>1, <3>2, <3>3 DEF TypeOK, InTurn
    <2> QED BY <2>1, <2>2
  <1>2. CASE Observe
    BY <1>0, <1>2 DEF Observe, chain, TypeOK, InTurn
  <1>3. CASE ApplyFloor \/ KeepExpiredFloor
    <2>1. PICK r \in Nat : Deliver(r)
      BY <1>3 DEF ApplyFloor, KeepExpiredFloor, TypeOK, FloorType
    <2>2. /\ pc \in Lookups
          /\ floor' \in FloorType \cup {None}
          /\ UNCHANGED <<env, chan, doubt, seen, chain>>
      BY <1>3 DEF ApplyFloor, KeepExpiredFloor, TypeOK
    <2> QED BY <2>1, <2>2, DeliverFacts DEF TypeOK, InTurn, chain
  <1>4. CASE LookupFails
    <2>1. stored' \in Nat \cup {None} /\ pc' = "idle"
      BY <1>0, <1>4 DEF LookupFails, Larger, TypeOK, InTurn
    <2>2. floor' \in {floor, None} /\ UNCHANGED <<env, chan, nonce, doubt, seen, chain>>
      BY <1>4 DEF LookupFails
    <2> QED BY <2>1, <2>2 DEF chain, TypeOK, InTurn
  <1>5. CASE SendRefused \/ RelayVanishes
    BY <1>5 DEF SendRefused, RelayVanishes, chain, TypeOK, InTurn
  <1>13. CASE SendAccepted \/ SendLost
    <2>1. mined' \in Nat /\ pub' \subseteq Nat /\ priv' \subseteq Nat
      BY <1>13 DEF SendAccepted, SendLost, Accept, TypeOK
    <2>2. /\ pc = "send" /\ pc' \in {"mark", "wait", "failed"}
          /\ doubt' \in BOOLEAN /\ seen' \in {None, seen}
          /\ UNCHANGED <<env, chan, nonce, stored, floor>>
      BY <1>13 DEF SendAccepted, SendLost, TypeOK
    <2> QED BY <2>1, <2>2 DEF TypeOK, InTurn
  <1>6. CASE MarkFloor \/ MarkFails
    <2>1. floor' \in FloorType \cup {None}
      <3>1. nonce + 1 \in Nat
        BY DEF TypeOK
      <3> QED BY <1>0, <1>6, <3>1, RaisedFacts DEF MarkFloor, MarkFails, TypeOK
    <2> QED BY <2>1, <1>6 DEF MarkFloor, MarkFails, chain, TypeOK, InTurn
  <1>7. CASE Confirmed \/ WaitFails
    BY <1>7 DEF Confirmed, WaitFails, chain, TypeOK, InTurn, Channels
  <1>8. CASE Mine
    BY <1>8 DEF Mine, turn, TypeOK, InTurn
  <1>9. ASSUME NEW n \in Nonces, DropPrivate(n) PROVE TypeOK' /\ InTurn'
    BY <1>9 DEF DropPrivate, turn, TypeOK, InTurn
  <1>10. CASE FloorExpires
    BY <1>10 DEF FloorExpires, turn, chain, TypeOK, InTurn, FloorType
  <1>11. CASE Crash
    BY <1>11 DEF Crash, chain, TypeOK, InTurn
  <1>12. CASE UNCHANGED vars
    BY <1>12 DEF vars, turn, chain, TypeOK, InTurn
  <1> QED BY <1>1, <1>2, <1>3, <1>4, <1>5, <1>6, <1>7, <1>8, <1>9, <1>10, <1>11,
             <1>12, <1>13 DEF Next, Lookup, Transact

-----------------------------------------------------------------------------
(***************************************************************************)
(* Readers that count every live transaction                               *)
(***************************************************************************)

\* The tip is mined or follows a live nonce, where CountedInv looks for it.
LEMMA TipWitness ==
  ASSUME TypeOK, NEW p \in Nat, Tip(p)
  PROVE  CountedInv
  <1>1. CASE p = mined
    BY <1>1 DEF CountedInv
  <1>2. CASE p # mined
    <2>1. p - 1 \in mined .. (p - 1) /\ p = (p - 1) + 1
      BY <1>2 DEF Tip, TypeOK
    <2>2. p - 1 \in pub \cup priv
      BY <2>1 DEF Tip
    <2> QED BY <2>1, <2>2 DEF CountedInv
  <1> QED BY <1>1, <1>2

LEMMA TipIsNat ==
  ASSUME TypeOK, CountedInv, Counted(env)
  PROVE  \E p \in Nat : Tip(p)
  <1>1. PICK p \in {mined} \cup {k + 1 : k \in pub \cup priv} : Tip(p)
    BY DEF CountedInv
  <1>2. p \in Nat
    BY <1>1 DEF TypeOK
  <1> QED BY <1>1, <1>2

\* The only pending count of the live transactions is the tip.
LEMMA PendingIsTip ==
  ASSUME TypeOK, NEW p \in Nat, Tip(p), NEW q \in Nat,
         IsPendingCount(q, pub \cup priv)
  PROVE  q = p
  <1>1. ~(q < p)
    BY DEF IsPendingCount, Tip, TypeOK
  <1>2. ~(q > p)
    <2>1. SUFFICES ASSUME q > p PROVE FALSE
      OBVIOUS
    <2>2. p \in mined .. (q - 1)
      BY <2>1 DEF Tip, TypeOK
    <2>3. p \notin mined .. (p - 1)
      OBVIOUS
    <2> QED BY <2>2, <2>3 DEF IsPendingCount, Tip
  <1> QED BY <1>1, <1>2

LEMMA CountedStep ==
  ASSUME TypeOK, InTurn, CountedInv, Counted(env), TypeOK', [Next]_vars
  PROVE  \E p \in Nat : Tip(p)'
  <1>0. PICK p \in Nat : Tip(p)
    BY TipIsNat
  <1>1. ASSUME NEW c \in Channels, BeginTurn(c) PROVE Tip(p)'
    BY <1>0, <1>1 DEF BeginTurn, chain, Tip
  <1>2. CASE Observe
    <2>1. PICK q \in 0 .. (MaxNonce + 1) : IsAnswer(q) /\ seen' = q
      BY <1>2 DEF Observe
    <2>2. IsPendingCount(q, pub \cup priv)
      BY <1>0, <2>1 DEF IsAnswer, Counted, Tip
    <2>3. q = p
      <3>1. q \in Nat
        BY EnvType
      <3> QED BY <2>2, <3>1, <1>0, PendingIsTip
    <2> QED BY <2>1, <2>3, <1>0, <1>2 DEF Observe, chain, Tip
  <1>3. CASE ApplyFloor
    <2>1. seen = p /\ (floor # None => floor.next <= seen)
      BY <1>0, <1>3 DEF ApplyFloor, Tip
    <2>2. floor' = None /\ Deliver(p) /\ pc \in Lookups
      BY <2>1, <1>3 DEF ApplyFloor
    <2>3. UNCHANGED <<env, seen, chain>>
      BY <1>3 DEF ApplyFloor
    <2>4. /\ pc' = "send" => nonce' = p
          /\ pc' = "idle" => stored' = p
          /\ pc' \in {"idle", "send"}
      BY <1>0, <2>2, DeliverFacts DEF Tip
    <2> QED BY <1>0, <2>2, <2>3, <2>4 DEF Tip, chain
  <1>4. CASE KeepExpiredFloor \/ LookupFails
    BY <1>4 DEF KeepExpiredFloor, LookupFails, Counted
  <1>5. CASE SendRefused
    BY <1>0, <1>5 DEF SendRefused, chain, Tip
  <1>6. CASE SendAccepted \/ SendLost
    <2>1. /\ (pub \cup priv)' = (pub \cup priv) \cup {p}
          /\ mined' = mined /\ nonce' = p /\ floor' = floor
          /\ pc' \in {"wait", "failed"}
          /\ pc' = "failed" => seen' = None
      BY <1>0, <1>6 DEF SendAccepted, SendLost, Accept, InTurn, Counted, Tip
    <2>2. (mined .. (p - 1)) \cup {p} = mined .. ((p + 1) - 1)
      BY <1>0 DEF Tip, TypeOK
    <2>3. "private" \notin env.channels => priv' = priv
      BY <1>6 DEF SendAccepted, SendLost, Accept, InTurn, Counted, Visible, TypeOK,
                  Channels
    <2>4. /\ p + 1 \in Nat /\ p + 1 >= mined
          /\ floor # None => floor.next <= p + 1
      BY <1>0 DEF Tip, TypeOK, FloorType
    <2>5. env' = env
      BY <1>6 DEF SendAccepted, SendLost
    <2>6. Tip(p + 1)'
      BY <1>0, <2>1, <2>2, <2>3, <2>4, <2>5 DEF Tip
    <2> QED BY <2>4, <2>6
  <1>7. CASE RelayVanishes
    BY <1>7 DEF RelayVanishes, InTurn, Counted
  <1>8. CASE MarkFloor
    <2>1. nonce + 1 = p /\ nonce + 1 \in Nat
      BY <1>0, <1>8 DEF MarkFloor, Tip, TypeOK
    <2>2. floor' # None => floor'.next <= p
      <3>1. /\ floor' = Raised(floor, p) /\ floor \in FloorType \cup {None}
            /\ floor # None => floor.next <= p
        BY <1>0, <1>8, <2>1 DEF MarkFloor, Tip, TypeOK
      <3>2. ~(floor # None /\ floor.next > p)
        BY <3>1 DEF FloorType
      <3>3. Raised(floor, p).next = p
        BY <3>2 DEF Raised
      <3> QED BY <3>1, <3>3, <2>1
    <2> QED BY <1>0, <1>8, <2>1, <2>2 DEF MarkFloor, chain, Tip
  <1>9. CASE MarkFails
    BY <1>9 DEF MarkFails, Counted
  <1>10. CASE Confirmed
    BY <1>0, <1>10 DEF Confirmed, chain, Tip, InTurn
  <1>11. CASE WaitFails
    <2>1. pc' \in {"failed", "consumed", "mark"}
      BY <1>11 DEF WaitFails, TypeOK, Channels
    <2> QED BY <1>0, <1>11, <2>1 DEF WaitFails, chain, Tip
  <1>12. CASE Mine
    <2>1. mined \in mined .. (p - 1)
      BY <1>0, <1>12 DEF Mine, Tip
    <2>2. (mined .. (p - 1)) \ {mined} = (mined + 1) .. (p - 1)
      BY DEF TypeOK
    <2>3. (pub \cup priv)' = (pub \cup priv) \ {mined} /\ mined' = mined + 1
      BY <1>12 DEF Mine
    <2> QED BY <1>0, <1>12, <2>1, <2>2, <2>3 DEF Mine, turn, Tip, TypeOK
  <1>13. ASSUME NEW n \in Nonces, DropPrivate(n) PROVE FALSE
    BY <1>0, <1>13 DEF DropPrivate, Counted, Tip
  <1>14. CASE FloorExpires
    <2>1. floor'.next = floor.next
      BY <1>14 DEF FloorExpires, TypeOK, FloorType
    <2> QED BY <1>0, <1>14, <2>1 DEF FloorExpires, turn, chain, Tip
  <1>15. CASE Crash
    BY <1>0, <1>15 DEF Crash, chain, Tip
  <1>16. CASE UNCHANGED vars
    BY <1>0, <1>16 DEF vars, turn, chain, Tip
  <1> QED BY <1>1, <1>2, <1>3, <1>4, <1>5, <1>6, <1>7, <1>8, <1>9, <1>10, <1>11,
             <1>12, <1>13, <1>14, <1>15, <1>16 DEF Next, Lookup, Transact

-----------------------------------------------------------------------------
(***************************************************************************)
(* Readers that see nothing, and the durable floor                         *)
(***************************************************************************)

LEMMA FlooredStep ==
  ASSUME TypeOK, InTurn, FlooredInv, FloorCovers, Floored(env), TypeOK', InTurn',
         [Next]_vars
  PROVE  FlooredInv' /\ FloorCovers'
  <1>0. /\ pub = {}
        /\ None \notin Nat /\ None \notin FloorType
        /\ pc # "idle" => chan \in {"relay", "private"}
    BY EnvType DEF FlooredInv, InTurn, Floored
  <1>1. ASSUME NEW c \in Channels, BeginTurn(c) PROVE FlooredInv' /\ FloorCovers'
    <2>1. CASE stored = None
      BY <1>1, <2>1 DEF BeginTurn, chain, FlooredInv, FloorCovers, InFlight
    <2>2. CASE stored # None
      <3>1. /\ pc = "idle" /\ pc' = "send" /\ nonce' = stored /\ stored' = stored + 1
            /\ stored \in Nat
            /\ UNCHANGED <<env, floor, mined, pub, priv>>
        BY <1>1, <2>2 DEF BeginTurn, chain, TypeOK
      <3>2. /\ \A k \in priv : k < stored /\ k < stored + 1
            /\ floor # None => floor.next <= stored /\ floor.next <= stored + 1
        BY <2>2, <3>1 DEF FlooredInv, TypeOK, FloorType
      <3> QED BY <3>1, <3>2 DEF FlooredInv, FloorCovers, InFlight
    <2> QED BY <2>1, <2>2
  <1>2. CASE Observe
    <2>1. PICK q \in 0 .. (MaxNonce + 1) : IsAnswer(q) /\ seen' = q
      BY <1>2 DEF Observe
    <2>2. IsPendingCount(q, {})
      BY <1>0, <2>1 DEF IsAnswer, Floored
    <2>3. q <= mined
      BY <2>2 DEF IsPendingCount, TypeOK
    <2> QED BY <1>2, <2>1, <2>3 DEF Observe, chain, FlooredInv, FloorCovers, InFlight
  <1>3. CASE LookupFails
    <2>1. stored' = stored /\ floor' = floor
      BY <1>3 DEF LookupFails, Larger, InTurn, TypeOK, Floored
    <2> QED BY <1>3, <2>1 DEF LookupFails, chain, FlooredInv, FloorCovers, InFlight
  <1>4. CASE ApplyFloor \/ KeepExpiredFloor
    <2>1. /\ pc \in Lookups /\ seen # None /\ seen <= mined
          /\ UNCHANGED <<env, chan, doubt, seen, mined, pub, priv>>
      BY <1>4 DEF ApplyFloor, KeepExpiredFloor, chain, FlooredInv
    <2>2. \A k \in priv : floor # None /\ ~floor.expired /\ k < floor.next
      BY <2>1 DEF FloorCovers, InFlight
    <2>3. CASE floor' = None /\ Deliver(seen)
               /\ (floor = None \/ floor.next <= seen \/ floor.expired)
      <3>1. priv = {}
        BY <2>1, <2>2, <2>3 DEF FlooredInv, TypeOK, FloorType
      <3>2. pc' \in {"idle", "send"}
        BY <2>1, <2>3, DeliverFacts DEF TypeOK
      <3> QED BY <2>1, <2>3, <3>1, <3>2, <1>0 DEF FlooredInv, FloorCovers
    <2>4. CASE floor' = floor /\ Deliver(floor.next) /\ floor # None
      <3>1. floor.next \in Nat
        BY <2>4 DEF TypeOK, FloorType
      <3>2. /\ pc' \in {"idle", "send"}
            /\ pc' = "send" => nonce' = floor.next /\ stored' = floor.next + 1
            /\ pc' = "idle" => stored' >= floor.next
        BY <2>1, <2>4, <3>1, DeliverFacts DEF TypeOK
      <3>3. stored' >= floor.next /\ stored' \in Nat
        BY <3>1, <3>2, <2>1, <2>4, DeliverFacts
      <3> QED BY <2>1, <2>2, <2>4, <3>1, <3>2, <3>3, <1>0
              DEF FlooredInv, FloorCovers, InFlight, TypeOK
    <2> QED BY <1>4, <2>3, <2>4 DEF ApplyFloor, KeepExpiredFloor
  <1>5. CASE SendRefused
    BY <1>5 DEF SendRefused, chain, FlooredInv, FloorCovers, InFlight
  <1>6. CASE SendAccepted \/ SendLost
    <2>1. /\ priv' = priv \cup {nonce} /\ pub' = {} /\ mined' = mined
          /\ nonce >= mined /\ pc = "send"
          /\ UNCHANGED <<env, chan, nonce, stored, floor>>
      BY <1>0, <1>6 DEF SendAccepted, SendLost, Accept, Visible
    <2>2. pc' = "mark" \/ (pc' = "wait" /\ chan = "private")
      BY <1>0, <1>6 DEF SendAccepted, SendLost, InTurn, Floored
    <2>3. stored = nonce + 1 /\ nonce \in Nat
      BY <2>1 DEF InTurn, TypeOK
    <2> QED BY <2>1, <2>2, <2>3, <1>0 DEF FlooredInv, FloorCovers, InFlight, TypeOK
  <1>7. CASE RelayVanishes
    BY <1>7 DEF RelayVanishes, chain, FlooredInv, FloorCovers, InFlight
  <1>8. CASE MarkFloor
    <2>1. /\ stored = nonce + 1 /\ nonce \in Nat /\ pc = "mark"
          /\ floor' = Raised(floor, nonce + 1)
          /\ pc' \in {"consumed", "wait"} /\ seen' = None
          /\ UNCHANGED <<env, chan, nonce, stored, mined, pub, priv>>
      BY <1>8 DEF MarkFloor, InTurn, TypeOK, chain
    <2>2. floor # None => floor.next <= nonce + 1 /\ floor.next \in Nat
      BY <2>1, <1>0 DEF FlooredInv, TypeOK, FloorType
    <2>3. ~(floor # None /\ floor.next > nonce + 1)
      BY <2>1, <2>2
    <2>4. floor' = [next |-> nonce + 1, expired |-> FALSE]
      BY <2>1, <2>3 DEF Raised
    <2>5. floor' # None /\ ~floor'.expired /\ floor'.next = nonce + 1
      <3>1. nonce + 1 \in Nat
        BY <2>1
      <3>2. floor' \in FloorType
        BY <3>1, <2>4 DEF FloorType
      <3> QED BY <3>2, <2>4, <1>0
    <2>6. \A k \in priv : k < nonce + 1
      BY <2>1, <1>0 DEF FlooredInv
    <2> QED BY <2>1, <2>5, <2>6 DEF FlooredInv, FloorCovers
  <1>9. CASE MarkFails
    BY <1>9 DEF MarkFails, Floored
  <1>10. CASE Confirmed
    <2>1. nonce \notin priv
      BY <1>10 DEF Confirmed, FlooredInv, TypeOK
    <2> QED BY <1>10, <2>1 DEF Confirmed, chain, FlooredInv, FloorCovers, InFlight
  <1>11. CASE WaitFails
    <2>1. pc' = IF chan = "relay" THEN "consumed" ELSE "mark"
      BY <1>0, <1>11 DEF WaitFails
    <2> QED BY <1>0, <1>11, <2>1 DEF WaitFails, chain, FlooredInv, FloorCovers, InFlight
  <1>12. CASE Mine
    BY <1>12 DEF Mine, turn, FlooredInv, FloorCovers, InFlight, TypeOK
  <1>13. ASSUME NEW n \in Nonces, DropPrivate(n) PROVE FlooredInv' /\ FloorCovers'
    BY <1>13 DEF DropPrivate, turn, FlooredInv, FloorCovers, InFlight
  <1>14. CASE FloorExpires
    <2>1. /\ \A k \in priv : k >= floor.next
          /\ floor # None
          /\ floor' = [floor EXCEPT !.expired = TRUE]
          /\ UNCHANGED <<env, turn, stored, mined, pub, priv>>
      BY <1>14, EnvType DEF FloorExpires, Floored, ScenarioType, TypeOK, chain
    <2>2. floor'.next = floor.next /\ floor' # None
      BY <2>1, <1>0 DEF TypeOK, FloorType
    <2>3. \A k \in priv : InFlight(k)
      BY <2>1 DEF FloorCovers, TypeOK, FloorType
    <2> QED BY <2>1, <2>2, <2>3 DEF turn, FlooredInv, FloorCovers, InFlight
  <1>15. CASE Crash
    <2>1. \A k \in priv : ~InFlight(k)
      BY <1>15 DEF Crash, Floored, InTurn, InFlight
    <2> QED BY <1>15, <2>1, <1>0 DEF Crash, chain, FlooredInv, FloorCovers
  <1>16. CASE UNCHANGED vars
    BY <1>16 DEF vars, turn, chain, FlooredInv, FloorCovers, InFlight
  <1> QED BY <1>1, <1>2, <1>3, <1>4, <1>5, <1>6, <1>7, <1>8, <1>9, <1>10, <1>11,
             <1>12, <1>13, <1>14, <1>15, <1>16 DEF Next, Lookup, Transact

-----------------------------------------------------------------------------
(***************************************************************************)
(* The theorems                                                            *)
(***************************************************************************)

\* Every step, in every environment, preserves the inductive invariant.
LEMMA NextIInv == IInv /\ [Next]_vars => IInv'
  <1> SUFFICES ASSUME IInv, [Next]_vars PROVE IInv'
    OBVIOUS
  <1>1. TypeOK' /\ InTurn'
    BY TypeStep DEF IInv
  <1>2. env' = env
    BY DEF Next, Lookup, Transact, vars, turn, chain, BeginTurn, Observe, ApplyFloor,
           KeepExpiredFloor, LookupFails, SendRefused, SendAccepted, SendLost,
           RelayVanishes, MarkFloor, MarkFails, Confirmed, WaitFails, Mine,
           DropPrivate, FloorExpires, Crash
  <1>3. CountedInv'
    <2>1. CASE Counted(env)
      <3>1. PICK p \in Nat : Tip(p)'
        BY <1>1, <2>1, CountedStep DEF IInv
      <3> QED BY <1>1, <3>1, TipWitness, PTL
    <2>2. CASE ~Counted(env)
      BY <1>2, <2>2 DEF CountedInv, Counted
    <2> QED BY <2>1, <2>2
  <1>4. FlooredInv' /\ FloorCovers'
    <2>1. CASE Floored(env)
      BY <1>1, <2>1, FlooredStep DEF IInv
    <2>2. CASE ~Floored(env)
      BY <1>2, <2>2 DEF FlooredInv, FloorCovers, Floored
    <2> QED BY <2>1, <2>2
  <1> QED BY <1>1, <1>3, <1>4 DEF IInv

\* What the inductive invariant says of a nonce about to be sent, and of the
\* nonces below the stored one.
LEMMA InvariantSuffices == IInv => FreshNonce /\ NoHole
  <1> SUFFICES ASSUME IInv PROVE FreshNonce /\ NoHole
    OBVIOUS
  <1>1. ASSUME Counted(env) PROVE FreshNonce /\ NoHole
    <2>1. PICK p \in Nat : Tip(p)
      BY <1>1, TipIsNat DEF IInv
    <2>2. p \notin mined .. (p - 1)
      BY DEF IInv, TypeOK
    <2> QED BY <2>1, <2>2 DEF Tip, FreshNonce, NoHole
  <1>2. ASSUME Floored(env) PROVE FreshNonce
    BY <1>2 DEF IInv, FlooredInv, FreshNonce, TypeOK
  <1> QED BY <1>1, <1>2 DEF FreshNonce, NoHole, Guaranteed

LEMMA Invariance == Spec => []IInv
  BY InitIInv, NextIInv, PTL DEF Spec

\* The variables keep their types whatever fails, in every environment: no
\* lookup that goes wrong hands a turn an undefined nonce (nonce.ts, getNonce).
THEOREM NonceTypeOK == Spec => []TypeOK
  <1>1. IInv => TypeOK
    BY DEF IInv
  <1> QED BY <1>1, Invariance, PTL

\* Where the readers count what is live, or the floor covers what they do not
\* see, and the state file works, no transaction is sent with the nonce of a live
\* one (nonce.ts, handleFailedNonce, reconcileConsumedNonce,
\* applyDurableNonceFloor).
THEOREM NoNonceReuse == Spec => []FreshNonce
  BY Invariance, InvariantSuffices, PTL

\* Where the readers count what is live, and the state file that every lookup
\* consults works, no nonce is skipped.
THEOREM NoNonceSkipped == Spec => []NoHole
  BY Invariance, InvariantSuffices, PTL

\* The state file covers every hidden live transaction but the one in flight
\* (markDurableNonceFloor): restarts elsewhere are harmless.
THEOREM FloorCoversHidden == Spec => []FloorCovers
  <1>1. IInv => FloorCovers
    BY DEF IInv
  <1> QED BY <1>1, Invariance, PTL
=============================================================================
