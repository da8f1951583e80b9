------------------------------- MODULE Keeper -------------------------------
(***************************************************************************)
(* A keeper process (src/src/index.ts, src/src/run.ts): it reads its       *)
(* configuration, validates it, looks at the deployed contracts, compares  *)
(* the subgraph with the chain, loads the pools, and then either runs one  *)
(* take and one settlement cycle or launches the daemon's loops.           *)
(*                                                                         *)
(* The loops share one wallet: what they submit goes through the           *)
(* transaction queue of its address (TxQueue), and a loop awaits its own   *)
(* call before its iteration goes on.  What an iteration does is the       *)
(* subject of the other modules; here it submits, returns or throws.       *)
(***************************************************************************)
EXTENDS TxQueue, TakeConfig

CONSTANTS
  Configs,     \* the configurations that the process may be started with
  NoFault,     \* the contracts are deployed as the file says
  NoLoop,      \* a call that no loop of the keeper makes
  LoopOf,      \* the loop that makes a call
  Responsive   \* the addresses whose transactions all settle

Loops == {"Kick", "Take", "Settlement", "Bond", "LpRewards"}

ASSUME KeeperAssumption ==
  /\ \A c \in Configs : ConfigOK(c)
  /\ LoopOf \in [Task -> Loops \cup {NoLoop}]
  /\ Responsive \subseteq Address
  /\ NoFault \notin Sources \cup {"router"}

Faults ==
  {<<NoFault, NoFault>>, <<"router", "routerCode">>} \cup (Sources \X Facts)

VARIABLES
  config,      \* the configuration file
  fault,       \* what is wrong with the deployment, if anything
  main,        \* where main() stands
  loops        \* where each loop stands, or the call it awaits

keeper == <<config, fault, main, loops>>
kvars == <<config, fault, main, loops, queueVars>>

\* main() and startKeeperFromConfig, in their order.
Starting == {"reading", "acknowledging", "validating", "initialising",
             "preflight", "consistency", "loading", "launching"}
OnceLoops == {"Take", "Settlement"}
Ended == main \in {"done", "failed", "stopped"}

KeeperTypeOK ==
  /\ QueueTypeOK
  /\ ConfigOK(config)
  /\ fault \in Faults
  /\ main \in Starting \cup OnceLoops \cup {"daemon", "done", "failed", "stopped"}
  /\ loops \in [Loops -> {"off", "setup", "iterating", "paused", "returned"} \cup Task]

KInit ==
  /\ QueueInit
  /\ config \in Configs
  /\ fault = <<NoFault, NoFault>>
  /\ main = "reading"
  /\ loops = [l \in Loops |-> "off"]

-----------------------------------------------------------------------------
(* The start.                                                              *)

\* A step of the start either goes on or throws: main().catch exits with 1.
StartStep(from, ok, to) ==
  /\ main = from
  /\ main' = IF ok THEN to ELSE "failed"
  /\ UNCHANGED <<config, loops, queueVars>>

ReadConfig ==
  StartStep("reading", config.shape, "acknowledging") /\ UNCHANGED fault

\* A live run-once leaves before kick, bond and rewards: it must be confirmed.
AssertAcknowledged ==
  /\ StartStep("acknowledging",
               config.once # "unacknowledged" \/ config.dryRun, "validating")
  /\ UNCHANGED fault

ValidateAutoDiscover ==
  StartStep("validating", AutoDiscoverOk(config), "initialising") /\ UNCHANGED fault

\* A transport that cannot be reached yet is retried by the take loop; one that
\* contradicts the configuration is fatal.
InitializeTakeLoop ==
  /\ UNCHANGED fault
  /\ \/ StartStep("initialising", TakeLoopOk(config), "preflight")
     \/ /\ TakeLoopConfigured(config) /\ ~config.dryRun
        /\ StartStep("initialising", FALSE, "preflight")

\* The chain's state is chosen here; a contract that no route uses is left out.
PreflightRoutes ==
  \E f \in Faults :
    /\ f[1] \in {NoFault, "router"} \cup Routes(config) \cup PreflightRequirements(config)
    /\ fault' = f
    /\ StartStep("preflight", PreflightOk(config, f), "consistency")

\* assertSubgraphChainConsistency and getPoolsFromConfig ask the subgraph and
\* the chain: they may throw.
AssertConsistency ==
  /\ \E ok \in BOOLEAN : StartStep("consistency", ok, "loading")
  /\ UNCHANGED fault

LoadPools ==
  /\ \E ok \in BOOLEAN : StartStep("loading", ok, "launching")
  /\ UNCHANGED fault

\* The daemon launches the planned loops; each runs up to its first await.
LaunchDaemon ==
  /\ main = "launching" /\ config.once = "no"
  /\ main' = "daemon"
  /\ loops' = [l \in Loops |->
                 IF l \notin PlannedLoops(config) THEN "off"
                 ELSE IF l = "LpRewards" THEN "setup" ELSE "iterating"]
  /\ UNCHANGED <<config, fault, queueVars>>

\* startKeeperRunOnceFromConfig: the take cycle, the settlement cycle, the end.
NextCycle(done) ==
  LET left == (PlannedLoops(config) \cap OnceLoops) \ done IN
  IF "Take" \in left THEN "Take" ELSE IF left # {} THEN "Settlement" ELSE "done"

BeginCycle(done) ==
  /\ main' = NextCycle(done)
  /\ loops' = [l \in Loops |-> IF l = main' THEN "iterating" ELSE "off"]

LaunchOnce ==
  /\ main = "launching" /\ config.once # "no"
  /\ BeginCycle({})
  /\ UNCHANGED <<config, fault, queueVars>>

StartUp ==
  \/ ReadConfig \/ AssertAcknowledged \/ ValidateAutoDiscover \/ InitializeTakeLoop
  \/ PreflightRoutes \/ AssertConsistency \/ LoadPools \/ LaunchDaemon \/ LaunchOnce

-----------------------------------------------------------------------------
(* The loops.                                                              *)

Running == main \in {"daemon"} \cup OnceLoops

\* collectLpRewardsLoop returns at once where no pool collects LP; its setup
\* may throw, and superviseDaemonLoop then ends the process.
LpRewardsSetup ==
  /\ main = "daemon" /\ loops["LpRewards"] = "setup"
  /\ \/ /\ loops' = [loops EXCEPT !["LpRewards"] =
                       IF config.rewards THEN "iterating" ELSE "returned"]
        /\ UNCHANGED main
     \/ config.rewards /\ main' = "failed" /\ UNCHANGED loops
  /\ UNCHANGED <<config, fault, queueVars>>

\* A loop submits a transaction and awaits it; a dry run submits none.
Submit(t) ==
  /\ Running /\ LoopOf[t] # NoLoop
  /\ loops[LoopOf[t]] = "iterating" /\ ~config.dryRun
  /\ Enqueue(t)
  /\ loops' = [loops EXCEPT ![LoopOf[t]] = t]
  /\ UNCHANGED <<config, fault, main>>

\* The call is settled: the iteration goes on, a rejection being caught where
\* the pool or the borrower is handled or thrown as IterationThrows has it.
Resume(l) ==
  /\ Running
  /\ loops[l] \in Task /\ Settled(loops[l])
  /\ loops' = [loops EXCEPT ![l] = "iterating"]
  /\ UNCHANGED <<config, fault, main, queueVars>>

\* Mutant: a crash is logged and the while loop left.
IterationThrowsForGood(l) ==
  /\ main = "daemon" /\ loops[l] = "iterating"
  /\ loops' = [loops EXCEPT ![l] = "returned"]
  /\ UNCHANGED <<config, fault, main, queueVars>>

\* runResilientLoopIteration: an iteration returns or throws, and the loop
\* pauses, for its own delay or for that of the recovery.
IterationReturns(l) ==
  /\ main = "daemon" /\ loops[l] = "iterating"
  /\ loops' = [loops EXCEPT ![l] = "paused"]
  /\ UNCHANGED <<config, fault, main, queueVars>>

IterationThrows(l) ==
  /\ main = "daemon" /\ loops[l] = "iterating"
  /\ loops' = [loops EXCEPT ![l] = "paused"]
  /\ UNCHANGED <<config, fault, main, queueVars>>

Wake(l) ==
  /\ main = "daemon" /\ loops[l] = "paused"
  /\ loops' = [loops EXCEPT ![l] = "iterating"]
  /\ UNCHANGED <<config, fault, main, queueVars>>

\* A run-once has no recovery: what a cycle throws reaches main().
OnceReturns ==
  /\ main \in OnceLoops /\ loops[main] = "iterating"
  /\ BeginCycle(IF main = "Take" THEN {"Take"} ELSE OnceLoops)
  /\ UNCHANGED <<config, fault, queueVars>>

OnceThrows ==
  /\ main \in OnceLoops /\ loops[main] = "iterating"
  /\ main' = "failed"
  /\ UNCHANGED <<config, fault, loops, queueVars>>

\* SIGTERM, SIGINT or an uncaught exception, at any moment: nothing is drained.
\* An unhandled rejection is logged and changes nothing.
Stop ==
  /\ ~Ended
  /\ main' = "stopped"
  /\ UNCHANGED <<config, fault, loops, queueVars>>

\* The queue's own steps, and calls for a signer that is not the loops'.
Elsewhere(t) == Running /\ LoopOf[t] = NoLoop /\ Enqueue(t) /\ UNCHANGED keeper
QueueStart(t) == Running /\ Start(t) /\ UNCHANGED keeper
QueueSettle(t) == Running /\ Settle(t) /\ UNCHANGED keeper
QueueRelease(t) == Running /\ Release(t) /\ UNCHANGED keeper

KNext ==
  \/ StartUp
  \/ LpRewardsSetup \/ OnceReturns \/ OnceThrows \/ Stop
  \/ \E t \in Task : \/ Submit(t) \/ Elsewhere(t) \/ QueueStart(t)
                     \/ QueueSettle(t) \/ QueueRelease(t)
  \/ \E l \in Loops : Resume(l) \/ IterationReturns(l) \/ IterationThrows(l) \/ Wake(l)

KSpec == KInit /\ [][KNext]_kvars

(***************************************************************************)
(* Timers fire and callbacks run; the reads of an iteration are answered   *)
(* or time out, so an iteration that awaits no transaction ends.  Only     *)
(* the transactions of the Responsive addresses are assumed to settle.     *)
(***************************************************************************)
KFairness ==
  /\ WF_kvars(LpRewardsSetup)
  /\ \A l \in Loops : /\ WF_kvars(Resume(l))
                      /\ WF_kvars(IterationReturns(l) \/ IterationThrows(l))
                      /\ WF_kvars(Wake(l))
  /\ \A t \in Task : /\ WF_kvars(QueueStart(t))
                     /\ WF_kvars(QueueRelease(t))
                     /\ AddressOf[t] \in Responsive => WF_kvars(QueueSettle(t))

KFairSpec == KSpec /\ KFairness

-----------------------------------------------------------------------------
(***************************************************************************)
(* Properties                                                              *)
(***************************************************************************)

LaunchedLive == Running /\ ~config.dryRun

\* What runs live can be executed: every source that a manual pool or discovery
\* resolves for an external take has a router, its taker and a complete, reviewed
\* section.  The routes are resolved by the take modules and validated by the
\* configuration modules, from the same file but by other code.
RoutesUsable ==
  LaunchedLive =>
    \A s \in Routes(config) :
      /\ Deployed(config, s)
      /\ config.sections[s] = "complete"
      /\ s = "curve" => config.tokens

\* A live keeper never runs with an aggregator route whose taker, registration,
\* contracts or allowlists on the chain differ from the file: the preflight
\* covers every aggregator that the running keeper resolves.
RoutesPreflighted ==
  LaunchedLive =>
    \A s \in Routes(config) \cap Aggregators :
      fault[1] \notin {s, "router"}

\* A loop that the daemon planned goes on for as long as the daemon does: no
\* iteration that throws, no loop that fails and no call of another signer that
\* hangs leaves it dead while the process lives.
LoopsGoOn ==
  \A l \in Loops :
    <>[](/\ main = "daemon" /\ l \in PlannedLoops(config)
         /\ l = "LpRewards" => config.rewards)
      => []<><<Wake(l)>>_kvars
=============================================================================
