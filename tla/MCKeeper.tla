------------------------------ MODULE MCKeeper ------------------------------
(***************************************************************************)
(* The configurations are variations of one complete file.                 *)
(*                                                                         *)
(* Everything that decides the routes is varied together, and with it one  *)
(* gap in what the routes need, in a run-once of a live keeper; the other  *)
(* fields are varied one at a time.  Three daemons (all loops, no take     *)
(* loop, a dry run) share a wallet with two calls, beside a call that      *)
(* hangs at another address.                                               *)
(***************************************************************************)
EXTENDS Keeper

CONSTANTS k, t, u, wallet, other

MCTask == {k, t, u}
MCAddress == {wallet, other}
MCAddressOf == [x \in MCTask |-> IF x = u THEN other ELSE wallet]
MCLoopOf == [x \in MCTask |-> CASE x = k -> "Kick" [] x = t -> "Take" [] OTHER -> NoLoop]
MCResponsive == {wallet}

Complete == [s \in Sources |-> "complete"]

\* Discovery of takes over Uniswap and LI.FI, a manual pool with 1inch.
Base ==
  [shape |-> TRUE, tiers |-> TRUE, scalars |-> TRUE, dryRun |-> FALSE, enabled |-> TRUE,
   maximize |-> TRUE, fallback |-> FALSE, nativeCap |-> TRUE,
   probeBudget |-> FALSE, deployCheck |-> TRUE, requirePrivate |-> FALSE,
   kickCap |-> TRUE, kickDefaults |-> TRUE, settleDefaults |-> TRUE,
   manualSettlement |-> FALSE, router |-> TRUE, tokens |-> TRUE,
   rewards |-> TRUE, once |-> "acknowledged", writeMode |-> "private_rpc",
   policies |-> {"take", "settlement", "kick"},
   take |-> [source |-> "uniswapV3", factor |-> TRUE, arb |-> TRUE],
   manual |-> {[source |-> "oneinch", factor |-> TRUE, arb |-> FALSE]},
   paths |-> Paths, providers |-> {"lifi"}, direct |-> {"uniswapV3"},
   defaultDirect |-> Unset, quoteFloors |-> {}, gasOverrides |-> {"lifi"},
   takers |-> Sources, sections |-> Complete]

\* What is missing of what a route needs.
Gaps ==
  {[r |-> TRUE, w |-> TRUE, ts |-> Sources, ss |-> Complete],
   [r |-> FALSE, w |-> TRUE, ts |-> Sources, ss |-> Complete],
   [r |-> TRUE, w |-> FALSE, ts |-> Sources, ss |-> Complete]}
  \cup {[r |-> TRUE, w |-> TRUE, ts |-> Sources \ {s}, ss |-> Complete] : s \in Sources}
  \cup {[r |-> TRUE, w |-> TRUE, ts |-> Sources,
          ss |-> [Complete EXCEPT ![s] = IF s \in DirectDex THEN "absent" ELSE "partial"]] :
          s \in Sources}

\* Gas overrides as the validator asks for them.
Overrides(ps) == IF ps = Unset THEN {"lifi"} ELSE ps

RouteConfigs ==
  {[Base EXCEPT !.take = [source |-> s, factor |-> TRUE, arb |-> TRUE], !.manual = {},
                !.paths = p, !.providers = ps, !.gasOverrides = Overrides(ps),
                !.direct = d, !.defaultDirect = dd, !.router = g.r, !.tokens = g.w,
                !.takers = g.ts, !.sections = g.ss] :
     s \in {"uniswapV3", "lifi", "none"},
     p \in {Unset, {"direct_dex"}, {"calldata_aggregator"}, Paths},
     ps \in {Unset, {"lifi"}, {"sushi", "oneinch"}},
     d \in {Unset, {"curve"}, DirectDex}, dd \in {Unset, "uniswapV3"}, g \in Gaps}

ManualConfigs ==
  {[Base EXCEPT !.enabled = e, !.manual = {[source |-> s, factor |-> f, arb |-> TRUE]},
                !.router = g.r, !.tokens = g.w, !.takers = g.ts, !.sections = g.ss] :
     e \in BOOLEAN, f \in BOOLEAN, s \in Sources \cup {"none", Unset}, g \in Gaps}

\* The other fields, one or two at a time.
OtherConfigs ==
  {[Base EXCEPT !.take = [source |-> Unset, factor |-> TRUE, arb |-> FALSE]],
   [Base EXCEPT !.take = [source |-> "curve", factor |-> FALSE, arb |-> TRUE]],
   [Base EXCEPT !.deployCheck = FALSE],
   [Base EXCEPT !.deployCheck = FALSE, !.paths = {"direct_dex"}],
   [Base EXCEPT !.dryRun = TRUE, !.sections = [Complete EXCEPT !["lifi"] = "partial"]],
   [Base EXCEPT !.shape = FALSE], [Base EXCEPT !.scalars = FALSE], [Base EXCEPT !.tiers = FALSE],
   [Base EXCEPT !.once = "unacknowledged"], [Base EXCEPT !.fallback = TRUE],
   [Base EXCEPT !.fallback = TRUE, !.nativeCap = FALSE],
   [Base EXCEPT !.maximize = FALSE], [Base EXCEPT !.probeBudget = TRUE],
   [Base EXCEPT !.requirePrivate = TRUE, !.writeMode = "public_rpc"],
   [Base EXCEPT !.writeMode = "unusable"], [Base EXCEPT !.take = Unset],
   [Base EXCEPT !.kickCap = FALSE], [Base EXCEPT !.kickDefaults = FALSE],
   [Base EXCEPT !.settleDefaults = FALSE], [Base EXCEPT !.gasOverrides = {}],
   [Base EXCEPT !.quoteFloors = {"minProfitNative", "settlement"}],
   [Base EXCEPT !.once = "unacknowledged", !.dryRun = TRUE]}
  \cup {[Base EXCEPT !.policies = p, !.manualSettlement = m] :
          p \in SUBSET {"take", "settlement", "kick"}, m \in BOOLEAN}

DaemonConfigs ==
  {[Base EXCEPT !.once = "no"],
   [Base EXCEPT !.once = "no", !.enabled = FALSE, !.manual = {}, !.rewards = FALSE],
   [Base EXCEPT !.once = "no", !.dryRun = TRUE, !.rewards = FALSE]}

MCConfigs == RouteConfigs \cup ManualConfigs \cup OtherConfigs \cup DaemonConfigs
=============================================================================
