-------------------------- MODULE MCSubgraphScan --------------------------
(***************************************************************************)
(* Two pools, two endpoints and seven deployments of the discovery         *)
(* runtime.                                                                *)
(***************************************************************************)
EXTENDS SubgraphScan

CONSTANTS p1, p2, u1, u2

MCRank == [p \in Pools |-> IF p = p1 THEN 1 ELSE 2]

\* Both loops discover, one pool has auctions, loads and targets may fail.
MCEnv == [loops |-> Loops, policies |-> Loops, manual |-> [l \in Loops |-> {}],
          lists |-> {p1}, most |-> [l \in Loops |-> 2], hot |-> 0, flaky |-> TRUE]
MCTakesOnly == [MCEnv EXCEPT !.loops = {"take"}, !.hot = 1]
MCTakesOfTwo == [MCTakesOnly EXCEPT !.lists = Pools, !.most = [l \in Loops |-> 1],
                                    !.flaky = FALSE]
MCSettlesOnly == [MCEnv EXCEPT !.loops = {"settle"}, !.policies = {"settle"}, !.flaky = FALSE]
MCSettlesTwo == [MCSettlesOnly EXCEPT !.lists = Pools]
MCShared == [MCEnv EXCEPT !.manual = [l \in Loops |-> IF l = "take" THEN {p1} ELSE {}],
                          !.flaky = FALSE]
MCManual == [MCEnv EXCEPT !.manual = [l \in Loops |-> IF l = "take" THEN {p1} ELSE {p2}],
                          !.policies = {"settle"}]

MCEnvironments ==
  {MCEnv, MCTakesOnly, MCTakesOfTwo, MCSettlesOnly, MCSettlesTwo, MCShared, MCManual}

\* One endpoint, which may fail.
MCLone(e) == [env |-> e, urls |-> <<u1>>, failing |-> {u1}, sound |-> u1,
              lags |-> FALSE, shared |-> FALSE]

MCDeployments == {
  \* loads and targets fail in both loops
  [MCLone(MCEnv) EXCEPT !.failing = {}],
  \* a scan that both loops wait for fails
  MCLone(MCShared),
  \* takes with the cache of candidates: one pool and wrong answers ...
  [MCLone(MCTakesOnly) EXCEPT !.lags = TRUE],
  \* ... or two pools, one place in the cache and one target in a cycle
  [MCLone(MCTakesOfTwo) EXCEPT !.failing = {}],
  \* settlements of two pools on two pages
  MCLone(MCSettlesTwo),
  \* settlements, with an endpoint that may fail for ever before one that may not, the first one
  \* configured twice, and requests of other loops
  [MCLone(MCSettlesOnly) EXCEPT
     !.urls = <<u1, u2, u1>>, !.failing = {u1, u2}, !.sound = u2, !.shared = TRUE],
  \* settings of their own for one of the pools
  MCLone(MCManual)}

=============================================================================
