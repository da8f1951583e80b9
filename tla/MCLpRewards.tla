---------------------------- MODULE MCLpRewards ----------------------------
(***************************************************************************)
(* Instance of LpRewards: five events in two buckets of two pools, one of  *)
(* them with the signer's own deposit.                                     *)
(***************************************************************************)
EXTENDS LpRewards, TLC

CONSTANTS e1, e2, e3, e4, e5, b1, b2, p1, p2

MCEvents == {e1, e2, e3, e4, e5}
MCBuckets == {b1, b2}
MCPools == {p1, p2}
MCBucketOf == (e1 :> b1) @@ (e2 :> b1) @@ (e3 :> b2) @@ (e4 :> b2) @@ (e5 :> b1)
MCPoolOf == (b1 :> p1) @@ (b2 :> p2)
MCAmount == (e1 :> 2) @@ (e2 :> 1) @@ (e3 :> 1) @@ (e4 :> 1) @@ (e5 :> 1)
MCKind == [e \in MCEvents |-> IF e = e3 THEN "undated" ELSE "good"]

TransferAndSwap == [quote |-> "transfer", collateral |-> "exchange"]

Quiet == [takes |-> {e1}, first |-> "quote", dust |-> 0, action |-> TransferAndSwap,
          configured |-> {p1}, principal |-> 1, dry |-> FALSE, flaky |-> FALSE,
          lagging |-> FALSE, breaks |-> FALSE, lossy |-> FALSE, moving |-> FALSE,
          refuses |-> FALSE, jams |-> FALSE, kills |-> FALSE]

MCEnvironments == {
  [Quiet EXCEPT !.takes = {e2, e4, e5}, !.dry = TRUE],     \* ingestion alone
  [Quiet EXCEPT !.takes = {e1, e3}, !.dry = TRUE, !.flaky = TRUE],
  [Quiet EXCEPT !.takes = {e1, e2}],                                \* two rewards of a bucket
  [Quiet EXCEPT !.takes = {e1, e4}, !.dust = 1],                    \* two pools, with dust
  [Quiet EXCEPT !.refuses = TRUE, !.kills = TRUE],
  [Quiet EXCEPT !.jams = TRUE, !.flaky = TRUE, !.first = "collateral"],
  [Quiet EXCEPT !.takes = {e2, e5}, !.moving = TRUE, !.lagging = TRUE],
  [Quiet EXCEPT !.breaks = TRUE, !.jams = TRUE],
  [Quiet EXCEPT !.lossy = TRUE, !.action = [quote |-> "exchange", collateral |-> "void"]]}

\* Reads and hydrations may fail; transactions may fail.
MCFlaky == {[Quiet EXCEPT !.flaky = TRUE]}
MCRefusing == {[Quiet EXCEPT !.takes = {e1, e2}, !.refuses = TRUE]}
=============================================================================
