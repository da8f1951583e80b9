---------------------------- MODULE MCRouteTake ----------------------------
(***************************************************************************)
(* Every kind of route, scales of one and of two, and a unit of three, so  *)
(* that every division rounds in some order.  The lists of the contract    *)
(* are those of the file, or lack an entry, have one too many, or have one *)
(* that the owner took back.  One call of the owner suffices to make lists *)
(* match that did not, or differ that did match.                           *)
(***************************************************************************)
EXTENDS RouteTake

MCSetups == [exact : BOOLEAN, collateralScale : {1, 2}, quoteScale : {1, 2}]

MCOrders ==
  [maxAmount : 1 .. 5, auctionPrice : {2, 3}, amountOutMinimum : {3, 5},
   amountIn : 1 .. 5]

OfVenue(spender) ==
  [targets |-> {"venue"}, spenders |-> {spender}, selectors |-> {<<"venue", "swap">>}]

\* 1inch's router is a spender and no target.
NoTarget ==
  [targets |-> {"proxy"}, spenders |-> {"venue"}, selectors |-> {<<"proxy", "swap">>}]

File(provider, policy) ==
  [provider |-> provider, policy |-> policy, checks |-> TRUE, dry |-> FALSE, complete |-> TRUE]

EntriesOf(policy) ==
  {<<"target", a>> : a \in policy.targets} \cup {<<"spender", a>> : a \in policy.spenders}
    \cup {<<"selector", ts>> : ts \in policy.selectors}

Deployed(f) ==
  LET all == EntriesOf(f.policy)
  IN [file |-> f, lists |-> [known |-> all, allowed |-> all], registered |-> "configured"]

Lifi == Deployed(File("lifi", OfVenue("proxy")))
Sushi == Deployed(File("sushi", OfVenue("venue")))
Direct == Deployed(File("direct", OfVenue("venue")))

MCDeployments ==
  {Direct, Sushi, Lifi, Deployed(File("oneinch", OfVenue("venue"))),
   Deployed(File("oneinch", NoTarget)), Deployed(File("oneinch", OfVenue("proxy"))),
   [Lifi EXCEPT !.file.dry = TRUE], [Sushi EXCEPT !.file.complete = FALSE],
   [Direct EXCEPT !.file.complete = FALSE, !.file.checks = FALSE],
   [Lifi EXCEPT !.file.checks = FALSE, !.registered = "none"],
   [Lifi EXCEPT !.lists = [known |-> {}, allowed |-> {}]],
   [Lifi EXCEPT !.lists.known = @ \cup {<<"target", "stranger">>}],
   [Lifi EXCEPT !.lists.known = @ \cup {<<"target", "stranger">>},
                !.lists.allowed = @ \cup {<<"target", "stranger">>}]} \cup
  {[d EXCEPT !.lists.allowed = @ \ {e}] : d \in {Lifi, Sushi}, e \in EntriesOf(OfVenue("proxy"))}

MCExchanges ==
  [policy |-> "concrete_allowlist", allow |-> {"dex"}, prefer |-> {}, deny |-> {"stranger"}]

MCOwnersEntries == {<<"target", "venue">>, <<"target", "stranger">>}

MCAuctions ==
  {[coll |-> 5, price |-> 3, debt |-> 9], [coll |-> 5, price |-> 3, debt |-> 4],
   [coll |-> 5, price |-> 2, debt |-> 9], [coll |-> 3, price |-> 2, debt |-> 0]}

=============================================================================
