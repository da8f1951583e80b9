--------------------------- MODULE SubgraphScan ---------------------------
(***************************************************************************)
(* The query behind the scan of DiscoveryRuntime (subgraph.ts,             *)
(* endpoint-health.ts): the auctions come page by page, each page is a     *)
(* request of its own, and each request tries the configured endpoints one *)
(* after the other, those that rest after failures last.  Other requests   *)
(* of the daemon use the same endpoints and count on the same health.      *)
(*                                                                         *)
(* A pool has one auction at a time; Rank orders the pools by its id.      *)
(***************************************************************************)
EXTENDS DiscoveryRuntime, SequencesExt

CONSTANTS
  Urls,
  Threshold,          \* SUBGRAPH_FAILURE_THRESHOLD
  Rest,               \* SUBGRAPH_COOLDOWN_MS
  PageSize, MaxPages, \* of getChainwideLiquidationAuctions
  Rank,
  Deployments

DeploymentType == [
  env : Environments,
  urls : Seq(Urls),       \* subgraphUrl and fallbackUrls, as they are configured
  failing : SUBSET Urls,  \* requests to them may fail or time out
  sound : Urls,           \* see Fairness
  lags : BOOLEAN,         \* pages may show other states than the chain, and lack ids
  shared : BOOLEAN]       \* other requests are made meanwhile

ASSUME SubgraphAssumption ==
  /\ Threshold \in Nat \ {0} /\ Rest \in Nat
  /\ PageSize \in Nat \ {0} /\ MaxPages \in Nat \ {0}
  /\ Rank \in [Pools -> Nat \ {0}] /\ \A p, q \in Pools : Rank[p] = Rank[q] => p = q
  /\ Deployments \subseteq DeploymentType

VARIABLES
  reader,    \* the deployment
  failures,  \* consecutiveFailures, up to the threshold
  rests,     \* time until cooldownUntil
  line,      \* the endpoints that the request under way may still try, the current one first
  page,      \* pages read by the scan under way
  items      \* what they listed

health == <<failures, rests>>
request == <<line, page, items>>
scanVars == <<vars, reader, health, request>>

Once(urls, u) == IF \E i \in DOMAIN urls : urls[i] = u THEN urls ELSE Append(urls, u)
\* uniqueEndpoints
Endpoints == FoldLeft(Once, <<>>, reader.urls)

\* orderEndpointsByHealth, at the moment at which they rest so long.
Ordered(left) ==
  SelectSeq(Endpoints, LAMBDA u : left[u] = 0) \o SelectSeq(Endpoints, LAMBDA u : left[u] > 0)

\* What the pages read so far list are pools that are allowed.
RequestOK == reader.env = env /\ auction \in Answers /\ items \in Answers

ScanInit ==
  /\ Init
  /\ reader \in Deployments /\ reader.env = env
  /\ failures = [u \in Urls |-> 0] /\ rests = [u \in Urls |-> 0]
  /\ line = <<>> /\ page = 0 /\ items = Nothing

-----------------------------------------------------------------------------
\* The health of the endpoints.

\* The health of a lone endpoint orders nothing and is not kept here.
Alone == Len(Endpoints) = 1 /\ UNCHANGED health

\* recordEndpointSuccess
Served(u) ==
  \/ Alone
  \/ /\ Len(Endpoints) > 1
     /\ failures' = [failures EXCEPT ![u] = 0]
     /\ rests' = [rests EXCEPT ![u] = 0]

\* recordEndpointFailure
Charged(u) ==
  \/ Alone
  \/ /\ Len(Endpoints) > 1
     /\ failures' = [failures EXCEPT ![u] = IF @ + 1 < Threshold THEN @ + 1 ELSE Threshold]
     /\ rests' = [rests EXCEPT ![u] = IF failures[u] + 1 < Threshold THEN @ ELSE Rest]

\* A request for loans, liquidations, buckets or rewards.
OtherRequest(u) ==
  /\ reader.shared
  /\ \E i \in DOMAIN Endpoints : Endpoints[i] = u
  /\ Served(u) \/ (u \in reader.failing /\ Charged(u))
  /\ UNCHANGED <<vars, reader, request>>

-----------------------------------------------------------------------------
\* The scan.

Idle == line' = <<>> /\ page' = 0 /\ items' = Nothing

\* requestSubgraph of the first page, when a loop starts a scan.
Requests == IF waiting = {} /\ waiting' # {} THEN line' = Ordered(rests) /\ UNCHANGED <<page, items>>
            ELSE UNCHANGED request

\* The last id of the pages so far; 0 is before all of them.
Cursor == Max({0} \cup {Rank[p] : p \in {q \in Pools : items[q] # "none"}})

\* The next page of an endpoint that shows these states.
Listed(shown) ==
  LET rest == {p \in Pools : shown[p] # "none" /\ Rank[p] > Cursor}
  IN  {p \in rest : Cardinality({q \in rest : Rank[q] < Rank[p]}) < PageSize}

\* The page is short, it was the last that is asked for, or its last item has no id.
Ended(listed) ==
  \/ Cardinality(listed) < PageSize
  \/ page = MaxPages - 1
  \/ reader.lags

Shown == IF reader.lags THEN Answers ELSE {auction}

\* The current endpoint answers. Either the scan is over, or the next page is asked for.
PageArrives ==
  /\ line # <<>>
  /\ Served(Head(line))
  /\ \E shown \in Shown :
       LET listed == Listed(shown)
           sofar == [p \in Pools |-> IF p \in listed THEN shown[p] ELSE items[p]]
       IN  \/ Ended(listed) /\ ArrivesWith(sofar) /\ Idle
           \/ /\ Cardinality(listed) = PageSize /\ page < MaxPages - 1
              /\ items' = sofar /\ page' = page + 1 /\ line' = Ordered(rests')
              /\ UNCHANGED vars
  /\ UNCHANGED reader

GivesUp == ArriveFails /\ Idle  \* mutant
\* It refuses, or the request is aborted after SUBGRAPH_TIMEOUT_MS: the next one is tried.
TriesNext ==
  IF Len(line) > 1 THEN line' = Tail(line) /\ UNCHANGED <<vars, page, items>>
  ELSE ArriveFails /\ Idle

AttemptFails ==
  /\ line # <<>> /\ Head(line) \in reader.failing
  /\ Charged(Head(line))
  /\ TriesNext
  /\ UNCHANGED reader

-----------------------------------------------------------------------------
ScanTick ==
  /\ TimePasses
  /\ rests' = [u \in Urls |-> IF rests[u] > 0 THEN rests[u] - 1 ELSE 0]
  /\ <<vars, rests>>' # <<vars, rests>>
  /\ UNCHANGED <<reader, failures, request>>

\* Neither the endpoints nor the scan are touched.
Quiet == UNCHANGED <<reader, health, request>>

Takes == TakeStep /\ Requests /\ UNCHANGED <<reader, health>>
Settles == SettleStep /\ Requests /\ UNCHANGED <<reader, health>>

ScanNext ==
  \/ ScanTick \/ Takes \/ Settles \/ PageArrives \/ AttemptFails
  \/ \E u \in Urls : OtherRequest(u)
  \/ \E p \in Pools : Auction(p) /\ Quiet

ScanSpec == ScanInit /\ [][ScanNext]_scanVars

\* The loops never stop and every attempt ends. Loads and settlements of the settlement loop do
\* not fail for ever, and of the endpoints one is sound: if it is asked for a page again and
\* again, it answers. The others need not.
Answered(n) ==
  /\ page = n /\ "settle" \in waiting /\ line # <<>> /\ Head(line) = reader.sound
  /\ PageArrives

Fairness ==
  /\ SF_scanVars(ScanTick) /\ WF_scanVars(Takes) /\ WF_scanVars(Settles)
  /\ WF_scanVars(PageArrives \/ AttemptFails)
  /\ \A n \in 0 .. MaxPages - 1 : SF_scanVars(Answered(n))
  /\ SF_scanVars(LoadDone("settle") /\ Quiet)
  /\ \A p \in Pools : SF_scanVars(Settled(p) /\ Quiet)

FairScanSpec == ScanSpec /\ Fairness

-----------------------------------------------------------------------------
\* Bad debt in a pool that the settlement loop is to discover does not stay, though endpoints
\* fail, pages are read at different times, scans fail, pools fail to load, and cycles are put
\* off by successes and failures, as long as one endpoint of the list is sound: failing over in
\* every request must reach it whatever health the others and other requests leave behind
\* (subgraph.ts requestSubgraph, runtime.ts shouldRunDiscoveredSettlementCycle), when the
\* answers are right and no limit cuts the targets.
DiscoveredSettled ==
  \A p \in Pools :
    /\ "settle" \in env.loops \cap env.policies /\ p \notin env.manual["settle"]
    /\ env.most["settle"] = Cardinality(Pools) /\ PageSize * MaxPages >= Cardinality(Pools)
    /\ ~reader.lags
    /\ auction[p] = "bad"
    ~> auction[p] # "bad"

=============================================================================
