----------------------------- MODULE TakeConfig -----------------------------
(***************************************************************************)
(* What the keeper reads out of its configuration file: the routes of      *)
(* external takes the running keeper resolves, what the validators of the  *)
(* start accept, and which routes the deployment preflight looks at.  The  *)
(* three are computed by different files of src/src/config, src/src/take   *)
(* and src/src/discovery; Keeper.tla relates them.                         *)
(*                                                                         *)
(* A configuration is a record c.  Numbers only matter as being within     *)
(* their bounds (c.tiers, c.scalars), addresses as being there.  A         *)
(* calldata-aggregator provider is identified with its liquidity source.   *)
(***************************************************************************)
EXTENDS Naturals, FiniteSets

CONSTANT Unset   \* an optional field that the file leaves out

-----------------------------------------------------------------------------
(* Liquidity sources and paths.                                            *)

DirectDex == {"uniswapV3", "curve"}
Aggregators == {"lifi", "sushi", "oneinch"}
Sources == DirectDex \cup Aggregators

ASSUME UnsetAssumption == Unset \notin Sources

Paths == {"direct_dex", "calldata_aggregator"}

PathOf(s) == IF s \in DirectDex THEN "direct_dex" ELSE "calldata_aggregator"

\* Provider, contract key and descriptor tables are exact mirrors of Sources:
\* a path asks for the deployment preflight and a gas override, or for none.
RequiresPreflight(s) == PathOf(s) = "calldata_aggregator"

\* How much of dex.<source> the file gives.  "partial" is: Uniswap without the
\* SwapRouter02, 1inch with routers only, LI.FI in canary mode, Sushi without
\* a complete allowlist, Curve without pool configurations.
SectionStates == {"absent", "partial", "complete"}

TakeSettings == [source: Sources \cup {"none", Unset}, factor: BOOLEAN, arb: BOOLEAN]

ConfigOK(c) ==
  /\ {c.shape, c.tiers, c.scalars, c.dryRun, c.enabled, c.maximize, c.fallback,
      c.nativeCap, c.probeBudget, c.deployCheck, c.requirePrivate,
      c.kickCap, c.kickDefaults, c.settleDefaults, c.manualSettlement,
      c.router, c.tokens, c.rewards} \subseteq BOOLEAN
  /\ c.once \in {"no", "unacknowledged", "acknowledged"}
  /\ c.writeMode \in {Unset, "public_rpc", "private_rpc", "unusable"}
  /\ c.policies \subseteq {"take", "settlement", "kick"}
  /\ c.take \in TakeSettings \cup {Unset}
  /\ c.manual \subseteq TakeSettings
  /\ c.paths \in (SUBSET Paths) \cup {Unset}
  /\ c.providers \in (SUBSET Aggregators) \cup {Unset}
  /\ c.direct \in (SUBSET Sources) \cup {Unset}
  /\ c.defaultDirect \in Sources \cup {Unset}
  /\ c.quoteFloors \subseteq {"maxGasCostQuote", "minProfitNative",
                              "minExpectedProfitQuote", "settlement"}
  /\ c.gasOverrides \subseteq Sources
  /\ c.takers \subseteq Sources
  /\ c.sections \in [Sources -> SectionStates]

-----------------------------------------------------------------------------
(* resolveExternalTakePolicy, with the liquidity source s of the take      *)
(* settings it is resolved for.                                            *)

ExternalTakePaths(c, s) ==
  IF c.paths # Unset THEN c.paths
  ELSE IF s \in Sources THEN {PathOf(s)} ELSE {}

AggregatorFamily(c, s) == "calldata_aggregator" \in ExternalTakePaths(c, s)

\* The resolver throws on an empty list and on providers without their family.
PolicyResolves(c, s) ==
  /\ c.paths # {}
  /\ c.providers # Unset => c.providers # {} /\ AggregatorFamily(c, s)

Providers(c, s) ==
  IF c.providers # Unset THEN c.providers
  ELSE IF ~AggregatorFamily(c, s) THEN {}
  ELSE IF s \in Aggregators THEN {s} ELSE {"lifi"}

DefaultDirect(c, s) ==
  IF s \in DirectDex THEN s
  ELSE IF c.defaultDirect \in DirectDex THEN c.defaultDirect ELSE Unset

DirectRouteSources(c, s) ==
  IF c.direct # Unset THEN c.direct \cap DirectDex
  ELSE {DefaultDirect(c, s)} \ {Unset}

\* One direct route and one for every provider.
RouteCount(c, s) ==
  Cardinality(ExternalTakePaths(c, s) \cap {"direct_dex"}) + Cardinality(Providers(c, s))

SelectorEnabled(c, s) ==
  c.paths # Unset \/ (c.providers # Unset /\ RouteCount(c, s) > 1)

NetProfitRanking(c, s) ==
  SelectorEnabled(c, s) /\ RouteCount(c, s) > 1 /\ c.maximize

FallbackEligible(c, s) ==
  /\ c.maximize
  /\ ExternalTakePaths(c, s) = Paths
  /\ c.nativeCap
  /\ c.quoteFloors \subseteq {"settlement"}

-----------------------------------------------------------------------------
(* What the running keeper makes of the configuration.                     *)

HasArb(t) == t.arb
HasTake(t) == t.source # Unset /\ t.factor

\* resolveExternalTakeDeployment: a router and a taker, or no external take.
Deployed(c, s) == c.router /\ s \in c.takers

\* A pool listed in the file: where nothing is deployed for its source the
\* external settings are stripped and arb takes remain.
ManualRoutes(c) ==
  {s \in Sources : Deployed(c, s) /\ \E t \in c.manual : t.source = s /\ t.factor}

DiscoversTakes(c) == c.enabled /\ "take" \in c.policies

\* A discovered pool: direct routes over the allowlist or the default source,
\* aggregator routes over the providers.  Without a market price factor every
\* quote is rejected.
DiscoveredRoutes(c) ==
  IF ~DiscoversTakes(c) \/ c.take = Unset THEN {}
  ELSE LET s == c.take.source IN
       IF ~c.take.factor THEN {}
       ELSE (IF "direct_dex" \in ExternalTakePaths(c, s) /\ DefaultDirect(c, s) # Unset
             THEN IF c.direct \notin {Unset, {}} THEN c.direct \cap DirectDex
                                                 ELSE {DefaultDirect(c, s)}
             ELSE {})
            \cup (IF AggregatorFamily(c, s) THEN Providers(c, s) ELSE {})

Routes(c) == ManualRoutes(c) \cup DiscoveredRoutes(c)

TakeLoopConfigured(c) == c.manual # {} \/ DiscoversTakes(c)

SettlementLoopConfigured(c) ==
  c.manualSettlement \/ (c.enabled /\ "settlement" \in c.policies)

\* planDaemonLoops: the take loop as initializeTakeLoop leaves it.
PlannedLoops(c) ==
  {"Kick", "Bond", "LpRewards"}
    \cup (IF TakeLoopConfigured(c) THEN {"Take"} ELSE {})
    \cup (IF SettlementLoopConfigured(c) THEN {"Settlement"} ELSE {})

-----------------------------------------------------------------------------
(* validateTakeSettings: the requirements of one source of external takes. *)

Given(c, s) == c.sections[s] # "absent"

\* All addresses of a direct DEX; call targets, spenders and selectors of an
\* aggregator, for every chain that any of the three lists names.
PolicyComplete(c, s) == c.sections[s] = "complete"

UniswapOk(c) == PolicyComplete(c, "uniswapV3")

CurveOk(c) == PolicyComplete(c, "curve") /\ c.tokens

\* A live keeper wants reviewed allowlists; a dry run is content with routers.
OneInchOk(c) == Given(c, "oneinch") /\ (~c.dryRun => PolicyComplete(c, "oneinch"))

\* A live keeper wants the production mode; a dry run takes the canary mode.
LifiOk(c) == Given(c, "lifi") /\ (~c.dryRun => PolicyComplete(c, "lifi"))

SushiOk(c) == PolicyComplete(c, "sushi")

SectionOk(c, s) ==
  CASE s = "uniswapV3" -> UniswapOk(c)
    [] s = "curve" -> CurveOk(c)
    [] s = "oneinch" -> OneInchOk(c)
    [] s = "lifi" -> LifiOk(c)
    [] OTHER -> SushiOk(c)

TakerRegistered(c, s) == Deployed(c, s)

TakeSettingsOk(c, t) ==
  /\ HasArb(t) \/ HasTake(t)
  /\ HasTake(t) => /\ t.source \in Sources
                   /\ TakerRegistered(c, t.source)
                   /\ SectionOk(c, t.source)

\* validateQuoteDenominatedGasPolicy: any source that quotes native tokens, and
\* a wrapped native token.
GasQuotable(c) ==
  /\ \/ c.sections["oneinch"] # "absent"
     \/ c.sections["uniswapV3"] # "absent"
     \/ c.sections["curve"] = "complete"
  /\ c.tokens \/ c.sections["uniswapV3"] # "absent" \/ c.sections["curve"] # "absent"

-----------------------------------------------------------------------------
(* validateAutoDiscoverConfig.                                             *)

With(t, s) == [t EXCEPT !.source = s]

TakeScalarsOk(c) == c.scalars

TransportOk(c) ==
  c.requirePrivate /\ ~c.dryRun => c.writeMode = "private_rpc"

\* validateResolvedTakePathRequirements.
PathsOk(c, s) ==
  /\ PolicyResolves(c, s)
  /\ c.fallback => FallbackEligible(c, s)
  /\ c.defaultDirect \in DirectDex \cup {Unset}
  /\ "direct_dex" \in ExternalTakePaths(c, s) => DefaultDirect(c, s) # Unset
  /\ AggregatorFamily(c, s) => c.deployCheck /\ Providers(c, s) \subseteq c.gasOverrides
  /\ NetProfitRanking(c, s) => GasQuotable(c)
  /\ c.probeBudget => "direct_dex" \in ExternalTakePaths(c, s)

DirectSourcesOk(c, t) ==
  IF c.direct # Unset
  THEN /\ "direct_dex" \in ExternalTakePaths(c, t.source)
       /\ c.direct # {} /\ c.direct \subseteq DirectDex
       /\ \A s \in c.direct : TakeSettingsOk(c, With(t, s))
       /\ c.defaultDirect # Unset => DefaultDirect(c, t.source) \in c.direct \cup {Unset}
  ELSE "direct_dex" \in ExternalTakePaths(c, t.source)
         => TakeSettingsOk(c, With(t, DefaultDirect(c, t.source)))

\* Mutant: the providers are not validated one by one.
DirectAndDefaultSourcesOk(c, t) ==
  /\ DirectSourcesOk(c, t)
  /\ ExternalTakePaths(c, t.source) = {} => TakeSettingsOk(c, t)

\* validateTakeLiquiditySourceSettings: the settings are validated once for
\* every source that they can be used with.
LiquiditySourcesOk(c, t) ==
  /\ DirectSourcesOk(c, t)
  /\ AggregatorFamily(c, t.source) =>
       \A s \in Providers(c, t.source) : TakeSettingsOk(c, With(t, s))
  /\ ExternalTakePaths(c, t.source) = {} => TakeSettingsOk(c, t)

\* validateTakeGasOverridesAndProfitFloors.
FloorsOk(c, t) ==
  /\ c.gasOverrides \subseteq DirectRouteSources(c, t.source) \cup Providers(c, t.source)
  /\ c.quoteFloors \ {"settlement"} # {} => GasQuotable(c)
  /\ c.quoteFloors \cap {"minProfitNative", "minExpectedProfitQuote"} # {}
       => ExternalTakePaths(c, t.source) # {} /\ t.factor

TakePolicyOk(c) ==
  /\ TakeScalarsOk(c)
  /\ TransportOk(c)
  /\ c.take # Unset
  /\ PathsOk(c, c.take.source)
  /\ LiquiditySourcesOk(c, c.take)
  /\ FloorsOk(c, c.take)

SettlementPolicyOk(c) ==
  ("settlement" \in c.quoteFloors => GasQuotable(c)) /\ c.settleDefaults

\* A bond cap for every pool, and only where the keeper can take.
KickPolicyOk(c) == c.kickCap /\ c.kickDefaults

\* Fee tiers and the 1inch executors are checked in any case; discovery that is
\* not enabled is not looked at.
AutoDiscoverOk(c) ==
  /\ c.tiers
  /\ c.enabled =>
       /\ c.policies # {}
       /\ "kick" \in c.policies => "take" \in c.policies
       /\ "take" \in c.policies => TakePolicyOk(c)
       /\ "settlement" \in c.policies => SettlementPolicyOk(c)
       /\ "kick" \in c.policies => KickPolicyOk(c)

\* initializeTakeLoop, up to the transport: validateTakeSettingsForChain looks
\* at the discovered defaults whether discovery is enabled or not.
TakeLoopOk(c) ==
  TakeLoopConfigured(c) =>
    /\ \A t \in c.manual : TakeSettingsOk(c, t)
    /\ c.take # Unset /\ "take" \in c.policies => TakeSettingsOk(c, c.take)
    /\ ~c.dryRun => c.writeMode # "unusable"

-----------------------------------------------------------------------------
(* The deployment preflight.                                               *)

DiscoveredRequirements(c) ==
  IF c.deployCheck /\ DiscoversTakes(c) /\ c.take # Unset
  THEN DirectRouteSources(c, c.take.source) \cup Providers(c, c.take.source)
  ELSE {}

\* Manual pools of a live keeper: the sources that require the preflight,
\* whether or not the pool's take settings are complete.
ManualRequirements(c) ==
  IF c.dryRun THEN {}
  ELSE {s \in Sources : RequiresPreflight(s) /\ \E t \in c.manual : t.source = s}

\* Mutant: only what discovery may use.
PreflightDiscoveredOnly(c) == DiscoveredRequirements(c)

PreflightRequirements(c) == DiscoveredRequirements(c) \cup ManualRequirements(c)

\* What may be wrong on the chain, or unreadable after the retries: the code or
\* the registration of a taker, the code of a section's contracts, the taker's
\* allowlists.
Facts == {"takerCode", "registry", "sectionCode", "allowlist"}

TakerCodeChecked(c, s) == s \in c.takers

RegistryChecked(c, s) == c.router /\ s \in c.takers

\* Without a policy of 1inch, or in the canary mode of LI.FI, the checks of the
\* allowlists return at once; that of Sushi reports the missing policy.
OneInchAllowlistChecked(c) == PolicyComplete(c, "oneinch") /\ "oneinch" \in c.takers

LifiAllowlistChecked(c) == PolicyComplete(c, "lifi") /\ "lifi" \in c.takers

SushiAllowlistChecked(c) == PolicyComplete(c, "sushi") /\ "sushi" \in c.takers

\* Targets and spenders have code, and the taker allows exactly what the file
\* lists.
AllowlistChecked(c, s) ==
  \/ s = "oneinch" /\ OneInchAllowlistChecked(c)
  \/ s = "lifi" /\ LifiAllowlistChecked(c)
  \/ s = "sushi" /\ SushiAllowlistChecked(c)

\* The code of the section's contracts: those the descriptor lists, and the
\* targets and spenders of an allowlist.
SectionCodeChecked(c, s) ==
  \/ s \in {"oneinch", "curve"} /\ Given(c, s)
  \/ s = "uniswapV3" /\ PolicyComplete(c, s)
  \/ AllowlistChecked(c, s)

\* validateExternalTakeSourcePreflight reports an error for source s when this
\* fact of s is wrong.
Reports(c, s, fact) ==
  \/ fact = "takerCode" /\ TakerCodeChecked(c, s)
  \/ fact = "registry" /\ RegistryChecked(c, s)
  \/ fact = "sectionCode" /\ SectionCodeChecked(c, s)
  \/ fact = "allowlist" /\ AllowlistChecked(c, s)

\* An address or a policy that the preflight misses in the file itself.
Incomplete(c, s) ==
  \/ ~Deployed(c, s)
  \/ s \in {"oneinch", "curve"} /\ c.sections[s] = "absent"
  \/ s \in {"uniswapV3", "sushi"} /\ c.sections[s] # "complete"

\* The errors of all requirements are collected before the preflight throws.
PreflightOk(c, fault) ==
  \A s \in PreflightRequirements(c) :
    /\ ~Incomplete(c, s)
    /\ fault # <<"router", "routerCode">>
    /\ ~(fault[1] = s /\ Reports(c, s, fault[2]))
=============================================================================
