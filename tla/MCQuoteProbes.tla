--------------------------- MODULE MCQuoteProbes ---------------------------
(***************************************************************************)
(* Two evaluations that probe a direct route and an aggregator through one *)
(* permit, so two operations may be abandoned.                             *)
(***************************************************************************)
EXTENDS QuoteProbes

MCEvaluations == 1 .. 2
MCAggregators == {"oneinch"}
MCOps == MCEvaluations \X (MCAggregators \cup {"direct_dex"})
MCSettling == {<<1, "direct_dex">>}
=============================================================================
