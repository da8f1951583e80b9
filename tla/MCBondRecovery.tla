-------------------------- MODULE MCBondRecovery --------------------------
(***************************************************************************)
(* Two borrowers, auctions that are old enough after two units of time and *)
(* a cache that serves for one.                                            *)
(***************************************************************************)
EXTENDS BondRecovery

CONSTANTS b1, b2

Usual == [runs |-> {"bond", "settle"}, own |-> {b1}, others |-> {}, discovered |-> FALSE,
          enabled |-> TRUE, incentive |-> FALSE, dry |-> FALSE, lags |-> FALSE,
          flaky |-> FALSE, refuses |-> FALSE, lossy |-> FALSE]

MCUsual == {Usual}

MCEnvironments == {
  Usual,                                                      \* bonds and a manual target
  [Usual EXCEPT !.discovered = TRUE],                         \* bonds and a discovered one
  [Usual EXCEPT !.runs = {"reward", "settle"}],
  [Usual EXCEPT !.runs = {"bond"}, !.refuses = TRUE, !.flaky = TRUE, !.lossy = TRUE],
  [Usual EXCEPT !.runs = {"settle"}, !.discovered = TRUE, !.incentive = TRUE,
                !.others = {b2}],
  [Usual EXCEPT !.runs = {"settle"}, !.lags = TRUE, !.flaky = TRUE],
  [Usual EXCEPT !.runs = {"bond"}, !.enabled = FALSE, !.own = {b1, b2}],
  [Usual EXCEPT !.runs = {"bond"}, !.dry = TRUE]}
=============================================================================
