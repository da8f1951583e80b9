-------------------------- MODULE MCTakeApproval --------------------------
(***************************************************************************)
(* An auction that is limited by its debt, loses a quarter of its price, is  *)
(* taken by another account in part and then ends.                         *)
(***************************************************************************)
EXTENDS TakeApproval

MCCourse == <<
  [price |-> 21, coll |-> 29, debt |-> 40],
  [price |-> 16, coll |-> 29, debt |-> 40],
  [price |-> 16, coll |-> 15, debt |-> 18],
  [price |-> 0, coll |-> 0, debt |-> 0]>>

Usual == [maximize |-> TRUE, fallback |-> FALSE, subsidy |-> FALSE, drift |-> FALSE,
          par |-> FALSE, maxGas |-> 0, maxNative |-> 0, maxQuote |-> 0,
          minQuote |-> 0, minNative |-> 0, gas |-> {1}, rates |-> {2},
          stray |-> FALSE, flaky |-> FALSE]

DirectFirst == [Usual EXCEPT !.maximize = FALSE]

MCEnvironments == {
  [Usual EXCEPT !.fallback = TRUE, !.flaky = TRUE, !.maxNative = 2],
  [Usual EXCEPT !.minNative = 3, !.minQuote = 2, !.rates = {3}],
  [Usual EXCEPT !.par = TRUE, !.subsidy = TRUE, !.maxGas = 1, !.gas = {1, 2}],
  [DirectFirst EXCEPT !.flaky = TRUE, !.stray = TRUE, !.drift = TRUE, !.maxNative = 2,
                      !.gas = {1, 2}],
  [DirectFirst EXCEPT !.maxQuote = 3, !.rates = {2, 3}, !.gas = {2}],
  [DirectFirst EXCEPT !.subsidy = TRUE, !.minQuote = 5, !.rates = {3}]}

\* The gas price rises while the first route fails.
MCRisingGas == {[Usual EXCEPT !.minNative = 3, !.rates = {3}, !.gas = {1, 2}]}
=============================================================================
