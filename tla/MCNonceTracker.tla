--------------------------- MODULE MCNonceTracker ---------------------------
(***************************************************************************)
(* The environments of the runs.  The first four are those in which the    *)
(* tracker's guarantees hold, each as hostile as they allow; Hostile is    *)
(* everything at once and is there so that no step goes unexplored.        *)
(***************************************************************************)
EXTENDS NonceTracker

Anywhere == Places

Hostile ==
  [channels |-> Channels, readsFail |-> TRUE, lossy |-> TRUE,
   fileFails |-> TRUE, auxSees |-> TRUE, drops |-> TRUE,
   expiry |-> "early", crash |-> Anywhere]

OnPublic ==
  [Hostile EXCEPT !.channels = Visible, !.readsFail = FALSE, !.fileFails = FALSE,
                  !.auxSees = FALSE]

\* The private endpoint answers pending lookups, and counts its own.
OnPrivateSeen ==
  [Hostile EXCEPT !.channels = Visible \cup {"private"},
                  !.readsFail = FALSE, !.fileFails = FALSE, !.drops = FALSE]

OnRelay ==
  [Hostile EXCEPT !.channels = {"relay"}, !.fileFails = FALSE,
                  !.expiry = "dead", !.crash = Anywhere \ {"mark"}]

\* The private endpoint does not: its nonces are as hidden as a relay's.
OnHidden ==
  [OnRelay EXCEPT !.channels = {"relay", "private"}, !.auxSees = FALSE,
                  !.lossy = FALSE, !.crash = Anywhere \ {"mark", "wait"}]

MCScenario == {OnPublic, OnPrivateSeen, OnRelay, OnHidden, Hostile}

\* A take relay beside the public provider the other loops submit through.
RelayBesidePublic ==
  [OnRelay EXCEPT !.channels = {"relay", "wallet", "swap"},
                  !.readsFail = FALSE, !.lossy = FALSE, !.drops = FALSE,
                  !.crash = {}]

MCRelayBesidePublic == {RelayBesidePublic}

\* A public provider that may fail to answer a pending lookup.
FailingReads == [OnPublic EXCEPT !.readsFail = TRUE, !.lossy = FALSE, !.crash = {}]

MCFailingReads == {FailingReads}
=============================================================================
