---------------------------- MODULE MCKickCycle ----------------------------
(***************************************************************************)
(* Two pools with two loans and one, bonds of one or two units.            *)
(***************************************************************************)
EXTENDS KickCycle, TLC

CONSTANTS A, B, a1, a2, b1

MCPoolOf == (a1 :> A) @@ (a2 :> A) @@ (b1 :> B)

Usual == [manual |-> {B}, dry |-> {}, poolCap |-> 2, totalCap |-> 3, maxPools |-> 2,
          loses |-> FALSE, moves |-> FALSE, kills |-> FALSE]

MCEnvironments == {
  Usual,                                                        \* two loans, one cap
  [Usual EXCEPT !.manual = {}, !.poolCap = 3, !.maxPools = 1],  \* two discovered pools
  [Usual EXCEPT !.manual = {A}, !.loses = TRUE, !.poolCap = 0], \* a pass of two loans
  [Usual EXCEPT !.manual = {A}, !.moves = TRUE, !.poolCap = 0],
  [Usual EXCEPT !.kills = TRUE, !.poolCap = 0],
  [Usual EXCEPT !.manual = {A}, !.dry = {A, B}]}
=============================================================================
