---------------------------- MODULE MCTakeEngine ----------------------------
(***************************************************************************)
(* Three candidates; discovered targets with windows of one and two and    *)
(* one or two executions, over a node whose answers may be lost too, a     *)
(* manual target, and a dry run.                                           *)
(***************************************************************************)
EXTENDS TakeEngine

Lossy == [Discovered(1, 1) EXCEPT !.lossy = TRUE]

MCProfile ==
  {Discovered(1, 2), Discovered(2, 2), Lossy, Manual,
   [Discovered(1, 1) EXCEPT !.dryRun = TRUE]}

MCLossy == {Lossy}
=============================================================================
