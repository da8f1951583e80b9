------------------------ MODULE MCDurableNonceFile ------------------------
(***************************************************************************)
(* Two keepers on one file.                                                *)
(***************************************************************************)
EXTENDS DurableNonceFile

MCProcs == {"a", "b"}

OnShared == [procs |-> MCProcs, fails |-> {}, leaves |-> FALSE, stalls |-> FALSE, top |-> 1]
OnOwn == [procs |-> {"a"}, fails |-> {"a"}, leaves |-> TRUE, stalls |-> TRUE, top |-> 2]
OnKilled == [procs |-> MCProcs, fails |-> {}, leaves |-> TRUE, stalls |-> FALSE, top |-> 1]

MCSound == {OnShared, OnOwn}
MCKilled == {OnKilled}
=============================================================================
