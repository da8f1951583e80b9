-------------------------- MODULE DurableNonceFile --------------------------
(***************************************************************************)
(* The file behind the durable nonce floors                                *)
(* (src/src/durable-nonce-state.ts): a JSON file, a lock file next to it,  *)
(* a temporary file that replaces it, and in every process a copy with the *)
(* signature (times and size) of the file it was read from.                *)
(*                                                                         *)
(* Keepers that share the file have addresses of their own, and a process  *)
(* makes one call at a time, since its calls come from the turns of one    *)
(* transaction queue.  A write takes the lock, reloads, changes its copy,  *)
(* replaces the file and removes the lock, whoever owns it by then.  A     *)
(* lock older than 10 s is removed by whoever finds it: to look at its age *)
(* and to remove it are two steps.                                         *)
(*                                                                         *)
(* A map of floors has 0 where there is no entry, and a missing file is    *)
(* the empty map.                                                          *)
(***************************************************************************)
EXTENDS Naturals

CONSTANTS
  Procs,          \* the keeper processes, each with an address of its own
  NoProc,         \* nobody has the lock
  MaxFloor,       \* bound on the nonces
  Environments    \* what may happen, see EnvType

Floors == 0 .. MaxFloor
Maps == [Procs -> Floors]

EnvType == [
  procs : SUBSET Procs,   \* who shares the file
  fails : SUBSET Procs,   \* whose reads, writes and renames may fail
  leaves : BOOLEAN,       \* locks may be left behind, by a kill or a failing rm
  stalls : BOOLEAN,       \* a live process may hold the lock for 10 s
  top : Floors]           \* bound on the nonces there

ASSUME FileAssumption ==
  /\ NoProc \notin Procs
  /\ MaxFloor \in Nat
  /\ Environments \subseteq EnvType

VARIABLES
  env,
  file, exists,   \* the file
  tmp,            \* the temporary file: a set with its content, if any
  lock, old,      \* who made the lock file, and whether it is 10 s old
  pc, want, late, \* the call of a process, what it writes, its deadline
  mem, fresh,     \* its copy; loaded, and its signature is that of the file
  tried           \* see NonceFloors (history)

disk == <<file, exists, tmp>>
locking == <<lock, old, late>>
vars == <<env, disk, locking, pc, want, mem, fresh, tried>>

Waiting == {"open", "stat", "remove"}
Holding == {"read", "sign", "change", "write", "rename", "resign", "release", "drop"}
Reading == {"load", "loadSign"}

TypeOK ==
  /\ env \in Environments
  /\ file \in Maps /\ exists \in BOOLEAN
  /\ tmp \subseteq Maps
  /\ lock \in Procs \cup {NoProc} /\ old \in BOOLEAN
  /\ pc \in [Procs -> {"idle"} \cup Waiting \cup Holding \cup Reading]
  /\ want \in [Procs -> Floors]
  /\ late \in [Procs -> BOOLEAN]
  /\ mem \in [Procs -> Maps]
  /\ fresh \in [Procs -> BOOLEAN]
  /\ tried \in [Procs -> SUBSET Floors]

Empty == [p \in Procs |-> 0]

Init ==
  /\ env \in Environments
  /\ file = Empty /\ exists = FALSE
  /\ tmp = {}
  /\ lock = NoProc /\ old = FALSE
  /\ pc = [p \in Procs |-> "idle"]
  /\ want = [p \in Procs |-> 0]
  /\ late = [p \in Procs |-> FALSE]
  /\ mem = [p \in Procs |-> Empty]
  /\ fresh = [p \in Procs |-> FALSE]
  /\ tried = [p \in Procs |-> {}]

Inside(p) == pc[p] \in Holding

Goto(p, from, to) == pc[p] = from /\ pc' = [pc EXCEPT ![p] = to]

-----------------------------------------------------------------------------
(***************************************************************************)
(* getDurableNonceFloor                                                    *)
(***************************************************************************)

\* A copy with the signature of the file answers at once.
Get(p) ==
  /\ p \in env.procs /\ ~fresh[p]
  /\ Goto(p, "idle", "load")
  /\ UNCHANGED <<env, disk, locking, want, mem, fresh, tried>>

\* The file is read first and its signature is taken after that.
Load(p) ==
  /\ Goto(p, "load", IF exists THEN "loadSign" ELSE "idle")
  /\ mem' = [mem EXCEPT ![p] = file]
  /\ fresh' = IF exists THEN fresh ELSE [fresh EXCEPT ![p] = TRUE]
  /\ UNCHANGED <<env, disk, locking, want, tried>>

LoadSign(p) ==
  /\ Goto(p, "loadSign", "idle")
  /\ fresh' = [fresh EXCEPT ![p] = TRUE]
  /\ UNCHANGED <<env, disk, locking, want, mem, tried>>

LoadFails(p) ==
  /\ p \in env.fails
  /\ \E at \in Reading : Goto(p, at, "idle")
  /\ UNCHANGED <<env, disk, locking, want, mem, fresh, tried>>

-----------------------------------------------------------------------------
(***************************************************************************)
(* upsertDurableNonceFloor, and clearDurableNonceFloor for want[p] = 0     *)
(***************************************************************************)

Write(p) ==
  /\ p \in env.procs
  /\ Goto(p, "idle", "open")
  /\ \E n \in 0 .. env.top : want' = [want EXCEPT ![p] = n]
  /\ UNCHANGED <<env, disk, locking, mem, fresh, tried>>

\* open(lock, "wx").
Open(p) ==
  /\ IF lock = NoProc
     THEN /\ Goto(p, "open", "read")
          /\ lock' = p /\ old' = FALSE
          /\ late' = [late EXCEPT ![p] = FALSE]
     ELSE Goto(p, "open", "stat") /\ UNCHANGED locking
  /\ UNCHANGED <<env, disk, want, mem, fresh, tried>>

Deadline(p) ==
  /\ pc[p] \in Waiting /\ ~late[p]
  /\ late' = [late EXCEPT ![p] = TRUE]
  /\ UNCHANGED <<env, disk, lock, old, pc, want, mem, fresh, tried>>

\* The call is over; ok says how.
Over(p, ok) ==
  /\ want' = [want EXCEPT ![p] = 0]
  /\ late' = [late EXCEPT ![p] = FALSE]
  /\ tried' = [tried EXCEPT ![p] = IF ok THEN {} ELSE @ \cup {want[p]}]

\* Where a process goes that has looked at the lock; only one that does not
\* remove it minds its deadline.
Looked(p, stale) ==
  /\ IF stale THEN Goto(p, "stat", "remove") /\ UNCHANGED <<late, want, tried>>
     ELSE IF late[p] THEN Goto(p, "stat", "idle") /\ Over(p, FALSE)
     ELSE Goto(p, "stat", "open") /\ UNCHANGED <<late, want, tried>>
  /\ UNCHANGED <<env, disk, lock, old, mem, fresh>>

\* Mutant: locks are waited for, however old.
StatPatient(p) == Looked(p, FALSE)

\* clearStaleStateLockIfNeeded up to the removal.
Stat(p) == Looked(p, lock # NoProc /\ old)

\* The lock of that name is removed, be it the one that was old or another.
Remove(p) ==
  /\ Goto(p, "remove", "open")
  /\ lock' = NoProc /\ old' = FALSE
  /\ UNCHANGED <<env, disk, late, want, mem, fresh, tried>>

\* Mutant: the change is made on the copy there is.
ReadCached(p) ==
  /\ Goto(p, "read", "change")
  /\ UNCHANGED <<env, disk, locking, want, mem, fresh, tried>>

\* reloadFromDisk under the lock, or resetLoadedState.
Read(p) ==
  /\ Goto(p, "read", IF exists THEN "sign" ELSE "change")
  /\ mem' = [mem EXCEPT ![p] = file]
  /\ fresh' = IF exists THEN fresh ELSE [fresh EXCEPT ![p] = TRUE]
  /\ UNCHANGED <<env, disk, locking, want, tried>>

Sign(p) ==
  /\ Goto(p, "sign", "change")
  /\ fresh' = [fresh EXCEPT ![p] = TRUE]
  /\ UNCHANGED <<env, disk, locking, want, mem, tried>>

\* The entry of p becomes n in the copy.
Enters(p, n) == mem' = [mem EXCEPT ![p] = [@ EXCEPT ![p] = n]]

\* A higher floor is kept, and what is not there need not be cleared.
Change(p) ==
  /\ IF IF want[p] = 0 THEN mem[p][p] = 0 ELSE mem[p][p] > want[p]
     THEN Goto(p, "change", "release") /\ UNCHANGED mem
     ELSE Goto(p, "change", "write") /\ Enters(p, want[p])
  /\ UNCHANGED <<env, disk, locking, want, fresh, tried>>

WriteTmp(p) ==
  /\ Goto(p, "write", "rename")
  /\ tmp' = {mem[p]}
  /\ UNCHANGED <<env, file, exists, locking, want, mem, fresh, tried>>

\* The file is replaced and no copy has its signature any more; or the
\* temporary file is gone.
Rename(p) ==
  /\ IF tmp = {}
     THEN Goto(p, "rename", "drop") /\ UNCHANGED <<disk, fresh>>
     ELSE /\ Goto(p, "rename", "resign")
          /\ file' \in tmp /\ exists' = TRUE
          /\ tmp' = {}
          /\ fresh' = [q \in Procs |-> FALSE]
  /\ UNCHANGED <<env, locking, want, mem, tried>>

Resign(p) ==
  /\ Goto(p, "resign", "release")
  /\ fresh' = [fresh EXCEPT ![p] = TRUE]
  /\ UNCHANGED <<env, disk, locking, want, mem, tried>>

\* An error under the lock: the copy may have been changed already.
WriteFails(p) ==
  /\ p \in env.fails
  /\ \E at \in {"read", "sign", "write", "rename", "resign"} : Goto(p, at, "drop")
  /\ UNCHANGED <<env, disk, locking, want, mem, fresh, tried>>

\* releaseStateLock removes the lock of that name, or fails to.
Release(p) ==
  /\ \E from \in {"release", "drop"} :
       /\ Goto(p, from, "idle")
       /\ \/ lock' = NoProc /\ old' = FALSE /\ Over(p, from = "release")
          \/ env.leaves /\ Over(p, FALSE) /\ UNCHANGED <<lock, old>>
  /\ UNCHANGED <<env, disk, mem, fresh>>

-----------------------------------------------------------------------------

\* A kill and a new start.
Crash(p) ==
  /\ p \in env.procs
  /\ Inside(p) => env.leaves
  /\ pc' = [pc EXCEPT ![p] = "idle"]
  /\ mem' = [mem EXCEPT ![p] = Empty]
  /\ fresh' = [fresh EXCEPT ![p] = FALSE]
  /\ Over(p, TRUE)
  /\ UNCHANGED <<env, disk, lock, old>>

\* A lock becomes 10 s old.
Age ==
  /\ lock # NoProc /\ ~old
  /\ Inside(lock) => env.stalls
  /\ old' = TRUE
  /\ UNCHANGED <<env, disk, lock, late, pc, want, mem, fresh, tried>>

Step(p) ==
  \/ Load(p) \/ LoadSign(p) \/ LoadFails(p)
  \/ Open(p) \/ Stat(p) \/ Remove(p) \/ Read(p) \/ Sign(p) \/ Change(p)
  \/ WriteTmp(p) \/ Rename(p) \/ Resign(p) \/ WriteFails(p) \/ Release(p)

Next ==
  \/ \E p \in Procs : Get(p) \/ Write(p) \/ Step(p) \/ Deadline(p) \/ Crash(p)
  \/ Age

Spec == Init /\ [][Next]_vars

\* System calls return and time passes.
FairSpec ==
  /\ Spec
  /\ \A p \in Procs : WF_vars(Step(p)) /\ WF_vars(Deadline(p))
  /\ WF_vars(Age)

-----------------------------------------------------------------------------
(***************************************************************************)
(* Properties                                                              *)
(***************************************************************************)

\* The lock does its work in two kinds of environments: for one process
\* whatever happens, and for several that leave no lock behind and hold none for
\* as long as 10 s.
Alone(e) == \E p \in Procs : e.procs \subseteq {p}
Orderly(e) == ~e.leaves /\ ~e.stalls
Sound(e) == Alone(e) \/ Orderly(e)

\* Between the acquisition and the release of the lock its file is the
\* process's own, so no two processes are there (acquireStateLock and
\* releaseStateLock, which compare no owner).
OneInside == Sound(env) => \A p \in Procs : Inside(p) => lock = p

\* getDurableNonceFloor answers with the floor of the process in the file, or
\* with what a write of its own that failed had made of its copy: neither the
\* signature nor another process's replacement of the file hides a floor.
ReadsTrue ==
  Sound(env) =>
    \A p \in Procs :
      pc[p] = "loadSign" \/ (pc[p] = "idle" /\ fresh[p])
        => mem[p][p] \in {file[p]} \cup tried[p]

\* A save replaces the whole file and yet takes no other process's floor back
\* ("merges on-disk durable nonce floors instead of clobbering them on
\* save", tests/unit/durable-nonce-state.test.ts).  It does not, once two
\* processes have found the same lock that a kill left behind.
MergesOnSave ==
  [][\A p \in Procs : Rename(p) =>
       \A q \in Procs : ~Inside(q) => file'[q] >= file[q]]_vars

\* The file implements the record of floors that the nonce tracker relies on.
Abstract == INSTANCE NonceFloors
  WITH floor <- file, busy <- {p \in Procs : pc[p] \in Waiting \cup Holding}
ImplementsNonceFloors == Abstract!Spec

\* A lock that was left behind does not stop the writes for good: while calls
\* keep coming and the crashes come to an end, some get the lock.
WritesResume ==
  []<><<\E p \in Procs : Write(p)>>_vars /\ ~[]<><<\E p \in Procs : Crash(p)>>_vars
    => []<>(\E p \in Procs : Inside(p))

-----------------------------------------------------------------------------
(***************************************************************************)
(* The inductive invariant                                                 *)
(***************************************************************************)

Members == \A p \in Procs : pc[p] # "idle" => p \in env.procs

\* Where locks are neither left behind nor held too long, whoever made the lock
\* is inside, and no lock is ever found to be old.
LockLives ==
  Orderly(env) =>
    /\ lock # NoProc => Inside(lock)
    /\ ~old
    /\ \A p \in Procs : pc[p] # "remove"

Done(p) == IF want[p] = 0 THEN file[p] = 0 ELSE file[p] >= want[p]

\* What the copy of p has to do with the file: inside the lock it is the file,
\* or the file with the new entry; outside only the own entry matters, and a
\* write that failed may have changed it.
Copied(p) ==
  LET own == mem[p][p]
  IN /\ pc[p] \in {"idle", "load", "read"} \cup Waiting =>
          (fresh[p] => own \in {file[p]} \cup tried[p])
     /\ pc[p] = "loadSign" => own \in {file[p]} \cup tried[p]
     /\ pc[p] \in {"sign", "change"} => mem[p] = file
     /\ pc[p] \in {"write", "rename"} =>
          /\ mem[p] = [file EXCEPT ![p] = want[p]]
          /\ want[p] = 0 \/ want[p] >= file[p]
     /\ pc[p] = "rename" => tmp = {mem[p]}
     /\ pc[p] \in {"resign", "release"} => own = file[p] /\ Done(p)
     /\ pc[p] = "drop" => (fresh[p] => own \in {file[p], want[p]} \cup tried[p])

Guarded ==
  Sound(env) => Members /\ LockLives /\ \A p \in Procs : Inside(p) => lock = p

Copies == Sound(env) => \A p \in Procs : Copied(p)

IInv == TypeOK /\ Guarded /\ Copies
=============================================================================
