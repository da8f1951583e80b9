----------------------- MODULE DurableNonceFileProofs -----------------------
(***************************************************************************)
(* Proofs about the file of durable nonce floors, for any processes and    *)
(* bounds.  What the lock excludes holds in every sound environment; the   *)
(* copies follow from it, and from them that the file implements the       *)
(* record of floors that NonceTracker assumes.                             *)
(***************************************************************************)
EXTENDS DurableNonceFile, TLAPS

USE DEF Goto

-----------------------------------------------------------------------------
(***************************************************************************)
(* Types                                                                   *)
(***************************************************************************)

\* The environment bounds what is written.
LEMMA Bounds ==
  ASSUME TypeOK
  PROVE  /\ env.top \in Floors
         /\ 0 \in Floors /\ Floors \subseteq Nat
         /\ 0 .. env.top \subseteq Floors
<1>1. env \in EnvType
  BY FileAssumption DEF TypeOK
<1>2. env.top \in Floors
  BY <1>1 DEF EnvType
<1> QED BY <1>2, FileAssumption DEF Floors

LEMMA TypesStart == Init => TypeOK
<1> SUFFICES ASSUME Init PROVE TypeOK
  OBVIOUS
<1>1. 0 \in Floors
  BY FileAssumption DEF Floors
<1>2. Empty \in Maps
  BY <1>1 DEF Empty, Maps
<1> QED BY <1>1, <1>2 DEF Init, TypeOK, Waiting, Holding, Reading

\* The end of a call keeps the types of what it resets.
LEMMA OverTypes ==
  ASSUME TypeOK, NEW p \in Procs, Over(p, TRUE) \/ Over(p, FALSE)
  PROVE  /\ want' \in [Procs -> Floors]
         /\ late' \in [Procs -> BOOLEAN]
         /\ tried' \in [Procs -> SUBSET Floors]
<1>1. 0 \in Floors /\ want[p] \in Floors /\ tried[p] \in SUBSET Floors
  BY Bounds DEF TypeOK
<1>2. CASE Over(p, TRUE)
  BY <1>1, <1>2 DEF Over, TypeOK
<1>3. CASE Over(p, FALSE)
  <2>1. tried[p] \cup {want[p]} \in SUBSET Floors
    BY <1>1
  <2> QED BY <1>1, <1>3, <2>1 DEF Over, TypeOK
<1> QED BY <1>2, <1>3

LEMMA TypesKept ==
  ASSUME TypeOK, [Next]_vars
  PROVE  TypeOK'
<1> USE Bounds DEF TypeOK, disk, locking, Waiting, Holding, Reading
<1>0. Empty \in Maps
  BY DEF Empty, Maps
<1>1. ASSUME NEW p \in Procs, Get(p) \/ Load(p) \/ LoadSign(p) \/ LoadFails(p)
      PROVE  TypeOK'
  BY <1>1 DEF Get, Load, LoadSign, LoadFails
<1>2. ASSUME NEW p \in Procs, Write(p) \/ Open(p) \/ Deadline(p) \/ Remove(p)
      PROVE  TypeOK'
  BY <1>2 DEF Write, Open, Deadline, Remove
<1>3. ASSUME NEW p \in Procs, Stat(p)
      PROVE  TypeOK'
  <2>1. CASE Over(p, FALSE)
    BY <1>3, <2>1, OverTypes DEF Stat, Looked
  <2> QED BY <1>3, <2>1 DEF Stat, Looked
<1>4. ASSUME NEW p \in Procs, Read(p) \/ Sign(p)
      PROVE  TypeOK'
  BY <1>4 DEF Read, Sign
<1>5. ASSUME NEW p \in Procs, Change(p)
      PROVE  TypeOK'
  <2>1. mem' \in [Procs -> Maps]
    <3>1. CASE UNCHANGED mem
      BY <3>1
    <3>2. CASE Enters(p, want[p])
      <4>1. [mem[p] EXCEPT ![p] = want[p]] \in Maps
        BY DEF Maps
      <4> QED BY <3>2, <4>1 DEF Enters
    <3> QED BY <1>5, <3>1, <3>2 DEF Change
  <2> QED BY <1>5, <2>1 DEF Change
<1>6. ASSUME NEW p \in Procs, WriteTmp(p) \/ Rename(p) \/ Resign(p) \/ WriteFails(p)
      PROVE  TypeOK'
  BY <1>6 DEF WriteTmp, Rename, Resign, WriteFails
<1>7. ASSUME NEW p \in Procs, Release(p)
      PROVE  TypeOK'
  <2>1. PICK from \in {"release", "drop"} :
          /\ Goto(p, from, "idle")
          /\ \/ lock' = NoProc /\ old' = FALSE /\ Over(p, from = "release")
             \/ env.leaves /\ Over(p, FALSE) /\ UNCHANGED <<lock, old>>
    BY <1>7 DEF Release
  <2>2. Over(p, TRUE) \/ Over(p, FALSE)
    BY <2>1 DEF Over
  <2> QED BY <1>7, <2>1, <2>2, OverTypes DEF Release
<1>8. ASSUME NEW p \in Procs, Crash(p)
      PROVE  TypeOK'
  BY <1>0, <1>8, OverTypes DEF Crash
<1>9. CASE Age \/ UNCHANGED vars
  BY <1>9 DEF Age, vars
<1> QED BY <1>1, <1>2, <1>3, <1>4, <1>5, <1>6, <1>7, <1>8, <1>9 DEF Next, Step

\* The file, the copies and the calls keep their types in every environment.
THEOREM FileTypeOK == Spec => []TypeOK
BY TypesStart, TypesKept, PTL DEF Spec

-----------------------------------------------------------------------------
(***************************************************************************)
(* The lock                                                                *)
(***************************************************************************)

LEMMA GuardStarts == Init => Guarded
BY DEF Init, Guarded, Members, LockLives, Inside, Holding

\* A step that leaves the lock alone and takes nobody in or out of it, p only
\* having moved to some place.
LEMMA GuardUndisturbed ==
  ASSUME TypeOK, Guarded, UNCHANGED <<env, lock, old>>, NEW p \in Procs,
         p \in env.procs,
         NEW to, pc' = [pc EXCEPT ![p] = to],
         to \in Holding <=> Inside(p),
         to = "remove" => old
  PROVE  Guarded'
<1> SUFFICES ASSUME Sound(env) PROVE (Members /\ LockLives /\ \A q \in Procs : Inside(q) => lock = q)'
  BY DEF Guarded, Sound, Alone, Orderly
<1>1. \A q \in Procs : Inside(q)' <=> Inside(q)
  BY DEF Inside, TypeOK
<1>2. Members /\ LockLives /\ \A q \in Procs : Inside(q) => lock = q
  BY DEF Guarded
<1>3. Members'
  BY <1>2 DEF Members, TypeOK
<1>4. LockLives'
  BY <1>1, <1>2 DEF LockLives, TypeOK, Orderly
<1> QED BY <1>1, <1>2, <1>3, <1>4

LEMMA GuardKept ==
  ASSUME TypeOK, Guarded, [Next]_vars
  PROVE  Guarded'
<1>0. env' = env
  BY DEF Next, Step, vars, Get, Load, LoadSign, LoadFails, Write, Open, Deadline,
         Stat, Looked, Remove, Read, Sign, Change, WriteTmp, Rename, Resign,
         WriteFails, Release, Crash, Age
<1> SUFFICES ASSUME Sound(env)
             PROVE  Guarded'
  BY <1>0 DEF Guarded, Sound, Alone, Orderly
<1>a. Members /\ LockLives /\ \A q \in Procs : Inside(q) => lock = q
  BY DEF Guarded
<1>b. \A p \in Procs : pc[p] # "idle" => p \in env.procs
  BY <1>a DEF Members
<1>1. ASSUME NEW p \in Procs, Get(p) \/ Load(p) \/ LoadSign(p) \/ LoadFails(p)
      PROVE  Guarded'
  <2>1. PICK to \in {"load", "loadSign", "idle"} : pc' = [pc EXCEPT ![p] = to]
    BY <1>1 DEF Get, Load, LoadSign, LoadFails
  <2>2. p \in env.procs /\ UNCHANGED <<env, lock, old>> /\ ~Inside(p)
    BY <1>1, <1>b DEF Get, Load, LoadSign, LoadFails, locking, Inside, Holding, Reading
  <2> QED BY <2>1, <2>2, GuardUndisturbed DEF Holding
<1>2. ASSUME NEW p \in Procs, Write(p)
      PROVE  Guarded'
  <2>1. p \in env.procs /\ UNCHANGED <<env, lock, old>> /\ ~Inside(p)
    BY <1>2 DEF Write, locking, Inside, Holding
  <2>2. pc' = [pc EXCEPT ![p] = "open"]
    BY <1>2 DEF Write
  <2> QED BY <2>1, <2>2, GuardUndisturbed DEF Holding
<1>3. ASSUME NEW p \in Procs, Deadline(p)
      PROVE  Guarded'
  BY <1>0, <1>3 DEF Deadline, Guarded, Members, LockLives, Inside, Sound, Alone, Orderly
<1>4. ASSUME NEW p \in Procs, Stat(p)
      PROVE  Guarded'
  <2>1. PICK to \in {"remove", "idle", "open"} :
          pc' = [pc EXCEPT ![p] = to] /\ (to = "remove" => old)
    BY <1>4 DEF Stat, Looked
  <2>2. p \in env.procs /\ UNCHANGED <<env, lock, old>> /\ ~Inside(p)
    BY <1>4, <1>b DEF Stat, Looked, Inside, Holding
  <2> QED BY <2>1, <2>2, GuardUndisturbed DEF Holding
<1>5. ASSUME NEW p \in Procs,
             Read(p) \/ Sign(p) \/ Change(p) \/ WriteTmp(p) \/ Rename(p)
               \/ Resign(p) \/ WriteFails(p)
      PROVE  Guarded'
  <2>1. PICK to \in Holding : pc' = [pc EXCEPT ![p] = to]
    BY <1>5 DEF Read, Sign, Change, WriteTmp, Rename, Resign, WriteFails, Holding
  <2>2. p \in env.procs /\ UNCHANGED <<env, lock, old>> /\ Inside(p)
    BY <1>5, <1>b DEF Read, Sign, Change, WriteTmp, Rename, Resign, WriteFails,
       locking, Inside, Holding
  <2> QED BY <2>1, <2>2, GuardUndisturbed DEF Holding
<1>6. ASSUME NEW p \in Procs, Open(p)
      PROVE  Guarded'
  <2>1. p \in env.procs /\ ~Inside(p)
    BY <1>6, <1>b DEF Open, Inside, Holding
  <2>2. CASE lock = NoProc
    <3>1. /\ pc' = [pc EXCEPT ![p] = "read"]
          /\ lock' = p /\ old' = FALSE /\ UNCHANGED env
      BY <1>6, <2>2 DEF Open
    <3>2. \A q \in Procs : Inside(q)' => q = p
      BY <1>a, <2>2, <3>1, FileAssumption DEF Inside, TypeOK
    <3>3. Inside(p)'
      BY <3>1 DEF Inside, Holding, TypeOK
    <3> QED BY <1>a, <2>1, <3>1, <3>2, <3>3
        DEF Guarded, Members, LockLives, TypeOK, Orderly
  <2>3. CASE lock # NoProc
    <3>1. UNCHANGED <<env, lock, old>> /\ pc' = [pc EXCEPT ![p] = "stat"]
      BY <1>6, <2>3 DEF Open, locking
    <3> QED BY <2>1, <3>1, GuardUndisturbed DEF Holding
  <2> QED BY <2>2, <2>3
<1>7. ASSUME NEW p \in Procs, Remove(p)
      PROVE  Guarded'
  <2>1. pc' = [pc EXCEPT ![p] = "open"] /\ lock' = NoProc /\ old' = FALSE /\ pc[p] = "remove"
    BY <1>7 DEF Remove
  <2>2. ~Orderly(env)
    BY <1>a, <2>1 DEF LockLives
  <2>3. \A q \in Procs : pc[q] # "idle" => q = p
    BY <1>b, <2>1, <2>2 DEF Sound, Alone
  <2>4. \A q \in Procs : ~Inside(q)'
    BY <2>1, <2>3 DEF Inside, Holding, TypeOK
  <2> QED BY <1>0, <1>b, <2>1, <2>2, <2>4
      DEF Guarded, Members, LockLives, TypeOK, Orderly
<1>8. ASSUME NEW p \in Procs, Release(p)
      PROVE  Guarded'
  <2>1. pc' = [pc EXCEPT ![p] = "idle"] /\ Inside(p)
    BY <1>8 DEF Release, Inside, Holding
  <2>2. lock = p
    BY <1>a, <2>1
  <2>3. \A q \in Procs : ~Inside(q)'
    BY <1>a, <2>1, <2>2 DEF Inside, Holding, TypeOK
  <2>4. \/ lock' = NoProc /\ old' = FALSE
        \/ env.leaves
    BY <1>8 DEF Release
  <2> QED BY <1>0, <1>a, <2>1, <2>3, <2>4
      DEF Guarded, Members, LockLives, TypeOK, Orderly
<1>9. ASSUME NEW p \in Procs, Crash(p)
      PROVE  Guarded'
  <2>1. /\ pc' = [pc EXCEPT ![p] = "idle"] /\ UNCHANGED <<env, lock, old>>
        /\ p \in env.procs
    BY <1>9 DEF Crash
  <2>2. CASE ~Inside(p)
    BY <2>1, <2>2, GuardUndisturbed DEF Holding
  <2>3. CASE Inside(p)
    <3>1. env.leaves
      BY <1>9, <2>3 DEF Crash
    <3>2. lock = p
      BY <1>a, <2>3
    <3>3. \A q \in Procs : ~Inside(q)'
      BY <1>a, <2>1, <3>2 DEF Inside, Holding, TypeOK
    <3> QED BY <1>0, <1>a, <2>1, <3>1, <3>3
        DEF Guarded, Members, LockLives, TypeOK, Orderly
  <2> QED BY <2>2, <2>3
<1>10. ASSUME Age
       PROVE  Guarded'
  <2>1. UNCHANGED <<env, lock, pc>> /\ lock # NoProc /\ (Inside(lock) => env.stalls)
    BY <1>10 DEF Age
  <2>2. ~Orderly(env)
    BY <1>a, <2>1 DEF LockLives, Orderly
  <2> QED BY <1>a, <2>1, <2>2
      DEF Guarded, Members, LockLives, Inside, Orderly
<1>11. CASE UNCHANGED vars
  BY <1>11 DEF vars, locking, Guarded, Members, LockLives, Inside, Sound, Alone, Orderly
<1> QED BY <1>1, <1>2, <1>3, <1>4, <1>5, <1>6, <1>7, <1>8, <1>9, <1>10, <1>11
    DEF Next, Step

\* In a sound environment whoever is inside owns the lock file.
THEOREM FileOneInside == Spec => []OneInside
<1>1. Guarded => OneInside
  BY DEF Guarded, OneInside
<1> QED BY <1>1, TypesStart, TypesKept, GuardStarts, GuardKept, PTL DEF Spec

-----------------------------------------------------------------------------
(***************************************************************************)
(* The copies                                                              *)
(***************************************************************************)

LEMMA CopiesStart == Init => Copies
BY DEF Init, Copies, Copied, Waiting, Empty

\* A process that does nothing keeps what its copy has to do with the file.
LEMMA CopyUndisturbed ==
  ASSUME NEW q \in Procs, Copied(q),
         UNCHANGED <<file, tmp>>, pc'[q] = pc[q], want'[q] = want[q],
         mem'[q] = mem[q], fresh'[q] = fresh[q], tried'[q] = tried[q]
  PROVE  Copied(q)'
BY DEF Copied, Done, Waiting

\* While p is inside and saves, the copies of the others do not tell.
LEMMA CopyOutside ==
  ASSUME NEW q \in Procs, Copied(q), ~Inside(q),
         file'[q] = file[q], pc'[q] = pc[q], want'[q] = want[q],
         mem'[q] = mem[q], fresh'[q] => fresh[q], tried'[q] = tried[q]
  PROVE  Copied(q)'
BY DEF Copied, Done, Waiting, Inside, Holding

\* What a step of p does to the copies of the others.
LEMMA OthersCopied ==
  ASSUME TypeOK, Guarded, Copies, Sound(env), NEW p \in Procs,
         Get(p) \/ Write(p) \/ Step(p) \/ Deadline(p) \/ Crash(p),
         NEW q \in Procs, q # p
  PROVE  Copied(q)'
<1>1. Copied(q) /\ \A r \in Procs : Inside(r) => lock = r
  BY DEF Copies, Guarded
<1>2. pc'[q] = pc[q] /\ want'[q] = want[q] /\ mem'[q] = mem[q] /\ tried'[q] = tried[q]
  <2> USE DEF TypeOK
  <2>1. CASE Get(p) \/ Load(p) \/ LoadSign(p) \/ LoadFails(p) \/ Write(p) \/ Open(p)
    BY <2>1 DEF Get, Load, LoadSign, LoadFails, Write, Open
  <2>2. CASE Stat(p)
    BY <2>2 DEF Stat, Looked, Over
  <2>3. CASE Remove(p) \/ Read(p) \/ Sign(p) \/ WriteTmp(p) \/ Deadline(p)
    BY <2>3 DEF Remove, Read, Sign, WriteTmp, Deadline
  <2>4. CASE Change(p)
    BY <2>4 DEF Change, Enters
  <2>5. CASE Rename(p) \/ Resign(p) \/ WriteFails(p)
    BY <2>5 DEF Rename, Resign, WriteFails
  <2>6. CASE Release(p)
    BY <2>6 DEF Release, Over
  <2>7. CASE Crash(p)
    BY <2>7 DEF Crash, Over
  <2> QED BY <2>1, <2>2, <2>3, <2>4, <2>5, <2>6, <2>7 DEF Step
<1>3. CASE WriteTmp(p) \/ Rename(p)
  <2>1. Inside(p) /\ ~Inside(q)
    BY <1>1, <1>3 DEF WriteTmp, Rename, Inside, Holding
  <2>2. file'[q] = file[q]
    <3>1. CASE WriteTmp(p)
      BY <3>1 DEF WriteTmp
    <3>2. CASE Rename(p)
      <4>1. Copied(p) /\ pc[p] = "rename"
        BY <3>2 DEF Copies, Rename
      <4>2. tmp = {[file EXCEPT ![p] = want[p]]}
        BY <4>1 DEF Copied
      <4>3. file' = [file EXCEPT ![p] = want[p]]
        BY <3>2, <4>2 DEF Rename
      <4> QED BY <4>3 DEF TypeOK, Maps
    <3> QED BY <1>3, <3>1, <3>2
  <2>3. fresh'[q] => fresh[q]
    BY <1>3 DEF WriteTmp, Rename
  <2> QED BY <1>1, <1>2, <2>1, <2>2, <2>3, CopyOutside
<1>4. CASE ~(WriteTmp(p) \/ Rename(p))
  <2>1. UNCHANGED <<file, tmp>>
    BY <1>4 DEF Step, disk, Get, Load, LoadSign, LoadFails, Write, Open, Deadline,
       Stat, Looked, Remove, Read, Sign, Change, Resign, WriteFails, Release, Crash
  <2>2. fresh'[q] = fresh[q]
    BY <1>4 DEF TypeOK, Step, Get, Load, LoadSign, LoadFails, Write, Open, Deadline,
       Stat, Looked, Remove, Read, Sign, Change, Resign, WriteFails, Release, Crash
  <2> QED BY <1>1, <1>2, <2>1, <2>2, CopyUndisturbed
<1> QED BY <1>3, <1>4

\* What it does to its own.
LEMMA OwnCopied ==
  ASSUME TypeOK, Guarded, Copies, Sound(env), NEW p \in Procs,
         Get(p) \/ Write(p) \/ Step(p) \/ Deadline(p) \/ Crash(p)
  PROVE  Copied(p)'
<1>1. Copied(p)
  BY DEF Copies
<1> USE DEF TypeOK, Waiting
<1>2. CASE Get(p) \/ Write(p) \/ Open(p) \/ Deadline(p) \/ Remove(p)
  BY <1>1, <1>2 DEF Get, Write, Open, Deadline, Remove, Copied, Done, disk, locking
<1>3. CASE Load(p) \/ LoadSign(p) \/ LoadFails(p)
  BY <1>1, <1>3 DEF Load, LoadSign, LoadFails, Reading, Copied, Done, disk, locking
<1>4. CASE Stat(p)
  BY <1>1, <1>4 DEF Stat, Looked, Over, Copied, Done, disk
<1>5. CASE Read(p) \/ Sign(p)
  BY <1>1, <1>5 DEF Read, Sign, Copied, Done, disk
<1>6. CASE Change(p)
  <2>1. mem[p] = file /\ pc[p] = "change" /\ UNCHANGED <<disk, want, fresh, tried>>
    BY <1>1, <1>6 DEF Change, Copied
  <2>2. want[p] \in Nat /\ file[p] \in Nat
    BY Bounds DEF Maps
  <2>3. CASE IF want[p] = 0 THEN mem[p][p] = 0 ELSE mem[p][p] > want[p]
    <3>1. pc' = [pc EXCEPT ![p] = "release"] /\ UNCHANGED mem
      BY <1>6, <2>3 DEF Change
    <3> QED BY <2>1, <2>2, <2>3, <3>1 DEF Copied, Done, disk
  <2>4. CASE ~(IF want[p] = 0 THEN mem[p][p] = 0 ELSE mem[p][p] > want[p])
    <3>1. pc' = [pc EXCEPT ![p] = "write"] /\ Enters(p, want[p])
      BY <1>6, <2>4 DEF Change
    <3>2. mem'[p] = [file EXCEPT ![p] = want[p]]
      BY <2>1, <3>1 DEF Enters
    <3> QED BY <2>1, <2>2, <2>4, <3>1, <3>2 DEF Copied, Done, disk
  <2> QED BY <2>3, <2>4
<1>7. CASE WriteTmp(p)
  BY <1>1, <1>7 DEF WriteTmp, Copied, Done
<1>8. CASE Rename(p)
  <2>1. /\ pc[p] = "rename" /\ tmp = {mem[p]}
        /\ mem[p] = [file EXCEPT ![p] = want[p]]
        /\ want[p] = 0 \/ want[p] >= file[p]
    BY <1>1, <1>8 DEF Rename, Copied
  <2>2. /\ pc' = [pc EXCEPT ![p] = "resign"]
        /\ file' = mem[p] /\ mem' = mem /\ want' = want
    BY <1>8, <2>1 DEF Rename
  <2>3. mem[p][p] = want[p] /\ want[p] \in Nat
    BY <2>1, Bounds DEF Maps
  <2> QED BY <2>2, <2>3 DEF Copied, Done
<1>9. CASE Resign(p) \/ WriteFails(p)
  <2>1. UNCHANGED <<file, tmp, want, mem, tried>> /\ p \in DOMAIN file
    BY <1>9 DEF Resign, WriteFails, disk, Maps
  <2>2. CASE Resign(p)
    BY <1>1, <2>1, <2>2 DEF Resign, Copied, Done
  <2>3. CASE WriteFails(p)
    <3>1. /\ pc[p] \in {"read", "sign", "write", "rename", "resign"}
          /\ pc' = [pc EXCEPT ![p] = "drop"] /\ fresh' = fresh
      BY <2>3 DEF WriteFails
    <3>2. CASE pc[p] \in {"write", "rename"}
      <4>1. mem[p][p] = want[p]
        BY <1>1, <2>1, <3>2 DEF Copied
      <4> QED BY <2>1, <3>1, <4>1 DEF Copied
    <3>3. CASE pc[p] \in {"read", "sign", "resign"}
      <4>1. fresh[p] => mem[p][p] \in {file[p]} \cup tried[p]
        BY <1>1, <3>3 DEF Copied
      <4> QED BY <2>1, <3>1, <4>1 DEF Copied
    <3> QED BY <3>1, <3>2, <3>3
  <2> QED BY <1>9, <2>2, <2>3
<1>10. CASE Release(p)
  <2>1. PICK from \in {"release", "drop"} :
          /\ Goto(p, from, "idle")
          /\ \/ Over(p, from = "release")
             \/ Over(p, FALSE)
    BY <1>10 DEF Release
  <2>2. UNCHANGED <<disk, mem, fresh>> /\ pc'[p] = "idle"
    BY <1>10, <2>1 DEF Release
  <2>3. CASE from = "release"
    <3>1. mem[p][p] = file[p]
      BY <1>1, <2>1, <2>3 DEF Copied
    <3> QED BY <2>2, <3>1 DEF Copied, disk
  <2>4. CASE from = "drop"
    <3>1. fresh[p] => mem[p][p] \in {file[p], want[p]} \cup tried[p]
      BY <1>1, <2>1, <2>4 DEF Copied
    <3>2. tried'[p] = tried[p] \cup {want[p]}
      BY <2>1, <2>4 DEF Over
    <3> QED BY <2>2, <3>1, <3>2 DEF Copied, disk
  <2> QED BY <2>3, <2>4
<1>11. CASE Crash(p)
  BY <1>11 DEF Crash, Copied
<1> QED BY <1>2, <1>3, <1>4, <1>5, <1>6, <1>7, <1>8, <1>9, <1>10, <1>11 DEF Step

LEMMA CopiesKept ==
  ASSUME TypeOK, Guarded, Copies, [Next]_vars
  PROVE  Copies'
<1>0. env' = env
  BY DEF Next, Step, vars, Get, Load, LoadSign, LoadFails, Write, Open, Deadline,
         Stat, Looked, Remove, Read, Sign, Change, WriteTmp, Rename, Resign,
         WriteFails, Release, Crash, Age
<1> SUFFICES ASSUME Sound(env), NEW q \in Procs
             PROVE  Copied(q)'
  BY <1>0 DEF Copies, Sound, Alone, Orderly
<1>1. ASSUME NEW p \in Procs, Get(p) \/ Write(p) \/ Step(p) \/ Deadline(p) \/ Crash(p)
      PROVE  Copied(q)'
  BY <1>1, OthersCopied, OwnCopied
<1>2. CASE Age \/ UNCHANGED vars
  BY <1>2, CopyUndisturbed DEF Copies, Age, vars, disk
<1> QED BY <1>1, <1>2 DEF Next

\* The invariant as a whole.
THEOREM FileInvariant == Spec => []IInv
<1>1. Init => IInv
  BY TypesStart, GuardStarts, CopiesStart DEF IInv
<1>2. IInv /\ [Next]_vars => IInv'
  BY TypesKept, GuardKept, CopiesKept DEF IInv
<1> QED BY <1>1, <1>2, PTL DEF Spec

\* A process reads its own floor, or what a failed write of its own left.
THEOREM FileReadsTrue == Spec => []ReadsTrue
<1>1. IInv => ReadsTrue
  BY DEF IInv, Copies, Copied, ReadsTrue
<1> QED BY <1>1, FileInvariant, PTL

-----------------------------------------------------------------------------
(***************************************************************************)
(* The record of floors                                                    *)
(***************************************************************************)

\* Where every environment is sound, the file implements the record of floors
\* that NonceTracker has as one variable.
THEOREM FileImplementsFloors ==
  ASSUME \A e \in Environments : Sound(e)
  PROVE  Spec => ImplementsNonceFloors
<1> DEFINE Busy == {p \in Procs : pc[p] \in Waiting \cup Holding}
<1>1. Init => Abstract!Init
  BY DEF Init, Abstract!Init, Empty, Waiting, Holding
<1>2. ASSUME IInv, [Next]_vars
      PROVE  [Abstract!Next]_(Abstract!vars)
  <2>a. TypeOK /\ \A p \in Procs : Copied(p)
    BY <1>2 DEF IInv, Copies, TypeOK
  <2>b. ASSUME NEW p \in Procs, NEW to, pc' = [pc EXCEPT ![p] = to]
        PROVE  Busy' = IF to \in Waiting \cup Holding THEN Busy \cup {p} ELSE Busy \ {p}
    BY <2>a, <2>b DEF TypeOK
  <2>c. ASSUME UNCHANGED Busy, UNCHANGED <<file, want, tried>>
        PROVE  UNCHANGED Abstract!vars
    BY <2>c DEF Abstract!vars
  <2>d. ASSUME NEW p \in Procs, Over(p, TRUE), UNCHANGED file,
               pc' = [pc EXCEPT ![p] = "idle"]
        PROVE  Abstract!Over(p, {})
    <3>1. Busy' = Busy \ {p}
      BY <2>b, <2>d DEF Waiting, Holding
    <3> QED BY <2>d, <3>1 DEF Over, Abstract!Over
  <2>e. ASSUME NEW p \in Procs, Over(p, FALSE), UNCHANGED file,
               pc' = [pc EXCEPT ![p] = "idle"]
        PROVE  Abstract!Over(p, tried[p] \cup {want[p]})
    <3>1. Busy' = Busy \ {p}
      BY <2>b, <2>e DEF Waiting, Holding
    <3>2. tried' = [tried EXCEPT ![p] = tried[p] \cup {want[p]}]
      BY <2>a, <2>e DEF Over, TypeOK
    <3> QED BY <2>e, <3>1, <3>2 DEF Over, Abstract!Over
  <2>1. ASSUME NEW p \in Procs,
               Get(p) \/ Load(p) \/ LoadSign(p) \/ LoadFails(p) \/ Open(p)
                 \/ Deadline(p) \/ Remove(p) \/ Read(p) \/ Sign(p) \/ Change(p)
                 \/ WriteTmp(p) \/ Resign(p) \/ WriteFails(p)
        PROVE  UNCHANGED Abstract!vars
    <3>1. UNCHANGED <<file, want, tried>>
      BY <2>1 DEF Get, Load, LoadSign, LoadFails, Open, Deadline, Remove, Read,
         Sign, Change, WriteTmp, Resign, WriteFails, disk
    <3>2. UNCHANGED Busy
      BY <2>a, <2>1 DEF TypeOK, Get, Load, LoadSign, LoadFails, Open, Deadline,
         Remove, Read, Sign, Change, WriteTmp, Resign, WriteFails, Waiting,
         Holding, Reading
    <3> QED BY <2>c, <3>1, <3>2
  <2>2. ASSUME NEW p \in Procs, Write(p)
        PROVE  Abstract!Ask(p)
    <3>1. p \notin Busy /\ Busy' = Busy \cup {p} /\ UNCHANGED <<file, tried>>
      BY <2>b, <2>2 DEF Write, disk, Waiting, Holding
    <3>2. \E n \in 0 .. MaxFloor : want' = [want EXCEPT ![p] = n]
      BY <2>a, <2>2, Bounds DEF Write, Floors
    <3> QED BY <3>1, <3>2 DEF Abstract!Ask
  <2>3. ASSUME NEW p \in Procs, Stat(p)
        PROVE  Abstract!Fail(p) \/ UNCHANGED Abstract!vars
    <3>1. pc[p] = "stat" /\ UNCHANGED file
      BY <2>3 DEF Stat, Looked, disk
    <3>2. CASE pc' = [pc EXCEPT ![p] = "idle"] /\ Over(p, FALSE)
      BY <2>e, <3>1, <3>2 DEF Abstract!Fail, Waiting
    <3>3. CASE UNCHANGED <<want, tried>>
               /\ \E to \in {"remove", "open"} : pc' = [pc EXCEPT ![p] = to]
      <4>1. UNCHANGED Busy
        BY <2>a, <3>1, <3>3 DEF TypeOK, Waiting
      <4> QED BY <2>c, <3>1, <3>3, <4>1
    <3> QED BY <2>3, <3>2, <3>3 DEF Stat, Looked
  <2>4. ASSUME NEW p \in Procs, Rename(p)
        PROVE  Abstract!Apply(p)
    <3>1. /\ pc[p] = "rename" /\ tmp = {[file EXCEPT ![p] = want[p]]}
          /\ want[p] = 0 \/ want[p] >= file[p]
      BY <2>a, <2>4 DEF Rename, Copied
    <3>2. /\ pc' = [pc EXCEPT ![p] = "resign"]
          /\ file' = [file EXCEPT ![p] = want[p]] /\ UNCHANGED <<want, tried>>
      BY <2>4, <3>1 DEF Rename
    <3>3. p \in Busy /\ UNCHANGED Busy
      BY <2>a, <3>1, <3>2 DEF TypeOK, Waiting, Holding
    <3> QED BY <3>1, <3>2, <3>3 DEF Abstract!Apply
  <2>5. ASSUME NEW p \in Procs, Release(p)
        PROVE  Abstract!Succeed(p) \/ Abstract!Fail(p)
    <3>1. PICK from \in {"release", "drop"} :
            Goto(p, from, "idle") /\ (Over(p, from = "release") \/ Over(p, FALSE))
      BY <2>5 DEF Release
    <3>2. p \in Busy /\ UNCHANGED file
      BY <2>5, <3>1 DEF Release, disk, Holding
    <3>3. CASE Over(p, FALSE)
      BY <2>e, <3>1, <3>2, <3>3 DEF Abstract!Fail
    <3>4. CASE Over(p, TRUE) /\ from = "release"
      <4>1. Done(p)
        BY <2>a, <3>1, <3>4 DEF Copied
      <4> QED BY <2>d, <3>1, <3>2, <3>4, <4>1 DEF Abstract!Succeed, Done
    <3>5. CASE Over(p, from = "release") /\ from = "drop"
      BY <3>3, <3>5 DEF Over
    <3> QED BY <3>1, <3>3, <3>4, <3>5
  <2>6. ASSUME NEW p \in Procs, Crash(p)
        PROVE  Abstract!Restart(p)
    BY <2>d, <2>6 DEF Crash, disk, Abstract!Restart
  <2>7. CASE Age \/ UNCHANGED vars
    BY <2>7 DEF Age, vars, disk, Abstract!vars
  <2> QED
    BY <1>2, <2>1, <2>2, <2>3, <2>4, <2>5, <2>6, <2>7 DEF Next, Step, Abstract!Next
<1> QED BY <1>1, <1>2, FileInvariant, PTL DEF Spec, ImplementsNonceFloors, Abstract!Spec
=============================================================================
