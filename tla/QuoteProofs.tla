----------------------------- MODULE QuoteProofs -----------------------------
(***************************************************************************)
(* Proofs about the quotes of a take: the probes that ask for them, and    *)
(* the approvals that decide on them.                                      *)
(*                                                                         *)
(* Probes, for any evaluations, aggregators, limits and thresholds.  Every *)
(* step of a probe is a step of the limiter for its call, or none; so the  *)
(* limits of the limiter hold, and its moves are all that the bookkeeping  *)
(* of the executor has to be checked against.                              *)
(*                                                                         *)
(* Approvals, for any auction, amounts, prices and policies.  What a route *)
(* that was approved owes was computed for the size that its quote speaks  *)
(* of, with a price and conversions that were recent then.                 *)
(***************************************************************************)
EXTENDS QuoteProbes, TakeApproval, FiniteSetTheorems, TLAPS

-----------------------------------------------------------------------------
(***************************************************************************)
(* The limiter of route probes, for any finite set of calls and limits.    *)
(* Every handler ends in drain; what drain makes of counted accounts is    *)
(* one lemma, and each handler has to show only that the accounts it       *)
(* drains are counted.                                                     *)
(***************************************************************************)

\* The calls in any states are finitely many, so their counts are numbers.
LEMMA CountsFinite ==
  ASSUME NEW st
  PROVE  /\ IsFiniteSet(HoldingIn(st)) /\ Cardinality(HoldingIn(st)) \in Nat
         /\ IsFiniteSet(AbandonedIn(st)) /\ Cardinality(AbandonedIn(st)) \in Nat
<1>1. HoldingIn(st) \in SUBSET Ops /\ AbandonedIn(st) \in SUBSET Ops
  BY DEF HoldingIn, AbandonedIn
<1>2. IsFiniteSet(HoldingIn(st)) /\ IsFiniteSet(AbandonedIn(st))
  BY <1>1, FS_Subset, LimiterAssumption
<1> QED BY <1>2, FS_CardinalityType

\* The first n waiters, if no call waits twice, are n.
LEMMA FirstWaiters ==
  ASSUME NEW wait \in Seq(Ops), NEW n \in 0 .. Len(wait),
         \A i, j \in 1 .. Len(wait) : wait[i] = wait[j] => i = j
  PROVE  Cardinality({wait[i] : i \in 1 .. n}) = n
<1> DEFINE S == {wait[i] : i \in 1 .. n}
           f == [i \in 1 .. n |-> wait[i]]
<1>1. f \in Bijection(1 .. n, S)
  BY DEF Bijection, Injection, Surjection, IsInjective
<1>2. ExistsBijection(1 .. n, S)
  BY <1>1 DEF ExistsBijection
<1> QED BY <1>2, FS_CountingElements

\* drain grants no more permits than there are waiters, free permits, and room
\* among the abandoned, and stops only where one of them ends.
LEMMA GrantsBound ==
  ASSUME NEW act \in 0 .. MaxConcurrent, NEW unsettled \in Nat,
         NEW wait \in Seq(Ops)
  PROVE  LET n == Grants(act, unsettled, wait)
         IN /\ n \in 0 .. Len(wait)
            /\ act + n <= MaxConcurrent
            /\ n > 0 => unsettled < MaxAbandoned
            /\ n < Len(wait) =>
                 act + n = MaxConcurrent \/ unsettled >= MaxAbandoned
BY LimiterAssumption DEF Grants

\* drain turns counted accounts into counted and settled ones.
LEMMA DrainAccounts ==
  ASSUME NEW act, NEW unsettled, NEW wait, NEW st,
         Counted(act, unsettled, wait, st),
         Drained(act, unsettled, wait, st)
  PROVE  Accounts'
<1> DEFINE n == Grants(act, unsettled, wait)
           granted == {wait[i] : i \in 1 .. n}
<1>1. /\ act \in 0 .. MaxConcurrent /\ unsettled \in Nat /\ wait \in Seq(Ops)
      /\ st \in [Ops -> States]
  BY CountsFinite, LimiterAssumption DEF Counted
<1>2. /\ n \in 0 .. Len(wait)
      /\ act + n <= MaxConcurrent
      /\ n > 0 => unsettled < MaxAbandoned
      /\ n < Len(wait) => act + n = MaxConcurrent \/ unsettled >= MaxAbandoned
  BY <1>1, GrantsBound
<1>3. /\ active' = act + n
      /\ abandonedUnsettled' = unsettled
      /\ waiters' = SubSeq(wait, n + 1, Len(wait))
      /\ state' = [o \in Ops |-> IF o \in granted THEN "granted" ELSE st[o]]
  BY DEF Drained
<1> HIDE DEF n
<1>4. /\ Len(waiters') = Len(wait) - n
      /\ waiters' \in Seq(Ops)
      /\ \A i \in 1 .. Len(waiters') : waiters'[i] = wait[n + i]
  BY <1>1, <1>2, <1>3
<1>5. granted \subseteq Ops /\ \A o \in granted : st[o] = "queued"
  BY <1>1, <1>2 DEF Counted
<1>6. /\ HoldingIn(state') = HoldingIn(st) \cup granted
      /\ HoldingIn(st) \cap granted = {}
      /\ AbandonedIn(state') = AbandonedIn(st)
  BY <1>3, <1>5 DEF HoldingIn, AbandonedIn
<1>7. active' = Cardinality(HoldingIn(state'))
  <2>1. Cardinality(granted) = n
    BY <1>1, <1>2, FirstWaiters DEF Counted
  <2>2. IsFiniteSet(granted)
    BY <1>5, FS_Subset, LimiterAssumption
  <2>3. Cardinality(HoldingIn(st) \cup granted)
          = Cardinality(HoldingIn(st)) + Cardinality(granted) - 0
    BY <1>6, <2>2, CountsFinite, FS_Union, FS_EmptySet
  <2>4. Cardinality(HoldingIn(state')) = Cardinality(HoldingIn(st)) + n - 0
    BY <1>6, <2>1, <2>3, Zenon
  <2>5. act = Cardinality(HoldingIn(st))
    BY DEF Counted
  <2> HIDE DEF granted
  <2> QED BY <1>1, <1>2, <1>3, <2>4, <2>5
<1>8. abandonedUnsettled' = Cardinality(AbandonedIn(state'))
  BY <1>3, <1>6 DEF Counted
<1>9. state' \in [Ops -> States]
  BY <1>1, <1>3 DEF States
<1>10. \A i \in 1 .. Len(waiters') : state'[waiters'[i]] = "queued"
  <2> SUFFICES ASSUME NEW i \in 1 .. Len(waiters')
               PROVE  state'[waiters'[i]] = "queued"
    OBVIOUS
  <2>1. n + i \in 1 .. Len(wait) /\ waiters'[i] = wait[n + i]
    <3>1. waiters'[i] = wait[n + i]
      BY <1>4
    <3>2. Len(wait) \in Nat /\ n \in Nat /\ i \in 1 .. Len(wait) - n
      BY <1>1, <1>2, <1>4
    <3>3. n + i \in 1 .. Len(wait)
      BY <3>2
    <3> QED BY <3>1, <3>3
  <2>2. wait[n + i] \notin granted
    <3>1. \A j \in 1 .. n : j \in 1 .. Len(wait) /\ j # n + i
      BY <1>1, <1>2
    <3> QED BY <2>1, <3>1 DEF Counted
  <2>3. st[wait[n + i]] = "queued" /\ wait[n + i] \in Ops
    BY <1>1, <2>1 DEF Counted
  <2> QED BY <1>3, <2>1, <2>2, <2>3
<1>11. \A i, j \in 1 .. Len(waiters') : waiters'[i] = waiters'[j] => i = j
  <2> SUFFICES ASSUME NEW i \in 1 .. Len(waiters'), NEW j \in 1 .. Len(waiters'),
                      waiters'[i] = waiters'[j]
               PROVE  i = j
    OBVIOUS
  <2>1. n + i \in 1 .. Len(wait) /\ n + j \in 1 .. Len(wait)
    BY <1>1, <1>2, <1>4
  <2>2. wait[n + i] = wait[n + j]
    BY <1>4
  <2>3. n + i = n + j
    BY <2>1, <2>2 DEF Counted
  <2> QED BY <1>2, <2>3
<1>12. \A o \in Ops : state'[o] = "queued"
                        => \E i \in 1 .. Len(waiters') : waiters'[i] = o
  <2> SUFFICES ASSUME NEW o \in Ops, state'[o] = "queued"
               PROVE  \E i \in 1 .. Len(waiters') : waiters'[i] = o
    OBVIOUS
  <2>1. st[o] = "queued" /\ o \notin granted
    BY <1>3
  <2>2. PICK k \in 1 .. Len(wait) : wait[k] = o
    BY <2>1 DEF Counted
  <2>3. k > n
    BY <1>2, <2>1, <2>2
  <2>4. k - n \in 1 .. Len(waiters') /\ n + (k - n) = k
    BY <1>1, <1>2, <1>4, <2>3
  <2> QED BY <1>4, <2>2, <2>4
<1>13. /\ active' <= MaxConcurrent
       /\ active' + abandonedUnsettled' <= MaxConcurrent + MaxAbandoned - 1
  <2>1. CASE n = 0
    BY <1>1, <1>3, <2>1 DEF Counted
  <2>2. CASE n > 0
    BY <1>1, <1>2, <1>3, <2>2, LimiterAssumption
  <2> QED BY <1>2, <2>1, <2>2
<1>14. Settled'
  <2>1. waiters' # <<>> => n < Len(wait)
    BY <1>1, <1>2, <1>4
  <2> QED BY <1>2, <1>3, <2>1 DEF Settled
<1> QED BY <1>4, <1>7, <1>8, <1>9, <1>10, <1>11, <1>12, <1>13, <1>14
        DEF Accounts, Counted

\* The counts of permits and of abandoned operations when one call moves on.
LEMMA MovesCount ==
  ASSUME LimiterTypeOK, NEW o \in Ops, NEW s \in States
  PROVE  LET st == Became(o, s)
             held(x) == IF x \in {"granted", "running"} THEN 1 ELSE 0
             left(x) == IF x = "abandoned" THEN 1 ELSE 0
         IN /\ st \in [Ops -> States]
            /\ Cardinality(HoldingIn(st)) + held(state[o])
                 = Cardinality(Holding) + held(s)
            /\ Cardinality(AbandonedIn(st)) + left(state[o])
                 = Cardinality(Abandoned) + left(s)
<1> DEFINE st == Became(o, s)
<1>1. st = [state EXCEPT ![o] = s] /\ st \in [Ops -> States]
  BY DEF Became, LimiterTypeOK
<1>2. /\ HoldingIn(st) \cup {o} = Holding \cup {o}
      /\ o \in HoldingIn(st) <=> s \in {"granted", "running"}
      /\ o \in Holding <=> state[o] \in {"granted", "running"}
  BY <1>1 DEF HoldingIn, Holding, LimiterTypeOK
<1>3. /\ AbandonedIn(st) \cup {o} = Abandoned \cup {o}
      /\ o \in AbandonedIn(st) <=> s = "abandoned"
      /\ o \in Abandoned <=> state[o] = "abandoned"
  BY <1>1 DEF AbandonedIn, Abandoned, LimiterTypeOK
<1> HIDE DEF st
<1>4. /\ IsFiniteSet(HoldingIn(st)) /\ Cardinality(HoldingIn(st)) \in Nat
      /\ IsFiniteSet(AbandonedIn(st)) /\ Cardinality(AbandonedIn(st)) \in Nat
      /\ IsFiniteSet(Holding) /\ Cardinality(Holding) \in Nat
      /\ IsFiniteSet(Abandoned) /\ Cardinality(Abandoned) \in Nat
  BY CountsFinite DEF Holding, Abandoned
<1>5. Cardinality(HoldingIn(st)) + (IF state[o] \in {"granted", "running"} THEN 1 ELSE 0)
        = Cardinality(Holding) + (IF s \in {"granted", "running"} THEN 1 ELSE 0)
  <2>1. Cardinality(HoldingIn(st) \cup {o}) =
          IF o \in HoldingIn(st) THEN Cardinality(HoldingIn(st))
          ELSE Cardinality(HoldingIn(st)) + 1
    BY <1>4, FS_AddElement
  <2>2. Cardinality(Holding \cup {o}) =
          IF o \in Holding THEN Cardinality(Holding) ELSE Cardinality(Holding) + 1
    BY <1>4, FS_AddElement
  <2> QED BY <1>2, <1>4, <2>1, <2>2
<1>6. Cardinality(AbandonedIn(st)) + (IF state[o] = "abandoned" THEN 1 ELSE 0)
        = Cardinality(Abandoned) + (IF s = "abandoned" THEN 1 ELSE 0)
  <2>1. Cardinality(AbandonedIn(st) \cup {o}) =
          IF o \in AbandonedIn(st) THEN Cardinality(AbandonedIn(st))
          ELSE Cardinality(AbandonedIn(st)) + 1
    BY <1>4, FS_AddElement
  <2>2. Cardinality(Abandoned \cup {o}) =
          IF o \in Abandoned THEN Cardinality(Abandoned)
          ELSE Cardinality(Abandoned) + 1
    BY <1>4, FS_AddElement
  <2> QED BY <1>3, <1>4, <2>1, <2>2
<1> QED BY <1>1, <1>5, <1>6 DEF st

\* The queue of counted accounts.
Queued(wait, st) ==
  /\ wait \in Seq(Ops)
  /\ \A i \in 1 .. Len(wait) : st[wait[i]] = "queued"
  /\ \A i, j \in 1 .. Len(wait) : wait[i] = wait[j] => i = j
  /\ \A o \in Ops : st[o] = "queued" => \E i \in 1 .. Len(wait) : wait[i] = o

\* A call that neither waits nor will wait leaves the queue in order.
LEMMA OthersQueued ==
  ASSUME LimiterTypeOK, Accounts, NEW o \in Ops, NEW s \in States,
         state[o] # "queued", s # "queued"
  PROVE  Queued(waiters, Became(o, s))
BY DEF LimiterTypeOK, Accounts, Counted, Became, Queued

\* So does a new call at its end.
LEMMA LastQueued ==
  ASSUME LimiterTypeOK, Accounts, NEW o \in Ops, state[o] # "queued"
  PROVE  Queued(Append(waiters, o), Became(o, "queued"))
<1> DEFINE wait == Append(waiters, o)
           st == Became(o, "queued")
<1>1. /\ wait \in Seq(Ops) /\ Len(wait) = Len(waiters) + 1
      /\ wait[Len(waiters) + 1] = o
      /\ \A i \in 1 .. Len(waiters) : wait[i] = waiters[i] /\ waiters[i] # o
  BY DEF LimiterTypeOK, Accounts, Counted
<1>2. st[o] = "queued" /\ \A p \in Ops : p # o => st[p] = state[p]
  BY DEF LimiterTypeOK, Became
<1> HIDE DEF wait, st
<1>3. \A i \in 1 .. Len(wait) : i = Len(waiters) + 1 \/ i \in 1 .. Len(waiters)
  BY <1>1 DEF LimiterTypeOK
<1>4. \A i \in 1 .. Len(wait) : st[wait[i]] = "queued"
  <2>1. \A i \in 1 .. Len(waiters) : waiters[i] \in Ops /\ state[waiters[i]] = "queued"
    BY DEF LimiterTypeOK, Accounts, Counted
  <2>2. \A i \in 1 .. Len(waiters) : st[wait[i]] = "queued"
    BY <1>1, <1>2, <2>1
  <2>3. st[wait[Len(waiters) + 1]] = "queued"
    BY <1>1, <1>2
  <2> QED BY <1>3, <2>2, <2>3
<1>5. \A i, j \in 1 .. Len(wait) : wait[i] = wait[j] => i = j
  BY <1>1, <1>3 DEF Accounts, Counted
<1>6. \A p \in Ops : st[p] = "queued" => \E i \in 1 .. Len(wait) : wait[i] = p
  <2> SUFFICES ASSUME NEW p \in Ops, st[p] = "queued"
               PROVE  \E i \in 1 .. Len(wait) : wait[i] = p
    OBVIOUS
  <2>1. CASE p = o
    <3>1. Len(waiters) + 1 \in 1 .. Len(wait)
      BY <1>1 DEF LimiterTypeOK
    <3> QED BY <1>1, <2>1, <3>1
  <2>2. CASE p # o
    <3>1. PICK i \in 1 .. Len(waiters) : waiters[i] = p
      BY <1>2, <2>2 DEF Accounts, Counted
    <3>2. i \in 1 .. Len(wait)
      BY <1>1 DEF LimiterTypeOK
    <3> QED BY <1>1, <3>1, <3>2
  <2> QED BY <2>1, <2>2
<1> QED BY <1>1, <1>4, <1>5, <1>6 DEF Queued, wait, st

\* And a waiter that is removed.
LEMMA RestQueued ==
  ASSUME LimiterTypeOK, Accounts, NEW o \in Ops, state[o] = "queued"
  PROVE  Queued(Without(o), Became(o, "over"))
<1> DEFINE index == CHOOSE i \in 1 .. Len(waiters) : waiters[i] = o
           wait == Without(o)
           st == Became(o, "over")
<1>1. index \in 1 .. Len(waiters) /\ waiters[index] = o
  BY DEF Accounts, Counted
<1>2. wait = [i \in 1 .. (Len(waiters) - 1) |->
                IF i < index THEN waiters[i] ELSE waiters[i + 1]]
  BY DEF Without
<1>3. st[o] = "over" /\ \A p \in Ops : p # o => st[p] = state[p]
  BY DEF LimiterTypeOK, Became
<1> HIDE DEF index, wait, st
<1>4. /\ wait \in Seq(Ops) /\ Len(wait) = Len(waiters) - 1
      /\ \A i \in 1 .. Len(wait) :
           /\ i < index => i \in 1 .. Len(waiters) /\ wait[i] = waiters[i]
           /\ ~(i < index) => i + 1 \in 1 .. Len(waiters) /\ wait[i] = waiters[i + 1]
  BY <1>1, <1>2 DEF LimiterTypeOK
<1> DEFINE was(i) == IF i < index THEN i ELSE i + 1
<1>10. \A i \in 1 .. Len(wait) :
        was(i) \in 1 .. Len(waiters) /\ was(i) # index /\ wait[i] = waiters[was(i)]
  <2> SUFFICES ASSUME NEW i \in 1 .. Len(wait)
               PROVE  /\ was(i) \in 1 .. Len(waiters) /\ was(i) # index
                      /\ wait[i] = waiters[was(i)]
    OBVIOUS
  <2>1. index \in Int /\ i \in Int
    BY <1>1
  <2>2. CASE i < index
    BY <1>4, <2>1, <2>2
  <2>3. CASE ~(i < index)
    <3>1. i + 1 \in 1 .. Len(waiters) /\ wait[i] = waiters[i + 1]
      BY <1>4, <2>3
    <3> QED BY <2>1, <2>3, <3>1
  <2> QED BY <2>2, <2>3
<1>5. \A i \in 1 .. Len(wait) : wait[i] # o /\ state[wait[i]] = "queued" /\ wait[i] \in Ops
  <2>1. \A k \in 1 .. Len(waiters) :
          state[waiters[k]] = "queued" /\ waiters[k] \in Ops
    BY DEF LimiterTypeOK, Accounts, Counted
  <2>2. \A k \in 1 .. Len(waiters) : k # index => waiters[k] # o
    BY <1>1 DEF Accounts, Counted
  <2> HIDE DEF was
  <2> QED BY <1>10, <2>1, <2>2
<1>6. \A i \in 1 .. Len(wait) : st[wait[i]] = "queued"
  BY <1>3, <1>5
<1>7. \A i, j \in 1 .. Len(wait) : wait[i] = wait[j] => i = j
  <2>1. \A i, j \in 1 .. Len(wait) : wait[i] = wait[j] => was(i) = was(j)
    <3> HIDE DEF was
    <3> QED BY <1>10 DEF Accounts, Counted
  <2>2. \A i, j \in 1 .. Len(wait) : was(i) = was(j) => i = j
    BY <1>1, <1>4
  <2> QED BY <2>1, <2>2
<1>8. \A p \in Ops : st[p] = "queued" => \E i \in 1 .. Len(wait) : wait[i] = p
  <2> SUFFICES ASSUME NEW p \in Ops, st[p] = "queued"
               PROVE  \E i \in 1 .. Len(wait) : wait[i] = p
    OBVIOUS
  <2>1. p # o /\ state[p] = "queued"
    BY <1>3
  <2>2. PICK k \in 1 .. Len(waiters) : waiters[k] = p
    BY <2>1 DEF Accounts, Counted
  <2>3. k # index
    BY <1>1, <2>1, <2>2
  <2>4. CASE k < index
    <3>1. k \in 1 .. Len(wait) /\ wait[k] = p
      BY <1>1, <1>4, <2>2, <2>4
    <3> QED BY <3>1
  <2>5. CASE k > index
    <3>1. k - 1 \in 1 .. Len(wait) /\ ~(k - 1 < index) /\ (k - 1) + 1 = k
      BY <1>1, <1>4, <2>5
    <3>2. wait[k - 1] = p
      BY <1>4, <2>2, <3>1
    <3> QED BY <3>1, <3>2
  <2> QED BY <1>1, <2>3, <2>4, <2>5
<1> QED BY <1>4, <1>6, <1>7, <1>8 DEF Queued, wait, st

IInv == LimiterTypeOK /\ Accounts

\* Accounts give the types of everything but the signals.
LEMMA AccountsType ==
  ASSUME Accounts', aborted' \in [Ops -> BOOLEAN]
  PROVE  IInv'
<1>1. active' \in Nat /\ abandonedUnsettled' \in Nat
  BY CountsFinite DEF Accounts, Counted
<1> QED BY <1>1, LimiterAssumption DEF IInv, LimiterTypeOK, Accounts, Counted

\* What a handler drains is counted: one call moves on, and the counters with it.
LEMMA MovedCounted ==
  ASSUME IInv, NEW o \in Ops, NEW s \in States, NEW act, NEW unsettled, NEW wait,
         Queued(wait, Became(o, s)),
         act = IF state[o] \in {"granted", "running"}
                  /\ s \notin {"granted", "running"}
               THEN OneLess(active) ELSE active,
         unsettled = IF s = "abandoned" THEN abandonedUnsettled + 1
                     ELSE IF state[o] = "abandoned" THEN OneLess(abandonedUnsettled)
                     ELSE abandonedUnsettled,
         s \in {"granted", "running"} => state[o] \in {"granted", "running"},
         s = "abandoned" => state[o] = "running"
  PROVE  Counted(act, unsettled, wait, Became(o, s))
<1> DEFINE st == Became(o, s)
<1>1. /\ active \in Nat /\ abandonedUnsettled \in Nat
      /\ active = Cardinality(Holding) /\ abandonedUnsettled = Cardinality(Abandoned)
      /\ active <= MaxConcurrent
      /\ active + abandonedUnsettled <= MaxConcurrent + MaxAbandoned - 1
  BY LimiterAssumption DEF IInv, LimiterTypeOK, Accounts, Counted, Holding, Abandoned
<1>2. /\ st \in [Ops -> States]
      /\ Cardinality(HoldingIn(st))
           + (IF state[o] \in {"granted", "running"} THEN 1 ELSE 0)
           = active + (IF s \in {"granted", "running"} THEN 1 ELSE 0)
      /\ Cardinality(AbandonedIn(st)) + (IF state[o] = "abandoned" THEN 1 ELSE 0)
           = abandonedUnsettled + (IF s = "abandoned" THEN 1 ELSE 0)
  BY <1>1, MovesCount DEF IInv
<1>3. Cardinality(HoldingIn(st)) \in Nat /\ Cardinality(AbandonedIn(st)) \in Nat
  BY CountsFinite
<1> HIDE DEF st
<1>4. act = Cardinality(HoldingIn(st))
  BY <1>1, <1>2, <1>3 DEF OneLess
<1>5. unsettled = Cardinality(AbandonedIn(st))
  BY <1>1, <1>2, <1>3 DEF OneLess
<1>6. act <= MaxConcurrent /\ act + unsettled <= MaxConcurrent + MaxAbandoned - 1
  BY <1>1, <1>2, <1>3, <1>4, <1>5, LimiterAssumption DEF OneLess
<1> QED BY <1>2, <1>4, <1>5, <1>6 DEF Counted, Queued, st

\* Every step keeps the accounts.
LEMMA StepAccounts == IInv /\ [LimiterNext]_limiterVars => IInv'
<1> SUFFICES ASSUME IInv, [LimiterNext]_limiterVars
             PROVE  IInv'
  OBVIOUS
<1>0. \A o \in Ops : state[o] \in States
  BY DEF IInv, LimiterTypeOK
<1>1. ASSUME NEW o \in Ops, Run(o)
      PROVE  IInv'
  <2>1. aborted' \in [Ops -> BOOLEAN] /\ state[o] = "new"
    BY <1>1 DEF Run, IInv, LimiterTypeOK
  <2>2. CASE aborted[o]
    <3>1. UNCHANGED <<active, abandonedUnsettled, waiters>> /\ state' = Became(o, "over")
      BY <1>1, <2>2 DEF Run
    <3>2. Counted(active, abandonedUnsettled, waiters, Became(o, "over"))
      BY <2>1, OthersQueued, MovedCounted DEF IInv, States
    <3>3. Accounts'
      BY <3>1, <3>2 DEF IInv, Accounts, Settled
    <3> QED BY <2>1, <3>3, AccountsType
  <2>3. CASE ~aborted[o]
    <3>1. Drained(active, abandonedUnsettled, Append(waiters, o), Became(o, "queued"))
      BY <1>1, <2>3 DEF Run
    <3>2. Counted(active, abandonedUnsettled, Append(waiters, o), Became(o, "queued"))
      BY <2>1, LastQueued, MovedCounted DEF IInv, States
    <3> QED BY <2>1, <3>1, <3>2, DrainAccounts, AccountsType
  <2> QED BY <2>2, <2>3
<1>2. ASSUME NEW o \in Ops, TakeUp(o)
      PROVE  IInv'
  <2>1. aborted' \in [Ops -> BOOLEAN] /\ state[o] = "granted"
    BY <1>2 DEF TakeUp, IInv, LimiterTypeOK
  <2>2. CASE aborted[o]
    <3>1. Drained(OneLess(active), abandonedUnsettled, waiters, Became(o, "over"))
      BY <1>2, <2>2 DEF TakeUp
    <3>2. Counted(OneLess(active), abandonedUnsettled, waiters, Became(o, "over"))
      BY <2>1, OthersQueued, MovedCounted DEF IInv, States
    <3> QED BY <2>1, <3>1, <3>2, DrainAccounts, AccountsType
  <2>3. CASE ~aborted[o]
    <3>1. UNCHANGED <<active, abandonedUnsettled, waiters>> /\ state' = Became(o, "running")
      BY <1>2, <2>3 DEF TakeUp
    <3>2. Counted(active, abandonedUnsettled, waiters, Became(o, "running"))
      BY <2>1, OthersQueued, MovedCounted DEF IInv, States
    <3>3. Accounts'
      BY <3>1, <3>2 DEF IInv, Accounts, Settled
    <3> QED BY <2>1, <3>3, AccountsType
  <2> QED BY <2>2, <2>3
<1>3. ASSUME NEW o \in Ops, state[o] = "running", Abandon(o),
             aborted' \in [Ops -> BOOLEAN]
      PROVE  IInv'
  <2>1. Counted(OneLess(active), abandonedUnsettled + 1, waiters,
                Became(o, "abandoned"))
    BY <1>3, OthersQueued, MovedCounted DEF IInv, States
  <2> QED BY <1>3, <2>1, DrainAccounts, AccountsType DEF Abandon
<1>4. ASSUME NEW o \in Ops, HardCap(o)
      PROVE  IInv'
  BY <1>3, <1>4 DEF HardCap, IInv, LimiterTypeOK
<1>5. ASSUME NEW o \in Ops, Abort(o)
      PROVE  IInv'
  <2>1. aborted' \in [Ops -> BOOLEAN]
    BY <1>5 DEF Abort, IInv, LimiterTypeOK
  <2>2. CASE state[o] = "queued"
    <3>1. Drained(active, abandonedUnsettled, Without(o), Became(o, "over"))
      BY <1>5, <2>2 DEF Abort
    <3>2. Counted(active, abandonedUnsettled, Without(o), Became(o, "over"))
      BY <2>2, RestQueued, MovedCounted DEF IInv, States
    <3> QED BY <2>1, <3>1, <3>2, DrainAccounts, AccountsType
  <2>3. CASE state[o] = "running"
    BY <1>3, <1>5, <2>1, <2>3 DEF Abort
  <2>4. CASE state[o] \notin {"queued", "running"}
    <3>1. UNCHANGED <<state, active, abandonedUnsettled, waiters>>
      BY <1>5, <2>4 DEF Abort
    <3>2. Accounts'
      BY <3>1 DEF IInv, Accounts, Settled
    <3> QED BY <2>1, <3>2, AccountsType
  <2> QED BY <2>2, <2>3, <2>4
<1>6. ASSUME NEW o \in Ops, Settle(o)
      PROVE  IInv'
  <2>1. aborted' \in [Ops -> BOOLEAN]
    BY <1>6 DEF Settle, IInv, LimiterTypeOK
  <2>2. CASE state[o] = "running"
    <3>1. Drained(OneLess(active), abandonedUnsettled, waiters, Became(o, "over"))
      BY <1>6, <2>2 DEF Settle
    <3>2. Counted(OneLess(active), abandonedUnsettled, waiters, Became(o, "over"))
      BY <2>2, OthersQueued, MovedCounted DEF IInv, States
    <3> QED BY <2>1, <3>1, <3>2, DrainAccounts, AccountsType
  <2>3. CASE state[o] = "abandoned"
    <3>1. Drained(active, OneLess(abandonedUnsettled), waiters, Became(o, "over"))
      BY <1>6, <2>3 DEF Settle
    <3>2. Counted(active, OneLess(abandonedUnsettled), waiters, Became(o, "over"))
      BY <2>3, OthersQueued, MovedCounted DEF IInv, States
    <3> QED BY <2>1, <3>1, <3>2, DrainAccounts, AccountsType
  <2> QED BY <1>6, <2>2, <2>3 DEF Settle
<1>7. CASE UNCHANGED limiterVars
  BY <1>7 DEF limiterVars, IInv, LimiterTypeOK, Accounts, Settled
<1> QED BY <1>1, <1>2, <1>4, <1>5, <1>6, <1>7 DEF LimiterNext

\* No call has been made, so there is nothing to count.
LEMMA InitAccounts == LimiterInit => IInv
<1> SUFFICES ASSUME LimiterInit PROVE IInv
  OBVIOUS
<1> USE DEF LimiterInit
<1>1. HoldingIn(state) = {} /\ AbandonedIn(state) = {}
  BY DEF HoldingIn, AbandonedIn
<1>2. active = Cardinality(HoldingIn(state))
        /\ abandonedUnsettled = Cardinality(AbandonedIn(state))
  BY <1>1, FS_EmptySet
<1>3. active <= MaxConcurrent
        /\ active + abandonedUnsettled <= MaxConcurrent + MaxAbandoned - 1
  BY LimiterAssumption
<1>4. state \in [Ops -> States] /\ waiters \in Seq(Ops) /\ Len(waiters) = 0
  BY DEF States
<1>5. Counted(active, abandonedUnsettled, waiters, state)
  BY <1>2, <1>3, <1>4 DEF Counted
<1>6. LimiterTypeOK
  BY <1>4, LimiterAssumption DEF LimiterTypeOK
<1> QED BY <1>5, <1>6 DEF IInv, Accounts, Settled

\* The accounts hold in every state: no permit is lost or doubled, and the queue
\* holds the waiting calls and nothing else.
THEOREM LimiterAccounts == LimiterSpec => []IInv
<1>1. LimiterInit => IInv
  BY InitAccounts
<1>2. IInv /\ [LimiterNext]_limiterVars => IInv'
  BY StepAccounts
<1> QED BY <1>1, <1>2, PTL DEF LimiterSpec

\* The type invariant, the bound of the permits included.
THEOREM LimiterTypes == LimiterSpec => []LimiterTypeOK
<1>1. IInv => LimiterTypeOK
  BY DEF IInv
<1> QED BY <1>1, LimiterAccounts, PTL

\* For any limits and any number of calls no more than MaxConcurrent operations
\* hold a permit and no more than MaxConcurrent + MaxAbandoned - 1 are under way.
THEOREM LimiterBoundsPressure == LimiterSpec => []PressureBounded
<1>1. IInv => PressureBounded
  <2> SUFFICES ASSUME IInv PROVE PressureBounded
    OBVIOUS
  <2>1. Holding \cap Abandoned = {}
    BY DEF Holding, Abandoned, HoldingIn, AbandonedIn
  <2>2. Cardinality(Holding \cup Abandoned)
          = Cardinality(Holding) + Cardinality(Abandoned) - 0
    BY <2>1, CountsFinite, FS_Union, FS_EmptySet DEF Holding, Abandoned
  <2>3. Cardinality(Holding) \in Nat /\ Cardinality(Abandoned) \in Nat
    BY CountsFinite DEF Holding, Abandoned
  <2>4. /\ active = Cardinality(Holding)
        /\ abandonedUnsettled = Cardinality(Abandoned)
        /\ active <= MaxConcurrent
        /\ active + abandonedUnsettled <= MaxConcurrent + MaxAbandoned - 1
    BY DEF IInv, Accounts, Counted, Holding, Abandoned
  <2> QED BY <2>2, <2>3, <2>4 DEF PressureBounded
<1> QED BY <1>1, LimiterAccounts, PTL

\* For any limits and any number of calls, whoever waits waits for permits that
\* are all held or for abandoned operations that use up their allowance.
THEOREM LimiterServes == LimiterSpec => []NobodyWaitsInVain
<1>1. IInv => NobodyWaitsInVain
  <2> SUFFICES ASSUME IInv PROVE NobodyWaitsInVain
    OBVIOUS
  <2>1. {waiters[i] : i \in 1 .. Len(waiters)} = {o \in Ops : state[o] = "queued"}
    BY DEF IInv, LimiterTypeOK, Accounts, Counted
  <2>2. waiters # <<>> =>
          Cardinality(Holding) = MaxConcurrent \/ Cardinality(Abandoned) >= MaxAbandoned
    BY DEF IInv, Accounts, Settled, Counted, Holding, Abandoned
  <2> QED BY <2>1, <2>2 DEF NobodyWaitsInVain
<1> QED BY <1>1, LimiterAccounts, PTL

\* What was aborted before it took up its permit is never started.
THEOREM LimiterHeedsAborts == LimiterSpec => AbortedNeverStarts
<1>1. LimiterTypeOK /\ [LimiterNext]_limiterVars =>
        [\A o \in Ops : aborted[o] /\ state[o] \in {"new", "queued", "granted"}
                          => state'[o] \notin {"running", "abandoned"}]_limiterVars
  <2> SUFFICES ASSUME LimiterTypeOK, NEW p \in Ops,
                      Run(p) \/ TakeUp(p) \/ HardCap(p) \/ Abort(p) \/ Settle(p),
                      NEW o \in Ops, aborted[o],
                      state[o] \in {"new", "queued", "granted"}
               PROVE  state'[o] \notin {"running", "abandoned"}
    BY DEF LimiterNext
  <2>1. ASSUME NEW act, NEW uns, NEW wait, NEW s \in States \ {"running", "abandoned"},
               Drained(act, uns, wait, Became(p, s)) \/ state' = Became(p, s)
        PROVE  state'[o] \notin {"running", "abandoned"}
    BY <2>1 DEF Drained, Became, LimiterTypeOK, States
  <2>2. CASE Run(p)
    BY <2>1, <2>2 DEF Run, States
  <2>3. CASE TakeUp(p)
    <3>1. CASE aborted[p]
      BY <2>1, <2>3, <3>1 DEF TakeUp, States
    <3>2. CASE ~aborted[p]
      BY <2>3, <3>2 DEF TakeUp, Became, LimiterTypeOK
    <3> QED BY <3>1, <3>2
  <2>4. CASE Settle(p)
    BY <2>1, <2>4 DEF Settle, States
  <2>5. ASSUME Abandon(p), p # o
        PROVE  state'[o] \notin {"running", "abandoned"}
    BY <2>5 DEF Abandon, Drained, Became, LimiterTypeOK
  <2>6. CASE HardCap(p)
    BY <2>5, <2>6 DEF HardCap
  <2>7. CASE Abort(p)
    <3>1. CASE state[p] = "queued"
      BY <2>1, <2>7, <3>1 DEF Abort, States
    <3>2. CASE state[p] = "running"
      BY <2>5, <2>7, <3>2 DEF Abort
    <3>3. CASE state[p] \notin {"queued", "running"}
      BY <2>7, <3>3 DEF Abort
    <3> QED BY <3>1, <3>2, <3>3
  <2> QED BY <2>2, <2>3, <2>4, <2>6, <2>7
<1> QED BY <1>1, LimiterTypes, PTL DEF LimiterSpec, AbortedNeverStarts

-----------------------------------------------------------------------------
(***************************************************************************)
(* The probes                                                              *)
(***************************************************************************)

\* The probes are the pairs of an evaluation and a provider.
LEMMA ProbePairs ==
  /\ \A o \in Ops : o[1] \in Evaluations /\ o[2] \in Providers /\ o = <<o[1], o[2]>>
  /\ \A e \in Evaluations, p \in Providers : <<e, p>> \in Ops
BY ProbesAssumption

-----------------------------------------------------------------------------
(***************************************************************************)
(* The limiter underneath                                                  *)
(***************************************************************************)

\* Every step is one of the limiter, or leaves it alone.
LEMMA StepsImplement == [Next]_vars => [LimiterNext]_limiterVars
<1> SUFFICES ASSUME [Next]_vars PROVE [LimiterNext]_limiterVars
  OBVIOUS
<1>1. ASSUME NEW o \in Ops, Step(o)
      PROVE  [LimiterNext]_limiterVars
  <2>1. ASSUME Run(o) \/ TakeUp(o) \/ HardCap(o) \/ Abort(o) \/ Settle(o)
        PROVE  [LimiterNext]_limiterVars
    BY <2>1 DEF LimiterNext
  <2>2. \/ Run(o) \/ TakeUp(o) \/ HardCap(o) \/ Abort(o) \/ Settle(o)
        \/ UNCHANGED limiterVars
    BY <1>1 DEF Step, Start, QueueDirect, RefuseDirect, TakeUpProbe, Answer,
                Approve, Timeout, Cap
  <2> QED BY <2>1, <2>2
<1>2. ASSUME NEW e \in Evaluations, Begin(e) \/ DirectDone(e) \/ Finish(e)
      PROVE  UNCHANGED limiterVars
  BY <1>2 DEF Begin, DirectDone, Finish
<1>3. ASSUME NEW a \in Aggregators, CoolDown(a)
      PROVE  UNCHANGED limiterVars
  BY <1>3 DEF CoolDown
<1>4. CASE UNCHANGED vars
  BY <1>4 DEF vars
<1> QED BY <1>1, <1>2, <1>3, <1>4 DEF Next

\* The probes use the limiter as any callers may.
THEOREM ProbesUseLimiter == Spec => LimiterSpec
<1>1. Init => LimiterInit
  BY DEF Init
<1> QED BY <1>1, StepsImplement, PTL DEF Spec, LimiterSpec

\* So its limits hold for the probes of any number of evaluations.
THEOREM ProbesBoundPressure == Spec => []PressureBounded
BY ProbesUseLimiter, LimiterBoundsPressure, PTL

\* And no probe waits while a permit could be had.
THEOREM ProbesServed == Spec => []NobodyWaitsInVain
BY ProbesUseLimiter, LimiterServes, PTL

\* And a probe that timed out before it took up its permit is never started.
THEOREM ProbesHeedTimeouts == Spec => AbortedNeverStarts
BY ProbesUseLimiter, LimiterHeedsAborts, PTL

-----------------------------------------------------------------------------
(***************************************************************************)
(* The moves of the limiter                                                *)
(***************************************************************************)

\* The calls other than p stay where they are, or get a permit they wait for.
OthersStay(p) ==
  \A o \in Ops \ {p} :
    /\ aborted'[o] = aborted[o]
    /\ state'[o] = state[o] \/ (state[o] = "queued" /\ state'[o] = "granted")

\* A drain after p has moved to s moves no other call but waiters.
LEMMA MovedOn ==
  ASSUME IInv, NEW p \in Ops, NEW s \in States,
         NEW act \in 0 .. MaxConcurrent, NEW unsettled \in Nat, NEW wait,
         Queued(wait, Became(p, s)),
         Drained(act, unsettled, wait, Became(p, s))
  PROVE  /\ state'[p] = s \/ (s = "queued" /\ state'[p] = "granted")
         /\ \A o \in Ops \ {p} :
              state'[o] = state[o] \/ (state[o] = "queued" /\ state'[o] = "granted")
<1> DEFINE n == Grants(act, unsettled, wait)
           st == Became(p, s)
<1>1. wait \in Seq(Ops) /\ \A i \in 1 .. Len(wait) : st[wait[i]] = "queued"
  BY DEF Queued
<1>2. n \in 0 .. Len(wait)
  BY <1>1, GrantsBound
<1>3. \A o \in Ops : state'[o] = st[o] \/ (st[o] = "queued" /\ state'[o] = "granted")
  <2> SUFFICES ASSUME NEW o \in Ops
               PROVE  state'[o] = st[o] \/ (st[o] = "queued" /\ state'[o] = "granted")
    OBVIOUS
  <2>1. state'[o] = IF o \in {wait[i] : i \in 1 .. n} THEN "granted" ELSE st[o]
    BY DEF Drained
  <2>2. ASSUME NEW i \in 1 .. n
        PROVE  st[wait[i]] = "queued"
    <3>1. i \in 1 .. Len(wait)
      BY <1>1, <1>2
    <3> QED BY <1>1, <3>1
  <2> HIDE DEF st, n
  <2> QED BY <2>1, <2>2
<1>4. st[p] = s /\ \A o \in Ops \ {p} : st[o] = state[o]
  BY DEF IInv, LimiterTypeOK, Became
<1> HIDE DEF st
<1> QED BY <1>3, <1>4

\* The counters a drain starts from.
LEMMA DrainTypes ==
  ASSUME IInv
  PROVE  /\ active \in 0 .. MaxConcurrent /\ OneLess(active) \in 0 .. MaxConcurrent
         /\ abandonedUnsettled \in Nat /\ abandonedUnsettled + 1 \in Nat
         /\ OneLess(abandonedUnsettled) \in Nat
BY LimiterAssumption DEF IInv, LimiterTypeOK, OneLess

\* A call queues, and perhaps gets its permit at once, unless it was aborted.
LEMMA RunMoves ==
  ASSUME IInv, NEW p \in Ops, Run(p)
  PROVE  /\ state[p] = "new" /\ aborted' = aborted /\ OthersStay(p)
         /\ IF aborted[p] THEN state'[p] = "over" ELSE state'[p] \in {"queued", "granted"}
<1>1. state[p] = "new" /\ aborted' = aborted
  BY DEF Run
<1>2. CASE aborted[p]
  BY <1>1, <1>2 DEF Run, Became, OthersStay, IInv, LimiterTypeOK
<1>3. CASE ~aborted[p]
  <2>1. Queued(Append(waiters, p), Became(p, "queued"))
    BY <1>1, LastQueued DEF IInv
  <2>2. Drained(active, abandonedUnsettled, Append(waiters, p), Became(p, "queued"))
    BY <1>3 DEF Run
  <2>3. "queued" \in States
    BY DEF States
  <2> QED BY <1>1, <1>3, <2>1, <2>2, <2>3, MovedOn, DrainTypes DEF OthersStay
<1> QED BY <1>2, <1>3

\* A permit is taken up or given back.
LEMMA TakeUpMoves ==
  ASSUME IInv, NEW p \in Ops, TakeUp(p)
  PROVE  /\ state[p] = "granted" /\ aborted' = aborted /\ OthersStay(p)
         /\ state'[p] = IF aborted[p] THEN "over" ELSE "running"
<1>1. state[p] = "granted" /\ aborted' = aborted
  BY DEF TakeUp
<1>2. CASE aborted[p]
  <2>1. "over" \in States
    BY DEF States
  <2>2. Queued(waiters, Became(p, "over"))
    BY <1>1, <2>1, OthersQueued DEF IInv
  <2>3. Drained(OneLess(active), abandonedUnsettled, waiters, Became(p, "over"))
    BY <1>2 DEF TakeUp
  <2> QED BY <1>1, <1>2, <2>1, <2>2, <2>3, MovedOn, DrainTypes DEF OthersStay
<1>3. CASE ~aborted[p]
  BY <1>1, <1>3 DEF TakeUp, Became, OthersStay, IInv, LimiterTypeOK
<1> QED BY <1>2, <1>3

\* An operation is abandoned.
LEMMA AbandonMoves ==
  ASSUME IInv, NEW p \in Ops, state[p] = "running", Abandon(p)
  PROVE  /\ state'[p] = "abandoned"
         /\ \A o \in Ops \ {p} :
              state'[o] = state[o] \/ (state[o] = "queued" /\ state'[o] = "granted")
<1>1. "abandoned" \in States
  BY DEF States
<1>2. Queued(waiters, Became(p, "abandoned"))
  BY <1>1, OthersQueued DEF IInv
<1> QED BY <1>1, <1>2, MovedOn, DrainTypes DEF Abandon

\* An abort takes a waiter away, abandons an operation, or is only noted.
LEMMA AbortMoves ==
  ASSUME IInv, NEW p \in Ops, Abort(p)
  PROVE  /\ aborted'[p] /\ OthersStay(p)
         /\ state'[p] = CASE state[p] = "queued"  -> "over"
                          [] state[p] = "running" -> "abandoned"
                          [] OTHER                -> state[p]
<1>1. aborted'[p] /\ \A o \in Ops \ {p} : aborted'[o] = aborted[o]
  BY DEF Abort, IInv, LimiterTypeOK
<1>2. CASE state[p] = "queued"
  <2>1. "over" \in States
    BY DEF States
  <2>2. Queued(Without(p), Became(p, "over"))
    BY <1>2, RestQueued DEF IInv
  <2>3. Drained(active, abandonedUnsettled, Without(p), Became(p, "over"))
    BY <1>2 DEF Abort
  <2> QED BY <1>1, <1>2, <2>1, <2>2, <2>3, MovedOn, DrainTypes DEF OthersStay
<1>3. CASE state[p] = "running"
  <2>1. Abandon(p)
    BY <1>3 DEF Abort
  <2> QED BY <1>1, <1>3, <2>1, AbandonMoves DEF OthersStay
<1>4. CASE state[p] \notin {"queued", "running"}
  BY <1>1, <1>4 DEF Abort, OthersStay
<1> QED BY <1>2, <1>3, <1>4

\* A settled operation is over, and only its permit is passed on.
LEMMA SettleMoves ==
  ASSUME IInv, NEW p \in Ops, Settle(p)
  PROVE  /\ state[p] \in {"running", "abandoned"} /\ aborted' = aborted
         /\ state'[p] = "over" /\ OthersStay(p)
<1>1. "over" \in States /\ "over" # "queued"
  BY DEF States
<1>2. state[p] \in {"running", "abandoned"} /\ aborted' = aborted
  BY DEF Settle
<1>3. Queued(waiters, Became(p, "over"))
  BY <1>1, <1>2, OthersQueued DEF IInv
<1>4. \/ Drained(OneLess(active), abandonedUnsettled, waiters, Became(p, "over"))
      \/ Drained(active, OneLess(abandonedUnsettled), waiters, Became(p, "over"))
  BY DEF Settle
<1> QED BY <1>1, <1>2, <1>3, <1>4, MovedOn, DrainTypes DEF OthersStay

-----------------------------------------------------------------------------
(***************************************************************************)
(* The bookkeeping of the executor                                         *)
(***************************************************************************)

ProbeStates == {"idle", "quoting", "approving"} \cup Results

\* Recording counts a failure of a recorded probe once, and opens what is full.
LEMMA RecordsCount ==
  ASSUME TypeOK, NEW S, NEW pr, Records(S, pr)
  PROVE  /\ failures' \in [Aggregators -> Nat] /\ open' \in [Aggregators -> BOOLEAN]
         /\ charges' \in [Ops -> Nat]
         /\ \A a \in Aggregators : open'[a] <=> failures'[a] >= Threshold
         /\ \A o \in Ops : /\ charges'[o] <= charges[o] + 1
                           /\ o \notin S => charges'[o] = charges[o]
<1> DEFINE of(a) == {pr[o] : o \in {p \in S : p[2] = a}}
           failed(a) == "failure" \in of(a)
           succeeded(a) == of(a) \cap {"approved", "success"} # {}
           n == [a \in Aggregators |->
                   IF succeeded(a) THEN 0
                   ELSE failures[a] + (IF failed(a) THEN 1 ELSE 0)]
<1>1. /\ failures' = n
      /\ open' = [a \in Aggregators |-> n[a] >= Threshold]
      /\ charges' = [o \in Ops |->
           charges[o] + (IF o \in S /\ o[2] # Direct /\ failed(o[2]) THEN 1 ELSE 0)]
  BY DEF Records
<1> HIDE DEF failed, succeeded
<1>2. n \in [Aggregators -> Nat]
  BY DEF TypeOK
<1>3. \A a \in Aggregators : open'[a] <=> failures'[a] >= Threshold
  BY <1>1
<1>4. \A o \in Ops : /\ charges[o] \in Nat
                     /\ charges'[o] = charges[o] +
                          (IF o \in S /\ o[2] # Direct /\ failed(o[2]) THEN 1 ELSE 0)
  BY <1>1 DEF TypeOK
<1>5. charges' \in [Ops -> Nat] /\ open' \in [Aggregators -> BOOLEAN]
  BY <1>1, <1>4
<1> HIDE DEF n
<1> QED BY <1>1, <1>2, <1>3, <1>4, <1>5

\* What a step of probe p must respect: it does not leave "idle" outside its
\* round, keeps a result, and queues or runs only while it waits for its quote.
LEMMA ProbeMoves ==
  ASSUME IInv, IInv', ProbesInv, NEW p \in Ops, NEW r \in ProbeStates,
         probe' = [probe EXCEPT ![p] = r],
         UNCHANGED <<mode, phase>>, unasked' \subseteq Ops,
         \/ r = probe[p]
         \/ /\ r # "idle" /\ (probe[p] # "idle" \/ p \in Round(p[1]))
            /\ probe[p] \in Results => r \in Results,
         OthersStay(p),
         state'[p] \in {"queued", "running"} => ~aborted'[p] /\ r = "quoting",
         state'[p] = "granted" /\ ~aborted'[p] => r = "quoting",
         state'[p] = "new" /\ r = "failure" => aborted'[p],
         \/ UNCHANGED circuitVars
         \/ /\ Single /\ probe[p] \notin Results /\ r \in Results
            /\ Records({p}, probe')
  PROVE  ProbesInv'
<1>1. probe'[p] = r /\ \A o \in Ops \ {p} : probe'[o] = probe[o]
  BY DEF ProbesInv, TypeOK
<1>2. TypeOK'
  <2>1. failures' \in [Aggregators -> Nat] /\ open' \in [Aggregators -> BOOLEAN]
        /\ charges' \in [Ops -> Nat]
    BY RecordsCount DEF ProbesInv, TypeOK, circuitVars
  <2>2. probe' \in [Ops -> ProbeStates]
    BY DEF ProbesInv, TypeOK, ProbeStates
  <2> QED BY <2>1, <2>2 DEF IInv, ProbesInv, TypeOK, ProbeStates
<1>3. Placed'
  <2> SUFFICES ASSUME NEW o \in Ops
               PROVE  /\ state'[o] \in {"queued", "running"} =>
                           ~aborted'[o] /\ probe'[o] = "quoting"
                      /\ state'[o] = "granted" /\ ~aborted'[o] => probe'[o] = "quoting"
                      /\ state'[o] = "new" /\ probe'[o] = "failure" => aborted'[o]
    BY DEF Placed
  <2>1. CASE o = p
    BY <1>1, <2>1
  <2>2. CASE o # p
    BY <1>1, <2>2 DEF OthersStay, ProbesInv, Placed
  <2> QED BY <2>1, <2>2
<1>4. InRounds'
  <2> SUFFICES ASSUME NEW e \in Evaluations
               PROVE
    /\ phase[e] = "waiting" => \A q \in Providers : probe'[<<e, q>>] = "idle"
    /\ phase[e] = "direct" =>
         /\ mode = "direct_dex_first"
         /\ \A a \in Aggregators : probe'[<<e, a>>] = "idle"
    /\ phase[e] = "probing" =>
         /\ Single => \A q \in Providers \ {mode} : probe'[<<e, q>>] = "idle"
         /\ mode = "direct_dex_first" => probe'[<<e, Direct>>] \in Results
    /\ phase[e] = "done" =>
         \A q \in Providers : probe'[<<e, q>>] \in Results \cup {"idle"}
    BY DEF InRounds, Single
  <2>1. CASE r = probe[p]
    <3>1. probe' = probe
      BY <2>1 DEF ProbesInv, TypeOK
    <3> QED BY <3>1 DEF ProbesInv, InRounds
  <2>2. CASE r # probe[p]
    <3>1. /\ r # "idle" /\ (probe[p] # "idle" \/ p \in Round(p[1]))
          /\ probe[p] \in Results => r \in Results
      BY <2>2
    <3>2. \A q \in Providers : <<e, q>> \in Ops
      BY ProbePairs
    <3>3. CASE p[1] # e
      <4>1. \A q \in Providers : probe'[<<e, q>>] = probe[<<e, q>>]
        BY <1>1, <3>2, <3>3
      <4> QED BY <4>1 DEF ProbesInv, InRounds, Providers
    <3>4. CASE p[1] = e
      <4>1. p[2] \in Providers /\ p = <<e, p[2]>>
        BY <3>4, ProbePairs
      <4>2. \A q \in Providers : q # p[2] => probe'[<<e, q>>] = probe[<<e, q>>]
        BY <1>1, <3>2, <4>1
      <4>3. phase[e] # "waiting"
        BY <3>1, <3>4, <4>1 DEF ProbesInv, InRounds, Round
      <4>4. phase[e] = "direct" =>
              mode = "direct_dex_first" /\ \A a \in Aggregators : probe'[<<e, a>>] = "idle"
        <5> SUFFICES ASSUME phase[e] = "direct"
                     PROVE  mode = "direct_dex_first" /\
                            \A a \in Aggregators : probe'[<<e, a>>] = "idle"
          OBVIOUS
        <5>1. p[2] = Direct
          BY <3>1, <3>4, <4>1, ProbesAssumption DEF ProbesInv, InRounds, Round, Providers, Single
        <5> QED BY <4>2, <5>1, ProbesAssumption DEF ProbesInv, InRounds, Providers
      <4>5. phase[e] = "probing" /\ Single =>
              \A q \in Providers \ {mode} : probe'[<<e, q>>] = "idle"
        <5> SUFFICES ASSUME phase[e] = "probing", Single
                     PROVE  \A q \in Providers \ {mode} : probe'[<<e, q>>] = "idle"
          OBVIOUS
        <5>1. p[2] = mode
          <6>1. CASE probe[p] = "idle"
            <7>1. p \in Round(e)
              BY <3>1, <3>4, <6>1
            <7>2. mode \notin {"max_profit", "direct_dex_first"}
              BY ProbesAssumption DEF Single
            <7> QED BY <7>1, <7>2 DEF Round
          <6>2. CASE probe[p] # "idle"
            BY <4>1, <6>2 DEF ProbesInv, InRounds
          <6> QED BY <6>1, <6>2
        <5> QED BY <4>2, <5>1 DEF ProbesInv, InRounds
      <4>6. phase[e] = "probing" /\ mode = "direct_dex_first" =>
              probe'[<<e, Direct>>] \in Results
        BY <1>1, <3>1, <4>1, <4>2 DEF ProbesInv, InRounds, Providers
      <4>7. phase[e] = "done" =>
              \A q \in Providers : probe'[<<e, q>>] \in Results \cup {"idle"}
        <5> SUFFICES ASSUME phase[e] = "done"
                     PROVE  \A q \in Providers : probe'[<<e, q>>] \in Results \cup {"idle"}
          OBVIOUS
        <5>1. Round(e) = {}
          BY DEF Round
        <5>2. probe[p] \in Results
          BY <3>1, <3>4, <4>1, <5>1 DEF ProbesInv, InRounds
        <5>3. probe'[<<e, p[2]>>] \in Results
          BY <1>1, <3>1, <4>1, <5>2
        <5>4. \A q \in Providers : q # p[2] => probe'[<<e, q>>] \in Results \cup {"idle"}
          BY <4>2 DEF ProbesInv, InRounds
        <5> QED BY <5>3, <5>4
      <4> QED BY <4>3, <4>4, <4>5, <4>6, <4>7
    <3> QED BY <3>3, <3>4
  <2> QED BY <2>1, <2>2
<1>5. CircuitsCount' /\ Charged'
  <2>1. \A o \in Ops : charges[o] \in Nat
    BY DEF ProbesInv, TypeOK
  <2>2. Single' = Single
    BY DEF Single
  <2>3. probe[p] \in Results => probe'[p] \in Results
    BY <1>1
  <2>4. CASE UNCHANGED circuitVars
    BY <1>1, <2>2, <2>3, <2>4 DEF circuitVars, ProbesInv, CircuitsCount, Charged
  <2>5. CASE /\ Single /\ probe[p] \notin Results /\ r \in Results
             /\ Records({p}, probe')
    <3>1. /\ \A a \in Aggregators : open'[a] <=> failures'[a] >= Threshold
          /\ \A o \in Ops : /\ charges'[o] <= charges[o] + 1
                            /\ o \notin {p} => charges'[o] = charges[o]
      BY <2>5, RecordsCount DEF ProbesInv
    <3>2. charges[p] = 0
      BY <2>1, <2>5 DEF ProbesInv, Charged
    <3>3. CircuitsCount'
      BY <2>1, <3>1, <3>2 DEF ProbesInv, CircuitsCount
    <3>4. Charged'
      BY <1>1, <2>2, <2>5, <3>1 DEF ProbesInv, Charged
    <3> QED BY <3>3, <3>4
  <2> QED BY <2>4, <2>5
<1> QED BY <1>2, <1>3, <1>4, <1>5 DEF ProbesInv

\* A step that leaves all probes and circuits alone but moves call p.
LEMMA CallMoves ==
  ASSUME IInv, IInv', ProbesInv, NEW p \in Ops,
         UNCHANGED <<mode, phase, probe, circuitVars, unasked>>,
         OthersStay(p),
         state'[p] \in {"queued", "running"} => ~aborted'[p] /\ probe[p] = "quoting",
         state'[p] = "granted" /\ ~aborted'[p] => probe[p] = "quoting",
         state'[p] = "new" /\ probe[p] = "failure" => aborted'[p]
  PROVE  ProbesInv'
<1>1. probe[p] \in ProbeStates /\ probe' = [probe EXCEPT ![p] = probe[p]]
  BY DEF ProbesInv, TypeOK, ProbeStates
<1>2. unasked' \subseteq Ops /\ UNCHANGED <<mode, phase>> /\ UNCHANGED circuitVars
  BY DEF ProbesInv, TypeOK
<1> QED BY <1>1, <1>2, ProbeMoves

\* Every step of a probe keeps the books.
LEMMA StepKeeps ==
  ASSUME IInv, IInv', ProbesInv, NEW p \in Ops, Step(p)
  PROVE  ProbesInv'
<1>0. /\ probe[p] \in ProbeStates /\ state[p] \in States /\ unasked \subseteq Ops
      /\ p[1] \in Evaluations /\ p[2] \in Providers
      /\ UNCHANGED limiterVars => OthersStay(p)
  BY ProbePairs DEF ProbesInv, TypeOK, ProbeStates, IInv, LimiterTypeOK, OthersStay,
                    limiterVars
<1>1. CASE Start(p)
  <2>1. /\ p \in Round(p[1]) /\ probe[p] = "idle"
        /\ UNCHANGED <<mode, phase>> /\ UNCHANGED circuitVars /\ unasked' = unasked
    BY <1>1 DEF Start
  <2>2. /\ state[p] \notin {"queued", "running"}
        /\ state[p] = "granted" => aborted[p]
    BY <2>1 DEF ProbesInv, Placed
  <2>3. PICK r \in {"quoting", "skipped"} :
          /\ probe' = [probe EXCEPT ![p] = r]
          /\ UNCHANGED limiterVars \/ (r = "quoting" /\ Run(p))
    BY <1>1 DEF Start, Ends
  <2>4. r \in ProbeStates /\ r # "idle" /\ probe[p] \notin Results
    BY <2>1 DEF ProbeStates, Results
  <2>5. CASE UNCHANGED limiterVars
    BY <1>0, <2>1, <2>2, <2>3, <2>4, <2>5, ProbeMoves DEF limiterVars
  <2>6. CASE r = "quoting" /\ Run(p)
    <3>1. /\ aborted' = aborted /\ OthersStay(p)
          /\ state'[p] \in {"over", "queued", "granted"}
          /\ state'[p] = "queued" => ~aborted[p]
      BY <2>6, RunMoves
    <3> QED BY <1>0, <2>1, <2>3, <2>4, <2>6, <3>1, ProbeMoves
  <2> QED BY <2>3, <2>5, <2>6
<1>2. CASE QueueDirect(p)
  <2>1. /\ Run(p) /\ probe[p] \in {"quoting", "failure"}
        /\ UNCHANGED <<mode, phase, probe, circuitVars, unasked>>
    BY <1>2 DEF QueueDirect
  <2>2. /\ state[p] = "new" /\ aborted' = aborted /\ OthersStay(p)
        /\ IF aborted[p] THEN state'[p] = "over" ELSE state'[p] \in {"queued", "granted"}
    BY <2>1, RunMoves
  <2>3. probe[p] = "failure" => aborted[p]
    BY <2>2 DEF ProbesInv, Placed
  <2> QED BY <2>1, <2>2, <2>3, CallMoves
<1>3. CASE RefuseDirect(p)
  <2>1. /\ probe[p] = "quoting" /\ state[p] = "new"
        /\ probe' = [probe EXCEPT ![p] = "neutral"] /\ UNCHANGED limiterVars
        /\ UNCHANGED <<mode, phase>> /\ UNCHANGED circuitVars /\ unasked' = unasked
    BY <1>3 DEF RefuseDirect, Ends
  <2>2. "neutral" \in ProbeStates /\ probe[p] \notin Results
    BY <2>1 DEF ProbeStates, Results
  <2> QED BY <1>0, <2>1, <2>2, ProbeMoves DEF limiterVars
<1>4. CASE TakeUpProbe(p)
  <2>1. TakeUp(p) /\ UNCHANGED <<mode, phase, probe, circuitVars, unasked>>
    BY <1>4 DEF TakeUpProbe
  <2>2. /\ state[p] = "granted" /\ aborted' = aborted /\ OthersStay(p)
        /\ state'[p] = IF aborted[p] THEN "over" ELSE "running"
    BY <2>1, TakeUpMoves
  <2>3. ~aborted[p] => probe[p] = "quoting"
    BY <2>2 DEF ProbesInv, Placed
  <2> QED BY <2>1, <2>2, <2>3, CallMoves
<1>5. CASE Answer(p)
  <2>1. /\ state[p] \in {"running", "abandoned"} /\ aborted' = aborted
        /\ state'[p] = "over" /\ OthersStay(p)
    BY <1>5, SettleMoves DEF Answer
  <2>2. UNCHANGED <<mode, phase, unasked>>
    BY <1>5 DEF Answer
  <2>3. CASE state[p] = "abandoned"
    <3>1. UNCHANGED <<probe, circuitVars>>
      BY <1>5, <2>3 DEF Answer
    <3> QED BY <2>1, <2>2, <3>1, CallMoves
  <2>4. CASE state[p] = "running"
    <3>1. PICK r \in {"approving", "success", "neutral", "failure"} :
            /\ probe' = [probe EXCEPT ![p] = r] /\ Shell(p)
            /\ Single => r # "approving"
      BY <1>5, <2>4 DEF Answer, Ends
    <3>2. probe[p] = "quoting" /\ "quoting" \notin Results
      BY <2>4 DEF ProbesInv, Placed, Results
    <3>3. r \in ProbeStates /\ (Single => r \in Results)
      BY <3>1 DEF ProbeStates, Results
    <3>4. UNCHANGED circuitVars \/ (Single /\ Records({p}, probe'))
      BY <3>1 DEF Shell
    <3> QED BY <1>0, <2>1, <2>2, <3>1, <3>2, <3>3, <3>4, ProbeMoves
  <2> QED BY <2>1, <2>3, <2>4
<1>6. CASE Approve(p)
  <2>1. PICK r \in {"approved", "success"} : probe' = [probe EXCEPT ![p] = r]
    BY <1>6 DEF Approve, Ends
  <2>2. /\ probe[p] = "approving" /\ UNCHANGED limiterVars
        /\ UNCHANGED <<mode, phase>> /\ UNCHANGED circuitVars /\ unasked' = unasked
    BY <1>6 DEF Approve
  <2>3. r \in ProbeStates /\ r \in Results /\ probe[p] \notin Results
    BY <2>2 DEF ProbeStates, Results
  <2>4. /\ state[p] \notin {"queued", "running"}
        /\ state[p] = "granted" => aborted[p]
    BY <2>2 DEF ProbesInv, Placed
  <2> QED BY <1>0, <2>1, <2>2, <2>3, <2>4, ProbeMoves DEF limiterVars
<1>7. CASE Timeout(p)
  <2>1. /\ probe[p] \in {"quoting", "approving"} /\ Shell(p)
        /\ probe' = [probe EXCEPT ![p] = "failure"]
        /\ UNCHANGED <<mode, phase>> /\ unasked' \subseteq Ops
    BY <1>0, <1>7 DEF Timeout, Ends
  <2>2. "failure" \in ProbeStates /\ "failure" \in Results /\ probe[p] \notin Results
    BY <2>1 DEF ProbeStates, Results
  <2>3. UNCHANGED circuitVars \/ (Single /\ Records({p}, probe'))
    BY <2>1 DEF Shell
  <2>4. CASE state[p] = "over"
    <3>1. UNCHANGED limiterVars
      BY <1>7, <2>4 DEF Timeout
    <3> QED BY <1>0, <2>1, <2>2, <2>3, <2>4, <3>1, ProbeMoves DEF limiterVars
  <2>5. CASE state[p] # "over"
    <3>1. Abort(p)
      BY <1>7, <2>5 DEF Timeout
    <3>2. /\ aborted'[p] /\ OthersStay(p)
          /\ state'[p] \notin {"queued", "running"}
      BY <3>1, AbortMoves
    <3> QED BY <1>0, <2>1, <2>2, <2>3, <3>2, ProbeMoves
  <2> QED BY <2>4, <2>5
<1>8. CASE Cap(p)
  <2>1. /\ HardCap(p) /\ probe' = [probe EXCEPT ![p] = "failure"]
        /\ UNCHANGED <<mode, phase>> /\ UNCHANGED circuitVars /\ unasked' = unasked
    BY <1>8 DEF Cap, Ends
  <2>2. state[p] = "running" /\ Abandon(p) /\ aborted' = aborted
    BY <2>1 DEF HardCap
  <2>3. state'[p] = "abandoned" /\ OthersStay(p)
    BY <2>2, AbandonMoves DEF OthersStay
  <2>4. /\ probe[p] = "quoting" /\ "quoting" \notin Results
        /\ "failure" \in ProbeStates
    BY <2>2 DEF ProbesInv, Placed, Results, ProbeStates
  <2> QED BY <1>0, <2>1, <2>3, <2>4, ProbeMoves
<1> QED BY <1>1, <1>2, <1>3, <1>4, <1>5, <1>6, <1>7, <1>8 DEF Step

\* And so do the evaluations, and a cooldown that passes.
LEMMA EvaluationKeeps ==
  ASSUME IInv', ProbesInv, NEW e \in Evaluations,
         Begin(e) \/ DirectDone(e) \/ Finish(e)
  PROVE  ProbesInv'
<1>1. /\ UNCHANGED <<limiterVars, mode, probe, unasked>>
      /\ \A f \in Evaluations \ {e} : phase'[f] = phase[f]
      /\ phase' \in [Evaluations -> Phases]
      /\ phase[e] # "done"
  BY DEF Begin, DirectDone, Finish, ProbesInv, TypeOK, Phases
<1>2. Placed'
  BY <1>1 DEF ProbesInv, Placed, limiterVars
<1>3. \A q \in Providers : <<e, q>> \in Ops
  BY ProbePairs
<1>4. mode = "max_profit" \/ mode = "direct_dex_first" \/ Single
  BY DEF ProbesInv, TypeOK, Modes, Single
<1>5. /\ phase'[e] = "direct" => phase[e] = "waiting" /\ mode = "direct_dex_first"
      /\ phase'[e] = "probing" =>
           /\ phase[e] \in {"waiting", "direct"}
           /\ phase[e] = "waiting" => mode # "direct_dex_first"
           /\ phase[e] = "direct" => probe[<<e, Direct>>] \in Results
      /\ phase'[e] = "done" =>
           \/ phase[e] = "direct" /\ probe[<<e, Direct>>] \in Results
           \/ phase[e] = "probing" /\ \A o \in Round(e) : probe[o] \in Results
      /\ phase'[e] \in {"direct", "probing", "done"}
  BY DEF Begin, DirectDone, Finish, ProbesInv, TypeOK, Phases, Results
<1>6. phase'[e] = "done" =>
        \A q \in Providers : probe[<<e, q>>] \in Results \cup {"idle"}
  <2> SUFFICES ASSUME phase'[e] = "done", NEW q \in Providers
               PROVE  probe[<<e, q>>] \in Results \cup {"idle"}
    OBVIOUS
  <2>1. CASE phase[e] = "direct"
    BY <1>5, <2>1 DEF ProbesInv, InRounds, Providers
  <2>2. CASE phase[e] = "probing"
    <3>1. \A o \in Round(e) : probe[o] \in Results
      BY <1>5, <2>2
    <3>2. CASE Single
      BY <2>2, <3>1, <3>2 DEF ProbesInv, InRounds, Round
    <3>3. CASE mode = "max_profit"
      BY <2>2, <3>1, <3>3 DEF Round
    <3>4. CASE mode = "direct_dex_first"
      BY <2>2, <3>1, <3>4 DEF ProbesInv, InRounds, Round
    <3> QED BY <1>4, <3>2, <3>3, <3>4
  <2> QED BY <1>5, <2>1, <2>2
<1>7. InRounds'
  <2> SUFFICES ASSUME NEW f \in Evaluations
               PROVE
    /\ phase'[f] = "waiting" => \A q \in Providers : probe[<<f, q>>] = "idle"
    /\ phase'[f] = "direct" =>
         /\ mode = "direct_dex_first"
         /\ \A a \in Aggregators : probe[<<f, a>>] = "idle"
    /\ phase'[f] = "probing" =>
         /\ Single => \A q \in Providers \ {mode} : probe[<<f, q>>] = "idle"
         /\ mode = "direct_dex_first" => probe[<<f, Direct>>] \in Results
    /\ phase'[f] = "done" =>
         \A q \in Providers : probe[<<f, q>>] \in Results \cup {"idle"}
    BY <1>1 DEF InRounds, Single
  <2>1. CASE f # e
    BY <1>1, <2>1 DEF ProbesInv, InRounds
  <2>2. CASE f = e
    <3>1. phase[e] = "direct" => ~Single
      BY ProbesAssumption DEF ProbesInv, InRounds, Single
    <3>2. phase'[e] = "direct" => \A a \in Aggregators : probe[<<e, a>>] = "idle"
      BY <1>5 DEF ProbesInv, InRounds, Providers
    <3>3. phase'[e] = "probing" =>
            /\ Single => \A q \in Providers \ {mode} : probe[<<e, q>>] = "idle"
            /\ mode = "direct_dex_first" => probe[<<e, Direct>>] \in Results
      BY <1>5, <3>1 DEF ProbesInv, InRounds
    <3> QED BY <1>5, <1>6, <2>2, <3>2, <3>3
  <2> QED BY <2>1, <2>2
<1>8. \/ UNCHANGED circuitVars
      \/ /\ ~Single /\ phase[e] = "probing" /\ phase'[e] = "done"
         /\ Records(Round(e), probe)
  BY DEF Begin, DirectDone, Finish, ProbesInv, TypeOK
<1>9. TypeOK'
  <2>1. failures' \in [Aggregators -> Nat] /\ open' \in [Aggregators -> BOOLEAN]
        /\ charges' \in [Ops -> Nat]
    BY <1>8, RecordsCount DEF ProbesInv, TypeOK, circuitVars
  <2> QED BY <1>1, <2>1 DEF IInv, ProbesInv, TypeOK
<1>10. CircuitsCount' /\ Charged'
  <2>1. \A o \in Ops : charges[o] \in Nat /\ o[1] \in Evaluations
    BY ProbePairs DEF ProbesInv, TypeOK
  <2>2. \A o \in Ops : phase[o[1]] = "done" => phase'[o[1]] = "done"
    BY <1>1, <2>1
  <2>3. Single' = Single /\ probe' = probe
    BY <1>1 DEF Single
  <2>4. CASE UNCHANGED circuitVars
    BY <2>2, <2>3, <2>4 DEF circuitVars, ProbesInv, CircuitsCount, Charged
  <2>5. CASE /\ ~Single /\ phase[e] = "probing" /\ phase'[e] = "done"
             /\ Records(Round(e), probe)
    <3>1. /\ \A a \in Aggregators : open'[a] <=> failures'[a] >= Threshold
          /\ \A o \in Ops : /\ charges'[o] <= charges[o] + 1
                            /\ o \notin Round(e) => charges'[o] = charges[o]
      BY <2>5, RecordsCount DEF ProbesInv
    <3>2. \A o \in Round(e) : o[1] = e
      BY DEF Round
    <3>3. \A o \in Ops : o[1] = e => charges[o] = 0
      BY <2>1, <2>5 DEF ProbesInv, Charged
    <3>4. CircuitsCount'
      BY <2>1, <3>1, <3>2, <3>3 DEF ProbesInv, CircuitsCount
    <3>5. Charged'
      BY <2>2, <2>3, <2>5, <3>1, <3>2 DEF ProbesInv, Charged
    <3> QED BY <3>4, <3>5
  <2> QED BY <1>8, <2>4, <2>5
<1> QED BY <1>2, <1>7, <1>9, <1>10 DEF ProbesInv

\* The books are in order in every state, for any number of evaluations.
THEOREM ProbesKeepBooks == Spec => []ProbesInv
<1>1. Init => ProbesInv
  <2> SUFFICES ASSUME Init, IInv PROVE ProbesInv
    BY InitAccounts DEF Init
  <2>1. \A e \in Evaluations, q \in Providers : <<e, q>> \in Ops
    BY ProbePairs
  <2>2. TypeOK
    BY DEF Init, TypeOK, IInv, Phases
  <2>3. Placed /\ InRounds
    BY <2>1 DEF Init, LimiterInit, Placed, InRounds
  <2>4. CircuitsCount /\ Charged
    <3>1. \A o \in Ops : charges[o] = 0
      BY DEF Init
    <3>2. \A a \in Aggregators : open[a] <=> failures[a] >= Threshold
      BY ZenonT(20) DEF Init
    <3> QED BY <3>1, <3>2 DEF CircuitsCount, Charged
  <2> QED BY <2>2, <2>3, <2>4 DEF ProbesInv
<1>2. IInv /\ IInv' /\ ProbesInv /\ [Next]_vars => ProbesInv'
  <2> SUFFICES ASSUME IInv, IInv', ProbesInv, [Next]_vars PROVE ProbesInv'
    OBVIOUS
  <2>1. ASSUME NEW a \in Aggregators, CoolDown(a)
        PROVE  ProbesInv'
    <3>1. /\ UNCHANGED <<limiterVars, mode, phase, probe, charges, unasked>>
          /\ open' = [open EXCEPT ![a] = FALSE]
          /\ failures' = [failures EXCEPT ![a] = 0]
      BY <2>1 DEF CoolDown
    <3>2. TypeOK'
      BY <3>1 DEF ProbesInv, TypeOK, IInv
    <3>3. CircuitsCount'
      BY <3>1, ProbesAssumption DEF ProbesInv, CircuitsCount, TypeOK
    <3>4. Placed' /\ InRounds' /\ Charged'
      BY <3>1 DEF ProbesInv, Placed, InRounds, Charged, Single, limiterVars
    <3> QED BY <3>2, <3>3, <3>4 DEF ProbesInv
  <2>2. CASE UNCHANGED vars
    <3>1. /\ UNCHANGED <<state, aborted, mode, phase, probe, unasked>>
          /\ UNCHANGED <<failures, open, charges>>
      BY <2>2 DEF vars, limiterVars, circuitVars
    <3>2. TypeOK'
      BY <3>1 DEF ProbesInv, TypeOK, IInv
    <3>3. CircuitsCount' /\ Charged'
      BY <3>1 DEF ProbesInv, CircuitsCount, Charged, Single
    <3>4. Placed' /\ InRounds'
      BY <3>1 DEF ProbesInv, Placed, InRounds, Single
    <3> QED BY <3>2, <3>3, <3>4 DEF ProbesInv
  <2> QED BY <2>1, <2>2, StepKeeps, EvaluationKeeps DEF Next
<1>3. Spec => []IInv
  BY ProbesUseLimiter, LimiterAccounts, PTL
<1> QED BY <1>1, <1>2, <1>3, PTL DEF Spec

\* The type invariant, that of the limiter included.
THEOREM ProbesTypeOK == Spec => []TypeOK
<1>1. ProbesInv => TypeOK
  BY DEF ProbesInv
<1> QED BY <1>1, ProbesKeepBooks, PTL

\* For any threshold and any number of probes, a circuit is open exactly while
\* it has counted enough, and no probe is charged twice.
THEOREM ProbesChargeOnce == Spec => []CircuitsCount
<1>1. ProbesInv => CircuitsCount
  BY DEF ProbesInv
<1> QED BY <1>1, ProbesKeepBooks, PTL

\* An evaluation that is done has left nothing in the limiter that holds a
\* permit or waits for one.
THEOREM ProbesLeaveNothing == Spec => []DoneLeavesNothing
<1>1. ProbesInv => DoneLeavesNothing
  <2> SUFFICES ASSUME ProbesInv, NEW o \in Ops, phase[o[1]] = "done"
               PROVE  /\ state[o] \notin {"queued", "running"}
                      /\ state[o] = "granted" => aborted[o]
    BY DEF DoneLeavesNothing
  <2>1. probe[o] \in Results \cup {"idle"}
    BY ProbePairs DEF ProbesInv, InRounds
  <2>2. probe[o] # "quoting"
    BY <2>1 DEF Results
  <2> QED BY <2>2 DEF ProbesInv, Placed
<1> QED BY <1>1, ProbesKeepBooks, PTL

-----------------------------------------------------------------------------
(***************************************************************************)
(* The approval of a take, for any auction, amounts, prices and policies.  *)
(* What a route that was approved owes was computed for the size that its  *)
(* quote speaks of; nothing but a new quote changes that size, so what is  *)
(* handed over covers the costs wherever the size has not risen since.     *)
(***************************************************************************)

\* The route has a quote or an approval under way.
Busy(r) == job[r].step \in {"quote", "enter", "waiting", "price", "ask"}

\* The quote speaks of the facts that were read last.
AsRead(r) ==
  LET q == quote[r] IN
  q.at = facts /\ q.base = facts /\ q.due = Due(Size(r, facts), Course[facts].price)

\* What the quote owes was computed for the facts it speaks of.
Sound(r) ==
  LET q == quote[r] IN
  ~Eased(r) => Size(r, q.at) = Size(r, q.base)
               /\ q.due = Due(Size(r, q.base), Course[q.base].price)

\* What an approval with a forced gas price leaves.
Owed(r) ==
  LET q == quote[r]
      anew == Due(Size(r, q.base), Course[facts].price)
  IN ~Eased(r) => /\ q.due \in {anew, Due(Size(r, q.base), Course[q.base].price)}
                  /\ Priced(r) => q.rate > 0 /\ q.due = anew

Repays(r) == MinOut(r, quote[r]) >= Due(Size(r, facts), Course[facts].price)

Begun(r, why) == job[r].why = why /\ job[r].step \notin {"quote", "off"}

\* A route that is being probed.
Quoted(r) ==
  /\ Approved(r) => AsRead(r)
  /\ Busy(r) /\ job[r].step # "quote" /\ job[r].why # "context" => AsRead(r)
  /\ stage = "fallback" /\ r = "aggregator" =>
       ~Busy(r) /\ (plan # <<>> => Approved(r))

\* The candidate that is tried.
Current(r) ==
  /\ stage = "approve" => Begun(r, "approve") /\ (Busy(r) \/ Approved(r) => AsRead(r))
  /\ stage \in {"revalidate", "refresh"} => ~Busy(r) /\ Sound(r)
  /\ stage \in {"last", "candidate"} =>
       /\ Begun(r, stage)
       /\ Busy(r) => Sound(r)
       /\ Approved(r) => Owed(r)
       /\ job[r].step \in {"price", "ask", "approved"} => since
  /\ stage \in {"execute", "sent"} => ~Busy(r) /\ Owed(r) /\ since
  /\ stage = "sent" /\ r = "direct" => Repays(r)

Probes == {"probe", "fallback"}
Engaged == {"approve", "revalidate", "last", "refresh", "candidate", "execute", "sent"}

RouteOK(r) ==
  /\ stage \in Probes => Quoted(r)
  /\ stage \in Engaged =>
       /\ r = plan[idx] => Current(r)
       /\ \A i \in DOMAIN plan : i > idx /\ r = plan[i] => ~Busy(r) /\ Sound(r)

PlanOK ==
  /\ stage = "fallback" => plan \in {<<>>, <<"aggregator">>}
  /\ stage \in Engaged => idx \in DOMAIN plan
  /\ eased => Eligible

\* An entry that serves is as old as it seems.
Dated(map) == \A k \in Keys : map[k].rate > 0 => map[k].real = map[k].age

\* No price is used before one was answered.
PriceKnown ==
  /\ gas.age <= Ttl => gas.price \in GasPrices
  /\ \A r \in Routes : /\ job[r].step = "price" => gas.price \in GasPrices
                       /\ job[r].step = "ask" => job[r].gas \in GasPrices

\* What a conversion needs.
DataOK == ApprovalTypeOK /\ PriceKnown /\ Dated(cache) /\ RateIsRecent

ApprovalInv ==
  /\ DataOK
  /\ PlanOK
  /\ \A r \in Routes : RouteOK(r)

-----------------------------------------------------------------------------
\* Numbers.

LEMMA CeilDivBounds ==
  ASSUME NEW a \in Nat, NEW b \in Nat \ {0}
  PROVE  /\ CeilDiv(a, b) \in Nat
         /\ CeilDiv(a, b) * b >= a
         /\ a = 0 => CeilDiv(a, b) = 0
BY DEF CeilDiv

LEMMA CeilDivMonotone ==
  ASSUME NEW a \in Nat, NEW c \in Nat, a <= c, NEW b \in Nat \ {0}
  PROVE  CeilDiv(a, b) <= CeilDiv(c, b)
BY DEF CeilDiv

LEMMA FactsTyped ==
  ASSUME NEW i \in DOMAIN Course
  PROVE  Course[i].price \in Nat /\ Course[i].coll \in Nat /\ Course[i].debt \in Nat
<1>1. Course \in Seq([price : Nat, coll : Nat, debt : Nat])
  BY ApprovalAssumption
<1>2. \A S : \A c \in Seq(S) : \A j \in DOMAIN c : c[j] \in S
  OBVIOUS
<1>3. Course[i] \in [price : Nat, coll : Nat, debt : Nat]
  BY <1>1, <1>2, Zenon
<1> QED BY <1>3

LEMMA SizeTyped ==
  ASSUME NEW r \in Routes, NEW i \in DOMAIN Course
  PROVE  Size(r, i) \in Nat
<1>1. Course[i].price \in Nat /\ Course[i].coll \in Nat /\ Course[i].debt \in Nat /\ Wad \in Nat
  BY FactsTyped, ApprovalAssumption
<1>2. Course[i].price > 0 => (Course[i].debt * Wad) \div Course[i].price \in Nat
  BY <1>1
<1> QED BY <1>1, <1>2 DEF Size, Constrained

LEMMA DueTyped ==
  ASSUME NEW size \in Nat, NEW price \in Nat
  PROVE  Due(size, price) \in Nat /\ Due(size, price) * Wad >= size * price
<1>1. size * price \in Nat /\ Wad \in Nat \ {0} BY ApprovalAssumption
<1> QED BY <1>1, CeilDivBounds DEF Due

\* A take of no larger size at no higher price owes no more.
LEMMA DueMonotone ==
  ASSUME NEW size \in Nat, NEW price \in Nat, NEW less \in 0 .. size, NEW low \in 0 .. price
  PROVE  Due(less, low) <= Due(size, price)
<1>1. less * low <= size * low /\ size * low <= size * price
  <2>1. \A x, y, z \in Nat : x <= y => x * z <= y * z /\ z * x <= z * y
    OBVIOUS
  <2> QED BY <2>1
<1>2. less * low \in Nat /\ size * price \in Nat /\ less * low <= size * price
  BY <1>1
<1> QED BY <1>2, CeilDivMonotone, ApprovalAssumption DEF Due

LEMMA NativeTyped ==
  ASSUME NEW price \in Nat
  PROVE  Native(price) \in Nat
<1>1. GasLimit \in Nat /\ BufferNum \in Nat /\ BufferDen \in 1 .. BufferNum
  BY ApprovalAssumption
<1>2. price * GasLimit * BufferNum \in Nat /\ BufferDen \in Nat \ {0}
  BY <1>1
<1> QED BY <1>2, CeilDivBounds DEF Native

LEMMA ConvertedTyped ==
  ASSUME NEW native \in Nat, NEW rate \in Nat
  PROVE  Converted(native, rate) \in Nat
<1>1. native * rate \in Nat /\ RateUnit \in Nat \ {0}
  BY ApprovalAssumption
<1> QED BY <1>1 DEF Converted

\* The share of gas in the converted sum is no less than the gas alone converted.
LEMMA ShareBound ==
  ASSUME NEW n \in Nat, NEW m \in Nat, n + m # 0, NEW rate \in Nat, NEW u \in Nat \ {0}
  PROVE  (n * rate) \div u <= CeilDiv((((n + m) * rate) \div u) * n, n + m)
<1> DEFINE t == n + m
           W == (t * rate) \div u
           C == (n * rate) \div u
           G == CeilDiv(W * n, t)
<1>1. t * rate \in Nat /\ n * rate \in Nat /\ t \in Nat \ {0}
  OBVIOUS
<1>2. W \in Nat /\ W * u > t * rate - u
  BY <1>1
<1>3. C \in Nat /\ C * u <= n * rate
  BY <1>1
<1> HIDE DEF W, C, t
<1>4. W * n \in Nat
  BY <1>2
<1>5. G \in Nat /\ G * t >= W * n
  BY <1>1, <1>4, CeilDivBounds
<1> HIDE DEF G
<1>6. ASSUME C > G PROVE FALSE
  <2>1. G * u <= C * u - u
    <3>1. G + 1 <= C
      BY <1>3, <1>5, <1>6
    <3>2. (G + 1) * u <= C * u
      BY <3>1, <1>3, <1>5
    <3> QED BY <3>2, <1>3, <1>5
  <2>2. G * u <= n * rate - u
    BY <2>1, <1>1, <1>3, <1>5
  <2>3. (G * u) * t <= (n * rate - u) * t
    BY <2>2, <1>1, <1>5
  <2>4. (G * t) * u >= (W * n) * u
    BY <1>1, <1>4, <1>5
  <2>5. (W * u) * n >= (t * rate - u + 1) * n
    BY <1>1, <1>2
  <2>6. (t * rate - u + 1) * n <= (n * rate - u) * t
    <3>1. (G * t) * u = (G * u) * t /\ (W * n) * u = (W * u) * n
      BY <1>1, <1>2, <1>5
    <3> QED BY <3>1, <2>3, <2>4, <2>5, <1>1, <1>2, <1>5
  <2>7. (t * rate) * n - (u * n) + n <= (n * rate) * t - u * t
    BY <2>6, <1>1
  <2>8. (t * rate) * n = (n * rate) * t
    BY <1>1
  <2>9. u * t = u * n + u * m
    BY DEF t
  <2>10. u * n \in Nat /\ u * m \in Nat /\ (t * rate) * n \in Nat
    BY <1>1
  <2>11. n + u * m <= 0
    BY <2>7, <2>8, <2>9, <2>10
  <2>12. n = 0 /\ u * m = 0
    BY <2>10, <2>11
  <2>13. m = 0
    BY <2>12
  <2> QED BY <2>12, <2>13
<1>7. C <= G
  BY <1>3, <1>5, <1>6
<1> QED BY <1>7 DEF C, G, W, t

QuoteType ==
  [at : DOMAIN Course, base : DOMAIN Course, amount : Amounts \cup {0}, due : Nat,
   gas : GasPrices \cup {0}, wei : GasPrices \cup {0}, rate : Rates \cup {0}, stamp : -1 .. Ttl + 1, recent : BOOLEAN]

LEMMA EnvTyped ==
  ASSUME env \in Environments
  PROVE  /\ env.minNative \in Nat /\ env.minQuote \in Nat /\ env.maxQuote \in Nat
         /\ env.subsidy \in BOOLEAN /\ env.maximize \in BOOLEAN
         /\ env.gas \subseteq GasPrices /\ env.rates \subseteq Rates
<1>1. env \in EnvType
  BY ApprovalAssumption
<1> QED BY <1>1 DEF EnvType

LEMMA QuoteNumbers ==
  ASSUME NEW q \in QuoteType
  PROVE  /\ q.at \in DOMAIN Course /\ q.base \in DOMAIN Course
         /\ q.amount \in Nat /\ q.due \in Nat /\ q.gas \in Nat /\ q.rate \in Nat
<1>1. /\ q.at \in DOMAIN Course /\ q.base \in DOMAIN Course /\ q.amount \in Amounts \cup {0}
      /\ q.due \in Nat /\ q.gas \in GasPrices \cup {0} /\ q.rate \in Rates \cup {0}
  BY DEF QuoteType
<1>2. Amounts \subseteq Nat /\ GasPrices \subseteq Nat /\ Rates \subseteq Nat
  BY ApprovalAssumption
<1>3. Amounts \cup {0} \subseteq Nat /\ GasPrices \cup {0} \subseteq Nat /\ Rates \cup {0} \subseteq Nat
  BY <1>2
<1> QED BY <1>1, <1>3, Zenon

LEMMA CostTyped ==
  ASSUME env \in Environments, NEW price \in Nat, NEW rate \in Nat
  PROVE  /\ Native(price) \in Nat /\ Whole(price, rate) \in Nat
         /\ GasShare(price, rate) \in Nat /\ NativeFloor(price, rate) \in Int
         /\ GasShare(price, rate) + NativeFloor(price, rate) = Whole(price, rate)
<1>1. env.minNative \in Nat
  BY EnvTyped
<1>2. Native(price) \in Nat
  BY NativeTyped
<1>3. Native(price) + env.minNative \in Nat
  BY <1>1, <1>2
<1>4. Whole(price, rate) \in Nat
  BY <1>3, ConvertedTyped DEF Whole
<1>5. GasShare(price, rate) \in Nat
  <2>1. Whole(price, rate) * Native(price) \in Nat
    BY <1>2, <1>4
  <2>2. CASE Native(price) + env.minNative = 0
    BY <2>2 DEF GasShare
  <2>3. CASE Native(price) + env.minNative # 0
    <3>1. Native(price) + env.minNative \in Nat \ {0}
      BY <1>3, <2>3
    <3>2. CeilDiv(Whole(price, rate) * Native(price), Native(price) + env.minNative) \in Nat
      BY <2>1, <3>1, CeilDivBounds
    <3> QED BY <2>3, <3>2 DEF GasShare
  <2> QED BY <2>2, <2>3
<1> QED BY <1>2, <1>4, <1>5 DEF NativeFloor

\* What a priced quote is charged covers the converted sum, and the gas with each floor.
LEMMA ChargeCovers ==
  ASSUME env \in Environments, NEW q \in QuoteType
  PROVE  /\ Charge(q) \in Nat
         /\ q.rate > 0 => /\ Charge(q) >= Whole(q.gas, q.rate)
                          /\ Charge(q) >= Converted(Native(q.gas), q.rate) + env.minQuote
<1>1. q.gas \in Nat /\ q.rate \in Nat /\ env.minNative \in Nat /\ env.minQuote \in Nat
  BY QuoteNumbers, EnvTyped
<1> DEFINE n == Native(q.gas)
           share == GasShare(q.gas, q.rate)
<1>2. /\ n \in Nat /\ Whole(q.gas, q.rate) \in Nat /\ share \in Nat
      /\ NativeFloor(q.gas, q.rate) \in Int
      /\ share + NativeFloor(q.gas, q.rate) = Whole(q.gas, q.rate)
  BY <1>1, CostTyped
<1>3. Converted(n, q.rate) <= share /\ Converted(n, q.rate) \in Nat
  <2>1. Converted(n, q.rate) \in Nat
    BY <1>1, <1>2, ConvertedTyped
  <2>2. CASE n + env.minNative = 0
    <3>1. n = 0
      BY <1>1, <1>2, <2>2
    <3>2. n * q.rate = 0 /\ RateUnit \in Nat \ {0}
      BY <1>1, <3>1, ApprovalAssumption
    <3>3. Converted(n, q.rate) = 0
      BY <3>2 DEF Converted
    <3> QED BY <2>1, <3>3, <1>2
  <2>3. CASE n + env.minNative # 0
    <3>1. share = CeilDiv(Whole(q.gas, q.rate) * n, n + env.minNative)
      BY <2>3 DEF GasShare
    <3>2. Whole(q.gas, q.rate) = ((n + env.minNative) * q.rate) \div RateUnit
      BY DEF Whole, Converted
    <3>3. Converted(n, q.rate) = (n * q.rate) \div RateUnit
      BY DEF Converted
    <3>4. RateUnit \in Nat \ {0}
      BY ApprovalAssumption
    <3> HIDE DEF n, share
    <3>5. (n * q.rate) \div RateUnit
            <= CeilDiv((((n + env.minNative) * q.rate) \div RateUnit) * n, n + env.minNative)
      BY <1>1, <1>2, <2>3, <3>4, ShareBound
    <3> QED BY <2>1, <3>1, <3>2, <3>3, <3>5
  <2> QED BY <2>2, <2>3
<1>4. q.rate = 0 => Charge(q) = 0
  BY DEF Charge
<1>5. q.rate > 0 => Charge(q) = share + MaxOf(env.minQuote, NativeFloor(q.gas, q.rate))
  BY <1>1 DEF Charge
<1> HIDE DEF n, share
<1>6. /\ MaxOf(env.minQuote, NativeFloor(q.gas, q.rate)) \in Nat
      /\ MaxOf(env.minQuote, NativeFloor(q.gas, q.rate)) >= env.minQuote
      /\ MaxOf(env.minQuote, NativeFloor(q.gas, q.rate)) >= NativeFloor(q.gas, q.rate)
  BY <1>1, <1>2 DEF MaxOf
<1>7. Charge(q) \in Nat
  BY <1>1, <1>2, <1>4, <1>5, <1>6
<1>8. q.rate > 0 => /\ Charge(q) >= Whole(q.gas, q.rate)
                    /\ Charge(q) >= Converted(n, q.rate) + env.minQuote
  BY <1>1, <1>2, <1>3, <1>5, <1>6
<1> QED BY <1>7, <1>8 DEF n

\* The minimum output repays what the quote owes and, without a subsidy, its charge.
LEMMA MinOutCovers ==
  ASSUME env \in Environments, NEW r \in Routes, NEW q \in QuoteType
  PROVE  /\ MinOut(r, q) \in Int /\ MinOut(r, q) >= q.due
         /\ ~env.subsidy => MinOut(r, q) >= q.due + Charge(q)
<1>1. /\ q.amount \in Nat /\ q.due \in Nat /\ Charge(q) \in Nat /\ Slip \in Nat
      /\ q.base \in DOMAIN Course /\ env.subsidy \in BOOLEAN
  BY QuoteNumbers, EnvTyped, ChargeCovers, ApprovalAssumption
<1>2. Market(r, q) \in Nat
  <2>1. \A due \in Nat : MarketFloor(due) \in Nat
    <3>1. FactorDen \in Nat /\ FactorNum \in 1 .. FactorDen
      BY ApprovalAssumption
    <3>2. \A due \in Nat : due * FactorDen \in Nat
      BY <3>1
    <3> QED BY <3>1, <3>2, CeilDivBounds DEF MarketFloor
  <2>2. Due(Size(r, q.base), Course[q.base].price) \in Nat
    BY <1>1, SizeTyped, FactsTyped, DueTyped
  <2> QED BY <1>1, <2>1, <2>2 DEF Market
<1>3. Required(r, q) \in Nat /\ Required(r, q) >= q.due + Charge(q)
  BY <1>1, <1>2 DEF Required, MaxOf
<1> QED BY <1>1, <1>3 DEF MinOut, MaxOf

LEMMA EasedUnpriced ==
  ASSUME env \in Environments, eased => Eligible, NEW r \in Routes, Eased(r)
  PROVE  ~Priced(r)
BY EnvTyped DEF Eased, Eligible, Priced

\* What the invariant says of a route that was handed over is what is claimed for it.
LEMMA InvCovers == ApprovalInv => SentCoversCosts
<1> SUFFICES ASSUME ApprovalInv, stage = "sent" PROVE
      /\ Route = "direct" \/ (SizeHeld(Route) /\ PriceHeld(Route)) => DueCovered(Route)
      /\ ~env.subsidy /\ Priced(Route) /\ SizeHeld(Route) => CostsCovered(Route)
  BY DEF SentCoversCosts
<1> DEFINE r == Route
           q == quote[r]
           price == Course[facts].price
           owed == Due(Size(r, facts), price)
           anew == Due(Size(r, q.base), price)
           first == Due(Size(r, q.base), Course[q.base].price)
<1>1. /\ env \in Environments /\ facts \in DOMAIN Course /\ r \in Routes
      /\ idx \in DOMAIN plan /\ (eased => Eligible)
  BY DEF ApprovalInv, DataOK, ApprovalTypeOK, PlanOK, Engaged, Route, Routes
<1>2. q \in QuoteType
  BY <1>1 DEF ApprovalInv, DataOK, ApprovalTypeOK, QuoteType
<1>3. Owed(r) /\ (r = "direct" => Repays(r))
  BY <1>1 DEF ApprovalInv, RouteOK, Engaged, Current, Route
<1>4. /\ q.base \in DOMAIN Course /\ q.due \in Nat /\ q.gas \in Nat /\ q.rate \in Nat
      /\ price \in Nat /\ Course[q.base].price \in Nat /\ Wad \in Nat \ {0}
      /\ Size(r, facts) \in Nat /\ Size(r, q.base) \in Nat
  BY <1>1, <1>2, QuoteNumbers, FactsTyped, SizeTyped, ApprovalAssumption
<1>5. /\ MinOut(r, q) \in Int /\ MinOut(r, q) >= q.due
      /\ ~env.subsidy => MinOut(r, q) >= q.due + Charge(q)
  BY <1>1, <1>2, MinOutCovers
<1>6. owed \in Nat /\ owed * Wad >= Size(r, facts) * price /\ anew \in Nat /\ first \in Nat
  BY <1>4, DueTyped
<1>7. SizeHeld(r) => owed <= anew
  <2>1. SizeHeld(r) => Size(r, facts) \in 0 .. Size(r, q.base)
    BY <1>4 DEF SizeHeld
  <2> QED BY <1>4, <2>1, DueMonotone
<1>8. SizeHeld(r) /\ PriceHeld(r) => owed <= first
  <2>1. SizeHeld(r) => Size(r, facts) \in 0 .. Size(r, q.base)
    BY <1>4 DEF SizeHeld
  <2>2. PriceHeld(r) => price \in 0 .. Course[q.base].price
    BY <1>4 DEF PriceHeld
  <2> QED BY <1>4, <2>1, <2>2, DueMonotone
<1>9. MinOut(r, q) >= owed => DueCovered(r)
  <2> DEFINE out == MinOut(r, q)
  <2>1. out \in Int BY <1>5
  <2> HIDE DEF out, owed
  <2>2. out >= owed => out * Wad >= owed * Wad
    BY <2>1, <1>4, <1>6
  <2>3. Size(r, facts) * price \in Nat
    BY <1>4
  <2>4. out >= owed => out * Wad >= Size(r, facts) * price
    BY <2>1, <2>2, <2>3, <1>4, <1>6
  <2> QED BY <2>4 DEF out, DueCovered
<1>10. r = "direct" => MinOut(r, q) >= owed
  BY <1>3 DEF Repays
<1>11. ~Eased(r) => q.due \in {anew, first} /\ (Priced(r) => q.rate > 0 /\ q.due = anew)
  BY <1>3 DEF Owed
<1>12. r = "direct" \/ (SizeHeld(r) /\ PriceHeld(r)) => MinOut(r, q) >= owed
  <2>1. r # "direct" => ~Eased(r)
    BY DEF Eased
  <2> HIDE DEF owed, anew, first, price
  <2> QED BY <1>4, <1>5, <1>6, <1>7, <1>8, <1>10, <1>11, <2>1
<1>13. ~env.subsidy /\ Priced(r) /\ SizeHeld(r) => CostsCovered(r)
  <2> SUFFICES ASSUME ~env.subsidy, Priced(r), SizeHeld(r) PROVE CostsCovered(r)
    OBVIOUS
  <2>1. ~Eased(r)
    BY <1>1, EasedUnpriced
  <2>2. q.rate > 0 /\ q.due = anew
    BY <1>11, <2>1
  <2>3. /\ Charge(q) \in Nat /\ Charge(q) >= Whole(q.gas, q.rate)
        /\ Charge(q) >= Converted(Native(q.gas), q.rate) + env.minQuote
    BY <1>1, <1>2, <2>2, ChargeCovers
  <2>4. MinOut(r, q) - owed >= Charge(q)
    <3> HIDE DEF owed, anew, first, price
    <3> QED BY <1>5, <1>6, <1>7, <2>2, <2>3
  <2>5. /\ Whole(q.gas, q.rate) \in Nat
        /\ Converted(Native(q.gas), q.rate) + env.minQuote \in Nat
    <3>1. env.minQuote \in Nat
      BY <1>1, EnvTyped
    <3>2. Whole(q.gas, q.rate) \in Nat /\ Native(q.gas) \in Nat
      BY <1>1, <1>4, CostTyped
    <3>3. Converted(Native(q.gas), q.rate) \in Nat
      BY <1>4, <3>2, ConvertedTyped
    <3> QED BY <3>1, <3>2, <3>3
  <2>6. MinOut(r, q) - owed \in Int
    BY <1>5, <1>6
  <2>7. /\ MinOut(r, q) - owed >= Whole(q.gas, q.rate)
        /\ MinOut(r, q) - owed >= Converted(Native(q.gas), q.rate) + env.minQuote
    <3> HIDE DEF owed
    <3> QED BY <2>3, <2>4, <2>5, <2>6
  <2> QED BY <2>7 DEF CostsCovered
<1> QED BY <1>9, <1>12, <1>13 DEF r

-----------------------------------------------------------------------------
\* The cache.

EntryType ==
  [rate : Rates \cup {0}, own : BOOLEAN, age : 0 .. Long + 1, real : 0 .. Long + 1,
   older : SUBSET Keys]
CacheType == [Keys -> EntryType]

LEMMA MissingTyped == Missing \in EntryType /\ Missing.rate = 0
<1>1. Long \in Nat
  BY ApprovalAssumption
<1> QED BY <1>1 DEF Missing, EntryType

\* A new entry.
EntryOf(rate, own) == [Missing EXCEPT !.rate = rate, !.own = own]

LEMMA EntryTyped ==
  ASSUME NEW rate \in Rates \cup {0}, NEW own \in BOOLEAN
  PROVE  EntryOf(rate, own) \in EntryType /\ EntryOf(rate, own).real = EntryOf(rate, own).age
<1>1. \A e \in EntryType :
        LET new == [e EXCEPT !.rate = rate, !.own = own] IN
        new \in EntryType /\ new.real = e.real /\ new.age = e.age
  BY DEF EntryType
<1>2. Missing \in EntryType /\ Missing.real = Missing.age
  BY MissingTyped DEF Missing
<1> QED BY <1>1, <1>2 DEF EntryOf

LEMMA ErasedKeeps ==
  ASSUME NEW map \in CacheType, NEW gone
  PROVE  Erased(map, gone) \in CacheType /\ (Dated(map) => Dated(Erased(map, gone)))
<1> DEFINE new(k) == IF k \in gone \/ map[k].rate = 0 THEN Missing
                     ELSE [map[k] EXCEPT !.older = @ \ gone]
<1>1. \A k \in Keys : map[k] \in EntryType
  BY DEF CacheType
<1>2. \A k \in Keys : [map[k] EXCEPT !.older = @ \ gone] \in EntryType
  BY <1>1 DEF EntryType
<1>3. \A k \in Keys : new(k) \in EntryType
  BY <1>2, MissingTyped
<1>4. Dated(map) => \A k \in Keys : new(k).rate > 0 => new(k).real = new(k).age
  BY <1>1, MissingTyped DEF Dated, EntryType
<1>5. Erased(map, gone) = [k \in Keys |-> new(k)]
  BY DEF Erased
<1> HIDE DEF new
<1> QED BY <1>3, <1>4, <1>5 DEF CacheType, Dated

LEMMA LastKeeps ==
  ASSUME NEW map \in CacheType, NEW key \in Keys, NEW e \in EntryType
  PROVE  /\ Last(map, key, e) \in CacheType
         /\ Dated(map) /\ (e.rate > 0 => e.real = e.age) => Dated(Last(map, key, e))
<1> DEFINE others == Erased(map, {key})
           entry == [e EXCEPT !.older = Live(others)]
<1>1. others \in CacheType /\ (Dated(map) => Dated(others))
  BY ErasedKeeps
<1>2. entry \in EntryType /\ entry.rate = e.rate /\ entry.real = e.real /\ entry.age = e.age
  BY DEF EntryType, Live
<1>3. Last(map, key, e) = IF e.rate = 0 THEN others ELSE [others EXCEPT ![key] = entry]
  BY DEF Last
<1> HIDE DEF others, entry
<1> QED BY <1>1, <1>2, <1>3 DEF CacheType, Dated

LEMMA TouchedKeeps ==
  ASSUME cache \in CacheType, Dated(cache), NEW r \in Routes, NEW price \in GasPrices,
         NEW e \in EntryType, e.rate > 0 => e.real = e.age
  PROVE  /\ Touched(r, price, e) \in CacheType /\ Dated(Touched(r, price, e))
         /\ Stored(r, price, e) \in CacheType /\ Dated(Stored(r, price, e))
<1> DEFINE map == Last(Kept, <<r, price>>, e)
<1>1. Kept \in CacheType /\ Dated(Kept)
  BY ErasedKeeps DEF Kept
<1>2. map \in CacheType /\ Dated(map)
  BY <1>1, LastKeeps DEF Keys
<1>3. Touched(r, price, e) = map
  BY DEF Touched
<1>4. Stored(r, price, e) = IF Cardinality(Live(map)) <= MaxEntries THEN map
                            ELSE Erased(map, {k \in Live(map) : map[k].older = {}})
  BY DEF Stored
<1> HIDE DEF map
<1>5. /\ Erased(map, {k \in Live(map) : map[k].older = {}}) \in CacheType
      /\ Dated(Erased(map, {k \in Live(map) : map[k].older = {}}))
  BY <1>2, ErasedKeeps
<1> QED BY <1>2, <1>3, <1>4, <1>5

\* An entry that serves is within its time to live.
LEMMA CachedServes ==
  ASSUME cache \in CacheType, Dated(cache), NEW r \in Routes, NEW price \in GasPrices
  PROVE  LET hit == Cached(r, price) IN
         /\ hit \in EntryType
         /\ hit.rate > 0 => hit.real = hit.age /\ hit.real <= Limit(hit)
<1>1. <<r, price>> \in Keys /\ cache[<<r, price>>] \in EntryType
  BY DEF Keys, CacheType
<1>2. cache[<<r, price>>].rate > 0 => cache[<<r, price>>].real = cache[<<r, price>>].age
  BY <1>1 DEF Dated
<1>3. CASE cache[<<r, price>>].age <= Limit(cache[<<r, price>>])
  BY <1>1, <1>2, <1>3 DEF Cached
<1>4. CASE ~(cache[<<r, price>>].age <= Limit(cache[<<r, price>>]))
  BY <1>4, MissingTyped DEF Cached
<1> QED BY <1>3, <1>4

-----------------------------------------------------------------------------
\* What the steps of a route do to its quote and its job.

JobSteps == {"off", "quote", "enter", "waiting", "price", "ask", "approved", "rejected",
             "norate", "thrown"}
Whys == {"context", "probe", "fallback", "approve", "last", "candidate"}
JobType == [step : JobSteps, why : Whys, gas : GasPrices \cup {0}, left : 0 .. 2]

\* Changing the fields of a job or of a quote.
JobWith(j, step, price, left) == [j EXCEPT !.step = step, !.gas = price, !.left = left]
QuoteWith(q, price, wei, rate, recent, stamp) ==
  [q EXCEPT !.gas = price, !.rate = rate, !.recent = recent, !.wei = wei, !.stamp = stamp]
DueWith(q, due) == [q EXCEPT !.due = due]

LEMMA JobChange ==
  ASSUME NEW j \in JobType, NEW step \in JobSteps, NEW price \in GasPrices \cup {0},
         NEW left \in 0 .. 2
  PROVE  /\ JobWith(j, step, price, left) \in JobType
         /\ JobWith(j, step, price, left).step = step
         /\ JobWith(j, step, price, left).why = j.why
         /\ JobWith(j, step, price, left).gas = price
BY DEF JobType, JobWith

LEMMA JobEnds ==
  ASSUME job \in [Routes -> JobType], NEW r \in Routes, NEW step \in JobSteps
  PROVE  /\ JobWith(job[r], step, 0, 0) \in JobType
         /\ JobWith(job[r], step, 0, 0).step = step
         /\ JobWith(job[r], step, 0, 0).why = job[r].why
<1>1. job[r] \in JobType /\ 0 \in GasPrices \cup {0} /\ 0 \in 0 .. 2
  OBVIOUS
<1> QED BY <1>1, JobChange

LEMMA DueChange ==
  ASSUME NEW q \in QuoteType, NEW due \in Nat
  PROVE  LET new == DueWith(q, due)
         IN /\ new \in QuoteType /\ new.at = q.at /\ new.base = q.base /\ new.due = due
            /\ new.rate = q.rate /\ new.recent = q.recent
BY DEF QuoteType, DueWith

LEMMA JobAtTyped ==
  ASSUME NEW step \in JobSteps, NEW why \in Whys
  PROVE  /\ JobAt(step, why) \in JobType /\ JobAt(step, why).step = step
         /\ JobAt(step, why).why = why
BY DEF JobType, JobAt

\* Another route, the plan and the facts are left alone.
Alone(r) ==
  /\ UNCHANGED <<env, world, flow, since, gas>>
  /\ \A s \in Routes : s # r => quote'[s] = quote[s] /\ job'[s] = job[s]

\* What the quote speaks of and owes stays.
SameDebt(r) ==
  /\ quote'[r].at = quote[r].at /\ quote'[r].base = quote[r].base
  /\ quote'[r].due = quote[r].due

\* The policy approved the quote for a rate.
Passed(r) ==
  /\ job[r].step \in {"price", "ask"} /\ job[r].why # "context"
  /\ job'[r].step = "approved"
  /\ quote'[r].at = quote[r].at /\ quote'[r].base = quote[r].base
  /\ \/ /\ quote'[r].rate > 0 \/ Eased(r)
        /\ quote'[r].due = Due(Size(r, quote[r].at), Course[facts].price)
     \/ quote'[r].rate = 0 /\ ~Eased(r) /\ quote'[r].due = quote[r].due

LEMMA NoQuoteTyped == NoQuote \in QuoteType /\ NoQuote.recent
<1>1. 1 \in DOMAIN Course /\ Ttl \in Nat
  BY ApprovalAssumption
<1> QED BY <1>1 DEF NoQuote, QuoteType

LEMMA DropEffect ==
  ASSUME quote \in [Routes -> QuoteType], job \in [Routes -> JobType], NEW r \in Routes,
         NEW result \in {"rejected", "norate"}, Drop(r, result)
  PROVE  /\ quote' \in [Routes -> QuoteType] /\ job' \in [Routes -> JobType]
         /\ quote'[r].recent /\ job'[r].step = result /\ job'[r].why = job[r].why
         /\ \A s \in Routes : s # r => quote'[s] = quote[s] /\ job'[s] = job[s]
<1>1. quote' = [quote EXCEPT ![r] = NoQuote]
  BY DEF Drop
<1>2. job' = [job EXCEPT ![r] = [@ EXCEPT !.step = result, !.gas = 0, !.left = 0]]
  BY DEF Drop, End
<1>4. result \in JobSteps
  BY DEF JobSteps
<1> DEFINE new == JobWith(job[r], result, 0, 0)
<1>6. new \in JobType /\ new.step = result /\ new.why = job[r].why
  BY <1>4, JobEnds
<1>7. job' = [job EXCEPT ![r] = new]
  BY <1>2 DEF JobWith
<1> HIDE DEF new
<1> QED BY <1>1, <1>6, <1>7, NoQuoteTyped

LEMMA DecideEffect ==
  ASSUME quote \in [Routes -> QuoteType], job \in [Routes -> JobType],
         facts \in DOMAIN Course, NEW r \in Routes, job[r].step \in {"price", "ask"},
         gas.price \in GasPrices \cup {0}, NEW price \in GasPrices, NEW rate \in Rates \cup {0},
         NEW recent \in BOOLEAN, Decide(r, price, rate, recent)
  PROVE  /\ quote' \in [Routes -> QuoteType] /\ job' \in [Routes -> JobType]
         /\ \A s \in Routes : s # r => quote'[s] = quote[s] /\ job'[s] = job[s]
         /\ job'[r].why = job[r].why /\ (recent => quote'[r].recent)
         /\ \/ job'[r].step = "rejected"
            \/ job[r].why = "context" /\ job'[r].step = "quote"
            \/ Passed(r) /\ quote'[r].rate = rate
<1> DEFINE kept == job[r].step = "ask" /\ job[r].why = "context"
           q == [quote[r] EXCEPT !.gas = price, !.rate = rate, !.recent = recent,
                                 !.wei = IF job[r].why = "context" THEN gas.price ELSE price,
                                 !.stamp = IF kept THEN @ ELSE 0]
           due == Due(Size(r, q.at), Course[facts].price)
           new == [q EXCEPT !.due = due]
           ended == JobWith(job[r], "approved", 0, 0)
<1>1. quote[r] \in QuoteType /\ Ttl \in Nat
  BY ApprovalAssumption
<1>2. (IF kept THEN quote[r].stamp ELSE 0) \in -1 .. Ttl + 1
  BY <1>1 DEF QuoteType
<1>3. due \in Nat
  <2>1. q.at \in DOMAIN Course
    BY <1>1 DEF QuoteType
  <2> QED BY <2>1, SizeTyped, FactsTyped, DueTyped
<1>4. /\ q \in QuoteType /\ q.at = quote[r].at /\ q.base = quote[r].base
      /\ q.due = quote[r].due /\ q.rate = rate /\ q.recent = recent
      /\ new \in QuoteType /\ new.at = quote[r].at /\ new.base = quote[r].base
      /\ new.rate = rate /\ new.recent = recent /\ new.due = due
  <2> DEFINE stamp == IF kept THEN quote[r].stamp ELSE 0
             wei == IF job[r].why = "context" THEN gas.price ELSE price
  <2>1. stamp \in -1 .. Ttl + 1 /\ wei \in GasPrices \cup {0}
    BY <1>2
  <2>2. q = [quote[r] EXCEPT !.gas = price, !.rate = rate, !.recent = recent, !.wei = wei,
                             !.stamp = stamp]
    OBVIOUS
  <2>3. q = QuoteWith(quote[r], price, wei, rate, recent, stamp) /\ new = DueWith(q, due)
    BY <2>2 DEF QuoteWith, DueWith
  <2> HIDE DEF q, new, stamp, wei, due, kept
  <2>4. /\ q \in QuoteType /\ q.at = quote[r].at /\ q.base = quote[r].base
        /\ q.due = quote[r].due /\ q.rate = rate /\ q.recent = recent
    <3> DEFINE changed == QuoteWith(quote[r], price, wei, rate, recent, stamp)
    <3>1. /\ changed \in QuoteType /\ changed.at = quote[r].at /\ changed.base = quote[r].base
          /\ changed.due = quote[r].due /\ changed.rate = rate /\ changed.recent = recent
      BY <1>1, <2>1 DEF QuoteType, QuoteWith
    <3> HIDE DEF changed
    <3>2. q = changed
      BY <2>3 DEF changed
    <3> QED BY <3>1, <3>2
  <2> QED BY <1>3, <2>3, <2>4, DueChange
<1>5. /\ ended \in JobType /\ ended.step = "approved" /\ ended.why = job[r].why
      /\ JobAt("quote", "context") \in JobType
      /\ JobAt("quote", "context").step = "quote" /\ JobAt("quote", "context").why = "context"
  <2>1. "approved" \in JobSteps /\ "quote" \in JobSteps /\ "context" \in Whys
    BY DEF JobSteps, Whys
  <2>2. ended \in JobType /\ ended.step = "approved" /\ ended.why = job[r].why
    BY <2>1, JobEnds
  <2> HIDE DEF ended
  <2>3. /\ JobAt("quote", "context") \in JobType
        /\ JobAt("quote", "context").step = "quote" /\ JobAt("quote", "context").why = "context"
    BY <2>1, JobAtTyped
  <2> QED BY <2>2, <2>3
<1>6. \/ Reject(r)
      \/ /\ job[r].why = "context" /\ quote' = [quote EXCEPT ![r] = q]
         /\ job' = [job EXCEPT ![r] = JobAt("quote", "context")]
      \/ /\ job[r].why # "context" /\ rate = 0 /\ ~Eased(r)
         /\ quote' = [quote EXCEPT ![r] = q] /\ End(r, "approved")
      \/ /\ job[r].why # "context" /\ (rate # 0 \/ Eased(r))
         /\ quote' = [quote EXCEPT ![r] = new] /\ End(r, "approved")
  BY DEF Decide
<1>7. End(r, "approved") => job' = [job EXCEPT ![r] = ended]
  BY DEF End, JobWith
<1>12. due = Due(Size(r, quote[r].at), Course[facts].price)
  BY <1>4
<1> HIDE DEF q, new, ended, kept, due
<1>8. CASE Reject(r)
  BY <1>8, DropEffect DEF Reject
<1>9. CASE /\ job[r].why = "context" /\ quote' = [quote EXCEPT ![r] = q]
           /\ job' = [job EXCEPT ![r] = JobAt("quote", "context")]
  BY <1>4, <1>5, <1>9
<1>10. CASE /\ job[r].why # "context" /\ rate = 0 /\ ~Eased(r)
            /\ quote' = [quote EXCEPT ![r] = q] /\ End(r, "approved")
  BY <1>4, <1>5, <1>7, <1>10 DEF Passed
<1>11. CASE /\ job[r].why # "context" /\ (rate # 0 \/ Eased(r))
            /\ quote' = [quote EXCEPT ![r] = new] /\ End(r, "approved")
  <2>1. rate # 0 => rate > 0
    <3>1. Rates \subseteq Nat \ {0} BY ApprovalAssumption
    <3> QED BY <3>1
  <2> QED BY <1>4, <1>5, <1>7, <1>11, <1>12, <2>1 DEF Passed
<1> QED BY <1>6, <1>8, <1>9, <1>10, <1>11

-----------------------------------------------------------------------------
\* The types, taken apart.

Plans == {<<>>, <<"direct">>, <<"aggregator">>, <<"direct", "aggregator">>,
          <<"aggregator", "direct">>}
Stages == {"idle", "probe", "fallback", "approve", "revalidate", "last", "refresh",
           "candidate", "execute", "sent", "ended"}

FlowTyped ==
  /\ env \in Environments /\ world \in DOMAIN Course /\ facts \in DOMAIN Course
  /\ stage \in Stages /\ plan \in Plans
  /\ idx \in 0 .. 2 /\ (stage = "execute" => idx \in DOMAIN plan)
  /\ eased \in BOOLEAN /\ since \in BOOLEAN
GasType == [price : GasPrices \cup {0}, age : 0 .. Ttl + 1]

LEMMA TypeParts ==
  ApprovalTypeOK <=> /\ FlowTyped /\ gas \in GasType /\ asking \in BOOLEAN
                     /\ cache \in CacheType
                     /\ quote \in [Routes -> QuoteType] /\ job \in [Routes -> JobType]
BY DEF ApprovalTypeOK, FlowTyped, GasType, Plans, Stages, CacheType, EntryType, QuoteType,
  JobType, JobSteps, Whys

LEMMA TypePartsNext ==
  ApprovalTypeOK' <=> /\ FlowTyped' /\ gas' \in GasType /\ asking' \in BOOLEAN
                      /\ cache' \in CacheType
                      /\ quote' \in [Routes -> QuoteType] /\ job' \in [Routes -> JobType]
BY DEF ApprovalTypeOK, FlowTyped, GasType, Plans, Stages, CacheType, EntryType, QuoteType,
  JobType, JobSteps, Whys

\* What a step of one route has to keep for the data to stay in order.
LEMMA DataKept ==
  ASSUME DataOK, NEW r \in Routes, Alone(r),
         quote' \in [Routes -> QuoteType], job' \in [Routes -> JobType],
         cache' \in CacheType, Dated(cache'), asking' \in BOOLEAN, quote'[r].recent,
         job'[r].step = "price" => gas.price \in GasPrices,
         job'[r].step = "ask" => job'[r].gas \in GasPrices
  PROVE  DataOK'
<1>1. ApprovalTypeOK'
  <2>1. FlowTyped /\ gas \in GasType
    BY TypeParts DEF DataOK
  <2>2. FlowTyped' /\ gas' \in GasType
    BY <2>1 DEF FlowTyped, Alone, flow
  <2> QED BY <2>2, TypePartsNext
<1>2. PriceKnown'
  <2>1. PriceKnown /\ gas' = gas
    BY DEF DataOK, Alone
  <2> QED BY <2>1 DEF PriceKnown, Alone
<1>3. RateIsRecent'
  BY DEF DataOK, RateIsRecent, Alone
<1>4. Dated(cache)'
  BY DEF Dated
<1> QED BY <1>1, <1>2, <1>3, <1>4 DEF DataOK

\* A step of a route.
RouteMove(r) ==
  /\ Busy(r)
  /\ \/ job'[r].step \in {"rejected", "norate"} /\ job'[r].why = job[r].why
     \/ /\ job[r].step = "quote" /\ job'[r].step = "enter"
        /\ job'[r].why = (IF job[r].why = "context" THEN "probe" ELSE job[r].why)
        /\ quote'[r].at = facts /\ quote'[r].base = facts
        /\ quote'[r].due = Due(Size(r, facts), Course[facts].price)
     \/ /\ job[r].step = "enter" /\ quote'[r] = quote[r] /\ job'[r].why = job[r].why
        /\ job'[r].step = "waiting" \/ (job'[r].step = "price" /\ ~Forced(job[r].why))
     \/ /\ job[r].step \in {"enter", "price"} /\ job'[r].step = "approved"
        /\ quote'[r] = quote[r] /\ job'[r].why = job[r].why
        /\ job[r].why # "context" /\ ~Forced(job[r].why)
     \/ /\ job[r].step \in {"price", "ask"} /\ job'[r].step = "ask"
        /\ SameDebt(r) /\ job'[r].why = job[r].why
     \/ /\ job[r].step \in {"price", "ask"} /\ job'[r].step = "quote"
        /\ job[r].why = "context" /\ job'[r].why = "context"
     \/ Passed(r) /\ (Priced(r) => quote'[r].rate > 0) /\ job'[r].why = job[r].why

LEMMA QuoteDoes ==
  ASSUME DataOK, NEW r \in Routes, Quote(r)
  PROVE  Alone(r) /\ DataOK' /\ RouteMove(r)
<1>1. /\ quote \in [Routes -> QuoteType] /\ job \in [Routes -> JobType] /\ facts \in DOMAIN Course
      /\ cache \in CacheType /\ asking \in BOOLEAN /\ Dated(cache)
  BY TypeParts DEF DataOK, FlowTyped
<1>2. /\ job[r].step = "quote" /\ UNCHANGED <<env, world, flow, since, gas, cache, asking>>
  BY DEF Quote, shared, flow
<1>3. CASE Reject(r)
  <2>1. /\ quote' \in [Routes -> QuoteType] /\ job' \in [Routes -> JobType]
        /\ quote'[r].recent /\ job'[r].step = "rejected" /\ job'[r].why = job[r].why
        /\ \A s \in Routes : s # r => quote'[s] = quote[s] /\ job'[s] = job[s]
    BY <1>1, <1>3, DropEffect DEF Reject
  <2>2. Alone(r)
    BY <1>2, <2>1 DEF Alone
  <2>3. DataOK'
    BY <1>1, <1>2, <2>1, <2>2, DataKept
  <2> QED BY <1>2, <2>1, <2>2, <2>3 DEF RouteMove, Busy
<1>4. CASE \E a \in Amounts :
             /\ quote' = [quote EXCEPT ![r] = Judged(r, a)]
             /\ job' = [job EXCEPT ![r].step = "enter",
                                   ![r].why = IF @ = "context" THEN "probe" ELSE @]
  <2>1. PICK a \in Amounts :
             /\ quote' = [quote EXCEPT ![r] = Judged(r, a)]
             /\ job' = [job EXCEPT ![r].step = "enter",
                                   ![r].why = IF @ = "context" THEN "probe" ELSE @]
    BY <1>4
  <2>2. Due(Size(r, facts), Course[facts].price) \in Nat
    BY <1>1, SizeTyped, FactsTyped, DueTyped
  <2>3. /\ Judged(r, a) \in QuoteType /\ Judged(r, a).at = facts /\ Judged(r, a).base = facts
        /\ Judged(r, a).due = Due(Size(r, facts), Course[facts].price)
        /\ Judged(r, a).recent = quote[r].recent
    BY <1>1, <2>2 DEF Judged, QuoteType
  <2>4. /\ job'[r] \in JobType /\ job'[r].step = "enter"
        /\ job'[r].why = (IF job[r].why = "context" THEN "probe" ELSE job[r].why)
        /\ job' \in [Routes -> JobType]
        /\ \A s \in Routes : s # r => job'[s] = job[s]
    BY <1>1, <2>1 DEF JobType, JobSteps, Whys
  <2>5. /\ quote' \in [Routes -> QuoteType] /\ quote'[r] = Judged(r, a)
        /\ \A s \in Routes : s # r => quote'[s] = quote[s]
    BY <1>1, <2>1, <2>3
  <2>6. quote'[r].recent
    BY <2>3, <2>5 DEF DataOK, RateIsRecent
  <2>7. Alone(r)
    BY <1>2, <2>4, <2>5 DEF Alone
  <2>8. DataOK'
    BY <1>1, <1>2, <2>4, <2>5, <2>6, <2>7, DataKept
  <2> QED BY <1>2, <2>3, <2>4, <2>5, <2>7, <2>8 DEF RouteMove, Busy
<1> QED BY <1>3, <1>4 DEF Quote

LEMMA EnterDoes ==
  ASSUME DataOK, NEW r \in Routes, Enter(r)
  PROVE  Alone(r) /\ DataOK' /\ RouteMove(r)
<1>1. /\ quote \in [Routes -> QuoteType] /\ job \in [Routes -> JobType]
      /\ cache \in CacheType /\ asking \in BOOLEAN /\ Dated(cache) /\ gas \in GasType
  BY TypeParts DEF DataOK
<1>2. /\ job[r].step = "enter" /\ UNCHANGED <<env, world, flow, since, gas, cache, quote>>
  BY DEF Enter, flow
<1>3. /\ asking' \in BOOLEAN /\ job' \in [Routes -> JobType]
      /\ \A s \in Routes : s # r => job'[s] = job[s]
      /\ job'[r].why = job[r].why
      /\ \/ job'[r].step = "approved" /\ Reusable(r)
         \/ job'[r].step = "waiting"
         \/ job'[r].step = "price" /\ ~NeedsGas(r)
  <2>1. CASE Reusable(r) /\ End(r, "approved") /\ UNCHANGED asking
    <3>1. "approved" \in JobSteps
      BY DEF JobSteps
    <3>2. job' = [job EXCEPT ![r] = JobWith(job[r], "approved", 0, 0)]
      BY <2>1 DEF End, JobWith
    <3> DEFINE new == JobWith(job[r], "approved", 0, 0)
    <3>3. new \in JobType /\ new.step = "approved" /\ new.why = job[r].why
      BY <1>1, <3>1, JobEnds
    <3> HIDE DEF new
    <3>4. job' = [job EXCEPT ![r] = new]
      BY <3>2 DEF new
    <3> QED BY <1>1, <2>1, <3>3, <3>4
  <2>2. CASE asking' = TRUE /\ job' = [job EXCEPT ![r].step = "waiting"]
    BY <1>1, <2>2 DEF JobType, JobSteps
  <2>3. CASE ~NeedsGas(r) /\ job' = [job EXCEPT ![r].step = "price"] /\ UNCHANGED asking
    BY <1>1, <2>3 DEF JobType, JobSteps
  <2> QED BY <2>1, <2>2, <2>3 DEF Enter
<1>4. job'[r].step = "price" => gas.price \in GasPrices /\ ~Forced(job[r].why)
  <2>1. ~NeedsGas(r) => gas.age <= Ttl /\ ~Forced(job[r].why)
    <3>1. gas.age \in Nat /\ Ttl \in Nat
      BY <1>1, ApprovalAssumption DEF GasType
    <3> QED BY <3>1 DEF NeedsGas
  <2> QED BY <1>3, <2>1 DEF DataOK, PriceKnown
<1>5. Alone(r)
  BY <1>2, <1>3 DEF Alone
<1>6. DataOK'
  <2>1. quote'[r].recent /\ Dated(cache') /\ cache' \in CacheType
    BY <1>1, <1>2 DEF DataOK, RateIsRecent
  <2>2. job'[r].step # "ask"
    BY <1>3
  <2> QED BY <1>1, <1>2, <1>3, <1>4, <1>5, <2>1, <2>2, DataKept
<1>7. Reusable(r) => job[r].why # "context" /\ ~Forced(job[r].why)
  BY DEF Reusable
<1> QED BY <1>2, <1>3, <1>4, <1>5, <1>6, <1>7 DEF RouteMove, Busy

\* What the policy decides, as a step of the route.
LEMMA DecideDoes ==
  ASSUME DataOK, NEW r \in Routes, job[r].step \in {"price", "ask"},
         NEW price \in GasPrices, NEW rate \in Rates \cup {0}, NEW recent, recent = TRUE,
         Priced(r) => rate > 0, Decide(r, price, rate, recent),
         UNCHANGED <<env, world, flow, since, gas, asking>>,
         cache' \in CacheType, Dated(cache')
  PROVE  Alone(r) /\ DataOK' /\ RouteMove(r)
<1>1. /\ quote \in [Routes -> QuoteType] /\ job \in [Routes -> JobType] /\ facts \in DOMAIN Course
      /\ asking \in BOOLEAN /\ gas.price \in GasPrices \cup {0}
  BY TypeParts DEF DataOK, FlowTyped, GasType
<1>2. /\ quote' \in [Routes -> QuoteType] /\ job' \in [Routes -> JobType]
      /\ \A s \in Routes : s # r => quote'[s] = quote[s] /\ job'[s] = job[s]
      /\ job'[r].why = job[r].why /\ quote'[r].recent
      /\ \/ job'[r].step = "rejected"
         \/ job[r].why = "context" /\ job'[r].step = "quote"
         \/ Passed(r) /\ quote'[r].rate = rate
  BY <1>1, DecideEffect
<1>3. Alone(r)
  BY <1>2 DEF Alone, flow
<1>4. DataOK'
  BY <1>1, <1>2, <1>3, DataKept DEF Passed
<1> QED BY <1>2, <1>3, <1>4 DEF RouteMove, Busy

LEMMA PriceDoes ==
  ASSUME DataOK, NEW r \in Routes, Price(r)
  PROVE  Alone(r) /\ DataOK' /\ RouteMove(r)
<1>1. /\ quote \in [Routes -> QuoteType] /\ job \in [Routes -> JobType]
      /\ cache \in CacheType /\ asking \in BOOLEAN /\ Dated(cache) /\ gas.price \in GasPrices
      /\ job[r].step = "price"
  BY TypeParts DEF DataOK, PriceKnown, Price
<1>2. UNCHANGED <<env, world, flow, since, gas, asking>>
  BY DEF Price, flow
<1>3. CASE Reusable(r) /\ End(r, "approved") /\ UNCHANGED <<cache, quote>>
  <2>1. "approved" \in JobSteps
    BY DEF JobSteps
  <2> DEFINE new == JobWith(job[r], "approved", 0, 0)
  <2>2. job' = [job EXCEPT ![r] = new]
    BY <1>3 DEF End, JobWith
  <2>3. new \in JobType /\ new.step = "approved" /\ new.why = job[r].why
    BY <1>1, <2>1, JobEnds
  <2> HIDE DEF new
  <2>4. /\ job' \in [Routes -> JobType] /\ job'[r].step = "approved" /\ job'[r].why = job[r].why
        /\ \A s \in Routes : s # r => job'[s] = job[s]
    BY <1>1, <2>2, <2>3
  <2>5. Alone(r)
    BY <1>2, <1>3, <2>4 DEF Alone
  <2>6. quote'[r].recent /\ Dated(cache') /\ cache' \in CacheType
    BY <1>1, <1>3 DEF DataOK, RateIsRecent
  <2>7. DataOK'
    BY <1>1, <1>2, <1>3, <2>4, <2>5, <2>6, DataKept
  <2>8. job[r].why # "context" /\ ~Forced(job[r].why)
    BY <1>3 DEF Reusable
  <2> QED BY <1>1, <1>3, <2>4, <2>5, <2>7, <2>8 DEF RouteMove, Busy
<1>4. CASE Reject(r) /\ UNCHANGED cache
  <2>1. /\ quote' \in [Routes -> QuoteType] /\ job' \in [Routes -> JobType]
        /\ quote'[r].recent /\ job'[r].step = "rejected" /\ job'[r].why = job[r].why
        /\ \A s \in Routes : s # r => quote'[s] = quote[s] /\ job'[s] = job[s]
    BY <1>1, <1>4, DropEffect DEF Reject
  <2>2. Alone(r)
    BY <1>2, <2>1 DEF Alone
  <2>3. Dated(cache') /\ cache' \in CacheType
    BY <1>1, <1>4
  <2>4. DataOK'
    BY <1>1, <1>2, <2>1, <2>2, <2>3, DataKept
  <2> QED BY <1>1, <2>1, <2>2, <2>4 DEF RouteMove, Busy
<1>5. CASE ~Priced(r) /\ Decide(r, gas.price, 0, TRUE) /\ UNCHANGED cache
  <2>1. Dated(cache') /\ cache' \in CacheType
    BY <1>1, <1>5
  <2> QED BY <1>1, <1>2, <1>5, <2>1, DecideDoes
<1>6. CASE Decide(r, gas.price, RateUnit, TRUE) /\ UNCHANGED cache
  <2>1. Dated(cache') /\ cache' \in CacheType
    BY <1>1, <1>6
  <2>2. RateUnit \in Rates \cup {0} /\ RateUnit > 0
    <3>1. RateUnit \in Rates /\ Rates \subseteq Nat \ {0} BY ApprovalAssumption
    <3> QED BY <3>1
  <2> QED BY <1>1, <1>2, <1>6, <2>1, <2>2, DecideDoes
<1> DEFINE hit == Cached(r, gas.price)
<1>7. hit \in EntryType /\ (hit.rate > 0 => hit.real = hit.age /\ hit.real <= Limit(hit))
  BY <1>1, CachedServes
<1> HIDE DEF hit
<1>8. Touched(r, gas.price, hit) \in CacheType /\ Dated(Touched(r, gas.price, hit))
  BY <1>1, <1>7, TouchedKeeps
<1>9. CASE /\ hit.rate > 0 /\ cache' = Touched(r, gas.price, hit)
           /\ Decide(r, gas.price, hit.rate, hit.real <= Limit(hit))
  <2>1. hit.rate \in Rates \cup {0} /\ (hit.real <= Limit(hit)) = TRUE
    BY <1>7, <1>9 DEF EntryType
  <2>2. Dated(cache') /\ cache' \in CacheType
    BY <1>8, <1>9
  <2>3. Decide(r, gas.price, hit.rate, TRUE)
    BY <1>9, <2>1
  <2> QED BY <1>1, <1>2, <1>9, <2>1, <2>2, <2>3, DecideDoes
<1>10. CASE /\ hit.rate = 0 /\ cache' = Touched(r, gas.price, hit)
            /\ job' = [job EXCEPT ![r] = [@ EXCEPT !.step = "ask", !.gas = gas.price, !.left = 2]]
            /\ quote' = IF job[r].why = "context" THEN [quote EXCEPT ![r].stamp = 0] ELSE quote
  <2>1. /\ job' \in [Routes -> JobType] /\ job'[r].step = "ask" /\ job'[r].why = job[r].why
        /\ job'[r].gas = gas.price /\ \A s \in Routes : s # r => job'[s] = job[s]
    <3>1. /\ job[r] \in JobType /\ "ask" \in JobSteps /\ gas.price \in GasPrices \cup {0}
          /\ 2 \in 0 .. 2
      BY <1>1 DEF JobSteps
    <3> DEFINE new == JobWith(job[r], "ask", gas.price, 2)
    <3>2. new \in JobType /\ new.step = "ask" /\ new.why = job[r].why /\ new.gas = gas.price
      BY <3>1, JobChange
    <3>3. job' = [job EXCEPT ![r] = new]
      BY <1>10 DEF JobWith
    <3> HIDE DEF new
    <3> QED BY <1>1, <3>2, <3>3
  <2>2. /\ quote' \in [Routes -> QuoteType] /\ quote'[r].recent = quote[r].recent /\ SameDebt(r)
        /\ \A s \in Routes : s # r => quote'[s] = quote[s]
    <3>1. Ttl \in Nat BY ApprovalAssumption
    <3> QED BY <1>1, <1>10, <3>1 DEF QuoteType, SameDebt
  <2>3. Alone(r)
    BY <1>2, <2>1, <2>2 DEF Alone
  <2>4. quote'[r].recent /\ Dated(cache') /\ cache' \in CacheType
    BY <1>8, <1>10, <2>2 DEF DataOK, RateIsRecent
  <2>5. DataOK'
    BY <1>1, <1>2, <2>1, <2>2, <2>3, <2>4, DataKept
  <2> QED BY <1>1, <2>1, <2>2, <2>3, <2>5 DEF RouteMove, Busy
<1> QED BY <1>3, <1>4, <1>5, <1>6, <1>9, <1>10 DEF Price, hit

LEMMA SourceAnswersDoes ==
  ASSUME DataOK, NEW r \in Routes, SourceAnswers(r)
  PROVE  Alone(r) /\ DataOK' /\ RouteMove(r)
<1>1. /\ cache \in CacheType /\ Dated(cache) /\ job[r].step = "ask" /\ job[r].gas \in GasPrices
      /\ env \in Environments
  BY TypeParts DEF DataOK, PriceKnown, SourceAnswers, FlowTyped
<1>2. PICK rate \in env.rates :
        /\ cache' = Stored(r, job[r].gas, [Missing EXCEPT !.rate = rate, !.own = job[r].left = 2])
        /\ Decide(r, job[r].gas, rate, TRUE)
  BY DEF SourceAnswers
<1>3. UNCHANGED <<env, world, flow, since, gas, asking>>
  BY DEF SourceAnswers, flow
<1>4. rate \in Rates \cup {0} /\ rate > 0
  <2>1. Rates \subseteq Nat \ {0} BY ApprovalAssumption
  <2> QED BY <1>1, <1>2, <2>1, EnvTyped
<1> DEFINE own == job[r].left = 2
           e == EntryOf(rate, own)
<1>5. e \in EntryType /\ e.real = e.age
  <2>1. own \in BOOLEAN
    OBVIOUS
  <2> HIDE DEF own
  <2> QED BY <1>4, <2>1, EntryTyped
<1> HIDE DEF e
<1>6. Stored(r, job[r].gas, e) \in CacheType /\ Dated(Stored(r, job[r].gas, e))
  BY <1>1, <1>5, TouchedKeeps
<1>7. cache' \in CacheType /\ Dated(cache')
  BY <1>2, <1>6 DEF e, EntryOf
<1> QED BY <1>1, <1>2, <1>3, <1>4, <1>7, DecideDoes

LEMMA DropDoes ==
  ASSUME DataOK, NEW r \in Routes, NEW result \in {"rejected", "norate"},
         Drop(r, result), Busy(r), UNCHANGED <<env, world, shared, flow, since>>
  PROVE  Alone(r) /\ DataOK' /\ RouteMove(r)
<1>1. /\ quote \in [Routes -> QuoteType] /\ job \in [Routes -> JobType]
      /\ cache \in CacheType /\ asking \in BOOLEAN /\ Dated(cache)
  BY TypeParts DEF DataOK
<1>2. /\ quote' \in [Routes -> QuoteType] /\ job' \in [Routes -> JobType]
      /\ quote'[r].recent /\ job'[r].step = result /\ job'[r].why = job[r].why
      /\ \A s \in Routes : s # r => quote'[s] = quote[s] /\ job'[s] = job[s]
  BY <1>1, DropEffect
<1>3. Alone(r)
  BY <1>2 DEF Alone, shared
<1>4. Dated(cache') /\ cache' \in CacheType /\ asking' \in BOOLEAN
  BY <1>1 DEF shared
<1>5. job'[r].step # "price" /\ job'[r].step # "ask"
  BY <1>2
<1>6. DataOK'
  BY <1>1, <1>2, <1>3, <1>4, <1>5, DataKept
<1> QED BY <1>2, <1>3, <1>6 DEF RouteMove

LEMMA SourceFailsDoes ==
  ASSUME DataOK, NEW r \in Routes, SourceFails(r)
  PROVE  Alone(r) /\ DataOK' /\ RouteMove(r)
<1>1. /\ quote \in [Routes -> QuoteType] /\ job \in [Routes -> JobType]
      /\ cache \in CacheType /\ asking \in BOOLEAN /\ Dated(cache)
      /\ job[r].step = "ask" /\ job[r].gas \in GasPrices
  BY TypeParts DEF DataOK, PriceKnown, SourceFails
<1>2. UNCHANGED <<env, world, shared, flow, since>>
  BY DEF SourceFails
<1>3. CASE Drop(r, "norate")
  BY <1>1, <1>2, <1>3, DropDoes DEF Busy
<1>4. CASE job[r].left > 1 /\ job' = [job EXCEPT ![r].left = @ - 1] /\ UNCHANGED quote
  <2>1. /\ job' \in [Routes -> JobType] /\ job'[r].step = "ask" /\ job'[r].why = job[r].why
        /\ job'[r].gas = job[r].gas /\ \A s \in Routes : s # r => job'[s] = job[s]
    BY <1>1, <1>4 DEF JobType, JobSteps
  <2>2. Alone(r)
    BY <1>2, <1>4, <2>1 DEF Alone, shared
  <2>3. Dated(cache') /\ cache' \in CacheType /\ asking' \in BOOLEAN /\ quote'[r].recent
    BY <1>1, <1>2, <1>4 DEF shared, DataOK, RateIsRecent
  <2>4. DataOK'
    BY <1>1, <1>4, <2>1, <2>2, <2>3, DataKept
  <2> QED BY <1>1, <1>4, <2>1, <2>2, <2>4 DEF RouteMove, Busy, SameDebt
<1> QED BY <1>3, <1>4 DEF SourceFails

LEMMA RouteStepDoes ==
  ASSUME DataOK, NEW r \in Routes, RouteStep(r) \/ ProbeTimeout(r)
  PROVE  Alone(r) /\ DataOK' /\ RouteMove(r)
<1>1. ProbeTimeout(r) => Alone(r) /\ DataOK' /\ RouteMove(r)
  <2> SUFFICES ASSUME ProbeTimeout(r) PROVE Alone(r) /\ DataOK' /\ RouteMove(r)
    OBVIOUS
  <2>1. job[r] \in JobType
    BY TypeParts DEF DataOK
  <2>2. Busy(r)
    BY <2>1 DEF ProbeTimeout, Busy, Ended, JobType, JobSteps
  <2>3. Drop(r, "rejected") /\ UNCHANGED <<env, world, shared, flow, since>>
    BY DEF ProbeTimeout, Reject
  <2> QED BY <2>2, <2>3, DropDoes
<1> QED BY <1>1, QuoteDoes, EnterDoes, PriceDoes, SourceAnswersDoes, SourceFailsDoes
     DEF RouteStep

-----------------------------------------------------------------------------
\* The plan and its routes.

\* The same numbers as before.
SameQuote(r) ==
  /\ SameDebt(r) /\ quote'[r].amount = quote[r].amount
  /\ quote'[r].gas = quote[r].gas /\ quote'[r].rate = quote[r].rate

\* A job that waited for the gas price has it now, or failed.
Heard(r) ==
  \/ job'[r] = job[r]
  \/ /\ job[r].step = "waiting" /\ job'[r].why = job[r].why
     /\ job'[r].step = "thrown" \/ (job'[r].step = "price" /\ since')

LEMMA MinOutKept ==
  ASSUME NEW r \in Routes, env' = env, SameQuote(r)
  PROVE  MinOut(r, quote[r])' = MinOut(r, quote[r])
BY DEF SameQuote, SameDebt, MinOut, Required, Market, Charge, GasShare, NativeFloor, Whole, Native

LEMMA RouteKept ==
  ASSUME NEW r \in Routes, RouteOK(r), UNCHANGED <<env, flow>>, SameQuote(r), Heard(r),
         since => since'
  PROVE  RouteOK(r)'
<1>1. UNCHANGED <<stage, facts, plan, idx, eased>>
  BY DEF flow
<1>2. Repays(r)' <=> Repays(r)
  BY <1>1, MinOutKept DEF Repays
<1>3. (Sound(r)' <=> Sound(r)) /\ (AsRead(r)' <=> AsRead(r)) /\ (Owed(r)' <=> Owed(r))
  BY <1>1 DEF Sound, AsRead, Owed, SameQuote, SameDebt, Eased, Priced, Floors
<1>4. /\ Busy(r)' => Busy(r)
      /\ Approved(r)' <=> Approved(r)
      /\ \A why : Begun(r, why) => Begun(r, why)'
  BY DEF Heard, Busy, Approved, Begun
<1>5. stage \in Probes => Quoted(r)'
  <2> SUFFICES ASSUME stage \in Probes PROVE Quoted(r)'
    OBVIOUS
  <2>1. Quoted(r)
    BY DEF RouteOK
  <2>2. Busy(r)' /\ job'[r].step # "quote" /\ job'[r].why # "context" =>
          Busy(r) /\ job[r].step # "quote" /\ job[r].why # "context"
    BY DEF Heard, Busy
  <2> QED BY <1>1, <1>3, <1>4, <2>1, <2>2 DEF Quoted
<1>6. stage \in Engaged /\ r = plan[idx] => Current(r)'
  <2> SUFFICES ASSUME stage \in Engaged, r = plan[idx] PROVE Current(r)'
    OBVIOUS
  <2>1. Current(r)
    BY DEF RouteOK
  <2>2. stage = "approve" => (Begun(r, "approve") /\ (Busy(r) \/ Approved(r) => AsRead(r)))'
    BY <1>1, <1>3, <1>4, <2>1 DEF Current
  <2>3. stage \in {"revalidate", "refresh"} => (~Busy(r) /\ Sound(r))'
    BY <1>1, <1>3, <1>4, <2>1 DEF Current
  <2>4. stage \in {"last", "candidate"} =>
          (/\ Begun(r, stage)
           /\ Busy(r) => Sound(r)
           /\ Approved(r) => Owed(r)
           /\ job[r].step \in {"price", "ask", "approved"} => since)'
    <3>1. stage \in {"last", "candidate"} => Begun(r, stage)'
      BY <1>1, <2>1 DEF Current, Heard, Begun
    <3>2. stage \in {"last", "candidate"} =>
            (job'[r].step \in {"price", "ask", "approved"} => since')
      BY <2>1 DEF Current, Heard
    <3> QED BY <1>1, <1>3, <1>4, <2>1, <3>1, <3>2 DEF Current
  <2>5. stage \in {"execute", "sent"} => (~Busy(r) /\ Owed(r) /\ since)'
    BY <1>1, <1>3, <1>4, <2>1 DEF Current
  <2>6. stage = "sent" /\ r = "direct" => Repays(r)'
    BY <1>2, <2>1 DEF Current
  <2> QED BY <1>1, <2>2, <2>3, <2>4, <2>5, <2>6 DEF Current
<1>7. stage \in Engaged =>
        \A i \in DOMAIN plan : i > idx /\ r = plan[i] => (~Busy(r) /\ Sound(r))'
  BY <1>3, <1>4 DEF RouteOK
<1> QED BY <1>1, <1>5, <1>6, <1>7 DEF RouteOK

\* A step of a route keeps what is claimed for it.
LEMMA RouteMoves ==
  ASSUME ApprovalInv, NEW r \in Routes, Alone(r), RouteMove(r)
  PROVE  RouteOK(r)'
<1>1. /\ UNCHANGED <<env, stage, facts, plan, idx, eased, since>> /\ RouteOK(r) /\ Busy(r)
      /\ job[r] \in JobType
  BY TypeParts DEF Alone, flow, RouteMove, ApprovalInv, DataOK
<1>2. (Priced(r)' <=> Priced(r)) /\ (Eased(r)' <=> Eased(r))
  BY <1>1 DEF Priced, Eased, Floors
<1>3. stage \in Probes => Quoted(r)'
  <2> SUFFICES ASSUME stage \in Probes PROVE Quoted(r)'
    OBVIOUS
  <2>1. Quoted(r)
    BY <1>1 DEF RouteOK
  <2>2. r = "aggregator" => stage # "fallback"
    BY <1>1, <2>1 DEF Quoted
  <2>3. Busy(r) /\ job[r].step # "quote" /\ job[r].why # "context" => AsRead(r)
    BY <2>1 DEF Quoted
  <2>4. Approved(r)' \/ (Busy(r)' /\ job'[r].step # "quote" /\ job'[r].why # "context")
          => AsRead(r)'
    BY <1>1, <2>3 DEF RouteMove, Passed, SameDebt, AsRead, Busy, Approved
  <2> QED BY <1>1, <2>2, <2>4 DEF Quoted
<1>4. stage \in Engaged /\ r = plan[idx] => Current(r)'
  <2> SUFFICES ASSUME stage \in Engaged, r = plan[idx] PROVE Current(r)'
    OBVIOUS
  <2>1. Current(r)
    BY <1>1 DEF RouteOK
  <2>2. stage \in {"approve", "last", "candidate"}
    BY <1>1, <2>1 DEF Current, Engaged
  <2>3. CASE stage = "approve"
    <3>1. job[r].why = "approve" /\ job[r].step # "quote" /\ AsRead(r)
      BY <1>1, <2>1, <2>3 DEF Current, Begun
    <3>2. job'[r].why = "approve" /\ job'[r].step \notin {"quote", "off"}
      BY <3>1 DEF RouteMove, Passed
    <3>3. Busy(r)' \/ Approved(r)' => AsRead(r)'
      BY <1>1, <3>1 DEF RouteMove, Passed, SameDebt, AsRead, Busy, Approved
    <3> QED BY <1>1, <2>3, <3>2, <3>3 DEF Current, Begun
  <2>4. CASE stage \in {"last", "candidate"}
    <3>1. /\ job[r].why = stage /\ job[r].step # "quote" /\ Sound(r) /\ Forced(job[r].why)
          /\ job[r].step \in {"price", "ask"} => since
      BY <1>1, <2>1, <2>4 DEF Current, Begun, Forced
    <3>2. job'[r].why = stage /\ job'[r].step \notin {"quote", "off"}
      BY <2>4, <3>1 DEF RouteMove, Passed
    <3>3. job'[r].step \in {"price", "ask", "approved"} => since'
      BY <1>1, <3>1 DEF RouteMove, Passed
    <3>4. Busy(r)' => Sound(r)'
      <4>1. Busy(r)' => SameDebt(r)
        BY <3>1 DEF RouteMove, Passed, SameDebt, Busy, Forced
      <4> QED BY <1>1, <1>2, <3>1, <4>1 DEF SameDebt, Sound
    <3>5. Approved(r)' => Owed(r)'
      <4> SUFFICES ASSUME Approved(r)' PROVE Owed(r)'
        OBVIOUS
      <4>1. Passed(r) /\ (Priced(r) => quote'[r].rate > 0)
        BY <3>1 DEF RouteMove, Approved
      <4>2. CASE Eased(r)
        BY <1>2, <4>2 DEF Owed
      <4>3. CASE ~Eased(r)
        <5>1. /\ Size(r, quote[r].at) = Size(r, quote[r].base)
              /\ quote[r].due = Due(Size(r, quote[r].base), Course[quote[r].base].price)
          BY <3>1, <4>3 DEF Sound
        <5>2. quote'[r].base = quote[r].base
          BY <4>1 DEF Passed
        <5>3. \/ quote'[r].rate > 0
                 /\ quote'[r].due = Due(Size(r, quote[r].base), Course[facts].price)
              \/ /\ quote'[r].rate = 0
                 /\ quote'[r].due = Due(Size(r, quote[r].base), Course[quote[r].base].price)
          BY <4>1, <4>3, <5>1 DEF Passed
        <5> QED BY <1>1, <1>2, <4>1, <5>2, <5>3 DEF Owed
      <4> QED BY <4>2, <4>3
    <3> QED BY <1>1, <2>4, <3>2, <3>3, <3>4, <3>5 DEF Current, Begun
  <2> QED BY <2>2, <2>3, <2>4
<1>5. stage \in Engaged => \A i \in DOMAIN plan : i > idx => r # plan[i]
  BY <1>1 DEF RouteOK
<1> QED BY <1>1, <1>3, <1>4, <1>5 DEF RouteOK

LEMMA RouteStepKeeps ==
  ASSUME ApprovalInv, NEW r \in Routes, RouteStep(r) \/ ProbeTimeout(r)
  PROVE  ApprovalInv'
<1>1. Alone(r) /\ DataOK' /\ RouteMove(r)
  BY RouteStepDoes DEF ApprovalInv
<1>2. PlanOK'
  BY <1>1 DEF ApprovalInv, PlanOK, Alone, flow, Eligible, Floors
<1>3. ASSUME NEW s \in Routes, s # r PROVE RouteOK(s)'
  <2>1. quote'[s] = quote[s] /\ job'[s] = job[s]
    BY <1>1, <1>3 DEF Alone
  <2>2. UNCHANGED <<env, flow, since>>
    BY <1>1 DEF Alone
  <2>3. SameQuote(s) /\ Heard(s)
    BY <2>1 DEF SameQuote, SameDebt, Heard
  <2> QED BY <2>2, <2>3, RouteKept DEF ApprovalInv
<1> QED BY <1>1, <1>2, <1>3, RouteMoves DEF ApprovalInv

-----------------------------------------------------------------------------
\* The auction, the clock and the node.

LEMMA DataTyped ==
  ASSUME DataOK
  PROVE  /\ FlowTyped /\ gas \in GasType /\ asking \in BOOLEAN /\ cache \in CacheType
         /\ quote \in [Routes -> QuoteType] /\ job \in [Routes -> JobType]
         /\ Dated(cache) /\ PriceKnown /\ RateIsRecent
BY TypeParts DEF DataOK

\* A step of the world leaves the evaluation alone, but for answers to those who wait.
LEMMA WorldKeeps ==
  ASSUME ApprovalInv, UNCHANGED <<env, flow>>, DataOK', since => since',
         \A r \in Routes : SameQuote(r) /\ Heard(r)
  PROVE  ApprovalInv'
<1>1. PlanOK'
  BY DEF ApprovalInv, PlanOK, flow, Eligible, Floors
<1>2. \A r \in Routes : RouteOK(r)'
  BY RouteKept DEF ApprovalInv
<1> QED BY <1>1, <1>2 DEF ApprovalInv

LEMMA MoveKeeps == ApprovalInv /\ Move => ApprovalInv'
<1> SUFFICES ASSUME ApprovalInv, Move PROVE ApprovalInv'
  OBVIOUS
<1>1. /\ FlowTyped /\ gas \in GasType /\ asking \in BOOLEAN /\ cache \in CacheType
      /\ quote \in [Routes -> QuoteType] /\ job \in [Routes -> JobType]
      /\ Dated(cache) /\ PriceKnown /\ RateIsRecent
  BY DataTyped DEF ApprovalInv
<1>2. UNCHANGED <<env, gas, asking, cache, flow, quote, job, since>>
  BY DEF Move, shared
<1>3. world' \in DOMAIN Course
  <2>1. \A S : \A c \in Seq(S) : Len(c) \in Nat /\ DOMAIN c = 1 .. Len(c)
    OBVIOUS
  <2>2. Len(Course) \in Nat /\ DOMAIN Course = 1 .. Len(Course)
    BY <2>1, ApprovalAssumption
  <2> QED BY <1>1, <2>2 DEF Move, FlowTyped
<1>4. FlowTyped'
  BY <1>1, <1>2, <1>3 DEF FlowTyped, flow
<1>5. DataOK'
  BY <1>1, <1>2, <1>4, TypePartsNext DEF DataOK, PriceKnown, RateIsRecent, Dated
<1> QED BY <1>2, <1>5, WorldKeeps DEF SameQuote, SameDebt, Heard

LEMMA StrayFetchKeeps == ApprovalInv /\ StrayFetch => ApprovalInv'
<1> SUFFICES ASSUME ApprovalInv, StrayFetch PROVE ApprovalInv'
  OBVIOUS
<1>1. /\ FlowTyped /\ gas \in GasType /\ asking \in BOOLEAN /\ cache \in CacheType
      /\ quote \in [Routes -> QuoteType] /\ job \in [Routes -> JobType]
      /\ Dated(cache) /\ PriceKnown /\ RateIsRecent
  BY DataTyped DEF ApprovalInv
<1>2. UNCHANGED <<env, world, gas, cache, flow, quote, job, since>> /\ asking' \in BOOLEAN
  BY DEF StrayFetch
<1>3. FlowTyped'
  BY <1>1, <1>2 DEF FlowTyped, flow
<1>4. DataOK'
  BY <1>1, <1>2, <1>3, TypePartsNext DEF DataOK, PriceKnown, RateIsRecent, Dated
<1> QED BY <1>2, <1>4, WorldKeeps DEF SameQuote, SameDebt, Heard

LEMMA TickKeeps == ApprovalInv /\ Tick => ApprovalInv'
<1> SUFFICES ASSUME ApprovalInv, Tick PROVE ApprovalInv'
  OBVIOUS
<1>1. /\ FlowTyped /\ gas \in GasType /\ asking \in BOOLEAN /\ cache \in CacheType
      /\ quote \in [Routes -> QuoteType] /\ job \in [Routes -> JobType]
      /\ Dated(cache) /\ PriceKnown /\ RateIsRecent
  BY DataTyped DEF ApprovalInv
<1>2. UNCHANGED <<env, world, asking, flow, job, since>> /\ Ttl \in Nat /\ Long \in Nat
  BY ApprovalAssumption DEF Tick
<1>3. FlowTyped'
  BY <1>1, <1>2 DEF FlowTyped, flow
<1>4. gas' \in GasType /\ gas'.price = gas.price /\ (gas'.age <= Ttl => gas.age <= Ttl)
  <2>1. gas' = [gas EXCEPT !.age = IF gas.age < Ttl + 1 THEN gas.age + 1 ELSE gas.age]
    BY DEF Tick, Grown
  <2> QED BY <1>1, <1>2, <2>1 DEF GasType
<1>5. cache' \in CacheType /\ Dated(cache')
  <2> DEFINE new(k) == IF cache[k].rate = 0 THEN cache[k]
                       ELSE [cache[k] EXCEPT !.age = Grown(@, Long + 1), !.real = Grown(@, Long + 1)]
  <2>1. cache' = [k \in Keys |-> new(k)]
    BY DEF Tick
  <2>2. \A k \in Keys : cache[k] \in EntryType
    BY <1>1 DEF CacheType
  <2>3. \A n \in 0 .. Long + 1 : Grown(n, Long + 1) \in 0 .. Long + 1
    BY <1>2 DEF Grown
  <2> DEFINE aged(e, age, real) == [e EXCEPT !.age = age, !.real = real]
  <2>7. \A e \in EntryType : \A age, real \in 0 .. Long + 1 :
          /\ aged(e, age, real) \in EntryType /\ aged(e, age, real).rate = e.rate
          /\ aged(e, age, real).age = age /\ aged(e, age, real).real = real
    BY DEF EntryType
  <2>8. \A k \in Keys : /\ Grown(cache[k].age, Long + 1) \in 0 .. Long + 1
                         /\ Grown(cache[k].real, Long + 1) \in 0 .. Long + 1
    BY <2>2, <2>3 DEF EntryType
  <2>9. \A k \in Keys :
          new(k) = IF cache[k].rate = 0 THEN cache[k]
                   ELSE aged(cache[k], Grown(cache[k].age, Long + 1),
                             Grown(cache[k].real, Long + 1))
    OBVIOUS
  <2> HIDE DEF aged, new
  <2>4. \A k \in Keys : new(k) \in EntryType /\ new(k).rate = cache[k].rate
    BY <2>2, <2>7, <2>8, <2>9
  <2>5. \A k \in Keys : cache[k].real = cache[k].age => new(k).real = new(k).age
    BY <2>2, <2>7, <2>8, <2>9
  <2>6. \A k \in Keys : new(k).rate > 0 => new(k).real = new(k).age
    BY <1>1, <2>4, <2>5 DEF Dated
  <2> QED BY <2>1, <2>4, <2>6 DEF CacheType, Dated
<1>6. /\ quote' \in [Routes -> QuoteType]
      /\ \A r \in Routes : SameQuote(r) /\ quote'[r].recent = quote[r].recent
  <2> DEFINE new(r) == IF quote[r].stamp < 0 THEN quote[r]
                       ELSE [quote[r] EXCEPT !.stamp = Grown(@, Ttl + 1)]
  <2>1. quote' = [r \in Routes |-> new(r)]
    BY DEF Tick
  <2>2. \A n \in 0 .. Ttl + 1 : Grown(n, Ttl + 1) \in 0 .. Ttl + 1
    BY <1>2 DEF Grown
  <2>3. ASSUME NEW r \in Routes
        PROVE  /\ new(r) \in QuoteType /\ new(r).at = quote[r].at /\ new(r).base = quote[r].base
               /\ new(r).due = quote[r].due /\ new(r).amount = quote[r].amount
               /\ new(r).gas = quote[r].gas /\ new(r).rate = quote[r].rate
               /\ new(r).recent = quote[r].recent
    <3>1. quote[r] \in QuoteType
      BY <1>1
    <3> QED BY <1>2, <2>2, <3>1 DEF QuoteType
  <2> HIDE DEF new
  <2> QED BY <2>1, <2>3 DEF SameQuote, SameDebt
<1>7. DataOK'
  <2>1. ApprovalTypeOK'
    BY <1>1, <1>2, <1>3, <1>4, <1>5, <1>6, TypePartsNext
  <2>2. PriceKnown'
    BY <1>1, <1>2, <1>4 DEF PriceKnown
  <2>3. RateIsRecent'
    BY <1>1, <1>6 DEF RateIsRecent
  <2>4. Dated(cache)'
    BY <1>5 DEF Dated
  <2> QED BY <2>1, <2>2, <2>3, <2>4 DEF DataOK
<1> QED BY <1>2, <1>6, <1>7, WorldKeeps DEF Heard

LEMMA GasAnsweredKeeps == ApprovalInv /\ GasAnswered => ApprovalInv'
<1> SUFFICES ASSUME ApprovalInv, GasAnswered PROVE ApprovalInv'
  OBVIOUS
<1>1. /\ FlowTyped /\ gas \in GasType /\ asking \in BOOLEAN /\ cache \in CacheType
      /\ quote \in [Routes -> QuoteType] /\ job \in [Routes -> JobType]
      /\ Dated(cache) /\ PriceKnown /\ RateIsRecent
  BY DataTyped DEF ApprovalInv
<1>2. UNCHANGED <<env, world, cache, flow, quote>> /\ asking' = FALSE /\ since' = TRUE
  BY DEF GasAnswered
<1>3. FlowTyped'
  BY <1>1, <1>2 DEF FlowTyped, flow
<1>4. gas' \in GasType /\ gas'.price \in GasPrices
  <2>1. PICK p \in env.gas : gas' = [price |-> p, age |-> 0]
    BY DEF GasAnswered
  <2>2. p \in GasPrices /\ Ttl \in Nat
    BY <1>1, EnvTyped, ApprovalAssumption DEF FlowTyped
  <2> QED BY <2>1, <2>2 DEF GasType
<1>5. /\ job' \in [Routes -> JobType]
      /\ \A r \in Routes : Heard(r) /\ (job'[r].step = "ask" => job'[r] = job[r])
  <2>1. job' = [r \in Routes |-> IF job[r].step = "waiting"
                                 THEN [job[r] EXCEPT !.step = "price"] ELSE job[r]]
    BY DEF GasAnswered, Waiting
  <2>2. \A j \in JobType : LET new == [j EXCEPT !.step = "price"] IN
          new \in JobType /\ new.why = j.why /\ new.step = "price"
    BY DEF JobType, JobSteps
  <2>3. \A r \in Routes : job[r] \in JobType
    BY <1>1
  <2> QED BY <1>2, <2>1, <2>2, <2>3 DEF Heard
<1>6. DataOK'
  <2>1. ApprovalTypeOK'
    BY <1>1, <1>2, <1>3, <1>4, <1>5, TypePartsNext
  <2>2. PriceKnown'
    BY <1>1, <1>4, <1>5 DEF PriceKnown
  <2> QED BY <1>1, <1>2, <2>1, <2>2 DEF DataOK, RateIsRecent, Dated
<1> QED BY <1>2, <1>5, <1>6, WorldKeeps DEF SameQuote, SameDebt

LEMMA GasFailedKeeps == ApprovalInv /\ GasFailed => ApprovalInv'
<1> SUFFICES ASSUME ApprovalInv, GasFailed PROVE ApprovalInv'
  OBVIOUS
<1>1. /\ FlowTyped /\ gas \in GasType /\ asking \in BOOLEAN /\ cache \in CacheType
      /\ quote \in [Routes -> QuoteType] /\ job \in [Routes -> JobType]
      /\ Dated(cache) /\ PriceKnown /\ RateIsRecent
  BY DataTyped DEF ApprovalInv
<1>2. UNCHANGED <<env, world, gas, cache, flow, quote, since>> /\ asking' = FALSE
  BY DEF GasFailed
<1>3. FlowTyped'
  BY <1>1, <1>2 DEF FlowTyped, flow
<1>4. /\ job' \in [Routes -> JobType]
      /\ \A r \in Routes : /\ Heard(r)
                           /\ job'[r].step \in {"price", "ask"} => job'[r] = job[r]
  <2>1. job' = [r \in Routes |-> IF job[r].step = "waiting"
                                 THEN [job[r] EXCEPT !.step = "thrown"] ELSE job[r]]
    BY DEF GasFailed, Waiting
  <2>2. \A j \in JobType : LET new == [j EXCEPT !.step = "thrown"] IN
          new \in JobType /\ new.why = j.why /\ new.step = "thrown"
    BY DEF JobType, JobSteps
  <2>3. \A r \in Routes : job[r] \in JobType
    BY <1>1
  <2> QED BY <1>2, <2>1, <2>2, <2>3 DEF Heard
<1>5. DataOK'
  <2>1. ApprovalTypeOK'
    BY <1>1, <1>2, <1>3, <1>4, TypePartsNext
  <2>2. PriceKnown'
    BY <1>1, <1>2, <1>4 DEF PriceKnown
  <2> QED BY <1>1, <1>2, <2>1, <2>2 DEF DataOK, RateIsRecent, Dated
<1> QED BY <1>2, <1>4, <1>5, WorldKeeps DEF SameQuote, SameDebt

-----------------------------------------------------------------------------
\* The evaluation.

\* What a step of the evaluation has to keep for the data to stay in order.
LEMMA FlowData ==
  ASSUME DataOK, FlowTyped', UNCHANGED shared,
         quote' \in [Routes -> QuoteType], job' \in [Routes -> JobType],
         \A r \in Routes : /\ quote'[r].recent
                           /\ job'[r] = job[r] \/ job'[r].step \in {"quote", "enter", "off"}
  PROVE  DataOK'
<1>1. /\ gas \in GasType /\ asking \in BOOLEAN /\ cache \in CacheType
      /\ Dated(cache) /\ PriceKnown
  BY DataTyped
<1>2. UNCHANGED <<gas, asking, cache>>
  BY DEF shared
<1>3. ApprovalTypeOK'
  BY <1>1, <1>2, TypePartsNext
<1>4. PriceKnown'
  BY <1>1, <1>2 DEF PriceKnown
<1> QED BY <1>1, <1>2, <1>3, <1>4 DEF DataOK, RateIsRecent, Dated

\* The plans have distinct routes.
LEMMA PlanShape ==
  ASSUME NEW p \in Plans
  PROVE  /\ DOMAIN p = 1 .. Len(p) /\ Len(p) \in 0 .. 2
         /\ \A i \in DOMAIN p : p[i] \in Routes
         /\ \A i, j \in DOMAIN p : p[i] = p[j] => i = j
BY DEF Plans, Routes

\* A job that has not begun.
LEMMA JobBegins ==
  ASSUME job \in [Routes -> JobType], NEW r \in Routes,
         NEW step \in {"quote", "enter"}, NEW why \in Whys,
         job' = [job EXCEPT ![r] = JobAt(step, why)]
  PROVE  /\ job' \in [Routes -> JobType] /\ job'[r].step = step /\ job'[r].why = why
         /\ \A s \in Routes : s # r => job'[s] = job[s]
<1> DEFINE new == JobAt(step, why)
<1>1. new \in JobType /\ new.step = step /\ new.why = why
  BY JobAtTyped DEF JobSteps
<1> HIDE DEF new
<1>2. job' = [job EXCEPT ![r] = new]
  BY DEF new
<1> QED BY <1>1, <1>2

LEMMA ProbingTyped ==
  ASSUME NEW r \in Routes
  PROVE  /\ Probing(r) \in JobType
         /\ \/ Probing(r).step = "quote"
            \/ Probing(r).step = "enter" /\ Probing(r).why = "context"
BY DEF Probing, JobAt, JobType, JobSteps, Whys

LEMMA ReadFactsKeeps == ApprovalInv /\ ReadFacts => ApprovalInv'
<1> SUFFICES ASSUME ApprovalInv, ReadFacts PROVE ApprovalInv'
  OBVIOUS
<1>1. /\ FlowTyped /\ quote \in [Routes -> QuoteType] /\ RateIsRecent /\ DataOK
  BY DataTyped DEF ApprovalInv
<1>2. /\ stage' = "probe" /\ facts' = world /\ since' = FALSE
      /\ UNCHANGED <<env, world, shared, plan, idx, eased, quote>>
      /\ job' = [r \in Routes |-> IF r = "direct" \/ env.maximize THEN Probing(r) ELSE Off]
  BY DEF ReadFacts
<1>3. Off \in JobType /\ Off.step = "off"
  BY DEF Off, JobType, JobSteps, Whys
<1>4. /\ job' \in [Routes -> JobType]
      /\ \A r \in Routes : \/ job'[r].step \in {"quote", "off"}
                           \/ job'[r].step = "enter" /\ job'[r].why = "context"
  BY <1>2, <1>3, ProbingTyped
<1>5. FlowTyped'
  BY <1>1, <1>2 DEF FlowTyped, Stages
<1>6. DataOK'
  BY <1>1, <1>2, <1>4, <1>5, FlowData DEF RateIsRecent
<1>7. PlanOK'
  BY <1>2 DEF ApprovalInv, PlanOK, Eligible, Floors, Engaged
<1>8. \A r \in Routes : RouteOK(r)'
  BY <1>2, <1>4 DEF RouteOK, Quoted, Approved, Busy, Probes, Engaged
<1> QED BY <1>6, <1>7, <1>8 DEF ApprovalInv

LEMMA ProbeAggregatorKeeps == ApprovalInv /\ ProbeAggregator => ApprovalInv'
<1> SUFFICES ASSUME ApprovalInv, ProbeAggregator PROVE ApprovalInv'
  OBVIOUS
<1>1. /\ FlowTyped /\ quote \in [Routes -> QuoteType] /\ job \in [Routes -> JobType]
      /\ RateIsRecent /\ DataOK
  BY DataTyped DEF ApprovalInv
<1>2. /\ stage = "probe" /\ UNCHANGED <<env, world, shared, flow, quote, since>>
      /\ job' = [job EXCEPT !["aggregator"] = Probing("aggregator")]
  BY DEF ProbeAggregator
<1> DEFINE new == Probing("aggregator")
<1>3. new \in JobType /\ (new.step = "quote" \/ (new.step = "enter" /\ new.why = "context"))
  BY ProbingTyped DEF Routes
<1> HIDE DEF new
<1>4. job' = [job EXCEPT !["aggregator"] = new]
  BY <1>2 DEF new
<1>5. /\ job' \in [Routes -> JobType] /\ job'["direct"] = job["direct"]
      /\ \/ job'["aggregator"].step = "quote"
         \/ job'["aggregator"].step = "enter" /\ job'["aggregator"].why = "context"
  BY <1>1, <1>3, <1>4 DEF Routes
<1>6. FlowTyped'
  BY <1>1, <1>2 DEF FlowTyped, flow
<1>7. DataOK'
  <2>1. \A r \in Routes : r = "direct" \/ r = "aggregator"
    BY DEF Routes
  <2> QED BY <1>1, <1>2, <1>5, <1>6, <2>1, FlowData DEF RateIsRecent
<1>8. PlanOK'
  BY <1>2 DEF ApprovalInv, PlanOK, flow, Eligible, Floors, Engaged
<1>9. RouteOK("direct")'
  <2>1. SameQuote("direct") /\ Heard("direct") /\ "direct" \in Routes
    BY <1>2, <1>5 DEF SameQuote, SameDebt, Heard, Routes
  <2> QED BY <1>2, <2>1, RouteKept DEF ApprovalInv
<1>10. RouteOK("aggregator")'
  BY <1>2, <1>5 DEF RouteOK, Quoted, Approved, Busy, Probes, Engaged, flow
<1>11. \A r \in Routes : RouteOK(r)'
  <2>1. \A r \in Routes : r = "direct" \/ r = "aggregator"
    BY DEF Routes
  <2> QED BY <1>9, <1>10, <2>1
<1> QED BY <1>7, <1>8, <1>11 DEF ApprovalInv

\* A stage in which nothing is claimed of the routes.
LEMMA NothingClaimed ==
  ASSUME ApprovalInv, stage' \in {"idle", "ended"}, DataOK', eased' => eased, env' = env
  PROVE  ApprovalInv'
<1>1. PlanOK'
  BY DEF ApprovalInv, PlanOK, Eligible, Floors, Engaged
<1>2. \A r \in Routes : RouteOK(r)'
  BY DEF RouteOK, Probes, Engaged
<1> QED BY <1>1, <1>2 DEF ApprovalInv

\* The chosen routes are approved ones.
LEMMA ChosenShape ==
  /\ Chosen \in Plans /\ \A i \in DOMAIN Chosen : Approved(Chosen[i])
  /\ ~Approved("direct") => Chosen \in {<<>>, <<"aggregator">>}
<1> DEFINE approved == {r \in Routes : Approved(r)}
<1>1. CASE ~env.maximize /\ Good("direct")
  BY <1>1 DEF Chosen, Plans, Good
<1>2. CASE ~(~env.maximize /\ Good("direct")) /\ ~env.maximize /\ Good("aggregator")
  BY <1>2 DEF Chosen, Plans, Good
<1>3. CASE /\ ~(~env.maximize /\ Good("direct"))
           /\ ~(~env.maximize /\ Good("aggregator"))
  <2> DEFINE rest == CASE approved = {} -> <<>>
                       [] approved = {"direct"} -> <<"direct">>
                       [] approved = {"aggregator"} -> <<"aggregator">>
                       [] OTHER -> IF Before("direct", "aggregator") THEN <<"direct", "aggregator">>
                                   ELSE <<"aggregator", "direct">>
  <2>1. Chosen = rest
    BY <1>3 DEF Chosen
  <2>2. CASE ~Approved("direct") /\ ~Approved("aggregator")
    <3>1. approved = {}
      BY <2>2 DEF Routes
    <3>2. rest = <<>>
      BY <3>1
    <3> QED BY <2>1, <3>2 DEF Plans
  <2>3. CASE Approved("direct") /\ ~Approved("aggregator")
    <3>1. approved = {"direct"}
      BY <2>3 DEF Routes
    <3>2. rest = <<"direct">>
      BY <3>1
    <3> QED BY <2>1, <2>3, <3>2 DEF Plans
  <2>4. CASE ~Approved("direct") /\ Approved("aggregator")
    <3>1. approved = {"aggregator"}
      BY <2>4 DEF Routes
    <3>2. rest = <<"aggregator">>
      BY <3>1
    <3> QED BY <2>1, <2>4, <3>2 DEF Plans
  <2>5. CASE Approved("direct") /\ Approved("aggregator")
    <3>1. "direct" \in approved /\ "aggregator" \in approved
      BY <2>5 DEF Routes
    <3>2. rest \in {<<"direct", "aggregator">>, <<"aggregator", "direct">>}
      BY <3>1
    <3> QED BY <2>1, <2>5, <3>2 DEF Plans
  <2> QED BY <2>2, <2>3, <2>4, <2>5
<1> QED BY <1>1, <1>2, <1>3

\* A plan of approved routes goes to the engine.
LEMMA PlannedKeeps ==
  ASSUME ApprovalInv, stage \in Probes, NEW new \in Plans,
         \A i \in DOMAIN new : Approved(new[i]),
         Planned(new), UNCHANGED <<env, world, shared, facts, eased, quote, since>>
  PROVE  ApprovalInv'
<1>1. /\ FlowTyped /\ quote \in [Routes -> QuoteType] /\ job \in [Routes -> JobType]
      /\ RateIsRecent /\ DataOK
  BY DataTyped DEF ApprovalInv
<1>2. /\ DOMAIN new = 1 .. Len(new) /\ Len(new) \in 0 .. 2
      /\ \A i \in DOMAIN new : new[i] \in Routes
      /\ \A i, j \in DOMAIN new : new[i] = new[j] => i = j
  BY PlanShape
<1>3. CASE new = <<>>
  <2>1. plan' = new /\ stage' = "ended" /\ idx' = 0 /\ UNCHANGED job
    BY <1>3 DEF Planned
  <2>2. FlowTyped'
    BY <1>1, <2>1 DEF FlowTyped, Stages
  <2>3. DataOK'
    BY <1>1, <2>1, <2>2, FlowData DEF RateIsRecent
  <2> QED BY <2>1, <2>3, NothingClaimed
<1>4. CASE new # <<>>
  <2>1. /\ plan' = new /\ stage' = "approve" /\ idx' = 1
        /\ job' = [job EXCEPT ![new[1]] = JobAt("enter", "approve")]
    BY <1>4 DEF Planned
  <2>2. 1 \in DOMAIN new
    BY <1>2, <1>4 DEF Plans
  <2>3. /\ job' \in [Routes -> JobType] /\ job'[new[1]].step = "enter"
        /\ job'[new[1]].why = "approve"
        /\ \A s \in Routes : s # new[1] => job'[s] = job[s]
    BY <1>1, <1>2, <2>1, <2>2, JobBegins DEF Whys
  <2>4. FlowTyped'
    BY <1>1, <2>1 DEF FlowTyped, Stages
  <2>5. DataOK'
    BY <1>1, <1>2, <2>2, <2>3, <2>4, FlowData DEF RateIsRecent
  <2>6. PlanOK'
    BY <2>1, <2>2 DEF ApprovalInv, PlanOK, Eligible, Floors
  <2>7. \A i \in DOMAIN new : AsRead(new[i])
    BY <1>2 DEF ApprovalInv, RouteOK, Quoted
  <2>8. ASSUME NEW r \in Routes PROVE RouteOK(r)'
    <3>1. r = new[1] => Current(r)'
      BY <2>1, <2>2, <2>3, <2>7 DEF Current, Begun, AsRead
    <3>2. ASSUME NEW i \in DOMAIN new, i > 1, r = new[i] PROVE ~Busy(r)' /\ Sound(r)'
      <4>1. Approved(r) /\ AsRead(r) /\ job'[r] = job[r]
        BY <1>2, <2>2, <2>3, <2>7, <3>2
      <4> QED BY <4>1 DEF Approved, Busy, AsRead, Sound
    <3> QED BY <2>1, <3>1, <3>2 DEF RouteOK, Probes
  <2> QED BY <2>5, <2>6, <2>8 DEF ApprovalInv
<1> QED BY <1>3, <1>4

LEMMA SelectKeeps == ApprovalInv /\ Select => ApprovalInv'
<1> SUFFICES ASSUME ApprovalInv, Select PROVE ApprovalInv'
  OBVIOUS
<1>1. /\ FlowTyped /\ quote \in [Routes -> QuoteType] /\ job \in [Routes -> JobType]
      /\ RateIsRecent /\ DataOK
  BY DataTyped DEF ApprovalInv
<1>2. /\ stage = "probe" /\ Probed /\ UNCHANGED <<env, world, shared, facts, quote, since>>
  BY DEF Select
<1>3. CASE Planned(Chosen) /\ UNCHANGED eased
  BY <1>2, <1>3, ChosenShape, PlannedKeeps DEF Probes
<1>4. CASE /\ Eligible /\ job["direct"].step = "norate"
           /\ stage' = "fallback" /\ plan' = Chosen /\ eased' = TRUE /\ UNCHANGED idx
           /\ job' = [job EXCEPT !["direct"] = JobAt("quote", "fallback")]
  <2>1. "direct" \in Routes /\ "aggregator" \in Routes
    BY DEF Routes
  <2>2. /\ job' \in [Routes -> JobType] /\ job'["direct"].step = "quote"
        /\ \A s \in Routes : s # "direct" => job'[s] = job[s]
    BY <1>1, <1>4, <2>1, JobBegins DEF Whys
  <2>3. plan' \in {<<>>, <<"aggregator">>} /\ (plan' # <<>> => Approved("aggregator"))
    <3>1. Chosen \in {<<>>, <<"aggregator">>} /\ \A i \in DOMAIN Chosen : Approved(Chosen[i])
      BY <1>4, ChosenShape DEF Approved
    <3> QED BY <1>4, <3>1
  <2>4. FlowTyped'
    BY <1>1, <1>2, <1>4, <2>3 DEF FlowTyped, Stages, Plans
  <2>5. DataOK'
    BY <1>1, <1>2, <2>2, <2>4, FlowData DEF RateIsRecent
  <2>6. PlanOK'
    BY <1>2, <1>4, <2>3 DEF PlanOK, Eligible, Floors, Engaged
  <2>7. ~Busy("aggregator")
    <3>1. Ended("aggregator")
      BY <1>2, <1>4 DEF Eligible, Probed
    <3> QED BY <3>1 DEF Ended, Busy
  <2>8. RouteOK("direct")'
    BY <1>4, <2>2 DEF RouteOK, Quoted, Approved, Busy, Probes, Engaged
  <2>9. RouteOK("aggregator")'
    <3>1. /\ Approved("aggregator") => AsRead("aggregator")
          /\ job'["aggregator"] = job["aggregator"]
      BY <1>2, <2>1, <2>2 DEF ApprovalInv, RouteOK, Quoted, Probes
    <3>2. Approved("aggregator")' <=> Approved("aggregator")
      BY <3>1 DEF Approved
    <3>3. ~Busy("aggregator")'
      BY <2>7, <3>1 DEF Busy
    <3>4. AsRead("aggregator")' <=> AsRead("aggregator")
      BY <1>2 DEF AsRead
    <3> QED BY <1>4, <2>3, <3>1, <3>2, <3>3, <3>4 DEF RouteOK, Quoted, Probes, Engaged
  <2>10. \A r \in Routes : RouteOK(r)'
    <3>1. \A r \in Routes : r = "direct" \/ r = "aggregator"
      BY DEF Routes
    <3> QED BY <2>8, <2>9, <3>1
  <2> QED BY <2>5, <2>6, <2>10 DEF ApprovalInv
<1> QED BY <1>3, <1>4 DEF Select

LEMMA AppendOne == Append(<<"aggregator">>, "direct") = <<"aggregator", "direct">>
<1> DEFINE a == Append(<<"aggregator">>, "direct")
           b == <<"aggregator", "direct">>
<1>1. <<"aggregator">> \in Seq(Routes) /\ b \in Seq(Routes) /\ "direct" \in Routes
  BY DEF Routes
<1>2. a \in Seq(Routes) /\ Len(a) = 2
  BY <1>1
<1>3. /\ a[1] = "aggregator" /\ a[2] = "direct" /\ b[1] = "aggregator" /\ b[2] = "direct"
      /\ Len(b) = 2
  BY <1>1
<1> HIDE DEF a, b
<1>4. DOMAIN a = 1 .. 2 /\ DOMAIN b = 1 .. 2
  BY <1>1, <1>2, <1>3
<1>5. \A i \in 1 .. 2 : a[i] = b[i]
  BY <1>3
<1>6. a = [i \in 1 .. 2 |-> a[i]] /\ b = [i \in 1 .. 2 |-> b[i]]
  BY <1>1, <1>2, <1>3, <1>4
<1> QED BY <1>5, <1>6 DEF a, b

LEMMA AfterFallbackKeeps == ApprovalInv /\ AfterFallback => ApprovalInv'
<1> SUFFICES ASSUME ApprovalInv, AfterFallback PROVE ApprovalInv'
  OBVIOUS
<1> DEFINE new == CASE Approved("direct") -> Append(plan, "direct")
                    [] job["direct"].step = "thrown" -> <<>>
                    [] OTHER -> plan
<1>1. /\ stage = "fallback" /\ Planned(new)
      /\ UNCHANGED <<env, world, shared, facts, eased, quote, since>>
  BY DEF AfterFallback
<1>2. plan \in {<<>>, <<"aggregator">>} /\ (plan # <<>> => Approved("aggregator"))
  <2>1. Quoted("aggregator")
    BY <1>1 DEF ApprovalInv, RouteOK, Probes, Routes
  <2> QED BY <1>1, <2>1 DEF ApprovalInv, PlanOK, Quoted
<1>3. \/ new \in {<<"direct">>, <<"aggregator", "direct">>} /\ Approved("direct")
         /\ (new = <<"aggregator", "direct">> => Approved("aggregator"))
      \/ new = <<>> \/ (new = <<"aggregator">> /\ Approved("aggregator"))
  <2>1. CASE Approved("direct")
    <3>1. new = Append(plan, "direct")
      BY <2>1 DEF Approved
    <3>2. CASE plan = <<>>
      BY <2>1, <3>1, <3>2
    <3>3. CASE plan = <<"aggregator">>
      <4>1. Append(<<"aggregator">>, "direct") = <<"aggregator", "direct">>
        BY AppendOne
      <4>2. new = <<"aggregator", "direct">>
        BY <3>1, <3>3, <4>1
      <4> HIDE DEF new
      <4> QED BY <1>2, <2>1, <3>3, <4>2
    <3> QED BY <1>2, <3>2, <3>3
  <2>2. CASE ~Approved("direct") /\ job["direct"].step = "thrown"
    BY <2>2
  <2>3. CASE ~Approved("direct") /\ job["direct"].step # "thrown"
    <3>1. new = plan
      BY <2>3
    <3> QED BY <1>2, <3>1
  <2> QED BY <2>1, <2>2, <2>3
<1> HIDE DEF new
<1>4. new \in Plans /\ \A i \in DOMAIN new : Approved(new[i])
  BY <1>3 DEF Plans
<1> QED BY <1>1, <1>4, PlannedKeeps DEF Probes

\* The candidate that is tried, and those after it.
LEMMA Candidates ==
  ASSUME ApprovalInv, stage \in Engaged
  PROVE  /\ plan \in Plans /\ idx \in DOMAIN plan /\ Route \in Routes /\ Current(Route)
         /\ \A i \in DOMAIN plan : /\ plan[i] \in Routes
                                   /\ i > idx => plan[i] # Route /\ ~Busy(plan[i]) /\ Sound(plan[i])
<1>1. plan \in Plans /\ idx \in DOMAIN plan /\ idx \in 0 .. 2
  BY DataTyped DEF ApprovalInv, PlanOK, FlowTyped
<1>2. /\ DOMAIN plan = 1 .. Len(plan) /\ Len(plan) \in 0 .. 2
      /\ \A i \in DOMAIN plan : plan[i] \in Routes
      /\ \A i, j \in DOMAIN plan : plan[i] = plan[j] => i = j
  BY <1>1, PlanShape
<1>3. Route \in Routes /\ Current(Route)
  BY <1>1, <1>2 DEF ApprovalInv, RouteOK, Route
<1>4. \A i \in DOMAIN plan : i > idx => plan[i] # Route /\ ~Busy(plan[i]) /\ Sound(plan[i])
  BY <1>1, <1>2 DEF ApprovalInv, RouteOK, Route
<1> QED BY <1>1, <1>2, <1>3, <1>4

\* The engine goes on with the same candidate.
LEMMA GoesOn ==
  ASSUME ApprovalInv, stage \in Engaged, stage' \in Engaged, DataOK',
         UNCHANGED <<env, plan, idx, eased>>,
         \A s \in Routes : s # Route => quote'[s] = quote[s] /\ job'[s] = job[s],
         Current(Route)'
  PROVE  ApprovalInv'
<1>1. /\ plan \in Plans /\ idx \in DOMAIN plan /\ Route \in Routes
      /\ \A i \in DOMAIN plan : /\ plan[i] \in Routes
                                /\ i > idx => plan[i] # Route /\ ~Busy(plan[i]) /\ Sound(plan[i])
  BY Candidates
<1>2. PlanOK'
  BY <1>1 DEF ApprovalInv, PlanOK, Eligible, Floors, Engaged
<1>3. ASSUME NEW r \in Routes PROVE RouteOK(r)'
  <2>1. r = plan'[idx'] => Current(r)'
    BY DEF Route
  <2>2. ASSUME NEW i \in DOMAIN plan, i > idx, r = plan[i] PROVE ~Busy(r)' /\ Sound(r)'
    <3>1. ~Busy(r) /\ Sound(r) /\ quote'[r] = quote[r] /\ job'[r] = job[r]
      BY <1>1, <2>2
    <3> QED BY <3>1 DEF Busy, Sound, Eased
  <2> QED BY <2>1, <2>2 DEF RouteOK, Probes, Engaged
<1> QED BY <1>2, <1>3 DEF ApprovalInv

\* The next candidate, or none.
LEMMA NextKeeps ==
  ASSUME ApprovalInv, stage \in Engaged, NextCandidate, DataOK',
         UNCHANGED <<env, plan, eased, quote, job>>
  PROVE  ApprovalInv'
<1>1. /\ plan \in Plans /\ idx \in DOMAIN plan
      /\ \A i \in DOMAIN plan : /\ plan[i] \in Routes
                                /\ i > idx => ~Busy(plan[i]) /\ Sound(plan[i])
  BY Candidates
<1>2. CASE idx < Len(plan) /\ stage' = "refresh" /\ idx' = idx + 1
  <2>1. idx' \in DOMAIN plan /\ \A i \in DOMAIN plan : i >= idx' => i > idx
    BY <1>1, <1>2, PlanShape
  <2>2. PlanOK'
    BY <1>2, <2>1 DEF ApprovalInv, PlanOK, Eligible, Floors, Engaged
  <2>3. ASSUME NEW r \in Routes PROVE RouteOK(r)'
    <3>1. \A i \in DOMAIN plan : i >= idx' /\ r = plan[i] => (~Busy(r) /\ Sound(r))'
      BY <1>1, <2>1 DEF Busy, Sound, Eased
    <3>2. idx' \in Int
      BY <1>1, <1>2, <2>1, PlanShape
    <3>3. \A i \in DOMAIN plan : i > idx' => i >= idx'
      BY <1>1, <3>2, PlanShape
    <3>4. r = plan'[idx'] => Current(r)'
      BY <1>2, <2>1, <3>1, <3>2 DEF Current
    <3> QED BY <1>2, <3>1, <3>3, <3>4 DEF RouteOK, Probes
  <2> QED BY <2>2, <2>3 DEF ApprovalInv
<1>3. CASE stage' = "ended"
  BY <1>3, NothingClaimed
<1> QED BY <1>2, <1>3 DEF NextCandidate

LEMMA AfterApproveKeeps == ApprovalInv /\ AfterApprove => ApprovalInv'
<1> SUFFICES ASSUME ApprovalInv, AfterApprove PROVE ApprovalInv'
  OBVIOUS
<1>1. /\ FlowTyped /\ quote \in [Routes -> QuoteType] /\ job \in [Routes -> JobType]
      /\ RateIsRecent /\ DataOK
  BY DataTyped DEF ApprovalInv
<1>2. /\ stage = "approve" /\ Ended(Route)
      /\ UNCHANGED <<env, world, shared, facts, plan, idx, eased, since, quote, job>>
      /\ stage' = IF Approved(Route) THEN "revalidate" ELSE "ended"
  BY DEF AfterApprove
<1>3. FlowTyped'
  BY <1>1, <1>2 DEF FlowTyped, Stages
<1>4. DataOK'
  BY <1>1, <1>2, <1>3, FlowData DEF RateIsRecent
<1>5. CASE Approved(Route)
  <2>1. AsRead(Route) /\ ~Busy(Route)
    BY <1>2, <1>5, Candidates DEF Current, Engaged, Ended, Busy
  <2>2. Sound(Route)' /\ ~Busy(Route)'
    BY <1>2, <2>1 DEF AsRead, Sound, Busy, Eased, Route
  <2>3. Current(Route)'
    BY <1>2, <1>5, <2>2 DEF Current
  <2> QED BY <1>2, <1>4, <1>5, <2>3, GoesOn DEF Engaged
<1>6. CASE ~Approved(Route)
  BY <1>2, <1>4, <1>6, NothingClaimed
<1> QED BY <1>5, <1>6

\* A job of the candidate begins.
LEMMA BeginsAgain ==
  ASSUME ApprovalInv, stage \in Engaged, stage' \in {"last", "candidate"},
         facts' = world, UNCHANGED <<env, world, shared, plan, idx, eased, quote>>,
         since' \in BOOLEAN, ~Busy(Route), Sound(Route),
         job' = [job EXCEPT ![Route] = JobAt("enter", stage')]
  PROVE  ApprovalInv'
<1>1. /\ FlowTyped /\ quote \in [Routes -> QuoteType] /\ job \in [Routes -> JobType]
      /\ RateIsRecent /\ DataOK
  BY DataTyped DEF ApprovalInv
<1>2. Route \in Routes
  BY Candidates
<1>3. /\ job' \in [Routes -> JobType] /\ job'[Route].step = "enter" /\ job'[Route].why = stage'
      /\ \A s \in Routes : s # Route => job'[s] = job[s]
  <2>1. stage' \in Whys
    BY DEF Whys
  <2> QED BY <1>1, <1>2, <2>1, JobBegins
<1>4. FlowTyped'
  BY <1>1 DEF FlowTyped, Stages
<1>5. DataOK'
  <2>1. \A s \in Routes : job'[s] = job[s] \/ job'[s].step = "enter"
    BY <1>2, <1>3
  <2> QED BY <1>1, <1>3, <1>4, <2>1, FlowData DEF RateIsRecent
<1>6. Current(Route)'
  <2>1. Sound(Route)'
    BY DEF Sound, Eased, Route
  <2>2. Begun(Route, stage)' /\ ~Approved(Route)' /\ Route' = Route
    BY <1>3 DEF Begun, Approved, Route
  <2>3. job'[Route'].step = "enter"
    BY <1>3, <2>2
  <2> QED BY <2>1, <2>2, <2>3 DEF Current
<1> QED BY <1>3, <1>5, <1>6, GoesOn DEF Engaged

LEMMA RevalidateKeeps == ApprovalInv /\ Revalidate => ApprovalInv'
<1> SUFFICES ASSUME ApprovalInv, Revalidate PROVE ApprovalInv'
  OBVIOUS
<1>1. /\ FlowTyped /\ quote \in [Routes -> QuoteType] /\ job \in [Routes -> JobType]
      /\ RateIsRecent /\ DataOK
  BY DataTyped DEF ApprovalInv
<1>2. /\ stage = "revalidate" /\ facts' = world /\ since' = FALSE
      /\ UNCHANGED <<env, world, shared, plan, idx, eased, quote>>
  BY DEF Revalidate
<1>3. ~Busy(Route) /\ Sound(Route)
  BY <1>2, Candidates DEF Current, Engaged
<1>4. CASE stage' = "last" /\ job' = [job EXCEPT ![Route] = JobAt("enter", "last")]
  BY <1>2, <1>3, <1>4, BeginsAgain DEF Engaged
<1>5. CASE stage' = "ended" /\ UNCHANGED job
  <2>1. FlowTyped'
    BY <1>1, <1>2, <1>5 DEF FlowTyped, Stages
  <2>2. DataOK'
    BY <1>1, <1>2, <1>5, <2>1, FlowData DEF RateIsRecent
  <2> QED BY <1>2, <1>5, <2>2, NothingClaimed
<1> QED BY <1>4, <1>5 DEF Revalidate

LEMMA RefreshKeeps == ApprovalInv /\ Refresh => ApprovalInv'
<1> SUFFICES ASSUME ApprovalInv, Refresh PROVE ApprovalInv'
  OBVIOUS
<1>1. /\ stage = "refresh" /\ facts' = world /\ since' = FALSE
      /\ UNCHANGED <<env, world, shared, plan, idx, eased, quote>>
      /\ stage' = "candidate" /\ job' = [job EXCEPT ![Route] = JobAt("enter", "candidate")]
  BY DEF Refresh
<1>2. ~Busy(Route) /\ Sound(Route)
  BY <1>1, Candidates DEF Current, Engaged
<1> QED BY <1>1, <1>2, BeginsAgain DEF Engaged

LEMMA RevalidationFailsKeeps == ApprovalInv /\ RevalidationFails => ApprovalInv'
<1> SUFFICES ASSUME ApprovalInv, RevalidationFails PROVE ApprovalInv'
  OBVIOUS
<1>1. /\ FlowTyped /\ quote \in [Routes -> QuoteType] /\ job \in [Routes -> JobType]
      /\ RateIsRecent /\ DataOK
  BY DataTyped DEF ApprovalInv
<1>2. /\ stage' = "ended"
      /\ UNCHANGED <<env, world, shared, facts, plan, idx, eased, since, quote, job>>
  BY DEF RevalidationFails
<1>3. FlowTyped'
  BY <1>1, <1>2 DEF FlowTyped, Stages
<1>4. DataOK'
  BY <1>1, <1>2, <1>3, FlowData DEF RateIsRecent
<1> QED BY <1>2, <1>4, NothingClaimed

LEMMA NextTyped ==
  ASSUME FlowTyped, NextCandidate, idx \in DOMAIN plan,
         UNCHANGED <<env, world, facts, plan, eased, since>>
  PROVE  FlowTyped'
<1>1. plan \in Plans /\ idx \in 0 .. 2
  BY DEF FlowTyped
<1>2. Len(plan) \in 0 .. 2
  BY <1>1, PlanShape
<1>3. CASE idx < Len(plan)
  <2>1. stage' = "refresh" /\ idx' = idx + 1
    BY <1>3 DEF NextCandidate
  <2>2. \A a, b \in 0 .. 2 : a < b => a + 1 \in 0 .. 2
    OBVIOUS
  <2>3. idx' \in 0 .. 2
    BY <1>1, <1>2, <1>3, <2>1, <2>2, Zenon
  <2> QED BY <2>1, <2>3 DEF FlowTyped, Stages
<1>4. CASE ~(idx < Len(plan))
  <2>1. stage' = "ended" /\ idx' = idx
    BY <1>4 DEF NextCandidate
  <2> QED BY <1>1, <2>1 DEF FlowTyped, Stages
<1> QED BY <1>3, <1>4

\* A candidate that failed makes way for the next one.
LEMMA PassedOver ==
  ASSUME ApprovalInv, stage \in Engaged, NextCandidate,
         UNCHANGED <<env, world, shared, facts, plan, eased, since, quote, job>>
  PROVE  ApprovalInv'
<1>1. /\ FlowTyped /\ quote \in [Routes -> QuoteType] /\ job \in [Routes -> JobType]
      /\ RateIsRecent /\ DataOK
  BY DataTyped DEF ApprovalInv
<1>2. FlowTyped'
  BY <1>1, Candidates, NextTyped
<1>3. DataOK'
  BY <1>1, <1>2, FlowData DEF RateIsRecent
<1> QED BY <1>3, NextKeeps

\* What an approved candidate is bound to is no part of what it owes.
LEMMA BoundKeeps ==
  ASSUME ApprovalInv, stage \in {"last", "candidate"}, Approved(Route), Rebound(Route),
         stage' \in {"refresh", "execute"}, stage' = "refresh" => Eased(Route),
         UNCHANGED <<env, world, shared, facts, plan, idx, eased, since, job>>
  PROVE  ApprovalInv'
<1>1. /\ FlowTyped /\ quote \in [Routes -> QuoteType] /\ job \in [Routes -> JobType]
      /\ RateIsRecent /\ DataOK
  BY DataTyped DEF ApprovalInv
<1>2. Route \in Routes /\ Owed(Route) /\ since /\ idx \in DOMAIN plan
  BY Candidates DEF Current, Engaged, Approved
<1>3. /\ quote' \in [Routes -> QuoteType]
      /\ quote'[Route].base = quote[Route].base /\ quote'[Route].due = quote[Route].due
      /\ quote'[Route].rate = quote[Route].rate /\ quote'[Route].recent = quote[Route].recent
      /\ \A s \in Routes : s # Route => quote'[s] = quote[s]
  <2>1. facts \in DOMAIN Course
    BY <1>1 DEF FlowTyped
  <2>2. \A q \in QuoteType :
          LET new == [q EXCEPT !.at = facts] IN
          /\ new \in QuoteType /\ new.base = q.base /\ new.due = q.due
          /\ new.rate = q.rate /\ new.recent = q.recent
    BY <2>1 DEF QuoteType
  <2>3. quote[Route] \in QuoteType
    BY <1>1, <1>2
  <2>4. quote' = [quote EXCEPT ![Route] = [quote[Route] EXCEPT !.at = facts]]
    BY DEF Rebound
  <2> DEFINE new == [quote[Route] EXCEPT !.at = facts]
  <2>5. /\ new \in QuoteType /\ new.base = quote[Route].base /\ new.due = quote[Route].due
        /\ new.rate = quote[Route].rate /\ new.recent = quote[Route].recent
    BY <2>2, <2>3
  <2> HIDE DEF new
  <2>6. quote' = [quote EXCEPT ![Route] = new]
    BY <2>4 DEF new
  <2> QED BY <1>1, <1>2, <2>5, <2>6
<1>4. FlowTyped'
  BY <1>1, <1>2 DEF FlowTyped, Stages
<1>5. DataOK'
  <2>1. \A s \in Routes : quote'[s].recent
    BY <1>1, <1>2, <1>3 DEF RateIsRecent
  <2> QED BY <1>1, <1>3, <1>4, <2>1, FlowData
<1>6. Route' = Route
  BY DEF Route
<1>7. Current(Route)'
  <2>1. ~Busy(Route)'
    BY <1>6 DEF Approved, Busy
  <2>2. Owed(Route)'
    BY <1>2, <1>3, <1>6 DEF Owed, Eased, Priced, Floors
  <2>3. Eased(Route) => Sound(Route)'
    BY <1>6 DEF Sound, Eased
  <2> QED BY <1>2, <2>1, <2>2, <2>3 DEF Current
<1> QED BY <1>3, <1>5, <1>7, GoesOn DEF Engaged

LEMMA AfterLastKeeps == ApprovalInv /\ AfterLast => ApprovalInv'
<1> SUFFICES ASSUME ApprovalInv, AfterLast PROVE ApprovalInv'
  OBVIOUS
<1>1. /\ stage = "last"
      /\ UNCHANGED <<env, world, shared, facts, plan, idx, eased, job, since>>
  BY DEF AfterLast
<1>2. CASE /\ Approved(Route) /\ Rebound(Route)
           /\ stage' = (IF Eased(Route) THEN "refresh" ELSE "execute")
  BY <1>1, <1>2, BoundKeeps
<1>3. CASE stage' = "ended" /\ UNCHANGED quote
  <2>1. FlowTyped /\ quote \in [Routes -> QuoteType] /\ job \in [Routes -> JobType]
        /\ RateIsRecent /\ DataOK
    BY DataTyped DEF ApprovalInv
  <2>2. FlowTyped'
    BY <1>1, <1>3, <2>1 DEF FlowTyped, Stages
  <2>3. DataOK'
    BY <1>1, <1>3, <2>1, <2>2, FlowData DEF RateIsRecent
  <2> QED BY <1>1, <1>3, <2>3, NothingClaimed
<1> QED BY <1>2, <1>3 DEF AfterLast

LEMMA AfterCandidateKeeps == ApprovalInv /\ AfterCandidate => ApprovalInv'
<1> SUFFICES ASSUME ApprovalInv, AfterCandidate PROVE ApprovalInv'
  OBVIOUS
<1>1. /\ stage = "candidate"
      /\ UNCHANGED <<env, world, shared, facts, plan, eased, job, since>>
  BY DEF AfterCandidate
<1>2. CASE Approved(Route) /\ stage' = "execute" /\ UNCHANGED idx /\ Rebound(Route)
  BY <1>1, <1>2, BoundKeeps
<1>3. CASE stage' = "ended" /\ UNCHANGED <<idx, quote>>
  <2>1. FlowTyped /\ quote \in [Routes -> QuoteType] /\ job \in [Routes -> JobType]
        /\ RateIsRecent /\ DataOK
    BY DataTyped DEF ApprovalInv
  <2>2. FlowTyped'
    BY <1>1, <1>3, <2>1 DEF FlowTyped, Stages
  <2>3. DataOK'
    BY <1>1, <1>3, <2>1, <2>2, FlowData DEF RateIsRecent
  <2> QED BY <1>1, <1>3, <2>3, NothingClaimed
<1>4. CASE NextCandidate /\ UNCHANGED quote
  BY <1>1, <1>4, PassedOver DEF Engaged
<1> QED BY <1>2, <1>3, <1>4 DEF AfterCandidate, Approved

LEMMA ExecuteKeeps == ApprovalInv /\ Execute => ApprovalInv'
<1> SUFFICES ASSUME ApprovalInv, Execute PROVE ApprovalInv'
  OBVIOUS
<1>1. /\ stage = "execute" /\ Passes(Route) /\ stage' = "sent"
      /\ UNCHANGED <<env, world, shared, facts, plan, idx, eased, quote, job, since>>
  BY DEF Execute
<1>2. /\ FlowTyped /\ quote \in [Routes -> QuoteType] /\ job \in [Routes -> JobType]
      /\ RateIsRecent /\ DataOK
  BY DataTyped DEF ApprovalInv
<1>3. FlowTyped'
  BY <1>1, <1>2 DEF FlowTyped, Stages
<1>4. DataOK'
  BY <1>1, <1>2, <1>3, FlowData DEF RateIsRecent
<1>5. ~Busy(Route) /\ Owed(Route) /\ since /\ Route \in Routes /\ Route' = Route
  BY <1>1, Candidates DEF Current, Engaged, Route
<1>6. ~Busy(Route)' /\ Owed(Route)'
  BY <1>1, <1>5 DEF Busy, Owed, Eased, Priced, Floors
<1>7. Route = "direct" => Repays(Route)'
  <2>1. SameQuote(Route)
    BY <1>1 DEF SameQuote, SameDebt
  <2>2. MinOut(Route, quote[Route])' = MinOut(Route, quote[Route])
    BY <1>1, <1>5, <2>1, MinOutKept
  <2>3. Route = "direct" =>
          MinOut(Route, quote[Route]) >= Due(Size(Route, facts), Course[facts].price)
    BY <1>1 DEF Passes
  <2> QED BY <1>1, <1>5, <2>2, <2>3 DEF Repays
<1>8. Current(Route)'
  BY <1>1, <1>5, <1>6, <1>7 DEF Current
<1> QED BY <1>1, <1>4, <1>8, GoesOn DEF Engaged

LEMMA AgainKeeps == ApprovalInv /\ Again => ApprovalInv'
<1> SUFFICES ASSUME ApprovalInv, Again PROVE ApprovalInv'
  OBVIOUS
<1>1. /\ stage' = "idle" /\ facts' = 1 /\ plan' = <<>> /\ idx' = 0 /\ eased' = FALSE
      /\ since' = FALSE /\ quote' = [r \in Routes |-> NoQuote] /\ job' = [r \in Routes |-> Off]
      /\ UNCHANGED <<env, world, shared>>
  BY DEF Again
<1>2. FlowTyped /\ DataOK
  BY DataTyped DEF ApprovalInv
<1>3. Off \in JobType /\ Off.step = "off"
  BY DEF Off, JobType, JobSteps, Whys
<1>4. /\ quote' \in [Routes -> QuoteType] /\ job' \in [Routes -> JobType]
      /\ \A r \in Routes : quote'[r].recent /\ job'[r].step = "off"
  BY <1>1, <1>3, NoQuoteTyped
<1>5. FlowTyped'
  <2>1. 1 \in DOMAIN Course
    BY ApprovalAssumption
  <2>2. <<>> \in Plans /\ "idle" \in Stages /\ "idle" # "execute"
    BY DEF Plans, Stages
  <2>3. /\ env' \in Environments /\ world' \in DOMAIN Course /\ facts' \in DOMAIN Course
    BY <1>1, <1>2, <2>1 DEF FlowTyped
  <2>4. stage' \in Stages /\ plan' \in Plans /\ stage' # "execute"
    BY <1>1, <2>2
  <2>5. eased' \in BOOLEAN /\ since' \in BOOLEAN
    BY <1>1, Zenon
  <2>6. idx' = 0 /\ 0 \in 0 .. 2
    BY <1>1
  <2>7. idx' \in 0 .. 2
    BY <2>6, Zenon
  <2> QED BY <2>3, <2>4, <2>5, <2>7 DEF FlowTyped
<1>6. DataOK'
  BY <1>1, <1>2, <1>4, <1>5, FlowData
<1> QED BY <1>1, <1>6, NothingClaimed

LEMMA ApprovalStarts == ApprovalInit => ApprovalInv
<1> SUFFICES ASSUME ApprovalInit PROVE ApprovalInv
  OBVIOUS
<1>1. /\ env \in Environments /\ world = 1 /\ asking = FALSE /\ stage = "idle" /\ facts = 1
      /\ plan = <<>> /\ idx = 0 /\ eased = FALSE /\ since = FALSE
      /\ gas = [price |-> 0, age |-> Ttl + 1] /\ cache = [k \in Keys |-> Missing]
      /\ quote = [r \in Routes |-> NoQuote] /\ job = [r \in Routes |-> Off]
  BY DEF ApprovalInit
<1>2. Off \in JobType /\ Off.step = "off"
  BY DEF Off, JobType, JobSteps, Whys
<1>3. 1 \in DOMAIN Course /\ Ttl \in Nat
  BY ApprovalAssumption
<1>4. /\ quote \in [Routes -> QuoteType] /\ job \in [Routes -> JobType]
      /\ \A r \in Routes : quote[r].recent /\ job[r].step = "off"
  BY <1>1, <1>2, NoQuoteTyped
<1>5. FlowTyped
  <2>1. <<>> \in Plans /\ "idle" \in Stages /\ "idle" # "execute"
    BY DEF Plans, Stages
  <2>2. stage \in Stages /\ plan \in Plans /\ stage # "execute"
    BY <1>1, <2>1
  <2>3. eased \in BOOLEAN /\ since \in BOOLEAN
    BY <1>1, Zenon
  <2>4. idx = 0 /\ 0 \in 0 .. 2
    BY <1>1
  <2>5. idx \in 0 .. 2
    BY <2>4, Zenon
  <2> QED BY <1>1, <1>3, <2>2, <2>3, <2>5 DEF FlowTyped
<1>6. gas \in GasType /\ ~(gas.age <= Ttl)
  BY <1>1, <1>3 DEF GasType
<1>7. cache \in CacheType /\ Dated(cache)
  BY <1>1, MissingTyped DEF CacheType, Dated
<1>8. DataOK
  BY <1>1, <1>4, <1>5, <1>6, <1>7, TypeParts DEF DataOK, PriceKnown, RateIsRecent
<1>9. PlanOK
  BY <1>1 DEF PlanOK, Engaged
<1>10. \A r \in Routes : RouteOK(r)
  BY <1>1 DEF RouteOK, Probes, Engaged
<1> QED BY <1>8, <1>9, <1>10 DEF ApprovalInv

LEMMA ApprovalStep == ApprovalInv /\ [ApprovalNext]_approvalVars => ApprovalInv'
<1> SUFFICES ASSUME ApprovalInv, [ApprovalNext]_approvalVars PROVE ApprovalInv'
  OBVIOUS
<1>1. CASE Move \/ Tick \/ StrayFetch \/ GasAnswered \/ GasFailed
  BY <1>1, MoveKeeps, TickKeeps, StrayFetchKeeps, GasAnsweredKeeps, GasFailedKeeps
<1>2. CASE \E r \in Routes : RouteStep(r) \/ ProbeTimeout(r)
  BY <1>2, RouteStepKeeps
<1>3. CASE FlowStep
  <2>1. CASE RefreshFails
    <3>1. /\ stage = "refresh" /\ NextCandidate
          /\ UNCHANGED <<env, world, shared, facts, plan, eased, since, quote, job>>
      BY <2>1 DEF RefreshFails
    <3> QED BY <3>1, PassedOver DEF Engaged
  <2>2. CASE ExecutionFails
    <3>1. /\ stage = "execute" /\ NextCandidate
          /\ UNCHANGED <<env, world, shared, facts, plan, eased, since, quote, job>>
      BY <2>2 DEF ExecutionFails
    <3> QED BY <3>1, PassedOver DEF Engaged
  <2> QED BY <1>3, <2>1, <2>2, ReadFactsKeeps, ProbeAggregatorKeeps, SelectKeeps,
             AfterFallbackKeeps, AfterApproveKeeps, RevalidateKeeps, RevalidationFailsKeeps,
             AfterLastKeeps, RefreshKeeps, AfterCandidateKeeps, ExecuteKeeps, AgainKeeps
          DEF FlowStep
<1>4. CASE UNCHANGED approvalVars
  <2>1. /\ UNCHANGED <<env, world, shared, flow, quote, job, since>>
    BY <1>4 DEF approvalVars
  <2>2. FlowTyped'
    BY <2>1, DataTyped DEF ApprovalInv, FlowTyped, flow
  <2>3. DataOK'
    BY <2>1, <2>2, DataTyped, FlowData DEF ApprovalInv, RateIsRecent
  <2> QED BY <2>1, <2>3, WorldKeeps DEF SameQuote, SameDebt, Heard
<1> QED BY <1>1, <1>2, <1>3, <1>4 DEF ApprovalNext

LEMMA ApprovalHolds == ApprovalSpec => []ApprovalInv
BY ApprovalStarts, ApprovalStep, PTL DEF ApprovalSpec

\* The state of an approval keeps its type (approval-policy.ts, gas-policy.ts).
THEOREM ApprovalTypesCorrect == ApprovalSpec => []ApprovalTypeOK
<1>1. ApprovalInv => ApprovalTypeOK
  BY DEF ApprovalInv, DataOK
<1> QED BY <1>1, ApprovalHolds, PTL

\* What is handed over covers the repayment, the gas and the floors for the facts of the
\* last read, wherever the size has not risen since it was quoted (execution.ts).
THEOREM SentTakesCoverCosts == ApprovalSpec => []SentCoversCosts
BY InvCovers, ApprovalHolds, PTL

\* The node answered with a gas price after the last read of every take that is handed
\* over (refreshDiscoveryGasPriceIfStale).
THEOREM GasHeardAfterRead == ApprovalSpec => []GasReadSinceRevalidation
<1>1. ApprovalInv => GasReadSinceRevalidation
  BY Candidates DEF GasReadSinceRevalidation, Engaged, Current
<1> QED BY <1>1, ApprovalHolds, PTL

\* No conversion outlives its time to live in the cache, however often it is touched
\* (quoteExactNativeAmountToQuote).
THEOREM RatesAreRecent == ApprovalSpec => []RateIsRecent
<1>1. ApprovalInv => RateIsRecent
  BY DEF ApprovalInv, DataOK
<1> QED BY <1>1, ApprovalHolds, PTL
=============================================================================
