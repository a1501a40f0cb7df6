----------------------------- MODULE PoolProofs -----------------------------
(***************************************************************************)
(* Proofs about Pool, for every number of applications, requests and       *)
(* processes.  The loops of the pool are recursive functions; what they    *)
(* keep true is shown by induction, and induction by looking at the least  *)
(* counterexample.                                                         *)
(***************************************************************************)
EXTENDS Pool, TLAPS, FiniteSetTheorems, NaturalsInduction, WellFoundedInduction

(* Induction and recursion.                                                 *)

\* A set of naturals has a least element.
LEMMA LeastNatural ==
  ASSUME NEW T \in SUBSET Nat, T # {}
  PROVE  \E x \in T : \A y \in T : x <= y
<1>1. PICK x \in T : \A y \in T : ~ (<<y, x>> \in OpToRel(<, Nat))
  BY NatLessThanWellFounded, WFMin, Zenon
<1>2. ASSUME NEW y \in T PROVE x <= y
  <2>1. ~ (<<y, x>> \in OpToRel(<, Nat))
    BY <1>1, Zenon
  <2>2. ~ (y < x)
    BY <2>1, Zenon DEF OpToRel
  <2> QED BY <2>2, SMTT(30)
<1> QED BY <1>2, Zenon

\* A set of indices that has 0 and the successor of each of its members has them all.
LEMMA Induction ==
  ASSUME NEW N \in Nat, NEW S, 0 \in S, \A i \in 1..N : i - 1 \in S => i \in S
  PROVE  \A i \in 0..N : i \in S
<1> DEFINE Bad == {i \in 0..N : i \notin S}
<1> SUFFICES ASSUME Bad # {} PROVE FALSE
  BY Zenon
<1>1. PICK k \in Bad : \A j \in Bad : k <= j
  <2>1. Bad \in SUBSET Nat
    OBVIOUS
  <2> QED BY <2>1, LeastNatural, Zenon
<1>2. k \in 1..N /\ k - 1 \in 0..N /\ ~ (k <= k - 1)
  BY <1>1
<1>3. k - 1 \in S
  BY <1>1, <1>2, Zenon
<1> QED BY <1>1, <1>2, <1>3, Zenon

\* The order of the names is a sequence.
LEMMA OrderFacts ==
  /\ Len(Order) \in Nat /\ \A i \in 1..Len(Order) : Order[i] \in Name
  /\ \A i, j \in 1..Len(Order) : Order[i] = Order[j] => i = j
  /\ \A n \in Name : \E i \in 1..Len(Order) : Order[i] = n
<1>1. Order \in Seq(Name) /\ IsInjective(Order)
  BY PoolAssumption
<1>2. Len(Order) \in Nat /\ DOMAIN Order = 1..Len(Order)
  BY <1>1
<1> QED BY <1>1, <1>2 DEF IsInjective, Name, Range

-----------------------------------------------------------------------------
(* The three loops.                                                         *)

\* What the i-th name adds to the sum of Pool::capacityUsedUnlocked.
CapacityOf(gs, n) == IF n \in DOMAIN gs THEN GroupCapacityUsed(gs[n]) ELSE 0
IsCapacity(f, gs, k) ==
  f = [i \in 0..k |-> IF i = 0 THEN 0 ELSE f[i - 1] + CapacityOf(gs, Order[i])]

\* The sums over the first names exist, as adding one name to a sum gives the next.
LEMMA CapacityExists ==
  ASSUME NEW gs, NEW N \in Nat
  PROVE  \E f : IsCapacity(f, gs, N)
<1> DEFINE S == {k \in 0..N : \E f : IsCapacity(f, gs, k)}
<1>1. 0 \in S
  <2> DEFINE f == [i \in 0..0 |-> 0]
  <2>1. IsCapacity(f, gs, 0)
    BY DEF IsCapacity
  <2> QED BY <2>1
<1>2. ASSUME NEW k \in 1..N, k - 1 \in S PROVE k \in S
  <2>1. PICK f : IsCapacity(f, gs, k - 1)
    BY <1>2
  <2> DEFINE g == [i \in 0..k |-> IF i = k THEN f[k - 1] + CapacityOf(gs, Order[k]) ELSE f[i]]
  <2>2. ASSUME NEW i \in 0..k
        PROVE  g[i] = IF i = 0 THEN 0 ELSE g[i - 1] + CapacityOf(gs, Order[i])
    <3>1. CASE i = k
      <4>1. i # 0 /\ i - 1 \in 0..k /\ i - 1 # k
        BY <1>2, <3>1
      <4> QED BY <3>1, <4>1
    <3>2. CASE i # k
      <4>1. i \in 0..(k - 1) /\ (i # 0 => i - 1 \in 0..k /\ i - 1 # k)
        BY <1>2, <3>2
      <4>2. f[i] = IF i = 0 THEN 0 ELSE f[i - 1] + CapacityOf(gs, Order[i])
        <5> HIDE DEF g
        <5> QED BY <2>1, <4>1, Zenon DEF IsCapacity
      <4> QED BY <3>2, <4>1, <4>2
    <3> QED BY <3>1, <3>2
  <2>3. IsCapacity(g, gs, k)
    BY <2>2 DEF IsCapacity
  <2> QED BY <1>2, <2>3
<1> HIDE DEF S
<1>3. N \in S
  BY <1>1, <1>2, Induction
<1> QED BY <1>3 DEF S

\* Pool::capacityUsedUnlocked adds the names one by one.
LEMMA CapacityLoop ==
  ASSUME NEW gs
  PROVE  /\ CapacityUpTo(gs)[0] = 0
         /\ \A i \in 1..Len(Order) :
              CapacityUpTo(gs)[i] = CapacityUpTo(gs)[i - 1] + CapacityOf(gs, Order[i])
<1> DEFINE F == CapacityUpTo(gs)
<1>1. PICK f : IsCapacity(f, gs, Len(Order))
  BY CapacityExists, OrderFacts
<1>2. IsCapacity(F, gs, Len(Order))
  BY <1>1, Zenon DEF IsCapacity, CapacityUpTo, CapacityOf
<1> HIDE DEF F
<1>3. \A i \in 0..Len(Order) : F[i] = IF i = 0 THEN 0 ELSE F[i - 1] + CapacityOf(gs, Order[i])
  BY <1>2, Zenon DEF IsCapacity
<1>4. 0 \in 0..Len(Order) /\ \A i \in 1..Len(Order) : i \in 0..Len(Order) /\ i # 0
  BY OrderFacts
<1>5. F[0] = 0 /\ \A i \in 1..Len(Order) : F[i] = F[i - 1] + CapacityOf(gs, Order[i])
  BY <1>3, <1>4, Zenon
<1> QED BY <1>5 DEF F

IsSpawnTurns(f, gs, mx, first, k) ==
  f = [i \in 0..k |-> IF i = 0 THEN gs ELSE SpawnTurn(f[i - 1], mx, Order[i], first)]

\* The loops of Pool::possiblySpawnMoreProcessesForExistingGroups end.
LEMMA SpawnTurnsExists ==
  ASSUME NEW gs, NEW mx, NEW first, NEW N \in Nat
  PROVE  \E f : IsSpawnTurns(f, gs, mx, first, N)
<1> DEFINE S == {k \in 0..N : \E f : IsSpawnTurns(f, gs, mx, first, k)}
<1>1. 0 \in S
  <2> DEFINE f == [i \in 0..0 |-> gs]
  <2>1. IsSpawnTurns(f, gs, mx, first, 0)
    BY DEF IsSpawnTurns
  <2> QED BY <2>1
<1>2. ASSUME NEW k \in 1..N, k - 1 \in S PROVE k \in S
  <2>1. PICK f : IsSpawnTurns(f, gs, mx, first, k - 1)
    BY <1>2
  <2> DEFINE g == [i \in 0..k |-> IF i = k THEN SpawnTurn(f[k - 1], mx, Order[k], first) ELSE f[i]]
  <2>2. ASSUME NEW i \in 0..k
        PROVE  g[i] = IF i = 0 THEN gs ELSE SpawnTurn(g[i - 1], mx, Order[i], first)
    <3>1. CASE i = k
      <4>1. i # 0 /\ i - 1 \in 0..k /\ i - 1 # k
        BY <1>2, <3>1
      <4> QED BY <3>1, <4>1
    <3>2. CASE i # k
      <4>1. i \in 0..(k - 1) /\ (i # 0 => i - 1 \in 0..k /\ i - 1 # k)
        BY <1>2, <3>2
      <4>2. f[i] = IF i = 0 THEN gs ELSE SpawnTurn(f[i - 1], mx, Order[i], first)
        <5> HIDE DEF g
        <5> QED BY <2>1, <4>1, Zenon DEF IsSpawnTurns
      <4> QED BY <3>2, <4>1, <4>2
    <3> QED BY <3>1, <3>2
  <2>3. IsSpawnTurns(g, gs, mx, first, k)
    BY <2>2 DEF IsSpawnTurns
  <2> QED BY <1>2, <2>3
<1> HIDE DEF S
<1>3. N \in S
  BY <1>1, <1>2, Induction
<1> QED BY <1>3 DEF S

\* Those loops take one turn for each name.
LEMMA SpawnTurnsLoop ==
  ASSUME NEW gs, NEW mx, NEW first
  PROVE  /\ SpawnTurns(gs, mx, first)[0] = gs
         /\ \A i \in 1..Len(Order) :
              SpawnTurns(gs, mx, first)[i] = SpawnTurn(SpawnTurns(gs, mx, first)[i - 1], mx, Order[i], first)
<1> DEFINE F == SpawnTurns(gs, mx, first)
<1>1. PICK f : IsSpawnTurns(f, gs, mx, first, Len(Order))
  BY SpawnTurnsExists, OrderFacts, Zenon
<1>2. IsSpawnTurns(F, gs, mx, first, Len(Order))
  BY <1>1, Zenon DEF IsSpawnTurns, SpawnTurns
<1> HIDE DEF F
<1>3. \A i \in 0..Len(Order) : F[i] = IF i = 0 THEN gs ELSE SpawnTurn(F[i - 1], mx, Order[i], first)
  BY <1>2, Zenon DEF IsSpawnTurns
<1>4. 0 \in 0..Len(Order) /\ \A i \in 1..Len(Order) : i \in 0..Len(Order) /\ i # 0
  BY OrderFacts
<1>5. F[0] = gs /\ \A i \in 1..Len(Order) : F[i] = SpawnTurn(F[i - 1], mx, Order[i], first)
  BY <1>3, <1>4, Zenon
<1> QED BY <1>5 DEF F

IsServeWaiters(f, gs, mx, list, k) ==
  f = [i \in 0..k |-> IF i = 0 THEN {[groups |-> gs, waitlist |-> list]}
                      ELSE UNION {ServeWaiter(st, mx, getWaitlist[i]) : st \in f[i - 1]}]

\* The loop of Pool::assignSessionsToGetWaiters ends.
LEMMA ServeWaitersExists ==
  ASSUME NEW gs, NEW mx, NEW list, NEW N \in Nat
  PROVE  \E f : IsServeWaiters(f, gs, mx, list, N)
<1> DEFINE S == {k \in 0..N : \E f : IsServeWaiters(f, gs, mx, list, k)}
<1>1. 0 \in S
  <2> DEFINE f == [i \in 0..0 |-> {[groups |-> gs, waitlist |-> list]}]
  <2>1. IsServeWaiters(f, gs, mx, list, 0)
    BY DEF IsServeWaiters
  <2> QED BY <2>1
<1>2. ASSUME NEW k \in 1..N, k - 1 \in S PROVE k \in S
  <2>1. PICK f : IsServeWaiters(f, gs, mx, list, k - 1)
    BY <1>2
  <2> DEFINE g == [i \in 0..k |-> IF i = k THEN UNION {ServeWaiter(st, mx, getWaitlist[k]) : st \in f[k - 1]} ELSE f[i]]
  <2>2. ASSUME NEW i \in 0..k
        PROVE  g[i] = IF i = 0 THEN {[groups |-> gs, waitlist |-> list]} ELSE UNION {ServeWaiter(st, mx, getWaitlist[i]) : st \in g[i - 1]}
    <3>1. CASE i = k
      <4>1. i # 0 /\ i - 1 \in 0..k /\ i - 1 # k
        BY <1>2, <3>1
      <4> QED BY <3>1, <4>1
    <3>2. CASE i # k
      <4>1. i \in 0..(k - 1) /\ (i # 0 => i - 1 \in 0..k /\ i - 1 # k)
        BY <1>2, <3>2
      <4>2. f[i] = IF i = 0 THEN {[groups |-> gs, waitlist |-> list]} ELSE UNION {ServeWaiter(st, mx, getWaitlist[i]) : st \in f[i - 1]}
        <5> HIDE DEF g
        <5> QED BY <2>1, <4>1, Zenon DEF IsServeWaiters
      <4> QED BY <3>2, <4>1, <4>2, Zenon
    <3> QED BY <3>1, <3>2
  <2>3. IsServeWaiters(g, gs, mx, list, k)
    BY <2>2, Zenon DEF IsServeWaiters
  <2> QED BY <1>2, <2>3
<1> HIDE DEF S
<1>3. N \in S
  BY <1>1, <1>2, Induction
<1> QED BY <1>3 DEF S

\* That loop takes one turn for each request of the wait list.
LEMMA ServeWaitersLoop ==
  ASSUME NEW gs, NEW mx, NEW list, Len(getWaitlist) \in Nat
  PROVE  /\ ServeWaiters(gs, mx, list)[0] = {[groups |-> gs, waitlist |-> list]}
         /\ \A i \in 1..Len(getWaitlist) :
              ServeWaiters(gs, mx, list)[i] = UNION {ServeWaiter(st, mx, getWaitlist[i]) : st \in ServeWaiters(gs, mx, list)[i - 1]}
<1> DEFINE F == ServeWaiters(gs, mx, list)
<1>1. PICK f : IsServeWaiters(f, gs, mx, list, Len(getWaitlist))
  BY ServeWaitersExists
<1>2. IsServeWaiters(F, gs, mx, list, Len(getWaitlist))
  BY <1>1, Zenon DEF IsServeWaiters, ServeWaiters
<1> HIDE DEF F
<1>3. \A i \in 0..Len(getWaitlist) : F[i] = IF i = 0 THEN {[groups |-> gs, waitlist |-> list]} ELSE UNION {ServeWaiter(st, mx, getWaitlist[i]) : st \in F[i - 1]}
  BY <1>2, Zenon DEF IsServeWaiters
<1>4. 0 \in 0..Len(getWaitlist) /\ \A i \in 1..Len(getWaitlist) : i \in 0..Len(getWaitlist) /\ i # 0
  OBVIOUS
<1>5. F[0] = {[groups |-> gs, waitlist |-> list]} /\ \A i \in 1..Len(getWaitlist) : F[i] = UNION {ServeWaiter(st, mx, getWaitlist[i]) : st \in F[i - 1]}
  BY <1>3, <1>4, Zenon
<1> QED BY <1>5 DEF F
-----------------------------------------------------------------------------
(* The capacity used.                                                       *)

\* The sum over the names is a natural number if each of its terms is one.
LEMMA CapacityNat ==
  ASSUME NEW gs, \A n \in Name : CapacityOf(gs, n) \in Nat
  PROVE  /\ \A i \in 0..Len(Order) : CapacityUpTo(gs)[i] \in Nat
         /\ CapacityUsed(gs) \in Nat
<1> DEFINE F == CapacityUpTo(gs)
           S == {i \in 0..Len(Order) : F[i] \in Nat}
<1>1. F[0] = 0 /\ \A i \in 1..Len(Order) : F[i] = F[i - 1] + CapacityOf(gs, Order[i])
  BY CapacityLoop, Zenon
<1> HIDE DEF F
<1>2. 0 \in S
  BY <1>1, OrderFacts
<1>3. ASSUME NEW i \in 1..Len(Order), i - 1 \in S PROVE i \in S
  <2>1. CapacityOf(gs, Order[i]) \in Nat /\ F[i - 1] \in Nat /\ i \in 0..Len(Order)
    BY <1>3, OrderFacts
  <2> QED BY <1>1, <2>1
<1>4. \A i \in 0..Len(Order) : i \in S
  <2> HIDE DEF S
  <2> QED BY <1>2, <1>3, OrderFacts, Induction, Zenon
<1>5. Len(Order) \in 0..Len(Order)
  BY OrderFacts
<1> QED BY <1>4, <1>5 DEF F, CapacityUsed

\* The capacity does not grow if no group's does.
LEMMA CapacityMonotone ==
  ASSUME NEW gs, NEW hs,
         \A n \in Name : CapacityOf(gs, n) \in Nat /\ CapacityOf(hs, n) \in Nat,
         \A n \in Name : CapacityOf(hs, n) <= CapacityOf(gs, n)
  PROVE  CapacityUsed(hs) <= CapacityUsed(gs)
<1> DEFINE F == CapacityUpTo(gs)
           G == CapacityUpTo(hs)
           S == {i \in 0..Len(Order) : G[i] <= F[i]}
<1>1. /\ F[0] = 0 /\ \A i \in 1..Len(Order) : F[i] = F[i - 1] + CapacityOf(gs, Order[i])
      /\ G[0] = 0 /\ \A i \in 1..Len(Order) : G[i] = G[i - 1] + CapacityOf(hs, Order[i])
  BY CapacityLoop, Zenon
<1>2. \A i \in 0..Len(Order) : F[i] \in Nat /\ G[i] \in Nat
  BY CapacityNat, Zenon
<1> HIDE DEF F, G
<1>3. 0 \in S
  BY <1>1, OrderFacts
<1>4. ASSUME NEW i \in 1..Len(Order), i - 1 \in S PROVE i \in S
  <2>1. /\ CapacityOf(gs, Order[i]) \in Nat /\ CapacityOf(hs, Order[i]) \in Nat
        /\ CapacityOf(hs, Order[i]) <= CapacityOf(gs, Order[i])
    BY OrderFacts, Zenon
  <2>2. i \in 0..Len(Order) /\ i - 1 \in 0..Len(Order) /\ G[i - 1] <= F[i - 1]
    BY <1>4, OrderFacts
  <2>3. /\ F[i] = F[i - 1] + CapacityOf(gs, Order[i]) /\ G[i] = G[i - 1] + CapacityOf(hs, Order[i])
        /\ F[i - 1] \in Nat /\ G[i - 1] \in Nat
    BY <1>1, <1>2, <2>2, Zenon
  <2>4. G[i] <= F[i]
    BY <2>1, <2>2, <2>3
  <2> QED BY <2>2, <2>4, Zenon
<1>5. \A i \in 0..Len(Order) : i \in S
  <2> HIDE DEF S
  <2> QED BY <1>3, <1>4, OrderFacts, Induction, Zenon
<1>6. Len(Order) \in 0..Len(Order)
  BY OrderFacts
<1> QED BY <1>5, <1>6 DEF F, G, CapacityUsed

\* When only group n changes, the capacity changes by what n's does: n is visited once.
LEMMA CapacityChange ==
  ASSUME NEW gs, NEW hs, NEW n \in Name,
         \A m \in Name : CapacityOf(gs, m) \in Nat /\ CapacityOf(hs, m) \in Nat,
         \A m \in Name \ {n} : CapacityOf(hs, m) = CapacityOf(gs, m)
  PROVE  CapacityUsed(hs) = CapacityUsed(gs) + CapacityOf(hs, n) - CapacityOf(gs, n)
<1> DEFINE F == CapacityUpTo(gs)
           G == CapacityUpTo(hs)
           Diff == CapacityOf(hs, n) - CapacityOf(gs, n)
<1>1. PICK p \in 1..Len(Order) : Order[p] = n
  BY OrderFacts, Zenon
<1> DEFINE S == {i \in 0..Len(Order) : G[i] = F[i] + (IF p <= i THEN Diff ELSE 0)}
<1>2. /\ F[0] = 0 /\ \A i \in 1..Len(Order) : F[i] = F[i - 1] + CapacityOf(gs, Order[i])
      /\ G[0] = 0 /\ \A i \in 1..Len(Order) : G[i] = G[i - 1] + CapacityOf(hs, Order[i])
  BY CapacityLoop, Zenon
<1>3. \A i \in 0..Len(Order) : F[i] \in Nat /\ G[i] \in Nat
  BY CapacityNat, Zenon
<1>4. Diff \in Int /\ CapacityOf(hs, n) = CapacityOf(gs, n) + Diff
  <2>1. CapacityOf(gs, n) \in Nat /\ CapacityOf(hs, n) \in Nat
    BY Zenon
  <2> QED BY <2>1
<1> HIDE DEF F, G, Diff
<1>5. 0 \in S
  <2>1. 0 \in 0..Len(Order) /\ ~ (p <= 0)
    BY OrderFacts
  <2> QED BY <1>2, <2>1
<1>6. ASSUME NEW i \in 1..Len(Order), i - 1 \in S PROVE i \in S
  <2>1. CapacityOf(gs, Order[i]) \in Nat /\ CapacityOf(hs, Order[i]) \in Nat
    BY OrderFacts, Zenon
  <2>2. /\ i \in 0..Len(Order) /\ i - 1 \in 0..Len(Order)
        /\ G[i - 1] = F[i - 1] + (IF p <= i - 1 THEN Diff ELSE 0)
    BY <1>6, OrderFacts
  <2>5. /\ F[i] = F[i - 1] + CapacityOf(gs, Order[i]) /\ G[i] = G[i - 1] + CapacityOf(hs, Order[i])
        /\ F[i - 1] \in Nat /\ G[i - 1] \in Nat
    BY <1>2, <1>3, <2>2, Zenon
  <2> SUFFICES G[i] = F[i] + (IF p <= i THEN Diff ELSE 0)
    BY <2>2, Zenon
  <2> HIDE DEF S
  <2>3. CASE i = p
    <3>1. CapacityOf(hs, Order[i]) = CapacityOf(gs, Order[i]) + Diff
      BY <1>1, <1>4, <2>3, Zenon
    <3> QED BY <1>4, <2>1, <2>2, <2>3, <2>5, <3>1
  <2>4. CASE i # p
    <3>1. CapacityOf(hs, Order[i]) = CapacityOf(gs, Order[i])
      <4>1. Order[i] \in Name \ {n}
        BY <1>1, <2>4, OrderFacts, Zenon
      <4> QED BY <4>1, Zenon
    <3>2. CASE p <= i
      <4>1. p <= i - 1
        BY <2>4, <3>2
      <4> QED BY <1>4, <2>1, <2>2, <2>5, <3>1, <3>2, <4>1
    <3>3. CASE ~ (p <= i)
      <4>1. ~ (p <= i - 1)
        BY <3>3
      <4> QED BY <1>4, <2>1, <2>2, <2>5, <3>1, <3>3, <4>1
    <3> QED BY <3>2, <3>3
  <2> QED BY <2>3, <2>4
<1>7. \A i \in 0..Len(Order) : i \in S
  <2> HIDE DEF S
  <2> QED BY <1>5, <1>6, OrderFacts, Induction, Zenon
<1>8. Len(Order) \in 0..Len(Order) /\ p <= Len(Order)
  BY OrderFacts
<1>9. G[Len(Order)] = F[Len(Order)] + Diff
  BY <1>7, <1>8
<1>10. F[Len(Order)] \in Nat /\ CapacityOf(gs, n) \in Nat /\ CapacityOf(hs, n) \in Nat
  BY <1>3, <1>8, Zenon
<1> QED BY <1>9, <1>10 DEF F, G, Diff, CapacityUsed

-----------------------------------------------------------------------------
(* What the functions of the pool keep true of the groups.                  *)

\* A group between two steps of a critical section.  The spawn loop of a group in flight
\* has taken the process it spawned off processesBeingSpawned and still runs.
GroupOK(g, inFlight) ==
  /\ g \in Group
  /\ g.processesBeingSpawned = IF g.spawning /\ ~inFlight THEN 1 ELSE 0
  /\ inFlight => g.spawning
  /\ g.restarting => g.idle = 0 /\ ~g.spawning /\ g.sessions = {}
  /\ g.idle > 0 => g.waiters \subseteq StickyRequests

\* The groups; X are those in flight, at most one.
GroupsOK(gs, X) ==
  /\ DOMAIN gs \subseteq Name /\ X \subseteq DOMAIN gs
  /\ \A n \in DOMAIN gs : GroupOK(gs[n], n \in X)

\* A request has a session or waits, in one group and not both.
In(gs, n, r) == r \in gs[n].sessions \/ r \in gs[n].waiters
Once(gs) ==
  \A n \in DOMAIN gs, r \in Request :
    /\ ~ (r \in gs[n].sessions /\ r \in gs[n].waiters)
    /\ \A m \in DOMAIN gs : In(gs, n, r) /\ In(gs, m, r) => n = m
Absent(gs, r) == \A n \in DOMAIN gs : ~In(gs, n, r)

\* hs are gs but for group n.
Updates(gs, hs, n) ==
  /\ n \in DOMAIN gs /\ DOMAIN hs = DOMAIN gs
  /\ \A m \in DOMAIN gs \ {n} : hs[m] = gs[m]

SameRequests(gs, hs) ==
  /\ DOMAIN hs = DOMAIN gs
  /\ \A n \in DOMAIN gs : hs[n].sessions = gs[n].sessions /\ hs[n].waiters = gs[n].waiters

\* The capacity did not grow, or is within the maximum.
Within(gs, hs, mx) == CapacityUsed(hs) <= CapacityUsed(gs) \/ CapacityUsed(hs) <= mx

\* The counts of a group are natural numbers.
LEMMA GroupNat ==
  ASSUME NEW g \in Group
  PROVE  /\ g.idle \in Nat /\ g.processesBeingSpawned \in Nat
         /\ IsFiniteSet(g.sessions) /\ Cardinality(g.sessions) \in Nat
         /\ IsFiniteSet(g.waiters) /\ Cardinality(g.waiters) \in Nat
         /\ EnabledCount(g) \in Nat /\ GroupCapacityUsed(g) \in Nat
<1>1. /\ g.idle \in Nat /\ g.processesBeingSpawned \in Nat
      /\ g.sessions \subseteq Request /\ g.waiters \subseteq Request
  BY DEF Group
<1>2. IsFiniteSet(Request)
  BY PoolAssumption
<1>3. IsFiniteSet(g.sessions) /\ IsFiniteSet(g.waiters)
  BY <1>1, <1>2, FS_Subset, Zenon
<1>4. Cardinality(g.sessions) \in Nat /\ Cardinality(g.waiters) \in Nat
  BY <1>3, FS_CardinalityType, Zenon
<1> QED BY <1>1, <1>3, <1>4 DEF EnabledCount, GroupCapacityUsed

\* What each name adds to the capacity is a natural number.
LEMMA CapacityOfNat ==
  ASSUME NEW gs, NEW X, GroupsOK(gs, X)
  PROVE  /\ \A n \in Name : CapacityOf(gs, n) \in Nat
         /\ CapacityUsed(gs) \in Nat
<1>1. ASSUME NEW n \in Name PROVE CapacityOf(gs, n) \in Nat
  <2>1. CASE n \in DOMAIN gs
    <3>1. gs[n] \in Group
      BY <2>1, Zenon DEF GroupsOK, GroupOK
    <3>2. GroupCapacityUsed(gs[n]) \in Nat
      BY <3>1, GroupNat, Zenon
    <3> QED BY <2>1, <3>2 DEF CapacityOf
  <2>2. CASE n \notin DOMAIN gs
    BY <2>2 DEF CapacityOf
  <2> QED BY <2>1, <2>2
<1>2. \A n \in Name : CapacityOf(gs, n) \in Nat
  BY <1>1, Zenon
<1>3. CapacityUsed(gs) \in Nat
  BY <1>2, CapacityNat, Zenon
<1> QED BY <1>2, <1>3

\* A step that changes one group is right if that group is.
LEMMA UpdateOK ==
  ASSUME NEW gs, NEW hs, NEW X, NEW Y, NEW n, GroupsOK(gs, X), Updates(gs, hs, n),
         Y \subseteq X \cup {n}, X \subseteq Y \cup {n}, GroupOK(hs[n], n \in Y)
  PROVE  /\ GroupsOK(hs, Y)
         /\ CapacityUsed(hs) = CapacityUsed(gs) + GroupCapacityUsed(hs[n])
                                                - GroupCapacityUsed(gs[n])
<1>1. GroupsOK(hs, Y)
  <2>1. DOMAIN hs \subseteq Name /\ Y \subseteq DOMAIN hs
    BY DEF GroupsOK, Updates
  <2>2. ASSUME NEW m \in DOMAIN hs PROVE GroupOK(hs[m], m \in Y)
    <3>1. CASE m = n
      BY <3>1, Zenon
    <3>2. CASE m # n
      <4>1. hs[m] = gs[m] /\ GroupOK(gs[m], m \in X)
        BY <2>2, <3>2, Zenon DEF GroupsOK, Updates
      <4>2. CASE m \in X
        <5>1. m \in Y
          BY <3>2, <4>2
        <5>2. (m \in Y) = (m \in X)
          BY <5>1, <4>2
        <5> QED BY <4>1, <5>2, Zenon
      <4>3. CASE m \notin X
        <5>1. m \notin Y
          BY <3>2, <4>3
        <5>2. (m \in Y) = (m \in X)
          BY <5>1, <4>3
        <5> QED BY <4>1, <5>2, Zenon
      <4> QED BY <4>2, <4>3
    <3> QED BY <3>1, <3>2
  <2> QED BY <2>1, <2>2, Zenon DEF GroupsOK
<1>2. n \in Name /\ n \in DOMAIN gs /\ n \in DOMAIN hs
  BY DEF GroupsOK, Updates
<1>3. /\ \A m \in Name : CapacityOf(gs, m) \in Nat /\ CapacityOf(hs, m) \in Nat
      /\ \A m \in Name \ {n} : CapacityOf(hs, m) = CapacityOf(gs, m)
  <2>1. \A m \in Name : CapacityOf(gs, m) \in Nat /\ CapacityOf(hs, m) \in Nat
    BY <1>1, CapacityOfNat, Zenon
  <2>2. ASSUME NEW m \in Name \ {n} PROVE CapacityOf(hs, m) = CapacityOf(gs, m)
    BY Zenon DEF CapacityOf, Updates
  <2> QED BY <2>1, <2>2, Zenon
<1>4. CapacityUsed(hs) = CapacityUsed(gs) + CapacityOf(hs, n) - CapacityOf(gs, n)
  BY <1>2, <1>3, CapacityChange, Zenon
<1>5. CapacityOf(hs, n) = GroupCapacityUsed(hs[n]) /\ CapacityOf(gs, n) = GroupCapacityUsed(gs[n])
  BY <1>2, Zenon DEF CapacityOf
<1> QED BY <1>1, <1>4, <1>5, Zenon

\* Group::spawn counts one process for a group that was not spawning, within the limit.
LEMMA SpawnOK ==
  ASSUME NEW gs, NEW X, NEW n \in DOMAIN gs, NEW mx \in Nat, GroupsOK(gs, X)
  PROVE  /\ GroupsOK(Spawn(gs, mx, n), X)
         /\ SameRequests(gs, Spawn(gs, mx, n))
         /\ Within(gs, Spawn(gs, mx, n), mx)
<1>0. GroupOK(gs[n], n \in X) /\ gs[n] \in Group /\ CapacityUsed(gs) \in Nat
  BY CapacityOfNat, Zenon DEF GroupsOK, GroupOK
<1>1. CASE CanSpawn(gs, mx, n)
  <2> DEFINE hs == [gs EXCEPT ![n].spawning = TRUE, ![n].processesBeingSpawned = @ + 1]
             h == [gs[n] EXCEPT !.spawning = TRUE, !.processesBeingSpawned = @ + 1]
  <2>1. Spawn(gs, mx, n) = hs
    BY <1>1 DEF Spawn
  <2>2. Updates(gs, hs, n) /\ hs[n] = h
    BY DEF Updates
  <2>3. ~gs[n].spawning /\ ~gs[n].restarting /\ ~ (CapacityUsed(gs) >= mx)
    BY <1>1, Zenon DEF CanSpawn, AtFullCapacity
  <2>4. /\ h \in Group /\ h.spawning = TRUE /\ h.processesBeingSpawned = gs[n].processesBeingSpawned + 1
        /\ h.restarting = gs[n].restarting
        /\ h.sessions = gs[n].sessions /\ h.waiters = gs[n].waiters /\ h.idle = gs[n].idle
    <3>1. h \in Group
      <4>1. [gs[n] EXCEPT !.spawning = TRUE] \in Group
        BY <1>0, Zenon DEF Group
      <4>2. gs[n].processesBeingSpawned + 1 \in Nat
        BY <1>0 DEF Group
      <4> QED BY <4>1, <4>2, Zenon DEF Group
    <3>2. /\ h.processesBeingSpawned = gs[n].processesBeingSpawned + 1
          /\ h.sessions = gs[n].sessions /\ h.waiters = gs[n].waiters /\ h.idle = gs[n].idle
      BY <1>0 DEF Group
    <3>3. h.spawning = TRUE
      BY <1>0 DEF Group
    <3>4. h.restarting = gs[n].restarting
      BY <1>0 DEF Group
    <3> QED BY <3>1, <3>2, <3>3, <3>4, Zenon
  <2>5. n \notin X
    BY <1>0, <2>3, Zenon DEF GroupOK
  <2>6. GroupOK(h, n \in X) /\ GroupCapacityUsed(h) = GroupCapacityUsed(gs[n]) + 1
    <3> HIDE DEF h
    <3>1. gs[n].processesBeingSpawned = 0 /\ (gs[n].idle > 0 => gs[n].waiters \subseteq StickyRequests)
      BY <1>0, <2>3, <2>5 DEF GroupOK
    <3>2. GroupOK(h, n \in X)
      BY <2>3, <2>4, <2>5, <3>1 DEF GroupOK
    <3>3. EnabledCount(h) = EnabledCount(gs[n]) /\ EnabledCount(gs[n]) \in Nat
      BY <1>0, <2>4, GroupNat, Zenon DEF EnabledCount
    <3> QED BY <2>4, <3>1, <3>2, <3>3 DEF GroupCapacityUsed
  <2> HIDE DEF hs, h
  <2>7. /\ GroupsOK(hs, X)
        /\ CapacityUsed(hs) = CapacityUsed(gs) + GroupCapacityUsed(h) - GroupCapacityUsed(gs[n])
    <3>1. X \subseteq X \cup {n} /\ GroupOK(hs[n], n \in X)
      BY <2>2, <2>6
    <3>2. /\ GroupsOK(hs, X)
          /\ CapacityUsed(hs) = CapacityUsed(gs) + GroupCapacityUsed(hs[n])
                                                 - GroupCapacityUsed(gs[n])
      BY <2>2, <3>1, UpdateOK
    <3> QED BY <2>2, <3>2
  <2>8. GroupCapacityUsed(gs[n]) \in Nat
    BY <1>0, GroupNat, Zenon
  <2>9. CapacityUsed(hs) <= mx
    BY <1>0, <2>3, <2>6, <2>7, <2>8
  <2>10. SameRequests(gs, hs)
    BY <2>2, <2>4, Zenon DEF SameRequests, Updates
  <2> QED BY <2>1, <2>7, <2>9, <2>10, Zenon DEF Within
<1>2. CASE ~CanSpawn(gs, mx, n)
  <2>1. Spawn(gs, mx, n) = gs
    BY <1>2, Zenon DEF Spawn
  <2>2. CapacityUsed(gs) <= CapacityUsed(gs)
    BY <1>0
  <2> QED BY <2>1, <2>2, Zenon DEF SameRequests, Within
<1> QED BY <1>1, <1>2

\* Pool::forceFreeCapacity takes one idle process.
LEMMA ForceFreeOK ==
  ASSUME NEW gs, NEW X, NEW E, NEW f \in ForceFreeCapacity(gs, E), GroupsOK(gs, X)
  PROVE  /\ GroupsOK(f, X)
         /\ SameRequests(gs, f)
         /\ CapacityUsed(f) <= CapacityUsed(gs)
<1>1. PICK n \in DOMAIN gs : gs[n].idle > 0 /\ f = [gs EXCEPT ![n].idle = @ - 1]
  BY DEF ForceFreeCapacity
<1>0. GroupOK(gs[n], n \in X) /\ gs[n] \in Group /\ CapacityUsed(gs) \in Nat
  BY CapacityOfNat, Zenon DEF GroupsOK, GroupOK
<1> DEFINE h == [gs[n] EXCEPT !.idle = @ - 1]
<1>2. Updates(gs, f, n) /\ f[n] = h
  BY <1>1 DEF Updates
<1>3. /\ h \in Group /\ h.spawning = gs[n].spawning /\ h.restarting = gs[n].restarting
      /\ h.processesBeingSpawned = gs[n].processesBeingSpawned
      /\ h.sessions = gs[n].sessions /\ h.waiters = gs[n].waiters /\ h.idle = gs[n].idle - 1
  BY <1>0, <1>1 DEF Group
<1> HIDE DEF h
<1>4. GroupOK(h, n \in X)
  BY <1>0, <1>1, <1>3 DEF GroupOK
<1>5. GroupCapacityUsed(h) = GroupCapacityUsed(gs[n]) - 1 /\ GroupCapacityUsed(gs[n]) \in Nat
  BY <1>0, <1>3, GroupNat DEF EnabledCount, GroupCapacityUsed
<1>6. /\ GroupsOK(f, X)
      /\ CapacityUsed(f) = CapacityUsed(gs) + GroupCapacityUsed(h) - GroupCapacityUsed(gs[n])
  <2>1. X \subseteq X \cup {n} /\ GroupOK(f[n], n \in X)
    BY <1>2, <1>4
  <2>2. /\ GroupsOK(f, X)
        /\ CapacityUsed(f) = CapacityUsed(gs) + GroupCapacityUsed(f[n])
                                              - GroupCapacityUsed(gs[n])
    BY <1>2, <2>1, UpdateOK
  <2> QED BY <1>2, <2>2
<1>7. CapacityUsed(f) <= CapacityUsed(gs)
  BY <1>0, <1>5, <1>6
<1>8. SameRequests(gs, f)
  BY <1>2, <1>3, Zenon DEF SameRequests, Updates
<1> QED BY <1>6, <1>7, <1>8, Zenon

\* Keeping within the maximum and keeping the requests are transitive.
LEMMA WithinTransitive ==
  ASSUME NEW fs, NEW gs, NEW hs, NEW X, NEW Y, NEW Z, NEW mx \in Nat,
         GroupsOK(fs, X), GroupsOK(gs, Y), GroupsOK(hs, Z), Within(fs, gs, mx), Within(gs, hs, mx)
  PROVE  Within(fs, hs, mx)
<1>1. CapacityUsed(fs) \in Nat /\ CapacityUsed(gs) \in Nat /\ CapacityUsed(hs) \in Nat
  BY CapacityOfNat, Zenon
<1> QED BY <1>1 DEF Within

\* The spawning part of Group::get.
LEMMA SpawnForGetOK ==
  ASSUME NEW gs, NEW X, NEW n \in DOMAIN gs, NEW mx \in Nat, GroupsOK(gs, X),
         NEW f \in SpawnForGet(gs, mx, n)
  PROVE  GroupsOK(f, X) /\ SameRequests(gs, f) /\ Within(gs, f, mx)
<1>0. CapacityUsed(gs) \in Nat /\ CapacityUsed(gs) <= CapacityUsed(gs)
  <2>1. CapacityUsed(gs) \in Nat
    BY CapacityOfNat, Zenon
  <2> QED BY <2>1
<1>1. \/ f = gs \/ f = Spawn(gs, mx, n)
      \/ \E e \in ForceFreeCapacity(gs, {n}) : f = Spawn(e, mx, n)
  BY Zenon DEF SpawnForGet
<1>2. CASE f = gs
  BY <1>0, <1>2, Zenon DEF SameRequests, Within
<1>3. CASE f = Spawn(gs, mx, n)
  BY <1>3, SpawnOK, Zenon
<1>4. CASE \E e \in ForceFreeCapacity(gs, {n}) : f = Spawn(e, mx, n)
  <2>1. PICK e \in ForceFreeCapacity(gs, {n}) : f = Spawn(e, mx, n)
    BY <1>4, Zenon
  <2>2. GroupsOK(e, X) /\ SameRequests(gs, e) /\ Within(gs, e, mx)
    BY ForceFreeOK, Zenon DEF Within
  <2>3. n \in DOMAIN e
    BY <2>2, Zenon DEF SameRequests
  <2>4. GroupsOK(f, X) /\ SameRequests(e, f) /\ Within(e, f, mx)
    BY <2>1, <2>2, <2>3, SpawnOK, Zenon
  <2>5. SameRequests(gs, f)
    BY <2>2, <2>4, Zenon DEF SameRequests
  <2> QED BY <2>2, <2>4, <2>5, WithinTransitive, Zenon
<1> QED BY <1>1, <1>2, <1>3, <1>4

\* Putting an absent request in one place of one group leaves every request in one place.
LEMMA PlacedOK ==
  ASSUME NEW gs, NEW hs, NEW n, NEW r \in Request, Updates(gs, hs, n), Once(gs), Absent(gs, r),
         \/ hs[n].sessions = gs[n].sessions \cup {r} /\ hs[n].waiters = gs[n].waiters
         \/ hs[n].sessions = gs[n].sessions /\ hs[n].waiters = gs[n].waiters \cup {r}
  PROVE  /\ Once(hs)
         /\ \A q \in Request \ {r} : Absent(gs, q) => Absent(hs, q)
<1>1. \A m \in DOMAIN hs, q \in Request \ {r} :
        /\ (q \in hs[m].sessions) = (q \in gs[m].sessions)
        /\ (q \in hs[m].waiters) = (q \in gs[m].waiters)
  BY DEF Updates
<1>2. \A m \in DOMAIN hs : In(hs, m, r) => m = n
  BY Zenon DEF Updates, Absent, In
<1>3. ~ (r \in hs[n].sessions /\ r \in hs[n].waiters)
  BY DEF Updates, Absent, In
<1>4. DOMAIN hs = DOMAIN gs
  BY DEF Updates
<1>5. ASSUME NEW m \in DOMAIN hs, NEW q \in Request
      PROVE  /\ ~ (q \in hs[m].sessions /\ q \in hs[m].waiters)
             /\ \A k \in DOMAIN hs : In(hs, m, q) /\ In(hs, k, q) => m = k
  <2>1. CASE q = r
    BY <1>2, <1>3, <2>1, Zenon DEF In
  <2>2. CASE q # r
    BY <1>1, <1>4, <2>2 DEF Once, In
  <2> QED BY <2>1, <2>2
<1>6. ASSUME NEW q \in Request \ {r}, Absent(gs, q) PROVE Absent(hs, q)
  BY <1>1, <1>4, <1>6 DEF Absent, In
<1> QED BY <1>5, <1>6, Zenon DEF Once

\* The part of Group::get that opens a session or queues the request.
LEMMA SessionForGetOK ==
  ASSUME NEW gs, NEW X, NEW n \in DOMAIN gs, NEW r \in Request,
         GroupsOK(gs, X), Once(gs), Absent(gs, r), NEW hs \in SessionForGet(gs, n, r)
  PROVE  /\ GroupsOK(hs, X) /\ Once(hs) /\ DOMAIN hs = DOMAIN gs
         /\ \A q \in Request \ {r} : Absent(gs, q) => Absent(hs, q)
         /\ CapacityUsed(hs) = CapacityUsed(gs)
<1>0. GroupOK(gs[n], n \in X) /\ gs[n] \in Group /\ CapacityUsed(gs) \in Nat
  BY CapacityOfNat, Zenon DEF GroupsOK, GroupOK
<1>00. /\ gs[n].idle \in Nat /\ gs[n].sessions \in SUBSET Request /\ gs[n].waiters \in SUBSET Request
       /\ IsFiniteSet(gs[n].sessions) /\ GroupCapacityUsed(gs[n]) \in Nat
       /\ Cardinality(gs[n].sessions) \in Nat /\ gs[n].processesBeingSpawned \in Nat
  BY <1>0, GroupNat DEF Group
<1>000. r \notin gs[n].sessions /\ r \notin gs[n].waiters
  BY Zenon DEF Absent, In
<1> SUFFICES /\ Updates(gs, hs, n)
             /\ \/ hs[n].sessions = gs[n].sessions \cup {r} /\ hs[n].waiters = gs[n].waiters
                \/ hs[n].sessions = gs[n].sessions /\ hs[n].waiters = gs[n].waiters \cup {r}
             /\ GroupOK(hs[n], n \in X) /\ GroupCapacityUsed(hs[n]) = GroupCapacityUsed(gs[n])
  <2>1. X \subseteq X \cup {n}
    OBVIOUS
  <2>2. /\ GroupsOK(hs, X)
        /\ CapacityUsed(hs) = CapacityUsed(gs) + GroupCapacityUsed(hs[n])
                                               - GroupCapacityUsed(gs[n])
    BY <2>1, UpdateOK
  <2>3. CapacityUsed(hs) = CapacityUsed(gs)
    BY <1>0, <1>00, <2>2
  <2>4. Once(hs) /\ \A q \in Request \ {r} : Absent(gs, q) => Absent(hs, q)
    BY PlacedOK
  <2>5. DOMAIN hs = DOMAIN gs
    BY DEF Updates
  <2> QED BY <2>2, <2>3, <2>4, <2>5, Zenon
<1> DEFINE served == [gs EXCEPT ![n].idle = @ - 1, ![n].sessions = @ \cup {r}]
           queued == [gs EXCEPT ![n].waiters = @ \cup {r}]
<1>01. \/ gs[n].idle > 0 /\ hs = served
       \/ (gs[n].idle = 0 \/ r \in StickyRequests) /\ hs = queued
  BY DEF SessionForGet, MayWaitForBusy
<1>1. CASE gs[n].idle > 0 /\ hs = served
  <2> DEFINE h == [gs[n] EXCEPT !.idle = @ - 1, !.sessions = @ \cup {r}]
  <2>2. Updates(gs, hs, n) /\ hs[n] = h
    BY <1>1 DEF Updates
  <2>3. h \in Group
    <3>1. [gs[n] EXCEPT !.idle = @ - 1] \in Group
      <4>1. gs[n].idle - 1 \in Nat
        BY <1>1, <1>00
      <4> QED BY <1>0, <4>1, Zenon DEF Group
    <3>2. gs[n].sessions \cup {r} \in SUBSET Request
      BY <1>00
    <3> QED BY <3>1, <3>2, Zenon DEF Group
  <2>4. /\ h.idle = gs[n].idle - 1 /\ h.sessions = gs[n].sessions \cup {r}
        /\ h.waiters = gs[n].waiters /\ h.processesBeingSpawned = gs[n].processesBeingSpawned
        /\ h.spawning = gs[n].spawning /\ h.restarting = gs[n].restarting
    BY <1>0, Zenon DEF Group
  <2> HIDE DEF h
  <2>5. GroupOK(h, n \in X)
    BY <1>0, <1>1, <1>00, <2>3, <2>4 DEF GroupOK
  <2>6. Cardinality(h.sessions) = Cardinality(gs[n].sessions) + 1
    <3>1. Cardinality(gs[n].sessions \cup {r}) = Cardinality(gs[n].sessions) + 1
      BY <1>00, <1>000, FS_AddElement, Zenon
    <3> QED BY <2>4, <3>1, Zenon
  <2>7. GroupCapacityUsed(h) = GroupCapacityUsed(gs[n])
    <3>1. GroupCapacityUsed(h) = (gs[n].idle - 1) + (Cardinality(gs[n].sessions) + 1)
                                 + gs[n].processesBeingSpawned
      BY <2>4, <2>6, Zenon DEF GroupCapacityUsed, EnabledCount
    <3> QED BY <1>00, <3>1 DEF GroupCapacityUsed, EnabledCount
  <2> QED BY <2>2, <2>4, <2>5, <2>7
<1>2. CASE (gs[n].idle = 0 \/ r \in StickyRequests) /\ hs = queued
  <2> DEFINE h == [gs[n] EXCEPT !.waiters = @ \cup {r}]
  <2>2. Updates(gs, hs, n) /\ hs[n] = h
    BY <1>2 DEF Updates
  <2>3. h \in Group
    <3>1. gs[n].waiters \cup {r} \in SUBSET Request
      BY <1>00
    <3> QED BY <1>0, <3>1, Zenon DEF Group
  <2>4. /\ h.idle = gs[n].idle /\ h.sessions = gs[n].sessions
        /\ h.waiters = gs[n].waiters \cup {r} /\ h.processesBeingSpawned = gs[n].processesBeingSpawned
        /\ h.spawning = gs[n].spawning /\ h.restarting = gs[n].restarting
    BY <1>0, Zenon DEF Group
  <2> HIDE DEF h
  <2>5. GroupOK(h, n \in X)
    BY <1>0, <1>2, <1>00, <2>3, <2>4 DEF GroupOK
  <2>7. GroupCapacityUsed(h) = GroupCapacityUsed(gs[n])
    BY <1>00, <2>4 DEF GroupCapacityUsed, EnabledCount
  <2> QED BY <2>2, <2>4, <2>5, <2>7
<1> QED BY <1>01, <1>1, <1>2

\* Keeping the requests of every group keeps where each request is.
LEMMA SameRequestsOK ==
  ASSUME NEW gs, NEW hs, SameRequests(gs, hs)
  PROVE  /\ Once(gs) => Once(hs)
         /\ \A q \in Request : Absent(gs, q) => Absent(hs, q)
<1>1. /\ DOMAIN hs = DOMAIN gs
      /\ \A n \in DOMAIN gs : hs[n].sessions = gs[n].sessions /\ hs[n].waiters = gs[n].waiters
  BY DEF SameRequests
<1>2. \A n \in DOMAIN gs, q \in Request : In(hs, n, q) <=> In(gs, n, q)
  BY <1>1 DEF In
<1>3. Once(gs) => Once(hs)
  BY <1>1, <1>2 DEF Once
<1>4. \A q \in Request : Absent(gs, q) => Absent(hs, q)
  BY <1>1, <1>2, Zenon DEF Absent
<1> QED BY <1>3, <1>4

\* Group::get gives the request a place in its group, and no other request moves.
LEMMA GetOK ==
  ASSUME NEW gs, NEW X, NEW n \in DOMAIN gs, NEW r \in Request, NEW mx \in Nat,
         GroupsOK(gs, X), Once(gs), Absent(gs, r), NEW hs \in Get(gs, mx, n, r)
  PROVE  /\ GroupsOK(hs, X) /\ Once(hs) /\ DOMAIN hs = DOMAIN gs
         /\ \A q \in Request \ {r} : Absent(gs, q) => Absent(hs, q)
         /\ Within(gs, hs, mx)
<1>1. PICK f \in SpawnForGet(gs, mx, n) : hs \in SessionForGet(f, n, r)
  BY Zenon DEF Get
<1>2. GroupsOK(f, X) /\ SameRequests(gs, f) /\ Within(gs, f, mx)
  BY SpawnForGetOK, Zenon
<1>3. /\ Once(f) /\ \A q \in Request : Absent(gs, q) => Absent(f, q)
  BY <1>2, SameRequestsOK, Zenon
<1>4. Absent(f, r) /\ DOMAIN f = DOMAIN gs
  BY <1>2, <1>3, Zenon DEF SameRequests
<1>5. /\ GroupsOK(hs, X) /\ Once(hs) /\ DOMAIN hs = DOMAIN f
      /\ \A q \in Request \ {r} : Absent(f, q) => Absent(hs, q)
      /\ CapacityUsed(hs) = CapacityUsed(f)
  <2>1. n \in DOMAIN f
    BY <1>4, Zenon
  <2> QED BY <1>1, <1>2, <1>3, <1>4, <2>1, SessionForGetOK
<1>6. Within(gs, hs, mx)
  BY <1>2, <1>5, Zenon DEF Within
<1> QED BY <1>3, <1>4, <1>5, <1>6, Zenon

\* Pool::createGroup adds a group that has no request and uses no capacity.
LEMMA CreateGroupOK ==
  ASSUME NEW gs, NEW X, NEW n \in Name, n \notin DOMAIN gs, GroupsOK(gs, X), Once(gs)
  PROVE  LET hs == CreateGroup(gs, n) IN
         /\ GroupsOK(hs, X) /\ Once(hs) /\ DOMAIN hs = DOMAIN gs \cup {n}
         /\ \A q \in Request : Absent(gs, q) => Absent(hs, q)
         /\ CapacityUsed(hs) = CapacityUsed(gs)
<1> DEFINE hs == CreateGroup(gs, n)
<1>1. /\ DOMAIN hs = DOMAIN gs \cup {n} /\ hs[n] = NewGroup
      /\ \A m \in DOMAIN gs : m # n /\ hs[m] = gs[m]
  BY DEF CreateGroup
<1> HIDE DEF hs
<1>2. /\ NewGroup.idle = 0 /\ NewGroup.sessions = {} /\ NewGroup.waiters = {}
      /\ NewGroup.spawning = FALSE /\ NewGroup.processesBeingSpawned = 0
      /\ NewGroup.restarting = FALSE
  BY DEF NewGroup
<1>3. NewGroup \in Group
  BY DEF NewGroup, Group
<1>4. n \notin X
  BY DEF GroupsOK
<1>5. GroupOK(NewGroup, n \in X)
  BY <1>2, <1>3, <1>4 DEF GroupOK
<1>6. GroupsOK(hs, X)
  <2>1. DOMAIN hs \subseteq Name /\ X \subseteq DOMAIN hs
    BY <1>1 DEF GroupsOK
  <2>2. ASSUME NEW m \in DOMAIN hs PROVE GroupOK(hs[m], m \in X)
    <3>1. CASE m = n
      BY <1>1, <1>5, <3>1, Zenon
    <3>2. CASE m # n
      BY <1>1, <3>2, Zenon DEF GroupsOK
    <3> QED BY <3>1, <3>2
  <2> QED BY <2>1, <2>2, Zenon DEF GroupsOK
<1>7. \A q \in Request : ~In(hs, n, q) /\ \A m \in DOMAIN gs : In(hs, m, q) <=> In(gs, m, q)
  BY <1>1, <1>2 DEF In
<1>8. Once(hs)
  <2> SUFFICES ASSUME NEW m \in DOMAIN hs, NEW q \in Request
               PROVE  /\ ~ (q \in hs[m].sessions /\ q \in hs[m].waiters)
                      /\ \A k \in DOMAIN hs : In(hs, m, q) /\ In(hs, k, q) => m = k
    BY Zenon DEF Once
  <2>1. CASE m = n
    BY <1>7, <2>1, Zenon DEF In
  <2>2. CASE m # n
    <3>1. m \in DOMAIN gs /\ hs[m] = gs[m]
      BY <1>1, <2>2
    <3>2. ~ (q \in hs[m].sessions /\ q \in hs[m].waiters)
      BY <3>1, Zenon DEF Once
    <3>3. ASSUME NEW k \in DOMAIN hs, In(hs, m, q), In(hs, k, q) PROVE m = k
      <4>1. k # n
        BY <1>7, <3>3, Zenon
      <4>2. k \in DOMAIN gs
        BY <1>1, <4>1
      <4> QED BY <1>7, <3>1, <3>3, <4>2, Zenon DEF Once
    <3> QED BY <3>2, <3>3, Zenon
  <2> QED BY <2>1, <2>2
<1>9. \A q \in Request : Absent(gs, q) => Absent(hs, q)
  BY <1>1, <1>7 DEF Absent
<1>10. CapacityUsed(hs) = CapacityUsed(gs)
  <2>1. \A m \in Name : CapacityOf(gs, m) \in Nat /\ CapacityOf(hs, m) \in Nat
    BY <1>6, CapacityOfNat, Zenon
  <2>2. \A m \in Name \ {n} : CapacityOf(hs, m) = CapacityOf(gs, m)
    BY <1>1 DEF CapacityOf
  <2>3. CapacityOf(hs, n) = 0 /\ CapacityOf(gs, n) = 0
    <3>1. Cardinality({}) = 0
      BY FS_EmptySet, Zenon
    <3> QED BY <1>1, <1>2, <3>1 DEF CapacityOf, GroupCapacityUsed, EnabledCount
  <2>4. CapacityUsed(hs) = CapacityUsed(gs) + CapacityOf(hs, n) - CapacityOf(gs, n)
    BY <2>1, <2>2, CapacityChange, Zenon
  <2>5. CapacityUsed(gs) \in Nat
    BY CapacityOfNat, Zenon
  <2> QED BY <2>3, <2>4, <2>5
<1> QED BY <1>1, <1>6, <1>8, <1>9, <1>10, Zenon DEF hs

-----------------------------------------------------------------------------
(* The loops of the pool.                                                   *)

\* Pool::possiblySpawnMoreProcessesForExistingGroups, one of its loops.
LEMMA SpawnTurnsOK ==
  ASSUME NEW gs, NEW X, NEW mx \in Nat, NEW first, GroupsOK(gs, X)
  PROVE  LET hs == SpawnTurns(gs, mx, first)[Len(Order)] IN
         GroupsOK(hs, X) /\ SameRequests(gs, hs) /\ Within(gs, hs, mx)
<1> DEFINE F == SpawnTurns(gs, mx, first)
           P(hs) == GroupsOK(hs, X) /\ SameRequests(gs, hs) /\ Within(gs, hs, mx)
           S == {i \in 0..Len(Order) : P(F[i])}
<1>1. F[0] = gs /\ \A i \in 1..Len(Order) : F[i] = SpawnTurn(F[i - 1], mx, Order[i], first)
  BY SpawnTurnsLoop
<1> HIDE DEF F
<1>2. 0 \in S
  <2>1. CapacityUsed(gs) \in Nat
    BY CapacityOfNat, Zenon
  <2>2. 0 \in 0..Len(Order) /\ CapacityUsed(gs) <= CapacityUsed(gs)
    BY <2>1, OrderFacts
  <2>3. SameRequests(gs, gs) /\ Within(gs, gs, mx)
    BY <2>2, Zenon DEF SameRequests, Within
  <2> QED BY <1>1, <2>2, <2>3
<1>3. ASSUME NEW i \in 1..Len(Order), i - 1 \in S PROVE i \in S
  <2> DEFINE fs == F[i - 1]
             n == Order[i]
             hs == SpawnTurn(fs, mx, n, first)
  <2>1. i \in 0..Len(Order) /\ F[i] = hs /\ P(fs)
    BY <1>1, <1>3, OrderFacts
  <2> HIDE DEF fs, n
  <2>2. CASE hs = fs
    BY <2>1, <2>2, Zenon
  <2>3. CASE n \in DOMAIN fs /\ hs = Spawn(fs, mx, n)
    <3>1. GroupsOK(hs, X) /\ SameRequests(fs, hs) /\ Within(fs, hs, mx)
      BY <2>1, <2>3, SpawnOK, Zenon
    <3>2. SameRequests(gs, hs)
      BY <2>1, <3>1, Zenon DEF SameRequests
    <3>3. Within(gs, hs, mx)
      BY <2>1, <3>1, WithinTransitive, Zenon
    <3> QED BY <2>1, <3>1, <3>2, <3>3, Zenon
  <2>4. hs = fs \/ (n \in DOMAIN fs /\ hs = Spawn(fs, mx, n))
    BY Zenon DEF SpawnTurn
  <2> QED BY <2>2, <2>3, <2>4
<1>4. \A i \in 0..Len(Order) : i \in S
  <2> HIDE DEF S
  <2> QED BY <1>2, <1>3, OrderFacts, Induction, Zenon
<1>5. Len(Order) \in 0..Len(Order)
  BY OrderFacts
<1>6. P(F[Len(Order)])
  BY <1>4, <1>5, Zenon
<1> QED BY <1>6, Zenon DEF F

\* Both loops.
LEMMA PossiblySpawnMoreOK ==
  ASSUME NEW gs, NEW X, NEW mx \in Nat, GroupsOK(gs, X)
  PROVE  LET hs == PossiblySpawnMore(gs, mx) IN
         GroupsOK(hs, X) /\ SameRequests(gs, hs) /\ Within(gs, hs, mx)
<1> DEFINE fs == SpawnTurns(gs, mx, TRUE)[Len(Order)]
           hs == SpawnTurns(fs, mx, FALSE)[Len(Order)]
<1>1. GroupsOK(fs, X) /\ SameRequests(gs, fs) /\ Within(gs, fs, mx)
  BY SpawnTurnsOK, Zenon
<1>2. hs = PossiblySpawnMore(gs, mx)
  BY Zenon DEF PossiblySpawnMore
<1> HIDE DEF fs
<1>3. GroupsOK(hs, X) /\ SameRequests(fs, hs) /\ Within(fs, hs, mx)
  BY <1>1, SpawnTurnsOK, Zenon
<1> HIDE DEF hs
<1>4. SameRequests(gs, hs)
  BY <1>1, <1>3, Zenon DEF SameRequests
<1>5. Within(gs, hs, mx)
  BY <1>1, <1>3, WithinTransitive, Zenon
<1> QED BY <1>2, <1>3, <1>4, <1>5, Zenon

\* The rebuilt list has, each once and in their order, some of the first i requests of
\* the old one.
Kept(list, i) ==
  /\ \A k \in 1..Len(list) : \E j \in 1..i : list[k] = getWaitlist[j]
  /\ \A k, l \in 1..Len(list), a, b \in 1..i :
       list[k] = getWaitlist[a] /\ list[l] = getWaitlist[b] /\ a < b => k < l
  /\ \A k, l \in 1..Len(list) : list[k] = list[l] => k = l

\* The pool's wait list has no request twice, and none that is in a group.
WaitlistOK(list, gs) ==
  /\ list \in Seq(Request)
  /\ \A i, j \in 1..Len(list) : list[i] = list[j] => i = j
  /\ \A i \in 1..Len(list) : Absent(gs, list[i])

\* A request that is served is left out of the rebuilt list.
LEMMA KeptSkips ==
  ASSUME NEW gs, WaitlistOK(getWaitlist, gs), NEW i \in 1..Len(getWaitlist),
         NEW list \in Seq(Request), Kept(list, i - 1)
  PROVE  Kept(list, i)
<1>1. Len(getWaitlist) \in Nat /\ 1..(i - 1) \subseteq 1..Len(getWaitlist)
  BY DEF WaitlistOK
<1>2. 1..(i - 1) \subseteq 1..i /\ \A a \in 1..i : a \in 1..(i - 1) \/ a = i
  BY <1>1
<1>3. \A k \in 1..Len(list) : list[k] # getWaitlist[i]
  <2> SUFFICES ASSUME NEW k \in 1..Len(list), list[k] = getWaitlist[i] PROVE FALSE
    BY Zenon
  <2>1. PICK j \in 1..(i - 1) : list[k] = getWaitlist[j]
    BY Zenon DEF Kept
  <2>2. j = i
    BY <1>1, <2>1, Zenon DEF WaitlistOK
  <2> QED BY <1>1, <2>2
<1>4. \A k \in 1..Len(list) : \E j \in 1..i : list[k] = getWaitlist[j]
  BY <1>2, Zenon DEF Kept
<1>5. ASSUME NEW k \in 1..Len(list), NEW l \in 1..Len(list), NEW a \in 1..i, NEW b \in 1..i,
             list[k] = getWaitlist[a], list[l] = getWaitlist[b], a < b
      PROVE  k < l
  <2>1. a \in 1..(i - 1) /\ b \in 1..(i - 1)
    BY <1>2, <1>3, <1>5, Zenon
  <2> QED BY <1>5, <2>1, Zenon DEF Kept
<1> QED BY <1>4, <1>5, Zenon DEF Kept

\* A request that cannot be served is appended to the rebuilt list.
LEMMA KeptAppends ==
  ASSUME NEW gs, WaitlistOK(getWaitlist, gs), NEW i \in 1..Len(getWaitlist),
         NEW list \in Seq(Request), Kept(list, i - 1)
  PROVE  Kept(Append(list, getWaitlist[i]), i)
<1> DEFINE new == Append(list, getWaitlist[i])
<1>0. getWaitlist[i] \in Request
  BY DEF WaitlistOK
<1>1. Len(getWaitlist) \in Nat /\ 1..(i - 1) \subseteq 1..Len(getWaitlist)
  BY DEF WaitlistOK
<1>2. 1..(i - 1) \subseteq 1..i /\ i \in 1..i /\ \A a \in 1..i : a \in 1..(i - 1) \/ a = i
  BY <1>1
<1>3. /\ Len(new) = Len(list) + 1 /\ Len(list) \in Nat
      /\ new[Len(list) + 1] = getWaitlist[i]
      /\ \A k \in 1..Len(list) : new[k] = list[k]
  BY <1>0
<1> HIDE DEF new
<1>4. \A k \in 1..Len(new) : k \in 1..Len(list) \/ k = Len(list) + 1
  BY <1>3
<1>5. \A k \in 1..Len(list) : list[k] # getWaitlist[i]
  <2> SUFFICES ASSUME NEW k \in 1..Len(list), list[k] = getWaitlist[i] PROVE FALSE
    BY Zenon
  <2>1. PICK j \in 1..(i - 1) : list[k] = getWaitlist[j]
    BY Zenon DEF Kept
  <2>2. j = i
    BY <1>1, <2>1, Zenon DEF WaitlistOK
  <2> QED BY <1>1, <2>2
<1>6. ASSUME NEW k \in 1..Len(new) PROVE \E j \in 1..i : new[k] = getWaitlist[j]
  <2>1. CASE k \in 1..Len(list)
    BY <1>2, <1>3, <2>1, ZenonT(30) DEF Kept
  <2>2. CASE k = Len(list) + 1
    BY <1>2, <1>3, <2>2, Zenon
  <2> QED BY <1>4, <2>1, <2>2, Zenon
<1>7. ASSUME NEW k \in 1..Len(new), NEW l \in 1..Len(new), NEW a \in 1..i, NEW b \in 1..i,
             new[k] = getWaitlist[a], new[l] = getWaitlist[b], a < b
      PROVE  k < l
  <2>1. a \in 1..(i - 1)
    BY <1>7
  <2>2. k \in 1..Len(list)
    <3> SUFFICES ASSUME k = Len(list) + 1 PROVE FALSE
      BY <1>4, Zenon
    <3>1. getWaitlist[a] = getWaitlist[i]
      BY <1>3, <1>7, Zenon
    <3>2. a = i
      BY <1>1, <2>1, <3>1, Zenon DEF WaitlistOK
    <3> QED BY <2>1, <3>2
  <2>3. CASE l = Len(list) + 1
    BY <1>3, <2>2, <2>3
  <2>4. CASE l \in 1..Len(list)
    <3>1. b \in 1..(i - 1)
      BY <1>2, <1>3, <1>5, <1>7, <2>4, Zenon
    <3>2. list[k] = getWaitlist[a] /\ list[l] = getWaitlist[b]
      BY <1>3, <1>7, <2>2, <2>4, Zenon
    <3> QED BY <1>7, <2>1, <2>2, <2>4, <3>1, <3>2, Zenon DEF Kept
  <2> QED BY <1>4, <2>3, <2>4, Zenon
<1>8. ASSUME NEW k \in 1..Len(new), NEW l \in 1..Len(new), new[k] = new[l] PROVE k = l
  <2>1. CASE k \in 1..Len(list) /\ l \in 1..Len(list)
    BY <1>3, <1>8, <2>1, ZenonT(30) DEF Kept
  <2>2. CASE k = Len(list) + 1 /\ l \in 1..Len(list)
    BY <1>3, <1>5, <1>8, <2>2, Zenon
  <2>3. CASE k \in 1..Len(list) /\ l = Len(list) + 1
    BY <1>3, <1>5, <1>8, <2>3, Zenon
  <2> QED BY <1>4, <2>1, <2>2, <2>3, Zenon
<1>9. Kept(new, i)
  BY <1>6, <1>7, <1>8, Zenon DEF Kept
<1> QED BY <1>9 DEF new

\* What holds of the groups and the rebuilt list when the first i requests were looked at.
Served(gs, X, mx, st, i) ==
  /\ st = [groups |-> st.groups, waitlist |-> st.waitlist]
  /\ GroupsOK(st.groups, X) /\ Once(st.groups) /\ Within(gs, st.groups, mx)
  /\ st.waitlist \in Seq(Request) /\ Kept(st.waitlist, i)
  /\ \A k \in 1..Len(st.waitlist) : Absent(st.groups, st.waitlist[k])
  /\ \A j \in (i + 1)..Len(getWaitlist) : Absent(st.groups, getWaitlist[j])
  /\ \A q \in Request : Absent(gs, q) /\ (\A j \in 1..Len(getWaitlist) : getWaitlist[j] # q)
                          => Absent(st.groups, q)

\* Serving the i-th request of the list: it goes to its group.
LEMMA ServedByGroup ==
  ASSUME NEW gs, NEW X, NEW mx \in Nat, NEW i \in 1..Len(getWaitlist), NEW st, NEW fs, NEW hs,
         WaitlistOK(getWaitlist, gs), GroupsOK(gs, X), Served(gs, X, mx, st, i - 1),
         GroupsOK(fs, X), Once(fs), CapacityUsed(fs) = CapacityUsed(st.groups),
         \A q \in Request : Absent(st.groups, q) => Absent(fs, q),
         App[getWaitlist[i]] \in DOMAIN fs,
         hs \in Get(fs, mx, App[getWaitlist[i]], getWaitlist[i])
  PROVE  Served(gs, X, mx, [st EXCEPT !.groups = hs], i)
<1> DEFINE r == getWaitlist[i]
           new == [st EXCEPT !.groups = hs]
<1>1. /\ Len(getWaitlist) \in Nat /\ r \in Request /\ i \in ((i - 1) + 1)..Len(getWaitlist)
      /\ \A j \in 1..Len(getWaitlist) : getWaitlist[j] \in Request
  BY DEF WaitlistOK
<1>2. new.groups = hs /\ new.waitlist = st.waitlist /\ new = [groups |-> hs, waitlist |-> st.waitlist]
  <2>1. st = [groups |-> st.groups, waitlist |-> st.waitlist]
    BY DEF Served
  <2> QED BY <2>1
<1> HIDE DEF new
<1>3. Absent(st.groups, r)
  BY <1>1, Zenon DEF Served
<1>4. /\ GroupsOK(hs, X) /\ Once(hs)
      /\ \A q \in Request \ {r} : Absent(fs, q) => Absent(hs, q)
      /\ Within(fs, hs, mx)
  <2>1. Absent(fs, r)
    BY <1>1, <1>3, Zenon
  <2> QED BY <1>1, <2>1, GetOK, Zenon
<1>5. Within(gs, hs, mx)
  <2>1. Within(gs, fs, mx)
    BY Zenon DEF Served, Within
  <2> QED BY <1>4, <2>1, WithinTransitive, Zenon
<1>6. \A q \in Request : q # r /\ Absent(st.groups, q) => Absent(hs, q)
  BY <1>4
<1>7. st.waitlist \in Seq(Request) /\ Kept(st.waitlist, i - 1)
  BY Zenon DEF Served
<1>8. Kept(st.waitlist, i)
  BY <1>7, KeptSkips, Zenon
<1>9. ASSUME NEW k \in 1..Len(st.waitlist) PROVE Absent(hs, st.waitlist[k])
  <2>1. PICK j \in 1..(i - 1) : st.waitlist[k] = getWaitlist[j]
    BY <1>7, Zenon DEF Kept
  <2>2. j \in 1..Len(getWaitlist) /\ j # i
    BY <1>1
  <2>3. st.waitlist[k] # r
    BY <2>1, <2>2, Zenon DEF WaitlistOK
  <2>4. st.waitlist[k] \in Request /\ Absent(st.groups, st.waitlist[k])
    BY <1>1, <2>1, <2>2, Zenon DEF Served
  <2> QED BY <1>6, <2>3, <2>4, Zenon
<1>10. ASSUME NEW j \in (i + 1)..Len(getWaitlist) PROVE Absent(hs, getWaitlist[j])
  <2>1. j \in ((i - 1) + 1)..Len(getWaitlist) /\ j \in 1..Len(getWaitlist) /\ j # i
    BY <1>1
  <2>2. getWaitlist[j] # r /\ getWaitlist[j] \in Request
    BY <1>1, <2>1, Zenon DEF WaitlistOK
  <2>3. Absent(st.groups, getWaitlist[j])
    BY <2>1, Zenon DEF Served
  <2> QED BY <1>6, <2>2, <2>3, Zenon
<1>11. ASSUME NEW q \in Request, Absent(gs, q), \A j \in 1..Len(getWaitlist) : getWaitlist[j] # q
       PROVE  Absent(hs, q)
  <2>1. Absent(st.groups, q) /\ q # r
    BY <1>11, Zenon DEF Served
  <2> QED BY <1>6, <2>1, Zenon
<1>12. Served(gs, X, mx, new, i)
  BY <1>2, <1>4, <1>5, <1>7, <1>8, <1>9, <1>10, <1>11, Zenon DEF Served
<1> QED BY <1>12 DEF new

\* One iteration of Pool::assignSessionsToGetWaiters.
LEMMA ServeWaiterOK ==
  ASSUME NEW gs, NEW X, NEW mx \in Nat, NEW i \in 1..Len(getWaitlist), NEW st,
         WaitlistOK(getWaitlist, gs), GroupsOK(gs, X), Served(gs, X, mx, st, i - 1),
         NEW new \in ServeWaiter(st, mx, getWaitlist[i])
  PROVE  Served(gs, X, mx, new, i)
<1> DEFINE r == getWaitlist[i]
           n == App[r]
<1>0. Len(getWaitlist) \in Nat /\ r \in Request /\ n \in Name
  BY PoolAssumption DEF WaitlistOK
<1>1. GroupsOK(st.groups, X) /\ Once(st.groups)
  BY Zenon DEF Served
<1>2. CASE n \in DOMAIN st.groups
  <2>1. PICK hs \in Get(st.groups, mx, n, r) : new = [st EXCEPT !.groups = hs]
    BY <1>2, Zenon DEF ServeWaiter
  <2> QED BY <1>1, <1>2, <2>1, ServedByGroup, Zenon
<1>3. CASE n \notin DOMAIN st.groups /\ ~AtFullCapacity(st.groups, mx)
  <2> DEFINE fs == CreateGroup(st.groups, n)
  <2>1. PICK hs \in Get(fs, mx, n, r) : new = [st EXCEPT !.groups = hs]
    BY <1>3, Zenon DEF ServeWaiter
  <2>2. /\ GroupsOK(fs, X) /\ Once(fs) /\ DOMAIN fs = DOMAIN st.groups \cup {n}
        /\ \A q \in Request : Absent(st.groups, q) => Absent(fs, q)
        /\ CapacityUsed(fs) = CapacityUsed(st.groups)
    BY <1>0, <1>1, <1>3, CreateGroupOK, Zenon
  <2> HIDE DEF fs
  <2>3. n \in DOMAIN fs
    BY <2>2
  <2> QED BY <2>1, <2>2, <2>3, ServedByGroup, Zenon
<1>4. CASE n \notin DOMAIN st.groups /\ AtFullCapacity(st.groups, mx)
  <2> DEFINE list == Append(st.waitlist, r)
  <2>1. new = [st EXCEPT !.waitlist = list]
    BY <1>4, Zenon DEF ServeWaiter
  <2>2. st.waitlist \in Seq(Request) /\ Kept(st.waitlist, i - 1)
    BY Zenon DEF Served
  <2>3. Kept(list, i)
    BY <2>2, KeptAppends, Zenon
  <2>4. /\ list \in Seq(Request)
        /\ \A k \in 1..Len(list) : (k \in 1..Len(st.waitlist) /\ list[k] = st.waitlist[k]) \/ list[k] = r
    BY <1>0, <2>2
  <2> HIDE DEF list
  <2>5. new.groups = st.groups /\ new.waitlist = list /\ new = [groups |-> st.groups, waitlist |-> list]
    <3>1. st = [groups |-> st.groups, waitlist |-> st.waitlist]
      BY DEF Served
    <3> QED BY <2>1, <3>1
  <2>6. i \in ((i - 1) + 1)..Len(getWaitlist) /\ (i + 1)..Len(getWaitlist) \subseteq ((i - 1) + 1)..Len(getWaitlist)
    BY <1>0
  <2>7. \A k \in 1..Len(list) : Absent(st.groups, list[k])
    BY <2>4, <2>6, Zenon DEF Served
  <2>8. \A j \in (i + 1)..Len(getWaitlist) : Absent(st.groups, getWaitlist[j])
    BY <2>6, Zenon DEF Served
  <2> QED BY <2>3, <2>4, <2>5, <2>7, <2>8, Zenon DEF Served
<1> QED BY <1>2, <1>3, <1>4

\* Pool::assignSessionsToGetWaiters: all requests of the list were looked at.
LEMMA AssignOK ==
  ASSUME NEW gs, NEW X, NEW mx \in Nat, GroupsOK(gs, X), Once(gs), WaitlistOK(getWaitlist, gs),
         NEW st \in AssignSessionsToGetWaiters(gs, mx)
  PROVE  Served(gs, X, mx, st, Len(getWaitlist))
<1> DEFINE F == ServeWaiters(gs, mx, <<>>)
           first == [groups |-> gs, waitlist |-> <<>>]
           S == {i \in 0..Len(getWaitlist) : \A s \in F[i] : Served(gs, X, mx, s, i)}
<1>0. Len(getWaitlist) \in Nat
  BY DEF WaitlistOK
<1>1. /\ F[0] = {first}
      /\ \A i \in 1..Len(getWaitlist) :
           F[i] = UNION {ServeWaiter(s, mx, getWaitlist[i]) : s \in F[i - 1]}
  BY <1>0, ServeWaitersLoop
<1> HIDE DEF F
<1>2. 0 \in S
  <2>1. first.groups = gs /\ first.waitlist = <<>> /\ first = [groups |-> first.groups, waitlist |-> first.waitlist]
    OBVIOUS
  <2>2. 0 \in 0..Len(getWaitlist) /\ 1..0 = {} /\ (0 + 1)..Len(getWaitlist) = 1..Len(getWaitlist)
    BY <1>0
  <2>3. <<>> \in Seq(Request) /\ Len(<<>>) = 0
    OBVIOUS
  <2>4. Within(gs, gs, mx)
    <3>1. CapacityUsed(gs) \in Nat
      BY CapacityOfNat, Zenon
    <3> QED BY <3>1 DEF Within
  <2>5. Kept(<<>>, 0)
    BY <2>2, <2>3, Zenon DEF Kept
  <2>6. \A j \in 1..Len(getWaitlist) : Absent(gs, getWaitlist[j])
    BY Zenon DEF WaitlistOK
  <2> HIDE DEF first
  <2>7. Served(gs, X, mx, first, 0)
    BY <2>1, <2>2, <2>3, <2>4, <2>5, <2>6 DEF Served
  <2> QED BY <1>1, <2>2, <2>7
<1>3. ASSUME NEW i \in 1..Len(getWaitlist), i - 1 \in S PROVE i \in S
  <2>1. i \in 0..Len(getWaitlist)
    BY <1>0
  <2>2. ASSUME NEW s \in F[i] PROVE Served(gs, X, mx, s, i)
    <3>1. PICK p \in F[i - 1] : s \in ServeWaiter(p, mx, getWaitlist[i])
      <4>1. F[i] = UNION {ServeWaiter(p, mx, getWaitlist[i]) : p \in F[i - 1]}
        BY <1>1, Zenon
      <4> QED BY <2>2, <4>1, Zenon
    <3>2. Served(gs, X, mx, p, i - 1)
      BY <1>3, Zenon
    <3> QED BY <3>1, <3>2, ServeWaiterOK, Zenon
  <2> QED BY <2>1, <2>2, Zenon
<1>4. \A i \in 0..Len(getWaitlist) : i \in S
  <2> HIDE DEF S
  <2> QED BY <1>0, <1>2, <1>3, Induction, Zenon
<1>5. Len(getWaitlist) \in 0..Len(getWaitlist)
  BY <1>0
<1>6. st \in F[Len(getWaitlist)]
  BY Zenon DEF AssignSessionsToGetWaiters, F
<1> QED BY <1>4, <1>5, <1>6, Zenon

\* The rebuilt list is a wait list, and the groups stay within the maximum.
LEMMA Rebuilt ==
  ASSUME NEW gs, NEW X, NEW mx \in Nat, GroupsOK(gs, X), Once(gs), WaitlistOK(getWaitlist, gs),
         NEW st \in AssignSessionsToGetWaiters(gs, mx)
  PROVE  /\ GroupsOK(st.groups, X) /\ Once(st.groups) /\ Within(gs, st.groups, mx)
         /\ WaitlistOK(st.waitlist, st.groups) /\ Kept(st.waitlist, Len(getWaitlist))
         /\ \A q \in Request : Absent(gs, q) /\ (\A j \in 1..Len(getWaitlist) : getWaitlist[j] # q)
                                 => Absent(st.groups, q)
<1>1. Served(gs, X, mx, st, Len(getWaitlist))
  BY AssignOK, Zenon
<1>2. WaitlistOK(st.waitlist, st.groups)
  BY <1>1, Zenon DEF Served, Kept, WaitlistOK
<1> QED BY <1>1, <1>2, Zenon DEF Served

\* Group::assignSessionsToGetWaiters: idle processes and waiters are matched until one
\* of the two runs out, but for waiters with a cookie.
LEMMA AssignInGroupOK ==
  ASSUME NEW gs, NEW n \in DOMAIN gs, NEW inFlight \in BOOLEAN, gs[n] \in Group,
         gs[n].processesBeingSpawned = (IF gs[n].spawning /\ ~inFlight THEN 1 ELSE 0),
         inFlight => gs[n].spawning, ~gs[n].restarting, Once(gs),
         NEW hs \in AssignSessionsInGroup(gs, n)
  PROVE  /\ Updates(gs, hs, n) /\ GroupOK(hs[n], inFlight)
         /\ GroupCapacityUsed(hs[n]) = GroupCapacityUsed(gs[n])
         /\ Once(hs) /\ \A q \in Request : Absent(gs, q) => Absent(hs, q)
<1> DEFINE g == gs[n]
<1>1. PICK W \in SUBSET g.waiters :
        /\ Assigned(g, W).idle >= 0
        /\ Assigned(g, W).idle > 0 => Assigned(g, W).waiters \subseteq MayWaitForBusy(Assigned(g, W))
        /\ hs = [gs EXCEPT ![n] = Assigned(@, W)]
  BY Zenon DEF AssignSessionsInGroup
<1> DEFINE h == [g EXCEPT !.idle = @ - Cardinality(W), !.sessions = @ \cup W, !.waiters = @ \ W]
<1>2. Updates(gs, hs, n) /\ hs[n] = h
  BY <1>1 DEF Updates, Assigned
<1>3. /\ g.idle \in Nat /\ g.sessions \in SUBSET Request /\ g.waiters \in SUBSET Request
      /\ IsFiniteSet(g.sessions) /\ IsFiniteSet(g.waiters) /\ g.processesBeingSpawned \in Nat
      /\ Cardinality(g.sessions) \in Nat /\ Cardinality(g.waiters) \in Nat
  BY GroupNat DEF Group
<1>5. IsFiniteSet(W) /\ Cardinality(W) \in Nat
  <2> HIDE DEF g
  <2> QED BY <1>1, <1>3, FS_Subset, FS_CardinalityType
<1>4. /\ Cardinality(W) <= g.idle /\ Cardinality(W) \in Nat
      /\ g.idle - Cardinality(W) > 0 => g.waiters \ W \subseteq StickyRequests
  <2>1. Assigned(g, W).idle = g.idle - Cardinality(W) /\ Assigned(g, W).waiters = g.waiters \ W
    BY Zenon DEF Assigned, Group
  <2>2. MayWaitForBusy(Assigned(g, W)) \subseteq StickyRequests
    BY DEF MayWaitForBusy
  <2> HIDE DEF g
  <2> QED BY <1>1, <1>3, <1>5, <2>1, <2>2
<1>6. \A r \in Request : ~ (r \in g.sessions /\ r \in g.waiters)
  BY DEF Once
<1>7. Cardinality(g.sessions \cup W) = Cardinality(g.sessions) + Cardinality(W)
  <2> HIDE DEF g
  <2>1. g.sessions \cap W = {}
    BY <1>3, <1>6
  <2>2. Cardinality(g.sessions \cup W)
          = Cardinality(g.sessions) + Cardinality(W) - Cardinality(g.sessions \cap W)
    BY <1>3, <1>5, FS_Union, Zenon
  <2>3. Cardinality(g.sessions \cap W) = 0
    BY <2>1, FS_EmptySet, Zenon
  <2> QED BY <1>3, <1>4, <2>2, <2>3
<1>8. h \in Group
  <2>1. /\ g.idle - Cardinality(W) \in Nat /\ g.sessions \cup W \in SUBSET Request
        /\ g.waiters \ W \in SUBSET Request
    BY <1>3, <1>4
  <2>2. [g EXCEPT !.idle = @ - Cardinality(W)] \in Group
    BY <2>1, Zenon DEF Group
  <2>3. [g EXCEPT !.idle = @ - Cardinality(W), !.sessions = @ \cup W] \in Group
    BY <2>1, <2>2, Zenon DEF Group
  <2> QED BY <2>1, <2>3, Zenon DEF Group
<1>9. /\ h.idle = g.idle - Cardinality(W) /\ h.sessions = g.sessions \cup W
      /\ h.waiters = g.waiters \ W /\ h.processesBeingSpawned = g.processesBeingSpawned
      /\ h.spawning = g.spawning /\ h.restarting = g.restarting
  BY Zenon DEF Group
<1> HIDE DEF h
<1>10. GroupOK(h, inFlight)
  <2>1. h.idle > 0 => h.waiters \subseteq StickyRequests
    <3> HIDE DEF g
    <3> QED BY <1>4, <1>9, Zenon
  <2> QED BY <1>8, <1>9, <2>1, Zenon DEF GroupOK
<1>11. GroupCapacityUsed(h) = GroupCapacityUsed(g)
  <2> HIDE DEF g
  <2>1. GroupCapacityUsed(h) = (g.idle - Cardinality(W)) + (Cardinality(g.sessions) + Cardinality(W))
                               + g.processesBeingSpawned
    BY <1>7, <1>9, Zenon DEF GroupCapacityUsed, EnabledCount
  <2> QED BY <1>3, <1>4, <2>1 DEF GroupCapacityUsed, EnabledCount
<1>12. /\ DOMAIN hs = DOMAIN gs
       /\ \A m \in DOMAIN gs, q \in Request : In(hs, m, q) => In(gs, m, q)
       /\ \A m \in DOMAIN gs, q \in Request :
            ~ (q \in gs[m].sessions /\ q \in gs[m].waiters)
              => ~ (q \in hs[m].sessions /\ q \in hs[m].waiters)
  BY <1>1, <1>2, <1>9 DEF Updates, In
<1>13. Once(hs)
  BY <1>12 DEF Once
<1>14. \A q \in Request : Absent(gs, q) => Absent(hs, q)
  BY <1>12 DEF Absent
<1> QED BY <1>2, <1>10, <1>11, <1>13, <1>14, Zenon

-----------------------------------------------------------------------------
(* The invariant, and what every step does.                                 *)

\* While the lock is free: no group is in flight, and a request is in one group, on the
\* pool's list or in a detached session, and in one of them only.
PoolInv ==
  /\ TypeOK
  /\ GroupsOK(groups, {}) /\ Once(groups) /\ WaitlistOK(getWaitlist, groups)
  /\ \A i \in 1..Len(getWaitlist) : detached[getWaitlist[i]] = "no"
  /\ \A r \in Request : detached[r] # "no" => Absent(groups, r)

\* The requests that stay on the pool's list keep their order.
KeepsOrder ==
  \A i, j \in DOMAIN getWaitlist, k, l \in DOMAIN getWaitlist' :
    (/\ getWaitlist'[k] = getWaitlist[i] /\ getWaitlist'[l] = getWaitlist[j]
     /\ i < j) => k < l

\* What a step does: it keeps the invariant and the order, and grows within the maximum.
StepOK == PoolInv' /\ Within(groups, groups', max') /\ KeepsOrder

\* The groups hs have some of the requests of gs, in the same places.
Shrinks(gs, hs) ==
  /\ DOMAIN hs \subseteq DOMAIN gs
  /\ \A n \in DOMAIN hs :
       hs[n].sessions \subseteq gs[n].sessions /\ hs[n].waiters \subseteq gs[n].waiters

\* Taking requests away keeps the others where they are.
LEMMA ShrinksOK ==
  ASSUME NEW gs, NEW hs, Shrinks(gs, hs)
  PROVE  /\ Once(gs) => Once(hs)
         /\ \A q \in Request : Absent(gs, q) => Absent(hs, q)
         /\ \A list : WaitlistOK(list, gs) => WaitlistOK(list, hs)
<1>1. /\ DOMAIN hs \subseteq DOMAIN gs
      /\ \A n \in DOMAIN hs, q \in Request : In(hs, n, q) => In(gs, n, q)
  BY DEF Shrinks, In
<1>2. Once(gs) => Once(hs)
  BY <1>1 DEF Once, Shrinks
<1>3. \A q \in Request : Absent(gs, q) => Absent(hs, q)
  BY <1>1, Zenon DEF Absent
<1>4. ASSUME NEW list, WaitlistOK(list, gs) PROVE WaitlistOK(list, hs)
  <2>1. \A i \in 1..Len(list) : list[i] \in Request
    BY <1>4 DEF WaitlistOK
  <2> QED BY <1>3, <1>4, <2>1, Zenon DEF WaitlistOK
<1> QED BY <1>2, <1>3, <1>4, Zenon

\* Pool::max is a natural number.
LEMMA MaxNat == Maxes \subseteq Nat
  BY PoolAssumption

\* A rebuilt list, in the terms of StepOK.
LEMMA KeptOrder ==
  ASSUME getWaitlist \in Seq(Request), getWaitlist' \in Seq(Request),
         Kept(getWaitlist', Len(getWaitlist))
  PROVE  KeepsOrder
<1>1. DOMAIN getWaitlist = 1..Len(getWaitlist) /\ DOMAIN getWaitlist' = 1..Len(getWaitlist')
  OBVIOUS
<1> QED BY <1>1, Zenon DEF Kept, KeepsOrder

\* A list that stays as it is.
LEMMA SameOrder ==
  ASSUME WaitlistOK(getWaitlist, groups), UNCHANGED getWaitlist
  PROVE  KeepsOrder
<1>1. DOMAIN getWaitlist = 1..Len(getWaitlist) /\ Len(getWaitlist) \in Nat
  BY DEF WaitlistOK
<1>2. ASSUME NEW i \in DOMAIN getWaitlist, NEW j \in DOMAIN getWaitlist,
             NEW k \in DOMAIN getWaitlist, NEW l \in DOMAIN getWaitlist,
             getWaitlist[k] = getWaitlist[i], getWaitlist[l] = getWaitlist[j], i < j
      PROVE  k < l
  <2>1. k = i /\ l = j
    BY <1>1, <1>2, Zenon DEF WaitlistOK
  <2> QED BY <1>2, <2>1, Zenon
<1> QED BY <1>2, Zenon DEF KeepsOrder

\* A step that leaves the pool's list alone, from what it does to the groups.
LEMMA GroupsStep ==
  ASSUME PoolInv, UNCHANGED getWaitlist, max' \in Maxes,
         detached' \in [Request -> {"no", "group", "gone"}],
         GroupsOK(groups', {}), Once(groups'), Within(groups, groups', max'),
         \A i \in 1..Len(getWaitlist) : /\ Absent(groups', getWaitlist[i])
                                        /\ detached'[getWaitlist[i]] = "no",
         \A r \in Request : detached'[r] # "no" => Absent(groups', r)
  PROVE  StepOK
<1>1. TypeOK'
  BY DEF PoolInv, TypeOK, GroupsOK, GroupOK
<1>2. WaitlistOK(getWaitlist', groups')
  BY Zenon DEF PoolInv, WaitlistOK
<1>3. KeepsOrder
  BY SameOrder DEF PoolInv
<1> QED BY <1>1, <1>2, <1>3 DEF PoolInv, StepOK

\* A step that rebuilds the list, from what it does to the groups before and after.
LEMMA RebuildStep ==
  ASSUME PoolInv, NEW gs, NEW X, NEW st, max' \in Maxes,
         detached' \in [Request -> {"no", "group", "gone"}],
         GroupsOK(gs, X), Shrinks(groups, gs), CapacityUsed(gs) <= CapacityUsed(groups),
         st \in AssignSessionsToGetWaiters(gs, max'), getWaitlist' = st.waitlist,
         GroupsOK(groups', {}), SameRequests(st.groups, groups'),
         Within(st.groups, groups', max'),
         \A r \in Request : detached'[r] # "no" =>
           Absent(gs, r) /\ \A i \in 1..Len(getWaitlist) : getWaitlist[i] # r
  PROVE  StepOK
<1>0. max' \in Nat
  BY MaxNat
<1>1. Once(gs) /\ WaitlistOK(getWaitlist, gs)
  BY ShrinksOK, Zenon DEF PoolInv
<1>2. /\ GroupsOK(st.groups, X) /\ Once(st.groups) /\ Within(gs, st.groups, max')
      /\ WaitlistOK(st.waitlist, st.groups) /\ Kept(st.waitlist, Len(getWaitlist))
      /\ \A q \in Request : Absent(gs, q) /\ (\A j \in 1..Len(getWaitlist) : getWaitlist[j] # q)
                              => Absent(st.groups, q)
  BY <1>0, <1>1, Rebuilt, Zenon
<1>3. Once(groups') /\ \A q \in Request : Absent(st.groups, q) => Absent(groups', q)
  BY <1>2, SameRequestsOK, Zenon
<1>4. /\ getWaitlist' \in Seq(Request) /\ getWaitlist \in Seq(Request)
      /\ \A i \in 1..Len(getWaitlist') : getWaitlist'[i] \in Request
      /\ \A i \in 1..Len(getWaitlist) : getWaitlist[i] \in Request
  BY <1>1, <1>2 DEF WaitlistOK
<1>5. WaitlistOK(getWaitlist', groups')
  BY <1>2, <1>3, <1>4, Zenon DEF WaitlistOK
<1>6. TypeOK'
  BY <1>4 DEF TypeOK, GroupsOK, GroupOK
<1>7. KeepsOrder
  BY <1>2, <1>4, KeptOrder, Zenon
<1>8. Within(groups, groups', max')
  <2>1. /\ CapacityUsed(groups) \in Nat /\ CapacityUsed(gs) \in Nat
        /\ CapacityUsed(st.groups) \in Nat /\ CapacityUsed(groups') \in Nat
    BY <1>2, CapacityOfNat, Zenon DEF PoolInv
  <2> QED BY <1>0, <1>2, <2>1 DEF Within
<1>9. \A r \in Request : detached'[r] # "no" => Absent(groups', r)
  BY <1>2, <1>3, Zenon
<1>10. ASSUME NEW i \in 1..Len(getWaitlist') PROVE detached'[getWaitlist'[i]] = "no"
  <2>1. PICK j \in 1..Len(getWaitlist) : getWaitlist'[i] = getWaitlist[j]
    BY <1>2, Zenon DEF Kept
  <2> QED BY <1>4, <2>1, Zenon
<1> QED BY <1>3, <1>5, <1>6, <1>7, <1>8, <1>9, <1>10 DEF PoolInv, StepOK

-----------------------------------------------------------------------------
(* The actions.                                                             *)

\* A new request is nowhere.
LEMMA FreeFacts ==
  ASSUME PoolInv, NEW r \in Request, Free(r)
  PROVE  /\ Absent(groups, r) /\ detached[r] = "no"
         /\ \A i \in 1..Len(getWaitlist) : getWaitlist[i] # r
<1>1. Absent(groups, r) /\ detached[r] = "no"
  BY DEF Free, Absent, In
<1>2. DOMAIN getWaitlist = 1..Len(getWaitlist)
  BY DEF PoolInv, WaitlistOK
<1> QED BY <1>1, <1>2, Zenon DEF Free, Range

\* What the invariant says of the members of the list.
LEMMA ListFacts ==
  ASSUME PoolInv
  PROVE  /\ max \in Nat /\ max \in Maxes /\ Len(getWaitlist) \in Nat
         /\ getWaitlist \in Seq(Request) /\ CapacityUsed(groups) \in Nat
         /\ \A i \in 1..Len(getWaitlist) : /\ getWaitlist[i] \in Request
                                           /\ Absent(groups, getWaitlist[i])
                                           /\ detached[getWaitlist[i]] = "no"
         /\ \A n \in DOMAIN groups : n \in Name /\ groups[n] \in Group /\ GroupOK(groups[n], FALSE)
<1>1. max \in Maxes /\ max \in Nat
  BY MaxNat DEF PoolInv, TypeOK
<1>2. getWaitlist \in Seq(Request) /\ Len(getWaitlist) \in Nat
  BY DEF PoolInv, WaitlistOK
<1>3. \A i \in 1..Len(getWaitlist) : getWaitlist[i] \in Request
  BY <1>2
<1>4. CapacityUsed(groups) \in Nat
  BY CapacityOfNat, Zenon DEF PoolInv
<1>5. ASSUME NEW n \in DOMAIN groups
      PROVE  n \in Name /\ groups[n] \in Group /\ GroupOK(groups[n], FALSE)
  <2>1. GroupOK(groups[n], n \in {}) /\ n \in Name
    BY DEF PoolInv, GroupsOK
  <2>2. (n \in {}) = FALSE
    OBVIOUS
  <2> QED BY <2>1, <2>2, Zenon DEF GroupOK
<1> QED BY <1>1, <1>2, <1>3, <1>4, <1>5, Zenon DEF PoolInv, WaitlistOK

\* Group::get for a new request, after steps that keep the requests.
LEMMA GetStep ==
  ASSUME PoolInv, NEW r \in Request, Free(r), NEW fs, GroupsOK(fs, {}), Once(fs),
         Within(groups, fs, max), \A q \in Request : Absent(groups, q) => Absent(fs, q),
         NEW n \in DOMAIN fs, groups' \in Get(fs, max, n, r),
         UNCHANGED <<getWaitlist, max, detached>>
  PROVE  StepOK
<1>1. /\ Absent(groups, r) /\ detached[r] = "no"
      /\ \A i \in 1..Len(getWaitlist) : getWaitlist[i] # r
  BY FreeFacts, Zenon
<1>2. /\ max \in Nat /\ max \in Maxes
      /\ \A i \in 1..Len(getWaitlist) : /\ getWaitlist[i] \in Request
                                        /\ Absent(groups, getWaitlist[i])
                                        /\ detached[getWaitlist[i]] = "no"
  BY ListFacts, Zenon
<1>3. /\ GroupsOK(groups', {}) /\ Once(groups')
      /\ \A q \in Request \ {r} : Absent(fs, q) => Absent(groups', q)
      /\ Within(fs, groups', max)
  <2>1. Absent(fs, r)
    BY <1>1, Zenon
  <2> QED BY <1>2, <2>1, GetOK, Zenon
<1>4. Within(groups, groups', max)
  BY <1>2, <1>3, WithinTransitive, Zenon DEF PoolInv
<1>5. \A q \in Request : q # r /\ Absent(groups, q) => Absent(groups', q)
  BY <1>3
<1>6. \A i \in 1..Len(getWaitlist) : Absent(groups', getWaitlist[i])
  BY <1>1, <1>2, <1>5, Zenon
<1>7. \A q \in Request : detached[q] # "no" => Absent(groups', q)
  BY <1>1, <1>5, Zenon DEF PoolInv
<1>8. detached \in [Request -> {"no", "group", "gone"}]
  BY DEF PoolInv, TypeOK
<1>9. UNCHANGED getWaitlist /\ max' = max /\ detached' = detached
  BY DEF vars
<1> QED BY <1>2, <1>3, <1>4, <1>6, <1>7, <1>8, <1>9, GroupsStep

\* A group that stays as it is.
LEMMA WithinSame ==
  ASSUME NEW gs, NEW X, NEW mx, GroupsOK(gs, X)
  PROVE  Within(gs, gs, mx) /\ SameRequests(gs, gs) /\ Shrinks(gs, gs)
         /\ CapacityUsed(gs) <= CapacityUsed(gs)
<1>1. CapacityUsed(gs) \in Nat
  BY CapacityOfNat, Zenon
<1>2. CapacityUsed(gs) <= CapacityUsed(gs)
  BY <1>1
<1> QED BY <1>2 DEF Within, SameRequests, Shrinks

\* Pool::asyncGet for an application that has a group.
LEMMA GetFromGroupOK ==
  ASSUME PoolInv, NEW r \in Request, GetFromGroup(r)
  PROVE  StepOK
<1>1. /\ Free(r) /\ App[r] \in DOMAIN groups /\ groups' \in Get(groups, max, App[r], r)
      /\ UNCHANGED <<getWaitlist, max, detached>>
  BY Zenon DEF GetFromGroup
<1>2. GroupsOK(groups, {}) /\ Once(groups) /\ Within(groups, groups, max)
  BY WithinSame, Zenon DEF PoolInv
<1> QED BY <1>1, <1>2, GetStep, Zenon

\* The pool's list grows by a new request.
LEMMA QueueStep ==
  ASSUME PoolInv, NEW r \in Request, Free(r), getWaitlist' = Append(getWaitlist, r),
         UNCHANGED <<groups, max, detached>>
  PROVE  StepOK
<1>1. /\ Absent(groups, r) /\ detached[r] = "no"
      /\ \A i \in 1..Len(getWaitlist) : getWaitlist[i] # r
  BY FreeFacts, Zenon
<1>2. /\ Len(getWaitlist) \in Nat /\ getWaitlist \in Seq(Request)
      /\ \A i \in 1..Len(getWaitlist) : /\ Absent(groups, getWaitlist[i])
                                        /\ detached[getWaitlist[i]] = "no"
      /\ \A i, j \in 1..Len(getWaitlist) : getWaitlist[i] = getWaitlist[j] => i = j
  BY ListFacts, Zenon DEF PoolInv, WaitlistOK
<1>3. /\ getWaitlist' \in Seq(Request) /\ Len(getWaitlist') = Len(getWaitlist) + 1
      /\ \A i \in 1..Len(getWaitlist) : getWaitlist'[i] = getWaitlist[i]
      /\ getWaitlist'[Len(getWaitlist) + 1] = r
      /\ DOMAIN getWaitlist = 1..Len(getWaitlist) /\ DOMAIN getWaitlist' = 1..(Len(getWaitlist) + 1)
  BY <1>2
<1>4. \A i \in 1..Len(getWaitlist') : i \in 1..Len(getWaitlist) \/ i = Len(getWaitlist) + 1
  BY <1>2, <1>3
<1>5. ASSUME NEW i \in 1..Len(getWaitlist')
      PROVE  Absent(groups, getWaitlist'[i]) /\ detached[getWaitlist'[i]] = "no"
  BY <1>1, <1>2, <1>3, <1>4, Zenon
<1>6. ASSUME NEW i \in 1..Len(getWaitlist'), NEW j \in 1..Len(getWaitlist'),
             getWaitlist'[i] = getWaitlist'[j]
      PROVE  i = j
  <2>1. CASE i \in 1..Len(getWaitlist) /\ j \in 1..Len(getWaitlist)
    BY <1>2, <1>3, <1>6, <2>1, Zenon
  <2>2. CASE i = Len(getWaitlist) + 1 /\ j \in 1..Len(getWaitlist)
    BY <1>1, <1>3, <1>6, <2>2, Zenon
  <2>3. CASE i \in 1..Len(getWaitlist) /\ j = Len(getWaitlist) + 1
    BY <1>1, <1>3, <1>6, <2>3, Zenon
  <2> QED BY <1>4, <2>1, <2>2, <2>3, Zenon
<1>7. WaitlistOK(getWaitlist', groups')
  BY <1>3, <1>5, <1>6, Zenon DEF WaitlistOK
<1>8. KeepsOrder
  <2> SUFFICES ASSUME NEW i \in DOMAIN getWaitlist, NEW j \in DOMAIN getWaitlist,
                      NEW k \in DOMAIN getWaitlist', NEW l \in DOMAIN getWaitlist',
                      getWaitlist'[k] = getWaitlist[i], getWaitlist'[l] = getWaitlist[j], i < j
               PROVE  k < l
    BY Zenon DEF KeepsOrder
  <2>1. i \in 1..Len(getWaitlist') /\ j \in 1..Len(getWaitlist')
    BY <1>2, <1>3
  <2>2. k \in 1..Len(getWaitlist') /\ l \in 1..Len(getWaitlist')
    BY <1>3
  <2>3. k = i /\ l = j
    BY <1>3, <1>6, <2>1, <2>2
  <2> QED BY <2>3, Zenon
<1>9. TypeOK'
  BY <1>3 DEF PoolInv, TypeOK
<1>10. Within(groups, groups', max')
  BY WithinSame, Zenon DEF PoolInv
<1> QED BY <1>5, <1>7, <1>8, <1>9, <1>10 DEF PoolInv, StepOK

\* Pool::asyncGet for an application that has no group.
LEMMA GetCreatesOK ==
  ASSUME PoolInv, NEW r \in Request, GetCreates(r)
  PROVE  StepOK
<1> DEFINE n == App[r]
<1>0. Free(r) /\ n \notin DOMAIN groups /\ UNCHANGED <<max, detached>>
  BY Zenon DEF GetCreates
<1>1. n \in Name
  BY PoolAssumption
<1>2. GroupsOK(groups, {}) /\ Once(groups) /\ max \in Nat
  BY ListFacts, Zenon DEF PoolInv
<1>3. ASSUME NEW fs, GroupsOK(fs, {}), SameRequests(groups, fs),
             CapacityUsed(fs) <= CapacityUsed(groups),
             groups' \in Get(CreateGroup(fs, n), max, n, r), UNCHANGED getWaitlist
      PROVE  StepOK
  <2> DEFINE gs == CreateGroup(fs, n)
  <2>1. Once(fs) /\ n \notin DOMAIN fs /\ \A q \in Request : Absent(groups, q) => Absent(fs, q)
    BY <1>0, <1>2, <1>3, SameRequestsOK, Zenon DEF SameRequests
  <2>2. /\ GroupsOK(gs, {}) /\ Once(gs) /\ DOMAIN gs = DOMAIN fs \cup {n}
        /\ \A q \in Request : Absent(fs, q) => Absent(gs, q)
        /\ CapacityUsed(gs) = CapacityUsed(fs)
    BY <1>1, <1>3, <2>1, CreateGroupOK, Zenon
  <2>3. groups' \in Get(gs, max, n, r)
    BY <1>3, Zenon
  <2> HIDE DEF gs
  <2>4. n \in DOMAIN gs /\ \A q \in Request : Absent(groups, q) => Absent(gs, q)
    BY <2>1, <2>2
  <2>5. Within(groups, gs, max)
    BY <1>3, <2>2, Zenon DEF Within
  <2>6. UNCHANGED <<getWaitlist, max, detached>>
    BY <1>0, <1>3
  <2> HIDE DEF n
  <2> QED BY <1>0, <2>2, <2>3, <2>4, <2>5, <2>6, GetStep, Zenon
<1>4. CASE groups' \in Get(CreateGroup(groups, n), max, n, r) /\ UNCHANGED getWaitlist
  <2>1. SameRequests(groups, groups) /\ CapacityUsed(groups) <= CapacityUsed(groups)
    BY <1>2, WithinSame, Zenon
  <2> QED BY <1>2, <1>3, <1>4, <2>1, Zenon
<1>5. CASE getWaitlist' = Append(getWaitlist, r) /\ UNCHANGED groups
  <2>1. UNCHANGED <<groups, max, detached>>
    BY <1>0, <1>5
  <2> QED BY <1>0, <1>5, <2>1, QueueStep, Zenon
<1>6. CASE /\ \E f \in ForceFreeCapacity(groups, {}) : groups' \in Get(CreateGroup(f, n), max, n, r)
           /\ UNCHANGED getWaitlist
  <2>1. PICK f \in ForceFreeCapacity(groups, {}) : groups' \in Get(CreateGroup(f, n), max, n, r)
    BY <1>6, Zenon
  <2>2. GroupsOK(f, {}) /\ SameRequests(groups, f) /\ CapacityUsed(f) <= CapacityUsed(groups)
    BY <1>2, ForceFreeOK, Zenon
  <2> QED BY <1>3, <1>6, <2>1, <2>2, Zenon
<1> QED BY <1>4, <1>5, <1>6, Zenon DEF GetCreates

\* Group::restart keeps the waiters and nothing else.
LEMMA RestartedOK ==
  ASSUME PoolInv, NEW n \in DOMAIN groups
  PROVE  LET gs == [groups EXCEPT ![n] = Restarted(@)] IN
         /\ GroupsOK(gs, {}) /\ Shrinks(groups, gs) /\ DOMAIN gs = DOMAIN groups
         /\ CapacityUsed(gs) <= CapacityUsed(groups) /\ gs[n].sessions = {}
<1> DEFINE gs == [groups EXCEPT ![n] = Restarted(@)]
           h == Restarted(groups[n])
<1>1. GroupOK(groups[n], FALSE) /\ groups[n] \in Group /\ CapacityUsed(groups) \in Nat
  BY ListFacts, Zenon
<1>2. Updates(groups, gs, n) /\ gs[n] = h
  BY DEF Updates
<1>3. /\ h.idle = 0 /\ h.sessions = {} /\ h.waiters = groups[n].waiters /\ h.spawning = FALSE
      /\ h.processesBeingSpawned = 0 /\ h.restarting = TRUE
  BY DEF Restarted, NewGroup
<1>4. h \in Group
  <2>1. groups[n].waiters \in SUBSET Request
    BY <1>1 DEF Group
  <2> QED BY <2>1, Zenon DEF Restarted, NewGroup, Group
<1> HIDE DEF gs, h
<1>5. GroupOK(gs[n], n \in {})
  BY <1>2, <1>3, <1>4 DEF GroupOK
<1>6. /\ GroupsOK(gs, {})
      /\ CapacityUsed(gs) = CapacityUsed(groups) + GroupCapacityUsed(gs[n])
                                                 - GroupCapacityUsed(groups[n])
  <2>1. {} \subseteq {} \cup {n}
    OBVIOUS
  <2>2. GroupsOK(groups, {})
    BY DEF PoolInv
  <2> QED BY <1>2, <1>5, <2>1, <2>2, UpdateOK
<1>7. GroupCapacityUsed(gs[n]) = 0 /\ GroupCapacityUsed(groups[n]) \in Nat
  <2>1. Cardinality({}) = 0
    BY FS_EmptySet, Zenon
  <2>2. GroupCapacityUsed(groups[n]) \in Nat
    BY <1>1, GroupNat, Zenon
  <2> QED BY <1>2, <1>3, <2>1, <2>2 DEF GroupCapacityUsed, EnabledCount
<1>8. CapacityUsed(gs) <= CapacityUsed(groups)
  BY <1>1, <1>6, <1>7
<1>9. Shrinks(groups, gs) /\ DOMAIN gs = DOMAIN groups /\ gs[n].sessions = {}
  BY <1>2, <1>3 DEF Shrinks, Updates
<1> QED BY <1>6, <1>8, <1>9, Zenon DEF gs

\* A request that lost its session is in no group.
LEMMA TakenAway ==
  ASSUME NEW gs, NEW hs, NEW n \in DOMAIN gs, NEW q \in Request, Once(gs), Shrinks(gs, hs),
         q \in gs[n].sessions, n \in DOMAIN hs => q \notin hs[n].sessions
  PROVE  Absent(hs, q)
<1> SUFFICES ASSUME NEW m \in DOMAIN hs, In(hs, m, q) PROVE FALSE
  BY Zenon DEF Absent
<1>1. m \in DOMAIN gs /\ In(gs, m, q) /\ In(gs, n, q)
  BY DEF Shrinks, In
<1>2. m = n
  BY <1>1, Zenon DEF Once
<1>3. q \in hs[n].waiters
  BY <1>2, Zenon DEF In
<1>4. q \in gs[n].waiters
  BY <1>2, <1>3 DEF Shrinks
<1> QED BY <1>4, Zenon DEF Once

\* Sessions of group n, and sessions detached before, become detached sessions.
LEMMA DetachFacts ==
  ASSUME PoolInv, NEW n \in DOMAIN groups, NEW kind \in {"group", "gone"}, NEW S,
         S \subseteq groups[n].sessions \cup {q \in Request : detached[q] # "no"},
         detached' = Detach(S, kind)
  PROVE  /\ detached' \in [Request -> {"no", "group", "gone"}]
         /\ \A i \in 1..Len(getWaitlist) : detached'[getWaitlist[i]] = "no"
         /\ \A q \in Request : detached'[q] # "no" =>
              /\ (q \in groups[n].sessions /\ q \in S) \/ Absent(groups, q)
              /\ \A i \in 1..Len(getWaitlist) : getWaitlist[i] # q
<1>1. detached \in [Request -> {"no", "group", "gone"}]
  BY DEF PoolInv, TypeOK
<1>2. \A i \in 1..Len(getWaitlist) : /\ getWaitlist[i] \in Request
                                     /\ Absent(groups, getWaitlist[i])
                                     /\ detached[getWaitlist[i]] = "no"
  BY ListFacts, Zenon
<1>3. /\ detached' \in [Request -> {"no", "group", "gone"}]
      /\ \A q \in Request : detached'[q] = IF q \in S THEN kind ELSE detached[q]
  BY <1>1 DEF Detach
<1>4. \A i \in 1..Len(getWaitlist) : getWaitlist[i] \notin S
  BY <1>2 DEF Absent, In
<1>5. \A i \in 1..Len(getWaitlist) : detached'[getWaitlist[i]] = "no"
  BY <1>2, <1>3, <1>4, Zenon
<1>6. ASSUME NEW q \in Request, detached'[q] # "no"
      PROVE  /\ (q \in groups[n].sessions /\ q \in S) \/ Absent(groups, q)
             /\ \A i \in 1..Len(getWaitlist) : getWaitlist[i] # q
  <2>1. q \in S \/ detached[q] # "no"
    BY <1>3, <1>6, Zenon
  <2>2. detached[q] # "no" => Absent(groups, q)
    BY Zenon DEF PoolInv
  <2>3. (q \in groups[n].sessions /\ q \in S) \/ detached[q] # "no"
    BY <2>1
  <2> QED BY <1>5, <1>6, <2>2, <2>3, Zenon
<1> QED BY <1>3, <1>5, <1>6, Zenon

\* Pool::restartGroupByName.
LEMMA RestartGroupByNameOK ==
  ASSUME PoolInv, NEW n \in Name, RestartGroupByName(n)
  PROVE  StepOK
<1> DEFINE gs == [groups EXCEPT ![n] = Restarted(@)]
<1>0. /\ n \in DOMAIN groups /\ groups' = gs /\ detached' = Detach(groups[n].sessions, "group")
      /\ UNCHANGED getWaitlist /\ max' = max
  BY DEF RestartGroupByName
<1>1. /\ GroupsOK(gs, {}) /\ Shrinks(groups, gs) /\ CapacityUsed(gs) <= CapacityUsed(groups)
      /\ gs[n].sessions = {}
  BY <1>0, RestartedOK, Zenon
<1> HIDE DEF gs
<1>2. Once(gs) /\ \A q \in Request : Absent(groups, q) => Absent(gs, q)
  BY <1>1, ShrinksOK, Zenon DEF PoolInv
<1>3. /\ detached' \in [Request -> {"no", "group", "gone"}]
      /\ \A i \in 1..Len(getWaitlist) : detached'[getWaitlist[i]] = "no"
      /\ \A q \in Request : detached'[q] # "no" => q \in groups[n].sessions \/ Absent(groups, q)
  <2>1. /\ groups[n].sessions \subseteq groups[n].sessions \cup {q \in Request : detached[q] # "no"}
        /\ "group" \in {"group", "gone"}
    OBVIOUS
  <2> QED BY <1>0, <2>1, DetachFacts, Zenon
<1>4. ASSUME NEW q \in Request, detached'[q] # "no" PROVE Absent(gs, q)
  <2>1. CASE q \in groups[n].sessions
    <3>1. q \notin gs[n].sessions
      BY <1>1
    <3> QED BY <1>0, <1>1, <2>1, <3>1, TakenAway, Zenon DEF PoolInv
  <2> QED BY <1>2, <1>3, <1>4, <2>1, Zenon
<1>5. /\ max \in Maxes
      /\ \A i \in 1..Len(getWaitlist) : getWaitlist[i] \in Request /\ Absent(groups, getWaitlist[i])
  BY ListFacts, Zenon
<1>6. Within(groups, gs, max)
  BY <1>1, Zenon DEF Within
<1>7. \A i \in 1..Len(getWaitlist) : Absent(gs, getWaitlist[i])
  BY <1>2, <1>5, Zenon
<1> QED BY <1>0, <1>1, <1>2, <1>3, <1>4, <1>5, <1>6, <1>7, GroupsStep

\* Pool::asyncGet that finds the restart file touched.
LEMMA GetRestartsOK ==
  ASSUME PoolInv, NEW r \in Request, GetRestarts(r)
  PROVE  StepOK
<1> DEFINE n == App[r]
           gs == [groups EXCEPT ![n] = Restarted(@)]
<1>0. /\ n \in DOMAIN groups /\ groups' \in SessionForGet(gs, n, r) /\ detached' = Detach(groups[n].sessions, "group")
      /\ UNCHANGED getWaitlist /\ max' = max /\ Free(r)
  BY DEF GetRestarts
<1>1. /\ GroupsOK(gs, {}) /\ Shrinks(groups, gs) /\ CapacityUsed(gs) <= CapacityUsed(groups)
      /\ gs[n].sessions = {} /\ DOMAIN gs = DOMAIN groups
  BY <1>0, RestartedOK, Zenon
<1> HIDE DEF gs, n
<1>2. Once(gs) /\ \A q \in Request : Absent(groups, q) => Absent(gs, q)
  BY <1>1, ShrinksOK, Zenon DEF PoolInv
<1>3. /\ Absent(groups, r) /\ detached[r] = "no"
      /\ \A i \in 1..Len(getWaitlist) : getWaitlist[i] # r
  BY <1>0, FreeFacts, Zenon
<1>4. /\ GroupsOK(groups', {}) /\ Once(groups') /\ CapacityUsed(groups') = CapacityUsed(gs)
      /\ \A q \in Request \ {r} : Absent(gs, q) => Absent(groups', q)
  <2>1. n \in DOMAIN gs /\ Absent(gs, r)
    BY <1>0, <1>1, <1>2, <1>3, Zenon
  <2>2. PICK hs \in SessionForGet(gs, n, r) : hs = groups'
    BY <1>0, Zenon
  <2>3. GroupsOK(gs, {}) /\ Once(gs)
    BY <1>1, <1>2, Zenon
  <2>4. /\ GroupsOK(hs, {}) /\ Once(hs) /\ DOMAIN hs = DOMAIN gs
        /\ \A q \in Request \ {r} : Absent(gs, q) => Absent(hs, q)
        /\ CapacityUsed(hs) = CapacityUsed(gs)
    BY <2>1, <2>3, SessionForGetOK, ZenonT(30)
  <2> QED BY <2>2, <2>4, Zenon
<1>5. /\ detached' \in [Request -> {"no", "group", "gone"}]
      /\ \A i \in 1..Len(getWaitlist) : detached'[getWaitlist[i]] = "no"
      /\ \A q \in Request : detached'[q] # "no" => q \in groups[n].sessions \/ Absent(groups, q)
  <2>1. /\ groups[n].sessions \subseteq groups[n].sessions \cup {q \in Request : detached[q] # "no"}
        /\ "group" \in {"group", "gone"}
    OBVIOUS
  <2> QED BY <1>0, <2>1, DetachFacts, Zenon
<1>6. ASSUME NEW q \in Request, detached'[q] # "no" PROVE Absent(groups', q)
  <2>1. Absent(gs, q)
    <3>1. CASE q \in groups[n].sessions
      <4>1. q \notin gs[n].sessions
        BY <1>1
      <4> QED BY <1>0, <1>1, <3>1, <4>1, TakenAway, Zenon DEF PoolInv
    <3> QED BY <1>2, <1>5, <1>6, <3>1, Zenon
  <2>2. q # r
    <3>1. r \notin groups[n].sessions
      BY <1>0, <1>3, Zenon DEF Absent, In
    <3>2. detached'[r] = detached[r]
      BY <1>0, <3>1 DEF Detach
    <3> QED BY <1>3, <1>6, <3>2, Zenon
  <2> QED BY <1>4, <2>1, <2>2
<1>7. /\ max \in Maxes
      /\ \A i \in 1..Len(getWaitlist) : getWaitlist[i] \in Request /\ Absent(groups, getWaitlist[i])
  BY ListFacts, Zenon
<1>8. Within(groups, groups', max)
  BY <1>1, <1>4, Zenon DEF Within
<1>9. \A i \in 1..Len(getWaitlist) : Absent(groups', getWaitlist[i])
  BY <1>2, <1>3, <1>4, <1>7
<1> QED BY <1>0, <1>4, <1>5, <1>6, <1>7, <1>8, <1>9, GroupsStep

\* Pool::detachProcessUnlocked, once the process is off its list.
LEMMA AfterDetachOK ==
  ASSUME PoolInv, NEW gs, GroupsOK(gs, {}), Shrinks(groups, gs),
         CapacityUsed(gs) <= CapacityUsed(groups), AfterDetach(gs), UNCHANGED max,
         detached' \in [Request -> {"no", "group", "gone"}],
         \A q \in Request : detached'[q] # "no" =>
           Absent(gs, q) /\ \A i \in 1..Len(getWaitlist) : getWaitlist[i] # q
  PROVE  StepOK
<1>1. PICK st \in AssignSessionsToGetWaiters(gs, max) :
        groups' = PossiblySpawnMore(st.groups, max) /\ getWaitlist' = st.waitlist
  BY Zenon DEF AfterDetach
<1>2. max \in Nat /\ max \in Maxes /\ max' = max
  BY ListFacts, Zenon
<1>3. Once(gs) /\ WaitlistOK(getWaitlist, gs)
  BY ShrinksOK, Zenon DEF PoolInv
<1>4. GroupsOK(st.groups, {})
  BY <1>2, <1>3, Rebuilt, Zenon
<1>5. /\ GroupsOK(groups', {}) /\ SameRequests(st.groups, groups')
      /\ Within(st.groups, groups', max)
  BY <1>1, <1>2, <1>4, PossiblySpawnMoreOK, Zenon
<1> QED BY <1>1, <1>2, <1>5, RebuildStep

\* Detached sessions that stay detached are in no group and not on the list.
LEMMA DetachedSame ==
  ASSUME PoolInv, NEW gs, Shrinks(groups, gs),
         \A q \in Request : detached'[q] # "no" => detached[q] # "no"
  PROVE  \A q \in Request : detached'[q] # "no" =>
           Absent(gs, q) /\ \A i \in 1..Len(getWaitlist) : getWaitlist[i] # q
<1>1. \A q \in Request : Absent(groups, q) => Absent(gs, q)
  BY ShrinksOK, Zenon
<1>2. \A i \in 1..Len(getWaitlist) : detached[getWaitlist[i]] = "no"
  BY ListFacts, Zenon
<1> QED BY <1>1, <1>2, Zenon DEF PoolInv

\* The session of r is closed: its process is neither idle nor busy now.
LEMMA ClosedOK ==
  ASSUME PoolInv, NEW n \in DOMAIN groups, NEW r \in groups[n].sessions
  PROVE  LET gs == [groups EXCEPT ![n].sessions = @ \ {r}] IN
         /\ GroupsOK(gs, {}) /\ Shrinks(groups, gs) /\ Updates(groups, gs, n)
         /\ CapacityUsed(gs) <= CapacityUsed(groups)
         /\ r \notin gs[n].sessions /\ gs[n] \in Group /\ GroupOK(gs[n], FALSE) /\ ~gs[n].restarting
         /\ GroupCapacityUsed(gs[n]) = GroupCapacityUsed(groups[n]) - 1
<1> DEFINE gs == [groups EXCEPT ![n].sessions = @ \ {r}]
           g == groups[n]
           h == [g EXCEPT !.sessions = @ \ {r}]
<1>1. GroupOK(g, FALSE) /\ g \in Group /\ CapacityUsed(groups) \in Nat
  BY ListFacts, Zenon
<1>2. Updates(groups, gs, n) /\ gs[n] = h
  BY DEF Updates
<1>3. /\ g.idle \in Nat /\ g.sessions \in SUBSET Request /\ IsFiniteSet(g.sessions)
      /\ g.processesBeingSpawned \in Nat /\ Cardinality(g.sessions) \in Nat
      /\ GroupCapacityUsed(g) \in Nat
  <2> HIDE DEF g
  <2> QED BY <1>1, GroupNat DEF Group
<1>4. h \in Group
  <2>1. g.sessions \ {r} \in SUBSET Request
    BY <1>3
  <2> HIDE DEF g
  <2> QED BY <1>1, <2>1, Zenon DEF Group
<1>5. /\ h.idle = g.idle /\ h.sessions = g.sessions \ {r}
      /\ h.waiters = g.waiters /\ h.processesBeingSpawned = g.processesBeingSpawned
      /\ h.spawning = g.spawning /\ h.restarting = g.restarting
  <2> HIDE DEF g
  <2> QED BY <1>1, Zenon DEF Group
<1>6. r \in g.sessions
  OBVIOUS
<1> HIDE DEF gs, h
<1>7. GroupOK(h, FALSE) /\ ~h.restarting
  <2> HIDE DEF g
  <2>1. ~g.restarting
    BY <1>1, <1>6 DEF GroupOK
  <2> QED BY <1>1, <1>4, <1>5, <2>1, Zenon DEF GroupOK
<1>8. GroupCapacityUsed(h) = GroupCapacityUsed(g) - 1
  <2> HIDE DEF g
  <2>1. Cardinality(g.sessions \ {r}) = Cardinality(g.sessions) - 1
    BY <1>3, <1>6, FS_RemoveElement, Zenon
  <2>2. GroupCapacityUsed(h) = g.idle + (Cardinality(g.sessions) - 1) + g.processesBeingSpawned
    BY <1>5, <2>1, Zenon DEF GroupCapacityUsed, EnabledCount
  <2> QED BY <1>3, <2>2 DEF GroupCapacityUsed, EnabledCount
<1>9. /\ GroupsOK(gs, {})
      /\ CapacityUsed(gs) = CapacityUsed(groups) + GroupCapacityUsed(gs[n])
                                                 - GroupCapacityUsed(groups[n])
  <2>1. {} \subseteq {} \cup {n} /\ (n \in {}) = FALSE
    OBVIOUS
  <2>2. GroupsOK(groups, {}) /\ GroupOK(gs[n], n \in {})
    BY <1>2, <1>7, <2>1, Zenon DEF PoolInv
  <2> QED BY <1>2, <2>1, <2>2, UpdateOK
<1>10. CapacityUsed(gs) <= CapacityUsed(groups)
  <2>1. CapacityUsed(gs) = CapacityUsed(groups) + (GroupCapacityUsed(g) - 1) - GroupCapacityUsed(g)
    BY <1>2, <1>8, <1>9, Zenon
  <2> HIDE DEF g
  <2> QED BY <1>1, <1>3, <2>1
<1>11. Shrinks(groups, gs)
  BY <1>2, <1>5 DEF Shrinks, Updates
<1>12. r \notin h.sessions
  BY <1>5
<1> QED BY <1>2, <1>4, <1>7, <1>8, <1>9, <1>10, <1>11, <1>12, Zenon DEF gs

\* Updates of one group compose.
LEMMA UpdatesTwice ==
  ASSUME NEW fs, NEW gs, NEW hs, NEW n, Updates(fs, gs, n), Updates(gs, hs, n)
  PROVE  Updates(fs, hs, n)
BY DEF Updates

\* Group::onSessionClose for an enabled process.
LEMMA CloseSessionOK ==
  ASSUME PoolInv, NEW n \in Name, NEW r \in Request, NEW maxed \in BOOLEAN, CloseSession(n, r, maxed)
  PROVE  StepOK
<1> DEFINE closed == [groups EXCEPT ![n].sessions = @ \ {r}]
           idle == [closed EXCEPT ![n].idle = @ + 1]
<1>0. n \in DOMAIN groups /\ r \in groups[n].sessions /\ max' = max /\ detached' = detached
  BY DEF CloseSession
<1>1. /\ GroupsOK(closed, {}) /\ Shrinks(groups, closed) /\ Updates(groups, closed, n)
      /\ CapacityUsed(closed) <= CapacityUsed(groups)
      /\ closed[n] \in Group /\ GroupOK(closed[n], FALSE) /\ ~closed[n].restarting
      /\ GroupCapacityUsed(closed[n]) = GroupCapacityUsed(groups[n]) - 1
  BY <1>0, ClosedOK, Zenon
<1>2. /\ max \in Nat /\ max \in Maxes /\ CapacityUsed(groups) \in Nat /\ groups[n] \in Group
      /\ \A i \in 1..Len(getWaitlist) : /\ getWaitlist[i] \in Request
                                        /\ Absent(groups, getWaitlist[i])
                                        /\ detached[getWaitlist[i]] = "no"
  BY <1>0, ListFacts, Zenon
<1>3. detached' \in [Request -> {"no", "group", "gone"}]
  BY <1>0 DEF PoolInv, TypeOK
<1>4. CASE AfterDetach(closed)
  <2> HIDE DEF closed
  <2>1. \A q \in Request : detached'[q] # "no" =>
          Absent(closed, q) /\ \A i \in 1..Len(getWaitlist) : getWaitlist[i] # q
    BY <1>0, <1>1, DetachedSame, Zenon
  <2> QED BY <1>0, <1>1, <1>3, <1>4, <2>1, AfterDetachOK, Zenon
<1>5. CASE groups' \in AssignSessionsInGroup(idle, n) /\ UNCHANGED getWaitlist
  <2> DEFINE h == [closed[n] EXCEPT !.idle = @ + 1]
  <2>1. Updates(closed, idle, n) /\ idle[n] = h
    <3>1. n \in DOMAIN closed
      BY <1>0
    <3> HIDE DEF closed
    <3> QED BY <3>1 DEF Updates
  <2> HIDE DEF closed, idle
  <2>2. h \in Group
    <3>1. closed[n].idle + 1 \in Nat
      BY <1>1 DEF Group
    <3> QED BY <1>1, <3>1, Zenon DEF Group
  <2>3. /\ h.idle = closed[n].idle + 1 /\ h.sessions = closed[n].sessions
        /\ h.waiters = closed[n].waiters
        /\ h.processesBeingSpawned = closed[n].processesBeingSpawned
        /\ h.spawning = closed[n].spawning /\ h.restarting = closed[n].restarting
    BY <1>1, Zenon DEF Group
  <2> HIDE DEF h
  <2>4. SameRequests(closed, idle)
    BY <2>1, <2>3, Zenon DEF Updates, SameRequests
  <2>5. Once(idle) /\ \A q \in Request : Absent(groups, q) => Absent(idle, q)
    BY <1>1, <2>4, ShrinksOK, SameRequestsOK, Zenon DEF PoolInv
  <2>6. /\ Updates(idle, groups', n) /\ GroupOK(groups'[n], FALSE) /\ Once(groups')
        /\ GroupCapacityUsed(groups'[n]) = GroupCapacityUsed(idle[n])
        /\ \A q \in Request : Absent(idle, q) => Absent(groups', q)
    <3>1. /\ idle[n] \in Group /\ ~idle[n].restarting
          /\ idle[n].processesBeingSpawned = (IF idle[n].spawning /\ ~FALSE THEN 1 ELSE 0)
      BY <1>1, <2>1, <2>2, <2>3, Zenon DEF GroupOK
    <3>2. n \in DOMAIN idle
      BY <2>1, Zenon DEF Updates
    <3> QED BY <1>5, <2>5, <3>1, <3>2, AssignInGroupOK, Zenon
  <2>7. Updates(groups, groups', n)
    BY <1>1, <2>1, <2>6, UpdatesTwice, Zenon
  <2>8. GroupCapacityUsed(h) = GroupCapacityUsed(groups[n])
    <3>1. /\ closed[n].idle \in Nat /\ closed[n].processesBeingSpawned \in Nat
          /\ Cardinality(closed[n].sessions) \in Nat /\ GroupCapacityUsed(groups[n]) \in Nat
      BY <1>1, <1>2, GroupNat, Zenon
    <3>2. GroupCapacityUsed(h) = (closed[n].idle + 1) + Cardinality(closed[n].sessions)
                                 + closed[n].processesBeingSpawned
      BY <2>3, Zenon DEF GroupCapacityUsed, EnabledCount
    <3>3. GroupCapacityUsed(closed[n]) = closed[n].idle + Cardinality(closed[n].sessions)
                                         + closed[n].processesBeingSpawned
      BY Zenon DEF GroupCapacityUsed, EnabledCount
    <3> QED BY <1>1, <3>1, <3>2, <3>3
  <2>9. /\ GroupsOK(groups', {})
        /\ CapacityUsed(groups') = CapacityUsed(groups) + GroupCapacityUsed(groups'[n])
                                                        - GroupCapacityUsed(groups[n])
    <3>1. {} \subseteq {} \cup {n} /\ (n \in {}) = FALSE
      OBVIOUS
    <3>2. GroupsOK(groups, {}) /\ GroupOK(groups'[n], n \in {})
      BY <2>6, <3>1, Zenon DEF PoolInv
    <3> QED BY <2>7, <3>1, <3>2, UpdateOK
  <2>10. Within(groups, groups', max')
    <3>1. GroupCapacityUsed(groups[n]) \in Nat
      BY <1>2, GroupNat, Zenon
    <3>2. GroupCapacityUsed(groups'[n]) = GroupCapacityUsed(groups[n])
      BY <2>1, <2>6, <2>8, Zenon
    <3> QED BY <1>2, <2>9, <3>1, <3>2 DEF Within
  <2>11. \A q \in Request : Absent(groups, q) => Absent(groups', q)
    BY <2>5, <2>6, Zenon
  <2>12. /\ \A i \in 1..Len(getWaitlist) : Absent(groups', getWaitlist[i]) /\ detached'[getWaitlist[i]] = "no"
         /\ \A q \in Request : detached'[q] # "no" => Absent(groups', q)
    BY <1>0, <1>2, <2>11, Zenon DEF PoolInv
  <2> QED BY <1>0, <1>2, <1>3, <1>5, <2>6, <2>9, <2>10, <2>12, GroupsStep
<1> QED BY <1>4, <1>5, Zenon DEF CloseSession

\* Group::onSessionClose for a detached process.
LEMMA CloseDetachedSessionOK ==
  ASSUME PoolInv, NEW r \in Request, NEW maxed \in BOOLEAN, CloseDetachedSession(r, maxed)
  PROVE  StepOK
<1>0. max' = max /\ detached' = [detached EXCEPT ![r] = "no"]
  BY DEF CloseDetachedSession
<1>1. /\ detached' \in [Request -> {"no", "group", "gone"}]
      /\ \A q \in Request : detached'[q] # "no" => detached[q] # "no"
      /\ \A q \in Request : detached[q] = "no" => detached'[q] = "no"
  <2>1. detached \in [Request -> {"no", "group", "gone"}]
    BY DEF PoolInv, TypeOK
  <2> QED BY <1>0, <2>1
<1>2. /\ GroupsOK(groups, {}) /\ Shrinks(groups, groups) /\ Once(groups)
      /\ CapacityUsed(groups) <= CapacityUsed(groups) /\ Within(groups, groups, max)
  BY WithinSame, Zenon DEF PoolInv
<1>3. \A q \in Request : detached'[q] # "no" =>
        Absent(groups, q) /\ \A i \in 1..Len(getWaitlist) : getWaitlist[i] # q
  BY <1>1, <1>2, DetachedSame, Zenon
<1>4. CASE AfterDetach(groups)
  BY <1>0, <1>1, <1>2, <1>3, <1>4, AfterDetachOK, Zenon
<1>5. CASE UNCHANGED <<groups, getWaitlist>>
  <2>1. /\ max \in Maxes
        /\ \A i \in 1..Len(getWaitlist) : /\ Absent(groups, getWaitlist[i])
                                          /\ detached'[getWaitlist[i]] = "no"
    BY <1>1, ListFacts, Zenon
  <2>2. groups' = groups /\ UNCHANGED getWaitlist
    BY <1>5
  <2> QED BY <1>0, <1>1, <1>2, <1>3, <2>1, <2>2, GroupsStep
<1> QED BY <1>4, <1>5, Zenon DEF CloseDetachedSession

\* Pool::detachProcess of a process that serves a request.
LEMMA DetachBusyProcessOK ==
  ASSUME PoolInv, NEW n \in Name, NEW r \in Request, DetachBusyProcess(n, r)
  PROVE  StepOK
<1> DEFINE gs == [groups EXCEPT ![n].sessions = @ \ {r}]
<1>0. /\ n \in DOMAIN groups /\ r \in groups[n].sessions /\ AfterDetach(gs)
      /\ detached' = Detach({r}, "group") /\ UNCHANGED max
  BY DEF DetachBusyProcess
<1>1. /\ GroupsOK(gs, {}) /\ Shrinks(groups, gs) /\ CapacityUsed(gs) <= CapacityUsed(groups)
      /\ r \notin gs[n].sessions
  BY <1>0, ClosedOK, Zenon
<1> HIDE DEF gs
<1>2. /\ detached' \in [Request -> {"no", "group", "gone"}]
      /\ \A q \in Request : detached'[q] # "no" =>
           /\ (q \in groups[n].sessions /\ q \in {r}) \/ Absent(groups, q)
           /\ \A i \in 1..Len(getWaitlist) : getWaitlist[i] # q
  <2>1. /\ {r} \subseteq groups[n].sessions \cup {q \in Request : detached[q] # "no"}
        /\ "group" \in {"group", "gone"}
    BY <1>0
  <2> QED BY <1>0, <2>1, DetachFacts, Zenon
<1>3. Absent(gs, r)
  BY <1>0, <1>1, TakenAway, Zenon DEF PoolInv
<1>4. \A q \in Request : Absent(groups, q) => Absent(gs, q)
  BY <1>1, ShrinksOK, Zenon
<1>5. \A q \in Request : detached'[q] # "no" =>
        Absent(gs, q) /\ \A i \in 1..Len(getWaitlist) : getWaitlist[i] # q
  BY <1>2, <1>3, <1>4
<1> QED BY <1>0, <1>1, <1>2, <1>5, AfterDetachOK, Zenon

\* Taking k idle processes of one group.
LEMMA FewerIdleOK ==
  ASSUME NEW g \in Group, NEW inFlight \in BOOLEAN, GroupOK(g, inFlight), NEW k \in Nat, k <= g.idle
  PROVE  LET h == [g EXCEPT !.idle = @ - k] IN
         /\ GroupOK(h, inFlight) /\ h.sessions = g.sessions /\ h.waiters = g.waiters
         /\ GroupCapacityUsed(h) <= GroupCapacityUsed(g)
<1> DEFINE h == [g EXCEPT !.idle = @ - k]
<1>1. h \in Group
  <2>1. g.idle - k \in Nat
    BY DEF Group
  <2> QED BY <2>1, Zenon DEF Group
<1>2. /\ h.idle = g.idle - k /\ h.sessions = g.sessions
      /\ h.waiters = g.waiters /\ h.processesBeingSpawned = g.processesBeingSpawned
      /\ h.spawning = g.spawning /\ h.restarting = g.restarting
  BY Zenon DEF Group
<1> HIDE DEF h
<1>3. g.idle \in Nat /\ Cardinality(g.sessions) \in Nat /\ g.processesBeingSpawned \in Nat
  BY GroupNat, Zenon
<1>4. (h.idle > 0 => g.idle > 0) /\ (g.idle = 0 => h.idle = 0)
  BY <1>2, <1>3
<1>5. GroupOK(h, inFlight)
  BY <1>1, <1>2, <1>4, Zenon DEF GroupOK
<1>6. GroupCapacityUsed(h) = (g.idle - k) + Cardinality(g.sessions) + g.processesBeingSpawned
  BY <1>2, Zenon DEF GroupCapacityUsed, EnabledCount
<1>7. GroupCapacityUsed(h) <= GroupCapacityUsed(g)
  BY <1>3, <1>6 DEF GroupCapacityUsed, EnabledCount
<1> QED BY <1>2, <1>5, <1>7, Zenon DEF h

\* Pool::detachProcess of an idle process.
LEMMA DetachIdleProcessOK ==
  ASSUME PoolInv, NEW n \in Name, DetachIdleProcess(n)
  PROVE  StepOK
<1> DEFINE gs == [groups EXCEPT ![n].idle = @ - 1]
<1>0. n \in DOMAIN groups /\ groups[n].idle > 0 /\ AfterDetach(gs) /\ max' = max /\ detached' = detached
  BY DEF DetachIdleProcess
<1>1. gs \in ForceFreeCapacity(groups, {})
  BY <1>0, Zenon DEF ForceFreeCapacity
<1> HIDE DEF gs
<1>2. GroupsOK(gs, {}) /\ SameRequests(groups, gs) /\ CapacityUsed(gs) <= CapacityUsed(groups)
  BY <1>1, ForceFreeOK, Zenon DEF PoolInv
<1>3. Shrinks(groups, gs)
  BY <1>2, Zenon DEF SameRequests, Shrinks
<1>4. detached' \in [Request -> {"no", "group", "gone"}]
  BY <1>0 DEF PoolInv, TypeOK
<1>5. \A q \in Request : detached'[q] # "no" =>
        Absent(gs, q) /\ \A i \in 1..Len(getWaitlist) : getWaitlist[i] # q
  BY <1>0, <1>3, DetachedSame, Zenon
<1> QED BY <1>0, <1>2, <1>3, <1>4, <1>5, AfterDetachOK, Zenon

\* A step to groups that shrink without the list being touched.
LEMMA ShrinkStep ==
  ASSUME PoolInv, UNCHANGED getWaitlist, max' = max,
         detached' \in [Request -> {"no", "group", "gone"}],
         NEW gs, GroupsOK(gs, {}), Shrinks(groups, gs), CapacityUsed(gs) <= CapacityUsed(groups),
         GroupsOK(groups', {}), SameRequests(gs, groups'), Within(gs, groups', max),
         \A q \in Request : detached'[q] # "no" =>
           Absent(gs, q) /\ \A i \in 1..Len(getWaitlist) : getWaitlist[i] # q
  PROVE  StepOK
<1>1. Once(gs) /\ \A q \in Request : Absent(groups, q) => Absent(gs, q)
  BY ShrinksOK, Zenon DEF PoolInv
<1>2. Once(groups') /\ \A q \in Request : Absent(gs, q) => Absent(groups', q)
  BY <1>1, SameRequestsOK, Zenon
<1>3. /\ max \in Maxes /\ max \in Nat
      /\ \A i \in 1..Len(getWaitlist) : getWaitlist[i] \in Request /\ Absent(groups, getWaitlist[i])
  BY ListFacts, Zenon
<1>4. Within(groups, groups', max')
  <2>1. Within(groups, gs, max)
    BY Zenon DEF Within
  <2>2. Within(groups, groups', max)
    BY <1>3, <2>1, WithinTransitive, Zenon DEF PoolInv
  <2> QED BY <2>2, Zenon
<1>5. \A i \in 1..Len(getWaitlist) : Absent(groups', getWaitlist[i])
  BY <1>1, <1>2, <1>3, Zenon
<1>6. \A i \in 1..Len(getWaitlist) : detached'[getWaitlist[i]] = "no"
  BY <1>3, Zenon
<1>7. \A q \in Request : detached'[q] # "no" => Absent(groups', q)
  BY <1>2, Zenon
<1> QED BY <1>2, <1>3, <1>4, <1>5, <1>6, <1>7, GroupsStep

\* Groups that each use no more than before use no more together.
LEMMA LessCapacity ==
  ASSUME NEW gs, NEW hs, NEW X, NEW Y, GroupsOK(gs, X), GroupsOK(hs, Y),
         DOMAIN hs \subseteq DOMAIN gs,
         \A n \in DOMAIN hs : GroupCapacityUsed(hs[n]) <= GroupCapacityUsed(gs[n])
  PROVE  CapacityUsed(hs) <= CapacityUsed(gs)
<1>1. \A n \in Name : CapacityOf(gs, n) \in Nat /\ CapacityOf(hs, n) \in Nat
  BY CapacityOfNat, Zenon
<1>2. ASSUME NEW n \in Name PROVE CapacityOf(hs, n) <= CapacityOf(gs, n)
  <2>1. CASE n \in DOMAIN hs
    <3>1. n \in DOMAIN gs
      BY <2>1
    <3> QED BY <2>1, <3>1, Zenon DEF CapacityOf
  <2>2. CASE n \notin DOMAIN hs
    <3>1. CapacityOf(hs, n) = 0 /\ CapacityOf(gs, n) \in Nat
      BY <1>1, <2>2, Zenon DEF CapacityOf
    <3> QED BY <3>1
  <2> QED BY <2>1, <2>2
<1> QED BY <1>1, <1>2, CapacityMonotone, Zenon

\* Pool::detachGroupByName.
LEMMA DetachGroupByNameOK ==
  ASSUME PoolInv, NEW n \in Name, DetachGroupByName(n)
  PROVE  StepOK
<1> DEFINE gs == [m \in DOMAIN groups \ {n} |-> groups[m]]
           S == groups[n].sessions \cup {r \in Request : detached[r] = "group" /\ App[r] = n}
<1>0. /\ n \in DOMAIN groups /\ groups' = PossiblySpawnMore(gs, max)
      /\ detached' = Detach(S, "gone") /\ UNCHANGED getWaitlist /\ max' = max
  BY DEF DetachGroupByName
<1>1. DOMAIN gs = DOMAIN groups \ {n} /\ \A m \in DOMAIN gs : gs[m] = groups[m] /\ m \in DOMAIN groups
  OBVIOUS
<1>2. S \subseteq groups[n].sessions \cup {q \in Request : detached[q] # "no"}
  OBVIOUS
<1> HIDE DEF gs, S
<1>3. Shrinks(groups, gs)
  BY <1>1 DEF Shrinks
<1>4. GroupsOK(gs, {})
  BY <1>1 DEF PoolInv, GroupsOK
<1>5. CapacityUsed(gs) <= CapacityUsed(groups)
  <2>1. ASSUME NEW m \in DOMAIN gs PROVE GroupCapacityUsed(gs[m]) <= GroupCapacityUsed(groups[m])
    <3>1. gs[m] = groups[m] /\ GroupCapacityUsed(groups[m]) \in Nat
      BY <1>1, ListFacts, GroupNat, Zenon
    <3> QED BY <3>1
  <2>2. DOMAIN gs \subseteq DOMAIN groups
    BY <1>1
  <2> QED BY <1>4, <2>1, <2>2, LessCapacity, Zenon DEF PoolInv
<1>6. /\ detached' \in [Request -> {"no", "group", "gone"}]
      /\ \A q \in Request : detached'[q] # "no" =>
           /\ q \in groups[n].sessions \/ Absent(groups, q)
           /\ \A i \in 1..Len(getWaitlist) : getWaitlist[i] # q
  <2>1. "gone" \in {"group", "gone"}
    OBVIOUS
  <2> QED BY <1>0, <1>2, <2>1, DetachFacts, Zenon
<1>7. ASSUME NEW q \in Request, detached'[q] # "no" PROVE Absent(gs, q)
  <2>1. CASE q \in groups[n].sessions
    <3>1. n \notin DOMAIN gs
      BY <1>1
    <3> QED BY <1>0, <1>3, <2>1, <3>1, TakenAway, Zenon DEF PoolInv
  <2>2. CASE Absent(groups, q)
    BY <1>3, <2>2, ShrinksOK, Zenon
  <2> QED BY <1>6, <1>7, <2>1, <2>2, Zenon
<1>8. GroupsOK(groups', {}) /\ SameRequests(gs, groups') /\ Within(gs, groups', max)
  <2>1. max \in Nat
    BY ListFacts, Zenon
  <2> QED BY <1>0, <1>4, <2>1, PossiblySpawnMoreOK
<1> QED BY <1>0, <1>3, <1>4, <1>5, <1>6, <1>7, <1>8, ShrinkStep, Zenon

\* Pool::realGarbageCollect.
LEMMA GarbageCollectOK ==
  ASSUME PoolInv, NEW k \in [Name -> 0..Cardinality(Request)], GarbageCollect(k)
  PROVE  StepOK
<1> DEFINE gs == [n \in DOMAIN groups |-> [groups[n] EXCEPT !.idle = @ - k[n]]]
<1>0. /\ groups' = gs /\ UNCHANGED getWaitlist /\ max' = max /\ detached' = detached
      /\ \A n \in DOMAIN groups : k[n] > 0 => k[n] <= groups[n].idle
  BY DEF GarbageCollect
<1>1. DOMAIN gs = DOMAIN groups /\ \A n \in DOMAIN groups : gs[n] = [groups[n] EXCEPT !.idle = @ - k[n]]
  OBVIOUS
<1> HIDE DEF gs
<1>2. ASSUME NEW n \in DOMAIN groups
      PROVE  /\ GroupOK(gs[n], FALSE)
             /\ gs[n].sessions = groups[n].sessions /\ gs[n].waiters = groups[n].waiters
             /\ GroupCapacityUsed(gs[n]) <= GroupCapacityUsed(groups[n])
  <2>1. n \in Name /\ groups[n] \in Group /\ GroupOK(groups[n], FALSE) /\ groups[n].idle \in Nat
    BY ListFacts, GroupNat, Zenon
  <2>2. k[n] \in Nat
    <3>1. IsFiniteSet(Request)
      BY PoolAssumption
    <3>2. Cardinality(Request) \in Nat
      BY <3>1, FS_CardinalityType, Zenon
    <3> QED BY <2>1, <3>2
  <2>3. k[n] <= groups[n].idle
    BY <1>0, <2>1, <2>2
  <2> DEFINE h == [groups[n] EXCEPT !.idle = @ - k[n]]
  <2>4. /\ GroupOK(h, FALSE) /\ h.sessions = groups[n].sessions /\ h.waiters = groups[n].waiters
        /\ GroupCapacityUsed(h) <= GroupCapacityUsed(groups[n])
    <3>1. FALSE \in BOOLEAN
      OBVIOUS
    <3> QED BY <2>1, <2>2, <2>3, <3>1, FewerIdleOK, Zenon
  <2>5. gs[n] = h
    BY <1>1, Zenon
  <2> HIDE DEF h
  <2> QED BY <2>4, <2>5, Zenon
<1>3. GroupsOK(gs, {})
  <2>1. DOMAIN gs \subseteq Name
    BY <1>1 DEF PoolInv, GroupsOK
  <2>2. ASSUME NEW n \in DOMAIN gs PROVE GroupOK(gs[n], n \in {})
    <3>1. (n \in {}) = FALSE
      OBVIOUS
    <3> QED BY <1>1, <1>2, <3>1, Zenon
  <2> QED BY <2>1, <2>2, Zenon DEF GroupsOK
<1>4. SameRequests(groups, gs) /\ Shrinks(groups, gs)
  BY <1>1, <1>2, Zenon DEF SameRequests, Shrinks
<1>5. CapacityUsed(gs) <= CapacityUsed(groups)
  <2>1. DOMAIN gs \subseteq DOMAIN groups
    BY <1>1
  <2> QED BY <1>1, <1>2, <1>3, <2>1, LessCapacity, Zenon DEF PoolInv
<1>6. Within(gs, gs, max) /\ SameRequests(gs, gs)
  BY <1>3, WithinSame, Zenon
<1>7. detached' \in [Request -> {"no", "group", "gone"}]
  BY <1>0 DEF PoolInv, TypeOK
<1>8. \A q \in Request : detached'[q] # "no" =>
        Absent(gs, q) /\ \A i \in 1..Len(getWaitlist) : getWaitlist[i] # q
  BY <1>0, <1>4, DetachedSame, Zenon
<1> QED BY <1>0, <1>3, <1>4, <1>5, <1>6, <1>7, <1>8, ShrinkStep

\* Pool::setMax.
LEMMA SetMaxOK ==
  ASSUME PoolInv, NEW mx \in Maxes, SetMax(mx)
  PROVE  StepOK
<1>0. max' = mx /\ detached' = detached /\ mx \in Nat
  BY MaxNat DEF SetMax
<1>1. detached' \in [Request -> {"no", "group", "gone"}]
  BY <1>0 DEF PoolInv, TypeOK
<1>2. /\ GroupsOK(groups, {}) /\ Shrinks(groups, groups) /\ Once(groups)
      /\ CapacityUsed(groups) <= CapacityUsed(groups) /\ Within(groups, groups, mx)
  BY WithinSame, Zenon DEF PoolInv
<1>3. \A q \in Request : detached'[q] # "no" =>
        Absent(groups, q) /\ \A i \in 1..Len(getWaitlist) : getWaitlist[i] # q
  BY <1>0, <1>2, DetachedSame, Zenon
<1>4. CASE \E st \in AssignSessionsToGetWaiters(groups, mx) :
             groups' = PossiblySpawnMore(st.groups, mx) /\ getWaitlist' = st.waitlist
  <2>1. PICK st \in AssignSessionsToGetWaiters(groups, mx) :
          groups' = PossiblySpawnMore(st.groups, mx) /\ getWaitlist' = st.waitlist
    BY <1>4, Zenon
  <2>2. GroupsOK(st.groups, {})
    BY <1>0, <1>2, Rebuilt, Zenon DEF PoolInv
  <2>3. GroupsOK(groups', {}) /\ SameRequests(st.groups, groups') /\ Within(st.groups, groups', mx)
    BY <1>0, <2>1, <2>2, PossiblySpawnMoreOK
  <2> QED BY <1>0, <1>1, <1>2, <1>3, <2>1, <2>3, RebuildStep
<1>5. CASE UNCHANGED <<groups, getWaitlist>>
  <2>1. \A i \in 1..Len(getWaitlist) : /\ Absent(groups, getWaitlist[i])
                                       /\ detached[getWaitlist[i]] = "no"
    BY ListFacts, Zenon
  <2>2. groups' = groups /\ UNCHANGED getWaitlist
    BY <1>5
  <2> QED BY <1>0, <1>1, <1>2, <1>3, <2>1, <2>2, GroupsStep
<1> QED BY <1>4, <1>5, Zenon DEF SetMax

\* A step of the spawn loop of n that leaves or enters its critical section changes
\* m_spawning and processesBeingSpawned only.
LEMMA SpawnLoopStep ==
  ASSUME NEW gs, NEW hs, NEW X, NEW Y, NEW n, GroupsOK(gs, X), Updates(gs, hs, n),
         Y \subseteq X \cup {n}, X \subseteq Y \cup {n}, GroupOK(hs[n], n \in Y),
         hs[n].idle = gs[n].idle, hs[n].sessions = gs[n].sessions, hs[n].waiters = gs[n].waiters
  PROVE  /\ GroupsOK(hs, Y) /\ SameRequests(gs, hs)
         /\ CapacityUsed(hs) = CapacityUsed(gs) + hs[n].processesBeingSpawned
                                                - gs[n].processesBeingSpawned
<1>1. GroupOK(gs[n], n \in X) /\ gs[n] \in Group /\ CapacityUsed(gs) \in Nat
  BY CapacityOfNat, Zenon DEF GroupsOK, GroupOK, Updates
<1>3. hs[n] \in Group
  BY Zenon DEF GroupOK
<1>4. /\ GroupsOK(hs, Y)
      /\ CapacityUsed(hs) = CapacityUsed(gs) + GroupCapacityUsed(hs[n]) - GroupCapacityUsed(gs[n])
  BY UpdateOK
<1>5. /\ gs[n].processesBeingSpawned \in Nat /\ hs[n].processesBeingSpawned \in Nat
      /\ EnabledCount(gs[n]) \in Nat
  BY <1>1, <1>3, GroupNat, Zenon
<1>6. EnabledCount(hs[n]) = EnabledCount(gs[n])
  BY Zenon DEF EnabledCount
<1>7. CapacityUsed(hs) = CapacityUsed(gs) + hs[n].processesBeingSpawned
                                          - gs[n].processesBeingSpawned
  BY <1>1, <1>4, <1>5, <1>6 DEF GroupCapacityUsed
<1>8. SameRequests(gs, hs)
  BY Zenon DEF SameRequests, Updates
<1> QED BY <1>4, <1>7, <1>8, Zenon

\* The spawn loop takes the process off processesBeingSpawned.
LEMMA ArrivedOK ==
  ASSUME PoolInv, NEW n \in DOMAIN groups, groups[n].spawning
  PROVE  /\ GroupsOK(Arrived(n), {n}) /\ SameRequests(groups, Arrived(n))
         /\ Updates(groups, Arrived(n), n) /\ Shrinks(groups, Arrived(n))
         /\ CapacityUsed(Arrived(n)) = CapacityUsed(groups) - 1
         /\ Arrived(n)[n].idle = groups[n].idle /\ Arrived(n)[n].restarting = groups[n].restarting
         /\ Arrived(n)[n].spawning /\ Arrived(n)[n].processesBeingSpawned = 0
         /\ groups[n].processesBeingSpawned = 1
<1> DEFINE gs == Arrived(n)
           g == groups[n]
           h == [g EXCEPT !.processesBeingSpawned = @ - 1]
<1>1. GroupOK(g, FALSE) /\ g \in Group /\ CapacityUsed(groups) \in Nat
  BY ListFacts, Zenon
<1>2. g.processesBeingSpawned = 1
  BY <1>1 DEF GroupOK
<1>3. Updates(groups, gs, n) /\ gs[n] = h
  BY DEF Updates, Arrived
<1>4. h \in Group
  <2>1. g.processesBeingSpawned - 1 \in Nat
    BY <1>2
  <2> HIDE DEF g
  <2> QED BY <1>1, <2>1, Zenon DEF Group
<1>5. /\ h.processesBeingSpawned = g.processesBeingSpawned - 1
      /\ h.idle = g.idle /\ h.sessions = g.sessions /\ h.waiters = g.waiters
      /\ h.restarting = g.restarting /\ h.spawning = g.spawning
  <2> HIDE DEF g
  <2> QED BY <1>1, Zenon DEF Group
<1> HIDE DEF gs, h
<1>6. gs[n].processesBeingSpawned = 0 /\ gs[n].spawning
  BY <1>2, <1>3, <1>5, SMTT(15)
<1>7. /\ GroupsOK(gs, {n}) /\ SameRequests(groups, gs)
      /\ CapacityUsed(gs) = CapacityUsed(groups) + gs[n].processesBeingSpawned
                                                 - groups[n].processesBeingSpawned
  <2>1. {n} \subseteq {} \cup {n} /\ {} \subseteq {n} \cup {n} /\ n \in {n}
    OBVIOUS
  <2>2. GroupsOK(groups, {}) /\ groups[n].spawning
    BY DEF PoolInv
  <2>3. /\ gs[n] \in Group /\ gs[n].idle = groups[n].idle /\ gs[n].sessions = groups[n].sessions
        /\ gs[n].waiters = groups[n].waiters /\ gs[n].restarting = groups[n].restarting
    BY <1>3, <1>4, <1>5, Zenon
  <2>4. GroupOK(gs[n], n \in {n})
    BY <1>1, <1>6, <2>1, <2>3, SMTT(15) DEF GroupOK
  <2> QED BY <1>3, <2>1, <2>2, <2>3, <2>4, SpawnLoopStep
<1>8. CapacityUsed(gs) = CapacityUsed(groups) - 1
  BY <1>1, <1>2, <1>6, <1>7
<1>9. Shrinks(groups, gs)
  BY <1>7, Zenon DEF SameRequests, Shrinks
<1> QED BY <1>2, <1>3, <1>5, <1>6, <1>7, <1>8, <1>9, Zenon DEF gs

\* The end of an iteration of the spawn loop: it stops, or goes on within the maximum.
LEMMA EndIterationOK ==
  ASSUME NEW gs, NEW n, GroupsOK(gs, {n}), max \in Nat
  PROVE  /\ GroupsOK(EndIteration(gs, n), {}) /\ SameRequests(gs, EndIteration(gs, n))
         /\ Within(gs, EndIteration(gs, n), max)
<1> DEFINE done == \/ LowerLimitsSatisfied(gs[n]) /\ gs[n].waiters = {}
                   \/ UpperLimitsReached(gs[n])
                   \/ AtFullCapacity(gs, max)
           g == gs[n]
           hs == EndIteration(gs, n)
<1>1. n \in DOMAIN gs /\ g \in Group /\ GroupOK(g, n \in {n}) /\ CapacityUsed(gs) \in Nat
  <2>1. n \in DOMAIN gs
    BY DEF GroupsOK
  <2> QED BY <2>1, CapacityOfNat, Zenon DEF GroupsOK, GroupOK
<1>2. g.spawning /\ g.processesBeingSpawned = 0
  <2> HIDE DEF g
  <2> QED BY <1>1 DEF GroupOK
<1>3. {} \subseteq {n} \cup {n} /\ {n} \subseteq {} \cup {n} /\ ~ (n \in {})
  OBVIOUS
<1>4. CASE done
  <2> DEFINE h == [g EXCEPT !.spawning = FALSE, !.processesBeingSpawned = @]
  <2>1. Updates(gs, hs, n) /\ hs[n] = h
    <3>1. hs = [gs EXCEPT ![n].spawning = ~done, ![n].processesBeingSpawned = IF done THEN @ ELSE @ + 1]
      BY Zenon DEF EndIteration
    <3>2. (~done) = FALSE
      BY <1>4
    <3> HIDE DEF done, hs
    <3>3. hs = [gs EXCEPT ![n].spawning = FALSE, ![n].processesBeingSpawned = @]
      BY <1>4, <3>1, <3>2, Zenon
    <3> QED BY <1>1, <3>3 DEF Updates
  <2> HIDE DEF g, hs, done
  <2>2. [g EXCEPT !.spawning = FALSE] \in Group
    BY <1>1, Zenon DEF Group
  <2>3. g.processesBeingSpawned \in Nat
    BY <1>2
  <2>4. h \in Group
    BY <2>2, <2>3, Zenon DEF Group
  <2>5. /\ h.spawning = FALSE /\ h.processesBeingSpawned = g.processesBeingSpawned
        /\ h.idle = g.idle /\ h.sessions = g.sessions /\ h.waiters = g.waiters
        /\ h.restarting = g.restarting
    BY <1>1, Zenon DEF Group
  <2> HIDE DEF h
  <2>6. /\ hs[n] \in Group /\ hs[n].idle = gs[n].idle /\ hs[n].sessions = gs[n].sessions
        /\ hs[n].waiters = gs[n].waiters /\ hs[n].restarting = gs[n].restarting
        /\ hs[n].processesBeingSpawned = 0 /\ ~hs[n].spawning
        /\ gs[n].spawning /\ gs[n].processesBeingSpawned = 0
    BY <1>2, <2>1, <2>4, <2>5, SMTT(15) DEF g
  <2>7. GroupOK(hs[n], n \in {})
    BY <1>1, <1>3, <2>6, SMTT(15) DEF GroupOK, g
  <2>8. /\ GroupsOK(hs, {}) /\ SameRequests(gs, hs)
        /\ CapacityUsed(hs) = CapacityUsed(gs) + hs[n].processesBeingSpawned
                                               - gs[n].processesBeingSpawned
    BY <1>3, <2>1, <2>6, <2>7, SpawnLoopStep, SMTT(15)
  <2>9. Within(gs, hs, max)
    BY <1>1, <2>6, <2>8 DEF Within
  <2> QED BY <2>8, <2>9, Zenon DEF hs
<1>5. CASE ~done
  <2> DEFINE h == [g EXCEPT !.spawning = TRUE, !.processesBeingSpawned = @ + 1]
  <2>0. ~ (CapacityUsed(gs) >= max)
    BY <1>5, Zenon DEF AtFullCapacity
  <2>1. Updates(gs, hs, n) /\ hs[n] = h
    <3>1. hs = [gs EXCEPT ![n].spawning = ~done, ![n].processesBeingSpawned = IF done THEN @ ELSE @ + 1]
      BY Zenon DEF EndIteration
    <3>2. (~done) = TRUE
      BY <1>5
    <3> HIDE DEF done, hs
    <3>3. hs = [gs EXCEPT ![n].spawning = TRUE, ![n].processesBeingSpawned = @ + 1]
      BY <1>5, <3>1, <3>2, Zenon
    <3> QED BY <1>1, <3>3 DEF Updates
  <2> HIDE DEF g, hs, done
  <2>2. [g EXCEPT !.spawning = TRUE] \in Group
    BY <1>1, Zenon DEF Group
  <2>3. g.processesBeingSpawned + 1 \in Nat
    BY <1>2
  <2>4. h \in Group
    BY <2>2, <2>3, Zenon DEF Group
  <2>5. /\ h.spawning = TRUE /\ h.processesBeingSpawned = g.processesBeingSpawned + 1
        /\ h.idle = g.idle /\ h.sessions = g.sessions /\ h.waiters = g.waiters
        /\ h.restarting = g.restarting
    BY <1>1, Zenon DEF Group
  <2> HIDE DEF h
  <2>6. /\ hs[n] \in Group /\ hs[n].idle = gs[n].idle /\ hs[n].sessions = gs[n].sessions
        /\ hs[n].waiters = gs[n].waiters /\ hs[n].restarting = gs[n].restarting
        /\ hs[n].processesBeingSpawned = 1 /\ hs[n].spawning
        /\ gs[n].spawning /\ gs[n].processesBeingSpawned = 0
    BY <1>2, <2>1, <2>4, <2>5, SMTT(15) DEF g
  <2>7. GroupOK(hs[n], n \in {})
    BY <1>1, <1>3, <2>6, SMTT(15) DEF GroupOK, g
  <2>8. /\ GroupsOK(hs, {}) /\ SameRequests(gs, hs)
        /\ CapacityUsed(hs) = CapacityUsed(gs) + hs[n].processesBeingSpawned
                                               - gs[n].processesBeingSpawned
    <3>1. hs[n].idle = gs[n].idle /\ hs[n].sessions = gs[n].sessions /\ hs[n].waiters = gs[n].waiters
      BY <2>6, Zenon
    <3>2. Updates(gs, hs, n)
      BY <2>1, Zenon
    <3> QED BY <1>3, <2>7, <3>1, <3>2, SpawnLoopStep
  <2>9. Within(gs, hs, max)
    BY <1>1, <2>0, <2>6, <2>8 DEF Within
  <2> QED BY <2>8, <2>9, Zenon DEF hs
<1> QED BY <1>4, <1>5

\* The spawn loop stops.
LEMMA StopOK ==
  ASSUME NEW gs, NEW n, NEW mx \in Nat, GroupsOK(gs, {n})
  PROVE  LET hs == [gs EXCEPT ![n].spawning = FALSE] IN
         GroupsOK(hs, {}) /\ SameRequests(gs, hs) /\ Within(gs, hs, mx)
<1> DEFINE g == gs[n]
           h == [g EXCEPT !.spawning = FALSE]
           hs == [gs EXCEPT ![n].spawning = FALSE]
<1>1. n \in DOMAIN gs /\ g \in Group /\ GroupOK(g, n \in {n}) /\ CapacityUsed(gs) \in Nat
  <2>1. n \in DOMAIN gs
    BY DEF GroupsOK
  <2> QED BY <2>1, CapacityOfNat, Zenon DEF GroupsOK, GroupOK
<1>2. g.spawning /\ g.processesBeingSpawned = 0
  <2> HIDE DEF g
  <2> QED BY <1>1 DEF GroupOK
<1>3. {} \subseteq {n} \cup {n} /\ {n} \subseteq {} \cup {n} /\ ~ (n \in {})
  OBVIOUS
<1>4. Updates(gs, hs, n) /\ hs[n] = h
  BY <1>1 DEF Updates
<1> HIDE DEF g, hs
<1>5. /\ h \in Group
      /\ h.spawning = FALSE /\ h.processesBeingSpawned = g.processesBeingSpawned
      /\ h.idle = g.idle /\ h.sessions = g.sessions /\ h.waiters = g.waiters
      /\ h.restarting = g.restarting
  BY <1>1, Zenon DEF Group
<1> HIDE DEF h
<1>6. /\ hs[n] \in Group /\ hs[n].idle = gs[n].idle /\ hs[n].sessions = gs[n].sessions
      /\ hs[n].waiters = gs[n].waiters /\ hs[n].restarting = gs[n].restarting
      /\ hs[n].processesBeingSpawned = 0 /\ ~hs[n].spawning
      /\ gs[n].spawning /\ gs[n].processesBeingSpawned = 0
  BY <1>2, <1>4, <1>5 DEF g
<1>7. GroupOK(hs[n], n \in {})
  BY <1>1, <1>3, <1>6, SMTT(15) DEF GroupOK, g
<1>8. /\ GroupsOK(hs, {}) /\ SameRequests(gs, hs)
      /\ CapacityUsed(hs) = CapacityUsed(gs) + hs[n].processesBeingSpawned
                                             - gs[n].processesBeingSpawned
  BY <1>3, <1>4, <1>6, <1>7, SpawnLoopStep, SMTT(15)
<1>9. Within(gs, hs, mx)
  BY <1>1, <1>6, <1>8 DEF Within
<1> QED BY <1>8, <1>9, Zenon DEF hs

\* The spawn loop attaches the process it spawned.
LEMMA AttachSpawnedOK ==
  ASSUME PoolInv, NEW n \in Name, AttachSpawned(n)
  PROVE  StepOK
<1> DEFINE arrived == Arrived(n)
           attached == [arrived EXCEPT ![n].idle = @ + 1]
           h == [arrived[n] EXCEPT !.idle = @ + 1]
<1>0. n \in DOMAIN groups /\ groups[n].spawning /\ max' = max /\ detached' = detached
  BY DEF AttachSpawned
<1>1. /\ GroupsOK(arrived, {n}) /\ SameRequests(groups, arrived) /\ Updates(groups, arrived, n)
      /\ CapacityUsed(arrived) = CapacityUsed(groups) - 1
  BY <1>0, ArrivedOK, Zenon
<1>2. /\ max \in Nat /\ max \in Maxes /\ CapacityUsed(groups) \in Nat
      /\ \A i \in 1..Len(getWaitlist) : /\ getWaitlist[i] \in Request
                                        /\ Absent(groups, getWaitlist[i])
                                        /\ detached[getWaitlist[i]] = "no"
  BY ListFacts, Zenon
<1>3. detached' \in [Request -> {"no", "group", "gone"}]
  BY <1>0 DEF PoolInv, TypeOK
<1>4. n \in DOMAIN arrived /\ arrived[n] \in Group /\ GroupOK(arrived[n], TRUE)
  <2> HIDE DEF arrived
  <2>1. n \in DOMAIN arrived /\ (n \in {n}) = TRUE
    BY <1>1 DEF GroupsOK
  <2> QED BY <1>1, <2>1, Zenon DEF GroupsOK, GroupOK
<1>5. Updates(arrived, attached, n) /\ attached[n] = h
  <2> HIDE DEF arrived
  <2> QED BY <1>4 DEF Updates
<1> HIDE DEF arrived, attached
<1>6. h \in Group
  <2>1. arrived[n].idle + 1 \in Nat
    BY <1>4 DEF Group
  <2> QED BY <1>4, <2>1, Zenon DEF Group
<1>7. /\ h.idle = arrived[n].idle + 1 /\ h.sessions = arrived[n].sessions
      /\ h.waiters = arrived[n].waiters
      /\ h.processesBeingSpawned = arrived[n].processesBeingSpawned
      /\ h.spawning = arrived[n].spawning /\ h.restarting = arrived[n].restarting
  BY <1>4, Zenon DEF Group
<1> HIDE DEF h
<1>8. SameRequests(groups, attached) /\ Shrinks(groups, attached)
  <2>1. SameRequests(groups, attached)
    BY <1>1, <1>5, <1>7, Zenon DEF SameRequests, Updates
  <2> QED BY <2>1, Zenon DEF SameRequests, Shrinks
<1>9. Once(attached) /\ \A q \in Request : Absent(groups, q) => Absent(attached, q)
  BY <1>8, SameRequestsOK, Zenon DEF PoolInv
<1>10. GroupCapacityUsed(h) = GroupCapacityUsed(arrived[n]) + 1 /\ GroupCapacityUsed(arrived[n]) \in Nat
  <2>1. /\ arrived[n].idle \in Nat /\ arrived[n].processesBeingSpawned \in Nat
        /\ Cardinality(arrived[n].sessions) \in Nat /\ GroupCapacityUsed(arrived[n]) \in Nat
    BY <1>4, GroupNat, Zenon
  <2>2. GroupCapacityUsed(h) = (arrived[n].idle + 1) + Cardinality(arrived[n].sessions)
                               + arrived[n].processesBeingSpawned
    BY <1>7, Zenon DEF GroupCapacityUsed, EnabledCount
  <2>3. GroupCapacityUsed(arrived[n]) = arrived[n].idle + Cardinality(arrived[n].sessions)
                                        + arrived[n].processesBeingSpawned
    BY Zenon DEF GroupCapacityUsed, EnabledCount
  <2> QED BY <2>1, <2>2, <2>3
<1>11. {n} \subseteq {n} \cup {n} /\ (n \in {n}) = TRUE
  OBVIOUS
<1>12. CASE /\ groups[n].waiters = {}
            /\ \E st \in AssignSessionsToGetWaiters(attached, max) :
                 groups' = EndIteration(st.groups, n) /\ getWaitlist' = st.waitlist
  <2>1. GroupOK(attached[n], n \in {n})
    <3>0. h.waiters = {}
      BY <1>0, <1>1, <1>7, <1>12, Zenon DEF SameRequests
    <3>1. h.waiters \subseteq StickyRequests
      BY <3>0
    <3>2. ~h.restarting
      BY <1>4, <1>7, Zenon DEF GroupOK
    <3>3. GroupOK(h, TRUE)
      BY <1>4, <1>6, <1>7, <3>1, <3>2, Zenon DEF GroupOK
    <3> QED BY <1>5, <1>11, <3>3, Zenon
  <2>2. /\ GroupsOK(attached, {n})
        /\ CapacityUsed(attached) = CapacityUsed(arrived) + GroupCapacityUsed(attached[n])
                                                          - GroupCapacityUsed(arrived[n])
    BY <1>1, <1>5, <1>11, <2>1, UpdateOK, SMTT(15)
  <2>3. CapacityUsed(attached) <= CapacityUsed(groups)
    BY <1>1, <1>2, <1>5, <1>10, <2>2
  <2>4. PICK st \in AssignSessionsToGetWaiters(attached, max) :
          groups' = EndIteration(st.groups, n) /\ getWaitlist' = st.waitlist
    BY <1>12, Zenon
  <2>5. GroupsOK(st.groups, {n})
    <3>1. WaitlistOK(getWaitlist, attached)
      BY <1>8, ShrinksOK, ZenonT(30) DEF PoolInv
    <3> QED BY <1>2, <1>9, <2>2, <3>1, Rebuilt, Zenon
  <2>6. GroupsOK(groups', {}) /\ SameRequests(st.groups, groups') /\ Within(st.groups, groups', max)
    BY <1>2, <2>4, <2>5, EndIterationOK
  <2>7. \A q \in Request : detached'[q] # "no" =>
          Absent(attached, q) /\ \A i \in 1..Len(getWaitlist) : getWaitlist[i] # q
    BY <1>0, <1>8, DetachedSame, Zenon
  <2> QED BY <1>0, <1>2, <1>3, <1>8, <2>2, <2>3, <2>4, <2>6, <2>7, RebuildStep, SMTT(15)
<1>13. CASE /\ \E gs \in AssignSessionsInGroup(attached, n) : groups' = EndIteration(gs, n)
            /\ UNCHANGED getWaitlist
  <2>1. PICK gs \in AssignSessionsInGroup(attached, n) : groups' = EndIteration(gs, n)
    BY <1>13, Zenon
  <2>2. /\ Updates(attached, gs, n) /\ GroupOK(gs[n], TRUE) /\ Once(gs)
        /\ GroupCapacityUsed(gs[n]) = GroupCapacityUsed(attached[n])
        /\ \A q \in Request : Absent(attached, q) => Absent(gs, q)
    <3>1. ~h.restarting /\ h.spawning /\ h.processesBeingSpawned = 0
      BY <1>4, <1>7, Zenon DEF GroupOK
    <3>2. /\ attached[n] \in Group /\ ~attached[n].restarting /\ (TRUE => attached[n].spawning)
          /\ attached[n].processesBeingSpawned = (IF attached[n].spawning /\ ~TRUE THEN 1 ELSE 0)
      BY <1>5, <1>6, <3>1, Zenon
    <3>3. n \in DOMAIN attached /\ TRUE \in BOOLEAN
      BY <1>5 DEF Updates
    <3> QED BY <1>9, <3>2, <3>3, AssignInGroupOK, Zenon
  <2>3. Updates(arrived, gs, n)
    BY <1>5, <2>2, UpdatesTwice, Zenon
  <2>4. /\ GroupsOK(gs, {n})
        /\ CapacityUsed(gs) = CapacityUsed(arrived) + GroupCapacityUsed(gs[n])
                                                    - GroupCapacityUsed(arrived[n])
    <3>1. GroupOK(gs[n], n \in {n})
      BY <1>11, <2>2, Zenon
    <3> QED BY <1>1, <1>11, <2>3, <3>1, UpdateOK
  <2>5. GroupsOK(groups', {}) /\ SameRequests(gs, groups') /\ Within(gs, groups', max)
    BY <1>2, <2>1, <2>4, EndIterationOK
  <2>6. Within(groups, groups', max')
    <3>1. CapacityUsed(gs) = CapacityUsed(groups)
      BY <1>1, <1>2, <1>5, <1>10, <2>2, <2>4
    <3> QED BY <1>0, <2>5, <3>1, Zenon DEF Within
  <2>7. Once(groups') /\ \A q \in Request : Absent(groups, q) => Absent(groups', q)
    BY <1>9, <2>2, <2>5, SameRequestsOK, Zenon
  <2>8. /\ \A i \in 1..Len(getWaitlist) : Absent(groups', getWaitlist[i]) /\ detached'[getWaitlist[i]] = "no"
        /\ \A q \in Request : detached'[q] # "no" => Absent(groups', q)
    BY <1>0, <1>2, <2>7, Zenon DEF PoolInv
  <2> QED BY <1>0, <1>2, <1>3, <1>13, <2>5, <2>6, <2>7, <2>8, GroupsStep, SMTT(15)
<1> QED BY <1>12, <1>13, Zenon DEF AttachSpawned, attached, arrived

\* The spawn loop drops the process it spawned.
LEMMA RejectSpawnedOK ==
  ASSUME PoolInv, NEW n \in Name, RejectSpawned(n)
  PROVE  StepOK
<1> DEFINE gs == Arrived(n)
           lacking == UpperLimitsReached(gs[n]) \/ AtFullCapacity(gs, max)
           after == IF lacking THEN gs ELSE PossiblySpawnMore(gs, max)
           hs == [after EXCEPT ![n].spawning = FALSE]
<1>0. /\ n \in DOMAIN groups /\ groups[n].spawning /\ groups' = hs
      /\ UNCHANGED getWaitlist /\ max' = max /\ detached' = detached
  BY DEF RejectSpawned
<1>1. /\ GroupsOK(gs, {n}) /\ SameRequests(groups, gs) /\ Shrinks(groups, gs)
      /\ CapacityUsed(gs) = CapacityUsed(groups) - 1
  BY <1>0, ArrivedOK, Zenon
<1>2. max \in Nat /\ max \in Maxes /\ CapacityUsed(groups) \in Nat
  BY ListFacts, Zenon
<1> HIDE DEF gs, lacking
<1>3. GroupsOK(after, {n}) /\ SameRequests(gs, after) /\ Within(gs, after, max)
  <2>1. CASE lacking
    <3>1. after = gs
      BY <2>1
    <3>2. SameRequests(gs, gs) /\ Within(gs, gs, max)
      BY <1>1, WithinSame, Zenon
    <3> QED BY <1>1, <3>1, <3>2
  <2>2. CASE ~lacking
    <3>1. after = PossiblySpawnMore(gs, max)
      BY <2>2
    <3> QED BY <1>1, <1>2, <3>1, PossiblySpawnMoreOK
  <2> QED BY <2>1, <2>2
<1> HIDE DEF after
<1>4. GroupsOK(hs, {}) /\ SameRequests(after, hs) /\ Within(after, hs, max)
  BY <1>2, <1>3, StopOK, Zenon
<1> HIDE DEF hs
<1>5. SameRequests(groups, hs)
  BY <1>1, <1>3, <1>4, Zenon DEF SameRequests
<1>6. Within(groups, hs, max)
  <2>1. Within(groups, gs, max)
    <3>1. CapacityUsed(gs) <= CapacityUsed(groups)
      BY <1>1, <1>2
    <3> QED BY <3>1, Zenon DEF Within
  <2>2. Within(groups, after, max)
    BY <1>1, <1>2, <1>3, <2>1, WithinTransitive, Zenon DEF PoolInv
  <2> QED BY <1>2, <1>3, <1>4, <2>2, WithinTransitive, Zenon DEF PoolInv
<1>7. /\ GroupsOK(groups, {}) /\ Shrinks(groups, groups)
      /\ CapacityUsed(groups) <= CapacityUsed(groups)
  BY WithinSame, Zenon DEF PoolInv
<1>8. detached' \in [Request -> {"no", "group", "gone"}]
  BY <1>0 DEF PoolInv, TypeOK
<1>9. \A q \in Request : detached'[q] # "no" =>
        Absent(groups, q) /\ \A i \in 1..Len(getWaitlist) : getWaitlist[i] # q
  BY <1>0, <1>7, DetachedSame, Zenon
<1> QED BY <1>0, <1>4, <1>5, <1>6, <1>7, <1>8, <1>9, ShrinkStep

\* The spawn loop failed.
LEMMA SpawnFailedOK ==
  ASSUME PoolInv, NEW n \in Name, SpawnFailed(n)
  PROVE  StepOK
<1> DEFINE arrived == Arrived(n)
           gs == [arrived EXCEPT ![n].waiters = {}]
           h == [arrived[n] EXCEPT !.waiters = {}]
<1>0. n \in DOMAIN groups /\ groups[n].spawning /\ max' = max /\ detached' = detached
  BY DEF SpawnFailed
<1>1. /\ GroupsOK(arrived, {n}) /\ Shrinks(groups, arrived)
      /\ CapacityUsed(arrived) = CapacityUsed(groups) - 1
  BY <1>0, ArrivedOK, Zenon
<1>2. PICK st \in AssignSessionsToGetWaiters(gs, max) :
        groups' = [st.groups EXCEPT ![n].spawning = FALSE] /\ getWaitlist' = st.waitlist
  BY Zenon DEF SpawnFailed
<1>3. max \in Nat /\ max \in Maxes /\ CapacityUsed(groups) \in Nat
  BY ListFacts, Zenon
<1> HIDE DEF arrived
<1>4. n \in DOMAIN arrived /\ arrived[n] \in Group /\ GroupOK(arrived[n], n \in {n})
  <2>1. n \in DOMAIN arrived
    BY <1>1 DEF GroupsOK
  <2> QED BY <1>1, <2>1, Zenon DEF GroupsOK, GroupOK
<1>5. Updates(arrived, gs, n) /\ gs[n] = h
  BY <1>4 DEF Updates
<1> HIDE DEF gs
<1>6. /\ h \in Group /\ h.idle = arrived[n].idle /\ h.sessions = arrived[n].sessions
      /\ h.waiters = {} /\ h.waiters \subseteq StickyRequests
      /\ h.processesBeingSpawned = arrived[n].processesBeingSpawned
      /\ h.spawning = arrived[n].spawning /\ h.restarting = arrived[n].restarting
  <2>1. {} \in SUBSET Request /\ {} \subseteq StickyRequests
    OBVIOUS
  <2> QED BY <1>4, <2>1, Zenon DEF Group
<1> HIDE DEF h
<1>7. GroupOK(gs[n], n \in {n})
  <2>1. GroupOK(h, n \in {n})
    BY <1>4, <1>6, Zenon DEF GroupOK
  <2> QED BY <1>5, <2>1, Zenon
<1>8. /\ GroupsOK(gs, {n})
      /\ CapacityUsed(gs) = CapacityUsed(arrived) + GroupCapacityUsed(gs[n])
                                                  - GroupCapacityUsed(arrived[n])
  <2>1. {n} \subseteq {n} \cup {n}
    OBVIOUS
  <2> QED BY <1>1, <1>5, <1>7, <2>1, UpdateOK
<1>9. CapacityUsed(gs) <= CapacityUsed(groups)
  <2>1. GroupCapacityUsed(gs[n]) = GroupCapacityUsed(arrived[n])
    BY <1>5, <1>6, Zenon DEF GroupCapacityUsed, EnabledCount
  <2>2. GroupCapacityUsed(arrived[n]) \in Nat
    BY <1>4, GroupNat, Zenon
  <2> QED BY <1>1, <1>3, <1>8, <2>1, <2>2
<1>10. Shrinks(groups, gs)
  <2>1. Shrinks(arrived, gs)
    BY <1>5, <1>6 DEF Shrinks, Updates
  <2> QED BY <1>1, <2>1, Zenon DEF Shrinks
<1>11. GroupsOK(st.groups, {n})
  <2>1. Once(gs) /\ WaitlistOK(getWaitlist, gs)
    BY <1>10, ShrinksOK, Zenon DEF PoolInv
  <2> QED BY <1>2, <1>3, <1>8, <2>1, Rebuilt, Zenon
<1>12. GroupsOK(groups', {}) /\ SameRequests(st.groups, groups') /\ Within(st.groups, groups', max)
  BY <1>2, <1>3, <1>11, StopOK, Zenon
<1>13. detached' \in [Request -> {"no", "group", "gone"}]
  BY <1>0 DEF PoolInv, TypeOK
<1>14. \A q \in Request : detached'[q] # "no" =>
         Absent(gs, q) /\ \A i \in 1..Len(getWaitlist) : getWaitlist[i] # q
  BY <1>0, <1>10, DetachedSame, Zenon
<1> QED BY <1>0, <1>2, <1>3, <1>8, <1>9, <1>10, <1>12, <1>13, <1>14, RebuildStep, Zenon

\* Group::finalizeRestart.
LEMMA FinalizeRestartOK ==
  ASSUME PoolInv, NEW n \in Name, FinalizeRestart(n)
  PROVE  StepOK
<1> DEFINE gs == [groups EXCEPT ![n].restarting = FALSE]
           h == [groups[n] EXCEPT !.restarting = FALSE]
<1>0. /\ n \in DOMAIN groups /\ UNCHANGED getWaitlist /\ max' = max /\ detached' = detached
      /\ \/ groups' = gs \/ groups' = Spawn(gs, max, n)
         \/ \E f \in ForceFreeCapacity(gs, {n}) : groups' = Spawn(f, max, n)
  BY Zenon DEF FinalizeRestart
<1>1. GroupOK(groups[n], FALSE) /\ groups[n] \in Group /\ CapacityUsed(groups) \in Nat /\ max \in Nat
  BY <1>0, ListFacts, Zenon
<1>2. Updates(groups, gs, n) /\ gs[n] = h
  BY <1>0 DEF Updates
<1> HIDE DEF gs
<1>3. /\ h \in Group /\ h.idle = groups[n].idle /\ h.sessions = groups[n].sessions
      /\ h.waiters = groups[n].waiters
      /\ h.processesBeingSpawned = groups[n].processesBeingSpawned
      /\ h.spawning = groups[n].spawning /\ h.restarting = FALSE
  BY <1>1, Zenon DEF Group
<1> HIDE DEF h
<1>4. GroupOK(gs[n], n \in {})
  <2>1. GroupOK(h, FALSE)
    BY <1>1, <1>3 DEF GroupOK
  <2>2. (n \in {}) = FALSE
    OBVIOUS
  <2> QED BY <1>2, <2>1, <2>2, Zenon
<1>5. /\ GroupsOK(gs, {})
      /\ CapacityUsed(gs) = CapacityUsed(groups) + GroupCapacityUsed(gs[n])
                                                 - GroupCapacityUsed(groups[n])
  <2>1. {} \subseteq {} \cup {n} /\ GroupsOK(groups, {})
    BY DEF PoolInv
  <2> QED BY <1>2, <1>4, <2>1, UpdateOK
<1>6. CapacityUsed(gs) <= CapacityUsed(groups)
  <2>1. GroupCapacityUsed(gs[n]) = GroupCapacityUsed(groups[n])
    BY <1>2, <1>3, Zenon DEF GroupCapacityUsed, EnabledCount
  <2>2. GroupCapacityUsed(groups[n]) \in Nat
    BY <1>1, GroupNat, Zenon
  <2> QED BY <1>1, <1>5, <2>1, <2>2
<1>7. Shrinks(groups, gs)
  BY <1>2, <1>3 DEF Shrinks, Updates
<1>8. GroupsOK(groups', {}) /\ SameRequests(gs, groups') /\ Within(gs, groups', max)
  <2>0. n \in DOMAIN gs
    BY <1>2 DEF Updates
  <2>1. CASE groups' = gs
    <3>1. SameRequests(gs, gs) /\ Within(gs, gs, max)
      BY <1>5, WithinSame, Zenon
    <3> QED BY <1>5, <2>1, <3>1
  <2>2. CASE groups' = Spawn(gs, max, n)
    BY <1>1, <1>5, <2>0, <2>2, SpawnOK
  <2>3. CASE \E f \in ForceFreeCapacity(gs, {n}) : groups' = Spawn(f, max, n)
    <3>1. PICK f \in ForceFreeCapacity(gs, {n}) : groups' = Spawn(f, max, n)
      BY <2>3, Zenon
    <3>2. GroupsOK(f, {}) /\ SameRequests(gs, f) /\ CapacityUsed(f) <= CapacityUsed(gs)
      BY <1>5, ForceFreeOK, Zenon
    <3>3. n \in DOMAIN f /\ Within(gs, f, max)
      BY <2>0, <3>2, Zenon DEF SameRequests, Within
    <3>4. GroupsOK(groups', {}) /\ SameRequests(f, groups') /\ Within(f, groups', max)
      BY <1>1, <3>1, <3>2, <3>3, SpawnOK
    <3>5. SameRequests(gs, groups')
      BY <3>2, <3>4, Zenon DEF SameRequests
    <3>6. Within(gs, groups', max)
      BY <1>1, <1>5, <3>2, <3>3, <3>4, WithinTransitive, Zenon
    <3> QED BY <3>4, <3>5, <3>6
  <2> QED BY <1>0, <2>1, <2>2, <2>3, SMTT(15)
<1>9. detached' \in [Request -> {"no", "group", "gone"}]
  BY <1>0 DEF PoolInv, TypeOK
<1>10. \A q \in Request : detached'[q] # "no" =>
         Absent(gs, q) /\ \A i \in 1..Len(getWaitlist) : getWaitlist[i] # q
  BY <1>0, <1>7, DetachedSame, Zenon
<1> QED BY <1>0, <1>5, <1>6, <1>7, <1>8, <1>9, <1>10, ShrinkStep, SMTT(15)

-----------------------------------------------------------------------------
(* The theorems.                                                            *)

\* A pool without groups and without waiting requests.
LEMMA InitOK == Init => PoolInv
<1> SUFFICES ASSUME Init PROVE PoolInv
  OBVIOUS
<1>1. DOMAIN groups = {} /\ getWaitlist = <<>> /\ max \in Maxes /\ detached = [r \in Request |-> "no"]
  BY DEF Init
<1>2. getWaitlist \in Seq(Request) /\ Len(getWaitlist) = 0 /\ 1..Len(getWaitlist) = {}
  BY <1>1
<1>3. TypeOK
  BY <1>1, <1>2 DEF TypeOK
<1>4. GroupsOK(groups, {}) /\ Once(groups)
  BY <1>1 DEF GroupsOK, Once
<1>5. WaitlistOK(getWaitlist, groups) /\ \A i \in 1..Len(getWaitlist) : detached[getWaitlist[i]] = "no"
  BY <1>2 DEF WaitlistOK
<1>6. \A r \in Request : detached[r] = "no"
  BY <1>1
<1> QED BY <1>3, <1>4, <1>5, <1>6, Zenon DEF PoolInv

\* Every critical section keeps the invariant and the order of the list, and grows the
\* pool within its maximum.
LEMMA NextOK == PoolInv /\ Next => StepOK
<1> SUFFICES ASSUME PoolInv, Next PROVE StepOK
  OBVIOUS
<1>1. CASE \E r \in Request : GetFromGroup(r) \/ GetRestarts(r) \/ GetCreates(r)
  BY <1>1, GetFromGroupOK, GetRestartsOK, GetCreatesOK, Zenon
<1>2. CASE \E n \in Name, r \in Request, maxed \in BOOLEAN : CloseSession(n, r, maxed)
  BY <1>2, CloseSessionOK, Zenon
<1>3. CASE \E r \in Request, maxed \in BOOLEAN : CloseDetachedSession(r, maxed)
  BY <1>3, CloseDetachedSessionOK, Zenon
<1>4. CASE \E n \in Name : AttachSpawned(n) \/ RejectSpawned(n) \/ SpawnFailed(n)
  BY <1>4, AttachSpawnedOK, RejectSpawnedOK, SpawnFailedOK, Zenon
<1>5. CASE \E n \in Name : RestartGroupByName(n) \/ FinalizeRestart(n)
  BY <1>5, RestartGroupByNameOK, FinalizeRestartOK, Zenon
<1>6. CASE \E n \in Name : DetachIdleProcess(n) \/ DetachGroupByName(n)
  BY <1>6, DetachIdleProcessOK, DetachGroupByNameOK, Zenon
<1>7. CASE \E n \in Name, r \in Request : DetachBusyProcess(n, r)
  BY <1>7, DetachBusyProcessOK, Zenon
<1>8. CASE \E k \in [Name -> 0..Cardinality(Request)] : GarbageCollect(k)
  BY <1>8, GarbageCollectOK, Zenon
<1>9. CASE \E mx \in Maxes : SetMax(mx)
  BY <1>9, SetMaxOK, Zenon
<1> QED BY <1>1, <1>2, <1>3, <1>4, <1>5, <1>6, <1>7, <1>8, <1>9, Zenon DEF Next

\* The invariant does not mention anything else.
LEMMA StutterOK == PoolInv /\ UNCHANGED vars => PoolInv'
<1> SUFFICES ASSUME PoolInv, UNCHANGED vars PROVE PoolInv'
  OBVIOUS
<1>1. groups' = groups /\ getWaitlist' = getWaitlist /\ max' = max /\ detached' = detached
  BY DEF vars
<1> QED BY <1>1, Zenon DEF PoolInv, TypeOK, WaitlistOK

\* The invariant holds in every reachable state of the pool.
THEOREM PoolInvariant == Spec => []PoolInv
<1>1. PoolInv /\ [Next]_vars => PoolInv'
  BY NextOK, StutterOK, Zenon DEF StepOK
<1> QED BY <1>1, InitOK, PTL DEF Spec

\* The pool's variables keep their types.
THEOREM PoolTypeCorrect == Spec => []TypeOK
<1>1. PoolInv => TypeOK
  BY DEF PoolInv
<1> QED BY <1>1, PoolInvariant, PTL

\* At most one of the places of a request is taken.
LEMMA OnePlace ==
  ASSUME PoolInv, NEW r \in Request, NEW x \in Places(r), NEW y \in Places(r)
  PROVE  x = y
<1> DEFINE Session(z) == \E n \in DOMAIN groups : r \in groups[n].sessions /\ z = <<"session", n>>
           Waits(z) == \E n \in DOMAIN groups : r \in groups[n].waiters /\ z = <<"waits", n>>
           InPool(z) == \E i \in 1..Len(getWaitlist) : getWaitlist[i] = r /\ z = <<"pool", i>>
           Gone(z) == detached[r] # "no" /\ z = <<"detached", detached[r]>>
<1>1. DOMAIN getWaitlist = 1..Len(getWaitlist)
  BY DEF PoolInv, WaitlistOK
<1>2. ASSUME NEW z \in Places(r) PROVE Session(z) \/ Waits(z) \/ InPool(z) \/ Gone(z)
  <2>1. CASE z \in {<<"session", n>> : n \in {m \in DOMAIN groups : r \in groups[m].sessions}}
    BY <2>1, Zenon
  <2>2. CASE z \in {<<"waits", n>> : n \in {m \in DOMAIN groups : r \in groups[m].waiters}}
    BY <2>2, Zenon
  <2>3. CASE z \in {<<"pool", i>> : i \in {j \in DOMAIN getWaitlist : getWaitlist[j] = r}}
    BY <1>1, <2>3, Zenon
  <2>4. CASE z \in (IF detached[r] = "no" THEN {} ELSE {<<"detached", detached[r]>>})
    BY <2>4, Zenon
  <2> HIDE DEF Session, Waits, InPool, Gone
  <2> QED BY <1>2, <2>1, <2>2, <2>3, <2>4, Zenon DEF Places
<1>3. \A z : Session(z) \/ Waits(z) => ~Absent(groups, r)
  BY Zenon DEF Absent, In
<1>4. \A z : InPool(z) => Absent(groups, r) /\ detached[r] = "no"
  BY Zenon DEF PoolInv, WaitlistOK
<1>5. \A z : Gone(z) => Absent(groups, r) /\ detached[r] # "no"
  BY Zenon DEF PoolInv
<1>6. \A n, m \in DOMAIN groups :
        /\ r \in groups[n].sessions /\ r \in groups[m].sessions => n = m
        /\ r \in groups[n].waiters /\ r \in groups[m].waiters => n = m
        /\ ~ (r \in groups[n].sessions /\ r \in groups[m].waiters)
  BY Zenon DEF PoolInv, Once, In
<1>7. Session(x) /\ Session(y) => x = y
  BY <1>6, Zenon
<1>8. Waits(x) /\ Waits(y) => x = y
  BY <1>6, Zenon
<1>9. ~ (Session(x) /\ Waits(y)) /\ ~ (Session(y) /\ Waits(x))
  BY <1>6, Zenon
<1>10. InPool(x) /\ InPool(y) => x = y
  BY Zenon DEF PoolInv, WaitlistOK
<1>11. Gone(x) /\ Gone(y) => x = y
  BY Zenon
<1>12. /\ Session(x) \/ Waits(x) \/ InPool(x) \/ Gone(x)
       /\ Session(y) \/ Waits(y) \/ InPool(y) \/ Gone(y)
  BY <1>2, Zenon
<1> HIDE DEF Session, Waits, InPool, Gone
<1> QED BY <1>3, <1>4, <1>5, <1>7, <1>8, <1>9, <1>10, <1>11, <1>12, Zenon

\* However requests move between the pool's list, the groups and detached processes,
\* Pool::asyncGet answers each of them once.
THEOREM RequestsAreAnsweredOnce == Spec => []AnsweredOnce
<1>1. ASSUME PoolInv, NEW r \in Request PROVE Cardinality(Places(r)) <= 1
  <2>1. CASE Places(r) = {}
    <3>1. Cardinality(Places(r)) = 0
      BY <2>1, FS_EmptySet, Zenon
    <3> QED BY <3>1
  <2>2. CASE Places(r) # {}
    <3>1. PICK x : x \in Places(r)
      BY <2>2, Zenon
    <3>2. Places(r) = {x}
      <4>1. \A y \in Places(r) : y = x
        BY <1>1, <3>1, OnePlace, Zenon
      <4> QED BY <3>1, <4>1
    <3>3. Cardinality({x}) = 1
      BY FS_Singleton, Zenon
    <3> QED BY <3>2, <3>3
  <2> QED BY <2>1, <2>2
<1>2. PoolInv => AnsweredOnce
  BY <1>1, Zenon DEF AnsweredOnce
<1> QED BY <1>2, PoolInvariant, PTL

\* What remains of the assertion of Pool::forceFreeCapacity when there are sticky sessions:
\* in no group does a request without a cookie wait while a process is idle.
THEOREM IdleMeetsOnlySticky == Spec => []OnlyStickyMeetIdle
<1>1. PoolInv => OnlyStickyMeetIdle
  BY DEF PoolInv, GroupsOK, GroupOK, OnlyStickyMeetIdle
<1> QED BY <1>1, PoolInvariant, PTL

\* The assertions of spawnThreadRealMain, in a pool of any number of groups.
THEOREM SpawnsAreCounted == Spec => []SpawnCountsOne
<1>1. ASSUME PoolInv, NEW n \in DOMAIN groups
      PROVE  /\ groups[n].processesBeingSpawned = (IF groups[n].spawning THEN 1 ELSE 0)
             /\ groups[n].restarting => groups[n].idle = 0 /\ ~groups[n].spawning /\ groups[n].sessions = {}
  <2>1. GroupOK(groups[n], FALSE)
    BY <1>1, ListFacts, Zenon
  <2> QED BY <2>1, Zenon DEF GroupOK
<1>2. PoolInv => SpawnCountsOne
  BY <1>1, Zenon DEF SpawnCountsOne
<1> QED BY <1>2, PoolInvariant, PTL

\* No critical section takes the pool beyond Pool::max.
THEOREM PoolGrowsWithinMax == Spec => GrowsWithinMax
<1>1. ASSUME PoolInv, PoolInv', [Next]_vars
      PROVE  [CapacityUsed(groups') > CapacityUsed(groups) => CapacityUsed(groups') <= max']_vars
  <2>1. CASE Next
    <3>1. Within(groups, groups', max')
      BY <1>1, <2>1, NextOK, Zenon DEF StepOK
    <3>2. CapacityUsed(groups) \in Nat /\ CapacityUsed(groups') \in Nat /\ max' \in Nat
      <4>1. CapacityUsed(groups') \in Nat
        BY <1>1, CapacityOfNat, Zenon DEF PoolInv
      <4>2. max' \in Nat
        BY <1>1, MaxNat DEF PoolInv, TypeOK
      <4> QED BY <1>1, <4>1, <4>2, ListFacts, Zenon
    <3> QED BY <3>1, <3>2 DEF Within
  <2>2. CASE UNCHANGED vars
    BY <2>2
  <2> QED BY <1>1, <2>1, <2>2
<1> QED BY <1>1, PoolInvariant, PTL DEF Spec, GrowsWithinMax

\* Pool::assignSessionsToGetWaiters rebuilds the list without reordering it.
THEOREM PoolServesInOrder == Spec => WaitlistKeepsOrder
<1>1. PoolInv /\ [Next]_vars =>
        [\A i, j \in DOMAIN getWaitlist, k, l \in DOMAIN getWaitlist' :
           (/\ getWaitlist'[k] = getWaitlist[i] /\ getWaitlist'[l] = getWaitlist[j]
            /\ i < j) => k < l]_vars
  BY NextOK, Zenon DEF StepOK, KeepsOrder
<1> QED BY <1>1, PoolInvariant, PTL DEF Spec, WaitlistKeepsOrder
=============================================================================
