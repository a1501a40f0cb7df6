-------------------------- MODULE GroupQueueProofs --------------------------
(***************************************************************************)
(* The queue of a group and its limits: neither the processes nor the      *)
(* waiting requests exceed what the options allow, requests are served in  *)
(* the order they came in, none of them waits while a process could serve  *)
(* it, and whoever takes the last process away sees to a new one.          *)
(***************************************************************************)
EXTENDS GroupProofs, FiniteSetTheorems

(* Counting.                                                                *)

\* The processes of the group.
Members(en) == {p \in Process : en[p] # "DETACHED"}

\* Options::maxProcesses is kept when n more processes are being spawned.
Fits(en, n) == MaxProcesses # 0 => CapacityUsed(en, n) <= MaxProcesses

\* A set of naturals has a least element.
LEMMA LeastNatural ==
  ASSUME NEW T \in SUBSET Nat, T # {}
  PROVE  \E x \in T : \A y \in T : x <= y
<1>1. PICK x \in T : \A y \in T : ~ (<<y, x>> \in OpToRel(<, Nat))
  BY NatLessThanWellFounded, WFMin, Zenon
<1>2. ASSUME NEW y \in T PROVE x <= y
  <2>1. ~ (<<y, x>> \in OpToRel(<, Nat))
    BY <1>1, Zenon
  <2>2. ~ (y < x)
    BY <2>1, Zenon DEF OpToRel
  <2> QED BY <2>2, SMTT(30)
<1> QED BY <1>2, Zenon

\* The number of processes of the group is a natural number.
LEMMA CountIsNat ==
  ASSUME NEW en
  PROVE  GetProcessCount(en) \in Nat /\ IsFiniteSet(Members(en))
<1>1. Members(en) \in SUBSET Process /\ IsFiniteSet(Process)
  BY GroupAssumption DEF Members
<1>2. IsFiniteSet(Members(en))
  BY <1>1, FS_Subset, Zenon
<1> QED BY <1>2, FS_CardinalityType, Zenon DEF GetProcessCount, Members

\* Processes that leave the group lower it.
LEMMA CountFewer ==
  ASSUME NEW en, NEW en2, Members(en2) \subseteq Members(en)
  PROVE  /\ GetProcessCount(en2) <= GetProcessCount(en)
         /\ Members(en2) # Members(en) => GetProcessCount(en2) < GetProcessCount(en)
<1> DEFINE m == GetProcessCount(en2)
           n == GetProcessCount(en)
<1>1. m \in Nat /\ n \in Nat /\ IsFiniteSet(Members(en))
  BY CountIsNat, Zenon
<1>2. m = Cardinality(Members(en2)) /\ n = Cardinality(Members(en))
  BY DEF GetProcessCount, Members
<1>3. m <= n /\ (n = m => Members(en) = Members(en2))
  BY <1>1, <1>2, FS_Subset, Zenon
<1> HIDE DEF m, n
<1>4. m <= n /\ (Members(en2) # Members(en) => m < n)
  BY <1>1, <1>3, SMTT(30)
<1> QED BY <1>4 DEF m, n

\* Fewer processes fit as well.
LEMMA FitsFewer ==
  ASSUME NEW en, NEW en2, Members(en2) \subseteq Members(en), NEW n \in Nat, NEW m \in Nat,
         m <= n, Fits(en, n)
  PROVE  Fits(en2, m)
<1> DEFINE a == GetProcessCount(en)
           b == GetProcessCount(en2)
<1>1. a \in Nat /\ b \in Nat /\ b <= a /\ MaxProcesses \in Nat
  BY CountIsNat, CountFewer, GroupAssumption, Zenon
<1>2. MaxProcesses # 0 => a + n <= MaxProcesses
  BY Zenon DEF Fits, CapacityUsed
<1> HIDE DEF a, b
<1>3. MaxProcesses # 0 => b + m <= MaxProcesses
  BY <1>1, <1>2, SMTT(30)
<1> QED BY <1>3, Zenon DEF Fits, CapacityUsed, b

\* Group::spawn keeps the limit: it has compared with it.
LEMMA SpawnFits ==
  ASSUME processesBeingSpawned \in Nat, NEW en, Fits(en, processesBeingSpawned), NEW rst,
         NEW rm, Spawn(en, rst, rm)
  PROVE  Fits(en, processesBeingSpawned')
<1> DEFINE a == GetProcessCount(en)
<1>1. a \in Nat /\ MaxProcesses \in Nat
  BY CountIsNat, GroupAssumption, Zenon
<1>2. CASE CanSpawn(en, rst, rm)
  <2>1. processesBeingSpawned' = processesBeingSpawned + 1
    BY <1>2, Zenon DEF Spawn
  <2>2. MaxProcesses # 0 => ~ (a + processesBeingSpawned >= MaxProcesses)
    BY <1>2, Zenon DEF CanSpawn, UpperLimitsReached, CapacityUsed
  <2> HIDE DEF a
  <2>3. MaxProcesses # 0 => a + processesBeingSpawned' <= MaxProcesses
    BY <1>1, <2>1, <2>2, SMTT(30)
  <2> QED BY <2>3, Zenon DEF Fits, CapacityUsed, a
<1>3. CASE ~CanSpawn(en, rst, rm)
  BY <1>3, Zenon DEF Spawn, spawnVars
<1> QED BY <1>2, <1>3, Zenon

\* So does the pool when it lets the group spawn.
LEMMA PossiblySpawnMoreFits ==
  ASSUME processesBeingSpawned \in Nat, NEW en, Fits(en, processesBeingSpawned), NEW ses,
         NEW rm, PossiblySpawnMore(en, ses, rm)
  PROVE  Fits(en, processesBeingSpawned')
<1>1. CASE Spawn(en, restarting, rm)
  BY <1>1, SpawnFits, Zenon
<1>2. CASE UNCHANGED spawnVars
  BY <1>2, Zenon DEF spawnVars
<1> QED BY <1>1, <1>2, Zenon DEF PossiblySpawnMore

\* Group::disable takes no process out of the group.
LEMMA DisableFits ==
  ASSUME processesBeingSpawned \in Nat, NEW p \in Process, NEW w, NEW en, NEW ses, NEW dw,
         IsLists(en, dw), Fits(en, processesBeingSpawned), Disable(p, w, en, ses, dw)
  PROVE  Members(enabled') = Members(en) /\ Fits(enabled', processesBeingSpawned')
<1>1. Members(enabled') = Members(en)
  BY DisableDetachesNone, Zenon DEF SameDetached, Members
<1>2. Fits(enabled', processesBeingSpawned)
  <2>1. processesBeingSpawned <= processesBeingSpawned
    OBVIOUS
  <2> QED BY <1>1, <2>1, FitsFewer, Zenon
<1>3. CASE Spawn(enabled', restarting, room)
  BY <1>1, <1>2, <1>3, SpawnFits, Zenon
<1>4. CASE UNCHANGED spawnVars
  BY <1>1, <1>2, <1>4, Zenon DEF spawnVars
<1> QED BY <1>3, <1>4, Zenon DEF Disable

-----------------------------------------------------------------------------
(* Options::maxProcesses.                                                   *)

\* Another process is allowed.
Below(en) == MaxProcesses # 0 => GetProcessCount(en) < MaxProcesses

\* A group without an enabled process may have another one.
Grows(en) == Enabled(en) = {} => Below(en)

\* The limit, and what keeps a group from getting stuck at it: when nothing is being
\* spawned, the processes that are disabled or disabling never use it up.
LimitInv ==
  Fits(enabled, processesBeingSpawned) /\ (IsAlive /\ ~spawning => Grows(enabled))

\* The invariant, spelled out for the state after a step.
LEMMA KeepsLimitInv ==
  ASSUME Fits(enabled', processesBeingSpawned'),
         lifeStatus' = "ALIVE" /\ ~spawning' => Grows(enabled')
  PROVE  LimitInv'
BY DEF LimitInv, Fits, CapacityUsed, GetProcessCount, IsAlive, Grows, Below, Enabled, Status

\* A group that may have another process may have one when processes have left.
LEMMA BelowFewer ==
  ASSUME NEW en, NEW en2, Members(en2) \subseteq Members(en), Below(en)
  PROVE  Below(en2)
<1> DEFINE a == GetProcessCount(en)
           b == GetProcessCount(en2)
<1>1. a \in Nat /\ b \in Nat /\ b <= a /\ MaxProcesses \in Nat
  BY CountIsNat, CountFewer, GroupAssumption, Zenon
<1>2. MaxProcesses # 0 => a < MaxProcesses
  BY DEF Below
<1> HIDE DEF a, b
<1>3. MaxProcesses # 0 => b < MaxProcesses
  BY <1>1, <1>2
<1> QED BY <1>3 DEF Below, b

\* A group that had a process less, or had one being spawned, may have another one.
LEMMA FitsBelow ==
  ASSUME NEW en, NEW en2, Members(en2) \subseteq Members(en), NEW n \in Nat, Fits(en, n),
         Members(en2) # Members(en) \/ n > 0
  PROVE  Below(en2)
<1> DEFINE a == GetProcessCount(en)
           b == GetProcessCount(en2)
<1>1. /\ a \in Nat /\ b \in Nat /\ b <= a /\ MaxProcesses \in Nat
      /\ Members(en2) # Members(en) => b < a
  BY CountIsNat, CountFewer, GroupAssumption, Zenon
<1>2. MaxProcesses # 0 => a + n <= MaxProcesses
  BY DEF Fits, CapacityUsed
<1> HIDE DEF a, b
<1>3. MaxProcesses # 0 => b < MaxProcesses
  BY <1>1, <1>2
<1> QED BY <1>3, Zenon DEF Below, b

\* Detaching keeps it: either no process was enabled before, or one left.
LEMMA DetachGrows ==
  ASSUME NEW S, Detach(S), NEW n \in Nat, Fits(enabled, n), Grows(enabled)
  PROVE  Grows(enabled')
<1>1. enabled' = [p \in Process |-> IF p \in S THEN "DETACHED" ELSE enabled[p]]
  BY DEF Detach
<1>2. Members(enabled') \subseteq Members(enabled)
  BY <1>1, Zenon DEF Members
<1>3. CASE Enabled(enabled) = {}
  BY <1>2, <1>3, BelowFewer, Zenon DEF Grows
<1>4. ASSUME NEW q \in Enabled(enabled), Enabled(enabled') = {}
      PROVE  Below(enabled')
  <2>1. q \in Members(enabled) /\ q \notin Members(enabled')
    BY <1>1, <1>4, Zenon DEF Enabled, Status, Members
  <2> QED BY <1>2, <2>1, FitsBelow, Zenon
<1> QED BY <1>3, <1>4, Zenon DEF Grows

\* A group without processes may have one.
LEMMA EmptyGrows ==
  ASSUME NEW en, Members(en) = {}
  PROVE  Below(en) /\ Fits(en, 0)
<1>1. GetProcessCount(en) = 0
  BY FS_EmptySet, Zenon DEF GetProcessCount, Members
<1>2. MaxProcesses \in Nat
  BY GroupAssumption, Zenon
<1>3. MaxProcesses # 0 => 0 < MaxProcesses /\ 0 + 0 <= MaxProcesses
  BY <1>2, SMTT(30)
<1> QED BY <1>1, <1>3, Zenon DEF Below, Fits, CapacityUsed

\* Group::disable takes the last enabled process only if the group may spawn another one.
LEMMA DisableGrows ==
  ASSUME processesBeingSpawned \in Nat, NEW p \in Process, NEW w, NEW en, NEW ses, NEW dw,
         IsLists(en, dw), Grows(en), Disable(p, w, en, ses, dw)
  PROVE  Grows(enabled')
<1> DEFINE result == DisableResult(p, en, ses)
<1>1. enabled' = [en EXCEPT ![p] = IF result = "DEFERRED" THEN "DISABLING"
                                   ELSE IF result = "SUCCESS" THEN "DISABLED" ELSE @]
  BY Zenon DEF Disable
<1>2. en \in [Process -> EnabledStatus]
  BY Zenon DEF IsLists
<1>3. Members(enabled') \subseteq Members(en)
  BY DisableDetachesNone, Zenon DEF SameDetached, Members
<1>4. CASE Enabled(en) = {}
  BY <1>3, <1>4, BelowFewer, Zenon DEF Grows
<1>5. CASE Enabled(en) # {} /\ Enabled(enabled') = {}
  <2>1. Enabled(en) = {p} /\ result # "ERROR"
    BY <1>1, <1>2, <1>5, Zenon DEF Enabled, Status
  <2>2. en[p] = "ENABLED"
    BY <2>1, Zenon DEF Enabled, Status
  <2>3. AllowSpawn(en, processesBeingSpawned, room)
    BY <2>1, <2>2, Zenon DEF DisableResult
  <2>4. MaxProcesses # 0 => ~ (GetProcessCount(en) + processesBeingSpawned >= MaxProcesses)
    BY <2>3, Zenon DEF AllowSpawn, UpperLimitsReached, CapacityUsed
  <2>5. GetProcessCount(en) \in Nat /\ MaxProcesses \in Nat
    BY CountIsNat, GroupAssumption, Zenon
  <2>6. MaxProcesses # 0 => GetProcessCount(en) < MaxProcesses
    BY <2>4, <2>5, SMTT(30)
  <2>7. Below(en)
    BY <2>6, Zenon DEF Below
  <2>8. Below(enabled')
    BY <1>3, <2>7, BelowFewer, Zenon
  <2> QED BY <2>8, Zenon DEF Grows
<1> QED BY <1>4, <1>5, Zenon DEF Grows

\* A step that only detaches and calls Group::spawn keeps the limits.
LEMMA DetachLimits ==
  ASSUME SpawnTypes, LimitInv, NEW S, Detach(S), UNCHANGED lifeStatus,
         UNCHANGED spawnVars \/ \E ses, rm : PossiblySpawnMore(enabled', ses, rm)
  PROVE  LimitInv'
<1>1. Members(enabled') \subseteq Members(enabled)
  BY Zenon DEF Detach, Members
<1>2. Fits(enabled', processesBeingSpawned)
  <2>1. /\ processesBeingSpawned \in Nat /\ processesBeingSpawned <= processesBeingSpawned
        /\ Fits(enabled, processesBeingSpawned)
    BY DEF SpawnTypes, LimitInv
  <2> QED BY <1>1, <2>1, FitsFewer, Zenon
<1>3. Fits(enabled', processesBeingSpawned') /\ (~spawning' => ~spawning)
  <2>1. CASE UNCHANGED spawnVars
    BY <1>2, <2>1, Zenon DEF spawnVars
  <2>2. ASSUME NEW ses, NEW rm, PossiblySpawnMore(enabled', ses, rm)
        PROVE  Fits(enabled', processesBeingSpawned') /\ (~spawning' => ~spawning)
    <3>1. Fits(enabled', processesBeingSpawned')
      BY <1>2, <2>2, PossiblySpawnMoreFits, Zenon DEF SpawnTypes
    <3>2. SpawnEffect(restarting)
      BY <2>2, PossiblySpawnMoreHasEffect, Zenon
    <3> QED BY <3>1, <3>2, SMTT(30) DEF SpawnEffect, spawnVars
  <2> QED BY <2>1, <2>2, Zenon
<1>4. IsAlive /\ ~spawning => Grows(enabled')
  BY DetachGrows, Zenon DEF LimitInv, SpawnTypes
<1> QED BY <1>3, <1>4, KeepsLimitInv, Zenon DEF IsAlive

\* So does one that disables a process.
LEMMA DisableLimits ==
  ASSUME SpawnTypes, NEW p \in Process, NEW w, NEW en, NEW ses, NEW dw, IsLists(en, dw),
         Fits(en, processesBeingSpawned), IsAlive /\ ~spawning => Grows(en),
         Disable(p, w, en, ses, dw), UNCHANGED lifeStatus
  PROVE  LimitInv'
<1>1. processesBeingSpawned \in Nat
  BY Zenon DEF SpawnTypes
<1>2. Fits(enabled', processesBeingSpawned')
  BY <1>1, DisableFits, Zenon
<1>3. Grows(en) => Grows(enabled')
  BY <1>1, DisableGrows, Zenon
<1>4. SpawnEffect(restarting)
  BY DisableHasEffect, Zenon
<1>5. ~spawning' => ~spawning
  BY <1>4, Zenon DEF SpawnEffect, spawnVars
<1> QED BY <1>2, <1>3, <1>5, KeepsLimitInv, Zenon DEF IsAlive

\* So does one that calls Group::maybeInitiateOobw.
LEMMA MaybeInitiateOobwLimits ==
  ASSUME SpawnTypes, NEW p \in Process, NEW en, NEW ses, NEW dw, IsLists(en, dw),
         Fits(en, processesBeingSpawned), IsAlive /\ ~spawning => Grows(en),
         MaybeInitiateOobw(p, en, ses, dw), UNCHANGED lifeStatus
  PROVE  LimitInv'
<1>1. CASE Disable(p, "oobw", en, ses, dw)
  BY <1>1, DisableLimits, Zenon
<1>2. CASE enabled' = en /\ UNCHANGED spawnVars
  BY <1>2, KeepsLimitInv, Zenon DEF spawnVars, IsAlive
<1> QED BY <1>1, <1>2, Zenon DEF MaybeInitiateOobw, InitiateOobw

\* So does one that leaves the processes alone and calls Group::spawn.
LEMMA SpawnLimits ==
  ASSUME SpawnTypes, LimitInv, UNCHANGED enabled, lifeStatus' = "ALIVE" => IsAlive,
         \/ UNCHANGED <<spawning, processesBeingSpawned>>
         \/ \E rst, rm : Spawn(enabled, rst, rm)
         \/ \E ses, rm : PossiblySpawnMore(enabled, ses, rm)
  PROVE  LimitInv'
<1>1. processesBeingSpawned \in Nat /\ Fits(enabled, processesBeingSpawned)
  BY Zenon DEF SpawnTypes, LimitInv
<1>2. ASSUME NEW rst, NEW rm, Spawn(enabled, rst, rm)
      PROVE  Fits(enabled, processesBeingSpawned') /\ (~spawning' => ~spawning)
  <2>1. Fits(enabled, processesBeingSpawned')
    BY <1>1, <1>2, SpawnFits, Zenon
  <2> QED BY <1>2, <2>1, Zenon DEF Spawn, spawnVars
<1>3. ASSUME NEW ses, NEW rm, PossiblySpawnMore(enabled, ses, rm)
      PROVE  Fits(enabled, processesBeingSpawned') /\ (~spawning' => ~spawning)
  <2>1. Fits(enabled, processesBeingSpawned')
    BY <1>1, <1>3, PossiblySpawnMoreFits, Zenon
  <2>2. SpawnEffect(restarting)
    BY <1>3, PossiblySpawnMoreHasEffect, Zenon
  <2> QED BY <2>1, <2>2, SMTT(30) DEF SpawnEffect, spawnVars
<1>4. Fits(enabled, processesBeingSpawned') /\ (~spawning' => ~spawning)
  BY <1>1, <1>2, <1>3, SMTT(30)
<1> QED BY <1>4, KeepsLimitInv, Zenon DEF LimitInv

\* A restart leaves no process.
LEMMA DetachAllLimits ==
  ASSUME DetachAll, processesBeingSpawned' = 0 \/ (SpawnTypes /\ LimitInv /\ UNCHANGED spawnVars)
  PROVE  LimitInv'
<1>1. Members(enabled') = {}
  BY Zenon DEF DetachAll, Members
<1>2. Below(enabled') /\ Fits(enabled', 0)
  BY <1>1, EmptyGrows, Zenon
<1>3. CASE processesBeingSpawned' = 0
  BY <1>2, <1>3, KeepsLimitInv, Zenon DEF Grows
<1>4. CASE SpawnTypes /\ LimitInv /\ UNCHANGED spawnVars
  <2>1. /\ processesBeingSpawned \in Nat /\ processesBeingSpawned <= processesBeingSpawned
        /\ Fits(enabled, processesBeingSpawned)
    BY <1>4, SMTT(30) DEF SpawnTypes, LimitInv
  <2>2. Fits(enabled', processesBeingSpawned)
    BY <1>1, <2>1, FitsFewer, Zenon
  <2> QED BY <1>2, <1>4, <2>2, KeepsLimitInv, Zenon DEF Grows, spawnVars
<1> QED BY <1>3, <1>4, Zenon

\* The lists may change as long as no process joins the group and the last enabled one stays.
LEMMA SameMembersLimits ==
  ASSUME SpawnTypes, LimitInv, NEW en, Members(en) \subseteq Members(enabled),
         Enabled(en) = {} => Enabled(enabled) = {}
  PROVE  Fits(en, processesBeingSpawned) /\ (IsAlive /\ ~spawning => Grows(en))
<1>1. /\ processesBeingSpawned \in Nat /\ processesBeingSpawned <= processesBeingSpawned
      /\ Fits(enabled, processesBeingSpawned)
  BY SMTT(30) DEF SpawnTypes, LimitInv
<1>2. Fits(en, processesBeingSpawned)
  BY <1>1, FitsFewer, Zenon
<1>3. Below(enabled) => Below(en)
  BY BelowFewer, Zenon
<1> QED BY <1>2, <1>3, Zenon DEF LimitInv, Grows

\* onSessionClose() keeps the limits.
LEMMA OnSessionCloseLimits ==
  ASSUME SpawnTypes, ProcessTypes, LimitInv, NEW r \in Request, NEW needed \in BOOLEAN,
         OnSessionClose(r, needed)
  PROVE  LimitInv'
<1> DEFINE p == session[r]
           ses == [session EXCEPT ![r] = NoProcess]
<1>1. p \in Process /\ UNCHANGED lifeStatus /\ enabled \in [Process -> EnabledStatus]
  BY Zenon DEF OnSessionClose, ProcessTypes, WaitTypes, Target, ListTypes, IsLists
<1>2. CASE DetachProcessUnlocked(p, ses)
  BY <1>1, <1>2, DetachLimits, Zenon DEF DetachProcessUnlocked
<1>3. CASE /\ ShouldDisable(p, ses)
           /\ MaybeInitiateOobw(p, [enabled EXCEPT ![p] = "DISABLED"], ses,
                                disableWaitlist \ WaitersFor({p}))
  <2> DEFINE en == [enabled EXCEPT ![p] = "DISABLED"]
             dw == disableWaitlist \ WaitersFor({p})
  <2>1. IsLists(en, dw)
    BY <1>1, Zenon DEF ProcessTypes, ListTypes, IsLists, EnabledStatus
  <2>2. Members(en) \subseteq Members(enabled) /\ Enabled(en) = Enabled(enabled)
    BY <1>1, <1>3, Zenon DEF ShouldDisable, Members, Enabled, Status
  <2>3. Fits(en, processesBeingSpawned) /\ (IsAlive /\ ~spawning => Grows(en))
    BY <2>2, SameMembersLimits, Zenon
  <2> QED BY <1>1, <1>3, <2>1, <2>3, MaybeInitiateOobwLimits, Zenon
<1>4. CASE MaybeInitiateOobw(p, enabled, ses, disableWaitlist)
  BY <1>1, <1>4, MaybeInitiateOobwLimits DEF ProcessTypes, ListTypes, LimitInv
<1> QED BY <1>2, <1>3, <1>4, Zenon DEF OnSessionClose

\* The end of out-of-band work keeps them.
LEMMA FinishOobwLimits ==
  ASSUME SpawnTypes, ProcessTypes, LimitInv, NEW p \in Process, FinishOobw(p)
  PROVE  LimitInv'
<1> DEFINE threads == oobwThreads \ {<<p, "working">>}
           status == [oobwStatus EXCEPT ![p] = "NOT_ACTIVE"]
           en == [enabled EXCEPT ![p] = IF @ = "DISABLED" THEN "ENABLED" ELSE @]
<1>1. UNCHANGED lifeStatus
  BY DEF FinishOobw
<1>2. CASE UNCHANGED <<enabled, spawnVars>>
  BY <1>1, <1>2, SpawnLimits DEF IsAlive, spawnVars
<1>3. CASE InitiateNextOobwRequest(en, status, session', threads)
  <2>1. enabled \in [Process -> EnabledStatus]
    BY DEF ProcessTypes, ListTypes, IsLists
  <2>2. IsLists(en, disableWaitlist)
    BY DEF ProcessTypes, ListTypes, IsLists, EnabledStatus
  <2>3. Members(en) \subseteq Members(enabled)
    BY <2>1 DEF Members
  <2>4. Enabled(enabled) \subseteq Enabled(en)
    BY <2>1 DEF Enabled, Status
  <2> HIDE DEF en
  <2>5. Fits(en, processesBeingSpawned) /\ (IsAlive /\ ~spawning => Grows(en))
    BY <2>3, <2>4, SameMembersLimits
  <2>6. ASSUME NEW q \in Enabled(en),
               InitiateOobw(q, en, status, session', disableWaitlist, threads)
        PROVE  LimitInv'
    <3>1. q \in Process /\ Disable(q, "oobw", en, session', disableWaitlist)
      BY <2>6, Zenon DEF Enabled, Status, InitiateOobw
    <3> QED BY <1>1, <2>2, <2>5, <3>1, DisableLimits, Zenon
  <2>7. CASE enabled' = en /\ UNCHANGED spawnVars
    BY <1>1, <2>5, <2>7, KeepsLimitInv, Zenon DEF spawnVars, IsAlive
  <2> QED BY <1>3, <2>6, <2>7, Zenon DEF InitiateNextOobwRequest
<1> QED BY <1>2, <1>3 DEF FinishOobw

\* The spawn loop of a group that is alive is the only one that it counts.
LEMMA OneBeingSpawned ==
  ASSUME SpawnInv, IsAlive, spawnThreads[restartsInitiated] > 0
  PROVE  processesBeingSpawned = 1 /\ spawning /\ ~restarting
<1>1. processesBeingSpawned > 0
  BY DEF SpawnInv, SpawnBookkeeping
<1> QED BY <1>1, SMTT(30) DEF SpawnInv, SpawnBookkeeping

\* A spawn loop that ends leaves room for the process that it did not attach.
LEMMA LoopEndsLimits ==
  ASSUME SpawnInv, LimitInv, IsAlive, spawnThreads[restartsInitiated] > 0, EndIteration(TRUE),
         Members(enabled') \subseteq Members(enabled)
  PROVE  LimitInv'
<1>1. processesBeingSpawned = 1
  BY OneBeingSpawned, Zenon
<1>2. processesBeingSpawned' = 0
  BY <1>1 DEF EndIteration
<1>3. Fits(enabled, 1)
  BY <1>1, Zenon DEF LimitInv
<1>4. Fits(enabled', 0)
  <2>1. 0 \in Nat /\ 1 \in Nat /\ 0 <= 1
    BY SMTT(30)
  <2> QED BY <1>3, <2>1, FitsFewer, Zenon
<1>5. Below(enabled')
  <2>1. 1 \in Nat /\ 1 > 0
    BY SMTT(30)
  <2> QED BY <1>3, <2>1, FitsBelow, Zenon
<1> QED BY <1>2, <1>4, <1>5, KeepsLimitInv, Zenon DEF Grows

\* So does one that attaches its process: attach() and the loop have compared with the limit.
LEMMA AttachSpawnedLimits ==
  ASSUME SpawnInv, ProcessTypes, ListInv, LimitInv, NEW p \in Process,
         NEW otherWaits \in BOOLEAN, AttachSpawned(p, otherWaits)
  PROVE  LimitInv'
<1> DEFINE a == GetProcessCount(enabled)
           b == GetProcessCount(enabled')
           idle == {q \in Process : WaitersFor({q}) # {} /\ Sessions(q, session) = {}}
           done == SpawnLoopDone(enabled', room', getWaitlist')
<1>1. processesBeingSpawned = 1
  BY OneBeingSpawned, Zenon DEF AttachSpawned
<1>2. enabled' = [q \in Process |-> IF q = p THEN "ENABLED"
                                    ELSE IF q \in idle THEN "DISABLED" ELSE enabled[q]]
  BY Zenon DEF AttachSpawned
<1>3. a \in Nat /\ b \in Nat /\ MaxProcesses \in Nat
  BY CountIsNat, GroupAssumption, Zenon
<1>4. b <= a + 1
  <2>1. \A q \in idle : q \in Disabling(enabled)
    BY Zenon DEF WaitersFor, ListInv, Matches
  <2>2. Members(enabled') \subseteq Members(enabled) \cup {p}
    BY <1>2, <2>1, Zenon DEF Members, Disabling, Status
  <2>3. /\ IsFiniteSet(Members(enabled) \cup {p})
        /\ \/ Cardinality(Members(enabled) \cup {p}) = Cardinality(Members(enabled))
           \/ Cardinality(Members(enabled) \cup {p}) = Cardinality(Members(enabled)) + 1
    BY CountIsNat, FS_AddElement, Zenon
  <2>4. Cardinality(Members(enabled')) <= Cardinality(Members(enabled) \cup {p})
    BY <2>2, <2>3, FS_Subset, Zenon
  <2>5. a = Cardinality(Members(enabled)) /\ b = Cardinality(Members(enabled'))
    BY Zenon DEF GetProcessCount, Members
  <2> HIDE DEF a, b
  <2> QED BY <1>3, <2>3, <2>4, <2>5, SMTT(30)
<1>5. MaxProcesses # 0 => ~ (a + 0 >= MaxProcesses)
  BY <1>1, SMTT(30) DEF AttachSpawned, CanAttach, UpperLimitsReached, CapacityUsed
<1>6. EndIteration(done)
  BY Zenon DEF AttachSpawned
<1>7. MaxProcesses # 0 => b + processesBeingSpawned' <= MaxProcesses
  <2>1. CASE done
    <3>1. processesBeingSpawned' = 0
      BY <1>1, <1>6, <2>1, SMTT(30) DEF EndIteration
    <3> HIDE DEF a, b
    <3> QED BY <1>3, <1>4, <1>5, <3>1, SMTT(30)
  <2>2. CASE ~done
    <3>1. processesBeingSpawned' = 1
      BY <1>1, <1>6, <2>2, Zenon DEF EndIteration
    <3>2. MaxProcesses # 0 => ~ (b + 0 >= MaxProcesses)
      BY <1>1, <2>2, SMTT(30) DEF SpawnLoopDone, UpperLimitsReached, CapacityUsed
    <3> HIDE DEF a, b
    <3> QED BY <1>3, <3>1, <3>2, SMTT(30)
  <2> QED BY <2>1, <2>2, Zenon
<1>8. Fits(enabled', processesBeingSpawned')
  BY <1>7, Zenon DEF Fits, CapacityUsed
<1>9. p \in Enabled(enabled')
  BY <1>2, Zenon DEF Enabled, Status
<1> QED BY <1>8, <1>9, KeepsLimitInv, Zenon DEF Grows

\* Every step keeps the limits.
LEMMA LimitInvStep ==
  ASSUME SpawnInv, ProcessTypes, ListInv, LimitInv, [Next]_vars
  PROVE  LimitInv'
<1>1. SpawnTypes
  BY DEF SpawnInv
<1>2. ASSUME UNCHANGED <<enabled, lifeStatus, spawning, processesBeingSpawned>>
      PROVE  LimitInv'
  BY <1>1, <1>2, SpawnLimits, Zenon DEF IsAlive
<1>3. CASE UNCHANGED vars \/ (\E r \in Request : RequestOOBW(r)) \/ RoomChanges
           \/ (\E e \in 0..MaxRestarts : AbortSpawn(e)) \/ (\E p \in Process : StartOobw(p))
  BY <1>2, <1>3, Zenon DEF vars, spawnVars, RequestOOBW, RoomChanges, AbortSpawn, StartOobw
<1>4. ASSUME NEW r \in Request, NEW s \in Process \cup {NoProcess},
             NEW needsRestart \in BOOLEAN, NEW freed \in BOOLEAN,
             Get(r, s, needsRestart, freed)
      PROVE  LimitInv'
  <2>1. UNCHANGED lifeStatus
    BY <1>4, Zenon DEF Get
  <2>2. CASE Restart
    BY <2>2, DetachAllLimits, Zenon DEF Restart
  <2>3. CASE UNCHANGED enabled /\ (Spawn(enabled, FALSE, room') \/ UNCHANGED spawnVars)
    BY <1>1, <2>1, <2>3, SpawnLimits, Zenon DEF IsAlive, spawnVars
  <2> QED BY <1>4, <2>2, <2>3, Zenon DEF Get
<1>5. ASSUME NEW p, NEW ses, DetachProcessUnlocked(p, ses), UNCHANGED lifeStatus
      PROVE  LimitInv'
  BY <1>1, <1>5, DetachLimits DEF DetachProcessUnlocked
<1>6. CASE (\E r \in Request : OnSessionInitiateFailure(r)) \/ \E p \in Process : DetachProcess(p)
  BY <1>5, <1>6 DEF OnSessionInitiateFailure, DetachProcess
<1>7. ASSUME NEW r \in Request, NEW needed \in BOOLEAN, OnSessionClose(r, needed)
      PROVE  LimitInv'
  BY <1>1, <1>7, OnSessionCloseLimits
<1>8. ASSUME NEW p \in Process, NEW otherWaits \in BOOLEAN, AttachSpawned(p, otherWaits)
      PROVE  LimitInv'
  BY <1>8, AttachSpawnedLimits
<1>9. ASSUME NEW otherWaits \in BOOLEAN, RejectSpawned(otherWaits)
      PROVE  LimitInv'
  BY <1>9, LoopEndsLimits DEF RejectSpawned
<1>10. CASE SpawnFailed
  <2>1. Members(enabled') \subseteq Members(enabled)
    BY <1>10, Zenon DEF SpawnFailed, Members
  <2> QED BY <1>10, <2>1, LoopEndsLimits DEF SpawnFailed
<1>11. CASE RestartGroup
  BY <1>11, DetachAllLimits DEF RestartGroup, Restart
<1>12. CASE Shutdown
  BY <1>1, <1>12, DetachAllLimits DEF Shutdown
<1>13. ASSUME NEW e \in 1..MaxRestarts, NEW freed \in BOOLEAN, FinalizeRestart(e, freed)
      PROVE  LimitInv'
  <2>1. UNCHANGED <<enabled, lifeStatus>>
    BY <1>13 DEF FinalizeRestart
  <2>2. Spawn(enabled, FALSE, room') \/ UNCHANGED spawnVars
    BY <1>13, Zenon DEF FinalizeRestart
  <2> QED BY <1>1, <2>1, <2>2, SpawnLimits, Zenon DEF IsAlive, spawnVars
<1>14. ASSUME NEW p \in Process, NEW result \in DisableResults,
              LockAndMaybeInitiateOobw(p, result)
      PROVE  LimitInv'
  <2>1. UNCHANGED lifeStatus
    BY <1>14 DEF LockAndMaybeInitiateOobw
  <2>2. CASE UNCHANGED <<enabled, spawnVars>>
    BY <1>2, <2>1, <2>2 DEF spawnVars
  <2>3. CASE Disable(p, "oobw", enabled, session, disableWaitlist)
    BY <1>1, <2>1, <2>3, DisableLimits DEF ProcessTypes, ListTypes, LimitInv
  <2> QED BY <1>14, <2>2, <2>3 DEF LockAndMaybeInitiateOobw, InitiateOobw
<1>15. ASSUME NEW p \in Process, FinishOobw(p)
      PROVE  LimitInv'
  BY <1>1, <1>15, FinishOobwLimits, Zenon
<1>16. ASSUME NEW a \in Admin, NEW p \in Process, DisableProcess(a, p)
      PROVE  LimitInv'
  BY <1>1, <1>16, DisableLimits, Zenon DEF DisableProcess, ProcessTypes, ListTypes, LimitInv
<1>17. CASE (\E p \in Process : ForceFreeCapacity(p)) \/ \E S \in SUBSET Process : GarbageCollect(S)
  BY <1>1, <1>17, DetachLimits, Zenon DEF ForceFreeCapacity, GarbageCollect
<1>18. ASSUME NEW exited \in SUBSET Detached, CheckDetachedProcesses(exited)
      PROVE  LimitInv'
  <2>1. UNCHANGED <<enabled, spawnVars>> /\ (lifeStatus' = "ALIVE" => IsAlive)
    BY <1>18 DEF CheckDetachedProcesses, IsAlive
  <2> QED BY <1>1, <2>1, SpawnLimits DEF spawnVars
<1>19. CASE CapacityFreed
  BY <1>1, <1>19, SpawnLimits DEF CapacityFreed, IsAlive
<1> QED
  BY <1>3, <1>4, <1>6, <1>7, <1>8, <1>9, <1>10, <1>11, <1>12, <1>13, <1>14, <1>15, <1>16,
     <1>17, <1>18, <1>19, Zenon DEF Next

\* The limits hold in every reachable state.
LEMMA LimitInvHolds == Spec => []LimitInv
<1>1. Init => LimitInv
  <2> SUFFICES ASSUME Init PROVE LimitInv
    OBVIOUS
  <2>1. Members(enabled) = {} /\ processesBeingSpawned = 0
    BY DEF Init, Members
  <2> QED BY <2>1, EmptyGrows, Zenon DEF LimitInv, Grows
<1>2. SpawnInv /\ ProcessTypes /\ ListInv /\ LimitInv /\ [Next]_vars => LimitInv'
  BY LimitInvStep, Zenon
<1> QED BY <1>1, <1>2, SpawnInvHolds, ProcessTypesHold, ListInvHolds, PTL DEF Spec

-----------------------------------------------------------------------------
(* The queue.                                                               *)

\* The sessions ses are those that are open, except for some that were closed.
Closes(ses) == ses \in [Request -> Target] /\ \A r \in Request : ses[r] \in {session[r], NoProcess}

\* What a step may do to the queue: leave it alone, add the request that get() was called
\* for, serve it in its order, or give up on all of it.
QueueStep ==
  \/ UNCHANGED waitVars /\ Closes(session')
  \/ \E r \in Request, s \in Target :
       /\ r \notin getWaitlist /\ session[r] = NoProcess
       /\ s = NoProcess \/ r \in StickyRequests
       /\ GetSession(r, s, enabled', restarting')
  \/ \E en, ses : Closes(ses) /\ AssignSessionsToGetWaiters(en, ses)
  \/ RemoveWaiters(getWaitlist) /\ UNCHANGED session

\* Every step does one of these.
LEMMA EveryQueueStep ==
  ASSUME WaitTypes, [Next]_vars
  PROVE  QueueStep
<1>1. Closes(session)
  BY Zenon DEF WaitTypes, Closes
<1>2. ASSUME UNCHANGED <<session, waitVars>>
      PROVE  QueueStep
  BY <1>1, <1>2, Zenon DEF QueueStep, Closes
<1>3. ASSUME NEW en, AssignSessionsToGetWaiters(en, session)
      PROVE  QueueStep
  BY <1>1, <1>3, Zenon DEF QueueStep
<1>4. CASE UNCHANGED vars
  BY <1>2, <1>4, Zenon DEF vars
<1>5. ASSUME NEW r \in Request, NEW s \in Process \cup {NoProcess},
             NEW needsRestart \in BOOLEAN, NEW freed \in BOOLEAN,
             Get(r, s, needsRestart, freed)
      PROVE  QueueStep
  <2>1. /\ r \notin getWaitlist /\ session[r] = NoProcess
        /\ s = NoProcess \/ r \in StickyRequests
        /\ GetSession(r, s, enabled', restarting')
    BY <1>5, Zenon DEF Get
  <2>2. s \in Target
    BY DEF Target
  <2> QED BY <2>1, <2>2, Zenon DEF QueueStep
<1>6. ASSUME NEW r \in Request, NEW needed \in BOOLEAN, OnSessionClose(r, needed)
      PROVE  QueueStep
  <2> DEFINE ses == [session EXCEPT ![r] = NoProcess]
  <2>1. Closes(ses)
    BY Zenon DEF Closes, WaitTypes, Target
  <2>2. \/ session' = ses /\ UNCHANGED waitVars
        \/ AssignSessionsToGetWaiters(enabled', ses)
    BY <1>6, Zenon DEF OnSessionClose
  <2> HIDE DEF ses
  <2>3. CASE session' = ses /\ UNCHANGED waitVars
    BY <2>1, <2>3, Zenon DEF QueueStep
  <2>4. CASE AssignSessionsToGetWaiters(enabled', ses)
    BY <2>1, <2>4, Zenon DEF QueueStep
  <2> QED BY <2>2, <2>3, <2>4, Zenon
<1>7. ASSUME NEW p \in Process, NEW otherWaits \in BOOLEAN, AttachSpawned(p, otherWaits)
      PROVE  QueueStep
  BY <1>2, <1>3, <1>7, Zenon DEF AttachSpawned
<1>8. ASSUME NEW p \in Process, FinishOobw(p)
      PROVE  QueueStep
  BY <1>2, <1>3, <1>8, Zenon DEF FinishOobw
<1>9. CASE SpawnFailed \/ Shutdown
  BY <1>9, Zenon DEF SpawnFailed, Shutdown, AssignExceptionToGetWaiters, QueueStep
<1>10. CASE \/ \E r \in Request : RequestOOBW(r) \/ OnSessionInitiateFailure(r)
            \/ \E e \in 0..MaxRestarts : AbortSpawn(e)
            \/ \E otherWaits \in BOOLEAN : RejectSpawned(otherWaits)
            \/ RestartGroup
            \/ \E e \in 1..MaxRestarts, freed \in BOOLEAN : FinalizeRestart(e, freed)
  BY <1>2, <1>10, Zenon
  DEF RequestOOBW, OnSessionInitiateFailure, AbortSpawn, RejectSpawned, RestartGroup,
      FinalizeRestart
<1>11. CASE \/ \E p \in Process, result \in DisableResults : LockAndMaybeInitiateOobw(p, result)
            \/ \E p \in Process : StartOobw(p) \/ DetachProcess(p) \/ ForceFreeCapacity(p)
            \/ \E a \in Admin, p \in Process : DisableProcess(a, p)
  BY <1>2, <1>11, Zenon
  DEF LockAndMaybeInitiateOobw, StartOobw, DetachProcess, ForceFreeCapacity, DisableProcess
<1>12. CASE \/ \E S \in SUBSET Process : GarbageCollect(S)
            \/ \E exited \in SUBSET Detached : CheckDetachedProcesses(exited)
            \/ RoomChanges \/ CapacityFreed
  BY <1>2, <1>12 DEF GarbageCollect, CheckDetachedProcesses, RoomChanges, CapacityFreed
<1> QED
  BY <1>4, <1>5, <1>6, <1>7, <1>8, <1>9, <1>10, <1>11, <1>12, Zenon DEF Next

\* The order of the queue is transitive, who waits has no session, only requests with a
\* cookie wait for a certain process, and the queue is no longer than it may be.
QueueInv ==
  /\ \A x, y, z \in Request : <<x, y>> \in ahead /\ <<y, z>> \in ahead => <<x, z>> \in ahead
  /\ \A r \in getWaitlist : session[r] = NoProcess
  /\ \A r \in Request : sticky[r] # NoProcess => r \in StickyRequests
  /\ MaxQueue # 0 => Cardinality(getWaitlist) <= MaxQueue

\* Taking waiters out keeps it.
LEMMA RemoveWaitersQueue ==
  ASSUME WaitTypes, QueueInv, NEW W, RemoveWaiters(W),
         \A r \in getWaitlist \ W : session'[r] = NoProcess
  PROVE  QueueInv'
<1>1. getWaitlist' \subseteq getWaitlist /\ IsFiniteSet(getWaitlist)
  BY GroupAssumption, FS_Subset DEF RemoveWaiters, WaitTypes
<1>2. MaxQueue # 0 => Cardinality(getWaitlist') <= MaxQueue
  <2> DEFINE m == Cardinality(getWaitlist)
             n == Cardinality(getWaitlist')
  <2>1. m \in Nat /\ n \in Nat /\ n <= m /\ MaxQueue \in Nat
    BY <1>1, FS_Subset, FS_CardinalityType, GroupAssumption
  <2>2. MaxQueue # 0 => m <= MaxQueue
    BY DEF QueueInv
  <2> HIDE DEF m, n
  <2>3. MaxQueue # 0 => n <= MaxQueue
    BY <2>1, <2>2
  <2> QED BY <2>3 DEF n
<1>3. \A r \in Request : sticky'[r] # NoProcess => r \in StickyRequests
  BY DEF RemoveWaiters, QueueInv
<1>4. \A r \in getWaitlist' : session'[r] = NoProcess
  BY DEF RemoveWaiters
<1>5. \A x, y, z \in Request :
        <<x, y>> \in ahead' /\ <<y, z>> \in ahead' => <<x, z>> \in ahead'
  BY DEF RemoveWaiters, QueueInv
<1> QED BY <1>2, <1>3, <1>4, <1>5 DEF QueueInv

\* So does get().
LEMMA GetSessionQueue ==
  ASSUME WaitTypes, QueueInv, NEW r \in Request, NEW s \in Target, r \notin getWaitlist,
         session[r] = NoProcess, s = NoProcess \/ r \in StickyRequests, NEW en, NEW rst,
         GetSession(r, s, en, rst)
  PROVE  QueueInv'
<1>1. CASE UNCHANGED waitVars /\ \E p : session' = [session EXCEPT ![r] = p]
  BY <1>1 DEF QueueInv, waitVars, WaitTypes
<1>2. CASE UNCHANGED <<session, waitVars>>
  BY <1>2, Zenon DEF QueueInv, waitVars
<1>3. CASE /\ UNCHANGED session
           /\ MaxQueue = 0 \/ Cardinality(getWaitlist) < MaxQueue
           /\ getWaitlist' = getWaitlist \cup {r}
           /\ ahead' = ahead \cup (getWaitlist \X {r})
           /\ sticky' = [sticky EXCEPT ![r] = s]
  <2>1. MaxQueue # 0 => Cardinality(getWaitlist') <= MaxQueue
    <3> DEFINE m == Cardinality(getWaitlist)
               n == Cardinality(getWaitlist')
    <3>1. IsFiniteSet(getWaitlist)
      BY GroupAssumption, FS_Subset, Zenon DEF WaitTypes
    <3>2. m \in Nat /\ (n = m \/ n = m + 1) /\ MaxQueue \in Nat
      BY <1>3, <3>1, FS_AddElement, FS_CardinalityType, GroupAssumption, Zenon
    <3>3. MaxQueue # 0 => m < MaxQueue
      BY <1>3, Zenon
    <3> HIDE DEF m, n
    <3>4. MaxQueue # 0 => n <= MaxQueue
      BY <3>2, <3>3, SMTT(30)
    <3> QED BY <3>4, Zenon DEF n
  <2>2. \A x, y, z \in Request :
          <<x, y>> \in ahead' /\ <<y, z>> \in ahead' => <<x, z>> \in ahead'
    BY <1>3, SMTT(30) DEF QueueInv, WaitTypes
  <2>3. \A q \in getWaitlist' : session'[q] = NoProcess
    BY <1>3, Zenon DEF QueueInv
  <2>4. \A q \in Request : sticky'[q] # NoProcess => q \in StickyRequests
    BY <1>3, Zenon DEF QueueInv, WaitTypes
  <2> QED BY <2>1, <2>2, <2>3, <2>4, Zenon DEF QueueInv
<1> QED BY <1>1, <1>2, <1>3 DEF GetSession, PushGetWaiter

\* Handing out sessions to the waiters keeps it.
LEMMA AssignQueue ==
  ASSUME WaitTypes, QueueInv, NEW en, NEW ses, Closes(ses), AssignSessionsToGetWaiters(en, ses)
  PROVE  QueueInv'
<1>1. PICK f \in [getWaitlist -> Enabled(en) \cup Disabling(en) \cup {NoProcess}] :
        /\ session' = Assigned(f, getWaitlist, ses)
        /\ RemoveWaiters({r \in getWaitlist : f[r] # NoProcess})
  BY Zenon DEF AssignSessionsToGetWaiters
<1>2. \A r \in getWaitlist \ {x \in getWaitlist : f[x] # NoProcess} : session'[r] = NoProcess
  BY <1>1 DEF Assigned, Closes, QueueInv, WaitTypes
<1> QED BY <1>1, <1>2, RemoveWaitersQueue, Zenon

\* Every step keeps the queue in order.
LEMMA QueueInvStep ==
  ASSUME WaitTypes, QueueInv, [Next]_vars
  PROVE  QueueInv'
<1>1. QueueStep
  BY EveryQueueStep
<1>2. CASE UNCHANGED waitVars /\ Closes(session')
  BY <1>2 DEF QueueInv, waitVars, Closes, WaitTypes
<1>3. ASSUME NEW r \in Request, NEW s \in Target, r \notin getWaitlist, session[r] = NoProcess,
             s = NoProcess \/ r \in StickyRequests, GetSession(r, s, enabled', restarting')
      PROVE  QueueInv'
  BY <1>3, GetSessionQueue
<1>4. ASSUME NEW en, NEW ses, Closes(ses), AssignSessionsToGetWaiters(en, ses)
      PROVE  QueueInv'
  BY <1>4, AssignQueue
<1>5. CASE RemoveWaiters(getWaitlist) /\ UNCHANGED session
  BY <1>5, RemoveWaitersQueue
<1> QED BY <1>1, <1>2, <1>3, <1>4, <1>5 DEF QueueStep

\* The queue is in order in every reachable state.
LEMMA QueueInvHolds == Spec => []QueueInv
<1>1. Init => QueueInv
  <2> SUFFICES ASSUME Init PROVE QueueInv
    OBVIOUS
  <2>1. getWaitlist = {} /\ ahead = {} /\ \A r \in Request : sticky[r] = NoProcess
    BY Zenon DEF Init
  <2>2. Cardinality(getWaitlist) = 0 /\ MaxQueue \in Nat
    BY <2>1, FS_EmptySet, GroupAssumption, Zenon
  <2>3. MaxQueue # 0 => Cardinality(getWaitlist) <= MaxQueue
    BY <2>2, SMTT(30)
  <2> QED BY <2>1, <2>3 DEF QueueInv
<1>2. WaitTypes /\ QueueInv /\ [Next]_vars => QueueInv'
  BY QueueInvStep, Zenon
<1>3. ProcessTypes => WaitTypes
  BY DEF ProcessTypes
<1> QED BY <1>1, <1>2, <1>3, ProcessTypesHold, PTL DEF Spec

\* However restarts, detaching, disabling and the spawn loops interleave, the group has no
\* more processes than Options::maxProcesses allows, the one being spawned included, and no
\* more waiting requests than Options::maxRequestQueueSize allows.
THEOREM LimitsAreKept == Spec => []WithinLimits
<1>1. LimitInv /\ QueueInv => WithinLimits
  BY DEF LimitInv, Fits, QueueInv, WithinLimits
<1> QED BY <1>1, LimitInvHolds, QueueInvHolds, PTL

-----------------------------------------------------------------------------
(* Routing.                                                                 *)

\* The number of sessions of a process is a natural number.
LEMMA BusynessIsNat ==
  ASSUME NEW p, NEW ses
  PROVE  Busyness(p, ses) \in Nat /\ IsFiniteSet(Sessions(p, ses))
<1>1. Sessions(p, ses) \in SUBSET Request /\ IsFiniteSet(Request)
  BY GroupAssumption, Zenon DEF Sessions
<1>2. IsFiniteSet(Sessions(p, ses))
  BY <1>1, FS_Subset, Zenon
<1> QED BY <1>2, FS_CardinalityType, Zenon DEF Busyness

\* A process that gets more sessions stays totally busy.
LEMMA BusyStays ==
  ASSUME NEW p, NEW s1, NEW s2, Sessions(p, s1) \subseteq Sessions(p, s2), IsTotallyBusy(p, s1)
  PROVE  IsTotallyBusy(p, s2)
<1> DEFINE a == Busyness(p, s1)
           b == Busyness(p, s2)
<1>1. a \in Nat /\ b \in Nat /\ IsFiniteSet(Sessions(p, s2)) /\ Concurrency \in Nat
  BY BusynessIsNat, GroupAssumption, Zenon
<1>2. a <= b
  BY <1>1, FS_Subset, Zenon DEF Busyness
<1>3. Concurrency > 0 /\ a >= Concurrency
  BY DEF IsTotallyBusy
<1> HIDE DEF a, b
<1>4. b >= Concurrency
  BY <1>1, <1>2, <1>3, SMTT(30)
<1> QED BY <1>3, <1>4, Zenon DEF IsTotallyBusy, b

\* If the least busy processes are totally busy, all are.
LEMMA AllBusy ==
  ASSUME NEW S, NEW ses, \A q \in LeastBusy(S, ses) : IsTotallyBusy(q, ses), NEW p \in S
  PROVE  IsTotallyBusy(p, ses)
<1> DEFINE T == {Busyness(q, ses) : q \in S}
           a == Busyness(p, ses)
<1>1. T \in SUBSET Nat /\ T # {} /\ a \in T
  BY BusynessIsNat, Zenon
<1>2. PICK x \in T : \A y \in T : x <= y
  BY <1>1, LeastNatural, Zenon
<1>3. PICK q \in S : x = Busyness(q, ses)
  BY <1>2
<1>4. \A y \in S : Busyness(q, ses) <= Busyness(y, ses)
  BY <1>2, <1>3
<1>5. q \in LeastBusy(S, ses)
  BY <1>4 DEF LeastBusy
<1>6. Concurrency > 0 /\ x >= Concurrency
  BY <1>3, <1>5 DEF IsTotallyBusy
<1>7. x \in Nat /\ a \in Nat /\ x <= a /\ Concurrency \in Nat
  BY <1>1, <1>2, GroupAssumption
<1> HIDE DEF T, a
<1>8. a >= Concurrency
  BY <1>6, <1>7
<1> QED BY <1>6, <1>8, Zenon DEF IsTotallyBusy, a

\* The processes that route() looks at for a request without a sticky session.
Candidates(en) == IF Enabled(en) = {} THEN Disabling(en) ELSE Enabled(en)

\* route() finds nothing for it exactly when they are all totally busy.
LEMMA NotRouted ==
  ASSUME NEW en, NEW ses
  PROVE  Route(NoProcess, en, ses) = {} <=> \A p \in Candidates(en) : IsTotallyBusy(p, ses)
<1>1. NoProcess \notin Enabled(en)
  BY GroupAssumption DEF Enabled, Status
<1>2. Route(NoProcess, en, ses) = {p \in LeastBusy(Candidates(en), ses) : ~IsTotallyBusy(p, ses)}
  BY <1>1 DEF Route, Candidates
<1>3. LeastBusy(Candidates(en), ses) \subseteq Candidates(en)
  BY DEF LeastBusy
<1>4. ASSUME Route(NoProcess, en, ses) = {}, NEW p \in Candidates(en)
      PROVE  IsTotallyBusy(p, ses)
  <2>1. \A q \in LeastBusy(Candidates(en), ses) : IsTotallyBusy(q, ses)
    BY <1>2, <1>4, Zenon
  <2> QED BY <1>4, <2>1, AllBusy
<1>5. ASSUME \A p \in Candidates(en) : IsTotallyBusy(p, ses)
      PROVE  Route(NoProcess, en, ses) = {}
  BY <1>2, <1>3, <1>5, Zenon
<1> QED BY <1>4, <1>5

\* Then it finds nothing for any request.
LEMMA NotRoutedAtAll ==
  ASSUME NEW en, NEW ses, \A p \in Candidates(en) : IsTotallyBusy(p, ses), NEW s
  PROVE  Route(s, en, ses) = {}
<1>1. Route(s, en, ses) \subseteq {p \in Candidates(en) : ~IsTotallyBusy(p, ses)}
  BY Zenon DEF Route, Candidates, LeastBusy
<1> QED BY <1>1, Zenon

\* The more waiters are served, the more sessions a process has.
LEMMA AssignedMore ==
  ASSUME NEW f, NEW ses, NEW V, NEW W, V \subseteq W, W \subseteq getWaitlist,
         \A r \in getWaitlist : ses[r] = NoProcess, NEW p \in Process
  PROVE  Sessions(p, Assigned(f, V, ses)) \subseteq Sessions(p, Assigned(f, W, ses))
<1>1. p # NoProcess
  BY GroupAssumption, Zenon
<1> QED BY <1>1, Zenon DEF Sessions, Assigned

\* The candidates are processes.
LEMMA CandidatesAreProcesses ==
  ASSUME NEW en
  PROVE  Candidates(en) \subseteq Process
BY Zenon DEF Candidates, Enabled, Disabling, Status

-----------------------------------------------------------------------------
(* First come, first served.                                                *)

\* The step that FirstComeFirstServed allows.
ServedStep ==
  \A w \in ahead : sticky[w[1]] = NoProcess /\ session'[w[2]] # NoProcess =>
    w[1] \notin getWaitlist'

\* If a request without a sticky session goes away empty-handed, so does every one behind it:
\* what was totally busy when it was its turn still is.
LEMMA ServedInOrder ==
  ASSUME WaitTypes, QueueInv, NEW en, NEW ses, Closes(ses), NEW f, IsAssignment(f, en, ses),
         NEW x \in getWaitlist, NEW y \in getWaitlist, <<x, y>> \in ahead,
         sticky[x] = NoProcess, f[x] = NoProcess
  PROVE  f[y] = NoProcess
<1> DEFINE V == {z \in getWaitlist : <<z, x>> \in ahead}
           W == {z \in getWaitlist : <<z, y>> \in ahead}
<1>1. V \subseteq W /\ W \subseteq getWaitlist /\ getWaitlist \subseteq Request
  BY DEF QueueInv, WaitTypes
<1>2. \A r \in getWaitlist : ses[r] = NoProcess
  BY DEF QueueInv, Closes, WaitTypes
<1>3. Route(NoProcess, en, Assigned(f, V, ses)) = {}
  <2>1. NoProcess \notin Process
    BY GroupAssumption
  <2>2. NoProcess \notin Route(NoProcess, en, Assigned(f, V, ses))
    BY <2>1, Zenon DEF Route, LeastBusy, Enabled, Disabling, Status
  <2> QED BY <2>2, Zenon DEF IsAssignment
<1> HIDE DEF V, W
<1>4. \A p \in Candidates(en) : IsTotallyBusy(p, Assigned(f, V, ses))
  BY <1>3, NotRouted, Zenon
<1>5. ASSUME NEW p \in Candidates(en)
      PROVE  IsTotallyBusy(p, Assigned(f, W, ses))
  <2>1. p \in Process
    BY CandidatesAreProcesses, Zenon
  <2>2. Sessions(p, Assigned(f, V, ses)) \subseteq Sessions(p, Assigned(f, W, ses))
    BY <1>1, <1>2, <2>1, AssignedMore, Zenon
  <2> QED BY <1>4, <2>2, BusyStays, Zenon
<1>6. Route(sticky[y], en, Assigned(f, W, ses)) = {}
  BY <1>5, NotRoutedAtAll, Zenon
<1> QED BY <1>6, Zenon DEF IsAssignment, W

\* Every step serves requests in the order they came in.
LEMMA EveryStepServesInOrder ==
  ASSUME WaitTypes, QueueInv, [Next]_vars
  PROVE  ServedStep
<1> SUFFICES ASSUME NEW x \in getWaitlist, NEW y \in getWaitlist, <<x, y>> \in ahead,
                    sticky[x] = NoProcess, session'[y] # NoProcess
             PROVE  x \notin getWaitlist'
  BY DEF ServedStep, WaitTypes
<1>1. QueueStep
  BY EveryQueueStep, Zenon
<1>2. x \in Request /\ y \in Request /\ session[y] = NoProcess
  BY Zenon DEF QueueInv, WaitTypes
<1>3. CASE Closes(session')
  BY <1>2, <1>3, Zenon DEF Closes
<1>4. ASSUME NEW r \in Request, NEW s \in Target, r \notin getWaitlist,
             GetSession(r, s, enabled', restarting')
      PROVE  x \notin getWaitlist'
  <2>1. UNCHANGED session \/ \E p : session' = [session EXCEPT ![r] = p]
    BY <1>4, Zenon DEF GetSession
  <2>2. session'[y] = session[y]
    BY <1>2, <1>4, <2>1, Zenon DEF WaitTypes
  <2> QED BY <1>2, <2>2, Zenon
<1>5. ASSUME NEW en, NEW ses, Closes(ses), AssignSessionsToGetWaiters(en, ses)
      PROVE  x \notin getWaitlist'
  <2>1. PICK f \in [getWaitlist -> Enabled(en) \cup Disabling(en) \cup {NoProcess}] :
          /\ IsAssignment(f, en, ses)
          /\ session' = Assigned(f, getWaitlist, ses)
          /\ RemoveWaiters({r \in getWaitlist : f[r] # NoProcess})
    BY <1>5, Zenon DEF AssignSessionsToGetWaiters
  <2>2. ses[y] = NoProcess
    BY <1>2, <1>5 DEF Closes
  <2>3. f[y] # NoProcess
    BY <1>2, <2>1, <2>2 DEF Assigned
  <2>4. f[x] # NoProcess
    BY <1>5, <2>1, <2>3, ServedInOrder
  <2> QED BY <2>1, <2>4, Zenon DEF RemoveWaiters
<1>6. CASE UNCHANGED session
  BY <1>2, <1>6
<1> QED BY <1>1, <1>3, <1>4, <1>5, <1>6, Zenon DEF QueueStep

\* A request without a sticky session is never overtaken by one that was queued after it,
\* whatever frees the process that serves them: a session that ends, a new process, or
\* out-of-band work that ends.
THEOREM ServedFirstComeFirst == Spec => FirstComeFirstServed
<1>1. WaitTypes /\ QueueInv /\ [Next]_vars => ServedStep
  BY EveryStepServesInOrder, Zenon
<1>2. ProcessTypes => WaitTypes
  BY DEF ProcessTypes
<1>3. ServedStep <=> \A w \in ahead : sticky[w[1]] = NoProcess /\ session'[w[2]] # NoProcess =>
                       w[1] \notin getWaitlist'
  BY Zenon DEF ServedStep
<1> QED BY <1>1, <1>2, <1>3, ProcessTypesHold, QueueInvHolds, PTL DEF Spec, FirstComeFirstServed

-----------------------------------------------------------------------------
(* Nobody waits while a process could serve it.                             *)

\* With the lists en and the sessions ses, no waiter can be routed: all enabled processes are
\* totally busy, or the one that its cookie names is.
NotRoutable(en, ses) ==
  \A r \in getWaitlist :
    /\ sticky[r] = NoProcess => \A p \in Enabled(en) : IsTotallyBusy(p, ses)
    /\ sticky[r] \in Enabled(en) => IsTotallyBusy(sticky[r], ses)

\* The invariant.
RouteInv == NotRoutable(enabled, session)

\* It is kept when processes are taken out of rotation, when sessions are opened and when
\* the processes in rotation keep theirs.
LEMMA StaysNotRoutable ==
  ASSUME NEW en, NEW ses, NotRoutable(en, ses), NEW en2, Enabled(en2) \subseteq Enabled(en),
         NEW ses2, \A p \in Enabled(en2) : Sessions(p, ses) \subseteq Sessions(p, ses2)
  PROVE  NotRoutable(en2, ses2)
<1>1. ASSUME NEW p \in Enabled(en2), IsTotallyBusy(p, ses)
      PROVE  IsTotallyBusy(p, ses2)
  BY <1>1, BusyStays, Zenon
<1> QED BY <1>1, Zenon DEF NotRoutable

\* The invariant for the state after a step that adds no waiter.
LEMMA KeepsRouteInv ==
  ASSUME getWaitlist' \subseteq getWaitlist, \A r \in getWaitlist' : sticky'[r] = sticky[r],
         NotRoutable(enabled', session')
  PROVE  RouteInv'
<1> QED BY SMTT(30) DEF RouteInv, NotRoutable, Enabled, Status, IsTotallyBusy, Busyness, Sessions

\* A step that keeps the queue and the sessions of the processes in rotation keeps it.
LEMMA RotationShrinks ==
  ASSUME RouteInv, UNCHANGED waitVars, Enabled(enabled') \subseteq Enabled(enabled),
         \A p \in Enabled(enabled') : Sessions(p, session) \subseteq Sessions(p, session')
  PROVE  RouteInv'
<1>1. NotRoutable(enabled', session')
  BY StaysNotRoutable, Zenon DEF RouteInv
<1> QED BY <1>1, KeepsRouteInv, Zenon DEF waitVars

\* Why route() finds no process for a request whose cookie names s.
LEMMA RoutedNowhere ==
  ASSUME NEW s, NEW en, NEW ses, Route(s, en, ses) = {}
  PROVE  /\ s = NoProcess => \A p \in Enabled(en) : IsTotallyBusy(p, ses)
         /\ s \in Enabled(en) => IsTotallyBusy(s, ses)
<1>1. ASSUME s = NoProcess, NEW p \in Enabled(en)
      PROVE  IsTotallyBusy(p, ses)
  <2>1. p \in Candidates(en)
    BY Zenon DEF Candidates
  <2> QED BY <1>1, <2>1, NotRouted, Zenon
<1>2. ASSUME s \in Enabled(en)
      PROVE  IsTotallyBusy(s, ses)
  <2>1. Route(s, en, ses) = {p \in {s} : ~IsTotallyBusy(p, ses)}
    BY <1>2, Zenon DEF Route
  <2> QED BY <2>1, Zenon
<1> QED BY <1>1, <1>2, Zenon

\* After the waiters were looked at, those that are left cannot be routed.
LEMMA LeftWaiting ==
  ASSUME WaitTypes, QueueInv, NEW en, NEW ses, Closes(ses), AssignSessionsToGetWaiters(en, ses)
  PROVE  /\ getWaitlist' \subseteq getWaitlist /\ \A r \in getWaitlist' : sticky'[r] = sticky[r]
         /\ \A r \in getWaitlist' :
              /\ sticky[r] = NoProcess => \A p \in Enabled(en) : IsTotallyBusy(p, session')
              /\ sticky[r] \in Enabled(en) => IsTotallyBusy(sticky[r], session')
<1>1. PICK f \in [getWaitlist -> Enabled(en) \cup Disabling(en) \cup {NoProcess}] :
        /\ IsAssignment(f, en, ses)
        /\ session' = Assigned(f, getWaitlist, ses)
        /\ RemoveWaiters({r \in getWaitlist : f[r] # NoProcess})
  BY Zenon DEF AssignSessionsToGetWaiters
<1>2. /\ getWaitlist' = {r \in getWaitlist : f[r] = NoProcess}
      /\ \A r \in getWaitlist' : sticky'[r] = sticky[r]
  BY <1>1 DEF RemoveWaiters, WaitTypes
<1>3. \A r \in getWaitlist : ses[r] = NoProcess
  BY Zenon DEF QueueInv, Closes, WaitTypes
<1>4. ASSUME NEW r \in getWaitlist, f[r] = NoProcess
      PROVE  /\ sticky[r] = NoProcess => \A p \in Enabled(en) : IsTotallyBusy(p, session')
             /\ sticky[r] \in Enabled(en) => IsTotallyBusy(sticky[r], session')
  <2> DEFINE V == {z \in getWaitlist : <<z, r>> \in ahead}
             given == Assigned(f, V, ses)
  <2>1. Route(sticky[r], en, given) = {}
    <3>1. NoProcess \notin Process
      BY GroupAssumption, Zenon
    <3>2. NoProcess \notin Route(sticky[r], en, given)
      BY <3>1, Zenon DEF Route, LeastBusy, Enabled, Disabling, Status
    <3> QED BY <1>1, <1>4, <3>2, Zenon DEF IsAssignment
  <2>2. ASSUME NEW p \in Enabled(en), IsTotallyBusy(p, given)
        PROVE  IsTotallyBusy(p, session')
    <3>1. p \in Process
      BY Zenon DEF Enabled, Status
    <3>2. V \subseteq getWaitlist /\ getWaitlist \subseteq getWaitlist
      BY Zenon
    <3>3. Sessions(p, given) \subseteq Sessions(p, Assigned(f, getWaitlist, ses))
      BY <1>3, <3>1, <3>2, AssignedMore, Zenon
    <3>4. Sessions(p, given) \subseteq Sessions(p, session')
      BY <1>1, <3>3
    <3> QED BY <2>2, <3>4, BusyStays, Zenon
  <2> HIDE DEF given
  <2>3. /\ sticky[r] = NoProcess => \A p \in Enabled(en) : IsTotallyBusy(p, given)
        /\ sticky[r] \in Enabled(en) => IsTotallyBusy(sticky[r], given)
    BY <2>1, RoutedNowhere
  <2> QED BY <2>2, <2>3, Zenon
<1> QED BY <1>2, <1>4, Zenon

\* So a step that looks at them keeps the invariant, even when it then takes processes out of
\* rotation.
LEMMA AssignKeepsRouteInv ==
  ASSUME WaitTypes, QueueInv, NEW en, NEW ses, Closes(ses), AssignSessionsToGetWaiters(en, ses),
         Enabled(enabled') \subseteq Enabled(en)
  PROVE  RouteInv'
<1>1. /\ getWaitlist' \subseteq getWaitlist /\ \A r \in getWaitlist' : sticky'[r] = sticky[r]
      /\ \A r \in getWaitlist' :
           /\ sticky[r] = NoProcess => \A p \in Enabled(en) : IsTotallyBusy(p, session')
           /\ sticky[r] \in Enabled(en) => IsTotallyBusy(sticky[r], session')
  BY LeftWaiting
<1>2. \A r \in getWaitlist' :
        /\ sticky'[r] = NoProcess => \A p \in Enabled(enabled') : IsTotallyBusy(p, session')
        /\ sticky'[r] \in Enabled(enabled') => IsTotallyBusy(sticky'[r], session')
  BY <1>1
<1> QED BY <1>2 DEF RouteInv, NotRoutable, Enabled, Status, IsTotallyBusy, Busyness, Sessions

\* A request that get() leaves waiting cannot be routed.
LEMMA GetSessionRouteInv ==
  ASSUME WaitTypes, RouteInv, NEW r \in Request, NEW s, r \notin getWaitlist,
         session[r] = NoProcess, NEW rst, GetSession(r, s, enabled', rst),
         Enabled(enabled') \subseteq Enabled(enabled)
  PROVE  RouteInv'
<1>1. CASE UNCHANGED waitVars /\ \E p : session' = [session EXCEPT ![r] = p]
  <2>1. ASSUME NEW q \in Enabled(enabled')
        PROVE  Sessions(q, session) \subseteq Sessions(q, session')
    <3>1. q # NoProcess
      BY GroupAssumption DEF Enabled, Status
    <3> QED BY <1>1, <3>1 DEF Sessions, WaitTypes
  <2> QED BY <1>1, <2>1, RotationShrinks, Zenon
<1>2. CASE UNCHANGED <<session, waitVars>>
  BY <1>2, RotationShrinks
<1>3. CASE /\ (IF Enabled(enabled') = {} /\ rst THEN {} ELSE Route(s, enabled', session)) = {}
           /\ UNCHANGED session
           /\ getWaitlist' = getWaitlist \cup {r}
           /\ sticky' = [sticky EXCEPT ![r] = s]
  <2>1. NotRoutable(enabled', session')
    BY <1>3, StaysNotRoutable DEF RouteInv
  <2>2. /\ s = NoProcess => \A p \in Enabled(enabled') : IsTotallyBusy(p, session')
        /\ s \in Enabled(enabled') => IsTotallyBusy(s, session')
    <3>1. CASE Enabled(enabled') = {}
      BY <3>1, Zenon
    <3>2. CASE Route(s, enabled', session) = {}
      BY <1>3, <3>2, RoutedNowhere, Zenon
    <3> QED BY <1>3, <3>1, <3>2, Zenon
  <2>3. sticky'[r] = s /\ \A q \in getWaitlist : sticky'[q] = sticky[q]
    BY <1>3, Zenon DEF WaitTypes
  <2>4. \A q \in getWaitlist' :
          /\ sticky'[q] = NoProcess => \A p \in Enabled(enabled') : IsTotallyBusy(p, session')
          /\ sticky'[q] \in Enabled(enabled') => IsTotallyBusy(sticky'[q], session')
    BY <1>3, <2>1, <2>2, <2>3, Zenon DEF NotRoutable
  <2> QED BY <2>4 DEF RouteInv, NotRoutable, Enabled, Status, IsTotallyBusy, Busyness, Sessions
<1> QED BY <1>1, <1>2, <1>3 DEF GetSession, PushGetWaiter

\* An empty queue satisfies the invariant.
LEMMA NobodyWaits ==
  ASSUME getWaitlist' = {}
  PROVE  RouteInv'
BY Zenon DEF RouteInv, NotRoutable

\* Group::disable puts no process into rotation.
LEMMA DisableRotation ==
  ASSUME NEW p \in Process, NEW w, NEW en, NEW ses, NEW dw, IsLists(en, dw),
         Disable(p, w, en, ses, dw)
  PROVE  Enabled(enabled') \subseteq Enabled(en)
<1> DEFINE result == DisableResult(p, en, ses)
<1>1. enabled' = [en EXCEPT ![p] = IF result = "DEFERRED" THEN "DISABLING"
                                   ELSE IF result = "SUCCESS" THEN "DISABLED" ELSE @]
  BY Zenon DEF Disable
<1>2. en \in [Process -> EnabledStatus]
  BY Zenon DEF IsLists
<1> HIDE DEF result
<1> QED BY <1>1, <1>2, Zenon DEF Enabled, Status

\* Nor does Group::maybeInitiateOobw.
LEMMA MaybeInitiateOobwRotation ==
  ASSUME NEW p \in Process, NEW en, NEW ses, NEW dw, IsLists(en, dw),
         MaybeInitiateOobw(p, en, ses, dw)
  PROVE  Enabled(enabled') \subseteq Enabled(en)
<1>1. CASE Disable(p, "oobw", en, ses, dw)
  BY <1>1, DisableRotation, Zenon
<1>2. CASE enabled' = en
  BY <1>2, Zenon
<1> QED BY <1>1, <1>2, Zenon DEF MaybeInitiateOobw, InitiateOobw

\* onSessionClose() keeps the invariant: it looks at the waiters, or the process whose
\* session ended is no longer in rotation.
LEMMA OnSessionCloseRouteInv ==
  ASSUME ProcessTypes, QueueInv, RouteInv, NEW r \in Request, NEW needed \in BOOLEAN,
         OnSessionClose(r, needed)
  PROVE  RouteInv'
<1> DEFINE p == session[r]
           ses == [session EXCEPT ![r] = NoProcess]
<1>1. /\ p \in Process /\ enabled \in [Process -> EnabledStatus] /\ WaitTypes
      /\ IsLists(enabled, disableWaitlist)
  BY Zenon DEF OnSessionClose, ProcessTypes, WaitTypes, Target, ListTypes, IsLists
<1>2. ASSUME session' = ses, UNCHANGED waitVars, p \notin Enabled(enabled'),
             Enabled(enabled') \subseteq Enabled(enabled)
      PROVE  RouteInv'
  <2>1. ASSUME NEW q \in Enabled(enabled')
        PROVE  Sessions(q, session) \subseteq Sessions(q, session')
    BY <1>1, <1>2 DEF Sessions, WaitTypes
  <2> QED BY <1>2, <2>1, RotationShrinks, Zenon
<1>3. CASE DetachProcessUnlocked(p, ses) /\ session' = ses /\ UNCHANGED waitVars
  <2>1. Enabled(enabled') \subseteq Enabled(enabled) /\ p \notin Enabled(enabled')
    BY <1>3 DEF DetachProcessUnlocked, Detach, Enabled, Status
  <2> QED BY <1>2, <1>3, <2>1
<1>4. CASE /\ MaybeInitiateOobw(p, [enabled EXCEPT ![p] = "DISABLED"], ses,
                                disableWaitlist \ WaitersFor({p}))
           /\ session' = ses /\ UNCHANGED waitVars
  <2> DEFINE en == [enabled EXCEPT ![p] = "DISABLED"]
             dw == disableWaitlist \ WaitersFor({p})
  <2>1. IsLists(en, dw)
    BY <1>1 DEF IsLists, EnabledStatus
  <2>2. Enabled(enabled') \subseteq Enabled(en)
    BY <1>1, <1>4, <2>1, MaybeInitiateOobwRotation
  <2>3. Enabled(en) \subseteq Enabled(enabled) /\ p \notin Enabled(en)
    BY <1>1 DEF Enabled, Status
  <2> QED BY <1>2, <1>4, <2>2, <2>3, Zenon
<1>5. CASE /\ MaybeInitiateOobw(p, enabled, ses, disableWaitlist)
           /\ IF getWaitlist # {} /\ enabled'[p] = "ENABLED"
              THEN AssignSessionsToGetWaiters(enabled', ses)
              ELSE session' = ses /\ UNCHANGED waitVars
  <2>1. Enabled(enabled') \subseteq Enabled(enabled)
    BY <1>1, <1>5, MaybeInitiateOobwRotation, Zenon
  <2>2. Closes(ses)
    BY <1>1, Zenon DEF Closes, WaitTypes, Target
  <2>3. CASE AssignSessionsToGetWaiters(enabled', ses)
    BY <1>1, <2>2, <2>3, AssignKeepsRouteInv, Zenon
  <2>4. CASE getWaitlist = {} /\ UNCHANGED waitVars
    BY <2>4, NobodyWaits, Zenon DEF waitVars
  <2>5. CASE enabled'[p] # "ENABLED" /\ session' = ses /\ UNCHANGED waitVars
    BY <1>2, <2>1, <2>5, Zenon DEF Enabled, Status
  <2> QED BY <1>5, <2>3, <2>4, <2>5
<1> QED BY <1>3, <1>4, <1>5, Zenon DEF OnSessionClose

\* The end of out-of-band work keeps it: the waiters are looked at when the process goes back
\* into rotation.
LEMMA FinishOobwRouteInv ==
  ASSUME ProcessTypes, QueueInv, RouteInv, NEW p \in Process, FinishOobw(p)
  PROVE  RouteInv'
<1> DEFINE threads == oobwThreads \ {<<p, "working">>}
           status == [oobwStatus EXCEPT ![p] = "NOT_ACTIVE"]
           en == [enabled EXCEPT ![p] = IF @ = "DISABLED" THEN "ENABLED" ELSE @]
<1>1. enabled \in [Process -> EnabledStatus] /\ WaitTypes /\ IsLists(enabled, disableWaitlist)
  BY Zenon DEF ProcessTypes, ListTypes, IsLists
<1>2. CASE UNCHANGED <<enabled, session, waitVars>>
  BY <1>2, RotationShrinks, Zenon
<1>3. CASE /\ IF enabled[p] = "DISABLED" THEN AssignSessionsToGetWaiters(en, session)
              ELSE UNCHANGED <<session, waitVars>>
           /\ InitiateNextOobwRequest(en, status, session', threads)
  <2>1. IsLists(en, disableWaitlist)
    BY <1>1, Zenon DEF IsLists, EnabledStatus
  <2>2. enabled[p] # "DISABLED" => Enabled(en) \subseteq Enabled(enabled)
    BY <1>1, Zenon DEF Enabled, Status
  <2> HIDE DEF en
  <2>3. Enabled(enabled') \subseteq Enabled(en)
    <3>1. ASSUME NEW q \in Enabled(en),
                 InitiateOobw(q, en, status, session', disableWaitlist, threads)
          PROVE  Enabled(enabled') \subseteq Enabled(en)
      <4>1. q \in Process /\ Disable(q, "oobw", en, session', disableWaitlist)
        BY <3>1 DEF Enabled, Status, InitiateOobw
      <4> QED BY <2>1, <4>1, DisableRotation
    <3>2. CASE enabled' = en
      BY <3>2
    <3> QED BY <1>3, <3>1, <3>2, Zenon DEF InitiateNextOobwRequest
  <2>4. CASE AssignSessionsToGetWaiters(en, session)
    <3>1. Closes(session)
      BY <1>1 DEF Closes, WaitTypes
    <3> QED BY <1>1, <2>3, <2>4, <3>1, AssignKeepsRouteInv
  <2>5. CASE enabled[p] # "DISABLED" /\ UNCHANGED <<session, waitVars>>
    BY <2>2, <2>3, <2>5, RotationShrinks
  <2> QED BY <1>3, <2>4, <2>5, Zenon
<1> QED BY <1>2, <1>3, Zenon DEF FinishOobw

\* Every step keeps it.
LEMMA RouteInvStep ==
  ASSUME ProcessTypes, QueueInv, RouteInv, [Next]_vars
  PROVE  RouteInv'
<1>1. WaitTypes /\ IsLists(enabled, disableWaitlist)
  BY Zenon DEF ProcessTypes, ListTypes
<1>2. ASSUME UNCHANGED <<session, waitVars>>,
             UNCHANGED enabled \/ DetachAll \/ \E S : Detach(S)
      PROVE  RouteInv'
  <2>1. Enabled(enabled') \subseteq Enabled(enabled)
    BY <1>2, Zenon DEF DetachAll, Detach, Enabled, Status
  <2> QED BY <1>2, <2>1, RotationShrinks, Zenon
<1>3. ASSUME NEW p \in Process, NEW w, UNCHANGED <<session, waitVars>>,
             Disable(p, w, enabled, session, disableWaitlist)
      PROVE  RouteInv'
  <2>1. Enabled(enabled') \subseteq Enabled(enabled)
    BY <1>1, <1>3, DisableRotation
  <2> QED BY <1>3, <2>1, RotationShrinks
<1>4. ASSUME NEW r \in Request, NEW s \in Process \cup {NoProcess},
             NEW needsRestart \in BOOLEAN, NEW freed \in BOOLEAN,
             Get(r, s, needsRestart, freed)
      PROVE  RouteInv'
  <2>1. /\ r \notin getWaitlist /\ session[r] = NoProcess
        /\ GetSession(r, s, enabled', restarting')
    BY <1>4 DEF Get
  <2>2. Enabled(enabled') \subseteq Enabled(enabled)
    BY <1>4, Zenon DEF Get, Restart, DetachAll, Enabled, Status
  <2> QED BY <1>1, <2>1, <2>2, GetSessionRouteInv
<1>5. ASSUME NEW r \in Request, NEW needed \in BOOLEAN, OnSessionClose(r, needed)
      PROVE  RouteInv'
  BY <1>5, OnSessionCloseRouteInv
<1>6. ASSUME NEW p \in Process, NEW otherWaits \in BOOLEAN, AttachSpawned(p, otherWaits)
      PROVE  RouteInv'
  <2>1. CASE getWaitlist = {} /\ UNCHANGED waitVars
    BY <2>1, NobodyWaits DEF waitVars
  <2>2. CASE AssignSessionsToGetWaiters(enabled', session)
    <3>1. Closes(session)
      BY <1>1 DEF Closes, WaitTypes
    <3> QED BY <1>1, <2>2, <3>1, AssignKeepsRouteInv
  <2> QED BY <1>6, <2>1, <2>2 DEF AttachSpawned
<1>7. ASSUME NEW p \in Process, FinishOobw(p)
      PROVE  RouteInv'
  BY <1>7, FinishOobwRouteInv
<1>8. CASE SpawnFailed \/ Shutdown
  <2>1. getWaitlist' = {}
    BY <1>8, Zenon DEF SpawnFailed, Shutdown, AssignExceptionToGetWaiters, RemoveWaiters
  <2> QED BY <2>1, NobodyWaits
<1>9. ASSUME NEW p \in Process, NEW result \in DisableResults,
             LockAndMaybeInitiateOobw(p, result)
      PROVE  RouteInv'
  BY <1>2, <1>3, <1>9 DEF LockAndMaybeInitiateOobw, InitiateOobw
<1>10. ASSUME NEW a \in Admin, NEW p \in Process, DisableProcess(a, p)
      PROVE  RouteInv'
  BY <1>3, <1>10 DEF DisableProcess
<1>11. CASE UNCHANGED vars \/ RestartGroup \/ RoomChanges \/ CapacityFreed
  BY <1>2, <1>11 DEF vars, RestartGroup, Restart, RoomChanges, CapacityFreed
<1>12. CASE \/ \E r \in Request : RequestOOBW(r) \/ OnSessionInitiateFailure(r)
            \/ \E e \in 0..MaxRestarts : AbortSpawn(e)
            \/ \E otherWaits \in BOOLEAN : RejectSpawned(otherWaits)
            \/ \E e \in 1..MaxRestarts, freed \in BOOLEAN : FinalizeRestart(e, freed)
  BY <1>2, <1>12, Zenon
  DEF RequestOOBW, OnSessionInitiateFailure, DetachProcessUnlocked, AbortSpawn,
      RejectSpawned, FinalizeRestart
<1>13. CASE \/ \E p \in Process : StartOobw(p) \/ DetachProcess(p) \/ ForceFreeCapacity(p)
            \/ \E S \in SUBSET Process : GarbageCollect(S)
            \/ \E exited \in SUBSET Detached : CheckDetachedProcesses(exited)
  BY <1>2, <1>13, Zenon
  DEF StartOobw, DetachProcess, DetachProcessUnlocked, ForceFreeCapacity, GarbageCollect,
      CheckDetachedProcesses
<1> QED
  BY <1>4, <1>5, <1>6, <1>7, <1>8, <1>9, <1>10, <1>11, <1>12, <1>13 DEF Next

\* No waiter can be routed in any reachable state.
LEMMA RouteInvHolds == Spec => []RouteInv
<1>1. Init => RouteInv
  BY DEF Init, RouteInv, NotRoutable
<1>2. ProcessTypes /\ QueueInv /\ RouteInv /\ [Next]_vars => RouteInv'
  BY RouteInvStep
<1> QED BY <1>1, <1>2, ProcessTypesHold, QueueInvHolds, PTL DEF Spec

\* Whoever frees a process or puts one into rotation looks at the queue: no request waits
\* while route() would find a process for it, unless the process that its cookie names has
\* left rotation since.
THEOREM WaitersAreNeverRoutable == Spec => []WaitersAreNotRoutable
<1>1. ASSUME RouteInv PROVE WaitersAreNotRoutable
  <2> SUFFICES ASSUME Enabled(enabled) # {}, NEW r \in getWaitlist,
                      sticky[r] \in Enabled(enabled) \cup {NoProcess}
               PROVE  Route(sticky[r], enabled, session) = {}
    BY Zenon DEF WaitersAreNotRoutable
  <2>1. CASE sticky[r] = NoProcess
    <3>1. \A p \in Candidates(enabled) : IsTotallyBusy(p, session)
      BY <1>1, <2>1, Zenon DEF RouteInv, NotRoutable, Candidates
    <3> QED BY <3>1, NotRoutedAtAll, Zenon
  <2>2. CASE sticky[r] \in Enabled(enabled)
    <3>1. IsTotallyBusy(sticky[r], session)
      BY <1>1, <2>2, Zenon DEF RouteInv, NotRoutable
    <3>2. Route(sticky[r], enabled, session) =
            {p \in {sticky[r]} : ~IsTotallyBusy(p, session)}
      BY <2>2, Zenon DEF Route
    <3> QED BY <3>1, <3>2, Zenon
  <2> QED BY <2>1, <2>2, Zenon
<1>2. RouteInv => WaitersAreNotRoutable
  BY <1>1, Zenon
<1> QED BY <1>2, RouteInvHolds, PTL

-----------------------------------------------------------------------------
(* The prospects of those who wait.                                         *)

\* The step that KeepsProspects allows.
ProspectsStep == room' <= room /\ HasProspects => HasProspects'

\* The pool has no room for another process of the group.
Full(en, rm) == GetProcessCount(en) >= rm

\* In a group that is alive and spawns nothing, nothing is being spawned.
LEMMA NoneBeingSpawned ==
  ASSUME SpawnInv, IsAlive, ~spawning
  PROVE  processesBeingSpawned = 0
BY DEF SpawnInv, SpawnBookkeeping

\* What has to be shown for a step: a group that is left without an enabled process, and
\* neither spawns nor restarts, has used up its share of the pool.
LEMMA ShowProspects ==
  ASSUME SpawnInv',
         /\ lifeStatus' = "ALIVE" /\ getWaitlist' # {} /\ Enabled(enabled') = {}
         /\ ~spawning' /\ ~restarting' /\ room' <= room /\ HasProspects
         => Full(enabled', room')
  PROVE  ProspectsStep
<1> SUFFICES ASSUME lifeStatus' = "ALIVE", getWaitlist' # {}, Enabled(enabled') = {},
                    ~spawning', ~restarting', room' <= room, HasProspects
             PROVE  PoolAtFullCapacity(enabled', processesBeingSpawned', room')
  BY Zenon DEF ProspectsStep, HasProspects, IsAlive, Enabled, Status, PoolAtFullCapacity,
         CapacityUsed, GetProcessCount
<1>1. processesBeingSpawned' = 0
  BY Zenon DEF SpawnInv, SpawnBookkeeping, IsAlive
<1>2. GetProcessCount(enabled') >= room' /\ GetProcessCount(enabled') \in Nat
  BY CountIsNat, Zenon DEF Full
<1>3. GetProcessCount(enabled') + 0 >= room'
  BY <1>2, SMTT(30)
<1> QED BY <1>1, <1>3, Zenon DEF PoolAtFullCapacity, CapacityUsed

\* Those who wait had a prospect: so had the group used up its share before.
LEMMA HadProspects ==
  ASSUME SpawnInv, HasProspects, IsAlive, getWaitlist # {}, Enabled(enabled) = {}, ~spawning,
         ~restarting
  PROVE  Full(enabled, room)
<1>1. processesBeingSpawned = 0
  BY NoneBeingSpawned, Zenon
<1>2. GetProcessCount(enabled) + 0 >= room /\ GetProcessCount(enabled) \in Nat
  BY <1>1, CountIsNat, Zenon DEF HasProspects, PoolAtFullCapacity, CapacityUsed
<1>3. GetProcessCount(enabled) >= room
  BY <1>2, SMTT(30)
<1> QED BY <1>3, Zenon DEF Full

\* It stays so when the group keeps its processes and gets no more room.
LEMMA StaysFull ==
  ASSUME NEW en, NEW en2, Members(en2) = Members(en), NEW a \in Nat, NEW b \in Nat, b <= a,
         Full(en, a)
  PROVE  Full(en2, b)
<1> DEFINE m == GetProcessCount(en)
           n == GetProcessCount(en2)
<1>1. m = n
  BY Zenon DEF GetProcessCount, Members
<1>2. m \in Nat /\ n \in Nat
  BY CountIsNat, Zenon
<1>3. m >= a
  BY Zenon DEF Full
<1> HIDE DEF m, n
<1>4. n >= b
  BY <1>1, <1>2, <1>3, SMTT(30)
<1> QED BY <1>4, Zenon DEF Full, n

\* Group::spawn spawns, or the group has used up its share.
LEMMA SpawnOrFull ==
  ASSUME SpawnInv, IsAlive, NEW en, Below(en), NEW rm, Spawn(en, FALSE, rm), ~spawning'
  PROVE  Full(en, rm)
<1>1. ~CanSpawn(en, FALSE, rm) /\ ~spawning
  BY Zenon DEF Spawn, spawnVars
<1>2. processesBeingSpawned = 0
  BY <1>1, NoneBeingSpawned
<1>3. GetProcessCount(en) \in Nat /\ MaxProcesses \in Nat
  BY CountIsNat, GroupAssumption
<1>4. GetProcessCount(en) + 0 = GetProcessCount(en)
  BY <1>3
<1>5. ~UpperLimitsReached(en, 0)
  BY <1>3, <1>4 DEF UpperLimitsReached, CapacityUsed, Below
<1>6. PoolAtFullCapacity(en, 0, rm)
  BY <1>1, <1>2, <1>5 DEF CanSpawn
<1> QED BY <1>4, <1>6, Zenon DEF PoolAtFullCapacity, CapacityUsed, Full

\* A step that takes no process out of rotation and ends neither a spawn loop nor a restart.
LEMMA NothingLost ==
  ASSUME SpawnInv, SpawnInv', ProcessTypes, ProcessTypes', UNCHANGED <<enabled, restarting>>,
         lifeStatus' = "ALIVE" => IsAlive, getWaitlist' \subseteq getWaitlist,
         ~spawning' => ~spawning
  PROVE  ProspectsStep
<1> SUFFICES ASSUME lifeStatus' = "ALIVE", getWaitlist' # {}, Enabled(enabled') = {},
                    ~spawning', ~restarting', room' <= room, HasProspects
             PROVE  Full(enabled', room')
  BY ShowProspects
<1>1. Full(enabled, room)
  BY HadProspects
<1>2. room \in Nat /\ room' \in Nat
  BY DEF ProcessTypes, LifeTypes
<1> QED BY <1>1, <1>2, StaysFull

\* Group::disable takes the last process out of rotation only if another one can be spawned.
LEMMA DisableProspects ==
  ASSUME SpawnInv, SpawnInv', ProcessTypes, LimitInv', UNCHANGED <<lifeStatus, restarting, room>>,
         getWaitlist' \subseteq getWaitlist, NEW en, Enabled(enabled) \subseteq Enabled(en),
         Members(en) = Members(enabled), NEW p \in Process, NEW w, NEW ses, NEW dw,
         IsLists(en, dw), Disable(p, w, en, ses, dw)
  PROVE  ProspectsStep
<1> SUFFICES ASSUME lifeStatus' = "ALIVE", getWaitlist' # {}, Enabled(enabled') = {},
                    ~spawning', ~restarting', room' <= room, HasProspects
             PROVE  Full(enabled', room')
  BY ShowProspects, Zenon
<1>1. Below(enabled')
  BY Zenon DEF LimitInv, IsAlive, Grows, Below, Enabled, Status, GetProcessCount
<1>2. CASE en[p] = "ENABLED"
  <2>1. Spawn(enabled', restarting, room)
    BY <1>2, Zenon DEF Disable
  <2>2. Spawn(enabled', FALSE, room)
    BY <2>1, Zenon DEF Spawn, CanSpawn
  <2>3. Full(enabled', room)
    BY <1>1, <2>2, SpawnOrFull, Zenon DEF IsAlive
  <2> QED BY <2>3, Zenon
<1>3. CASE en[p] # "ENABLED"
  <2> DEFINE result == DisableResult(p, en, ses)
  <2>1. ~spawning
    BY <1>3 DEF Disable, spawnVars
  <2>2. enabled' = [en EXCEPT ![p] = IF result = "DEFERRED" THEN "DISABLING"
                                     ELSE IF result = "SUCCESS" THEN "DISABLED" ELSE @]
    BY DEF Disable
  <2>3. en \in [Process -> EnabledStatus]
    BY DEF IsLists
  <2> HIDE DEF result
  <2>4. Enabled(en) \subseteq Enabled(enabled')
    BY <1>3, <2>2, <2>3 DEF Enabled, Status
  <2>5. Enabled(enabled) = {} /\ getWaitlist # {}
    BY <2>4
  <2>6. Full(enabled, room)
    BY <2>1, <2>5, HadProspects DEF IsAlive
  <2>7. Members(enabled') = Members(enabled)
    BY DisableDetachesNone, SMTT(30) DEF SameDetached, Members
  <2>8. room \in Nat /\ room' = room
    BY Zenon DEF ProcessTypes, LifeTypes
  <2> QED BY <2>6, <2>7, <2>8, StaysFull, SMTT(30)
<1> QED BY <1>2, <1>3, Zenon

\* Pool::detachProcessUnlocked asks the pool to spawn for those who wait.
LEMMA DetachProspects ==
  ASSUME SpawnInv, SpawnInv', LimitInv', NEW p, NEW ses, DetachProcessUnlocked(p, ses),
         UNCHANGED <<lifeStatus, restarting, getWaitlist>>
  PROVE  ProspectsStep
<1> SUFFICES ASSUME lifeStatus' = "ALIVE", getWaitlist' # {}, Enabled(enabled') = {},
                    ~spawning', ~restarting', room' <= room, HasProspects
             PROVE  Full(enabled', room')
  BY ShowProspects
<1>1. PossiblySpawnMore(enabled', ses, room')
  BY DEF DetachProcessUnlocked
<1>2. SpawnEffect(restarting)
  BY <1>1, PossiblySpawnMoreHasEffect
<1>3. ~spawning
  BY <1>2 DEF SpawnEffect, spawnVars
<1>4. processesBeingSpawned = 0
  BY <1>3, NoneBeingSpawned DEF IsAlive
<1>5. IsWaitingForCapacity(enabled', processesBeingSpawned, restarting)
  BY <1>4 DEF IsWaitingForCapacity
<1>6. Spawn(enabled', restarting, room')
  BY <1>1, <1>5 DEF PossiblySpawnMore
<1>7. Spawn(enabled', FALSE, room')
  BY <1>6 DEF Spawn, CanSpawn
<1>8. Below(enabled')
  BY DEF LimitInv, IsAlive, Grows, Below, Enabled, Status, GetProcessCount
<1> QED BY <1>7, <1>8, SpawnOrFull, Zenon DEF IsAlive

\* A step that disables nothing: it keeps the processes and leaves those in rotation there.
LEMMA RotationGrows ==
  ASSUME SpawnInv, SpawnInv', ProcessTypes, UNCHANGED <<lifeStatus, restarting, room, spawnVars>>,
         getWaitlist' \subseteq getWaitlist, Enabled(enabled) \subseteq Enabled(enabled'),
         Members(enabled') = Members(enabled)
  PROVE  ProspectsStep
<1> SUFFICES ASSUME lifeStatus' = "ALIVE", getWaitlist' # {}, Enabled(enabled') = {},
                    ~spawning', ~restarting', room' <= room, HasProspects
             PROVE  Full(enabled', room')
  BY ShowProspects, Zenon
<1>1. Full(enabled, room)
  BY HadProspects, Zenon DEF IsAlive, spawnVars
<1>2. room \in Nat /\ room' = room
  BY DEF ProcessTypes, LifeTypes
<1> QED BY <1>1, <1>2, StaysFull, Zenon

\* Group::maybeInitiateOobw disables the process or does nothing.
LEMMA MaybeInitiateOobwProspects ==
  ASSUME SpawnInv, SpawnInv', ProcessTypes, LimitInv', UNCHANGED <<lifeStatus, restarting, room>>,
         getWaitlist' \subseteq getWaitlist, NEW en, Enabled(enabled) \subseteq Enabled(en),
         Members(en) = Members(enabled), NEW p \in Process, NEW ses, NEW dw,
         IsLists(en, dw), MaybeInitiateOobw(p, en, ses, dw)
  PROVE  ProspectsStep
<1>1. CASE Disable(p, "oobw", en, ses, dw)
  BY <1>1, DisableProspects, Zenon
<1>2. CASE enabled' = en /\ UNCHANGED spawnVars
  BY <1>2, RotationGrows, Zenon
<1> QED BY <1>1, <1>2, Zenon DEF MaybeInitiateOobw, InitiateOobw

\* onSessionClose() leaves those who wait a prospect.
LEMMA OnSessionCloseProspects ==
  ASSUME SpawnInv, SpawnInv', ProcessTypes, LimitInv', NEW r \in Request,
         NEW needed \in BOOLEAN, OnSessionClose(r, needed)
  PROVE  ProspectsStep
<1> DEFINE p == session[r]
           ses == [session EXCEPT ![r] = NoProcess]
<1>1. /\ p \in Process /\ UNCHANGED <<lifeStatus, restarting>>
      /\ enabled \in [Process -> EnabledStatus] /\ IsLists(enabled, disableWaitlist)
  BY Zenon DEF OnSessionClose, ProcessTypes, WaitTypes, Target, ListTypes, IsLists, restartVars
<1>2. CASE DetachProcessUnlocked(p, ses) /\ UNCHANGED waitVars
  BY <1>1, <1>2, DetachProspects, Zenon DEF waitVars
<1>3. CASE /\ ShouldDisable(p, ses)
           /\ MaybeInitiateOobw(p, [enabled EXCEPT ![p] = "DISABLED"], ses,
                                disableWaitlist \ WaitersFor({p}))
           /\ UNCHANGED <<waitVars, room>>
  <2> DEFINE en == [enabled EXCEPT ![p] = "DISABLED"]
             dw == disableWaitlist \ WaitersFor({p})
  <2>1. IsLists(en, dw)
    BY <1>1 DEF IsLists, EnabledStatus
  <2>2. Members(en) = Members(enabled) /\ Enabled(enabled) \subseteq Enabled(en)
    BY <1>1, <1>3, SMTT(30) DEF ShouldDisable, Members, Enabled, Status
  <2> QED BY <1>1, <1>3, <2>1, <2>2, MaybeInitiateOobwProspects, Zenon DEF waitVars
<1>4. CASE /\ MaybeInitiateOobw(p, enabled, ses, disableWaitlist)
           /\ IF getWaitlist # {} /\ enabled'[p] = "ENABLED"
              THEN AssignSessionsToGetWaiters(enabled', ses)
              ELSE session' = ses /\ UNCHANGED waitVars
           /\ UNCHANGED room
  <2>1. getWaitlist' \subseteq getWaitlist
    BY <1>4 DEF AssignSessionsToGetWaiters, RemoveWaiters, waitVars
  <2> QED BY <1>1, <1>4, <2>1, MaybeInitiateOobwProspects
<1> QED BY <1>2, <1>3, <1>4, Zenon DEF OnSessionClose

\* So does the end of out-of-band work.
LEMMA FinishOobwProspects ==
  ASSUME SpawnInv, SpawnInv', ProcessTypes, ProcessTypes', LimitInv', NEW p \in Process,
         FinishOobw(p)
  PROVE  ProspectsStep
<1> DEFINE threads == oobwThreads \ {<<p, "working">>}
           status == [oobwStatus EXCEPT ![p] = "NOT_ACTIVE"]
           en == [enabled EXCEPT ![p] = IF @ = "DISABLED" THEN "ENABLED" ELSE @]
<1>1. /\ UNCHANGED <<lifeStatus, restarting, room>>
      /\ enabled \in [Process -> EnabledStatus] /\ IsLists(enabled, disableWaitlist)
  BY DEF FinishOobw, ProcessTypes, ListTypes, IsLists, restartVars
<1>2. CASE UNCHANGED <<enabled, waitVars, spawnVars>>
  BY <1>1, <1>2, RotationGrows DEF waitVars
<1>3. CASE /\ IF enabled[p] = "DISABLED" THEN AssignSessionsToGetWaiters(en, session)
              ELSE UNCHANGED <<session, waitVars>>
           /\ InitiateNextOobwRequest(en, status, session', threads)
  <2>1. getWaitlist' \subseteq getWaitlist
    BY <1>3 DEF AssignSessionsToGetWaiters, RemoveWaiters, waitVars
  <2>2. IsLists(en, disableWaitlist)
    BY <1>1 DEF IsLists, EnabledStatus
  <2>3. Members(en) = Members(enabled) /\ Enabled(enabled) \subseteq Enabled(en)
    BY <1>1 DEF Members, Enabled, Status
  <2> HIDE DEF en
  <2>4. ASSUME NEW q \in Enabled(en),
               InitiateOobw(q, en, status, session', disableWaitlist, threads)
        PROVE  ProspectsStep
    <3>1. q \in Process /\ Disable(q, "oobw", en, session', disableWaitlist)
      BY <2>4 DEF Enabled, Status, InitiateOobw
    <3> QED BY <1>1, <2>1, <2>2, <2>3, <3>1, DisableProspects
  <2>5. CASE enabled' = en /\ UNCHANGED spawnVars
    BY <1>1, <2>1, <2>3, <2>5, RotationGrows
  <2> QED BY <1>3, <2>4, <2>5, Zenon DEF InitiateNextOobwRequest
<1> QED BY <1>2, <1>3 DEF FinishOobw

\* The spawn loop drops its process only if the group has used up its share, or if nobody
\* waits for it.
LEMMA RejectSpawnedProspects ==
  ASSUME SpawnInv, SpawnInv', ProcessTypes, ProcessTypes', LimitInv, NEW otherWaits \in BOOLEAN,
         RejectSpawned(otherWaits)
  PROVE  ProspectsStep
<1> SUFFICES ASSUME lifeStatus' = "ALIVE", getWaitlist' # {}, Enabled(enabled') = {},
                    ~spawning', ~restarting', room' <= room, HasProspects
             PROVE  Full(enabled', room')
  BY ShowProspects, Zenon
<1>1. /\ processesBeingSpawned = 1 /\ UNCHANGED <<enabled, restarting, getWaitlist>>
      /\ ~CanAttach(otherWaits)
  BY OneBeingSpawned, Zenon DEF RejectSpawned, waitVars, restartVars
<1>2. IsWaitingForCapacity(enabled, 0, restarting)
  BY <1>1, Zenon DEF IsWaitingForCapacity
<1>3. GetProcessCount(enabled) \in Nat /\ MaxProcesses \in Nat
  BY CountIsNat, GroupAssumption, Zenon
<1>4. MaxProcesses # 0 => GetProcessCount(enabled) + 1 <= MaxProcesses
  BY <1>1, Zenon DEF LimitInv, Fits, CapacityUsed
<1>5. ~UpperLimitsReached(enabled, 0)
  BY <1>3, <1>4, SMTT(30) DEF UpperLimitsReached, CapacityUsed
<1>6. PoolAtFullCapacity(enabled, 0, room)
  BY <1>1, <1>2, <1>5, SMTT(30) DEF CanAttach
<1>7. Full(enabled, room)
  BY <1>3, <1>6, SMTT(30) DEF PoolAtFullCapacity, CapacityUsed, Full
<1>8. room \in Nat /\ room' \in Nat
  BY Zenon DEF ProcessTypes, LifeTypes
<1> QED BY <1>1, <1>7, <1>8, StaysFull, Zenon

\* Group::get spawns when no process is enabled, before it queues the request.
LEMMA GetProspects ==
  ASSUME SpawnInv, SpawnInv', LimitInv', NEW r \in Request, NEW s,
         NEW needsRestart \in BOOLEAN, NEW freed \in BOOLEAN, Get(r, s, needsRestart, freed)
  PROVE  ProspectsStep
<1> SUFFICES ASSUME lifeStatus' = "ALIVE", getWaitlist' # {}, Enabled(enabled') = {},
                    ~spawning', ~restarting', room' <= room, HasProspects
             PROVE  Full(enabled', room')
  BY ShowProspects
<1>1. ~Restart
  BY DEF Restart
<1>2. UNCHANGED enabled /\ ~restarting
  <2>1. UNCHANGED <<enabled, restartVars>>
    BY <1>1, Zenon DEF Get
  <2> QED BY <2>1 DEF restartVars
<1>3. Spawn(enabled, FALSE, room') /\ IsAlive
  BY <1>1, <1>2, Zenon DEF Get
<1>4. Below(enabled')
  BY DEF LimitInv, IsAlive, Grows, Below, Enabled, Status, GetProcessCount
<1> QED BY <1>2, <1>3, <1>4, SpawnOrFull, Zenon

\* Group::finalizeRestart spawns for those who waited for the restart.
LEMMA FinalizeRestartProspects ==
  ASSUME SpawnInv, SpawnInv', ProcessTypes, ProcessTypes', LimitInv, NEW e \in 1..MaxRestarts,
         NEW freed \in BOOLEAN, FinalizeRestart(e, freed)
  PROVE  ProspectsStep
<1>1. UNCHANGED <<lifeStatus, enabled, getWaitlist>>
  BY DEF FinalizeRestart, waitVars
<1>2. CASE UNCHANGED <<restarting, spawnVars>>
  BY <1>1, <1>2, NothingLost DEF IsAlive, spawnVars
<1>3. CASE /\ IsAlive /\ e = restartsInitiated
           /\ UNCHANGED room
           /\ IF ShouldSpawn(enabled, session, processesBeingSpawned, room)
                 \/ (IsWaitingForCapacity(enabled, processesBeingSpawned, FALSE) /\ freed)
              THEN Spawn(enabled, FALSE, room') ELSE UNCHANGED spawnVars
  <2> SUFFICES ASSUME getWaitlist # {}, Enabled(enabled) = {}, ~spawning'
               PROVE  Full(enabled, room)
    BY <1>1, <1>3, ShowProspects
  <2>1. ~spawning
    BY <1>3 DEF FinalizeRestart, SpawnInv, SpawnBookkeeping
  <2>2. Below(enabled)
    BY <1>3, <2>1 DEF LimitInv, Grows
  <2>3. CASE Spawn(enabled, FALSE, room)
    BY <1>3, <2>2, <2>3, SpawnOrFull, Zenon
  <2>4. CASE ~ShouldSpawn(enabled, session, processesBeingSpawned, room)
    <3>1. processesBeingSpawned = 0
      BY <1>3, <2>1, NoneBeingSpawned
    <3>2. GetProcessCount(enabled) \in Nat /\ MaxProcesses \in Nat
      BY CountIsNat, GroupAssumption
    <3>3. GetProcessCount(enabled) + 0 = GetProcessCount(enabled)
      BY <3>2
    <3>4. ~UpperLimitsReached(enabled, 0)
      BY <2>2, <3>2, <3>3 DEF UpperLimitsReached, CapacityUsed, Below
    <3>5. PoolAtFullCapacity(enabled, 0, room)
      BY <1>3, <2>4, <3>1, <3>4, Zenon DEF ShouldSpawn, AllowSpawn
    <3> QED BY <3>3, <3>5 DEF PoolAtFullCapacity, CapacityUsed, Full
  <2> QED BY <1>3, <2>3, <2>4, Zenon
<1>4. CASE room' = room + 1
  <2>1. ~(room' <= room)
    BY <1>4, SMTT(30) DEF ProcessTypes, LifeTypes
  <2> QED BY <2>1, Zenon DEF ProspectsStep
<1> QED BY <1>2, <1>3, <1>4, Zenon DEF FinalizeRestart

\* Without sticky sessions no process of the group is idle while a request waits.
LEMMA NoneIdle ==
  ASSUME StickyRequests = {}, ProcessTypes, QueueInv, RouteInv, getWaitlist # {}
  PROVE  Idle(enabled, session) = {}
<1> SUFFICES ASSUME NEW p \in Enabled(enabled), Sessions(p, session) = {}
             PROVE  FALSE
  BY Zenon DEF Idle
<1>1. PICK r \in getWaitlist : TRUE
  BY Zenon
<1>2. sticky[r] = NoProcess
  BY Zenon DEF QueueInv, ProcessTypes, WaitTypes
<1>3. IsTotallyBusy(p, session)
  BY <1>2, Zenon DEF RouteInv, NotRoutable
<1>4. Busyness(p, session) = 0
  BY FS_EmptySet, Zenon DEF Busyness
<1>5. Concurrency \in Nat /\ Concurrency > 0 /\ 0 >= Concurrency
  BY <1>3, <1>4, GroupAssumption, Zenon DEF IsTotallyBusy
<1> QED BY <1>5, SMTT(30)

\* Every step leaves those who wait a prospect.
LEMMA EveryStepKeepsProspects ==
  ASSUME StickyRequests = {}, SpawnInv, SpawnInv', ProcessTypes, ProcessTypes', LimitInv,
         LimitInv', QueueInv, RouteInv, [Next]_vars
  PROVE  ProspectsStep
<1>1. ASSUME UNCHANGED <<enabled, restarting, spawning, getWaitlist>>,
             lifeStatus' = "ALIVE" => IsAlive
      PROVE  ProspectsStep
  BY <1>1, NothingLost, Zenon
<1>2. ASSUME lifeStatus' # "ALIVE" \/ getWaitlist' = {} \/ Enabled(enabled') # {} \/ restarting'
      PROVE  ProspectsStep
  BY <1>2, ShowProspects, Zenon
<1>3. CASE \/ UNCHANGED vars \/ RoomChanges
           \/ \E r \in Request : RequestOOBW(r)
           \/ \E e \in 0..MaxRestarts : AbortSpawn(e)
           \/ \E p \in Process : StartOobw(p)
           \/ \E exited \in SUBSET Detached : CheckDetachedProcesses(exited)
  BY <1>1, <1>3, Zenon
  DEF vars, waitVars, spawnVars, restartVars, RoomChanges, RequestOOBW, AbortSpawn, StartOobw,
      CheckDetachedProcesses, IsAlive
<1>4. ASSUME NEW r \in Request, NEW s \in Process \cup {NoProcess},
             NEW needsRestart \in BOOLEAN, NEW freed \in BOOLEAN,
             Get(r, s, needsRestart, freed)
      PROVE  ProspectsStep
  BY <1>4, GetProspects
<1>5. ASSUME NEW r \in Request, NEW needed \in BOOLEAN, OnSessionClose(r, needed)
      PROVE  ProspectsStep
  BY <1>5, OnSessionCloseProspects
<1>6. ASSUME NEW p \in Process, NEW otherWaits \in BOOLEAN, AttachSpawned(p, otherWaits)
      PROVE  ProspectsStep
  <2>1. p \in Enabled(enabled')
    BY <1>6 DEF AttachSpawned, Enabled, Status
  <2> QED BY <1>2, <2>1, SMTT(30)
<1>7. ASSUME NEW otherWaits \in BOOLEAN, RejectSpawned(otherWaits)
      PROVE  ProspectsStep
  BY <1>7, RejectSpawnedProspects
<1>8. CASE SpawnFailed \/ Shutdown \/ RestartGroup
  <2>1. getWaitlist' = {} \/ restarting'
    BY <1>8, Zenon
    DEF SpawnFailed, Shutdown, AssignExceptionToGetWaiters, RemoveWaiters, RestartGroup, Restart
  <2> QED BY <1>2, <2>1
<1>9. ASSUME NEW e \in 1..MaxRestarts, NEW freed \in BOOLEAN, FinalizeRestart(e, freed)
      PROVE  ProspectsStep
  BY <1>9, FinalizeRestartProspects, SMTT(30)
<1>10. ASSUME NEW p \in Process, NEW w, Disable(p, w, enabled, session, disableWaitlist),
              UNCHANGED <<lifeStatus, waitVars, restartVars, room>>
      PROVE  ProspectsStep
  BY <1>10, DisableProspects, SMTT(30) DEF ProcessTypes, ListTypes, waitVars, restartVars
<1>11. ASSUME NEW p \in Process, NEW result \in DisableResults,
              LockAndMaybeInitiateOobw(p, result)
      PROVE  ProspectsStep
  <2>1. UNCHANGED <<lifeStatus, waitVars, restartVars, room>>
    BY <1>11, Zenon DEF LockAndMaybeInitiateOobw
  <2>2. CASE UNCHANGED <<enabled, spawnVars>>
    BY <1>1, <2>1, <2>2 DEF waitVars, restartVars, spawnVars, IsAlive
  <2>3. CASE Disable(p, "oobw", enabled, session, disableWaitlist)
    BY <1>10, <2>1, <2>3, Zenon
  <2> QED BY <1>11, <2>2, <2>3, SMTT(30) DEF LockAndMaybeInitiateOobw, InitiateOobw
<1>12. ASSUME NEW p \in Process, FinishOobw(p)
      PROVE  ProspectsStep
  BY <1>12, FinishOobwProspects, Zenon
<1>13. ASSUME NEW a \in Admin, NEW p \in Process, DisableProcess(a, p)
      PROVE  ProspectsStep
  BY <1>10, <1>13, Zenon DEF DisableProcess
<1>14. ASSUME NEW p, DetachProcessUnlocked(p, session),
              UNCHANGED <<lifeStatus, waitVars, restartVars>>
      PROVE  ProspectsStep
  BY <1>14, DetachProspects, Zenon DEF waitVars, restartVars
<1>15. CASE \/ \E r \in Request : OnSessionInitiateFailure(r)
            \/ \E p \in Process : DetachProcess(p)
  BY <1>14, <1>15, Zenon DEF OnSessionInitiateFailure, DetachProcess
<1>16. CASE \/ \E p \in Process : ForceFreeCapacity(p)
            \/ \E S \in SUBSET Process : GarbageCollect(S)
  <2>1. Idle(enabled, session) # {} /\ UNCHANGED getWaitlist
    BY <1>16, Zenon DEF ForceFreeCapacity, GarbageCollect, waitVars
  <2>2. getWaitlist' = {}
    BY <2>1, NoneIdle
  <2> QED BY <1>2, <2>2, Zenon
<1>17. CASE CapacityFreed
  <2>1. UNCHANGED <<enabled, lifeStatus, waitVars, restartVars>> /\ SpawnEffect(restarting)
    BY <1>17, PossiblySpawnMoreHasEffect DEF CapacityFreed
  <2>2. ~spawning' => ~spawning
    BY <2>1 DEF SpawnEffect, spawnVars
  <2> QED BY <2>1, <2>2, NothingLost DEF waitVars, restartVars, IsAlive
<1> QED
  BY <1>3, <1>4, <1>5, <1>6, <1>7, <1>8, <1>9, <1>11, <1>12, <1>13, <1>15, <1>16, <1>17, Zenon
  DEF Next

\* No step of the group takes away the last prospect of the requests that wait: whoever
\* detaches or disables the last enabled process, ends a spawn loop or ends a restart spawns
\* another process, unless the group has used up its share of the pool.  With sticky sessions
\* this is not so: a request that waits for a process which has left rotation does not keep
\* the garbage collector from taking the other, idle processes.
THEOREM ProspectsAreKept ==
  ASSUME StickyRequests = {}
  PROVE  Spec => KeepsProspects
<1>1. /\ SpawnInv /\ SpawnInv' /\ ProcessTypes /\ ProcessTypes' /\ LimitInv /\ LimitInv'
      /\ QueueInv /\ RouteInv /\ [Next]_vars
      => [room' <= room /\ HasProspects => HasProspects']_vars
  BY EveryStepKeepsProspects DEF ProspectsStep
<1> QED
  BY <1>1, SpawnInvHolds, ProcessTypesHold, LimitInvHolds, QueueInvHolds, RouteInvHolds, PTL
  DEF Spec, KeepsProspects

=============================================================================
