-------------------------------- MODULE Pool --------------------------------
(***************************************************************************)
(* The pool: the groups in it share Pool::max processes, and requests for  *)
(* applications that have no group wait on the pool's own list.            *)
(*                                                                         *)
(* Every critical section on Pool::syncher is one action.  A group is      *)
(* reduced to what the pool looks at: how many of its processes are idle,  *)
(* which requests have a session or wait for one, whether it spawns or     *)
(* restarts.  Module Group has the detail; here a process serves one       *)
(* request at a time and none is disabled.  Which process a sticky session *)
(* cookie names is left open: one that is idle, or one that is busy, for   *)
(* which the request then waits although others are idle.                  *)
(***************************************************************************)
EXTENDS Integers, Sequences, FiniteSets, FiniteSetsExt

CONSTANTS
  Request,       \* clients of the pool; each has at most one request in flight
  App,           \* App[r] is the group name of request r
  StickyRequests, \* the requests that come with a sticky session cookie
  Order,         \* the order in which the iterators of GroupMap visit the names
  Maxes,         \* values of Pool::max
  MinProcesses,  \* Options::minProcesses
  MaxProcesses,  \* Options::maxProcesses; 0 is unlimited
  Events         \* which of "restart", "detachProcess" and "detachGroup" happen

Name == Range(Order)

ASSUME PoolAssumption ==
  /\ IsFiniteSet(Request) /\ App \in [Request -> Name] /\ StickyRequests \subseteq Request
  /\ Order \in Seq(Name) /\ IsInjective(Order)
  /\ Maxes \subseteq Nat \ {0} /\ Maxes # {}
  /\ MinProcesses \in Nat /\ MaxProcesses \in Nat
  /\ Events \subseteq {"restart", "detachProcess", "detachGroup"}

VARIABLES
  groups,       \* Pool::groups: a function from the names in the pool to groups
  getWaitlist,  \* Pool::getWaitlist
  max,
  detached      \* sessions with a detached process: "group" while the group of the
                \* process is in the pool, "gone" after it left, "no" for the others

vars == <<groups, getWaitlist, max, detached>>

Group ==
  [idle : Nat,                        \* enabled processes without a session
   sessions : SUBSET Request,         \* requests served, each by an enabled process
   waiters : SUBSET Request,          \* Group::getWaitlist; the order is in module Group
   spawning : BOOLEAN,                \* m_spawning
   processesBeingSpawned : Nat,
   restarting : BOOLEAN]              \* m_restarting

TypeOK ==
  /\ DOMAIN groups \subseteq Name /\ \A n \in DOMAIN groups : groups[n] \in Group
  /\ getWaitlist \in Seq(Request)
  /\ max \in Maxes
  /\ detached \in [Request -> {"no", "group", "gone"}]

Init ==
  /\ groups = [n \in {} |-> {}]
  /\ getWaitlist = <<>>
  /\ max \in Maxes
  /\ detached = [r \in Request |-> "no"]

-----------------------------------------------------------------------------
(* State inspection.  gs are the groups at some point of a critical section. *)

EnabledCount(g) == g.idle + Cardinality(g.sessions)
GroupCapacityUsed(g) == EnabledCount(g) + g.processesBeingSpawned

\* Pool::capacityUsedUnlocked, which visits the groups in order: after i names, and after all.
CapacityUpTo(gs) ==
  LET used[i \in 0..Len(Order)] ==
        IF i = 0 THEN 0
        ELSE used[i - 1] + (IF Order[i] \in DOMAIN gs THEN GroupCapacityUsed(gs[Order[i]]) ELSE 0)
  IN  used
CapacityUsed(gs) == CapacityUpTo(gs)[Len(Order)]

AtFullCapacity(gs, mx) == CapacityUsed(gs) >= mx
UpperLimitsReached(g) == MaxProcesses # 0 /\ GroupCapacityUsed(g) >= MaxProcesses
LowerLimitsSatisfied(g) == GroupCapacityUsed(g) >= MinProcesses
IsWaitingForCapacity(g) ==
  /\ EnabledCount(g) = 0 /\ g.processesBeingSpawned = 0
  /\ ~g.restarting /\ g.waiters # {}
ShouldSpawn(gs, mx, n) ==
  /\ ~UpperLimitsReached(gs[n]) /\ ~AtFullCapacity(gs, mx)
  /\ \/ ~LowerLimitsSatisfied(gs[n])
     \/ gs[n].idle = 0 /\ gs[n].sessions # {}
     \/ gs[n].waiters # {}

\* Group::findOtherGroupWaitingForCapacity, for a group of that name or for one that
\* left the pool.
OtherGroupWaits(gs, self) ==
  /\ Cardinality(DOMAIN gs) # 1
  /\ \E n \in DOMAIN gs \ {self} : IsWaitingForCapacity(gs[n])

-----------------------------------------------------------------------------
(* What a critical section does to the groups, one function of the code at  *)
(* a time.  Where the code picks a process by its age the result is the set *)
(* of what it can be.                                                       *)

NewGroup == [idle |-> 0, sessions |-> {}, waiters |-> {}, spawning |-> FALSE,
             processesBeingSpawned |-> 0, restarting |-> FALSE]

\* Pool::createGroup.
CreateGroup(gs, n) == [m \in DOMAIN gs \cup {n} |-> IF m = n THEN NewGroup ELSE gs[m]]

\* Mutant: Pool::max is not looked at.
CanSpawn_NoMax(gs, mx, n) ==
  ~gs[n].spawning /\ ~gs[n].restarting /\ ~UpperLimitsReached(gs[n])
CanSpawn(gs, mx, n) ==
  /\ ~gs[n].spawning /\ ~gs[n].restarting
  /\ ~UpperLimitsReached(gs[n]) /\ ~AtFullCapacity(gs, mx)

\* Group::spawn.
Spawn(gs, mx, n) ==
  IF CanSpawn(gs, mx, n)
  THEN [gs EXCEPT ![n].spawning = TRUE, ![n].processesBeingSpawned = @ + 1]
  ELSE gs

\* Pool::forceFreeCapacity: the groups without their oldest idle process.
ForceFreeCapacity(gs, exclude) ==
  {[gs EXCEPT ![n].idle = @ - 1] : n \in {m \in DOMAIN gs \ exclude : gs[m].idle > 0}}

\* The part of Group::get that spawns.
SpawnForGet(gs, mx, n) ==
  LET tries == EnabledCount(gs[n]) = 0 \/ ShouldSpawn(gs, mx, n)
      freed == ForceFreeCapacity(gs, {n})
      frees == /\ EnabledCount(gs[n]) = 0 /\ freed # {}
               /\ ~gs[n].spawning /\ ~UpperLimitsReached(gs[n]) /\ AtFullCapacity(gs, mx)
  IN  IF gs[n].restarting \/ ~tries THEN {gs}
      ELSE IF frees THEN {Spawn(f, mx, n) : f \in freed}
      ELSE {Spawn(gs, mx, n)}

\* Group::route: the requests that are not given an idle process of group g, as their
\* cookie may name one that serves another request.
MayWaitForBusy(g) == IF g.sessions = {} THEN {} ELSE StickyRequests

\* The part of Group::get that opens a session or queues the request.
SessionForGet(gs, n, r) ==
  LET served == [gs EXCEPT ![n].idle = @ - 1, ![n].sessions = @ \cup {r}]
      queued == [gs EXCEPT ![n].waiters = @ \cup {r}]
  IN  (IF gs[n].idle > 0 THEN {served} ELSE {})
      \cup (IF gs[n].idle = 0 \/ r \in MayWaitForBusy(gs[n]) THEN {queued} ELSE {})

\* Group::get, when the group need not be restarted.
Get(gs, mx, n, r) == UNION {SessionForGet(f, n, r) : f \in SpawnForGet(gs, mx, n)}

\* One turn of a loop of Pool::possiblySpawnMoreProcessesForExistingGroups: it spawns for
\* group n if the group waits for capacity (first loop) or should have more (second loop).
SpawnTurn(gs, mx, n, first) ==
  IF n \in DOMAIN gs /\ IF first THEN IsWaitingForCapacity(gs[n]) ELSE ShouldSpawn(gs, mx, n)
  THEN Spawn(gs, mx, n) ELSE gs

\* The groups after i turns of the loop.
SpawnTurns(gs, mx, first) ==
  LET after[i \in 0..Len(Order)] ==
        IF i = 0 THEN gs ELSE SpawnTurn(after[i - 1], mx, Order[i], first)
  IN  after

\* Pool::possiblySpawnMoreProcessesForExistingGroups.  The loops end early when the pool
\* is full, and then Group::spawn would do nothing anyway.
PossiblySpawnMore(gs, mx) ==
  SpawnTurns(SpawnTurns(gs, mx, TRUE)[Len(Order)], mx, FALSE)[Len(Order)]

\* Mutant: the request goes back to the front of the list.
ServeWaiter_Prepends(st, mx, r) ==
  LET n == App[r]
      with(gs) == {[st EXCEPT !.groups = f] : f \in Get(gs, mx, n, r)}
  IN  IF n \in DOMAIN st.groups THEN with(st.groups)
      ELSE IF ~AtFullCapacity(st.groups, mx) THEN with(CreateGroup(st.groups, n))
      ELSE {[st EXCEPT !.waitlist = <<r>> \o @]}

\* One iteration of Pool::assignSessionsToGetWaiters.
ServeWaiter(st, mx, r) ==
  LET n == App[r]
      with(gs) == {[st EXCEPT !.groups = f] : f \in Get(gs, mx, n, r)}
  IN  IF n \in DOMAIN st.groups THEN with(st.groups)
      ELSE IF ~AtFullCapacity(st.groups, mx) THEN with(CreateGroup(st.groups, n))
      ELSE {[st EXCEPT !.waitlist = Append(@, r)]}

\* The groups and the new wait list, in all ways they can be, when the first i requests
\* of the old list were looked at.
ServeWaiters(gs, mx, waitlist) ==
  LET states[i \in 0..Len(getWaitlist)] ==
        IF i = 0 THEN {[groups |-> gs, waitlist |-> waitlist]}
        ELSE UNION {ServeWaiter(st, mx, getWaitlist[i]) : st \in states[i - 1]}
  IN  states

\* Mutant: the requests that were served stay on the list.
AssignSessionsToGetWaiters_Keeps(gs, mx) ==
  ServeWaiters(gs, mx, getWaitlist)[Len(getWaitlist)]

\* Pool::assignSessionsToGetWaiters: the groups and the pool's wait list after it.
AssignSessionsToGetWaiters(gs, mx) ==
  ServeWaiters(gs, mx, <<>>)[Len(getWaitlist)]

\* Mutant: the waiters are not looked at.
AssignSessionsInGroup_None(gs, n) == {gs}

\* The group when its waiters W were given idle processes.
Assigned(g, W) ==
  [g EXCEPT !.idle = @ - Cardinality(W), !.sessions = @ \cup W, !.waiters = @ \ W]

\* Group::assignSessionsToGetWaiters: a waiter is passed over when no process is idle, or
\* none but those that its cookie does not name.
AssignSessionsInGroup(gs, n) ==
  {[gs EXCEPT ![n] = Assigned(@, W)] :
     W \in {S \in SUBSET gs[n].waiters :
              LET g == Assigned(gs[n], S)
              IN  g.idle >= 0 /\ (g.idle > 0 => g.waiters \subseteq MayWaitForBusy(g))}}

-----------------------------------------------------------------------------
(* Actions.                                                                 *)

Free(r) ==
  /\ \A n \in DOMAIN groups : r \notin groups[n].sessions \cup groups[n].waiters
  /\ r \notin Range(getWaitlist)
  /\ detached[r] = "no"

\* Mutant: m_spawning and processesBeingSpawned are not reset.
Restarted_KeepsSpawning(g) == [g EXCEPT !.idle = 0, !.sessions = {}, !.restarting = TRUE]

\* Group::restart: all processes are detached and the spawn loop is abandoned.
Restarted(g) == [NewGroup EXCEPT !.waiters = g.waiters, !.restarting = TRUE]

\* What becomes of the sessions of a group whose processes are all detached.
Detach(S, kind) == [r \in Request |-> IF r \in S THEN kind ELSE detached[r]]

\* Pool::asyncGet for an application that has a group in the pool.
GetFromGroup(r) ==
  LET n == App[r] IN
  /\ Free(r) /\ n \in DOMAIN groups
  /\ groups' \in Get(groups, max, n, r)
  /\ UNCHANGED <<getWaitlist, max, detached>>

\* The same, when the restart file of the application was touched.
GetRestarts(r) ==
  LET n == App[r] IN
  /\ "restart" \in Events
  /\ Free(r) /\ n \in DOMAIN groups /\ ~groups[n].restarting
  /\ groups' \in SessionForGet([groups EXCEPT ![n] = Restarted(@)], n, r)
  /\ detached' = Detach(groups[n].sessions, "group")
  /\ UNCHANGED <<getWaitlist, max>>

\* Pool::asyncGet for an application that has no group.
GetCreates(r) ==
  LET n == App[r] IN
  /\ Free(r) /\ n \notin DOMAIN groups
  /\ \/ /\ ~AtFullCapacity(groups, max)
        /\ groups' \in Get(CreateGroup(groups, n), max, n, r)
        /\ UNCHANGED getWaitlist
     \/ /\ AtFullCapacity(groups, max) /\ ForceFreeCapacity(groups, {}) = {}
        /\ getWaitlist' = Append(getWaitlist, r)
        /\ UNCHANGED groups
     \/ /\ AtFullCapacity(groups, max)
        /\ \E f \in ForceFreeCapacity(groups, {}) :
             groups' \in Get(CreateGroup(f, n), max, n, r)
        /\ UNCHANGED getWaitlist
  /\ UNCHANGED <<max, detached>>

\* Pool::detachProcessUnlocked, once the process is off its list.
AfterDetach(gs) ==
  \E st \in AssignSessionsToGetWaiters(gs, max) :
    /\ groups' = PossiblySpawnMore(st.groups, max)
    /\ getWaitlist' = st.waitlist

CapacityNeeded(gs, self) == getWaitlist # <<>> \/ OtherGroupWaits(gs, self)

\* Group::onSessionClose for an enabled process.  maxed: the process has handled
\* Options::maxRequests requests.
CloseSession(n, r, maxed) ==
  LET closed == [groups EXCEPT ![n].sessions = @ \ {r}]
      detaches == maxed \/ (groups[n].waiters = {} /\ CapacityNeeded(closed, n))
  IN
  /\ n \in DOMAIN groups /\ r \in groups[n].sessions
  /\ \/ /\ detaches
        /\ AfterDetach(closed)
     \/ /\ ~detaches
        /\ groups' \in AssignSessionsInGroup([closed EXCEPT ![n].idle = @ + 1], n)
        /\ UNCHANGED getWaitlist
  /\ UNCHANGED <<max, detached>>

\* Group::onSessionClose for a detached process.
CloseDetachedSession(r, maxed) ==
  LET inPool == detached[r] = "group"
      n == App[r]
      waiting == inPool /\ groups[n].waiters # {}
      needed == maxed \/ (~waiting /\ CapacityNeeded(groups, IF inPool THEN n ELSE "none"))
  IN
  /\ detached[r] # "no"
  /\ detached' = [detached EXCEPT ![r] = "no"]
  /\ \/ needed /\ AfterDetach(groups)
     \/ ~needed /\ UNCHANGED <<groups, getWaitlist>>
  /\ UNCHANGED max

\* The end of an iteration of the spawn loop of group n.
EndIteration(gs, n) ==
  LET done == \/ LowerLimitsSatisfied(gs[n]) /\ gs[n].waiters = {}
              \/ UpperLimitsReached(gs[n])
              \/ AtFullCapacity(gs, max)
  IN  [gs EXCEPT ![n].spawning = ~done,
                 ![n].processesBeingSpawned = IF done THEN @ ELSE @ + 1]

\* Mutant: processesBeingSpawned is decremented twice.
Arrived_Twice(n) == [groups EXCEPT ![n].processesBeingSpawned = @ - 2]

\* The groups when the spawn loop of n has decremented processesBeingSpawned.
Arrived(n) == [groups EXCEPT ![n].processesBeingSpawned = @ - 1]

CanAttach(gs, n) ==
  /\ ~UpperLimitsReached(gs[n]) /\ ~AtFullCapacity(gs, max)
  /\ IsWaitingForCapacity(gs[n]) \/ ~OtherGroupWaits(gs, n)

\* The spawn loop attaches the process it spawned.
AttachSpawned(n) ==
  LET attached == [Arrived(n) EXCEPT ![n].idle = @ + 1] IN
  /\ n \in DOMAIN groups /\ groups[n].spawning
  /\ CanAttach(Arrived(n), n)
  /\ \/ /\ groups[n].waiters = {}
        /\ \E st \in AssignSessionsToGetWaiters(attached, max) :
             groups' = EndIteration(st.groups, n) /\ getWaitlist' = st.waitlist
     \/ /\ groups[n].waiters # {}
        /\ \E gs \in AssignSessionsInGroup(attached, n) : groups' = EndIteration(gs, n)
        /\ UNCHANGED getWaitlist
  /\ UNCHANGED <<max, detached>>

\* The spawn loop drops the process it spawned.
RejectSpawned(n) ==
  LET gs == Arrived(n)
      lacking == UpperLimitsReached(gs[n]) \/ AtFullCapacity(gs, max)
      after == IF lacking THEN gs ELSE PossiblySpawnMore(gs, max)
  IN
  /\ n \in DOMAIN groups /\ groups[n].spawning
  /\ ~CanAttach(gs, n)
  /\ groups' = [after EXCEPT ![n].spawning = FALSE]
  /\ UNCHANGED <<getWaitlist, max, detached>>

\* The spawn loop failed: the waiters of the group get an exception.
SpawnFailed(n) ==
  /\ n \in DOMAIN groups /\ groups[n].spawning
  /\ \E st \in AssignSessionsToGetWaiters([Arrived(n) EXCEPT ![n].waiters = {}], max) :
       /\ groups' = [st.groups EXCEPT ![n].spawning = FALSE]
       /\ getWaitlist' = st.waitlist
  /\ UNCHANGED <<max, detached>>

\* Pool::restartGroupByName.
RestartGroupByName(n) ==
  /\ "restart" \in Events
  /\ n \in DOMAIN groups /\ ~groups[n].restarting
  /\ groups' = [groups EXCEPT ![n] = Restarted(@)]
  /\ detached' = Detach(groups[n].sessions, "group")
  /\ UNCHANGED <<getWaitlist, max>>

\* Group::finalizeRestart.
FinalizeRestart(n) ==
  LET gs == [groups EXCEPT ![n].restarting = FALSE]
      freed == ForceFreeCapacity(gs, {n})
  IN
  /\ n \in DOMAIN groups /\ groups[n].restarting
  /\ groups' \in
       IF ShouldSpawn(gs, max, n) THEN {Spawn(gs, max, n)}
       ELSE IF IsWaitingForCapacity(gs[n]) /\ freed # {} THEN {Spawn(f, max, n) : f \in freed}
       ELSE {gs}
  /\ UNCHANGED <<getWaitlist, max, detached>>

\* Pool::detachProcess of an idle process, or of one that serves a request; also
\* Group::onSessionInitiateFailure of the latter.
DetachIdleProcess(n) ==
  /\ "detachProcess" \in Events
  /\ n \in DOMAIN groups /\ groups[n].idle > 0
  /\ AfterDetach([groups EXCEPT ![n].idle = @ - 1])
  /\ UNCHANGED <<max, detached>>
DetachBusyProcess(n, r) ==
  /\ "detachProcess" \in Events
  /\ n \in DOMAIN groups /\ r \in groups[n].sessions
  /\ AfterDetach([groups EXCEPT ![n].sessions = @ \ {r}])
  /\ detached' = Detach({r}, "group")
  /\ UNCHANGED max

\* Pool::detachGroupByName: its waiters get an exception.
DetachGroupByName(n) ==
  /\ "detachGroup" \in Events
  /\ n \in DOMAIN groups
  /\ groups' = PossiblySpawnMore([m \in DOMAIN groups \ {n} |-> groups[m]], max)
  /\ detached' = Detach(groups[n].sessions \cup
                        {r \in Request : detached[r] = "group" /\ App[r] = n}, "gone")
  /\ UNCHANGED <<getWaitlist, max>>

\* Pool::realGarbageCollect: k[n] idle processes of each group n have been idle for too
\* long and are not needed for the lower limit.
GarbageCollect(k) ==
  /\ \E n \in DOMAIN groups : k[n] > 0
  /\ \A n \in DOMAIN groups : k[n] > 0 =>
       k[n] <= groups[n].idle /\ EnabledCount(groups[n]) - k[n] >= MinProcesses
  /\ groups' = [n \in DOMAIN groups |-> [groups[n] EXCEPT !.idle = @ - k[n]]]
  /\ UNCHANGED <<getWaitlist, max, detached>>

\* Pool::setMax.
SetMax(mx) ==
  /\ mx # max /\ max' = mx
  /\ \/ /\ mx > max
        /\ \E st \in AssignSessionsToGetWaiters(groups, mx) :
             groups' = PossiblySpawnMore(st.groups, mx) /\ getWaitlist' = st.waitlist
     \/ /\ mx < max
        /\ UNCHANGED <<groups, getWaitlist>>
  /\ UNCHANGED detached

Next ==
  \/ \E r \in Request : GetFromGroup(r) \/ GetRestarts(r) \/ GetCreates(r)
  \/ \E n \in Name, r \in Request, maxed \in BOOLEAN : CloseSession(n, r, maxed)
  \/ \E r \in Request, maxed \in BOOLEAN : CloseDetachedSession(r, maxed)
  \/ \E n \in Name : AttachSpawned(n) \/ RejectSpawned(n) \/ SpawnFailed(n)
  \/ \E n \in Name : RestartGroupByName(n) \/ FinalizeRestart(n)
  \/ \E n \in Name : DetachIdleProcess(n) \/ DetachGroupByName(n)
  \/ \E n \in Name, r \in Request : DetachBusyProcess(n, r)
  \/ \E k \in [Name -> 0..Cardinality(Request)] : GarbageCollect(k)
  \/ \E mx \in Maxes : SetMax(mx)

Spec == Init /\ [][Next]_vars

-----------------------------------------------------------------------------
(* Safety.                                                                  *)

\* The places where request r is: a wait list, a session, a detached session.
Places(r) ==
  {<<"session", n>> : n \in {m \in DOMAIN groups : r \in groups[m].sessions}}
  \cup {<<"waits", n>> : n \in {m \in DOMAIN groups : r \in groups[m].waiters}}
  \cup {<<"pool", i>> : i \in {j \in DOMAIN getWaitlist : getWaitlist[j] = r}}
  \cup (IF detached[r] = "no" THEN {} ELSE {<<"detached", detached[r]>>})

\* However requests are handed from the pool's wait list to groups, and sessions to
\* requests, a request is answered once: it is never on two lists, and never waits
\* while it has a session.
AnsweredOnce ==
  \A r \in Request : Cardinality(Places(r)) <= 1

\* A request without a sticky session cookie never waits in a group that has an idle
\* process, at the end of any critical section and whatever it has freed, detached,
\* spawned or taken from the pool's list.  It is what remains of the assertion of
\* Pool::forceFreeCapacity that the group whose idle process it takes has no waiters:
\* route() queues a request whose cookie names a busy process while others are idle.
OnlyStickyMeetIdle ==
  \A n \in DOMAIN groups : groups[n].idle > 0 => groups[n].waiters \subseteq StickyRequests

\* The assertions of spawnThreadRealMain, seen from the pool: while the lock is free,
\* a group that is spawning counts exactly one process, a restarting group none.
SpawnCountsOne ==
  \A n \in DOMAIN groups :
    /\ groups[n].processesBeingSpawned = (IF groups[n].spawning THEN 1 ELSE 0)
    /\ groups[n].restarting => groups[n].idle = 0 /\ ~groups[n].spawning /\ groups[n].sessions = {}

\* No step takes the pool beyond Pool::max: processes are only added when there is room
\* for them.  (Pool::setMax may leave more than the new maximum.)
GrowsWithinMax ==
  [][CapacityUsed(groups') > CapacityUsed(groups) => CapacityUsed(groups') <= max']_vars

\* Requests of the pool's wait list keep their order, however often the list is rebuilt.
WaitlistKeepsOrder ==
  [][\A i, j \in DOMAIN getWaitlist, k, l \in DOMAIN getWaitlist' :
       (/\ getWaitlist'[k] = getWaitlist[i] /\ getWaitlist'[l] = getWaitlist[j]
        /\ i < j) => k < l]_vars

-----------------------------------------------------------------------------
(* What comments of the code say that it does not keep.                     *)

\* Invariant 2 of Group::getWaitlist, in a pool of several groups: when requests wait
\* in a group it has enabled processes, or is spawning or restarting, or the pool is full.
WaitersHaveProspects ==
  \A n \in DOMAIN groups : groups[n].waiters # {} =>
    \/ EnabledCount(groups[n]) > 0 \/ groups[n].spawning \/ groups[n].restarting
    \/ AtFullCapacity(groups, max)

=============================================================================
