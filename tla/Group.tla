------------------------------- MODULE Group -------------------------------
(***************************************************************************)
(* One application group of the pool: its processes, the requests waiting  *)
(* for a session, the disable commands waiting for a process to become     *)
(* idle, and the threads that work for the group (spawn loops, restarters, *)
(* out-of-band work, the detached processes checker).                      *)
(*                                                                         *)
(* Every critical section on Pool::syncher is one action.  A callback that *)
(* takes the lock again after it was released is an action of its own.     *)
(* The rest of the pool is an environment: room is the share of Pool::max  *)
(* that the other groups leave to this one.                                *)
(***************************************************************************)
EXTENDS Integers, FiniteSets

CONSTANTS
  Process,       \* identities of process objects; reused once nothing refers to them
  Request,       \* clients of the pool; each has at most one request in flight
  Admin,         \* callers of Pool::disableProcess
  NoProcess,     \* no process, or no sticky session cookie
  Concurrency,   \* Process::concurrency; 0 is unlimited
  MinProcesses,  \* Options::minProcesses
  MaxProcesses,  \* Options::maxProcesses; 0 is unlimited
  MaxRequests,   \* Options::maxRequests; 0 is unlimited
  MaxQueue,      \* Options::maxRequestQueueSize; 0 is unlimited
  MaxOobw,       \* Options::maxOutOfBandWorkInstances
  OobwRequests,  \* requests whose response asks for out-of-band work
  StickyRequests,\* requests that carry a sticky session cookie
  Rooms,         \* shares of the pool that the other groups may leave to this one
  MaxRestarts    \* bound on restartsInitiated

ASSUME GroupAssumption ==
  /\ NoProcess \notin Process
  /\ "oobw" \notin Admin
  /\ IsFiniteSet(Process) /\ IsFiniteSet(Request)
  /\ {Concurrency, MinProcesses, MaxProcesses, MaxRequests, MaxQueue, MaxOobw,
      MaxRestarts} \subseteq Nat
  /\ OobwRequests \subseteq Request /\ StickyRequests \subseteq Request
  /\ Rooms \subseteq Nat

VARIABLES
  lifeStatus,            \* Group::lifeStatus
  enabled,               \* Process::enabled; names the list that holds the process
  life,                  \* Process::lifeStatus; "DEAD" is also a process that does not exist
  oobwStatus,            \* Process::oobwStatus
  processed,             \* Process::processed, up to MaxRequests
  session,               \* the process a request has a session with
  sticky,                \* the process that the cookie of a waiting request names
  getWaitlist,           \* the requests waiting for a session
  ahead,                 \* order of getWaitlist: <<r, s>> when r was pushed before s
  disableWaitlist,       \* <<process, waiter>>; the waiter is an admin or "oobw"
  callbacks,             \* <<process, result>>: lockAndMaybeInitiateOobw calls still to run
  oobwThreads,           \* <<process, stage>>: spawnThreadOOBWRequest threads
  spawning,              \* m_spawning
  processesBeingSpawned,
  spawnThreads,          \* how many spawn loops were started at each restartsInitiated
  restarting,            \* m_restarting
  restartsInitiated,
  restartThreads,        \* the restartsInitiated of every finalizeRestart thread
  checkerActive,         \* detachedProcessesCheckerActive
  room

spawnVars == <<spawning, processesBeingSpawned, spawnThreads>>
restartVars == <<restarting, restartsInitiated, restartThreads>>
oobwVars == <<oobwStatus, oobwThreads>>
waitVars == <<getWaitlist, ahead, sticky>>
vars == <<lifeStatus, enabled, life, processed, session, waitVars, disableWaitlist,
          callbacks, oobwVars, spawnVars, restartVars, checkerActive, room>>

EnabledStatus == {"ENABLED", "DISABLING", "DISABLED", "DETACHED"}
ProcessLife == {"ALIVE", "SHUTDOWN_TRIGGERED", "DEAD"}
OobwStatus == {"NOT_ACTIVE", "REQUESTED", "IN_PROGRESS"}
DisableResults == {"SUCCESS", "NOOP", "ERROR"}

TypeOK ==
  /\ lifeStatus \in {"ALIVE", "SHUTTING_DOWN", "SHUT_DOWN"}
  /\ enabled \in [Process -> EnabledStatus]
  /\ life \in [Process -> ProcessLife]
  /\ oobwStatus \in [Process -> OobwStatus]
  /\ processed \in [Process -> 0..MaxRequests]
  /\ session \in [Request -> Process \cup {NoProcess}]
  /\ sticky \in [Request -> Process \cup {NoProcess}]
  /\ getWaitlist \subseteq Request
  /\ ahead \subseteq getWaitlist \X getWaitlist
  /\ disableWaitlist \subseteq Process \X (Admin \cup {"oobw"})
  /\ callbacks \subseteq Process \X DisableResults
  /\ oobwThreads \subseteq Process \X {"starting", "working"}
  /\ spawning \in BOOLEAN /\ restarting \in BOOLEAN /\ checkerActive \in BOOLEAN
  /\ processesBeingSpawned \in Nat
  /\ restartsInitiated \in 0..MaxRestarts
  /\ spawnThreads \in [0..MaxRestarts -> Nat]
  /\ restartThreads \subseteq 1..MaxRestarts
  /\ room \in Nat

Init ==
  /\ lifeStatus = "ALIVE"
  /\ enabled = [p \in Process |-> "DETACHED"]
  /\ life = [p \in Process |-> "DEAD"]
  /\ oobwStatus = [p \in Process |-> "NOT_ACTIVE"]
  /\ processed = [p \in Process |-> 0]
  /\ session = [r \in Request |-> NoProcess]
  /\ sticky = [r \in Request |-> NoProcess]
  /\ getWaitlist = {} /\ ahead = {}
  /\ disableWaitlist = {} /\ callbacks = {} /\ oobwThreads = {}
  /\ spawning = FALSE /\ processesBeingSpawned = 0
  /\ spawnThreads = [e \in 0..MaxRestarts |-> 0]
  /\ restarting = FALSE /\ restartsInitiated = 0 /\ restartThreads = {}
  /\ checkerActive = FALSE
  /\ room \in Rooms

-----------------------------------------------------------------------------
(* State inspection (Group/StateInspection.cpp, Process.h).  The functions  *)
(* take the lists (en), the sessions (ses), processesBeingSpawned (n) and   *)
(* the room (rm) they look at, because one critical section consults them   *)
(* several times while it changes the state.                                *)

Status(en, s) == {p \in Process : en[p] = s}
Enabled(en) == Status(en, "ENABLED")
Disabling(en) == Status(en, "DISABLING")
Detached == {p \in Process : enabled[p] = "DETACHED" /\ life[p] # "DEAD"}

Sessions(p, ses) == {r \in Request : ses[r] = p}
Busyness(p, ses) == Cardinality(Sessions(p, ses))
IsTotallyBusy(p, ses) == Concurrency > 0 /\ Busyness(p, ses) >= Concurrency
Idle(en, ses) == {p \in Enabled(en) : Sessions(p, ses) = {}}

GetProcessCount(en) == Cardinality({p \in Process : en[p] # "DETACHED"})
CapacityUsed(en, n) == GetProcessCount(en) + n
LowerLimitsSatisfied(en, n) == CapacityUsed(en, n) >= MinProcesses
\* Mutant: off by one.
UpperLimitsReached_OneMore(en, n) == MaxProcesses # 0 /\ CapacityUsed(en, n) > MaxProcesses
UpperLimitsReached(en, n) == MaxProcesses # 0 /\ CapacityUsed(en, n) >= MaxProcesses
PoolAtFullCapacity(en, n, rm) == CapacityUsed(en, n) >= rm
AllEnabledAreTotallyBusy(en, ses) ==
  Enabled(en) # {} /\ \A p \in Enabled(en) : IsTotallyBusy(p, ses)

IsAlive == lifeStatus = "ALIVE"
AllowSpawn(en, n, rm) ==
  IsAlive /\ ~UpperLimitsReached(en, n) /\ ~PoolAtFullCapacity(en, n, rm)
ShouldSpawn(en, ses, n, rm) ==
  /\ AllowSpawn(en, n, rm)
  /\ \/ ~LowerLimitsSatisfied(en, n)
     \/ AllEnabledAreTotallyBusy(en, ses)
     \/ getWaitlist # {}
IsWaitingForCapacity(en, n, rst) ==
  Enabled(en) = {} /\ n = 0 /\ ~rst /\ getWaitlist # {}

-----------------------------------------------------------------------------
(* Routing (Group/SessionManagement.cpp, Group/ProcessListManagement.cpp,   *)
(* Group/InternalUtils.cpp).                                                *)

LeastBusy(S, ses) ==
  {p \in S : \A q \in S : Busyness(p, ses) <= Busyness(q, ses)}

\* The processes route() may pick for a request whose cookie names s.  Which of
\* several least busy processes it picks depends on the order of the list, which
\* is not modelled.
Route(s, en, ses) ==
  LET candidates ==
        IF Enabled(en) = {} THEN LeastBusy(Disabling(en), ses)
        ELSE IF s \in Enabled(en) THEN {s}
        ELSE LeastBusy(Enabled(en), ses)
  IN  {p \in candidates : ~IsTotallyBusy(p, ses)}

\* The sessions after the waiters in W were given the processes that f names.
Assigned(f, W, ses) ==
  [r \in Request |-> IF r \in W /\ f[r] # NoProcess THEN f[r] ELSE ses[r]]

\* Mutant: the list is served from its back.
IsAssignment_LastFirst(f, en, ses) ==
  \A r \in getWaitlist :
    LET before == {x \in getWaitlist : <<r, x>> \in ahead}
        targets == Route(sticky[r], en, Assigned(f, before, ses))
    IN  IF targets = {} THEN f[r] = NoProcess ELSE f[r] \in targets

\* f is a run of the loop of assignSessionsToGetWaiters: every waiter, in the order
\* of the list, is routed given the sessions handed out to the waiters ahead of it.
\* The loop's early exit (RouteResult::finished) only skips waiters that cannot be
\* routed either.
IsAssignment(f, en, ses) ==
  \A r \in getWaitlist :
    LET before == {x \in getWaitlist : <<x, r>> \in ahead}
        targets == Route(sticky[r], en, Assigned(f, before, ses))
    IN  IF targets = {} THEN f[r] = NoProcess ELSE f[r] \in targets

RemoveWaiters(W) ==
  /\ getWaitlist' = getWaitlist \ W
  /\ ahead' = {w \in ahead : w[1] \notin W /\ w[2] \notin W}
  /\ sticky' = [r \in Request |-> IF r \in W THEN NoProcess ELSE sticky[r]]

\* Mutant: the waiters are not looked at.
AssignSessionsToGetWaiters_None(en, ses) == session' = ses /\ UNCHANGED waitVars
AssignSessionsToGetWaiters(en, ses) ==
  \E f \in [getWaitlist -> Enabled(en) \cup Disabling(en) \cup {NoProcess}] :
    /\ IsAssignment(f, en, ses)
    /\ session' = Assigned(f, getWaitlist, ses)
    /\ RemoveWaiters({r \in getWaitlist : f[r] # NoProcess})

\* Mutant: the waiters are left on the list.
AssignExceptionToGetWaiters_None == UNCHANGED waitVars
AssignExceptionToGetWaiters == RemoveWaiters(getWaitlist)

PushGetWaiter(r, s) ==
  IF MaxQueue = 0 \/ Cardinality(getWaitlist) < MaxQueue
  THEN /\ getWaitlist' = getWaitlist \cup {r}
       /\ ahead' = ahead \cup (getWaitlist \X {r})
       /\ sticky' = [sticky EXCEPT ![r] = s]
  ELSE UNCHANGED waitVars     \* RequestQueueFullException

-----------------------------------------------------------------------------
(* Spawning, detaching and disabling, the building blocks of the actions.   *)

CanSpawn(en, rst, rm) ==
  /\ ~spawning /\ ~rst
  /\ ~UpperLimitsReached(en, processesBeingSpawned)
  /\ ~PoolAtFullCapacity(en, processesBeingSpawned, rm)

\* Group::spawn.
Spawn(en, rst, rm) ==
  IF CanSpawn(en, rst, rm)
  THEN /\ spawning' = TRUE
       /\ processesBeingSpawned' = processesBeingSpawned + 1
       /\ spawnThreads' = [spawnThreads EXCEPT ![restartsInitiated] = @ + 1]
  ELSE UNCHANGED spawnVars

\* What Pool::possiblySpawnMoreProcessesForExistingGroups does to this group when
\* it finds rm left for it.
PossiblySpawnMore(en, ses, rm) ==
  IF \/ IsWaitingForCapacity(en, processesBeingSpawned, restarting)
     \/ ShouldSpawn(en, ses, processesBeingSpawned, rm)
  THEN Spawn(en, restarting, rm)
  ELSE UNCHANGED spawnVars

\* The pool serves its own waiters and other groups first: they take some of the
\* free capacity.
OtherGroupsMaySpawn(en, n) ==
  room' \in {rm \in Rooms \cup {room} : rm = room \/ (rm < room /\ CapacityUsed(en, n) <= rm)}

\* Mutant: the callbacks are lost.
OobwCallbacks_Lost(W, result) == {}
\* The out-of-band work callbacks of the waiters in W, called with a result.
OobwCallbacks(W, result) == {<<w[1], result>> : w \in {x \in W : x[2] = "oobw"}}

\* The disable commands for processes in S.
WaitersFor(S) == {w \in disableWaitlist : w[1] \in S}

\* Mutants: the disable commands for the processes are not answered; the detached
\* processes checker is not started.
Detach_LeavesWaiters(S) ==
  /\ enabled' = [p \in Process |-> IF p \in S THEN "DETACHED" ELSE enabled[p]]
  /\ checkerActive' = (checkerActive \/ \E p \in S : enabled[p] # "DETACHED")
  /\ UNCHANGED <<disableWaitlist, callbacks>>
Detach_Unwatched(S) ==
  LET waiters == WaitersFor(S \cap Disabling(enabled)) IN
  /\ enabled' = [p \in Process |-> IF p \in S THEN "DETACHED" ELSE enabled[p]]
  /\ disableWaitlist' = disableWaitlist \ waiters
  /\ callbacks' = callbacks \cup OobwCallbacks(waiters, "NOOP")
  /\ UNCHANGED checkerActive

\* Group::detach applied to the processes in S.
Detach(S) ==
  LET waiters == WaitersFor(S \cap Disabling(enabled)) IN
  /\ enabled' = [p \in Process |-> IF p \in S THEN "DETACHED" ELSE enabled[p]]
  /\ disableWaitlist' = disableWaitlist \ waiters
  /\ callbacks' = callbacks \cup OobwCallbacks(waiters, "NOOP")
  /\ checkerActive' = (checkerActive \/ \E p \in S : enabled[p] # "DETACHED")

\* Mutant: nothing is spawned in place of the process.
DetachProcessUnlocked_NoSpawn(p, ses) ==
  /\ Detach({p})
  /\ OtherGroupsMaySpawn(enabled', processesBeingSpawned)
  /\ UNCHANGED spawnVars

\* Pool::detachProcessUnlocked, given the sessions ses.
DetachProcessUnlocked(p, ses) ==
  /\ Detach({p})
  /\ OtherGroupsMaySpawn(enabled', processesBeingSpawned)
  /\ PossiblySpawnMore(enabled', ses, room')

\* Mutant: the disabled processes are forgotten.
DetachAll_NotDisabled ==
  /\ enabled' = [p \in Process |-> IF enabled[p] = "DISABLED" THEN "DISABLED" ELSE "DETACHED"]
  /\ disableWaitlist' = {}
  /\ callbacks' = callbacks \cup OobwCallbacks(disableWaitlist, "NOOP")
  /\ checkerActive' = TRUE

\* Group::detachAll.
DetachAll ==
  /\ enabled' = [p \in Process |-> "DETACHED"]
  /\ disableWaitlist' = {}
  /\ callbacks' = callbacks \cup OobwCallbacks(disableWaitlist, "NOOP")
  /\ checkerActive' = TRUE

\* The result of Group::disable.
DisableResult(p, en, ses) ==
  IF en[p] \notin {"ENABLED", "DISABLING"} THEN "NOOP"
  ELSE IF en[p] = "DISABLING" THEN "DEFERRED"
  ELSE IF Enabled(en) = {p} /\ ~AllowSpawn(en, processesBeingSpawned, room) THEN "ERROR"
  ELSE IF Enabled(en) = {p} \/ Sessions(p, ses) # {} THEN "DEFERRED"
  ELSE "SUCCESS"

\* The effects of Group::disable, called for waiter w when the lists are en and
\* the wait list is dw.
Disable(p, w, en, ses, dw) ==
  LET result == DisableResult(p, en, ses) IN
  /\ enabled' = [en EXCEPT ![p] = IF result = "DEFERRED" THEN "DISABLING"
                                  ELSE IF result = "SUCCESS" THEN "DISABLED" ELSE @]
  /\ disableWaitlist' = IF result = "DEFERRED" THEN dw \cup {<<p, w>>} ELSE dw
  /\ IF en[p] = "ENABLED" /\ Enabled(enabled') = {}
     THEN Spawn(enabled', restarting, room)
     ELSE UNCHANGED spawnVars

-----------------------------------------------------------------------------
(* Out-of-band work (Group/OutOfBandWork.cpp).                              *)

OobwInstances(en, status) ==
  {p \in Process : en[p] \in {"DISABLING", "DISABLED"} /\ status[p] = "IN_PROGRESS"}
OobwAllowed(en, status) == Cardinality(OobwInstances(en, status)) < MaxOobw
ShouldInitiateOobw(p, en, status) ==
  /\ status[p] = "REQUESTED"
  /\ en[p] # "DETACHED" /\ life[p] = "ALIVE"
  /\ OobwAllowed(en, status)

\* Mutant: no thread is started for a process that could be disabled at once.
InitiateOobw_NoThread(p, en, status, ses, dw, threads) ==
  /\ Disable(p, "oobw", en, ses, dw)
  /\ oobwStatus' = [status EXCEPT ![p] =
                      IF DisableResult(p, en, ses) = "ERROR" THEN "NOT_ACTIVE" ELSE "IN_PROGRESS"]
  /\ oobwThreads' = threads

\* Group::initiateOobw.
InitiateOobw(p, en, status, ses, dw, threads) ==
  LET result == IF en[p] = "DISABLED" THEN "SUCCESS" ELSE DisableResult(p, en, ses) IN
  /\ Disable(p, "oobw", en, ses, dw)
  /\ oobwStatus' = [status EXCEPT ![p] =
                      IF result = "ERROR" THEN "NOT_ACTIVE" ELSE "IN_PROGRESS"]
  /\ oobwThreads' = IF result = "SUCCESS" THEN threads \cup {<<p, "starting">>} ELSE threads

\* Group::maybeInitiateOobw.
MaybeInitiateOobw(p, en, ses, dw) ==
  IF ShouldInitiateOobw(p, en, oobwStatus)
  THEN InitiateOobw(p, en, oobwStatus, ses, dw, oobwThreads)
  ELSE /\ enabled' = en /\ disableWaitlist' = dw
       /\ UNCHANGED <<oobwVars, spawnVars>>

\* Group::requestOOBW, called while the response of a request is forwarded.
RequestOOBW(r) ==
  /\ r \in OobwRequests /\ session[r] # NoProcess
  /\ IsAlive /\ life[session[r]] = "ALIVE" /\ oobwStatus[session[r]] = "NOT_ACTIVE"
  /\ oobwStatus' = [oobwStatus EXCEPT ![session[r]] = "REQUESTED"]
  /\ UNCHANGED <<lifeStatus, enabled, life, processed, session, waitVars, disableWaitlist,
                 callbacks, oobwThreads, spawnVars, restartVars, checkerActive, room>>

\* Group::lockAndMaybeInitiateOobw.
LockAndMaybeInitiateOobw(p, result) ==
  LET requested == [oobwStatus EXCEPT ![p] = "REQUESTED"] IN
  /\ <<p, result>> \in callbacks
  /\ callbacks' = callbacks \ {<<p, result>>}
  /\ \/ /\ life[p] # "ALIVE" \/ ~IsAlive
        /\ UNCHANGED <<enabled, disableWaitlist, oobwVars, spawnVars>>
     \/ /\ life[p] = "ALIVE" /\ IsAlive
        /\ result = "SUCCESS" /\ enabled[p] = "DISABLED"
        /\ ShouldInitiateOobw(p, enabled, requested)
        /\ InitiateOobw(p, enabled, requested, session, disableWaitlist, oobwThreads)
     \/ /\ life[p] = "ALIVE" /\ IsAlive
        /\ ~ (/\ result = "SUCCESS" /\ enabled[p] = "DISABLED"
              /\ ShouldInitiateOobw(p, enabled, requested))
        /\ oobwStatus' = [oobwStatus EXCEPT ![p] = "NOT_ACTIVE"]
        /\ UNCHANGED <<enabled, disableWaitlist, oobwThreads, spawnVars>>
  /\ UNCHANGED <<lifeStatus, life, processed, session, waitVars, restartVars,
                 checkerActive, room>>

\* Mutant: the process goes back into rotation before the work is done.
StartOobw_Enables(p) ==
  /\ <<p, "starting">> \in oobwThreads
  /\ oobwThreads' = (oobwThreads \ {<<p, "starting">>}) \cup {<<p, "working">>}
  /\ enabled' = [enabled EXCEPT ![p] = "ENABLED"]
  /\ UNCHANGED <<lifeStatus, life, oobwStatus, processed, session, waitVars,
                 disableWaitlist, callbacks, spawnVars, restartVars, checkerActive, room>>

\* The first critical section of spawnThreadOOBWRequest.
StartOobw(p) ==
  /\ <<p, "starting">> \in oobwThreads
  /\ oobwThreads' = (oobwThreads \ {<<p, "starting">>})
       \cup (IF IsAlive /\ life[p] = "ALIVE" /\ enabled[p] = "DISABLED"
             THEN {<<p, "working">>} ELSE {})
  /\ UNCHANGED <<lifeStatus, enabled, life, oobwStatus, processed, session, waitVars,
                 disableWaitlist, callbacks, spawnVars, restartVars, checkerActive, room>>

\* Group::initiateNextOobwRequest.
InitiateNextOobwRequest(en, status, ses, threads) ==
  LET next == {q \in Enabled(en) : ShouldInitiateOobw(q, en, status)} IN
  \/ \E q \in next : InitiateOobw(q, en, status, ses, disableWaitlist, threads)
  \/ /\ next = {}
     /\ enabled' = en /\ oobwStatus' = status /\ oobwThreads' = threads
     /\ UNCHANGED <<disableWaitlist, spawnVars>>

\* The second critical section of spawnThreadOOBWRequest.
FinishOobw(p) ==
  LET threads == oobwThreads \ {<<p, "working">>}
      status == [oobwStatus EXCEPT ![p] = "NOT_ACTIVE"]
      en == [enabled EXCEPT ![p] = IF @ = "DISABLED" THEN "ENABLED" ELSE @]
  IN
  /\ <<p, "working">> \in oobwThreads
  /\ \/ /\ life[p] # "ALIVE" \/ ~IsAlive
        /\ oobwThreads' = threads
        /\ UNCHANGED <<enabled, session, waitVars, disableWaitlist, oobwStatus, spawnVars>>
     \/ /\ life[p] = "ALIVE" /\ IsAlive
        /\ IF enabled[p] = "DISABLED" THEN AssignSessionsToGetWaiters(en, session)
           ELSE UNCHANGED <<session, waitVars>>
        /\ InitiateNextOobwRequest(en, status, session', threads)
  /\ UNCHANGED <<lifeStatus, life, processed, callbacks, restartVars, checkerActive, room>>

-----------------------------------------------------------------------------
(* Sessions (Group/SessionManagement.cpp, Session.h).                       *)

\* Mutant: m_spawning is not reset.
Restart_KeepsSpawning ==
  /\ restartsInitiated < MaxRestarts
  /\ restartsInitiated' = restartsInitiated + 1
  /\ restarting' = TRUE
  /\ restartThreads' = restartThreads \cup {restartsInitiated + 1}
  /\ DetachAll
  /\ UNCHANGED spawnVars

\* Group::restart.
Restart ==
  /\ restartsInitiated < MaxRestarts
  /\ restartsInitiated' = restartsInitiated + 1
  /\ restarting' = TRUE
  /\ spawning' = FALSE /\ processesBeingSpawned' = 0
  /\ restartThreads' = restartThreads \cup {restartsInitiated + 1}
  /\ DetachAll
  /\ UNCHANGED spawnThreads

\* Group::get once the group has tried to spawn: a session, or a place in the queue.
GetSession(r, s, en, rst) ==
  LET targets == IF Enabled(en) = {} /\ rst THEN {} ELSE Route(s, en, session)
  IN \/ /\ targets # {}
        /\ session' \in {[session EXCEPT ![r] = p] : p \in targets}
        /\ UNCHANGED waitVars
     \/ /\ targets = {}
        /\ PushGetWaiter(r, s)
        /\ UNCHANGED session

\* Group::get for a request without a session whose cookie names s.  needsRestart:
\* the restart file was touched.  freed: Pool::forceFreeCapacity found an idle
\* process in another group.
Get(r, s, needsRestart, freed) ==
  LET full == PoolAtFullCapacity(enabled, processesBeingSpawned, room)
      tries == \/ Enabled(enabled) = {}
               \/ ShouldSpawn(enabled, session, processesBeingSpawned, room)
      frees == /\ freed /\ ~restarting /\ ~needsRestart
               /\ ~spawning /\ tries /\ full /\ Enabled(enabled) = {}
               /\ ~UpperLimitsReached(enabled, processesBeingSpawned)
  IN
  /\ IsAlive
  /\ session[r] = NoProcess /\ r \notin getWaitlist
  /\ s = NoProcess \/ r \in StickyRequests
  /\ freed => frees
  /\ \/ /\ ~restarting /\ needsRestart
        /\ Restart
        /\ UNCHANGED room
     \/ /\ ~restarting /\ ~needsRestart
        /\ room' = IF frees THEN room + 1 ELSE room
        /\ IF tries THEN Spawn(enabled, FALSE, room') ELSE UNCHANGED spawnVars
        /\ UNCHANGED <<enabled, disableWaitlist, callbacks, checkerActive, restartVars>>
     \/ /\ restarting
        /\ UNCHANGED <<enabled, disableWaitlist, callbacks, checkerActive, spawnVars,
                       restartVars, room>>
  /\ GetSession(r, s, enabled', restarting')
  /\ UNCHANGED <<lifeStatus, life, processed, oobwVars>>

\* Group::onSessionInitiateFailure: connecting to the process failed.
OnSessionInitiateFailure(r) ==
  /\ session[r] # NoProcess
  /\ DetachProcessUnlocked(session[r], session)
  /\ UNCHANGED <<lifeStatus, life, processed, session, waitVars, oobwVars, restartVars>>

ShouldDetach(p, count, ses, needed) ==
  \/ MaxRequests > 0 /\ count >= MaxRequests
  \/ Sessions(p, ses) = {} /\ getWaitlist = {} /\ needed
ShouldDisable(p, ses) ==
  enabled[p] = "DISABLING" /\ Sessions(p, ses) = {} /\ Enabled(enabled) # {}

\* Group::onSessionClose.  needed: the pool or another group waits for capacity.
OnSessionClose(r, needed) ==
  LET p == session[r]
      ses == [session EXCEPT ![r] = NoProcess]
      count == IF processed[p] < MaxRequests THEN processed[p] + 1 ELSE processed[p]
      shouldDetach == ShouldDetach(p, count, ses, needed)
      shouldDisable == ShouldDisable(p, ses)
  IN
  /\ p # NoProcess
  /\ needed => Sessions(p, ses) = {} /\ getWaitlist = {}
  /\ processed' = [processed EXCEPT ![p] = count]
  /\ \/ /\ shouldDetach
        /\ DetachProcessUnlocked(p, ses)
        /\ session' = ses
        /\ UNCHANGED <<waitVars, oobwVars>>
     \/ /\ ~shouldDetach /\ shouldDisable
        /\ callbacks' = callbacks \cup OobwCallbacks(WaitersFor({p}), "SUCCESS")
        /\ MaybeInitiateOobw(p, [enabled EXCEPT ![p] = "DISABLED"], ses,
                             disableWaitlist \ WaitersFor({p}))
        /\ session' = ses
        /\ UNCHANGED <<waitVars, checkerActive, room>>
     \/ /\ ~shouldDetach /\ ~shouldDisable
        /\ MaybeInitiateOobw(p, enabled, ses, disableWaitlist)
        /\ IF getWaitlist # {} /\ enabled'[p] = "ENABLED"
           THEN AssignSessionsToGetWaiters(enabled', ses)
           ELSE session' = ses /\ UNCHANGED waitVars
        /\ UNCHANGED <<callbacks, checkerActive, room>>
  /\ UNCHANGED <<lifeStatus, life, restartVars>>

-----------------------------------------------------------------------------
(* The spawn loop and the restarter (Group/SpawningAndRestarting.cpp).      *)

\* Nothing refers to the process object any more.
Unused(p) ==
  /\ life[p] = "DEAD"
  /\ \A r \in Request : session[r] # p /\ sticky[r] # p
  /\ \A x \in callbacks \cup oobwThreads \cup disableWaitlist : x[1] # p

\* Mutant: processesBeingSpawned is decremented twice.
EndIteration_Twice(done) ==
  /\ spawning' = ~done
  /\ processesBeingSpawned' = IF done THEN processesBeingSpawned - 2
                              ELSE processesBeingSpawned
  /\ spawnThreads' = IF done THEN [spawnThreads EXCEPT ![restartsInitiated] = @ - 1]
                     ELSE spawnThreads

\* The end of an iteration of the spawn loop: go on, or leave the thread.
EndIteration(done) ==
  /\ spawning' = ~done
  /\ processesBeingSpawned' = IF done THEN processesBeingSpawned - 1
                              ELSE processesBeingSpawned
  /\ spawnThreads' = IF done THEN [spawnThreads EXCEPT ![restartsInitiated] = @ - 1]
                     ELSE spawnThreads

SpawnLoopDone(en, rm, waiters) ==
  LET n == processesBeingSpawned - 1 IN
  \/ LowerLimitsSatisfied(en, n) /\ waiters = {}
  \/ UpperLimitsReached(en, n)
  \/ PoolAtFullCapacity(en, n, rm)

\* A spawn loop notices that the group was shut down (or its thread was interrupted),
\* or that a restart was initiated after the loop began.  It drops its process.
AbortSpawn(e) ==
  /\ spawnThreads[e] > 0
  /\ ~IsAlive \/ e # restartsInitiated
  /\ spawnThreads' = [spawnThreads EXCEPT ![e] = @ - 1]
  /\ UNCHANGED <<lifeStatus, enabled, life, processed, session, waitVars, disableWaitlist,
                 callbacks, oobwVars, spawning, processesBeingSpawned, restartVars,
                 checkerActive, room>>

\* Whether Group::attach accepts the process that was just spawned.
CanAttach(otherWaits) ==
  LET n == processesBeingSpawned - 1 IN
  /\ ~UpperLimitsReached(enabled, n)
  /\ ~PoolAtFullCapacity(enabled, n, room)
  /\ IsWaitingForCapacity(enabled, n, restarting) \/ ~otherWaits

\* The spawn loop attaches the new process p.  Processes on the disable wait list that
\* are idle can now be disabled.
AttachSpawned(p, otherWaits) ==
  LET idle == {q \in Process : WaitersFor({q}) # {} /\ Sessions(q, session) = {}}
  IN
  /\ IsAlive /\ spawnThreads[restartsInitiated] > 0
  /\ CanAttach(otherWaits) /\ Unused(p)
  /\ life' = [life EXCEPT ![p] = "ALIVE"]
  /\ oobwStatus' = [oobwStatus EXCEPT ![p] = "NOT_ACTIVE"]
  /\ processed' = [processed EXCEPT ![p] = 0]
  /\ enabled' = [q \in Process |-> IF q = p THEN "ENABLED"
                                   ELSE IF q \in idle THEN "DISABLED" ELSE enabled[q]]
  /\ disableWaitlist' = disableWaitlist \ WaitersFor(idle)
  /\ callbacks' = callbacks \cup OobwCallbacks(WaitersFor(idle), "SUCCESS")
  /\ \/ /\ getWaitlist = {}
        /\ OtherGroupsMaySpawn(enabled', processesBeingSpawned - 1)
        /\ UNCHANGED <<session, waitVars>>
     \/ /\ getWaitlist # {}
        /\ AssignSessionsToGetWaiters(enabled', session)
        /\ UNCHANGED room
  /\ EndIteration(SpawnLoopDone(enabled', room', getWaitlist'))
  /\ UNCHANGED <<lifeStatus, oobwThreads, restartVars, checkerActive>>

\* The spawn loop cannot attach the process it spawned and drops it.
RejectSpawned(otherWaits) ==
  /\ IsAlive /\ spawnThreads[restartsInitiated] > 0
  /\ ~CanAttach(otherWaits)
  /\ OtherGroupsMaySpawn(enabled, processesBeingSpawned - 1)
  /\ EndIteration(TRUE)
  /\ UNCHANGED <<lifeStatus, enabled, life, processed, session, waitVars, disableWaitlist,
                 callbacks, oobwVars, restartVars, checkerActive>>

\* The spawn loop failed to spawn a process.
SpawnFailed ==
  /\ IsAlive /\ spawnThreads[restartsInitiated] > 0
  /\ IF Enabled(enabled) = {}    \* enableAllDisablingProcesses
     THEN /\ enabled' = [p \in Process |->
                           IF WaitersFor({p}) # {} /\ enabled[p] = "DISABLING"
                           THEN "ENABLED" ELSE enabled[p]]
          /\ disableWaitlist' = {}
          /\ callbacks' = callbacks \cup OobwCallbacks(disableWaitlist, "ERROR")
     ELSE UNCHANGED <<enabled, disableWaitlist, callbacks>>
  /\ AssignExceptionToGetWaiters
  /\ OtherGroupsMaySpawn(enabled', processesBeingSpawned - 1)
  /\ EndIteration(TRUE)
  /\ UNCHANGED <<lifeStatus, life, processed, session, oobwVars, restartVars, checkerActive>>

\* Pool::restartGroupByName and Pool::restartGroupsByAppRoot; the former does nothing
\* while the group is restarting.
RestartGroup ==
  /\ IsAlive
  /\ Restart
  /\ UNCHANGED <<lifeStatus, life, processed, session, waitVars, oobwVars, room>>

\* Group::finalizeRestart.
FinalizeRestart(e, freed) ==
  LET n == processesBeingSpawned
      should == ShouldSpawn(enabled, session, n, room)
      waits == IsWaitingForCapacity(enabled, n, FALSE)
  IN
  /\ e \in restartThreads
  /\ restartThreads' = restartThreads \ {e}
  /\ \/ /\ ~IsAlive \/ e # restartsInitiated
        /\ UNCHANGED <<restarting, spawnVars, room>>
     \/ /\ IsAlive /\ e = restartsInitiated
        /\ restarting' = FALSE
        /\ room' = IF ~should /\ waits /\ freed THEN room + 1 ELSE room
        /\ IF should \/ (waits /\ freed) THEN Spawn(enabled, FALSE, room')
           ELSE UNCHANGED spawnVars
  /\ UNCHANGED <<lifeStatus, enabled, life, processed, session, waitVars, disableWaitlist,
                 callbacks, oobwVars, restartsInitiated, checkerActive>>

-----------------------------------------------------------------------------
(* Commands of the pool and of its background threads.                      *)

\* Pool::detachProcess; also Pool::realCollectAnalytics when the OS process is gone.
DetachProcess(p) ==
  /\ IsAlive /\ enabled[p] # "DETACHED"
  /\ DetachProcessUnlocked(p, session)
  /\ UNCHANGED <<lifeStatus, life, processed, session, waitVars, oobwVars, restartVars>>

\* Pool::disableProcess.
DisableProcess(a, p) ==
  /\ IsAlive /\ enabled[p] # "DETACHED"
  /\ \A w \in disableWaitlist : w[2] # a
  /\ Disable(p, a, enabled, session, disableWaitlist)
  /\ UNCHANGED <<lifeStatus, life, processed, session, waitVars, callbacks, oobwVars,
                 restartVars, checkerActive, room>>

\* Pool::garbageCollectProcessesInGroup detaches processes that were idle for long.
GarbageCollect(S) ==
  /\ IsAlive
  /\ S # {} /\ S \subseteq Idle(enabled, session)
  /\ GetProcessCount(enabled) - Cardinality(S) >= MinProcesses
  /\ Detach(S)
  /\ UNCHANGED <<lifeStatus, life, processed, session, waitVars, oobwVars, spawnVars,
                 restartVars, room>>

\* Pool::forceFreeCapacity takes an idle process of this group on behalf of another.
ForceFreeCapacity(p) ==
  /\ IsAlive
  /\ p \in Idle(enabled, session)
  /\ Detach({p})
  /\ room' \in {rm \in Rooms \cup {room} : rm <= room}
  /\ UNCHANGED <<lifeStatus, life, processed, session, waitVars, oobwVars, spawnVars,
                 restartVars>>

\* Pool::detachGroupByName and Group::shutdown.
Shutdown ==
  /\ IsAlive
  /\ AssignExceptionToGetWaiters
  /\ DetachAll
  /\ lifeStatus' = "SHUTTING_DOWN"
  /\ UNCHANGED <<life, processed, session, oobwVars, spawnVars, restartVars, room>>

\* Mutants: sessions are not waited for; the condition is inverted.
CanTriggerShutdown_Hasty(p) == life[p] = "ALIVE"
CanTriggerShutdown_Inverted(p) == life[p] = "ALIVE" /\ Sessions(p, session) # {}
CanTriggerShutdown(p) == life[p] = "ALIVE" /\ Sessions(p, session) = {}

\* Mutant: the process need not have been told to shut down.
CanCleanup_AnyLife(p, exited) == p \in exited
CanCleanup(p, exited) == life[p] = "SHUTDOWN_TRIGGERED" /\ p \in exited

\* One iteration of detachedProcessesCheckerMain.  The OS processes of exited have
\* exited.
CheckDetachedProcesses(exited) ==
  LET gone == {p \in Detached : CanCleanup(p, exited)} IN
  /\ checkerActive
  /\ life' = [p \in Process |->
                IF p \in gone THEN "DEAD"
                ELSE IF p \in Detached /\ CanTriggerShutdown(p) THEN "SHUTDOWN_TRIGGERED"
                ELSE life[p]]
  /\ checkerActive' = (Detached # gone)
  /\ lifeStatus' = IF Detached = gone /\ lifeStatus = "SHUTTING_DOWN" THEN "SHUT_DOWN"
                   ELSE lifeStatus
  /\ UNCHANGED <<enabled, processed, session, waitVars, disableWaitlist, callbacks, oobwVars,
                 spawnVars, restartVars, room>>

\* The other groups, or Pool::setMax, change what is left for this group.
RoomChanges ==
  /\ room' \in Rooms \ {room}
  /\ UNCHANGED <<lifeStatus, enabled, life, processed, session, waitVars, disableWaitlist,
                 callbacks, oobwVars, spawnVars, restartVars, checkerActive>>

\* The same, followed by possiblySpawnMoreProcessesForExistingGroups (Pool::setMax,
\* Pool::detachProcessUnlocked and Pool::detachGroupByName on another group).
CapacityFreed ==
  /\ room' \in Rooms
  /\ IsAlive
  /\ PossiblySpawnMore(enabled, session, room')
  /\ UNCHANGED <<lifeStatus, enabled, life, processed, session, waitVars, disableWaitlist,
                 callbacks, oobwVars, restartVars, checkerActive>>

-----------------------------------------------------------------------------
Next ==
  \/ \E r \in Request, s \in Process \cup {NoProcess}, needsRestart, freed \in BOOLEAN :
       Get(r, s, needsRestart, freed)
  \/ \E r \in Request : RequestOOBW(r) \/ OnSessionInitiateFailure(r)
  \/ \E r \in Request, needed \in BOOLEAN : OnSessionClose(r, needed)
  \/ \E e \in 0..MaxRestarts : AbortSpawn(e)
  \/ \E p \in Process, otherWaits \in BOOLEAN : AttachSpawned(p, otherWaits)
  \/ \E otherWaits \in BOOLEAN : RejectSpawned(otherWaits)
  \/ SpawnFailed
  \/ RestartGroup
  \/ \E e \in 1..MaxRestarts, freed \in BOOLEAN : FinalizeRestart(e, freed)
  \/ \E p \in Process, result \in DisableResults : LockAndMaybeInitiateOobw(p, result)
  \/ \E p \in Process : StartOobw(p) \/ FinishOobw(p)
  \/ \E p \in Process : DetachProcess(p) \/ ForceFreeCapacity(p)
  \/ \E a \in Admin, p \in Process : DisableProcess(a, p)
  \/ \E S \in SUBSET Process : GarbageCollect(S)
  \/ \E exited \in SUBSET Detached : CheckDetachedProcesses(exited)
  \/ Shutdown \/ RoomChanges \/ CapacityFreed

Spec == Init /\ [][Next]_vars

-----------------------------------------------------------------------------
(* Safety.                                                                  *)

\* A session only exists on a process that has not been told to shut down and that
\* is not disabled, whatever was detached, disabled or restarted since it was opened
\* (the assertions at the start of onSessionClose).
SessionsOnLiveProcesses ==
  \A r \in Request : session[r] # NoProcess =>
    life[session[r]] = "ALIVE" /\ enabled[session[r]] # "DISABLED"

\* The assertions of spawnThreadRealMain and finalizeRestart: of all the spawn loops
\* that restarts leave behind exactly the current one is accounted for, and a group
\* that says it is restarting has a restarter that will end the restart.
SpawnBookkeeping ==
  IsAlive =>
    /\ spawnThreads[restartsInitiated] = processesBeingSpawned
    /\ processesBeingSpawned = (IF spawning THEN 1 ELSE 0)
    /\ restarting <=> restartsInitiated \in restartThreads
    /\ ~(restarting /\ spawning)

\* The processes on the disable wait list are exactly the disabling ones: attach()
\* and enableAllDisablingProcesses() assert it, and a disabling process that is not
\* on the list would never be disabled.
DisableWaitlistMatches ==
  {w[1] : w \in disableWaitlist} = Disabling(enabled)

\* Every detached process, and every shutdown of the group, is being watched by the
\* detached processes checker, which stops by itself when it has nothing to do.
DetachedAreWatched ==
  Detached # {} \/ lifeStatus = "SHUTTING_DOWN" => checkerActive

\* Once a group is shut down nothing that was under way (a spawn loop, out-of-band
\* work, a restart) puts a process back into one of its lists (verifyInvariants), no
\* one waits for it, and when the shutdown has ended no session is left (the assertions
\* of onSessionClose and of the destructor).
ShutDownGroupIsEmpty ==
  /\ ~IsAlive => /\ \A p \in Process : enabled[p] = "DETACHED"
                 /\ getWaitlist = {} /\ disableWaitlist = {}
  /\ lifeStatus = "SHUT_DOWN" => /\ \A r \in Request : session[r] = NoProcess
                                 /\ ~checkerActive

\* The group never has more processes, counting the one being spawned, than
\* Options::maxProcesses, and never more waiting requests than
\* Options::maxRequestQueueSize, whichever branch of get() leaves a request waiting.
\* disable() is no exception, although its comment says that it spawns a replacement
\* "irrespective of resource limits": it calls spawn(), which keeps to them.
WithinLimits ==
  /\ MaxProcesses # 0 => CapacityUsed(enabled, processesBeingSpawned) <= MaxProcesses
  /\ MaxQueue # 0 => Cardinality(getWaitlist) <= MaxQueue

\* What is under way for the out-of-band work of p: a disable command, the callback
\* of one, or a thread.
OobwTracks(p) ==
  {x \in callbacks \cup oobwThreads : x[1] = p} \cup {w \in disableWaitlist : w = <<p, "oobw">>}

\* Out-of-band work is under way for a process of the group exactly when its status
\* says so, and only once: the status is neither lost nor stuck, which would keep
\* the process disabled for good.
OobwTrackedOnce ==
  \A p \in Process :
    /\ Cardinality(OobwTracks(p)) <= 1
    /\ enabled[p] # "DETACHED" =>
         (oobwStatus[p] = "IN_PROGRESS" <=> OobwTracks(p) # {})

\* A process that is sent an out-of-band work request serves no session, and no more
\* than maxOutOfBandWorkInstances processes of the group are taken out for it: have a
\* thread for the work or a disable command that it waits for.  (oobwAllowed() counts
\* differently: a process whose command failed is counted again if an administrator
\* disables it before the callback has run.)
OobwRunsAlone ==
  /\ \A t \in oobwThreads : Sessions(t[1], session) = {}
  /\ Cardinality({p \in Process : enabled[p] # "DETACHED" /\ OobwTracks(p) \ callbacks # {}})
       <= MaxOobw

\* Invariant 1 of getWaitlist: requests only wait when no process can serve them.  The
\* exception is a request that waits for a process which has left rotation since: nobody
\* looks at it again until a session ends or a process is enabled.
WaitersAreNotRoutable ==
  Enabled(enabled) # {} =>
    \A r \in getWaitlist : sticky[r] \in Enabled(enabled) \cup {NoProcess} =>
      Route(sticky[r], enabled, session) = {}

\* Invariant 2 of getWaitlist: when requests wait, there are enabled processes, or
\* processes are being spawned, or nothing can be spawned.
HasProspects ==
  IsAlive /\ getWaitlist # {} =>
    \/ Enabled(enabled) # {} \/ spawning \/ restarting
    \/ PoolAtFullCapacity(enabled, processesBeingSpawned, room)

\* No step of the group breaks invariant 2: whoever takes away the last enabled
\* process, ends a spawn loop or ends a restart sees to it that the waiting requests
\* keep a prospect.  (Other groups can break it by leaving more room silently.)
KeepsProspects ==
  [][room' <= room /\ HasProspects => HasProspects']_vars

\* A request without a sticky session is never overtaken by one behind it.
FirstComeFirstServed ==
  [][\A w \in ahead : sticky[w[1]] = NoProcess /\ session'[w[2]] # NoProcess =>
       w[1] \notin getWaitlist']_vars

\* A process that was detached never comes back, and is only cleaned up after it
\* was told to shut down, which waits for its sessions.
DetachedForGood ==
  [][\A p \in Detached :
       /\ enabled'[p] = "DETACHED"
       /\ life'[p] = "DEAD" => life[p] = "SHUTDOWN_TRIGGERED"
       /\ life'[p] # life[p] => Sessions(p, session) = {}]_vars

-----------------------------------------------------------------------------
(* Liveness.  Threads that the pool started get to run, spawning ends       *)
(* because it has a timeout, the out-of-band work request too, and a        *)
(* process that was told to shut down exits or is killed.  Applications     *)
(* finish their requests.                                                   *)

SpawnLoopRuns ==
  \/ \E p \in Process, otherWaits \in BOOLEAN : AttachSpawned(p, otherWaits)
  \/ \E otherWaits \in BOOLEAN : RejectSpawned(otherWaits)
  \/ SpawnFailed

Fairness ==
  /\ WF_vars(SpawnLoopRuns)
  /\ \A e \in 0..MaxRestarts : WF_vars(AbortSpawn(e))
  /\ \A e \in 1..MaxRestarts : WF_vars(\E freed \in BOOLEAN : FinalizeRestart(e, freed))
  /\ \A p \in Process :
       WF_vars(\/ \E result \in DisableResults : LockAndMaybeInitiateOobw(p, result)
               \/ StartOobw(p) \/ FinishOobw(p))
  /\ WF_vars(CheckDetachedProcesses(Detached))
  /\ \A r \in Request : WF_vars(\E needed \in BOOLEAN : OnSessionClose(r, needed))

FairSpec == Spec /\ Fairness

\* Every request on getWaitlist gets a session or an exception: neither detaching,
\* restarting, disabling nor out-of-band work strands it.
WaitersAreAnswered ==
  \A r \in Request : r \in getWaitlist ~> r \notin getWaitlist

\* Every detached process is eventually cleaned up, and the shutdown of the group ends.
DetachedAreCleanedUp ==
  /\ \A p \in Process : p \in Detached ~> p \notin Detached
  /\ lifeStatus = "SHUTTING_DOWN" ~> lifeStatus = "SHUT_DOWN"

\* Out-of-band work always ends: a process is not taken out of rotation for good.
OobwEnds ==
  \A p \in Process : oobwStatus[p] = "IN_PROGRESS" /\ enabled[p] = "DISABLED" ~>
    oobwStatus[p] # "IN_PROGRESS" \/ enabled[p] = "DETACHED"

-----------------------------------------------------------------------------
(* What comments and assertions of the code say that it does not keep.      *)

\* Group::detach: "assert(isAlive())", when a session is closed.
DetachesWhenAlive ==
  \A r \in Request :
    LET p == session[r] IN
    p # NoProcess /\ ShouldDetach(p, processed[p] + 1, [session EXCEPT ![r] = NoProcess], FALSE)
      => IsAlive

=============================================================================
