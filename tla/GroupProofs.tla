---------------------------- MODULE GroupProofs ----------------------------
(***************************************************************************)
(* Proofs about Group, for every number of processes, requests, admins and *)
(* restarts and every limit: the bookkeeping of spawn loops and restarts,  *)
(* type correctness, where sessions may be, which processes are on the     *)
(* disable wait list, and how detached processes and groups that shut down *)
(* are watched.                                                            *)
(***************************************************************************)
EXTENDS Group, TLAPS

\* The bounds and limits are natural numbers.
LEMMA ConstantsAreNat ==
  MaxRestarts \in Nat /\ MaxRequests \in Nat
BY GroupAssumption

-----------------------------------------------------------------------------
(* What the building blocks of the actions do to the spawn loops.           *)

\* The spawn loops after a call of Group::spawn: nothing, or one new loop.
SpawnEffect(rst) ==
  \/ UNCHANGED spawnVars
  \/ /\ ~spawning /\ ~rst
     /\ spawning' = TRUE
     /\ processesBeingSpawned' = processesBeingSpawned + 1
     /\ spawnThreads' = [spawnThreads EXCEPT ![restartsInitiated] = @ + 1]

\* Whatever limits it looks at, Group::spawn starts at most one loop, and none while
\* there is one or while the group restarts.
LEMMA SpawnHasEffect ==
  ASSUME NEW en, NEW rst, NEW rm, Spawn(en, rst, rm)
  PROVE  SpawnEffect(rst)
BY DEF Spawn, CanSpawn, SpawnEffect

\* The same holds of the pool's possiblySpawnMoreProcessesForExistingGroups.
LEMMA PossiblySpawnMoreHasEffect ==
  ASSUME NEW en, NEW ses, NEW rm, PossiblySpawnMore(en, ses, rm)
  PROVE  SpawnEffect(restarting)
BY SpawnHasEffect, Zenon DEF PossiblySpawnMore, SpawnEffect

\* The same holds of Group::disable.
LEMMA DisableHasEffect ==
  ASSUME NEW p, NEW w, NEW en, NEW ses, NEW dw, Disable(p, w, en, ses, dw)
  PROVE  SpawnEffect(restarting)
BY SpawnHasEffect, Zenon DEF Disable, SpawnEffect

-----------------------------------------------------------------------------
(* Spawn loops and restarts.  SpawnBookkeeping is not inductive: a restart   *)
(* moves on to the next value of restartsInitiated, so no loop and no        *)
(* restarter may exist for a value that has not been reached.                *)

\* The types of the spawn loops and restarts.
SpawnTypes ==
  /\ lifeStatus \in {"ALIVE", "SHUTTING_DOWN", "SHUT_DOWN"}
  /\ spawning \in BOOLEAN /\ restarting \in BOOLEAN
  /\ processesBeingSpawned \in Nat
  /\ restartsInitiated \in 0..MaxRestarts
  /\ spawnThreads \in [0..MaxRestarts -> Nat]
  /\ restartThreads \subseteq 1..MaxRestarts

\* No thread belongs to a restart that is yet to come.
NoFutureThreads ==
  \A e \in 0..MaxRestarts : e > restartsInitiated =>
    spawnThreads[e] = 0 /\ e \notin restartThreads

\* The inductive invariant.
SpawnInv == SpawnTypes /\ SpawnBookkeeping /\ NoFutureThreads

\* A call of Group::spawn that is not part of a restart keeps the bookkeeping.
LEMMA SpawnEffectKeepsInv ==
  ASSUME SpawnInv, SpawnEffect(restarting), UNCHANGED <<lifeStatus, restartVars>>
  PROVE  SpawnInv'
<1> USE ConstantsAreNat
<1>1. CASE UNCHANGED spawnVars
  BY <1>1 DEF SpawnInv, SpawnTypes, SpawnBookkeeping, NoFutureThreads, IsAlive, spawnVars,
              restartVars
<1>2. CASE ~UNCHANGED spawnVars
  <2> USE <1>2 DEF SpawnInv, SpawnEffect, restartVars
  <2>1. SpawnTypes'
    <3>1. processesBeingSpawned' \in Nat
      BY DEF SpawnTypes
    <3>2. spawnThreads' \in [0..MaxRestarts -> Nat]
      BY SMTT(30) DEF SpawnTypes
    <3> QED BY <3>1, <3>2, Zenon DEF SpawnTypes
  <2>2. SpawnBookkeeping'
    BY DEF SpawnTypes, SpawnBookkeeping, IsAlive
  <2>3. NoFutureThreads'
    BY SMTT(30) DEF SpawnTypes, NoFutureThreads
  <2> QED BY <2>1, <2>2, <2>3, Zenon
<1> QED BY <1>1, <1>2, Zenon

\* A restart forgets the current spawn loop and starts a restarter.
LEMMA RestartKeepsInv ==
  ASSUME SpawnInv, Restart, UNCHANGED lifeStatus
  PROVE  SpawnInv'
<1> USE ConstantsAreNat DEF Restart, SpawnInv, SpawnTypes
<1>1. SpawnTypes'
  <2>1. restartsInitiated' \in 0..MaxRestarts /\ processesBeingSpawned' \in Nat
    OBVIOUS
  <2>2. restartThreads' \subseteq 1..MaxRestarts
    OBVIOUS
  <2> QED BY <2>1, <2>2, Zenon
<1>2. SpawnBookkeeping'
  BY DEF SpawnBookkeeping, NoFutureThreads, IsAlive
<1>3. NoFutureThreads'
  BY DEF NoFutureThreads
<1> QED BY <1>1, <1>2, <1>3

\* The current spawn loop goes on or ends.
LEMMA EndIterationKeepsInv ==
  ASSUME SpawnInv, NEW done \in BOOLEAN, EndIteration(done), IsAlive,
         spawnThreads[restartsInitiated] > 0, UNCHANGED <<lifeStatus, restartVars>>
  PROVE  SpawnInv'
BY ConstantsAreNat
DEF EndIteration, SpawnInv, SpawnTypes, SpawnBookkeeping, NoFutureThreads, IsAlive, restartVars

\* The out-of-band work functions touch the spawn loops through Group::disable only.
LEMMA InitiateOobwHasEffect ==
  ASSUME NEW p, NEW en, NEW status, NEW ses, NEW dw, NEW threads,
         InitiateOobw(p, en, status, ses, dw, threads)
  PROVE  SpawnEffect(restarting)
<1>1. Disable(p, "oobw", en, ses, dw)
  BY DEF InitiateOobw
<1> QED BY <1>1, DisableHasEffect

\* The same for Group::maybeInitiateOobw.
LEMMA MaybeInitiateOobwHasEffect ==
  ASSUME NEW p, NEW en, NEW ses, NEW dw, MaybeInitiateOobw(p, en, ses, dw)
  PROVE  SpawnEffect(restarting)
BY InitiateOobwHasEffect, Zenon DEF MaybeInitiateOobw, SpawnEffect

\* Every step keeps the bookkeeping of spawn loops and restarts.
LEMMA SpawnInvStep ==
  ASSUME SpawnInv, [Next]_vars
  PROVE  SpawnInv'
<1> USE ConstantsAreNat
<1>1. CASE UNCHANGED vars
  <2>1. SpawnEffect(restarting)
    BY <1>1 DEF vars, SpawnEffect
  <2> QED BY <1>1, <2>1, SpawnEffectKeepsInv DEF vars
<1>2. ASSUME NEW r \in Request, NEW s \in Process \cup {NoProcess},
             NEW needsRestart \in BOOLEAN, NEW freed \in BOOLEAN,
             Get(r, s, needsRestart, freed)
      PROVE  SpawnInv'
  <2>1. UNCHANGED lifeStatus
    BY <1>2 DEF Get
  <2>2. CASE Restart
    BY <2>1, <2>2, RestartKeepsInv
  <2>3. CASE ~Restart
    <3>1. UNCHANGED restartVars
      BY <1>2, <2>3, Zenon DEF Get
    <3>2. SpawnEffect(restarting)
      BY <1>2, <2>3, SpawnHasEffect, Zenon DEF Get, SpawnEffect
    <3> QED BY <2>1, <3>1, <3>2, SpawnEffectKeepsInv
  <2> QED BY <2>2, <2>3
<1>3. ASSUME NEW r \in Request, RequestOOBW(r) \/ OnSessionInitiateFailure(r)
      PROVE  SpawnInv'
  <2>1. SpawnEffect(restarting) /\ UNCHANGED <<lifeStatus, restartVars>>
    BY <1>3, PossiblySpawnMoreHasEffect, Zenon
    DEF RequestOOBW, OnSessionInitiateFailure, DetachProcessUnlocked, SpawnEffect
  <2> QED BY <2>1, SpawnEffectKeepsInv
<1>4. ASSUME NEW r \in Request, NEW needed \in BOOLEAN, OnSessionClose(r, needed)
      PROVE  SpawnInv'
  <2>1. SpawnEffect(restarting)
    BY <1>4, PossiblySpawnMoreHasEffect, MaybeInitiateOobwHasEffect
    DEF OnSessionClose, DetachProcessUnlocked
  <2>2. UNCHANGED <<lifeStatus, restartVars>>
    BY <1>4 DEF OnSessionClose
  <2> QED BY <2>1, <2>2, SpawnEffectKeepsInv
<1>5. ASSUME NEW e \in 0..MaxRestarts, AbortSpawn(e)
      PROVE  SpawnInv'
  BY <1>5, SMTT(30)
  DEF AbortSpawn, SpawnInv, SpawnTypes, SpawnBookkeeping, NoFutureThreads, IsAlive, restartVars
<1>6. ASSUME NEW done \in BOOLEAN, EndIteration(done), IsAlive,
             spawnThreads[restartsInitiated] > 0, UNCHANGED <<lifeStatus, restartVars>>
      PROVE  SpawnInv'
  BY <1>6, EndIterationKeepsInv
<1>7. ASSUME NEW p \in Process, NEW otherWaits \in BOOLEAN, AttachSpawned(p, otherWaits)
      PROVE  SpawnInv'
  <2>1. SpawnLoopDone(enabled', room', getWaitlist') \in BOOLEAN
    BY DEF SpawnLoopDone
  <2> QED BY <1>6, <1>7, <2>1 DEF AttachSpawned
<1>8. ASSUME NEW otherWaits \in BOOLEAN, RejectSpawned(otherWaits)
      PROVE  SpawnInv'
  BY <1>6, <1>8, Zenon DEF RejectSpawned
<1>9. CASE SpawnFailed
  BY <1>6, <1>9, Zenon DEF SpawnFailed
<1>10. CASE RestartGroup
  BY <1>10, RestartKeepsInv DEF RestartGroup
<1>11. ASSUME NEW e \in 1..MaxRestarts, NEW freed \in BOOLEAN, FinalizeRestart(e, freed)
      PROVE  SpawnInv'
  <2>1. CASE ~IsAlive \/ e # restartsInitiated
    <3> USE <1>11, <2>1 DEF SpawnInv
    <3>1. /\ restartThreads' = restartThreads \ {e}
          /\ UNCHANGED <<lifeStatus, restarting, restartsInitiated, spawnVars>>
      BY Zenon DEF FinalizeRestart
    <3>2. SpawnTypes'
      BY <3>1 DEF SpawnTypes, spawnVars
    <3>3. SpawnBookkeeping'
      BY <3>1 DEF SpawnBookkeeping, IsAlive, spawnVars
    <3>4. NoFutureThreads'
      BY <3>1 DEF NoFutureThreads, spawnVars
    <3> QED BY <3>2, <3>3, <3>4, Zenon
  <2>2. CASE IsAlive /\ e = restartsInitiated
    <3> USE <1>11, <2>2 DEF SpawnInv
    <3>1. SpawnEffect(FALSE)
      BY SpawnHasEffect, Zenon DEF FinalizeRestart, SpawnEffect
    <3>2. /\ restarting' = FALSE /\ restartThreads' = restartThreads \ {e}
          /\ UNCHANGED <<lifeStatus, restartsInitiated>>
      BY DEF FinalizeRestart
    <3>3. SpawnTypes'
      <4>1. processesBeingSpawned' \in Nat
        BY <3>1 DEF SpawnEffect, SpawnTypes, spawnVars
      <4>2. spawning' \in BOOLEAN
        BY <3>1, Zenon DEF SpawnEffect, SpawnTypes, spawnVars
      <4>3. spawnThreads' \in [0..MaxRestarts -> Nat]
        BY <3>1, SMTT(30) DEF SpawnEffect, SpawnTypes, spawnVars
      <4> QED BY <3>2, <4>1, <4>2, <4>3, Zenon DEF SpawnTypes
    <3>4. SpawnBookkeeping'
      BY <3>1, <3>2 DEF SpawnEffect, SpawnTypes, SpawnBookkeeping, IsAlive, spawnVars
    <3>5. NoFutureThreads'
      BY <3>1, <3>2, SMTT(30) DEF SpawnEffect, SpawnTypes, NoFutureThreads, spawnVars
    <3> QED BY <3>3, <3>4, <3>5
  <2> QED BY <2>1, <2>2
<1>12. ASSUME NEW p \in Process, NEW result \in DisableResults,
              LockAndMaybeInitiateOobw(p, result)
      PROVE  SpawnInv'
  <2>1. SpawnEffect(restarting) /\ UNCHANGED <<lifeStatus, restartVars>>
    BY <1>12, InitiateOobwHasEffect, Zenon DEF LockAndMaybeInitiateOobw, SpawnEffect
  <2> QED BY <2>1, SpawnEffectKeepsInv
<1>13. ASSUME NEW p \in Process, StartOobw(p) \/ FinishOobw(p)
      PROVE  SpawnInv'
  <2>1. SpawnEffect(restarting) /\ UNCHANGED <<lifeStatus, restartVars>>
    BY <1>13, InitiateOobwHasEffect, Zenon
    DEF StartOobw, FinishOobw, InitiateNextOobwRequest, SpawnEffect
  <2> QED BY <2>1, SpawnEffectKeepsInv
<1>14. ASSUME NEW p \in Process, DetachProcess(p) \/ ForceFreeCapacity(p)
      PROVE  SpawnInv'
  <2>1. SpawnEffect(restarting) /\ UNCHANGED <<lifeStatus, restartVars>>
    BY <1>14, PossiblySpawnMoreHasEffect, Zenon
    DEF DetachProcess, DetachProcessUnlocked, ForceFreeCapacity, SpawnEffect
  <2> QED BY <2>1, SpawnEffectKeepsInv
<1>15. ASSUME NEW a \in Admin, NEW p \in Process, DisableProcess(a, p)
      PROVE  SpawnInv'
  BY <1>15, DisableHasEffect, SpawnEffectKeepsInv DEF DisableProcess
<1>16. ASSUME NEW S \in SUBSET Process, GarbageCollect(S)
      PROVE  SpawnInv'
  BY <1>16, SpawnEffectKeepsInv DEF GarbageCollect, SpawnEffect
<1>17. ASSUME NEW exited \in SUBSET Detached, CheckDetachedProcesses(exited)
      PROVE  SpawnInv'
  BY <1>17 DEF CheckDetachedProcesses, SpawnInv, SpawnTypes, SpawnBookkeeping,
               NoFutureThreads, IsAlive, spawnVars, restartVars
<1>18. CASE Shutdown
  BY <1>18 DEF Shutdown, SpawnInv, SpawnTypes, SpawnBookkeeping, NoFutureThreads, IsAlive,
               spawnVars, restartVars
<1>19. CASE RoomChanges \/ CapacityFreed
  <2>1. SpawnEffect(restarting) /\ UNCHANGED <<lifeStatus, restartVars>>
    BY <1>19, PossiblySpawnMoreHasEffect, Zenon DEF RoomChanges, CapacityFreed, SpawnEffect
  <2> QED BY <2>1, SpawnEffectKeepsInv
<1> QED
  BY <1>1, <1>2, <1>3, <1>4, <1>5, <1>7, <1>8, <1>9, <1>10, <1>11, <1>12, <1>13, <1>14,
     <1>15, <1>16, <1>17, <1>18, <1>19 DEF Next

\* The inductive invariant holds.
LEMMA SpawnInvHolds == Spec => []SpawnInv
<1>1. Init => SpawnInv
  <2> SUFFICES ASSUME Init PROVE SpawnInv
    OBVIOUS
  <2> USE ConstantsAreNat DEF Init
  <2>1. SpawnTypes
    <3>1. restartsInitiated \in 0..MaxRestarts /\ processesBeingSpawned \in Nat
      OBVIOUS
    <3>2. spawnThreads \in [0..MaxRestarts -> Nat]
      OBVIOUS
    <3> QED BY <3>1, <3>2, Zenon DEF SpawnTypes
  <2>2. SpawnBookkeeping
    BY DEF SpawnBookkeeping
  <2>3. NoFutureThreads
    BY DEF NoFutureThreads
  <2> QED BY <2>1, <2>2, <2>3 DEF SpawnInv
<1>2. SpawnInv /\ [Next]_vars => SpawnInv'
  BY SpawnInvStep
<1> QED BY <1>1, <1>2, PTL DEF Spec

\* Its types, for the proof of the whole type invariant.
LEMMA SpawnTypesHold == Spec => []SpawnTypes
<1>1. SpawnInv => SpawnTypes
  BY DEF SpawnInv
<1> QED BY <1>1, SpawnInvHolds, PTL

\* The assertions of spawnThreadRealMain and finalizeRestart always hold: however
\* restarts and spawn loops interleave, the group counts exactly its current loop.
THEOREM SpawnBookkeepingHolds == Spec => []SpawnBookkeeping
<1>1. SpawnInv => SpawnBookkeeping
  BY DEF SpawnInv
<1> QED BY <1>1, SpawnInvHolds, PTL

-----------------------------------------------------------------------------
(* Type correctness.  The types of the spawn loops and restarts need the    *)
(* bookkeeping proved above; the rest is done one group of variables at a   *)
(* time.                                                                    *)

\* Who may wait for a process to be disabled, and what a request may have a session with.
Waiter == Admin \cup {"oobw"}
Target == Process \cup {NoProcess}

\* The process lists and the disable wait list.
IsLists(en, dw) ==
  en \in [Process -> EnabledStatus] /\ dw \subseteq Process \X Waiter

\* The types of the lists and of what detaching changes.
ListTypes ==
  /\ IsLists(enabled, disableWaitlist)
  /\ callbacks \subseteq Process \X DisableResults
  /\ checkerActive \in BOOLEAN

\* The types of the sessions and of the queue.
WaitTypes ==
  /\ session \in [Request -> Target]
  /\ sticky \in [Request -> Target]
  /\ getWaitlist \subseteq Request
  /\ ahead \subseteq getWaitlist \X getWaitlist

\* The types of out-of-band work.
OobwTypes ==
  /\ oobwStatus \in [Process -> OobwStatus]
  /\ oobwThreads \subseteq Process \X {"starting", "working"}

\* The types of the processes and of the room.
LifeTypes ==
  /\ life \in [Process -> ProcessLife]
  /\ processed \in [Process -> 0..MaxRequests]
  /\ room \in Nat

\* TypeOK is the conjunction of the groups.
LEMMA TypeGroups ==
  TypeOK <=> SpawnTypes /\ ListTypes /\ WaitTypes /\ OobwTypes /\ LifeTypes
BY Zenon DEF TypeOK, SpawnTypes, ListTypes, WaitTypes, OobwTypes, LifeTypes, IsLists, Waiter, Target

-----------------------------------------------------------------------------
(* The requests that wait and the sessions.                                 *)

\* Taking requests off getWaitlist keeps its order well formed.
LEMMA RemoveWaitersTypes ==
  ASSUME WaitTypes, NEW W, RemoveWaiters(W)
  PROVE  /\ sticky' \in [Request -> Target] /\ getWaitlist' \subseteq Request
         /\ ahead' \subseteq getWaitlist' \X getWaitlist'
<1> USE DEF WaitTypes, RemoveWaiters
<1>1. sticky' \in [Request -> Target]
  BY DEF Target
<1>2. getWaitlist' \subseteq Request
  OBVIOUS
<1>3. ahead' \subseteq getWaitlist' \X getWaitlist'
  OBVIOUS
<1> QED BY <1>1, <1>2, <1>3

\* Handing sessions to the waiting requests keeps the types.
LEMMA AssignTypes ==
  ASSUME WaitTypes, NEW en, NEW ses \in [Request -> Target],
         AssignSessionsToGetWaiters(en, ses)
  PROVE  WaitTypes'
<1> DEFINE F == [getWaitlist -> Enabled(en) \cup Disabling(en) \cup {NoProcess}]
<1>1. PICK f \in F :
        /\ session' = Assigned(f, getWaitlist, ses)
        /\ RemoveWaiters({r \in getWaitlist : f[r] # NoProcess})
  BY Zenon DEF AssignSessionsToGetWaiters
<1>2. \A r \in getWaitlist : f[r] \in Target
  BY DEF Target, Enabled, Disabling, Status
<1>3. session' \in [Request -> Target]
  BY <1>1, <1>2 DEF Assigned
<1> QED BY <1>1, <1>3, RemoveWaitersTypes DEF WaitTypes

\* A request that is queued is appended.
LEMMA PushTypes ==
  ASSUME WaitTypes, NEW r \in Request, NEW s \in Target, PushGetWaiter(r, s)
  PROVE  /\ sticky' \in [Request -> Target] /\ getWaitlist' \subseteq Request
         /\ ahead' \subseteq getWaitlist' \X getWaitlist'
BY DEF WaitTypes, PushGetWaiter, waitVars

\* Group::get hands out a session with a process or queues the request.
LEMMA GetSessionTypes ==
  ASSUME WaitTypes, NEW r \in Request, NEW s \in Target, NEW en, NEW rst,
         GetSession(r, s, en, rst)
  PROVE  WaitTypes'
<1> DEFINE targets == IF Enabled(en) = {} /\ rst THEN {} ELSE Route(s, en, session)
<1>1. targets \subseteq Process
  BY DEF Route, LeastBusy, Enabled, Disabling, Status
<1>2. CASE targets # {}
  <2>1. PICK p \in targets : session' = [session EXCEPT ![r] = p]
    BY <1>2 DEF GetSession
  <2>2. UNCHANGED waitVars
    BY <1>2 DEF GetSession
  <2> QED BY <1>1, <2>1, <2>2 DEF WaitTypes, waitVars, Target
<1>3. CASE targets = {}
  <2>1. PushGetWaiter(r, s) /\ UNCHANGED session
    BY <1>3 DEF GetSession
  <2> QED BY <2>1, PushTypes DEF WaitTypes
<1> QED BY <1>2, <1>3

-----------------------------------------------------------------------------
(* The process lists and the disable commands.                              *)

\* The callbacks of disable commands carry a process and a result.
LEMMA CallbackTypes ==
  ASSUME NEW W \in SUBSET (Process \X Waiter), NEW result \in DisableResults,
         callbacks \subseteq Process \X DisableResults
  PROVE  callbacks \cup OobwCallbacks(W, result) \subseteq Process \X DisableResults
BY DEF OobwCallbacks

\* Group::detach keeps the types.
LEMMA DetachTypes ==
  ASSUME ListTypes, NEW S, Detach(S)
  PROVE  ListTypes'
<1> DEFINE W == WaitersFor(S \cap Disabling(enabled))
<1>1. W \in SUBSET (Process \X Waiter) /\ "NOOP" \in DisableResults
  BY DEF ListTypes, IsLists, WaitersFor, DisableResults
<1>2. callbacks' \subseteq Process \X DisableResults
  BY <1>1, CallbackTypes, Zenon DEF ListTypes, Detach
<1>3. enabled' \in [Process -> EnabledStatus]
  BY DEF ListTypes, IsLists, Detach, EnabledStatus
<1>4. disableWaitlist' \subseteq Process \X Waiter
  BY DEF ListTypes, IsLists, Detach
<1>5. checkerActive' \in BOOLEAN
  BY DEF ListTypes, Detach
<1> QED BY <1>2, <1>3, <1>4, <1>5 DEF ListTypes, IsLists

\* Group::detachAll keeps the types.
LEMMA DetachAllTypes ==
  ASSUME ListTypes, DetachAll
  PROVE  ListTypes'
<1>1. disableWaitlist \in SUBSET (Process \X Waiter) /\ "NOOP" \in DisableResults
  BY DEF ListTypes, IsLists, DisableResults
<1>2. callbacks' \subseteq Process \X DisableResults
  BY <1>1, CallbackTypes DEF ListTypes, DetachAll
<1>3. enabled' \in [Process -> EnabledStatus] /\ disableWaitlist' \subseteq Process \X Waiter
  BY DEF DetachAll, EnabledStatus
<1>4. checkerActive' \in BOOLEAN
  BY DEF DetachAll
<1> QED BY <1>2, <1>3, <1>4 DEF ListTypes, IsLists

\* Group::disable keeps the types of the lists it is given.
LEMMA DisableTypes ==
  ASSUME NEW p \in Process, NEW w \in Waiter, NEW en, NEW ses, NEW dw, IsLists(en, dw),
         Disable(p, w, en, ses, dw)
  PROVE  IsLists(enabled', disableWaitlist')
<1>1. enabled' \in [Process -> EnabledStatus]
  BY DEF IsLists, Disable, EnabledStatus
<1>2. disableWaitlist' \subseteq Process \X Waiter
  BY DEF IsLists, Disable
<1> QED BY <1>1, <1>2 DEF IsLists

\* Group::initiateOobw keeps the types.
LEMMA InitiateOobwTypes ==
  ASSUME NEW p \in Process, NEW en, NEW status \in [Process -> OobwStatus], NEW ses, NEW dw,
         IsLists(en, dw), NEW threads \in SUBSET (Process \X {"starting", "working"}),
         InitiateOobw(p, en, status, ses, dw, threads)
  PROVE  IsLists(enabled', disableWaitlist') /\ OobwTypes'
<1>1. "oobw" \in Waiter /\ Disable(p, "oobw", en, ses, dw)
  BY DEF Waiter, InitiateOobw
<1>2. IsLists(enabled', disableWaitlist')
  BY <1>1, DisableTypes
<1>3. oobwStatus' \in [Process -> OobwStatus]
  BY DEF InitiateOobw, OobwStatus
<1>4. oobwThreads' \subseteq Process \X {"starting", "working"}
  BY DEF InitiateOobw
<1> QED BY <1>2, <1>3, <1>4 DEF OobwTypes

\* Group::maybeInitiateOobw keeps the types.
LEMMA MaybeInitiateOobwTypes ==
  ASSUME NEW p \in Process, NEW en, NEW ses, NEW dw, IsLists(en, dw), OobwTypes,
         MaybeInitiateOobw(p, en, ses, dw)
  PROVE  IsLists(enabled', disableWaitlist') /\ OobwTypes'
<1>1. CASE ShouldInitiateOobw(p, en, oobwStatus)
  BY <1>1, InitiateOobwTypes, Zenon DEF MaybeInitiateOobw, OobwTypes
<1>2. CASE ~ShouldInitiateOobw(p, en, oobwStatus)
  BY <1>2 DEF MaybeInitiateOobw, OobwTypes, oobwVars
<1> QED BY <1>1, <1>2

-----------------------------------------------------------------------------
(* The steps.                                                               *)

\* The group has types ProcessTypes besides those of the spawn loops and restarts.
ProcessTypes == ListTypes /\ WaitTypes /\ OobwTypes /\ LifeTypes

\* The room that others leave is a natural number.
LEMMA RoomsAreNat == Rooms \subseteq Nat
BY GroupAssumption

\* It stays one when other groups spawn.
LEMMA RoomTypes ==
  ASSUME room \in Nat, NEW en, NEW n, OtherGroupsMaySpawn(en, n)
  PROVE  room' \in Nat
<1>1. room' \in Rooms \cup {room}
  BY DEF OtherGroupsMaySpawn
<1> QED BY <1>1, RoomsAreNat

\* Pool::detachProcessUnlocked keeps the types.
LEMMA DetachProcessUnlockedTypes ==
  ASSUME ListTypes, LifeTypes, NEW p, NEW ses, DetachProcessUnlocked(p, ses)
  PROVE  ListTypes' /\ room' \in Nat
BY DetachTypes, RoomTypes DEF DetachProcessUnlocked, LifeTypes

\* get() keeps the types.
LEMMA GetTypes ==
  ASSUME ProcessTypes, NEW r \in Request, NEW s \in Target,
         NEW needsRestart \in BOOLEAN, NEW freed \in BOOLEAN, Get(r, s, needsRestart, freed)
  PROVE  ProcessTypes'
<1> USE DEF ProcessTypes
<1>1. GetSession(r, s, enabled', restarting')
  BY DEF Get
<1>2. WaitTypes'
  BY <1>1, GetSessionTypes, Zenon
<1>3. OobwTypes'
  BY DEF Get, OobwTypes, oobwVars
<1>4. room' \in Nat
  <2>1. room' = room \/ room' = room + 1
    BY Zenon DEF Get
  <2> QED BY <2>1, SMTT(30) DEF LifeTypes
<1>5. LifeTypes'
  BY <1>4 DEF Get, LifeTypes
<1>6. \/ DetachAll
      \/ UNCHANGED <<enabled, disableWaitlist, callbacks, checkerActive>>
  BY Zenon DEF Get, Restart
<1>7. ListTypes'
  BY <1>6, DetachAllTypes DEF ListTypes, IsLists
<1> QED BY <1>2, <1>3, <1>5, <1>7, Zenon

\* onSessionClose() keeps the types.
LEMMA OnSessionCloseTypes ==
  ASSUME ProcessTypes, NEW r \in Request, NEW needed \in BOOLEAN, OnSessionClose(r, needed)
  PROVE  ProcessTypes'
<1> USE DEF ProcessTypes
<1> DEFINE p == session[r]
           ses == [session EXCEPT ![r] = NoProcess]
           count == IF processed[p] < MaxRequests THEN processed[p] + 1 ELSE processed[p]
<1>1. p \in Process /\ ses \in [Request -> Target]
  BY Zenon DEF OnSessionClose, WaitTypes, Target
<1>2. processed' \in [Process -> 0..MaxRequests]
  <2>1. processed[p] \in 0..MaxRequests
    BY <1>1 DEF LifeTypes
  <2>2. count \in 0..MaxRequests
    BY <2>1, ConstantsAreNat, SMTT(30)
  <2>3. processed' = [processed EXCEPT ![p] = count]
    BY Zenon DEF OnSessionClose
  <2> HIDE DEF count
  <2> QED BY <1>1, <2>2, <2>3 DEF LifeTypes
<1>3. CASE DetachProcessUnlocked(p, ses) /\ session' = ses /\ UNCHANGED <<waitVars, oobwVars>>
  <2>1. ListTypes' /\ room' \in Nat
    BY <1>3, DetachProcessUnlockedTypes
  <2>2. WaitTypes'
    BY <1>1, <1>3 DEF WaitTypes, waitVars
  <2>3. OobwTypes'
    BY <1>3, Zenon DEF OobwTypes, oobwVars
  <2>4. LifeTypes'
    BY <1>2, <2>1, Zenon DEF OnSessionClose, LifeTypes
  <2> QED BY <2>1, <2>2, <2>3, <2>4, Zenon
<1>4. CASE /\ callbacks' = callbacks \cup OobwCallbacks(WaitersFor({p}), "SUCCESS")
           /\ MaybeInitiateOobw(p, [enabled EXCEPT ![p] = "DISABLED"], ses,
                                disableWaitlist \ WaitersFor({p}))
           /\ session' = ses
           /\ UNCHANGED <<waitVars, checkerActive, room>>
  <2>1. IsLists([enabled EXCEPT ![p] = "DISABLED"], disableWaitlist \ WaitersFor({p}))
    BY <1>1 DEF IsLists, ListTypes, EnabledStatus
  <2>2. IsLists(enabled', disableWaitlist') /\ OobwTypes'
    BY <1>1, <1>4, <2>1, MaybeInitiateOobwTypes
  <2>3. WaitersFor({p}) \in SUBSET (Process \X Waiter) /\ "SUCCESS" \in DisableResults
    BY DEF WaitersFor, ListTypes, IsLists, DisableResults
  <2>4. callbacks' \subseteq Process \X DisableResults
    BY <1>4, <2>3, CallbackTypes, Zenon DEF ListTypes
  <2>5. WaitTypes'
    BY <1>1, <1>4 DEF WaitTypes, waitVars
  <2>6. LifeTypes'
    BY <1>2, <1>4, Zenon DEF OnSessionClose, LifeTypes
  <2> QED BY <1>4, <2>2, <2>4, <2>5, <2>6, Zenon DEF ListTypes
<1>5. CASE /\ MaybeInitiateOobw(p, enabled, ses, disableWaitlist)
           /\ IF getWaitlist # {} /\ enabled'[p] = "ENABLED"
              THEN AssignSessionsToGetWaiters(enabled', ses)
              ELSE session' = ses /\ UNCHANGED waitVars
           /\ UNCHANGED <<callbacks, checkerActive, room>>
  <2>1. IsLists(enabled', disableWaitlist') /\ OobwTypes'
    BY <1>1, <1>5, MaybeInitiateOobwTypes, Zenon DEF ListTypes
  <2>2. WaitTypes'
    <3>1. CASE AssignSessionsToGetWaiters(enabled', ses)
      BY <1>1, <3>1, AssignTypes, Zenon
    <3>2. CASE session' = ses /\ UNCHANGED waitVars
      BY <1>1, <3>2 DEF WaitTypes, waitVars
    <3> QED BY <1>5, <3>1, <3>2, Zenon
  <2>3. LifeTypes'
    BY <1>2, <1>5, Zenon DEF OnSessionClose, LifeTypes
  <2> QED BY <1>5, <2>1, <2>2, <2>3, Zenon DEF ListTypes
<1> QED BY <1>3, <1>4, <1>5, Zenon DEF OnSessionClose

\* The out-of-band work steps keep the types.
LEMMA OobwStepTypes ==
  ASSUME ProcessTypes, NEW p \in Process,
         \/ \E result \in DisableResults : LockAndMaybeInitiateOobw(p, result)
         \/ StartOobw(p)
         \/ FinishOobw(p)
  PROVE  ProcessTypes'
<1> USE DEF ProcessTypes
<1>1. LifeTypes'
  BY Zenon DEF LockAndMaybeInitiateOobw, StartOobw, FinishOobw, LifeTypes
<1>2. ASSUME NEW result \in DisableResults, LockAndMaybeInitiateOobw(p, result)
      PROVE  ListTypes' /\ WaitTypes' /\ OobwTypes'
  <2>1. WaitTypes'
    BY <1>2, Zenon DEF LockAndMaybeInitiateOobw, WaitTypes, waitVars
  <2>2. callbacks' \subseteq Process \X DisableResults /\ checkerActive' \in BOOLEAN
    BY <1>2 DEF LockAndMaybeInitiateOobw, ListTypes
  <2>3. IsLists(enabled', disableWaitlist') /\ OobwTypes'
    <3> DEFINE requested == [oobwStatus EXCEPT ![p] = "REQUESTED"]
    <3>1. CASE InitiateOobw(p, enabled, requested, session, disableWaitlist, oobwThreads)
      <4>1. requested \in [Process -> OobwStatus]
        BY DEF OobwTypes, OobwStatus
      <4> QED BY <3>1, <4>1, InitiateOobwTypes, Zenon DEF ListTypes, OobwTypes
    <3>2. CASE UNCHANGED <<enabled, disableWaitlist, oobwVars>>
      BY <3>2 DEF ListTypes, IsLists, OobwTypes, oobwVars
    <3>3. CASE /\ oobwStatus' = [oobwStatus EXCEPT ![p] = "NOT_ACTIVE"]
               /\ UNCHANGED <<enabled, disableWaitlist, oobwThreads>>
      BY <3>3 DEF ListTypes, IsLists, OobwTypes, OobwStatus
    <3> QED BY <1>2, <3>1, <3>2, <3>3, Zenon DEF LockAndMaybeInitiateOobw
  <2> QED BY <2>1, <2>2, <2>3 DEF ListTypes
<1>3. CASE StartOobw(p)
  BY <1>1, <1>3 DEF StartOobw, ListTypes, IsLists, WaitTypes, OobwTypes, waitVars
<1>4. CASE FinishOobw(p)
  <2> DEFINE threads == oobwThreads \ {<<p, "working">>}
             status == [oobwStatus EXCEPT ![p] = "NOT_ACTIVE"]
             en == [enabled EXCEPT ![p] = IF @ = "DISABLED" THEN "ENABLED" ELSE @]
  <2>1. WaitTypes'
    <3>1. CASE AssignSessionsToGetWaiters(en, session)
      BY <3>1, AssignTypes DEF WaitTypes
    <3>2. CASE UNCHANGED <<session, waitVars>>
      BY <3>2 DEF WaitTypes, waitVars
    <3> QED BY <1>4, <3>1, <3>2 DEF FinishOobw
  <2>2. callbacks' \subseteq Process \X DisableResults /\ checkerActive' \in BOOLEAN
    BY <1>4 DEF FinishOobw, ListTypes
  <2>3. IsLists(enabled', disableWaitlist') /\ OobwTypes'
    <3>1. CASE UNCHANGED <<enabled, disableWaitlist, oobwStatus>> /\ oobwThreads' = threads
      BY <3>1 DEF ListTypes, IsLists, OobwTypes
    <3>2. CASE InitiateNextOobwRequest(en, status, session', threads)
      <4>1. IsLists(en, disableWaitlist)
        BY DEF ListTypes, IsLists, EnabledStatus
      <4>2. status \in [Process -> OobwStatus]
        BY DEF OobwTypes, OobwStatus
      <4>3. threads \in SUBSET (Process \X {"starting", "working"})
        BY DEF OobwTypes
      <4>4. CASE \E q \in Enabled(en) :
                   InitiateOobw(q, en, status, session', disableWaitlist, threads)
        BY <4>1, <4>2, <4>3, <4>4, InitiateOobwTypes, Zenon DEF Enabled, Status
      <4>5. CASE /\ enabled' = en /\ oobwStatus' = status /\ oobwThreads' = threads
                 /\ UNCHANGED disableWaitlist
        BY <4>1, <4>2, <4>3, <4>5 DEF OobwTypes, IsLists
      <4> QED BY <3>2, <4>4, <4>5, Zenon DEF InitiateNextOobwRequest
    <3> QED BY <1>4, <3>1, <3>2 DEF FinishOobw
  <2> QED BY <1>1, <2>1, <2>2, <2>3 DEF ListTypes
<1> QED BY <1>1, <1>2, <1>3, <1>4

\* attach() keeps the types.
LEMMA AttachSpawnedTypes ==
  ASSUME ProcessTypes, NEW p \in Process, NEW otherWaits \in BOOLEAN,
         AttachSpawned(p, otherWaits)
  PROVE  ProcessTypes'
<1> USE DEF ProcessTypes
<1> DEFINE idle == {q \in Process : WaitersFor({q}) # {} /\ Sessions(q, session) = {}}
<1>1. LifeTypes'
  <2>1. life' \in [Process -> ProcessLife]
    BY DEF AttachSpawned, LifeTypes, ProcessLife
  <2>2. processed' \in [Process -> 0..MaxRequests]
    BY ConstantsAreNat DEF AttachSpawned, LifeTypes
  <2>3. room' \in Nat
    BY RoomTypes DEF AttachSpawned, LifeTypes
  <2> QED BY <2>1, <2>2, <2>3 DEF LifeTypes
<1>2. OobwTypes'
  BY DEF AttachSpawned, OobwTypes, OobwStatus
<1>3. WaitTypes'
  <2>1. CASE UNCHANGED <<session, waitVars>>
    BY <2>1 DEF WaitTypes, waitVars
  <2>2. CASE AssignSessionsToGetWaiters(enabled', session)
    BY <2>2, AssignTypes DEF WaitTypes
  <2> QED BY <2>1, <2>2 DEF AttachSpawned
<1>4. ListTypes'
  <2>1. WaitersFor(idle) \in SUBSET (Process \X Waiter) /\ "SUCCESS" \in DisableResults
    BY Zenon DEF WaitersFor, ListTypes, IsLists, DisableResults
  <2>2. callbacks' = callbacks \cup OobwCallbacks(WaitersFor(idle), "SUCCESS")
    BY DEF AttachSpawned
  <2>3. callbacks' \subseteq Process \X DisableResults
    BY <2>1, <2>2, CallbackTypes, Zenon DEF ListTypes
  <2>4. enabled' \in [Process -> EnabledStatus]
    BY DEF AttachSpawned, ListTypes, IsLists, EnabledStatus
  <2>5. disableWaitlist' \subseteq Process \X Waiter /\ checkerActive' \in BOOLEAN
    BY DEF AttachSpawned, ListTypes, IsLists
  <2> QED BY <2>3, <2>4, <2>5 DEF ListTypes, IsLists
<1> QED BY <1>1, <1>2, <1>3, <1>4

\* Every step keeps the types of the processes, requests and commands.
LEMMA ProcessTypesStep ==
  ASSUME ProcessTypes, [Next]_vars
  PROVE  ProcessTypes'
<1> USE DEF ProcessTypes
<1>1. ASSUME UNCHANGED <<enabled, life, processed, session, waitVars, disableWaitlist,
                         callbacks, oobwVars, checkerActive>>,
             room' \in Nat
      PROVE  ProcessTypes'
  BY <1>1 DEF ListTypes, IsLists, WaitTypes, OobwTypes, LifeTypes, waitVars, oobwVars
<1>2. ASSUME ListTypes', room' \in Nat, UNCHANGED <<life, processed, session, waitVars, oobwVars>>
      PROVE  ProcessTypes'
  BY <1>2, Zenon DEF WaitTypes, OobwTypes, LifeTypes, waitVars, oobwVars
<1>3. CASE UNCHANGED vars
  BY <1>1, <1>3 DEF vars, LifeTypes
<1>4. ASSUME NEW r \in Request, NEW s \in Process \cup {NoProcess},
             NEW needsRestart \in BOOLEAN, NEW freed \in BOOLEAN,
             Get(r, s, needsRestart, freed)
      PROVE  ProcessTypes'
  BY <1>4, GetTypes, Zenon DEF Target
<1>5. ASSUME NEW r \in Request, RequestOOBW(r)
      PROVE  ProcessTypes'
  <2>1. OobwTypes'
    BY <1>5, Zenon DEF RequestOOBW, OobwTypes, OobwStatus
  <2> QED BY <1>5, <2>1 DEF RequestOOBW, ListTypes, IsLists, WaitTypes, LifeTypes, waitVars
<1>6. ASSUME NEW r \in Request, OnSessionInitiateFailure(r)
      PROVE  ProcessTypes'
  BY <1>2, <1>6, DetachProcessUnlockedTypes DEF OnSessionInitiateFailure
<1>7. ASSUME NEW r \in Request, NEW needed \in BOOLEAN, OnSessionClose(r, needed)
      PROVE  ProcessTypes'
  BY <1>7, OnSessionCloseTypes
<1>8. ASSUME NEW e \in 0..MaxRestarts, AbortSpawn(e)
      PROVE  ProcessTypes'
  BY <1>1, <1>8 DEF AbortSpawn, LifeTypes
<1>9. ASSUME NEW p \in Process, NEW otherWaits \in BOOLEAN, AttachSpawned(p, otherWaits)
      PROVE  ProcessTypes'
  BY <1>9, AttachSpawnedTypes
<1>10. ASSUME NEW otherWaits \in BOOLEAN, RejectSpawned(otherWaits)
      PROVE  ProcessTypes'
  BY <1>1, <1>10, RoomTypes DEF RejectSpawned, LifeTypes
<1>11. CASE SpawnFailed
  <2>1. WaitTypes'
    BY <1>11, RemoveWaitersTypes DEF SpawnFailed, AssignExceptionToGetWaiters, WaitTypes
  <2>2. disableWaitlist \in SUBSET (Process \X Waiter) /\ "ERROR" \in DisableResults
    BY DEF ListTypes, IsLists, DisableResults
  <2>3. callbacks' \subseteq Process \X DisableResults
    BY <1>11, <2>2, CallbackTypes DEF SpawnFailed, ListTypes
  <2>4. enabled' \in [Process -> EnabledStatus]
    BY <1>11, Zenon DEF SpawnFailed, ListTypes, IsLists, EnabledStatus
  <2>5. disableWaitlist' \subseteq Process \X Waiter /\ checkerActive' \in BOOLEAN
    BY <1>11 DEF SpawnFailed, ListTypes, IsLists
  <2>6. OobwTypes'
    BY <1>11 DEF SpawnFailed, OobwTypes, oobwVars
  <2>7. room' \in Nat
    BY <1>11, RoomTypes DEF SpawnFailed, LifeTypes
  <2>8. LifeTypes'
    BY <1>11, <2>7 DEF SpawnFailed, LifeTypes
  <2> QED BY <2>1, <2>3, <2>4, <2>5, <2>6, <2>8 DEF ListTypes, IsLists
<1>12. CASE RestartGroup
  BY <1>2, <1>12, DetachAllTypes DEF RestartGroup, Restart, LifeTypes
<1>13. ASSUME NEW e \in 1..MaxRestarts, NEW freed \in BOOLEAN, FinalizeRestart(e, freed)
      PROVE  ProcessTypes'
  <2>1. room' = room \/ room' = room + 1
    BY <1>13, Zenon DEF FinalizeRestart
  <2>2. room' \in Nat
    BY <2>1 DEF LifeTypes
  <2> QED BY <1>1, <1>13, <2>2 DEF FinalizeRestart
<1>14. ASSUME NEW p \in Process,
              \/ \E result \in DisableResults : LockAndMaybeInitiateOobw(p, result)
              \/ StartOobw(p) \/ FinishOobw(p)
      PROVE  ProcessTypes'
  BY <1>14, OobwStepTypes
<1>15. ASSUME NEW p \in Process, DetachProcess(p)
      PROVE  ProcessTypes'
  BY <1>2, <1>15, DetachProcessUnlockedTypes DEF DetachProcess
<1>16. ASSUME NEW p \in Process, ForceFreeCapacity(p)
      PROVE  ProcessTypes'
  <2>1. room' \in Rooms \cup {room}
    BY <1>16 DEF ForceFreeCapacity
  <2>2. room' \in Nat
    BY <2>1, RoomsAreNat DEF LifeTypes
  <2> QED BY <1>2, <1>16, <2>2, DetachTypes DEF ForceFreeCapacity
<1>17. ASSUME NEW a \in Admin, NEW p \in Process, DisableProcess(a, p)
      PROVE  ProcessTypes'
  <2>1. IsLists(enabled', disableWaitlist')
    BY <1>17, DisableTypes DEF DisableProcess, ListTypes, Waiter
  <2> QED BY <1>2, <1>17, <2>1 DEF DisableProcess, ListTypes, LifeTypes
<1>18. ASSUME NEW S \in SUBSET Process, GarbageCollect(S)
      PROVE  ProcessTypes'
  BY <1>2, <1>18, DetachTypes DEF GarbageCollect, LifeTypes
<1>19. ASSUME NEW exited \in SUBSET Detached, CheckDetachedProcesses(exited)
      PROVE  ProcessTypes'
  <2>1. life' \in [Process -> ProcessLife]
    BY <1>19 DEF CheckDetachedProcesses, LifeTypes, ProcessLife
  <2>2. ListTypes'
    BY <1>19 DEF CheckDetachedProcesses, ListTypes, IsLists
  <2> QED BY <1>19, <2>1, <2>2
          DEF CheckDetachedProcesses, WaitTypes, OobwTypes, LifeTypes, waitVars, oobwVars
<1>20. CASE Shutdown
  <2>1. WaitTypes'
    BY <1>20, RemoveWaitersTypes DEF Shutdown, AssignExceptionToGetWaiters, WaitTypes
  <2>2. ListTypes'
    BY <1>20, DetachAllTypes DEF Shutdown
  <2> QED BY <1>20, <2>1, <2>2 DEF Shutdown, OobwTypes, LifeTypes, oobwVars
<1>21. CASE RoomChanges \/ CapacityFreed
  BY <1>1, <1>21, RoomsAreNat, Zenon DEF RoomChanges, CapacityFreed
<1> QED
  BY <1>3, <1>4, <1>5, <1>6, <1>7, <1>8, <1>9, <1>10, <1>11, <1>12, <1>13, <1>14, <1>15,
     <1>16, <1>17, <1>18, <1>19, <1>20, <1>21, Zenon DEF Next

\* The processes, requests and commands keep their types.
LEMMA ProcessTypesHold == Spec => []ProcessTypes
<1>1. Init => ProcessTypes
  <2> SUFFICES ASSUME Init PROVE ProcessTypes
    OBVIOUS
  <2> USE DEF Init
  <2>1. ListTypes
    BY Zenon DEF ListTypes, IsLists, EnabledStatus
  <2>2. WaitTypes
    BY DEF WaitTypes, Target
  <2>3. OobwTypes
    BY DEF OobwTypes, OobwStatus
  <2>4. LifeTypes
    BY ConstantsAreNat, RoomsAreNat DEF LifeTypes, ProcessLife
  <2> QED BY <2>1, <2>2, <2>3, <2>4 DEF ProcessTypes
<1>2. ProcessTypes /\ [Next]_vars => ProcessTypes'
  BY ProcessTypesStep
<1> QED BY <1>1, <1>2, PTL DEF Spec

\* Every variable of the group keeps its type: in particular processesBeingSpawned and
\* the number of spawn loops are never decremented below zero, and getWaitlist's order
\* only relates requests that wait.
THEOREM TypeCorrect == Spec => []TypeOK
<1>1. SpawnTypes /\ ProcessTypes => TypeOK
  BY TypeGroups DEF ProcessTypes
<1> QED BY <1>1, SpawnTypesHold, ProcessTypesHold, PTL

-----------------------------------------------------------------------------
(* The process lists: where sessions may be and which processes are on the   *)
(* disable wait list.                                                       *)

\* The processes on the disable wait list dw are those disabling in en.
Matches(en, dw) ==
  /\ \A w \in dw : w[1] \in Disabling(en)
  /\ \A p \in Disabling(en) : \E w \in dw : w[1] = p

\* SessionsOnLiveProcesses is not inductive: a session is opened on a process of the
\* group, which must be known to be alive.
Live(en, ses) ==
  /\ \A p \in Process : en[p] # "DETACHED" => life[p] = "ALIVE"
  /\ \A r \in Request : ses[r] # NoProcess =>
       ses[r] \in Process /\ life[ses[r]] = "ALIVE" /\ en[ses[r]] # "DISABLED"

\* The same processes are detached as in en.
SameDetached(en) ==
  \A q \in Process : enabled'[q] = "DETACHED" <=> en[q] = "DETACHED"

\* The lists and the sessions are consistent.
ListInv == Matches(enabled, disableWaitlist) /\ Live(enabled, session)


\* Group::disable takes a process that serves a request to the disabling list, puts it
\* on the wait list, and detaches nothing.
LEMMA DisableLists ==
  ASSUME NEW p \in Process, NEW w, NEW en, NEW ses, NEW dw,
         IsLists(en, dw), Matches(en, dw), Live(en, ses), Disable(p, w, en, ses, dw)
  PROVE  Matches(enabled', disableWaitlist') /\ Live(enabled', ses) /\ SameDetached(en)
<1> DEFINE result == DisableResult(p, en, ses)
<1>1. /\ enabled' = [en EXCEPT ![p] = IF result = "DEFERRED" THEN "DISABLING"
                                      ELSE IF result = "SUCCESS" THEN "DISABLED" ELSE @]
      /\ disableWaitlist' = IF result = "DEFERRED" THEN dw \cup {<<p, w>>} ELSE dw
  BY DEF Disable
<1>2. /\ result = "DEFERRED" => en[p] \in {"ENABLED", "DISABLING"}
      /\ result = "SUCCESS" => en[p] = "ENABLED" /\ Sessions(p, ses) = {}
  BY DEF DisableResult
<1>3. en \in [Process -> EnabledStatus]
  BY DEF IsLists
<1> HIDE DEF result
<1>4. SameDetached(en)
  BY <1>1, <1>2, <1>3 DEF SameDetached
<1>5. Live(enabled', ses)
  BY <1>1, <1>2, <1>3 DEF Live, Sessions
<1>6. Matches(enabled', disableWaitlist')
  <2>1. CASE result = "DEFERRED"
    <3>1. Disabling(enabled') = Disabling(en) \cup {p}
      BY <1>1, <1>3, <2>1 DEF Disabling, Status
    <3>2. disableWaitlist' = dw \cup {<<p, w>>} /\ <<p, w>>[1] = p
      BY <1>1, <2>1
    <3> QED BY <3>1, <3>2, Zenon DEF Matches
  <2>2. CASE result # "DEFERRED"
    <3>1. Disabling(enabled') = Disabling(en)
      BY <1>1, <1>2, <1>3, <2>2, Zenon DEF Disabling, Status
    <3> QED BY <1>1, <2>2, <3>1, Zenon DEF Matches
  <2> QED BY <2>1, <2>2
<1> QED BY <1>4, <1>5, <1>6

\* Group::disable detaches nothing.
LEMMA DisableDetachesNone ==
  ASSUME NEW p \in Process, NEW w, NEW en, NEW ses, NEW dw,
         IsLists(en, dw), Disable(p, w, en, ses, dw)
  PROVE  SameDetached(en)
<1> DEFINE result == DisableResult(p, en, ses)
<1>1. enabled' = [en EXCEPT ![p] = IF result = "DEFERRED" THEN "DISABLING"
                                   ELSE IF result = "SUCCESS" THEN "DISABLED" ELSE @]
  BY DEF Disable
<1>2. result \in {"DEFERRED", "SUCCESS"} => en[p] # "DETACHED"
  BY Zenon DEF DisableResult
<1> HIDE DEF result
<1> QED BY <1>1, <1>2, Zenon DEF SameDetached, IsLists

\* Group::initiateOobw only changes the lists through Group::disable.
LEMMA InitiateOobwLists ==
  ASSUME NEW p \in Process, NEW en, NEW status, NEW ses, NEW dw, NEW threads,
         IsLists(en, dw), Matches(en, dw), Live(en, ses),
         InitiateOobw(p, en, status, ses, dw, threads)
  PROVE  Matches(enabled', disableWaitlist') /\ Live(enabled', ses) /\ SameDetached(en)
<1>1. Disable(p, "oobw", en, ses, dw)
  BY DEF InitiateOobw
<1> QED BY <1>1, DisableLists, Zenon

\* So does Group::maybeInitiateOobw.
LEMMA MaybeInitiateOobwLists ==
  ASSUME NEW p \in Process, NEW en, NEW ses, NEW dw, IsLists(en, dw), Matches(en, dw),
         Live(en, ses), MaybeInitiateOobw(p, en, ses, dw)
  PROVE  Matches(enabled', disableWaitlist') /\ Live(enabled', ses) /\ SameDetached(en)
<1>1. CASE ShouldInitiateOobw(p, en, oobwStatus)
  BY <1>1, InitiateOobwLists, Zenon DEF MaybeInitiateOobw
<1>2. CASE ~ShouldInitiateOobw(p, en, oobwStatus)
  BY <1>2, Zenon DEF MaybeInitiateOobw, SameDetached
<1> QED BY <1>1, <1>2, Zenon

\* The waiting requests get sessions on enabled or disabling processes.
LEMMA AssignLists ==
  ASSUME NEW en, NEW ses, Live(en, ses), getWaitlist \subseteq Request,
         AssignSessionsToGetWaiters(en, ses)
  PROVE  Live(en, session') /\ getWaitlist' \subseteq getWaitlist
<1>1. PICK f \in [getWaitlist -> Enabled(en) \cup Disabling(en) \cup {NoProcess}] :
        /\ session' = Assigned(f, getWaitlist, ses)
        /\ RemoveWaiters({r \in getWaitlist : f[r] # NoProcess})
  BY Zenon DEF AssignSessionsToGetWaiters
<1>2. ASSUME NEW r \in getWaitlist, f[r] # NoProcess
      PROVE  f[r] \in Process /\ en[f[r]] \in {"ENABLED", "DISABLING"}
  BY <1>2 DEF Enabled, Disabling, Status
<1>3. ASSUME NEW r \in Request, session'[r] # NoProcess
      PROVE  /\ session'[r] \in Process /\ life[session'[r]] = "ALIVE"
             /\ en[session'[r]] # "DISABLED"
  BY <1>1, <1>2, <1>3 DEF Live, Assigned
<1>4. getWaitlist' \subseteq getWaitlist
  BY <1>1 DEF RemoveWaiters
<1> QED BY <1>3, <1>4, Zenon DEF Live

\* A request is routed to an enabled or disabling process.
LEMMA GetSessionLists ==
  ASSUME NEW r \in Request, NEW s, NEW en, NEW rst, Live(en, session),
         session \in [Request -> Target], GetSession(r, s, en, rst)
  PROVE  Live(en, session')
<1> DEFINE targets == IF Enabled(en) = {} /\ rst THEN {} ELSE Route(s, en, session)
<1>1. \A p \in targets : p \in Process /\ en[p] \in {"ENABLED", "DISABLING"}
  BY DEF Route, LeastBusy, Enabled, Disabling, Status
<1>2. CASE targets # {}
  <2>1. PICK p \in targets : session' = [session EXCEPT ![r] = p]
    BY <1>2 DEF GetSession
  <2> HIDE DEF targets
  <2> QED BY <1>1, <2>1, SMTT(30) DEF Live
<1>3. CASE targets = {}
  BY <1>3 DEF GetSession, Live
<1> QED BY <1>2, <1>3

\* Detaching processes takes them off the disable wait list.
LEMMA DetachLists ==
  ASSUME ListInv, ListTypes, NEW S, Detach(S)
  PROVE  Matches(enabled', disableWaitlist') /\ Live(enabled', session)
<1>1. enabled' = [p \in Process |-> IF p \in S THEN "DETACHED" ELSE enabled[p]]
  BY DEF Detach
<1>2. Live(enabled', session)
  <2>1. \A p \in Process : enabled'[p] # "DETACHED" => life[p] = "ALIVE"
    BY <1>1 DEF ListInv, Live
  <2> QED BY <1>1, <2>1 DEF ListInv, Live
<1>3. Disabling(enabled') = Disabling(enabled) \ S
  BY <1>1 DEF Disabling, Status
<1>4. disableWaitlist' = {w \in disableWaitlist : w[1] \notin S}
  BY DEF Detach, WaitersFor, ListInv, Matches
<1> QED BY <1>2, <1>3, <1>4 DEF ListInv, Matches

\* So does detaching all of them.
LEMMA DetachAllLists ==
  ASSUME ListInv, DetachAll
  PROVE  Matches(enabled', disableWaitlist') /\ Live(enabled', session)
<1>1. enabled' = [p \in Process |-> "DETACHED"] /\ disableWaitlist' = {}
  BY DEF DetachAll
<1>2. Matches(enabled', disableWaitlist')
  BY <1>1 DEF Matches, Disabling, Status
<1>3. Live(enabled', session)
  BY <1>1 DEF ListInv, Live
<1> QED BY <1>2, <1>3

-----------------------------------------------------------------------------
(* The steps.                                                               *)

\* A step that leaves the life of the processes alone keeps ListInv when it leaves
\* lists and sessions that are consistent.
LEMMA KeepsListInv ==
  ASSUME UNCHANGED life, Matches(enabled', disableWaitlist'), Live(enabled', session')
  PROVE  ListInv'
BY Zenon DEF ListInv, Matches, Live, Disabling, Status

\* onSessionClose() keeps ListInv.
LEMMA OnSessionCloseLists ==
  ASSUME ProcessTypes, ListInv, NEW r \in Request, NEW needed \in BOOLEAN,
         OnSessionClose(r, needed)
  PROVE  ListInv'
<1> USE DEF ProcessTypes
<1> DEFINE p == session[r]
           ses == [session EXCEPT ![r] = NoProcess]
<1>1. p \in Process /\ life[p] = "ALIVE" /\ UNCHANGED life
  BY Zenon DEF OnSessionClose, ListInv, Live
<1>2. \A q \in Request : ses[q] # NoProcess => ses[q] = session[q]
  BY SMTT(30) DEF WaitTypes
<1>3. Live(enabled, ses)
  BY <1>2, Zenon DEF ListInv, Live
<1>4. CASE DetachProcessUnlocked(p, ses) /\ session' = ses
  <2>1. Matches(enabled', disableWaitlist') /\ Live(enabled', session)
    BY <1>4, DetachLists, Zenon DEF DetachProcessUnlocked
  <2>2. Live(enabled', ses)
    BY <1>2, <2>1, Zenon DEF Live
  <2> QED BY <1>1, <1>4, <2>1, <2>2, KeepsListInv, Zenon
<1>5. CASE /\ ShouldDisable(p, ses)
           /\ MaybeInitiateOobw(p, [enabled EXCEPT ![p] = "DISABLED"], ses,
                                disableWaitlist \ WaitersFor({p}))
           /\ session' = ses
  <2> DEFINE en == [enabled EXCEPT ![p] = "DISABLED"]
             dw == disableWaitlist \ WaitersFor({p})
  <2>1. IsLists(en, dw)
    BY <1>1, Zenon DEF ListTypes, IsLists, EnabledStatus
  <2>2. Disabling(en) = Disabling(enabled) \ {p}
    BY <1>1 DEF ListTypes, IsLists, Disabling, Status
  <2>3. dw = {w \in disableWaitlist : w[1] # p}
    BY DEF WaitersFor
  <2>4. Matches(en, dw)
    BY <2>2, <2>3, Zenon DEF ListInv, Matches
  <2>5. Live(en, ses)
    BY <1>1, <1>3, <1>5, Zenon DEF Live, ShouldDisable, Sessions, ListTypes, IsLists
  <2>6. Matches(enabled', disableWaitlist') /\ Live(enabled', ses)
    BY <1>1, <1>5, <2>1, <2>4, <2>5, MaybeInitiateOobwLists
  <2> QED BY <1>1, <1>5, <2>6, KeepsListInv, Zenon
<1>6. CASE /\ MaybeInitiateOobw(p, enabled, ses, disableWaitlist)
           /\ IF getWaitlist # {} /\ enabled'[p] = "ENABLED"
              THEN AssignSessionsToGetWaiters(enabled', ses)
              ELSE session' = ses /\ UNCHANGED waitVars
  <2>1. Matches(enabled', disableWaitlist') /\ Live(enabled', ses)
    BY <1>1, <1>3, <1>6, MaybeInitiateOobwLists, Zenon DEF ListTypes, ListInv
  <2>2. Live(enabled', session')
    BY <1>6, <2>1, AssignLists, Zenon DEF WaitTypes
  <2> QED BY <1>1, <2>1, <2>2, KeepsListInv, SMTT(30)
<1> QED BY <1>4, <1>5, <1>6, Zenon DEF OnSessionClose

\* The end of out-of-band work keeps ListInv.
LEMMA FinishOobwLists ==
  ASSUME ProcessTypes, ListInv, NEW p \in Process, FinishOobw(p)
  PROVE  ListInv'
<1> USE DEF ProcessTypes
<1> DEFINE threads == oobwThreads \ {<<p, "working">>}
           status == [oobwStatus EXCEPT ![p] = "NOT_ACTIVE"]
           en == [enabled EXCEPT ![p] = IF @ = "DISABLED" THEN "ENABLED" ELSE @]
<1>1. UNCHANGED life
  BY DEF FinishOobw
<1>2. CASE UNCHANGED <<enabled, session, disableWaitlist>>
  BY <1>1, <1>2, KeepsListInv DEF ListInv
<1>3. CASE /\ IF enabled[p] = "DISABLED" THEN AssignSessionsToGetWaiters(en, session)
              ELSE UNCHANGED <<session, waitVars>>
           /\ InitiateNextOobwRequest(en, status, session', threads)
  <2>1. IsLists(en, disableWaitlist)
    BY DEF ListTypes, IsLists, EnabledStatus
  <2>2. Disabling(en) = Disabling(enabled)
    BY DEF ListTypes, IsLists, Disabling, Status
  <2>3. Matches(en, disableWaitlist)
    <3> HIDE DEF en
    <3> QED BY <2>2 DEF ListInv, Matches
  <2>4. Live(en, session)
    <3>1. \A q \in Process : /\ en[q] = "DETACHED" <=> enabled[q] = "DETACHED"
                             /\ en[q] = "DISABLED" => enabled[q] = "DISABLED"
      BY DEF ListTypes, IsLists
    <3> HIDE DEF en
    <3> QED BY <3>1 DEF ListInv, Live
  <2>5. Live(en, session')
    BY <1>3, <2>4, AssignLists DEF WaitTypes
  <2>6. CASE \E q \in Enabled(en) :
               InitiateOobw(q, en, status, session', disableWaitlist, threads)
    <3>1. PICK q \in Enabled(en) :
            InitiateOobw(q, en, status, session', disableWaitlist, threads)
      BY <2>6
    <3>2. q \in Process
      BY DEF Enabled, Status
    <3>3. Matches(enabled', disableWaitlist') /\ Live(enabled', session')
      BY <2>1, <2>3, <2>5, <3>1, <3>2, InitiateOobwLists
    <3> QED BY <1>1, <3>3, KeepsListInv
  <2>7. CASE enabled' = en /\ UNCHANGED disableWaitlist
    BY <1>1, <2>3, <2>5, <2>7, KeepsListInv
  <2> QED BY <1>3, <2>6, <2>7, Zenon DEF InitiateNextOobwRequest
<1> QED BY <1>2, <1>3 DEF FinishOobw

\* attach() keeps ListInv: nothing refers to the new process, and the processes it
\* disables serve no request.
LEMMA AttachSpawnedLists ==
  ASSUME ProcessTypes, ListInv, NEW p \in Process, NEW otherWaits \in BOOLEAN,
         AttachSpawned(p, otherWaits)
  PROVE  ListInv'
<1> USE DEF ProcessTypes
<1> DEFINE idle == {q \in Process : WaitersFor({q}) # {} /\ Sessions(q, session) = {}}
<1>1. /\ enabled' = [q \in Process |-> IF q = p THEN "ENABLED"
                                       ELSE IF q \in idle THEN "DISABLED" ELSE enabled[q]]
      /\ disableWaitlist' = disableWaitlist \ WaitersFor(idle)
      /\ life' = [life EXCEPT ![p] = "ALIVE"]
  BY SMTT(30) DEF AttachSpawned
<1>2. /\ \A r \in Request : session[r] # p
      /\ \A x \in disableWaitlist : x[1] # p
  BY Zenon DEF AttachSpawned, Unused
<1>3. \A q \in idle : q \in Disabling(enabled) /\ \A r \in Request : session[r] # q
  BY Zenon DEF WaitersFor, Sessions, ListInv, Matches
<1>4. Matches(enabled', disableWaitlist')
  <2>1. p \notin Disabling(enabled)
    BY <1>2 DEF ListInv, Matches
  <2>2. Disabling(enabled') = Disabling(enabled) \ idle
    BY <1>1, <2>1 DEF Disabling, Status
  <2>3. disableWaitlist' = {w \in disableWaitlist : w[1] \notin idle}
    BY <1>1, Zenon DEF WaitersFor
  <2> HIDE DEF idle
  <2> QED BY <2>2, <2>3 DEF ListInv, Matches
<1>5. Live(enabled, session)'
  <2> SUFFICES
        /\ \A q \in Process : enabled'[q] # "DETACHED" => life'[q] = "ALIVE"
        /\ \A r \in Request : session'[r] # NoProcess =>
             session'[r] \in Process /\ life'[session'[r]] = "ALIVE"
               /\ enabled'[session'[r]] # "DISABLED"
    BY Zenon DEF Live
  <2>1. \A q \in Process : enabled'[q] # "DETACHED" => life'[q] = "ALIVE"
    BY <1>1, <1>3, Zenon DEF ListInv, Live, LifeTypes, Disabling, Status
  <2>2. \A r \in Request : session[r] # NoProcess =>
          session[r] \in Process /\ life'[session[r]] = "ALIVE"
            /\ enabled'[session[r]] # "DISABLED"
    BY <1>1, <1>2, <1>3, Zenon DEF ListInv, Live, LifeTypes
  <2>3. CASE UNCHANGED session
    BY <2>1, <2>2, <2>3, Zenon
  <2>4. CASE AssignSessionsToGetWaiters(enabled', session)
    <3>1. PICK f \in [getWaitlist -> Enabled(enabled') \cup Disabling(enabled') \cup {NoProcess}] :
            session' = Assigned(f, getWaitlist, session)
      BY <2>4 DEF AssignSessionsToGetWaiters
    <3>2. ASSUME NEW r \in getWaitlist, f[r] # NoProcess
          PROVE  f[r] \in Process /\ enabled'[f[r]] \in {"ENABLED", "DISABLING"}
      BY <3>2, SMTT(30) DEF Enabled, Disabling, Status
    <3> QED BY <2>1, <2>2, <3>1, <3>2, Zenon DEF Assigned
  <2> QED BY <2>3, <2>4, Zenon DEF AttachSpawned
<1> QED BY <1>4, <1>5 DEF ListInv, Matches, Disabling, Status

\* The detached processes checker only changes processes that serve no request.
LEMMA CheckDetachedProcessesLists ==
  ASSUME ProcessTypes, ListInv, NEW exited, CheckDetachedProcesses(exited)
  PROVE  ListInv'
<1> USE DEF ProcessTypes
<1>1. UNCHANGED <<enabled, session, disableWaitlist>>
  BY SMTT(30) DEF CheckDetachedProcesses
<1>2. ASSUME NEW q \in Process, life'[q] # life[q]
      PROVE  enabled[q] = "DETACHED" /\ (life[q] = "ALIVE" => Sessions(q, session) = {})
  BY <1>2 DEF CheckDetachedProcesses, CanCleanup, CanTriggerShutdown, Detached
<1>3. \A q \in Process : enabled'[q] # "DETACHED" => life'[q] = "ALIVE"
  BY <1>1, <1>2, Zenon DEF ListInv, Live
<1>4. ASSUME NEW r \in Request, session'[r] # NoProcess
      PROVE  /\ session'[r] \in Process /\ life'[session'[r]] = "ALIVE"
             /\ enabled'[session'[r]] # "DISABLED"
  BY <1>1, <1>2, <1>4, Zenon DEF ListInv, Live, Sessions
<1>5. Matches(enabled, disableWaitlist)'
  BY <1>1, Zenon DEF ListInv, Matches, Disabling, Status
<1> QED BY <1>3, <1>4, <1>5, Zenon DEF ListInv, Live

\* A failed spawn puts the disabling processes back into rotation.
LEMMA SpawnFailedLists ==
  ASSUME ProcessTypes, ListInv, SpawnFailed
  PROVE  ListInv'
<1> USE DEF ProcessTypes
<1>1. UNCHANGED <<life, session>>
  BY DEF SpawnFailed
<1>2. CASE UNCHANGED <<enabled, disableWaitlist>>
  BY <1>1, <1>2, KeepsListInv, Zenon DEF ListInv
<1>3. CASE /\ enabled' = [p \in Process |->
                            IF WaitersFor({p}) # {} /\ enabled[p] = "DISABLING"
                            THEN "ENABLED" ELSE enabled[p]]
           /\ disableWaitlist' = {}
  <2>1. \A p \in Disabling(enabled) : WaitersFor({p}) # {}
    BY DEF ListInv, Matches, WaitersFor
  <2>2. Disabling(enabled') = {}
    BY <1>3, <2>1 DEF Disabling, Status
  <2>3. Matches(enabled', disableWaitlist')
    BY <1>3, <2>2, Zenon DEF Matches
  <2>4. Live(enabled', session)
    BY <1>3, Zenon DEF ListInv, Live
  <2> QED BY <1>1, <2>3, <2>4, KeepsListInv, Zenon
<1> QED BY <1>2, <1>3 DEF SpawnFailed

\* Every step keeps ListInv.
LEMMA ListInvStep ==
  ASSUME ProcessTypes, ListInv, [Next]_vars
  PROVE  ListInv'
<1> USE DEF ProcessTypes
<1>1. ASSUME UNCHANGED <<life, session>>,
             \/ UNCHANGED <<enabled, disableWaitlist>>
             \/ \E S : Detach(S)
             \/ DetachAll
      PROVE  ListInv'
  BY <1>1, DetachLists, DetachAllLists, KeepsListInv DEF ListInv
<1>2. CASE UNCHANGED vars
  BY <1>1, <1>2 DEF vars
<1>3. ASSUME NEW r \in Request, NEW s \in Process \cup {NoProcess},
             NEW needsRestart \in BOOLEAN, NEW freed \in BOOLEAN,
             Get(r, s, needsRestart, freed)
      PROVE  ListInv'
  <2>1. UNCHANGED life /\ GetSession(r, s, enabled', restarting')
    BY <1>3 DEF Get
  <2>2. DetachAll \/ UNCHANGED <<enabled, disableWaitlist>>
    BY <1>3, Zenon DEF Get, Restart
  <2>3. Matches(enabled', disableWaitlist') /\ Live(enabled', session)
    BY <2>2, DetachAllLists DEF ListInv
  <2>4. Live(enabled', session')
    BY <2>1, <2>3, GetSessionLists, SMTT(30) DEF WaitTypes
  <2> QED BY <2>1, <2>3, <2>4, KeepsListInv
<1>4. ASSUME NEW r \in Request, RequestOOBW(r) \/ OnSessionInitiateFailure(r)
      PROVE  ListInv'
  BY <1>1, <1>4, Zenon DEF RequestOOBW, OnSessionInitiateFailure, DetachProcessUnlocked
<1>5. ASSUME NEW r \in Request, NEW needed \in BOOLEAN, OnSessionClose(r, needed)
      PROVE  ListInv'
  BY <1>5, OnSessionCloseLists
<1>6. ASSUME NEW e \in 0..MaxRestarts, AbortSpawn(e)
      PROVE  ListInv'
  BY <1>1, <1>6 DEF AbortSpawn
<1>7. ASSUME NEW p \in Process, NEW otherWaits \in BOOLEAN, AttachSpawned(p, otherWaits)
      PROVE  ListInv'
  BY <1>7, AttachSpawnedLists
<1>8. ASSUME NEW otherWaits \in BOOLEAN, RejectSpawned(otherWaits)
      PROVE  ListInv'
  BY <1>1, <1>8, Zenon DEF RejectSpawned
<1>9. CASE SpawnFailed
  BY <1>9, SpawnFailedLists, Zenon
<1>10. CASE RestartGroup
  BY <1>1, <1>10, Zenon DEF RestartGroup, Restart
<1>11. ASSUME NEW e \in 1..MaxRestarts, NEW freed \in BOOLEAN, FinalizeRestart(e, freed)
      PROVE  ListInv'
  BY <1>1, <1>11, Zenon DEF FinalizeRestart
<1>12. ASSUME NEW p \in Process, NEW result \in DisableResults,
              LockAndMaybeInitiateOobw(p, result)
      PROVE  ListInv'
  <2> DEFINE requested == [oobwStatus EXCEPT ![p] = "REQUESTED"]
  <2>1. UNCHANGED <<life, session>>
    BY <1>12, Zenon DEF LockAndMaybeInitiateOobw
  <2>2. CASE UNCHANGED <<enabled, disableWaitlist>>
    BY <1>1, <2>1, <2>2, Zenon
  <2>3. CASE InitiateOobw(p, enabled, requested, session, disableWaitlist, oobwThreads)
    BY <2>1, <2>3, InitiateOobwLists, KeepsListInv, Zenon DEF ListTypes, ListInv
  <2> QED BY <1>12, <2>2, <2>3, Zenon DEF LockAndMaybeInitiateOobw
<1>13. ASSUME NEW p \in Process, StartOobw(p)
      PROVE  ListInv'
  BY <1>1, <1>13, Zenon DEF StartOobw
<1>14. ASSUME NEW p \in Process, FinishOobw(p)
      PROVE  ListInv'
  BY <1>14, FinishOobwLists, Zenon
<1>15. ASSUME NEW p \in Process, DetachProcess(p) \/ ForceFreeCapacity(p)
      PROVE  ListInv'
  BY <1>1, <1>15, Zenon DEF DetachProcess, DetachProcessUnlocked, ForceFreeCapacity
<1>16. ASSUME NEW a \in Admin, NEW p \in Process, DisableProcess(a, p)
      PROVE  ListInv'
  BY <1>16, DisableLists, KeepsListInv, Zenon DEF DisableProcess, ListTypes, ListInv
<1>17. ASSUME NEW S \in SUBSET Process, GarbageCollect(S)
      PROVE  ListInv'
  BY <1>1, <1>17, Zenon DEF GarbageCollect
<1>18. ASSUME NEW exited \in SUBSET Detached, CheckDetachedProcesses(exited)
      PROVE  ListInv'
  BY <1>18, CheckDetachedProcessesLists
<1>19. CASE Shutdown
  BY <1>1, <1>19, Zenon DEF Shutdown
<1>20. CASE RoomChanges \/ CapacityFreed
  BY <1>1, <1>20 DEF RoomChanges, CapacityFreed
<1> QED
  BY <1>2, <1>3, <1>4, <1>5, <1>6, <1>7, <1>8, <1>9, <1>10, <1>11, <1>12, <1>13, <1>14,
     <1>15, <1>16, <1>17, <1>18, <1>19, <1>20 DEF Next

\* The lists and the sessions stay consistent.
LEMMA ListInvHolds == Spec => []ListInv
<1>1. Init => ListInv
  <2> SUFFICES ASSUME Init PROVE ListInv
    OBVIOUS
  <2>1. Matches(enabled, disableWaitlist)
    BY DEF Init, Matches, Disabling, Status
  <2>2. Live(enabled, session)
    BY DEF Init, Live
  <2> QED BY <2>1, <2>2 DEF ListInv
<1>2. ProcessTypes /\ ListInv /\ [Next]_vars => ListInv'
  BY ListInvStep
<1> QED BY <1>1, <1>2, ProcessTypesHold, PTL DEF Spec

\* The assertions of attach() and enableAllDisablingProcesses() on the disable wait
\* list always hold.
THEOREM DisableWaitlistMatchesHolds == Spec => []DisableWaitlistMatches
<1>1. ListInv => DisableWaitlistMatches
  BY DEF ListInv, Matches, DisableWaitlistMatches
<1> QED BY <1>1, ListInvHolds, PTL

\* No session is ever open on a process that was told to shut down or is disabled,
\* as onSessionClose() asserts.
THEOREM SessionsOnLiveProcessesHolds == Spec => []SessionsOnLiveProcesses
<1>1. ListInv => SessionsOnLiveProcesses
  BY DEF ListInv, Live, SessionsOnLiveProcesses
<1> QED BY <1>1, ListInvHolds, PTL

-----------------------------------------------------------------------------
(* Detached processes and the shutdown of the group.                        *)

\* The two invariants that are proved together.
ShutdownInv == DetachedAreWatched /\ ShutDownGroupIsEmpty

\* A step that detaches nothing, and that gives nothing to a group that was shut down.
Quiet ==
  /\ UNCHANGED <<lifeStatus, life, checkerActive>>
  /\ SameDetached(enabled)
  /\ ~IsAlive => getWaitlist' \subseteq getWaitlist
  /\ lifeStatus = "SHUT_DOWN" =>
       \A r \in Request : session'[r] # NoProcess => session[r] # NoProcess

\* Such a step keeps ShutdownInv.
LEMMA QuietKeepsShutdownInv ==
  ASSUME ShutdownInv, ListInv', Quiet
  PROVE  ShutdownInv'
<1> USE DEF ShutdownInv, Quiet
<1>1. DetachedAreWatched'
  BY DEF DetachedAreWatched, Detached, SameDetached
<1>2. ASSUME ~IsAlive
      PROVE  /\ \A p \in Process : enabled'[p] = "DETACHED"
             /\ getWaitlist' = {} /\ disableWaitlist' = {}
  <2>1. \A p \in Process : enabled'[p] = "DETACHED"
    BY <1>2 DEF ShutDownGroupIsEmpty, SameDetached
  <2>2. Disabling(enabled') = {}
    BY <2>1 DEF Disabling, Status
  <2>3. disableWaitlist' = {}
    BY <2>2, Zenon DEF ListInv, Matches
  <2>4. getWaitlist' = {}
    BY <1>2, Zenon DEF ShutDownGroupIsEmpty
  <2> QED BY <2>1, <2>3, <2>4, Zenon
<1>3. ShutDownGroupIsEmpty'
  BY <1>2, Zenon DEF ShutDownGroupIsEmpty, IsAlive
<1> QED BY <1>1, <1>3

\* A step that detaches processes starts the checker.
LEMMA DetachKeepsShutdownInv ==
  ASSUME ShutdownInv, ListInv', ListTypes, NEW S \in SUBSET Process, Detach(S),
         UNCHANGED <<lifeStatus, life>>,
         getWaitlist' \subseteq getWaitlist,
         lifeStatus = "SHUT_DOWN" =>
           \A r \in Request : session'[r] # NoProcess => session[r] # NoProcess
  PROVE  ShutdownInv'
<1>1. CASE IsAlive
  <2>1. enabled' = [p \in Process |-> IF p \in S THEN "DETACHED" ELSE enabled[p]]
    BY Zenon DEF Detach
  <2>2. checkerActive' = (checkerActive \/ \E p \in S : enabled[p] # "DETACHED")
    BY Zenon DEF Detach
  <2>3. ASSUME NEW q \in Detached' PROVE checkerActive'
    <3>1. q \in Process /\ enabled'[q] = "DETACHED" /\ life[q] # "DEAD"
      BY <2>3 DEF Detached
    <3>2. CASE enabled[q] = "DETACHED"
      BY <2>2, <3>1, <3>2, Zenon DEF ShutdownInv, DetachedAreWatched, Detached
    <3>3. CASE enabled[q] # "DETACHED"
      BY <2>1, <2>2, <3>1, <3>3, Zenon
    <3> QED BY <3>2, <3>3, Zenon
  <2> QED BY <1>1, <2>3, Zenon DEF ShutdownInv, DetachedAreWatched, ShutDownGroupIsEmpty, IsAlive
<1>2. CASE ~IsAlive
  <2>1. \A p \in Process : enabled[p] = "DETACHED"
    BY <1>2, Zenon DEF ShutdownInv, ShutDownGroupIsEmpty
  <2>2. SameDetached(enabled)
    BY <2>1, Zenon DEF Detach, SameDetached
  <2>3. UNCHANGED checkerActive
    BY <2>1 DEF Detach, ListTypes
  <2> QED BY <2>2, <2>3, QuietKeepsShutdownInv DEF Quiet
<1> QED BY <1>1, <1>2, Zenon

\* detachAll() starts the checker, and belongs to a group that is alive or that begins
\* to shut down and has answered its waiting requests.
LEMMA DetachAllKeepsShutdownInv ==
  ASSUME DetachAll,
         \/ lifeStatus' = "ALIVE"
         \/ lifeStatus' = "SHUTTING_DOWN" /\ getWaitlist' = {}
  PROVE  ShutdownInv'
<1>1. checkerActive' = TRUE /\ disableWaitlist' = {} /\ \A p \in Process : enabled'[p] = "DETACHED"
  BY Zenon DEF DetachAll
<1> QED BY <1>1 DEF ShutdownInv, DetachedAreWatched, ShutDownGroupIsEmpty, IsAlive

\* onSessionClose() keeps ShutdownInv.
LEMMA OnSessionCloseShutdown ==
  ASSUME ProcessTypes, ListInv, ListInv', ShutdownInv, NEW r \in Request,
         NEW needed \in BOOLEAN, OnSessionClose(r, needed)
  PROVE  ShutdownInv'
<1> USE DEF ProcessTypes
<1> DEFINE p == session[r]
           ses == [session EXCEPT ![r] = NoProcess]
<1>1. /\ p \in Process /\ lifeStatus # "SHUT_DOWN" /\ UNCHANGED <<lifeStatus, life>>
  BY Zenon DEF OnSessionClose, ListInv, Live, ShutdownInv, ShutDownGroupIsEmpty
<1>2. Live(enabled, ses)
  <2>1. \A q \in Request : ses[q] # NoProcess => ses[q] = session[q]
    BY DEF WaitTypes
  <2> QED BY <2>1 DEF ListInv, Live
<1>3. CASE DetachProcessUnlocked(p, ses) /\ UNCHANGED waitVars
  <2>1. Detach({p}) /\ getWaitlist' \subseteq getWaitlist
    BY <1>3 DEF DetachProcessUnlocked, waitVars
  <2> QED BY <1>1, <2>1, DetachKeepsShutdownInv
<1>4. CASE /\ ShouldDisable(p, ses)
           /\ MaybeInitiateOobw(p, [enabled EXCEPT ![p] = "DISABLED"], ses,
                                disableWaitlist \ WaitersFor({p}))
           /\ UNCHANGED <<waitVars, checkerActive>>
  <2> DEFINE en == [enabled EXCEPT ![p] = "DISABLED"]
             dw == disableWaitlist \ WaitersFor({p})
  <2>1. /\ MaybeInitiateOobw(p, en, ses, dw)
        /\ ~ShouldInitiateOobw(p, en, oobwStatus) => enabled' = en
    BY <1>4, Zenon DEF MaybeInitiateOobw
  <2>2. en[p] = "DISABLED"
    BY <1>1 DEF ListTypes, IsLists
  <2>3. ShouldInitiateOobw(p, en, oobwStatus) => enabled' = en
    <3>1. DisableResult(p, en, ses) = "NOOP"
      BY <2>2 DEF DisableResult
    <3>2. ASSUME Disable(p, "oobw", en, ses, dw) PROVE enabled' = en
      <4>1. enabled' = [en EXCEPT ![p] = @]
        BY <3>1, <3>2, Zenon DEF Disable
      <4> QED BY <4>1, Zenon DEF ListTypes, IsLists
    <3> QED BY <2>1, <3>2 DEF MaybeInitiateOobw, InitiateOobw
  <2>4. SameDetached(enabled)
    BY <1>1, <1>4, <2>1, <2>3, Zenon DEF SameDetached, ShouldDisable, ListTypes, IsLists
  <2> QED BY <1>1, <1>4, <2>4, QuietKeepsShutdownInv DEF Quiet, waitVars
<1>5. CASE /\ MaybeInitiateOobw(p, enabled, ses, disableWaitlist)
           /\ IF getWaitlist # {} /\ enabled'[p] = "ENABLED"
              THEN AssignSessionsToGetWaiters(enabled', ses)
              ELSE session' = ses /\ UNCHANGED waitVars
           /\ UNCHANGED checkerActive
  <2>1. SameDetached(enabled) /\ Live(enabled', ses)
    BY <1>1, <1>2, <1>5, MaybeInitiateOobwLists, Zenon DEF ListTypes, ListInv
  <2>2. getWaitlist' \subseteq getWaitlist
    BY <1>5, <2>1, AssignLists, Zenon DEF WaitTypes, waitVars
  <2> QED BY <1>1, <1>5, <2>1, <2>2, QuietKeepsShutdownInv, Zenon DEF Quiet
<1> QED BY <1>3, <1>4, <1>5, Zenon DEF OnSessionClose

\* The end of out-of-band work keeps ShutdownInv.
LEMMA FinishOobwShutdown ==
  ASSUME ProcessTypes, ListInv, ListInv', ShutdownInv, NEW p \in Process, FinishOobw(p)
  PROVE  ShutdownInv'
<1> USE DEF ProcessTypes
<1>1. UNCHANGED <<lifeStatus, life, checkerActive>>
  BY DEF FinishOobw
<1>2. CASE UNCHANGED <<enabled, session, waitVars>>
  BY <1>1, <1>2, QuietKeepsShutdownInv, Zenon DEF Quiet, SameDetached, waitVars
<1>3. CASE IsAlive /\ ~UNCHANGED <<enabled, session, waitVars>>
  <2> DEFINE threads == oobwThreads \ {<<p, "working">>}
             status == [oobwStatus EXCEPT ![p] = "NOT_ACTIVE"]
             en == [enabled EXCEPT ![p] = IF @ = "DISABLED" THEN "ENABLED" ELSE @]
  <2>1. InitiateNextOobwRequest(en, status, session', threads)
    BY <1>3 DEF FinishOobw
  <2>2. \A q \in Process : en[q] = "DETACHED" <=> enabled[q] = "DETACHED"
    BY DEF ListTypes, IsLists
  <2>3. IsLists(en, disableWaitlist)
    BY Zenon DEF ListTypes, IsLists, EnabledStatus
  <2>4. ASSUME NEW q \in Enabled(en),
               InitiateOobw(q, en, status, session', disableWaitlist, threads)
        PROVE  SameDetached(en)
    <3>1. Disable(q, "oobw", en, session', disableWaitlist) /\ q \in Process
      BY <2>4, Zenon DEF InitiateOobw, Enabled, Status
    <3> QED BY <2>3, <3>1, DisableDetachesNone, Zenon
  <2>5. SameDetached(en)
    BY <2>1, <2>4, Zenon DEF InitiateNextOobwRequest, SameDetached
  <2>6. SameDetached(enabled)
    <3> HIDE DEF en
    <3> QED BY <2>2, <2>5 DEF SameDetached
  <2> QED BY <1>1, <1>3, <2>6, QuietKeepsShutdownInv, Zenon DEF Quiet, IsAlive
<1> QED BY <1>2, <1>3, Zenon DEF FinishOobw

\* The checker stops only when no detached process is left, and ends the shutdown then:
\* a session would keep its process from being cleaned up.
LEMMA CheckDetachedProcessesShutdown ==
  ASSUME ProcessTypes, ListInv, ShutdownInv, NEW exited, CheckDetachedProcesses(exited)
  PROVE  ShutdownInv'
<1> USE DEF ProcessTypes
<1> DEFINE gone == {p \in Detached : CanCleanup(p, exited)}
<1>1. /\ UNCHANGED <<enabled, session, getWaitlist, disableWaitlist>>
      /\ checkerActive' = (Detached # gone)
      /\ lifeStatus' = IF Detached = gone /\ lifeStatus = "SHUTTING_DOWN" THEN "SHUT_DOWN"
                       ELSE lifeStatus
      /\ \A p \in gone : life'[p] = "DEAD"
  BY Zenon DEF CheckDetachedProcesses, waitVars, Detached
<1>2. checkerActive
  BY DEF CheckDetachedProcesses
<1>3. lifeStatus # "SHUT_DOWN"
  BY <1>2, SMTT(30) DEF ShutdownInv, ShutDownGroupIsEmpty
<1>4. Detached' \subseteq Detached \ gone
  <2> SUFFICES ASSUME NEW q \in Detached' PROVE q \in Detached /\ q \notin gone
    OBVIOUS
  <2>1. q \in Process /\ enabled[q] = "DETACHED" /\ life'[q] # "DEAD"
    BY <1>1 DEF Detached
  <2>2. life[q] # "DEAD"
    BY <2>1 DEF CheckDetachedProcesses, CanTriggerShutdown
  <2> QED BY <1>1, <2>1, <2>2, Zenon DEF Detached
<1>5. DetachedAreWatched'
  BY <1>1, <1>4, Zenon DEF DetachedAreWatched
<1>6. ASSUME Detached = gone, lifeStatus = "SHUTTING_DOWN", NEW r \in Request
      PROVE  session[r] = NoProcess
  <2> SUFFICES ASSUME session[r] # NoProcess PROVE FALSE
    OBVIOUS
  <2>1. session[r] \in Process /\ life[session[r]] = "ALIVE"
    BY DEF ListInv, Live
  <2>2. session[r] \in Detached
    BY <1>6, <2>1 DEF ShutdownInv, ShutDownGroupIsEmpty, IsAlive, Detached
  <2> QED BY <1>6, <2>1, <2>2 DEF CanCleanup
<1>7. ShutDownGroupIsEmpty'
  <2>1. CASE Detached = gone /\ lifeStatus = "SHUTTING_DOWN"
    BY <1>1, <1>6, <2>1, Zenon DEF ShutdownInv, ShutDownGroupIsEmpty, IsAlive
  <2>2. CASE ~(Detached = gone /\ lifeStatus = "SHUTTING_DOWN")
    BY <1>1, <1>3, <2>2 DEF ShutdownInv, ShutDownGroupIsEmpty, IsAlive
  <2> QED BY <2>1, <2>2
<1> QED BY <1>5, <1>7, SMTT(30) DEF ShutdownInv

\* Every step keeps ShutdownInv.
LEMMA ShutdownInvStep ==
  ASSUME ProcessTypes, ListInv, ListInv', ShutdownInv, [Next]_vars
  PROVE  ShutdownInv'
<1> USE DEF ProcessTypes
<1>1. ASSUME UNCHANGED <<lifeStatus, enabled, life, session, waitVars, checkerActive>>
      PROVE  ShutdownInv'
  BY <1>1, QuietKeepsShutdownInv DEF Quiet, SameDetached, waitVars
<1>2. ASSUME NEW S \in SUBSET Process, Detach(S), UNCHANGED <<lifeStatus, life, session, waitVars>>
      PROVE  ShutdownInv'
  BY <1>2, DetachKeepsShutdownInv DEF waitVars
<1>3. CASE UNCHANGED vars
  BY <1>1, <1>3 DEF vars
<1>4. ASSUME NEW r \in Request, NEW s \in Process \cup {NoProcess},
             NEW needsRestart \in BOOLEAN, NEW freed \in BOOLEAN,
             Get(r, s, needsRestart, freed)
      PROVE  ShutdownInv'
  <2>1. IsAlive /\ UNCHANGED <<lifeStatus, life>>
    BY <1>4 DEF Get
  <2>2. CASE DetachAll
    BY <2>1, <2>2, DetachAllKeepsShutdownInv, SMTT(30) DEF IsAlive
  <2>3. CASE UNCHANGED <<enabled, checkerActive>>
    BY <2>1, <2>3, QuietKeepsShutdownInv, SMTT(30) DEF Quiet, SameDetached, IsAlive
  <2> QED BY <1>4, <2>2, <2>3, Zenon DEF Get, Restart
<1>5. ASSUME NEW r \in Request, RequestOOBW(r)
      PROVE  ShutdownInv'
  BY <1>1, <1>5, Zenon DEF RequestOOBW
<1>6. ASSUME NEW r \in Request, OnSessionInitiateFailure(r)
      PROVE  ShutdownInv'
  <2>1. {session[r]} \in SUBSET Process
    BY <1>6 DEF OnSessionInitiateFailure, WaitTypes, Target
  <2> QED BY <1>2, <1>6, <2>1 DEF OnSessionInitiateFailure, DetachProcessUnlocked
<1>7. ASSUME NEW r \in Request, NEW needed \in BOOLEAN, OnSessionClose(r, needed)
      PROVE  ShutdownInv'
  BY <1>7, OnSessionCloseShutdown
<1>8. ASSUME NEW e \in 0..MaxRestarts, AbortSpawn(e)
      PROVE  ShutdownInv'
  BY <1>1, <1>8 DEF AbortSpawn
<1>9. ASSUME NEW p \in Process, NEW otherWaits \in BOOLEAN, AttachSpawned(p, otherWaits)
      PROVE  ShutdownInv'
  <2>1. IsAlive /\ UNCHANGED <<lifeStatus, checkerActive>>
    BY <1>9 DEF AttachSpawned
  <2>2. Detached' \subseteq Detached
    <3> SUFFICES ASSUME NEW q \in Detached' PROVE q \in Detached
      OBVIOUS
    <3>1. q \in Process /\ enabled'[q] = "DETACHED" /\ life'[q] # "DEAD"
      BY DEF Detached
    <3>2. q # p /\ enabled[q] = "DETACHED"
      BY <1>9, <3>1 DEF AttachSpawned
    <3>3. life[q] # "DEAD"
      BY <1>9, <3>1, <3>2 DEF AttachSpawned, LifeTypes
    <3> QED BY <3>1, <3>2, <3>3 DEF Detached
  <2> QED BY <2>1, <2>2 DEF ShutdownInv, DetachedAreWatched, ShutDownGroupIsEmpty, IsAlive
<1>10. ASSUME NEW otherWaits \in BOOLEAN, RejectSpawned(otherWaits)
      PROVE  ShutdownInv'
  BY <1>1, <1>10, Zenon DEF RejectSpawned
<1>11. CASE SpawnFailed
  <2>1. IsAlive /\ UNCHANGED <<lifeStatus, life, checkerActive>>
    BY <1>11, Zenon DEF SpawnFailed
  <2>2. SameDetached(enabled)
    BY <1>11, Zenon DEF SpawnFailed, SameDetached
  <2> QED BY <2>1, <2>2, QuietKeepsShutdownInv, Zenon DEF Quiet, IsAlive
<1>12. CASE RestartGroup
  BY <1>12, DetachAllKeepsShutdownInv DEF RestartGroup, Restart, IsAlive
<1>13. ASSUME NEW e \in 1..MaxRestarts, NEW freed \in BOOLEAN, FinalizeRestart(e, freed)
      PROVE  ShutdownInv'
  BY <1>1, <1>13, SMTT(30) DEF FinalizeRestart
<1>14. ASSUME NEW p \in Process, NEW result \in DisableResults,
              LockAndMaybeInitiateOobw(p, result)
      PROVE  ShutdownInv'
  <2> DEFINE requested == [oobwStatus EXCEPT ![p] = "REQUESTED"]
  <2>1. UNCHANGED <<lifeStatus, life, session, waitVars, checkerActive>>
    BY <1>14, Zenon DEF LockAndMaybeInitiateOobw
  <2>2. CASE UNCHANGED enabled
    BY <1>1, <2>1, <2>2
  <2>3. CASE InitiateOobw(p, enabled, requested, session, disableWaitlist, oobwThreads)
    <3>1. SameDetached(enabled)
      BY <2>3, InitiateOobwLists, SMTT(30) DEF ListTypes, ListInv
    <3> QED BY <2>1, <3>1, QuietKeepsShutdownInv DEF Quiet, waitVars
  <2> QED BY <1>14, <2>2, <2>3, Zenon DEF LockAndMaybeInitiateOobw
<1>15. ASSUME NEW p \in Process, StartOobw(p)
      PROVE  ShutdownInv'
  BY <1>1, <1>15, Zenon DEF StartOobw
<1>16. ASSUME NEW p \in Process, FinishOobw(p)
      PROVE  ShutdownInv'
  BY <1>16, FinishOobwShutdown
<1>17. ASSUME NEW p \in Process, DetachProcess(p) \/ ForceFreeCapacity(p)
      PROVE  ShutdownInv'
  BY <1>2, <1>17 DEF DetachProcess, DetachProcessUnlocked, ForceFreeCapacity
<1>18. ASSUME NEW a \in Admin, NEW p \in Process, DisableProcess(a, p)
      PROVE  ShutdownInv'
  <2>1. SameDetached(enabled)
    BY <1>18, DisableDetachesNone, Zenon DEF DisableProcess, ListTypes
  <2> QED BY <1>18, <2>1, QuietKeepsShutdownInv, Zenon DEF DisableProcess, Quiet, waitVars
<1>19. ASSUME NEW S \in SUBSET Process, GarbageCollect(S)
      PROVE  ShutdownInv'
  BY <1>2, <1>19, Zenon DEF GarbageCollect
<1>20. ASSUME NEW exited \in SUBSET Detached, CheckDetachedProcesses(exited)
      PROVE  ShutdownInv'
  BY <1>20, CheckDetachedProcessesShutdown, Zenon
<1>21. CASE Shutdown
  BY <1>21, DetachAllKeepsShutdownInv, Zenon
  DEF Shutdown, AssignExceptionToGetWaiters, RemoveWaiters
<1>22. CASE RoomChanges \/ CapacityFreed
  BY <1>1, <1>22 DEF RoomChanges, CapacityFreed
<1> QED
  BY <1>3, <1>4, <1>5, <1>6, <1>7, <1>8, <1>9, <1>10, <1>11, <1>12, <1>13, <1>14, <1>15,
     <1>16, <1>17, <1>18, <1>19, <1>20, <1>21, <1>22 DEF Next

\* Detached processes stay watched, and a group that shuts down stays empty.
LEMMA ShutdownInvHolds == Spec => []ShutdownInv
<1>1. Init => ShutdownInv
  BY DEF Init, ShutdownInv, DetachedAreWatched, ShutDownGroupIsEmpty, Detached, IsAlive
<1>2. ProcessTypes /\ ListInv /\ ListInv' /\ ShutdownInv /\ [Next]_vars => ShutdownInv'
  BY ShutdownInvStep
<1> QED BY <1>1, <1>2, ProcessTypesHold, ListInvHolds, PTL DEF Spec

\* No detached process is forgotten: the checker thread runs as long as there is one,
\* however detach() races with the thread's decision to stop.
THEOREM DetachedAreWatchedHolds == Spec => []DetachedAreWatched
<1>1. ShutdownInv => DetachedAreWatched
  BY DEF ShutdownInv
<1> QED BY <1>1, ShutdownInvHolds, PTL

\* Nothing that was under way when a group was shut down gives it a process or a
\* request, and its shutdown ends only when its last session has ended.
THEOREM ShutDownGroupIsEmptyHolds == Spec => []ShutDownGroupIsEmpty
<1>1. ShutdownInv => ShutDownGroupIsEmpty
  BY DEF ShutdownInv
<1> QED BY <1>1, ShutdownInvHolds, PTL

-----------------------------------------------------------------------------
(* Detached processes stay detached.                                        *)

\* What every step but the checker's leaves of the processes that are detached.
KeepsDetached ==
  \A q \in Detached : enabled'[q] = "DETACHED" /\ life'[q] = life[q]

\* The step that DetachedForGood allows.
DetachedStep ==
  \A p \in Detached :
    /\ enabled'[p] = "DETACHED"
    /\ life'[p] = "DEAD" => life[p] = "SHUTDOWN_TRIGGERED"
    /\ life'[p] # life[p] => Sessions(p, session) = {}

\* Group::maybeInitiateOobw detaches nothing and brings nothing back.
LEMMA MaybeInitiateOobwDetachesNone ==
  ASSUME NEW p \in Process, NEW en, NEW ses, NEW dw, IsLists(en, dw),
         MaybeInitiateOobw(p, en, ses, dw)
  PROVE  SameDetached(en)
<1>1. CASE ShouldInitiateOobw(p, en, oobwStatus)
  <2>1. Disable(p, "oobw", en, ses, dw)
    BY <1>1 DEF MaybeInitiateOobw, InitiateOobw
  <2> QED BY <2>1, DisableDetachesNone
<1>2. CASE ~ShouldInitiateOobw(p, en, oobwStatus)
  BY <1>2, Zenon DEF MaybeInitiateOobw, SameDetached
<1> QED BY <1>1, <1>2

\* onSessionClose() brings no detached process back.
LEMMA OnSessionCloseKeepsDetached ==
  ASSUME ProcessTypes, NEW r \in Request, NEW needed \in BOOLEAN, OnSessionClose(r, needed)
  PROVE  KeepsDetached
<1> USE DEF ProcessTypes
<1> DEFINE p == session[r]
           ses == [session EXCEPT ![r] = NoProcess]
<1>1. p \in Process /\ UNCHANGED life
  BY Zenon DEF OnSessionClose, WaitTypes, Target
<1>2. CASE DetachProcessUnlocked(p, ses)
  BY <1>1, <1>2, Zenon DEF DetachProcessUnlocked, Detach, KeepsDetached, Detached
<1>3. CASE /\ ShouldDisable(p, ses)
           /\ MaybeInitiateOobw(p, [enabled EXCEPT ![p] = "DISABLED"], ses,
                                disableWaitlist \ WaitersFor({p}))
  <2> DEFINE en == [enabled EXCEPT ![p] = "DISABLED"]
             dw == disableWaitlist \ WaitersFor({p})
  <2>1. IsLists(en, dw)
    BY <1>1, Zenon DEF ListTypes, IsLists, EnabledStatus
  <2>2. SameDetached(en)
    BY <1>1, <1>3, <2>1, MaybeInitiateOobwDetachesNone, Zenon
  <2>3. \A q \in Process : enabled[q] = "DETACHED" => en[q] = "DETACHED"
    BY <1>3 DEF ShouldDisable, ListTypes, IsLists
  <2> HIDE DEF en
  <2> QED BY <1>1, <2>2, <2>3, Zenon DEF SameDetached, KeepsDetached, Detached
<1>4. CASE MaybeInitiateOobw(p, enabled, ses, disableWaitlist)
  <2>1. SameDetached(enabled)
    BY <1>1, <1>4, MaybeInitiateOobwDetachesNone, Zenon DEF ListTypes
  <2> QED BY <1>1, <2>1 DEF SameDetached, KeepsDetached, Detached
<1> QED BY <1>2, <1>3, <1>4, Zenon DEF OnSessionClose

\* The end of out-of-band work only enables a process that is disabled.
LEMMA FinishOobwKeepsDetached ==
  ASSUME ProcessTypes, NEW p \in Process, FinishOobw(p)
  PROVE  KeepsDetached
<1> USE DEF ProcessTypes
<1> DEFINE threads == oobwThreads \ {<<p, "working">>}
           status == [oobwStatus EXCEPT ![p] = "NOT_ACTIVE"]
           en == [enabled EXCEPT ![p] = IF @ = "DISABLED" THEN "ENABLED" ELSE @]
<1>1. UNCHANGED life
  BY DEF FinishOobw
<1>2. CASE UNCHANGED enabled
  BY <1>1, <1>2, Zenon DEF KeepsDetached, Detached
<1>3. CASE InitiateNextOobwRequest(en, status, session', threads)
  <2>1. IsLists(en, disableWaitlist)
    BY DEF ListTypes, IsLists, EnabledStatus
  <2>2. ASSUME NEW q \in Enabled(en),
               InitiateOobw(q, en, status, session', disableWaitlist, threads)
        PROVE  SameDetached(en)
    <3>1. Disable(q, "oobw", en, session', disableWaitlist) /\ q \in Process
      BY <2>2, Zenon DEF InitiateOobw, Enabled, Status
    <3> QED BY <2>1, <3>1, DisableDetachesNone
  <2>3. SameDetached(en)
    BY <1>3, <2>2, Zenon DEF InitiateNextOobwRequest, SameDetached
  <2>4. \A q \in Process : en[q] = "DETACHED" <=> enabled[q] = "DETACHED"
    BY DEF ListTypes, IsLists
  <2> HIDE DEF en
  <2> QED BY <1>1, <2>3, <2>4 DEF SameDetached, KeepsDetached, Detached
<1> QED BY <1>2, <1>3, Zenon DEF FinishOobw

\* An attached process takes the place of one that was cleaned up, and the
\* processes that end being disabled then are not detached.
LEMMA AttachSpawnedKeepsDetached ==
  ASSUME ProcessTypes, ListInv, NEW p \in Process, NEW otherWaits \in BOOLEAN,
         AttachSpawned(p, otherWaits)
  PROVE  KeepsDetached
<1> USE DEF ProcessTypes
<1> SUFFICES ASSUME NEW q \in Detached
             PROVE  enabled'[q] = "DETACHED" /\ life'[q] = life[q]
  BY DEF KeepsDetached
<1>1. q \in Process /\ enabled[q] = "DETACHED" /\ life[q] # "DEAD"
  BY SMTT(30) DEF Detached
<1>2. q # p
  BY <1>1, Zenon DEF AttachSpawned, Unused
<1>3. WaitersFor({q}) = {}
  BY <1>1, Zenon DEF ListInv, Matches, WaitersFor, Disabling, Status
<1>4. enabled'[q] = "DETACHED"
  BY <1>1, <1>2, <1>3, Zenon DEF AttachSpawned
<1>5. life'[q] = life[q]
  BY <1>1, <1>2, SMTT(30) DEF AttachSpawned, LifeTypes
<1> QED BY <1>4, <1>5

\* The checker tells a process to shut down, or cleans it up, when its sessions
\* are closed: a process that was told to is not alive, and has none.
LEMMA CheckDetachedProcessesDetached ==
  ASSUME ProcessTypes, ListInv, NEW exited, CheckDetachedProcesses(exited)
  PROVE  DetachedStep
<1> USE DEF ProcessTypes
<1> SUFFICES ASSUME NEW q \in Detached
             PROVE  /\ enabled'[q] = "DETACHED"
                    /\ life'[q] = "DEAD" => life[q] = "SHUTDOWN_TRIGGERED"
                    /\ life'[q] # life[q] => Sessions(q, session) = {}
  BY Zenon DEF DetachedStep
<1>1. q \in Process /\ enabled[q] = "DETACHED" /\ life[q] # "DEAD"
  BY SMTT(30) DEF Detached
<1>2. enabled'[q] = "DETACHED"
  BY <1>1, Zenon DEF CheckDetachedProcesses
<1>3. CASE CanCleanup(q, exited)
  <2>1. life[q] = "SHUTDOWN_TRIGGERED"
    BY <1>3 DEF CanCleanup
  <2>2. Sessions(q, session) = {}
    BY <1>1, <2>1, GroupAssumption, Zenon DEF Sessions, ListInv, Live
  <2> QED BY <1>2, <2>1, <2>2
<1>4. CASE ~CanCleanup(q, exited) /\ CanTriggerShutdown(q)
  <2>1. life'[q] = "SHUTDOWN_TRIGGERED"
    BY <1>1, <1>4 DEF CheckDetachedProcesses
  <2>2. Sessions(q, session) = {}
    BY <1>4 DEF CanTriggerShutdown
  <2> QED BY <1>2, <2>1, <2>2, Zenon
<1>5. CASE ~CanCleanup(q, exited) /\ ~CanTriggerShutdown(q)
  <2>1. life'[q] = life[q]
    BY <1>1, <1>5, Zenon DEF CheckDetachedProcesses
  <2> QED BY <1>1, <1>2, <2>1, Zenon
<1> QED BY <1>3, <1>4, <1>5, Zenon

\* Every step does to detached processes only what DetachedForGood allows.
LEMMA DetachedStepHolds ==
  ASSUME ProcessTypes, ListInv, [Next]_vars
  PROVE  DetachedStep
<1> USE DEF ProcessTypes
<1>1. ASSUME KeepsDetached PROVE DetachedStep
  BY <1>1 DEF KeepsDetached, DetachedStep, Detached
<1>2. ASSUME UNCHANGED <<enabled, life>> PROVE DetachedStep
  BY <1>1, <1>2, Zenon DEF KeepsDetached, Detached
<1>3. ASSUME SameDetached(enabled), UNCHANGED life PROVE DetachedStep
  BY <1>1, <1>3, Zenon DEF KeepsDetached, Detached, SameDetached
<1>4. ASSUME NEW S, Detach(S), UNCHANGED life PROVE DetachedStep
  BY <1>1, <1>4, Zenon DEF KeepsDetached, Detached, Detach
<1>5. ASSUME DetachAll, UNCHANGED life PROVE DetachedStep
  BY <1>1, <1>5, Zenon DEF KeepsDetached, Detached, DetachAll
<1>6. CASE UNCHANGED vars
  BY <1>2, <1>6, Zenon DEF vars
<1>7. ASSUME NEW r \in Request, NEW s \in Process \cup {NoProcess},
             NEW needsRestart \in BOOLEAN, NEW freed \in BOOLEAN,
             Get(r, s, needsRestart, freed)
      PROVE  DetachedStep
  BY <1>2, <1>5, <1>7, Zenon DEF Get, Restart
<1>8. ASSUME NEW r \in Request, RequestOOBW(r) \/ OnSessionInitiateFailure(r)
      PROVE  DetachedStep
  BY <1>2, <1>4, <1>8, Zenon DEF RequestOOBW, OnSessionInitiateFailure, DetachProcessUnlocked
<1>9. ASSUME NEW r \in Request, NEW needed \in BOOLEAN, OnSessionClose(r, needed)
      PROVE  DetachedStep
  BY <1>1, <1>9, OnSessionCloseKeepsDetached
<1>10. ASSUME NEW e \in 0..MaxRestarts, AbortSpawn(e)
      PROVE  DetachedStep
  BY <1>2, <1>10 DEF AbortSpawn
<1>11. ASSUME NEW p \in Process, NEW otherWaits \in BOOLEAN, AttachSpawned(p, otherWaits)
      PROVE  DetachedStep
  BY <1>1, <1>11, AttachSpawnedKeepsDetached
<1>12. ASSUME NEW otherWaits \in BOOLEAN, RejectSpawned(otherWaits)
      PROVE  DetachedStep
  BY <1>2, <1>12 DEF RejectSpawned
<1>13. CASE SpawnFailed
  BY <1>3, <1>13, Zenon DEF SpawnFailed, SameDetached
<1>14. CASE RestartGroup
  BY <1>5, <1>14 DEF RestartGroup, Restart
<1>15. ASSUME NEW e \in 1..MaxRestarts, NEW freed \in BOOLEAN, FinalizeRestart(e, freed)
      PROVE  DetachedStep
  BY <1>2, <1>15, SMTT(30) DEF FinalizeRestart
<1>16. ASSUME NEW p \in Process, NEW result \in DisableResults,
              LockAndMaybeInitiateOobw(p, result)
      PROVE  DetachedStep
  <2> DEFINE requested == [oobwStatus EXCEPT ![p] = "REQUESTED"]
  <2>1. CASE InitiateOobw(p, enabled, requested, session, disableWaitlist, oobwThreads)
    <3>1. SameDetached(enabled)
      BY <2>1, InitiateOobwLists, SMTT(30) DEF ListTypes, ListInv
    <3> QED BY <1>3, <1>16, <3>1, Zenon DEF LockAndMaybeInitiateOobw
  <2> QED BY <1>2, <1>16, <2>1, Zenon DEF LockAndMaybeInitiateOobw
<1>17. ASSUME NEW p \in Process, StartOobw(p)
      PROVE  DetachedStep
  BY <1>2, <1>17, Zenon DEF StartOobw
<1>18. ASSUME NEW p \in Process, FinishOobw(p)
      PROVE  DetachedStep
  BY <1>1, <1>18, FinishOobwKeepsDetached, SMTT(30)
<1>19. ASSUME NEW p \in Process, DetachProcess(p) \/ ForceFreeCapacity(p)
      PROVE  DetachedStep
  BY <1>4, <1>19, Zenon DEF DetachProcess, DetachProcessUnlocked, ForceFreeCapacity
<1>20. ASSUME NEW a \in Admin, NEW p \in Process, DisableProcess(a, p)
      PROVE  DetachedStep
  <2>1. SameDetached(enabled)
    BY <1>20, DisableDetachesNone, Zenon DEF DisableProcess, ListTypes
  <2> QED BY <1>3, <1>20, <2>1, Zenon DEF DisableProcess
<1>21. ASSUME NEW S \in SUBSET Process, GarbageCollect(S)
      PROVE  DetachedStep
  BY <1>4, <1>21 DEF GarbageCollect
<1>22. ASSUME NEW exited \in SUBSET Detached, CheckDetachedProcesses(exited)
      PROVE  DetachedStep
  BY <1>22, CheckDetachedProcessesDetached
<1>23. CASE Shutdown
  BY <1>5, <1>23, Zenon DEF Shutdown
<1>24. CASE RoomChanges \/ CapacityFreed
  BY <1>2, <1>24 DEF RoomChanges, CapacityFreed
<1> QED
  BY <1>6, <1>7, <1>8, <1>9, <1>10, <1>11, <1>12, <1>13, <1>14, <1>15, <1>16, <1>17,
     <1>18, <1>19, <1>20, <1>21, <1>22, <1>23, <1>24, Zenon DEF Next

\* A process that Group::detach took off its list never comes back, and the detached
\* processes checker cleans it up only after it told it to shut down, which waits for
\* its sessions.
THEOREM DetachedForGoodHolds == Spec => DetachedForGood
<1>1. ProcessTypes /\ ListInv /\ [Next]_vars => [DetachedStep]_vars
  BY DetachedStepHolds
<1> QED BY <1>1, ProcessTypesHold, ListInvHolds, PTL DEF Spec, DetachedForGood, DetachedStep

=============================================================================
