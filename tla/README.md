# TLA+ models of Passenger's agents

Passenger runs web applications. Its Core agent receives HTTP requests, keeps a pool of
application processes, starts and stops them, and forwards every request to one of them.
A watchdog keeps the Core agent running. This directory holds TLA+ modules that model the
concurrent parts of both agents, the TLC configurations that check them, and TLAPS proofs of
most of their safety properties.

Paths below are relative to `src/src/agent/Core/ApplicationPool/` unless they say otherwise.

## 1. The system

### Parts

| Part | State | Operations that change it |
| --- | --- | --- |
| `Pool` (`Pool.h`, `Pool/*.cpp`) | the groups by name, `max`, `getWaitlist` | `asyncGet`, `setMax`, `detachProcess`, `disableProcess`, `detachGroupByName`, `restartGroupByName`, `restartGroupsByAppRoot`, garbage collection, analytics collection |
| `Group` (`Group.h`, `Group/*.cpp`) | process lists (enabled, disabling, disabled, detached), `getWaitlist`, `disableWaitlist`, spawn and restart flags and counters, life status | `get`, `onSessionClose`, `onSessionInitiateFailure`, `spawn`, `restart`, `attach`, `detach`, `enable`, `disable`, `requestOOBW`, `shutdown` and the threads it starts |
| `Process`, `Session` (`Process.h`, `Session.h`) | life status, enabled status, number of sessions, out-of-band status | `newSession`, `sessionClosed`, `triggerShutdown`, `cleanup` |
| `Socket` (`Socket.h`) | idle and total connections | `checkoutConnection`, `checkinConnection`, `closeAllConnections` |
| `SpawningKit` (`../SpawningKit`) | journey of a spawn, preloader | `spawn`, `startPreloader`, `stopPreloader`, the handshake |
| `Controller` (`../Controller`) | one record per request | body buffering, session checkout, sending, forwarding, keep-alive |
| `ServerKit` (`src/src/cxx_supportlib/ServerKit`) | clients, channels | feeding, consuming, stopping, ending, errors |
| Watchdog (`src/src/agent/Watchdog`) | pid of each agent | start, watch, restart, shut down |
| Web server modules, language support, small agents | | configuration, loaders and tools |

### How they interact

The controllers (one per event loop thread) call `Pool::asyncGet` and get a callback with a
session, from the same or from another thread. Everything in the pool is protected by one
mutex, `Pool::syncher`. A critical section does its work, collects *post-lock actions* and
runs them when it has released the mutex; such an action may take the mutex again. Slow work
is done by threads that the group starts and that take the mutex for short sections:

* the spawn loop (`spawnThreadMain`), which creates a process without the mutex and then
  attaches it, and goes on as long as the group needs processes;
* the restarter (`finalizeRestart`), which creates a new spawner and then lets the group spawn;
* the out-of-band work thread (`spawnThreadOOBWRequest`), which sends a request to a process
  that was taken out of rotation;
* the detached processes checker (`detachedProcessesCheckerMain`), which waits for the
  sessions of detached processes to end, tells the processes to shut down, and cleans them up.

The hard behaviours all come from there: a spawned process arrives when the group was
restarted or shut down meanwhile; a disable command is answered by whatever happens next; a
session ends on a process that has been detached for long; capacity freed in one group is
wanted by another; a request waits in a list that somebody has to look at again.

A controller runs on one event loop. Its clients and requests are reference counted objects
that are reused, and the answer of the pool is a callback with the addresses of both: it may
come when the client is gone. The session it brings borrows a connection of the process's
socket under a lock of its own. Request and response bodies flow through channels, which call
their consumer, are called by it in return, and buffer in a file what it does not take.

The watchdog's main thread waits for the web server to go away, a second thread waits for the
core to exit and starts it again, and after a graceful end a child process cleans up. They
and the core share signals, exit statuses and a feedback socket, and each may be killed.

### What should hold

A request is answered once, waits only when it must and is never forgotten; requests go to
processes that may take them; processes are not shut down under a request; limits hold;
counters and wait lists agree with the state they describe, as the code's assertions
say; whatever is detached or shut down is eventually cleaned up. A session and a connection
have one owner; an object is not reused while somebody has its address; a channel delivers
what it was fed, in order, and its end; there is one core, and none without a watchdog.

## 2. The models

### Conventions

* One critical section is one action: nothing inside it can be observed by another thread.
  What runs after the mutex was released, and takes it again, is an action of its own.
* A critical section consults the state while it changes it. Operators that model functions
  therefore take the lists they look at as parameters (`en` for the process lists, `ses` for
  the sessions, `n` for `processesBeingSpawned`, `rm` for the room left in the pool).
* Assertions of the code are never guards. They are properties.
* Where the code picks by age, by list position or by wall-clock time, the model picks any
  candidate. Data that decides nothing (names, logs, statistics) is left out.
* Definitions that end in `_Something` next to the definition they vary are deliberately
  wrong variants. They document what each property detects.

### `Group.tla`: one group

The state of one group and of the threads it started, and of the rest of the pool only
`room`: how many processes the pool's maximum leaves for this group. `room` changes at any
time (`RoomChanges`), because other groups come and go, and within the critical sections in
which the pool serves other groups first (`OtherGroupsMaySpawn`).

| Variables | Code |
| --- | --- |
| `lifeStatus` | `Group::lifeStatus` |
| `enabled`, `life`, `oobwStatus`, `processed` | `Process::enabled` (and so the list the process is in), `lifeStatus`, `oobwStatus`, `processed` |
| `session` | the process that serves a request, `Process::sessions` counts them |
| `getWaitlist`, `ahead`, `sticky` | `Group::getWaitlist`: its members, its order, and the process the sticky session cookie names |
| `disableWaitlist`, `callbacks` | `Group::disableWaitlist`; callbacks of out-of-band work that were called for but have not yet run |
| `spawning`, `processesBeingSpawned`, `spawnThreads` | `m_spawning`, `processesBeingSpawned`; spawn loops by the value of `restartsInitiated` they started with |
| `restarting`, `restartsInitiated`, `restartThreads` | `m_restarting`, `restartsInitiated`; the restarter threads |
| `oobwThreads`, `checkerActive` | the out-of-band work threads; `detachedProcessesCheckerActive` |

| Action | Critical section |
| --- | --- |
| `Get` | `Group::get`, with the restart, the forced freeing of capacity, spawning, routing and queueing it includes |
| `OnSessionInitiateFailure`, `OnSessionClose` | the callbacks of a session |
| `AttachSpawned`, `RejectSpawned`, `SpawnFailed`, `AbortSpawn` | the ways an iteration of the spawn loop ends |
| `RestartGroup`, `FinalizeRestart` | `Pool::restartGroupByName`/`restartGroupsByAppRoot`, and the restarter |
| `DisableProcess` | `Pool::disableProcess` |
| `RequestOOBW`, `LockAndMaybeInitiateOobw`, `StartOobw`, `FinishOobw` | out-of-band work: the request, the callback of the disable command, both critical sections of the thread |
| `DetachProcess`, `GarbageCollect`, `ForceFreeCapacity` | the pool takes processes away |
| `CheckDetachedProcesses` | one iteration of the checker |
| `Shutdown` | `Pool::detachGroupByName`, `Group::shutdown` |
| `RoomChanges`, `CapacityFreed` | the rest of the pool |

`AssignSessionsToGetWaiters` is the loop over the queue: a function that maps the waiting
requests to processes is a run of the loop when each request is routed given the sessions
handed out to those ahead of it (`IsAssignment`).

### `Pool.tla`: several groups

Several groups share `Pool::max`. A group is reduced to a record with what the pool looks
at: idle processes, sessions, waiting requests, `m_spawning`, `processesBeingSpawned`,
`m_restarting`. A process serves one request at a time and is not disabled; `Group.tla` has
that detail. Requests in `StickyRequests` have a sticky session cookie. Which process it names
is left open, so that such a request may wait for a busy process while others are idle
(`MayWaitForBusy`). The loops of the pool over its groups and its wait list
(`capacityUsedUnlocked`, `possiblySpawnMoreProcessesForExistingGroups`,
`assignSessionsToGetWaiters`) are recursive functions: the state after `i` turns of the loop
(`CapacityUpTo`, `SpawnTurns`, `ServeWaiters`), in the iteration order of the group map
(`Order`), which visits every name once. Whose idle process `forceFreeCapacity`
takes is left open, so `ServeWaiters` gives the set of the states there may be. `detached`
records the sessions whose process was detached, because their end is an event on which the
pool acts. `Events` selects which
administrative commands happen.

### `Channel.tla`, `FileBufferedChannel.tla` and `Stream.tla`

(`src/src/cxx_supportlib/ServerKit`.) `Channel` is a record and its methods are operators from
the object before a call to the object after it. `FileBufferedChannel` inherits from it: its
object `self` has the same fields and those of the class. `fed` and `taken` are history: how
many bytes were fed, and which were consumed. Bytes are numbered, so that one that is lost,
repeated or out of order shows.

| Fields of `self` | Code |
| --- | --- |
| `state`, `errcode`, `buffer`, `bytesConsumed`, `planId` | the members of `Channel` |
| `plans`, `caller`, `notify` | commands on the event loop; who called the data callback; `consumedCallback` is being called |
| `mode`, `readerState`, `buffers` | the members of `FileBufferedChannel`; `firstBuffer` and `moreBuffers` as one queue |
| `inFileMode` | the object `InFileMode`, with the contents of the file (`data`) |
| `crashed` | a NULL pointer was used |

One action is one entry into the object, up to where control leaves it: to the event loop or
into the data callback. `Feed`, `FeedEOF`, `FeedError`, `Consumed`, `Stop`, `Start` and
`Recycle` are the calls of the user; `ReturnConsumed`, `ReturnAsync` and `ReturnError` the
ways the data callback returns; `RunPlan` the planned call; `FileCreated`, `FileExists`,
`BufferWritten`, `BufferNotWritten` and `ChunkRead` the ends of file operations. Three ends of
file operations that the code does not survive (section 6) are in `FaultySpec` only.

`Stream` is what users rely on: a writer, a reader and a sequence of bytes between them.
`FileBufferedChannel` is shown to implement it. The mapping takes what was fed as the input
and what was consumed as the output; the writer has ended when the last buffer is the empty
one and has failed in an error mode; the reader has been told, or is done, by the state of
`Channel`.

### `Socket.tla`

`Socket.h` and `Session.h`: the idle connections of every process, and the sessions that
borrow them. `Initiate`, `InitiateFails` and `Deinitiate` happen under the socket's lock;
`NewSession`, `CallOnClose`, `Detach`, `TriggerShutdown`, `Cleanup` and `Spawn` under the
pool's. The end of a session therefore takes two steps. Every process has one socket.

Out-of-band work (`WorkOutOfBand`) borrows a connection too, but not for a session: its thread
takes and returns one without the pool's lock (`ConnectForOobw`, `DisconnectForOobw`), between
two critical sections (`StartOobw`, `FinishOobw`), and nobody waits for it to end. Which
processes are taken, and when, is in `Group`; here any process without sessions may be.

### `HttpServer.tla` and `Controller.tla`

`HttpServer` has the operators of `ServerKit::Server` and `ServerKit::HttpServer` on clients
and requests: references, the end of a request, disconnecting, keep-alive. `Controller`
(`../Controller`) composes them with `Socket`. The session objects are constants that both
sides know, and are declared in `Sessions`.

| Variable or action | Code |
| --- | --- |
| `http` | `serverState`, the clients and requests; `dropped` are sessions whose last reference is gone and which the thread destroys next |
| `calls` | callbacks: `asyncGet` owes an answer, an answer is posted, or a retry is |
| `toVisit` | the clients `shutdown()` is still to look at |
| `Accept`, `AcceptFails`, `AcceptResumes`, `Disconnect`, `OutputFlushed` | clients |
| `BeginRequest`, `AnswerDirectly`, `AppResponds` | requests, and the end of a response |
| `GiveSession`, `GiveError` | the pool answers, in any thread |
| `StaleAnswer`, `ErrorAnswer`, `SessionAnswer`, `InitiateSessionFails`, `CheckoutSessionLater` | the ways the callback of `asyncGet` and the retry go |
| `DestroySession` | the two steps of the end of a session |
| `Shutdown`, `VisitClient` | `Server::shutdown`; a request in `COMPLETE` may be an upgraded one, which does not keep its client |
| `ManageProcess` | the pool detaches, shuts down, cleans up and replaces processes; with `Oobw` it also takes them for out-of-band work |

### `Watchdog.tla`

(`src/src/agent/Watchdog`, and `CoreMain.cpp` as far as the watchdog sees it.) `main`, `thread`
and `child` are program counters of the main thread, the watcher thread and the background
cleanup. `core` is the state of every core process; one that died and was not waited for is
a zombie, and its number may be used by another process once it was. `pid` is the member of
`AgentWatcher`, which is out of date between `waitpid()` and the next statement. `owner` and
`dir` are the instance directory's `owner` flag and the directory. `CoreCrashes`, `Crash` and
`ChildCrashes` kill any of the processes at any time.

## 3. The runs

| Run | Configuration | Shows |
| --- | --- | --- |
| `group_safety` | `GroupSafety.cfg`: 3 process objects, at most 2 in the group, concurrency 2, 2 clients with sticky sessions, `maxRequests` 2, queue limit 1, 1 restart, 1 administrator | the assertions on lists, counters and sessions; limits; that detached processes stay detached |
| `group_oobw` | `GroupOobw.cfg`: 3 process objects, at most 3 in the group, out-of-band work on 1 at a time, 2 requests that ask for out-of-band work, 1 administrator, no sticky sessions | out-of-band work is tracked once and runs alone; the two invariants of `getWaitlist`; first come, first served |
| `group_liveness` | `GroupLiveness.cfg`: 2 processes, 2 clients, 1 restart | queued requests are answered, detached processes cleaned up, out-of-band work ends |
| `pool_safety` | `PoolSafety.cfg`: 3 applications, 4 clients, one with a sticky session, maximum 1 or 2, all commands | requests are answered once and keep their order, the maximum is never exceeded by growth, only sticky requests wait in a group with an idle process |
| `file_buffering` | `FileBuffering.cfg`: 5 bytes in buffers of 1 or 2, threshold 3, reads of 2 | the channel implements `Stream`; no wakeup is lost; reader and mover agree; data and its end are delivered |
| `request_path` | `RequestPath.cfg`: 2 clients, 3 request objects, 1 process with concurrency 2 and out-of-band work, graceful shutdown | connections, sessions and references are accounted for, callbacks find what they were made for, the shutdown ends |
| `request_retry` | `RequestRetry.cfg`: 1 client, 2 processes that may refuse connections, shutdown by force | a request does not check out sessions for ever |
| `watchdog` | `Watchdog.cfg`: 4 cores in turn | one core, no signal to a stranger; a crashed core comes back or the watchdog stops; nothing goes on serving after the watchdog; the directory outlives the core |
| `detaches_when_alive`, `pool_prospects`, `file_errors`, `lingering_requests` | the `.cfg` of the same name | violated, see section 6 |

### Bounds

* *Two or three processes.* Two in the group are the least with which a process can be
  disabled or detached while another takes over, and a list has an order of load; a third is
  being shut down while they run, or is next in line for out-of-band work. Process objects are
  reused once nothing refers to them (`Unused`), so that behaviours are not bounded by their
  number; a spawn loop that finds none waits for one, as if spawning took longer.
* *Two clients* are enough to compete for a process and for the last place in the queue.
  They send request after request, so that the number of requests is not bounded.
* `MaxRestarts` bounds the counter `restartsInitiated`. One restart is enough for a spawn
  loop that outlives a restart; a restarter that is overtaken by another needs two, and is
  covered by the proof of `SpawnBookkeeping`, which holds for any number.
* `MaxRequests` also bounds the counter `processed`, which is only compared with it.
* `Rooms` are the values the room may take: 1, so that the pool is full with one process of
  the group, and 3, so that it is not full with both. In the liveness runs it is always 2:
  while other groups keep the capacity for themselves, requests of this one may rightly wait.
* In `Pool`, three names make "another group waits" and "the pool's list is not empty"
  possible at once; a maximum of 1 or 2 makes the pool full most of the time, which is when
  its wait list is used.

* *Five bytes* are enough to pass the threshold, to have a buffer in memory while another is
  moved and a third is read, and to come back to memory. `Recycle` starts over, so that the
  number of bytes is bounded only between two uses of the object.
* *Two clients* that may be accepted, with *three request objects*, are enough for a client
  that is gone while its request waits for an answer, next to one that sends request after
  request. With one process no attempt is repeated (a refused connection detaches it), which is
  why retries have a run of their own with two. `MaxTry` is 2 there; the code has 10. That run
  has no out-of-band work: for the retries it is a process that is out of rotation for a while,
  as one that is detached and replaced.
* *Four cores*: three may crash. The last one that the bound allows does not, as otherwise the
  bound and not the watchdog would decide how it ends. `OneCore` is proved for any number.

Symmetry is used for the processes and requests of `Group`, in its runs without liveness.
Deadlock is checked for `Pool`. The other systems may stop: a group or a server that was shut
down, a channel whose stream has ended, and a watchdog that has exited do nothing more.

### Fairness

* *Group.* Weak fairness of the steps that the code's own threads take: an iteration of the
  spawn loop ends (spawning has a timeout), restarters, out-of-band work threads (with a
  timeout too), callbacks and the checker run, processes that were told to shut down exit (the
  checker kills those that do not), and applications finish their requests. Nothing is
  assumed of clients, administrators, garbage collection or other groups.
* *FileBufferedChannel.* Weak fairness of planned calls and of file operations, which the event
  loop completes. The consumer finishes what it consumes asynchronously, starts the channel
  again after it stopped it, and does not refuse for ever all it is offered (strong fairness,
  since it may stop the channel in between). Creating the file is strongly fair: a name
  that exists already makes the code try another, and that does not go on for ever.
* *Controller.* The event loop runs the callbacks that are due, the pool answers, applications
  answer, and clients send what they began and read their responses, or leave. A callback has
  to wait while another one runs and so is not enabled all the time: fairness is strong.
  `request_path` only assumes that something is done about some request (`LiveSpec`);
  `request_retry` that something is done about each (`FairSpec`).
* *Watchdog.* Weak fairness of the steps of each thread and of the child, of `select()` once
  there is an error, and of a core that initializes itself or notices that it is alone. That a
  core which was told to quit does so is not assumed: that is up to its clients.

## 4. Proofs

Theorems hold for every value of the constants that the named assumptions allow. Each
component has inductive invariants of its own; TLC confirms those of `Group` on the instances
of `group_safety` and `group_oobw`, the former with sticky sessions, and that of `Pool` on the
instance of `pool_safety`.

| Module | Extends | Proves |
| --- | --- | --- |
| `GroupProofs` | `Group` | types, spawn loops, process lists, shutdown |
| `GroupOobwProofs` | `GroupProofs` | out-of-band work |
| `GroupQueueProofs` | `GroupProofs` | limits, the queue, routing, prospects |
| `PoolProofs` | `Pool` | what the loops of the pool keep true, and all theorems on the pool |
| `HttpServerProofs` | `HttpServer` | contracts of the operations on references, and of the end of a request and of a client |
| `EventLoopProofs` | `Controller`, `HttpServerProofs` | the invariant of the event loop, and that its callbacks keep it |
| `ControllerProofs` | `EventLoopProofs` | the sockets, and all the theorems on sockets and controller |
| `WatchdogProofs` | `Watchdog` | the core and the instance directory |

### Group

For every set of processes, requests and administrators and all limits and restarts.
`GroupAssumption` asks only that processes and requests are finitely many, that the limits are
natural numbers, and that the values which stand for "no process" and for the out-of-band
work's disable command are not a process and an administrator.

| Theorem | Statement |
| --- | --- |
| `GroupProofs!TypeCorrect` | `Spec => []TypeOK` |
| `GroupProofs!SpawnBookkeepingHolds` | `Spec => []SpawnBookkeeping` |
| `GroupProofs!DisableWaitlistMatchesHolds` | `Spec => []DisableWaitlistMatches` |
| `GroupProofs!SessionsOnLiveProcessesHolds` | `Spec => []SessionsOnLiveProcesses` |
| `GroupProofs!DetachedAreWatchedHolds` | `Spec => []DetachedAreWatched` |
| `GroupProofs!ShutDownGroupIsEmptyHolds` | `Spec => []ShutDownGroupIsEmpty` |
| `GroupProofs!DetachedForGoodHolds` | `Spec => DetachedForGood` |
| `GroupOobwProofs!OobwIsTrackedOnce` | `Spec => []OobwTrackedOnce` |
| `GroupOobwProofs!OobwAlwaysRunsAlone` | `Spec => []OobwRunsAlone` |
| `GroupQueueProofs!LimitsAreKept` | `Spec => []WithinLimits` |
| `GroupQueueProofs!ServedFirstComeFirst` | `Spec => FirstComeFirstServed` |
| `GroupQueueProofs!WaitersAreNeverRoutable` | `Spec => []WaitersAreNotRoutable` |
| `GroupQueueProofs!ProspectsAreKept` | `StickyRequests = {}` implies `Spec => KeepsProspects` |

These are all the invariants of `Group` that the runs check, and all its action properties.
The argument has layers, each an inductive invariant relative to those before it.

1. `SpawnInv`. `SpawnBookkeeping` says that the group counts exactly its current spawn loop.
   A restart increments `restartsInitiated`, so the loops of the *next* value become the
   current ones: there must be none (`NoFutureThreads`). The functions that may start a loop
   are summarised by one formula, `SpawnEffect`, so that most actions need a single step.
2. `ProcessTypes`, the types of everything else. With the first layer it gives `TypeOK`:
   that `processesBeingSpawned` stays a natural number follows from the bookkeeping only.
3. `ListInv`. A request is routed to a process in one of the lists, so to know that sessions
   are on live processes one has to know that processes in the lists are alive (`Live`). A
   disabling process that becomes idle is disabled; that it is on the wait list, and nothing
   else is, is `Matches`.
4. `ShutdownInv`. The checker decides to stop in the same critical section in which it
   removes the last process. That no session survives the end of a shutdown follows from layer
   3: its process would be alive and detached, so the checker would not have removed it.
5. `OobwInv`. Out-of-band work is a disable command, then a callback, then a thread. The
   invariant `Tracked` speaks of all three as one set of tracks, and of the lists, as they are
   in the middle of a critical section: several functions in a row move a track or drop it.
   That a thread is not lost when it starts depends on the list its process is on, and that it
   runs alone on the process being disabled and without sessions.
6. `LimitInv`. The limit on processes counts those being spawned (`Fits`). It is not enough by
   itself: a group that is alive and not spawning may have another process when it has none
   in rotation (`Grows`), since otherwise disabled processes alone could use the limit up and
   requests would wait for good. To that end `disable()` refuses to take the last process out of
   rotation when no other may be spawned, and a spawn that fails enables the disabling ones.
7. `QueueInv`. The order of the queue is transitive, who waits has no session, only requests
   with a cookie wait for a certain process, and the queue is no longer than it may be. Every
   action is classified once by what it does to the queue (`QueueStep`): appends a request,
   hands out sessions, empties it, or leaves it alone.
8. `RouteInv`. For those who wait, the processes in rotation, or the one that the cookie names,
   are totally busy. What could break it is a session that ends or a process that comes back
   into rotation, and both are followed by `AssignSessionsToGetWaiters` in the same critical
   section. That its loop leaves nobody behind who can be routed uses the order: the request
   that is left was routed nowhere given the sessions of those ahead of it, and sessions are
   only added after it.

`DetachedForGood` follows from layers 2 and 3, one step per action: a process that was told to
shut down is not alive, so it has no sessions when it is cleaned up, and attaching a new process
only ends the disabling of processes on the wait list, none of which is detached.
`FirstComeFirstServed` follows from layer 7 and the busyness of processes: when somebody behind
is served, whoever is ahead would have been served by that process. `KeepsProspects` uses layers
1, 6 and 8. With the last enabled process gone the code calls `spawn`, which starts a loop
unless the group is at its limit, which `LimitInv` excludes, or the pool is full, which is a
prospect. Garbage collection and the forced freeing of capacity take idle processes only, and
while there is one, by layer 8, nobody waits. That is where the hypothesis is needed: a request
whose cookie names a process that has left rotation waits next to an idle one (section 6),
and does not keep that one from being taken.

### Pool

For every number of applications, requests and processes. `PoolAssumption` asks that the
requests are finitely many, that each has an application, that the group map visits every name
once, and that the limits are natural numbers and `max` is at least 1.

| Theorem | Statement |
| --- | --- |
| `PoolProofs!PoolTypeCorrect` | `Spec => []TypeOK` |
| `PoolProofs!RequestsAreAnsweredOnce` | `Spec => []AnsweredOnce` |
| `PoolProofs!IdleMeetsOnlySticky` | `Spec => []OnlyStickyMeetIdle` |
| `PoolProofs!SpawnsAreCounted` | `Spec => []SpawnCountsOne` |
| `PoolProofs!PoolGrowsWithinMax` | `Spec => GrowsWithinMax` |
| `PoolProofs!PoolServesInOrder` | `Spec => WaitlistKeepsOrder` |

These are all the properties of `pool_safety`. They are proved together: each action satisfies
`StepOK`, which is the invariant `PoolInv` in the next state, growth within the maximum, and
the order of the list.

`PoolInv` says of each group what `OnlyStickyMeetIdle` and `SpawnCountsOne` say (`GroupOK`), and
of each request that it is in one group only and there either served or waiting (`Once`), on
the list once and then in no group (`WaitlistOK`), or detached and then neither. That is
`AnsweredOnce`, spelled out. In the middle of a critical section the invariant does not hold:
the spawn loop has taken its process off `processesBeingSpawned` and calls the pool before it
decides whether to go on. Therefore `GroupsOK(gs, X)` has the groups in flight as a parameter,
as `Refs` has the references held from outside, and every function of the pool has a contract
for any `X`.

A loop of the pool is a recursive function, and what it keeps true takes an induction over the
groups or the list. It is done by hand, from a lemma that is proved from the well-foundedness
of the naturals (`Induction`): the least turn after which the claim fails cannot be the
first, nor follow one after which it holds. For `ServeWaiters` the claim (`Served`) is the most
involved: after `i` turns the new list has, in order, those of the first `i` requests which
stayed (`Kept`), and neither they nor the rest of the old list are in a group. Each turn moves
only the request it looks at; this is why no request is answered twice although its group may
be created, filled and made to give up a process for another group in the same loop.

The sum over the groups is an induction too: a change of one group changes `CapacityUsed` by
as much (`CapacityChange`), and a change that lets no group grow does not let the sum grow
(`CapacityMonotone`). `spawn` adds one process when the pool is not full, so a loop that spawns
for many groups stops at the maximum by itself; `Within` is transitive along a critical
section.

### Socket and Controller

| Theorem | Statement |
| --- | --- |
| `ControllerProofs!ConnectionsAlwaysAccounted` | `SocketSpec => []ConnectionsAccounted` |
| `ControllerProofs!ControllerTypeCorrect` | `Spec => []TypeOK` |
| `ControllerProofs!ControllerImplementsSocket` | `Spec => SocketSpec` |
| `ControllerProofs!ControllerAccountsConnections` | `Spec => []ConnectionsAccounted` |
| `ControllerProofs!ReferencesAlwaysExact` | `Spec => []ReferencesAreExact` |
| `ControllerProofs!SessionAlwaysHasOneOwner` | `Spec => []SessionHasOneOwner` |
| `ControllerProofs!CallbacksAlwaysSafe` | `Spec => []CallbacksAreSafe` |

*Sockets.* For every set of processes and every finite set of sessions, and any concurrency
from -1 on (`SocketAssumption`). The inductive invariant `SocketInv` adds to
`ConnectionsAccounted` that a session in use belongs to a process that was not told to shut
down (`Located`): `CallOnClose` and `TriggerShutdown` are steps of different threads, and without
it a process could be shut down between the two steps in which a session ends. The counts are
cardinalities of sets of sessions, and each action adds one session to such a set, takes one
away or changes none; the steps that leave the sessions alone change the books of one process
only (`OtherProcesses`). Out-of-band work may go on past `TriggerShutdown` and `Cleanup`. The
theorem says what is right all the same: that its connection is the only one that may be out.

*References.* For every finite set of clients and of requests, of which there are more than
clients, and any number of attempts (`SessionsAssumption`, `HttpServerAssumption`,
`ControllerAssumption`). The code allocates a request object when none is free; in the model they are finitely many, and the
assumption says that they never run out. That it suffices is proved (`RequestsSuffice`): between
two callbacks of the event loop no client has more than one request, so that one is free.

A call such as `disconnect()` is several operations deep, and in the middle of it the counts are
off by the references that the call itself has taken over or not yet given back. Therefore the
invariant `Refs(h, X, Y)` has the references that are held from outside as parameters: `X[r]` of
them on request `r` and `Y[c]` on client `c`. Every operation has a contract: given `Refs` for
some `X` and `Y` it returns a server with `Refs` for others, and `Preserves` what callbacks rely
on and where the sessions are. Contracts compose along the calls, as the functions of the code
do. Between callbacks `X` and `Y` are what the outstanding callbacks and `shutdown()` hold
(`CallRefs`, `VisitRefs`). What does not hold in the middle of a call is in `Settled`: a request
that waits for its references has lost its client, and no callback is outstanding for one
whose output is flushed. The second part is why `deinitializeRequest` is not called with
an answer of the pool on its way.

`ControllerInv` is the inductive invariant: `SocketInv`, the references (`ServerOK`), what the
callbacks refer to (`CallsOK`) and who owns each session (`OwnersOK`). Every step of
`Controller` is a step of `Socket` or leaves the sockets alone, so the result on connections
carries over.

### Watchdog

| Theorem | Statement |
| --- | --- |
| `WatchdogProofs!OneCoreAlways` | `Spec => []OneCore` |
| `WatchdogProofs!DirAlwaysOutlivesCore` | `Spec => []DirOutlivesCore` |

For any number of restarts (`WatchdogAssumption`: at least one core may be started). The
inductive invariant `OneCoreInv` says that while the watchdog runs, a core that nobody has
waited for is the one that `pid` or the starting thread knows, and where each thread may be
when `pid` is out of date. `OneCore` alone is not inductive: it does not say that the thread
which forks knows of no other core, nor that the main thread signals only after the watcher
thread has ended. `DirInv` adds who may still remove the instance directory: once the cleanup
process exists the main process has given the directory up, nobody starts another core, and
the only core there may be is the one the cleanup process waits for.

### What is only model-checked

* Everything about `FileBufferedChannel`, the refinement of `Stream` included: its queue of
  buffers is summed up and searched by folds, which take an operator as a parameter, and no
  induction over them is within the provers' reach.
* All liveness properties, which need fairness: `WaitersAreAnswered`, `DetachedAreCleanedUp`,
  `OobwEnds`, `DataIsDelivered`, `EndIsDelivered`, `ShutdownFinishes`, `CheckoutsEnd`,
  `CoreComesBack` and `NothingIsLeft`.

## 5. What can go wrong here

`PROJECT.json` lists the hazards of the code line by line, with the properties that would
notice. In short: loops and restarters that outlive a restart; sessions that outlive their
process, group or list; callbacks that run after the mutex was released, or after the object
they were made for has ended; the checker's decision to stop; wait lists nobody looks at
again; limits checked at one time and relied on later; connections that are returned without
the pool's mutex; channels changed by their own callbacks; a reader and a mover that overtake
each other; agents that crash while they are being started or shut down. A hazard without a
property says why.

## 6. Where code and comments disagree

### Shown by a run

* **`detach()` on a group that shuts down** (`detaches_when_alive`). `Group::detach` asserts
  that the group is alive. `onSessionClose` allows a group that is shutting down and
  detaches a process that has served `maxRequests` requests there as well.
* **Waiting without a prospect** (`pool_prospects`). Invariant 2 of `Group::getWaitlist` says
  that a group with waiting requests has processes, or spawns or restarts, or the pool is
  full. When spawning fails in one group, another group that waited for the capacity is
  not told.
* **Errors of the buffer file** (`file_errors`). `FileBufferedChannel.h:102` says that an error
  cancels everything. When the file cannot be created or read, the request is reset before
  `setError()` cancels it, and a NULL pointer is used.
* **Deinitializing twice** (`lingering_requests`). `HttpServer.h:957` says that deinitializing
  a request is idempotent. It is not between `endRequest` and the end of the output
  (`FLUSHING_OUTPUT`): a client that disconnects then has its request on a list twice.

### Found in the models, without a run of their own

* *Sticky waiters.* Invariant 1 of `Group::getWaitlist` (`Group.h:377-385`) says that requests
  only wait when they cannot be routed. A request that waits for the process its cookie names
  becomes routable when that process is detached (`Pool/ProcessUtils.cpp:130`), and nobody
  looks. `WaitersAreNotRoutable` excludes such a request; that it is the only exception is
  proved. Invariant 2 suffers as well, so `group_oobw` has no sticky sessions.
* *Counting out-of-band work.* `oobwAllowed()` counts processes by `oobwStatus`. One whose
  disable command failed is counted again if an administrator disables it before the callback
  has run, and one that is detached while it works is no longer counted. `OobwRunsAlone` counts
  the processes of the group that were taken out for the work.
* *Idle processes and waiting requests.* `Pool::forceFreeCapacity` asserts that the group whose
  idle process it takes has no waiting requests (`Pool/ProcessUtils.cpp:113`). `route()` queues a
  request whose cookie names a busy process while others are idle
  (`Group/SessionManagement.cpp:70-77`), and with such requests TLC finds states in which the
  assertion fails when another application needs capacity. `OnlyStickyMeetIdle` is what
  remains of it, and is proved.
* *Closing all connections.* `Socket::closeAllConnections` asserts that no connection is in use
  (`Socket.h:216`). `canTriggerShutdown()` counts sessions, and the connection of out-of-band work
  is none (`Group/OutOfBandWork.cpp:224`): when its process is detached and exits while the thread
  still waits for the answer, or just before it connects, the assertion fails.
  `ConnectionsAccounted` says that this is the only case.
* *A replacement irrespective of limits.* The comment in `Group::disable`
  (`Group/ProcessListManagement.cpp:585-590`) says that when the last process is disabled
  another is spawned "irrespective of resource limits because this is an exceptional
  situation". The code calls `spawn()`, which keeps to the limits, and before that refuses the
  command with `DR_ERROR` when `allowSpawn()` is false. `WithinLimits` holds of what the code
  does, and would not hold of what the comment says.
* *Disable commands.* A deferred command is said to be answered later
  (`Group/ProcessListManagement.cpp:560`). If the last enabled process is detached while the
  disabling one serves a request, no event of the group itself answers it.
* *The pool's wait list.* `Pool.h:244-249` says that a process that was spawned for a group
  without waiting requests can be killed for a request on the list. The spawn loop looks at the
  list but kills nothing (`Group/SpawningAndRestarting.cpp:164`). The two invariants that
  `Pool.h` states for the list do not survive restarts and `detachGroupByName` either.
* *Stopping a channel that plans a call* (`Channel.h:719-724`). `state` is overwritten before it
  is compared, and the plan is never cancelled. `Stop` is therefore restricted to where the
  request handler calls it: in the data callback, and right after initialization. With `Stop`
  anywhere TLC finds `PlansMatchState` violated. A `stop()` while a chunk is read from the
  file, which is excluded in the same way, leaves the reader with a channel it cannot feed.
* *Short writes* (`FileBufferedChannel.h:1158`). The rest of a buffer is written at the offset
  of its first part. With that step (`BufferPartlyWritten`) TLC finds `MoverAgreesWithReader`
  violated, and reaches states in which the file holds fewer bytes than `written` counts.
* *`ERROR_WAITING`* (`FileBufferedChannel.h:112-121`) is said to become `ERROR` once the error
  was fed; `onChannelConsumed` feeds the error and leaves the mode as it is.
* *An error in the data callback* (`Channel.h:218-220`). After `feedError()` "anything is fine"
  as a result, but a negative one takes the channel from its final state to one that waits for
  `consumed()` (`Channel.h:448-450`).

### Read in the code, and not modelled

* `SafeLibev::cancelCommand` (`SafeLibev.h:285`) does not find a command of the batch that
  `runCommands` is executing.
* `maybeSend100Continue` (`CheckoutSession.cpp:142`) may find that it cannot write to the client.
  The client is then disconnected, the request ends and its session is dropped, but
  `initiateSession` is called all the same and uses `req->session`, which is NULL. `Install` has
  no step for it.
* `Session.h:191`: if `setNonBlocking` throws, the connection is closed and never checked in.
* `Server::shutdown` (`Server.h:809`) does nothing in `TOO_MANY_FDS`, and it is called once.
  `ShutdownFinishes` speaks of a shutdown that has begun.
* An agent that exits with status 0 is not started again (`AgentWatcher.cpp:80`). This one is in
  the model: `CoreComesBack` speaks of crashes.
* If a hook script or `fork()` fails, or the report of a failed start, the instance directory is
  removed while the core runs (`WatchdogMain.cpp:1455`). This one is in the model too: `DirOutlivesCore` excludes it.
* A core that is shutting down looks at its clients only (`CoreMain.cpp:1266-1270`), so it does
  not notice that the watchdog is gone. `NothingIsLeft` allows it to wait for its clients.

## 7. Not modelled

Inside the modelled parts: `Pool::prepareForShutdown` and `destroy`, `findOrCreateGroup`,
garbage collection of preloaders, several sockets per process, the analytics collector apart
from its detaching of dead processes, and restarts through a touched file of requests taken
from the pool's wait list; a channel whose hooks say that its client is gone, which stops in
`CALLING` until its owner deinitializes it (`Channel.h:408-416`); `buffersFlushedCallback` and `dataFlushedCallback` of the buffered
channel; sending requests and forwarding responses, whose outcome alone is in `Controller`; in
the watchdog the polling of processes under a debugger, the process that touches the instance
directory, the API server and everything before the agents are started.

Spawning (`../SpawningKit`) is a step of `Group` and `Pool` that succeeds, fails or takes long.
The preloader's retry and the handshake's three threads have hazards of their own, which
`PROJECT.json` lists without a property; a module for them would be the next one to write,
and proofs about `FileBufferedChannel` the next ones, for which its folds would have to become
recursive functions, as in `Pool`.

The parsers of `ServerKit` work byte by byte and are better served by tests. The response
cache, configuration, logging, data structures and small agents are sequential. Web server
modules, installers, loaders and command line tools are glue or I/O, and most of the lines
under `src/` are libraries that Passenger bundles. The modules therefore cover a small share of
all lines: the part in which threads, callbacks and processes meet.
