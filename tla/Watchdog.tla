------------------------------ MODULE Watchdog ------------------------------
(***************************************************************************)
(* The watchdog: its main thread (WatchdogMain.cpp), the thread that       *)
(* watches the core and starts it again (AgentWatcher.cpp), the background *)
(* process that cleans up after the watchdog has exited, and the core      *)
(* processes as far as the watchdog sees them (CoreMain.cpp).  The         *)
(* processes share nothing but signals, exit statuses and the feedback     *)
(* socket of the core, and any of them may be killed at any time.          *)
(***************************************************************************)
EXTENDS Naturals

CONSTANT MaxCores  \* bound on the core processes that are started

ASSUME WatchdogAssumption == MaxCores \in Nat \ {0}

Core == 1..MaxCores

VARIABLES
  main,        \* where the main thread is
  how,         \* how the watchdog ends: gracefully, by force, aborted or thrown out
  thread,      \* where the watcher thread is
  interrupted, \* the watcher thread is told to stop
  errorEvent,  \* the watcher thread gave up with an exception
  pid,         \* AgentWatcher::pid, or 0
  watched,     \* the local pid of threadMain() and start(), or 0
  core,        \* the core processes
  reported,    \* the cores that have sent "initialized"
  child,       \* where the background cleanup is
  owner,       \* the main process owns the instance directory
  dir          \* the instance directory exists

vars == <<main, how, thread, interrupted, errorEvent, pid, watched,
          core, reported, child, owner, dir>>

threadVars == <<thread, interrupted, errorEvent, watched>>
endVars == <<how, child, owner, dir>>

Init ==
  /\ main = "START" /\ how = "NOT_YET"
  /\ thread = "NONE" /\ interrupted = FALSE /\ errorEvent = FALSE
  /\ pid = 0 /\ watched = 0
  /\ core = [c \in Core |-> "NONE"] /\ reported = {}
  /\ child = "NONE" /\ owner = TRUE /\ dir = TRUE

Alive(c) == core[c] \in {"STARTING", "RUNNING", "QUITTING"}
Zombie(c) == core[c] \in {"EXITED_0", "CRASHED"}
WatchdogRuns == main \notin {"GONE", "CRASHED"}

-----------------------------------------------------------------------------
(* The core *)

(* The watchdog's end of the feedback socket is open. *)
FeedbackOpen == WatchdogRuns \/ child \notin {"NONE", "GONE", "CRASHED"}

OnlyCore(c, state) ==
  /\ core' = [core EXCEPT ![c] = state]
  /\ UNCHANGED <<main, pid, threadVars, endVars>>

CoreInitialized(c) ==
  /\ core[c] = "STARTING" /\ FeedbackOpen
  /\ OnlyCore(c, "RUNNING") /\ reported' = reported \cup {c}

(* The last core that the bound allows does not crash. *)
CoreCrashes(c) ==
  /\ Alive(c) /\ c < MaxCores
  /\ OnlyCore(c, "CRASHED") /\ UNCHANGED reported

(* A signal or a command of the API: waitForExitEvent looks at nothing else *)
(* than allClientsDisconnectedEvent from now on.                            *)
CoreToldToQuit(c) ==
  /\ core[c] = "RUNNING"
  /\ OnlyCore(c, "QUITTING") /\ UNCHANGED reported

CoreQuits(c) ==
  /\ core[c] = "QUITTING"
  /\ OnlyCore(c, "EXITED_0") /\ UNCHANGED reported

(* The other end of the feedback socket is closed: kill the whole group. *)
CoreIsAlone(c) ==
  /\ core[c] \in {"STARTING", "RUNNING"} /\ ~FeedbackOpen
  /\ OnlyCore(c, "CRASHED") /\ UNCHANGED reported

(* Without its parent a dead process is reaped by init. *)
Orphaned(c) ==
  /\ Zombie(c) /\ ~WatchdogRuns
  /\ OnlyCore(c, "GONE") /\ UNCHANGED reported

-----------------------------------------------------------------------------
(* AgentWatcher *)

(* start() forks, sends the startup arguments and waits for the feedback. *)
Fork ==
  \E c \in Core :
    /\ watched = 0 /\ core[c] = "NONE" /\ \A d \in 1..(c - 1) : core[d] # "NONE"
    /\ core' = [core EXCEPT ![c] = "STARTING"]
    /\ watched' = c
    /\ UNCHANGED <<reported, pid>>

Started ==
  /\ watched # 0 /\ watched \in reported
  /\ pid' = watched
  /\ UNCHANGED <<core, reported>>

(* killProcessGroupAndWait *)
Kill(c) == core' = [core EXCEPT ![c] = "GONE"]

(* No feedback, or one that is wrong: failGuard kills the process. *)
StartFails ==
  /\ watched # 0 /\ watched \notin reported
  /\ Kill(watched) /\ watched' = 0
  /\ UNCHANGED <<reported, pid>>

ThreadOnly == WatchdogRuns /\ UNCHANGED <<main, endVars, interrupted>>

(* The top of the loop of threadMain. *)
ThreadStops ==
  /\ thread = "TOP" /\ interrupted
  /\ thread' = "ENDED"
  /\ UNCHANGED <<core, reported, pid, watched, errorEvent>> /\ ThreadOnly

ThreadWaits ==
  /\ thread = "TOP" /\ ~interrupted /\ pid # 0
  /\ thread' = "WAIT" /\ watched' = pid
  /\ UNCHANGED <<core, reported, pid, errorEvent>> /\ ThreadOnly

ThreadForks ==
  /\ thread = "TOP" /\ ~interrupted /\ pid = 0
  /\ Fork
  /\ thread' = "START" /\ UNCHANGED errorEvent /\ ThreadOnly

ThreadStarted ==
  /\ thread = "START" /\ Started
  /\ thread' = "WAIT" /\ UNCHANGED <<watched, errorEvent>> /\ ThreadOnly

\* Mutant: the main thread is not told that the core could not be started.
ThreadStartFails_Silently ==
  /\ thread = "START" /\ StartFails
  /\ thread' = "ENDED" /\ UNCHANGED errorEvent /\ ThreadOnly

ThreadStartFails ==
  /\ thread = "START" /\ StartFails
  /\ thread' = "ENDED" /\ errorEvent' = TRUE /\ ThreadOnly

(* thread_interrupted out of start(), with failGuard, or out of waitpid(). *)
ThreadInterrupted ==
  /\ interrupted /\ thread \in {"START", "WAIT"}
  /\ IF thread = "START" THEN Kill(watched) ELSE UNCHANGED core
  /\ thread' = "ENDED" /\ watched' = 0
  /\ UNCHANGED <<reported, pid, errorEvent>> /\ ThreadOnly

(* waitpid() returns; the status is in the next state. *)
ThreadReaps ==
  /\ thread = "WAIT" /\ Zombie(watched)
  /\ thread' = IF core[watched] = "EXITED_0" THEN "REAPED_0" ELSE "REAPED"
  /\ Kill(watched) /\ watched' = 0
  /\ UNCHANGED <<reported, pid, errorEvent>> /\ ThreadOnly

\* Mutant: the pid is forgotten only when the core is started again.
ThreadForgets_OnlyCrashes ==
  /\ thread \in {"REAPED_0", "REAPED"}
  /\ pid' = IF thread = "REAPED_0" THEN pid ELSE 0
  /\ thread' = IF thread = "REAPED_0" THEN "ENDED" ELSE "TOP"
  /\ UNCHANGED <<core, reported, watched, errorEvent>> /\ ThreadOnly

(* An agent that exits with status 0 is not started again. *)
ThreadForgets ==
  /\ thread \in {"REAPED_0", "REAPED"}
  /\ pid' = 0
  /\ thread' = IF thread = "REAPED_0" THEN "ENDED" ELSE "TOP"
  /\ UNCHANGED <<core, reported, watched, errorEvent>> /\ ThreadOnly

-----------------------------------------------------------------------------
(* watchdogMain *)

Main(from, to) == main = from /\ main' = to

(* startAgents *)
MainForks ==
  /\ Main("START", "START") /\ pid = 0 /\ Fork
  /\ UNCHANGED <<thread, interrupted, errorEvent, endVars>>

(* beginWatching makes the thread. *)
MainStarted ==
  /\ Main("START", "REPORT") /\ Started
  /\ watched' = 0 /\ thread' = "TOP"
  /\ UNCHANGED <<interrupted, errorEvent, endVars>>

MainStartFails ==
  /\ Main("START", "TERM") /\ StartFails
  /\ how' = "ABORTED" /\ UNCHANGED <<thread, interrupted, errorEvent, child, owner, dir>>

(* There are no resources for a thread. *)
BeginWatchingFails ==
  /\ Main("START", "TERM") /\ Started
  /\ how' = "ABORTED" /\ watched' = 0
  /\ UNCHANGED <<thread, interrupted, errorEvent, child, owner, dir>>

MainOnly == UNCHANGED <<core, reported, pid, thread, errorEvent, watched>>

(* reportStartupResult, finalizeInstanceDir and the hook script. *)
Report == Main("REPORT", "SELECT") /\ MainOnly /\ UNCHANGED <<interrupted, endVars>>

(* waitForStarterProcessOrWatchers *)
Select(g) ==
  /\ Main("SELECT", "HOOK")
  /\ how' = IF g /\ ~errorEvent THEN "GRACEFUL" ELSE "FORCED"
  /\ MainOnly /\ UNCHANGED <<interrupted, child, owner, dir>>

(* stopWatching interrupts the thread, and then joins it. *)
StopWatching ==
  /\ Main("HOOK", "JOIN") /\ interrupted' = TRUE
  /\ MainOnly /\ UNCHANGED endVars

Join ==
  /\ Main("JOIN", IF how = "GRACEFUL" THEN "FORK" ELSE "TERM") /\ thread = "ENDED"
  /\ MainOnly /\ UNCHANGED <<interrupted, endVars>>

Terminate == IF pid # 0 /\ core[pid] = "RUNNING"
             THEN core' = [core EXCEPT ![pid] = "QUITTING"] ELSE UNCHANGED core

(* forceAllAgentsShutdown: SIGTERM, one second, SIGKILL. *)
MainTerminates ==
  /\ Main("TERM", "KILL") /\ Terminate
  /\ UNCHANGED <<reported, pid, threadVars, endVars>>

MainKills ==
  /\ Main("KILL", "CLEANUP")
  /\ IF pid # 0 THEN Kill(pid) ELSE UNCHANGED core
  /\ pid' = 0 /\ UNCHANGED <<reported, threadVars, endVars>>

(* cleanup(), and the last hook script unless something has failed. *)
MainCleansUp ==
  /\ Main("CLEANUP", IF how = "FORCED" THEN "AFTER" ELSE "GONE")
  /\ dir' = (dir /\ ~owner) /\ owner' = FALSE
  /\ MainOnly /\ UNCHANGED <<interrupted, how, child>>

\* Mutant: the parent goes on owning the instance directory.
ForkCleanup_NoDetach ==
  /\ Main("FORK", "AFTER") /\ child' = "TERM"
  /\ MainOnly /\ UNCHANGED <<interrupted, how, owner, dir>>

(* cleanupAgentsInBackground *)
ForkCleanup ==
  /\ Main("FORK", "AFTER") /\ child' = "TERM" /\ owner' = FALSE
  /\ MainOnly /\ UNCHANGED <<interrupted, how, dir>>

Exit == Main("AFTER", "GONE") /\ MainOnly /\ UNCHANGED <<interrupted, endVars>>

(* A hook script, the report or fork() throws an exception.  What starting   *)
(* or watching the core throws is caught where it is thrown (MainStartFails,  *)
(* BeginWatchingFails), but there the error is reported to the starter first, *)
(* which may throw in its turn: then the agents are not shut down.            *)
Throw ==
  /\ \/ main \in {"REPORT", "HOOK", "FORK", "AFTER"}
     \/ main = "TERM" /\ how = "ABORTED"
  /\ main' = "CLEANUP" /\ how' = "THROWN"
  /\ MainOnly /\ UNCHANGED <<interrupted, child, owner, dir>>

(* The watchdog is killed. *)
Crash ==
  /\ WatchdogRuns
  /\ main' = "CRASHED" /\ thread' = "ENDED"
  /\ UNCHANGED <<core, reported, pid, errorEvent, watched, interrupted, endVars>>

-----------------------------------------------------------------------------
(* The child process of cleanupAgentsInBackground *)

Child(from, to) ==
  /\ child = from /\ child' = to
  /\ UNCHANGED <<main, pid, threadVars, reported, how, owner>>

ChildTerminates == Child("TERM", "WAIT") /\ Terminate /\ UNCHANGED dir

(* All feedback sockets are closed, or 30 seconds have passed. *)
ChildWaited == Child("WAIT", "KILL") /\ UNCHANGED <<core, dir>>

\* Mutant: a core that is shutting down is not killed.
ChildKills_OnlyRunning ==
  /\ Child("KILL", "CLEANUP")
  /\ IF pid # 0 /\ core[pid] = "RUNNING"
     THEN core' = [core EXCEPT ![pid] = "CRASHED"] ELSE UNCHANGED core
  /\ UNCHANGED dir

(* SIGKILL.  The core is no child of this process, so it is not reaped. *)
ChildKills ==
  /\ Child("KILL", "CLEANUP")
  /\ IF pid # 0 /\ Alive(pid)
     THEN core' = [core EXCEPT ![pid] = "CRASHED"] ELSE UNCHANGED core
  /\ UNCHANGED dir

ChildCleansUp == Child("CLEANUP", "GONE") /\ dir' = FALSE /\ UNCHANGED core

ChildCrashes ==
  /\ child \in {"TERM", "WAIT", "KILL", "CLEANUP"}
  /\ Child(child, "CRASHED") /\ UNCHANGED <<core, dir>>

-----------------------------------------------------------------------------
ThreadSteps ==
  \/ ThreadStops \/ ThreadWaits \/ ThreadForks \/ ThreadStarted \/ ThreadStartFails
  \/ ThreadInterrupted \/ ThreadReaps \/ ThreadForgets

MainSteps ==
  \/ MainForks \/ MainStarted \/ MainStartFails \/ BeginWatchingFails
  \/ Report \/ StopWatching \/ Join
  \/ MainTerminates \/ MainKills \/ MainCleansUp \/ ForkCleanup \/ Exit

ChildSteps == ChildTerminates \/ ChildWaited \/ ChildKills \/ ChildCleansUp

Next ==
  \/ \E c \in Core : \/ CoreInitialized(c) \/ CoreCrashes(c) \/ CoreToldToQuit(c)
                     \/ CoreQuits(c) \/ CoreIsAlone(c) \/ Orphaned(c)
  \/ ThreadSteps \/ MainSteps \/ ChildSteps
  \/ \E g \in BOOLEAN : Select(g)
  \/ Throw \/ Crash \/ ChildCrashes

Spec == Init /\ [][Next]_vars

(* Every thread runs, select() returns when there is an error, and a core   *)
(* initializes itself and notices that it is alone.  Whether a core that is  *)
(* told to quit ever does is up to its clients.                             *)
Fairness ==
  /\ WF_vars(ThreadSteps) /\ WF_vars(MainSteps) /\ WF_vars(ChildSteps)
  /\ WF_vars(errorEvent /\ Select(FALSE))
  /\ \A c \in Core : WF_vars(CoreInitialized(c) \/ CoreIsAlone(c) \/ Orphaned(c))

FairSpec == Spec /\ Fairness

-----------------------------------------------------------------------------
(* There is at most one core at a time, however often it is restarted and   *)
(* whatever interrupts that; and the process that the main thread is about  *)
(* to signal is its own child that nobody has waited for yet, never a       *)
(* process that got the same number since.                                  *)
OneCore ==
  /\ \A c, d \in Core : Alive(c) /\ Alive(d) => c = d
  /\ main \in {"TERM", "KILL"} /\ pid # 0 => core[pid] # "GONE"

(* The instance directory, with the sockets of the core in it, is not       *)
(* removed under a core that is still running: not by the main process once *)
(* the cleanup is left to its child, and not by the child before the core   *)
(* is dead.  (An exception before that does remove it.)                     *)
DirOutlivesCore ==
  ~dir => \/ \A c \in Core : ~Alive(c)
          \/ how = "THROWN" /\ child = "NONE"

(* A core that crashes is replaced by one that initializes itself, or the   *)
(* watchdog stops.                                                          *)
CoreComesBack ==
  \A c \in Core :
    main = "SELECT" /\ core[c] = "CRASHED"
      ~> main # "SELECT" \/ \E d \in reported : d > c

(* Once the watchdog is to stop, or is killed, no core goes on serving; and *)
(* when nothing was killed or thrown, no core is left at all, even if its   *)
(* clients never leave, and the instance directory is removed.              *)
NothingIsLeft ==
  main \notin {"START", "REPORT", "SELECT"} ~>
    /\ ~WatchdogRuns
    /\ \A c \in Core : core[c] \notin {"STARTING", "RUNNING"}
    /\ \/ main = "CRASHED" \/ child = "CRASHED" \/ how = "THROWN"
       \/ ~dir /\ \A c \in Core : ~Alive(c)
=============================================================================
