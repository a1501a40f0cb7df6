--------------------------- MODULE WatchdogProofs ---------------------------
(***************************************************************************)
(* The watchdog never has two cores, and signals no stranger, for any      *)
(* number of restarts; and the instance directory outlives the core.       *)
(***************************************************************************)
EXTENDS Watchdog, TLAPS

(* A core that the watchdog has started and nobody has waited for. *)
Unreaped(c) == core[c] \notin {"NONE", "GONE"}

(* The inductive invariant behind OneCore: as long as the watchdog runs, a  *)
(* core that is not waited for is the one that pid or the thread knows, and *)
(* pid is out of date only between waitpid() and the next statement.        *)
OneCoreInv ==
  /\ pid \in 0..MaxCores /\ watched \in 0..MaxCores /\ reported \subseteq Core
  /\ core \in [Core -> {"NONE", "STARTING", "RUNNING", "QUITTING", "EXITED_0",
                        "CRASHED", "GONE"}]
  /\ \A c, d \in Core : Unreaped(c) /\ Unreaped(d) => c = d
  /\ WatchdogRuns =>
       /\ \A c \in Core : Unreaped(c) => c \in {pid, watched}
       /\ pid # 0 /\ thread \notin {"REAPED", "REAPED_0"} => Unreaped(pid)
       /\ thread = "WAIT" => watched = pid /\ pid # 0
       /\ thread = "START" => pid = 0 /\ watched # 0 /\ Unreaped(watched)
       /\ thread \in {"TOP", "REAPED", "REAPED_0", "ENDED"} => watched = 0
       /\ thread \in {"REAPED", "REAPED_0"} => \A c \in Core : ~Unreaped(c)
       /\ main = "START" => thread = "NONE" /\ pid = 0 /\ (watched # 0 => Unreaped(watched))
       /\ thread = "NONE" /\ main # "START" => watched = 0
       /\ main \in {"TERM", "KILL", "FORK"} => thread \in {"NONE", "ENDED"}

-----------------------------------------------------------------------------
\* At the start there is no core.
LEMMA OneCoreInit == Init => OneCoreInv
BY WatchdogAssumption DEF Init, OneCoreInv, Core, Unreaped, WatchdogRuns

\* A step of the main thread keeps it.
LEMMA MainKeepsOneCore ==
  ASSUME OneCoreInv, MainSteps \/ Throw \/ Crash \/ (\E g \in BOOLEAN : Select(g))
  PROVE  OneCoreInv'
<1>1. CASE MainForks
  BY <1>1, WatchdogAssumption DEF MainForks, Main, Fork, endVars, OneCoreInv,
     Unreaped, WatchdogRuns, Core
<1>2. CASE MainStarted
  BY <1>2, WatchdogAssumption DEF MainStarted, Main, Started, endVars, OneCoreInv,
     Unreaped, WatchdogRuns, Core
<1>3. CASE MainStartFails
  BY <1>3, WatchdogAssumption DEF MainStartFails, Main, StartFails, Kill, OneCoreInv,
     Unreaped, WatchdogRuns, Core
<1>4. CASE BeginWatchingFails
  BY <1>4, WatchdogAssumption DEF BeginWatchingFails, Main, Started, OneCoreInv,
     Unreaped, WatchdogRuns, Core
<1>5. CASE Report
  BY <1>5, WatchdogAssumption DEF Report, Main, MainOnly, endVars, OneCoreInv,
     Unreaped, WatchdogRuns, Core
<1>6. CASE StopWatching
  BY <1>6, WatchdogAssumption DEF StopWatching, Main, MainOnly, endVars, OneCoreInv,
     Unreaped, WatchdogRuns, Core
<1>7. CASE Join
  BY <1>7, WatchdogAssumption DEF Join, Main, MainOnly, endVars, OneCoreInv,
     Unreaped, WatchdogRuns, Core
<1>8. CASE MainTerminates
  BY <1>8, WatchdogAssumption DEF MainTerminates, Main, Terminate, threadVars, endVars,
     OneCoreInv, Unreaped, WatchdogRuns, Core
<1>9. CASE MainKills
  BY <1>9, WatchdogAssumption DEF MainKills, Main, Kill, threadVars, endVars, OneCoreInv,
     Unreaped, WatchdogRuns, Core
<1>10. CASE MainCleansUp
  BY <1>10, WatchdogAssumption DEF MainCleansUp, Main, MainOnly, OneCoreInv,
     Unreaped, WatchdogRuns, Core
<1>11. CASE ForkCleanup
  BY <1>11, WatchdogAssumption DEF ForkCleanup, Main, MainOnly, OneCoreInv,
     Unreaped, WatchdogRuns, Core
<1>12. CASE Exit
  BY <1>12, WatchdogAssumption DEF Exit, Main, MainOnly, endVars, OneCoreInv,
     Unreaped, WatchdogRuns, Core
<1>13. CASE Throw
  BY <1>13, WatchdogAssumption DEF Throw, MainOnly, OneCoreInv, Unreaped,
     WatchdogRuns, Core
<1>14. CASE Crash
  BY <1>14, WatchdogAssumption DEF Crash, endVars, OneCoreInv, Unreaped,
     WatchdogRuns, Core
<1>15. CASE \E g \in BOOLEAN : Select(g)
  BY <1>15, WatchdogAssumption DEF Select, Main, MainOnly, OneCoreInv, Unreaped,
     WatchdogRuns, Core
<1> QED BY <1>1, <1>2, <1>3, <1>4, <1>5, <1>6, <1>7, <1>8, <1>9, <1>10, <1>11, <1>12, <1>13, <1>14, <1>15 DEF MainSteps

\* A step of the watcher thread keeps it.
LEMMA ThreadKeepsOneCore == ASSUME OneCoreInv, ThreadSteps PROVE OneCoreInv'
<1>1. CASE ThreadStops
  BY <1>1, WatchdogAssumption DEF ThreadStops, ThreadOnly, endVars, OneCoreInv,
     Unreaped, WatchdogRuns, Core
<1>2. CASE ThreadWaits
  BY <1>2, WatchdogAssumption DEF ThreadWaits, ThreadOnly, endVars, OneCoreInv,
     Unreaped, WatchdogRuns, Core
<1>3. CASE ThreadForks
  BY <1>3, WatchdogAssumption DEF ThreadForks, Fork, ThreadOnly, endVars, OneCoreInv,
     Unreaped, WatchdogRuns, Core
<1>4. CASE ThreadStarted
  BY <1>4, WatchdogAssumption DEF ThreadStarted, Started, ThreadOnly, endVars, OneCoreInv,
     Unreaped, WatchdogRuns, Core
<1>5. CASE ThreadStartFails
  BY <1>5, WatchdogAssumption DEF ThreadStartFails, StartFails, Kill, ThreadOnly, endVars,
     OneCoreInv, Unreaped, WatchdogRuns, Core
<1>6. CASE ThreadInterrupted
  BY <1>6, WatchdogAssumption DEF ThreadInterrupted, Kill, ThreadOnly, endVars,
     OneCoreInv, Unreaped, WatchdogRuns, Core
<1>7. CASE ThreadReaps
  BY <1>7, WatchdogAssumption DEF ThreadReaps, Kill, ThreadOnly, endVars, Zombie,
     OneCoreInv, Unreaped, WatchdogRuns, Core
<1>8. CASE ThreadForgets
  BY <1>8, WatchdogAssumption DEF ThreadForgets, ThreadOnly, endVars, OneCoreInv,
     Unreaped, WatchdogRuns, Core
<1> QED BY <1>1, <1>2, <1>3, <1>4, <1>5, <1>6, <1>7, <1>8 DEF ThreadSteps

\* A step of the background cleanup keeps it.
LEMMA ChildKeepsOneCore == ASSUME OneCoreInv, ChildSteps \/ ChildCrashes PROVE OneCoreInv'
<1>1. CASE ChildTerminates
  BY <1>1, WatchdogAssumption DEF ChildTerminates, Terminate, Child, threadVars,
     OneCoreInv, Unreaped, WatchdogRuns, Core
<1>2. CASE ChildWaited
  BY <1>2, WatchdogAssumption DEF ChildWaited, Child, threadVars, OneCoreInv,
     Unreaped, WatchdogRuns, Core
<1>3. CASE ChildKills
  BY <1>3, WatchdogAssumption DEF ChildKills, Child, threadVars, Alive, OneCoreInv,
     Unreaped, WatchdogRuns, Core
<1>4. CASE ChildCleansUp
  BY <1>4, WatchdogAssumption DEF ChildCleansUp, Child, threadVars, OneCoreInv,
     Unreaped, WatchdogRuns, Core
<1>5. CASE ChildCrashes
  BY <1>5, WatchdogAssumption DEF ChildCrashes, Child, threadVars, OneCoreInv,
     Unreaped, WatchdogRuns, Core
<1> QED BY <1>1, <1>2, <1>3, <1>4, <1>5 DEF ChildSteps

\* A step of a core keeps it.
LEMMA CoreKeepsOneCore ==
  ASSUME OneCoreInv, NEW c \in Core,
         \/ CoreInitialized(c) \/ CoreCrashes(c) \/ CoreToldToQuit(c)
         \/ CoreQuits(c) \/ CoreIsAlone(c) \/ Orphaned(c)
  PROVE  OneCoreInv'
<1>1. CASE CoreInitialized(c)
  BY <1>1, WatchdogAssumption DEF CoreInitialized, OnlyCore, threadVars, endVars,
     OneCoreInv, Unreaped, WatchdogRuns, Core
<1>2. CASE CoreCrashes(c)
  BY <1>2, WatchdogAssumption DEF CoreCrashes, Alive, OnlyCore, threadVars, endVars,
     OneCoreInv, Unreaped, WatchdogRuns, Core
<1>3. CASE CoreToldToQuit(c)
  BY <1>3, WatchdogAssumption DEF CoreToldToQuit, OnlyCore, threadVars, endVars,
     OneCoreInv, Unreaped, WatchdogRuns, Core
<1>4. CASE CoreQuits(c)
  BY <1>4, WatchdogAssumption DEF CoreQuits, OnlyCore, threadVars, endVars, OneCoreInv,
     Unreaped, WatchdogRuns, Core
<1>5. CASE CoreIsAlone(c)
  BY <1>5, WatchdogAssumption DEF CoreIsAlone, OnlyCore, threadVars, endVars, OneCoreInv,
     Unreaped, WatchdogRuns, Core
<1>6. CASE Orphaned(c)
  BY <1>6, WatchdogAssumption DEF Orphaned, Zombie, OnlyCore, threadVars, endVars,
     OneCoreInv, Unreaped, WatchdogRuns, Core
<1> QED BY <1>1, <1>2, <1>3, <1>4, <1>5, <1>6

\* Every step keeps it.
LEMMA OneCoreStep == OneCoreInv /\ [Next]_vars => OneCoreInv'
<1> SUFFICES ASSUME OneCoreInv, [Next]_vars PROVE OneCoreInv'
  OBVIOUS
<1>1. CASE UNCHANGED vars
  BY <1>1 DEF vars, OneCoreInv, Unreaped, WatchdogRuns
<1>2. CASE Next
  BY <1>2, MainKeepsOneCore, ThreadKeepsOneCore, ChildKeepsOneCore, CoreKeepsOneCore DEF Next
<1> QED BY <1>1, <1>2

\* For every number of restarts: however the threads, the core, its crashes and the
\* shutdown interleave, there is at most one core at a time, and the main thread only
\* signals a process of its own that has not been waited for.
THEOREM OneCoreAlways == Spec => []OneCore
<1>1. OneCoreInv => OneCore
  BY DEF OneCoreInv, OneCore, Unreaped, Alive, WatchdogRuns, Core
<1> QED BY OneCoreInit, OneCoreStep, <1>1, PTL DEF Spec

-----------------------------------------------------------------------------
(* The instance directory *)

NoCore == \A c \in Core : ~Alive(c)

(* Whoever would start a core has ended. *)
NoMoreCores == main # "START" /\ thread \in {"NONE", "ENDED"}

(* The inductive invariant behind DirOutlivesCore.  The main process comes  *)
(* to cleanup() without a core, unless something was thrown; once the child *)
(* exists the main process no longer owns the directory, nobody starts a    *)
(* core, and the only one there may be is the one that the child knows.     *)
DirInv ==
  /\ main = "CLEANUP" /\ how # "THROWN" => NoCore /\ NoMoreCores
  /\ child # "NONE" =>
       /\ NoMoreCores /\ ~owner /\ main \in {"AFTER", "CLEANUP", "GONE", "CRASHED"}
       /\ \A c \in Core : Alive(c) => c = pid
  /\ child = "CLEANUP" => NoCore
  /\ ~dir => \/ NoCore /\ NoMoreCores /\ main \in {"AFTER", "CLEANUP", "GONE", "CRASHED"}
             \/ how = "THROWN" /\ child = "NONE" /\ main = "GONE"

\* The main process gives the directory up, or removes it after the core.
LEMMA MainKeepsDir ==
  ASSUME OneCoreInv, DirInv, MainSteps \/ Throw \/ Crash \/ (\E g \in BOOLEAN : Select(g))
  PROVE  DirInv'
<1>1. CASE MainForks
  BY <1>1 DEF MainForks, Main, Fork, endVars,
     DirInv, NoCore, NoMoreCores, Alive
<1>2. CASE MainStarted
  BY <1>2 DEF MainStarted, Main, Started, endVars,
     DirInv, NoCore, NoMoreCores, Alive
<1>3. CASE MainStartFails
  BY <1>3 DEF MainStartFails, Main, StartFails, Kill,
     DirInv, NoCore, NoMoreCores, Alive
<1>4. CASE BeginWatchingFails
  BY <1>4 DEF BeginWatchingFails, Main, Started,
     DirInv, NoCore, NoMoreCores, Alive
<1>5. CASE Report
  BY <1>5 DEF Report, Main, MainOnly, endVars,
     DirInv, NoCore, NoMoreCores, Alive
<1>6. CASE StopWatching
  BY <1>6 DEF StopWatching, Main, MainOnly, endVars,
     DirInv, NoCore, NoMoreCores, Alive
<1>7. CASE Join
  BY <1>7 DEF Join, Main, MainOnly, endVars,
     DirInv, NoCore, NoMoreCores, Alive
<1>8. CASE MainTerminates
  BY <1>8 DEF MainTerminates, Main, Terminate, threadVars, endVars,
     DirInv, NoCore, NoMoreCores, Alive
<1>9. CASE MainKills
  BY <1>9, WatchdogAssumption DEF MainKills, Main, Kill, threadVars, endVars, OneCoreInv,
     Unreaped, WatchdogRuns, Core, DirInv, NoCore, NoMoreCores, Alive
<1>10. CASE MainCleansUp
  BY <1>10, Zenon DEF MainCleansUp, Main, MainOnly,
     DirInv, NoCore, NoMoreCores, Alive
<1>11. CASE ForkCleanup
  BY <1>11, WatchdogAssumption DEF ForkCleanup, Main, MainOnly, OneCoreInv, Unreaped,
     WatchdogRuns, Core, DirInv, NoCore, NoMoreCores, Alive
<1>12. CASE Exit
  BY <1>12 DEF Exit, Main, MainOnly, endVars,
     DirInv, NoCore, NoMoreCores, Alive
<1>13. CASE Throw
  BY <1>13 DEF Throw, MainOnly,
     DirInv, NoCore, NoMoreCores, Alive
<1>14. CASE Crash
  BY <1>14 DEF Crash, WatchdogRuns, endVars,
     DirInv, NoCore, NoMoreCores, Alive
<1>15. CASE \E g \in BOOLEAN : Select(g)
  BY <1>15 DEF Select, Main, MainOnly,
     DirInv, NoCore, NoMoreCores, Alive
<1> QED BY <1>1, <1>2, <1>3, <1>4, <1>5, <1>6, <1>7, <1>8, <1>9, <1>10, <1>11, <1>12, <1>13, <1>14, <1>15 DEF MainSteps

\* The watcher thread has ended when it matters.
LEMMA ThreadKeepsDir ==
  ASSUME OneCoreInv, DirInv, ThreadSteps
  PROVE  DirInv'
<1>1. CASE ThreadStops
  BY <1>1 DEF ThreadStops, ThreadOnly, WatchdogRuns, endVars,
     DirInv, NoCore, NoMoreCores, Alive
<1>2. CASE ThreadWaits
  BY <1>2 DEF ThreadWaits, ThreadOnly, WatchdogRuns, endVars,
     DirInv, NoCore, NoMoreCores, Alive
<1>3. CASE ThreadForks
  BY <1>3 DEF ThreadForks, Fork, ThreadOnly, WatchdogRuns, endVars,
     DirInv, NoCore, NoMoreCores, Alive
<1>4. CASE ThreadStarted
  BY <1>4 DEF ThreadStarted, Started, ThreadOnly, WatchdogRuns, endVars,
     DirInv, NoCore, NoMoreCores, Alive
<1>5. CASE ThreadStartFails
  BY <1>5 DEF ThreadStartFails, StartFails, Kill, ThreadOnly, WatchdogRuns, endVars,
     DirInv, NoCore, NoMoreCores, Alive
<1>6. CASE ThreadInterrupted
  BY <1>6 DEF ThreadInterrupted, Kill, ThreadOnly, WatchdogRuns, endVars,
     DirInv, NoCore, NoMoreCores, Alive
<1>7. CASE ThreadReaps
  BY <1>7 DEF ThreadReaps, Kill, ThreadOnly, WatchdogRuns, endVars,
     DirInv, NoCore, NoMoreCores, Alive
<1>8. CASE ThreadForgets
  BY <1>8 DEF ThreadForgets, ThreadOnly, WatchdogRuns, endVars,
     DirInv, NoCore, NoMoreCores, Alive
<1> QED BY <1>1, <1>2, <1>3, <1>4, <1>5, <1>6, <1>7, <1>8 DEF ThreadSteps

\* The child kills the core before it removes the directory.
LEMMA ChildKeepsDir ==
  ASSUME OneCoreInv, DirInv, ChildSteps \/ ChildCrashes
  PROVE  DirInv'
<1>1. CASE ChildTerminates
  BY <1>1, WatchdogAssumption DEF ChildTerminates, Terminate, Child, threadVars, OneCoreInv, Core,
     DirInv, NoCore, NoMoreCores, Alive
<1>2. CASE ChildWaited
  BY <1>2 DEF ChildWaited, Child, threadVars,
     DirInv, NoCore, NoMoreCores, Alive
<1>3. CASE ChildKills
  BY <1>3, WatchdogAssumption DEF ChildKills, Child, threadVars, OneCoreInv, Core,
     DirInv, NoCore, NoMoreCores, Alive
<1>4. CASE ChildCleansUp
  BY <1>4 DEF ChildCleansUp, Child, threadVars,
     DirInv, NoCore, NoMoreCores, Alive
<1>5. CASE ChildCrashes
  BY <1>5 DEF ChildCrashes, Child, threadVars,
     DirInv, NoCore, NoMoreCores, Alive
<1> QED BY <1>1, <1>2, <1>3, <1>4, <1>5 DEF ChildSteps

\* A core that is not alive does not come back.
LEMMA CoreKeepsDir ==
  ASSUME OneCoreInv, DirInv, NEW c \in Core,
         \/ CoreInitialized(c) \/ CoreCrashes(c) \/ CoreToldToQuit(c)
         \/ CoreQuits(c) \/ CoreIsAlone(c) \/ Orphaned(c)
  PROVE  DirInv'
<1>1. /\ \A d \in Core : Alive(d)' => Alive(d)
      /\ UNCHANGED <<main, pid, threadVars, endVars>>
  BY DEF CoreInitialized, CoreCrashes, CoreToldToQuit, CoreQuits, CoreIsAlone, Orphaned,
     OnlyCore, Alive, Zombie, OneCoreInv
<1> QED BY <1>1 DEF threadVars, endVars, DirInv, NoCore, NoMoreCores

\* For every number of restarts: the instance directory is removed only when no core is
\* alive, unless an exception made the main process give up before it had a child for that.
THEOREM DirAlwaysOutlivesCore == Spec => []DirOutlivesCore
<1>1. Init => DirInv
  BY DEF Init, DirInv
<1>2. OneCoreInv /\ DirInv /\ [Next]_vars => DirInv'
  <2> SUFFICES ASSUME OneCoreInv, DirInv, [Next]_vars PROVE DirInv'
    OBVIOUS
  <2>1. CASE UNCHANGED vars
    BY <2>1 DEF vars, DirInv, NoCore, NoMoreCores, Alive
  <2>2. CASE Next
    BY <2>2, MainKeepsDir, ThreadKeepsDir, ChildKeepsDir, CoreKeepsDir DEF Next
  <2> QED BY <2>1, <2>2
<1>3. DirInv => DirOutlivesCore
  BY DEF DirInv, NoCore, DirOutlivesCore
<1> QED BY OneCoreInit, OneCoreStep, <1>1, <1>2, <1>3, PTL DEF Spec
=============================================================================
