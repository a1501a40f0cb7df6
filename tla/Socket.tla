------------------------------- MODULE Socket -------------------------------
(***************************************************************************)
(* ApplicationPool2::Socket and Session: the pool of connections to every  *)
(* application process, and the sessions that borrow them.  A session is   *)
(* handed out under the pool's lock, takes and returns its connection      *)
(* under the socket's own lock (connectionPoolLock), and tells the group   *)
(* that it is over under the pool's lock again, so that the two sides of   *)
(* the bookkeeping never change in one step.  Out-of-band work borrows a   *)
(* connection without a session, from a thread that holds neither lock     *)
(* while it works.  Every process has one socket; the group's side is what *)
(* Group describes in full.                                                *)
(***************************************************************************)
EXTENDS Sessions, Integers, FiniteSets

CONSTANTS
  Process,      \* processes (objects are reused once they are dead)
  NoProcess,    \* the process of a session object that is not in use
  Concurrency   \* Socket::concurrency: 0 is unlimited, -1 unknown

ASSUME SocketAssumption ==
  /\ IsFiniteSet(Session)
  /\ NoProcess \notin Process
  /\ Concurrency \in Int /\ Concurrency >= -1

VARIABLES
  life,                 \* where each process is in its life
  sessions,             \* Socket::sessions (and Process::sessions)
  totalConnections,     \* Socket::totalConnections
  totalIdleConnections, \* Socket::totalIdleConnections, the size of idleConnections
  session,              \* the sessions: how far each is, and with which process
  oobw                  \* how far the out-of-band work thread of each process is

socketVars == <<life, sessions, totalConnections, totalIdleConnections, session, oobw>>

(* lifeStatus, and enabled while it is ALIVE.  DISABLING is ENABLED here:   *)
(* the process just gets no new session.                                    *)
LifeStatus == {"ENABLED", "DISABLED", "DETACHED", "SHUTDOWN_TRIGGERED", "DEAD"}

OobwState == {"NONE", "STARTED", "CONNECTED", "DONE"}

SessionState == {"FREE", "NEW", "INITIATED", "DEINITIATED"}

SocketTypeOK ==
  /\ life \in [Process -> LifeStatus]
  /\ sessions \in [Process -> Int]
  /\ totalConnections \in [Process -> Int]
  /\ totalIdleConnections \in [Process -> Int]
  /\ session \in [Session -> [state : SessionState, process : Process \cup {NoProcess}]]
  /\ oobw \in [Process -> OobwState]

NoSessionYet == [state |-> "FREE", process |-> NoProcess]

SocketInit ==
  /\ life = [p \in Process |-> "DEAD"]
  /\ sessions = [p \in Process |-> 0]
  /\ totalConnections = [p \in Process |-> 0]
  /\ totalIdleConnections = [p \in Process |-> 0]
  /\ session = [s \in Session |-> NoSessionYet]
  /\ oobw = [p \in Process |-> "NONE"]

-----------------------------------------------------------------------------
(* A session of process p is created, for a request that is routed to it.  *)
NewSession(s, p) ==
  /\ session[s].state = "FREE"
  /\ life[p] = "ENABLED"
  /\ sessions' = [sessions EXCEPT ![p] = @ + 1]
  /\ session' = [session EXCEPT ![s] = [state |-> "NEW", process |-> p]]
  /\ UNCHANGED <<life, totalConnections, totalIdleConnections, oobw>>

(* Socket::checkoutConnection: an idle connection, or a new one. *)
CheckoutConnection(p) ==
  IF totalIdleConnections[p] > 0
  THEN /\ totalIdleConnections' = [totalIdleConnections EXCEPT ![p] = @ - 1]
       /\ UNCHANGED totalConnections
  ELSE /\ totalConnections' = [totalConnections EXCEPT ![p] = @ + 1]
       /\ UNCHANGED totalIdleConnections

(* Socket::checkinConnection: keep, the connection is wanted for another use. *)
CheckinConnection(p, keep) ==
  IF ~keep \/ totalIdleConnections[p] >= Concurrency
  THEN /\ totalConnections' = [totalConnections EXCEPT ![p] = @ - 1]
       /\ UNCHANGED totalIdleConnections
  ELSE /\ totalIdleConnections' = [totalIdleConnections EXCEPT ![p] = @ + 1]
       /\ UNCHANGED totalConnections

(* Session::initiate. *)
Initiate(s) ==
  /\ session[s].state = "NEW"
  /\ CheckoutConnection(session[s].process)
  /\ session' = [session EXCEPT ![s].state = "INITIATED"]
  /\ UNCHANGED <<life, sessions, oobw>>

(* connect() throws: onInitiateFailure detaches the process, if it still is *)
(* in its group.  With idle connections there is nothing that could fail.   *)
InitiateFails(s) ==
  LET p == session[s].process
  IN /\ session[s].state = "NEW"
     /\ totalIdleConnections[p] = 0
     /\ life' = [life EXCEPT ![p] = IF @ = "ENABLED" THEN "DETACHED" ELSE @]
     /\ UNCHANGED <<sessions, totalConnections, totalIdleConnections, session, oobw>>

(* Session::deinitiate.  keep: the session succeeded and wants the          *)
(* connection kept alive.                                                   *)
Deinitiate(s, keep) ==
  /\ session[s].state = "INITIATED"
  /\ CheckinConnection(session[s].process, keep)
  /\ session' = [session EXCEPT ![s].state = "DEINITIATED"]
  /\ UNCHANGED <<life, sessions, oobw>>

\* Mutant: the group is told first, while the connection is still out.
CallOnClose_First(s) ==
  /\ session[s].state # "FREE"
  /\ sessions' = [sessions EXCEPT ![session[s].process] = @ - 1]
  /\ session' = [session EXCEPT ![s] = NoSessionYet]
  /\ UNCHANGED <<life, totalConnections, totalIdleConnections, oobw>>

(* Session::callOnClose, once the connection, if any, is back. *)
CallOnClose(s) ==
  /\ session[s].state \in {"NEW", "DEINITIATED"}
  /\ sessions' = [sessions EXCEPT ![session[s].process] = @ - 1]
  /\ session' = [session EXCEPT ![s] = NoSessionYet]
  /\ UNCHANGED <<life, totalConnections, totalIdleConnections, oobw>>

-----------------------------------------------------------------------------
(* Out-of-band work: Group::spawnThreadOOBWRequest *)

(* The process was disabled for it when its last session was over, and the  *)
(* first critical section of the thread finds it so.                        *)
StartOobw(p) ==
  /\ life[p] = "ENABLED" /\ sessions[p] = 0 /\ oobw[p] = "NONE"
  /\ life' = [life EXCEPT ![p] = "DISABLED"]
  /\ oobw' = [oobw EXCEPT ![p] = "STARTED"]
  /\ UNCHANGED <<sessions, totalConnections, totalIdleConnections, session>>

(* No lock is held from here on: the process may be in any state. *)
ConnectForOobw(p) ==
  /\ oobw[p] = "STARTED"
  /\ CheckoutConnection(p)
  /\ oobw' = [oobw EXCEPT ![p] = "CONNECTED"]
  /\ UNCHANGED <<life, sessions, session>>

ConnectForOobwFails(p) ==
  /\ oobw[p] = "STARTED" /\ totalIdleConnections[p] = 0
  /\ oobw' = [oobw EXCEPT ![p] = "DONE"]
  /\ UNCHANGED <<life, sessions, totalConnections, totalIdleConnections, session>>

(* The application has answered, or one minute has passed. *)
DisconnectForOobw(p) ==
  /\ oobw[p] = "CONNECTED"
  /\ CheckinConnection(p, FALSE)
  /\ oobw' = [oobw EXCEPT ![p] = "DONE"]
  /\ UNCHANGED <<life, sessions, session>>

(* The second critical section: the process goes back into rotation. *)
FinishOobw(p) ==
  /\ oobw[p] = "DONE"
  /\ oobw' = [oobw EXCEPT ![p] = "NONE"]
  /\ life' = [life EXCEPT ![p] = IF @ = "DISABLED" THEN "ENABLED" ELSE @]
  /\ UNCHANGED <<sessions, totalConnections, totalIdleConnections, session>>

WorkOutOfBand(p) ==
  \/ StartOobw(p) \/ ConnectForOobw(p) \/ ConnectForOobwFails(p)
  \/ DisconnectForOobw(p) \/ FinishOobw(p)

-----------------------------------------------------------------------------
(* The life of a process, as far as its sessions are concerned. *)

Detach(p) ==
  /\ life[p] \in {"ENABLED", "DISABLED"}
  /\ life' = [life EXCEPT ![p] = "DETACHED"]
  /\ UNCHANGED <<sessions, totalConnections, totalIdleConnections, session, oobw>>

(* Process::triggerShutdown, when canTriggerShutdown: it counts sessions,   *)
(* and out-of-band work is none.                                            *)
TriggerShutdown(p) ==
  /\ life[p] = "DETACHED" /\ sessions[p] = 0
  /\ life' = [life EXCEPT ![p] = "SHUTDOWN_TRIGGERED"]
  /\ UNCHANGED <<sessions, totalConnections, totalIdleConnections, session, oobw>>

(* Process::cleanup, once the OS process is gone: closeAllConnections, past *)
(* its assertions.                                                          *)
Cleanup(p) ==
  /\ life[p] = "SHUTDOWN_TRIGGERED"
  /\ life' = [life EXCEPT ![p] = "DEAD"]
  /\ totalConnections' = [totalConnections EXCEPT ![p] = 0]
  /\ totalIdleConnections' = [totalIdleConnections EXCEPT ![p] = 0]
  /\ UNCHANGED <<sessions, session, oobw>>

(* A new process is spawned, with a new Socket.  The object of one that is  *)
(* dead stays as it is for as long as the out-of-band work thread holds it. *)
Spawn(p) ==
  /\ life[p] = "DEAD" /\ oobw[p] = "NONE"
  /\ life' = [life EXCEPT ![p] = "ENABLED"]
  /\ sessions' = [sessions EXCEPT ![p] = 0]
  /\ totalConnections' = [totalConnections EXCEPT ![p] = 0]
  /\ totalIdleConnections' = [totalIdleConnections EXCEPT ![p] = 0]
  /\ UNCHANGED <<session, oobw>>

SocketNext ==
  \/ \E s \in Session : \/ \E p \in Process : NewSession(s, p)
                        \/ Initiate(s) \/ InitiateFails(s) \/ CallOnClose(s)
                        \/ \E keep \in BOOLEAN : Deinitiate(s, keep)
  \/ \E p \in Process : \/ Detach(p) \/ TriggerShutdown(p) \/ Cleanup(p) \/ Spawn(p)
                        \/ WorkOutOfBand(p)

SocketSpec == SocketInit /\ [][SocketNext]_socketVars

-----------------------------------------------------------------------------
SessionsOf(p) == {s \in Session : session[s].process = p /\ session[s].state # "FREE"}

Borrowed(p) == {s \in Session : session[s].process = p /\ session[s].state = "INITIATED"}

BorrowedForOobw(p) == IF oobw[p] = "CONNECTED" THEN 1 ELSE 0

(* The books of process p are right. *)
Accounted(p) ==
  /\ sessions[p] = Cardinality(SessionsOf(p))
  /\ life[p] # "DEAD" => totalConnections[p] =
       totalIdleConnections[p] + Cardinality(Borrowed(p)) + BorrowedForOobw(p)
  /\ totalIdleConnections[p] >= 0
  /\ totalIdleConnections[p] > 0 => totalIdleConnections[p] <= Concurrency
  /\ life[p] = "SHUTDOWN_TRIGGERED" =>
       /\ sessions[p] = 0
       /\ oobw[p] # "CONNECTED" => totalConnections[p] = totalIdleConnections[p]

(* Every connection of a live socket is in the idle pool, with exactly one  *)
(* open session or with the out-of-band work thread, the group's count of   *)
(* sessions is the number of open sessions, the idle pool stays within      *)
(* connectionPoolLimit(), and when Process::cleanup comes to                *)
(* closeAllConnections() there is no session, as it asserts, and no         *)
(* connection outside the pool but for the one of out-of-band work: this is *)
(* where its second assertion can fail.                                     *)
ConnectionsAccounted == \A p \in Process : Accounted(p)
=============================================================================
