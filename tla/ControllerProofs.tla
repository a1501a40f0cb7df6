-------------------------- MODULE ControllerProofs --------------------------
(***************************************************************************)
(* The sockets: the connections of every socket are accounted for, for any *)
(* number of processes and sessions and for any concurrency.  And the      *)
(* controller: reference counts, callbacks and sessions are right whatever *)
(* the interleaving of clients, event loop and pool, and the sockets are   *)
(* used only through the operations that Socket describes, so that what is *)
(* proved of them holds of the whole.                                      *)
(***************************************************************************)
EXTENDS EventLoopProofs, FiniteSetTheorems

(* The sockets *)

(* A session in use belongs to a process that is still alive: this is what  *)
(* keeps a process from being shut down under its sessions.                 *)
Located ==
  \A s \in Session : session[s].state # "FREE" =>
    /\ session[s].process \in Process
    /\ life[session[s].process] \in {"ENABLED", "DETACHED"}

SocketInv == SocketTypeOK /\ Located /\ ConnectionsAccounted

-----------------------------------------------------------------------------
\* Sets of sessions are finite, and counting them gives natural numbers.
LEMMA SessionsFinite ==
  ASSUME NEW p
  PROVE  /\ IsFiniteSet(SessionsOf(p)) /\ Cardinality(SessionsOf(p)) \in Nat
         /\ IsFiniteSet(Borrowed(p)) /\ Cardinality(Borrowed(p)) \in Nat
<1>1. SessionsOf(p) \in SUBSET Session /\ Borrowed(p) \in SUBSET Session
  BY DEF SessionsOf, Borrowed
<1>2. IsFiniteSet(SessionsOf(p)) /\ IsFiniteSet(Borrowed(p))
  BY <1>1, SocketAssumption, FS_Subset, SMTT(30)
<1> QED BY <1>2, FS_CardinalityType

\* At the start nothing is open.
LEMMA InvInit == SocketInit => SocketInv
<1> SUFFICES ASSUME SocketInit PROVE SocketInv
  OBVIOUS
<1>1. SocketTypeOK /\ Located
  BY DEF SocketInit, SocketTypeOK, Located, NoSessionYet, LifeStatus, SessionState, OobwState
<1>2. \A p \in Process : SessionsOf(p) = {} /\ Borrowed(p) = {}
  BY DEF SocketInit, SessionsOf, Borrowed, NoSessionYet
<1>3. ConnectionsAccounted
  BY <1>2, FS_EmptySet DEF SocketInit, ConnectionsAccounted, Accounted, BorrowedForOobw
<1> QED BY <1>1, <1>3 DEF SocketInv

\* A session that is handed out is counted.
LEMMA NewSessionInv ==
  ASSUME SocketInv, NEW s \in Session, NEW p \in Process, NewSession(s, p)
  PROVE  SocketInv'
<1> USE DEF SocketInv
<1>1. SocketTypeOK'
  BY DEF SocketTypeOK, NewSession, SessionState
<1>2. Located'
  BY DEF SocketTypeOK, Located, NewSession
<1>3. /\ SessionsOf(p)' = SessionsOf(p) \cup {s} /\ s \notin SessionsOf(p)
      /\ \A q \in Process \ {p} : SessionsOf(q)' = SessionsOf(q)
      /\ \A q \in Process : Borrowed(q)' = Borrowed(q)
  BY SocketAssumption DEF SocketTypeOK, NewSession, SessionsOf, Borrowed
<1>4. Cardinality(SessionsOf(p)') = Cardinality(SessionsOf(p)) + 1
  BY <1>3, SessionsFinite, FS_AddElement, ZenonT(60)
<1>5. ConnectionsAccounted'
  BY <1>3, <1>4, SessionsFinite, SocketAssumption, ZenonT(60)
     DEF SocketTypeOK, ConnectionsAccounted, Accounted, NewSession, BorrowedForOobw
<1> QED BY <1>1, <1>2, <1>5, SMTT(30)

\* A session borrows a connection, which is new or was idle.
LEMMA InitiateInv ==
  ASSUME SocketInv, NEW s \in Session, Initiate(s)
  PROVE  SocketInv'
<1> USE DEF SocketInv
<1>0. PICK p \in Process : session[s].process = p
  BY DEF Located, Initiate
<1>1. SocketTypeOK'
  BY <1>0 DEF SocketTypeOK, Initiate, CheckoutConnection, SessionState
<1>2. Located'
  BY <1>0 DEF SocketTypeOK, Located, Initiate
<1>3. /\ Borrowed(p)' = Borrowed(p) \cup {s} /\ s \notin Borrowed(p)
      /\ \A q \in Process \ {p} : Borrowed(q)' = Borrowed(q)
      /\ \A q \in Process : SessionsOf(q)' = SessionsOf(q)
  BY <1>0 DEF SocketTypeOK, Initiate, SessionsOf, Borrowed
<1>4. Cardinality(Borrowed(p)') = Cardinality(Borrowed(p)) + 1
  BY <1>3, SessionsFinite, FS_AddElement, ZenonT(60)
<1>5. life[p] \notin {"SHUTDOWN_TRIGGERED", "DEAD"}
  BY <1>0 DEF Located, Initiate
<1>6. Accounted(p)'
  <2>1. Accounted(p) /\ Cardinality(Borrowed(p)) \in Nat /\ Cardinality(SessionsOf(p)) \in Nat
    BY SessionsFinite DEF ConnectionsAccounted
  <2>2. life'[p] \notin {"SHUTDOWN_TRIGGERED", "DEAD"}
    BY <1>5 DEF Initiate
  <2>3. totalConnections[p] \in Int /\ totalIdleConnections[p] \in Int
    BY DEF SocketTypeOK
  <2>4. IF totalIdleConnections[p] > 0
         THEN /\ totalIdleConnections'[p] = totalIdleConnections[p] - 1
              /\ totalConnections'[p] = totalConnections[p]
         ELSE /\ totalIdleConnections'[p] = totalIdleConnections[p]
              /\ totalConnections'[p] = totalConnections[p] + 1
    BY <1>0 DEF SocketTypeOK, Initiate, CheckoutConnection
  <2>5. /\ sessions'[p] = sessions[p]
        /\ BorrowedForOobw(p)' = BorrowedForOobw(p) /\ BorrowedForOobw(p) \in Int
    BY DEF Initiate, BorrowedForOobw
  <2>6. /\ totalConnections'[p] =
             totalIdleConnections'[p] + Cardinality(Borrowed(p)') + BorrowedForOobw(p)
        /\ totalIdleConnections'[p] >= 0
        /\ totalIdleConnections'[p] > 0 => totalIdleConnections'[p] <= Concurrency
    BY <1>4, <1>5, <2>1, <2>3, <2>4, <2>5, SocketAssumption, SMTT(30) DEF Accounted
  <2> QED BY <1>3, <2>1, <2>2, <2>5, <2>6 DEF Accounted
<1>7. ASSUME NEW q \in Process \ {p} PROVE Accounted(q)'
  <2>1. Accounted(q)
    BY DEF ConnectionsAccounted
  <2> QED BY <1>0, <1>3, <2>1 
          DEF SocketTypeOK, Accounted, Initiate, CheckoutConnection, BorrowedForOobw
<1>8. ConnectionsAccounted'
  BY <1>6, <1>7 DEF ConnectionsAccounted
<1> QED BY <1>1, <1>2, <1>8

\* A connection goes back to the idle pool, or is closed.
LEMMA DeinitiateInv ==
  ASSUME SocketInv, NEW s \in Session, NEW keep \in BOOLEAN, Deinitiate(s, keep)
  PROVE  SocketInv'
<1> USE DEF SocketInv
<1>0. PICK p \in Process : session[s].process = p
  BY DEF Located, Deinitiate
<1>1. SocketTypeOK'
  BY <1>0 DEF SocketTypeOK, Deinitiate, CheckinConnection, SessionState
<1>2. Located'
  BY <1>0 DEF SocketTypeOK, Located, Deinitiate
<1>3. /\ Borrowed(p)' = Borrowed(p) \ {s} /\ s \in Borrowed(p)
      /\ \A q \in Process \ {p} : Borrowed(q)' = Borrowed(q)
      /\ \A q \in Process : SessionsOf(q)' = SessionsOf(q)
  BY <1>0 DEF SocketTypeOK, Deinitiate, SessionsOf, Borrowed
<1>4. Cardinality(Borrowed(p)') = Cardinality(Borrowed(p)) - 1
  BY <1>3, SessionsFinite, FS_RemoveElement, ZenonT(60)
<1>5. life[p] \notin {"SHUTDOWN_TRIGGERED", "DEAD"}
  BY <1>0 DEF Located, Deinitiate
<1>6. Accounted(p)'
  <2>1. Accounted(p) /\ Cardinality(Borrowed(p)) \in Nat /\ Cardinality(SessionsOf(p)) \in Nat
    BY SessionsFinite DEF ConnectionsAccounted
  <2>2. life'[p] \notin {"SHUTDOWN_TRIGGERED", "DEAD"}
    BY <1>5 DEF Deinitiate
  <2>3. totalConnections[p] \in Int /\ totalIdleConnections[p] \in Int
    BY DEF SocketTypeOK
  <2>4. IF ~keep \/ totalIdleConnections[p] >= Concurrency
         THEN /\ totalIdleConnections'[p] = totalIdleConnections[p]
              /\ totalConnections'[p] = totalConnections[p] - 1
         ELSE /\ totalIdleConnections'[p] = totalIdleConnections[p] + 1
              /\ totalConnections'[p] = totalConnections[p]
    BY <1>0 DEF SocketTypeOK, Deinitiate, CheckinConnection
  <2>5. /\ sessions'[p] = sessions[p]
        /\ BorrowedForOobw(p)' = BorrowedForOobw(p) /\ BorrowedForOobw(p) \in Int
    BY DEF Deinitiate, BorrowedForOobw
  <2>6. /\ totalConnections'[p] =
             totalIdleConnections'[p] + Cardinality(Borrowed(p)') + BorrowedForOobw(p)
        /\ totalIdleConnections'[p] >= 0
        /\ totalIdleConnections'[p] > 0 => totalIdleConnections'[p] <= Concurrency
    BY <1>4, <1>5, <2>1, <2>3, <2>4, <2>5, SocketAssumption, SMTT(30) DEF Accounted
  <2> QED BY <1>3, <2>1, <2>2, <2>5, <2>6, SMTT(30) DEF Accounted
<1>7. ASSUME NEW q \in Process \ {p} PROVE Accounted(q)'
  <2>1. Accounted(q)
    BY DEF ConnectionsAccounted
  <2> QED BY <1>0, <1>3, <2>1, SMTT(30) 
          DEF SocketTypeOK, Accounted, Deinitiate, CheckinConnection, BorrowedForOobw
<1>8. ConnectionsAccounted'
  BY <1>6, <1>7 DEF ConnectionsAccounted
<1> QED BY <1>1, <1>2, <1>8

\* A session that is over is counted no longer; it holds no connection by then.
LEMMA CallOnCloseInv ==
  ASSUME SocketInv, NEW s \in Session, CallOnClose(s)
  PROVE  SocketInv'
<1> USE DEF SocketInv
<1>0. PICK p \in Process : session[s].process = p
  BY DEF Located, CallOnClose
<1>1. SocketTypeOK'
  BY <1>0 DEF SocketTypeOK, CallOnClose, SessionState, NoSessionYet
<1>2. Located'
  BY <1>0 DEF SocketTypeOK, Located, CallOnClose, NoSessionYet
<1>3. /\ SessionsOf(p)' = SessionsOf(p) \ {s} /\ s \in SessionsOf(p)
      /\ \A q \in Process \ {p} : SessionsOf(q)' = SessionsOf(q)
      /\ \A q \in Process : Borrowed(q)' = Borrowed(q)
  BY <1>0 DEF SocketTypeOK, CallOnClose, SessionsOf, Borrowed, NoSessionYet
<1>4. Cardinality(SessionsOf(p)') = Cardinality(SessionsOf(p)) - 1
  BY <1>3, SessionsFinite, FS_RemoveElement, ZenonT(60)
<1>5. life[p] # "SHUTDOWN_TRIGGERED"
  BY <1>0 DEF Located, CallOnClose
<1>6. Accounted(p)'
  <2>1. Accounted(p) /\ Cardinality(Borrowed(p)) \in Nat /\ Cardinality(SessionsOf(p)) \in Nat
    BY SessionsFinite DEF ConnectionsAccounted
  <2>2. life'[p] # "SHUTDOWN_TRIGGERED"
    BY <1>5 DEF CallOnClose
  <2> QED BY <1>0, <1>3, <1>4, <2>1, <2>2, SocketAssumption, SMTT(30)
          DEF SocketTypeOK, Accounted, CallOnClose, BorrowedForOobw
<1>7. ASSUME NEW q \in Process \ {p} PROVE Accounted(q)'
  <2>1. Accounted(q)
    BY DEF ConnectionsAccounted
  <2> QED BY <1>0, <1>3, <2>1, SMTT(15) DEF SocketTypeOK, Accounted, CallOnClose, BorrowedForOobw
<1>8. ConnectionsAccounted'
  BY <1>6, <1>7 DEF ConnectionsAccounted
<1> QED BY <1>1, <1>2, <1>8

\* A process without sessions has borrowed no connection for one.
LEMMA NothingBorrowed ==
  ASSUME SocketInv, NEW p \in Process,
         life[p] \notin {"ENABLED", "DETACHED"} \/ sessions[p] = 0
  PROVE  /\ SessionsOf(p) = {} /\ Borrowed(p) = {}
         /\ Cardinality(SessionsOf(p)) = 0 /\ Cardinality(Borrowed(p)) = 0
<1>1. SessionsOf(p) = {}
  <2>1. CASE life[p] \notin {"ENABLED", "DETACHED"}
    BY <2>1 DEF SocketInv, Located, SessionsOf
  <2>2. CASE sessions[p] = 0
    <3>1. Cardinality(SessionsOf(p)) = 0
      BY <2>2, Zenon DEF SocketInv, ConnectionsAccounted, Accounted
    <3> QED BY <3>1, SessionsFinite, FS_EmptySet, Zenon
  <2> QED BY <2>1, <2>2
<1>2. Borrowed(p) = {}
  BY <1>1 DEF SessionsOf, Borrowed
<1> QED BY <1>1, <1>2, FS_EmptySet

\* The steps that leave the sessions alone: what remains to be shown is about one process.
LEMMA OtherProcesses ==
  ASSUME SocketInv, SocketTypeOK', NEW p \in Process, UNCHANGED session,
         life'[p] \in {"ENABLED", "DETACHED"} \/ SessionsOf(p) = {},
         \A q \in Process \ {p} :
           /\ life'[q] = life[q] /\ sessions'[q] = sessions[q] /\ oobw'[q] = oobw[q]
           /\ totalConnections'[q] = totalConnections[q]
           /\ totalIdleConnections'[q] = totalIdleConnections[q],
         Borrowed(p)' = Borrowed(p) /\ SessionsOf(p)' = SessionsOf(p) => Accounted(p)'
  PROVE  SocketInv'
<1>1. \A q \in Process : SessionsOf(q)' = SessionsOf(q) /\ Borrowed(q)' = Borrowed(q)
  BY DEF SessionsOf, Borrowed
<1>2. Located'
  BY DEF SocketInv, Located, SessionsOf
<1>3. ASSUME NEW q \in Process \ {p} PROVE Accounted(q)'
  <2>1. Accounted(q)
    BY DEF SocketInv, ConnectionsAccounted
  <2> QED BY <1>1, <2>1, Zenon DEF Accounted, BorrowedForOobw
<1> QED BY <1>1, <1>2, <1>3 DEF SocketInv, ConnectionsAccounted

\* The life of a process.
LEMMA LifeInv ==
  ASSUME SocketInv, NEW p \in Process,
         \/ Detach(p) \/ TriggerShutdown(p) \/ Cleanup(p) \/ Spawn(p)
         \/ \E s \in Session : session[s].process = p /\ InitiateFails(s)
  PROVE  SocketInv'
<1>1. SocketTypeOK /\ Accounted(p)
  BY DEF SocketInv, ConnectionsAccounted
<1>2. /\ totalConnections[p] \in Int /\ totalIdleConnections[p] \in Int
      /\ BorrowedForOobw(p) \in Int /\ (oobw[p] # "CONNECTED" => BorrowedForOobw(p) = 0)
      /\ Cardinality(Borrowed(p)) \in Int
  BY <1>1, SessionsFinite DEF SocketTypeOK, BorrowedForOobw
<1>3. CASE \/ Detach(p)
           \/ \E s \in Session : session[s].process = p /\ InitiateFails(s)
  <2>1. SocketTypeOK' /\ UNCHANGED session
    BY <1>1, <1>3, SMTT(15) DEF SocketTypeOK, Detach, InitiateFails, LifeStatus
  <2>2. /\ life'[p] \in {"ENABLED", "DETACHED"} \/ SessionsOf(p) = {}
        /\ life[p] # "DEAD" \/ life'[p] = "DEAD"
        /\ life'[p] # "SHUTDOWN_TRIGGERED" \/ life[p] = "SHUTDOWN_TRIGGERED"
    BY <1>1, <1>3 DEF SocketTypeOK, Detach, InitiateFails, SocketInv, Located
  <2>3. /\ UNCHANGED <<sessions, totalConnections, totalIdleConnections, oobw>>
        /\ \A q \in Process \ {p} : life'[q] = life[q]
    BY <1>1, <1>3 DEF SocketTypeOK, Detach, InitiateFails
  <2>4. Borrowed(p)' = Borrowed(p) /\ SessionsOf(p)' = SessionsOf(p) => Accounted(p)'
    BY <1>1, <2>2, <2>3, Zenon DEF Accounted, BorrowedForOobw
  <2> QED BY <2>1, <2>2, <2>3, <2>4, OtherProcesses, Zenon
<1>4. CASE TriggerShutdown(p)
  <2>1. SocketTypeOK' /\ UNCHANGED session
    BY <1>1, <1>4 DEF SocketTypeOK, TriggerShutdown, LifeStatus
  <2>2. life[p] = "DETACHED" /\ life'[p] = "SHUTDOWN_TRIGGERED" /\ sessions[p] = 0
    BY <1>1, <1>4 DEF SocketTypeOK, TriggerShutdown
  <2>3. /\ UNCHANGED <<sessions, totalConnections, totalIdleConnections, oobw>>
        /\ \A q \in Process \ {p} : life'[q] = life[q]
    BY <1>1, <1>4 DEF SocketTypeOK, TriggerShutdown
  <2>4. SessionsOf(p) = {} /\ Cardinality(Borrowed(p)) = 0
    BY <2>2, NothingBorrowed
  <2>5. /\ totalConnections[p] = totalIdleConnections[p] + Cardinality(Borrowed(p)) + BorrowedForOobw(p)
        /\ oobw[p] # "CONNECTED" => totalConnections[p] = totalIdleConnections[p]
    BY <1>1, <1>2, <2>2, <2>4, SMTT(15) DEF Accounted
  <2>6. Borrowed(p)' = Borrowed(p) /\ SessionsOf(p)' = SessionsOf(p) => Accounted(p)'
    BY <1>1, <2>2, <2>3, <2>5, Zenon DEF Accounted, BorrowedForOobw
  <2> QED BY <2>1, <2>3, <2>4, <2>6, OtherProcesses, Zenon
<1>5. CASE Cleanup(p)
  <2>1. SocketTypeOK' /\ UNCHANGED session
    BY <1>1, <1>5 DEF SocketTypeOK, Cleanup, LifeStatus
  <2>2. /\ life[p] = "SHUTDOWN_TRIGGERED" /\ life'[p] = "DEAD" /\ sessions'[p] = sessions[p]
        /\ totalIdleConnections'[p] = 0
    BY <1>1, <1>5 DEF SocketTypeOK, Cleanup
  <2>3. \A q \in Process \ {p} :
           /\ life'[q] = life[q] /\ sessions'[q] = sessions[q] /\ oobw'[q] = oobw[q]
           /\ totalConnections'[q] = totalConnections[q]
           /\ totalIdleConnections'[q] = totalIdleConnections[q]
    BY <1>1, <1>5 DEF SocketTypeOK, Cleanup
  <2>4. SessionsOf(p) = {}
    BY <2>2, NothingBorrowed
  <2>5. SessionsOf(p)' = SessionsOf(p) => Accounted(p)'
    BY <1>1, <2>2 DEF Accounted
  <2> QED BY <2>1, <2>3, <2>4, <2>5, OtherProcesses, Zenon
<1>6. CASE Spawn(p)
  <2>1. SocketTypeOK' /\ UNCHANGED session
    BY <1>1, <1>6 DEF SocketTypeOK, Spawn, LifeStatus
  <2>2. /\ life[p] = "DEAD" /\ life'[p] = "ENABLED" /\ sessions'[p] = 0
        /\ totalIdleConnections'[p] = 0 /\ totalConnections'[p] = 0 /\ oobw'[p] = "NONE"
    BY <1>1, <1>6 DEF SocketTypeOK, Spawn
  <2>3. \A q \in Process \ {p} :
           /\ life'[q] = life[q] /\ sessions'[q] = sessions[q] /\ oobw'[q] = oobw[q]
           /\ totalConnections'[q] = totalConnections[q]
           /\ totalIdleConnections'[q] = totalIdleConnections[q]
    BY <1>1, <1>6, SMTT(15) DEF SocketTypeOK, Spawn
  <2>4. Cardinality(SessionsOf(p)) = 0 /\ Cardinality(Borrowed(p)) = 0
    BY <2>2, NothingBorrowed, Zenon
  <2>5. Borrowed(p)' = Borrowed(p) /\ SessionsOf(p)' = SessionsOf(p) => Accounted(p)'
    BY <2>2, <2>4 DEF Accounted, BorrowedForOobw
  <2> QED BY <2>1, <2>2, <2>3, <2>5, OtherProcesses, Zenon
<1> QED BY <1>3, <1>4, <1>5, <1>6

\* Out-of-band work takes a connection and closes it, whatever becomes of the process.
LEMMA OobwInv ==
  ASSUME SocketInv, NEW p \in Process, WorkOutOfBand(p)
  PROVE  SocketInv'
<1>1. SocketTypeOK /\ Accounted(p)
  BY DEF SocketInv, ConnectionsAccounted
<1>2. /\ totalConnections[p] \in Int /\ totalIdleConnections[p] \in Int
      /\ Cardinality(Borrowed(p)) \in Int
  BY <1>1, SessionsFinite DEF SocketTypeOK
<1>3. ASSUME NEW q \in Process \ {p}
      PROVE  /\ life'[q] = life[q] /\ sessions'[q] = sessions[q] /\ oobw'[q] = oobw[q]
             /\ totalConnections'[q] = totalConnections[q]
             /\ totalIdleConnections'[q] = totalIdleConnections[q]
  BY <1>1 DEF SocketTypeOK, WorkOutOfBand, StartOobw, ConnectForOobw, ConnectForOobwFails,
              DisconnectForOobw, FinishOobw, CheckoutConnection, CheckinConnection
<1>4. UNCHANGED <<session, sessions>>
  BY Zenon DEF WorkOutOfBand, StartOobw, ConnectForOobw, ConnectForOobwFails, DisconnectForOobw, FinishOobw
<1>5. SocketTypeOK'
  BY <1>1 DEF SocketTypeOK, LifeStatus, OobwState,
              WorkOutOfBand, StartOobw, ConnectForOobw, ConnectForOobwFails,
              DisconnectForOobw, FinishOobw, CheckoutConnection, CheckinConnection
<1>6. CASE StartOobw(p) \/ ConnectForOobwFails(p) \/ FinishOobw(p)
  <2>1. /\ UNCHANGED <<totalConnections, totalIdleConnections>>
        /\ oobw[p] # "CONNECTED" /\ oobw'[p] # "CONNECTED"
        /\ life'[p] = "DEAD" <=> life[p] = "DEAD"
        /\ life'[p] = "SHUTDOWN_TRIGGERED" <=> life[p] = "SHUTDOWN_TRIGGERED"
    BY <1>1, <1>6 DEF SocketTypeOK, StartOobw, ConnectForOobwFails, FinishOobw
  <2>2. life'[p] \in {"ENABLED", "DETACHED"} \/ SessionsOf(p) = {}
    <3>1. CASE StartOobw(p)
      BY <3>1, NothingBorrowed DEF StartOobw
    <3>2. CASE ConnectForOobwFails(p) \/ FinishOobw(p)
      <4>1. life'[p] = life[p] \/ life'[p] = "ENABLED"
        BY <1>1, <3>2 DEF SocketTypeOK, ConnectForOobwFails, FinishOobw
      <4> QED BY <4>1, NothingBorrowed
    <3> QED BY <1>6, <3>1, <3>2
  <2>3. Borrowed(p)' = Borrowed(p) /\ SessionsOf(p)' = SessionsOf(p) => Accounted(p)'
    BY <1>1, <1>4, <2>1, Zenon DEF Accounted, BorrowedForOobw
  <2> QED BY <1>3, <1>4, <1>5, <2>2, <2>3, OtherProcesses, Zenon
<1>7. CASE ConnectForOobw(p) \/ DisconnectForOobw(p)
  <2>1. life' = life
    BY <1>7, Zenon DEF ConnectForOobw, DisconnectForOobw
  <2>2. life'[p] \in {"ENABLED", "DETACHED"} \/ SessionsOf(p) = {}
    BY <2>1, NothingBorrowed
  <2>3. /\ totalConnections'[p] - totalIdleConnections'[p] - BorrowedForOobw(p)'
             = totalConnections[p] - totalIdleConnections[p] - BorrowedForOobw(p)
        /\ totalIdleConnections'[p] >= 0 /\ totalIdleConnections'[p] <= totalIdleConnections[p]
        /\ totalConnections'[p] \in Int /\ totalIdleConnections'[p] \in Int
        /\ BorrowedForOobw(p) \in Int /\ BorrowedForOobw(p)' \in Int
        /\ oobw'[p] # "CONNECTED" => BorrowedForOobw(p)' = 0
    BY <1>1, <1>2, <1>7, SMTT(15) DEF SocketTypeOK, Accounted, ConnectForOobw, DisconnectForOobw,
                            CheckoutConnection, CheckinConnection, BorrowedForOobw
  <2>4. life[p] # "DEAD" => totalConnections'[p] =
          totalIdleConnections'[p] + Cardinality(Borrowed(p)) + BorrowedForOobw(p)'
    BY <1>1, <1>2, <2>3 DEF Accounted
  <2>5. totalIdleConnections'[p] > 0 => totalIdleConnections'[p] <= Concurrency
    BY <1>1, <1>2, <2>3, SocketAssumption, SMTT(15) DEF Accounted
  <2>6. life[p] = "SHUTDOWN_TRIGGERED" =>
          /\ sessions[p] = 0
          /\ oobw'[p] # "CONNECTED" => totalConnections'[p] = totalIdleConnections'[p]
    <3>1. life[p] = "SHUTDOWN_TRIGGERED" => Cardinality(Borrowed(p)) = 0
      BY NothingBorrowed
    <3> QED BY <1>1, <2>3, <2>4, <3>1 DEF Accounted
  <2>7. Borrowed(p)' = Borrowed(p) /\ SessionsOf(p)' = SessionsOf(p) => Accounted(p)'
    BY <1>1, <1>4, <2>1, <2>3, <2>4, <2>5, <2>6, Zenon DEF Accounted
  <2> QED BY <1>3, <1>4, <1>5, <2>2, <2>7, OtherProcesses, Zenon
<1> QED BY <1>6, <1>7 DEF WorkOutOfBand

\* Every operation of a socket or a session keeps the invariant.
LEMMA SocketStep == SocketInv /\ [SocketNext]_socketVars => SocketInv'
<1> SUFFICES ASSUME SocketInv, [SocketNext]_socketVars PROVE SocketInv'
  OBVIOUS
<1>1. CASE UNCHANGED socketVars
  BY <1>1, ZenonT(30)
  DEF socketVars, SocketInv, SocketTypeOK, Located, ConnectionsAccounted, Accounted,
      SessionsOf, Borrowed, BorrowedForOobw
<1>2. CASE SocketNext
  <2>1. ASSUME NEW s \in Session, InitiateFails(s) PROVE SocketInv'
    <3>1. session[s].process \in Process
      BY <2>1 DEF SocketInv, Located, InitiateFails
    <3> QED BY <2>1, <3>1, LifeInv
  <2> QED BY <1>2, <2>1, NewSessionInv, InitiateInv, DeinitiateInv, CallOnCloseInv, LifeInv,
           OobwInv, SMTT(30) DEF SocketNext
<1> QED BY <1>1, <1>2

\* For all processes, sessions and concurrencies: connections and sessions are accounted
\* for, so that closeAllConnections() finds no session, and no connection in use but the
\* one that an out-of-band work thread has not given back yet.
THEOREM ConnectionsAlwaysAccounted == SocketSpec => []ConnectionsAccounted
<1>1. SocketInv => ConnectionsAccounted
  BY DEF SocketInv
<1> QED BY InvInit, SocketStep, <1>1, PTL DEF SocketSpec

-----------------------------------------------------------------------------
(* The sessions that were given up *)

LEMMA HeadAndTail ==
  ASSUME NEW S, NEW q \in Seq(S), q # <<>>
  PROVE  /\ Len(q) \in Nat /\ Len(q) > 0 /\ Head(q) = q[1] /\ q[1] \in S
         /\ Tail(q) \in Seq(S) /\ Len(Tail(q)) = Len(q) - 1
         /\ \A i \in 1..(Len(q) - 1) : Tail(q)[i] = q[i + 1]
OBVIOUS

\* A session is destroyed in two steps: its connection goes back, then its group is told.
LEMMA DestroySessionInv ==
  ASSUME LoopInv, DestroySession
  PROVE  ServerOK' /\ CallsOK' /\ OwnersOK'
<1> DEFINE s == http.dropped[1].session
           n == Len(http.dropped)
<1>1. /\ Refs(http, CallRefs, VisitRefs) /\ Settled(http, CallRefs, NoRequest) /\ http \in Servers
      /\ toVisit \subseteq Client /\ accepted \in 0..MaxAccepted /\ SocketTypeOK /\ OwnersOK
  BY Zenon DEF LoopInv, ServerOK, Refs
<1>2. /\ http.dropped \in Seq([session : Session, keep : BOOLEAN]) /\ http.dropped # <<>>
  BY <1>1, Zenon DEF DestroySession, Servers
<1>7. /\ n \in Nat /\ n > 0 /\ Head(http.dropped) = http.dropped[1]
      /\ http.dropped[1] \in [session : Session, keep : BOOLEAN]
      /\ Tail(http.dropped) \in Seq([session : Session, keep : BOOLEAN])
      /\ Len(Tail(http.dropped)) = n - 1
      /\ \A i \in 1..(n - 1) : Tail(http.dropped)[i] = http.dropped[i + 1]
  <2> DEFINE S == [session : Session, keep : BOOLEAN]
  <2> HIDE DEF S
  <2>1. http.dropped \in Seq(S)
    BY <1>2 DEF S
  <2> QED BY <1>2, <2>1, HeadAndTail, Zenon DEF S
<1>3. /\ Head(http.dropped) = http.dropped[1] /\ n \in Nat /\ n > 0 /\ s \in Session
      /\ http.dropped[1].keep \in BOOLEAN
  BY <1>7
<1>4. /\ \/ Deinitiate(s, http.dropped[1].keep) /\ http' = http
         \/ CallOnClose(s) /\ http' = [http EXCEPT !.dropped = Tail(@)]
      /\ UNCHANGED <<calls, toVisit, accepted>>
  BY <1>3 DEF DestroySession
<1>5. Owned(http, s) /\ \A r \in Request : http.request[r].session # s
  BY <1>1, <1>3 DEF OwnersOK, OwnedOnce, Owned
<1>6. \A k \in calls : k.session # s
  <2> TAKE k \in calls
  <2>1. k.session # NoSession => ~Owned(http, k.session)
    BY <1>1, Zenon DEF OwnersOK
  <2> QED BY <1>3, <1>5, <2>1, SessionsAssumption, SMTT(30)
<1>8. /\ http' \in Servers /\ http'.client = http.client /\ http'.request = http.request
      /\ http'.serverState = http.serverState
      /\ http' = http \/ http'.dropped = Tail(http.dropped)
  BY <1>1, <1>4, <1>7, Zenon DEF Servers
<1>9. \A t \in Session \ {s} : session'[t] = session[t]
  BY <1>1, <1>3, <1>4, Zenon DEF Deinitiate, CallOnClose, SocketTypeOK
<1>10. CallRefs' = CallRefs /\ VisitRefs' = VisitRefs
  BY <1>4, SameRefs
<1> HIDE DEF s, n
<1>11. Refs(http', CallRefs', VisitRefs') /\ Settled(http', CallRefs', NoRequest)
  BY <1>1, <1>8, <1>10, SameObjects, SMTT(30)
<1>12. ServerOK'
  BY <1>1, <1>4, <1>11 DEF ServerOK
<1>13. CallsOK'
  <2>1. \A r \in Request : LET t == http.request[r].session
                           IN t # NoSession => session'[t] = session[t]
    BY <1>1, <1>3, <1>5, <1>9, OtherSessions, Zenon
  <2>2. \A k \in calls' : k \in calls /\ Keeps(http, http', k.req)
    BY <1>4, <1>8, Zenon DEF Keeps
  <2>3. calls' \subseteq Calls /\ \A k, l \in calls' : k.req = l.req => k = l
    BY <1>4, Zenon DEF LoopInv, CallsOK
  <2> QED BY <1>11, <2>1, <2>2, <2>3, CallsStay, Zenon
<1>14. CASE Deinitiate(s, http.dropped[1].keep) /\ http' = http
  <2>1. \A t \in Session : session'[t].state = "FREE" <=> session[t].state = "FREE"
    <3>1. session[s].state = "INITIATED" /\ session'[s].state = "DEINITIATED"
      BY <1>1, <1>3, <1>14, SMTT(30) DEF Deinitiate, SocketTypeOK
    <3> QED BY <1>9, <3>1, Zenon
  <2>2. Conserves(http, http')
    BY <1>14, Zenon DEF Conserves
  <2>3. OwnersOK'
    BY <1>4, <2>1, <2>2, CallHolds, OwnersStay, Zenon
  <2> QED BY <1>12, <1>13, <2>3, Zenon
<1>15. CASE CallOnClose(s) /\ http' = [http EXCEPT !.dropped = Tail(@)]
  <2>1. http'.dropped = Tail(http.dropped) /\ session'[s].state = "FREE"
    BY <1>1, <1>3, <1>15, Zenon DEF Servers, CallOnClose, SocketTypeOK, NoSessionYet
  <2>2. Len(http'.dropped) = n - 1 /\ \A i \in 1..(n - 1) : http'.dropped[i] = http.dropped[i + 1]
    BY <1>7, <2>1, Zenon
  <2>3. \A i, j \in 1..n : http.dropped[i].session = http.dropped[j].session => i = j
    BY <1>1, Zenon DEF OwnersOK, OwnedOnce, n
  <2>4. OwnedOnce(http')
    <3>1. \A i, j \in 1..(n - 1) : http'.dropped[i].session = http'.dropped[j].session => i = j
      <4> TAKE i, j \in 1..(n - 1)
      <4>1. i + 1 \in 1..n /\ j + 1 \in 1..n /\ (i + 1 = j + 1 => i = j)
        BY <1>3, SMTT(30)
      <4>2. http'.dropped[i] = http.dropped[i + 1] /\ http'.dropped[j] = http.dropped[j + 1]
        BY <2>2, Zenon
      <4> QED BY <2>3, <4>1, <4>2, Zenon
    <3>2. \A r \in Request, i \in 1..(n - 1) : http'.request[r].session # http'.dropped[i].session
      <4> TAKE r \in Request, i \in 1..(n - 1)
      <4>1. i + 1 \in 1..n
        BY <1>3, SMTT(30)
      <4>2. http.request[r].session # http.dropped[i + 1].session
        BY <1>1, <4>1, Zenon DEF OwnersOK, OwnedOnce, n
      <4> QED BY <1>8, <2>2, <4>2, Zenon
    <3>3. \A r, q \in Request : http'.request[r].session = http'.request[q].session /\ r # q
                                 => http'.request[r].session = NoSession
      <4>1. \A r, q \in Request : http.request[r].session = http.request[q].session /\ r # q
                                   => http.request[r].session = NoSession
        BY <1>1, Zenon DEF OwnersOK, OwnedOnce
      <4>2. http'.request = http.request
        BY <1>8, Zenon
      <4> QED BY <4>1, <4>2
    <3> QED BY <2>2, <3>1, <3>2, <3>3, Zenon DEF OwnedOnce
  <2>5. ASSUME NEW t \in Session PROVE Owned(http', t) <=> Owned(http, t) /\ t # s
    <3>1. (\E i \in 1..(n - 1) : http'.dropped[i].session = t)
            <=> (\E i \in 1..n : http.dropped[i].session = t) /\ t # s
      <4>1. ASSUME NEW i \in 1..(n - 1), http'.dropped[i].session = t
            PROVE  (\E j \in 1..n : http.dropped[j].session = t) /\ t # s
        <5>1. i + 1 \in 1..n /\ 1 \in 1..n /\ i + 1 # 1
          BY <1>3, SMTT(30)
        <5>2. http.dropped[i + 1].session = t
          BY <2>2, <4>1, Zenon
        <5> QED BY <2>3, <5>1, <5>2, Zenon DEF s
      <4>2. ASSUME NEW i \in 1..n, http.dropped[i].session = t, t # s
            PROVE  \E j \in 1..(n - 1) : http'.dropped[j].session = t
        <5>1. i # 1
          BY <4>2, Zenon DEF s
        <5>2. i - 1 \in 1..(n - 1) /\ (i - 1) + 1 = i
          BY <1>3, <5>1, SMTT(30)
        <5>3. http'.dropped[i - 1] = http.dropped[(i - 1) + 1]
          BY <2>2, <5>2, Zenon
        <5> QED BY <4>2, <5>2, <5>3, Zenon
      <4> QED BY <4>1, <4>2, Zenon
    <3>2. Len(http.dropped) = n
      BY Zenon DEF n
    <3> QED BY <1>5, <1>8, <2>2, <3>1, <3>2, Zenon DEF Owned
  <2>6. OwnersOK'
    <3>1. \A t \in Session : session[t].state # "FREE" <=>
            Owned(http, t) \/ \E k \in calls : k.session = t
      BY <1>1, Zenon DEF OwnersOK
    <3>2. \A t \in Session : session'[t].state # "FREE" <=>
            Owned(http', t) \/ \E k \in calls' : k.session = t
      BY <1>4, <1>6, <1>9, <2>1, <2>5, <3>1, Zenon
    <3>3. \A k \in calls' : k.session # NoSession => ~Owned(http', k.session)
      BY <1>1, <1>4, <2>5, CallHolds, Zenon DEF OwnersOK
    <3>4. \A k, l \in calls' : k.session = l.session /\ k # l => k.session = NoSession
      BY <1>1, <1>4, Zenon DEF OwnersOK
    <3> QED BY <2>4, <3>2, <3>3, <3>4, Zenon DEF OwnersOK
  <2> QED BY <1>12, <1>13, <2>6
<1> QED BY <1>4, <1>14, <1>15, Zenon

-----------------------------------------------------------------------------
(* The pool *)

\* asyncGet() finds a process: the session is with the callback until it is handled.
LEMMA GiveSessionInv ==
  ASSUME LoopInv, NEW k \in calls, NEW p \in Process, GiveSession(k, p)
  PROVE  ServerOK' /\ CallsOK' /\ OwnersOK'
<1>1. PICK s \in Session : /\ NewSession(s, p)
                           /\ calls' = (calls \ {k}) \cup {Call("session", k.req, k.client, s)}
  BY Zenon DEF GiveSession
<1> DEFINE l == Call("session", k.req, k.client, s)
<1>2. /\ Refs(http, CallRefs, VisitRefs) /\ Settled(http, CallRefs, NoRequest) /\ http \in Servers
      /\ toVisit \subseteq Client /\ accepted \in 0..MaxAccepted /\ SocketTypeOK /\ OwnersOK
  BY Zenon DEF LoopInv, ServerOK, Refs
<1>3. k.kind = "get" /\ UNCHANGED <<http, toVisit, accepted>>
  BY Zenon DEF GiveSession, Pool
<1>4. /\ k.req \in Request /\ k.client \in Client /\ k.session = NoSession
  BY <1>3, CallHolds, Zenon DEF Calls
<1>5. l \in Calls /\ l.req = k.req /\ l.client = k.client /\ l.session = s
  BY <1>4, Zenon DEF Call, Calls
<1> HIDE DEF l
<1>6. calls' = (calls \ {k}) \cup {l}
  BY <1>1, Zenon DEF l
<1>7. CallRefs' = CallRefs /\ VisitRefs' = VisitRefs
  BY <1>3, <1>5, <1>6, CallReplaced, SameRefs, Zenon
<1>8. ServerOK'
  BY <1>2, <1>3, <1>7, Zenon DEF ServerOK
<1>9. /\ session[s].state = "FREE" /\ session'[s].state = "NEW"
      /\ \A t \in Session \ {s} : session'[t] = session[t]
  BY <1>1, <1>2, Zenon DEF NewSession, SocketTypeOK
<1>10. ~Owned(http, s) /\ \A m \in calls : m.session # s
  BY <1>2, <1>9, Zenon DEF OwnersOK
<1>11. CallsOK'
  <2>1. \A r \in Request : LET t == http.request[r].session
                           IN t # NoSession => session'[t] = session[t]
    BY <1>2, <1>9, <1>10, OtherSessions, Zenon DEF Owned
  <2>2. CallOK(http, session, k)
    BY Zenon DEF LoopInv, CallsOK
  <2>3. CallOK(http', session', l)
    BY <1>3, <1>4, <1>5, <2>1, <2>2, Zenon DEF CallOK
  <2>4. \A q \in Request \ {k.req} : Keeps(http, http', q)
    BY <1>3, Zenon DEF Keeps
  <2> QED BY <1>2, <1>3, <1>5, <1>6, <1>7, <2>1, <2>3, <2>4, SuccessorOK, Zenon
<1>12. OwnersOK'
  <2>1. \A m \in calls' : m = l \/ m \in calls
    BY <1>6, Zenon
  <2>2. \A m, n \in calls' : m.session = n.session /\ m # n => m.session = NoSession
    BY <1>2, <1>5, <1>10, <2>1, Zenon DEF OwnersOK
  <2>3. \A m \in calls' : m.session # NoSession => ~Owned(http', m.session)
    BY <1>2, <1>3, <1>5, <1>10, <2>1, Zenon DEF OwnersOK
  <2>4. ASSUME NEW t \in Session
        PROVE  session'[t].state # "FREE" <=> Owned(http', t) \/ \E m \in calls' : m.session = t
    <3>1. CASE t = s
      BY <1>5, <1>6, <1>9, <3>1, Zenon
    <3>2. CASE t # s
      <4>1. (\E m \in calls' : m.session = t) <=> (\E m \in calls : m.session = t)
        BY <1>4, <1>5, <1>6, <3>2, SessionsAssumption, Zenon
      <4>2. session[t].state # "FREE" <=> Owned(http, t) \/ \E m \in calls : m.session = t
        BY <1>2, Zenon DEF OwnersOK
      <4> QED BY <1>3, <1>9, <3>2, <4>1, <4>2, Zenon
    <3> QED BY <3>1, <3>2, Zenon
  <2>5. OwnedOnce(http')
    BY <1>2, <1>3, Zenon DEF OwnersOK
  <2> QED BY <2>2, <2>3, <2>4, <2>5, Zenon DEF OwnersOK
<1> QED BY <1>8, <1>11, <1>12, Zenon

\* asyncGet() fails: the callback is told so.
LEMMA GiveErrorInv ==
  ASSUME LoopInv, NEW k \in calls, GiveError(k)
  PROVE  ServerOK' /\ CallsOK' /\ OwnersOK'
<1> DEFINE l == Call("error", k.req, k.client, NoSession)
<1>1. /\ Refs(http, CallRefs, VisitRefs) /\ Settled(http, CallRefs, NoRequest)
      /\ toVisit \subseteq Client /\ accepted \in 0..MaxAccepted
  BY Zenon DEF LoopInv, ServerOK
<1>2. /\ k.kind = "get" /\ calls' = (calls \ {k}) \cup {l}
      /\ UNCHANGED <<session, http, toVisit, accepted>>
  BY Zenon DEF GiveError, Pool, socketVars
<1>3. /\ k.req \in Request /\ k.client \in Client /\ k.session = NoSession
  BY <1>2, CallHolds, Zenon DEF Calls
<1>4. l \in Calls /\ l.req = k.req /\ l.client = k.client /\ l.session = NoSession
  BY <1>3, Zenon DEF Call, Calls
<1> HIDE DEF l
<1>5. CallRefs' = CallRefs /\ VisitRefs' = VisitRefs
  BY <1>2, <1>4, CallReplaced, SameRefs, Zenon
<1>6. ServerOK'
  BY <1>1, <1>2, <1>5, Zenon DEF ServerOK
<1>7. CallsOK'
  <2>1. CallOK(http, session, k)
    BY Zenon DEF LoopInv, CallsOK
  <2>2. CallOK(http', session', l)
    BY <1>2, <1>4, <2>1, Zenon DEF CallOK
  <2>3. \A q \in Request \ {k.req} : Keeps(http, http', q)
    BY <1>2, Zenon DEF Keeps
  <2> QED BY <1>1, <1>2, <1>4, <1>5, <2>2, <2>3, SuccessorOK, Zenon
<1>8. OwnersOK'
  <2>1. \A m \in calls \cup calls' :
          m.session \in Session \cup {NoSession} /\ (m.session # NoSession => m \in calls \cap calls')
    BY <1>2, <1>3, <1>4, CallHolds, Zenon
  <2>2. Conserves(http, http')
    BY <1>2, Zenon DEF Conserves
  <2> QED BY <1>2, <2>1, <2>2, OwnersStay, Zenon
<1> QED BY <1>6, <1>7, <1>8, Zenon

\* What the pool does with its processes is no concern of the server.
LEMMA ManageProcessInv ==
  ASSUME LoopInv, NEW p \in Process, ManageProcess(p)
  PROVE  ServerOK' /\ CallsOK' /\ OwnersOK'
<1>1. /\ Refs(http, CallRefs, VisitRefs) /\ Settled(http, CallRefs, NoRequest)
      /\ toVisit \subseteq Client /\ accepted \in 0..MaxAccepted
  BY Zenon DEF LoopInv, ServerOK
<1>2. UNCHANGED <<session, http, calls, toVisit, accepted>>
  BY Zenon DEF ManageProcess, Pool, Detach, TriggerShutdown, Cleanup, Spawn, WorkOutOfBand,
               StartOobw, ConnectForOobw, ConnectForOobwFails, DisconnectForOobw, FinishOobw
<1>3. Preserves(http, http', CallRefs)
  BY <1>2, Zenon DEF Preserves, Conserves, Keeps
<1> QED BY <1>1, <1>2, <1>3, SameRefs, LoopStep, Zenon

-----------------------------------------------------------------------------
(* The inductive invariant *)

\* Between two callbacks no client has two requests, so that there is a free one.
LEMMA RequestsSuffice ==
  ASSUME NEW h, NEW X, NEW Y, Refs(h, X, Y), Settled(h, X, NoRequest)
  PROVE  HasFree(h)
<1> SUFFICES ASSUME \A r \in Request : h.request[r].httpState # "IN_FREELIST" PROVE FALSE
  BY Zenon DEF HasFree
<1> DEFINE f == [r \in Request |-> h.request[r].client]
<1>1. \A r \in Request : UsedOK(h, X, r) /\ h.request[r].client \in Client
  BY Zenon DEF Refs, UsedOK
<1>2. f \in [Request -> Client]
  BY <1>1, Zenon
<1>3. PICK r \in Request, q \in Request : r # q /\ f[r] = f[q]
  <2> HIDE DEF f
  <2>1. /\ IsFiniteSet(Client) /\ IsFiniteSet(Request)
        /\ Cardinality(Client) < Cardinality(Request)
    BY HttpServerAssumption, Zenon
  <2>2. \E x, y \in Request : x # y /\ f[x] = f[y]
    BY <1>2, <2>1, FS_PigeonHole, Zenon
  <2> QED BY <2>2, Zenon
<1>4. h.request[r].client = h.request[q].client
  BY <1>3, Zenon
<1>5. CASE Waiting(h, r) /\ Waiting(h, q)
  BY <1>3, <1>4, <1>5, Zenon DEF Refs, LingersOnce
<1>6. CASE ~Waiting(h, r) /\ ~Waiting(h, q)
  <2>1. ASSUME NEW x \in Request, ~Waiting(h, x)
        PROVE  h.client[h.request[x].client].currentRequest = x
    BY <1>1, <2>1, Zenon DEF UsedOK
  <2> QED BY <1>3, <1>4, <1>6, <2>1, Zenon
<1>7. ASSUME NEW x \in Request, NEW y \in Request, h.request[x].client = h.request[y].client,
             Waiting(h, x), ~Waiting(h, y)
      PROVE  FALSE
  <2> DEFINE c == h.request[x].client
  <2>1. c \in Client /\ h.client[c].connState # "ACTIVE"
    BY <1>1, <1>7, HttpServerAssumption, Zenon DEF Settled
  <2>2. ClientOK(h, Y, c)
    BY <2>1, Zenon DEF Refs
  <2>3. h.client[c].currentRequest = y
    BY <1>1, <1>7, Zenon DEF UsedOK
  <2> HIDE DEF c
  <2> QED BY <2>1, <2>2, <2>3, HttpServerAssumption, Zenon DEF ClientOK
<1> QED BY <1>3, <1>4, <1>5, <1>6, <1>7, Zenon

\* The sockets, the server, the callbacks that are outstanding, the owners of the sessions.
ControllerInv == SocketInv /\ ServerOK /\ CallsOK /\ OwnersOK

LEMMA InvLoop == ControllerInv => LoopInv
BY RequestsSuffice, Zenon DEF ControllerInv, SocketInv, ServerOK, LoopInv

LEMMA InvTypeOK == ControllerInv => TypeOK
BY Zenon DEF ControllerInv, SocketInv, ServerOK, CallsOK, Refs, TypeOK

LEMMA InitInv == Init => ControllerInv
<1> SUFFICES ASSUME Init PROVE ControllerInv
  BY Zenon
<1>1. SocketInv /\ \A s \in Session : session[s].state = "FREE"
  <2>1. SocketInit
    BY Zenon DEF Init
  <2>2. \A s \in Session : session[s].state = "FREE"
    BY <2>1, Zenon DEF SocketInit, NoSessionYet
  <2> QED BY <2>1, <2>2, InvInit, Zenon
<1>2. /\ calls = {} /\ toVisit = {} /\ accepted = 0
      /\ http.serverState = "ACTIVE" /\ http.dropped = <<>>
      /\ http.client = [c \in Client |-> FreeClient] /\ http.request = [r \in Request |-> FreeRequest]
  BY Zenon DEF Init
<1>3. /\ FreeClient.connState = "IN_FREELIST" /\ FreeClient.currentRequest = NoRequest
      /\ FreeRequest.httpState = "IN_FREELIST" /\ FreeRequest.session = NoSession
      /\ FreeRequest.client = NoClient
  BY Zenon DEF FreeClient, FreeRequest
<1>4. http \in Servers
  <2>1. FreeClient \in ClientObjects /\ FreeRequest \in RequestObjects
    BY HttpServerAssumption, SMTT(30)
    DEF FreeClient, FreeRequest, ClientObjects, RequestObjects, ConnStates, HttpStates
  <2>2. "ACTIVE" \in ServerStates
    BY Zenon DEF ServerStates
  <2>3. <<>> \in Seq([session : Session, keep : BOOLEAN])
    BY SMTT(30)
  <2> HIDE DEF ServerStates
  <2> QED BY <2>1, <2>2, <2>3, Zenon DEF Init, Servers
<1>5. CallRefs = [r \in Request |-> 0] /\ VisitRefs = [c \in Client |-> 0]
  BY <1>2, Zenon DEF CallRefs, VisitRefs, One
<1> HIDE DEF CallRefs, VisitRefs
<1>6. \A r \in Request : http.request[r] = FreeRequest /\ CallRefs[r] = 0
  BY <1>2, <1>5, Zenon
<1>7. \A c \in Client : http.client[c] = FreeClient /\ VisitRefs[c] = 0
  BY <1>2, <1>5, Zenon
<1>8. Refs(http, CallRefs, VisitRefs)
  <2>1. CallRefs \in [Request -> Nat] /\ VisitRefs \in [Client -> Nat]
    BY <1>5, Zenon
  <2>2. \A r \in Request : FreeOK(http, CallRefs, r) /\ UsedOK(http, CallRefs, r)
    BY <1>3, <1>6, Zenon DEF FreeOK, UsedOK
  <2>3. \A c \in Client : ClientOK(http, VisitRefs, c)
    <3>1. FreeClient.lingeringRequestCount = 0
      BY Zenon DEF FreeClient
    <3>2. \A c \in Client : ~Lingers(http, c)
      BY <1>3, <1>6, Zenon DEF Lingers, Waiting
    <3> TAKE c \in Client
    <3>3. /\ http.client[c].connState = "IN_FREELIST" /\ http.client[c].currentRequest = NoRequest
          /\ http.client[c].lingeringRequestCount = 0
      BY <1>3, <1>7, <3>1, Zenon
    <3> QED BY <1>7, <3>2, <3>3, SMTT(30) DEF ClientOK, One
  <2>4. LingersOnce(http) /\ Quiet(http)
    BY <1>2, <1>3, <1>6, Zenon DEF LingersOnce, Waiting, Quiet
  <2> QED BY <1>4, <2>1, <2>2, <2>3, <2>4, Zenon DEF Refs
<1>9. Settled(http, CallRefs, NoRequest)
  BY <1>3, <1>6, Zenon DEF Settled, Waiting
<1>10. ServerOK
  BY <1>2, <1>8, <1>9, ControllerAssumption, SMTT(30) DEF ServerOK
<1>11. OwnersOK
  <2>1. ASSUME NEW s \in Session PROVE ~Owned(http, s)
    <3>1. \A r \in Request : http.request[r].session = NoSession
      BY <1>3, <1>6, Zenon
    <3>2. s # NoSession
      BY SessionsAssumption
    <3>3. \A i \in 1..Len(http.dropped) : FALSE
      BY <1>2
    <3> QED BY <3>1, <3>2, <3>3 DEF Owned
  <2>2. OwnedOnce(http)
    BY <1>2, <1>3, <1>6, SMTT(30) DEF OwnedOnce
  <2> QED BY <1>1, <1>2, <2>1, <2>2, Zenon DEF OwnersOK
<1> QED BY <1>1, <1>2, <1>10, <1>11, Zenon DEF ControllerInv, CallsOK

-----------------------------------------------------------------------------
(* The request path implements the sockets *)

\* The thread destroys sessions through Deinitiate and CallOnClose alone.
LEMMA DestroySessionStep == TypeOK /\ DestroySession => SocketNext
<1> SUFFICES ASSUME TypeOK, DestroySession PROVE SocketNext
  BY Zenon
<1>1. Head(http.dropped) \in [session : Session, keep : BOOLEAN]
  <2>1. http.dropped \in Seq([session : Session, keep : BOOLEAN])
    BY DEF TypeOK, Servers
  <2>2. http.dropped # <<>>
    BY DEF DestroySession
  <2> QED BY <2>1, <2>2, HeadAndTail, Zenon
<1>2. PICK s \in Session, keep \in BOOLEAN : Deinitiate(s, keep) \/ CallOnClose(s)
  BY <1>1 DEF DestroySession
<1> QED BY <1>2, Zenon DEF SocketNext

\* An answer initiates the session it brings, or leaves the sockets alone.
LEMMA HandleStep ==
  ASSUME TypeOK, NEW k \in calls, Handle(k)
  PROVE  SocketNext \/ UNCHANGED socketVars
<1>1. k.kind = "session" => k.session \in Session
  BY Zenon DEF TypeOK, Calls
<1>2. CASE SessionAnswer(k) \/ InitiateSessionFails(k)
  <2>1. k.session \in Session /\ (Initiate(k.session) \/ InitiateFails(k.session))
    BY <1>1, <1>2, Zenon DEF SessionAnswer, InitiateSessionFails
  <2> QED BY <2>1, Zenon DEF SocketNext
<1>3. CASE \/ StaleAnswer(k) \/ CheckoutSessionLater(k)
           \/ \E flushed \in BOOLEAN : ErrorAnswer(k, flushed)
  BY <1>3, Zenon DEF StaleAnswer, CheckoutSessionLater, ErrorAnswer
<1> QED BY <1>2, <1>3, Zenon DEF Handle

\* The pool hands out sessions through NewSession.
LEMMA AnswerStep ==
  ASSUME NEW k \in calls, Answer(k)
  PROVE  SocketNext \/ UNCHANGED socketVars
<1>1. CASE GiveError(k)
  BY <1>1, Zenon DEF GiveError
<1>2. ASSUME NEW p \in Process, GiveSession(k, p) PROVE SocketNext
  BY <1>2, Zenon DEF GiveSession, SocketNext
<1> QED BY <1>1, <1>2, Zenon DEF Answer

\* Every step of the event loop and of the pool is one of the sockets or none of them.
LEMMA ControllerStep == TypeOK /\ [Next]_vars => [SocketNext]_socketVars
<1> SUFFICES ASSUME TypeOK, [Next]_vars PROVE SocketNext \/ UNCHANGED socketVars
  BY Zenon
<1>1. CASE UNCHANGED vars
  BY <1>1, Zenon DEF vars
<1>2. ASSUME NEW c \in Client,
             Accept(c) \/ Disconnect(c) \/ OutputFlushed(c) \/ VisitClient(c)
      PROVE  UNCHANGED socketVars
  BY <1>2, Zenon DEF Accept, Disconnect, OutputFlushed, VisitClient, Serve
<1>3. CASE AcceptFails \/ AcceptResumes \/ Shutdown
  BY <1>3, Zenon DEF AcceptFails, AcceptResumes, Shutdown, Serve
<1>4. ASSUME NEW r \in Request, NEW flushed \in BOOLEAN, NEW keep \in BOOLEAN,
             BeginRequest(r, keep) \/ AnswerDirectly(r, keep, flushed)
               \/ AppResponds(r, keep, flushed)
      PROVE  UNCHANGED socketVars
  BY <1>4, Zenon DEF BeginRequest, AnswerDirectly, AppResponds, Serve
<1>5. ASSUME NEW p \in Process, ManageProcess(p) PROVE SocketNext
  BY <1>5, Zenon DEF ManageProcess, SocketNext
<1> QED BY <1>1, <1>2, <1>3, <1>4, <1>5, DestroySessionStep, HandleStep, AnswerStep, Zenon DEF Next

\* Every step keeps the invariant of the request path.
LEMMA ServerStep ==
  ASSUME LoopInv, Next
  PROVE  ServerOK' /\ CallsOK' /\ OwnersOK'
<1> DEFINE Kept == ServerOK' /\ CallsOK' /\ OwnersOK'
<1> SUFFICES Kept
  BY Zenon
<1>1. ASSUME NEW c \in Client,
             Accept(c) \/ Disconnect(c) \/ OutputFlushed(c) \/ VisitClient(c)
      PROVE  Kept
  BY <1>1, AcceptInv, DisconnectInv, OutputFlushedInv, VisitClientInv, Zenon
<1>2. CASE AcceptFails \/ AcceptResumes \/ Shutdown \/ DestroySession
  BY <1>2, AcceptStateInv, ShutdownInv, DestroySessionInv, Zenon
<1>3. ASSUME NEW r \in Request, NEW flushed \in BOOLEAN, NEW keep \in BOOLEAN,
             BeginRequest(r, keep) \/ AnswerDirectly(r, keep, flushed)
               \/ AppResponds(r, keep, flushed)
      PROVE  Kept
  BY <1>3, BeginRequestInv, AnswerDirectlyInv, AppRespondsInv, Zenon
<1>4. ASSUME NEW k \in calls, Handle(k) PROVE Kept
  BY <1>4, HandleInv, Zenon
<1>5. ASSUME NEW k \in calls, Answer(k) PROVE Kept
  BY <1>5, GiveErrorInv, GiveSessionInv, Zenon DEF Answer
<1>6. ASSUME NEW p \in Process, ManageProcess(p) PROVE Kept
  BY <1>6, ManageProcessInv, Zenon
<1> HIDE DEF Kept
<1> QED BY <1>1, <1>2, <1>3, <1>4, <1>5, <1>6, Zenon DEF Next

LEMMA InvStep == ControllerInv /\ [Next]_vars => ControllerInv'
<1> SUFFICES ASSUME ControllerInv, [Next]_vars PROVE ControllerInv'
  BY Zenon
<1>1. SocketInv'
  BY InvTypeOK, ControllerStep, SocketStep, Zenon DEF ControllerInv
<1>2. CASE Next
  <2>1. ServerOK' /\ CallsOK' /\ OwnersOK'
    BY <1>2, InvLoop, ServerStep, Zenon
  <2> QED BY <1>1, <2>1, Zenon DEF ControllerInv
<1>3. CASE UNCHANGED vars
  <2>1. ServerOK' /\ CallsOK' /\ OwnersOK'
    BY <1>3, SameRefs, Zenon DEF ControllerInv, ServerOK, CallsOK, OwnersOK, vars, socketVars
  <2> QED BY <1>1, <2>1 DEF ControllerInv
<1> QED BY <1>2, <1>3, Zenon

\* The inductive invariant of the request path.
THEOREM ControllerInvariance == Spec => []ControllerInv
BY InitInv, InvStep, PTL DEF Spec

\* Type correctness of the request path: every client, request and callback that its
\* handlers leave behind is well formed.
THEOREM ControllerTypeCorrect == Spec => []TypeOK
BY ControllerInvariance, InvTypeOK, PTL

\* Controller implements Socket: whatever the clients, the callbacks of the event loop and the
\* pool do, the whole request path is a behaviour of the sockets.
THEOREM ControllerImplementsSocket == Spec => SocketSpec
<1>1. Init => SocketInit
  BY Zenon DEF Init
<1> QED BY <1>1, ControllerTypeCorrect, ControllerStep, PTL DEF Spec, SocketSpec

\* Hence closeAllConnections() finds no session and no connection in use, however the
\* clients, the callbacks of the event loop and the pool interleave.
COROLLARY ControllerAccountsConnections == Spec => []ConnectionsAccounted
BY ControllerImplementsSocket, ConnectionsAlwaysAccounted, PTL

-----------------------------------------------------------------------------
(* What the invariant says of references, sessions and callbacks *)

LEMMA AtMostOne ==
  ASSUME NEW S, \A x, y \in S : x = y
  PROVE  Cardinality(S) = One(S # {})
<1>1. CASE S = {}
  BY <1>1, FS_EmptySet, Zenon DEF One
<1>2. ASSUME NEW x \in S PROVE Cardinality(S) = 1 /\ S # {}
  <2>1. S = {x}
    BY <1>2, Zenon
  <2> QED BY <2>1, FS_Singleton, Zenon
<1> QED BY <1>1, <1>2, Zenon DEF One

\* A request is held by its client while it is the current one, and by its callback.
LEMMA RequestRefsExact ==
  ASSUME ControllerInv, NEW r \in Request, InUse(r)
  PROVE  LET current == http.client[http.request[r].client].currentRequest = r
         IN /\ http.request[r].refcount = One(current) + Cardinality({k \in calls : k.req = r})
            /\ current <=> http.request[r].httpState # "WAITING_FOR_REFERENCES"
<1> DEFINE S == {k \in calls : k.req = r}
<1>1. UsedOK(http, CallRefs, r)
  BY Zenon DEF ControllerInv, ServerOK, Refs
<1>2. Cardinality(S) = One(S # {})
  <2>1. \A x, y \in S : x = y
    BY Zenon DEF ControllerInv, CallsOK
  <2> HIDE DEF S
  <2> QED BY <2>1, AtMostOne, Zenon
<1>3. CallRefs[r] = One(S # {})
  BY Zenon DEF CallRefs, One
<1> HIDE DEF S, CallRefs
<1>4. http.client[http.request[r].client].currentRequest = r <=> ~Waiting(http, r)
  BY <1>1, Zenon DEF UsedOK, InUse
<1>5. http.request[r].refcount = One(~Waiting(http, r)) + CallRefs[r]
  BY <1>1, Zenon DEF UsedOK, InUse
<1> QED BY <1>2, <1>3, <1>4, <1>5, Zenon DEF S, Waiting, One

\* The requests of a client: the current one, or one that waits for its references.
LEMMA ClientRequests ==
  ASSUME NEW h, NEW X, NEW Y, Refs(h, X, Y), Settled(h, X, NoRequest), NEW c \in Client
  PROVE  Cardinality({r \in Request : h.request[r].client = c})
           = One(h.client[c].currentRequest # NoRequest) + One(Lingers(h, c))
<1> DEFINE S == {r \in Request : h.request[r].client = c}
           d == h.client[c].currentRequest
<1>1. \A r \in S : Waiting(h, r) \/ d = r
  <2> TAKE r \in S
  <2>1. h.request[r].httpState # "IN_FREELIST"
    <3>1. FreeOK(h, X, r)
      BY Zenon DEF Refs
    <3>2. FreeRequest.client = NoClient
      BY DEF FreeRequest
    <3> QED BY <3>1, <3>2, HttpServerAssumption, Zenon DEF FreeOK
  <2> QED BY <2>1, Zenon DEF Refs, UsedOK
<1>2. d # NoRequest => d \in S
  <2>1. d \in Request \cup {NoRequest}
    BY ClientFields, Zenon DEF Refs
  <2> QED BY <2>1, Zenon DEF Refs, ClientOK
<1>3. Lingers(h, c) <=> \E r \in S : Waiting(h, r)
  BY Zenon DEF Lingers
<1>4. d # NoRequest => ~Lingers(h, c)
  BY NotBoth, Zenon
<1>5. \A r \in S : r # NoRequest
  BY HttpServerAssumption, Zenon
<1>6. \A x, y \in S : Waiting(h, x) /\ Waiting(h, y) => x = y
  BY Zenon DEF Refs, LingersOnce
<1> HIDE DEF S, d
<1>7. \A x, y \in S : x = y
  BY <1>1, <1>3, <1>4, <1>5, <1>6, Zenon
<1>8. Cardinality(S) = One(S # {})
  BY <1>7, AtMostOne, Zenon
<1>9. S # {} <=> d # NoRequest \/ Lingers(h, c)
  BY <1>1, <1>2, <1>3, <1>5, Zenon
<1>10. Cardinality(S) = One(d # NoRequest) + One(Lingers(h, c))
  BY <1>4, <1>8, <1>9, SMTT(30) DEF One
<1> QED BY <1>10, Zenon DEF S, d

LEMMA InvReferences == ControllerInv => ReferencesAreExact
<1> SUFFICES ASSUME ControllerInv PROVE ReferencesAreExact
  BY Zenon
<1>1. ASSUME NEW c \in Client, http.client[c].connState # "IN_FREELIST"
      PROVE  http.client[c].refcount =
               One(http.client[c].connState = "ACTIVE") + One(c \in toVisit)
                 + Cardinality({r \in Request : http.request[r].client = c})
  <2>1. Refs(http, CallRefs, VisitRefs) /\ Settled(http, CallRefs, NoRequest)
    BY Zenon DEF ControllerInv, ServerOK
  <2>2. VisitRefs[c] = One(c \in toVisit)
    BY Zenon DEF VisitRefs
  <2> HIDE DEF CallRefs, VisitRefs
  <2>3. ClientOK(http, VisitRefs, c)
    BY <2>1, Zenon DEF Refs
  <2>4. http.client[c].refcount =
          One(http.client[c].connState = "ACTIVE") + One(http.client[c].currentRequest # NoRequest)
            + One(Lingers(http, c)) + One(c \in toVisit)
    BY <1>1, <2>2, <2>3, Zenon DEF ClientOK
  <2>5. Cardinality({r \in Request : http.request[r].client = c})
          = One(http.client[c].currentRequest # NoRequest) + One(Lingers(http, c))
    BY <2>1, ClientRequests, Zenon
  <2> DEFINE n == Cardinality({r \in Request : http.request[r].client = c})
  <2> SUFFICES http.client[c].refcount =
                 One(http.client[c].connState = "ACTIVE") + One(c \in toVisit) + n
    BY Zenon
  <2>6. n = One(http.client[c].currentRequest # NoRequest) + One(Lingers(http, c))
    BY <2>5, Zenon
  <2> HIDE DEF n
  <2> QED BY <2>4, <2>6, SMTT(30) DEF One
<1>2. ASSUME NEW r \in Request, InUse(r)
      PROVE  LET current == http.client[http.request[r].client].currentRequest = r
             IN /\ http.request[r].refcount = One(current) + Cardinality({k \in calls : k.req = r})
                /\ current <=> http.request[r].httpState # "WAITING_FOR_REFERENCES"
  BY <1>2, RequestRefsExact, Zenon
<1> QED BY <1>1, <1>2, Zenon DEF ReferencesAreExact

LEMMA InvOwners == ControllerInv => SessionHasOneOwner
<1> SUFFICES ASSUME ControllerInv, NEW s \in Session
             PROVE  Cardinality({k \in calls : k.session = s})
                      + Cardinality({r \in Request : http.request[r].session = s})
                      + Cardinality({i \in DOMAIN http.dropped : http.dropped[i].session = s})
                    = IF session[s].state = "FREE" THEN 0 ELSE 1
  BY Zenon DEF SessionHasOneOwner
<1> DEFINE K == {k \in calls : k.session = s}
           R == {r \in Request : http.request[r].session = s}
           D == {i \in DOMAIN http.dropped : http.dropped[i].session = s}
<1>1. OwnersOK /\ s # NoSession
  BY SessionsAssumption DEF ControllerInv
<1>2. DOMAIN http.dropped = 1..Len(http.dropped)
  <2>1. http.dropped \in Seq([session : Session, keep : BOOLEAN])
    BY DEF ControllerInv, ServerOK, Refs, Servers
  <2> QED BY <2>1
<1>3. (\A x, y \in K : x = y) /\ (\A x, y \in R : x = y) /\ (\A x, y \in D : x = y)
  BY <1>1, <1>2, SMTT(15) DEF OwnersOK, OwnedOnce
<1>4. (K # {} => R = {} /\ D = {}) /\ (R # {} => D = {})
  BY <1>1, <1>2, SMTT(15) DEF OwnersOK, OwnedOnce, Owned
<1>5. session[s].state # "FREE" <=> K # {} \/ R # {} \/ D # {}
  BY <1>1, <1>2 DEF OwnersOK, Owned
<1> HIDE DEF K, R, D
<1>6. Cardinality(K) = One(K # {}) /\ Cardinality(R) = One(R # {}) /\ Cardinality(D) = One(D # {})
  BY <1>3, AtMostOne
<1>7. Cardinality(K) + Cardinality(R) + Cardinality(D) = IF session[s].state = "FREE" THEN 0 ELSE 1
  BY <1>4, <1>5, <1>6 DEF One
<1> QED BY <1>7, Zenon DEF K, R, D

LEMMA InvCallbacks == ControllerInv => CallbacksAreSafe
<1> SUFFICES ASSUME ControllerInv PROVE CallbacksAreSafe
  OBVIOUS
<1>1. ASSUME NEW k \in calls
      PROVE  /\ k.req \in Request /\ InUse(k.req) /\ http.request[k.req].client = k.client
             /\ k.client \in Client /\ http.client[k.client].connState # "IN_FREELIST"
  <2>1. /\ k.req \in Request /\ k.client \in Client
        /\ http.request[k.req].httpState # "IN_FREELIST"
    BY InvLoop, CallHolds, Zenon
  <2>2. http.request[k.req].client = k.client
    BY Zenon DEF ControllerInv, CallsOK, CallOK
  <2>3. UsedOK(http, CallRefs, k.req)
    BY <2>1, Zenon DEF ControllerInv, ServerOK, Refs
  <2> QED BY <2>1, <2>2, <2>3, Zenon DEF UsedOK, InUse
<1>2. ASSUME http.serverState = "FINISHED_SHUTDOWN", NEW r \in Request PROVE ~InUse(r)
  <2>1. UsedOK(http, CallRefs, r) /\ Quiet(http)
    BY Zenon DEF ControllerInv, ServerOK, Refs
  <2> QED BY <1>2, <2>1, Zenon DEF UsedOK, Quiet, InUse
<1> QED BY <1>1, <1>2, Zenon DEF CallbacksAreSafe

\* The reference counts of clients and requests are exact, whatever the callbacks of the event
\* loop race with: none of refRequest, unrefRequest and unrefClient is missing or doubled on
\* any path, so no object goes back to its freelist too early or stays out of it for ever.
THEOREM ReferencesAlwaysExact == Spec => []ReferencesAreExact
BY ControllerInvariance, InvReferences, PTL

\* A session that the pool handed out has one owner until its group has been told that it is
\* over: no path through sessionCheckedOut, initiateSession, deinitializeRequest and disconnect
\* leaks a session or closes it twice.
THEOREM SessionAlwaysHasOneOwner == Spec => []SessionHasOneOwner
BY ControllerInvariance, InvOwners, PTL

\* A callback finds the request and the client it was made for, neither of them in a freelist,
\* and when the shutdown has finished no callback is outstanding.
THEOREM CallbacksAlwaysSafe == Spec => []CallbacksAreSafe
BY ControllerInvariance, InvCallbacks, PTL
=============================================================================
