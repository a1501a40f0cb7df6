-------------------------- MODULE EventLoopProofs ---------------------------
(***************************************************************************)
(* The callbacks of the event loop: what accepting, disconnecting and      *)
(* shutting down, the beginning of a request, the answers of the pool and  *)
(* of the application and another attempt leave of the references, of the  *)
(* callbacks that are outstanding and of the owners of the sessions.       *)
(***************************************************************************)
EXTENDS Controller, HttpServerProofs

(* One callback of the event loop *)

\* The references from outside, between two callbacks.
CallRefs == [r \in Request |-> One(\E k \in calls : k.req = r)]
VisitRefs == [c \in Client |-> One(c \in toVisit)]

\* What callback k finds: a request of its client with attempts left; what the request was
\* given before, if anything, is a session that could not be initiated.
CallOK(h, ses, k) ==
  LET q == h.request[k.req]
  IN /\ q.client = k.client
     /\ q.httpState = "COMPLETE" => q.sessionCheckoutTry < MaxTry
     /\ q.session # NoSession => ses[q.session].state = "NEW"

\* One callback at a time is outstanding for a request.
CallsOK ==
  /\ calls \subseteq Calls
  /\ \A k, l \in calls : k.req = l.req => k = l
  /\ \A k \in calls : CallOK(http, session, k)

\* Every session in use has one owner, every other one none.
OwnersOK ==
  /\ OwnedOnce(http)
  /\ \A k, l \in calls : k.session = l.session /\ k # l => k.session = NoSession
  /\ \A k \in calls : k.session # NoSession => ~Owned(http, k.session)
  /\ \A s \in Session :
       session[s].state # "FREE" <=> Owned(http, s) \/ \E k \in calls : k.session = s

\* The server, its clients and requests, and the callbacks that refer to them.
ServerOK ==
  /\ toVisit \subseteq Client /\ accepted \in 0..MaxAccepted
  /\ Refs(http, CallRefs, VisitRefs) /\ Settled(http, CallRefs, NoRequest)

\* What a callback of the event loop finds: a request is free for whoever needs one.
LoopInv == SocketTypeOK /\ HasFree(http) /\ ServerOK /\ CallsOK /\ OwnersOK

-----------------------------------------------------------------------------
(* The callbacks that are outstanding *)

\* Callback k holds one reference to its request, and no other callback does.
LEMMA CallHolds ==
  ASSUME LoopInv, NEW k \in calls
  PROVE  /\ k \in Calls /\ k.req \in Request /\ k.client \in Client
         /\ k.session \in Session \cup {NoSession} /\ CallRefs[k.req] = 1
         /\ http.request[k.req].httpState \notin {"IN_FREELIST", "PARSING_HEADERS"}
<1>1. /\ k \in Calls /\ k.req \in Request /\ k.client \in Client
      /\ k.session \in Session \cup {NoSession}
  BY DEF LoopInv, CallsOK, Calls
<1>2. CallRefs[k.req] = 1
  BY <1>1 DEF CallRefs, One
<1>3. FreeOK(http, CallRefs, k.req) /\ UsedOK(http, CallRefs, k.req)
  BY <1>1 DEF LoopInv, ServerOK, Refs
<1> QED BY <1>1, <1>2, <1>3 DEF FreeOK, UsedOK

LEMMA CallGone ==
  ASSUME LoopInv, NEW k \in calls, calls' = calls \ {k}
  PROVE  CallRefs' = [CallRefs EXCEPT ![k.req] = @ - 1]
<1>1. k.req \in Request /\ CallRefs[k.req] = 1
  BY CallHolds
<1>2. \A r \in Request : CallRefs'[r] = IF r = k.req THEN 0 ELSE CallRefs[r]
  BY <1>1 DEF LoopInv, CallsOK, CallRefs, One
<1>3. /\ CallRefs \in [Request -> {0, 1}]
      /\ CallRefs' = [r \in Request |-> CallRefs'[r]]
  BY DEF CallRefs, One
<1> HIDE DEF CallRefs
<1> QED BY <1>1, <1>2, <1>3

LEMMA CallReplaced ==
  ASSUME LoopInv, NEW k \in calls, NEW l, l.req = k.req, calls' = (calls \ {k}) \cup {l}
  PROVE  CallRefs' = CallRefs
BY DEF CallRefs, One

LEMMA CallAdded ==
  ASSUME LoopInv, NEW l, l.req \in Request, CallRefs[l.req] = 0, calls' = calls \cup {l}
  PROVE  CallRefs' = [CallRefs EXCEPT ![l.req] = @ + 1]
<1>1. \A r \in Request : CallRefs'[r] = IF r = l.req THEN 1 ELSE CallRefs[r]
  BY DEF CallRefs, One
<1>2. /\ CallRefs \in [Request -> {0, 1}]
      /\ CallRefs' = [r \in Request |-> CallRefs'[r]]
  BY DEF CallRefs, One
<1> HIDE DEF CallRefs
<1> QED BY <1>1, <1>2

\* The callbacks that stay are as good as they were.
LEMMA CallsStay ==
  ASSUME LoopInv, Refs(http', CallRefs', VisitRefs'),
         calls' \subseteq Calls, \A k, l \in calls' : k.req = l.req => k = l,
         \A k \in calls' : \/ k \in calls /\ Keeps(http, http', k.req)
                           \/ CallOK(http', session', k),
         \A r \in Request : LET s == http.request[r].session
                            IN s # NoSession => session'[s] = session[s]
  PROVE  CallsOK'
<1>1. ASSUME NEW k \in calls', k \in calls, Keeps(http, http', k.req)
      PROVE  CallOK(http', session', k)
  <2>1. k.req \in Request
    BY <1>1, CallHolds
  <2>2. CallRefs'[k.req] = 1
    BY <2>1 DEF CallRefs, One
  <2>3. CallOK(http, session, k)
    BY <1>1 DEF LoopInv, CallsOK
  <2>4. UsedOK(http', CallRefs', k.req) /\ FreeOK(http', CallRefs', k.req)
    BY <2>1, Zenon DEF Refs
  <2>5. http'.request[k.req].session # NoSession => http'.request[k.req].httpState = "COMPLETE"
    BY <2>2, <2>4 DEF UsedOK, FreeOK
  <2> QED BY <1>1, <2>1, <2>3, <2>5, Zenon DEF Keeps, CallOK
<1> QED BY <1>1, Zenon DEF CallsOK

\* The owners of the sessions stay the same, but for callbacks that have none.
LEMMA OwnersStay ==
  ASSUME LoopInv, Conserves(http, http'),
         \A k \in calls \cup calls' :
           k.session \in Session \cup {NoSession} /\ (k.session # NoSession => k \in calls \cap calls'),
         \A s \in Session : session'[s].state = "FREE" <=> session[s].state = "FREE"
  PROVE  OwnersOK'
<1>1. OwnersOK
  BY DEF LoopInv
<1>2. OwnedOnce(http') /\ \A s \in Session : Owned(http', s) <=> Owned(http, s)
  BY <1>1 DEF OwnersOK, Conserves
<1>3. ASSUME NEW s \in Session
      PROVE  (\E k \in calls' : k.session = s) <=> (\E k \in calls : k.session = s)
  BY SessionsAssumption
<1>4. \A s \in Session :
        session'[s].state # "FREE" <=> Owned(http', s) \/ \E k \in calls' : k.session = s
  BY <1>1, <1>2, <1>3, Zenon DEF OwnersOK
<1>5. \A k, l \in calls' : k.session = l.session /\ k # l => k.session = NoSession
  BY <1>1 DEF OwnersOK
<1>6. \A k \in calls' : k.session # NoSession => ~Owned(http', k.session)
  BY <1>1, <1>2 DEF OwnersOK
<1> QED BY <1>2, <1>4, <1>5, <1>6, Zenon DEF OwnersOK

\* What is left to show of a step that makes no new callback and touches no session.
LEMMA LoopStep ==
  ASSUME LoopInv, UNCHANGED session, toVisit' \subseteq Client, accepted' \in 0..MaxAccepted,
         calls' \subseteq calls, \A k \in calls \ calls' : k.session = NoSession,
         Refs(http', CallRefs', VisitRefs'), Settled(http', CallRefs', NoRequest),
         Preserves(http, http', CallRefs')
  PROVE  ServerOK' /\ CallsOK' /\ OwnersOK'
<1>1. ServerOK'
  BY DEF ServerOK
<1>2. CallsOK'
  <2>1. ASSUME NEW k \in calls' PROVE k \in calls /\ Keeps(http, http', k.req)
    <3>1. k \in calls /\ k.req \in Request
      BY CallHolds
    <3>2. CallRefs'[k.req] = 1
      BY <3>1 DEF CallRefs, One
    <3> QED BY <3>1, <3>2 DEF Preserves
  <2>2. calls' \subseteq Calls /\ \A k, l \in calls' : k.req = l.req => k = l
    BY DEF LoopInv, CallsOK
  <2> QED BY <2>1, <2>2, CallsStay
<1>3. \A k \in calls \cup calls' :
        k.session \in Session \cup {NoSession} /\ (k.session # NoSession => k \in calls \cap calls')
  BY CallHolds
<1>4. OwnersOK'
  BY <1>3, OwnersStay DEF Preserves
<1> QED BY <1>1, <1>2, <1>4

\* Nothing refers to a client or a request in another way while callbacks do not change.
LEMMA SameRefs ==
  /\ UNCHANGED calls => CallRefs' = CallRefs
  /\ UNCHANGED toVisit => VisitRefs' = VisitRefs
<1>1. ASSUME UNCHANGED calls PROVE CallRefs' = CallRefs
  BY <1>1 DEF CallRefs, One
<1>2. ASSUME UNCHANGED toVisit PROVE VisitRefs' = VisitRefs
  BY <1>2 DEF VisitRefs, One
<1> QED BY <1>1, <1>2

-----------------------------------------------------------------------------
(* Clients *)

LEMMA AcceptInv ==
  ASSUME LoopInv, NEW c \in Client, Accept(c)
  PROVE  ServerOK' /\ CallsOK' /\ OwnersOK'
<1>1. /\ Refs(http, CallRefs, VisitRefs) /\ Settled(http, CallRefs, NoRequest) /\ HasFree(http)
      /\ toVisit \subseteq Client /\ accepted \in 0..MaxAccepted
  BY DEF LoopInv, ServerOK
<1>2. /\ http.client[c].connState = "IN_FREELIST" /\ http.serverState = "ACTIVE"
      /\ http' = OnAcceptable(http, c) /\ UNCHANGED <<session, calls, toVisit>>
      /\ accepted' \in 0..MaxAccepted
  BY <1>1, ControllerAssumption DEF Accept, socketVars
<1>3. Refs(http', CallRefs, VisitRefs) /\ Preserves(http, http', CallRefs)
        /\ Settled(http', CallRefs, NoRequest)
  BY <1>1, <1>2, AcceptRefs
<1> QED BY <1>1, <1>2, <1>3, SameRefs, LoopStep, Zenon

\* accept() fails, and is tried again after a while.
LEMMA AcceptStateInv ==
  ASSUME LoopInv, AcceptFails \/ AcceptResumes
  PROVE  ServerOK' /\ CallsOK' /\ OwnersOK'
<1>1. /\ Refs(http, CallRefs, VisitRefs) /\ Settled(http, CallRefs, NoRequest) /\ http \in Servers
      /\ toVisit \subseteq Client /\ accepted \in 0..MaxAccepted
  BY DEF LoopInv, ServerOK, Refs
<1>2. PICK st \in {"TOO_MANY_FDS", "ACTIVE"} : http' = [http EXCEPT !.serverState = st]
  BY DEF AcceptFails, AcceptResumes, Serve
<1>3. UNCHANGED <<session, calls, toVisit, accepted>>
  BY DEF AcceptFails, AcceptResumes, Serve, socketVars
<1>4. /\ http' \in Servers /\ http'.client = http.client /\ http'.request = http.request
      /\ http'.dropped = http.dropped /\ http'.serverState # "FINISHED_SHUTDOWN"
  BY <1>1, <1>2, Zenon DEF Servers, ServerStates
<1>5. Refs(http', CallRefs, VisitRefs) /\ Settled(http', CallRefs, NoRequest)
  BY <1>1, <1>4, SameObjects
<1>6. Preserves(http, http', CallRefs)
  BY <1>4, SameSessions DEF Preserves, Keeps
<1> QED BY <1>1, <1>3, <1>5, <1>6, SameRefs, LoopStep, Zenon

LEMMA DisconnectInv ==
  ASSUME LoopInv, NEW c \in Client, Disconnect(c)
  PROVE  ServerOK' /\ CallsOK' /\ OwnersOK'
<1>1. /\ Refs(http, CallRefs, VisitRefs) /\ Settled(http, CallRefs, NoRequest)
      /\ toVisit \subseteq Client /\ accepted \in 0..MaxAccepted
  BY DEF LoopInv, ServerOK
<1>2. http' = DisconnectClient(http, c) /\ UNCHANGED <<session, calls, toVisit, accepted>>
  BY DEF Disconnect, Serve, socketVars
<1>3. /\ Refs(http', CallRefs, VisitRefs) /\ Settled(http', CallRefs, NoRequest)
      /\ Preserves(http, http', CallRefs)
  BY <1>1, <1>2, SettledAfterDisconnect
<1> QED BY <1>1, <1>2, <1>3, SameRefs, LoopStep, Zenon

LEMMA OutputFlushedInv ==
  ASSUME LoopInv, NEW c \in Client, OutputFlushed(c)
  PROVE  ServerOK' /\ CallsOK' /\ OwnersOK'
<1> DEFINE r == http.client[c].currentRequest
<1>1. /\ Refs(http, CallRefs, VisitRefs) /\ Settled(http, CallRefs, NoRequest)
      /\ http \in Servers /\ HasFree(http)
      /\ toVisit \subseteq Client /\ accepted \in 0..MaxAccepted
  BY Zenon DEF LoopInv, ServerOK, Refs
<1>2. /\ r # NoRequest /\ http.request[r].httpState = "FLUSHING_OUTPUT"
      /\ http' = OnClientOutputDataFlushed(http, c)
      /\ UNCHANGED <<session, calls, toVisit, accepted>>
  BY Zenon DEF OutputFlushed, Serve, socketVars
<1>3. r \in Request /\ CallRefs[r] = 0
  <2>1. r \in Request
    BY <1>1, <1>2, ClientFields, Zenon
  <2> QED BY <1>1, <1>2, <2>1, Zenon DEF Settled
<1>4. /\ Refs(http', CallRefs, VisitRefs) /\ Preserves(http, http', CallRefs)
      /\ Ended(http, http', c, r)
  BY <1>1, <1>2, FlushedRefs, Zenon
<1> HIDE DEF r
<1>5. Settled(http', CallRefs, NoRequest)
  BY <1>1, <1>3, <1>4, SettledAfterEnd, Zenon
<1> QED BY <1>1, <1>2, <1>4, <1>5, SameRefs, LoopStep, Zenon

-----------------------------------------------------------------------------
(* Shutdown *)

\* shutdown() is done with one client.
LEMMA VisitClientInv ==
  ASSUME LoopInv, NEW c \in Client, VisitClient(c)
  PROVE  ServerOK' /\ CallsOK' /\ OwnersOK'
<1>0. PICK disconnect \in ShouldDisconnectOnShutdown(c) :
        http' = UnrefClient(IF disconnect THEN DisconnectClient(http, c) ELSE http, c)
  BY Zenon DEF VisitClient
<1> DEFINE f == IF disconnect THEN DisconnectClient(http, c) ELSE http
<1>1. /\ Refs(http, CallRefs, VisitRefs) /\ Settled(http, CallRefs, NoRequest)
      /\ toVisit \subseteq Client /\ accepted \in 0..MaxAccepted
  BY DEF LoopInv, ServerOK
<1>2. /\ c \in toVisit /\ http' = UnrefClient(f, c) /\ toVisit' = toVisit \ {c}
      /\ UNCHANGED <<session, calls, accepted>>
  BY <1>0, Zenon DEF VisitClient, socketVars
<1>3. Preserves(http, http, CallRefs)
  BY DEF Preserves, Conserves, Keeps
<1>4. /\ Refs(f, CallRefs, VisitRefs) /\ Settled(f, CallRefs, NoRequest)
      /\ Preserves(http, f, CallRefs)
  BY <1>1, <1>3, SettledAfterDisconnect
<1> HIDE DEF f
<1>5. VisitRefs[c] > 0
  BY <1>2 DEF VisitRefs, One
<1>6. VisitRefs' = [VisitRefs EXCEPT ![c] = @ - 1]
  <2>1. \A b \in Client : VisitRefs'[b] = IF b = c THEN 0 ELSE VisitRefs[b]
    BY <1>2 DEF VisitRefs, One
  <2>2. /\ VisitRefs \in [Client -> {0, 1}] /\ VisitRefs[c] = 1
        /\ VisitRefs' = [b \in Client |-> VisitRefs'[b]]
    BY <1>2 DEF VisitRefs, One
  <2> HIDE DEF VisitRefs
  <2> QED BY <2>1, <2>2
<1>7. CallRefs' = CallRefs
  BY <1>2, SameRefs, Zenon
<1>8. /\ Refs(http', CallRefs, VisitRefs') /\ http'.request = f.request
      /\ http'.dropped = f.dropped /\ SameClients(f, http')
  BY <1>2, <1>4, <1>5, <1>6, UnrefClientRefs, Zenon
<1>9. Settled(http', CallRefs, NoRequest)
  BY <1>4, <1>8, SettledStays DEF SameClients
<1>10. Preserves(http, http', CallRefs)
  <2>1. Preserves(f, http', CallRefs)
    BY <1>8, SameSessions DEF Preserves, Keeps
  <2> QED BY <1>4, <2>1, PreservesTransitive
<1>11. toVisit' \subseteq Client /\ accepted' \in 0..MaxAccepted
  BY <1>1, <1>2
<1>12. calls' \subseteq calls /\ calls \ calls' = {}
  BY <1>2
<1> QED BY <1>2, <1>7, <1>8, <1>9, <1>10, <1>11, <1>12, LoopStep, Zenon

\* shutdown() takes a reference to every client that is connected.
LEMMA ShutdownInv ==
  ASSUME LoopInv, Shutdown
  PROVE  ServerOK' /\ CallsOK' /\ OwnersOK'
<1> DEFINE active == {c \in Client : http.client[c].connState = "ACTIVE"}
<1>1. /\ Refs(http, CallRefs, VisitRefs) /\ Settled(http, CallRefs, NoRequest) /\ http \in Servers
      /\ accepted \in 0..MaxAccepted
  BY DEF LoopInv, ServerOK, Refs
<1>2. toVisit = {} /\ toVisit' = active /\ UNCHANGED <<session, calls, accepted>>
  BY DEF Shutdown, LoopIsFree, socketVars
<1>3. CallRefs' = CallRefs
  BY <1>2, SameRefs
<1>4. ASSUME NEW c \in Client
      PROVE  VisitRefs[c] = 0 /\ VisitRefs'[c] = One(http.client[c].connState = "ACTIVE")
  BY <1>2 DEF VisitRefs, One
<1>5. VisitRefs' \in [Client -> Nat]
  BY DEF VisitRefs, One
<1>6. \A c \in Client :
        IF http.client[c].connState = "ACTIVE"
        THEN [http.client[c] EXCEPT !.refcount = @ + 1] \in ClientObjects
        ELSE http.client[c] \in ClientObjects
  BY <1>1, ClientFields DEF ClientObjects
<1> DEFINE held == [c \in Client |-> IF http.client[c].connState = "ACTIVE"
                                     THEN [http.client[c] EXCEPT !.refcount = @ + 1]
                                     ELSE http.client[c]]
           over == \A c \in Client : http.client[c].connState = "IN_FREELIST"
           st == IF over THEN "FINISHED_SHUTDOWN" ELSE "SHUTTING_DOWN"
<1>7. /\ http' \in Servers /\ http'.request = http.request /\ http'.dropped = http.dropped
      /\ http'.serverState = st /\ http'.client = held
  <2>1. http' = [http EXCEPT !.serverState = st, !.client = held]
    BY Zenon DEF Shutdown
  <2>2. st \in ServerStates /\ held \in [Client -> ClientObjects]
    BY <1>6 DEF ServerStates
  <2> HIDE DEF st, held
  <2> QED BY <1>1, <2>1, <2>2, Zenon DEF Servers
<1>8. ASSUME NEW c \in Client
      PROVE  /\ http'.client[c].connState = http.client[c].connState
             /\ http'.client[c].currentRequest = http.client[c].currentRequest
             /\ http'.client[c].lingeringRequestCount = http.client[c].lingeringRequestCount
             /\ http'.client[c].refcount =
                  http.client[c].refcount + One(http.client[c].connState = "ACTIVE")
  <2>1. http.client[c] \in ClientObjects /\ http.client[c].refcount \in Nat
    BY <1>1, ClientFields
  <2> QED BY <1>7, <2>1 DEF ClientObjects, One
<1>9. /\ \A r \in Request : Waiting(http', r) <=> Waiting(http, r)
      /\ \A c \in Client : Lingers(http', c) <=> Lingers(http, c)
  BY <1>7 DEF Lingers, Waiting
<1>10. Refs(http', CallRefs, VisitRefs')
  <2>1. ASSUME NEW r \in Request PROVE FreeOK(http', CallRefs, r) /\ UsedOK(http', CallRefs, r)
    <3>1. FreeOK(http, CallRefs, r) /\ UsedOK(http, CallRefs, r)
      BY <1>1, Zenon DEF Refs
    <3>2. UsedOK(http', CallRefs, r)
      <4>1. http'.request = http.request /\ (Waiting(http', r) <=> Waiting(http, r))
        BY <1>7, <1>9
      <4>2. /\ http.request[r].httpState # "IN_FREELIST" => http.request[r].client \in Client
            /\ \A c \in Client :
                 /\ http'.client[c].connState = http.client[c].connState
                 /\ http'.client[c].currentRequest = http.client[c].currentRequest
        BY <1>8, <3>1, ZenonT(30) DEF UsedOK
      <4> HIDE DEF CallRefs
      <4> QED BY <3>1, <4>1, <4>2 DEF UsedOK, One
    <3> QED BY <1>7, <3>1, <3>2 DEF FreeOK
  <2>2. ASSUME NEW c \in Client PROVE ClientOK(http', VisitRefs', c)
    <3>1. ClientOK(http, VisitRefs, c) /\ http.client[c].refcount \in Nat
      BY <1>1, ClientFields DEF Refs
    <3>2. /\ VisitRefs[c] = 0 /\ VisitRefs'[c] = One(http.client[c].connState = "ACTIVE")
          /\ http'.client[c].refcount =
               http.client[c].refcount + One(http.client[c].connState = "ACTIVE")
          /\ One(Lingers(http', c)) = One(Lingers(http, c))
      BY <1>4, <1>8, <1>9, Zenon DEF One
    <3> DEFINE m == http.client[c].refcount
               a == One(http.client[c].connState = "ACTIVE")
               b == One(http.client[c].currentRequest # NoRequest)
               e == One(Lingers(http, c))
    <3>3. http.client[c].connState # "IN_FREELIST" =>
            m + a = a + b + e + VisitRefs'[c] /\ m + a > 0
      <4>1. http.client[c].connState # "IN_FREELIST" => m = a + b + e + VisitRefs[c] /\ m > 0
        BY <3>1, Zenon DEF ClientOK
      <4>2. m \in Nat /\ a \in Nat /\ b \in Nat /\ e \in Nat
        BY <3>1 DEF One
      <4>3. VisitRefs[c] = 0 /\ VisitRefs'[c] = a
        BY <3>2, Zenon
      <4> HIDE DEF m, a, b, e, VisitRefs
      <4> QED BY <4>1, <4>2, <4>3
    <3>4. http.client[c].connState = "IN_FREELIST" => VisitRefs'[c] = 0
      BY <3>2, Zenon DEF One
    <3>5. /\ http'.request = http.request
          /\ http'.client[c].connState = http.client[c].connState
          /\ http'.client[c].currentRequest = http.client[c].currentRequest
          /\ http'.client[c].lingeringRequestCount = http.client[c].lingeringRequestCount
          /\ http'.client[c].refcount = m + a
      BY <1>7, <1>8, <3>2, Zenon
    <3> HIDE DEF VisitRefs
    <3> QED BY <3>1, <3>2, <3>3, <3>4, <3>5, Zenon DEF ClientOK
  <2>3. LingersOnce(http')
    BY <1>1, <1>7, <1>9, Zenon DEF Refs, LingersOnce
  <2>4. Quiet(http')
    BY <1>7, <1>8 DEF Quiet
  <2>5. CallRefs \in [Request -> Nat]
    BY <1>1, Zenon DEF Refs
  <2> QED BY <1>5, <1>7, <2>1, <2>2, <2>3, <2>4, <2>5 DEF Refs
<1>11. Settled(http', CallRefs, NoRequest)
  BY <1>1, <1>7, <1>8, <1>10, SettledStays, SMTT(30)
<1>12. Preserves(http, http', CallRefs)
  BY <1>7, SameSessions, Zenon DEF Preserves, Keeps
<1>13. toVisit' \subseteq Client /\ accepted' \in 0..MaxAccepted
  BY <1>1, <1>2
<1>14. calls' \subseteq calls /\ calls \ calls' = {}
  BY <1>2
<1> QED BY <1>2, <1>3, <1>10, <1>11, <1>12, <1>13, <1>14, LoopStep

-----------------------------------------------------------------------------
(* Requests *)

\* A request is answered without the application.
LEMMA AnswerDirectlyInv ==
  ASSUME LoopInv, NEW r \in Request, NEW keep \in BOOLEAN, NEW flushed \in BOOLEAN,
         AnswerDirectly(r, keep, flushed)
  PROVE  ServerOK' /\ CallsOK' /\ OwnersOK'
<1> DEFINE f == HeadersIn(http, r, keep)
<1>1. /\ Refs(http, CallRefs, VisitRefs) /\ Settled(http, CallRefs, NoRequest) /\ HasFree(http)
      /\ toVisit \subseteq Client /\ accepted \in 0..MaxAccepted
  BY DEF LoopInv, ServerOK
<1>2. /\ http.request[r].httpState = "PARSING_HEADERS" /\ http' = EndRequest(f, r, flushed)
      /\ UNCHANGED <<session, calls, toVisit, accepted>>
  BY Zenon DEF AnswerDirectly, HeadersIn, Serve, socketVars
<1>3. /\ Refs(f, CallRefs, VisitRefs) /\ Settled(f, CallRefs, NoRequest)
      /\ Preserves(http, f, CallRefs) /\ CallRefs[r] = 0 /\ f.request[r].httpState = "COMPLETE"
      /\ \A q \in Request \ {r} : f.request[q] = http.request[q]
  BY <1>1, <1>2, CompleteRefs, SMTT(30)
<1> HIDE DEF f
<1>7. HasFree(f)
  BY <1>1, <1>2, <1>3, StillFree, Zenon
<1>4. /\ Refs(http', CallRefs, VisitRefs) /\ Preserves(f, http', CallRefs)
      /\ Ended(f, http', f.request[r].client, r)
  BY <1>2, <1>3, <1>7, EndRequestRefs, Zenon
<1>5. Settled(http', CallRefs, NoRequest)
  BY <1>3, <1>4, SettledAfterEnd, Zenon
<1>6. Preserves(http, http', CallRefs)
  BY <1>3, <1>4, PreservesTransitive, Zenon
<1> QED BY <1>1, <1>2, <1>4, <1>5, <1>6, SameRefs, LoopStep, Zenon

\* checkoutSession(): the pool is asked for a session, with a callback that is new.
LEMMA BeginRequestInv ==
  ASSUME LoopInv, NEW r \in Request, NEW keep \in BOOLEAN, BeginRequest(r, keep)
  PROVE  ServerOK' /\ CallsOK' /\ OwnersOK'
<1> DEFINE f == HeadersIn(http, r, keep)
           l == Get(r)
<1>1. /\ Refs(http, CallRefs, VisitRefs) /\ Settled(http, CallRefs, NoRequest)
      /\ toVisit \subseteq Client /\ accepted \in 0..MaxAccepted
  BY DEF LoopInv, ServerOK
<1>2. /\ http.request[r].httpState = "PARSING_HEADERS" /\ http' = RefRequest(f, r)
      /\ calls' = calls \cup {l} /\ UNCHANGED <<session, toVisit, accepted>>
  BY Zenon DEF BeginRequest, CheckoutSession, HeadersIn, Serve, socketVars
<1>3. /\ Refs(f, CallRefs, VisitRefs) /\ Settled(f, CallRefs, NoRequest)
      /\ Preserves(http, f, CallRefs) /\ CallRefs[r] = 0 /\ f.request[r].httpState = "COMPLETE"
      /\ f.request[r].client = http.request[r].client
      /\ f.request[r].sessionCheckoutTry = 0 /\ f.request[r].session = NoSession
      /\ f.request[r].client \in Client
  BY <1>1, <1>2, CompleteRefs, SMTT(30)
<1>4. /\ l \in Calls /\ l.req = r /\ l.client = http.request[r].client /\ l.session = NoSession
  BY <1>3, Zenon DEF Get, Call, Calls
<1> HIDE DEF f, l
<1>5. CallRefs' = [CallRefs EXCEPT ![r] = @ + 1]
  BY <1>2, <1>3, <1>4, CallAdded, Zenon
<1>13. f.request[r].httpState \notin {"IN_FREELIST", "PARSING_HEADERS"}
  BY <1>3
<1>6. /\ Refs(http', CallRefs', VisitRefs) /\ Preserves(f, http', CallRefs')
      /\ http'.client = f.client
      /\ \A q \in Request \ {r} : http'.request[q] = f.request[q]
      /\ http'.request[r].httpState = f.request[r].httpState
  BY <1>2, <1>3, <1>5, <1>13, RefRequestRefs, ZenonT(30)
<1>7. VisitRefs' = VisitRefs
  BY <1>2, SameRefs
<1>8. /\ CallRefs'[r] = 1 /\ \A q \in Request \ {r} : CallRefs'[q] = CallRefs[q]
  <2>1. CallRefs \in [Request -> Nat]
    BY <1>1 DEF Refs
  <2> QED BY <1>3, <1>5, <2>1
<1>9. Keeps(f, http', r)
  BY <1>6, <1>8 DEF Preserves
<1>10. ServerOK'
  <2>1. Settled(http', CallRefs', NoRequest)
    BY <1>3, <1>6, <1>8, Zenon DEF Settled, Waiting
  <2> QED BY <1>1, <1>2, <1>6, <1>7, <2>1, Zenon DEF ServerOK
<1>11. CallsOK'
  <2>1. CallOK(http', session', l)
    BY <1>3, <1>4, <1>6, <1>9, HttpServerAssumption DEF CallOK, Keeps
  <2>2. ASSUME NEW k \in calls PROVE k.req # r /\ Keeps(http, http', k.req)
    <3>1. k.req \in Request /\ k.req # r /\ CallRefs[k.req] = 1
      BY <1>3, CallHolds
    <3>2. Keeps(http, f, k.req)
      BY <1>3, <3>1 DEF Preserves
    <3> QED BY <1>6, <3>1, <3>2, Zenon DEF Keeps
  <2>3. calls' \subseteq Calls /\ \A k, m \in calls' : k.req = m.req => k = m
    BY <1>2, <1>4, <2>2 DEF LoopInv, CallsOK
  <2> QED BY <1>2, <1>6, <1>7, <2>1, <2>2, <2>3, CallsStay, Zenon
<1>12. OwnersOK'
  <2>1. Conserves(http, http')
    BY <1>3, <1>6 DEF Preserves, Conserves
  <2>2. \A k \in calls \cup calls' :
          k.session \in Session \cup {NoSession} /\ (k.session # NoSession => k \in calls \cap calls')
    BY <1>2, <1>4, CallHolds, Zenon
  <2> QED BY <1>2, <2>1, <2>2, OwnersStay, Zenon
<1> QED BY <1>10, <1>11, <1>12, Zenon

\* The session is given up, and the response is on its way to the client.
LEMMA AppRespondsInv ==
  ASSUME LoopInv, NEW r \in Request, NEW keep \in BOOLEAN, NEW flushed \in BOOLEAN,
         AppResponds(r, keep, flushed)
  PROVE  ServerOK' /\ CallsOK' /\ OwnersOK'
<1> DEFINE f == DropSession(http, r, keep)
<1>1. /\ Refs(http, CallRefs, VisitRefs) /\ Settled(http, CallRefs, NoRequest) /\ http \in Servers
      /\ CallRefs \in [Request -> Nat] /\ FreeOK(http, CallRefs, r) /\ UsedOK(http, CallRefs, r)
      /\ toVisit \subseteq Client /\ accepted \in 0..MaxAccepted
      /\ HasFree(http)
  BY DEF LoopInv, ServerOK, Refs
<1>2. /\ http.request[r].session # NoSession
      /\ session[http.request[r].session].state = "INITIATED"
      /\ http' = EndRequest(f, r, flushed) /\ UNCHANGED <<session, calls, toVisit, accepted>>
  BY Zenon DEF AppResponds, Serve, socketVars
<1>3. http.request[r].httpState = "COMPLETE"
  BY <1>1, <1>2 DEF FreeOK, UsedOK, FreeRequest
<1>4. CallRefs[r] = 0
  <2>1. ASSUME NEW k \in calls, k.req = r PROVE FALSE
    BY <1>2, <2>1, Zenon DEF LoopInv, CallsOK, CallOK
  <2> QED BY <2>1, Zenon DEF CallRefs, One
<1>5. /\ f \in Servers /\ f.serverState = http.serverState /\ f.client = http.client
      /\ \A q \in Request \ {r} : f.request[q] = http.request[q]
      /\ f.request[r].httpState = "COMPLETE"
      /\ f.request[r].refcount = http.request[r].refcount
      /\ f.request[r].client = http.request[r].client
      /\ f.request[r].sessionCheckoutTry = http.request[r].sessionCheckoutTry
      /\ f.request[r].session = NoSession /\ Conserves(http, f)
  BY <1>1, <1>3, DropSessionIs
<1> HIDE DEF f
<1>6. Refs(f, CallRefs, VisitRefs)
  <2>1. /\ 0 \in Nat /\ http.request[r].httpState # "IN_FREELIST"
        /\ f.request[r].httpState \notin {"IN_FREELIST", "PARSING_HEADERS", "FLUSHING_OUTPUT"}
        /\ ~Waiting(f, r) /\ ~Waiting(http, r)
    BY <1>3, <1>5, Zenon DEF Waiting
  <2>2. f.request[r].refcount = One(~Waiting(http, r)) + 0
    BY <1>1, <1>4, <1>5, <2>1, Zenon DEF UsedOK, One
  <2>3. ASSUME NEW c \in Client
        PROVE  /\ f.client[c].connState = http.client[c].connState
               /\ f.client[c].refcount = http.client[c].refcount
               /\ f.client[c].currentRequest = http.client[c].currentRequest
               /\ f.client[c].lingeringRequestCount >= http.client[c].lingeringRequestCount
    BY <1>1, <1>5, SameClientObjects
  <2>4. Refs(f, [CallRefs EXCEPT ![r] = 0], VisitRefs)
    BY <1>1, <1>5, <2>1, <2>2, <2>3, UpdateRefs, Zenon
  <2>5. [CallRefs EXCEPT ![r] = 0] = CallRefs
    <3> HIDE DEF CallRefs
    <3> QED BY <1>1, <1>4, Zenon
  <2> QED BY <2>4, <2>5, Zenon
<1>7. Settled(f, CallRefs, NoRequest)
  BY <1>1, <1>3, <1>5, Zenon DEF Settled, Waiting
<1>8. Preserves(http, f, CallRefs)
  BY <1>4, <1>5, SMTT(30) DEF Preserves, Keeps
<1>12. HasFree(f)
  BY <1>1, <1>3, <1>5, StillFree, Zenon
<1>9. /\ Refs(http', CallRefs, VisitRefs) /\ Preserves(f, http', CallRefs)
      /\ Ended(f, http', f.request[r].client, r)
  BY <1>2, <1>5, <1>6, <1>7, <1>12, EndRequestRefs
<1>10. Settled(http', CallRefs, NoRequest)
  BY <1>4, <1>7, <1>9, SettledAfterEnd
<1>11. Preserves(http, http', CallRefs)
  BY <1>8, <1>9, PreservesTransitive
<1> QED BY <1>1, <1>2, <1>9, <1>10, <1>11, SameRefs, LoopStep

-----------------------------------------------------------------------------
(* The answer of the pool *)

\* What a step does that takes the session of a callback into the server.
LEMMA OwnersMove ==
  ASSUME LoopInv, NEW k \in calls, k.session # NoSession, OwnedOnce(http'),
         \A s \in Session : Owned(http', s) <=> Owned(http, s) \/ s = k.session,
         calls \ {k} \subseteq calls', \A l \in calls' : l \in calls \ {k} \/ l.session = NoSession,
         \A s \in Session : session'[s].state = "FREE" <=> session[s].state = "FREE"
  PROVE  OwnersOK'
<1>1. OwnersOK /\ k.session \in Session
  BY CallHolds DEF LoopInv
<1>2. \A l \in calls : l.session = k.session => l = k
  BY <1>1 DEF OwnersOK
<1>3. \A l \in calls' : l.session # NoSession => l \in calls /\ l.session # k.session
  BY <1>2
<1>4. \A l, m \in calls' : l.session = m.session /\ l # m => l.session = NoSession
  BY <1>1, <1>3, Zenon DEF OwnersOK
<1>5. \A l \in calls' : l.session # NoSession => ~Owned(http', l.session)
  <2> TAKE l \in calls'
  <2> HAVE l.session # NoSession
  <2>1. l \in calls /\ l.session # k.session /\ l.session \in Session
    BY <1>3, CallHolds
  <2> QED BY <1>1, <2>1 DEF OwnersOK
<1>6. ASSUME NEW s \in Session
      PROVE  session'[s].state # "FREE" <=> Owned(http', s) \/ \E l \in calls' : l.session = s
  <2>1. session[s].state # "FREE" <=> Owned(http, s) \/ \E l \in calls : l.session = s
    BY <1>1 DEF OwnersOK
  <2>2. (\E l \in calls : l.session = s) <=> s = k.session \/ \E l \in calls' : l.session = s
    BY <1>3, SessionsAssumption, Zenon
  <2> QED BY <2>1, <2>2, Zenon
<1> QED BY <1>4, <1>5, <1>6 DEF OwnersOK

\* The request has ended when the answer comes, or when it is to be tried again.
LEMMA StaleInv ==
  ASSUME LoopInv, NEW k \in calls, k.session = NoSession, Answered(k, http),
         calls' = calls \ {k}, UNCHANGED socketVars
  PROVE  ServerOK' /\ CallsOK' /\ OwnersOK'
<1>1. /\ Refs(http, CallRefs, VisitRefs) /\ Settled(http, CallRefs, NoRequest)
      /\ toVisit \subseteq Client /\ accepted \in 0..MaxAccepted
  BY DEF LoopInv, ServerOK
<1>2. http' = UnrefRequest(http, k.req) /\ UNCHANGED <<session, toVisit, accepted>>
  BY DEF Answered, socketVars
<1>3. k.req \in Request /\ CallRefs[k.req] = 1
  BY CallHolds, Zenon
<1>4. Settled(http, CallRefs, k.req)
  BY <1>1, HttpServerAssumption, Zenon DEF Settled
<1>5. CallRefs' = [CallRefs EXCEPT ![k.req] = @ - 1] /\ VisitRefs' = VisitRefs
  BY <1>2, CallGone, SameRefs, Zenon
<1> HIDE DEF CallRefs
<1>6. /\ Refs(http', CallRefs', VisitRefs') /\ Preserves(http, http', CallRefs')
      /\ Settled(http', CallRefs', NoRequest)
  BY <1>1, <1>2, <1>3, <1>4, <1>5, AnsweredRefs, Zenon
<1>7. calls' \subseteq calls /\ \A l \in calls \ calls' : l.session = NoSession
  OBVIOUS
<1> QED BY <1>1, <1>2, <1>6, <1>7, LoopStep, Zenon

\* The other callbacks stay as they are when one is answered.
LEMMA OthersStay ==
  ASSUME LoopInv, NEW k \in calls, calls' = calls \ {k},
         Refs(http', CallRefs', VisitRefs'),
         \A q \in Request \ {k.req} : CallRefs[q] > 0 => Keeps(http, http', q),
         \A r \in Request : LET s == http.request[r].session
                            IN s # NoSession => session'[s] = session[s]
  PROVE  CallsOK'
<1>1. ASSUME NEW l \in calls' PROVE l \in calls /\ Keeps(http, http', l.req)
  <2>1. l \in calls /\ l # k
    OBVIOUS
  <2>2. l.req \in Request /\ CallRefs[l.req] = 1 /\ l.req # k.req
    BY <2>1, CallHolds, Zenon DEF LoopInv, CallsOK
  <2> QED BY <2>1, <2>2
<1>2. calls' \subseteq Calls /\ \A l, m \in calls' : l.req = m.req => l = m
  BY DEF LoopInv, CallsOK
<1> QED BY <1>1, <1>2, CallsStay, Zenon

\* The session of an answer that comes too late is given up.
LEMMA StaleAnswerInv ==
  ASSUME LoopInv, NEW k \in calls, StaleAnswer(k)
  PROVE  ServerOK' /\ CallsOK' /\ OwnersOK'
<1>1. CASE k.session = NoSession
  BY <1>1, StaleInv DEF StaleAnswer
<1>2. CASE k.session # NoSession
  <2> DEFINE x == [session |-> k.session, keep |-> FALSE]
             f == [http EXCEPT !.dropped = Append(@, x)]
  <2>1. /\ Refs(http, CallRefs, VisitRefs) /\ Settled(http, CallRefs, NoRequest) /\ http \in Servers
        /\ toVisit \subseteq Client /\ accepted \in 0..MaxAccepted
    BY DEF LoopInv, ServerOK, Refs
  <2>2. /\ http.dropped = <<>> /\ http' = UnrefRequest(f, k.req) /\ calls' = calls \ {k}
        /\ UNCHANGED <<session, toVisit, accepted>>
    BY <1>2 DEF StaleAnswer, Answered, socketVars
  <2>3. k.req \in Request /\ CallRefs[k.req] = 1 /\ k.session \in Session
    BY <1>2, CallHolds
  <2>4. x \in [session : Session, keep : BOOLEAN]
    BY <2>3
  <2>5. /\ f \in Servers /\ f.client = http.client /\ f.request = http.request
        /\ f.serverState = http.serverState /\ f.dropped = <<x>>
    <3>2. /\ Append(http.dropped, x) = <<x>>
          /\ Append(http.dropped, x) \in Seq([session : Session, keep : BOOLEAN])
      <4> HIDE DEF x
      <4> QED BY <2>2, <2>4, AppendToEmpty
    <3> HIDE DEF x
    <3> QED BY <2>1, <3>2, Zenon DEF Servers
  <2>6. x.session = k.session
    OBVIOUS
  <2> HIDE DEF f, x
  <2>7. Refs(f, CallRefs, VisitRefs) /\ Settled(f, CallRefs, NoRequest)
    BY <2>1, <2>5, SameObjects, Zenon
  <2>8. Settled(f, CallRefs, k.req)
    BY <2>7, HttpServerAssumption DEF Settled
  <2>9. CallRefs' = [CallRefs EXCEPT ![k.req] = @ - 1] /\ VisitRefs' = VisitRefs
    BY <2>2, CallGone, SameRefs
  <2>10. /\ Refs(http', CallRefs', VisitRefs') /\ Preserves(f, http', CallRefs')
         /\ Settled(http', CallRefs', NoRequest)
         /\ \A q \in Request \ {k.req} : http'.request[q] = http.request[q]
    <3> DEFINE g == UnrefRequest(f, k.req)
               V == [CallRefs EXCEPT ![k.req] = @ - 1]
    <3> HIDE DEF CallRefs
    <3>1. /\ Refs(g, V, VisitRefs) /\ Preserves(f, g, V) /\ Settled(g, V, NoRequest)
          /\ \A q \in Request \ {k.req} : g.request[q] = f.request[q]
      BY <2>3, <2>7, <2>8, AnsweredRefs
    <3>2. http' = g /\ CallRefs' = V
      BY <2>2, <2>9, Zenon
    <3> HIDE DEF g, V
    <3> QED BY <2>5, <2>9, <3>1, <3>2, Zenon
  <2>11. ServerOK'
    BY <2>1, <2>2, <2>10, Zenon DEF ServerOK
  <2>12. CallsOK'
    BY <2>2, <2>10, OthersStay DEF Keeps
  <2>13. OwnersOK /\ ~Owned(http, k.session)
    BY <1>2, Zenon DEF LoopInv, OwnersOK
  <2>14. OwnedOnce(f) /\ \A s \in Session : Owned(f, s) <=> Owned(http, s) \/ s = k.session
    <3>1. /\ Len(f.dropped) = 1 /\ f.dropped[1].session = k.session /\ Len(http.dropped) = 0
      BY <2>2, <2>5, <2>6
    <3>2. /\ 1..Len(f.dropped) = {1} /\ 1..Len(http.dropped) = {}
      BY <3>1
    <3>3. f.request = http.request /\ OwnedOnce(http)
      BY <2>5, <2>13, Zenon DEF OwnersOK
    <3>4. \A r \in Request : f.request[r].session # f.dropped[1].session
      BY <2>13, <3>1, <3>3, Zenon DEF Owned
    <3>5. \A r, q \in Request :
            f.request[r].session = f.request[q].session /\ r # q => f.request[r].session = NoSession
      BY <3>3, Zenon DEF OwnedOnce
    <3>6. OwnedOnce(f)
      BY <3>2, <3>4, <3>5, Zenon DEF OwnedOnce
    <3>7. ASSUME NEW s \in Session PROVE Owned(f, s) <=> Owned(http, s) \/ s = k.session
      <4>1. Owned(f, s) <=> (\E r \in Request : f.request[r].session = s) \/ f.dropped[1].session = s
        BY <3>2, Zenon DEF Owned
      <4>2. Owned(http, s) <=> \E r \in Request : http.request[r].session = s
        BY <3>2, Zenon DEF Owned
      <4> QED BY <3>1, <3>3, <4>1, <4>2, Zenon
    <3> QED BY <3>6, <3>7, Zenon
  <2>15. OwnersOK'
    <3>1. OwnedOnce(http') /\ \A s \in Session : Owned(http', s) <=> Owned(f, s)
      BY <2>10, <2>14, Zenon DEF Preserves, Conserves
    <3> QED BY <1>2, <2>2, <2>14, <3>1, OwnersMove, Zenon
  <2> QED BY <2>11, <2>12, <2>15, Zenon
<1> QED BY <1>1, <1>2

\* A request that is still being processed when its answer comes.
LEMMA StillComplete ==
  ASSUME LoopInv, NEW k \in calls, ~HttpRequestEnded(http, k.req)
  PROVE  /\ http.request[k.req].httpState = "COMPLETE" /\ http.request[k.req].client = k.client
         /\ http.request[k.req].sessionCheckoutTry < MaxTry
<1>1. /\ k.req \in Request /\ http.request[k.req].httpState # "PARSING_HEADERS"
      /\ http.request[k.req].httpState \in HttpStates
  BY CallHolds, RequestFields, Zenon DEF LoopInv, ServerOK, Refs
<1>2. http.request[k.req].httpState = "COMPLETE"
  BY <1>1 DEF HttpRequestEnded, HttpStates
<1> QED BY <1>2, Zenon DEF LoopInv, CallsOK, CallOK

LEMMA ErrorAnswerInv ==
  ASSUME LoopInv, NEW k \in calls, NEW flushed \in BOOLEAN, ErrorAnswer(k, flushed)
  PROVE  ServerOK' /\ CallsOK' /\ OwnersOK'
<1> DEFINE f == EndRequest(http, k.req, flushed)
           g == UnrefRequest(f, k.req)
           V == [CallRefs EXCEPT ![k.req] = @ - 1]
<1>1. /\ Refs(http, CallRefs, VisitRefs) /\ Settled(http, CallRefs, NoRequest)
      /\ CallRefs \in [Request -> Nat]
      /\ HasFree(http) /\ toVisit \subseteq Client /\ accepted \in 0..MaxAccepted
  BY DEF LoopInv, ServerOK, Refs
<1>2. /\ ~HttpRequestEnded(http, k.req) /\ k.kind = "error" /\ http' = g /\ calls' = calls \ {k}
      /\ UNCHANGED <<session, toVisit, accepted>>
  BY DEF ErrorAnswer, Answered, socketVars
<1>3. k.req \in Request /\ CallRefs[k.req] = 1 /\ k.session = NoSession
  BY <1>2, CallHolds DEF Calls
<1>4. CallRefs' = V /\ VisitRefs' = VisitRefs
  BY <1>2, CallGone, SameRefs, Zenon
<1> HIDE DEF CallRefs
<1>5. \A q \in Request : V[q] > 0 => CallRefs[q] > 0
  BY <1>1, <1>3, SMTT(30)
<1>6. http.request[k.req].httpState = "COMPLETE"
  BY <1>2, StillComplete, Zenon
<1>7. /\ Refs(f, CallRefs, VisitRefs) /\ Preserves(http, f, CallRefs)
      /\ Ended(http, f, http.request[k.req].client, k.req)
  BY <1>1, <1>3, <1>6, EndRequestRefs, Zenon
<1> HIDE DEF f
<1>8. Settled(f, CallRefs, k.req)
  BY <1>1, <1>3, <1>7, SettledAfterEnd, Zenon
<1>9. Refs(g, V, VisitRefs) /\ Preserves(f, g, V) /\ Settled(g, V, NoRequest)
  BY <1>3, <1>7, <1>8, AnsweredRefs, Zenon
<1> HIDE DEF g, V
<1>10. Preserves(http, g, V)
  BY <1>5, <1>7, <1>9, PreservesTransitive, Zenon
<1>11. calls' \subseteq calls /\ \A l \in calls \ calls' : l.session = NoSession
  BY <1>2, <1>3
<1> QED BY <1>1, <1>2, <1>4, <1>9, <1>10, <1>11, LoopStep, Zenon

\* The session of the answer is with the request, one attempt is counted.
LEMMA InstallIs ==
  ASSUME LoopInv, NEW k \in calls, ~HttpRequestEnded(http, k.req), k.kind = "session"
  PROVE  LET g == Install(k)
             r == k.req
         IN /\ r \in Request /\ CallRefs[r] = 1 /\ k.session \in Session
            /\ k.session # NoSession /\ ~Owned(http, k.session)
            /\ Refs(g, CallRefs, VisitRefs) /\ Settled(g, CallRefs, NoRequest)
            /\ \A q \in Request \ {r} : g.request[q] = http.request[q]
            /\ g.request[r].httpState = "COMPLETE" /\ g.request[r].client = k.client
            /\ g.request[r].session = k.session
            /\ g.request[r].sessionCheckoutTry = http.request[r].sessionCheckoutTry + 1
            /\ OwnedOnce(g)
            /\ \A s \in Session : Owned(g, s) <=> Owned(http, s) \/ s = k.session
<1> DEFINE r == k.req
           s == k.session
           f == DropSession(http, r, FALSE)
           g == Install(k)
           b == [f.request[r] EXCEPT !.session = s]
           d == [b EXCEPT !.sessionCheckoutTry = @ + 1]
<1>1. /\ Refs(http, CallRefs, VisitRefs) /\ Settled(http, CallRefs, NoRequest) /\ http \in Servers
      /\ CallRefs \in [Request -> Nat]
  BY DEF LoopInv, ServerOK, Refs
<1>2. r \in Request /\ CallRefs[r] = 1 /\ s \in Session /\ s # NoSession
  BY CallHolds, SessionsAssumption, Zenon DEF Calls
<1>3. OwnersOK /\ ~Owned(http, s)
  BY <1>2, Zenon DEF LoopInv, OwnersOK
<1>4. /\ http.request[r].httpState = "COMPLETE" /\ http.request[r].client = k.client
      /\ http.request[r].sessionCheckoutTry < MaxTry
      /\ http.request[r].sessionCheckoutTry \in 0..MaxTry
  BY <1>1, <1>2, StillComplete, RequestFields, Zenon
<1>5. /\ f \in Servers /\ f.serverState = http.serverState /\ f.client = http.client
      /\ \A q \in Request \ {r} : f.request[q] = http.request[q]
      /\ f.request[r].httpState = "COMPLETE"
      /\ f.request[r].refcount = http.request[r].refcount
      /\ f.request[r].client = http.request[r].client
      /\ f.request[r].sessionCheckoutTry = http.request[r].sessionCheckoutTry
      /\ f.request[r].session = NoSession /\ Conserves(http, f)
  BY <1>1, <1>2, <1>4, DropSessionIs, Zenon
<1>6. g = [f EXCEPT !.request[r].session = s, !.request[r].sessionCheckoutTry = @ + 1]
  BY DEF Install
<1> HIDE DEF f, r, s, CallRefs
<1>7. f.request[r] \in RequestObjects
  BY <1>2, <1>5, RequestFields
<1>8. /\ b \in RequestObjects /\ b.httpState = "COMPLETE"
      /\ b.refcount = http.request[r].refcount /\ b.client = http.request[r].client
      /\ b.session = s /\ b.sessionCheckoutTry = http.request[r].sessionCheckoutTry
  BY <1>2, <1>5, <1>7 DEF RequestObjects
<1>9. g = WithRequest(f, r, d)
  BY <1>2, <1>5, <1>6, <1>7, ZenonT(30) DEF WithRequest, Servers, RequestObjects
<1> HIDE DEF b
<1>10. /\ d \in RequestObjects /\ d.httpState = "COMPLETE"
       /\ d.refcount = http.request[r].refcount /\ d.client = http.request[r].client
       /\ d.session = s /\ d.sessionCheckoutTry = http.request[r].sessionCheckoutTry + 1
  BY <1>4, <1>8, HttpServerAssumption DEF RequestObjects
<1> HIDE DEF d, g
<1>11. /\ g \in Servers /\ g.serverState = http.serverState /\ g.dropped = f.dropped
       /\ g.client = http.client /\ g.request[r] = d
       /\ \A q \in Request \ {r} : g.request[q] = f.request[q] /\ g.request[q] = http.request[q]
  BY <1>2, <1>5, <1>9, <1>10, WithRequestIs
<1>12. Refs(g, CallRefs, VisitRefs)
  <2>1. /\ 1 \in Nat /\ http.request[r].httpState # "IN_FREELIST"
        /\ g.request[r].httpState \notin {"IN_FREELIST", "PARSING_HEADERS", "FLUSHING_OUTPUT"}
        /\ ~Waiting(g, r) /\ ~Waiting(http, r) /\ g.request[r].httpState = "COMPLETE"
        /\ g.request[r].client = http.request[r].client
    BY <1>4, <1>10, <1>11, Zenon DEF Waiting
  <2>2. g.request[r].refcount = One(~Waiting(http, r)) + 1
    <3>1. UsedOK(http, CallRefs, r)
      BY <1>1, <1>2, Zenon DEF Refs
    <3> QED BY <1>2, <1>10, <1>11, <2>1, <3>1, Zenon DEF UsedOK, One
  <2>3. ASSUME NEW c \in Client
        PROVE  /\ g.client[c].connState = http.client[c].connState
               /\ g.client[c].refcount = http.client[c].refcount
               /\ g.client[c].currentRequest = http.client[c].currentRequest
               /\ g.client[c].lingeringRequestCount >= http.client[c].lingeringRequestCount
    BY <1>1, <1>11, SameClientObjects, Zenon
  <2>4. Refs(g, [CallRefs EXCEPT ![r] = 1], VisitRefs)
    BY <1>1, <1>2, <1>11, <2>1, <2>2, <2>3, UpdateRefs, Zenon
  <2>5. [CallRefs EXCEPT ![r] = 1] = CallRefs
    BY <1>1, <1>2, Zenon
  <2> QED BY <2>4, <2>5, Zenon
<1>13. Settled(g, CallRefs, NoRequest)
  BY <1>1, <1>10, <1>11, Zenon DEF Settled, Waiting
<1>14. OwnedOnce(g) /\ \A t \in Session : Owned(g, t) <=> Owned(http, t) \/ t = s
  <2>1. OwnedOnce(f) /\ \A t \in Session : Owned(f, t) <=> Owned(http, t)
    BY <1>3, <1>5, Zenon DEF Conserves, OwnersOK
  <2>2. ~Owned(f, s)
    BY <1>2, <1>3, <2>1, Zenon
  <2>3. g.request[r].session = s
    BY <1>10, <1>11
  <2>4. g.dropped = f.dropped /\ \A q \in Request \ {r} : g.request[q] = f.request[q]
    BY <1>11, Zenon
  <2>5. r \in Request /\ s \in Session /\ f.request[r].session = NoSession /\ OwnedOnce(f)
    BY <1>2, <1>5, <2>1, Zenon
  <2>6. OwnedOnce(g) /\ \A t \in Session : Owned(g, t) <=> Owned(f, t) \/ t = s
    BY <2>2, <2>3, <2>4, <2>5, TakesSession, SMTT(30)
  <2> QED BY <2>1, <2>6, Zenon
<1> QED BY <1>2, <1>3, <1>4, <1>10, <1>11, <1>12, <1>13, <1>14, Zenon DEF r, s, g

\* The states of sessions that requests have are not touched by a step about session s.
LEMMA OtherSessions ==
  ASSUME NEW s \in Session, \A r \in Request : http.request[r].session # s, http \in Servers,
         \A t \in Session \ {s} : session'[t] = session[t]
  PROVE  \A r \in Request : LET t == http.request[r].session
                            IN t # NoSession => session'[t] = session[t]
<1> TAKE r \in Request
<1>1. http.request[r].session \in Session \cup {NoSession} /\ http.request[r].session # s
  BY RequestFields
<1> QED BY <1>1

\* The session is initiated, and the callback is done.
LEMMA SessionAnswerInv ==
  ASSUME LoopInv, NEW k \in calls, SessionAnswer(k)
  PROVE  ServerOK' /\ CallsOK' /\ OwnersOK'
<1> DEFINE f == Install(k)
           g == UnrefRequest(f, k.req)
           V == [CallRefs EXCEPT ![k.req] = @ - 1]
<1>1. /\ SocketTypeOK /\ http \in Servers /\ toVisit \subseteq Client /\ accepted \in 0..MaxAccepted
  BY DEF LoopInv, ServerOK, Refs
<1>2. /\ ~HttpRequestEnded(http, k.req) /\ k.kind = "session" /\ Initiate(k.session)
      /\ http' = g /\ calls' = calls \ {k} /\ UNCHANGED <<toVisit, accepted>>
  <2>1. /\ ~HttpRequestEnded(http, k.req) /\ k.kind = "session" /\ Initiate(k.session)
        /\ Answered(k, f) /\ calls' = calls \ {k}
    BY ZenonT(30) DEF SessionAnswer
  <2> HIDE DEF f
  <2> QED BY <2>1, Zenon DEF Answered
<1>3. /\ k.req \in Request /\ CallRefs[k.req] = 1 /\ k.session \in Session
      /\ k.session # NoSession /\ ~Owned(http, k.session)
      /\ Refs(f, CallRefs, VisitRefs) /\ Settled(f, CallRefs, NoRequest)
      /\ \A q \in Request \ {k.req} : f.request[q] = http.request[q]
      /\ OwnedOnce(f) /\ \A s \in Session : Owned(f, s) <=> Owned(http, s) \/ s = k.session
  BY <1>2, InstallIs, Zenon
<1>4. CallRefs' = V /\ VisitRefs' = VisitRefs
  BY <1>2, CallGone, SameRefs, Zenon
<1> HIDE DEF f, CallRefs
<1>5. Settled(f, CallRefs, k.req)
  BY <1>3, HttpServerAssumption, Zenon DEF Settled
<1>6. /\ Refs(g, V, VisitRefs) /\ Preserves(f, g, V) /\ Settled(g, V, NoRequest)
      /\ \A q \in Request \ {k.req} : g.request[q] = f.request[q]
  BY <1>3, <1>5, AnsweredRefs, Zenon
<1> HIDE DEF g, V
<1>7. ServerOK'
  BY <1>1, <1>2, <1>4, <1>6, Zenon DEF ServerOK
<1>8. /\ \A s \in Session \ {k.session} : session'[s] = session[s]
      /\ session[k.session].state = "NEW" /\ session'[k.session].state = "INITIATED"
  BY <1>1, <1>2, <1>3, SMTT(30) DEF Initiate, SocketTypeOK
<1>9. CallsOK'
  <2>1. \A q \in Request \ {k.req} : Keeps(http, http', q)
    BY <1>2, <1>3, <1>6, Zenon DEF Keeps
  <2>2. \A r \in Request : LET t == http.request[r].session
                           IN t # NoSession => session'[t] = session[t]
    BY <1>1, <1>3, <1>8, OtherSessions, Zenon DEF Owned
  <2> QED BY <1>2, <1>4, <1>6, <2>1, <2>2, OthersStay, Zenon
<1>10. OwnersOK'
  <2>1. OwnedOnce(http') /\ \A s \in Session : Owned(http', s) <=> Owned(f, s)
    BY <1>2, <1>3, <1>6, Zenon DEF Preserves, Conserves
  <2>2. \A s \in Session : session'[s].state = "FREE" <=> session[s].state = "FREE"
    BY <1>8
  <2> QED BY <1>2, <1>3, <2>1, <2>2, OwnersMove, Zenon
<1> QED BY <1>7, <1>9, <1>10, Zenon

-----------------------------------------------------------------------------
(* Another attempt, when a session cannot be initiated *)

\* A callback takes the place of another one.
LEMMA SuccessorOK ==
  ASSUME LoopInv, NEW k \in calls, NEW l \in Calls, l.req = k.req,
         calls' = (calls \ {k}) \cup {l}, Refs(http', CallRefs', VisitRefs'),
         CallOK(http', session', l),
         \A q \in Request \ {k.req} : CallRefs[q] > 0 => Keeps(http, http', q),
         \A r \in Request : LET s == http.request[r].session
                            IN s # NoSession => session'[s] = session[s]
  PROVE  CallsOK'
<1>1. ASSUME NEW m \in calls \ {k} PROVE m.req # k.req /\ Keeps(http, http', m.req)
  <2>1. m.req \in Request /\ CallRefs[m.req] = 1 /\ m.req # k.req
    BY CallHolds, Zenon DEF LoopInv, CallsOK
  <2> QED BY <2>1, SMTT(30)
<1>2. calls' \subseteq Calls /\ \A j, m \in calls' : j.req = m.req => j = m
  BY <1>1, Zenon DEF LoopInv, CallsOK
<1> QED BY <1>1, <1>2, CallsStay, Zenon

\* initiateSession() fails for the last time: the client is disconnected.
LEMMA GiveUpInv ==
  ASSUME LoopInv, NEW k \in calls, ~HttpRequestEnded(http, k.req), k.kind = "session",
         Answered(k, DisconnectClient(Install(k), k.client)), calls' = calls \ {k},
         UNCHANGED session
  PROVE  ServerOK' /\ CallsOK' /\ OwnersOK'
<1> DEFINE f == Install(k)
           e == DisconnectClient(f, k.client)
           g == UnrefRequest(e, k.req)
           V == [CallRefs EXCEPT ![k.req] = @ - 1]
<1>1. CallRefs \in [Request -> Nat] /\ toVisit \subseteq Client /\ accepted \in 0..MaxAccepted
  BY Zenon DEF LoopInv, ServerOK, Refs
<1>2. http' = g /\ UNCHANGED <<toVisit, accepted>>
  BY Zenon DEF Answered
<1>3. /\ k.req \in Request /\ CallRefs[k.req] = 1 /\ k.session # NoSession /\ k.client \in Client
      /\ Refs(f, CallRefs, VisitRefs) /\ Settled(f, CallRefs, NoRequest)
      /\ \A q \in Request \ {k.req} : f.request[q] = http.request[q]
      /\ OwnedOnce(f) /\ \A s \in Session : Owned(f, s) <=> Owned(http, s) \/ s = k.session
  BY InstallIs, CallHolds, Zenon
<1>4. CallRefs' = V /\ VisitRefs' = VisitRefs
  BY <1>2, CallGone, SameRefs, Zenon
<1> HIDE DEF f, CallRefs
<1>5. Refs(e, CallRefs, VisitRefs) /\ Settled(e, CallRefs, NoRequest) /\ Preserves(f, e, CallRefs)
  BY <1>3, SettledAfterDisconnect, Zenon
<1> HIDE DEF e
<1>6. Settled(e, CallRefs, k.req)
  BY <1>5, HttpServerAssumption, Zenon DEF Settled
<1>7. /\ Refs(g, V, VisitRefs) /\ Preserves(e, g, V) /\ Settled(g, V, NoRequest)
      /\ \A q \in Request \ {k.req} : g.request[q] = e.request[q]
  BY <1>3, <1>5, <1>6, AnsweredRefs, Zenon
<1> HIDE DEF g, V
<1>8. ServerOK'
  BY <1>1, <1>2, <1>4, <1>7, Zenon DEF ServerOK
<1>9. CallsOK'
  <2>1. ASSUME NEW q \in Request \ {k.req}, CallRefs[q] > 0 PROVE Keeps(http, http', q)
    <3>1. Keeps(f, e, q)
      BY <1>5, <2>1, Zenon DEF Preserves
    <3> QED BY <1>2, <1>3, <1>7, <3>1, Zenon DEF Keeps
  <2> QED BY <1>2, <1>4, <1>7, <2>1, OthersStay, Zenon
<1>10. OwnersOK'
  <2>1. OwnedOnce(http') /\ \A s \in Session : Owned(http', s) <=> Owned(f, s)
    BY <1>2, <1>3, <1>5, <1>7, Zenon DEF Preserves, Conserves
  <2> QED BY <1>3, <2>1, OwnersMove, Zenon
<1> QED BY <1>8, <1>9, <1>10, Zenon

\* initiateSession() fails, and is to be tried again with another session.
LEMMA RetryInv ==
  ASSUME LoopInv, NEW k \in calls, ~HttpRequestEnded(http, k.req), k.kind = "session",
         session[k.session].state = "NEW", RetriesLeft(k.req),
         Answered(k, RefRequest(Install(k), k.req)), UNCHANGED session,
         calls' = (calls \ {k}) \cup {Call("retry", k.req, k.client, NoSession)}
  PROVE  ServerOK' /\ CallsOK' /\ OwnersOK'
<1> DEFINE f == Install(k)
           g == UnrefRequest(RefRequest(f, k.req), k.req)
           l == Call("retry", k.req, k.client, NoSession)
<1>1. toVisit \subseteq Client /\ accepted \in 0..MaxAccepted
  BY Zenon DEF LoopInv, ServerOK
<1>2. http' = g /\ UNCHANGED <<toVisit, accepted>>
  BY Zenon DEF Answered
<1>3. /\ k.req \in Request /\ CallRefs[k.req] = 1 /\ k.session # NoSession /\ k.client \in Client
      /\ Refs(f, CallRefs, VisitRefs) /\ Settled(f, CallRefs, NoRequest)
      /\ \A q \in Request \ {k.req} : f.request[q] = http.request[q]
      /\ f.request[k.req].httpState = "COMPLETE" /\ f.request[k.req].client = k.client
      /\ f.request[k.req].session = k.session
      /\ f.request[k.req].sessionCheckoutTry = http.request[k.req].sessionCheckoutTry + 1
      /\ OwnedOnce(f) /\ \A s \in Session : Owned(f, s) <=> Owned(http, s) \/ s = k.session
  BY InstallIs, CallHolds, Zenon
<1>4. l \in Calls /\ l.req = k.req /\ l.client = k.client /\ l.session = NoSession
  BY <1>3, Zenon DEF Call, Calls
<1> HIDE DEF f, l
<1>5. CallRefs' = CallRefs /\ VisitRefs' = VisitRefs
  BY <1>2, <1>4, CallReplaced, SameRefs, Zenon DEF l
<1>6. /\ Refs(g, CallRefs, VisitRefs) /\ Preserves(f, g, CallRefs)
      /\ Settled(g, CallRefs, NoRequest) /\ g.request[k.req].httpState = "COMPLETE"
      /\ \A q \in Request \ {k.req} : g.request[q] = f.request[q]
  BY <1>3, PassOnRefs, Zenon
<1> HIDE DEF g
<1>7. ServerOK'
  BY <1>1, <1>2, <1>5, <1>6, Zenon DEF ServerOK
<1>8. CallsOK'
  <2>1. Keeps(f, g, k.req)
    BY <1>3, <1>6, CalledKept, Zenon
  <2>2. CallOK(http', session', l)
    BY <1>2, <1>3, <1>4, <1>6, <2>1, Zenon DEF CallOK, Keeps, RetriesLeft
  <2>3. \A q \in Request \ {k.req} : Keeps(http, http', q)
    BY <1>2, <1>3, <1>6, Zenon DEF Keeps
  <2> QED BY <1>2, <1>4, <1>5, <1>6, <2>2, <2>3, SuccessorOK, ZenonT(30) DEF l
<1>9. OwnersOK'
  <2>1. OwnedOnce(http') /\ \A s \in Session : Owned(http', s) <=> Owned(f, s)
    BY <1>2, <1>3, <1>6, Zenon DEF Preserves, Conserves
  <2>2. calls \ {k} \subseteq calls' /\ \A m \in calls' : m \in calls \ {k} \/ m.session = NoSession
    BY <1>4, Zenon DEF l
  <2> QED BY <1>3, <2>1, <2>2, OwnersMove, Zenon
<1> QED BY <1>7, <1>8, <1>9, Zenon

LEMMA InitiateSessionFailsInv ==
  ASSUME LoopInv, NEW k \in calls, InitiateSessionFails(k)
  PROVE  ServerOK' /\ CallsOK' /\ OwnersOK'
<1>1. /\ ~HttpRequestEnded(http, k.req) /\ k.kind = "session"
      /\ session[k.session].state = "NEW" /\ UNCHANGED session
  BY Zenon DEF InitiateSessionFails, InitiateFails
<1>2. CASE RetriesLeft(k.req)
  BY <1>1, <1>2, RetryInv, Zenon DEF InitiateSessionFails
<1>3. CASE ~RetriesLeft(k.req)
  BY <1>1, <1>3, GiveUpInv, Zenon DEF InitiateSessionFails
<1> QED BY <1>2, <1>3, Zenon

\* checkoutSessionLater(): the pool is asked again, unless the request has ended meanwhile.
LEMMA CheckoutSessionLaterInv ==
  ASSUME LoopInv, NEW k \in calls, k.kind = "retry", CheckoutSessionLater(k)
  PROVE  ServerOK' /\ CallsOK' /\ OwnersOK'
<1>1. k.session = NoSession
  BY CallHolds, SessionsAssumption, Zenon DEF Calls
<1>2. CASE HttpRequestEnded(http, k.req)
  BY <1>1, <1>2, StaleInv, Zenon DEF CheckoutSessionLater
<1>3. CASE ~HttpRequestEnded(http, k.req)
  <2> DEFINE g == UnrefRequest(RefRequest(http, k.req), k.req)
             l == Get(k.req)
  <2>1. /\ Refs(http, CallRefs, VisitRefs) /\ Settled(http, CallRefs, NoRequest)
        /\ toVisit \subseteq Client /\ accepted \in 0..MaxAccepted
    BY Zenon DEF LoopInv, ServerOK
  <2>2. /\ http' = g /\ calls' = (calls \ {k}) \cup {l} /\ UNCHANGED <<session, toVisit, accepted>>
    BY <1>3, Zenon DEF CheckoutSessionLater, CheckoutSession, Answered, socketVars
  <2>3. k.req \in Request /\ k.client \in Client /\ CallRefs[k.req] = 1
    BY CallHolds, Zenon
  <2>4. /\ http.request[k.req].httpState = "COMPLETE" /\ http.request[k.req].client = k.client
    BY <1>3, StillComplete, Zenon
  <2>5. l \in Calls /\ l.req = k.req /\ l.client = k.client /\ l.session = NoSession
    BY <2>3, <2>4, Zenon DEF Get, Call, Calls
  <2> HIDE DEF l
  <2>6. CallRefs' = CallRefs /\ VisitRefs' = VisitRefs
    BY <2>2, <2>5, CallReplaced, SameRefs, Zenon
  <2>7. /\ Refs(g, CallRefs, VisitRefs) /\ Preserves(http, g, CallRefs)
        /\ Settled(g, CallRefs, NoRequest) /\ g.request[k.req].httpState = "COMPLETE"
        /\ \A q \in Request \ {k.req} : g.request[q] = http.request[q]
    BY <2>1, <2>3, <2>4, PassOnRefs, Zenon
  <2> HIDE DEF g
  <2>8. ServerOK'
    BY <2>1, <2>2, <2>6, <2>7, Zenon DEF ServerOK
  <2>9. CallsOK'
    <3>1. Keeps(http, g, k.req)
      BY <2>3, <2>7, CalledKept, Zenon
    <3>2. CallOK(http, session, k)
      BY Zenon DEF LoopInv, CallsOK
    <3>3. CallOK(http', session', l)
      BY <2>2, <2>5, <2>7, <3>1, <3>2, Zenon DEF CallOK, Keeps
    <3>4. \A q \in Request \ {k.req} : Keeps(http, http', q)
      BY <2>2, <2>7, Zenon DEF Keeps
    <3> QED BY <2>2, <2>5, <2>6, <2>7, <3>3, <3>4, SuccessorOK, Zenon
  <2>10. OwnersOK'
    <3>1. \A m \in calls \cup calls' :
            m.session \in Session \cup {NoSession} /\ (m.session # NoSession => m \in calls \cap calls')
      BY <1>1, <2>2, <2>5, CallHolds, Zenon
    <3> QED BY <2>2, <2>7, <3>1, OwnersStay, Zenon DEF Preserves
  <2> QED BY <2>8, <2>9, <2>10, Zenon
<1> QED BY <1>2, <1>3, Zenon

LEMMA HandleInv ==
  ASSUME LoopInv, NEW k \in calls, Handle(k)
  PROVE  ServerOK' /\ CallsOK' /\ OwnersOK'
<1>1. CASE StaleAnswer(k)
  BY <1>1, StaleAnswerInv, Zenon
<1>2. CASE SessionAnswer(k)
  BY <1>2, SessionAnswerInv, Zenon
<1>3. CASE InitiateSessionFails(k)
  BY <1>3, InitiateSessionFailsInv
<1>4. ASSUME NEW flushed \in BOOLEAN, ErrorAnswer(k, flushed)
      PROVE  ServerOK' /\ CallsOK' /\ OwnersOK'
  BY <1>4, ErrorAnswerInv, Zenon
<1>5. CASE k.kind = "retry" /\ CheckoutSessionLater(k)
  BY <1>5, CheckoutSessionLaterInv, Zenon
<1> QED BY <1>1, <1>2, <1>3, <1>4, <1>5, Zenon DEF Handle
=============================================================================
