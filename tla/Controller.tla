----------------------------- MODULE Controller -----------------------------
(***************************************************************************)
(* Core::Controller: one event loop that serves clients over HttpServer    *)
(* and forwards their requests to application processes over Socket.  A    *)
(* request asks the application pool for a session (checkoutSession) and   *)
(* the answer comes from any thread: it is a callback that holds the       *)
(* addresses of the request and of its client, and that may run long       *)
(* after both have ended.                                                  *)
(*                                                                         *)
(* One action is one callback of the event loop, or one critical section   *)
(* of a thread of the pool.  Sessions that a callback gives up are         *)
(* destroyed by the same thread right afterwards, in one step under each   *)
(* lock; until then the event loop does nothing else.                      *)
(***************************************************************************)
EXTENDS Socket, HttpServer

CONSTANTS
  GracefulExit, \* mainConfig.gracefulExit
  Oobw,         \* whether applications ask for out-of-band work
  MaxAccepted   \* bound on the clients accepted

ASSUME ControllerAssumption ==
  /\ MaxAccepted \in Nat
  /\ GracefulExit \in BOOLEAN /\ Oobw \in BOOLEAN
  /\ Process \subseteq Nat /\ Session \subseteq Nat

VARIABLES
  http,      \* the server, its clients and its requests
  calls,     \* callbacks that are outstanding
  toVisit,   \* clients that shutdown() is still to look at
  accepted   \* how many clients were accepted

vars == <<socketVars, http, calls, toVisit, accepted>>

(* A callback: the pool owes an answer ("get"), an answer is posted         *)
(* ("session", "error"), or checkoutSessionLater is posted ("retry").       *)
Call(kind, r, c, s) == [kind |-> kind, req |-> r, client |-> c, session |-> s]

Calls ==
  [kind : {"session"}, req : Request, client : Client, session : Session]
    \cup [kind : {"get", "error", "retry"}, req : Request, client : Client,
         session : {NoSession}]

TypeOK ==
  /\ SocketTypeOK
  /\ http \in Servers
  /\ calls \subseteq Calls
  /\ toVisit \subseteq Client
  /\ accepted \in 0..MaxAccepted

Init ==
  /\ SocketInit
  /\ http = [serverState |-> "ACTIVE",
             client |-> [c \in Client |-> FreeClient],
             request |-> [r \in Request |-> FreeRequest],
             dropped |-> <<>>]
  /\ calls = {} /\ toVisit = {} /\ accepted = 0

(* The event loop is between two callbacks. *)
LoopIsFree == http.dropped = <<>> /\ toVisit = {}

(* A callback of the event loop that leaves the sockets alone. *)
Serve(h) == http' = h /\ UNCHANGED <<socketVars, toVisit, accepted>>

-----------------------------------------------------------------------------
(* Clients *)

(* Which object checkoutClientObject() takes makes no difference. *)
Accept(c) ==
  /\ LoopIsFree /\ accepted < MaxAccepted /\ http.serverState = "ACTIVE"
  /\ http.client[c].connState = "IN_FREELIST"
  /\ \A d \in Client : http.client[d].connState = "IN_FREELIST" => c <= d
  /\ http' = OnAcceptable(http, c)
  /\ accepted' = accepted + 1
  /\ UNCHANGED <<socketVars, calls, toVisit>>

(* accept() fails: stop accepting for three seconds. *)
AcceptFails ==
  /\ LoopIsFree /\ accepted < MaxAccepted /\ http.serverState = "ACTIVE"
  /\ Serve([http EXCEPT !.serverState = "TOO_MANY_FDS"]) /\ UNCHANGED calls

AcceptResumes ==
  /\ LoopIsFree /\ http.serverState = "TOO_MANY_FDS"
  /\ Serve([http EXCEPT !.serverState = "ACTIVE"]) /\ UNCHANGED calls

(* The client goes away, an I/O error, or an administrator's command. *)
Disconnect(c) ==
  /\ LoopIsFree /\ http.client[c].connState = "ACTIVE"
  /\ Serve(DisconnectClient(http, c)) /\ UNCHANGED calls

(* The last of the output that a request left is written. *)
OutputFlushed(c) ==
  LET r == http.client[c].currentRequest
  IN /\ LoopIsFree /\ r # NoRequest
     /\ http.request[r].httpState = "FLUSHING_OUTPUT"
     /\ Serve(OnClientOutputDataFlushed(http, c)) /\ UNCHANGED calls

-----------------------------------------------------------------------------
(* Requests *)

\* Mutant: the callback holds no reference.
CheckoutSession_NoRef(h, r) == h

(* checkoutSession refs the request and calls asyncGet. *)
CheckoutSession(h, r) == RefRequest(h, r)

Get(r) == Call("get", r, http.request[r].client, NoSession)

(* The headers are in, and the body as far as it is buffered first. *)
BeginRequest(r, keepAlive) ==
  LET h == [http EXCEPT !.request[r].httpState = "COMPLETE",
                        !.request[r].wantKeepAlive = keepAlive]
  IN /\ LoopIsFree /\ http.request[r].httpState = "PARSING_HEADERS"
     /\ Serve(CheckoutSession(h, r))
     /\ calls' = calls \cup {Get(r)}

(* The request is answered without the application: an error, a response    *)
(* from the cache, or a server that shuts down.                             *)
AnswerDirectly(r, keepAlive, flushed) ==
  LET h == [http EXCEPT !.request[r].httpState = "COMPLETE",
                        !.request[r].wantKeepAlive = keepAlive]
  IN /\ LoopIsFree /\ http.request[r].httpState = "PARSING_HEADERS"
     /\ Serve(EndRequest(h, r, flushed)) /\ UNCHANGED calls

(* The session is initiated and the application answers, or its socket      *)
(* fails: keepApp, the application lets the connection be reused.           *)
AppResponds(r, keepApp, flushed) ==
  LET s == http.request[r].session
  IN /\ LoopIsFree /\ s # NoSession
     /\ session[s].state = "INITIATED"
     /\ Serve(EndRequest(DropSession(http, r, keepApp), r, flushed))
     /\ UNCHANGED calls

-----------------------------------------------------------------------------
(* The answer of the pool *)

(* The callback is done with its request. *)
Answered(k, h) ==
  /\ http' = UnrefRequest(h, k.req)
  /\ UNCHANGED <<toVisit, accepted>>

\* Mutant: the session of an answer that comes too late is forgotten.
StaleAnswer_Leaks(k) ==
  /\ http.dropped = <<>> /\ HttpRequestEnded(http, k.req)
  /\ Answered(k, http)
  /\ calls' = calls \ {k} /\ UNCHANGED socketVars

(* The request has ended: the session's only reference is the callback's. *)
StaleAnswer(k) ==
  /\ http.dropped = <<>> /\ HttpRequestEnded(http, k.req)
  /\ Answered(k, IF k.session = NoSession THEN http
                 ELSE [http EXCEPT !.dropped =
                         Append(@, [session |-> k.session, keep |-> FALSE])])
  /\ calls' = calls \ {k} /\ UNCHANGED socketVars

(* reportSessionCheckoutError writes a response. *)
ErrorAnswer(k, flushed) ==
  /\ http.dropped = <<>> /\ ~HttpRequestEnded(http, k.req)
  /\ k.kind = "error"
  /\ Answered(k, EndRequest(http, k.req, flushed))
  /\ calls' = calls \ {k} /\ UNCHANGED socketVars

\* Mutant: the attempts are not counted.
Install_Uncounted(k) ==
  [DropSession(http, k.req, FALSE) EXCEPT !.request[k.req].session = k.session]

(* req->session = session: a session that could not be initiated before is  *)
(* given up for the new one.  maybeSend100Continue comes next.  When it     *)
(* cannot write to the client it disconnects it, so that the session is     *)
(* gone before initiateSession() uses it: the program ends there, and no    *)
(* step leads there.                                                        *)
Install(k) ==
  [DropSession(http, k.req, FALSE) EXCEPT
     !.request[k.req].session = k.session,
     !.request[k.req].sessionCheckoutTry = @ + 1]

SessionAnswer(k) ==
  /\ http.dropped = <<>> /\ ~HttpRequestEnded(http, k.req)
  /\ k.kind = "session"
  /\ Initiate(k.session)
  /\ Answered(k, Install(k))
  /\ calls' = calls \ {k}

\* Mutant: one attempt too many.
RetriesLeft_OneMore(r) == http.request[r].sessionCheckoutTry + 1 <= MaxTry

RetriesLeft(r) == http.request[r].sessionCheckoutTry + 1 < MaxTry

(* initiateSession fails: try again later, or disconnect the client. *)
InitiateSessionFails(k) ==
  LET r == k.req
  IN /\ http.dropped = <<>> /\ ~HttpRequestEnded(http, r)
     /\ k.kind = "session"
     /\ InitiateFails(k.session)
     /\ IF RetriesLeft(r)
        THEN /\ Answered(k, RefRequest(Install(k), r))
             /\ calls' = (calls \ {k}) \cup {Call("retry", r, k.client, NoSession)}
        ELSE /\ Answered(k, DisconnectClient(Install(k), k.client))
             /\ calls' = calls \ {k}

CheckoutSessionLater(k) ==
  /\ LoopIsFree
  /\ IF HttpRequestEnded(http, k.req)
     THEN Answered(k, http) /\ calls' = calls \ {k}
     ELSE /\ Answered(k, CheckoutSession(http, k.req))
          /\ calls' = (calls \ {k}) \cup {Get(k.req)}
  /\ UNCHANGED socketVars

-----------------------------------------------------------------------------
(* The thread destroys the sessions that were given up *)

DestroySession ==
  /\ http.dropped # <<>>
  /\ LET d == Head(http.dropped)
     IN \/ /\ Deinitiate(d.session, d.keep)
           /\ UNCHANGED http
        \/ /\ CallOnClose(d.session)
           /\ http' = [http EXCEPT !.dropped = Tail(@)]
  /\ UNCHANGED <<calls, toVisit, accepted>>

-----------------------------------------------------------------------------
(* Shutdown *)

(* shutdown() holds every client that is connected, and visits each. *)
Shutdown ==
  LET active == {c \in Client : http.client[c].connState = "ACTIVE"}
      held == [c \in Client |-> IF c \in active THEN [http.client[c] EXCEPT !.refcount = @ + 1]
                                ELSE http.client[c]]
  IN /\ LoopIsFree /\ http.serverState = "ACTIVE"
     /\ http' = [http EXCEPT
          !.serverState = IF \A c \in Client : http.client[c].connState = "IN_FREELIST"
                          THEN "FINISHED_SHUTDOWN" ELSE "SHUTTING_DOWN",
          !.client = held]
     /\ toVisit' = active
     /\ UNCHANGED <<socketVars, calls, accepted>>

(* shouldDisconnectClientOnShutdown: what it may return.  All of them       *)
(* unless the exit is graceful, and then those without a request, or with   *)
(* one that was upgraded, which is one of the states that COMPLETE is for.  *)
ShouldDisconnectOnShutdown(c) ==
  LET r == http.client[c].currentRequest
  IN IF ~GracefulExit \/ r = NoRequest THEN {TRUE}
     ELSE IF http.request[r].httpState = "COMPLETE" THEN BOOLEAN ELSE {FALSE}

\* Mutant: shutdown() keeps its reference.
VisitClient_KeepsRef(c) ==
  /\ http.dropped = <<>> /\ c \in toVisit
  /\ \E disconnect \in ShouldDisconnectOnShutdown(c) :
       http' = IF disconnect THEN DisconnectClient(http, c) ELSE http
  /\ toVisit' = toVisit \ {c}
  /\ UNCHANGED <<socketVars, calls, accepted>>

VisitClient(c) ==
  /\ http.dropped = <<>> /\ c \in toVisit
  /\ \E disconnect \in ShouldDisconnectOnShutdown(c) :
       http' = UnrefClient(IF disconnect THEN DisconnectClient(http, c) ELSE http, c)
  /\ toVisit' = toVisit \ {c}
  /\ UNCHANGED <<socketVars, calls, accepted>>

-----------------------------------------------------------------------------
(* The application pool, under its own lock, in whichever thread *)

Pool == UNCHANGED <<http, toVisit, accepted>>

(* The pool routes a waiting request to a process with room.  Which object  *)
(* the session gets makes no difference.                                    *)
GiveSession(k, p) ==
  /\ k.kind = "get"
  /\ Concurrency > 0 => sessions[p] < Concurrency
  /\ \E s \in Session :
       /\ \A t \in Session : session[t].state = "FREE" => s <= t
       /\ NewSession(s, p)
       /\ calls' = (calls \ {k}) \cup {Call("session", k.req, k.client, s)}
  /\ Pool

(* The queue is full, or spawning failed. *)
GiveError(k) ==
  /\ k.kind = "get"
  /\ calls' = (calls \ {k}) \cup {Call("error", k.req, k.client, NoSession)}
  /\ Pool /\ UNCHANGED socketVars

(* Which object a new process gets makes no difference. *)
ManageProcess(p) ==
  /\ \/ Detach(p) \/ TriggerShutdown(p) \/ Cleanup(p)
     \/ Oobw /\ WorkOutOfBand(p)
     \/ Spawn(p) /\ \A q \in Process : life[q] = "DEAD" /\ oobw[q] = "NONE" => p <= q
  /\ Pool /\ UNCHANGED calls

-----------------------------------------------------------------------------
(* What is done about callback k, in the end. *)
Handle(k) ==
  \/ k.kind \in {"session", "error"} /\
       (StaleAnswer(k) \/ SessionAnswer(k) \/ InitiateSessionFails(k)
          \/ \E flushed \in BOOLEAN : ErrorAnswer(k, flushed))
  \/ k.kind = "retry" /\ CheckoutSessionLater(k)

Answer(k) == GiveError(k) \/ \E p \in Process : GiveSession(k, p)

Next ==
  \/ \E c \in Client : Accept(c) \/ Disconnect(c) \/ OutputFlushed(c) \/ VisitClient(c)
  \/ AcceptFails \/ AcceptResumes \/ Shutdown \/ DestroySession
  \/ \E r \in Request, flushed \in BOOLEAN, keep \in BOOLEAN :
       BeginRequest(r, keep) \/ AnswerDirectly(r, keep, flushed) \/ AppResponds(r, keep, flushed)
  \/ \E k \in calls : Handle(k) \/ Answer(k)
  \/ \E p \in Process : ManageProcess(p)

Spec == Init /\ [][Next]_vars

(* The peers of request r do their part: its client sends the request, or   *)
(* leaves before that, and reads the response; the application answers.     *)
PeersAct(r) ==
  \/ \E flushed \in BOOLEAN, keep \in BOOLEAN :
       BeginRequest(r, keep) \/ AnswerDirectly(r, keep, flushed) \/ AppResponds(r, keep, flushed)
  \/ \E c \in Client : /\ http.client[c].currentRequest = r
                       /\ \/ OutputFlushed(c)
                          \/ http.request[r].httpState = "PARSING_HEADERS" /\ Disconnect(c)

(* What is done about request r is either up to a callback or up to its     *)
(* peers, never both.                                                       *)
Proceed(r) == PeersAct(r) \/ \E k \in calls : k.req = r /\ (Handle(k) \/ Answer(k))

FinishCallback == DestroySession \/ \E c \in Client : VisitClient(c)

(* The event loop runs every callback that is due in each of its rounds,    *)
(* and the pool answers every request, which is what Group and Pool are     *)
(* about; as a callback has to wait while another one runs, the fairness is *)
(* strong.                                                                  *)
FairSpec == Spec /\ SF_vars(FinishCallback) /\ \A r \in Request : SF_vars(Proceed(r))

(* Something is done about some request: the least that can be asked. *)
LiveSpec == Spec /\ SF_vars(FinishCallback \/ \E r \in Request : Proceed(r))

-----------------------------------------------------------------------------
InUse(r) == http.request[r].httpState # "IN_FREELIST"

(* A session that the pool handed out is owned by exactly one callback,     *)
(* request or pending destruction until it has told its group that it is    *)
(* over: sessionCheckedOut..., initiateSession, deinitializeRequest and     *)
(* disconnect neither leak it nor close it twice, whatever they race with.  *)
SessionHasOneOwner ==
  \A s \in Session :
    Cardinality({k \in calls : k.session = s})
      + Cardinality({r \in Request : http.request[r].session = s})
      + Cardinality({i \in DOMAIN http.dropped : http.dropped[i].session = s})
    = IF session[s].state = "FREE" THEN 0 ELSE 1

(* sessionCheckedOut and checkoutSessionLater are given the addresses of a  *)
(* request and its client: when they run, the request still is the one they *)
(* were made for and belongs to that client, and neither is in a freelist.  *)
(* And once the shutdown has finished nothing is left that could call the   *)
(* server, which is what the comment in passRequestToEventLoopThread says.  *)
CallbacksAreSafe ==
  /\ \A k \in calls : /\ InUse(k.req) /\ http.request[k.req].client = k.client
                     /\ http.client[k.client].connState # "IN_FREELIST"
  /\ http.serverState = "FINISHED_SHUTDOWN" =>
       calls = {} /\ \A r \in Request : ~InUse(r)

(* The reference counts are exact: a request is held by its client while it *)
(* is the current one and by each callback, a client by the server while it *)
(* is connected, by each request and by shutdown(); so no object is reused  *)
(* too early and none is kept forever.  The current request of a client is  *)
(* never one that only waits for its references (HttpClient.h).             *)
ReferencesAreExact ==
  /\ \A r \in Request : InUse(r) =>
       LET current == http.client[http.request[r].client].currentRequest = r
       IN /\ http.request[r].refcount = One(current) + Cardinality({k \in calls : k.req = r})
          /\ current <=> http.request[r].httpState # "WAITING_FOR_REFERENCES"
  /\ \A c \in Client : http.client[c].connState # "IN_FREELIST" =>
       http.client[c].refcount =
         One(http.client[c].connState = "ACTIVE") + One(c \in toVisit)
           + Cardinality({r \in Request : http.request[r].client = c})

(* Every request on a lingeringRequests list is there once, and counted     *)
(* once: deinitializing it a second time is to have no effect.              *)
LingeringRequestsAreCounted ==
  \A c \in Client : http.client[c].lingeringRequestCount =
    Cardinality({r \in Request :
      /\ http.request[r].client = c
      /\ http.request[r].httpState \in {"FLUSHING_OUTPUT", "WAITING_FOR_REFERENCES"}})

(* A request does not check out sessions for ever: the number of attempts   *)
(* is limited, also when every process refuses the connection.              *)
CheckoutsEnd ==
  \A r \in Request : (\E k \in calls : k.req = r) ~> ~(\E k \in calls : k.req = r)

(* A shutdown that has begun finishes, once the clients and the processes   *)
(* have done their part: no reference to a client is lost on any path.      *)
ShutdownFinishes ==
  http.serverState = "SHUTTING_DOWN" ~> http.serverState = "FINISHED_SHUTDOWN"
=============================================================================
