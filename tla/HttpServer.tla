----------------------------- MODULE HttpServer -----------------------------
(***************************************************************************)
(* ServerKit::Server and ServerKit::HttpServer: the life of clients and    *)
(* requests.  Both are reference counted objects that are reused: a client *)
(* is held by the server while it is connected and by each of its          *)
(* requests, a request by its client while it is the current one and by    *)
(* every callback that was given its address.                              *)
(*                                                                         *)
(* The operators map the state h of a server, a record                     *)
(*   [serverState, client, request, dropped]                               *)
(* to the state a call leaves.  dropped are the sessions whose last        *)
(* reference the call gave up, in order: the thread destroys them next.    *)
(***************************************************************************)
EXTENDS Sessions, Integers, Sequences, FiniteSets

CONSTANTS
  Client,     \* client objects, natural numbers
  Request,    \* request objects: one more than there are clients is enough for
              \* checkoutRequestObject(), which allocates them without a limit
  NoClient,   \* NULL
  NoRequest,  \* NULL
  MaxTry      \* MAX_SESSION_CHECKOUT_TRY

ASSUME HttpServerAssumption ==
  /\ Client \subseteq Nat
  /\ NoClient \notin Client /\ NoRequest \notin Request
  /\ IsFiniteSet(Client) /\ IsFiniteSet(Request)
  /\ Cardinality(Client) < Cardinality(Request)
  /\ MaxTry \in Nat \ {0}

ConnStates == {"ACTIVE", "DISCONNECTED", "IN_FREELIST"}

(* COMPLETE stands for all states between the headers and the end:          *)
(* PARSING_BODY, PARSING_CHUNKED_BODY, UPGRADED and COMPLETE.               *)
HttpStates == {"PARSING_HEADERS", "COMPLETE", "FLUSHING_OUTPUT",
               "WAITING_FOR_REFERENCES", "IN_FREELIST"}

ServerStates == {"ACTIVE", "TOO_MANY_FDS", "SHUTTING_DOWN", "FINISHED_SHUTDOWN"}

FreeClient ==
  [connState |-> "IN_FREELIST", refcount |-> 2, currentRequest |-> NoRequest,
   lingeringRequestCount |-> 0]

FreeRequest ==
  [httpState |-> "IN_FREELIST", refcount |-> 1, client |-> NoClient,
   wantKeepAlive |-> FALSE, session |-> NoSession, sessionCheckoutTry |-> 0]

ClientObjects ==
  [connState : ConnStates, refcount : Nat, currentRequest : Request \cup {NoRequest},
   lingeringRequestCount : Nat]

RequestObjects ==
  [httpState : HttpStates, refcount : Nat, client : Client \cup {NoClient},
   wantKeepAlive : BOOLEAN, session : Session \cup {NoSession},
   sessionCheckoutTry : 0..MaxTry]

Servers ==
  [serverState : ServerStates, client : [Client -> ClientObjects],
   request : [Request -> RequestObjects],
   dropped : Seq([session : Session, keep : BOOLEAN])]

One(b) == IF b THEN 1 ELSE 0

HttpRequestEnded(h, r) ==
  \/ h.request[r].httpState \in {"FLUSHING_OUTPUT", "WAITING_FOR_REFERENCES", "IN_FREELIST"}
  \/ h.client[h.request[r].client].connState # "ACTIVE"

-----------------------------------------------------------------------------
(* References *)

(* Shutdown finishes with the last client. *)
ClientReachedZeroRefcount(h, c) ==
  LET h1 == [h EXCEPT !.client[c].connState = "IN_FREELIST",
                      !.client[c].refcount = 2]
  IN IF h.serverState = "SHUTTING_DOWN"
        /\ \A d \in Client : h1.client[d].connState = "IN_FREELIST"
     THEN [h1 EXCEPT !.serverState = "FINISHED_SHUTDOWN"]
     ELSE h1

RefClient(h, c) == [h EXCEPT !.client[c].refcount = @ + 1]

UnrefClient(h, c) ==
  IF h.client[c].refcount = 1
  THEN ClientReachedZeroRefcount(h, c)
  ELSE [h EXCEPT !.client[c].refcount = @ - 1]

RequestReachedZeroRefcount(h, r) ==
  LET c == h.request[r].client
  IN UnrefClient([h EXCEPT !.client[c].lingeringRequestCount = @ - 1,
                           !.request[r] = FreeRequest], c)

RefRequest(h, r) == [h EXCEPT !.request[r].refcount = @ + 1]

UnrefRequest(h, r) ==
  IF h.request[r].refcount = 1
  THEN RequestReachedZeroRefcount(h, r)
  ELSE [h EXCEPT !.request[r].refcount = @ - 1]

-----------------------------------------------------------------------------
(* The end of a request and of a client *)

(* Controller::deinitializeRequest, before HttpServer's own. *)
DropSession(h, r, keep) ==
  IF h.request[r].session = NoSession THEN h
  ELSE [h EXCEPT !.dropped = Append(@, [session |-> h.request[r].session, keep |-> keep]),
                 !.request[r].session = NoSession]

DeinitializeRequestAndAddToFreelist(h, c, r) ==
  IF h.request[r].httpState = "WAITING_FOR_REFERENCES" THEN h
  ELSE DropSession([h EXCEPT !.request[r].httpState = "WAITING_FOR_REFERENCES",
                             !.client[c].lingeringRequestCount = @ + 1],
                   r, FALSE)

OnClientDisconnecting(h, c) ==
  LET r == h.client[c].currentRequest
      h1 == DeinitializeRequestAndAddToFreelist(h, c, r)
  IN IF r = NoRequest THEN h
     ELSE UnrefRequest([h1 EXCEPT !.client[c].currentRequest = NoRequest], r)

(* Server::disconnect: the server's own reference is the last to go. *)
DisconnectClient(h, c) ==
  IF h.client[c].connState # "ACTIVE" THEN h
  ELSE UnrefClient([OnClientDisconnecting(h, c) EXCEPT !.client[c].connState = "DISCONNECTED"], c)

\* Mutant: the request does not hold its client.
HandleNextRequest_NoRef(h, c) ==
  LET r == CHOOSE r \in Request : h.request[r].httpState = "IN_FREELIST"
  IN [h EXCEPT !.client[c].currentRequest = r,
               !.request[r] = [FreeRequest EXCEPT !.httpState = "PARSING_HEADERS", !.client = c]]

(* Which object checkoutRequestObject() takes makes no difference. *)
HandleNextRequest(h, c) ==
  LET r == CHOOSE r \in Request : h.request[r].httpState = "IN_FREELIST"
  IN [RefClient(h, c) EXCEPT
        !.client[c].currentRequest = r,
        !.request[r] = [FreeRequest EXCEPT !.httpState = "PARSING_HEADERS", !.client = c]]

CanKeepAlive(h, r) ==
  h.request[r].wantKeepAlive /\ h.serverState \in {"ACTIVE", "TOO_MANY_FDS"}

DoneWithCurrentRequest(h, c) ==
  LET r == h.client[c].currentRequest
      h1 == UnrefRequest([h EXCEPT !.client[c].currentRequest = NoRequest], r)
  IN IF CanKeepAlive(h, r) THEN HandleNextRequest(h1, c) ELSE DisconnectClient(h1, c)

(* flushed: all of the response is with the client already. *)
EndRequest(h, r, flushed) ==
  LET c == h.request[r].client
      h1 == DeinitializeRequestAndAddToFreelist(h, c, r)
  IN CASE HttpRequestEnded(h, r) -> h
       [] ~HttpRequestEnded(h, r) /\ flushed -> DoneWithCurrentRequest(h1, c)
       [] OTHER -> [h1 EXCEPT !.request[r].httpState = "FLUSHING_OUTPUT",
                              !.request[r].wantKeepAlive = CanKeepAlive(h, r)]

OnClientOutputDataFlushed(h, c) ==
  DoneWithCurrentRequest(
    [h EXCEPT !.request[h.client[c].currentRequest].httpState = "WAITING_FOR_REFERENCES"], c)

-----------------------------------------------------------------------------
(* A new client *)

OnAcceptable(h, c) ==
  UnrefClient(HandleNextRequest(
    [h EXCEPT !.client[c].connState = "ACTIVE", !.client[c].refcount = 2], c), c)
=============================================================================
