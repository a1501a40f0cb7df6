--------------------------- MODULE HttpServerProofs ---------------------------
(***************************************************************************)
(* What the operations of HttpServer keep true.  A call such as            *)
(* disconnect() is several operations deep, and in the middle of it the    *)
(* counts of a stable state are off by the references that the call itself *)
(* has taken over or not yet given back.  So the invariant takes the       *)
(* references that are held from outside as parameters: X[r] of them on    *)
(* request r, Y[c] of them on client c.  Every operation then has an exact *)
(* contract, and contracts compose.                                        *)
(***************************************************************************)
EXTENDS HttpServer, TLAPS

Waiting(h, r) == h.request[r].httpState = "WAITING_FOR_REFERENCES"

\* Client c has a request that only waits for its references.
Lingers(h, c) == \E r \in Request : h.request[r].client = c /\ Waiting(h, r)

\* A request object in the freelist is as new, and nothing refers to it.
FreeOK(h, X, r) ==
  h.request[r].httpState = "IN_FREELIST" => h.request[r] = FreeRequest /\ X[r] = 0

\* A request in use belongs to a client in use, that holds it while it is the current one.
UsedOK(h, X, r) ==
  LET q == h.request[r]
  IN q.httpState # "IN_FREELIST" =>
       /\ q.client \in Client /\ h.client[q.client].connState # "IN_FREELIST"
       /\ h.client[q.client].currentRequest = r <=> ~Waiting(h, r)
       /\ q.refcount = One(~Waiting(h, r)) + X[r]
       /\ Waiting(h, r) => X[r] > 0
       /\ q.httpState = "PARSING_HEADERS" => X[r] = 0 /\ q.sessionCheckoutTry = 0
       /\ q.httpState # "COMPLETE" => q.session = NoSession

\* A client is held by the server, by each of its requests, and Y[c] times from outside.
ClientOK(h, Y, c) ==
  LET d == h.client[c]
      r == d.currentRequest
  IN /\ d.connState # "ACTIVE" => r = NoRequest
     /\ d.connState = "IN_FREELIST" => Y[c] = 0
     /\ r # NoRequest => h.request[r].httpState # "IN_FREELIST" /\ h.request[r].client = c
     /\ d.connState # "IN_FREELIST" =>
          /\ d.refcount = One(d.connState = "ACTIVE") + One(r # NoRequest)
                            + One(Lingers(h, c)) + Y[c]
          /\ d.refcount > 0
     /\ d.lingeringRequestCount >=
          One(Lingers(h, c)) + One(r # NoRequest /\ h.request[r].httpState = "FLUSHING_OUTPUT")

\* No two requests of a client wait for their references at the same time.
LingersOnce(h) ==
  \A r, q \in Request :
    Waiting(h, r) /\ Waiting(h, q) /\ h.request[r].client = h.request[q].client => r = q

\* A server that has finished its shutdown has no clients.
Quiet(h) ==
  h.serverState = "FINISHED_SHUTDOWN" =>
    \A c \in Client : h.client[c].connState = "IN_FREELIST"

\* The references are right, given the ones from outside.
Refs(h, X, Y) ==
  /\ h \in Servers /\ X \in [Request -> Nat] /\ Y \in [Client -> Nat]
  /\ \A r \in Request : FreeOK(h, X, r) /\ UsedOK(h, X, r)
  /\ \A c \in Client : ClientOK(h, Y, c)
  /\ LingersOnce(h) /\ Quiet(h)

\* But for request e: one that waits for its references has lost its client, and no
\* callback is outstanding for one whose output is flushed.
Settled(h, X, e) ==
  \A r \in Request \ {e} :
    /\ Waiting(h, r) => h.client[h.request[r].client].connState # "ACTIVE"
    /\ h.request[r].httpState = "FLUSHING_OUTPUT" => X[r] = 0

-----------------------------------------------------------------------------
\* Session s is with a request, or among those to be destroyed.
Owned(h, s) ==
  \/ \E r \in Request : h.request[r].session = s
  \/ \E i \in 1..Len(h.dropped) : h.dropped[i].session = s

\* No session is there twice.
OwnedOnce(h) ==
  /\ \A r, q \in Request :
       h.request[r].session = h.request[q].session /\ r # q => h.request[r].session = NoSession
  /\ \A i, j \in 1..Len(h.dropped) : h.dropped[i].session = h.dropped[j].session => i = j
  /\ \A r \in Request, i \in 1..Len(h.dropped) : h.request[r].session # h.dropped[i].session

\* The call that leads from h to g neither loses nor doubles a session.
Conserves(h, g) ==
  /\ OwnedOnce(h) => OwnedOnce(g)
  /\ \A s \in Session : Owned(g, s) <=> Owned(h, s)

\* It leaves request r with its client, and as it was if it is still being processed.
Keeps(h, g, r) ==
  /\ g.request[r].client = h.request[r].client
  /\ g.request[r].httpState = "COMPLETE" =>
       /\ h.request[r].httpState = "COMPLETE"
       /\ g.request[r].session = h.request[r].session
       /\ g.request[r].sessionCheckoutTry = h.request[r].sessionCheckoutTry

\* It connects and disconnects no client, nor gives it another request.
SameClients(h, g) ==
  \A d \in Client :
    /\ g.client[d].connState = "ACTIVE" <=> h.client[d].connState = "ACTIVE"
    /\ g.client[d].currentRequest = h.client[d].currentRequest

\* All of this, for the requests that are held from outside.
Preserves(h, g, X) == Conserves(h, g) /\ \A r \in Request : X[r] > 0 => Keeps(h, g, r)

-----------------------------------------------------------------------------
\* A step that preserves the requests with a callback keeps one that has one.
LEMMA CalledKept ==
  ASSUME NEW h, NEW g, NEW X, NEW r \in Request, X[r] = 1, Preserves(h, g, X)
  PROVE  Keeps(h, g, r)
<1>1. X[r] > 0
  OBVIOUS
<1> QED BY <1>1, Zenon DEF Preserves

LEMMA SeqElement ==
  ASSUME NEW S, NEW q \in Seq(S), NEW i \in 1..Len(q)
  PROVE  q[i] \in S
OBVIOUS

\* A call that leaves every session where it is.
LEMMA SameSessions ==
  ASSUME NEW h, NEW g, g.dropped = h.dropped,
         \A r \in Request : g.request[r].session = h.request[r].session
  PROVE  Conserves(h, g)
BY DEF Conserves, OwnedOnce, Owned

\* Contracts compose.
LEMMA PreservesTransitive ==
  ASSUME NEW f, NEW g, NEW h, NEW X, NEW Z, Preserves(f, g, X), Preserves(g, h, Z),
         \A r \in Request : Z[r] > 0 => X[r] > 0
  PROVE  Preserves(f, h, Z)
<1>1. Conserves(f, h)
  BY DEF Preserves, Conserves
<1>2. ASSUME NEW r \in Request, Z[r] > 0 PROVE Keeps(f, h, r)
  BY <1>2 DEF Preserves, Keeps
<1> QED BY <1>1, <1>2 DEF Preserves

\* A call that replaces one client object, one request object, or one of each.
WithClient(h, c, d) == [h EXCEPT !.client[c] = d]
WithRequest(h, r, q) == [h EXCEPT !.request[r] = q]

LEMMA WithClientIs ==
  ASSUME NEW h \in Servers, NEW c \in Client, NEW d \in ClientObjects
  PROVE  LET g == WithClient(h, c, d)
         IN /\ g \in Servers /\ g.serverState = h.serverState /\ g.dropped = h.dropped
            /\ g.request = h.request /\ g.client[c] = d
            /\ \A b \in Client \ {c} : g.client[b] = h.client[b]
BY DEF WithClient, Servers

LEMMA WithRequestIs ==
  ASSUME NEW h \in Servers, NEW r \in Request, NEW q \in RequestObjects
  PROVE  LET g == WithRequest(h, r, q)
         IN /\ g \in Servers /\ g.serverState = h.serverState /\ g.dropped = h.dropped
            /\ g.client = h.client /\ g.request[r] = q
            /\ \A b \in Request \ {r} : g.request[b] = h.request[b]
BY DEF WithRequest, Servers

LEMMA ClientFields ==
  ASSUME NEW h \in Servers, NEW c \in Client
  PROVE  /\ h.client[c] \in ClientObjects
         /\ h.client[c].connState \in ConnStates /\ h.client[c].refcount \in Nat
         /\ h.client[c].currentRequest \in Request \cup {NoRequest}
         /\ h.client[c].lingeringRequestCount \in Nat
<1>1. h.client[c] \in ClientObjects
  BY DEF Servers
<1> QED BY <1>1 DEF ClientObjects

LEMMA RequestFields ==
  ASSUME NEW h \in Servers, NEW r \in Request
  PROVE  /\ h.request[r] \in RequestObjects
         /\ h.request[r].httpState \in HttpStates /\ h.request[r].refcount \in Nat
         /\ h.request[r].client \in Client \cup {NoClient}
         /\ h.request[r].wantKeepAlive \in BOOLEAN
         /\ h.request[r].session \in Session \cup {NoSession}
         /\ h.request[r].sessionCheckoutTry \in 0..MaxTry
<1>1. h.request[r] \in RequestObjects
  BY DEF Servers
<1> QED BY <1>1 DEF RequestObjects

\* A request that a call does not touch, and whose client it leaves as far as it matters.
LEMMA OtherRequestOK ==
  ASSUME NEW h, NEW g, NEW X, NEW V, NEW q, FreeOK(h, X, q) /\ UsedOK(h, X, q),
         g.request[q] = h.request[q], V[q] = X[q],
         \A c \in Client :
           /\ g.client[c].connState = "IN_FREELIST" <=> h.client[c].connState = "IN_FREELIST"
           /\ g.client[c].currentRequest = q <=> h.client[c].currentRequest = q
  PROVE  FreeOK(g, V, q) /\ UsedOK(g, V, q)
<1>1. FreeOK(g, V, q)
  BY Zenon DEF FreeOK
<1>2. Waiting(g, q) <=> Waiting(h, q)
  BY Zenon DEF Waiting
<1>3. UsedOK(g, V, q)
  BY <1>2 DEF UsedOK, One
<1> QED BY <1>1, <1>3, Zenon

\* A client that a call does not touch, nor its request.
LEMMA OtherClientOK ==
  ASSUME NEW h, NEW g, NEW Y, NEW Z, NEW b, ClientOK(h, Y, b), g.client[b] = h.client[b],
         Z[b] = Y[b], Lingers(g, b) <=> Lingers(h, b),
         h.client[b].currentRequest # NoRequest =>
           g.request[h.client[b].currentRequest] = h.request[h.client[b].currentRequest]
  PROVE  ClientOK(g, Z, b)
<1>1. One(Lingers(g, b)) = One(Lingers(h, b))
  BY Zenon DEF One
<1>2. CASE h.client[b].currentRequest = NoRequest
  BY <1>1, <1>2, Zenon DEF ClientOK, One
<1>3. CASE h.client[b].currentRequest # NoRequest
  BY <1>1, <1>3, Zenon DEF ClientOK, One
<1> QED BY <1>2, <1>3

\* A client whose references change by as much as the counts do.
LEMMA CountsOK ==
  ASSUME NEW h, NEW g, NEW Y, NEW Z, NEW c, ClientOK(h, Y, c), Y[c] \in Nat, Z[c] \in Nat,
         h.client[c].refcount \in Nat, g.client[c].refcount \in Nat,
         h.client[c].lingeringRequestCount \in Nat, g.client[c].lingeringRequestCount \in Nat,
         h.client[c].connState # "IN_FREELIST", g.client[c].connState = h.client[c].connState,
         g.client[c].currentRequest = h.client[c].currentRequest,
         h.client[c].currentRequest # NoRequest =>
           g.request[h.client[c].currentRequest] = h.request[h.client[c].currentRequest],
         g.client[c].refcount > 0,
         g.client[c].refcount + One(Lingers(h, c)) + Y[c] =
           h.client[c].refcount + One(Lingers(g, c)) + Z[c],
         g.client[c].lingeringRequestCount + One(Lingers(h, c)) >=
           h.client[c].lingeringRequestCount + One(Lingers(g, c))
  PROVE  ClientOK(g, Z, c)
<1> DEFINE r == h.client[c].currentRequest
           m == One(Lingers(h, c))
           n == One(Lingers(g, c))
           a == One(h.client[c].connState = "ACTIVE")
           b == One(r # NoRequest)
           p == One(r # NoRequest /\ h.request[r].httpState = "FLUSHING_OUTPUT")
<1>1. m \in 0..1 /\ n \in 0..1 /\ a \in 0..1 /\ b \in 0..1 /\ p \in 0..1
  BY DEF One
<1>2. /\ h.client[c].refcount = a + b + m + Y[c]
      /\ h.client[c].lingeringRequestCount >= m + p
  BY Zenon DEF ClientOK
<1>3. p = One(r # NoRequest /\ g.request[r].httpState = "FLUSHING_OUTPUT")
  BY Zenon DEF One
<1> HIDE DEF m, n, a, b, p
<1>4. /\ g.client[c].refcount = a + b + n + Z[c]
      /\ g.client[c].lingeringRequestCount >= n + p
  BY <1>1, <1>2 DEF m, n
<1> QED BY <1>3, <1>4, Zenon DEF ClientOK, n, a, b

\* unrefClient() gives one reference back, and the client with the last one.
LEMMA UnrefClientRefs ==
  ASSUME NEW h, NEW X, NEW Y, Refs(h, X, Y), NEW c \in Client, Y[c] > 0
  PROVE  LET g == UnrefClient(h, c)
         IN /\ Refs(g, X, [Y EXCEPT ![c] = @ - 1])
            /\ g.request = h.request /\ g.dropped = h.dropped
            /\ SameClients(h, g)
<1> DEFINE g == UnrefClient(h, c)
           Z == [Y EXCEPT ![c] = @ - 1]
<1>0. /\ h \in Servers /\ X \in [Request -> Nat] /\ Y \in [Client -> Nat] /\ Z \in [Client -> Nat]
      /\ Z[c] = Y[c] - 1 /\ \A d \in Client \ {c} : Z[d] = Y[d]
  BY DEF Refs
<1> SUFFICES /\ Refs(g, X, Z) /\ g.request = h.request /\ g.dropped = h.dropped
             /\ SameClients(h, g)
  OBVIOUS
<1> HIDE DEF g, Z
<1>1. CASE h.client[c].refcount = 1
  <2>1. /\ h.client[c].connState # "ACTIVE" /\ h.client[c].connState # "IN_FREELIST"
        /\ h.client[c].currentRequest = NoRequest /\ ~Lingers(h, c) /\ Y[c] = 1
    BY <1>0, <1>1, ClientFields DEF Refs, ClientOK, One
  <2>2. /\ g \in Servers /\ g.request = h.request /\ g.dropped = h.dropped
        /\ \A d \in Client \ {c} : g.client[d] = h.client[d]
        /\ g.client[c].connState = "IN_FREELIST"
        /\ g.client[c].currentRequest = h.client[c].currentRequest
        /\ g.client[c].lingeringRequestCount = h.client[c].lingeringRequestCount
        /\ Quiet(h) => Quiet(g)
    <3> DEFINE d == [h.client[c] EXCEPT !.connState = "IN_FREELIST", !.refcount = 2]
               f == WithClient(h, c, d)
    <3>1. h.client[c] \in ClientObjects
      BY <1>0 DEF Servers
    <3>2. d \in ClientObjects
      BY <3>1, Zenon DEF ClientObjects, ConnStates
    <3>3. [h EXCEPT !.client[c].connState = "IN_FREELIST", !.client[c].refcount = 2] = f
      BY <1>0, Zenon DEF WithClient, Servers
    <3>4. \/ g = f
          \/ /\ g = [f EXCEPT !.serverState = "FINISHED_SHUTDOWN"]
             /\ \A b \in Client : f.client[b].connState = "IN_FREELIST"
      BY <1>1, <3>3, Zenon DEF g, UnrefClient, ClientReachedZeroRefcount
    <3>5. /\ f \in Servers /\ f.serverState = h.serverState /\ f.dropped = h.dropped
          /\ f.request = h.request /\ f.client[c] = d
          /\ \A b \in Client \ {c} : f.client[b] = h.client[b]
      BY <1>0, <3>2, WithClientIs
    <3>6. g \in Servers /\ g.client = f.client /\ g.request = f.request /\ g.dropped = f.dropped
      BY <3>4, <3>5 DEF Servers, ServerStates
    <3> HIDE DEF d, f
    <3>7. Quiet(h) => Quiet(g)
      BY <2>1, <3>4, <3>5, <3>6 DEF Quiet, Servers
    <3>8. /\ d.connState = "IN_FREELIST" /\ d.currentRequest = h.client[c].currentRequest
          /\ d.lingeringRequestCount = h.client[c].lingeringRequestCount
      BY <3>1 DEF d, ClientObjects
    <3> QED BY <3>5, <3>6, <3>7, <3>8
  <2>4. \A d \in Client : Lingers(g, d) <=> Lingers(h, d)
    BY <2>2, SMTT(30) DEF Lingers, Waiting
  <2>5. ASSUME NEW r \in Request PROVE FreeOK(g, X, r) /\ UsedOK(g, X, r)
    <3>1. FreeOK(h, X, r) /\ UsedOK(h, X, r)
      BY DEF Refs
    <3>2. h.request[r].httpState # "IN_FREELIST" => h.request[r].client # c
      BY <2>1, <3>1, HttpServerAssumption DEF UsedOK, Lingers, Waiting
    <3> QED BY <2>2, <3>1, <3>2 DEF FreeOK, UsedOK, Waiting
  <2>6. ASSUME NEW d \in Client PROVE ClientOK(g, Z, d)
    <3>1. ClientOK(h, Y, d)
      BY DEF Refs
    <3>2. CASE d # c
      BY <1>0, <2>2, <2>4, <3>1, <3>2, Zenon DEF ClientOK, One
    <3>3. CASE d = c
      <4>1. /\ g.client[c].connState = "IN_FREELIST" /\ g.client[c].currentRequest = NoRequest
            /\ ~Lingers(g, c) /\ Z[c] = 0 /\ g.client[c].lingeringRequestCount \in Nat
        BY <1>0, <2>1, <2>2, <2>4, ClientFields
      <4>2. ClientOK(g, Z, c)
        BY <4>1 DEF ClientOK, One
      <4> QED BY <3>3, <4>2, Zenon
    <3> QED BY <3>2, <3>3
  <2>7. LingersOnce(g)
    BY <2>2 DEF Refs, LingersOnce, Waiting
  <2> QED BY <1>0, <2>1, <2>2, <2>5, <2>6, <2>7, Zenon DEF SameClients, Refs
<1>2. CASE h.client[c].refcount # 1
  <2>1. h.client[c].connState # "IN_FREELIST" /\ h.client[c].refcount > 1
    BY <1>0, <1>2, ClientFields, SMTT(30) DEF Refs, ClientOK
  <2>2. /\ g \in Servers /\ g.request = h.request /\ g.dropped = h.dropped
        /\ g.serverState = h.serverState
        /\ \A d \in Client \ {c} : g.client[d] = h.client[d]
        /\ g.client[c].connState = h.client[c].connState
        /\ g.client[c].refcount = h.client[c].refcount - 1
        /\ g.client[c].currentRequest = h.client[c].currentRequest
        /\ g.client[c].lingeringRequestCount = h.client[c].lingeringRequestCount
    <3> DEFINE d == [h.client[c] EXCEPT !.refcount = @ - 1]
    <3>1. h.client[c] \in ClientObjects
      BY <1>0 DEF Servers
    <3>2. d \in ClientObjects
      BY <2>1, <3>1 DEF ClientObjects
    <3>3. g = WithClient(h, c, d)
      BY <1>0, <1>2 DEF g, UnrefClient, WithClient, Servers
    <3>4. /\ d.connState = h.client[c].connState /\ d.refcount = h.client[c].refcount - 1
          /\ d.currentRequest = h.client[c].currentRequest
          /\ d.lingeringRequestCount = h.client[c].lingeringRequestCount
      BY <3>1 DEF ClientObjects
    <3> HIDE DEF d
    <3> QED BY <1>0, <3>2, <3>3, <3>4, WithClientIs
  <2>3. Quiet(g)
    BY <1>0, <2>1, <2>2 DEF Refs, Quiet
  <2>4. \A d \in Client : Lingers(g, d) <=> Lingers(h, d)
    BY <2>2, Zenon DEF Lingers, Waiting
  <2>5. ASSUME NEW r \in Request PROVE FreeOK(g, X, r) /\ UsedOK(g, X, r)
    <3>1. FreeOK(h, X, r) /\ UsedOK(h, X, r)
      BY DEF Refs
    <3>2. \A d \in Client : /\ g.client[d].connState = h.client[d].connState
                            /\ g.client[d].currentRequest = h.client[d].currentRequest
      BY <1>0, <2>2
    <3> QED BY <2>2, <3>1, <3>2, Zenon DEF FreeOK, UsedOK, Waiting
  <2>6. ASSUME NEW d \in Client PROVE ClientOK(g, Z, d)
    <3>1. ClientOK(h, Y, d)
      BY DEF Refs
    <3>2. CASE d # c
      BY <1>0, <2>2, <2>4, <3>1, <3>2, Zenon DEF ClientOK, One
    <3>3. CASE d = c
      <4>1. /\ ClientOK(h, Y, c) /\ Y[c] \in Nat /\ Z[c] \in Nat /\ Z[c] = Y[c] - 1
            /\ h.client[c].refcount \in Nat /\ h.client[c].lingeringRequestCount \in Nat
            /\ One(Lingers(g, c)) = One(Lingers(h, c)) /\ One(Lingers(h, c)) \in Nat
        BY <1>0, <2>4, <3>1, <3>3, ClientFields DEF One
      <4>2. /\ g.client[c].refcount \in Nat /\ g.client[c].refcount > 0
            /\ g.client[c].refcount + One(Lingers(h, c)) + Y[c] =
                 h.client[c].refcount + One(Lingers(g, c)) + Z[c]
            /\ g.client[c].lingeringRequestCount + One(Lingers(h, c)) >=
                 h.client[c].lingeringRequestCount + One(Lingers(g, c))
        BY <2>1, <2>2, <4>1
      <4>3. ClientOK(g, Z, c)
        BY <2>1, <2>2, <4>1, <4>2, CountsOK, Zenon
      <4> QED BY <3>3, <4>3, Zenon
    <3> QED BY <3>2, <3>3
  <2>7. LingersOnce(g)
    BY <2>2 DEF Refs, LingersOnce, Waiting
  <2> QED BY <1>0, <2>1, <2>2, <2>3, <2>5, <2>6, <2>7, Zenon DEF SameClients, Refs
<1> QED BY <1>1, <1>2

\* Taking a reference and giving it back changes nothing.
LEMMA TakeAndGive ==
  ASSUME NEW S, NEW Y \in [S -> Nat], NEW c \in S
  PROVE  /\ [[Y EXCEPT ![c] = @ + 1] EXCEPT ![c] = @ - 1] = Y
         /\ [Y EXCEPT ![c] = @ + 1] \in [S -> Nat]
         /\ [Y EXCEPT ![c] = @ + 1][c] = Y[c] + 1
<1> DEFINE Z == [Y EXCEPT ![c] = @ + 1]
           W == [Z EXCEPT ![c] = @ - 1]
<1>1. Z \in [S -> Nat] /\ Z[c] = Y[c] + 1 /\ \A x \in S \ {c} : Z[x] = Y[x]
  OBVIOUS
<1> HIDE DEF Z
<1>2. W \in [S -> Int] /\ \A x \in S : W[x] = Y[x]
  BY <1>1
<1> HIDE DEF W
<1>3. W = Y
  BY <1>2
<1> QED BY <1>1, <1>3 DEF W, Z

\* requestReachedZeroRefcount(), before it gives up its client.
Freed(h, r) ==
  [h EXCEPT !.client[h.request[r].client].lingeringRequestCount = @ - 1,
            !.request[r] = FreeRequest]

\* g is h after request r has gone to the freelist.
Freeing(h, g, V, Z, r) ==
  /\ Refs(g, V, Z) /\ g.dropped = h.dropped /\ g.request[r] = FreeRequest
  /\ \A q \in Request \ {r} : g.request[q] = h.request[q]
  /\ \A d \in Client : /\ g.client[d].connState = h.client[d].connState
                       /\ g.client[d].currentRequest = h.client[d].currentRequest

\* A request that nothing refers to leaves its reference to the client behind.
LEMMA FreeingRefs ==
  ASSUME NEW h, NEW X, NEW Y, Refs(h, X, Y), NEW r \in Request, Waiting(h, r), X[r] = 1
  PROVE  Freeing(h, Freed(h, r), [X EXCEPT ![r] = @ - 1],
                 [Y EXCEPT ![h.request[r].client] = @ + 1], r)
<1> DEFINE c == h.request[r].client
           g == Freed(h, r)
           V == [X EXCEPT ![r] = @ - 1]
           Z == [Y EXCEPT ![c] = @ + 1]
           d == [h.client[c] EXCEPT !.lingeringRequestCount = @ - 1]
           f == WithClient(h, c, d)
<1> SUFFICES /\ Refs(g, V, Z) /\ g.dropped = h.dropped /\ g.request[r] = FreeRequest
             /\ \A q \in Request \ {r} : g.request[q] = h.request[q]
             /\ \A b \in Client : /\ g.client[b].connState = h.client[b].connState
                                  /\ g.client[b].currentRequest = h.client[b].currentRequest
  BY Zenon DEF Freeing
<1>1. /\ h \in Servers /\ X \in [Request -> Nat] /\ Y \in [Client -> Nat]
      /\ FreeOK(h, X, r) /\ UsedOK(h, X, r) /\ LingersOnce(h) /\ Quiet(h)
  BY Zenon DEF Refs
<1>2. /\ c \in Client /\ h.client[c].connState # "IN_FREELIST" /\ Lingers(h, c)
      /\ h.client[c].currentRequest # r /\ h.request[r].session = NoSession
  BY <1>1, Zenon DEF UsedOK, Waiting, Lingers
<1>3. ClientOK(h, Y, c) /\ h.client[c].lingeringRequestCount > 0
  <2> HIDE DEF c
  <2>1. ClientOK(h, Y, c)
    BY <1>2 DEF Refs
  <2>2. h.client[c].lingeringRequestCount \in Nat
    BY <1>1, <1>2, ClientFields, Zenon
  <2> QED BY <1>2, <2>1, <2>2 DEF ClientOK, One
<1>4. /\ V \in [Request -> Nat] /\ V[r] = 0 /\ \A q \in Request \ {r} : V[q] = X[q]
      /\ Z \in [Client -> Nat] /\ Z[c] = Y[c] + 1 /\ \A b \in Client \ {c} : Z[b] = Y[b]
  BY <1>1, <1>2
<1>5. /\ d \in ClientObjects /\ d.connState = h.client[c].connState
      /\ d.refcount = h.client[c].refcount /\ d.currentRequest = h.client[c].currentRequest
      /\ d.lingeringRequestCount = h.client[c].lingeringRequestCount - 1
  <2> HIDE DEF c
  <2>1. h.client[c] \in ClientObjects
    BY <1>1, <1>2, ClientFields, Zenon
  <2> QED BY <1>3, <2>1, SMTT(30) DEF ClientObjects
<1>6. FreeRequest \in RequestObjects /\ FreeRequest.httpState = "IN_FREELIST" /\ FreeRequest.client = NoClient
  BY HttpServerAssumption DEF FreeRequest, RequestObjects, HttpStates
<1>7. g = WithRequest(f, r, FreeRequest)
  BY <1>1, Zenon DEF Freed, WithClient, WithRequest, Servers
<1>8. /\ f \in Servers /\ f.serverState = h.serverState /\ f.dropped = h.dropped
      /\ f.request = h.request /\ f.client[c] = d
      /\ \A b \in Client \ {c} : f.client[b] = h.client[b]
  BY <1>1, <1>2, <1>5, WithClientIs, Zenon
<1> HIDE DEF c, d, f, g, V, Z
<1>9. /\ g \in Servers /\ g.serverState = h.serverState /\ g.dropped = h.dropped
      /\ g.client = f.client /\ g.request[r] = FreeRequest
      /\ \A q \in Request \ {r} : g.request[q] = h.request[q]
  BY <1>6, <1>7, <1>8, WithRequestIs
<1>10. \A b \in Client : /\ g.client[b].connState = h.client[b].connState
                         /\ g.client[b].refcount = h.client[b].refcount
                         /\ g.client[b].currentRequest = h.client[b].currentRequest
  BY <1>5, <1>8, <1>9, Zenon
<1>11. /\ ~Lingers(g, c)
       /\ \A b \in Client \ {c} : Lingers(g, b) <=> Lingers(h, b)
  <2>1. ~Lingers(g, c)
    BY <1>1, <1>6, <1>9 DEF Lingers, LingersOnce, Waiting, c
  <2> QED BY <1>6, <1>9, <2>1, Zenon DEF Lingers, Waiting, c
<1>12. ASSUME NEW q \in Request PROVE FreeOK(g, V, q) /\ UsedOK(g, V, q)
  <2>1. CASE q = r
    BY <1>4, <1>6, <1>9, <2>1, Zenon DEF FreeOK, UsedOK
  <2>2. CASE q # r
    <3>1. FreeOK(h, X, q) /\ UsedOK(h, X, q)
      BY DEF Refs
    <3>2. g.request[q] = h.request[q] /\ V[q] = X[q]
      BY <1>4, <1>9, <2>2
    <3>3. \A b \in Client :
            /\ g.client[b].connState = "IN_FREELIST" <=> h.client[b].connState = "IN_FREELIST"
            /\ g.client[b].currentRequest = q <=> h.client[b].currentRequest = q
      BY <1>10, Zenon
    <3> QED BY <3>1, <3>2, <3>3, OtherRequestOK, Zenon
  <2> QED BY <2>1, <2>2, Zenon
<1>13. ASSUME NEW b \in Client PROVE ClientOK(g, Z, b)
  <2>1. ClientOK(h, Y, b)
    BY DEF Refs
  <2>2. h.client[b].currentRequest # r
    BY <1>1, <1>2, <2>1, HttpServerAssumption, Zenon DEF ClientOK, c
  <2>3. h.client[b].currentRequest # NoRequest =>
          g.request[h.client[b].currentRequest] = h.request[h.client[b].currentRequest]
    BY <1>1, <1>9, <2>2, ClientFields
  <2>4. CASE b = c
    <3>1. g.client[c].lingeringRequestCount = h.client[c].lingeringRequestCount - 1
      BY <1>5, <1>8, <1>9, Zenon
    <3>2. h.client[c].lingeringRequestCount \in Nat /\ h.client[c].refcount \in Nat /\ Y[c] \in Nat
      BY <1>1, <1>2, ClientFields, Zenon
    <3>3. /\ g.client[c].lingeringRequestCount \in Nat /\ g.client[c].refcount \in Nat
          /\ g.client[c].refcount = h.client[c].refcount /\ h.client[c].refcount > 0 /\ Z[c] \in Nat
      <4>1. g.client[c].refcount = h.client[c].refcount
        BY <1>2, <1>10, Zenon
      <4>2. h.client[c].refcount > 0
        BY <1>2, <1>3, Zenon DEF ClientOK
      <4>3. Z[c] \in Nat
        BY <1>2, <1>4, Zenon
      <4>4. g.client[c].lingeringRequestCount \in Nat
        BY <1>3, <3>1, <3>2, SMTT(30)
      <4> QED BY <3>2, <4>1, <4>2, <4>3, <4>4, Zenon
    <3>4. /\ g.client[c].refcount + One(Lingers(h, c)) + Y[c] =
               h.client[c].refcount + One(Lingers(g, c)) + Z[c]
          /\ g.client[c].lingeringRequestCount + One(Lingers(h, c)) >=
               h.client[c].lingeringRequestCount + One(Lingers(g, c))
      <4>1. One(Lingers(h, c)) = 1 /\ One(Lingers(g, c)) = 0 /\ Z[c] = Y[c] + 1
        BY <1>2, <1>4, <1>11 DEF One
      <4> QED BY <3>1, <3>2, <3>3, <4>1
    <3>5. ClientOK(g, Z, c)
      BY <1>2, <1>3, <1>10, <2>3, <2>4, <3>2, <3>3, <3>4, CountsOK, Zenon
    <3> QED BY <2>4, <3>5, Zenon
  <2>5. CASE b # c
    <3>1. g.client[b] = h.client[b] /\ Z[b] = Y[b] /\ (Lingers(g, b) <=> Lingers(h, b))
      BY <1>4, <1>8, <1>9, <1>11, <2>5
    <3> QED BY <2>1, <2>3, <3>1, OtherClientOK, Zenon
  <2> QED BY <2>4, <2>5
<1>14. LingersOnce(g)
  BY <1>1, <1>6, <1>9 DEF LingersOnce, Waiting
<1>15. Quiet(g)
  BY <1>1, <1>9, <1>10 DEF Quiet
<1> QED BY <1>4, <1>9, <1>10, <1>12, <1>13, <1>14, <1>15, Zenon DEF Refs

\* A request stays the current one of its client, or goes on waiting: n references from
\* outside are left.
LEMMA UpdateRefs ==
  ASSUME NEW h, NEW X, NEW Y, Refs(h, X, Y), NEW r \in Request, NEW n \in Nat, NEW g \in Servers,
         h.request[r].httpState # "IN_FREELIST", g.request[r].httpState # "IN_FREELIST",
         g.serverState = h.serverState,
         \A q \in Request \ {r} : g.request[q] = h.request[q],
         g.request[r].client = h.request[r].client,
         Waiting(g, r) <=> Waiting(h, r),
         g.request[r].refcount = One(~Waiting(h, r)) + n,
         Waiting(g, r) => n > 0,
         g.request[r].httpState = "PARSING_HEADERS" =>
           n = 0 /\ g.request[r].sessionCheckoutTry = 0,
         g.request[r].httpState # "COMPLETE" => g.request[r].session = NoSession,
         \A c \in Client :
           /\ g.client[c].connState = h.client[c].connState
           /\ g.client[c].refcount = h.client[c].refcount
           /\ g.client[c].currentRequest = h.client[c].currentRequest
           /\ g.client[c].lingeringRequestCount >= h.client[c].lingeringRequestCount,
         g.request[r].httpState = "FLUSHING_OUTPUT" =>
           \/ h.request[r].httpState = "FLUSHING_OUTPUT"
           \/ g.client[h.request[r].client].lingeringRequestCount
                > h.client[h.request[r].client].lingeringRequestCount
  PROVE  Refs(g, [X EXCEPT ![r] = n], Y)
<1> DEFINE V == [X EXCEPT ![r] = n]
<1>1. /\ h \in Servers /\ X \in [Request -> Nat] /\ Y \in [Client -> Nat]
      /\ FreeOK(h, X, r) /\ UsedOK(h, X, r) /\ LingersOnce(h) /\ Quiet(h)
  BY DEF Refs
<1>2. V \in [Request -> Nat] /\ V[r] = n /\ \A q \in Request \ {r} : V[q] = X[q]
  BY <1>1
<1> HIDE DEF V
<1>3. \A q \in Request : /\ g.request[q].client = h.request[q].client
                         /\ Waiting(g, q) <=> Waiting(h, q)
  BY DEF Waiting
<1>4. \A c \in Client : Lingers(g, c) <=> Lingers(h, c)
  BY <1>3 DEF Lingers
<1>5. ASSUME NEW q \in Request PROVE FreeOK(g, V, q) /\ UsedOK(g, V, q)
  <2>1. FreeOK(h, X, q) /\ UsedOK(h, X, q)
    BY DEF Refs
  <2>2. CASE q = r
    BY <1>2, <1>3, <2>1, <2>2, Zenon DEF FreeOK, UsedOK, One
  <2>3. CASE q # r
    <3>1. \A b \in Client :
            /\ g.client[b].connState = "IN_FREELIST" <=> h.client[b].connState = "IN_FREELIST"
            /\ g.client[b].currentRequest = q <=> h.client[b].currentRequest = q
      BY Zenon
    <3>2. g.request[q] = h.request[q] /\ V[q] = X[q]
      BY <1>2, <2>3, Zenon
    <3> QED BY <2>1, <3>1, <3>2, OtherRequestOK, ZenonT(30)
  <2> QED BY <2>2, <2>3
<1>6. ASSUME NEW c \in Client PROVE ClientOK(g, Y, c)
  <2>1. ClientOK(h, Y, c)
    BY Zenon DEF Refs
  <2>2. /\ h.client[c].lingeringRequestCount \in Nat /\ g.client[c].lingeringRequestCount \in Nat
        /\ h.client[c].currentRequest \in Request \cup {NoRequest}
    BY <1>1, ClientFields, Zenon
  <2>3. CASE h.client[c].currentRequest # r
    <3>1. h.client[c].currentRequest # NoRequest =>
            g.request[h.client[c].currentRequest] = h.request[h.client[c].currentRequest]
      BY <2>2, <2>3, Zenon
    <3>2. /\ g.client[c].connState = h.client[c].connState
          /\ g.client[c].refcount = h.client[c].refcount
          /\ g.client[c].currentRequest = h.client[c].currentRequest
          /\ g.client[c].lingeringRequestCount >= h.client[c].lingeringRequestCount
          /\ Lingers(g, c) <=> Lingers(h, c)
      BY <1>4, ZenonT(30)
    <3>3. g.client[c].lingeringRequestCount >=
            One(Lingers(g, c)) + One(/\ g.client[c].currentRequest # NoRequest
                                     /\ g.request[g.client[c].currentRequest].httpState
                                          = "FLUSHING_OUTPUT")
      <4> DEFINE m == h.client[c].lingeringRequestCount
                 l == g.client[c].lingeringRequestCount
                 flushing(k) == /\ k.client[c].currentRequest # NoRequest
                                /\ k.request[k.client[c].currentRequest].httpState
                                     = "FLUSHING_OUTPUT"
                 a == One(Lingers(h, c))
                 b == One(flushing(h))
      <4>1. m >= a + b
        BY <2>1, Zenon DEF ClientOK
      <4>2. One(Lingers(g, c)) = a
        BY <3>2, Zenon DEF One
      <4>3. flushing(g) <=> flushing(h)
        BY <3>1, <3>2, Zenon
      <4>4. One(flushing(g)) = b
        BY <4>3, Zenon DEF One
      <4>5. a \in Nat /\ b \in Nat
        BY DEF One
      <4>6. m \in Nat /\ l \in Nat /\ l >= m
        BY <2>2, <3>2, Zenon
      <4>7. l >= a + b
        <5> HIDE DEF m, l, a, b
        <5> QED BY <4>1, <4>5, <4>6
      <4> QED BY <4>2, <4>4, <4>7, Zenon
    <3>4. One(Lingers(g, c)) = One(Lingers(h, c))
      BY <3>2, Zenon DEF One
    <3> QED BY <2>1, <3>1, <3>2, <3>3, <3>4, Zenon DEF ClientOK
  <2>4. CASE h.client[c].currentRequest = r
    <3>1. h.request[r].client = c
      BY <2>1, <2>4, HttpServerAssumption, Zenon DEF ClientOK
    <3>2. /\ r # NoRequest /\ g.client[c].connState = h.client[c].connState
          /\ g.client[c].refcount = h.client[c].refcount
          /\ g.client[c].currentRequest = r
          /\ g.client[c].lingeringRequestCount >= h.client[c].lingeringRequestCount
      BY <2>4, HttpServerAssumption, ZenonT(30)
    <3>3. One(Lingers(g, c)) = One(Lingers(h, c))
      BY <1>4, Zenon DEF One
    <3>4. g.client[c].lingeringRequestCount >=
            One(Lingers(g, c)) + One(g.request[r].httpState = "FLUSHING_OUTPUT")
      <4> DEFINE m == h.client[c].lingeringRequestCount
                 l == g.client[c].lingeringRequestCount
                 a == One(Lingers(h, c))
                 b == One(h.request[r].httpState = "FLUSHING_OUTPUT")
                 e == One(g.request[r].httpState = "FLUSHING_OUTPUT")
      <4>1. One(r # NoRequest /\ h.request[r].httpState = "FLUSHING_OUTPUT") = b
        BY <3>2, Zenon DEF One
      <4>2. m >= a + b
        BY <2>1, <2>4, <4>1, Zenon DEF ClientOK
      <4>3. a \in Nat /\ b \in {0, 1} /\ e \in {0, 1}
        BY DEF One
      <4>4. m \in Nat /\ l \in Nat /\ l >= m
        BY <2>2, <3>2, Zenon
      <4>5. e = 0 \/ b = 1 \/ l > m
        BY <3>1, Zenon DEF One
      <4>6. l >= a + e
        <5> HIDE DEF m, l, a, b, e
        <5> QED BY <4>2, <4>3, <4>4, <4>5
      <4> QED BY <3>3, <4>6, Zenon
    <3>5. One(r # NoRequest /\ g.request[r].httpState = "FLUSHING_OUTPUT")
            = One(g.request[r].httpState = "FLUSHING_OUTPUT")
      BY <3>2, Zenon DEF One
    <3> QED BY <1>3, <2>1, <2>4, <3>1, <3>2, <3>3, <3>4, <3>5, Zenon DEF ClientOK
  <2> QED BY <2>3, <2>4
<1>7. LingersOnce(g)
  BY <1>1, <1>3, Zenon DEF LingersOnce
<1>8. Quiet(g)
  BY <1>1 DEF Quiet
<1> QED BY <1>1, <1>2, <1>5, <1>6, <1>7, <1>8, Zenon DEF Refs, V

\* refRequest() takes one more reference, for a callback.
LEMMA RefRequestRefs ==
  ASSUME NEW h, NEW X, NEW Y, Refs(h, X, Y), NEW r \in Request,
         h.request[r].httpState \notin {"IN_FREELIST", "PARSING_HEADERS"}
  PROVE  LET g == RefRequest(h, r)
         IN /\ Refs(g, [X EXCEPT ![r] = @ + 1], Y) /\ Preserves(h, g, [X EXCEPT ![r] = @ + 1])
            /\ g.client = h.client /\ g.dropped = h.dropped
            /\ \A q \in Request \ {r} : g.request[q] = h.request[q]
            /\ g.request[r].httpState = h.request[r].httpState
<1> DEFINE d == [h.request[r] EXCEPT !.refcount = @ + 1]
           g == RefRequest(h, r)
<1>1. h \in Servers /\ X \in [Request -> Nat] /\ UsedOK(h, X, r)
  BY DEF Refs
<1>2. h.request[r] \in RequestObjects /\ h.request[r].refcount \in Nat
  BY <1>1, RequestFields
<1>3. /\ d \in RequestObjects /\ d.refcount = h.request[r].refcount + 1
      /\ d.httpState = h.request[r].httpState /\ d.client = h.request[r].client
      /\ d.session = h.request[r].session
      /\ d.sessionCheckoutTry = h.request[r].sessionCheckoutTry
  BY <1>2 DEF RequestObjects
<1>4. g = WithRequest(h, r, d)
  BY <1>1 DEF RefRequest, WithRequest, Servers
<1> HIDE DEF d, g
<1>5. /\ g \in Servers /\ g.serverState = h.serverState /\ g.dropped = h.dropped
      /\ g.client = h.client /\ g.request[r] = d
      /\ \A q \in Request \ {r} : g.request[q] = h.request[q]
  BY <1>1, <1>3, <1>4, WithRequestIs, ZenonT(30)
<1>6. /\ Waiting(g, r) <=> Waiting(h, r)
      /\ g.request[r].refcount = One(~Waiting(h, r)) + X[r] + 1 /\ X[r] + 1 \in Nat /\ X[r] + 1 > 0
      /\ g.request[r].httpState # "COMPLETE" => g.request[r].session = NoSession
  BY <1>1, <1>2, <1>3, <1>5 DEF UsedOK, Waiting, One
<1>7. \A c \in Client :
        /\ g.client[c].connState = h.client[c].connState
        /\ g.client[c].refcount = h.client[c].refcount
        /\ g.client[c].currentRequest = h.client[c].currentRequest
        /\ g.client[c].lingeringRequestCount >= h.client[c].lingeringRequestCount
  BY <1>1, <1>5, ClientFields
<1>8. Refs(g, [X EXCEPT ![r] = X[r] + 1], Y)
  <2> DEFINE n == X[r] + 1
  <2>1. n \in Nat /\ n > 0 /\ g.request[r].refcount = One(~Waiting(h, r)) + n
    BY <1>1, <1>6, SMTT(30) DEF One
  <2> HIDE DEF n
  <2>2. Refs(g, [X EXCEPT ![r] = n], Y)
    <3>1. /\ g.request[r].httpState = h.request[r].httpState
          /\ g.request[r].client = h.request[r].client
      BY <1>3, <1>5
    <3> QED BY <1>5, <1>6, <1>7, <2>1, <3>1, UpdateRefs, Zenon
  <2> QED BY <2>2 DEF n
<1>9. Preserves(h, g, [X EXCEPT ![r] = @ + 1])
  <2>1. \A q \in Request : g.request[q].session = h.request[q].session
    BY <1>3, <1>5
  <2>2. Conserves(h, g)
    BY <1>5, <2>1, SameSessions
  <2>3. \A q \in Request : Keeps(h, g, q)
    BY <1>3, <1>5 DEF Keeps
  <2> QED BY <2>2, <2>3, Zenon DEF Preserves
<1> QED BY <1>3, <1>5, <1>8, <1>9 DEF g

\* g is h after one of the X[r] references to request r has been given back.
Unreffed(h, g, X, V, Y, r) ==
  /\ Refs(g, V, Y) /\ Preserves(h, g, V) /\ g.dropped = h.dropped
  /\ \A q \in Request \ {r} : g.request[q] = h.request[q]
  /\ SameClients(h, g)
  /\ IF Waiting(h, r) /\ X[r] = 1 THEN g.request[r].httpState = "IN_FREELIST"
     ELSE /\ g.request[r].httpState = h.request[r].httpState
          /\ g.request[r].client = h.request[r].client

\* unrefRequest() gives one reference back, and the request with the last one.
LEMMA UnrefRequestRefs ==
  ASSUME NEW h, NEW X, NEW Y, Refs(h, X, Y), NEW r \in Request, X[r] > 0
  PROVE  Unreffed(h, UnrefRequest(h, r), X, [X EXCEPT ![r] = @ - 1], Y, r)
<1> DEFINE g == UnrefRequest(h, r)
           V == [X EXCEPT ![r] = @ - 1]
<1>1. /\ h \in Servers /\ X \in [Request -> Nat] /\ Y \in [Client -> Nat]
      /\ FreeOK(h, X, r) /\ UsedOK(h, X, r)
  BY Zenon DEF Refs
<1>2. /\ h.request[r].httpState # "IN_FREELIST" /\ h.request[r].client \in Client
      /\ h.request[r].refcount = One(~Waiting(h, r)) + X[r]
      /\ h.request[r].httpState # "PARSING_HEADERS"
      /\ h.request[r].httpState # "COMPLETE" => h.request[r].session = NoSession
  BY <1>1 DEF FreeOK, UsedOK
<1>3. V \in [Request -> Nat] /\ V[r] = X[r] - 1 /\ \A q \in Request \ {r} : V[q] = X[q]
  BY <1>1
<1>4. CASE h.request[r].refcount = 1
  <2> DEFINE c == h.request[r].client
             f == Freed(h, r)
             Z == [Y EXCEPT ![c] = @ + 1]
  <2>1. Waiting(h, r) /\ X[r] = 1
    BY <1>1, <1>2, <1>4, SMTT(30) DEF One
  <2>2. /\ Refs(f, V, Z) /\ f.dropped = h.dropped /\ f.request[r] = FreeRequest
        /\ \A q \in Request \ {r} : f.request[q] = h.request[q]
        /\ \A d \in Client : /\ f.client[d].connState = h.client[d].connState
                             /\ f.client[d].currentRequest = h.client[d].currentRequest
    <3>1. Freeing(h, f, V, Z, r)
      BY <2>1, FreeingRefs, ZenonT(30)
    <3> HIDE DEF f, V, Z
    <3> QED BY <3>1, Zenon DEF Freeing
  <2>3. Z[c] > 0 /\ [Z EXCEPT ![c] = @ - 1] = Y
    <3> HIDE DEF c
    <3>1. c \in Client
      BY <1>2 DEF c
    <3> QED BY <1>1, <3>1, TakeAndGive
  <2>4. g = UnrefClient(f, c)
    BY <1>4 DEF UnrefRequest, RequestReachedZeroRefcount, Freed
  <2>5. c \in Client
    BY <1>2
  <2> HIDE DEF c, f, g, V, Z
  <2>6. /\ Refs(g, V, [Z EXCEPT ![c] = @ - 1]) /\ g.request = f.request /\ g.dropped = f.dropped
        /\ SameClients(f, g)
    BY <2>2, <2>3, <2>4, <2>5, UnrefClientRefs, Zenon
  <2>7. FreeRequest.session = NoSession /\ FreeRequest.httpState = "IN_FREELIST"
    BY DEF FreeRequest
  <2>8. Preserves(h, g, V)
    <3>1. \A q \in Request : g.request[q].session = h.request[q].session
      BY <1>2, <2>1, <2>2, <2>6, <2>7 DEF Waiting
    <3>2. Conserves(h, g)
      BY <2>2, <2>6, <3>1, SameSessions
    <3>3. ASSUME NEW q \in Request, V[q] > 0 PROVE Keeps(h, g, q)
      BY <1>1, <1>3, <2>1, <2>2, <2>6, <3>3 DEF Keeps
    <3> QED BY <3>2, <3>3 DEF Preserves
  <2>9. Refs(g, V, Y)
    BY <2>3, <2>6, Zenon
  <2> QED BY <2>1, <2>2, <2>6, <2>7, <2>8, <2>9, Zenon DEF SameClients, Unreffed, g, V
<1>5. CASE h.request[r].refcount # 1
  <2> DEFINE d == [h.request[r] EXCEPT !.refcount = @ - 1]
             n == X[r] - 1
  <2>1. h.request[r] \in RequestObjects /\ h.request[r].refcount \in Nat
    BY <1>1, RequestFields
  <2>2. /\ n \in Nat /\ h.request[r].refcount > 1
        /\ Waiting(h, r) => n > 0
        /\ h.request[r].refcount - 1 = One(~Waiting(h, r)) + n
    BY <1>1, <1>2, <1>5, <2>1 DEF One
  <2>3. /\ d \in RequestObjects /\ d.refcount = h.request[r].refcount - 1
        /\ d.httpState = h.request[r].httpState /\ d.client = h.request[r].client
        /\ d.session = h.request[r].session
        /\ d.sessionCheckoutTry = h.request[r].sessionCheckoutTry
    BY <2>1, <2>2 DEF RequestObjects
  <2>4. g = WithRequest(h, r, d)
    BY <1>1, <1>5 DEF UnrefRequest, WithRequest, Servers
  <2>5. V = [X EXCEPT ![r] = n]
    OBVIOUS
  <2> HIDE DEF d, g, n, V
  <2>6. /\ g \in Servers /\ g.serverState = h.serverState /\ g.dropped = h.dropped
        /\ g.client = h.client /\ g.request[r] = d
        /\ \A q \in Request \ {r} : g.request[q] = h.request[q]
    BY <1>1, <2>3, <2>4, WithRequestIs
  <2>7. \A c \in Client :
          /\ g.client[c].connState = h.client[c].connState
          /\ g.client[c].refcount = h.client[c].refcount
          /\ g.client[c].currentRequest = h.client[c].currentRequest
          /\ g.client[c].lingeringRequestCount >= h.client[c].lingeringRequestCount
    BY <1>1, <2>6, ClientFields
  <2>8. /\ g.request[r].httpState = h.request[r].httpState
        /\ g.request[r].client = h.request[r].client
        /\ g.request[r].session = h.request[r].session
        /\ g.request[r].refcount = One(~Waiting(h, r)) + n
        /\ Waiting(g, r) <=> Waiting(h, r)
    BY <2>2, <2>3, <2>6 DEF Waiting
  <2>9. Refs(g, [X EXCEPT ![r] = n], Y)
    BY <1>2, <2>2, <2>6, <2>7, <2>8, UpdateRefs, ZenonT(30)
  <2>10. Preserves(h, g, V)
    <3>1. \A q \in Request : g.request[q].session = h.request[q].session
      BY <2>6, <2>8
    <3>2. Conserves(h, g)
      BY <2>6, <3>1, SameSessions
    <3>3. \A q \in Request : Keeps(h, g, q)
      BY <2>3, <2>6 DEF Keeps
    <3> QED BY <3>2, <3>3 DEF Preserves
  <2>11. ~(Waiting(h, r) /\ X[r] = 1)
    BY <1>2, <1>5, <2>1, SMTT(30) DEF One
  <2> QED BY <2>5, <2>6, <2>8, <2>9, <2>10, <2>11 DEF SameClients, Unreffed, g, V
<1> QED BY <1>4, <1>5

\* deinitializeRequest() moves the session of the request to those to be destroyed.
LEMMA DropSessionIs ==
  ASSUME NEW h \in Servers, NEW r \in Request, NEW keep \in BOOLEAN
  PROVE  LET g == DropSession(h, r, keep)
         IN /\ g \in Servers /\ g.serverState = h.serverState /\ g.client = h.client
            /\ \A q \in Request \ {r} : g.request[q] = h.request[q]
            /\ g.request[r].httpState = h.request[r].httpState
            /\ g.request[r].refcount = h.request[r].refcount
            /\ g.request[r].client = h.request[r].client
            /\ g.request[r].wantKeepAlive = h.request[r].wantKeepAlive
            /\ g.request[r].sessionCheckoutTry = h.request[r].sessionCheckoutTry
            /\ g.request[r].session = NoSession
            /\ Conserves(h, g)
<1>1. CASE h.request[r].session = NoSession
  BY <1>1 DEF DropSession, Conserves
<1>2. CASE h.request[r].session # NoSession
  <2> DEFINE g == DropSession(h, r, keep)
             s == h.request[r].session
             x == [session |-> s, keep |-> keep]
             d == [h.request[r] EXCEPT !.session = NoSession]
             f == WithRequest(h, r, d)
             n == Len(h.dropped)
  <2>1. h.request[r] \in RequestObjects /\ s \in Session
    BY <1>2, RequestFields
  <2>2. /\ d \in RequestObjects /\ d.httpState = h.request[r].httpState
        /\ d.refcount = h.request[r].refcount /\ d.client = h.request[r].client
        /\ d.wantKeepAlive = h.request[r].wantKeepAlive
        /\ d.sessionCheckoutTry = h.request[r].sessionCheckoutTry /\ d.session = NoSession
    BY <2>1 DEF RequestObjects
  <2>3. g = [f EXCEPT !.dropped = Append(h.dropped, x)]
    BY <1>2, Zenon DEF DropSession, WithRequest, Servers
  <2>4. x \in [session : Session, keep : BOOLEAN] /\ x.session = s
    BY <2>1
  <2>5. h.dropped \in Seq([session : Session, keep : BOOLEAN])
    BY DEF Servers
  <2> HIDE DEF d, f, g, s, x
  <2>6. /\ f \in Servers /\ f.serverState = h.serverState /\ f.dropped = h.dropped
        /\ f.client = h.client /\ f.request[r] = d
        /\ \A q \in Request \ {r} : f.request[q] = h.request[q]
    BY <2>2, WithRequestIs DEF f
  <2>7. /\ Append(h.dropped, x) \in Seq([session : Session, keep : BOOLEAN])
        /\ Len(Append(h.dropped, x)) = n + 1 /\ Append(h.dropped, x)[n + 1] = x
        /\ \A i \in 1..n : Append(h.dropped, x)[i] = h.dropped[i]
    BY <2>4, <2>5
  <2>8. /\ g \in Servers /\ g.serverState = f.serverState /\ g.client = f.client
        /\ g.request = f.request /\ g.dropped = Append(h.dropped, x)
    BY <2>3, <2>6, <2>7, Zenon DEF Servers
  <2>9. n \in Nat
    BY <2>5
  <2> HIDE DEF n
  <2>10. /\ Len(g.dropped) = n + 1 /\ Len(h.dropped) = n /\ g.dropped[n + 1].session = s
         /\ \A i \in 1..n : g.dropped[i] = h.dropped[i]
         /\ g.request[r].session = NoSession
         /\ \A q \in Request \ {r} : g.request[q] = h.request[q]
    BY <2>2, <2>4, <2>6, <2>7, <2>8 DEF n
  <2>11. ASSUME OwnedOnce(h) PROVE OwnedOnce(g)
    <3>1. ASSUME NEW q \in Request, NEW p \in Request, q # p,
                 g.request[q].session = g.request[p].session
          PROVE  g.request[q].session = NoSession
      BY <2>10, <2>11, <3>1 DEF OwnedOnce
    <3>2. \A i \in 1..n : h.dropped[i].session # s
      BY <2>10, <2>11 DEF OwnedOnce, s
    <3>3. ASSUME NEW i \in 1..(n + 1), NEW j \in 1..(n + 1),
                 g.dropped[i].session = g.dropped[j].session
          PROVE  i = j
      <4>1. CASE i \in 1..n /\ j \in 1..n
        BY <2>10, <2>11, <3>3, <4>1, Zenon DEF OwnedOnce
      <4>2. CASE i = n + 1 \/ j = n + 1
        BY <2>9, <2>10, <3>2, <3>3, <4>2, SMTT(30)
      <4> QED BY <2>9, <4>1, <4>2
    <3>4. ASSUME NEW q \in Request, NEW i \in 1..(n + 1)
          PROVE  g.request[q].session # g.dropped[i].session
      <4>1. g.dropped[i].session \in Session
        <5>1. CASE i \in 1..n
          <6>1. h.dropped[i] \in [session : Session, keep : BOOLEAN]
            BY <2>5, <2>10, <5>1, SeqElement, Zenon
          <6> QED BY <2>10, <5>1, <6>1
        <5>2. CASE i = n + 1
          BY <2>1, <2>10, <5>2
        <5> QED BY <2>9, <5>1, <5>2
      <4>2. CASE q = r
        BY <2>10, <4>1, <4>2, SessionsAssumption
      <4>3. CASE q # r /\ i = n + 1
        BY <1>2, <2>10, <2>11, <4>3 DEF OwnedOnce, s
      <4>4. CASE q # r /\ i \in 1..n
        <5>1. h.request[q].session # h.dropped[i].session
          BY <2>10, <2>11, <4>4, Zenon DEF OwnedOnce
        <5> QED BY <2>10, <4>4, <5>1, Zenon
      <4> QED BY <2>9, <4>2, <4>3, <4>4
    <3> QED BY <2>10, <3>1, <3>3, <3>4 DEF OwnedOnce
  <2>12. ASSUME NEW t \in Session PROVE Owned(g, t) <=> Owned(h, t)
    <3>1. t # NoSession
      BY SessionsAssumption
    <3>2. ASSUME Owned(g, t) PROVE Owned(h, t)
      <4>1. CASE \E q \in Request : g.request[q].session = t
        BY <2>10, <3>1, <4>1 DEF Owned
      <4>2. CASE \E i \in 1..(n + 1) : g.dropped[i].session = t
        BY <2>9, <2>10, <4>2 DEF Owned, s
      <4> QED BY <2>10, <3>2, <4>1, <4>2 DEF Owned
    <3>3. ASSUME Owned(h, t) PROVE Owned(g, t)
      <4>1. CASE \E q \in Request : h.request[q].session = t
        <5>1. n + 1 \in 1..(n + 1)
          BY <2>9
        <5> QED BY <2>10, <4>1, <5>1 DEF Owned, s
      <4>2. CASE \E i \in 1..n : h.dropped[i].session = t
        BY <2>9, <2>10, <4>2 DEF Owned
      <4> QED BY <2>10, <3>3, <4>1, <4>2 DEF Owned
    <3> QED BY <3>2, <3>3
  <2>13. Conserves(h, g)
    BY <2>11, <2>12 DEF Conserves
  <2> QED BY <2>2, <2>6, <2>8, <2>10, <2>13 DEF g
<1> QED BY <1>1, <1>2

-----------------------------------------------------------------------------
(* The end of a request and of a client *)

\* g is h after request r has gone to the lingering requests of client c.
Deinitialized(h, g, c, r) ==
  /\ g \in Servers /\ g.serverState = h.serverState
  /\ \A q \in Request \ {r} : g.request[q] = h.request[q]
  /\ Waiting(g, r)
  /\ g.request[r].refcount = h.request[r].refcount
  /\ g.request[r].client = h.request[r].client
  /\ g.request[r].wantKeepAlive = h.request[r].wantKeepAlive
  /\ g.request[r].session = NoSession
  /\ \A b \in Client \ {c} : g.client[b] = h.client[b]
  /\ g.client[c].connState = h.client[c].connState
  /\ g.client[c].refcount = h.client[c].refcount
  /\ g.client[c].currentRequest = h.client[c].currentRequest
  /\ g.client[c].lingeringRequestCount >= h.client[c].lingeringRequestCount
  /\ g.client[c].lingeringRequestCount > 0
  /\ Conserves(h, g)

LEMMA DeinitializeIs ==
  ASSUME NEW h \in Servers, NEW c \in Client, NEW r \in Request, ~Waiting(h, r)
  PROVE  LET g == DeinitializeRequestAndAddToFreelist(h, c, r)
         IN /\ Deinitialized(h, g, c, r)
            /\ g.client[c].lingeringRequestCount > h.client[c].lingeringRequestCount
<1> DEFINE d == [h.client[c] EXCEPT !.lingeringRequestCount = @ + 1]
           q == [h.request[r] EXCEPT !.httpState = "WAITING_FOR_REFERENCES"]
           e == WithClient(h, c, d)
           f == WithRequest(e, r, q)
           g == DropSession(f, r, FALSE)
<1>1. /\ h.client[c] \in ClientObjects /\ h.request[r] \in RequestObjects
      /\ h.client[c].lingeringRequestCount \in Nat
  BY ClientFields, RequestFields
<1>2. /\ d \in ClientObjects /\ d.connState = h.client[c].connState
      /\ d.refcount = h.client[c].refcount /\ d.currentRequest = h.client[c].currentRequest
      /\ d.lingeringRequestCount = h.client[c].lingeringRequestCount + 1
  BY <1>1 DEF ClientObjects
<1>3. /\ q \in RequestObjects /\ q.httpState = "WAITING_FOR_REFERENCES"
      /\ q.refcount = h.request[r].refcount /\ q.client = h.request[r].client
      /\ q.wantKeepAlive = h.request[r].wantKeepAlive /\ q.session = h.request[r].session
  BY <1>1 DEF RequestObjects, HttpStates
<1>4. DeinitializeRequestAndAddToFreelist(h, c, r) = g
  BY Zenon DEF DeinitializeRequestAndAddToFreelist, Waiting, WithClient, WithRequest, Servers
<1> HIDE DEF d, q, e, f, g
<1>5. /\ e \in Servers /\ e.serverState = h.serverState /\ e.dropped = h.dropped
      /\ e.request = h.request /\ e.client[c] = d
      /\ \A b \in Client \ {c} : e.client[b] = h.client[b]
  BY <1>2, WithClientIs DEF e
<1>6. /\ f \in Servers /\ f.serverState = h.serverState /\ f.dropped = h.dropped
      /\ f.client = e.client /\ f.request[r] = q
      /\ \A p \in Request \ {r} : f.request[p] = h.request[p]
  BY <1>3, <1>5, WithRequestIs DEF f
<1>7. Conserves(h, f)
  BY <1>3, <1>6, SameSessions
<1>8. /\ g \in Servers /\ g.serverState = f.serverState /\ g.client = f.client
      /\ \A p \in Request \ {r} : g.request[p] = f.request[p]
      /\ g.request[r].httpState = f.request[r].httpState
      /\ g.request[r].refcount = f.request[r].refcount
      /\ g.request[r].client = f.request[r].client
      /\ g.request[r].wantKeepAlive = f.request[r].wantKeepAlive
      /\ g.request[r].session = NoSession
      /\ Conserves(f, g)
  BY <1>6, DropSessionIs, Zenon DEF g
<1>9. Conserves(h, g)
  BY <1>7, <1>8 DEF Conserves
<1>10. Deinitialized(h, g, c, r) /\ g.client[c].lingeringRequestCount > h.client[c].lingeringRequestCount
  BY <1>1, <1>2, <1>3, <1>5, <1>6, <1>8, <1>9 DEF Deinitialized, Waiting
<1> QED BY <1>4, <1>10

\* g is h after client c has let go of request r, which now waits for its references.
Retired(h, g, V, Y, c, r) ==
  /\ Refs(g, V, Y) /\ Preserves(h, g, V) /\ r \in Request
  /\ Waiting(g, r) /\ g.request[r].client = c /\ g.client[c].currentRequest = NoRequest
  /\ \A q \in Request \ {r} : g.request[q] = h.request[q]
  /\ \A d \in Client : g.client[d].connState = h.client[d].connState
  /\ g.serverState = h.serverState

\* The client lets go of its current request: currentRequest = NULL, the reference that
\* went with it is now one from outside.
LEMMA RetireRefs ==
  ASSUME NEW h, NEW X, NEW Y, Refs(h, X, Y), NEW c \in Client, NEW f,
         h.client[c].currentRequest # NoRequest, ~Lingers(h, c),
         Deinitialized(h, f, c, h.client[c].currentRequest)
  PROVE  LET r == h.client[c].currentRequest
         IN Retired(h, [f EXCEPT !.client[c].currentRequest = NoRequest],
                    [X EXCEPT ![r] = @ + 1], Y, c, r)
<1> DEFINE r == h.client[c].currentRequest
           d == [f.client[c] EXCEPT !.currentRequest = NoRequest]
           g == [f EXCEPT !.client[c].currentRequest = NoRequest]
           V == [X EXCEPT ![r] = @ + 1]
<1> SUFFICES /\ Refs(g, V, Y) /\ Preserves(h, g, V) /\ r \in Request
             /\ Waiting(g, r) /\ g.request[r].client = c /\ g.client[c].currentRequest = NoRequest
             /\ \A q \in Request \ {r} : g.request[q] = h.request[q]
             /\ \A b \in Client : g.client[b].connState = h.client[b].connState
             /\ g.serverState = h.serverState
  BY Zenon DEF Retired
<1>1. /\ h \in Servers /\ X \in [Request -> Nat] /\ Y \in [Client -> Nat]
      /\ ClientOK(h, Y, c) /\ LingersOnce(h) /\ Quiet(h)
  BY ZenonT(30) DEF Refs
<1>2. r \in Request /\ f \in Servers
  BY <1>1, ClientFields, ZenonT(30) DEF Deinitialized
<1>3. f.client[c] \in ClientObjects
  BY <1>2, ClientFields
<1>4. g = WithClient(f, c, d)
  BY <1>2 DEF WithClient, Servers
<1>5. /\ d \in ClientObjects /\ d.connState = f.client[c].connState
      /\ d.refcount = f.client[c].refcount /\ d.currentRequest = NoRequest
      /\ d.lingeringRequestCount = f.client[c].lingeringRequestCount
  BY <1>3 DEF ClientObjects
<1> HIDE DEF d, g
<1>6. /\ g \in Servers /\ g.serverState = f.serverState /\ g.dropped = f.dropped
      /\ g.request = f.request /\ g.client[c] = d
      /\ \A b \in Client \ {c} : g.client[b] = f.client[b]
  BY <1>2, <1>4, <1>5, WithClientIs, SMTT(30)
<1>7. /\ V \in [Request -> Nat] /\ V[r] = X[r] + 1 /\ X[r] \in Nat
      /\ \A q \in Request \ {r} : V[q] = X[q]
  BY <1>1, <1>2, SMTT(30)
<1>8. /\ h.request[r].client = c /\ h.request[r].httpState # "IN_FREELIST"
      /\ UsedOK(h, X, r) /\ ~Waiting(h, r) /\ h.request[r].refcount = 1 + X[r]
      /\ h.client[c].connState = "ACTIVE"
  <2>1. UsedOK(h, X, r) /\ FreeOK(h, X, r)
    BY <1>2, Zenon DEF Refs
  <2>2. /\ h.request[r].client = c /\ h.request[r].httpState # "IN_FREELIST"
        /\ h.client[c].connState = "ACTIVE"
    BY <1>1, Zenon DEF ClientOK
  <2> QED BY <2>1, <2>2, Zenon DEF UsedOK, One
<1> HIDE DEF r, V
<1>9. /\ g.serverState = h.serverState
      /\ \A q \in Request \ {r} : g.request[q] = h.request[q]
      /\ Waiting(g, r) /\ g.request[r].refcount = 1 + X[r] /\ g.request[r].client = c
      /\ g.request[r].httpState = "WAITING_FOR_REFERENCES" /\ g.request[r].session = NoSession
      /\ \A b \in Client \ {c} : g.client[b] = h.client[b]
      /\ g.client[c].connState = "ACTIVE" /\ g.client[c].refcount = h.client[c].refcount
      /\ g.client[c].currentRequest = NoRequest /\ g.client[c].lingeringRequestCount >= 1
      /\ g.client[c].lingeringRequestCount \in Nat
  <2>1. Deinitialized(h, f, c, r)
    BY ZenonT(30) DEF r
  <2>2. /\ g.serverState = h.serverState
        /\ \A q \in Request \ {r} : g.request[q] = h.request[q]
        /\ Waiting(g, r) /\ g.request[r].refcount = 1 + X[r] /\ g.request[r].client = c
        /\ g.request[r].httpState = "WAITING_FOR_REFERENCES" /\ g.request[r].session = NoSession
    BY <1>6, <1>8, <2>1, ZenonT(60) DEF Deinitialized, Waiting
  <2>3. \A b \in Client \ {c} : g.client[b] = h.client[b]
    BY <1>6, <2>1, Zenon DEF Deinitialized
  <2>4. f.client[c].lingeringRequestCount \in Nat /\ f.client[c].lingeringRequestCount > 0
    BY <1>2, <2>1, ClientFields, Zenon DEF Deinitialized
  <2>5. /\ g.client[c].connState = "ACTIVE" /\ g.client[c].refcount = h.client[c].refcount
        /\ g.client[c].currentRequest = NoRequest /\ g.client[c].lingeringRequestCount >= 1
        /\ g.client[c].lingeringRequestCount \in Nat
    <3>1. f.client[c].connState = h.client[c].connState /\ f.client[c].refcount = h.client[c].refcount
      BY <2>1, Zenon DEF Deinitialized
    <3> QED BY <1>5, <1>6, <1>8, <2>4, <3>1, SMTT(30)
  <2> QED BY <2>2, <2>3, <2>5
<1>10. /\ Lingers(g, c) /\ \A b \in Client \ {c} : Lingers(g, b) <=> Lingers(h, b)
  BY <1>2, <1>8, <1>9 DEF Lingers, Waiting
<1>11. ASSUME NEW q \in Request PROVE FreeOK(g, V, q) /\ UsedOK(g, V, q)
  <2>1. FreeOK(h, X, q) /\ UsedOK(h, X, q)
    BY Zenon DEF Refs
  <2>2. CASE q = r
    <3>1. V[r] \in Nat /\ V[r] > 0 /\ g.request[r].refcount = 0 + V[r]
      BY <1>7, <1>9, SMTT(30)
    <3>2. g.client[c].currentRequest # r /\ g.client[c].connState # "IN_FREELIST"
      BY <1>2, <1>9, HttpServerAssumption, Zenon
    <3> QED BY <1>9, <2>2, <3>1, <3>2, ZenonT(30) DEF FreeOK, UsedOK, One
  <2>3. CASE q # r
    <3>1. g.request[q] = h.request[q] /\ V[q] = X[q] /\ h.client[c].currentRequest # q
      BY <1>7, <1>9, <2>3, Zenon DEF r
    <3>2. g.client[c].currentRequest # q
      BY <1>9, HttpServerAssumption
    <3>3. \A b \in Client :
            /\ g.client[b].connState = "IN_FREELIST" <=> h.client[b].connState = "IN_FREELIST"
            /\ g.client[b].currentRequest = q <=> h.client[b].currentRequest = q
      BY <1>8, <1>9, <3>1, <3>2
    <3> QED BY <2>1, <3>1, <3>3, OtherRequestOK, Zenon
  <2> QED BY <2>2, <2>3
<1>12. ASSUME NEW b \in Client PROVE ClientOK(g, Y, b)
  <2>1. ClientOK(h, Y, b)
    BY DEF Refs
  <2>2. CASE b = c
    <3>1. h.client[c].refcount = 2 + Y[c] /\ Y[c] \in Nat
      BY <1>1, <1>8, SMTT(30) DEF ClientOK, One
    <3>2. /\ g.client[c].connState = "ACTIVE" /\ g.client[c].refcount = 2 + Y[c]
          /\ g.client[c].currentRequest = NoRequest /\ g.client[c].lingeringRequestCount >= 1
          /\ Lingers(g, c)
      BY <1>9, <1>10, <3>1, Zenon
    <3>3. ClientOK(g, Y, c)
      BY <3>1, <3>2, SMTT(30) DEF ClientOK, One
    <3> QED BY <2>2, <3>3, Zenon
  <2>3. CASE b # c
    <3>1. h.client[b].currentRequest # r
      BY <1>2, <1>8, <2>1, <2>3, HttpServerAssumption, Zenon DEF ClientOK
    <3>2. h.client[b].currentRequest # NoRequest =>
            g.request[h.client[b].currentRequest] = h.request[h.client[b].currentRequest]
      BY <1>1, <1>9, <3>1, ClientFields, Zenon
    <3> QED BY <1>9, <1>10, <2>1, <2>3, <3>2, OtherClientOK, Zenon
  <2> QED BY <2>2, <2>3, Zenon
<1>13. LingersOnce(g)
  BY <1>1, <1>2, <1>9, SMTT(30) DEF LingersOnce, Lingers, Waiting
<1>14. Quiet(g)
  BY <1>1, <1>8, <1>9, Zenon DEF Quiet
<1>15. Refs(g, V, Y)
  BY <1>1, <1>6, <1>7, <1>11, <1>12, <1>13, <1>14, Zenon DEF Refs
<1>16. Preserves(h, g, V)
  <2>1. Conserves(f, g)
    BY <1>6, SameSessions, Zenon
  <2>2. Conserves(h, g)
    BY <2>1, Zenon DEF Deinitialized, Conserves
  <2>3. \A q \in Request : Keeps(h, g, q)
    BY <1>8, <1>9 DEF Keeps, Waiting
  <2> QED BY <2>2, <2>3, Zenon DEF Preserves
<1> QED BY <1>2, <1>8, <1>9, <1>15, <1>16, Zenon

\* g is h after the server has given its reference to client c to the caller.
Detached(h, g, X, Z, c) ==
  /\ Refs(g, X, Z) /\ g.request = h.request /\ g.dropped = h.dropped
  /\ g.client[c].connState = "DISCONNECTED"
  /\ \A b \in Client \ {c} : g.client[b] = h.client[b]

\* The server's own reference to a client, once it has no current request.
LEMMA DetachRefs ==
  ASSUME NEW h, NEW X, NEW Y, Refs(h, X, Y), NEW c \in Client,
         h.client[c].connState = "ACTIVE", h.client[c].currentRequest = NoRequest
  PROVE  Detached(h, [h EXCEPT !.client[c].connState = "DISCONNECTED"],
                  X, [Y EXCEPT ![c] = @ + 1], c)
<1> DEFINE g == [h EXCEPT !.client[c].connState = "DISCONNECTED"]
           d == [h.client[c] EXCEPT !.connState = "DISCONNECTED"]
           Z == [Y EXCEPT ![c] = @ + 1]
<1> SUFFICES /\ Refs(g, X, Z) /\ g.request = h.request /\ g.dropped = h.dropped
             /\ g.client[c].connState = "DISCONNECTED"
             /\ \A b \in Client \ {c} : g.client[b] = h.client[b]
  BY DEF Detached
<1>1. /\ h \in Servers /\ X \in [Request -> Nat] /\ Y \in [Client -> Nat]
      /\ LingersOnce(h) /\ Quiet(h) /\ h.client[c] \in ClientObjects
  BY ClientFields DEF Refs
<1>2. /\ d \in ClientObjects /\ d.connState = "DISCONNECTED"
      /\ d.refcount = h.client[c].refcount /\ d.currentRequest = NoRequest
      /\ d.lingeringRequestCount = h.client[c].lingeringRequestCount
  BY <1>1 DEF ClientObjects, ConnStates
<1>3. g = WithClient(h, c, d)
  BY <1>1 DEF WithClient, Servers
<1>4. /\ Z \in [Client -> Nat] /\ Z[c] = Y[c] + 1 /\ Y[c] \in Nat
      /\ \A b \in Client \ {c} : Z[b] = Y[b]
  BY <1>1
<1> HIDE DEF d, g, Z
<1>5. /\ g \in Servers /\ g.serverState = h.serverState /\ g.dropped = h.dropped
      /\ g.request = h.request /\ g.client[c] = d
      /\ \A b \in Client \ {c} : g.client[b] = h.client[b]
  BY <1>1, <1>2, <1>3, WithClientIs, ZenonT(30)
<1>6. \A b \in Client : Lingers(g, b) <=> Lingers(h, b)
  BY <1>5 DEF Lingers, Waiting
<1>7. ASSUME NEW q \in Request PROVE FreeOK(g, X, q) /\ UsedOK(g, X, q)
  <2>1. FreeOK(h, X, q) /\ UsedOK(h, X, q)
    BY DEF Refs
  <2>2. \A b \in Client :
          /\ g.client[b].connState = "IN_FREELIST" <=> h.client[b].connState = "IN_FREELIST"
          /\ g.client[b].currentRequest = q <=> h.client[b].currentRequest = q
    BY <1>2, <1>5
  <2>3. g.request[q] = h.request[q]
    BY <1>5
  <2> QED BY <2>1, <2>2, <2>3, OtherRequestOK, Zenon
<1>8. ASSUME NEW b \in Client PROVE ClientOK(g, Z, b)
  <2>1. ClientOK(h, Y, b)
    BY DEF Refs
  <2>2. CASE b = c
    <3>1. ClientOK(h, Y, c)
      BY <2>1, <2>2
    <3>2. g.client[c].refcount = One(Lingers(g, c)) + Z[c] /\ g.client[c].refcount > 0
      BY <1>2, <1>4, <1>5, <1>6, <3>1, SMTT(30) DEF ClientOK, One
    <3>3. g.client[c].lingeringRequestCount >= One(Lingers(g, c))
      BY <1>2, <1>5, <1>6, <3>1, SMTT(30) DEF ClientOK, One
    <3>4. ClientOK(g, Z, c)
      BY <1>2, <1>4, <1>5, <3>2, <3>3, SMTT(30) DEF ClientOK, One
    <3> QED BY <2>2, <3>4
  <2>3. CASE b # c
    <3>1. /\ g.client[b] = h.client[b] /\ Z[b] = Y[b] /\ (Lingers(g, b) <=> Lingers(h, b))
          /\ \A r : g.request[r] = h.request[r]
      BY <1>4, <1>5, <1>6, <2>3
    <3> QED BY <2>1, <3>1, OtherClientOK, Zenon
  <2> QED BY <2>2, <2>3
<1>9. LingersOnce(g)
  BY <1>1, <1>5, Zenon DEF LingersOnce, Waiting
<1>10. Quiet(g)
  BY <1>1, <1>5 DEF Quiet
<1> QED BY <1>1, <1>2, <1>4, <1>5, <1>7, <1>8, <1>9, <1>10, Zenon DEF Refs

-----------------------------------------------------------------------------
(* The end of a client, and the requests that come next *)

\* disconnect() ends the client and its current request, of which the callbacks that hold
\* it are all that is left.
LEMMA DisconnectClientRefs ==
  ASSUME NEW h, NEW X, NEW Y, Refs(h, X, Y), NEW c \in Client,
         h.client[c].currentRequest # NoRequest => ~Lingers(h, c)
  PROVE  LET g == DisconnectClient(h, c)
         IN /\ Refs(g, X, Y) /\ Preserves(h, g, X)
            /\ g.client[c].connState # "ACTIVE"
            /\ \A b \in Client : g.client[b].connState = "ACTIVE" => h.client[b].connState = "ACTIVE"
            /\ \A q \in Request : \/ g.request[q] = h.request[q]
                                  \/ g.request[q].httpState = "IN_FREELIST"
                                  \/ /\ q = h.client[c].currentRequest
                                     /\ Waiting(g, q) /\ g.request[q].client = c
<1> DEFINE g == DisconnectClient(h, c)
           f == OnClientDisconnecting(h, c)
           e == [f EXCEPT !.client[c].connState = "DISCONNECTED"]
           Z == [Y EXCEPT ![c] = @ + 1]
           r == h.client[c].currentRequest
<1>1. /\ h \in Servers /\ X \in [Request -> Nat] /\ Y \in [Client -> Nat] /\ ClientOK(h, Y, c)
  BY DEF Refs
<1>2. CASE h.client[c].connState # "ACTIVE"
  <2>1. g = h
    BY <1>2 DEF DisconnectClient
  <2>2. Preserves(h, h, X)
    BY DEF Preserves, Conserves, Keeps
  <2> QED BY <1>2, <2>1, <2>2
<1>3. CASE h.client[c].connState = "ACTIVE"
  <2>1. /\ Refs(f, X, Y) /\ Preserves(h, f, X) /\ f.client[c].currentRequest = NoRequest
        /\ \A b \in Client : f.client[b].connState = "ACTIVE" <=> h.client[b].connState = "ACTIVE"
        /\ \A q \in Request : \/ f.request[q] = h.request[q]
                              \/ f.request[q].httpState = "IN_FREELIST"
                              \/ q = r /\ Waiting(f, q) /\ f.request[q].client = c
    <3>1. CASE r = NoRequest
      <4>1. f = h
        BY <3>1 DEF OnClientDisconnecting
      <4>2. Preserves(h, h, X)
        BY DEF Preserves, Conserves, Keeps
      <4> QED BY <3>1, <4>1, <4>2
    <3>2. CASE r # NoRequest
      <4> DEFINE i == DeinitializeRequestAndAddToFreelist(h, c, r)
                 j == [i EXCEPT !.client[c].currentRequest = NoRequest]
                 V == [X EXCEPT ![r] = @ + 1]
      <4>1. f = UnrefRequest(j, r)
        BY <3>2, Zenon DEF OnClientDisconnecting
      <4>2. r \in Request /\ ~Waiting(h, r)
        <5>1. r \in Request /\ h.request[r].client = c /\ h.request[r].httpState # "IN_FREELIST"
          BY <1>1, <3>2, ClientFields, Zenon DEF ClientOK
        <5>2. UsedOK(h, X, r)
          BY <5>1, Zenon DEF Refs
        <5> QED BY <5>1, <5>2, Zenon DEF UsedOK
      <4>3. Deinitialized(h, i, c, r)
        BY <1>1, <4>2, DeinitializeIs, ZenonT(30)
      <4>4. /\ Refs(j, V, Y) /\ Preserves(h, j, V) /\ Waiting(j, r) /\ j.request[r].client = c
            /\ j.client[c].currentRequest = NoRequest
            /\ \A q \in Request \ {r} : j.request[q] = h.request[q]
            /\ \A b \in Client : j.client[b].connState = h.client[b].connState
        <5> HIDE DEF i
        <5>1. ~Lingers(h, c)
          BY <3>2, Zenon
        <5>2. Retired(h, j, V, Y, c, r)
          BY <3>2, <4>3, <5>1, RetireRefs, ZenonT(30)
        <5> HIDE DEF j, V, r
        <5> QED BY <5>2, Zenon DEF Retired
      <4>5. V[r] > 0 /\ [V EXCEPT ![r] = @ - 1] = X /\ \A q \in Request : X[q] > 0 => V[q] > 0
        <5> HIDE DEF r
        <5>1. [V EXCEPT ![r] = @ - 1] = X /\ V[r] = X[r] + 1
          BY <1>1, <4>2, TakeAndGive, Zenon
        <5> QED BY <1>1, <4>2, <5>1
      <4> HIDE DEF i, j, r, V, f
      <4>6. /\ Refs(f, X, Y) /\ Preserves(j, f, X)
            /\ \A q \in Request \ {r} : f.request[q] = j.request[q]
            /\ SameClients(j, f)
            /\ \/ f.request[r].httpState = "IN_FREELIST"
               \/ Waiting(f, r) /\ f.request[r].client = c
        <5>1. Unreffed(j, f, V, X, Y, r)
          BY <4>1, <4>2, <4>4, <4>5, UnrefRequestRefs, Zenon
        <5> QED BY <4>4, <5>1, Zenon DEF Unreffed, Waiting
      <4>7. Preserves(h, f, X)
        BY <4>4, <4>5, <4>6, PreservesTransitive, SMTT(30)
      <4>8. f.client[c].currentRequest = NoRequest
        BY <4>4, <4>6 DEF SameClients
      <4> QED BY <4>4, <4>6, <4>7, <4>8 DEF SameClients
    <3> QED BY <3>1, <3>2
  <2>2. g = UnrefClient(e, c)
    BY <1>3 DEF DisconnectClient
  <2> HIDE DEF f, g
  <2>3. /\ Refs(e, X, Z) /\ e.request = f.request /\ e.dropped = f.dropped
        /\ e.client[c].connState = "DISCONNECTED"
        /\ \A b \in Client \ {c} : e.client[b] = f.client[b]
    <3>1. Detached(f, e, X, Z, c)
      BY <1>3, <2>1, DetachRefs
    <3> HIDE DEF e, Z
    <3> QED BY <3>1, Zenon DEF Detached
  <2>4. Z[c] > 0 /\ [Z EXCEPT ![c] = @ - 1] = Y
    BY <1>1, TakeAndGive
  <2> HIDE DEF e, Z
  <2>5. /\ Refs(g, X, Y) /\ g.request = e.request /\ g.dropped = e.dropped
        /\ SameClients(e, g)
    BY <2>2, <2>3, <2>4, UnrefClientRefs, Zenon
  <2>6. Preserves(h, g, X)
    <3>1. Conserves(f, g)
      BY <2>3, <2>5, SameSessions
    <3> QED BY <2>1, <2>3, <2>5, <3>1, SMTT(30) DEF Preserves, Conserves, Keeps
  <2> QED BY <2>1, <2>3, <2>5, <2>6, SMTT(30) DEF g, Waiting, SameClients
<1> QED BY <1>2, <1>3

-----------------------------------------------------------------------------
\* checkoutRequestObject() finds a request.
HasFree(h) == \E r \in Request : h.request[r].httpState = "IN_FREELIST"

\* A client that has no current request gets a new one, which holds it.
LEMMA HandleNextRequestRefs ==
  ASSUME NEW h, NEW X, NEW Y, Refs(h, X, Y), NEW c \in Client,
         h.client[c].connState = "ACTIVE", h.client[c].currentRequest = NoRequest,
         HasFree(h)
  PROVE  LET g == HandleNextRequest(h, c)
         IN /\ Refs(g, X, Y) /\ Preserves(h, g, X)
            /\ \A b \in Client : g.client[b].connState = h.client[b].connState
            /\ \A q \in Request : \/ g.request[q] = h.request[q]
                                  \/ g.request[q].httpState = "PARSING_HEADERS"
<1> DEFINE r == CHOOSE r \in Request : h.request[r].httpState = "IN_FREELIST"
           g == HandleNextRequest(h, c)
           d == [h.client[c] EXCEPT !.refcount = @ + 1, !.currentRequest = r]
           q == [FreeRequest EXCEPT !.httpState = "PARSING_HEADERS", !.client = c]
           f == WithClient(h, c, d)
<1>1. /\ h \in Servers /\ X \in [Request -> Nat] /\ Y \in [Client -> Nat]
      /\ LingersOnce(h) /\ Quiet(h) /\ ClientOK(h, Y, c)
      /\ h.client[c] \in ClientObjects /\ h.client[c].refcount \in Nat
  BY ClientFields DEF Refs
<1>2. r \in Request /\ h.request[r].httpState = "IN_FREELIST"
  BY DEF HasFree
<1>3. g = WithRequest(f, r, q)
  <2>1. g = [RefClient(h, c) EXCEPT !.client[c].currentRequest = r, !.request[r] = q]
    BY DEF HandleNextRequest
  <2> HIDE DEF g, r, q
  <2> QED BY <1>1, <1>2, <2>1, Zenon DEF RefClient, WithRequest, WithClient, Servers
<1>4. /\ q \in RequestObjects /\ q.httpState = "PARSING_HEADERS" /\ q.client = c
      /\ q.refcount = 1 /\ q.session = NoSession /\ q.sessionCheckoutTry = 0
  <2>1. /\ FreeRequest \in RequestObjects /\ FreeRequest.refcount = 1
        /\ FreeRequest.session = NoSession /\ FreeRequest.sessionCheckoutTry = 0
    BY HttpServerAssumption DEF FreeRequest, RequestObjects, HttpStates
  <2> QED BY <2>1, Zenon DEF RequestObjects, HttpStates
<1> HIDE DEF r, g, q
<1>5. /\ d \in ClientObjects /\ d.connState = "ACTIVE" /\ d.refcount = h.client[c].refcount + 1
      /\ d.currentRequest = r /\ d.lingeringRequestCount = h.client[c].lingeringRequestCount
  <2> DEFINE x == [h.client[c] EXCEPT !.refcount = @ + 1]
  <2>1. /\ x \in ClientObjects /\ x.connState = "ACTIVE" /\ x.refcount = h.client[c].refcount + 1
        /\ x.lingeringRequestCount = h.client[c].lingeringRequestCount
    BY <1>1 DEF ClientObjects
  <2>2. d = [x EXCEPT !.currentRequest = r]
    OBVIOUS
  <2> HIDE DEF x, f, d
  <2>3. /\ d \in ClientObjects /\ d.connState = x.connState /\ d.refcount = x.refcount
        /\ d.currentRequest = r /\ d.lingeringRequestCount = x.lingeringRequestCount
    BY <1>2, <2>1, <2>2 DEF ClientObjects
  <2> QED BY <2>1, <2>3, Zenon
<1> HIDE DEF d
<1>6. /\ f \in Servers /\ f.serverState = h.serverState /\ f.dropped = h.dropped
      /\ f.request = h.request /\ f.client[c] = d
      /\ \A b \in Client \ {c} : f.client[b] = h.client[b]
  BY <1>1, <1>5, WithClientIs
<1> HIDE DEF f
<1>7. /\ g \in Servers /\ g.serverState = h.serverState /\ g.dropped = h.dropped
      /\ g.client[c] = d /\ \A b \in Client \ {c} : g.client[b] = h.client[b]
      /\ g.request[r] = q /\ \A p \in Request \ {r} : g.request[p] = h.request[p]
  BY <1>2, <1>3, <1>4, <1>6, WithRequestIs
<1>8. X[r] = 0 /\ h.request[r].client = NoClient /\ h.request[r].session = NoSession
  <2>1. FreeOK(h, X, r)
    BY <1>2 DEF Refs
  <2> QED BY <1>2, <2>1 DEF FreeOK, FreeRequest
<1>9. \A b \in Client : Lingers(g, b) <=> Lingers(h, b)
  BY <1>2, <1>4, <1>7 DEF Lingers, Waiting
<1>10. ASSUME NEW p \in Request PROVE FreeOK(g, X, p) /\ UsedOK(g, X, p)
  <2>1. FreeOK(h, X, p) /\ UsedOK(h, X, p)
    BY Zenon DEF Refs
  <2>2. CASE p = r
    BY <1>4, <1>5, <1>7, <1>8, <2>2, SMTT(30) DEF FreeOK, UsedOK, Waiting, One
  <2>3. CASE p # r
    <3>1. /\ g.request[p] = h.request[p] /\ g.client[c].currentRequest # p
          /\ h.client[c].currentRequest # p
      BY <1>5, <1>7, <2>3, HttpServerAssumption, Zenon
    <3>2. g.client[c].connState = "ACTIVE"
      BY <1>5, <1>7
    <3>3. \A b \in Client :
            /\ g.client[b].connState = "IN_FREELIST" <=> h.client[b].connState = "IN_FREELIST"
            /\ g.client[b].currentRequest = p <=> h.client[b].currentRequest = p
      BY <1>7, <3>1, <3>2
    <3> QED BY <2>1, <3>1, <3>3, OtherRequestOK, Zenon
  <2> QED BY <2>2, <2>3
<1>11. ASSUME NEW b \in Client PROVE ClientOK(g, Y, b)
  <2>1. ClientOK(h, Y, b)
    BY DEF Refs
  <2>2. CASE b = c
    <3>1. h.client[c].refcount = 1 + One(Lingers(h, c)) + Y[c] /\ Y[c] \in Nat
      BY <1>1 DEF ClientOK, One
    <3>2. /\ g.client[c].refcount = 2 + One(Lingers(g, c)) + Y[c] /\ g.client[c].refcount > 0
          /\ g.client[c].lingeringRequestCount >= One(Lingers(g, c))
      BY <1>1, <1>5, <1>7, <1>9, <3>1 DEF ClientOK, One
    <3>3. g.client[c].connState = "ACTIVE" /\ g.client[c].currentRequest = r /\ r # NoRequest
      BY <1>2, <1>5, <1>7, HttpServerAssumption, Zenon
    <3>4. g.request[r].httpState = "PARSING_HEADERS" /\ g.request[r].client = c
      BY <1>4, <1>7, Zenon
    <3>5. ClientOK(g, Y, c)
      BY <3>1, <3>2, <3>3, <3>4, SMTT(30) DEF ClientOK, One
    <3> QED BY <2>2, <3>5, Zenon
  <2>3. CASE b # c
    <3>1. h.client[b].currentRequest # r
      BY <1>2, <2>1, HttpServerAssumption, Zenon DEF ClientOK
    <3>2. h.client[b].currentRequest # NoRequest =>
            g.request[h.client[b].currentRequest] = h.request[h.client[b].currentRequest]
      BY <1>1, <1>7, <3>1, ClientFields, Zenon
    <3> QED BY <1>7, <1>9, <2>1, <2>3, <3>2, OtherClientOK, Zenon
  <2> QED BY <2>2, <2>3
<1>12. LingersOnce(g)
  BY <1>1, <1>2, <1>4, <1>7, SMTT(30) DEF LingersOnce, Waiting
<1>13. Quiet(g)
  BY <1>1, <1>7, Zenon DEF Quiet
<1>14. Refs(g, X, Y)
  BY <1>1, <1>7, <1>10, <1>11, <1>12, <1>13, Zenon DEF Refs
<1>15. Preserves(h, g, X)
  <2>1. \A p \in Request : g.request[p].session = h.request[p].session
    BY <1>4, <1>7, <1>8
  <2>2. Conserves(h, g)
    BY <1>7, <2>1, SameSessions
  <2>3. ASSUME NEW p \in Request, X[p] > 0 PROVE Keeps(h, g, p)
    BY <1>7, <1>8, <2>3 DEF Keeps
  <2> QED BY <2>2, <2>3, Zenon DEF Preserves
<1>16. \A b \in Client : g.client[b].connState = h.client[b].connState
  BY <1>5, <1>7
<1>17. \A p \in Request : \/ g.request[p] = h.request[p]
                          \/ g.request[p].httpState = "PARSING_HEADERS"
  BY <1>4, <1>7
<1> QED BY <1>14, <1>15, <1>16, <1>17, Zenon DEF g

\* What a call that ends request r of client c leaves of the requests.
Ended(h, g, c, r) ==
  /\ \A b \in Client : g.client[b].connState = "ACTIVE" => h.client[b].connState = "ACTIVE"
  /\ \A q \in Request : \/ g.request[q] = h.request[q]
                        \/ g.request[q].httpState \in {"IN_FREELIST", "PARSING_HEADERS"}
                        \/ q = r /\ g.request[q].httpState # "COMPLETE"

\* doneWithCurrentRequest(), in a call that has deinitialized the request of client c: the
\* client goes on with its next request, or is disconnected.
LEMMA DoneRefs ==
  ASSUME NEW h, NEW X, NEW Y, Refs(h, X, Y), NEW c \in Client, NEW f,
         h.client[c].currentRequest # NoRequest, ~Lingers(h, c),
         Deinitialized(h, f, c, h.client[c].currentRequest),
         HasFree(h)
  PROVE  LET g == DoneWithCurrentRequest(f, c)
         IN Refs(g, X, Y) /\ Preserves(h, g, X) /\ Ended(h, g, c, h.client[c].currentRequest)
<1> DEFINE r == h.client[c].currentRequest
           j == [f EXCEPT !.client[c].currentRequest = NoRequest]
           k == UnrefRequest(j, r)
           V == [X EXCEPT ![r] = @ + 1]
           g == DoneWithCurrentRequest(f, c)
<1>1. /\ h \in Servers /\ X \in [Request -> Nat] /\ ClientOK(h, Y, c)
      /\ f.client[c].currentRequest = r
  BY Zenon DEF Refs, Deinitialized
<1>2. h.client[c].connState = "ACTIVE"
  BY <1>1, ZenonT(30) DEF ClientOK
<1>3. /\ Refs(j, V, Y) /\ Preserves(h, j, V) /\ r \in Request
      /\ Waiting(j, r) /\ j.request[r].client = c /\ j.client[c].currentRequest = NoRequest
      /\ \A q \in Request \ {r} : j.request[q] = h.request[q]
      /\ \A b \in Client : j.client[b].connState = h.client[b].connState
  <2>1. Retired(h, j, V, Y, c, r)
    BY RetireRefs, ZenonT(30)
  <2> HIDE DEF j, V, r
  <2> QED BY <2>1, Zenon DEF Retired
<1>4. V[r] > 0 /\ [V EXCEPT ![r] = @ - 1] = X /\ \A q \in Request : X[q] > 0 => V[q] > 0
  <2> HIDE DEF r
  <2>1. [V EXCEPT ![r] = @ - 1] = X /\ V[r] = X[r] + 1
    BY <1>1, <1>3, TakeAndGive
  <2> QED BY <1>1, <1>3, <2>1
<1>5. g = HandleNextRequest(k, c) \/ g = DisconnectClient(k, c)
  BY <1>1 DEF DoneWithCurrentRequest
<1> SUFFICES Refs(g, X, Y) /\ Preserves(h, g, X) /\ Ended(h, g, c, r)
  OBVIOUS
<1> HIDE DEF g, j, k, r, V
<1>6. /\ Refs(k, X, Y) /\ Preserves(j, k, X) /\ SameClients(j, k)
      /\ \A q \in Request \ {r} : k.request[q] = j.request[q]
      /\ k.request[r].httpState \in {"IN_FREELIST", "WAITING_FOR_REFERENCES"}
  <2>1. Unreffed(j, k, V, X, Y, r)
    BY <1>3, <1>4, UnrefRequestRefs DEF k
  <2> QED BY <1>3, <2>1 DEF Unreffed, Waiting
<1>7. Preserves(h, k, X)
  BY <1>3, <1>4, <1>6, PreservesTransitive
<1>8. /\ k.client[c].connState = "ACTIVE" /\ k.client[c].currentRequest = NoRequest
      /\ \A b \in Client : k.client[b].connState = "ACTIVE" <=> h.client[b].connState = "ACTIVE"
      /\ \A q \in Request \ {r} : k.request[q] = h.request[q]
  BY <1>2, <1>3, <1>6 DEF SameClients
<1>9. HasFree(k)
  <2>1. h.request[r].httpState # "IN_FREELIST"
    BY <1>1, Zenon DEF ClientOK, r
  <2> QED BY <1>8, <2>1, Zenon DEF HasFree
<1>10. CASE g = HandleNextRequest(k, c)
  <2>1. /\ Refs(g, X, Y) /\ Preserves(k, g, X)
        /\ \A b \in Client : g.client[b].connState = k.client[b].connState
        /\ \A q \in Request : \/ g.request[q] = k.request[q]
                              \/ g.request[q].httpState = "PARSING_HEADERS"
    BY <1>6, <1>8, <1>9, <1>10, HandleNextRequestRefs, SMTT(30)
  <2>2. Preserves(h, g, X)
    BY <1>7, <2>1, PreservesTransitive, Zenon
  <2>3. Ended(h, g, c, r)
    BY <1>6, <1>8, <2>1, ZenonT(30) DEF Ended
  <2> QED BY <2>1, <2>2, <2>3, Zenon
<1>11. CASE g = DisconnectClient(k, c)
  <2>1. /\ Refs(g, X, Y) /\ Preserves(k, g, X)
        /\ \A b \in Client : g.client[b].connState = "ACTIVE" => k.client[b].connState = "ACTIVE"
        /\ \A q \in Request : \/ g.request[q] = k.request[q]
                              \/ g.request[q].httpState = "IN_FREELIST"
                              \/ q = k.client[c].currentRequest
        /\ g.client[c].connState # "ACTIVE"
    BY <1>6, <1>8, <1>11, DisconnectClientRefs
  <2>2. Preserves(h, g, X)
    BY <1>7, <2>1, PreservesTransitive, Zenon
  <2>3. Ended(h, g, c, r)
    BY <1>6, <1>8, <2>1, HttpServerAssumption DEF Ended
  <2> QED BY <2>1, <2>2, <2>3, Zenon
<1> QED BY <1>5, <1>10, <1>11, Zenon

LEMMA SettledAfterEnd ==
  ASSUME NEW h, NEW g, NEW X, NEW Y, NEW c, NEW r \in Request,
         Refs(g, X, Y), Settled(h, X, NoRequest), Ended(h, g, c, r)
  PROVE  Settled(g, X, r) /\ (X[r] = 0 => Settled(g, X, NoRequest))
<1>1. ASSUME NEW q \in Request, q # r \/ X[q] = 0
      PROVE  /\ Waiting(g, q) => g.client[g.request[q].client].connState # "ACTIVE"
             /\ g.request[q].httpState = "FLUSHING_OUTPUT" => X[q] = 0
  <2>1. UsedOK(g, X, q) /\ X \in [Request -> Nat] /\ q # NoRequest
    BY HttpServerAssumption, Zenon DEF Refs
  <2>2. CASE X[q] = 0
    BY <2>1, <2>2, SMTT(30) DEF UsedOK, Waiting
  <2>3. CASE g.request[q] = h.request[q] /\ g.request[q].httpState # "IN_FREELIST"
    <3>1. g.request[q].client \in Client
      BY <2>1, <2>3, Zenon DEF UsedOK
    <3> QED BY <2>1, <2>3, <3>1, Zenon DEF Settled, Ended, Waiting
  <2>4. CASE g.request[q].httpState \in {"IN_FREELIST", "PARSING_HEADERS"}
    BY <2>4 DEF Waiting
  <2> QED BY <1>1, <2>2, <2>3, <2>4, Zenon DEF Ended
<1> QED BY <1>1, Zenon DEF Settled

\* The request that is processed is the current one of a client that is connected.
LEMMA CurrentIs ==
  ASSUME NEW h, NEW X, NEW Y, Refs(h, X, Y), Settled(h, X, NoRequest), NEW r \in Request,
         ~Waiting(h, r), h.request[r].httpState # "IN_FREELIST"
  PROVE  LET c == h.request[r].client
         IN /\ c \in Client /\ h.client[c].connState = "ACTIVE"
            /\ h.client[c].currentRequest = r /\ r # NoRequest /\ ~Lingers(h, c)
<1> DEFINE c == h.request[r].client
<1>1. c \in Client /\ h.client[c].currentRequest = r /\ r # NoRequest
  BY HttpServerAssumption DEF Refs, UsedOK
<1>2. ClientOK(h, Y, c)
  BY <1>1 DEF Refs
<1> HIDE DEF c
<1>3. h.client[c].connState = "ACTIVE"
  BY <1>1, <1>2 DEF ClientOK
<1>4. ~Lingers(h, c)
  BY <1>3, HttpServerAssumption DEF Lingers, Settled
<1> QED BY <1>1, <1>3, <1>4, Zenon DEF c

\* endRequest(), whether its output is with the client already or still to be flushed.
LEMMA EndRequestRefs ==
  ASSUME NEW h, NEW X, NEW Y, Refs(h, X, Y), Settled(h, X, NoRequest), HasFree(h),
         NEW r \in Request,
         h.request[r].httpState = "COMPLETE", NEW flushed \in BOOLEAN
  PROVE  LET g == EndRequest(h, r, flushed)
         IN Refs(g, X, Y) /\ Preserves(h, g, X) /\ Ended(h, g, h.request[r].client, r)
<1> DEFINE c == h.request[r].client
           i == DeinitializeRequestAndAddToFreelist(h, c, r)
           g == EndRequest(h, r, flushed)
           a == CanKeepAlive(h, r)
           d == [i.request[r] EXCEPT !.httpState = "FLUSHING_OUTPUT", !.wantKeepAlive = a]
<1>1. h \in Servers /\ X \in [Request -> Nat] /\ ~Waiting(h, r) /\ UsedOK(h, X, r)
  BY Zenon DEF Refs, Waiting
<1>2. /\ c \in Client /\ h.client[c].connState = "ACTIVE"
      /\ h.client[c].currentRequest = r /\ r # NoRequest /\ ~Lingers(h, c)
  BY <1>1, CurrentIs, Zenon
<1>3. ~HttpRequestEnded(h, r)
  BY <1>2, Zenon DEF HttpRequestEnded
<1>4. /\ Deinitialized(h, i, c, r)
      /\ i.client[c].lingeringRequestCount > h.client[c].lingeringRequestCount
  BY <1>1, <1>2, DeinitializeIs
<1>5. a \in BOOLEAN
  BY DEF CanKeepAlive
<1>6. g = IF flushed THEN DoneWithCurrentRequest(i, c)
          ELSE [i EXCEPT !.request[r].httpState = "FLUSHING_OUTPUT", !.request[r].wantKeepAlive = a]
  BY <1>3 DEF EndRequest
<1> SUFFICES Refs(g, X, Y) /\ Preserves(h, g, X) /\ Ended(h, g, c, r)
  OBVIOUS
<1>7. CASE flushed
  <2> HIDE DEF c, g, i
  <2>2. g = DoneWithCurrentRequest(i, c)
    BY <1>6, <1>7
  <2> QED BY <1>2, <1>4, <2>2, DoneRefs
<1>8. CASE ~flushed
  <2>1. i \in Servers /\ i.request[r] \in RequestObjects
    BY <1>4, RequestFields, Zenon DEF Deinitialized
  <2> HIDE DEF a, i
  <2>2. g = WithRequest(i, r, d)
    BY <1>6, <1>8, <2>1, Zenon DEF WithRequest, Servers
  <2>3. /\ d \in RequestObjects /\ d.httpState = "FLUSHING_OUTPUT"
        /\ d.refcount = i.request[r].refcount /\ d.client = i.request[r].client
        /\ d.session = i.request[r].session
    <3> DEFINE x == [i.request[r] EXCEPT !.httpState = "FLUSHING_OUTPUT"]
    <3>1. /\ x \in RequestObjects /\ x.httpState = "FLUSHING_OUTPUT"
          /\ x.refcount = i.request[r].refcount /\ x.client = i.request[r].client
          /\ x.session = i.request[r].session
      BY <2>1 DEF RequestObjects, HttpStates
    <3>2. d = [x EXCEPT !.wantKeepAlive = a]
      OBVIOUS
    <3> HIDE DEF d, x
    <3>3. /\ d \in RequestObjects /\ d.httpState = x.httpState
          /\ d.refcount = x.refcount /\ d.client = x.client /\ d.session = x.session
      BY <1>5, <3>1, <3>2 DEF RequestObjects
    <3> QED BY <3>1, <3>3
  <2> HIDE DEF c, d, g
  <2>4. /\ g \in Servers /\ g.serverState = i.serverState /\ g.dropped = i.dropped
        /\ g.client = i.client /\ g.request[r] = d
        /\ \A q \in Request \ {r} : g.request[q] = i.request[q]
    BY <2>1, <2>2, <2>3, WithRequestIs, ZenonT(30)
  <2>5. /\ g.serverState = h.serverState
        /\ \A q \in Request \ {r} : g.request[q] = h.request[q]
        /\ g.request[r].httpState = "FLUSHING_OUTPUT" /\ g.request[r].session = NoSession
        /\ g.request[r].refcount = One(~Waiting(h, r)) + X[r]
        /\ g.request[r].client = h.request[r].client /\ X[r] \in Nat
    BY <1>1, <1>4, <2>3, <2>4, Zenon DEF Deinitialized, UsedOK
  <2>6. /\ \A b \in Client :
             /\ g.client[b].connState = h.client[b].connState
             /\ g.client[b].refcount = h.client[b].refcount
             /\ g.client[b].currentRequest = h.client[b].currentRequest
             /\ g.client[b].lingeringRequestCount >= h.client[b].lingeringRequestCount
        /\ g.client[h.request[r].client].lingeringRequestCount
             > h.client[h.request[r].client].lingeringRequestCount
    <3>1. \A b \in Client : h.client[b].lingeringRequestCount \in Nat
      BY <1>1, ClientFields, Zenon
    <3>2. /\ \A b \in Client \ {c} : g.client[b] = h.client[b]
          /\ g.client[c].connState = h.client[c].connState
          /\ g.client[c].refcount = h.client[c].refcount
          /\ g.client[c].currentRequest = h.client[c].currentRequest
          /\ g.client[c].lingeringRequestCount >= h.client[c].lingeringRequestCount
      BY <1>4, <2>4, Zenon DEF Deinitialized
    <3>3. g.client[h.request[r].client].lingeringRequestCount
            > h.client[h.request[r].client].lingeringRequestCount
      BY <1>4, <2>4 DEF c
    <3>4. ASSUME NEW b \in Client
          PROVE  /\ g.client[b].connState = h.client[b].connState
                 /\ g.client[b].refcount = h.client[b].refcount
                 /\ g.client[b].currentRequest = h.client[b].currentRequest
                 /\ g.client[b].lingeringRequestCount >= h.client[b].lingeringRequestCount
      BY <3>1, <3>2
    <3> QED BY <3>3, <3>4, Zenon
  <2>7. Refs(g, [X EXCEPT ![r] = X[r]], Y)
    <3> DEFINE n == X[r]
    <3>1. n \in Nat /\ g.request[r].refcount = One(~Waiting(h, r)) + n
      BY <2>5
    <3>2. ~Waiting(g, r) /\ g.request[r].httpState # "IN_FREELIST"
      BY <2>5 DEF Waiting
    <3> HIDE DEF n
    <3>3. Refs(g, [X EXCEPT ![r] = n], Y)
      BY <1>1, <2>4, <2>5, <2>6, <3>1, <3>2, UpdateRefs, Zenon
    <3> QED BY <3>3 DEF n
  <2>8. [X EXCEPT ![r] = X[r]] = X
    BY <1>1, Zenon
  <2>9. Preserves(h, g, X)
    <3>1. \A q \in Request : g.request[q].session = i.request[q].session
      BY <2>3, <2>4
    <3>2. Conserves(i, g)
      BY <2>4, <3>1, SameSessions, SMTT(30)
    <3>3. Conserves(h, g)
      BY <1>4, <3>2, Zenon DEF Deinitialized, Conserves
    <3>4. \A q \in Request : Keeps(h, g, q)
      BY <2>5, Zenon DEF Keeps
    <3> QED BY <3>3, <3>4 DEF Preserves
  <2>10. Ended(h, g, c, r)
    BY <2>5, <2>6 DEF Ended
  <2> QED BY <2>7, <2>8, <2>9, <2>10, Zenon
<1> QED BY <1>7, <1>8

\* The last output of a request is written, after endRequest() has left it to flush.
LEMMA FlushedRefs ==
  ASSUME NEW h, NEW X, NEW Y, Refs(h, X, Y), Settled(h, X, NoRequest), HasFree(h),
         NEW c \in Client,
         h.client[c].currentRequest # NoRequest,
         h.request[h.client[c].currentRequest].httpState = "FLUSHING_OUTPUT"
  PROVE  LET g == OnClientOutputDataFlushed(h, c)
         IN Refs(g, X, Y) /\ Preserves(h, g, X) /\ Ended(h, g, c, h.client[c].currentRequest)
<1> DEFINE r == h.client[c].currentRequest
           d == [h.request[r] EXCEPT !.httpState = "WAITING_FOR_REFERENCES"]
           f == WithRequest(h, r, d)
<1>1. h \in Servers /\ ClientOK(h, Y, c) /\ h.client[c].lingeringRequestCount \in Nat
  BY ClientFields, Zenon DEF Refs
<1>2. /\ r \in Request /\ h.request[r].client = c /\ h.client[c].lingeringRequestCount > 0
      /\ h.request[r] \in RequestObjects
  <2>1. r \in Request /\ h.request[r].client = c /\ h.request[r] \in RequestObjects
    BY <1>1, ClientFields, RequestFields, Zenon DEF ClientOK
  <2>2. h.client[c].lingeringRequestCount > 0
    BY <1>1 DEF ClientOK, One
  <2> QED BY <2>1, <2>2, Zenon
<1>3. /\ d \in RequestObjects /\ d.httpState = "WAITING_FOR_REFERENCES"
      /\ d.refcount = h.request[r].refcount /\ d.client = h.request[r].client
      /\ d.wantKeepAlive = h.request[r].wantKeepAlive /\ d.session = h.request[r].session
  <2> HIDE DEF r
  <2> QED BY <1>2 DEF RequestObjects, HttpStates
<1>4. [h EXCEPT !.request[h.client[c].currentRequest].httpState = "WAITING_FOR_REFERENCES"] = f
  BY <1>1, Zenon DEF WithRequest, Servers
<1>5. /\ ~Lingers(h, c) /\ h.request[r].session = NoSession
  <2>1. ~Waiting(h, r) /\ UsedOK(h, X, r)
    BY <1>2, Zenon DEF Waiting, Refs
  <2> QED BY <1>2, <2>1, CurrentIs, Zenon DEF UsedOK
<1>6. OnClientOutputDataFlushed(h, c) = DoneWithCurrentRequest(f, c)
  BY <1>4, Zenon DEF OnClientOutputDataFlushed
<1> HIDE DEF d, f
<1>7. /\ f \in Servers /\ f.serverState = h.serverState /\ f.dropped = h.dropped
      /\ f.client = h.client /\ f.request[r] = d
      /\ \A q \in Request \ {r} : f.request[q] = h.request[q]
  BY <1>1, <1>2, <1>3, WithRequestIs, ZenonT(30) DEF f
<1>8. Conserves(h, f)
  <2> HIDE DEF r
  <2>1. \A q \in Request : f.request[q].session = h.request[q].session
    BY <1>3, <1>7, Zenon
  <2>2. f.dropped = h.dropped
    BY <1>7, Zenon
  <2> QED BY <2>1, <2>2, SameSessions
<1>9. Deinitialized(h, f, c, r)
  <2> HIDE DEF r
  <2> QED BY <1>1, <1>2, <1>3, <1>5, <1>7, <1>8 DEF Deinitialized, Waiting
<1> QED BY <1>5, <1>6, <1>9, DoneRefs, Zenon

-----------------------------------------------------------------------------
\* onAcceptable(): a client object from the freelist is connected and gets its first request.
LEMMA AcceptRefs ==
  ASSUME NEW h, NEW X, NEW Y, Refs(h, X, Y), Settled(h, X, NoRequest), HasFree(h),
         NEW c \in Client,
         h.client[c].connState = "IN_FREELIST", h.serverState = "ACTIVE"
  PROVE  LET g == OnAcceptable(h, c)
         IN Refs(g, X, Y) /\ Preserves(h, g, X) /\ Settled(g, X, NoRequest)
<1> DEFINE d == [h.client[c] EXCEPT !.connState = "ACTIVE", !.refcount = 2]
           f == WithClient(h, c, d)
           Z == [Y EXCEPT ![c] = @ + 1]
           e == HandleNextRequest(f, c)
           g == OnAcceptable(h, c)
<1>1. /\ h \in Servers /\ X \in [Request -> Nat] /\ Y \in [Client -> Nat]
      /\ LingersOnce(h) /\ Quiet(h) /\ ClientOK(h, Y, c) /\ h.client[c] \in ClientObjects
  BY ClientFields DEF Refs
<1>2. /\ d \in ClientObjects /\ d.connState = "ACTIVE" /\ d.refcount = 2
      /\ d.currentRequest = h.client[c].currentRequest
      /\ d.lingeringRequestCount = h.client[c].lingeringRequestCount
  BY <1>1, Zenon DEF ClientObjects, ConnStates
<1>3. [h EXCEPT !.client[c].connState = "ACTIVE", !.client[c].refcount = 2] = f
  BY <1>1, Zenon DEF WithClient, Servers
<1>4. g = UnrefClient(e, c)
  BY <1>3, ZenonT(30) DEF OnAcceptable
<1>5. /\ Z \in [Client -> Nat] /\ Z[c] = Y[c] + 1 /\ Y[c] = 0 /\ [Z EXCEPT ![c] = @ - 1] = Y
      /\ \A b \in Client \ {c} : Z[b] = Y[b]
  BY <1>1, TakeAndGive, Zenon DEF ClientOK
<1> HIDE DEF d, e, f, g, Z
<1>6. /\ f \in Servers /\ f.serverState = h.serverState /\ f.dropped = h.dropped
      /\ f.request = h.request /\ f.client[c] = d
      /\ \A b \in Client \ {c} : f.client[b] = h.client[b]
  BY <1>1, <1>2, WithClientIs, ZenonT(30) DEF f
<1>7. h.client[c].currentRequest = NoRequest /\ f.client[c].currentRequest = NoRequest
  BY <1>1, <1>2, <1>6, Zenon DEF ClientOK
<1>8. ~Lingers(h, c) /\ \A b \in Client : Lingers(f, b) <=> Lingers(h, b)
  <2>1. \A r \in Request : UsedOK(h, X, r)
    BY Zenon DEF Refs
  <2>2. ~Lingers(h, c)
    BY <2>1 DEF Lingers, UsedOK, Waiting
  <2> QED BY <1>6, <2>2 DEF Lingers, Waiting
<1>9. Refs(f, X, Z)
  <2>1. ASSUME NEW q \in Request PROVE FreeOK(f, X, q) /\ UsedOK(f, X, q)
    <3>1. FreeOK(h, X, q) /\ UsedOK(h, X, q)
      BY Zenon DEF Refs
    <3>2. h.request[q].httpState # "IN_FREELIST" => h.request[q].client \in Client \ {c}
      BY <3>1 DEF UsedOK
    <3> QED BY <1>6, <3>1, <3>2 DEF FreeOK, UsedOK, Waiting
  <2>2. ASSUME NEW b \in Client PROVE ClientOK(f, Z, b)
    <3>1. ClientOK(h, Y, b)
      BY DEF Refs
    <3>2. CASE b = c
      <4>1. /\ f.client[c].connState = "ACTIVE" /\ f.client[c].refcount = 2 /\ Z[c] = 1
            /\ ~Lingers(f, c) /\ f.client[c].lingeringRequestCount \in Nat
        BY <1>2, <1>5, <1>6, <1>8, ClientFields
      <4>2. ClientOK(f, Z, c)
        BY <1>7, <4>1, SMTT(30) DEF ClientOK, One
      <4> QED BY <3>2, <4>2, Zenon
    <3>3. CASE b # c
      BY <1>5, <1>6, <1>8, <3>1, <3>3, Zenon DEF ClientOK, One
    <3> QED BY <3>2, <3>3
  <2>3. LingersOnce(f) /\ Quiet(f)
    BY <1>1, <1>6 DEF LingersOnce, Waiting, Quiet
  <2> QED BY <1>1, <1>5, <1>6, <2>1, <2>2, <2>3, ZenonT(30) DEF Refs
<1>10. HasFree(f)
  BY <1>6 DEF HasFree
<1>11. /\ Refs(e, X, Z) /\ Preserves(f, e, X)
       /\ \A b \in Client : e.client[b].connState = f.client[b].connState
       /\ \A q \in Request : \/ e.request[q] = f.request[q]
                             \/ e.request[q].httpState = "PARSING_HEADERS"
  BY <1>2, <1>6, <1>7, <1>9, <1>10, HandleNextRequestRefs, Zenon DEF e
<1>12. /\ Refs(g, X, Y) /\ g.request = e.request /\ g.dropped = e.dropped /\ SameClients(e, g)
  BY <1>4, <1>5, <1>11, UnrefClientRefs
<1>13. Preserves(h, g, X)
  <2>1. Conserves(h, f) /\ Conserves(e, g)
    BY <1>6, <1>12, SameSessions, Zenon
  <2>2. \A q \in Request : Keeps(h, f, q) /\ Keeps(e, g, q)
    BY <1>6, <1>12 DEF Keeps
  <2>3. Preserves(h, f, X) /\ Preserves(e, g, X)
    BY <2>1, <2>2 DEF Preserves
  <2>4. Preserves(h, e, X)
    BY <1>11, <2>3, PreservesTransitive, Zenon
  <2> QED BY <2>3, <2>4, PreservesTransitive
<1>14. Settled(g, X, NoRequest)
  <2> SUFFICES ASSUME NEW q \in Request
               PROVE  /\ Waiting(g, q) => g.client[g.request[q].client].connState # "ACTIVE"
                      /\ g.request[q].httpState = "FLUSHING_OUTPUT" => X[q] = 0
    BY DEF Settled
  <2>1. CASE g.request[q].httpState = "PARSING_HEADERS"
    BY <2>1, Zenon DEF Waiting
  <2>2. CASE g.request[q] = h.request[q]
    <3>1. UsedOK(h, X, q) /\ q # NoRequest
      BY HttpServerAssumption, Zenon DEF Refs
    <3>2. Waiting(h, q) => h.request[q].client \in Client \ {c}
      BY <3>1 DEF UsedOK, Waiting
    <3> QED BY <1>6, <1>11, <1>12, <2>2, <3>1, <3>2, SMTT(30) DEF Settled, Waiting, SameClients
  <2> QED BY <1>6, <1>11, <1>12, <2>1, <2>2, Zenon
<1> QED BY <1>12, <1>13, <1>14 DEF g

-----------------------------------------------------------------------------
(* What callbacks of the event loop do to one request *)

\* A call that leaves clients and requests alone.
LEMMA SameObjects ==
  ASSUME NEW h, NEW g \in Servers, NEW X, NEW Y, Refs(h, X, Y), Settled(h, X, NoRequest),
         g.client = h.client, g.request = h.request,
         g.serverState = h.serverState \/ g.serverState # "FINISHED_SHUTDOWN"
  PROVE  Refs(g, X, Y) /\ Settled(g, X, NoRequest)
<1>1. \A c \in Client : Lingers(g, c) <=> Lingers(h, c)
  BY Zenon DEF Lingers, Waiting
<1>2. ASSUME NEW r \in Request PROVE FreeOK(g, X, r) /\ UsedOK(g, X, r)
  <2>1. FreeOK(h, X, r) /\ UsedOK(h, X, r)
    BY Zenon DEF Refs
  <2>2. Waiting(g, r) <=> Waiting(h, r)
    BY Zenon DEF Waiting
  <2>3. One(~Waiting(g, r)) = One(~Waiting(h, r))
    BY <2>2, Zenon DEF One
  <2> QED BY <2>1, <2>2, <2>3, Zenon DEF FreeOK, UsedOK
<1>3. ASSUME NEW c \in Client PROVE ClientOK(g, Y, c)
  <2>1. ClientOK(h, Y, c)
    BY DEF Refs
  <2> QED BY <1>1, <2>1, ZenonT(30) DEF ClientOK, One
<1>4. LingersOnce(g) /\ Quiet(g)
  BY DEF Refs, LingersOnce, Waiting, Quiet
<1>5. Settled(g, X, NoRequest)
  BY DEF Settled, Waiting
<1> QED BY <1>2, <1>3, <1>4, <1>5 DEF Refs

\* A client has, between two callbacks, either a current request or one that lingers.
LEMMA NotBoth ==
  ASSUME NEW h, NEW X, NEW Y, Refs(h, X, Y), Settled(h, X, NoRequest), NEW c \in Client,
         h.client[c].currentRequest # NoRequest
  PROVE  ~Lingers(h, c)
<1>1. ClientOK(h, Y, c)
  BY Zenon DEF Refs
<1>2. h.client[c].connState = "ACTIVE"
  BY <1>1, Zenon DEF ClientOK
<1> QED BY <1>2, HttpServerAssumption DEF Lingers, Settled

LEMMA SettledAfterDisconnect ==
  ASSUME NEW h, NEW X, NEW Y, Refs(h, X, Y), Settled(h, X, NoRequest), NEW c \in Client
  PROVE  LET g == DisconnectClient(h, c)
         IN Refs(g, X, Y) /\ Settled(g, X, NoRequest) /\ Preserves(h, g, X)
<1> DEFINE g == DisconnectClient(h, c)
<1>1. h.client[c].currentRequest # NoRequest => ~Lingers(h, c)
  BY NotBoth, ZenonT(30)
<1>2. /\ Refs(g, X, Y) /\ Preserves(h, g, X) /\ g.client[c].connState # "ACTIVE"
      /\ \A b \in Client : g.client[b].connState = "ACTIVE" => h.client[b].connState = "ACTIVE"
      /\ \A q \in Request : \/ g.request[q] = h.request[q]
                            \/ g.request[q].httpState = "IN_FREELIST"
                            \/ Waiting(g, q) /\ g.request[q].client = c
  BY <1>1, DisconnectClientRefs, SMTT(30)
<1> HIDE DEF g
<1>3. ASSUME NEW q \in Request
      PROVE  /\ Waiting(g, q) => g.client[g.request[q].client].connState # "ACTIVE"
             /\ g.request[q].httpState = "FLUSHING_OUTPUT" => X[q] = 0
  <2>1. UsedOK(g, X, q) /\ q # NoRequest
    BY <1>2, HttpServerAssumption, Zenon DEF Refs
  <2>2. Waiting(g, q) => g.request[q].client \in Client
    BY <2>1 DEF UsedOK, Waiting
  <2> QED BY <1>2, <2>1, <2>2, Zenon DEF Settled, Waiting
<1> QED BY <1>2, <1>3, Zenon DEF Settled, g

\* Whatever a call does to the references, no new request is left unsettled by it.
LEMMA SettledStays ==
  ASSUME NEW h, NEW g, NEW X, NEW V, NEW Y, NEW e, Settled(h, X, e), Refs(g, V, Y),
         \A b \in Client : g.client[b].connState = "ACTIVE" => h.client[b].connState = "ACTIVE",
         \A q \in Request \ {e} :
           \/ g.request[q].httpState = "IN_FREELIST"
           \/ /\ g.request[q].httpState = h.request[q].httpState
              /\ g.request[q].client = h.request[q].client
              /\ X[q] = 0 => V[q] = 0
  PROVE  Settled(g, V, e)
<1>1. ASSUME NEW q \in Request \ {e}
      PROVE  /\ Waiting(g, q) => g.client[g.request[q].client].connState # "ACTIVE"
             /\ g.request[q].httpState = "FLUSHING_OUTPUT" => V[q] = 0
  <2>1. UsedOK(g, V, q)
    BY Zenon DEF Refs
  <2>2. Waiting(g, q) => g.request[q].client \in Client
    BY <2>1 DEF UsedOK, Waiting
  <2> QED BY <2>2, Zenon DEF Settled, Waiting
<1> QED BY <1>1, Zenon DEF Settled

\* The headers are in.
HeadersIn(h, r, keep) ==
  [h EXCEPT !.request[r].httpState = "COMPLETE", !.request[r].wantKeepAlive = keep]

\* A request in use does not count among the free ones.
LEMMA StillFree ==
  ASSUME NEW h, NEW g, NEW r, HasFree(h), h.request[r].httpState # "IN_FREELIST",
         \A q \in Request \ {r} : g.request[q] = h.request[q]
  PROVE  HasFree(g)
BY Zenon DEF HasFree

\* The clients are as they were.
LEMMA SameClientObjects ==
  ASSUME NEW h \in Servers, NEW g, g.client = h.client, NEW c \in Client
  PROVE  /\ g.client[c].connState = h.client[c].connState
         /\ g.client[c].refcount = h.client[c].refcount
         /\ g.client[c].currentRequest = h.client[c].currentRequest
         /\ g.client[c].lingeringRequestCount >= h.client[c].lingeringRequestCount
<1>1. h.client[c].lingeringRequestCount \in Nat
  BY ClientFields
<1>2. \A n \in Nat : n >= n
  OBVIOUS
<1> QED BY <1>1, <1>2, Zenon

LEMMA CompleteRefs ==
  ASSUME NEW h, NEW X, NEW Y, Refs(h, X, Y), Settled(h, X, NoRequest), NEW r \in Request,
         h.request[r].httpState = "PARSING_HEADERS", NEW keep \in BOOLEAN
  PROVE  LET g == HeadersIn(h, r, keep)
         IN /\ Refs(g, X, Y) /\ Settled(g, X, NoRequest) /\ Preserves(h, g, X)
            /\ X[r] = 0 /\ g.request[r].httpState = "COMPLETE"
            /\ g.request[r].client = h.request[r].client
            /\ g.request[r].sessionCheckoutTry = 0 /\ g.request[r].session = NoSession
            /\ g.request[r].client \in Client
            /\ \A q \in Request \ {r} : g.request[q] = h.request[q]
<1> DEFINE g == HeadersIn(h, r, keep)
           b == [h.request[r] EXCEPT !.httpState = "COMPLETE"]
           d == [b EXCEPT !.wantKeepAlive = keep]
<1>1. /\ h \in Servers /\ X \in [Request -> Nat] /\ FreeOK(h, X, r) /\ UsedOK(h, X, r)
  BY Zenon DEF Refs
<1>2. /\ X[r] = 0 /\ h.request[r].sessionCheckoutTry = 0 /\ h.request[r].session = NoSession
      /\ h.request[r].client \in Client /\ h.request[r].refcount = One(~Waiting(h, r)) + 0
  BY <1>1, Zenon DEF UsedOK, One, Waiting
<1>3. h.request[r] \in RequestObjects
  BY <1>1, RequestFields
<1>4. /\ b \in RequestObjects /\ b.httpState = "COMPLETE"
      /\ b.refcount = h.request[r].refcount /\ b.client = h.request[r].client
      /\ b.session = h.request[r].session
      /\ b.sessionCheckoutTry = h.request[r].sessionCheckoutTry
  BY <1>3, Zenon DEF RequestObjects, HttpStates
<1>5. g = WithRequest(h, r, d)
  BY <1>1, <1>3, Zenon DEF HeadersIn, WithRequest, Servers, RequestObjects
<1> HIDE DEF b
<1>6. /\ d \in RequestObjects /\ d.httpState = "COMPLETE"
      /\ d.refcount = h.request[r].refcount /\ d.client = h.request[r].client
      /\ d.session = h.request[r].session
      /\ d.sessionCheckoutTry = h.request[r].sessionCheckoutTry
  BY <1>4 DEF RequestObjects
<1> HIDE DEF d
<1> SUFFICES /\ Refs(g, X, Y) /\ Settled(g, X, NoRequest) /\ Preserves(h, g, X)
             /\ X[r] = 0 /\ g.request[r].httpState = "COMPLETE"
             /\ g.request[r].client = h.request[r].client
             /\ g.request[r].sessionCheckoutTry = 0 /\ g.request[r].session = NoSession
             /\ g.request[r].client \in Client
             /\ \A q \in Request \ {r} : g.request[q] = h.request[q]
  OBVIOUS
<1> HIDE DEF g
<1>7. /\ g \in Servers /\ g.serverState = h.serverState /\ g.dropped = h.dropped
      /\ g.client = h.client /\ g.request[r] = d
      /\ \A q \in Request \ {r} : g.request[q] = h.request[q]
  BY <1>1, <1>5, <1>6, WithRequestIs
<1>8. /\ g.request[r].httpState = "COMPLETE" /\ g.request[r].client = h.request[r].client
      /\ g.request[r].refcount = One(~Waiting(h, r)) + 0
      /\ ~Waiting(g, r) /\ ~Waiting(h, r)
      /\ g.request[r].session = NoSession /\ g.request[r].sessionCheckoutTry = 0
  BY <1>2, <1>6, <1>7 DEF Waiting
<1>9. ASSUME NEW c \in Client
      PROVE  /\ g.client[c].connState = h.client[c].connState
             /\ g.client[c].refcount = h.client[c].refcount
             /\ g.client[c].currentRequest = h.client[c].currentRequest
             /\ g.client[c].lingeringRequestCount >= h.client[c].lingeringRequestCount
  BY <1>1, <1>7, SameClientObjects
<1>10. Refs(g, [X EXCEPT ![r] = 0], Y)
  <2>1. /\ 0 \in Nat /\ h.request[r].httpState # "IN_FREELIST"
        /\ g.request[r].httpState \notin {"IN_FREELIST", "PARSING_HEADERS", "FLUSHING_OUTPUT"}
    BY <1>8
  <2> QED BY <1>7, <1>8, <1>9, <2>1, UpdateRefs, Zenon
<1>11. Refs(g, X, Y)
  <2>1. [X EXCEPT ![r] = 0] = X
    BY <1>1, <1>2
  <2> QED BY <1>10, <2>1
<1>12. Settled(g, X, NoRequest)
  BY <1>2, <1>7, <1>8, Zenon DEF Settled, Waiting
<1>13. Preserves(h, g, X)
  <2>1. \A q \in Request : g.request[q].session = h.request[q].session
    BY <1>2, <1>7, <1>8, Zenon
  <2>2. Conserves(h, g)
    BY <1>7, <2>1, SameSessions
  <2> QED BY <1>2, <1>7, <2>2, SMTT(30) DEF Preserves, Keeps
<1> QED BY <1>2, <1>7, <1>8, <1>11, <1>12, <1>13, Zenon

\* The callback gives its reference back, and no request is left unsettled.
LEMMA AnsweredRefs ==
  ASSUME NEW h, NEW X, NEW Y, Refs(h, X, Y), NEW r \in Request, X[r] = 1, Settled(h, X, r)
  PROVE  LET g == UnrefRequest(h, r)
             V == [X EXCEPT ![r] = @ - 1]
         IN /\ Refs(g, V, Y) /\ Preserves(h, g, V) /\ Settled(g, V, NoRequest)
            /\ g.dropped = h.dropped /\ \A q \in Request \ {r} : g.request[q] = h.request[q]
<1> DEFINE g == UnrefRequest(h, r)
           V == [X EXCEPT ![r] = @ - 1]
<1>1. X \in [Request -> Nat]
  BY DEF Refs
<1>2. V[r] = 0 /\ \A q \in Request \ {r} : V[q] = X[q]
  BY <1>1
<1>3. /\ Refs(g, V, Y) /\ Preserves(h, g, V) /\ g.dropped = h.dropped
      /\ \A q \in Request \ {r} : g.request[q] = h.request[q]
      /\ SameClients(h, g)
      /\ IF Waiting(h, r) THEN g.request[r].httpState = "IN_FREELIST"
         ELSE g.request[r].httpState = h.request[r].httpState
  <2>1. Unreffed(h, g, X, V, Y, r)
    BY UnrefRequestRefs, SMTT(30)
  <2> HIDE DEF g, V
  <2> QED BY <2>1 DEF Unreffed
<1> HIDE DEF g, V
<1>4. Settled(g, V, r)
  BY <1>2, <1>3, SettledStays DEF SameClients
<1>5. ~Waiting(g, r)
  BY <1>3, Zenon DEF Waiting
<1>6. Settled(g, V, NoRequest)
  BY <1>2, <1>4, <1>5 DEF Settled
<1> QED BY <1>3, <1>6 DEF g, V

\* A callback passes its reference on to another one.
LEMMA PassOnRefs ==
  ASSUME NEW h, NEW X, NEW Y, Refs(h, X, Y), NEW r \in Request, Settled(h, X, NoRequest),
         h.request[r].httpState = "COMPLETE", X[r] = 1
  PROVE  LET g == UnrefRequest(RefRequest(h, r), r)
         IN /\ Refs(g, X, Y) /\ Preserves(h, g, X) /\ Settled(g, X, NoRequest)
            /\ \A q \in Request \ {r} : g.request[q] = h.request[q]
            /\ g.request[r].httpState = "COMPLETE"
<1> DEFINE f == RefRequest(h, r)
           g == UnrefRequest(f, r)
           Z == [X EXCEPT ![r] = @ + 1]
           V == [Z EXCEPT ![r] = @ - 1]
<1>1. X \in [Request -> Nat]
  BY Zenon DEF Refs
<1>2. /\ Refs(f, Z, Y) /\ Preserves(h, f, Z) /\ f.client = h.client
      /\ \A q \in Request \ {r} : f.request[q] = h.request[q]
      /\ f.request[r].httpState = h.request[r].httpState
  BY RefRequestRefs, Zenon
<1>3. Z[r] = 2 /\ (\A q \in Request \ {r} : Z[q] = X[q]) /\ V = X
  <2>1. /\ Z[r] = 2 /\ \A q \in Request \ {r} : Z[q] = X[q]
        /\ Z \in [Request -> Nat]
    BY <1>1, SMTT(30)
  <2> HIDE DEF Z
  <2>2. V \in [Request -> Nat] /\ \A q \in Request : V[q] = X[q]
    BY <2>1, SMTT(30)
  <2> HIDE DEF V
  <2> QED BY <1>1, <2>1, <2>2
<1> HIDE DEF f, Z, V, g
<1>4. /\ Refs(g, V, Y) /\ Preserves(f, g, V) /\ SameClients(f, g)
      /\ \A q \in Request \ {r} : g.request[q] = f.request[q]
      /\ ~Waiting(f, r) => g.request[r].httpState = f.request[r].httpState
  <2>1. Z[r] > 0
    BY <1>3, SMTT(30)
  <2>2. Unreffed(f, g, Z, V, Y, r)
    BY <1>2, <2>1, UnrefRequestRefs, Zenon DEF g, V
  <2> QED BY <2>2, Zenon DEF Unreffed
<1>5. Refs(g, X, Y) /\ Preserves(f, g, X) /\ g.request[r].httpState = "COMPLETE"
  BY <1>2, <1>3, <1>4, Zenon DEF Waiting
<1>6. Preserves(h, g, X)
  <2>1. \A q \in Request : X[q] > 0 => Z[q] > 0
    BY <1>3
  <2> QED BY <1>2, <1>5, <2>1, PreservesTransitive, Zenon
<1>7. Settled(g, X, NoRequest)
  <2>1. \A b \in Client : g.client[b].connState = "ACTIVE" => h.client[b].connState = "ACTIVE"
    BY <1>2, <1>4, Zenon DEF SameClients
  <2>2. g.request[r].client = h.request[r].client
    BY <1>6, SMTT(30) DEF Preserves, Keeps
  <2>3. ASSUME NEW q \in Request
        PROVE  /\ g.request[q].httpState = h.request[q].httpState
               /\ g.request[q].client = h.request[q].client
    BY <1>2, <1>4, <1>5, <2>2, Zenon
  <2> QED BY <1>5, <2>1, <2>3, SettledStays, SMTT(30)
<1> QED BY <1>2, <1>4, <1>5, <1>6, <1>7, Zenon DEF g, f

LEMMA AppendToEmpty ==
  ASSUME NEW S, NEW x \in S
  PROVE  Append(<<>>, x) = <<x>> /\ Append(<<>>, x) \in Seq(S)
OBVIOUS

\* Request r of server h becomes the owner of session s.
LEMMA TakesSession ==
  ASSUME NEW h, NEW g, NEW r \in Request, NEW s \in Session, OwnedOnce(h), ~Owned(h, s),
         h.request[r].session = NoSession, g.request[r].session = s, g.dropped = h.dropped,
         \A q \in Request \ {r} : g.request[q] = h.request[q]
  PROVE  OwnedOnce(g) /\ \A t \in Session : Owned(g, t) <=> Owned(h, t) \/ t = s
<1>1. /\ \A q \in Request : h.request[q].session # s
      /\ \A i \in 1..Len(h.dropped) : h.dropped[i].session # s
  BY DEF Owned
<1>2. OwnedOnce(g)
  BY <1>1 DEF OwnedOnce
<1>3. ASSUME NEW t \in Session PROVE Owned(g, t) <=> Owned(h, t) \/ t = s
  <2>1. t # NoSession
    BY SessionsAssumption
  <2>2. (\E q \in Request : g.request[q].session = t)
          <=> (\E q \in Request : h.request[q].session = t) \/ t = s
    BY <2>1, Zenon
  <2> QED BY <2>2 DEF Owned
<1> QED BY <1>2, <1>3, Zenon
=============================================================================
