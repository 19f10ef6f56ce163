------------------------ MODULE IntraMeshService ------------------------------
(***************************************************************************)
(* IntraMeshService, both sides of the intramesh on the main reactor.     *)
(*                                                                          *)
(* Inbound: the service accepts a query connection from a peer            *)
(* (IntraMeshQueryClient), which reads one 38-byte message at a time,     *)
(* answers a MESH_QUERY from the local disk backend's existence check, and *)
(* shares its single send slot with the heartbeats that onHeartBeat sends  *)
(* to every connected client.  _connectedClients holds the only reference *)
(* to a client, and its handlers are bound to the raw this, so             *)
(* queryClientDisconnected, called by close() when neither a send nor a    *)
(* read is active, frees it.  Peers are connection attempts; each connects *)
(* once.                                                                    *)
(*                                                                          *)
(* Outbound: on every heartbeat doHeartBeat starts a MeshServer for each   *)
(* configured peer that has none in _remoteServers and none pending.  The  *)
(* MeshServer connects and authenticates its asset socket and, through its *)
(* MeshQueryConnection, its query socket; the second result calls          *)
(* onConnectAttemptCompleted, which files it in _remoteServers or          *)
(* _connectFailedServers.  Those maps and _pendingServerConnections hold   *)
(* the only references; handlers are bound to the raw this, and the        *)
(* registered safe-kill callback erases the object once close() finds     *)
(* nothing outstanding.                                                    *)
(*                                                                          *)
(* The FIFO `ready` holds the completion handlers, and each handler is one *)
(* action.                                                                  *)
(***************************************************************************)
EXTENDS Naturals, Sequences, FiniteSets

CONSTANTS
    Peers,        \* peers that open a query connection
    Trusted,      \* those whose address is in intramesh_peers
    Uuids,        \* assets the peers ask about
    Stored,       \* those the local disk backend has
    Queries,      \* Queries[p]: the UUIDs peer p asks for, in order
    NoUuid,
    MaxBeats,     \* heartbeat ticks explored
    ConnFaults,   \* TRUE: a peer's connection may break
    BadMessages,  \* TRUE: a peer may send a message that is not a query
    LookupFaults, \* TRUE: assetExists may throw
    OutPeers,     \* the intramesh_peers this service connects to
    MaxOutFaults  \* refused connects, rejected credentials and broken links

VARIABLES
    cl,         \* per peer: the IntraMeshQueryClient and its socket
    clients,    \* IntraMeshService::_connectedClients
    accepting,  \* an async_accept is outstanding
    ready,      \* the main io_service's queue of ready handlers (FIFO)
    beats,      \* heartbeat ticks so far
    armed,      \* _heartBeatTimer is waiting
    inbox,      \* per peer: bytes sent by the peer and not yet read
    sent,       \* per peer: how many of its queries the peer has sent
    asked,      \* per peer: the query UUIDs the client has read, in order
    got,        \* per peer: the messages the peer has received, in order
    srv,        \* per MeshServer object: its state and its sockets'
    pendingConn,\* IntraMeshService::_pendingServerConnections
    remote,     \* IntraMeshService::_remoteServers
    failed,     \* IntraMeshService::_connectFailedServers
    ofaults,    \* outbound faults so far
    srvUaf      \* a MeshServer was touched after it was freed

inVars == <<cl, clients, accepting, beats, armed, inbox, sent, asked, got>>
outVars == <<srv, pendingConn, remote, failed, ofaults, srvUaf>>
vars == <<inVars, outVars, ready>>

Results == {"found", "notfound", "error"}
Msgs == [k : {"resp"}, u : Uuids, r : Results] \cup
        [k : {"hb"}, u : {NoUuid}, r : {"none"}]
NoMsg == [k |-> "none", u |-> NoUuid, r |-> "none"]
HB == [k |-> "hb", u |-> NoUuid, r |-> "none"]

\* A client object: st is "none" (not yet accepted), "live" or "freed";
\* sa and ra are _sendActive and _recvActive; pend is _pendingSends; wr and
\* rd are the socket's send and read in progress.
NoClient == [st |-> "none", sock |-> "open", link |-> "up", sa |-> FALSE,
             ra |-> FALSE, pend |-> <<>>, wr |-> NoMsg, rd |-> FALSE]

Handlers == {"accept", "recv", "sentResp", "sentHb", "beat"}
Inbound == Uuids \cup {"bad"}

\* A MeshServer is named by its peer and the heartbeat that created it.
Servers == OutPeers \X (1..MaxBeats)
NoServer == <<NoUuid, 0>>

\* A MeshServer: st is "none" (not created), "live" or "freed"; aop is the
\* operation outstanding on _serviceSocket; n, aEst, qEst and ara are
\* _numConnectResultsRcvd, _assetConnectionEstablished,
\* _meshQueryConnectionEstablished and _recvActive; safe is the registered
\* _safeKillCallback.  qop, qc, qra and fired are the query connection's
\* operation outstanding on _meshQuerySocket, _isConnected, _recvActive and
\* _disconnectCallbackFired (its _sendActive belongs to searches).
NewServer == [st |-> "live", aop |-> "connect", asock |-> "open", alink |-> "up",
              n |-> 0, aEst |-> FALSE, qEst |-> FALSE, ara |-> FALSE,
              safe |-> "none", qop |-> "connect", qc |-> FALSE, qra |-> FALSE,
              fired |-> FALSE, qsock |-> "open", qlink |-> "up"]
NoServerObj == [NewServer EXCEPT !.st = "none", !.aop = "none", !.qop = "none"]
ServerHandlers == {"connect", "challenge", "authWrite", "status", "data",
                   "qconnect", "qread"}

TypeOK ==
    /\ cl \in [Peers -> [st : {"none", "live", "freed"},
                         sock : {"open", "closed"}, link : {"up", "down"},
                         sa : BOOLEAN, ra : BOOLEAN, pend : Seq(Msgs),
                         wr : Msgs \cup {NoMsg}, rd : BOOLEAN]]
    /\ clients \subseteq Peers /\ accepting \in BOOLEAN
    /\ ready \in Seq([h : Handlers \cup ServerHandlers,
                      c : Peers \cup {NoUuid} \cup Servers, ok : BOOLEAN,
                      m : Inbound \cup {NoUuid, "authFail"}])
    /\ beats \in 0..MaxBeats /\ armed \in BOOLEAN
    /\ inbox \in [Peers -> Seq(Inbound)]
    /\ sent \in [Peers -> Nat] /\ asked \in [Peers -> Seq(Uuids)]
    /\ got \in [Peers -> Seq(Msgs)]
    /\ srv \in [Servers -> [st : {"none", "live", "freed"},
                  aop : {"none", "connect", "challenge", "authWrite", "status", "data"},
                  asock : {"open", "closed"}, alink : {"up", "down"}, n : 0..2,
                  aEst : BOOLEAN, qEst : BOOLEAN, ara : BOOLEAN,
                  safe : {"none", "remote", "failed"},
                  qop : {"none", "connect", "read"}, qc : BOOLEAN, qra : BOOLEAN,
                  fired : BOOLEAN, qsock : {"open", "closed"}, qlink : {"up", "down"}]]
    /\ pendingConn \in [OutPeers -> Servers \cup {NoServer}]
    /\ remote \in [OutPeers -> Servers \cup {NoServer}]
    /\ failed \subseteq Servers
    /\ ofaults \in 0..MaxOutFaults /\ srvUaf \in BOOLEAN

\* IntraMeshService::start: accept the first client and arm the heartbeat.
Init ==
    /\ cl = [p \in Peers |-> NoClient]
    /\ clients = {} /\ accepting = TRUE /\ ready = <<>>
    /\ beats = 0 /\ armed = TRUE
    /\ inbox = [p \in Peers |-> <<>>] /\ sent = [p \in Peers |-> 0]
    /\ asked = [p \in Peers |-> <<>>] /\ got = [p \in Peers |-> <<>>]
    /\ srv = [o \in Servers |-> NoServerObj]
    /\ pendingConn = [q \in OutPeers |-> NoServer]
    /\ remote = [q \in OutPeers |-> NoServer]
    /\ failed = {} /\ ofaults = 0 /\ srvUaf = FALSE

(***************************************************************************)
(* IntraMeshQueryClient, as operators on one client record.               *)
(***************************************************************************)

\* start and listenForMeshMessage: read the next message.
Listen(r) == [r EXCEPT !.ra = TRUE, !.rd = TRUE]

\* sendQueryResponse: send at once when no send is active, otherwise queue
\* the message with its completion handler.
Send(r, m) ==
    IF ~r.sa THEN [r EXCEPT !.sa = TRUE, !.wr = m]
    ELSE [r EXCEPT !.pend = Append(@, m)]

\* sendHeartbeat: the same, for a heartbeat and onAfterSendHeartbeat.
SendHeartbeat(r) == Send(r, HB)

\* Mutant: the queued send is started but never popped.
ProcessQueuedSendNoPop(r) ==
    IF r.pend = <<>> THEN r ELSE [r EXCEPT !.sa = TRUE, !.wr = Head(r.pend)]

\* processQueuedSend: start the front queued send and pop it.
ProcessQueuedSend(r) ==
    IF r.pend = <<>> THEN r
    ELSE [r EXCEPT !.sa = TRUE, !.wr = Head(r.pend), !.pend = Tail(@)]

\* Mutant: only an active send keeps the client alive.
ConnectionActiveSendOnly(r) == r.sa

\* connectionActive.
ConnectionActive(r) == r.sa \/ r.ra

\* close: close the socket; with nothing active, queryClientDisconnected
\* erases the client from _connectedClients, which frees it.
Close(r) ==
    [r EXCEPT !.sock = "closed",
              !.st = IF ConnectionActive(r) THEN @ ELSE "freed"]

\* processMeshQuery with sendAssetFound, sendAssetNotFound and
\* sendAssetError: the answer comes from _diskBackend->assetExists, and an
\* exception it throws is answered QR_ERROR.
ProcessMeshQuery(r, u, res) == Send(r, [k |-> "resp", u |-> u, r |-> res])

\* The answers assetExists can give for u.
Lookups(u) ==
    (IF u \in Stored THEN {"found"} ELSE {"notfound"})
    \cup (IF LookupFaults THEN {"error"} ELSE {})

(***************************************************************************)
(* The reactor runs the front handler.                                     *)
(***************************************************************************)

NextH == Head(ready)

Dispatching(h) == ready # <<>> /\ NextH.h = h

\* Apply a handler's result to client c; queryClientDisconnected erases a
\* freed client from _connectedClients.
Apply(c, r) ==
    /\ cl' = [cl EXCEPT ![c] = r]
    /\ clients' = IF r.st = "freed" THEN clients \ {c} ELSE clients
    /\ ready' = Tail(ready)

\* handleAfterAccept: a trusted peer joins _connectedClients and starts
\* reading; any other is closed at once, and freed when the handler drops
\* its reference.  Then accept the next client; after an accept error,
\* accept again (the service is never stopped here).
HandleAfterAccept ==
    /\ Dispatching("accept")
    /\ LET c == NextH.c IN
       IF ~NextH.ok THEN UNCHANGED <<cl, clients>>
       ELSE IF c \in Trusted
       THEN /\ cl' = [cl EXCEPT ![c] = Listen([@ EXCEPT !.st = "live"])]
            /\ clients' = clients \cup {c}
       ELSE /\ cl' = [cl EXCEPT ![c] = Close([@ EXCEPT !.st = "live"])]
            /\ UNCHANGED clients
    /\ accepting' = TRUE /\ ready' = Tail(ready)
    /\ UNCHANGED <<outVars, beats, armed, inbox, sent, asked, got>>

\* onMeshMessageReceived with processIntrameshMessage: a valid MESH_QUERY
\* is answered; any other message, or a read error, closes.
OnMeshMessageReceived ==
    /\ Dispatching("recv")
    /\ LET c == NextH.c
           r == [cl[c] EXCEPT !.ra = FALSE]
       IN  IF NextH.ok /\ NextH.m \in Uuids
           THEN /\ \E res \in Lookups(NextH.m) :
                     Apply(c, ProcessMeshQuery(r, NextH.m, res))
                /\ asked' = [asked EXCEPT ![c] = Append(@, NextH.m)]
           ELSE Apply(c, Close(r)) /\ UNCHANGED asked
    /\ UNCHANGED <<outVars, accepting, beats, armed, inbox, sent, got>>

\* Mutant: a sent response starts the next queued send but does not listen.
OnAfterSendQueryResponseNoListen ==
    /\ Dispatching("sentResp")
    /\ LET c == NextH.c
           r == [cl[c] EXCEPT !.sa = FALSE]
       IN  Apply(c, IF NextH.ok THEN ProcessQueuedSend(r) ELSE Close(r))
    /\ UNCHANGED <<outVars, accepting, beats, armed, inbox, sent, asked, got>>

\* onAfterSendQueryResponse: listen for the next message, then start a
\* queued send; an error closes.
OnAfterSendQueryResponse ==
    /\ Dispatching("sentResp")
    /\ LET c == NextH.c
           r == [cl[c] EXCEPT !.sa = FALSE]
       IN  Apply(c, IF NextH.ok THEN ProcessQueuedSend(Listen(r)) ELSE Close(r))
    /\ UNCHANGED <<outVars, accepting, beats, armed, inbox, sent, asked, got>>

\* onAfterSendHeartbeat: start a queued send; an error closes.
OnAfterSendHeartbeat ==
    /\ Dispatching("sentHb")
    /\ LET c == NextH.c
           r == [cl[c] EXCEPT !.sa = FALSE]
       IN  Apply(c, IF NextH.ok THEN ProcessQueuedSend(r) ELSE Close(r))
    /\ UNCHANGED <<outVars, accepting, beats, armed, inbox, sent, asked, got>>

(***************************************************************************)
(* MeshServer and MeshQueryConnection, as operators on the outbound world  *)
(* w: the objects, the three maps, the objects a running handler holds a   *)
(* shared_ptr to, and whether a freed object was touched.                 *)
(***************************************************************************)

W == [srv |-> srv, pc |-> pendingConn, rs |-> remote, fs |-> failed,
      held |-> {}, uaf |-> srvUaf]

SetW(w) == /\ srv' = w.srv /\ pendingConn' = w.pc /\ remote' = w.rs
           /\ failed' = w.fs /\ srvUaf' = w.uaf

Owned(w, o) == o \in w.held \/ o \in w.fs \/ \E q \in OutPeers : o \in {w.pc[q], w.rs[q]}

\* Dropping the last reference runs ~MeshServer, whose close() closes both
\* sockets (the safe-kill callback is cleared first).
Release(w, o) ==
    IF Owned(w, o) THEN w
    ELSE [w EXCEPT !.srv[o].st = "freed", !.srv[o].asock = "closed",
                   !.srv[o].qsock = "closed"]

\* onSafeToKill erases the endpoint's entry of _remoteServers;
\* onConnectFailedSafekill erases the object from _connectFailedServers.
OnSafeToKill(w, o) == Release([w EXCEPT !.rs[o[1]] = NoServer], o)

OnConnectFailedSafekill(w, o) == Release([w EXCEPT !.fs = @ \ {o}], o)

\* Mutant: the safe-kill check forgets the query connection.
CheckSafeKillNoQuery(w, o) ==
    LET s == w.srv[o] IN
    IF ~s.aEst /\ s.safe # "none" /\ ~s.ara
    THEN IF s.safe = "remote" THEN OnSafeToKill(w, o) ELSE OnConnectFailedSafekill(w, o)
    ELSE w

\* checkSafeKill: with both connections down, no asset read active and a
\* callback registered, call it.
CheckSafeKill(w, o) ==
    LET s == w.srv[o] IN
    IF ~s.aEst /\ s.safe # "none" /\ ~s.ara /\ ~s.qEst
    THEN IF s.safe = "remote" THEN OnSafeToKill(w, o) ELSE OnConnectFailedSafekill(w, o)
    ELSE w

RECURSIVE ServerClose(_, _), MQCClose(_, _)

\* MeshQueryConnection::close: close a connected socket; when no read is
\* active, fire the disconnect callback, queryEndpointClosed, once.
MQCClose(w, o) ==
    LET w1 == IF w.srv[o].qc
              THEN [w EXCEPT !.srv[o].qsock = "closed", !.srv[o].qc = FALSE]
              ELSE w
    IN  IF ~w1.srv[o].qra /\ ~w1.srv[o].fired
        THEN ServerClose([w1 EXCEPT !.srv[o].fired = TRUE, !.srv[o].qEst = FALSE], o)
        ELSE w1

\* MeshServer::close: close the asset socket and the query connection,
\* mark the asset connection down and check for a safe kill.  (The
\* transfer queues and searches are empty here; they are IntraMeshSearch's.)
\* The rest of close runs after the query connection's close returns, on a
\* freed object if a nested close killed it.
ServerClose(w, o) ==
    LET w1 == MQCClose([w EXCEPT !.srv[o].asock = "closed"], o)
    IN  CheckSafeKill([w1 EXCEPT !.uaf = @ \/ w1.srv[o].st = "freed",
                                 !.srv[o].aEst = FALSE], o)

\* Mutant: the attempt is filed but never leaves _pendingServerConnections.
OnConnectAttemptCompletedNoErase(w, o, ok) ==
    LET w2 == IF ok THEN [w EXCEPT !.rs[o[1]] = o, !.srv[o].safe = "remote"]
              ELSE ServerClose([w EXCEPT !.fs = @ \cup {o}, !.held = {o},
                                         !.srv[o].safe = "failed"], o)
    IN  Release([w2 EXCEPT !.held = {}], o)

\* onConnectAttemptCompleted, holding the MeshServer in its parameter: a
\* success goes to _remoteServers, a failure to _connectFailedServers and is
\* closed; then the endpoint leaves _pendingServerConnections.
OnConnectAttemptCompleted(w, o, ok) ==
    LET w2 == IF ok THEN [w EXCEPT !.rs[o[1]] = o, !.srv[o].safe = "remote"]
              ELSE ServerClose([w EXCEPT !.fs = @ \cup {o}, !.held = {o},
                                         !.srv[o].safe = "failed"], o)
    IN  Release([w2 EXCEPT !.pc[o[1]] = NoServer, !.held = {}], o)

\* onConnectionResult: on the second result, listen for asset data when
\* both connections are up, and report to the connect callback.
OnConnectionResult(w, o) ==
    LET w1 == [w EXCEPT !.srv[o].n = @ + 1]
        ok == w1.srv[o].aEst /\ w1.srv[o].qEst
    IN  IF w1.srv[o].n < 2 THEN w1
        ELSE OnConnectAttemptCompleted(
                 IF ok THEN [w1 EXCEPT !.srv[o].ara = TRUE, !.srv[o].aop = "data"]
                 ELSE w1, o, ok)

\* The asset socket's connect and authentication chain: onConnect reads
\* the challenge, onRecvChallenge writes the response (sendChallengeResponse),
\* onChallengeResponseWrite reads the status; any error reports failure.
AuthNext == [connect |-> "challenge", challenge |-> "authWrite",
             authWrite |-> "status"]

OnAuthStep(w, o, h, ok) ==
    IF ok THEN [w EXCEPT !.srv[o].aop = AuthNext[h]]
    ELSE OnConnectionResult([w EXCEPT !.srv[o].aEst = FALSE], o)

\* onAuthenticationStatus: established only on a valid AS_AUTH_SUCCESS.
OnAuthenticationStatus(w, o, ok, m) ==
    OnConnectionResult([w EXCEPT !.srv[o].aEst = ok /\ m # "authFail"], o)

\* onReadResponseHeader: with no request sent, only an error completes the
\* read, and it closes.
OnReadResponseHeader(w, o) == ServerClose([w EXCEPT !.srv[o].ara = FALSE], o)

\* onAfterMeshServiceConnect, then onQueryConnectionConnectResult.
OnAfterMeshServiceConnect(w, o, ok) ==
    LET w1 == IF ok THEN [w EXCEPT !.srv[o].qc = TRUE, !.srv[o].qra = TRUE,
                                   !.srv[o].qop = "read", !.srv[o].qEst = TRUE]
              ELSE [w EXCEPT !.srv[o].qc = FALSE]
    IN  OnConnectionResult(w1, o)

\* onAfterMeshMessageReceived: a message (a heartbeat, which
\* onQueryAnswerRcvd records) is followed by the next read; an error closes.
OnAfterMeshMessageReceived(w, o, ok) ==
    LET w1 == [w EXCEPT !.srv[o].qra = FALSE]
    IN  IF ok THEN [w1 EXCEPT !.srv[o].qra = TRUE, !.srv[o].qop = "read"]
        ELSE MQCClose(w1, o)

\* The reactor runs a MeshServer handler, bound to the raw this.
RunServerHandler ==
    /\ ready # <<>> /\ NextH.h \in ServerHandlers
    /\ LET e == NextH
           o == e.c
           w == [W EXCEPT !.uaf = @ \/ srv[o].st = "freed"]
       IN  SetW(CASE e.h \in DOMAIN AuthNext -> OnAuthStep(w, o, e.h, e.ok)
                  [] e.h = "status"   -> OnAuthenticationStatus(w, o, e.ok, e.m)
                  [] e.h = "data"     -> OnReadResponseHeader(w, o)
                  [] e.h = "qconnect" -> OnAfterMeshServiceConnect(w, o, e.ok)
                  [] e.h = "qread"    -> OnAfterMeshMessageReceived(w, o, e.ok))
    /\ ready' = Tail(ready)
    /\ UNCHANGED <<inVars, ofaults>>

\* doHeartBeat's connect loop with connectToMeshServer: a peer with no
\* entry in _remoteServers and none pending gets a new MeshServer, which
\* starts both connects.
ToConnect == {q \in OutPeers : remote[q] = NoServer /\ pendingConn[q] = NoServer}

\* onHeartBeat with doHeartBeat: a heartbeat to every connected client, a
\* connection attempt to every peer not connected, then re-arm the timer.
\* (The settings reload is abstracted: OutPeers is fixed.)
OnHeartBeat ==
    /\ Dispatching("beat")
    /\ cl' = [c \in Peers |-> IF c \in clients THEN SendHeartbeat(cl[c]) ELSE cl[c]]
    /\ srv' = [o \in Servers |-> IF o[1] \in ToConnect /\ o[2] = beats
                                 THEN NewServer ELSE srv[o]]
    /\ pendingConn' = [q \in OutPeers |-> IF q \in ToConnect THEN <<q, beats>>
                                          ELSE pendingConn[q]]
    /\ armed' = TRUE /\ ready' = Tail(ready)
    /\ UNCHANGED <<clients, accepting, beats, inbox, sent, asked, got>>
    /\ UNCHANGED <<remote, failed, ofaults, srvUaf>>

Reactor == HandleAfterAccept \/ OnMeshMessageReceived
           \/ OnAfterSendQueryResponse \/ OnAfterSendHeartbeat \/ OnHeartBeat
           \/ RunServerHandler

(***************************************************************************)
(* The kernel and the peers.                                               *)
(***************************************************************************)

Post(h, c, ok, m) == ready' = Append(ready, [h |-> h, c |-> c, ok |-> ok, m |-> m])

Usable(p) == cl[p].sock = "open" /\ cl[p].link = "up"

\* A peer connects to the outstanding async_accept; with ConnFaults the
\* accept may fail instead.
PeerConnects(p) ==
    /\ accepting /\ cl[p].st = "none"
    /\ \A i \in DOMAIN ready : ready[i].c # p
    /\ accepting' = FALSE /\ Post("accept", p, TRUE, NoUuid)
    /\ UNCHANGED <<outVars, cl, clients, beats, armed, inbox, sent, asked, got>>

AcceptFails ==
    /\ ConnFaults /\ accepting
    /\ accepting' = FALSE /\ Post("accept", NoUuid, FALSE, NoUuid)
    /\ UNCHANGED <<outVars, cl, clients, beats, armed, inbox, sent, asked, got>>

\* A connected peer sends its next MESH_QUERY (MeshServer pipelines them)
\* or, with BadMessages, one message that is not a valid query.
PeerSends(p) ==
    /\ cl[p].st = "live" /\ cl[p].link = "up"
    /\ \/ /\ sent[p] < Len(Queries[p])
          /\ inbox' = [inbox EXCEPT ![p] = Append(@, Queries[p][sent[p] + 1])]
          /\ sent' = [sent EXCEPT ![p] = @ + 1]
       \/ /\ BadMessages /\ "bad" \notin {inbox[p][i] : i \in DOMAIN inbox[p]}
          /\ inbox' = [inbox EXCEPT ![p] = Append(@, "bad")]
          /\ UNCHANGED sent
    /\ UNCHANGED <<outVars, cl, clients, accepting, ready, beats, armed, asked, got>>

\* The connection to peer p breaks.
LinkBreaks(p) ==
    /\ ConnFaults /\ cl[p].st = "live" /\ cl[p].link = "up"
    /\ cl' = [cl EXCEPT ![p].link = "down"]
    /\ UNCHANGED <<outVars, clients, accepting, ready, beats, armed, inbox, sent, asked, got>>

\* The async_read completes: a whole message, or an error once the socket
\* is closed or the link is down.
ReadCompletes(p) ==
    /\ cl[p].rd
    /\ \/ /\ Usable(p) /\ inbox[p] # <<>>
          /\ Post("recv", p, TRUE, Head(inbox[p]))
          /\ inbox' = [inbox EXCEPT ![p] = Tail(@)]
       \/ /\ ~Usable(p)
          /\ Post("recv", p, FALSE, NoUuid)
          /\ UNCHANGED inbox
    /\ cl' = [cl EXCEPT ![p].rd = FALSE]
    /\ UNCHANGED <<outVars, clients, accepting, beats, armed, sent, asked, got>>

\* The async_send completes; on a usable socket the peer receives it.
WriteCompletes(p) ==
    /\ cl[p].wr # NoMsg
    /\ LET m == cl[p].wr
           h == IF m.k = "resp" THEN "sentResp" ELSE "sentHb"
       IN  /\ Post(h, p, Usable(p), NoUuid)
           /\ got' = IF Usable(p) THEN [got EXCEPT ![p] = Append(@, m)] ELSE got
    /\ cl' = [cl EXCEPT ![p].wr = NoMsg]
    /\ UNCHANGED <<outVars, clients, accepting, beats, armed, inbox, sent, asked>>

\* An operation on a MeshServer's asset socket completes: with success on
\* a usable socket (an asset read only fails here), with an error once it
\* is closed or its link is down; within the fault budget a connect may be
\* refused and the peer may reject the credentials.
ServerIoCompletes(o) ==
    /\ srv[o].aop # "none"
    /\ LET s == srv[o]
           up == s.asock = "open" /\ s.alink = "up"
       IN  \/ /\ up /\ s.aop # "data"
              /\ Post(s.aop, o, TRUE, NoUuid) /\ UNCHANGED ofaults
           \/ /\ up /\ s.aop \in {"connect", "status"} /\ ofaults < MaxOutFaults
              /\ Post(s.aop, o, s.aop = "status",
                      IF s.aop = "status" THEN "authFail" ELSE NoUuid)
              /\ ofaults' = ofaults + 1
           \/ /\ ~up
              /\ Post(s.aop, o, FALSE, NoUuid) /\ UNCHANGED ofaults
    /\ srv' = [srv EXCEPT ![o].aop = "none"]
    /\ UNCHANGED <<inVars, pendingConn, remote, failed, srvUaf>>

\* An operation on the query socket completes: the connect, or the read
\* with an error once the socket is closed or the link is down; within the
\* fault budget a connect may be refused.
QueryIoCompletes(o) ==
    /\ srv[o].qop # "none"
    /\ LET s == srv[o]
           up == s.qsock = "open" /\ s.qlink = "up"
           h == IF s.qop = "connect" THEN "qconnect" ELSE "qread"
       IN  \/ up /\ s.qop = "connect" /\ Post(h, o, TRUE, NoUuid) /\ UNCHANGED ofaults
           \/ /\ up /\ s.qop = "connect" /\ ofaults < MaxOutFaults
              /\ Post(h, o, FALSE, NoUuid) /\ ofaults' = ofaults + 1
           \/ ~up /\ Post(h, o, FALSE, NoUuid) /\ UNCHANGED ofaults
    /\ srv' = [srv EXCEPT ![o].qop = "none"]
    /\ UNCHANGED <<inVars, pendingConn, remote, failed, srvUaf>>

\* The peer's heartbeat completes the query connection's read.  The peer
\* need not send one, so this step is not assumed to happen.
HeartbeatArrives(o) ==
    /\ srv[o].qop = "read" /\ srv[o].qsock = "open" /\ srv[o].qlink = "up"
    /\ Post("qread", o, TRUE, NoUuid)
    /\ srv' = [srv EXCEPT ![o].qop = "none"]
    /\ UNCHANGED <<inVars, pendingConn, remote, failed, ofaults, srvUaf>>

\* One of a MeshServer's two connections breaks (reset by the peer).
ServerLinkBreaks(o) ==
    /\ srv[o].st = "live" /\ ofaults < MaxOutFaults
    /\ \/ srv[o].alink = "up" /\ srv' = [srv EXCEPT ![o].alink = "down"]
       \/ srv[o].qlink = "up" /\ srv' = [srv EXCEPT ![o].qlink = "down"]
    /\ ofaults' = ofaults + 1
    /\ UNCHANGED <<inVars, ready, pendingConn, remote, failed, srvUaf>>

\* _heartBeatTimer expires.
HeartBeatTimerFires ==
    /\ armed /\ beats < MaxBeats
    /\ armed' = FALSE /\ beats' = beats + 1
    /\ Post("beat", NoUuid, TRUE, NoUuid)
    /\ UNCHANGED <<outVars, cl, clients, accepting, inbox, sent, asked, got>>

\* Past the explored heartbeats, with every handler run, the model rests.
Rest == beats = MaxBeats /\ ready = <<>> /\ UNCHANGED vars

Next ==
    \/ Reactor
    \/ AcceptFails \/ HeartBeatTimerFires
    \/ \E p \in Peers : \/ PeerConnects(p) \/ PeerSends(p) \/ LinkBreaks(p)
                        \/ ReadCompletes(p) \/ WriteCompletes(p)
    \/ \E o \in Servers : \/ ServerIoCompletes(o) \/ QueryIoCompletes(o)
                          \/ HeartbeatArrives(o) \/ ServerLinkBreaks(o)
    \/ Rest

\* The reactor takes the front handler off `ready`: no other step does, and
\* every handler can run whenever it is at the front, so this is exactly a
\* Reactor step and is enabled exactly when Reactor is.
ReactorStep == ready # <<>> /\ ready' = Tail(ready)

\* A MeshServer's socket operations other than a heartbeat read.  Each step
\* ends one, and only a handler starts the next, so fairness to them as a
\* whole lets each of them complete.  The handshake reads among them
\* complete only if the peer answers or resets: MeshServer has no
\* handshake timeout, so this fairness assumes a peer that responds.
ServerIo == \E o \in Servers : ServerIoCompletes(o) \/ QueryIoCompletes(o)

\* The reactor runs ready handlers, the kernel completes I/O and the peers
\* keep connecting and sending; a peer retries its connection on every
\* heartbeat, so one whose accept keeps failing still gets through (strong
\* fairness: AcceptFails takes the outstanding accept away).
Fairness ==
    /\ WF_ready(ReactorStep) /\ WF_vars(HeartBeatTimerFires)
    /\ \A p \in Peers : /\ SF_vars(PeerConnects(p)) /\ WF_vars(PeerSends(p))
                        /\ WF_vars(ReadCompletes(p)) /\ WF_vars(WriteCompletes(p))
    /\ WF_vars(ServerIo)

Spec == Init /\ [][Next]_vars /\ Fairness

(***************************************************************************)
(* Properties                                                              *)
(***************************************************************************)

\* The responses a peer has received, in order.
Responses(p) == SelectSeq(got[p], LAMBDA m : m.k = "resp")

\* A client is freed by queryClientDisconnected only when no read or send
\* of it is outstanding: no I/O of a freed client is in progress and no
\* handler bound to its raw this is ready to run (handleAfterAccept,
\* onMeshMessageReceived and the two send handlers all use this).
NoUseAfterFree ==
    \A p \in Peers :
        cl[p].st = "freed" =>
            /\ ~cl[p].rd /\ cl[p].wr = NoMsg
            /\ \A i \in DOMAIN ready : ready[i].c # p

\* The abstract responder of MeshQueryResponder, seen through the client:
\* the queries read, the responses the peer received, and whether the
\* socket is still open with its link up.
Responder == INSTANCE MeshQueryResponder
                 WITH Answers <- Lookups,
                      answered <- [p \in Peers |-> Responses(p)],
                      usable <- [p \in Peers |-> Usable(p)]

\* The query client implements the responder: it reads a query only once
\* the answer to the previous one has been sent (onAfterSendQueryResponse
\* is the only handler that listens again), responses queued in
\* _pendingSends behind heartbeats reach the peer once each and in query
\* order with the result assetExists gave, and an open connection keeps
\* answering.
ImplementsResponder == Responder!Spec

\* A trusted peer whose connection is never broken or closed (by an error
\* or a message that is not a query) gets an answer to every query it
\* sends: onAfterSendQueryResponse listens again after each one, and a
\* response queued behind a heartbeat is started by the heartbeat's
\* completion.
QueriesAnswered ==
    \A p \in Trusted :
        [](Usable(p)) => <>(Len(Responses(p)) = Len(Queries[p]))
\* A MeshServer is freed only when its safe-kill callback or the last map
\* drops it with nothing outstanding: no close() continues on it after a
\* nested queryEndpointClosed killed it, no handler bound to its raw this
\* runs or is ready, and no socket operation of it is in progress.
ServerNoUseAfterFree ==
    /\ ~srvUaf
    /\ \A o \in Servers :
          srv[o].st = "freed" =>
              /\ srv[o].aop = "none" /\ srv[o].qop = "none"
              /\ \A i \in DOMAIN ready : ready[i].c # o

\* Peer q can get no new connection and has no working one: an attempt is
\* pending, or _remoteServers holds a MeshServer whose asset connection is
\* down (doHeartBeat skips both).
Blocked(q) ==
    \/ pendingConn[q] # NoServer
    \/ remote[q] # NoServer /\ ~srv[remote[q]].aEst

\* A peer is never blocked for good: every attempt reports its second
\* connect result and leaves _pendingServerConnections, and a MeshServer
\* whose connection failed is eventually safe-killed out of _remoteServers,
\* once its query connection's read has failed too.
PeerNotBlocked == \A q \in OutPeers : Blocked(q) ~> ~Blocked(q)

\* spec.md 4.5: a peer with no heartbeat for 30 s is unreachable, and every
\* heartbeat tick connects each configured peer that is not connected.  A
\* MeshServer whose peer falls silent (no heartbeat, no reset) times out
\* (isTimedOut) but keeps its entry in _remoteServers, and doHeartBeat only
\* connects peers with no entry there: a MeshServer that stays in
\* _remoteServers for good must keep receiving heartbeats.
SilentPeerReplaced ==
    \A o \in Servers :
        <>[](remote[o[1]] = o) => []<><<HeartbeatArrives(o)>>_vars
====
