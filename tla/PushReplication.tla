-------------------------- MODULE PushReplication --------------------------
(***************************************************************************)
(* Push replication on the master: PushReplicationService, which runs its  *)
(* own io_service on its own thread, and the RemoteAssetService (RAS)      *)
(* connection to the slave that it creates, drives and replaces.           *)
(*                                                                         *)
(* Every handler of the push thread is a transformer of the thread's      *)
(* world t = [svc, ras, ready, freed, crashed]: the service's members,     *)
(* the current RAS's members with its pending socket operations, the      *)
(* io_service's FIFO of ready handlers, and two ghosts.  Calls that the   *)
(* code makes synchronously (an RAS completion invoking the service's     *)
(* callback, which starts the next PUT on the same RAS) are compositions  *)
(* of transformers, so one reactor step runs one whole handler.           *)
(*                                                                         *)
(* The kernel, the network, the slave, the VFS worker that stores assets, *)
(* the settings reload and AssetServer::stop are the other actors.  A     *)
(* socket operation completes by putting its handler at the end of the    *)
(* FIFO, with the result it has at that moment; close() does not take    *)
(* back a completion that is already queued.                               *)
(***************************************************************************)
EXTENDS Naturals, Sequences, FiniteSets
LOCAL INSTANCE SequencesExt

CONSTANTS
    Assets,          \* assets the local VFS stores (each stored once)
    NoAsset,         \* "no asset" in a handler record
    Endpoints,       \* host:port values replication_slave may name
    NoSlave,         \* replication_slave = "none" or ""
    NoEndpoint,      \* the default-constructed _replicationSlaveEndpoint
    InitialSettings, \* replication_slave values whip.cfg may start with
    MAX_QUEUE_SIZE,  \* PushReplicationService::MAX_QUEUE_SIZE
    SlaveInitial,    \* assets the slave already holds (e.g. pulled)
    MaxReloads,      \* bound on settings reloads that change the slave
    MaxLinkFaults,   \* bound on broken slave connections
    AuthFailures,    \* whether the slave may refuse our password
    SlaveWriteFaults \* whether the slave's own store may fail

ASSUME /\ NoAsset \notin Assets
       /\ NoSlave \notin Endpoints /\ NoEndpoint \notin Endpoints
       /\ MAX_QUEUE_SIZE \in Nat /\ MaxReloads \in Nat /\ MaxLinkFaults \in Nat
       /\ SlaveInitial \subseteq Assets
       /\ AuthFailures \in BOOLEAN /\ SlaveWriteFaults \in BOOLEAN

Settings == Endpoints \cup {NoSlave}

ASSUME InitialSettings \subseteq Settings

VARIABLES
    svc,        \* PushReplicationService members and its connection monitor
    ras,        \* the current RemoteAssetService and its socket operations
    ready,      \* the push io_service's queue of ready handlers (FIFO)
    running,    \* the push thread is inside io_service::run()
    setting,    \* Settings::replicationSlave()
    reloads,    \* settings reloads so far
    faults,     \* broken slave connections so far
    stored,     \* assets the VFS worker has stored (and queued), in order
    stopReq,    \* AssetServer::stop has posted doStop
    slaveHas,   \* assets stored on the slave
    tried,      \* ghost: assets whose PUT the slave has handled, in order
    freedBusy,  \* ghost: an RAS was destroyed with work still bound to it
    crashed     \* ghost: the process aborted (undefined behaviour hit)

vars == <<svc, ras, ready, running, setting, reloads, faults, stored,
          stopReq, slaveHas, tried, freedBusy, crashed>>

ReadOps  == {"none", "challenge", "status", "header", "data", "errdata"}
WriteOps == {"none", "auth", "put"}
PushHandlers == {"queue", "putCb", "check", "stop"}
RASHandlers  == {"connect", "challenge", "authWrite", "status", "write",
                 "header", "data", "errdata"}
Codes == {"none", "ok", "err", "success", "fail"}

Handler(h, ok, a, code) == [h |-> h, ok |-> ok, a |-> a, code |-> code]
Post(h, a) == Handler(h, TRUE, a, "none")

NoRAS == [est |-> FALSE, sa |-> FALSE, ra |-> FALSE, tq |-> <<>>, cq |-> <<>>,
          sock |-> "none", link |-> "up", rd |-> "none", wr |-> "none",
          wa |-> NoAsset, cn |-> FALSE, out |-> <<>>, in |-> <<>>]

TypeOK ==
    /\ svc \in [connected : BOOLEAN, sending : BOOLEAN, waiting : Seq(Assets),
                stop : BOOLEAN, endpoint : Endpoints \cup {NoEndpoint},
                monitor : BOOLEAN]
    /\ ras \in [est : BOOLEAN, sa : BOOLEAN, ra : BOOLEAN, tq : Seq(Assets),
                cq : Seq(Assets), sock : {"none", "connecting", "open", "closed"},
                link : {"up", "down"}, rd : ReadOps, wr : WriteOps,
                wa : Assets \cup {NoAsset}, cn : BOOLEAN,
                out : Seq(Assets), in : Seq({"ok", "err"})]
    /\ ready \in Seq([h : PushHandlers \cup RASHandlers, ok : BOOLEAN,
                      a : Assets \cup {NoAsset}, code : Codes])
    /\ running \in BOOLEAN /\ setting \in Settings
    /\ reloads \in 0..MaxReloads /\ faults \in 0..MaxLinkFaults
    /\ stored \in Seq(Assets) /\ stopReq \in BOOLEAN
    /\ slaveHas \subseteq Assets /\ tried \in Seq(Assets)
    /\ freedBusy \in BOOLEAN /\ crashed \in BOOLEAN

\* PushReplicationService(), start() and run(): not connected, not sending,
\* the connection monitor armed for 1 s, no RemoteAssetService yet.
Init ==
    /\ svc = [connected |-> FALSE, sending |-> FALSE, waiting |-> <<>>,
              stop |-> FALSE, endpoint |-> NoEndpoint, monitor |-> TRUE]
    /\ ras = NoRAS
    /\ ready = <<>>
    /\ running = TRUE
    /\ setting \in InitialSettings
    /\ reloads = 0 /\ faults = 0 /\ stored = <<>> /\ stopReq = FALSE
    /\ slaveHas = SlaveInitial /\ tried = <<>>
    /\ freedBusy = FALSE /\ crashed = FALSE

(***************************************************************************)
(* RemoteAssetService: the client side of the PUT pipeline.               *)
(***************************************************************************)

\* listenForServerResponses: read the next response header.
Listen(t) == [t EXCEPT !.ras.ra = TRUE, !.ras.rd = "header"]

\* sendPutRequest: one scatter write of header and data; the callback waits
\* in _assetCallbackQueue for the response.
SendPutRequest(t, a) ==
    [t EXCEPT !.ras.sa = TRUE, !.ras.wr = "put", !.ras.wa = a,
              !.ras.cq = Append(@, a)]

\* putAsset: when the connection is not established it posts the error
\* callback and does NOT return, so it also sends or queues the PUT.
PutAsset(t, a) ==
    LET t1 == IF t.ras.est THEN t
              ELSE [t EXCEPT !.ready = Append(@, Post("putCb", a))]
    IN  IF ~t1.ras.sa THEN SendPutRequest(t1, a)
        ELSE [t1 EXCEPT !.ras.tq = Append(@, a)]

\* doNextQueuedRequest: putAsset the front transfer, then pop it.
DoNextQueuedRequest(t) ==
    LET t1 == PutAsset(t, Head(t.ras.tq)) IN [t1 EXCEPT !.ras.tq = Tail(@)]

(***************************************************************************)
(* PushReplicationService callbacks that RAS calls synchronously.         *)
(***************************************************************************)

\* onSafeKillConnection: forget the connection, the PUT in flight and the
\* waiting assets.
SafeKill(t) ==
    [t EXCEPT !.svc.connected = FALSE, !.svc.sending = FALSE,
              !.svc.waiting = <<>>]

CheckSafeKillIgnoringIO(t) == IF ~t.ras.est THEN SafeKill(t) ELSE t

\* checkSafeKill: the RAS tells its owner it may be dropped once it is not
\* established and has no read or write in progress.
CheckSafeKill(t) ==
    IF ~t.ras.est /\ ~t.ras.ra /\ ~t.ras.sa THEN SafeKill(t) ELSE t

\* doPutAsset: unless stopping, mark a PUT in flight and hand it to RAS.
DoPutAsset(t, a) ==
    IF t.svc.stop THEN t
    ELSE PutAsset([t EXCEPT !.svc.sending = TRUE], a)

AfterAssetPutNoNext(t) == [t EXCEPT !.svc.sending = FALSE]

\* onAfterAssetPut (the outcome is only logged) and pushNextWaitingAsset.
AfterAssetPut(t) ==
    LET t1 == [t EXCEPT !.svc.sending = FALSE]
    IN  IF t1.svc.connected /\ ~t1.svc.stop /\ t1.svc.waiting # <<>>
        THEN DoPutAsset([t1 EXCEPT !.svc.waiting = Tail(@)],
                        Head(t1.svc.waiting))
        ELSE t1

\* close(): close the socket, then call every queued transfer's callback
\* and every sent request's callback with an error, each before it is
\* popped.  A callback starts the next waiting PUT on this closed RAS:
\* that PUT is added to one of the queues, and the loop that is still
\* running picks it up.
RECURSIVE FailTransfers(_)
FailTransfers(t) ==
    IF t.ras.tq = <<>> THEN t
    ELSE LET t1 == AfterAssetPut(t) IN FailTransfers([t1 EXCEPT !.ras.tq = Tail(@)])

RECURSIVE FailCallbacks(_)
FailCallbacks(t) ==
    IF t.ras.cq = <<>> THEN t
    ELSE LET t1 == AfterAssetPut(t) IN FailCallbacks([t1 EXCEPT !.ras.cq = Tail(@)])

Close(t) ==
    CheckSafeKill(FailCallbacks(FailTransfers(
        [t EXCEPT !.ras.sock = "closed", !.ras.est = FALSE])))

(***************************************************************************)
(* PushReplicationService: connection monitor, queue and stop.            *)
(***************************************************************************)

\* resetConnectionMonitor: unless stopping, arm the timer.  expires_from_now
\* cancels a wait in progress, whose handler then runs (the bound handler
\* ignores the error code).
ResetMonitor(t) ==
    IF t.svc.stop THEN t
    ELSE [t EXCEPT !.svc.monitor = TRUE,
                   !.ready = IF t.svc.monitor THEN Append(@, Post("check", NoAsset))
                             ELSE @]

\* A RemoteAssetService still has work bound to its raw this: a socket
\* operation in progress or a completion waiting in the FIFO.
RASBusy(t) ==
    \/ t.ras.rd # "none" \/ t.ras.wr # "none" \/ t.ras.cn
    \/ \E i \in 1..Len(t.ready) : t.ready[i].h \in RASHandlers

\* makeConnection: _replSlave.reset(new RemoteAssetService) drops the old
\* one, then connect() starts async_connect on a new TCP connection.
MakeConnection(t) ==
    [t EXCEPT !.ras = [NoRAS EXCEPT !.sock = "connecting", !.cn = TRUE],
              !.freed = @ \/ RASBusy(t)]

\* endpointChanged: remember the endpoint; close a live connection and wait
\* for the next tick, or connect at once.
EndpointChanged(t, ep) ==
    LET t1 == [t EXCEPT !.svc.endpoint = ep]
    IN  IF t1.svc.connected THEN ResetMonitor(Close(t1)) ELSE MakeConnection(t1)

\* onCheckConnection, the connection monitor's tick.
OnCheckConnection(t) ==
    IF t.svc.stop THEN t
    ELSE IF setting = NoSlave
         THEN ResetMonitor(IF t.svc.connected THEN Close(t) ELSE t)
    ELSE IF setting # t.svc.endpoint THEN EndpointChanged(t, setting)
    ELSE IF ~t.svc.connected THEN MakeConnection(t)
    ELSE ResetMonitor(t)

\* onServiceConnectionStatus: the connect callback.
OnServiceConnectionStatus(t, success) ==
    ResetMonitor(IF success THEN [t EXCEPT !.svc.connected = TRUE] ELSE t)

DoQueueAssetForPushIgnoringSending(t, a) ==
    IF ~t.svc.connected \/ t.svc.stop THEN t ELSE DoPutAsset(t, a)

DoQueueAssetForPushQueueFirst(t, a) ==
    IF ~t.svc.connected \/ t.svc.stop \/ Len(t.svc.waiting) > MAX_QUEUE_SIZE THEN t
    ELSE LET t1 == [t EXCEPT !.svc.waiting = Append(@, a)]
         IN  IF ~t.svc.sending THEN DoPutAsset(t1, a) ELSE t1

\* doQueueAssetForPush: drop the asset when not connected or stopping, or
\* when a PUT is in flight and more than MAX_QUEUE_SIZE assets wait.
DoQueueAssetForPush(t, a) ==
    IF ~t.svc.connected \/ t.svc.stop THEN t
    ELSE IF ~t.svc.sending THEN DoPutAsset(t, a)
    ELSE IF Len(t.svc.waiting) > MAX_QUEUE_SIZE THEN t
    ELSE [t EXCEPT !.svc.waiting = Append(@, a)]

\* doStop: set _stop, release the work guard, close a live connection.
DoStop(t) ==
    LET t1 == [t EXCEPT !.svc.stop = TRUE]
    IN  IF t1.svc.connected THEN Close(t1) ELSE t1

(***************************************************************************)
(* RemoteAssetService completion handlers.                                *)
(***************************************************************************)

\* onConnectionResult: report to the owner, then listen if established.
OnConnectionResult(t) ==
    LET t1 == OnServiceConnectionStatus(t, t.ras.est)
    IN  IF t1.ras.est THEN Listen(t1) ELSE t1

Refused(t) == OnConnectionResult([t EXCEPT !.ras.est = FALSE])

\* onConnect: read the slave's challenge.
OnConnect(t, ok) ==
    IF ok THEN [t EXCEPT !.ras.sock = "open", !.ras.rd = "challenge"]
    ELSE Refused(t)

\* onRecvChallenge and sendChallengeResponse: write the response.
OnRecvChallenge(t, ok) ==
    IF ok THEN [t EXCEPT !.ras.wr = "auth"] ELSE Refused(t)

\* onChallengeResponseWrite: read the authentication status.
OnChallengeResponseWrite(t, ok) ==
    IF ok THEN [t EXCEPT !.ras.rd = "status"] ELSE Refused(t)

\* onAuthenticationStatus: established iff the status reads as a success.
OnAuthenticationStatus(t, ok, code) ==
    OnConnectionResult([t EXCEPT !.ras.est = ok /\ code = "success"])

\* onAfterWriteAssetRequest: start a queued transfer while established,
\* then checkSafeKill; a failed write closes.
OnAfterWriteAssetRequest(t, ok) ==
    LET t1 == [t EXCEPT !.ras.sa = FALSE]
    IN  IF ~ok THEN Close(t1)
        ELSE CheckSafeKill(IF t1.ras.est /\ t1.ras.tq # <<>>
                           THEN DoNextQueuedRequest(t1) ELSE t1)

\* onReadResponseHeader: an OK is followed by its (empty) data; an error
\* carries its message as data, which must be read and discarded.
OnReadResponseHeader(t, ok, code) ==
    LET t1 == [t EXCEPT !.ras.ra = FALSE]
    IN  IF ~ok THEN Close(t1)
        ELSE [t1 EXCEPT !.ras.ra = TRUE,
                        !.ras.rd = IF code = "ok" THEN "data" ELSE "errdata"]

\* Call the front waiter's callback, then pop it.  front() of an empty
\* std::queue is undefined; the code BOOST_ASSERTs it is not empty.
CallFront(t) ==
    IF t.ras.cq = <<>> THEN [t EXCEPT !.crashed = TRUE]
    ELSE [AfterAssetPut(t) EXCEPT !.ras.cq = Tail(@)]

\* onReadResponseData and handleConfirmation: only while established.
OnReadResponseData(t, ok) ==
    LET t1 == [t EXCEPT !.ras.ra = FALSE]
    IN  IF ok /\ t1.ras.est THEN Listen(CallFront(t1)) ELSE Close(t1)

\* onHandleRequestErrorData: no check that the connection is still
\* established.
OnHandleRequestErrorData(t, ok) ==
    LET t1 == [t EXCEPT !.ras.ra = FALSE]
    IN  IF ok THEN Listen(CallFront(t1)) ELSE Close(t1)

(***************************************************************************)
(* The push thread: io_service::run() executes the front handler.         *)
(***************************************************************************)

World == [svc |-> svc, ras |-> ras, ready |-> Tail(ready),
          freed |-> freedBusy, crashed |-> crashed]

NextHandler == Head(ready)

Dispatching(h) == running /\ ~crashed /\ ready # <<>> /\ Head(ready).h = h

Run(t) ==
    /\ svc' = t.svc /\ ras' = t.ras /\ ready' = t.ready
    /\ freedBusy' = t.freed /\ crashed' = t.crashed
    /\ UNCHANGED <<running, setting, reloads, faults, stored, stopReq,
                   slaveHas, tried>>

RunQueue      == Dispatching("queue") /\ Run(DoQueueAssetForPush(World, NextHandler.a))
RunPutCb      == Dispatching("putCb") /\ Run(AfterAssetPut(World))
RunCheck      == Dispatching("check") /\ Run(OnCheckConnection(World))
RunStop       == Dispatching("stop")  /\ Run(DoStop(World))
RunConnect    == Dispatching("connect") /\ Run(OnConnect(World, NextHandler.ok))
RunChallenge  == Dispatching("challenge") /\ Run(OnRecvChallenge(World, NextHandler.ok))
RunAuthWrite  == Dispatching("authWrite")
                 /\ Run(OnChallengeResponseWrite(World, NextHandler.ok))
RunStatus     == Dispatching("status")
                 /\ Run(OnAuthenticationStatus(World, NextHandler.ok, NextHandler.code))
RunWrite      == Dispatching("write")
                 /\ Run(OnAfterWriteAssetRequest(World, NextHandler.ok))
RunHeader     == Dispatching("header")
                 /\ Run(OnReadResponseHeader(World, NextHandler.ok, NextHandler.code))
RunData       == Dispatching("data") /\ Run(OnReadResponseData(World, NextHandler.ok))
RunErrorData  == Dispatching("errdata")
                 /\ Run(OnHandleRequestErrorData(World, NextHandler.ok))

Reactor ==
    \/ RunQueue \/ RunPutCb \/ RunCheck \/ RunStop \/ RunConnect
    \/ RunChallenge \/ RunAuthWrite \/ RunStatus \/ RunWrite \/ RunHeader
    \/ RunData \/ RunErrorData

\* io_service::run() returns once doStop released the work guard and no
\* handler or operation is left; later posts are never run.
ThreadExits ==
    /\ running /\ ~crashed /\ svc.stop /\ ready = <<>> /\ ~svc.monitor
    /\ ras.rd = "none" /\ ras.wr = "none" /\ ~ras.cn
    /\ running' = FALSE
    /\ UNCHANGED <<svc, ras, ready, setting, reloads, faults, stored, stopReq,
                   slaveHas, tried, freedBusy, crashed>>

(***************************************************************************)
(* The other actors.                                                      *)
(***************************************************************************)

Env(r, q) ==
    /\ ras' = r /\ ready' = q
    /\ UNCHANGED <<svc, running, setting, reloads, faults, stored, stopReq,
                   slaveHas, tried, freedBusy, crashed>>

Live == ras.sock = "open" /\ ras.link = "up"

\* VFSBackend::performDiskWrite stores the asset, then queueAssetForPush
\* posts doQueueAssetForPush to the push thread.
StoreAsset ==
    /\ ~crashed
    /\ \E a \in Assets \ ToSet(stored) :
        /\ stored' = Append(stored, a)
        /\ ready' = Append(ready, Post("queue", a))
    /\ UNCHANGED <<svc, ras, running, setting, reloads, faults, stopReq,
                   slaveHas, tried, freedBusy, crashed>>

\* Settings::reload (run by the intramesh heartbeat) changes
\* replication_slave.
ReloadSettings ==
    /\ ~crashed /\ reloads < MaxReloads
    /\ \E s \in Settings \ {setting} : setting' = s
    /\ reloads' = reloads + 1
    /\ UNCHANGED <<svc, ras, ready, running, faults, stored, stopReq,
                   slaveHas, tried, freedBusy, crashed>>

\* AssetServer::stop calls PushReplicationService::stop, which posts doStop.
RequestStop ==
    /\ ~crashed /\ ~stopReq
    /\ stopReq' = TRUE
    /\ ready' = Append(ready, Post("stop", NoAsset))
    /\ UNCHANGED <<svc, ras, running, setting, reloads, faults, stored,
                   slaveHas, tried, freedBusy, crashed>>

\* The connection monitor's deadline passes.
TimerExpires ==
    /\ ~crashed /\ svc.monitor
    /\ svc' = [svc EXCEPT !.monitor = FALSE]
    /\ ready' = Append(ready, Post("check", NoAsset))
    /\ UNCHANGED <<ras, running, setting, reloads, faults, stored, stopReq,
                   slaveHas, tried, freedBusy, crashed>>

\* async_connect completes: the slave may be down.
ConnectCompletes ==
    /\ ~crashed /\ ras.cn
    /\ \E ok \in BOOLEAN :
        Env([ras EXCEPT !.cn = FALSE], Append(ready, Handler("connect", ok, NoAsset, "none")))

\* A read completes.  Authentication reads need the live connection; a
\* header read needs a response or fails once the socket is closed or the
\* link is down; an OK's data is empty, and a zero-length read completes
\* at once; an error's text was sent with its header and is read unless
\* the socket was closed first.
ReadCompletes ==
    /\ ~crashed /\ ras.rd # "none"
    /\ \/ /\ ras.rd = "challenge"
          /\ Env([ras EXCEPT !.rd = "none"],
                 Append(ready, Handler("challenge", Live, NoAsset, "none")))
       \/ /\ ras.rd = "status"
          /\ \E code \in IF AuthFailures THEN {"success", "fail"} ELSE {"success"} :
                Env([ras EXCEPT !.rd = "none"],
                    Append(ready, Handler("status", Live, NoAsset, code)))
       \/ /\ ras.rd = "header" /\ ~Live
          /\ Env([ras EXCEPT !.rd = "none"],
                 Append(ready, Handler("header", FALSE, NoAsset, "none")))
       \/ /\ ras.rd = "header" /\ Live /\ ras.in # <<>>
          /\ Env([ras EXCEPT !.rd = "none", !.in = Tail(@)],
                 Append(ready, Handler("header", TRUE, NoAsset, Head(ras.in))))
       \/ /\ ras.rd = "data"
          /\ Env([ras EXCEPT !.rd = "none"],
                 Append(ready, Handler("data", TRUE, NoAsset, "none")))
       \/ /\ ras.rd = "errdata"
          /\ Env([ras EXCEPT !.rd = "none"],
                 Append(ready, Handler("errdata", ras.sock = "open", NoAsset, "none")))

\* A write completes; a PUT that was written reaches the slave's socket.
WriteCompletes ==
    /\ ~crashed /\ ras.wr # "none"
    /\ Env([ras EXCEPT !.wr = "none", !.wa = NoAsset,
                       !.out = IF Live /\ ras.wr = "put" THEN Append(@, ras.wa) ELSE @],
           Append(ready, Handler(IF ras.wr = "put" THEN "write" ELSE "authWrite",
                                 Live, NoAsset, "none")))

\* The slave's session handles a PUT (CSAuthenticated::handleAssetDataRead
\* and handleStorageWriteResponse): an asset it already has is refused,
\* a new one is stored unless its own store fails.
SlaveHandlesPut ==
    /\ ~crashed /\ ras.out # <<>> /\ ras.link = "up"
    /\ LET a == Head(ras.out) IN
       \E code \in IF a \in slaveHas THEN {"err"}
                   ELSE IF SlaveWriteFaults THEN {"ok", "err"} ELSE {"ok"} :
         /\ ras' = [ras EXCEPT !.out = Tail(@), !.in = Append(@, code)]
         /\ slaveHas' = IF code = "ok" THEN slaveHas \cup {a} ELSE slaveHas
         /\ tried' = Append(tried, a)
    /\ UNCHANGED <<svc, ready, running, setting, reloads, faults, stored,
                   stopReq, freedBusy, crashed>>

\* The TCP connection to the slave breaks.
LinkBreaks ==
    /\ ~crashed /\ faults < MaxLinkFaults /\ Live
    /\ ras' = [ras EXCEPT !.link = "down"]
    /\ faults' = faults + 1
    /\ UNCHANGED <<svc, ready, running, setting, reloads, stored, stopReq,
                   slaveHas, tried, freedBusy, crashed>>

Kernel == ConnectCompletes \/ ReadCompletes \/ WriteCompletes \/ TimerExpires

Next ==
    \/ Reactor \/ ThreadExits \/ Kernel \/ SlaveHandlesPut
    \/ StoreAsset \/ ReloadSettings \/ RequestStop \/ LinkBreaks

\* The reactor runs queued handlers; the kernel completes operations whose
\* outcome is available; the slave serves its socket; a stopped thread
\* leaves run().  Stores, reloads, stop and link faults may never happen.
Spec ==
    /\ Init /\ [][Next]_vars
    /\ WF_vars(Reactor) /\ WF_vars(ThreadExits) /\ WF_vars(SlaveHandlesPut)
    /\ WF_vars(ConnectCompletes) /\ WF_vars(ReadCompletes)
    /\ WF_vars(WriteCompletes) /\ WF_vars(TimerExpires)

(***************************************************************************)
(* Properties.                                                            *)
(***************************************************************************)

\* Spec 4.6: "The push worker serializes PUTs to the slave."  While the
\* service is connected and the slave connection is established, RAS holds
\* exactly the one PUT that _sending announces, or none.  Stale error
\* callbacks that putAsset posts on a closed connection, the close() loop
\* that starts PUTs on the closed RAS and the reconnect all meet here.
Serialized ==
    svc.connected /\ ras.est =>
        Len(ras.tq) + Len(ras.cq) = IF svc.sending THEN 1 ELSE 0

\* Handlers of RemoteAssetService are bound to its raw this, so
\* makeConnection's _replSlave.reset must never drop an RAS with an
\* operation in progress or a completion queued; checkSafeKill's
\* !_recvActive && !_sendActive is what keeps the monitor from reconnecting
\* too early.
RASNotFreedWhileBusy == ~freedBusy

\* The assertion in onHandleRequestErrorData (and onReadResponseData):
\* a response always finds the request it answers in _assetCallbackQueue.
\* Otherwise front() of the empty queue is undefined and the process dies.
ResponseHasWaiter == ~crashed

InPipeline(a) ==
    a \in ToSet(svc.waiting) \cup ToSet(ras.tq) \cup ToSet(ras.cq)

\* An asset that waits for, or is in, a PUT on an established connection
\* reaches the slave, or the connection is given up (onSafeKillConnection
\* clears the queue) or the process died: a lost callback or a stuck
\* _sending flag would leave it waiting forever.
PushDrains ==
    \A a \in Assets :
        (svc.connected /\ ras.est /\ InPipeline(a))
            ~> (a \in ToSet(tried) \/ ~svc.connected \/ crashed)

\* The abstract stream of PushStream: the stored assets, and the PUTs the
\* slave handled.
Stream == INSTANCE PushStream WITH received <- tried

\* Push replication implements the stream: the slave handles only stored
\* assets and never one twice.  pushNextWaitingAsset pops
\* _waitingAssets before the PUT, a PUT started by close()'s callback loop
\* goes to a closed socket, and a reconnect starts an empty pipeline; any
\* of these done otherwise would resend an asset.
ImplementsPushStream == Stream!Spec

====
