-------------------------- MODULE PullReplication --------------------------
(***************************************************************************)
(* Pull replication on a slave: PullReplicationService, which runs its own *)
(* io_service on its own thread, the RemoteAssetService (RAS) connection  *)
(* to the master that it creates and reuses, and the VFSBackend calls it   *)
(* makes to store what it fetched.                                         *)
(*                                                                         *)
(* As in PushReplication, every handler of the pull thread is a            *)
(* transformer of the thread's world t = [svc, ras, ready, index, vfsQ,    *)
(* mainQ, freed, crashed]: the service's members, the current RAS with its *)
(* pending socket operations, the pull io_service's FIFO, the existence    *)
(* index and the disk worker's queue that storeAsset touches from this     *)
(* thread, the main io_service that VFSBackend posts its callbacks to, and *)
(* two ghosts.  The synchronous call chains of the code (runStep ->        *)
(* verifyConnection -> close() -> the request callbacks -> checkSafeKill  *)
(* -> onServerConnectionFailed -> runStep) are mutually RECURSIVE          *)
(* operators, so one reactor step runs one whole handler.                  *)
(*                                                                         *)
(* A sweep lists the ids of each UUID prefix, StartAt .. LastPrefix        *)
(* (0x000 .. 0xfff in the code), filters them against the existence       *)
(* index and fetches the missing ones BatchSize at a time.                 *)
(***************************************************************************)
EXTENDS Naturals, Sequences, FiniteSets
LOCAL INSTANCE SequencesExt

CONSTANTS
    Assets,          \* asset UUIDs
    NoAsset,         \* "no asset" in a request record
    Masters,         \* host:port values replication_master may name
    NoMaster,        \* replication_master = ""
    InitialMasters,  \* replication_master values whip.cfg may start with
    ReloadMasters,   \* replication_master values a settings reload may set
    LastPrefix,      \* the last UUID prefix of a sweep (0xfff)
    StartAt,         \* pull_replication_start_at
    MasterIds,       \* MasterIds[p]: the ids the master lists for prefix p
    BatchSize,       \* pull_replication_batch_size
    ClientAssets,    \* assets local clients may PUT while pulling
    MaxReloads,      \* bound on settings reloads
    MaxFaults,       \* bound on link breaks, master errors and write faults
    AuthFailures,    \* whether the master may refuse our password
    AuthPhaseFaults, \* whether the link may break before authentication ends
    MasterErrors,    \* whether the master may answer a GET with an error
    WriteFaults      \* whether the local disk write may fail

UuidPrefixes == 0..LastPrefix
MasterAssets == UNION {ToSet(MasterIds[p]) : p \in UuidPrefixes}

ASSUME /\ NoAsset \notin Assets /\ NoMaster \notin Masters
       /\ InitialMasters \subseteq Masters
       /\ ReloadMasters \subseteq Masters \cup {NoMaster}
       /\ StartAt \in UuidPrefixes /\ BatchSize \in Nat \ {0}
       /\ MasterIds \in [UuidPrefixes -> Seq(Assets)]
       /\ ClientAssets \subseteq Assets
       /\ MaxReloads \in Nat /\ MaxFaults \in Nat
       /\ {AuthFailures, AuthPhaseFaults, MasterErrors, WriteFaults} \subseteq BOOLEAN

VARIABLES
    svc,        \* PullReplicationService members and its two timers
    ras,        \* the current RemoteAssetService and its socket operations
    ready,      \* the pull io_service's queue of ready handlers (FIFO)
    running,    \* the pull thread is inside io_service::run()
    setting,    \* Settings::replicationMaster()
    reloads,    \* settings reloads so far
    faults,     \* link breaks, master errors and write faults so far
    index,      \* the existence index (shared with the main thread)
    vfsQ,       \* VFSBackend's work queue of writes
    mainQ,      \* the main io_service's queue of VFSBackend posts
    disk,       \* assets stored on the local disk
    clientPut,  \* assets a local client has PUT
    stopReq,    \* AssetServer::stop has posted doStop
    freedBusy,  \* ghost: an RAS was destroyed with work still bound to it
    crashed     \* ghost: the process aborted (null dereference, UB)

vars == <<svc, ras, ready, running, setting, reloads, faults, index, vfsQ,
          mainQ, disk, clientPut, stopReq, freedBusy, crashed>>

Steps == {"NONE", "IDLIST", "RETRIEVE", "WAIT", "NOMASTER"}
Idle  == {"NONE", "WAIT", "NOMASTER"}   \* steps where the master is re-read

\* A request of the pull service: a STORED_ASSET_IDS_GET for a prefix or a
\* GET_DONTCACHE for an asset.
IdsReq(p) == [k |-> "ids", x |-> p]
GetReq(a) == [k |-> "get", x |-> a]
NoReq     == [k |-> "none", x |-> NoAsset]
Requests  == {IdsReq(p) : p \in UuidPrefixes} \cup {GetReq(a) : a \in Assets}

Handler(h, ok, r, code) == [h |-> h, ok |-> ok, r |-> r, code |-> code]
Post(h) == Handler(h, TRUE, NoReq, "none")

PullHandlers == {"run", "restart", "reconnect", "stop", "reqCb", "stored"}
RASHandlers  == {"connect", "challenge", "authWrite", "status", "write",
                 "header", "data", "errdata"}
Codes == {"none", "ok", "nodata", "errdata", "success", "fail", "err"}

NoRAS == [ep |-> NoMaster, est |-> FALSE, sa |-> FALSE, ra |-> FALSE,
          tq |-> <<>>, cq |-> <<>>, sock |-> "none", link |-> "up",
          rd |-> "none", wr |-> "none", wreq |-> NoReq, cn |-> FALSE,
          out |-> <<>>, in |-> <<>>]

TypeOK ==
    /\ svc \in [connected : BOOLEAN, stop : BOOLEAN, step : Steps,
                prefix : 0..LastPrefix + 1, pending : Seq(Assets),
                inProg : SUBSET Assets, endpoint : Masters,
                hasRAS : BOOLEAN, restart : BOOLEAN, reconnect : BOOLEAN,
                due : BOOLEAN]
    /\ ras \in [ep : Masters \cup {NoMaster}, est : BOOLEAN, sa : BOOLEAN,
                ra : BOOLEAN, tq : Seq(Requests), cq : Seq(Requests),
                sock : {"none", "connecting", "open", "closed"},
                link : {"up", "down"},
                rd : {"none", "challenge", "status", "header", "data", "errdata"},
                wr : {"none", "auth", "req"}, wreq : Requests \cup {NoReq},
                cn : BOOLEAN, out : Seq(Requests),
                in : Seq({"ok", "nodata", "errdata"})]
    /\ ready \in Seq([h : PullHandlers \cup RASHandlers, ok : BOOLEAN,
                      r : Requests \cup {NoReq}, code : Codes])
    /\ running \in BOOLEAN /\ setting \in Masters \cup {NoMaster}
    /\ reloads \in 0..MaxReloads /\ faults \in 0..MaxFaults
    /\ index \subseteq Assets /\ disk \subseteq Assets
    /\ vfsQ \in Seq([a : Assets, pull : BOOLEAN])
    /\ mainQ \in Seq([k : {"unindex", "stored"}, a : Assets, ok : BOOLEAN])
    /\ clientPut \subseteq ClientAssets /\ stopReq \in BOOLEAN
    /\ freedBusy \in BOOLEAN /\ crashed \in BOOLEAN

\* AssetServer::configurePullReplication creates the service only when
\* replication_master is set; start() runs runStep() on the new thread
\* before io_service::run(), which is the "run" handler here.
Init ==
    /\ setting \in InitialMasters
    /\ svc = [connected |-> FALSE, stop |-> FALSE, step |-> "NONE",
              prefix |-> 0, pending |-> <<>>, inProg |-> {},
              endpoint |-> setting, hasRAS |-> FALSE, restart |-> FALSE,
              reconnect |-> FALSE, due |-> FALSE]
    /\ ras = NoRAS
    /\ ready = <<Post("run")>>
    /\ running = TRUE
    /\ reloads = 0 /\ faults = 0
    /\ index = {} /\ vfsQ = <<>> /\ mainQ = <<>> /\ disk = {}
    /\ clientPut = {} /\ stopReq = FALSE
    /\ freedBusy = FALSE /\ crashed = FALSE

(***************************************************************************)
(* RemoteAssetService: the requests pull replication makes.               *)
(***************************************************************************)

\* listenForServerResponses: read the next response header.
Listen(t) == [t EXCEPT !.ras.ra = TRUE, !.ras.rd = "header"]

\* sendGetRequest: write a GET_DONTCACHE header; the callback waits in
\* _assetCallbackQueue for the response.
SendGetRequest(t, a) ==
    [t EXCEPT !.ras.sa = TRUE, !.ras.wr = "req", !.ras.wreq = GetReq(a),
              !.ras.cq = Append(@, GetReq(a))]

\* sendAssetIdsRequest: the same for STORED_ASSET_IDS_GET (the prefix is
\* padded to 32 characters).
SendAssetIdsRequest(t, p) ==
    [t EXCEPT !.ras.sa = TRUE, !.ras.wr = "req", !.ras.wreq = IdsReq(p),
              !.ras.cq = Append(@, IdsReq(p))]

\* The error callback posted when the connection is not established: a
\* non-fatal RASError("Connection not established").
PostNotEstablished(t, r) ==
    IF t.ras.est THEN t
    ELSE [t EXCEPT !.ready = Append(@, Handler("reqCb", TRUE, r, "err"))]

\* getAsset: when not established it posts the error callback and does NOT
\* return, so it also sends or queues the request.
GetAsset(t, a) ==
    LET t1 == PostNotEstablished(t, GetReq(a))
    IN  IF ~t1.ras.sa THEN SendGetRequest(t1, a)
        ELSE [t1 EXCEPT !.ras.tq = Append(@, GetReq(a))]

\* getStoredAssetIDsWithPrefix: the same shape.
GetStoredAssetIDsWithPrefix(t, p) ==
    LET t1 == PostNotEstablished(t, IdsReq(p))
    IN  IF ~t1.ras.sa THEN SendAssetIdsRequest(t1, p)
        ELSE [t1 EXCEPT !.ras.tq = Append(@, IdsReq(p))]

\* doNextQueuedRequest: re-issue the front transfer, then pop it.
DoNextQueuedRequest(t) ==
    LET r  == Head(t.ras.tq)
        t1 == IF r.k = "get" THEN GetAsset(t, r.x)
              ELSE GetStoredAssetIDsWithPrefix(t, r.x)
    IN  [t1 EXCEPT !.ras.tq = Tail(@)]

(***************************************************************************)
(* PullReplicationService: timers, connection and storage helpers.        *)
(***************************************************************************)

\* setReplicationRestartTimer: arm the 5 s timer that calls runStep.
\* expires_from_now cancels a wait in progress, whose handler then runs
\* (runStep is bound without the error code).
SetReplicationRestartTimer(t) ==
    [t EXCEPT !.svc.restart = TRUE,
              !.ready = IF t.svc.restart THEN Append(@, Post("restart")) ELSE @]

\* The 10 s _reconnectTimer of onServiceConnectionStatus, which calls
\* verifyConnection, with the same cancel semantics.
SetReconnectTimer(t) ==
    [t EXCEPT !.svc.reconnect = TRUE,
              !.ready = IF t.svc.reconnect THEN Append(@, Post("reconnect")) ELSE @]

\* new RemoteAssetService(_replicationMasterEndpoint) and setSafekillCallback.
NewRAS(t) ==
    [t EXCEPT !.ras = [NoRAS EXCEPT !.ep = t.svc.endpoint], !.svc.hasRAS = TRUE]

\* RemoteAssetService::connect: async_connect on the RAS's own socket.  A
\* socket that is already connected, or still connecting, fails at once
\* (EISCONN, EALREADY); otherwise the outcome comes from the kernel.
Connect(t) ==
    IF t.ras.sock \in {"open", "connecting"}
    THEN [t EXCEPT !.ready = Append(@, Handler("connect", FALSE, NoReq, "none"))]
    ELSE [t EXCEPT !.ras.sock = "connecting", !.ras.cn = TRUE]

\* VFSBackend::storeAsset, called on the pull thread: an asset the index
\* has is refused with a post to the main io_service; otherwise it enters
\* the index and its write is queued for the disk worker.
StoreAsset(t, a) ==
    IF a \in t.index
    THEN [t EXCEPT !.mainQ = Append(@, [k |-> "stored", a |-> a, ok |-> FALSE])]
    ELSE [t EXCEPT !.index = @ \cup {a}, !.vfsQ = Append(@, [a |-> a, pull |-> TRUE])]

\* retrieveIdListForPrefix with getStringPrefixForIndex.
RetrieveIdListForPrefix(t) == GetStoredAssetIDsWithPrefix(t, t.svc.prefix)

\* A RemoteAssetService still has work bound to its raw this: a socket
\* operation in progress or a completion waiting in the FIFO.
RASBusy(t) ==
    \/ t.ras.rd # "none" \/ t.ras.wr # "none" \/ t.ras.cn
    \/ \E i \in 1..Len(t.ready) : t.ready[i].h \in RASHandlers

(***************************************************************************)
(* The step machine.  runStep is called back from the request callbacks,  *)
(* and close() calls the request callbacks, so these are RECURSIVE.       *)
(***************************************************************************)

RECURSIVE RunStep(_)

\* retrieveNextIdList: the next prefix, or the end of the sweep: reset the
\* prefix, wait pull_replication_frequency minutes, arm the restart timer.
RetrieveNextIdList(t) ==
    LET t1 == [t EXCEPT !.svc.step = "IDLIST", !.svc.prefix = @ + 1]
    IN  IF t1.svc.prefix <= LastPrefix THEN RunStep(t1)
        ELSE SetReplicationRestartTimer(
                 [t1 EXCEPT !.svc.prefix = 0, !.svc.step = "WAIT",
                            !.svc.due = FALSE])

\* onGetStoredAssetIds: ignored when not connected.  An empty list moves
\* to the next prefix; otherwise the ids missing from the index become the
\* pending queue.  A non-fatal error steps again; a fatal one waits for the
\* safe-kill callback.
OnGetStoredAssetIds(t, res, ids) ==
    IF ~t.svc.connected THEN t
    ELSE IF res = "ok"
    THEN IF ids = <<>> THEN RetrieveNextIdList(t)
         ELSE LET missing == SelectSeq(ids, LAMBDA a : a \notin t.index)
                  t1 == [t EXCEPT !.svc.pending = missing]
              IN  IF missing = <<>> THEN RetrieveNextIdList(t1)
                  ELSE RunStep([t1 EXCEPT !.svc.step = "RETRIEVE"])
    ELSE IF res = "err" THEN RunStep(t)
    ELSE t

\* Mutant: a failed GET is never erased from _inProgressAssets.
OnAssetRetrievedKeepsFailed(t, res, a) ==
    IF ~t.svc.connected THEN t
    ELSE IF res = "ok" THEN StoreAsset(t, a)
    ELSE IF res = "err" /\ t.svc.inProg = {} THEN RunStep(t) ELSE t

\* onAssetRetrieved: ignored when not connected.  An error forgets the
\* asset and steps when it was the last one in progress and not fatal; an
\* asset is handed to the storage backend.
OnAssetRetrieved(t, res, a) ==
    IF ~t.svc.connected THEN t
    ELSE IF res = "ok" THEN StoreAsset(t, a)
    ELSE LET t1 == [t EXCEPT !.svc.inProg = @ \ {a}]
         IN  IF res = "err" /\ t1.svc.inProg = {} THEN RunStep(t1) ELSE t1

\* Mutant: the last stored asset of a batch does not call runStep.
OnAfterAssetStoredNoStep(t, a) == [t EXCEPT !.svc.inProg = @ \ {a}]

\* onAfterAssetStored (posted by onAfterAssetStoredStub): the outcome is
\* only logged; the last asset of the batch steps.
OnAfterAssetStored(t, a) ==
    LET t1 == [t EXCEPT !.svc.inProg = @ \ {a}]
    IN  IF t1.svc.inProg = {} THEN RunStep(t1) ELSE t1

\* A request's callback: res is "ok", "err" (RASError(true, false)) or
\* "fatal" (RASError(true, true)).  An ids answer carries the master's list
\* for the prefix that was asked (responses come back in request order).
Callback(t, r, res) ==
    IF r.k = "ids" THEN OnGetStoredAssetIds(t, res, MasterIds[r.x])
    ELSE OnAssetRetrieved(t, res, r.x)

\* onServerConnectionFailed, the safe-kill callback: drop the connection
\* (_assetSvc.reset()) and step, unless assets are still in progress (their
\* return will step) or the service waits; in NOMASTER arm the timer.
OnServerConnectionFailed(t) ==
    IF ~t.svc.connected THEN t
    ELSE LET t1 == [t EXCEPT !.svc.connected = FALSE, !.svc.hasRAS = FALSE,
                             !.freed = @ \/ RASBusy(t)]
         IN  IF t1.svc.inProg = {} /\ t1.svc.step \notin {"NOMASTER", "WAIT"}
             THEN RunStep(t1)
             ELSE IF t1.svc.step = "NOMASTER" THEN SetReplicationRestartTimer(t1)
             ELSE t1

CheckSafeKillIgnoringIO(t) ==
    IF ~t.ras.est THEN OnServerConnectionFailed(t) ELSE t

\* checkSafeKill: once not established and with no read or write in
\* progress, the RAS hands itself to the safe-kill callback.
CheckSafeKill(t) ==
    IF ~t.ras.est /\ ~t.ras.ra /\ ~t.ras.sa THEN OnServerConnectionFailed(t)
    ELSE t

\* close(): close the socket, then call every queued transfer's callback and
\* every sent request's callback with a fatal error, each before it is
\* popped, then checkSafeKill.
RECURSIVE FailTransfers(_)
FailTransfers(t) ==
    IF t.ras.tq = <<>> THEN t
    ELSE LET t1 == Callback(t, Head(t.ras.tq), "fatal")
         IN  FailTransfers([t1 EXCEPT !.ras.tq = Tail(@)])

RECURSIVE FailCallbacks(_)
FailCallbacks(t) ==
    IF t.ras.cq = <<>> THEN t
    ELSE LET t1 == Callback(t, Head(t.ras.cq), "fatal")
         IN  FailCallbacks([t1 EXCEPT !.ras.cq = Tail(@)])

Close(t) ==
    CheckSafeKill(FailCallbacks(FailTransfers(
        [t EXCEPT !.ras.sock = "closed", !.ras.est = FALSE])))

\* _assetSvc->close() through the smart pointer: a null one is a crash.
CloseAssetSvc(t) ==
    IF t.svc.hasRAS THEN Close(t) ELSE [t EXCEPT !.crashed = TRUE]

\* verifyConnection, with its result: [w |-> world, ok |-> connected].  In
\* an idle step it re-reads replication_master: an empty one enters
\* NOMASTER and closes the service; a changed one restarts the sweep and
\* closes a live connection.  Then it creates a service if there is none
\* and connects it if not connected.
VerifyConnection(t) ==
    IF t.svc.stop THEN [w |-> t, ok |-> FALSE]
    ELSE IF t.svc.step \in Idle /\ setting = NoMaster
    THEN [w |-> IF t.svc.step = "NOMASTER" THEN t
                ELSE CloseAssetSvc([t EXCEPT !.svc.step = "NOMASTER"]),
          ok |-> TRUE]
    ELSE LET changed == t.svc.step \in Idle /\ setting # t.svc.endpoint
             t1 == IF changed
                   THEN [t EXCEPT !.svc.step = "NONE", !.svc.endpoint = setting]
                   ELSE t
             t2 == IF t1.svc.hasRAS THEN t1 ELSE NewRAS(t1)
         IN  IF changed /\ t.svc.hasRAS /\ t.svc.connected
             THEN [w |-> Close(t1), ok |-> FALSE]
             ELSE IF ~t2.svc.connected THEN [w |-> Connect(t2), ok |-> FALSE]
             ELSE [w |-> t2, ok |-> TRUE]

\* The loop of retrieveNextMissingAssetBatch: skip pending assets the index
\* now has, request the others until BatchSize requests were sent.
RECURSIVE SendBatch(_, _)
SendBatch(t, sent) ==
    IF t.svc.pending = <<>> THEN [w |-> t, sent |-> sent]
    ELSE LET a == Head(t.svc.pending) IN
         IF a \in t.index
         THEN SendBatch([t EXCEPT !.svc.pending = Tail(@)], sent)
         ELSE LET t1 == GetAsset([t EXCEPT !.svc.inProg = @ \cup {a}], a)
                  t2 == [t1 EXCEPT !.svc.pending = Tail(@)]
              IN  IF sent + 1 = BatchSize THEN [w |-> t2, sent |-> sent + 1]
                  ELSE SendBatch(t2, sent + 1)

\* retrieveNextMissingAssetBatch: with nothing sent, go to the next prefix.
RetrieveNextMissingAssetBatch(t) ==
    IF t.svc.pending = <<>> THEN RetrieveNextIdList(t)
    ELSE LET b == SendBatch(t, 0)
         IN  IF b.sent = 0 THEN RetrieveNextIdList(b.w) ELSE b.w

\* checkResumeNextReplRound: start a new sweep once _nextReplStart passed.
CheckResumeNextReplRound(t) ==
    IF t.svc.due THEN RunStep([t EXCEPT !.svc.step = "NONE"])
    ELSE SetReplicationRestartTimer(t)

\* replicateStep: NONE starts at pull_replication_start_at and falls
\* through to IDLIST.
ReplicateStep(t) ==
    CASE t.svc.step = "NONE"     -> RetrieveIdListForPrefix(
                                        [t EXCEPT !.svc.prefix = StartAt])
      [] t.svc.step = "IDLIST"   -> RetrieveIdListForPrefix(t)
      [] t.svc.step = "RETRIEVE" -> RetrieveNextMissingAssetBatch(t)
      [] t.svc.step = "WAIT"     -> CheckResumeNextReplRound(t)
      [] t.svc.step = "NOMASTER" -> SetReplicationRestartTimer(t)

\* runStep: nothing once stopping; otherwise verify the connection and,
\* when connected, take the next step.
RunStep(t) ==
    IF t.svc.stop THEN t
    ELSE LET v == VerifyConnection(t)
         IN  IF v.ok THEN ReplicateStep(v.w) ELSE v.w

(***************************************************************************)
(* RemoteAssetService completion handlers, with the pull service's        *)
(* callbacks they call.                                                   *)
(***************************************************************************)

\* onServiceConnectionStatus: a failure arms the 10 s reconnect timer;
\* success marks the service connected and steps.
OnServiceConnectionStatus(t, success) ==
    IF ~success THEN SetReconnectTimer(t)
    ELSE RunStep([t EXCEPT !.svc.connected = TRUE])

\* onConnectionResult: report to the owner, then listen if established.
OnConnectionResult(t) ==
    LET t1 == OnServiceConnectionStatus(t, t.ras.est)
    IN  IF t1.ras.est THEN Listen(t1) ELSE t1

Refused(t) == OnConnectionResult([t EXCEPT !.ras.est = FALSE])

\* onConnect: read the master's challenge.
OnConnect(t, ok) ==
    IF ok THEN [t EXCEPT !.ras.rd = "challenge"] ELSE Refused(t)

\* onRecvChallenge and sendChallengeResponse: write the response.
OnRecvChallenge(t, ok) ==
    IF ok THEN [t EXCEPT !.ras.wr = "auth"] ELSE Refused(t)

\* onChallengeResponseWrite: read the authentication status.
OnChallengeResponseWrite(t, ok) ==
    IF ok THEN [t EXCEPT !.ras.rd = "status"] ELSE Refused(t)

\* onAuthenticationStatus: established iff the status reads as a success.
OnAuthenticationStatus(t, ok, code) ==
    OnConnectionResult([t EXCEPT !.ras.est = ok /\ code = "success"])

\* onAfterWriteAssetRequest: start a queued transfer while established,
\* then checkSafeKill; a failed write closes.
OnAfterWriteAssetRequest(t, ok) ==
    LET t1 == [t EXCEPT !.ras.sa = FALSE]
    IN  IF ~ok THEN Close(t1)
        ELSE CheckSafeKill(IF t1.ras.est /\ t1.ras.tq # <<>>
                           THEN DoNextQueuedRequest(t1) ELSE t1)

\* Call the front waiter's callback, then pop it.  front() or pop() of an
\* empty std::queue is undefined; the code BOOST_ASSERTs it is not empty.
CallFront(t, res) ==
    IF t.ras.cq = <<>> THEN [t EXCEPT !.crashed = TRUE]
    ELSE LET t1 == Callback(t, Head(t.ras.cq), res)
         IN  IF t1.ras.cq = <<>> THEN [t1 EXCEPT !.crashed = TRUE]
             ELSE [t1 EXCEPT !.ras.cq = Tail(@)]

\* onReadResponseHeader: FOUND and OK are followed by their data; an error
\* with a message has it read and discarded; an error without one (NOT
\* FOUND) fails the front waiter (non-fatal) and listens again.
OnReadResponseHeader(t, ok, code) ==
    LET t1 == [t EXCEPT !.ras.ra = FALSE]
    IN  IF ~ok THEN Close(t1)
        ELSE IF code = "nodata" THEN Listen(CallFront(t1, "err"))
        ELSE [t1 EXCEPT !.ras.ra = TRUE,
                        !.ras.rd = IF code = "ok" THEN "data" ELSE "errdata"]

\* onReadResponseData with handleAssetReturned and handleDataReturned:
\* only while established; the callback runs and the next header is read
\* before the waiter is popped (if the queue is not empty).
OnReadResponseData(t, ok) ==
    LET t1 == [t EXCEPT !.ras.ra = FALSE]
    IN  IF ok /\ t1.ras.est
        THEN IF t1.ras.cq = <<>> THEN [t1 EXCEPT !.crashed = TRUE]
             ELSE LET t2 == Listen(Callback(t1, Head(t1.ras.cq), "ok"))
                  IN  IF t2.ras.cq = <<>> THEN t2
                      ELSE [t2 EXCEPT !.ras.cq = Tail(@)]
        ELSE Close(t1)

\* onHandleRequestErrorData: no check that the connection is still
\* established.
OnHandleRequestErrorData(t, ok) ==
    LET t1 == [t EXCEPT !.ras.ra = FALSE]
    IN  IF ok THEN Listen(CallFront(t1, "err")) ELSE Close(t1)

\* Mutant: doStop does not close the service.
DoStopNoClose(t) == [t EXCEPT !.svc.stop = TRUE]

\* doStop: set _stop, close the service, release the work guard.
DoStop(t) == CloseAssetSvc([t EXCEPT !.svc.stop = TRUE])

(***************************************************************************)
(* The pull thread: io_service::run() executes the front handler.         *)
(***************************************************************************)

World == [svc |-> svc, ras |-> ras, ready |-> Tail(ready), index |-> index,
          vfsQ |-> vfsQ, mainQ |-> mainQ, freed |-> freedBusy,
          crashed |-> crashed]

NextHandler == Head(ready)

Dispatching(h) == running /\ ~crashed /\ ready # <<>> /\ Head(ready).h = h

Run(t) ==
    /\ svc' = t.svc /\ ras' = t.ras /\ ready' = t.ready /\ index' = t.index
    /\ vfsQ' = t.vfsQ /\ mainQ' = t.mainQ
    /\ freedBusy' = t.freed /\ crashed' = t.crashed
    /\ UNCHANGED <<running, setting, reloads, faults, disk, clientPut, stopReq>>

RunRun       == Dispatching("run") /\ Run(RunStep(World))
RunRestart   == Dispatching("restart") /\ Run(RunStep(World))
RunReconnect == Dispatching("reconnect") /\ Run(VerifyConnection(World).w)
RunStop      == Dispatching("stop") /\ Run(DoStop(World))
RunReqCb     == Dispatching("reqCb") /\ Run(Callback(World, NextHandler.r, "err"))
RunStored    == Dispatching("stored") /\ Run(OnAfterAssetStored(World, NextHandler.r.x))
RunConnect   == Dispatching("connect") /\ Run(OnConnect(World, NextHandler.ok))
RunChallenge == Dispatching("challenge") /\ Run(OnRecvChallenge(World, NextHandler.ok))
RunAuthWrite == Dispatching("authWrite")
                /\ Run(OnChallengeResponseWrite(World, NextHandler.ok))
RunStatus    == Dispatching("status")
                /\ Run(OnAuthenticationStatus(World, NextHandler.ok, NextHandler.code))
RunWrite     == Dispatching("write")
                /\ Run(OnAfterWriteAssetRequest(World, NextHandler.ok))
RunHeader    == Dispatching("header")
                /\ Run(OnReadResponseHeader(World, NextHandler.ok, NextHandler.code))
RunData      == Dispatching("data") /\ Run(OnReadResponseData(World, NextHandler.ok))
RunErrorData == Dispatching("errdata")
                /\ Run(OnHandleRequestErrorData(World, NextHandler.ok))

Reactor ==
    \/ RunRun \/ RunRestart \/ RunReconnect \/ RunStop \/ RunReqCb
    \/ RunStored \/ RunConnect \/ RunChallenge \/ RunAuthWrite \/ RunStatus
    \/ RunWrite \/ RunHeader \/ RunData \/ RunErrorData

\* io_service::run() returns once doStop released the work guard and no
\* handler, timer or socket operation is left.
ThreadExits ==
    /\ running /\ ~crashed /\ svc.stop /\ ready = <<>>
    /\ ~svc.restart /\ ~svc.reconnect
    /\ ras.rd = "none" /\ ras.wr = "none" /\ ~ras.cn
    /\ running' = FALSE
    /\ UNCHANGED <<svc, ras, ready, setting, reloads, faults, index, vfsQ,
                   mainQ, disk, clientPut, stopReq, freedBusy, crashed>>

(***************************************************************************)
(* The other actors: the kernel, the master, the disk worker, the main    *)
(* thread, the settings reload and the clock.                             *)
(***************************************************************************)

Live == ras.sock = "open" /\ ras.link = "up"

\* Changes ras and ready only.
Env(r, q) ==
    /\ ras' = r /\ ready' = q
    /\ UNCHANGED <<svc, running, setting, reloads, faults, index, vfsQ, mainQ,
                   disk, clientPut, stopReq, freedBusy, crashed>>

\* The timers' deadlines pass.
RestartTimerExpires ==
    /\ ~crashed /\ svc.restart
    /\ svc' = [svc EXCEPT !.restart = FALSE]
    /\ ready' = Append(ready, Post("restart"))
    /\ UNCHANGED <<ras, running, setting, reloads, faults, index, vfsQ, mainQ,
                   disk, clientPut, stopReq, freedBusy, crashed>>

ReconnectTimerExpires ==
    /\ ~crashed /\ svc.reconnect
    /\ svc' = [svc EXCEPT !.reconnect = FALSE]
    /\ ready' = Append(ready, Post("reconnect"))
    /\ UNCHANGED <<ras, running, setting, reloads, faults, index, vfsQ, mainQ,
                   disk, clientPut, stopReq, freedBusy, crashed>>

\* pull_replication_frequency minutes pass after a sweep ended.
Clock ==
    /\ ~crashed /\ svc.step = "WAIT" /\ ~svc.due
    /\ svc' = [svc EXCEPT !.due = TRUE]
    /\ UNCHANGED <<ras, ready, running, setting, reloads, faults, index, vfsQ,
                   mainQ, disk, clientPut, stopReq, freedBusy, crashed>>

\* async_connect completes; a refused connection counts as a fault.  A
\* socket closed meanwhile reports the abort.
ConnectCompletes ==
    /\ ~crashed /\ ras.cn
    /\ \E ok \in IF ras.sock = "connecting" THEN BOOLEAN ELSE {FALSE} :
        /\ ok \/ ras.sock # "connecting" \/ faults < MaxFaults
        /\ faults' = IF ~ok /\ ras.sock = "connecting" THEN faults + 1 ELSE faults
        /\ ras' = [ras EXCEPT !.cn = FALSE,
                              !.sock = IF @ = "connecting"
                                       THEN IF ok THEN "open" ELSE "none" ELSE @]
        /\ ready' = Append(ready, Handler("connect", ok, NoReq, "none"))
    /\ UNCHANGED <<svc, running, setting, reloads, index, vfsQ, mainQ, disk,
                   clientPut, stopReq, freedBusy, crashed>>

\* A read completes.  Authentication reads need the live connection; a
\* header read needs a response or fails once the socket is closed or the
\* link is down; a response's data arrived with its header and is read
\* unless the socket was closed first.
ReadCompletes ==
    /\ ~crashed /\ ras.rd # "none"
    /\ LET r == [ras EXCEPT !.rd = "none"] IN
       \/ /\ ras.rd = "challenge"
          /\ Env(r, Append(ready, Handler("challenge", Live, NoReq, "none")))
       \/ /\ ras.rd = "status"
          /\ \E code \in IF AuthFailures THEN {"success", "fail"} ELSE {"success"} :
                Env(r, Append(ready, Handler("status", Live, NoReq, code)))
       \/ /\ ras.rd = "header" /\ ~Live
          /\ Env(r, Append(ready, Handler("header", FALSE, NoReq, "none")))
       \/ /\ ras.rd = "header" /\ Live /\ ras.in # <<>>
          /\ Env([r EXCEPT !.in = Tail(@)],
                 Append(ready, Handler("header", TRUE, NoReq, Head(ras.in))))
       \/ /\ ras.rd \in {"data", "errdata"}
          /\ Env(r, Append(ready, Handler(ras.rd, ras.sock = "open", NoReq, "none")))

\* A write completes; a request that was written reaches the master.
WriteCompletes ==
    /\ ~crashed /\ ras.wr # "none"
    /\ Env([ras EXCEPT !.wr = "none", !.wreq = NoReq,
                       !.out = IF Live /\ ras.wr = "req" THEN Append(@, ras.wreq) ELSE @],
           Append(ready, Handler(IF ras.wr = "req" THEN "write" ELSE "authWrite",
                                 Live, NoReq, "none")))

\* The master's session answers the next request in order: an id list is
\* always OK (possibly empty); a GET is FOUND, or (a fault) NOT FOUND
\* without data or an error with a message.
MasterServes ==
    /\ ~crashed /\ ras.out # <<>> /\ ras.link = "up"
    /\ \E code \in IF Head(ras.out).k = "get" /\ MasterErrors /\ faults < MaxFaults
                   THEN {"ok", "nodata", "errdata"} ELSE {"ok"} :
         /\ ras' = [ras EXCEPT !.out = Tail(@), !.in = Append(@, code)]
         /\ faults' = IF code = "ok" THEN faults ELSE faults + 1
    /\ UNCHANGED <<svc, ready, running, setting, reloads, index, vfsQ, mainQ,
                   disk, clientPut, stopReq, freedBusy, crashed>>

\* The TCP connection to the master breaks (during authentication only
\* when AuthPhaseFaults).
LinkBreaks ==
    /\ ~crashed /\ faults < MaxFaults /\ Live /\ (AuthPhaseFaults \/ ras.est)
    /\ ras' = [ras EXCEPT !.link = "down"]
    /\ faults' = faults + 1
    /\ UNCHANGED <<svc, ready, running, setting, reloads, index, vfsQ, mainQ,
                   disk, clientPut, stopReq, freedBusy, crashed>>

\* VFSBackend::performDiskWrite on the disk worker: an asset already on
\* disk throws AssetStorageError (only reported); a write is stored, or
\* (a fault) throws another exception, which posts assetWriteFailed before
\* the callback.  The callback of a pulled asset is posted to the main
\* io_service.
VfsWrite ==
    /\ ~crashed /\ vfsQ # <<>>
    /\ LET w == Head(vfsQ)
           Cb(ok) == IF w.pull THEN <<[k |-> "stored", a |-> w.a, ok |-> ok]>> ELSE <<>>
       IN  \/ /\ w.a \in disk
              /\ mainQ' = mainQ \o Cb(FALSE) /\ UNCHANGED <<disk, faults>>
           \/ /\ w.a \notin disk
              /\ disk' = disk \cup {w.a}
              /\ mainQ' = mainQ \o Cb(TRUE) /\ UNCHANGED faults
           \/ /\ w.a \notin disk /\ WriteFaults /\ faults < MaxFaults
              /\ mainQ' = mainQ \o <<[k |-> "unindex", a |-> w.a, ok |-> FALSE]>>
                                \o Cb(FALSE)
              /\ faults' = faults + 1 /\ UNCHANGED disk
    /\ vfsQ' = Tail(vfsQ)
    /\ UNCHANGED <<svc, ras, ready, running, setting, reloads, index,
                   clientPut, stopReq, freedBusy, crashed>>

\* The main thread runs a VFSBackend post: assetWriteFailed removes the id
\* from the index; onAfterAssetStoredStub posts onAfterAssetStored to the
\* pull io_service.
MainRuns ==
    /\ ~crashed /\ mainQ # <<>>
    /\ LET m == Head(mainQ) IN
       /\ index' = IF m.k = "unindex" THEN index \ {m.a} ELSE index
       /\ ready' = IF m.k = "stored"
                   THEN Append(ready, Handler("stored", m.ok, GetReq(m.a), "none"))
                   ELSE ready
    /\ mainQ' = Tail(mainQ)
    /\ UNCHANGED <<svc, ras, running, setting, reloads, faults, vfsQ, disk,
                   clientPut, stopReq, freedBusy, crashed>>

\* A local client PUTs an asset on the main thread (storeAsset there).
ClientPuts ==
    /\ ~crashed
    /\ \E a \in ClientAssets \ clientPut :
        /\ clientPut' = clientPut \cup {a}
        /\ IF a \in index THEN UNCHANGED <<index, vfsQ>>
           ELSE /\ index' = index \cup {a}
                /\ vfsQ' = Append(vfsQ, [a |-> a, pull |-> FALSE])
    /\ UNCHANGED <<svc, ras, ready, running, setting, reloads, faults, mainQ,
                   disk, stopReq, freedBusy, crashed>>

\* Settings::reload (run by the intramesh heartbeat) changes
\* replication_master.
ReloadSettings ==
    /\ ~crashed /\ reloads < MaxReloads
    /\ \E m \in ReloadMasters \ {setting} : setting' = m
    /\ reloads' = reloads + 1
    /\ UNCHANGED <<svc, ras, ready, running, faults, index, vfsQ, mainQ, disk,
                   clientPut, stopReq, freedBusy, crashed>>

\* AssetServer::stop calls PullReplicationService::stop, which posts doStop.
RequestStop ==
    /\ ~crashed /\ ~stopReq
    /\ stopReq' = TRUE
    /\ ready' = Append(ready, Post("stop"))
    /\ UNCHANGED <<svc, ras, running, setting, reloads, faults, index, vfsQ,
                   mainQ, disk, clientPut, freedBusy, crashed>>

Kernel == ConnectCompletes \/ ReadCompletes \/ WriteCompletes
          \/ RestartTimerExpires \/ ReconnectTimerExpires

Next ==
    \/ Reactor \/ ThreadExits \/ Kernel \/ Clock \/ MasterServes \/ VfsWrite
    \/ MainRuns \/ ClientPuts \/ ReloadSettings \/ RequestStop \/ LinkBreaks

\* The pull reactor, the main reactor and the disk worker run what is
\* queued; the kernel completes operations; timers expire; minutes pass;
\* a connected master answers.  Client PUTs, reloads, stop and faults may
\* never happen.
\* The reactor can run a handler: each one is total and pops the FIFO, so
\* this is ENABLED <<Reactor>>_vars, and ReactorFair is WF_vars(Reactor)
\* stated with it (which TLC evaluates far faster).
CanRun == running /\ ~crashed /\ ready # <<>>

ReactorFair == <>[]CanRun => []<><<Reactor>>_vars

Spec ==
    /\ Init /\ [][Next]_vars
    /\ ReactorFair /\ WF_vars(ThreadExits)
    /\ WF_vars(ConnectCompletes) /\ WF_vars(ReadCompletes)
    /\ WF_vars(WriteCompletes) /\ WF_vars(RestartTimerExpires)
    /\ WF_vars(ReconnectTimerExpires) /\ WF_vars(Clock) /\ WF_vars(MasterServes) /\ WF_vars(VfsWrite)
    /\ WF_vars(MainRuns)

(***************************************************************************)
(* Properties.                                                            *)
(***************************************************************************)

\* What will still call onAssetRetrieved or onAfterAssetStored for a: its
\* GET in the current service's queues, a posted callback, the VFS write
\* or its completion on the way back.
Tracked(a) ==
    \/ svc.hasRAS /\ GetReq(a) \in ToSet(ras.tq) \cup ToSet(ras.cq)
    \/ \E i \in 1..Len(ready) :
          ready[i].h \in {"reqCb", "stored"} /\ ready[i].r = GetReq(a)
    \/ \E i \in 1..Len(mainQ) : mainQ[i].k = "stored" /\ mainQ[i].a = a
    \/ \E i \in 1..Len(vfsQ) : vfsQ[i].a = a /\ vfsQ[i].pull

\* _inProgressAssets drives the sweep: runStep is called only when the set
\* becomes empty, and onServerConnectionFailed leaves the restart to "a
\* return from asset storage" while it is not.  So every asset in it must
\* have a completion on its way; one left behind stops pull replication
\* for good.
InProgressTracked == \A a \in svc.inProg : Tracked(a)

\* Handlers of RemoteAssetService are bound to its raw this, so
\* onServerConnectionFailed's _assetSvc.reset() must never drop an RAS
\* with an operation in progress or a completion queued.
RASNotFreedWhileBusy == ~freedBusy

\* No null _assetSvc is dereferenced and no BOOST_ASSERT on the callback
\* queue fails.
NoCrash == ~crashed

\* Spec 4.6: the slave sweeps the master's id space for missing assets.
\* While replication_master names a master, every asset the master lists
\* eventually reaches the local disk (unless the server stops or the
\* master is removed), whatever losses of an established connection,
\* refused connects, master errors and write failures happened on the way.
\* A link that breaks during authentication, or a refused authentication,
\* is excluded (AuthPhaseFaults and AuthFailures FALSE): the socket stays
\* open and every retry's connect() fails with EISCONN, so the property
\* fails there (pull_auth_link.cfg).
Replicates ==
    \A a \in MasterAssets :
        setting # NoMaster ~> (a \in disk \/ stopReq \/ setting = NoMaster \/ crashed)

\* AssetServer::stop posts doStop and joins the pull thread: the thread
\* leaves io_service::run().
StopTerminates == stopReq ~> (~running \/ crashed)

\* Spec 4.6 and pull_replication_batch_size: the sweep keeps at most a
\* batch of requests in flight on its RemoteAssetService.  A closed RAS
\* kept alive by a pending write still posts "Connection not established"
\* for each request, and onGetStoredAssetIds answers a non-fatal error with
\* runStep, which asks again.
InFlightWithinBatch ==
    svc.hasRAS => Len(ras.tq) + Len(ras.cq) <= BatchSize

====
