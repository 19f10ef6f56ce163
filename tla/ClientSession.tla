--------------------------- MODULE ClientSession ---------------------------
(***************************************************************************)
(* The asset service seen from its client connections: AssetServer's      *)
(* accept loop, AssetClient, the two connection states CSUnauthenticated  *)
(* and CSAuthenticated, and the storage stack they call: AssetCache in    *)
(* front of VFSBackend (when cache_enabled) and the intramesh fallback    *)
(* MeshStorageBackend.                                                    *)
(*                                                                         *)
(* A connection runs one asio operation at a time: each handler either    *)
(* starts the next socket operation or calls storage with a callback that *)
(* later starts it.  The storage stack is kept to what the sessions can   *)
(* observe: the existence index and the set of assets on disk, the FIFO   *)
(* work queue of the single disk worker (VFSBackend.tla models its inside),*)
(* the io_service queue of posted completions, the LRU cache, and the     *)
(* mesh searches in flight, which AssetSearch answers once (checked in     *)
(* IntraMeshSearch.tla).  Assets are their UUIDs; Invalid stands for any  *)
(* string the Validator rejects.                                          *)
(***************************************************************************)
EXTENDS Naturals, Sequences, FiniteSets

CONSTANTS
    Clients,        \* connections the acceptor hands out, each used once
    UUIDs,          \* valid asset ids
    Invalid,        \* a UUID string that Validator::IsValidUUID rejects
    Locals,         \* assets whose locality byte marks them local
    MeshAssets,     \* assets some peer of the mesh holds
    Requests,       \* request types the clients send ("bad": unknown type)
    CacheModes,     \* values of cache_enabled the server may be started with
    CacheCapacity,  \* assets that fit in cache_size (all the same size)
    MaxRequests,    \* MaxRequests[c]: requests c sends before it stays idle
    WriteFaults,    \* subset of {"storageError", "ioError"}: failed writes
    ReadFaults,     \* whether reading globals.idx for STORED_IDS may throw
    ConnFaults      \* whether a peer may reset its connection

ASSUME /\ Invalid \notin UUIDs
       /\ Locals \subseteq UUIDs /\ MeshAssets \subseteq UUIDs
       /\ Requests \subseteq {"get", "getNC", "put", "purge", "test",
                              "purgeLocals", "status", "ids", "bad"}
       /\ CacheModes \subseteq BOOLEAN /\ ConnFaults \in BOOLEAN /\ ReadFaults \in BOOLEAN
       /\ CacheCapacity \in Nat \ {0} /\ MaxRequests \in [Clients -> Nat]
       /\ WriteFaults \subseteq {"storageError", "ioError"}

VARIABLES
    st,        \* st[c]: "idle" (not accepted), "unauth", "auth" or "gone"
    io,        \* io[c]: the one socket operation pending for c, or "none"
    conn,      \* conn[c]: "open", "broken" (peer reset) or "closed"
    isMesh,    \* isMesh[c]: the peer authenticated as a mesh server
    req,       \* req[c]: CSAuthenticated::_currentRequest
    resp,      \* resp[c]: the response being written
    served,    \* served[c]: requests read on c
    cacheEnabled, \* cache_enabled, read once by AssetServer::configureStorage
    cache,     \* LRU order of the cached assets, least recent first
    index,     \* VFS existence index
    disk,      \* assets written to the data files
    diskQ,     \* VFSBackend::_workQueue
    posted,    \* completions posted to the io_service, in order
    meshWait,  \* connections whose intramesh search is in flight
    purging,   \* VFSBackend::_isPurgingLocals
    acked,     \* ghost: assets a client was told were stored (OK to PUT)
    dropped    \* ghost: connections whose STORED_IDS completion was never posted

sessionVars == <<st, io, conn, isMesh, req, resp, served>>
storageVars == <<cacheEnabled, cache, index, disk, diskQ, posted, meshWait, purging, dropped>>
vars == <<sessionVars, storageVars, acked>>

IoOps == {"none", "wChallenge", "rAuth", "wAuthOk", "wAuthFail",
          "rHeader", "rData", "wHeader", "wData"}
Codes == {"none", "found", "notfound", "error", "ok"}
AnyUUID == UUIDs \cup {Invalid}
Request == [op : Requests \cup {"none"}, u : AnyUUID, b : AnyUUID,
            after : BOOLEAN]
NoRequest == [op |-> "none", u |-> Invalid, b |-> Invalid, after |-> FALSE]
Response == [code : Codes, data : BOOLEAN]
Wraps == {"none", "cache", "cacheNoCache"}
DiskOps == {"get", "put", "purge", "status", "ids"}

SeqElems(s) == {s[i] : i \in DOMAIN s}

TypeOK ==
    /\ st \in [Clients -> {"idle", "unauth", "auth", "gone"}]
    /\ io \in [Clients -> IoOps]
    /\ conn \in [Clients -> {"open", "broken", "closed"}]
    /\ isMesh \in [Clients -> BOOLEAN]
    /\ req \in [Clients -> Request]
    /\ resp \in [Clients -> Response]
    /\ served \in [Clients -> Nat] /\ \A c \in Clients : served[c] <= MaxRequests[c]
    /\ cacheEnabled \in BOOLEAN
    /\ cache \in Seq(UUIDs) /\ Len(cache) <= CacheCapacity
    /\ index \subseteq UUIDs /\ disk \subseteq UUIDs
    /\ diskQ \in Seq([c : Clients, op : DiskOps, u : AnyUUID, wrap : Wraps])
    /\ posted \in Seq([c : Clients, cb : {"get", "put", "status", "ids", "writeFailed"},
                       ok : BOOLEAN, u : AnyUUID, wrap : Wraps])
    /\ meshWait \subseteq Clients
    /\ purging \in BOOLEAN
    /\ acked \subseteq UUIDs
    /\ dropped \subseteq Clients

\* The server starts, in either cache mode, with an empty store and no
\* connection accepted.
Init ==
    /\ st = [c \in Clients |-> "idle"]
    /\ io = [c \in Clients |-> "none"]
    /\ conn = [c \in Clients |-> "open"]
    /\ isMesh = [c \in Clients |-> FALSE]
    /\ req = [c \in Clients |-> NoRequest]
    /\ resp = [c \in Clients |-> [code |-> "none", data |-> FALSE]]
    /\ served = [c \in Clients |-> 0]
    /\ cacheEnabled \in CacheModes
    /\ cache = <<>>
    /\ index = {} /\ disk = {}
    /\ diskQ = <<>> /\ posted = <<>>
    /\ meshWait = {} /\ purging = FALSE
    /\ acked = {} /\ dropped = {}

-----------------------------------------------------------------------------
(* The LRU cache of lru_cache.h: every asset has the same size, so the    *)
(* byte budget is a number of entries; an insert or a hit makes the asset *)
(* the most recent and an insert evicts the least recent one on overflow. *)

Touch(s, u) == Append(SelectSeq(s, LAMBDA x : x # u), u)

CacheInsert(s, u) ==
    LET t == Touch(s, u)
    IN  IF Len(t) > CacheCapacity THEN Tail(t) ELSE t

Cached(u) == cacheEnabled /\ u \in SeqElems(cache)

Post(c, cb, ok, u, wrap) == [c |-> c, cb |-> cb, ok |-> ok, u |-> u, wrap |-> wrap]

Work(c, op, u, wrap) == [c |-> c, op |-> op, u |-> u, wrap |-> wrap]

VFSGetAsset(c, u, wrap) ==
    \/ /\ u \notin index
       /\ posted' = Append(posted, Post(c, "get", FALSE, u, wrap))
       /\ UNCHANGED diskQ
    \/ /\ u \in index
       /\ diskQ' = Append(diskQ, Work(c, "get", u, wrap))
       /\ UNCHANGED posted

(* IAsyncStorageBackend::getAsset as CSAuthenticated calls it: AssetCache *)
(* posts a hit, and forwards a miss with its SF_DONTCACHE flag.           *)
StorageGetAsset(c, u, noCache) ==
    /\ IF Cached(u)
       THEN /\ cache' = Touch(cache, u)
            /\ posted' = Append(posted, Post(c, "get", TRUE, u, "none"))
            /\ UNCHANGED diskQ
       ELSE /\ VFSGetAsset(c, u, IF ~cacheEnabled THEN "none"
                                 ELSE IF noCache THEN "cacheNoCache" ELSE "cache")
            /\ UNCHANGED cache
    /\ UNCHANGED <<cacheEnabled, index, disk, meshWait, purging, dropped>>

(* VFSBackend::storeAsset (through AssetCache::storeAsset): an asset the  *)
(* index has is refused at once; otherwise it enters the index before the *)
(* write is queued.                                                       *)
StorageStoreAsset(c, u) ==
    LET wrap == IF cacheEnabled THEN "cache" ELSE "none"
    IN  /\ \/ /\ u \in index
               /\ posted' = Append(posted, Post(c, "put", FALSE, u, wrap))
               /\ UNCHANGED <<index, diskQ>>
            \/ /\ u \notin index
               /\ index' = index \cup {u}
               /\ diskQ' = Append(diskQ, Work(c, "put", u, wrap))
               /\ UNCHANGED posted
        /\ UNCHANGED <<cacheEnabled, cache, disk, meshWait, purging, dropped>>

(* AssetCache::purgeAsset does nothing; VFSBackend::purgeAsset queues a   *)
(* request whose performDiskPurge does nothing.                           *)
StoragePurgeAsset(c, u) ==
    /\ diskQ' = IF cacheEnabled THEN diskQ ELSE Append(diskQ, Work(c, "purge", u, "none"))
    /\ UNCHANGED <<cacheEnabled, cache, index, disk, posted, meshWait, purging, dropped>>

(* getStatus / getStoredAssetIDsWithPrefix: queued for the disk worker.   *)
StorageCollect(c, op, u) ==
    /\ diskQ' = Append(diskQ, Work(c, op, u, "none"))
    /\ UNCHANGED <<cacheEnabled, cache, index, disk, posted, meshWait, purging, dropped>>

(* AssetCache::assetExists: the cache, then the existence index.          *)
AssetExistsCacheOnly(u) == Cached(u)

AssetExists(u) == Cached(u) \/ u \in index

(* beginPurgeLocals: starts the sweep unless one is running.              *)
BeginPurgeLocals ==
    /\ purging' = TRUE
    /\ UNCHANGED <<cacheEnabled, cache, index, disk, diskQ, posted, meshWait, dropped>>

-----------------------------------------------------------------------------
(* Steps of one connection.  A handler that starts a socket operation     *)
(* sets io[c]; one that calls storage leaves io[c] = "none" until the     *)
(* callback runs.                                                          *)

Respond(c, code, data) ==
    /\ io' = [io EXCEPT ![c] = "wHeader"]
    /\ resp' = [resp EXCEPT ![c] = [code |-> code, data |-> data]]

SendError(c) == Respond(c, "error", TRUE)

AwaitStorage(c) ==
    /\ io' = [io EXCEPT ![c] = "none"]
    /\ UNCHANGED resp

WaitForRequest(c) ==
    /\ io' = [io EXCEPT ![c] = "rHeader"]
    /\ req' = [req EXCEPT ![c] = NoRequest]

(* AssetClient::disconnect: close the socket, leave AssetServer::_clients.*)
Disconnect(c) ==
    /\ st' = [st EXCEPT ![c] = "gone"]
    /\ conn' = [conn EXCEPT ![c] = "closed"]
    /\ io' = [io EXCEPT ![c] = "none"]

IoFailure(c) ==
    /\ Disconnect(c)
    /\ UNCHANGED <<isMesh, req, resp, served, storageVars, acked>>

Completes(c) == conn[c] = "open"

Fails(c) == conn[c] # "open"

(* AssetServer::handleAccept, AssetClient::start, sendAuthChallenge.      *)
Accept(c) ==
    /\ st[c] = "idle"
    /\ st' = [st EXCEPT ![c] = "unauth"]
    /\ io' = [io EXCEPT ![c] = "wChallenge"]
    /\ UNCHANGED <<conn, isMesh, req, resp, served, storageVars, acked>>

ChallengeWritten(c) ==
    /\ io[c] = "wChallenge"
    /\ \/ /\ Completes(c)
          /\ io' = [io EXCEPT ![c] = "rAuth"]
          /\ UNCHANGED <<st, conn, isMesh, req, resp, served, storageVars, acked>>
       \/ Fails(c) /\ IoFailure(c)

(* handleReadChallengeResponse: a valid answer from a server (responder   *)
(* 0x64) makes a mesh connection.                                         *)
AuthRead(c) ==
    /\ io[c] = "rAuth"
    /\ \/ /\ Completes(c)
          /\ \E valid, peer \in BOOLEAN :
               /\ io' = [io EXCEPT ![c] = IF valid THEN "wAuthOk" ELSE "wAuthFail"]
               /\ isMesh' = [isMesh EXCEPT ![c] = valid /\ peer]
          /\ UNCHANGED <<st, conn, req, resp, served, storageVars, acked>>
       \/ Fails(c) /\ IoFailure(c)

(* handleWriteAuthFailure disconnects; handleWriteAuthSuccess ignores the *)
(* write's error and installs CSAuthenticated, which reads a request.     *)
AuthStatusWritten(c) ==
    \/ io[c] = "wAuthFail" /\ IoFailure(c)
    \/ /\ io[c] = "wAuthOk"
       /\ st' = [st EXCEPT ![c] = "auth"]
       /\ WaitForRequest(c)
       /\ UNCHANGED <<conn, isMesh, resp, served, storageVars, acked>>

(* The request handlers of CSAuthenticated.  Those that validate the     *)
(* header's UUID send an ERROR for an invalid one.                        *)
HandleGetRequest(c, r) ==
    /\ r.op \in {"get", "getNC"} /\ r.u # Invalid
    /\ StorageGetAsset(c, r.u, r.op = "getNC")
    /\ AwaitStorage(c)

HandlePurgeRequest(c, r) ==
    /\ r.op = "purge" /\ r.u # Invalid
    /\ StoragePurgeAsset(c, r.u)
    /\ AwaitStorage(c)

HandlePutRequest(c, r) ==
    /\ r.op = "put"
    /\ io' = [io EXCEPT ![c] = "rData"]
    /\ UNCHANGED <<resp, storageVars>>

HandleTestRequest(c, r) ==
    /\ r.op = "test" /\ r.u # Invalid
    /\ Respond(c, IF AssetExists(r.u) THEN "found" ELSE "notfound", FALSE)
    /\ UNCHANGED storageVars

HandlePurgeLocals(c, r) ==
    /\ r.op = "purgeLocals"
    /\ BeginPurgeLocals
    /\ Respond(c, "ok", FALSE)

HandleCollect(c, r) ==
    /\ r.op \in {"status", "ids"}
    /\ StorageCollect(c, r.op, r.u)
    /\ AwaitStorage(c)

RejectUUID(c, r) ==
    /\ r.op \in {"get", "getNC", "purge", "test"} /\ r.u = Invalid
    /\ SendError(c)
    /\ UNCHANGED storageVars

Dispatch(c, r) ==
    \/ RejectUUID(c, r)
    \/ HandleGetRequest(c, r) \/ HandlePurgeRequest(c, r) \/ HandlePutRequest(c, r)
    \/ HandleTestRequest(c, r) \/ HandlePurgeLocals(c, r) \/ HandleCollect(c, r)

(* handleClientRequestHeaderRead with a header read; an unknown type      *)
(* throws RequestError and disconnects.  Only GET, GET_NOCACHE, PURGE and *)
(* TEST use the header's UUID (STORED_IDS takes a shard prefix the model  *)
(* does not split), so the others are read with one UUID.                 *)
UUIDOps == {"get", "getNC", "purge", "test"}

HeaderRead(c) ==
    /\ io[c] = "rHeader" /\ Completes(c) /\ served[c] < MaxRequests[c]
    /\ \E op \in Requests, u \in AnyUUID :
         LET r == [op |-> op, u |-> u, b |-> Invalid, after |-> u \in acked]
         IN  /\ op \in UUIDOps \/ u = Invalid
             /\ req' = [req EXCEPT ![c] = r]
             /\ served' = [served EXCEPT ![c] = @ + 1]
             /\ \/ op = "bad" /\ Disconnect(c) /\ UNCHANGED <<resp, storageVars>>
                \/ op # "bad" /\ Dispatch(c, r) /\ UNCHANGED <<st, conn>>
    /\ UNCHANGED <<isMesh, acked>>

HeaderReadFailed(c) == io[c] = "rHeader" /\ Fails(c) /\ IoFailure(c)

(* handleAssetDataRead: the PUT body is an asset whose own UUID is        *)
(* validated and stored; it is not compared with the header's UUID.       *)
DataRead(c) ==
    /\ io[c] = "rData"
    /\ \/ /\ Completes(c)
          /\ \E b \in AnyUUID :
               /\ req' = [req EXCEPT ![c].b = b]
               /\ \/ b = Invalid /\ SendError(c) /\ UNCHANGED storageVars
                  \/ b # Invalid /\ StorageStoreAsset(c, b) /\ AwaitStorage(c)
          /\ UNCHANGED <<st, conn, isMesh, served, acked>>
       \/ Fails(c) /\ IoFailure(c)

(* handleResponseHeaderWrite: write the payload if there is one, else     *)
(* read the next request.  The client learns the answer here.             *)
HeaderWritten(c) ==
    /\ io[c] = "wHeader"
    /\ \/ /\ Completes(c)
          /\ \/ resp[c].data /\ io' = [io EXCEPT ![c] = "wData"] /\ UNCHANGED req
             \/ ~resp[c].data /\ WaitForRequest(c)
          /\ acked' = IF req[c].op = "put" /\ resp[c].code = "ok"
                      THEN acked \cup {req[c].b} ELSE acked
          /\ UNCHANGED <<st, conn, isMesh, resp, served, storageVars>>
       \/ Fails(c) /\ IoFailure(c)

DataWritten(c) ==
    /\ io[c] = "wData"
    /\ \/ /\ Completes(c) /\ WaitForRequest(c)
          /\ UNCHANGED <<st, conn, isMesh, resp, served, storageVars, acked>>
       \/ Fails(c) /\ IoFailure(c)

(* The peer resets the connection; the pending socket operation and all  *)
(* later ones fail.  A reset while only storage is pending is seen at the *)
(* next socket operation, so resets are taken when one is pending.        *)
ConnReset(c) ==
    /\ ConnFaults /\ conn[c] = "open" /\ io[c] # "none"
    /\ conn' = [conn EXCEPT ![c] = "broken"]
    /\ UNCHANGED <<st, io, isMesh, req, resp, served, storageVars, acked>>

-----------------------------------------------------------------------------
(* The disk worker, the io_service and the mesh.                          *)

(* VFSBackend::workLoop runs the queue head: performDiskRead posts the    *)
(* asset or a miss; performDiskWrite posts success, or on AssetStorageError*)
(* only the failure, or on another exception assetWriteFailed (which takes*)
(* the asset back out of the index) and then the failure;                 *)
(* performDiskPurge posts nothing; status collection posts its           *)
(* completion.  (performDiskRead also catches a read that throws and      *)
(* posts the failure, an I/O error the model leaves out of GET.)          *)
(* performGetStoredAssetIds posts the id list, but it does not catch: a   *)
(* globals.idx read that throws reaches workLoop's handler and no         *)
(* completion is posted.                                                  *)
PerformGetStoredAssetIds(w) ==
    \/ /\ posted' = Append(posted, Post(w.c, w.op, TRUE, w.u, w.wrap))
       /\ UNCHANGED dropped
    \/ /\ ReadFaults
       /\ dropped' = dropped \cup {w.c}
       /\ UNCHANGED posted

DiskWorker ==
    /\ diskQ # <<>>
    /\ LET w == Head(diskQ)
           done(ok) == Post(w.c, w.op, ok, w.u, w.wrap)
       IN  /\ diskQ' = Tail(diskQ)
           /\ \/ /\ w.op = "get"
                 /\ posted' = Append(posted, done(w.u \in disk))
                 /\ UNCHANGED disk
              \/ /\ w.op = "put"
                 /\ disk' = disk \cup {w.u}
                 /\ posted' = Append(posted, done(TRUE))
              \/ /\ w.op = "put" /\ "storageError" \in WriteFaults
                 /\ posted' = Append(posted, done(FALSE))
                 /\ UNCHANGED disk
              \/ /\ w.op = "put" /\ "ioError" \in WriteFaults
                 /\ posted' = posted \o <<Post(w.c, "writeFailed", FALSE, w.u, "none"),
                                         done(FALSE)>>
                 /\ UNCHANGED disk
              \/ /\ w.op = "purge"
                 /\ UNCHANGED <<posted, disk>>
              \/ /\ w.op = "status"
                 /\ posted' = Append(posted, done(TRUE))
                 /\ UNCHANGED disk
              \/ /\ w.op = "ids"
                 /\ PerformGetStoredAssetIds(w)
                 /\ UNCHANGED disk
           /\ w.op # "ids" => UNCHANGED dropped
    /\ UNCHANGED <<sessionVars, cacheEnabled, cache, index, meshWait, purging, acked>>

(* handleStorageGetResponse: a hit is sent; a miss on a client connection *)
(* becomes an intramesh search, on a mesh connection a NOTFOUND.          *)
HandleStorageGetResponse(c, ok) ==
    \/ ok /\ Respond(c, "found", TRUE) /\ UNCHANGED meshWait
    \/ ~ok /\ ~isMesh[c] /\ meshWait' = meshWait \cup {c} /\ UNCHANGED <<io, resp>>
    \/ ~ok /\ isMesh[c] /\ Respond(c, "notfound", FALSE) /\ UNCHANGED meshWait

(* handleStorageWriteResponse: OK, or an ERROR carrying the message.      *)
HandleStorageWriteResponse(c, ok) ==
    /\ Respond(c, IF ok THEN "ok" ELSE "error", ~ok)
    /\ UNCHANGED meshWait

(* statusGetCompleted / storedAssetIdsGetCompleted: OK with the text.     *)
CollectCompleted(c) ==
    /\ Respond(c, "ok", TRUE)
    /\ UNCHANGED meshWait

(* The reactor runs the oldest posted handler.  A completion of the cache *)
(* (asyncGetCompleted, asyncPutCompleted) first inserts a successful       *)
(* result unless the read carried SF_DONTCACHE, then calls the session.   *)
RunPosted ==
    /\ posted # <<>>
    /\ LET p == Head(posted)
       IN  /\ posted' = Tail(posted)
           /\ \/ /\ p.cb = "writeFailed"
                 /\ index' = index \ {p.u}
                 /\ UNCHANGED <<cache, meshWait, io, resp>>
              \/ /\ p.cb # "writeFailed"
                 /\ cache' = IF p.ok /\ p.wrap = "cache" THEN CacheInsert(cache, p.u)
                             ELSE cache
                 /\ \/ p.cb = "get" /\ HandleStorageGetResponse(p.c, p.ok)
                    \/ p.cb = "put" /\ HandleStorageWriteResponse(p.c, p.ok)
                    \/ p.cb \in {"status", "ids"} /\ CollectCompleted(p.c)
                 /\ UNCHANGED index
    /\ UNCHANGED <<st, conn, isMesh, req, served, cacheEnabled, disk, diskQ, purging, acked, dropped>>

MeshReply(c) ==
    /\ c \in meshWait
    /\ LET u == req[c].u
       IN  \E found \in IF u \in MeshAssets THEN BOOLEAN ELSE {FALSE} :
             /\ Respond(c, IF found THEN "found" ELSE "notfound", found)
             /\ cache' = IF found /\ cacheEnabled THEN CacheInsert(cache, u) ELSE cache
    /\ meshWait' = meshWait \ {c}
    /\ UNCHANGED <<st, conn, isMesh, req, served, cacheEnabled, index, disk, diskQ, posted, purging, acked, dropped>>

(* The purge-locals sweep (VFSBackend.tla models it shard by shard):      *)
(* local assets leave the existence index and the disk; the cache keeps   *)
(* whatever it holds.                                                     *)
PurgeLocalsSweep ==
    /\ purging
    /\ index' = index \ Locals
    /\ disk' = disk \ Locals
    /\ purging' = FALSE
    /\ UNCHANGED <<sessionVars, cacheEnabled, cache, diskQ, posted, meshWait, acked, dropped>>

(* Nothing left to do: every connection is gone, idle after its last     *)
(* request, or waiting forever on a PURGE or a dropped STORED_IDS.       *)
Quiescent ==
    /\ diskQ = <<>> /\ posted = <<>> /\ meshWait = {} /\ ~purging
    /\ \A c \in Clients :
         \/ st[c] = "gone"
         \/ io[c] = "rHeader" /\ served[c] = MaxRequests[c] /\ ~ConnFaults
         \/ st[c] = "auth" /\ io[c] = "none" /\ (req[c].op = "purge" \/ c \in dropped)
    /\ UNCHANGED vars

Next ==
    \/ \E c \in Clients :
         \/ Accept(c) \/ ChallengeWritten(c) \/ AuthRead(c)
         \/ AuthStatusWritten(c) \/ HeaderRead(c) \/ HeaderReadFailed(c)
         \/ DataRead(c) \/ HeaderWritten(c) \/ DataWritten(c)
         \/ MeshReply(c) \/ ConnReset(c)
    \/ DiskWorker \/ RunPosted \/ PurgeLocalsSweep
    \/ Quiescent

(* Socket writes complete (or fail), failed reads report, the worker and  *)
(* the reactor run what is queued, the sweep finishes and a search ends   *)
(* by its timeout.  Reads that wait on the client get no fairness.        *)
Fairness ==
    /\ \A c \in Clients :
         /\ WF_vars(ChallengeWritten(c)) /\ WF_vars(AuthStatusWritten(c))
         /\ WF_vars(HeaderWritten(c)) /\ WF_vars(DataWritten(c))
         /\ WF_vars(HeaderReadFailed(c)) /\ WF_vars(MeshReply(c))
    /\ WF_vars(DiskWorker) /\ WF_vars(RunPosted) /\ WF_vars(PurgeLocalsSweep)

Spec == Init /\ [][Next]_vars /\ Fairness

-----------------------------------------------------------------------------
(* Properties.                                                            *)

(* Operations in flight for connection c: its socket operation, its       *)
(* queued disk work, its posted completions and its mesh search.          *)
InFlight(c) ==
    (IF io[c] # "none" THEN 1 ELSE 0)
    + Len(SelectSeq(diskQ, LAMBDA w : w.c = c))
    + Len(SelectSeq(posted, LAMBDA p : p.c = c /\ p.cb # "writeFailed"))
    + (IF c \in meshWait THEN 1 ELSE 0)

ReadYourWrites ==
    \A c \in Clients :
        /\ io[c] = "wHeader"
        /\ req[c].op \in {"get", "getNC", "test"}
        /\ req[c].after /\ req[c].u \notin Locals
        => resp[c].code = "found"

(* Every request but PURGE that a connection has received is answered: a  *)
(* response header is being written, or the connection is gone.  The one  *)
(* exception the code has is named: a STORED_IDS whose globals.idx read   *)
(* throws is never answered (performGetStoredAssetIds skips its           *)
(* completion, VFSBackend's CallbacksDelivered failure), and that         *)
(* connection then waits forever.                                         *)
Awaiting(c) == st[c] = "auth" /\ io[c] = "none" /\ req[c].op # "purge"

=============================================================================
