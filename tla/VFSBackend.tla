----------------------------- MODULE VFSBackend -----------------------------
(***************************************************************************)
(* The whip disk storage engine (src/whip/VFSBackend.cpp and the request    *)
(* types of VFSQueueTypes.cpp).  Two threads share it:                      *)
(*   - the ASIO reactor thread, which accepts getAsset/storeAsset/...       *)
(*     calls, consults and updates the in-memory ExistenceIndex, and runs   *)
(*     every handler the worker posts back (callbacks, assetWriteFailed,    *)
(*     unindexLocals) in FIFO order;                                        *)
(*   - the disk worker thread (workLoop), which pops the FIFO _workQueue    *)
(*     under _workMutex and performs one request at a time.                 *)
(* The disk is abstracted to the index rows (not deleted) of the globals    *)
(* and locals databases; a row is keyed by the asset UUID, and its shard    *)
(* directory is the first UUID_PATH_CHARS hex digits of the UUID.           *)
(* The callers of the asynchronous API are abstract half-duplex clients:    *)
(* each has at most one outstanding call and waits for its callback.        *)
(***************************************************************************)
EXTENDS Naturals, Sequences, FiniteSets

CONSTANTS
    UUIDs,          \* asset ids
    NumShards,      \* number of shard directories (0x1000 in the code)
    ShardOf,        \* the shard directory of a UUID
    Clients,        \* callers of the asynchronous storage API
    MaxRequests,    \* bound: calls each client makes in a behaviour
    MaxPurgeRounds, \* bound: purge-locals sweeps started in a behaviour
    ClientOps,      \* calls the clients may make
    WriteFaults,    \* failures performDiskWrite may meet
    ReadFaults,     \* TRUE: reading an index or data file may throw
    DeleteFaults,   \* TRUE: fs::remove in performLocalsPhysicalDeletion may throw
    Shutdowns,      \* TRUE: a console signal may start a clean shutdown
    PullCallers     \* clients that are the pull-replication thread: they only
                    \* store, and call storeAsset from their own thread

Shards == 0 .. NumShards - 1

ASSUME /\ NumShards \in Nat \ {0}
       /\ ShardOf \in [UUIDs -> Shards]
       /\ MaxRequests \in Nat
       /\ MaxPurgeRounds \in Nat
       /\ ClientOps \subseteq {"get", "put", "purge", "purgeLocals", "status", "ids"}
       /\ WriteFaults \subseteq {"storageError", "indexError"}
       /\ ReadFaults \in BOOLEAN
       /\ DeleteFaults \in BOOLEAN
       /\ Shutdowns \in BOOLEAN
       /\ PullCallers \subseteq Clients

VARIABLES
    exist,            \* ExistenceIndex::_existingAssets
    globals,          \* UUIDs with a live row in some <shard>/globals.idx
    locals,           \* UUIDs with a live row in some <shard>/locals.idx
    workQueue,        \* VFSBackend::_workQueue
    posted,           \* handlers posted to the reactor's io_service, FIFO
    isPurgingLocals,  \* VFSBackend::_isPurgingLocals
    purgeIndex,       \* VFSBackend::_currentLocalsPurgeIndex
    purgeTimerArmed,  \* an async_wait on _purgeLocalsTimer is outstanding
    stop,             \* VFSBackend::_stop
    workerExited,     \* workLoop has returned
    pending,          \* the call each client is waiting on, or NoCall
    issued,           \* calls made by each client so far
    reservation,      \* ghost: the PUT whose addNewId put each UUID in exist
    purgeRounds,      \* ghost: purge-locals sweeps started so far
    storing           \* the asset a pull caller's storeAsset found absent and
                      \* has not yet queued, whether it has reserved it, or NoStore

vars == <<exist, globals, locals, workQueue, posted, isPurgingLocals,
          purgeIndex, purgeTimerArmed, stop, workerExited, pending, issued,
          reservation, purgeRounds, storing>>

NoCall == "none"
NoTicket == <<>>
\* A ticket names one call: the client and its call number.
Tickets == Clients \X (1 .. MaxRequests)
Results == {"found", "notFound", "stored", "error", "done"}

\* Entries of _workQueue: the AssetRequest subclasses.
Requests ==
       [op : {"get"}, uuid : UUIDs, client : Clients, after : Tickets \cup {NoTicket}]
  \cup [op : {"put"}, uuid : UUIDs, local : BOOLEAN, client : Clients, ticket : Tickets]
  \cup [op : {"purge"}, uuid : UUIDs, client : Clients]
  \cup [op : {"purgeLocals", "deleteLocal"}, shard : Shards]
  \cup [op : {"status"}, client : Clients]
  \cup [op : {"ids"}, shard : Shards, client : Clients]

\* Handlers posted to the reactor.
Handlers ==
       [h : {"callback"}, client : Clients, result : Results]
  \cup [h : {"assetWriteFailed"}, uuid : UUIDs]
  \cup [h : {"unindexLocals"}, shard : Shards, ids : SUBSET UUIDs]

Callback(c, r) == [h |-> "callback", client |-> c, result |-> r]

NoStore == [uuid |-> "none", local |-> FALSE, indexed |-> FALSE]

TypeOK ==
    /\ exist \subseteq UUIDs
    /\ globals \subseteq UUIDs
    /\ locals \subseteq UUIDs
    /\ workQueue \in Seq(Requests)
    /\ posted \in Seq(Handlers)
    /\ isPurgingLocals \in BOOLEAN
    /\ purgeIndex \in 0 .. NumShards
    /\ purgeTimerArmed \in BOOLEAN
    /\ stop \in BOOLEAN
    /\ workerExited \in BOOLEAN
    /\ pending \in [Clients -> {NoCall} \cup ClientOps]
    /\ issued \in [Clients -> 0 .. MaxRequests]
    /\ reservation \in [UUIDs -> Tickets \cup {NoTicket}]
    /\ purgeRounds \in 0 .. MaxPurgeRounds
    /\ storing \in [Clients -> [uuid : UUIDs, local : BOOLEAN, indexed : BOOLEAN] \cup {NoStore}]

(***************************************************************************)
(* Start-up: the ExistenceIndex constructor scans every globals.idx and     *)
(* locals.idx and adds each row whose deleted flag is 0.                   *)
(***************************************************************************)
Init ==
    /\ \E g, l \in SUBSET UUIDs :
          /\ g \cap l = {}
          /\ globals = g
          /\ locals = l
          /\ exist = g \cup l
    /\ workQueue = <<>>
    /\ posted = <<>>
    /\ isPurgingLocals = FALSE
    /\ purgeIndex = 0
    /\ purgeTimerArmed = FALSE
    /\ stop = FALSE
    /\ workerExited = FALSE
    /\ pending = [c \in Clients |-> NoCall]
    /\ issued = [c \in Clients |-> 0]
    /\ reservation = [u \in UUIDs |-> NoTicket]
    /\ purgeRounds = 0
    /\ storing = [c \in Clients |-> NoStore]

-----------------------------------------------------------------------------
(* Reactor side: the asynchronous API.  The reactor stops running handlers *)
(* once shutdown() has begun (it joins the worker, then the process exits). *)

Reactor == ~stop

\* Client c makes a call (bounded by MaxRequests per client).
Issue(c, op) ==
    /\ Reactor
    /\ op \in ClientOps
    /\ pending[c] = NoCall
    /\ issued[c] < MaxRequests
    /\ issued' = [issued EXCEPT ![c] = @ + 1]

\* Client c makes call op and then waits for its callback.
Call(c, op) ==
    /\ Issue(c, op)
    /\ pending' = [pending EXCEPT ![c] = op]

Enqueue(r) == workQueue' = Append(workQueue, r)
Post(h) == posted' = Append(posted, h)

\* VFSBackend::getAsset: the existence index shortcuts a miss.
GetAsset(c, u) ==
    /\ Call(c, "get")
    /\ \/ /\ u \notin exist
          /\ Post(Callback(c, "notFound"))
          /\ UNCHANGED workQueue
       \/ /\ u \in exist
          /\ Enqueue([op |-> "get", uuid |-> u, client |-> c,
                      after |-> reservation[u]])
          /\ UNCHANGED posted
    /\ UNCHANGED <<exist, globals, locals, isPurgingLocals, purgeIndex,
                   purgeTimerArmed, stop, workerExited, reservation, purgeRounds, storing>>

\* Seeded fault: the "already exists" early return posts no callback.
StoreAssetSilentReject(c, u, local) ==
    /\ Call(c, "put")
    /\ \/ /\ u \in exist
          /\ UNCHANGED <<exist, workQueue, reservation, posted>>
       \/ /\ u \notin exist
          /\ exist' = exist \cup {u}
          /\ reservation' = [reservation EXCEPT ![u] = <<c, issued[c] + 1>>]
          /\ Enqueue([op |-> "put", uuid |-> u, local |-> local, client |-> c,
                      ticket |-> <<c, issued[c] + 1>>])
          /\ UNCHANGED posted
    /\ UNCHANGED <<globals, locals, isPurgingLocals, purgeIndex,
                   purgeTimerArmed, stop, workerExited, purgeRounds, storing>>

\* VFSBackend::storeAsset: reject a known UUID, else reserve it in the
\* existence index before the write is queued.
StoreAsset(c, u, local) ==
    /\ Call(c, "put")
    /\ \/ /\ u \in exist
          /\ Post(Callback(c, "error"))
          /\ UNCHANGED <<exist, workQueue, reservation>>
       \/ /\ u \notin exist
          /\ exist' = exist \cup {u}
          /\ reservation' = [reservation EXCEPT ![u] = <<c, issued[c] + 1>>]
          /\ Enqueue([op |-> "put", uuid |-> u, local |-> local, client |-> c,
                      ticket |-> <<c, issued[c] + 1>>])
          /\ UNCHANGED posted
    /\ UNCHANGED <<globals, locals, isPurgingLocals, purgeIndex,
                   purgeTimerArmed, stop, workerExited, purgeRounds, storing>>

\* VFSBackend::storeAsset called from the pull-replication thread
\* (PullReplicationService::onAssetRetrieved).  assetExists and addNewId take
\* the ExistenceIndex lock separately and the queue push takes _workMutex,
\* so the reactor's calls run between the check, the reservation and the
\* push.  First step: the check and its early return.
StoreAssetCheck(c, u, local) ==
    /\ c \in PullCallers
    /\ Call(c, "put")
    /\ \/ /\ u \in exist
          /\ Post(Callback(c, "error"))
          /\ UNCHANGED storing
       \/ /\ u \notin exist
          /\ storing' = [storing EXCEPT ![c] = [uuid |-> u, local |-> local, indexed |-> FALSE]]
          /\ UNCHANGED posted
    /\ UNCHANGED <<exist, globals, locals, workQueue, isPurgingLocals, purgeIndex,
                   purgeTimerArmed, stop, workerExited, reservation, purgeRounds>>

\* Second step: addNewId, whatever the index now holds, under the
\* ExistenceIndex lock.  From here a reactor getAsset of u is admitted.
StoreAssetIndex(c) ==
    /\ storing[c] # NoStore /\ ~storing[c].indexed
    /\ LET u == storing[c].uuid
       IN  /\ exist' = exist \cup {u}
           /\ reservation' = [reservation EXCEPT ![u] = <<c, issued[c]>>]
    /\ storing' = [storing EXCEPT ![c].indexed = TRUE]
    /\ UNCHANGED <<globals, locals, workQueue, posted, isPurgingLocals, purgeIndex,
                   purgeTimerArmed, stop, workerExited, pending, issued, purgeRounds>>

\* Third step: the push of the AssetPutRequest under _workMutex.
StoreAssetEnqueue(c) ==
    /\ storing[c] # NoStore /\ storing[c].indexed
    /\ Enqueue([op |-> "put", uuid |-> storing[c].uuid, local |-> storing[c].local,
                client |-> c, ticket |-> <<c, issued[c]>>])
    /\ storing' = [storing EXCEPT ![c] = NoStore]
    /\ UNCHANGED <<exist, globals, locals, posted, isPurgingLocals, purgeIndex,
                   purgeTimerArmed, stop, workerExited, pending, issued, reservation,
                   purgeRounds>>

\* VFSBackend::purgeAsset
PurgeAsset(c, u) ==
    /\ Call(c, "purge")
    /\ Enqueue([op |-> "purge", uuid |-> u, client |-> c])
    /\ UNCHANGED <<exist, globals, locals, posted, isPurgingLocals, purgeIndex,
                   purgeTimerArmed, stop, workerExited, reservation, purgeRounds, storing>>

\* VFSBackend::getStatus
GetStatus(c) ==
    /\ Call(c, "status")
    /\ Enqueue([op |-> "status", client |-> c])
    /\ UNCHANGED <<exist, globals, locals, posted, isPurgingLocals, purgeIndex,
                   purgeTimerArmed, stop, workerExited, reservation, purgeRounds, storing>>

\* VFSBackend::getStoredAssetIDsWithPrefix
GetStoredAssetIDsWithPrefix(c, s) ==
    /\ Call(c, "ids")
    /\ Enqueue([op |-> "ids", shard |-> s, client |-> c])
    /\ UNCHANGED <<exist, globals, locals, posted, isPurgingLocals, purgeIndex,
                   purgeTimerArmed, stop, workerExited, reservation, purgeRounds, storing>>

\* VFSBackend::beginPurgeLocals; the caller answers at once
\* (CSAuthenticated::handlePurgeLocals), so no callback is awaited.
BeginPurgeLocals(c) ==
    /\ Issue(c, "purgeLocals")
    /\ \/ /\ ~isPurgingLocals
          /\ isPurgingLocals' = TRUE
          /\ purgeIndex' = 0
          /\ purgeTimerArmed' = TRUE
          /\ purgeRounds < MaxPurgeRounds
          /\ purgeRounds' = purgeRounds + 1
       \/ /\ isPurgingLocals
          /\ UNCHANGED <<isPurgingLocals, purgeIndex, purgeTimerArmed,
                         purgeRounds>>
    /\ UNCHANGED <<exist, globals, locals, workQueue, posted, stop,
                   workerExited, pending, reservation, storing>>

\* Seeded fault: the rearm test is "<= NumShards" (one shard too many).
OnPurgeTimerPastLastShard ==
    /\ Reactor
    /\ purgeTimerArmed
    /\ Enqueue([op |-> "purgeLocals", shard |-> purgeIndex])
    /\ purgeIndex' = purgeIndex + 1
    /\ \/ /\ purgeIndex + 1 <= NumShards
          /\ UNCHANGED <<purgeTimerArmed, isPurgingLocals>>
       \/ /\ purgeIndex + 1 > NumShards
          /\ purgeTimerArmed' = FALSE
          /\ isPurgingLocals' = FALSE
    /\ UNCHANGED <<exist, globals, locals, posted, stop, workerExited,
                   pending, issued, reservation, purgeRounds, storing>>

\* VFSBackend::onPurgeTimer: queue the purge of shard purgeIndex, then
\* rearm the 1 s timer until the last shard has been queued.
OnPurgeTimer ==
    /\ Reactor
    /\ purgeTimerArmed
    /\ Enqueue([op |-> "purgeLocals", shard |-> purgeIndex])
    /\ purgeIndex' = purgeIndex + 1
    /\ \/ /\ purgeIndex + 1 <= NumShards - 1
          /\ UNCHANGED <<purgeTimerArmed, isPurgingLocals>>
       \/ /\ purgeIndex + 1 > NumShards - 1
          /\ purgeTimerArmed' = FALSE
          /\ isPurgingLocals' = FALSE
    /\ UNCHANGED <<exist, globals, locals, posted, stop, workerExited,
                   pending, issued, reservation, purgeRounds, storing>>

-----------------------------------------------------------------------------
(* Worker side: workLoop pops the head of _workQueue and runs its           *)
(* processRequest.  The disk is touched only here and the reactor never     *)
(* reads it, so one request is one atomic step.  Exceptions that escape     *)
(* processRequest are posted to ioLoopFailed, which only logs.              *)

WorkerVars == <<exist, isPurgingLocals, purgeIndex, purgeTimerArmed, stop,
                workerExited, pending, issued, reservation, purgeRounds, storing>>

\* The rows of one shard directory (VFSBackend::getFullPathForUUID).
ShardRows(rows, s) == {u \in rows : ShardOf[u] = s}

\* DatabaseSet::getAsset finds a row in globals or else in locals.
StoredIn(u) == u \in globals \cup locals

\* DatabaseSet::storeAsset writes to the database the locality flag picks.
TargetRows(r) == IF r.local THEN locals ELSE globals

\* VFSDatabase::storeAsset refuses a UUID its index already holds.
AlreadyStored(r) == r.uuid \in TargetRows(r)

\* The row insert of a successful VFSDatabase::storeAsset.
AddRow(r) ==
    IF r.local THEN /\ locals' = locals \cup {r.uuid}
                    /\ UNCHANGED globals
               ELSE /\ globals' = globals \cup {r.uuid}
                    /\ UNCHANGED locals

\* performDiskRead: DatabaseSet::getAsset looks in globals, then locals;
\* a failed index or data-file read is reported like a miss.
PerformDiskRead(r) ==
    /\ \/ /\ StoredIn(r.uuid)
          /\ Post(Callback(r.client, "found"))
       \/ /\ ~StoredIn(r.uuid)
          /\ Post(Callback(r.client, "notFound"))
       \/ /\ ReadFaults
          /\ Post(Callback(r.client, "error"))
    /\ UNCHANGED <<globals, locals>>

\* performDiskWrite: VFSDatabase::storeAsset appends to the data file and
\* records the position in the index.  An AssetStorageError (a row already
\* there, a failed open, data-file write or directory creation) is only
\* reported; any other std::exception (SQLiteError from recordAssetPosition
\* or findAssetPosition) first posts assetWriteFailed to undo the
\* reservation.
PerformDiskWrite(r) ==
    \/ /\ ~AlreadyStored(r)
       /\ AddRow(r)
       /\ Post(Callback(r.client, "stored"))
    \/ /\ AlreadyStored(r)
       /\ Post(Callback(r.client, "error"))
       /\ UNCHANGED <<globals, locals>>
    \/ /\ "storageError" \in WriteFaults
       /\ Post(Callback(r.client, "error"))
       /\ UNCHANGED <<globals, locals>>
    \/ /\ "indexError" \in WriteFaults
       /\ posted' = posted \o << [h |-> "assetWriteFailed", uuid |-> r.uuid],
                                 Callback(r.client, "error") >>
       /\ UNCHANGED <<globals, locals>>

\* performDiskPurge: the body is empty; the callback is never invoked.
PerformDiskPurge(r) ==
    UNCHANGED <<globals, locals, posted>>

\* performDiskPurgeLocals: read the ids in <shard>/locals.idx (none when the
\* file is missing) and post unindexLocals; a failed read only logs.
PerformDiskPurgeLocals(r) ==
    /\ \/ Post([h |-> "unindexLocals", shard |-> r.shard,
                ids |-> ShardRows(locals, r.shard)])
       \/ /\ ReadFaults
          /\ UNCHANGED posted
    /\ UNCHANGED <<globals, locals>>

\* performLocalsPhysicalDeletion: close and remove locals.idx, then remove
\* locals.data.  If removing the index throws, its rows survive.
PerformLocalsPhysicalDeletion(r) ==
    /\ \/ locals' = locals \ ShardRows(locals, r.shard)
       \/ /\ DeleteFaults
          /\ UNCHANGED locals
    /\ UNCHANGED <<globals, posted>>

\* performGetStatus writes the journal and posts the completion.
PerformGetStatus(r) ==
    /\ Post(Callback(r.client, "done"))
    /\ UNCHANGED <<globals, locals>>

\* performGetStoredAssetIds lists <shard>/globals.idx; a failed read throws
\* past the completion, which is then never posted.
PerformGetStoredAssetIds(r) ==
    /\ \/ Post(Callback(r.client, "done"))
       \/ /\ ReadFaults
          /\ UNCHANGED posted
    /\ UNCHANGED <<globals, locals>>

\* VFSBackend::workLoop, one iteration, dispatching as the processRequest
\* overrides of VFSQueueTypes.cpp do.
WorkLoop ==
    /\ ~workerExited
    /\ workQueue # <<>>
    /\ LET r == Head(workQueue) IN
       /\ workQueue' = Tail(workQueue)
       /\ CASE r.op = "get"         -> PerformDiskRead(r)
            [] r.op = "put"         -> PerformDiskWrite(r)
            [] r.op = "purge"       -> PerformDiskPurge(r)
            [] r.op = "purgeLocals" -> PerformDiskPurgeLocals(r)
            [] r.op = "deleteLocal" -> PerformLocalsPhysicalDeletion(r)
            [] r.op = "status"      -> PerformGetStatus(r)
            [] r.op = "ids"         -> PerformGetStoredAssetIds(r)
    /\ UNCHANGED WorkerVars

\* workLoop sees _stop and breaks out, whatever is still queued.
WorkerExit ==
    /\ stop
    /\ ~workerExited
    /\ workerExited' = TRUE
    /\ UNCHANGED <<exist, globals, locals, workQueue, posted, isPurgingLocals,
                   purgeIndex, purgeTimerArmed, stop, pending, issued,
                   reservation, purgeRounds, storing>>

-----------------------------------------------------------------------------
(* Reactor side: the handlers the worker posted, run in FIFO order.        *)

\* A posted callback reaches the waiting client.
DeliverCallback(h) ==
    /\ h.h = "callback"
    /\ pending' = [pending EXCEPT ![h.client] = NoCall]
    /\ UNCHANGED <<exist, workQueue>>

\* VFSBackend::assetWriteFailed: undo the reservation.
AssetWriteFailed(h) ==
    /\ h.h = "assetWriteFailed"
    /\ exist' = exist \ {h.uuid}
    /\ UNCHANGED <<pending, workQueue>>

\* Seeded fault: unindexLocals never schedules the physical deletion.
UnindexLocalsNoDeletion(h) ==
    /\ h.h = "unindexLocals"
    /\ exist' = exist \ h.ids
    /\ UNCHANGED <<pending, workQueue>>

\* VFSBackend::unindexLocals: drop the listed ids from the existence index,
\* then queue the physical deletion of the shard's locals files.
UnindexLocals(h) ==
    /\ h.h = "unindexLocals"
    /\ exist' = exist \ h.ids
    /\ Enqueue([op |-> "deleteLocal", shard |-> h.shard])
    /\ UNCHANGED pending

RunPosted ==
    /\ Reactor
    /\ posted # <<>>
    /\ posted' = Tail(posted)
    /\ \/ DeliverCallback(Head(posted))
       \/ AssetWriteFailed(Head(posted))
       \/ UnindexLocals(Head(posted))
    /\ UNCHANGED <<globals, locals, isPurgingLocals, purgeIndex,
                   purgeTimerArmed, stop, workerExited, issued, reservation, purgeRounds, storing>>

\* VFSBackend::shutdown: set _stop and join the worker; the reactor runs
\* nothing more.  AssetServer::stop joins the pull thread first, so no
\* storeAsset of that thread is half done.
Shutdown ==
    /\ Shutdowns
    /\ Reactor
    /\ \A c \in PullCallers : storing[c] = NoStore
    /\ stop' = TRUE
    /\ UNCHANGED <<exist, globals, locals, workQueue, posted, isPurgingLocals,
                   purgeIndex, purgeTimerArmed, workerExited, pending, issued,
                   reservation, purgeRounds, storing>>

\* Nothing left to do: the process has shut down, or no client can make
\* another call (it has made MaxRequests calls or still waits) and all work
\* has drained.
Quiescent ==
    /\ \/ workerExited
       \/ /\ \A c \in Clients : issued[c] = MaxRequests \/ pending[c] # NoCall
          /\ workQueue = <<>>
          /\ posted = <<>>
          /\ ~purgeTimerArmed
    /\ UNCHANGED vars

Next ==
    \/ \E c \in Clients \ PullCallers, u \in UUIDs :
          \/ GetAsset(c, u)
          \/ \E local \in BOOLEAN : StoreAsset(c, u, local)
          \/ PurgeAsset(c, u)
    \/ \E c \in Clients \ PullCallers :
          \/ GetStatus(c)
          \/ BeginPurgeLocals(c)
          \/ \E s \in Shards : GetStoredAssetIDsWithPrefix(c, s)
    \/ \E c \in PullCallers :
          \/ \E u \in UUIDs, local \in BOOLEAN : StoreAssetCheck(c, u, local)
          \/ StoreAssetIndex(c)
          \/ StoreAssetEnqueue(c)
    \/ OnPurgeTimer
    \/ WorkLoop
    \/ RunPosted
    \/ Shutdown
    \/ WorkerExit
    \/ Quiescent

\* The worker is woken by notify_one on every push, the reactor runs every
\* ready handler, the purge timer expires after one second, and the pull
\* thread, once in storeAsset, runs it to its end.
Fairness ==
    /\ \A c \in PullCallers : WF_vars(StoreAssetIndex(c)) /\ WF_vars(StoreAssetEnqueue(c))
    /\ WF_vars(WorkLoop)
    /\ WF_vars(RunPosted)
    /\ WF_vars(OnPurgeTimer)

Spec == Init /\ [][Next]_vars /\ Fairness

-----------------------------------------------------------------------------
(* Properties                                                               *)

PutQueued(u) == \E i \in 1 .. Len(workQueue) :
                   workQueue[i].op = "put" /\ workQueue[i].uuid = u
RollbackPosted(u) == \E i \in 1 .. Len(posted) :
                        posted[i] = [h |-> "assetWriteFailed", uuid |-> u]
\* Some step of the three-step purge of shard s's locals is still to run.
PurgeInFlight(s) ==
    \/ \E i \in 1 .. Len(workQueue) :
          workQueue[i] \in {[op |-> "purgeLocals", shard |-> s],
                            [op |-> "deleteLocal", shard |-> s]}
    \/ \E i \in 1 .. Len(posted) :
          posted[i].h = "unindexLocals" /\ posted[i].shard = s

\* The existence index never claims an asset the disk does not hold, unless
\* the PUT that reserved it (storeAsset) is still queued or its rollback
\* (assetWriteFailed) is still posted.  A phantom id makes GET miss and PUT
\* fail with "already exists" for that UUID until the next restart.
ExistenceSound ==
    \A u \in exist :
        u \in globals \cup locals \/ PutQueued(u) \/ RollbackPosted(u)

\* Every asset on disk is in the existence index, except locals of a shard
\* whose purge (performDiskPurgeLocals, unindexLocals,
\* performLocalsPhysicalDeletion) has started and not finished.  A missing
\* id makes getAsset answer "not found" for a stored asset.
ExistenceComplete ==
    /\ globals \subseteq exist
    /\ \A u \in locals : u \in exist \/ PurgeInFlight(ShardOf[u])

\* A GET admitted because a PUT had reserved its UUID (the comment in
\* VFSBackend::storeAsset) is never queued ahead of that PUT.
ReadNeverOvertakesWrite ==
    \A i, j \in 1 .. Len(workQueue) :
        (/\ i < j
         /\ workQueue[i].op = "get"
         /\ workQueue[j].op = "put")
        => workQueue[i].after # workQueue[j].ticket

\* Every call that expects a callback (all but beginPurgeLocals) gets one.
CallbacksDelivered ==
    \A c \in Clients : pending[c] # NoCall ~> pending[c] = NoCall

=============================================================================
