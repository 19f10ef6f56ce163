--------------------------- MODULE IntraMeshSearch ---------------------------
(***************************************************************************)
(* Intramesh asset search: MeshStorageBackend starts an AssetSearch, which  *)
(* queries every usable peer (MeshServer) over its query connection, arms  *)
(* a 5 s timer, and on the first positive answer cancels the other peers    *)
(* and, for a full search, fetches the asset over that peer's asset         *)
(* connection.  Everything runs on the one reactor thread; each action is   *)
(* one completion handler.                                                   *)
(*                                                                          *)
(* Ownership, which decides what a late handler touches: the only owning    *)
(* reference to a search is MeshStorageBackend::_activeSearches, so         *)
(* markSearchComplete frees it.  MeshServer keeps weak pointers (a freed    *)
(* search is skipped), but the timer handler and the fetch callback are     *)
(* bound to the raw pointer.  The timer is a member of the search: freeing  *)
(* it cancels a wait still pending, but a handler that already expired is   *)
(* queued with a success code and runs anyway (asio semantics).             *)
(*                                                                          *)
(* Each search has its own UUID, so a search id stands for its UUID in      *)
(* MeshServer::_currentSearches.                                             *)
(***************************************************************************)
EXTENDS Naturals, Sequences, FiniteSets

CONSTANTS
    Searches,        \* searches started by clients (each used once)
    Servers,         \* peers in IntraMeshService::_remoteServers
    Timeouts,        \* TRUE: a search timer may expire before the answers
    ConnFaults,      \* TRUE: asset/query sockets may fail, bad responses
    LateCompletions  \* TRUE: a read already completed when a socket closes
                     \*       still runs its handler with success

VARIABLES
    phase,       \* per search: "new", "querying", "fetching" or "done" (freed)
    kind,        \* per search: "full" (getAsset) or "test" (assetExists)
    queried,     \* AssetSearch::_queriedServers
    timer,       \* AssetSearch::_timeoutTimer: off, armed, expired, aborted
    answers,     \* ghost: callbacks the search's caller has received
    freedUse,    \* ghost: a handler ran on a freed search
    emptyFront,  \* ghost: a response took front() of an empty queue
    up,          \* MeshServer::_assetConnectionEstablished
    current,     \* MeshServer::_currentSearches
    asked,       \* queries sent to the peer and not yet answered
    lateAnswer,  \* a query answer read before close, handler still queued
    send,        \* MeshServer::_sendActive: idle, writing, or written (a
                 \* write completed whose handler is still queued)
    transferQ,   \* MeshServer::_transferRequestQueue
    callbackQ,   \* MeshServer::_assetCallbackQueue
    assetRead,   \* the asset socket's read: listening, idle, aborted,
                 \* lateHeader (a response header read before close)
    queryClose,  \* the query connection's aborted read, whose handler
                 \* will fire the disconnect callback, is still queued
    postedNull   \* searches owed a callback(null) posted by getAsset

searchVars == <<phase, kind, queried, timer, answers, freedUse, emptyFront>>
serverVars == <<up, current, asked, lateAnswer, send, transferQ,
                callbackQ, assetRead, queryClose, postedNull>>
vars == <<searchVars, serverVars>>

Phases == {"new", "querying", "fetching", "done"}
TimerStates == {"off", "armed", "expired", "aborted"}
\* Bound for the ghost counter of callbacks.
MaxAnswers == 3

TypeOK ==
    /\ phase \in [Searches -> Phases]
    /\ kind \in [Searches -> {"none", "full", "test"}]
    /\ queried \in [Searches -> SUBSET Servers]
    /\ timer \in [Searches -> TimerStates]
    /\ answers \in [Searches -> 0 .. MaxAnswers]
    /\ freedUse \in BOOLEAN
    /\ emptyFront \in BOOLEAN
    /\ up \in [Servers -> BOOLEAN]
    /\ current \in [Servers -> SUBSET Searches]
    /\ asked \in [Servers -> SUBSET Searches]
    /\ lateAnswer \in [Servers -> SUBSET Searches]
    /\ send \in [Servers -> {"idle", "writing", "written"}]
    /\ transferQ \in [Servers -> Seq(Searches)]
    /\ callbackQ \in [Servers -> Seq(Searches)]
    /\ assetRead \in [Servers -> {"listening", "idle", "aborted", "lateHeader"}]
    /\ queryClose \in [Servers -> BOOLEAN]
    /\ postedNull \subseteq Searches

\* Every peer in _remoteServers has completed connect and authentication
\* (MeshServer::onConnectionResult) and listens for asset data.
Init ==
    /\ phase = [s \in Searches |-> "new"]
    /\ kind = [s \in Searches |-> "none"]
    /\ queried = [s \in Searches |-> {}]
    /\ timer = [s \in Searches |-> "off"]
    /\ answers = [s \in Searches |-> 0]
    /\ freedUse = FALSE
    /\ emptyFront = FALSE
    /\ up = [v \in Servers |-> TRUE]
    /\ current = [v \in Servers |-> {}]
    /\ asked = [v \in Servers |-> {}]
    /\ lateAnswer = [v \in Servers |-> {}]
    /\ send = [v \in Servers |-> "idle"]
    /\ transferQ = [v \in Servers |-> <<>>]
    /\ callbackQ = [v \in Servers |-> <<>>]
    /\ assetRead = [v \in Servers |-> "listening"]
    /\ queryClose = [v \in Servers |-> FALSE]
    /\ postedNull = {}

Alive(s) == phase[s] \notin {"new", "done"}
SeqSet(q) == {q[i] : i \in 1 .. Len(q)}
Bump(n) == IF n < MaxAnswers THEN n + 1 ELSE n

\* AssetSearch::cancelTimeoutTimer: a pending wait completes as aborted; an
\* expired one is already queued and cannot be cancelled.
Cancelled(t) == IF t = "armed" THEN "aborted" ELSE t

(***************************************************************************)
(* AssetSearch::onFullAssetRcvd(asset) for the searches in S, all at once  *)
(* (each touches only its own state): a live search answers its caller and *)
(* is freed by markSearchComplete; a freed one is a use after free.        *)
(***************************************************************************)
FullAssetRcvd(S) ==
    LET live == {s \in S : Alive(s)}
    IN  /\ phase' = [s \in Searches |-> IF s \in live THEN "done" ELSE phase[s]]
        /\ answers' = [s \in Searches |->
                          IF s \in live THEN Bump(answers[s]) ELSE answers[s]]
        /\ timer' = [s \in Searches |->
                        IF s \in live THEN Cancelled(timer[s]) ELSE timer[s]]
        /\ freedUse' = (freedUse \/ live # S)

\* Mutant: the _sendActive test inverted, so an idle connection queues the
\* request instead of sending it.
GetAssetInvertedSendActive(v, s) ==
    /\ postedNull' = IF up[v] THEN postedNull ELSE postedNull \cup {s}
    /\ IF send[v] # "idle"
          THEN /\ send' = [send EXCEPT ![v] = "writing"]
               /\ callbackQ' = [callbackQ EXCEPT ![v] = Append(@, s)]
               /\ UNCHANGED transferQ
          ELSE /\ transferQ' = [transferQ EXCEPT ![v] = Append(@, s)]
               /\ UNCHANGED <<send, callbackQ>>

(***************************************************************************)
(* MeshServer::getAsset(uuid, callback).  On a closed connection it posts  *)
(* callback(null) and then, with no return, still sends the request.       *)
(***************************************************************************)
GetAsset(v, s) ==
    /\ postedNull' = IF up[v] THEN postedNull ELSE postedNull \cup {s}
    /\ IF send[v] = "idle"
          THEN /\ send' = [send EXCEPT ![v] = "writing"]
               /\ callbackQ' = [callbackQ EXCEPT ![v] = Append(@, s)]
               /\ UNCHANGED transferQ
          ELSE /\ transferQ' = [transferQ EXCEPT ![v] = Append(@, s)]
               /\ UNCHANGED <<send, callbackQ>>

(***************************************************************************)
(* MeshServer::postResponse(uuid, found) for the search s: the live search *)
(* gets AssetSearch::onSearchResult, then the entry is erased.  A positive *)
(* result cancels the timer and the other servers (cancelRemainingServers  *)
(* and MeshServer::cancelSearch); a test search then answers TRUE and      *)
(* completes, a full one fetches from v.  A negative result completes the  *)
(* search with a negative answer once no queried server is left.  An       *)
(* answer for a UUID with no entry (the search was cancelled) is dropped.  *)
(***************************************************************************)
PostResponse(v, s, found) ==
    /\ kind' = kind
    /\ IF s \notin current[v]
          THEN UNCHANGED <<phase, queried, timer, answers, freedUse,
                           current, send, transferQ, callbackQ, postedNull>>
       ELSE IF ~Alive(s)
          THEN /\ current' = [current EXCEPT ![v] = @ \ {s}]
               /\ UNCHANGED <<phase, queried, timer, answers, freedUse,
                              send, transferQ, callbackQ, postedNull>>
       ELSE IF found
          THEN /\ current' = [w \in Servers |->
                                 IF w \in queried[s] \cup {v}
                                    THEN current[w] \ {s} ELSE current[w]]
               /\ queried' = [queried EXCEPT ![s] = {}]
               /\ freedUse' = freedUse
               /\ IF kind[s] = "test"
                     THEN /\ phase' = [phase EXCEPT ![s] = "done"]
                          /\ answers' = [answers EXCEPT ![s] = Bump(@)]
                          /\ timer' = [timer EXCEPT ![s] = Cancelled(@)]
                          /\ UNCHANGED <<send, transferQ, callbackQ, postedNull>>
                     ELSE /\ phase' = [phase EXCEPT ![s] = "fetching"]
                          /\ timer' = [timer EXCEPT ![s] = Cancelled(@)]
                          /\ answers' = answers
                          /\ GetAsset(v, s)
          ELSE /\ current' = [current EXCEPT ![v] = @ \ {s}]
               /\ queried' = [queried EXCEPT ![s] = @ \ {v}]
               /\ freedUse' = freedUse
               /\ UNCHANGED <<send, transferQ, callbackQ, postedNull>>
               /\ IF queried[s] \ {v} = {}
                     THEN /\ phase' = [phase EXCEPT ![s] = "done"]
                          /\ answers' = [answers EXCEPT ![s] = Bump(@)]
                          /\ timer' = [timer EXCEPT ![s] = Cancelled(@)]
                     ELSE UNCHANGED <<phase, answers, timer>>

(***************************************************************************)
(* MeshServer::close().  It closes both sockets, fails every queued and    *)
(* sent transfer with callback(null), then reports a negative result to    *)
(* every live search in _currentSearches, which it does not clear.  rd, sd *)
(* and qc are the asset read, the write and the query connection's pending *)
(* disconnect as the calling handler leaves them.  On the first close the pending asset  *)
(* read, the pending write and a query answer may already have completed,  *)
(* when LateCompletions, and then run with success; otherwise they are     *)
(* aborted and their handlers call close() again.                          *)
(***************************************************************************)
Close(v, rd, sd, qc) ==
    LET flushed  == SeqSet(transferQ[v]) \cup SeqSet(callbackQ[v])
        notified == {s \in current[v] : Alive(s)} \ flushed
        negDone  == {s \in notified : queried[s] \ {v} = {}}
        freed    == {s \in flushed : Alive(s)} \cup negDone
        reads    == IF rd = "listening" /\ up[v]
                       THEN {"aborted"} \cup
                            IF LateCompletions /\ callbackQ[v] # <<>>
                               THEN {"lateHeader"} ELSE {}
                       ELSE {rd}
        sends    == IF sd = "writing" /\ up[v] /\ LateCompletions
                       THEN {"writing", "written"} ELSE {sd}
        lates    == IF up[v] /\ LateCompletions
                       THEN {{}} \cup {{x} : x \in asked[v]}
                       ELSE {lateAnswer[v]}
    IN  /\ up' = [up EXCEPT ![v] = FALSE]
        /\ transferQ' = [transferQ EXCEPT ![v] = <<>>]
        /\ callbackQ' = [callbackQ EXCEPT ![v] = <<>>]
        /\ asked' = [asked EXCEPT ![v] = {}]
        /\ \E r \in reads : assetRead' = [assetRead EXCEPT ![v] = r]
        /\ \E w \in sends : send' = [send EXCEPT ![v] = w]
        /\ \E l \in lates : lateAnswer' = [lateAnswer EXCEPT ![v] = l]
        /\ queryClose' = [queryClose EXCEPT ![v] = qc]
        /\ phase' = [s \in Searches |-> IF s \in freed THEN "done" ELSE phase[s]]
        /\ answers' = [s \in Searches |->
                          IF s \in freed THEN Bump(answers[s]) ELSE answers[s]]
        /\ timer' = [s \in Searches |->
                        IF s \in freed THEN Cancelled(timer[s]) ELSE timer[s]]
        /\ queried' = [s \in Searches |->
                          IF s \in notified THEN queried[s] \ {v} ELSE queried[s]]
        /\ freedUse' = (freedUse \/ \E s \in flushed : ~Alive(s))
        /\ UNCHANGED <<kind, current, postedNull, emptyFront>>

(***************************************************************************)
(* Actions                                                                 *)
(***************************************************************************)

(***************************************************************************)
(* MeshStorageBackend::getAsset (full) or assetExists (test) creates the   *)
(* search; performSearch visits the servers (IntraMeshService::            *)
(* forEachServer) and initiateSearch queries each one that is not timed out *)
(* and is readable, which MeshServer::search registers and                 *)
(* MeshQueryConnection::search sends.  The heartbeat age and flags are      *)
(* abstracted: any set of connected servers may qualify.  With none the    *)
(* search answers negatively and completes; otherwise it arms the timer.   *)
(***************************************************************************)
StartSearch(s, k) ==
    /\ phase[s] = "new"
    /\ \E Q \in SUBSET {v \in Servers : up[v]} :
          /\ kind' = [kind EXCEPT ![s] = k]
          /\ queried' = [queried EXCEPT ![s] = Q]
          /\ current' = [v \in Servers |->
                            IF v \in Q THEN current[v] \cup {s} ELSE current[v]]
          /\ asked' = [v \in Servers |->
                          IF v \in Q THEN asked[v] \cup {s} ELSE asked[v]]
          /\ IF Q = {}
                THEN /\ phase' = [phase EXCEPT ![s] = "done"]
                     /\ answers' = [answers EXCEPT ![s] = 1]
                     /\ UNCHANGED timer
                ELSE /\ phase' = [phase EXCEPT ![s] = "querying"]
                     /\ timer' = [timer EXCEPT ![s] = "armed"]
                     /\ UNCHANGED answers
    /\ UNCHANGED <<freedUse, emptyFront, up, lateAnswer, send, transferQ,
                   callbackQ, assetRead, queryClose, postedNull>>

(***************************************************************************)
(* MeshQueryConnection::onAfterMeshMessageReceived with the peer's answer  *)
(* to a query, then MeshServer::onQueryAnswerRcvd and postResponse.  The   *)
(* peer's answer, found or not, is its own index lookup.                   *)
(***************************************************************************)
QueryAnswer(v, s, found) ==
    /\ up[v]
    /\ s \in asked[v]
    /\ asked' = [asked EXCEPT ![v] = @ \ {s}]
    /\ PostResponse(v, s, found)
    /\ UNCHANGED <<emptyFront, up, lateAnswer, assetRead, queryClose>>

\* The same handler when the answer was read just before close().  The next
\* read, on the closed socket, fails; the disconnect is already pending.
LateQueryAnswer(v, s, found) ==
    /\ s \in lateAnswer[v]
    /\ lateAnswer' = [lateAnswer EXCEPT ![v] = {}]
    /\ PostResponse(v, s, found)
    /\ UNCHANGED <<emptyFront, up, asked, assetRead, queryClose>>

\* The 5 s deadline of the search timer passes: its handler is now queued.
TimerExpire(s) ==
    /\ Timeouts
    /\ timer[s] = "armed"
    /\ timer' = [timer EXCEPT ![s] = "expired"]
    /\ UNCHANGED <<phase, kind, queried, answers, freedUse, emptyFront, serverVars>>

(***************************************************************************)
(* AssetSearch::onTimeout.  Aborted: nothing.  Expired and not _wasFound:  *)
(* cancel the remaining servers, answer negatively, complete.  The handler *)
(* is bound to the raw search pointer, so on a freed search it reads freed *)
(* memory.                                                                 *)
(***************************************************************************)
OnTimeout(s) ==
    /\ timer[s] \in {"expired", "aborted"}
    /\ kind' = kind
    /\ IF timer[s] = "expired" /\ phase[s] = "done"
          THEN /\ freedUse' = TRUE
               /\ timer' = [timer EXCEPT ![s] = "off"]
               /\ UNCHANGED <<phase, queried, answers, current>>
       ELSE IF timer[s] = "expired" /\ phase[s] = "querying"
          THEN /\ current' = [w \in Servers |->
                                 IF w \in queried[s]
                                    THEN current[w] \ {s} ELSE current[w]]
               /\ queried' = [queried EXCEPT ![s] = {}]
               /\ phase' = [phase EXCEPT ![s] = "done"]
               /\ answers' = [answers EXCEPT ![s] = Bump(@)]
               /\ timer' = [timer EXCEPT ![s] = "off"]
               /\ freedUse' = freedUse
          ELSE /\ timer' = [timer EXCEPT ![s] = "off"]
               /\ UNCHANGED <<phase, queried, answers, freedUse, current>>
    /\ UNCHANGED <<emptyFront, up, asked, lateAnswer, send, transferQ,
                   callbackQ, assetRead, queryClose, postedNull>>

\* The callback(null) that MeshServer::getAsset posted runs.
RunPostedNull(s) ==
    /\ s \in postedNull
    /\ postedNull' = postedNull \ {s}
    /\ FullAssetRcvd({s})
    /\ UNCHANGED <<kind, queried, emptyFront, up, current, asked, lateAnswer,
                   send, transferQ, callbackQ, assetRead, queryClose>>

(***************************************************************************)
(* MeshServer::onAfterWriteAssetRequest.  Success sends the next queued    *)
(* transfer while the connection is up; an error calls close().  A write   *)
(* still in flight when its socket closed fails; one that completed before *)
(* ("written") succeeds.                                                   *)
(***************************************************************************)
WriteComplete(v) ==
    /\ send[v] \in {"writing", "written"}
    /\ \E ok \in IF send[v] = "written" THEN {TRUE}
                 ELSE IF ~up[v] THEN {FALSE}
                 ELSE IF ConnFaults THEN BOOLEAN ELSE {TRUE} :
          IF ok
             THEN /\ IF up[v] /\ transferQ[v] # <<>>
                        THEN /\ send' = [send EXCEPT ![v] = "writing"]
                             /\ callbackQ' = [callbackQ EXCEPT
                                                ![v] = Append(@, Head(transferQ[v]))]
                             /\ transferQ' = [transferQ EXCEPT ![v] = Tail(@)]
                        ELSE /\ send' = [send EXCEPT ![v] = "idle"]
                             /\ UNCHANGED <<transferQ, callbackQ>>
                  /\ UNCHANGED <<searchVars, up, current, asked, lateAnswer,
                                 assetRead, queryClose, postedNull>>
             ELSE Close(v, assetRead[v], "idle",
                        IF up[v] THEN TRUE ELSE queryClose[v])

(***************************************************************************)
(* MeshServer::onReadResponseHeader, with onReadResponseData or           *)
(* onHandleRequestErrorData: the peer's response to the oldest sent        *)
(* request, the asset or "not found", goes to its callback                 *)
(* (AssetSearch::onFullAssetRcvd); then listenForAssetData.                *)
(***************************************************************************)
AssetResponse(v) ==
    /\ up[v]
    /\ assetRead[v] = "listening"
    /\ callbackQ[v] # <<>>
    /\ callbackQ' = [callbackQ EXCEPT ![v] = Tail(@)]
    /\ FullAssetRcvd({Head(callbackQ[v])})
    /\ UNCHANGED <<kind, queried, emptyFront, up, current, asked, lateAnswer,
                   send, transferQ, assetRead, queryClose, postedNull>>

\* The asset read fails, or the header is invalid or names another UUID:
\* onReadResponseHeader or onReadResponseData calls close().
AssetConnError(v) ==
    /\ ConnFaults
    /\ up[v]
    /\ assetRead[v] = "listening"
    /\ Close(v, "idle", send[v], TRUE)

\* The query connection's read fails: MeshQueryConnection::close fires the
\* disconnect callback, MeshServer::queryEndpointClosed, which calls close().
QueryConnError(v) ==
    /\ ConnFaults
    /\ up[v]
    /\ Close(v, assetRead[v], send[v], FALSE)

(***************************************************************************)
(* onReadResponseHeader with a header read just before close().  FOUND:   *)
(* the data read on the closed socket fails and calls close().  A valid   *)
(* "not found" header takes _assetCallbackQueue.front(), which close()     *)
(* emptied: BOOST_ASSERT is compiled out, so this reads an empty queue.    *)
(* A request sent after close() names another UUID: close().               *)
(***************************************************************************)
LateHeader(v) ==
    /\ assetRead[v] = "lateHeader"
    /\ \/ Close(v, "idle", send[v], queryClose[v])
       \/ /\ callbackQ[v] = <<>>
          /\ emptyFront' = TRUE
          /\ assetRead' = [assetRead EXCEPT ![v] = "idle"]
          /\ UNCHANGED <<phase, kind, queried, timer, answers, freedUse, up, current,
                         asked, lateAnswer, send, transferQ, callbackQ,
                         queryClose, postedNull>>

\* The asset read aborted by close() completes with an error: close() again.
AbortedAssetRead(v) ==
    /\ assetRead[v] = "aborted"
    /\ Close(v, "idle", send[v], queryClose[v])

\* The query read aborted by close() completes with an error; the query
\* connection's disconnect callback fires once: queryEndpointClosed, close().
AbortedQueryRead(v) ==
    /\ queryClose[v]
    /\ Close(v, assetRead[v], send[v], FALSE)

\* Every search has completed and no handler is left: the run may stop.
Quiescent ==
    /\ \A s \in Searches : phase[s] = "done" /\ timer[s] = "off"
    /\ postedNull = {}
    /\ \A v \in Servers :
          /\ send[v] = "idle" /\ ~queryClose[v] /\ lateAnswer[v] = {}
          /\ assetRead[v] \in {"listening", "idle"}
          /\ up[v] => asked[v] = {}
    /\ UNCHANGED vars

Next ==
    \/ \E s \in Searches, k \in {"full", "test"} : StartSearch(s, k)
    \/ \E v \in Servers, s \in Searches, f \in BOOLEAN :
          QueryAnswer(v, s, f) \/ LateQueryAnswer(v, s, f)
    \/ \E s \in Searches : TimerExpire(s) \/ OnTimeout(s) \/ RunPostedNull(s)
    \/ \E v \in Servers :
          \/ WriteComplete(v) \/ AssetResponse(v) \/ AssetConnError(v)
          \/ QueryConnError(v) \/ LateHeader(v) \/ AbortedAssetRead(v)
          \/ AbortedQueryRead(v)
    \/ Quiescent

(***************************************************************************)
(* The reactor runs every queued handler, the timer expires after 5 s and  *)
(* a connected peer answers each query and each request: weak fairness of  *)
(* each handler.  Failures and new searches get none.                      *)
(***************************************************************************)
Fairness ==
    /\ \A v \in Servers, s \in Searches :
          /\ WF_vars(\E f \in BOOLEAN : QueryAnswer(v, s, f))
          /\ WF_vars(\E f \in BOOLEAN : LateQueryAnswer(v, s, f))
    /\ \A s \in Searches :
          WF_vars(TimerExpire(s)) /\ WF_vars(OnTimeout(s)) /\ WF_vars(RunPostedNull(s))
    /\ \A v \in Servers :
          /\ WF_vars(WriteComplete(v)) /\ WF_vars(AssetResponse(v))
          /\ WF_vars(LateHeader(v)) /\ WF_vars(AbortedAssetRead(v))
          /\ WF_vars(AbortedQueryRead(v))

Spec == Init /\ [][Next]_vars /\ Fairness

(***************************************************************************)
(* Properties                                                              *)
(***************************************************************************)

\* No handler runs on a freed search: the timer handler (onTimeout) and the
\* fetch callback (onFullAssetRcvd) are bound to the search's raw pointer,
\* and only MeshStorageBackend::_activeSearches keeps it alive.
NoUseAfterFree == ~freedUse

\* The assertion in onReadResponseHeader: a response always has a waiter at
\* the front of _assetCallbackQueue.
ResponseHasWaiter == ~emptyFront

\* The completions a fetching search is owed, one per handle: a posted
\* callback(null), or an entry of a transfer or callback queue.
Completions(s) ==
    LET at(q, v, tag) == {<<v, tag, j>> : j \in {i \in 1 .. Len(q[v]) : q[v][i] = s}}
    IN  (IF s \in postedNull THEN {<<"posted">>} ELSE {}) \cup
        UNION {at(transferQ, v, "transfer") \cup at(callbackQ, v, "sent") : v \in Servers}

\* MeshServer::getAsset gives each fetch exactly one way to complete: the
\* callback is either posted (closed connection) or queued, never both, and
\* a search never fetches from two servers.
OneCompletionPath == \A s \in Searches : Cardinality(Completions(s)) <= 1

\* Every started search eventually calls its caller back: the timer covers
\* the queries, close() and the peer cover the fetch.
SearchAnswered == \A s \in Searches : phase[s] # "new" ~> answers[s] >= 1

=============================================================================
