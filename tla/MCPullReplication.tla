------------------------- MODULE MCPullReplication -------------------------
(* Small instances of PullReplication for TLC. *)
EXTENDS PullReplication, TLC

CONSTANTS a1, a2, m1, m2

MCAssets == {a1, a2}
MCMasters == {m1, m2}
MCFirstMaster == {m1}
MCOtherMaster == {m2}
MCMasterOrNone == {m1, NoMaster}
\* Prefix 0 lists both assets, prefix 1 none.
MCMasterIds == [p \in 0..1 |-> IF p = 0 THEN <<a1, a2>> ELSE <<>>]
MCClientAssets == {a2}
MCNoClientAssets == {}
\* The "not established" retry loop of a closed RemoteAssetService queues
\* one more request per turn; batch runs stop exploring past this length.
MCTransferQueueBound == Len(ras.tq) <= 2
====
