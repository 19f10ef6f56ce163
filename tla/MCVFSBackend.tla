---------------------------- MODULE MCVFSBackend ----------------------------
(* Model values and bounds for checking VFSBackend with TLC: up to two     *)
(* assets in two shard directories and two interchangeable clients.        *)
EXTENDS VFSBackend, TLC

CONSTANTS u1, u2, c1, c2

MCUUIDs == {u1, u2}
\* One asset only, for the liveness run.
MCOneUUIDs == {u1}
MCClients == {c1, c2}
MCShardOf == [u \in MCUUIDs |-> IF u = u1 THEN 0 ELSE 1]
MCOneShardOf == [u \in MCOneUUIDs |-> 0]
\* Clients are interchangeable; sound for the safety runs.
MCSymmetry == Permutations(MCClients)
=============================================================================
