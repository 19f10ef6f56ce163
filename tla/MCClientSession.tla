-------------------------- MODULE MCClientSession --------------------------
(* Two connections, two valid asset ids (u2 local, u1 held by a peer) and *)
(* a cache that holds one asset, so that a second insert evicts.          *)
EXTENDS ClientSession, TLC

CONSTANTS c1, c2, u1, u2

MCClients == {c1, c2}
MCOneClient == {c1}
MCUUIDs == {u1, u2}
MCLocals == {u2}
MCMeshAssets == {u1}

\* c1 sends two requests and c2 one.
MCMaxRequests == [c \in MCClients |-> IF c = c1 THEN 2 ELSE 1]
MCOneRequest == [c \in MCOneClient |-> 1]
=============================================================================
