----------------------- MODULE MCIntraMeshService -----------------------------
(* query.cfg: two inbound peers, one of them trusted; the trusted peer    *)
(* asks about a stored and an unstored asset in one pipeline, the other   *)
(* is refused; no outbound peers.                                          *)
(* peers.cfg: no inbound peers and two configured outbound peers, whose  *)
(* connection attempts meet a bounded number of faults.                    *)
EXTENDS IntraMeshService, TLC

CONSTANTS p1, p2, u1, u2, q1, q2

MCPeers == {p1, p2}
MCTrusted == {p1}
MCUuids == {u1, u2}
MCStored == {u1}
MCQueries == (p1 :> <<u1, u2>>) @@ (p2 :> <<u1>>)
MCOutPeers == {q1, q2}
NoQueries == [p \in {} |-> <<>>]
====
