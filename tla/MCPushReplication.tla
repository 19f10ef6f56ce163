------------------------- MODULE MCPushReplication -------------------------
(* Model values and small sets for checking PushReplication with TLC.     *)
EXTENDS PushReplication, TLC

CONSTANTS a1, a2, e1, e2

MCAssets == {a1, a2}
MCEndpoints == {e1, e2}
MCFirstEndpoint == {e1}
MCSlaveHas == {a2}
MCSlaveHasAll == {a1, a2}

====
