------------------------- MODULE MCIntraMeshSearch --------------------------
(* Model values for IntraMeshSearch: two searches (each for its own UUID)  *)
(* and two peers, enough for a search to query two servers, for one peer  *)
(* to close while the other still owes an answer, and for two fetches to   *)
(* queue behind each other on one asset connection.                       *)
EXTENDS IntraMeshSearch, TLC

CONSTANTS s1, s2, a, b

MCSearches == {s1, s2}
MCServers == {a, b}
MCOneSearch == {s1}
=============================================================================
