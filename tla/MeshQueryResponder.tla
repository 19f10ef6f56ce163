------------------------- MODULE MeshQueryResponder -------------------------
(***************************************************************************)
(* What the query side of the intramesh promises a peer (spec.md 4.5 and   *)
(* the 38-byte QUERY/RESPONSE messages of 4.1), with sockets, send queues,  *)
(* heartbeats and handlers abstracted away.  Per peer connection:          *)
(*   - asked:    the queries the server has taken in, in order;            *)
(*   - answered: the responses the peer has received, in order;            *)
(*   - usable:   the connection has not been broken or closed.             *)
(* The server takes in a query only once every earlier one is answered     *)
(* (half-duplex), answers each exactly once with a result the store may    *)
(* give for that UUID, and keeps answering while the connection is usable. *)
(***************************************************************************)
EXTENDS Naturals, Sequences

CONSTANTS
    Peers,
    Uuids,
    Answers(_)   \* Answers(u): the results the local store may give for u

VARIABLES asked, answered, usable

avars == <<asked, answered, usable>>

Init ==
    /\ asked = [p \in Peers |-> <<>>]
    /\ answered = [p \in Peers |-> <<>>]
    /\ usable = [p \in Peers |-> TRUE]

\* Nothing is owed to p: every query taken in has its answer.
Settled(p) == Len(answered[p]) = Len(asked[p])

\* The server takes in the next query of p.  A query read just before the
\* connection broke is still taken in.
Receive(p, u) ==
    /\ Settled(p)
    /\ asked' = [asked EXCEPT ![p] = Append(@, u)]
    /\ UNCHANGED <<answered, usable>>

\* The peer receives the answer to its oldest unanswered query.
Answer(p) ==
    /\ usable[p] /\ ~Settled(p)
    /\ LET u == asked[p][Len(answered[p]) + 1]
       IN  \E r \in Answers(u) :
              answered' = [answered EXCEPT ![p] = Append(@, [k |-> "resp", u |-> u, r |-> r])]
    /\ UNCHANGED <<asked, usable>>

\* The connection breaks or is closed, for good.
Drop(p) ==
    /\ usable[p]
    /\ usable' = [usable EXCEPT ![p] = FALSE]
    /\ UNCHANGED <<asked, answered>>

Next == \E p \in Peers : \/ \E u \in Uuids : Receive(p, u)
                         \/ Answer(p) \/ Drop(p)

\* A usable connection that owes an answer delivers it.
Spec == Init /\ [][Next]_avars /\ \A p \in Peers : WF_avars(Answer(p))
====
