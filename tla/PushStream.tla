----------------------------- MODULE PushStream -----------------------------
(***************************************************************************)
(* What push replication promises (spec.md 4.6, "push = master streams     *)
(* new writes to slave"), with connections, queues and handlers            *)
(* abstracted away:                                                        *)
(*   - stored:   the assets the master stored, in store order;             *)
(*   - received: the PUTs the slave has handled, in the order it did.      *)
(* The stream may drop assets (a full queue, no connection, a broken       *)
(* link: pull is trusted to catch up), but what reaches the slave is an    *)
(* asset the master stored, and none reaches it twice.  Store order is     *)
(* not part of this promise: the instance the project checks queues at     *)
(* most one asset, where no reorder can arise, so an order clause would    *)
(* hold by the bounds alone.                                               *)
(***************************************************************************)
EXTENDS Naturals, Sequences
LOCAL INSTANCE SequencesExt

CONSTANT Assets

VARIABLES stored, received

svars == <<stored, received>>

Init == stored = <<>> /\ received = <<>>

\* The master stores a new asset.
Store(a) ==
    /\ a \notin ToSet(stored)
    /\ stored' = Append(stored, a)
    /\ UNCHANGED received

\* The slave receives a stored asset it has not received before.
Forward ==
    /\ \E a \in ToSet(stored) \ ToSet(received) : received' = Append(received, a)
    /\ UNCHANGED stored

Next == (\E a \in Assets : Store(a)) \/ Forward

Spec == Init /\ [][Next]_svars
====
