-------------------------- MODULE MCHomeReconcile --------------------------
(* HomeReconcile with two conversations. One is asked for and the other    *)
(* does not exist yet; or one has messages and the other has ended.        *)
EXTENDS HomeReconcile

CONSTANTS c1, c2, l1, l2

MCConversations == {c1, c2}
MCSlots == {l1, l2}

PeerMessage == [peer |-> TRUE, erased |-> FALSE]

Full == [row |-> "accepted", msgs |-> <<PeerMessage, PeerMessage>>, window |-> Open]
Asked == [row |-> "pending", msgs |-> <<>>, window |-> Open]
Ended == [row |-> "deleted", msgs |-> <<>>, window |-> Open]

MCStarts == {(c1 :> Absent @@ c2 :> Asked),
             (c1 :> Full @@ c2 :> Ended)}

=============================================================================
