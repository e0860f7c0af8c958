------------------------------ MODULE Datagrams ------------------------------
(***************************************************************************)
(* What an unreliable link promises to the protocol of the rooms, and what *)
(* RoomSession assumes of its network: a message that comes out was sent,  *)
(* as a whole.  Messages may get lost, come again and overtake each other. *)
(***************************************************************************)
EXTENDS Sequences

CONSTANT Message

VARIABLES
  sent,     \* the messages that were sent
  delivered \* the messages that came out, in order

vars == <<sent, delivered>>

Init == sent = {} /\ delivered = <<>>

Send(m) == sent' = sent \cup {m} /\ UNCHANGED delivered

Deliver(m) == m \in sent /\ delivered' = Append(delivered, m) /\ UNCHANGED sent

Next == \E m \in Message : Send(m) \/ Deliver(m)

Spec == Init /\ [][Next]_vars
=============================================================================
