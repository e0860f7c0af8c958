------------------------------ MODULE LossyFifo ------------------------------
(***************************************************************************)
(* What the message queue of a thread promises to the threads on its two   *)
(* ends: messages are delivered in the order they were put, each at most   *)
(* once, and only the oldest one may be given up to make room for a new    *)
(* one.  Nothing is said about locks or about the size of the queue.       *)
(***************************************************************************)
EXTENDS Sequences

CONSTANT Message

VARIABLES queue, delivered

vars == <<queue, delivered>>

Init == queue = <<>> /\ delivered = <<>>

Put(m) == queue' = Append(queue, m) /\ UNCHANGED delivered

PutOverOldest(m) ==
  /\ queue # <<>>
  /\ queue' = Append(Tail(queue), m)
  /\ UNCHANGED delivered

Take ==
  /\ queue # <<>>
  /\ delivered' = Append(delivered, Head(queue))
  /\ queue' = Tail(queue)

Next == Take \/ \E m \in Message : Put(m) \/ PutOverOldest(m)

Spec == Init /\ [][Next]_vars
=============================================================================
