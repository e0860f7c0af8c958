---------------------------- MODULE ThreadMessage ----------------------------
(***************************************************************************)
(* mainserver/ThreadMessage.h: the queue between the threads of a room     *)
(* server.  The camera threads and the hall thread push results into the   *)
(* main thread's m_ServerMessage, the main thread pushes requests into the *)
(* m_CameraMessage of each camera thread.  A sender waits for the critical *)
(* section, the receiver only tries to enter it and comes back later.  The *)
(* receiver reads the head with Front, handles it and pops it afterwards,  *)
(* inside the critical section all the while.                              *)
(***************************************************************************)
EXTENDS Naturals, Sequences

CONSTANTS
  Senders,   \* the threads that push
  Receiver,  \* the one thread that pops
  NoThread,  \* nobody is in the critical section
  NoMsg,     \* Front has not been called
  MaxSize,   \* m_nMaxSize, 100 in the code
  MaxSent,   \* bound: messages one sender pushes
  Drain      \* TRUE: the main thread, which pops until the queue is empty;
             \* FALSE: a camera thread, which pops one message per frame

ASSUME QueueAssumption ==
  /\ MaxSize \in Nat /\ MaxSent \in Nat /\ Drain \in BOOLEAN
  /\ Receiver \notin Senders
  /\ NoThread \notin Senders \cup {Receiver}

Message == [from : Senders, n : 1..MaxSent]

ASSUME NoMsgAssumption == NoMsg \notin Message

VARIABLES
  m_cs,      \* the thread inside m_cs, or NoThread
  m_Buffer,  \* the queue
  front,     \* the message the receiver is handling, or NoMsg
  sent,      \* sent[s]: how many messages s has pushed
  handled    \* every message the receiver has handled, in order

vars == <<m_cs, m_Buffer, front, sent, handled>>

Init ==
  /\ m_cs = NoThread
  /\ m_Buffer = <<>>
  /\ front = NoMsg
  /\ sent = [s \in Senders |-> 0]
  /\ handled = <<>>
-----------------------------------------------------------------------------
(* Faulty Enter: the sender does not wait.                                  *)
EnterNoWait(s) ==
  /\ sent[s] < MaxSent
  /\ m_cs' = s
  /\ UNCHANGED <<m_Buffer, front, sent, handled>>

(* ThreadMessageAutoEnter(queue, true): wait for the critical section.      *)
Enter(s) ==
  /\ sent[s] < MaxSent
  /\ m_cs = NoThread
  /\ m_cs' = s
  /\ UNCHANGED <<m_Buffer, front, sent, handled>>

(* Faulty Push: the size is not looked at.                                  *)
PushUnbounded(s) ==
  LET m == [from |-> s, n |-> sent[s] + 1] IN
  /\ m_cs = s
  /\ m_Buffer' = Append(m_Buffer, m)
  /\ sent' = [sent EXCEPT ![s] = @ + 1]
  /\ m_cs' = NoThread
  /\ UNCHANGED <<front, handled>>

(* Faulty Push: the new message becomes the head.                           *)
PushInFront(s) ==
  LET m == [from |-> s, n |-> sent[s] + 1] IN
  /\ m_cs = s
  /\ m_Buffer' = <<m>> \o (IF MaxSize < Len(m_Buffer) THEN Tail(m_Buffer) ELSE m_Buffer)
  /\ sent' = [sent EXCEPT ![s] = @ + 1]
  /\ m_cs' = NoThread
  /\ UNCHANGED <<front, handled>>

(* Push drops the oldest message of an overfull queue, appends the new one, *)
(* and the destructor of the AutoEnter object leaves the critical section.  *)
Push(s) ==
  LET m == [from |-> s, n |-> sent[s] + 1]
      kept == IF MaxSize < Len(m_Buffer) THEN Tail(m_Buffer) ELSE m_Buffer
  IN
  /\ m_cs = s
  /\ m_Buffer' = Append(kept, m)
  /\ sent' = [sent EXCEPT ![s] = @ + 1]
  /\ m_cs' = NoThread
  /\ UNCHANGED <<front, handled>>

(* ThreadMessageAutoEnter(queue, false): when the section is taken the      *)
(* receiver goes on without it and nothing changes.                         *)
TryEnter ==
  /\ m_cs = NoThread
  /\ m_cs' = Receiver
  /\ UNCHANGED <<m_Buffer, front, sent, handled>>

(* Front: the reference to the head that the handler works on.              *)
Front ==
  /\ m_cs = Receiver
  /\ front = NoMsg
  /\ m_Buffer # <<>>
  /\ front' = Head(m_Buffer)
  /\ UNCHANGED <<m_cs, m_Buffer, sent, handled>>

(* Faulty Pop: takes two messages for one that was handled.                 *)
PopTwice ==
  /\ front # NoMsg
  /\ handled' = Append(handled, front)
  /\ m_Buffer' = IF Len(m_Buffer) > 1 THEN Tail(Tail(m_Buffer)) ELSE Tail(m_Buffer)
  /\ front' = NoMsg
  /\ m_cs' = IF Drain THEN m_cs ELSE NoThread
  /\ UNCHANGED sent

(* Faulty Pop: called without Front.                                        *)
PopUnread ==
  /\ m_cs = Receiver /\ m_Buffer # <<>>
  /\ handled' = Append(handled, front)
  /\ m_Buffer' = Tail(m_Buffer)
  /\ front' = NoMsg
  /\ m_cs' = IF Drain THEN m_cs ELSE NoThread
  /\ UNCHANGED sent

(* The handler returned: Pop.  A camera thread leaves after one message.    *)
Pop ==
  /\ front # NoMsg
  /\ handled' = Append(handled, front)
  /\ m_Buffer' = Tail(m_Buffer)
  /\ front' = NoMsg
  /\ m_cs' = IF Drain THEN m_cs ELSE NoThread
  /\ UNCHANGED sent

(* IsEmpty ends the loop and the AutoEnter object leaves.                   *)
Leave ==
  /\ m_cs = Receiver
  /\ m_Buffer = <<>>
  /\ m_cs' = NoThread
  /\ UNCHANGED <<m_Buffer, front, sent, handled>>

Next ==
  \/ \E s \in Senders : Enter(s) \/ Push(s)
  \/ TryEnter \/ Front \/ Pop \/ Leave

Spec == Init /\ [][Next]_vars
-----------------------------------------------------------------------------
(* Every variable has the type its declaration in ThreadMessage.h gives it. *)
TypeOK ==
  /\ m_cs \in Senders \cup {Receiver, NoThread}
  /\ m_Buffer \in Seq(Message)
  /\ front \in Message \cup {NoMsg}
  /\ sent \in [Senders -> 0..MaxSent]
  /\ handled \in Seq(Message)

(* Push keeps the memory of a queue whose receiver is stuck bounded.  The   *)
(* test is "max < size" before the push, so the bound is one above the      *)
(* m_nMaxSize the constructor is given.                                     *)
Bounded == Len(m_Buffer) <= MaxSize + 1

(* Pop removes the message that Front returned and the handler worked on:   *)
(* no push drops it, and no other message is popped in its place, between   *)
(* the two calls.                                                           *)
PopsWhatItHandled ==
  front # NoMsg => m_cs = Receiver /\ m_Buffer # <<>> /\ Head(m_Buffer) = front

Increasing(q) ==
  \A i, j \in DOMAIN q : i < j /\ q[i].from = q[j].from => q[i].n < q[j].n

(* The messages of one sender are handled in the order it pushed them and   *)
(* none is handled twice, whatever is dropped in between.                   *)
InOrder ==
  /\ Increasing(handled)
  /\ Increasing(m_Buffer)
  /\ \A i \in DOMAIN handled, j \in DOMAIN m_Buffer :
       handled[i].from = m_Buffer[j].from => handled[i].n < m_Buffer[j].n

Fifo == INSTANCE LossyFifo WITH queue <- m_Buffer, delivered <- handled

(* The queue with its lock, Front and Pop implements the lossy FIFO.        *)
ImplementsFifo == Fifo!Spec
=============================================================================
