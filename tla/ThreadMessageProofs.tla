------------------------- MODULE ThreadMessageProofs -------------------------
(***************************************************************************)
(* Proofs about ThreadMessage for every set of senders, every queue size   *)
(* and both receivers.                                                     *)
(***************************************************************************)
EXTENDS ThreadMessage, TLAPS

(* A sender inside the critical section has a message left to push.         *)
PusherHasOne == m_cs \in Senders => sent[m_cs] < MaxSent

Inv == TypeOK /\ Bounded /\ PopsWhatItHandled /\ PusherHasOne

LEMMA InitInv == Init => Inv
BY QueueAssumption
   DEF Init, Inv, TypeOK, Bounded, PopsWhatItHandled, PusherHasOne

LEMMA TailFacts ==
  ASSUME NEW q \in Seq(Message), q # <<>>
  PROVE  /\ Tail(q) \in Seq(Message)
         /\ Head(q) \in Message
         /\ Len(Tail(q)) = Len(q) - 1
         /\ Len(q) \in Nat \ {0}
         /\ \A i \in 1..Len(q) - 1 : Tail(q)[i] = q[i + 1]
         /\ Head(q) = q[1]
OBVIOUS

LEMMA NextInv == Inv /\ [Next]_vars => Inv'
<1> SUFFICES ASSUME Inv, [Next]_vars PROVE Inv'
  OBVIOUS
<1> USE QueueAssumption, NoMsgAssumption DEF Inv, TypeOK, Bounded, PopsWhatItHandled, PusherHasOne
<1>1. ASSUME NEW s \in Senders, Enter(s) PROVE Inv'
  BY <1>1 DEF Enter
<1>2. ASSUME NEW s \in Senders, Push(s) PROVE Inv'
  <2> DEFINE m == [from |-> s, n |-> sent[s] + 1]
             kept == IF MaxSize < Len(m_Buffer) THEN Tail(m_Buffer) ELSE m_Buffer
  <2>1. m \in Message
    BY <1>2 DEF Push, Message
  <2>2. kept \in Seq(Message) /\ Len(kept) <= MaxSize
    <3>1. CASE MaxSize < Len(m_Buffer)
      BY <3>1, TailFacts
    <3>2. CASE ~(MaxSize < Len(m_Buffer))
      BY <3>2
    <3> QED BY <3>1, <3>2
  <2>3. m_Buffer' = Append(kept, m) /\ UNCHANGED <<front, handled>>
        /\ m_cs' = NoThread /\ sent' = [sent EXCEPT ![s] = @ + 1] /\ m_cs = s
    BY <1>2 DEF Push
  <2> HIDE DEF m, kept
  <2>4. m_Buffer' \in Seq(Message) /\ Len(m_Buffer') <= MaxSize + 1
    BY <2>1, <2>2, <2>3
  <2>5. sent' \in [Senders -> 0..MaxSent]
    BY <2>3
  <2>6. front = NoMsg
    BY <2>3
  <2> QED BY <2>3, <2>4, <2>5, <2>6
<1>3. ASSUME TryEnter PROVE Inv'
  BY <1>3 DEF TryEnter
<1>4. ASSUME Front PROVE Inv'
  BY <1>4, TailFacts DEF Front
<1>5. ASSUME Pop PROVE Inv'
  BY <1>5, TailFacts DEF Pop
<1>6. ASSUME Leave PROVE Inv'
  BY <1>6 DEF Leave
<1>7. ASSUME UNCHANGED vars PROVE Inv'
  BY <1>7 DEF vars
<1> QED BY <1>1, <1>2, <1>3, <1>4, <1>5, <1>6, <1>7 DEF Next

LEMMA InvHolds == Spec => []Inv
BY InitInv, NextInv, PTL DEF Spec

(* Type correctness of the queue, its lock and its two histories.           *)
THEOREM TypeCorrect == Spec => []TypeOK
BY InvHolds, PTL DEF Inv

(* However many senders push and however slow the receiver is, the queue    *)
(* never holds more than m_nMaxSize + 1 messages.                           *)
THEOREM QueueIsBounded == Spec => []Bounded
BY InvHolds, PTL DEF Inv

(* The message Pop removes is the one Front returned: the reference that    *)
(* the handler of PopThreadMessage works on stays valid until it returns.   *)
THEOREM NoPushUnderTheHandler == Spec => []PopsWhatItHandled
BY InvHolds, PTL DEF Inv
-----------------------------------------------------------------------------
LEMMA StepRefines == Inv /\ [Next]_vars => [Fifo!Next]_(Fifo!vars)
<1> SUFFICES ASSUME Inv, [Next]_vars PROVE [Fifo!Next]_(Fifo!vars)
  OBVIOUS
<1> USE QueueAssumption DEF Inv, TypeOK, Fifo!vars
<1>1. ASSUME NEW s \in Senders, Push(s) PROVE Fifo!Next
  <2> DEFINE m == [from |-> s, n |-> sent[s] + 1]
  <2>1. m \in Message /\ handled' = handled
    BY <1>1 DEF Push, PusherHasOne, Message
  <2>2. CASE MaxSize < Len(m_Buffer)
    <3>1. m_Buffer # <<>> /\ m_Buffer' = Append(Tail(m_Buffer), m)
      BY <2>2, <1>1 DEF Push
    <3> QED BY <2>1, <3>1 DEF Fifo!Next, Fifo!PutOverOldest
  <2>3. CASE ~(MaxSize < Len(m_Buffer))
    <3>1. m_Buffer' = Append(m_Buffer, m)
      BY <2>3, <1>1 DEF Push
    <3> QED BY <2>1, <3>1 DEF Fifo!Next, Fifo!Put
  <2> QED BY <2>2, <2>3
<1>2. ASSUME Pop PROVE Fifo!Next
  BY <1>2 DEF Pop, PopsWhatItHandled, Fifo!Next, Fifo!Take
<1>3. ASSUME NEW s \in Senders, Enter(s) PROVE UNCHANGED Fifo!vars
  BY <1>3 DEF Enter
<1>4. ASSUME TryEnter \/ Front \/ Leave \/ UNCHANGED vars
      PROVE  UNCHANGED Fifo!vars
  BY <1>4 DEF TryEnter, Front, Leave, vars
<1> QED BY <1>1, <1>2, <1>3, <1>4 DEF Next

(* Push, Front and Pop under the critical section implement the lossy FIFO: *)
(* the queue reorders nothing, delivers nothing twice and loses only what   *)
(* Push removed from its head.                                              *)
THEOREM Implementation == Spec => ImplementsFifo
<1>1. Init => Fifo!Init
  BY DEF Init, Fifo!Init
<1> QED BY <1>1, InvHolds, StepRefines, PTL DEF Spec, ImplementsFifo, Fifo!Spec
-----------------------------------------------------------------------------
(* No message of a sender is numbered above what the sender has pushed.     *)
Numbered(q) == \A i \in DOMAIN q : q[i].n <= sent[q[i].from]

(* Every message of p precedes every message of q from the same sender.     *)
Precedes(p, q) ==
  \A i \in DOMAIN p, j \in DOMAIN q :
    p[i].from = q[j].from => p[i].n < q[j].n

OrderInv == InOrder /\ Numbered(handled) /\ Numbered(m_Buffer)

LEMMA IncreasingTail ==
  ASSUME NEW q \in Seq(Message), q # <<>>, Increasing(q)
  PROVE  Increasing(Tail(q))
BY TailFacts DEF Increasing

LEMMA IncreasingAppend ==
  ASSUME NEW q \in Seq(Message), NEW m \in Message, Increasing(q),
         \A i \in DOMAIN q : q[i].from = m.from => q[i].n < m.n
  PROVE  Increasing(Append(q, m))
<1>1. /\ DOMAIN Append(q, m) = 1..(Len(q) + 1)
      /\ DOMAIN q = 1..Len(q)
      /\ \A i \in 1..Len(q) : Append(q, m)[i] = q[i] /\ q[i] \in Message
      /\ Append(q, m)[Len(q) + 1] = m
      /\ Len(q) \in Nat
  OBVIOUS
<1> QED BY <1>1 DEF Increasing

LEMMA InitOrder == Init => OrderInv
BY DEF Init, OrderInv, InOrder, Increasing, Numbered

LEMMA PushOrder ==
  ASSUME Inv, OrderInv, NEW s \in Senders, Push(s)
  PROVE  OrderInv'
<1> DEFINE m == [from |-> s, n |-> sent[s] + 1]
           kept == IF MaxSize < Len(m_Buffer) THEN Tail(m_Buffer) ELSE m_Buffer
<1> USE QueueAssumption
<1>1. /\ m \in Message
      /\ m_Buffer' = Append(kept, m) /\ handled' = handled
      /\ sent' = [sent EXCEPT ![s] = @ + 1]
      /\ m.from = s /\ m.n = sent[s] + 1
  BY DEF Push, Inv, TypeOK, PusherHasOne, Message
<1>2. kept \in Seq(Message)
  BY TailFacts DEF Inv, TypeOK
<1>3. Increasing(kept) /\ Numbered(kept) /\ Precedes(handled, kept)
  <2>1. CASE MaxSize < Len(m_Buffer)
    <3>1. m_Buffer # <<>> /\ m_Buffer \in Seq(Message) /\ kept = Tail(m_Buffer)
      BY <2>1 DEF Inv, TypeOK
    <3>2. Increasing(kept)
      BY <3>1, IncreasingTail DEF OrderInv, InOrder
    <3>3. /\ DOMAIN kept = 1..(Len(m_Buffer) - 1)
          /\ DOMAIN m_Buffer = 1..Len(m_Buffer)
          /\ Len(m_Buffer) \in Nat
          /\ \A i \in DOMAIN kept : i + 1 \in DOMAIN m_Buffer /\ kept[i] = m_Buffer[i + 1]
      BY <3>1, TailFacts
    <3> HIDE DEF kept
    <3> QED BY <3>2, <3>3 DEF OrderInv, InOrder, Numbered, Precedes
  <2>2. CASE ~(MaxSize < Len(m_Buffer))
    BY <2>2 DEF OrderInv, InOrder, Precedes, Numbered
  <2> QED BY <2>1, <2>2
<1> HIDE DEF m, kept
<1>4. /\ DOMAIN kept = 1..Len(kept) /\ Len(kept) \in Nat
      /\ DOMAIN m_Buffer' = 1..(Len(kept) + 1)
      /\ \A i \in 1..Len(kept) : m_Buffer'[i] = kept[i] /\ kept[i] \in Message
      /\ m_Buffer'[Len(kept) + 1] = m
  BY <1>1, <1>2
<1>5. \A t \in Senders : sent[t] \in Nat /\ sent'[t] = IF t = s THEN sent[t] + 1 ELSE sent[t]
  BY <1>1 DEF Inv, TypeOK
<1>6. \A i \in DOMAIN handled : handled[i] \in Message
  BY DEF Inv, TypeOK
<1>7. \A x \in Message : x.from \in Senders /\ x.n \in Nat
  BY DEF Message
<1>8. Increasing(m_Buffer')
  <2>1. \A i \in DOMAIN kept : kept[i].from = m.from => kept[i].n < m.n
    BY <1>1, <1>3, <1>4, <1>5, <1>7 DEF Numbered
  <2> QED BY <2>1, <1>1, <1>2, <1>3, IncreasingAppend
<1>9. (\A i \in DOMAIN handled, j \in DOMAIN m_Buffer :
         handled[i].from = m_Buffer[j].from => handled[i].n < m_Buffer[j].n)'
  BY <1>1, <1>3, <1>4, <1>5, <1>6, <1>7 DEF Precedes, OrderInv, Numbered
<1>10. Numbered(handled)'
  BY <1>1, <1>5, <1>6, <1>7 DEF OrderInv, Numbered
<1>11. Numbered(m_Buffer)'
  BY <1>1, <1>3, <1>4, <1>5, <1>7 DEF Numbered
<1>12. Increasing(handled)'
  BY <1>1 DEF OrderInv, InOrder, Increasing
<1> QED BY <1>8, <1>9, <1>10, <1>11, <1>12 DEF OrderInv, InOrder, Increasing

LEMMA PopOrder ==
  ASSUME Inv, OrderInv, Pop
  PROVE  OrderInv'
<1>1. /\ m_Buffer # <<>> /\ m_Buffer \in Seq(Message) /\ handled \in Seq(Message)
      /\ m_Buffer' = Tail(m_Buffer) /\ sent' = sent
      /\ handled' = Append(handled, Head(m_Buffer))
  BY DEF Pop, Inv, TypeOK, PopsWhatItHandled
<1>2. /\ Head(m_Buffer) \in Message /\ Head(m_Buffer) = m_Buffer[1]
      /\ Len(m_Buffer) \in Nat \ {0}
      /\ DOMAIN m_Buffer = 1..Len(m_Buffer)
      /\ DOMAIN m_Buffer' = 1..(Len(m_Buffer) - 1)
      /\ \A i \in 1..(Len(m_Buffer) - 1) : m_Buffer'[i] = m_Buffer[i + 1]
      /\ m_Buffer' \in Seq(Message)
  BY <1>1, TailFacts
<1>3. /\ DOMAIN handled = 1..Len(handled) /\ Len(handled) \in Nat
      /\ DOMAIN handled' = 1..(Len(handled) + 1)
      /\ \A i \in 1..Len(handled) : handled'[i] = handled[i]
      /\ handled'[Len(handled) + 1] = m_Buffer[1]
  BY <1>1, <1>2
<1>4. Increasing(handled')
  <2>1. \A i \in DOMAIN handled :
          handled[i].from = Head(m_Buffer).from => handled[i].n < Head(m_Buffer).n
    BY <1>2 DEF OrderInv, InOrder
  <2> QED BY <2>1, <1>1, <1>2, IncreasingAppend DEF OrderInv, InOrder
<1>5. Increasing(m_Buffer')
  BY <1>1, IncreasingTail DEF OrderInv, InOrder
<1>6. \A i \in DOMAIN m_Buffer', j \in DOMAIN handled' :
        m_Buffer'[i].from = handled'[j].from => handled'[j].n < m_Buffer'[i].n
  <2> SUFFICES ASSUME NEW i \in DOMAIN m_Buffer', NEW j \in DOMAIN handled',
                      m_Buffer'[i].from = handled'[j].from
               PROVE  handled'[j].n < m_Buffer'[i].n
    OBVIOUS
  <2>1. i + 1 \in DOMAIN m_Buffer /\ 1 \in DOMAIN m_Buffer /\ 1 < i + 1
        /\ m_Buffer'[i] = m_Buffer[i + 1]
    BY <1>2
  <2>2. CASE j \in DOMAIN handled
    BY <2>1, <2>2, <1>3 DEF OrderInv, InOrder
  <2>3. CASE j = Len(handled) + 1
    BY <2>1, <2>3, <1>3 DEF OrderInv, InOrder, Increasing
  <2> QED BY <2>2, <2>3, <1>3
<1>7. Numbered(handled)' /\ Numbered(m_Buffer)'
  BY <1>1, <1>2, <1>3 DEF OrderInv, Numbered
<1> QED BY <1>4, <1>5, <1>6, <1>7 DEF OrderInv, InOrder, Increasing

LEMMA NextOrder == Inv /\ OrderInv /\ [Next]_vars => OrderInv'
<1> SUFFICES ASSUME Inv, OrderInv, [Next]_vars PROVE OrderInv'
  OBVIOUS
<1>1. ASSUME UNCHANGED <<m_Buffer, sent, handled>> PROVE OrderInv'
  BY <1>1 DEF OrderInv, InOrder, Increasing, Numbered
<1>2. ASSUME NEW s \in Senders, Enter(s) PROVE OrderInv'
  BY <1>1, <1>2 DEF Enter
<1>3. ASSUME TryEnter \/ Front \/ Leave \/ UNCHANGED vars PROVE OrderInv'
  BY <1>1, <1>3 DEF TryEnter, Front, Leave, vars
<1> QED BY <1>2, <1>3, PushOrder, PopOrder DEF Next

(* The messages of each sender are handled in the order it pushed them, and *)
(* none is handled twice, for any number of senders and any size.           *)
THEOREM HandledInOrder == Spec => []InOrder
<1>1. OrderInv => InOrder
  BY DEF OrderInv
<1> QED BY <1>1, InvHolds, InitOrder, NextOrder, PTL DEF Spec
=============================================================================
