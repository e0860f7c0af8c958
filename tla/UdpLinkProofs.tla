---------------------------- MODULE UdpLinkProofs ----------------------------
(***************************************************************************)
(* Proofs about UdpLink for messages of any number of parts, any sequence  *)
(* numbers and any number of restarts, losses and copies.                  *)
(***************************************************************************)
EXTENDS UdpLink, FiniteSetTheorems, TLAPS

(* Sending a message puts it after the others.                              *)
LEMMA AppendFacts ==
  ASSUME NEW S, NEW q \in Seq(S), NEW e \in S
  PROVE  /\ Append(q, e) \in Seq(S)
         /\ \A i \in DOMAIN Append(q, e) :
              \/ i \in DOMAIN q /\ Append(q, e)[i] = q[i]
              \/ i = Len(q) + 1 /\ Append(q, e)[i] = e
OBVIOUS

Message == [parts : 1..MaxSplits, seq : 0..MaxSequence]

Arrived == [seq : 0..MaxSequence, parts : Seq(Datagram \cup {Nothing})]

(* A message that was cut has a sequence number, the others have none.      *)
Headers == \A i \in DOMAIN sent : sent[i].parts > 1 <=> sent[i].seq > 0

(* No part is sent that the message does not have.                          *)
Sending ==
  \A i \in 1..MaxSent : next[i] <= IF i \in DOMAIN sent THEN sent[i].parts ELSE 0

(* An entry that waits for parts waits for those of a message that was sent.*)
Waiting ==
  current > 0 => splitCount >= 1 /\ \E i \in DOMAIN sent : sent[i].seq = current

Typed == TypeOK /\ Headers /\ Sending /\ Waiting

LEMMA DatagramFacts ==
  ASSUME UdpLinkAssumption
  PROVE  /\ \A d \in Datagram : /\ d[1] \in 1..MaxSent /\ d[2] \in Places
                                /\ d = <<d[1], d[2]>>
         /\ \A i \in 1..MaxSent, k \in Places : <<i, k>> \in Datagram
         /\ \A n \in 1..MaxSplits : \A k \in 1..n : k - 1 \in Places
         /\ \A k \in Places : k \in Nat /\ k < MaxSplits
BY DEF UdpLinkAssumption, Datagram, Places

LEMMA SentFacts ==
  ASSUME UdpLinkAssumption, Typed
  PROVE  /\ sent \in Seq(Message) /\ Len(sent) \in Nat /\ DOMAIN sent = 1..Len(sent)
         /\ sent # <<>> => Len(sent) \in DOMAIN sent
         /\ \A i \in DOMAIN sent : /\ i \in 1..MaxSent
                                  /\ sent[i].parts \in 1..MaxSplits
                                  /\ sent[i].seq \in 0..MaxSequence
<1>1. sent \in Seq(Message) /\ Len(sent) <= MaxSent /\ Len(sent) \in Nat
  BY DEF Typed, TypeOK, Message
<1>2. \A i \in DOMAIN sent : sent[i] \in Message /\ i \in 1..Len(sent)
  BY <1>1
<1>3. \A i \in DOMAIN sent : sent[i].parts \in 1..MaxSplits /\ sent[i].seq \in 0..MaxSequence
  BY <1>2 DEF Message
<1>4. sent # <<>> => Len(sent) \in DOMAIN sent
  BY <1>1
<1> QED BY <1>1, <1>2, <1>3, <1>4 DEF UdpLinkAssumption

LEMMA InitTyped ==
  ASSUME UdpLinkAssumption, Init
  PROVE  Typed
<1>1. sent \in Seq(Message) /\ Len(sent) = 0 /\ income \in Seq(Arrived)
  BY DEF Init
<1>2. /\ splitflags \in [Places -> -1..MaxSequence]
      /\ buffer \in [Places -> Datagram \cup {Nothing}]
      /\ times \in [Datagram -> Nat]
      /\ streak \in [msg : 0..MaxSent, parts : SUBSET Places]
  BY DEF Init, NoFlags, EmptyBuffer, NoStreak, UdpLinkAssumption
<1> QED
  BY <1>1, <1>2
     DEF Init, Typed, TypeOK, Headers, Sending, Waiting, UdpLinkAssumption, Message, Arrived

LEMMA NewNumberTyped ==
  ASSUME UdpLinkAssumption, Typed, NewNumber
  PROVE  Typed'
<1>1. sequence' \in 1..MaxSequence /\ numbering' \in Nat
  BY DEF NewNumber, NextSequence, Typed, TypeOK, UdpLinkAssumption
<1>2. UNCHANGED <<sent, next, crashes, network, copies, entryVars, income, historyVars>>
  BY DEF NewNumber
<1> QED
  BY <1>1, <1>2 DEF Typed, TypeOK, Headers, Sending, Waiting, entryVars, historyVars

LEMMA SendLongTyped ==
  ASSUME UdpLinkAssumption, Typed, NEW n \in 1..MaxSplits, NET_SendLong(n)
  PROVE  Typed'
<1> DEFINE m == [parts |-> n, seq |-> IF n > 1 THEN sequence ELSE NoSequence]
<1>1. sequence \in 1..MaxSequence /\ numbering' \in Nat
  BY DEF NET_SendLong, Typed, TypeOK
<1>2. m \in Message /\ m.parts = n /\ (m.parts > 1 <=> m.seq > 0)
  BY <1>1 DEF Message, NoSequence, UdpLinkAssumption
<1>3. sent' = Append(sent, m) /\ sent \in Seq(Message)
  BY DEF NET_SendLong, Typed, TypeOK, Message
<1> HIDE DEF m
<1>4. /\ sent' \in Seq(Message) /\ Len(sent') = Len(sent) + 1 /\ Len(sent) \in Nat
      /\ \A i \in DOMAIN sent : i \in DOMAIN sent' /\ sent'[i] = sent[i]
      /\ \A i \in DOMAIN sent' : i \in DOMAIN sent \/ (i = Len(sent') /\ sent'[i] = m)
      /\ sent'[Len(sent')] = m
  BY <1>2, <1>3
<1>5. /\ Len(sent') <= MaxSent
      /\ UNCHANGED <<next, sequence, crashes, network, copies, entryVars, income, historyVars>>
  BY <1>4 DEF NET_SendLong, Typed, TypeOK, UdpLinkAssumption
<1>6. Headers' /\ Waiting'
  BY <1>2, <1>4, <1>5 DEF Headers, Waiting, Typed, entryVars
<1>7. Sending'
  <2> SUFFICES ASSUME NEW i \in 1..MaxSent
               PROVE  next[i] <= IF i \in DOMAIN sent' THEN sent'[i].parts ELSE 0
    BY <1>5 DEF Sending
  <2>1. next[i] \in Nat
    BY DEF Typed, TypeOK
  <2>2. next[i] <= IF i \in DOMAIN sent THEN sent[i].parts ELSE 0
    BY DEF Typed, Sending
  <2>3. m.parts \in Nat
    BY <1>2
  <2> QED BY <1>4, <2>1, <2>2, <2>3
<1>8. \A d \in network : d[1] \in DOMAIN sent' /\ d[2] < sent'[d[1]].parts
  BY <1>4 DEF Typed, TypeOK
<1>9. 0..Len(sent) \subseteq 0..Len(sent')
  BY <1>4, <1>5 DEF UdpLinkAssumption
<1> QED
  BY <1>1, <1>4, <1>5, <1>6, <1>7, <1>8, <1>9
     DEF Typed, TypeOK, Message, entryVars, historyVars

LEMMA SendToTyped ==
  ASSUME UdpLinkAssumption, Typed, NEW i \in DOMAIN sent, NET_SendTo(i)
  PROVE  Typed'
<1>1. i \in 1..MaxSent /\ sent[i].parts \in 1..MaxSplits
  BY SentFacts
<1>2. next \in [1..MaxSent -> 0..MaxSplits] /\ next[i] \in Nat /\ next[i] < sent[i].parts
  <2>1. next \in [1..MaxSent -> 0..MaxSplits]
    BY DEF Typed, TypeOK
  <2>2. next[i] < sent[i].parts
    BY DEF NET_SendTo, Unsent
  <2> QED BY <1>1, <2>1, <2>2
<1>3. next[i] \in Places /\ next[i] + 1 \in 0..MaxSplits
  BY <1>1, <1>2 DEF Places, UdpLinkAssumption
<1>4. next' = [next EXCEPT ![i] = @ + 1] /\ next' \in [1..MaxSent -> 0..MaxSplits]
  BY <1>1, <1>2, <1>3 DEF NET_SendTo
<1>5. /\ network' = network \cup {<<i, next[i]>>} /\ <<i, next[i]>> \in Datagram
      /\ UNCHANGED <<sent, numbering, sequence, crashes, copies, entryVars, income, historyVars>>
  BY <1>1, <1>3, DatagramFacts DEF NET_SendTo
<1>6. Sending'
  <2> SUFFICES ASSUME NEW j \in 1..MaxSent
               PROVE  next'[j] <= IF j \in DOMAIN sent THEN sent[j].parts ELSE 0
    BY <1>5 DEF Sending
  <2>1. next[j] <= IF j \in DOMAIN sent THEN sent[j].parts ELSE 0
    BY DEF Typed, Sending
  <2>2. CASE j = i
    BY <1>1, <1>2, <1>4, <2>2
  <2>3. CASE j # i
    BY <1>2, <1>4, <2>1, <2>3
  <2> QED BY <2>2, <2>3
<1>7. \A d \in network' : d[1] \in DOMAIN sent /\ d[2] < sent[d[1]].parts
  <2>1. \A d \in network : d[1] \in DOMAIN sent /\ d[2] < sent[d[1]].parts
    BY DEF Typed, TypeOK
  <2> QED BY <1>2, <1>5, <2>1
<1>8. network' \subseteq Datagram
  BY <1>5 DEF Typed, TypeOK
<1> QED
  BY <1>4, <1>5, <1>6, <1>7, <1>8
     DEF Typed, TypeOK, Headers, Waiting, entryVars, historyVars

LEMMA SendToFailsTyped ==
  ASSUME UdpLinkAssumption, Typed, NEW i \in DOMAIN sent, SendToFails(i)
  PROVE  Typed'
<1>1. i \in 1..MaxSent /\ sent[i].parts \in 0..MaxSplits
  BY SentFacts DEF UdpLinkAssumption
<1>2. next' = [next EXCEPT ![i] = sent[i].parts] /\ next' \in [1..MaxSent -> 0..MaxSplits]
  BY <1>1 DEF SendToFails, Typed, TypeOK
<1>3. UNCHANGED <<sent, numbering, sequence, crashes, network, copies, entryVars, income,
                  historyVars>>
  BY DEF SendToFails
<1>4. Sending'
  <2> SUFFICES ASSUME NEW j \in 1..MaxSent
               PROVE  next'[j] <= IF j \in DOMAIN sent THEN sent[j].parts ELSE 0
    BY <1>3 DEF Sending
  <2>1. next[j] <= IF j \in DOMAIN sent THEN sent[j].parts ELSE 0
    BY DEF Typed, Sending
  <2>2. next'[j] = IF j = i THEN sent[i].parts ELSE next[j]
    BY <1>1, <1>2 DEF Typed, TypeOK
  <2> QED BY <1>1, <2>1, <2>2
<1> QED
  BY <1>2, <1>3, <1>4 DEF Typed, TypeOK, Headers, Waiting, entryVars, historyVars

LEMMA RestartTyped ==
  ASSUME UdpLinkAssumption, Typed, Restart
  PROVE  Typed'
<1>1. /\ next' = [i \in 1..MaxSent |-> IF i \in DOMAIN sent THEN sent[i].parts ELSE 0]
      /\ UNCHANGED <<sent, network, copies, entryVars, income, historyVars>>
  BY DEF Restart
<1>2. \A i \in 1..MaxSent : /\ i \in DOMAIN sent => sent[i].parts \in 0..MaxSplits
                            /\ 0 \in 0..MaxSplits
  BY SentFacts DEF UdpLinkAssumption
<1>3. next' \in [1..MaxSent -> 0..MaxSplits]
  BY <1>1, <1>2
<1>4. Sending'
  BY <1>1, <1>2 DEF Sending
<1>5. sequence' \in 1..MaxSequence /\ crashes' \in 0..MaxCrashes /\ numbering' \in Nat
  <2>1. /\ sequence \in 1..MaxSequence /\ crashes \in 0..MaxCrashes
        /\ 1 \in 1..MaxSequence /\ MaxCrashes \in Nat
    BY DEF Typed, TypeOK, UdpLinkAssumption
  <2> QED BY <2>1 DEF Restart
<1> QED
  BY <1>1, <1>3, <1>4, <1>5
     DEF Typed, TypeOK, Headers, Waiting, entryVars, historyVars

LEMMA RestartReceiverTyped ==
  ASSUME UdpLinkAssumption, Typed, RestartReceiver
  PROVE  Typed'
<1>1. /\ splitflags' \in [Places -> -1..MaxSequence]
      /\ buffer' \in [Places -> Datagram \cup {Nothing}]
      /\ streak' \in [msg : 0..MaxSent, parts : SUBSET Places]
  BY DEF RestartReceiver, NoFlags, EmptyBuffer, NoStreak, UdpLinkAssumption
<1>2. /\ crashes' \in 0..MaxCrashes /\ current' = 0 /\ current' \in -1..MaxSequence
      /\ splitCount' \in 0..MaxSplits /\ total' \in 0..Len(sent)
  BY DEF RestartReceiver, Typed, TypeOK, UdpLinkAssumption
<1> QED
  BY <1>1, <1>2
     DEF RestartReceiver, Typed, TypeOK, Headers, Sending, Waiting, senderVars

LEMMA LoseTyped ==
  ASSUME UdpLinkAssumption, Typed, NEW d \in network, Lose(d)
  PROVE  Typed'
<1>1. /\ network' \subseteq network
      /\ UNCHANGED <<senderVars, crashes, copies, entryVars, income, historyVars>>
  BY DEF Lose
<1> QED
  BY <1>1
     DEF Typed, TypeOK, Headers, Sending, Waiting, senderVars, entryVars, historyVars

(* What both ways of receiving d do to the network.                         *)
LEMMA TakeFacts ==
  ASSUME UdpLinkAssumption, Typed, NEW d \in network, Take(d)
  PROVE  /\ d \in Datagram /\ d[1] \in DOMAIN sent /\ d[2] \in Places
         /\ d[2] < sent[d[1]].parts /\ d = <<d[1], d[2]>> /\ d[1] \in 1..MaxSent
         /\ network' \subseteq network /\ copies' \in 0..MaxCopies
         /\ times' \in [Datagram -> Nat]
         /\ UNCHANGED <<senderVars, crashes>>
<1>1. d \in Datagram /\ d[1] \in DOMAIN sent /\ d[2] < sent[d[1]].parts
  BY DEF Typed, TypeOK
<1>2. copies' \in 0..MaxCopies /\ network' \subseteq network
  <2>1. copies \in 0..MaxCopies /\ MaxCopies \in Nat
    BY DEF Typed, TypeOK, UdpLinkAssumption
  <2> QED BY <2>1 DEF Take
<1>3. times' \in [Datagram -> Nat]
  <2>1. times \in [Datagram -> Nat]
    BY DEF Typed, TypeOK
  <2> QED BY <1>1, <2>1 DEF Take
<1>4. UNCHANGED <<senderVars, crashes>>
  BY DEF Take
<1> QED BY <1>1, <1>2, <1>3, <1>4, DatagramFacts

LEMMA QueuePacketTyped ==
  ASSUME UdpLinkAssumption, Typed, NEW d \in network, NET_QueuePacket(d)
  PROVE  Typed'
<1>1. /\ d \in Datagram
      /\ network' \subseteq network /\ copies' \in 0..MaxCopies
      /\ times' \in [Datagram -> Nat]
      /\ UNCHANGED <<senderVars, crashes, entryVars, streak>>
  BY TakeFacts DEF NET_QueuePacket
<1> DEFINE a == [seq |-> NoSequence, parts |-> <<d>>]
<1>2. a \in Arrived
  BY <1>1 DEF Arrived, NoSequence, UdpLinkAssumption
<1>3. income' = Append(income, a) /\ income \in Seq(Arrived)
  BY DEF NET_QueuePacket, Typed, TypeOK, Arrived
<1> HIDE DEF a
<1>4. income' \in Seq(Arrived)
  BY <1>2, <1>3, AppendFacts
<1> QED
  BY <1>1, <1>4
     DEF Typed, TypeOK, Headers, Sending, Waiting, senderVars, entryVars, Arrived

LEMMA ContentTyped ==
  ASSUME UdpLinkAssumption, Typed, NEW size \in 0..Len(sent),
         NEW buf \in [Places -> Datagram \cup {Nothing}]
  PROVE  Content(size, buf) \in Seq(Datagram \cup {Nothing})
<1>1. CASE size = 0
  BY <1>1 DEF Content
<1>2. CASE size # 0
  <2>1. size \in DOMAIN sent
    BY <1>2, SentFacts
  <2>2. sent[size].parts \in 1..MaxSplits
    BY <2>1, SentFacts
  <2>3. \A k \in 1..sent[size].parts : k - 1 \in Places
    BY <2>2 DEF Places, UdpLinkAssumption
  <2>4. Content(size, buf) \in [1..sent[size].parts -> Datagram \cup {Nothing}]
    BY <1>2, <2>3 DEF Content
  <2>5. sent[size].parts \in Nat
    BY <2>2 DEF UdpLinkAssumption
  <2> QED BY <2>4, <2>5
<1> QED BY <1>1, <1>2

LEMMA GetLongTyped ==
  ASSUME UdpLinkAssumption, Typed, NEW d \in network, NET_GetLong(d)
  PROVE  Typed'
<1>1. /\ d \in Datagram /\ d[1] \in DOMAIN sent /\ d[2] \in Places /\ d[1] \in 1..MaxSent
      /\ network' \subseteq network /\ copies' \in 0..MaxCopies
      /\ times' \in [Datagram -> Nat]
      /\ UNCHANGED <<senderVars, crashes>>
  BY TakeFacts DEF NET_GetLong, Assemble
<1>2. /\ sent[d[1]].parts \in 1..MaxSplits /\ sent[d[1]].parts > 1
      /\ Number(d) \in 1..MaxSequence
  BY <1>1, SentFacts DEF NET_GetLong, Assemble, Number, Typed, Headers, UdpLinkAssumption
<1>3. Missing(d) \in 1..MaxSplits
  BY <1>2 DEF Missing, Typed, TypeOK, Waiting, UdpLinkAssumption
<1>4. splitCount' = IF Fresh(d) THEN Missing(d) - 1 ELSE Missing(d)
  BY DEF NET_GetLong, Assemble
<1>5. splitCount' \in 0..MaxSplits
  BY <1>3, <1>4 DEF UdpLinkAssumption
<1>6. total' \in 0..Len(sent)
  <2>1. total' = total \/ total' = d[1]
    BY DEF NET_GetLong, Assemble
  <2>2. total \in 0..Len(sent)
    BY DEF Typed, TypeOK
  <2>3. d[1] \in 0..Len(sent)
    BY <1>1, SentFacts
  <2> QED BY <2>1, <2>2, <2>3
<1>7. splitflags' = [splitflags EXCEPT ![d[2]] = Number(d)] /\ buffer' = [buffer EXCEPT ![d[2]] = d]
  BY DEF NET_GetLong, Assemble
<1>8. splitflags' \in [Places -> -1..MaxSequence]
  <2>1. splitflags \in [Places -> -1..MaxSequence]
    BY DEF Typed, TypeOK
  <2>2. Number(d) \in -1..MaxSequence
    BY <1>2 DEF UdpLinkAssumption
  <2> QED BY <1>7, <2>1, <2>2
<1>9. buffer' \in [Places -> Datagram \cup {Nothing}]
  BY <1>1, <1>7 DEF Typed, TypeOK
<1>10. current' = IF splitCount' <= 0 THEN -1 ELSE Number(d)
  BY DEF NET_GetLong, Assemble
<1>11. current' \in -1..MaxSequence
  BY <1>2, <1>10 DEF UdpLinkAssumption
<1>12. Waiting'
  BY <1>1, <1>5, <1>10 DEF Waiting, Number, senderVars
<1>13. income' \in Seq(Arrived)
  <2> DEFINE a == [seq |-> Number(d), parts |-> Content(total', buffer')]
  <2>1. Content(total', buffer') \in Seq(Datagram \cup {Nothing})
    BY <1>6, <1>9, ContentTyped
  <2>2. a \in Arrived
    BY <1>2, <2>1 DEF Arrived, UdpLinkAssumption
  <2>3. income \in Seq(Arrived) /\ (income' = income \/ income' = Append(income, a))
    BY DEF NET_GetLong, Assemble, Typed, TypeOK, Arrived
  <2> HIDE DEF a
  <2> QED BY <2>2, <2>3, AppendFacts
<1>14. streak' \in [msg : 0..MaxSent, parts : SUBSET Places]
  <2>1. streak' = Streak(d) /\ streak.parts \subseteq Places
    BY DEF NET_GetLong, Assemble, Typed, TypeOK
  <2> QED BY <1>1, <2>1 DEF Streak, UdpLinkAssumption
<1> QED
  BY <1>1, <1>5, <1>6, <1>8, <1>9, <1>11, <1>12, <1>13, <1>14
     DEF Typed, TypeOK, Headers, Sending, senderVars, Arrived

LEMMA NextTyped == UdpLinkAssumption /\ Typed /\ [Next]_vars => Typed'
<1> SUFFICES ASSUME UdpLinkAssumption, Typed, [Next]_vars PROVE Typed'
  OBVIOUS
<1>1. CASE UNCHANGED vars
  BY <1>1 DEF Typed, TypeOK, Headers, Sending, Waiting, vars, senderVars, entryVars, historyVars
<1>2. CASE Next
  BY <1>2, NewNumberTyped, SendLongTyped, SendToTyped, SendToFailsTyped, RestartTyped, RestartReceiverTyped, LoseTyped,
     QueuePacketTyped, GetLongTyped
     DEF Next, Send, Receive
<1> QED BY <1>1, <1>2

(* Counters, headers and the entry of the sender keep their types, for any  *)
(* number of parts and sequence numbers: splitCount never goes below 0.     *)
THEOREM Typing == Spec => []TypeOK
<1>1. Typed => TypeOK
  BY DEF Typed
<1> QED BY <1>1, UdpLinkAssumption, InitTyped, NextTyped, PTL DEF Spec
-----------------------------------------------------------------------------
(* Part k of the message i is in its place, and when it is the last one the *)
(* size is that of the message too.                                         *)
Placed(i, k) ==
  /\ splitflags[k] = sent[i].seq /\ buffer[k] = <<i, k>>
  /\ k = sent[i].parts - 1 => total = i

Indices(i) == 0..(sent[i].parts - 1)

Gathered(i) == {k \in Indices(i) : Placed(i, k)}

(* The entry never counts a part as received that is not in its place.      *)
CountsGathered ==
  \A i \in DOMAIN sent :
    current > 0 /\ current = sent[i].seq /\ ~ Reused(current)
      => splitCount + Cardinality(Gathered(i)) >= sent[i].parts

(* m is a message that was sent, or its number was used twice.              *)
Whole(m) == (\E i \in DOMAIN sent : m.parts = Parts(i)) \/ Reused(m.seq)

Inv == Typed /\ OnlyWholeMessages /\ CountsGathered

LEMMA GatheredFinite ==
  ASSUME UdpLinkAssumption, Typed, NEW i \in DOMAIN sent
  PROVE  /\ IsFiniteSet(Gathered(i)) /\ Cardinality(Gathered(i)) \in Nat
         /\ IsFiniteSet(Indices(i)) /\ Cardinality(Indices(i)) = sent[i].parts
         /\ Gathered(i) \subseteq Indices(i)
<1>1. sent[i].parts \in Nat /\ sent[i].parts >= 1
  BY SentFacts DEF UdpLinkAssumption
<1>2. IsFiniteSet(Indices(i)) /\ Cardinality(Indices(i)) = sent[i].parts
  <2>1. 0 \in Int /\ sent[i].parts - 1 \in Int
    BY <1>1
  <2>2. /\ IsFiniteSet(0..(sent[i].parts - 1))
        /\ Cardinality(0..(sent[i].parts - 1))
             = IF 0 > sent[i].parts - 1 THEN 0 ELSE (sent[i].parts - 1) - 0 + 1
    BY <2>1, FS_Interval
  <2> QED BY <1>1, <2>2 DEF Indices
<1>3. Gathered(i) \subseteq Indices(i)
  BY DEF Gathered
<1>4. IsFiniteSet(Gathered(i)) /\ Cardinality(Gathered(i)) \in Nat
  BY <1>2, <1>3, FS_Subset, FS_CardinalityType
<1> QED BY <1>2, <1>3, <1>4

(* What the sender does but to begin a message, and what the network loses. *)
SenderStep ==
  \/ NewNumber \/ Restart
  \/ \E i \in DOMAIN sent : NET_SendTo(i) \/ SendToFails(i)
  \/ \E d \in network : Lose(d)

LEMMA SenderFrame ==
  ASSUME SenderStep
  PROVE  UNCHANGED <<sent, entryVars, income, historyVars>>
BY DEF SenderStep, NewNumber, Restart, NET_SendTo, SendToFails, Lose, senderVars

(* A number that was used twice stays one, and messages stay as they are.   *)
LEMMA SendLongKeeps ==
  ASSUME UdpLinkAssumption, Typed, NEW n \in 1..MaxSplits, NET_SendLong(n)
  PROVE  /\ \A i \in DOMAIN sent : i \in DOMAIN sent' /\ sent'[i] = sent[i]
         /\ \A i \in DOMAIN sent' \ DOMAIN sent :
              i = Len(sent) + 1 /\ sent'[i].seq \in Nat
         /\ Len(sent) + 1 \notin DOMAIN sent /\ DOMAIN sent' = DOMAIN sent \cup {Len(sent) + 1}
         /\ sent'[Len(sent) + 1].parts = n
<1> DEFINE m == [parts |-> n, seq |-> IF n > 1 THEN sequence ELSE NoSequence]
<1>1. sequence \in 1..MaxSequence
  BY DEF Typed, TypeOK
<1>2. m \in Message /\ m.seq \in Nat /\ m.parts = n
  BY <1>1 DEF Message, NoSequence, UdpLinkAssumption
<1>3. sent' = Append(sent, m) /\ sent \in Seq(Message)
  BY SentFacts DEF NET_SendLong
<1> HIDE DEF m
<1> QED BY <1>2, <1>3

LEMMA SendLongWhole ==
  ASSUME UdpLinkAssumption, Inv, NEW n \in 1..MaxSplits, NET_SendLong(n)
  PROVE  OnlyWholeMessages' /\ CountsGathered'
<1>1. /\ \A i \in DOMAIN sent : i \in DOMAIN sent' /\ sent'[i] = sent[i]
      /\ DOMAIN sent' = DOMAIN sent \cup {Len(sent) + 1}
      /\ Len(sent) + 1 \notin DOMAIN sent
  BY SendLongKeeps DEF Inv
<1>2. UNCHANGED <<current, splitCount, total, splitflags, buffer, income>>
  BY DEF NET_SendLong, entryVars
<1>3. ASSUME NEW s, Reused(s) PROVE Reused(s)'
  BY <1>1, <1>3 DEF Reused
<1>4. \A i \in DOMAIN sent : Parts(i)' = Parts(i)
  BY <1>1 DEF Parts
<1>5. OnlyWholeMessages'
  BY <1>1, <1>2, <1>3, <1>4 DEF Inv, OnlyWholeMessages
<1>6. ASSUME NEW i \in DOMAIN sent', current' > 0, current' = sent'[i].seq, ~ Reused(current)'
      PROVE  (splitCount + Cardinality(Gathered(i)) >= sent[i].parts)'
  <2>1. PICK j \in DOMAIN sent : sent[j].seq = current
    BY <1>2, <1>6 DEF Inv, Typed, Waiting
  <2>2. i \in DOMAIN sent
    BY <1>1, <1>2, <1>6, <2>1 DEF Reused, NoSequence
  <2>3. sent'[i] = sent[i] /\ Gathered(i)' = Gathered(i)
    BY <1>1, <1>2, <2>2 DEF Gathered, Indices, Placed
  <2>4. ~ Reused(current)
    BY <1>2, <1>3, <1>6
  <2> QED BY <1>2, <1>6, <2>2, <2>3, <2>4 DEF Inv, CountsGathered
<1> QED BY <1>5, <1>6 DEF CountsGathered

LEMMA NoSendWhole ==
  ASSUME Inv, UNCHANGED <<sent, entryVars, income>>
  PROVE  OnlyWholeMessages' /\ CountsGathered'
<1>1. OnlyWholeMessages'
  BY DEF Inv, OnlyWholeMessages, Parts, Reused
<1>2. \A i : Gathered(i)' = Gathered(i)
  BY DEF Gathered, Indices, Placed, entryVars
<1>3. CountsGathered'
  BY <1>2 DEF Inv, CountsGathered, Reused, entryVars
<1> QED BY <1>1, <1>3

LEMMA RestartReceiverWhole ==
  ASSUME Inv, RestartReceiver
  PROVE  OnlyWholeMessages' /\ CountsGathered'
BY DEF Inv, RestartReceiver, OnlyWholeMessages, CountsGathered, Parts, Reused, senderVars

LEMMA QueuePacketWhole ==
  ASSUME UdpLinkAssumption, Inv, NEW d \in network, NET_QueuePacket(d)
  PROVE  /\ OnlyWholeMessages' /\ CountsGathered'
         /\ <<d>> = Parts(d[1]) /\ d[1] \in DOMAIN sent
<1>1. /\ d[1] \in DOMAIN sent /\ d[2] \in Places /\ d[2] < sent[d[1]].parts
      /\ sent[d[1]].parts = 1 /\ d = <<d[1], d[2]>>
      /\ UNCHANGED <<senderVars, crashes, entryVars>>
  BY TakeFacts DEF NET_QueuePacket, Inv
<1>2. d[2] = 0
  BY <1>1 DEF Places
<1>3. <<d>> = [k \in 1..1 |-> <<d[1], k - 1>>]
  BY <1>1, <1>2
<1>4. <<d>> = Parts(d[1])
  BY <1>1, <1>3 DEF Parts
<1> DEFINE a == [seq |-> NoSequence, parts |-> <<d>>]
<1>5. income' = Append(income, a) /\ income \in Seq(Arrived) /\ a.parts = <<d>>
  BY DEF NET_QueuePacket, Inv, Typed, TypeOK, Arrived
<1> HIDE DEF a
<1>6. /\ \A j \in DOMAIN income' : (j \in DOMAIN income /\ income'[j] = income[j]) \/ income'[j] = a
  BY <1>5
<1>7. OnlyWholeMessages'
  <2>1. sent' = sent /\ \A i : Parts(i)' = Parts(i)
    BY <1>1 DEF Parts, senderVars
  <2>2. ASSUME NEW m, Whole(m) PROVE Whole(m)'
    BY <2>1, <2>2 DEF Whole, Reused
  <2>3. Whole(a)
    BY <1>1, <1>4, <1>5 DEF Whole
  <2>4. ASSUME NEW j \in DOMAIN income' PROVE Whole(income'[j])
    BY <1>6, <2>3 DEF Inv, OnlyWholeMessages, Whole
  <2> QED BY <2>1, <2>2, <2>4 DEF OnlyWholeMessages, Whole, Reused
<1>8. CountsGathered'
  BY <1>1 DEF Inv, CountsGathered, Reused, Gathered, Indices, Placed, senderVars, entryVars
<1> QED BY <1>1, <1>4, <1>7, <1>8

(* A part of a message whose number was used once is put in its place, and  *)
(* those that were in their places stay there.                              *)
LEMMA GetLongGathers ==
  ASSUME UdpLinkAssumption, Inv, NEW d \in network, NET_GetLong(d), ~ Reused(Number(d))
  PROVE  splitCount' + Cardinality(Gathered(d[1]))' >= sent[d[1]].parts
<1> DEFINE i == d[1]
           k == d[2]
           n == sent[d[1]].parts
           before == Gathered(d[1])
           after == Gathered(d[1])'
<1>1. /\ d \in Datagram /\ i \in DOMAIN sent /\ k \in Places /\ k < n /\ d = <<i, k>>
      /\ sent' = sent
  BY TakeFacts DEF NET_GetLong, Assemble, Inv, senderVars
<1>2. n \in Nat /\ n > 1 /\ Number(d) \in Nat /\ Number(d) > 0 /\ Number(d) = sent[i].seq
  BY <1>1, SentFacts DEF NET_GetLong, Assemble, Number, Inv, Typed, Headers, UdpLinkAssumption
<1>3. /\ splitCount' = (IF Fresh(d) THEN Missing(d) - 1 ELSE Missing(d))
      /\ total' = (IF Fresh(d) /\ k = n - 1 THEN i ELSE total)
      /\ splitflags' = [splitflags EXCEPT ![k] = Number(d)]
      /\ buffer' = [buffer EXCEPT ![k] = d]
  BY DEF NET_GetLong, Assemble
<1>4. /\ splitflags'[k] = Number(d) /\ buffer'[k] = d
      /\ \A j \in Places : j # k => splitflags'[j] = splitflags[j] /\ buffer'[j] = buffer[j]
  BY <1>1, <1>3 DEF Inv, Typed, TypeOK
<1>5. Indices(i) \subseteq Places /\ k \in Indices(i) /\ Indices(i)' = Indices(i)
  BY <1>1, <1>2, SentFacts DEF Indices, Places, Inv, UdpLinkAssumption
<1>6. before \subseteq after
  <2> SUFFICES ASSUME NEW j \in before PROVE j \in after
    OBVIOUS
  <2>1. j \in Indices(i) /\ Placed(i, j)
    BY DEF Gathered
  <2>2. splitflags'[j] = sent[i].seq /\ buffer'[j] = <<i, j>>
    BY <1>1, <1>2, <1>4, <1>5, <2>1 DEF Placed
  <2>3. j = n - 1 => total' = i
    BY <1>3, <2>1 DEF Placed
  <2>4. Placed(i, j)'
    BY <1>1, <2>2, <2>3 DEF Placed
  <2> QED BY <1>5, <2>1, <2>4 DEF Gathered
<1>7. Fresh(d) => k \notin before /\ k \in after
  <2> SUFFICES ASSUME Fresh(d) PROVE k \notin before /\ k \in after
    OBVIOUS
  <2>1. k \notin before
    BY <1>2 DEF Gathered, Placed, Fresh
  <2>2. k = n - 1 => total' = i
    BY <1>3
  <2>3. Placed(i, k)'
    BY <1>1, <1>2, <1>4, <2>2 DEF Placed
  <2> QED BY <1>5, <2>1, <2>3 DEF Gathered
<1>8. IsFiniteSet(Indices(i)) /\ IsFiniteSet(before) /\ Cardinality(before) \in Nat
  BY <1>1, GatheredFinite DEF Inv
<1>9. after \subseteq Indices(i)
  BY <1>5 DEF Gathered
<1> HIDE DEF before, after
<1>10. IsFiniteSet(after) /\ Cardinality(after) \in Nat
  BY <1>8, <1>9, FS_Subset, FS_CardinalityType
<1>11. Cardinality(before) <= Cardinality(after)
  BY <1>6, <1>10, FS_Subset
<1>12. Fresh(d) => Cardinality(before) + 1 <= Cardinality(after)
  <2> SUFFICES ASSUME Fresh(d) PROVE Cardinality(before) + 1 <= Cardinality(after)
    OBVIOUS
  <2>1. before \cup {k} \subseteq after
    BY <1>6, <1>7
  <2>2. Cardinality(before \cup {k}) = Cardinality(before) + 1
    BY <1>7, <1>8, FS_AddElement
  <2>3. Cardinality(before \cup {k}) <= Cardinality(after)
    BY <1>10, <2>1, FS_Subset
  <2> QED BY <2>2, <2>3
<1>13. Missing(d) \in Nat /\ Missing(d) + Cardinality(before) >= n
  <2>1. CASE current # Number(d)
    BY <1>2, <1>8, <2>1 DEF Missing
  <2>2. CASE current = Number(d)
    <3>1. Missing(d) = splitCount /\ splitCount \in Nat
      BY <2>2 DEF Missing, Inv, Typed, TypeOK
    <3>2. splitCount + Cardinality(before) >= n
      BY <1>1, <1>2, <2>2 DEF Inv, CountsGathered, before
    <3> QED BY <3>1, <3>2
  <2> QED BY <2>1, <2>2
<1>14. splitCount' + Cardinality(after) >= n
  BY <1>2, <1>3, <1>8, <1>10, <1>11, <1>12, <1>13
<1> QED BY <1>14 DEF after

(* When none is missing, the buffer holds that message.                     *)
LEMMA CompleteIsWhole ==
  ASSUME UdpLinkAssumption, Inv, NEW d \in network, NET_GetLong(d), ~ Reused(Number(d)),
         splitCount' <= 0
  PROVE  Content(total', buffer') = Parts(d[1])
<1> DEFINE i == d[1]
           n == sent[d[1]].parts
           after == Gathered(d[1])'
<1>1. /\ i \in DOMAIN sent /\ sent' = sent
  BY TakeFacts DEF NET_GetLong, Assemble, Inv, senderVars
<1>2. n \in 1..MaxSplits /\ n \in Nat /\ n >= 1 /\ i \in Nat /\ i # 0
  BY <1>1, SentFacts DEF Inv, UdpLinkAssumption
<1>3. IsFiniteSet(Indices(i)) /\ Cardinality(Indices(i)) = n
  BY <1>1, GatheredFinite DEF Inv
<1>4. after \subseteq Indices(i)
  BY <1>1 DEF Gathered, Indices
<1>5. splitCount' + Cardinality(after) >= n
  BY GetLongGathers
<1>6. Cardinality(after) \in Nat /\ Cardinality(after) <= n /\ splitCount' \in Nat
  <2>1. splitCount' \in 0..MaxSplits
    BY GetLongTyped DEF Inv, Typed, TypeOK
  <2> HIDE DEF after
  <2>2. IsFiniteSet(after) /\ Cardinality(after) <= n /\ Cardinality(after) \in Nat
    BY <1>3, <1>4, FS_Subset, FS_CardinalityType
  <2> QED BY <2>1, <2>2 DEF UdpLinkAssumption
<1>7. after = Indices(i)
  <2> HIDE DEF after
  <2>1. Cardinality(after) = Cardinality(Indices(i))
    BY <1>2, <1>3, <1>5, <1>6
  <2> QED BY <1>3, <1>4, <2>1, FS_Subset
<1>8. \A k \in 0..(n - 1) : buffer'[k] = <<i, k>> /\ (k = n - 1 => total' = i)
  BY <1>1, <1>7 DEF Gathered, Placed, Indices
<1>9. total' = i
  <2>1. n - 1 \in 0..(n - 1)
    BY <1>2
  <2> HIDE DEF n, i
  <2> QED BY <1>8, <2>1
<1>10. \A k \in 1..n : buffer'[k - 1] = <<i, k - 1>>
  BY <1>2, <1>8
<1>11. Content(total', buffer') = [k \in 1..n |-> buffer'[k - 1]]
  BY <1>2, <1>9 DEF Content
<1> QED BY <1>10, <1>11 DEF Parts

LEMMA GetLongWhole ==
  ASSUME UdpLinkAssumption, Inv, NEW d \in network, NET_GetLong(d)
  PROVE  OnlyWholeMessages' /\ CountsGathered'
<1>1. /\ d[1] \in DOMAIN sent /\ sent' = sent
      /\ current' = (IF splitCount' <= 0 THEN -1 ELSE Number(d))
  BY TakeFacts DEF NET_GetLong, Assemble, Inv, senderVars
<1> DEFINE a == [seq |-> Number(d), parts |-> Content(total', buffer')]
<1>2. income' = (IF splitCount' <= 0 THEN Append(income, a) ELSE income)
  BY DEF NET_GetLong, Assemble
<1>3. splitCount' <= 0 => a.parts = Parts(d[1]) \/ Reused(a.seq)
  BY CompleteIsWhole
<1> HIDE DEF a
<1>4. \A j \in DOMAIN income' :
        \/ j \in DOMAIN income /\ income'[j] = income[j]
        \/ splitCount' <= 0 /\ income'[j] = a
  <2>1. income \in Seq(Arrived)
    BY DEF Inv, Typed, TypeOK, Arrived
  <2>2. CASE splitCount' <= 0
    <3>1. income' = Append(income, a)
      BY <1>2, <2>2
    <3> QED BY <2>1, <2>2, <3>1
  <2>3. CASE ~ (splitCount' <= 0)
    BY <1>2, <2>3
  <2> QED BY <2>2, <2>3
<1>5. ASSUME NEW j \in DOMAIN income' PROVE Whole(income'[j])
  BY <1>1, <1>3, <1>4 DEF Inv, OnlyWholeMessages, Whole
<1>6. OnlyWholeMessages'
  BY <1>1, <1>5 DEF OnlyWholeMessages, Whole, Reused, Parts
<1>7. CountsGathered'
  <2> SUFFICES ASSUME NEW i \in DOMAIN sent, current' > 0, current' = sent[i].seq, ~ Reused(current)'
               PROVE  splitCount' + Cardinality(Gathered(i))' >= sent[i].parts
    BY <1>1 DEF CountsGathered
  <2>1. current' = Number(d)
    BY <1>1
  <2>2. ~ Reused(Number(d))
    BY <1>1, <2>1 DEF Reused
  <2>3. Number(d) # NoSequence
    BY <2>1 DEF NoSequence
  <2>4. sent[i].seq = Number(d) /\ sent[d[1]].seq = Number(d)
    BY <2>1 DEF Number
  <2>5. i = d[1]
    BY <1>1, <2>2, <2>3, <2>4 DEF Reused
  <2> QED BY <2>2, <2>5, GetLongGathers
<1> QED BY <1>6, <1>7

LEMMA NextWhole == UdpLinkAssumption /\ Inv /\ [Next]_vars => Inv'
<1> SUFFICES ASSUME UdpLinkAssumption, Inv, [Next]_vars PROVE Inv'
  OBVIOUS
<1>1. Typed'
  BY NextTyped DEF Inv
<1>2. CASE UNCHANGED <<sent, entryVars, income>>
  BY <1>1, <1>2, NoSendWhole DEF Inv
<1>3. CASE SenderStep
  BY <1>2, <1>3, SenderFrame
<1>4. ASSUME NEW n \in 1..MaxSplits, NET_SendLong(n) PROVE Inv'
  BY <1>1, <1>4, SendLongWhole DEF Inv
<1>5. CASE RestartReceiver
  BY <1>1, <1>5, RestartReceiverWhole DEF Inv
<1>6. ASSUME NEW d \in network, NET_QueuePacket(d) PROVE Inv'
  BY <1>1, <1>6, QueuePacketWhole DEF Inv
<1>7. ASSUME NEW d \in network, NET_GetLong(d) PROVE Inv'
  BY <1>1, <1>7, GetLongWhole DEF Inv
<1>8. CASE Next
  BY <1>3, <1>4, <1>5, <1>6, <1>7, <1>8 DEF Next, Send, Receive, SenderStep
<1>9. CASE UNCHANGED vars
  BY <1>2, <1>9 DEF vars, senderVars
<1> QED BY <1>8, <1>9

(* Whatever is lost, copied, reordered or restarted, the link puts together *)
(* only parts of one message, for any number of messages and parts, as long *)
(* as their numbers are used once.                                          *)
THEOREM Assembles == Spec => []OnlyWholeMessages
<1>1. Init => Inv
  BY UdpLinkAssumption, InitTyped DEF Init, Inv, OnlyWholeMessages, CountsGathered
<1>2. Inv => OnlyWholeMessages
  BY DEF Inv
<1> QED BY <1>1, <1>2, UdpLinkAssumption, NextWhole, PTL DEF Spec
-----------------------------------------------------------------------------
(* The parts received in a row belong to a message that was cut, and were   *)
(* received.                                                                *)
StreakIsReceived ==
  LET i == streak.msg IN
  i # 0 => /\ i \in DOMAIN sent /\ sent[i].parts > 1
           /\ streak.parts \subseteq Indices(i)
           /\ \A k \in streak.parts : times[<<i, k>>] >= 1

(* The entry works on the message whose part was received last.             *)
EntryIsStreak == current > 0 => streak.msg # 0 /\ sent[streak.msg].seq = current

(* A number in splitflags is that of a message whose part was received.     *)
FlagsAreReceived ==
  \A k \in Places :
    splitflags[k] > 0 =>
      \E i \in DOMAIN sent : sent[i].seq = splitflags[k] /\ times[<<i, k>>] >= 1

(* As long as the message is not delivered, each part of the row was        *)
(* counted.                                                                 *)
StreakIsCounted ==
  LET i == streak.msg IN
  i # 0 /\ Deliveries(i) = {} /\ ~ Reused(sent[i].seq) =>
    current = sent[i].seq /\ splitCount + Cardinality(streak.parts) <= sent[i].parts

Rows == StreakIsReceived /\ EntryIsStreak /\ FlagsAreReceived /\ StreakIsCounted

LEMMA RowsDeliver ==
  ASSUME UdpLinkAssumption, Inv, Rows
  PROVE  RowIsDelivered
<1> DEFINE i == streak.msg
<1> SUFFICES ASSUME i # 0, streak.parts = 0..(sent[i].parts - 1), Deliveries(i) = {},
                    ~ Reused(sent[i].seq)
             PROVE  FALSE
  BY DEF RowIsDelivered
<1>1. i \in DOMAIN sent /\ sent[i].parts > 1
  BY DEF Rows, StreakIsReceived
<1>2. current = sent[i].seq /\ splitCount + Cardinality(streak.parts) <= sent[i].parts
  BY DEF Rows, StreakIsCounted
<1>3. Cardinality(streak.parts) = sent[i].parts /\ sent[i].parts \in Nat
  <2>1. streak.parts = Indices(i)
    BY DEF Indices
  <2> QED BY <1>1, <2>1, GatheredFinite, SentFacts DEF Inv, UdpLinkAssumption
<1>4. sent[i].seq > 0
  BY <1>1 DEF Inv, Typed, Headers
<1>5. splitCount >= 1 /\ splitCount \in Nat
  BY <1>2, <1>4 DEF Inv, Typed, TypeOK, Waiting
<1> QED BY <1>2, <1>3, <1>5

LEMMA SendLongRows ==
  ASSUME UdpLinkAssumption, Inv, Rows, NEW n \in 1..MaxSplits, NET_SendLong(n)
  PROVE  Rows'
<1>1. /\ \A i \in DOMAIN sent : i \in DOMAIN sent' /\ sent'[i] = sent[i]
      /\ DOMAIN sent' = DOMAIN sent \cup {Len(sent) + 1}
  BY SendLongKeeps DEF Inv
<1>2. UNCHANGED <<current, splitCount, splitflags, income, times, streak>>
  BY DEF NET_SendLong, entryVars, historyVars
<1>3. StreakIsReceived'
  BY <1>1, <1>2 DEF Rows, StreakIsReceived, Indices
<1>4. EntryIsStreak'
  BY <1>1, <1>2 DEF Rows, EntryIsStreak, StreakIsReceived
<1>5. FlagsAreReceived'
  BY <1>1, <1>2 DEF Rows, FlagsAreReceived
<1>6. StreakIsCounted'
  <2>1. PICK i : i = streak.msg
    OBVIOUS
  <2> SUFFICES ASSUME i # 0, Deliveries(i)' = {}, ~ Reused(sent[i].seq)'
               PROVE  /\ current = sent'[i].seq
                      /\ splitCount + Cardinality(streak.parts) <= sent'[i].parts
    BY <1>2, <2>1 DEF StreakIsCounted, Deliveries, Parts, Reused
  <2>2. i \in DOMAIN sent
    BY <2>1 DEF Rows, StreakIsReceived
  <2>3. sent'[i] = sent[i]
    BY <1>1, <2>2
  <2>4. Deliveries(i) = {}
    BY <1>2, <2>3 DEF Deliveries, Parts
  <2>5. ~ Reused(sent[i].seq)
    BY <1>1, <2>3 DEF Reused
  <2> QED BY <2>1, <2>3, <2>4, <2>5 DEF Rows, StreakIsCounted
<1> QED BY <1>3, <1>4, <1>5, <1>6 DEF Rows

LEMMA RestartReceiverRows ==
  ASSUME UdpLinkAssumption, Inv, Rows, RestartReceiver
  PROVE  Rows'
<1>1. current' = 0 /\ splitflags' = NoFlags /\ streak'.msg = 0
  BY DEF RestartReceiver, NoStreak
<1>2. StreakIsReceived' /\ EntryIsStreak' /\ StreakIsCounted'
  BY <1>1 DEF StreakIsReceived, EntryIsStreak, StreakIsCounted
<1>3. FlagsAreReceived'
  BY <1>1 DEF FlagsAreReceived, NoFlags
<1> QED BY <1>2, <1>3 DEF Rows

(* What was received stays received.                                        *)
LEMMA TimesGrow ==
  ASSUME UdpLinkAssumption, Typed, NEW d \in network, Take(d)
  PROVE  /\ times[d] \in Nat /\ times'[d] >= 1
         /\ \A i \in DOMAIN sent, k \in Places : times[<<i, k>>] >= 1 => times'[<<i, k>>] >= 1
<1>1. d \in Datagram /\ times \in [Datagram -> Nat] /\ times' = [times EXCEPT ![d] = @ + 1]
  BY TakeFacts DEF Take, Typed, TypeOK
<1>2. times[d] \in Nat /\ times'[d] = times[d] + 1
  BY <1>1
<1>3. ASSUME NEW i \in DOMAIN sent, NEW k \in Places, times[<<i, k>>] >= 1
      PROVE  times'[<<i, k>>] >= 1
  <2>1. <<i, k>> \in Datagram
    BY SentFacts, DatagramFacts
  <2>2. CASE <<i, k>> = d
    BY <1>2, <2>2
  <2>3. CASE <<i, k>> # d
    <3>1. times'[<<i, k>>] = times[<<i, k>>]
      BY <1>1, <2>1, <2>3
    <3> QED BY <1>3, <3>1
  <2> QED BY <2>2, <2>3
<1> QED BY <1>2, <1>3

LEMMA QueuePacketRows ==
  ASSUME UdpLinkAssumption, Inv, Rows, NEW d \in network, NET_QueuePacket(d)
  PROVE  Rows'
<1> DEFINE a == [seq |-> NoSequence, parts |-> <<d>>]
<1>1. UNCHANGED <<sent, current, splitCount, splitflags, streak>>
  BY TakeFacts DEF NET_QueuePacket, Inv, senderVars, entryVars
<1>2. income' = Append(income, a) /\ income \in Seq(Arrived)
  BY DEF NET_QueuePacket, Inv, Typed, TypeOK, Arrived
<1> HIDE DEF a
<1>3. \A i : Deliveries(i) \subseteq Deliveries(i)'
  BY <1>1, <1>2 DEF Deliveries, Parts
<1>4. \A i \in DOMAIN sent, k \in Places : times[<<i, k>>] >= 1 => times'[<<i, k>>] >= 1
  BY TimesGrow DEF NET_QueuePacket, Inv
<1>5. streak.parts \subseteq Places
  BY DEF Inv, Typed, TypeOK
<1>6. StreakIsReceived'
  BY <1>1, <1>4, <1>5 DEF Rows, StreakIsReceived, Indices
<1>7. EntryIsStreak'
  BY <1>1 DEF Rows, EntryIsStreak
<1>8. FlagsAreReceived'
  BY <1>1, <1>4 DEF Rows, FlagsAreReceived
<1>9. StreakIsCounted'
  <2>1. PICK i : i = streak.msg
    OBVIOUS
  <2> SUFFICES ASSUME i # 0, Deliveries(i)' = {}, ~ Reused(sent[i].seq)
               PROVE  /\ current = sent[i].seq
                      /\ splitCount + Cardinality(streak.parts) <= sent[i].parts
    BY <1>1, <2>1 DEF StreakIsCounted, Deliveries, Parts, Reused
  <2>2. Deliveries(i) = {}
    BY <1>3
  <2> QED BY <2>1, <2>2 DEF Rows, StreakIsCounted
<1> QED BY <1>6, <1>7, <1>8, <1>9 DEF Rows

LEMMA PlaceOfPart ==
  ASSUME UdpLinkAssumption, Inv, NEW d \in network, NET_GetLong(d)
  PROVE  /\ d[1] \in DOMAIN sent /\ d[2] \in Places /\ d = <<d[1], d[2]>> /\ sent' = sent
         /\ sent[d[1]].parts > 1 /\ d[2] \in Indices(d[1])
<1>1. /\ d[1] \in DOMAIN sent /\ d[2] \in Places /\ d = <<d[1], d[2]>> /\ sent' = sent
      /\ d[2] < sent[d[1]].parts /\ sent[d[1]].parts > 1
  BY TakeFacts DEF NET_GetLong, Assemble, Inv, senderVars
<1>2. sent[d[1]].parts \in Nat /\ d[2] \in Nat
  BY <1>1, SentFacts, DatagramFacts DEF Inv, UdpLinkAssumption
<1> QED BY <1>1, <1>2 DEF Indices

(* A part that is received for the first time is fresh.                     *)
LEMMA FirstIsFresh ==
  ASSUME UdpLinkAssumption, Inv, Rows, NEW d \in network, NET_GetLong(d),
         ~ Reused(Number(d)), times[d] = 0
  PROVE  Fresh(d)
<1>1. d[1] \in DOMAIN sent /\ d[2] \in Places /\ d = <<d[1], d[2]>>
  BY TakeFacts DEF NET_GetLong, Assemble, Inv
<1>2. Number(d) > 0 /\ Number(d) = sent[d[1]].seq
  BY <1>1 DEF NET_GetLong, Assemble, Number, Inv, Typed, Headers
<1> SUFFICES ASSUME splitflags[d[2]] = Number(d) PROVE FALSE
  BY DEF Fresh
<1>3. PICK i \in DOMAIN sent : sent[i].seq = Number(d) /\ times[<<i, d[2]>>] >= 1
  BY <1>1, <1>2 DEF Rows, FlagsAreReceived
<1>4. i = d[1]
  BY <1>1, <1>2, <1>3 DEF Reused, NoSequence
<1> QED BY <1>1, <1>3, <1>4

(* The part d continues the row, or begins one: the parts that were counted *)
(* are as many as before it.                                                *)
LEMMA MissingCounted ==
  ASSUME UdpLinkAssumption, Inv, Rows, NEW d \in network, NET_GetLong(d),
         ~ Reused(Number(d)), Deliveries(d[1]) = {},
         NEW row, row = (IF streak.msg = d[1] THEN streak.parts ELSE {})
  PROVE  Missing(d) \in Nat /\ Missing(d) + Cardinality(row) <= sent[d[1]].parts
<1>1. d[1] \in DOMAIN sent
  BY TakeFacts DEF NET_GetLong, Assemble, Inv
<1>2. Number(d) > 0 /\ Number(d) = sent[d[1]].seq /\ sent[d[1]].parts \in Nat
  BY <1>1, SentFacts
     DEF NET_GetLong, Assemble, Number, Inv, Typed, Headers, UdpLinkAssumption
<1>3. d[1] # 0
  BY <1>1, SentFacts DEF Inv
<1>4. splitCount \in Nat
  BY DEF Inv, Typed, TypeOK
<1>5. CASE streak.msg = d[1]
  <2>1. current = Number(d) /\ splitCount + Cardinality(row) <= sent[d[1]].parts
    BY <1>2, <1>3, <1>5 DEF Rows, StreakIsCounted
  <2> QED BY <1>4, <2>1 DEF Missing
<1>6. CASE streak.msg # d[1]
  <2>1. current # Number(d)
    <3> SUFFICES ASSUME current = Number(d) PROVE FALSE
      OBVIOUS
    <3>1. streak.msg # 0 /\ sent[streak.msg].seq = Number(d)
      BY <1>2 DEF Rows, EntryIsStreak
    <3>2. streak.msg \in DOMAIN sent
      BY <3>1 DEF Rows, StreakIsReceived
    <3> QED BY <1>1, <1>2, <1>6, <3>1, <3>2 DEF Reused, NoSequence
  <2>2. Cardinality(row) = 0
    BY <1>6, FS_EmptySet
  <2> QED BY <1>2, <2>1, <2>2 DEF Missing
<1> QED BY <1>5, <1>6

LEMMA GetLongCounts ==
  ASSUME UdpLinkAssumption, Inv, Rows, NEW d \in network, NET_GetLong(d),
         ~ Reused(Number(d)), Deliveries(d[1])' = {}
  PROVE  /\ current' = Number(d)
         /\ splitCount' + Cardinality(streak'.parts) <= sent[d[1]].parts
<1> DEFINE i == d[1]
           k == d[2]
           a == [seq |-> Number(d), parts |-> Content(total', buffer')]
           row == IF streak.msg = d[1] THEN streak.parts ELSE {}
<1>1. i \in DOMAIN sent /\ k \in Indices(i) /\ sent' = sent
  BY PlaceOfPart
<1>2. /\ current' = (IF splitCount' <= 0 THEN -1 ELSE Number(d))
      /\ income' = (IF splitCount' <= 0 THEN Append(income, a) ELSE income)
      /\ splitCount' = (IF Fresh(d) THEN Missing(d) - 1 ELSE Missing(d))
      /\ streak'.parts = (IF times[d] = 0 THEN row \cup {k} ELSE row)
  BY DEF NET_GetLong, Assemble, Streak
<1>3. splitCount' <= 0 => a.parts = Parts(i)
  BY CompleteIsWhole
<1>4. income \in Seq(Arrived)
  BY DEF Inv, Typed, TypeOK, Arrived
<1> HIDE DEF a, row
<1>5. ~ (splitCount' <= 0)
  <2> SUFFICES ASSUME splitCount' <= 0 PROVE FALSE
    OBVIOUS
  <2>1. income' = Append(income, a) /\ Parts(i)' = Parts(i)
    BY <1>1, <1>2 DEF Parts
  <2>2. Len(income) + 1 \in DOMAIN income' /\ income'[Len(income) + 1] = a
    BY <1>4, <2>1
  <2>3. Len(income) + 1 \in Deliveries(i)'
    BY <1>3, <2>1, <2>2 DEF Deliveries
  <2> QED BY <2>3
<1>6. Deliveries(i) = {}
  BY <1>1, <1>2, <1>5 DEF Deliveries, Parts
<1>7. Missing(d) \in Nat /\ Missing(d) + Cardinality(row) <= sent[i].parts
  BY <1>6, MissingCounted DEF row
<1>8. /\ IsFiniteSet(row) /\ Cardinality(row) \in Nat
      /\ Cardinality(row \cup {k}) \in Nat /\ Cardinality(row \cup {k}) <= Cardinality(row) + 1
  <2>1. row \subseteq Indices(i) /\ IsFiniteSet(Indices(i))
    BY <1>1, SentFacts, GatheredFinite DEF row, Rows, StreakIsReceived, Inv
  <2>2. IsFiniteSet(row) /\ Cardinality(row) \in Nat
    BY <2>1, FS_Subset, FS_CardinalityType
  <2>3. Cardinality(row \cup {k}) = Cardinality(row) \/ Cardinality(row \cup {k}) = Cardinality(row) + 1
    BY <2>2, FS_AddElement
  <2> QED BY <2>2, <2>3
<1>9. sent[i].parts \in Nat
  BY <1>1, SentFacts DEF Inv, UdpLinkAssumption
<1>10. CASE times[d] = 0
  <2>1. Fresh(d)
    BY <1>10, FirstIsFresh
  <2>2. splitCount' = Missing(d) - 1 /\ streak'.parts = row \cup {k}
    BY <1>2, <1>10, <2>1
  <2> QED BY <1>2, <1>5, <1>7, <1>8, <1>9, <2>2
<1>11. CASE times[d] # 0
  <2>1. splitCount' \in Int /\ splitCount' <= Missing(d) /\ streak'.parts = row
    BY <1>2, <1>7, <1>11
  <2> QED BY <1>2, <1>5, <1>7, <1>8, <1>9, <2>1
<1> QED BY <1>10, <1>11

LEMMA GetLongRows ==
  ASSUME UdpLinkAssumption, Inv, Rows, NEW d \in network, NET_GetLong(d)
  PROVE  Rows'
<1> DEFINE i == d[1]
           k == d[2]
<1>1. /\ i \in DOMAIN sent /\ k \in Places /\ d = <<i, k>> /\ sent' = sent
      /\ sent[i].parts > 1 /\ k \in Indices(i)
  BY PlaceOfPart
<1>2. /\ current' = (IF splitCount' <= 0 THEN -1 ELSE Number(d))
      /\ splitflags' = [splitflags EXCEPT ![k] = Number(d)]
      /\ streak' = Streak(d) /\ Number(d) = sent[i].seq
  BY DEF NET_GetLong, Assemble, Number
<1>3. /\ times'[<<i, k>>] >= 1
      /\ \A j \in DOMAIN sent, l \in Places : times[<<j, l>>] >= 1 => times'[<<j, l>>] >= 1
  BY <1>1, TimesGrow DEF NET_GetLong, Assemble, Inv
<1>4. streak'.msg = i /\ \A l \in streak'.parts : l = k \/ (streak.msg = i /\ l \in streak.parts)
  BY <1>2 DEF Streak
<1>5. i # 0
  BY <1>1, SentFacts DEF Inv
<1>6. streak.parts \subseteq Places
  BY DEF Inv, Typed, TypeOK
<1>7. StreakIsReceived'
  <2>1. ASSUME NEW l \in streak'.parts PROVE l \in Indices(i) /\ times'[<<i, l>>] >= 1
    <3>1. CASE l = k
      BY <1>1, <1>3, <3>1
    <3>2. CASE streak.msg = i /\ l \in streak.parts
      BY <1>1, <1>3, <1>5, <1>6, <3>2 DEF Rows, StreakIsReceived
    <3> QED BY <1>4, <3>1, <3>2
  <2> QED BY <1>1, <1>4, <2>1 DEF StreakIsReceived, Indices
<1>8. EntryIsStreak'
  BY <1>1, <1>2, <1>4, <1>5 DEF EntryIsStreak
<1>9. FlagsAreReceived'
  <2> SUFFICES ASSUME NEW l \in Places, splitflags'[l] > 0
               PROVE  \E j \in DOMAIN sent :
                        sent[j].seq = splitflags'[l] /\ times'[<<j, l>>] >= 1
    BY <1>1 DEF FlagsAreReceived
  <2>1. splitflags \in [Places -> -1..MaxSequence]
    BY DEF Inv, Typed, TypeOK
  <2>2. CASE l = k
    BY <1>1, <1>2, <1>3, <2>1, <2>2
  <2>3. CASE l # k
    <3>1. splitflags'[l] = splitflags[l]
      BY <1>2, <2>1, <2>3
    <3>2. PICK j \in DOMAIN sent : sent[j].seq = splitflags[l] /\ times[<<j, l>>] >= 1
      BY <3>1 DEF Rows, FlagsAreReceived
    <3> QED BY <1>3, <3>1, <3>2
  <2> QED BY <2>2, <2>3
<1>10. StreakIsCounted'
  <2> SUFFICES ASSUME Deliveries(i)' = {}, ~ Reused(Number(d))'
               PROVE  current' = Number(d) /\ splitCount' + Cardinality(streak'.parts) <= sent[i].parts
    BY <1>1, <1>2, <1>4 DEF StreakIsCounted, Number
  <2>1. ~ Reused(Number(d))
    BY <1>1 DEF Reused, Number
  <2> QED BY <2>1, GetLongCounts
<1> QED BY <1>7, <1>8, <1>9, <1>10 DEF Rows

LEMMA NextRows == UdpLinkAssumption /\ Inv /\ Rows /\ [Next]_vars => Rows'
<1> SUFFICES ASSUME UdpLinkAssumption, Inv, Rows, [Next]_vars PROVE Rows'
  OBVIOUS
<1>1. CASE UNCHANGED <<sent, entryVars, income, historyVars>>
  BY <1>1
     DEF Rows, StreakIsReceived, EntryIsStreak, FlagsAreReceived, StreakIsCounted,
         Indices, Deliveries, Parts, Reused, entryVars, historyVars
<1>2. CASE SenderStep \/ UNCHANGED vars
  BY <1>1, <1>2, SenderFrame DEF senderVars, vars
<1>3. CASE Next
  BY <1>2, <1>3, SendLongRows, RestartReceiverRows, QueuePacketRows, GetLongRows
     DEF Next, Send, Receive, SenderStep
<1> QED BY <1>2, <1>3

(* A message whose parts arrive in a row, in whatever order and with copies *)
(* of them in between, is delivered: whatever earlier messages have left in *)
(* splitflags, each part of it is counted once.                             *)
THEOREM RowsAreDelivered == Spec => []RowIsDelivered
<1>1. Init => Inv /\ Rows
  <2> SUFFICES ASSUME Init PROVE Inv /\ Rows
    OBVIOUS
  <2>1. Inv
    BY UdpLinkAssumption, InitTyped DEF Init, Inv, OnlyWholeMessages, CountsGathered
  <2>2. current = 0 /\ streak.msg = 0 /\ splitflags = NoFlags
    BY DEF Init, NoStreak
  <2>3. Rows
    BY <2>2
       DEF Rows, StreakIsReceived, EntryIsStreak, FlagsAreReceived, StreakIsCounted, NoFlags
  <2> QED BY <2>1, <2>3
<1>2. UdpLinkAssumption /\ Inv /\ Rows => RowIsDelivered
  BY RowsDeliver
<1>3. Inv /\ Rows /\ [Next]_vars => Inv' /\ Rows'
  BY UdpLinkAssumption, NextWhole, NextRows
<1> QED BY <1>1, <1>2, <1>3, UdpLinkAssumption, PTL DEF Spec
-----------------------------------------------------------------------------
LEMMA MappedSend ==
  ASSUME UdpLinkAssumption, Inv, NEW n \in 1..MaxSplits, NET_SendLong(n)
  PROVE  Network!Next
<1>0. PICK i : i = Len(sent) + 1
  OBVIOUS
<1> DEFINE m == [k \in 1..n |-> <<i, k - 1>>]
<1>1. /\ \A j \in DOMAIN sent : j \in DOMAIN sent' /\ sent'[j] = sent[j]
      /\ DOMAIN sent' = DOMAIN sent \cup {i} /\ sent'[i].parts = n
  BY <1>0, SendLongKeeps DEF Inv
<1>2. i \in 1..MaxSent
  BY <1>0, SentFacts DEF Inv, NET_SendLong, UdpLinkAssumption
<1>3. m \in [1..n -> Datagram]
  BY <1>2, DatagramFacts
<1>4. m \in UNION {[1..l -> Datagram] : l \in 1..MaxSplits}
  BY <1>3
<1>5. Parts(i)' = m /\ \A j \in DOMAIN sent : Parts(j)' = Parts(j)
  BY <1>1 DEF Parts
<1>6. {Parts(j) : j \in DOMAIN sent}' = {Parts(j) : j \in DOMAIN sent} \cup {m}
  <2>1. \A j \in DOMAIN sent : Parts(j)' \in {Parts(l) : l \in DOMAIN sent}
    BY <1>5
  <2>2. \A j \in DOMAIN sent' : j \in DOMAIN sent \/ j = i
    BY <1>1
  <2>3. \A j \in DOMAIN sent' : Parts(j)' \in {Parts(l) : l \in DOMAIN sent} \cup {m}
    BY <1>5, <2>1, <2>2
  <2>4. m \in {Parts(j) : j \in DOMAIN sent}'
    BY <1>1, <1>5
  <2>5. \A j \in DOMAIN sent : Parts(j) \in {Parts(l) : l \in DOMAIN sent}'
    BY <1>1, <1>5
  <2> QED BY <2>3, <2>4, <2>5
<1>7. income' = income
  BY DEF NET_SendLong
<1>8. [j \in DOMAIN income |-> income[j].parts]' = [j \in DOMAIN income |-> income[j].parts]
  BY <1>7
<1>9. Network!Send(m)
  BY <1>6, <1>8 DEF Network!Send
<1> QED BY <1>4, <1>9 DEF Network!Next

LEMMA MappedDeliver ==
  ASSUME UdpLinkAssumption, Inv, NEW i \in DOMAIN sent, NEW a, a.parts = Parts(i),
         sent' = sent, income' = Append(income, a)
  PROVE  Network!Next
<1>0. PICK m : m = Parts(i)
  OBVIOUS
<1> DEFINE old == [j \in DOMAIN income |-> income[j].parts]
           new == [j \in DOMAIN income |-> income[j].parts]'
<1>1. m \in UNION {[1..l -> Datagram] : l \in 1..MaxSplits}
  <2>1. sent[i].parts \in 1..MaxSplits /\ i \in 1..MaxSent
    BY SentFacts DEF Inv
  <2>2. Parts(i) \in [1..sent[i].parts -> Datagram]
    BY <2>1, DatagramFacts DEF Parts
  <2> QED BY <1>0, <2>1, <2>2
<1>2. income \in Seq(Arrived)
  BY DEF Inv, Typed, TypeOK, Arrived
<1>3. /\ DOMAIN income = 1..Len(income) /\ Len(income) \in Nat
      /\ DOMAIN income' = 1..(Len(income) + 1)
      /\ \A j \in 1..Len(income) : income'[j] = income[j]
      /\ income'[Len(income) + 1] = a
  BY <1>2
<1>4. old \in Seq(Seq(Datagram \cup {Nothing})) /\ Len(old) = Len(income)
  <2>1. \A j \in DOMAIN income : income[j].parts \in Seq(Datagram \cup {Nothing})
    <3> SUFFICES ASSUME NEW j \in DOMAIN income
                 PROVE  income[j].parts \in Seq(Datagram \cup {Nothing})
      OBVIOUS
    <3>1. income[j] \in Arrived
      BY <1>2
    <3> QED BY <3>1 DEF Arrived
  <2> QED BY <1>3, <2>1
<1>5. new = [j \in 1..(Len(income) + 1) |-> IF j <= Len(income) THEN income[j].parts ELSE m]
  <2>1. \A j \in 1..(Len(income) + 1) :
          income'[j].parts = IF j <= Len(income) THEN income[j].parts ELSE m
    <3> SUFFICES ASSUME NEW j \in 1..(Len(income) + 1)
                 PROVE  income'[j].parts = IF j <= Len(income) THEN income[j].parts ELSE m
      OBVIOUS
    <3>1. CASE j <= Len(income)
      BY <1>3, <3>1
    <3>2. CASE ~ (j <= Len(income))
      <4>1. j = Len(income) + 1
        BY <1>3, <3>2
      <4> QED BY <1>0, <1>3, <3>2, <4>1
    <3> QED BY <3>1, <3>2
  <2> QED BY <1>3, <2>1
<1>6. Append(old, m) = [j \in 1..(Len(income) + 1) |-> IF j <= Len(income) THEN old[j] ELSE m]
  BY <1>3, <1>4
<1>7. new = Append(old, m)
  BY <1>3, <1>5, <1>6
<1>8. m \in {Parts(j) : j \in DOMAIN sent}
  BY <1>0
<1>9. {Parts(j) : j \in DOMAIN sent}' = {Parts(j) : j \in DOMAIN sent}
  BY DEF Parts
<1>10. Network!Deliver(m)
  BY <1>7, <1>8, <1>9 DEF Network!Deliver
<1> QED BY <1>1, <1>10 DEF Network!Next

LEMMA MappedStutter ==
  ASSUME UNCHANGED <<sent, income>>
  PROVE  UNCHANGED Network!vars
BY DEF Network!vars, Parts

LEMMA MappedGetLong ==
  ASSUME UdpLinkAssumption, Inv, NEW d \in network, NET_GetLong(d)
  PROVE  \/ Network!Next \/ \E s \in 1..MaxSequence : Reused(s)
         \/ UNCHANGED Network!vars
<1> DEFINE a == [seq |-> Number(d), parts |-> Content(total', buffer')]
<1>1. /\ d[1] \in DOMAIN sent /\ sent' = sent
      /\ income' = (IF splitCount' <= 0 THEN Append(income, a) ELSE income)
  BY TakeFacts DEF NET_GetLong, Assemble, Inv, senderVars
<1>2. Number(d) \in 1..MaxSequence
  BY <1>1, SentFacts DEF NET_GetLong, Assemble, Number, Inv, Typed, Headers, UdpLinkAssumption
<1>3. CASE Reused(Number(d))
  BY <1>2, <1>3
<1>4. CASE ~ Reused(Number(d)) /\ splitCount' <= 0
  <2>1. a.parts = Parts(d[1]) /\ income' = Append(income, a)
    BY <1>1, <1>4, CompleteIsWhole
  <2> HIDE DEF a
  <2> QED BY <1>1, <2>1, MappedDeliver
<1>5. CASE ~ (splitCount' <= 0)
  BY <1>1, <1>5, MappedStutter
<1> QED BY <1>3, <1>4, <1>5

(* As long as no number is used twice, the link is the network RoomSession  *)
(* assumes: what comes out was sent, as a whole.                            *)
THEOREM LinkImplementsDatagrams == Spec => ImplementsDatagrams
<1>1. Init => Network!Init
  BY DEF Init, Network!Init
<1>2. ASSUME UdpLinkAssumption, Inv, [Next]_vars
      PROVE  [Network!Next \/ \E s \in 1..MaxSequence : Reused(s)]_(Network!vars)
  <2>1. CASE UNCHANGED <<sent, income>>
    BY <2>1, MappedStutter
  <2>2. CASE SenderStep \/ RestartReceiver \/ UNCHANGED vars
    BY <2>1, <2>2, SenderFrame DEF RestartReceiver, senderVars, vars
  <2>3. ASSUME NEW n \in 1..MaxSplits, NET_SendLong(n) PROVE Network!Next
    BY <1>2, <2>3, MappedSend
  <2>4. ASSUME NEW d \in network, NET_QueuePacket(d) PROVE Network!Next
    <3> DEFINE a == [seq |-> NoSequence, parts |-> <<d>>]
    <3>1. d[1] \in DOMAIN sent /\ a.parts = Parts(d[1])
      BY <1>2, <2>4, QueuePacketWhole
    <3>2. sent' = sent /\ income' = Append(income, a)
      BY <2>4 DEF NET_QueuePacket, Take, senderVars
    <3> HIDE DEF a
    <3> QED BY <1>2, <3>1, <3>2, MappedDeliver
  <2>5. ASSUME NEW d \in network, NET_GetLong(d)
        PROVE  [Network!Next \/ \E s \in 1..MaxSequence : Reused(s)]_(Network!vars)
    BY <1>2, <2>5, MappedGetLong
  <2>6. CASE Next
    BY <2>2, <2>3, <2>4, <2>5, <2>6 DEF Next, Send, Receive, SenderStep
  <2> QED BY <1>2, <2>2, <2>6
<1>3. Init => Inv
  BY UdpLinkAssumption, InitTyped DEF Init, Inv, OnlyWholeMessages, CountsGathered
<1> QED BY <1>1, <1>2, <1>3, UdpLinkAssumption, NextWhole, PTL DEF Spec, ImplementsDatagrams
=============================================================================
