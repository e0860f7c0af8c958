------------------------------- MODULE UdpLink -------------------------------
(***************************************************************************)
(* IPC/NetLink.cpp: messages over UDP, from one server to another.  The    *)
(* sender cuts a message that is longer than MAX_ROUTEABLE_PACKET into     *)
(* parts under one sequence number; the receiver has one entry for each    *)
(* sender, in which it puts the parts of one message together.             *)
(*                                                                         *)
(* A datagram is <<i, k>>, part k of the i-th message; its header says     *)
(* sent[i].seq, k and sent[i].parts.  A message that fits into one packet  *)
(* has one part, is not cut (netID is not -2) and has no sequence number.  *)
(* The threads of the rooms of a computer call NET_SendLong as they like,  *)
(* with one m_gSequenceNumber and no lock.                                 *)
(* NET_DiscardStaleSplitpackets has no caller, so the entry of a sender    *)
(* stays as it is for as long as the receiver runs, also when the sender   *)
(* begins its numbers anew.                                                *)
(***************************************************************************)
EXTENDS Integers, Sequences, FiniteSets

CONSTANTS
  MaxSplits,   \* MAX_SPLITPACKET_SPLITS, 57 in the code
  MaxSequence, \* the largest m_gSequenceNumber, 2^31 - 1 in the code
  Threads,     \* how many threads may send at a time
  MaxSent,     \* bound: messages sent
  MaxCrashes,  \* bound: restarts of the sender and of the receiver
  MaxCopies    \* bound: datagrams that the network duplicates

ASSUME UdpLinkAssumption ==
  /\ MaxSplits \in Nat \ {0} /\ MaxSequence \in Nat \ {0} /\ Threads \in Nat
  /\ MaxSent \in Nat /\ MaxCrashes \in Nat /\ MaxCopies \in Nat

Nothing == <<0, 0>>  \* an untouched place of the buffer

NoSequence == 0      \* of a message that is not cut

Places == 0..(MaxSplits - 1)

Datagram == (1..MaxSent) \X Places

NoFlags == [k \in Places |-> -1]

EmptyBuffer == [k \in Places |-> Nothing]

NoStreak == [msg |-> 0, parts |-> {}]

VARIABLES
  sent,       \* every message sent: its number of parts and its sequence number
  next,       \* the next part of each message to be sent
  numbering,  \* how many threads have incremented m_gSequenceNumber, not yet read it
  sequence,   \* m_gSequenceNumber
  crashes,    \* restarts
  network,    \* the datagrams under way
  copies,     \* datagrams duplicated
  current,    \* entry->netsplit.currentSequence, -1: none
  splitCount, \* entry->netsplit.splitCount
  total,      \* entry->netsplit.totalSize, as the message whose size it is
  splitflags, \* entry->splitflags
  buffer,     \* entry->netsplit.buffer
  income,     \* all that was put into m_IncomeBuffer
  times,      \* history: how often a datagram was received
  streak      \* history: parts received in a row, for the first time

senderVars == <<sent, next, numbering, sequence>>
entryVars == <<current, splitCount, total, splitflags, buffer>>
historyVars == <<times, streak>>
vars == <<senderVars, crashes, network, copies, entryVars, income, historyVars>>

Init ==
  /\ sent = <<>> /\ next = [i \in 1..MaxSent |-> 0] /\ numbering = 0 /\ sequence = 1 /\ crashes = 0
  /\ network = {} /\ copies = 0
  /\ current = 0 /\ splitCount = 0 /\ total = 0
  /\ splitflags = NoFlags /\ buffer = EmptyBuffer
  /\ income = <<>>
  /\ times = [d \in Datagram |-> 0] /\ streak = NoStreak
-----------------------------------------------------------------------------
(* The messages under way in NET_SendLong.                                  *)
Unsent == {i \in DOMAIN sent : next[i] < sent[i].parts}

(* A thread is free to send.                                                *)
Free == Cardinality(Unsent) + numbering < Threads

(* Faulty NextSequence: never begins anew.                                  *)
SequenceOverflows == sequence + 1

(* m_gSequenceNumber++, and 1 after the largest.                            *)
NextSequence == IF sequence = MaxSequence THEN 1 ELSE sequence + 1

(* NET_SendLong of a message that is to be cut.                             *)
NewNumber ==
  /\ Free
  /\ sequence' = NextSequence /\ numbering' = numbering + 1
  /\ UNCHANGED <<sent, next, crashes, network, copies, entryVars, income, historyVars>>

(* NET_SendLong goes on with a message of n parts: m_gSequenceNumber may be *)
(* another thread's by now.                                                 *)
NET_SendLong(n) ==
  /\ Len(sent) < MaxSent
  /\ \/ n = 1 /\ Free /\ UNCHANGED numbering
     \/ n > 1 /\ numbering > 0 /\ numbering' = numbering - 1
  /\ sent' = Append(sent, [parts |-> n, seq |-> IF n > 1 THEN sequence ELSE NoSequence])
  /\ UNCHANGED <<next, sequence, crashes, network, copies, entryVars, income, historyVars>>

(* One turn of its loop: NET_SendTo, then Sleep(1).                         *)
NET_SendTo(i) ==
  /\ i \in Unsent
  /\ network' = network \cup {<<i, next[i]>>}
  /\ next' = [next EXCEPT ![i] = @ + 1]
  /\ UNCHANGED <<sent, numbering, sequence, crashes, copies, entryVars, income, historyVars>>

(* "if ( ret < 0 ) return ret;": the other parts are not sent.              *)
SendToFails(i) ==
  /\ i \in Unsent
  /\ next' = [next EXCEPT ![i] = sent[i].parts]
  /\ UNCHANGED <<sent, numbering, sequence, crashes, network, copies, entryVars, income,
                 historyVars>>

(* The sender ends, wherever its threads are, and starts with a new NetLink. *)
Restart ==
  /\ crashes < MaxCrashes /\ crashes' = crashes + 1
  /\ sequence' = 1 /\ numbering' = 0
  /\ next' = [i \in 1..MaxSent |-> IF i \in DOMAIN sent THEN sent[i].parts ELSE 0]
  /\ UNCHANGED <<sent, network, copies, entryVars, income, historyVars>>

(* The receiver ends and starts with no entry.                              *)
RestartReceiver ==
  /\ crashes < MaxCrashes /\ crashes' = crashes + 1
  /\ current' = 0 /\ splitCount' = 0 /\ total' = 0
  /\ splitflags' = NoFlags /\ buffer' = EmptyBuffer
  /\ streak' = NoStreak
  /\ UNCHANGED <<senderVars, network, copies, income, times>>

Lose(d) ==
  /\ network' = network \ {d}
  /\ UNCHANGED <<senderVars, crashes, copies, entryVars, income, historyVars>>
-----------------------------------------------------------------------------
(* d leaves the network, unless there is a copy of it.                      *)
Take(d) ==
  /\ \/ network' = network \ {d} /\ UNCHANGED copies
     \/ UNCHANGED network /\ copies < MaxCopies /\ copies' = copies + 1
  /\ times' = [times EXCEPT ![d] = @ + 1]
  /\ UNCHANGED <<senderVars, crashes>>

(* NET_QueuePacket of a message that was not cut.                           *)
NET_QueuePacket(d) ==
  /\ sent[d[1]].parts = 1
  /\ Take(d)
  /\ income' = Append(income, [seq |-> NoSequence, parts |-> <<d>>])
  /\ UNCHANGED <<entryVars, streak>>

(* The first bytes of the buffer, as many as the message that totalSize is  *)
(* the size of.                                                             *)
Content(size, buf) ==
  IF size = 0 THEN <<>> ELSE [k \in 1..sent[size].parts |-> buf[k - 1]]

(* Parts in a row: d follows parts of the same message.                     *)
Streak(d) ==
  LET before == IF streak.msg = d[1] THEN streak.parts ELSE {} IN
  [msg |-> d[1], parts |-> IF times[d] = 0 THEN before \cup {d[2]} ELSE before]

Number(d) == sent[d[1]].seq

(* The part d is put in its place.  The message had before parts missing,   *)
(* d counts when it is fresh; the entry is cleared when none is missing.    *)
Assemble(d, before, fresh) ==
  LET complete == splitCount' <= 0 IN
  /\ sent[d[1]].parts > 1
  /\ Take(d)
  /\ splitCount' = IF fresh THEN before - 1 ELSE before
  /\ total' = IF fresh /\ d[2] = sent[d[1]].parts - 1 THEN d[1] ELSE total
  /\ splitflags' = [splitflags EXCEPT ![d[2]] = Number(d)]
  /\ buffer' = [buffer EXCEPT ![d[2]] = d]
  /\ current' = IF complete THEN -1 ELSE Number(d)
  /\ income' = IF complete
               THEN Append(income, [seq |-> Number(d), parts |-> Content(total', buffer')])
               ELSE income
  /\ streak' = Streak(d)

(* A new sequence number begins a new message.                              *)
Missing(d) == IF current # Number(d) THEN sent[d[1]].parts ELSE splitCount

(* A part that was there under this number does not count again.            *)
Fresh(d) == splitflags[d[2]] # Number(d)

(* Faulty NET_GetLong: only an entry that is clear begins a new message.    *)
GetLongMixes(d) ==
  Assemble(d, IF current \in {-1, 0} THEN sent[d[1]].parts ELSE splitCount, Fresh(d))

(* Faulty NET_GetLong: a place counts only when it was never used.          *)
GetLongFlagsOnce(d) == Assemble(d, Missing(d), splitflags[d[2]] = -1)

NET_GetLong(d) == Assemble(d, Missing(d), Fresh(d))
-----------------------------------------------------------------------------
Send ==
  \/ NewNumber
  \/ \E n \in 1..MaxSplits : NET_SendLong(n)
  \/ \E i \in DOMAIN sent : NET_SendTo(i) \/ SendToFails(i)

Receive == \E d \in network : NET_QueuePacket(d) \/ NET_GetLong(d)

Next == Send \/ Restart \/ RestartReceiver \/ Receive \/ \E d \in network : Lose(d)

Spec == Init /\ [][Next]_vars
-----------------------------------------------------------------------------
Parts(i) == [k \in 1..sent[i].parts |-> <<i, k - 1>>]

(* Two messages that were cut have the sequence number s: the sender was    *)
(* restarted in between, the numbers began anew, or two threads incremented *)
(* m_gSequenceNumber before either read it.                                 *)
Reused(s) ==
  /\ s # NoSequence
  /\ \E i, j \in DOMAIN sent : i # j /\ sent[i].seq = s /\ sent[j].seq = s

Deliveries(i) == {j \in DOMAIN income : income[j].parts = Parts(i)}

(* Counters and headers are of their types.                                 *)
TypeOK ==
  /\ sent \in Seq([parts : 1..MaxSplits, seq : 0..MaxSequence]) /\ Len(sent) <= MaxSent
  /\ next \in [1..MaxSent -> 0..MaxSplits] /\ numbering \in Nat
  /\ sequence \in 1..MaxSequence
  /\ crashes \in 0..MaxCrashes /\ copies \in 0..MaxCopies
  /\ network \subseteq Datagram
  /\ \A d \in network : d[1] \in DOMAIN sent /\ d[2] < sent[d[1]].parts
  /\ current \in -1..MaxSequence /\ splitCount \in 0..MaxSplits
  /\ total \in 0..Len(sent)
  /\ splitflags \in [Places -> -1..MaxSequence]
  /\ buffer \in [Places -> Datagram \cup {Nothing}]
  /\ income \in Seq([seq : 0..MaxSequence, parts : Seq(Datagram \cup {Nothing})])
  /\ times \in [Datagram -> Nat]
  /\ streak \in [msg : 0..MaxSent, parts : SUBSET Places]

(* Parts of different messages are never put together, whatever the network *)
(* loses, copies or reorders and although a new message overwrites the      *)
(* buffer of one that is not complete, unless a sequence number is used for *)
(* two messages.                                                            *)
OnlyWholeMessages ==
  \A j \in DOMAIN income :
    \/ \E i \in DOMAIN sent : income[j].parts = Parts(i)
    \/ Reused(income[j].seq)

(* A message whose parts all arrive, in whatever order but without parts of *)
(* another in between, is delivered: what splitflags has from earlier       *)
(* messages does not make a part look like one that was there before.       *)
RowIsDelivered ==
  LET i == streak.msg IN
  i # 0 /\ streak.parts = 0..(sent[i].parts - 1)
    => Deliveries(i) # {} \/ Reused(sent[i].seq)

Network == INSTANCE Datagrams
  WITH Message <- UNION {[1..n -> Datagram] : n \in 1..MaxSplits},
       sent <- {Parts(i) : i \in DOMAIN sent},
       delivered <- [j \in DOMAIN income |-> income[j].parts]

(* With numbers that are used once, the link implements the network that    *)
(* the protocol of the rooms is written for.                                *)
ImplementsDatagrams ==
  Network!Init /\ [][Network!Next \/ \E s \in 1..MaxSequence : Reused(s)]_(Network!vars)
=============================================================================
