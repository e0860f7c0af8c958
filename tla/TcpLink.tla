------------------------------- MODULE TcpLink -------------------------------
(***************************************************************************)
(* IPC/NetTcpLink.cpp: messages over TCP.  A sender (NetSendClient,        *)
(* NetClient) connects from a port the system gives it and sends messages, *)
(* each after a prefix with its length; the thread of NetServer accepts    *)
(* connections and puts the bytes it reads together in AddData, in one     *)
(* entry for each address, which outlives the connection.                  *)
(*                                                                         *)
(* A byte is <<i, k>>, byte k of the i-th message; the first Prefix bytes  *)
(* hold its length.  Entries that were not made yet are empty.             *)
(***************************************************************************)
EXTENDS Integers, Sequences

CONSTANTS
  Ports,       \* addresses of senders, used again after a connection
  Prefix,      \* sizeof(int)
  MaxLength,   \* bound: the longest message
  MaxMessages, \* bound: messages
  MaxFaults,   \* bound: calls of send that fail, connections closed as idle
  Garbage      \* what bytes that are no prefix may be read as

ASSUME TcpLinkAssumption ==
  /\ Prefix \in Nat \ {0} /\ MaxLength \in Nat /\ MaxMessages \in Nat
  /\ MaxFaults \in Nat /\ Garbage \subseteq Int

Byte == (1..MaxMessages) \X (1..(Prefix + MaxLength))

Empty == [valid |-> FALSE, total |-> 0, data |-> <<>>]

VARIABLES
  sent,    \* the messages: their port and their length
  sender,  \* sender[p]: where the sender at p is
  stream,  \* stream[p]: bytes sent from p and not read
  clients, \* m_Clients, the ports of accepted connections
  entries, \* m_StreamList: TotalValid, TotalBytes, Data
  income,  \* all that was put into m_IncomeBuffer
  handled, \* the messages of income that were handled
  dead,    \* AddData has left the memory of its bytes
  faults,
  cut,     \* history: messages of which bytes got lost
  spoiled  \* history: ports whose bytes do not begin with a prefix, or with
           \*   one that was read in two pieces

senderVars == <<sent, sender>>
serverVars == <<clients, entries, income, handled, dead>>
historyVars == <<cut, spoiled>>
vars == <<senderVars, stream, serverVars, faults, historyVars>>

Init ==
  /\ sent = <<>> /\ sender = [p \in Ports |-> "none"]
  /\ stream = [p \in Ports |-> <<>>]
  /\ clients = {} /\ entries = [p \in Ports |-> Empty]
  /\ income = <<>> /\ handled = 0 /\ dead = FALSE
  /\ faults = 0 /\ cut = {} /\ spoiled = {}
-----------------------------------------------------------------------------
From(p) == {i \in DOMAIN sent : sent[i].port = p}

Current(p) == CHOOSE i \in From(p) : \A j \in From(p) : j <= i

PrefixOf(i) == [k \in 1..Prefix |-> <<i, k>>]

Payload(i) == [k \in 1..sent[i].length |-> <<i, Prefix + k>>]

(* SendMessage begins, of the NetClient or NetSendClient at p.  Its port is *)
(* not used again before the server has closed the last connection from it. *)
SendMessage(p) ==
  /\ Len(sent) < MaxMessages
  /\ \E n \in 1..MaxLength : sent' = Append(sent, [port |-> p, length |-> n])
  /\ \/ sender[p] = "none" /\ p \notin clients
        /\ spoiled' = IF entries[p] = Empty THEN spoiled ELSE spoiled \cup {p}
     \/ sender[p] = "open"
        /\ spoiled' = IF Current(p) \in cut THEN spoiled \cup {p} ELSE spoiled
  /\ sender' = [sender EXCEPT ![p] = "prefix"]
  /\ UNCHANGED <<stream, serverVars, faults, cut>>

(* The first send of NET_SendPacket, whose result is not looked at: it may  *)
(* send less than all, and fails when the connection was not made within    *)
(* 20 ms.                                                                   *)
SendPrefix(p) ==
  LET i == Current(p) IN
  /\ sender[p] = "prefix"
  /\ \E n \in 0..Prefix :
       /\ stream' = [stream EXCEPT ![p] = @ \o SubSeq(PrefixOf(i), 1, n)]
       /\ faults' = IF n < Prefix THEN faults + 1 ELSE faults
       /\ faults' <= MaxFaults
       /\ cut' = IF n < Prefix THEN cut \cup {i} ELSE cut
  /\ sender' = [sender EXCEPT ![p] = "payload"]
  /\ UNCHANGED <<sent, serverVars, spoiled>>

(* The second one, likewise.                                                *)
SendPayload(p) ==
  LET i == Current(p) IN
  /\ sender[p] = "payload"
  /\ \E n \in 0..sent[i].length :
       /\ stream' = [stream EXCEPT ![p] = @ \o SubSeq(Payload(i), 1, n)]
       /\ faults' = IF n < sent[i].length THEN faults + 1 ELSE faults
       /\ faults' <= MaxFaults
       /\ spoiled' = IF i \in cut /\ n > 0 THEN spoiled \cup {p} ELSE spoiled
       /\ cut' = IF n < sent[i].length THEN cut \cup {i} ELSE cut
  /\ sender' = [sender EXCEPT ![p] = "open"]
  /\ UNCHANGED <<sent, serverVars>>

(* The destructor closes the socket; what was sent still arrives.           *)
CloseSocket(p) ==
  /\ sender[p] = "open"
  /\ sender' = [sender EXCEPT ![p] = "closed"]
  /\ UNCHANGED <<sent, stream, serverVars, faults, historyVars>>
-----------------------------------------------------------------------------
Accept(p) ==
  /\ ~ dead
  /\ p \notin clients /\ sender[p] # "none"
  /\ clients' = clients \cup {p}
  /\ UNCHANGED <<senderVars, stream, entries, income, handled, dead, faults, historyVars>>

(* The length in a prefix, or what other bytes are read as.                 *)
Length(bytes, garbage) ==
  LET i == bytes[1][1] IN IF bytes = PrefixOf(i) THEN sent[i].length ELSE garbage

(* Faulty Cleared: Data is not cleared.                                     *)
KeepsData(e) == [e EXCEPT !.valid = FALSE]

(* An entry after its message.                                              *)
Cleared(e) == Empty

(* Faulty Lacks: off by one.                                                *)
LacksOneMore(e, bytes) == Len(e.data) + Len(bytes) <= e.total

(* nDiff < 0.                                                               *)
Lacks(e, bytes) == Len(e.data) + Len(bytes) < e.total

(* The bytes that are left when n were used.                                *)
Left(bytes, n) == SubSeq(bytes, n + 1, Len(bytes))

(* The loop of AddData: the entry of the sender, the bytes that are left,   *)
(* and what was put into m_IncomeBuffer; the end of the bytes is not missed *)
(* so far.                                                                  *)
Loop(entry, bytes, out) == [entry |-> entry, bytes |-> bytes, out |-> out, missed |-> FALSE]

(* All bytes are put into the entry: the message, or the prefix, is longer. *)
KeepAll(r) ==
  Loop([valid |-> r.entry.valid, total |-> r.entry.total, data |-> r.entry.data \o r.bytes],
       <<>>, r.out)

(* The message ends inside the bytes or with them.                          *)
EndMessage(r) ==
  LET take == r.entry.total - Len(r.entry.data) IN
  Loop(Cleared(r.entry), Left(r.bytes, take),
       Append(r.out, r.entry.data \o SubSeq(r.bytes, 1, take)))

(* The prefix ends inside the bytes; sizeof(int) of them are left out then, *)
(* also when a part of it was read before.                                  *)
EndPrefix(r, garbage) ==
  LET prefix == r.entry.data \o SubSeq(r.bytes, 1, Prefix - Len(r.entry.data)) IN
  Loop([valid |-> TRUE, total |-> Length(prefix, garbage), data |-> <<>>],
       Left(r.bytes, Prefix), r.out)

(* What is put together or left out is no part of the bytes.                *)
Miss(r) == [entry |-> r.entry, bytes |-> r.bytes, out |-> r.out, missed |-> TRUE]

(* One turn of the loop.                                                    *)
Turn(r, garbage) ==
  IF r.bytes = <<>> \/ r.missed THEN r
  ELSE IF r.entry.valid
    THEN IF Lacks(r.entry, r.bytes) THEN KeepAll(r)
         ELSE IF r.entry.total < Len(r.entry.data) THEN Miss(r) ELSE EndMessage(r)
    ELSE IF Len(r.entry.data) + Len(r.bytes) < Prefix THEN KeepAll(r)
         ELSE IF Len(r.bytes) < Prefix THEN Miss(r) ELSE EndPrefix(r, garbage)

(* Two turns use up a byte at least.                                        *)
AddData(entry, bytes, garbage) ==
  LET turns[k \in 0..(2 * Len(bytes))] ==
        IF k = 0 THEN Loop(entry, bytes, <<>>) ELSE Turn(turns[k - 1], garbage)
  IN turns[2 * Len(bytes)]

(* NET_QueuePacket: recv, then AddData.                                     *)
NET_QueuePacket(p) ==
  /\ ~ dead
  /\ p \in clients
  /\ \E n \in 1..Len(stream[p]), garbage \in Garbage :
       LET r == AddData(entries[p], SubSeq(stream[p], 1, n), garbage) IN
       /\ stream' = [stream EXCEPT ![p] = Left(@, n)]
       /\ entries' = [entries EXCEPT ![p] = r.entry]
       /\ income' = income \o [k \in DOMAIN r.out |-> [port |-> p, bytes |-> r.out[k]]]
       /\ dead' = r.missed
       /\ spoiled' = IF ~ r.entry.valid /\ r.entry.data # <<>> THEN spoiled \cup {p} ELSE spoiled
  /\ UNCHANGED <<senderVars, clients, handled, faults, cut>>

(* The socket is closed; bytes that were not read, and those the sender     *)
(* still sends, are lost.  For the sender the connection is gone, wherever  *)
(* it is.                                                                   *)
Close(p) ==
  /\ cut' = cut \cup {stream[p][k][1] : k \in DOMAIN stream[p]}
               \cup (IF sender[p] \in {"prefix", "payload"} THEN {Current(p)} ELSE {})
  /\ stream' = [stream EXCEPT ![p] = <<>>]
  /\ sender' = [sender EXCEPT ![p] = "none"]
  /\ UNCHANGED <<sent, entries, income, dead, spoiled>>

(* Faulty CloseClient: the client is left in m_Clients.                     *)
CloseKeepsClient(p) == p \in clients /\ Close(p) /\ UNCHANGED clients

CloseClient(p) == p \in clients /\ Close(p) /\ clients' = clients \ {p}

(* CheckIdleSockets: nothing was read for m_nIdleTime.  It counts as a      *)
(* fault unless the sender has closed the connection.                       *)
CheckIdleSockets(p) ==
  /\ ~ dead
  /\ CloseClient(p)
  /\ \/ sender[p] = "closed" /\ stream[p] = <<>> /\ UNCHANGED faults
     \/ faults < MaxFaults /\ faults' = faults + 1
  /\ UNCHANGED handled

(* A message is handled; most handlers call TCP_CloseClient.                *)
Handle ==
  /\ handled < Len(income) /\ handled' = handled + 1
  /\ UNCHANGED faults
  /\ \/ CloseClient(income[handled'].port)
     \/ UNCHANGED <<senderVars, stream, clients, entries, income, dead, historyVars>>
-----------------------------------------------------------------------------
Senders(p) == SendMessage(p) \/ SendPrefix(p) \/ SendPayload(p) \/ CloseSocket(p)

NetThread(p) == Accept(p) \/ NET_QueuePacket(p) \/ CheckIdleSockets(p)

Next == Handle \/ \E p \in Ports : Senders(p) \/ NetThread(p)

Spec == Init /\ [][Next]_vars

(* A sender goes through NET_SendPacket, and the thread of NetServer, which *)
(* looks at all clients in each turn, runs; closing is nobody's duty.       *)
Fairness ==
  \A p \in Ports :
    /\ WF_vars(SendPrefix(p) \/ SendPayload(p))
    /\ WF_vars(Accept(p)) /\ WF_vars(NET_QueuePacket(p))

FairSpec == Spec /\ Fairness
-----------------------------------------------------------------------------
(* A client of the server is connected, and a connection that is gone has   *)
(* no bytes; an entry holds less than a prefix or than its message.         *)
TypeOK ==
  /\ sent \in Seq([port : Ports, length : 1..MaxLength]) /\ Len(sent) <= MaxMessages
  /\ sender \in [Ports -> {"none", "prefix", "payload", "open", "closed"}]
  /\ stream \in [Ports -> Seq(Byte)]
  /\ \A p \in Ports : sender[p] = "none" => p \notin clients /\ stream[p] = <<>>
  /\ clients \subseteq Ports
  /\ entries \in [Ports -> [valid : BOOLEAN, total : Int, data : Seq(Byte)]]
  /\ \A p \in Ports :
       p \in spoiled \/ Len(entries[p].data) <= IF entries[p].valid THEN entries[p].total ELSE Prefix - 1
  /\ income \in Seq([port : Ports, bytes : Seq(Byte)])
  /\ handled \in 0..Len(income) /\ dead \in BOOLEAN /\ faults \in 0..MaxFaults
  /\ cut \subseteq DOMAIN sent /\ spoiled \subseteq Ports

(* The messages of a port come out whole and in their order, each once,     *)
(* however the bytes are split between reads, the connection is closed and  *)
(* the port used again.  What spoils this, and alone makes AddData leave    *)
(* its bytes: a read that ends inside a prefix, a prefix that is lost       *)
(* before its payload, and an entry that is left from a connection that     *)
(* broke.                                                                   *)
WholeInOrder ==
  /\ \A p \in Ports \ spoiled : \A j \in DOMAIN income :
       income[j].port = p =>
         /\ \E i \in From(p) : income[j].bytes = Payload(i)
         /\ \A k \in 1..(j - 1) :
              income[k].port = p => income[k].bytes[1][1] < income[j].bytes[1][1]
  /\ dead => spoiled # {}

(* A message that was sent comes out, unless some of its bytes were not     *)
(* sent or not read when the connection was closed, or the port is spoiled. *)
Delivered ==
  \A i \in 1..MaxMessages :
    i \in DOMAIN sent ~>
      \/ i \in DOMAIN sent /\ \E j \in DOMAIN income : income[j].bytes = Payload(i)
      \/ i \in cut \/ (\E p \in spoiled : i \in From(p)) \/ dead
=============================================================================
