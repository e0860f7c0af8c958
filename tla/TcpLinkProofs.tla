---------------------------- MODULE TcpLinkProofs ----------------------------
(***************************************************************************)
(* Proofs about TcpLink for any ports, messages, faults and lengths, and   *)
(* for any way in which the bytes are split between reads.                 *)
(***************************************************************************)
EXTENDS TcpLink, SequenceTheorems, WellFoundedInduction, TLAPS

(* What holds before a loop and is kept by each turn holds up to the last:  *)
(* induction, with a set in the place of a predicate.                       *)
LEMMA LoopInduction ==
  ASSUME NEW n \in Nat, NEW G, 0 \in G, \A m \in 1..n : m - 1 \in G => m \in G
  PROVE  0..n \subseteq G
<1> DEFINE bad == (0..n) \ G
           less == {ss \in Nat \X Nat : ss[1] < ss[2]}
<1>1. SUFFICES ASSUME bad # {} PROVE FALSE
  OBVIOUS
<1>2. IsWellFoundedOn(less, Nat)
  BY NatLessThanWellFounded DEF OpToRel
<1>3. bad \subseteq Nat
  OBVIOUS
<1>4. PICK m \in bad : \A k \in bad : ~(<<k, m>> \in less)
  <2> HIDE DEF less, bad
  <2> QED BY <1>1, <1>2, <1>3, WFMin, Zenon
<1>5. m \in 1..n
  OBVIOUS
<1>6. m - 1 \in bad
  BY <1>5
<1>7. <<m - 1, m>> \in less
  BY <1>5
<1> QED BY <1>4, <1>6, <1>7

(* f is the value after each turn of a loop over 1..n whose turn i makes    *)
(* step[i][x] of x.                                                         *)
IsLoop(f, n, base, step) == f[0] = base /\ \A i \in 1..n : f[i] = step[i][f[i - 1]]

(* A loop computes something: the recursive function exists.                *)
LEMMA LoopDefined ==
  ASSUME NEW n \in Nat, NEW S, NEW base \in S, NEW step \in [1..n -> [S -> S]]
  PROVE  \E f \in [0..n -> S] : IsLoop(f, n, base, step)
<1> DEFINE Turned(f, m) ==
             f \in [0..m -> S] /\ f[0] = base /\ \A i \in 1..m : f[i] = step[i][f[i - 1]]
           G == {m \in 0..n : \E f : Turned(f, m)}
<1>1. Turned([i \in 0..0 |-> base], 0)
  OBVIOUS
<1>2. ASSUME NEW m \in 1..n, NEW f, Turned(f, m - 1)
      PROVE  \E g : Turned(g, m)
  <2> DEFINE g == [i \in 0..m |-> IF i = m THEN step[m][f[m - 1]] ELSE f[i]]
  <2>1. f \in [0..(m - 1) -> S] /\ f[0] = base /\ \A i \in 1..(m - 1) : f[i] = step[i][f[i - 1]]
    BY <1>2
  <2>2. f[m - 1] \in S
    BY <2>1
  <2>3. step[m][f[m - 1]] \in S
    BY <2>2
  <2>4. g \in [0..m -> S]
    BY <2>1, <2>3
  <2>5. g[0] = base
    BY <2>1
  <2>6. ASSUME NEW i \in 1..m PROVE g[i] = step[i][g[i - 1]]
    <3>1. CASE i = m
      <4>1. g[m - 1] = f[m - 1] /\ g[i] = step[m][f[m - 1]]
        BY <3>1
      <4> QED BY <3>1, <4>1
    <3>2. CASE i # m
      <4>1. i \in 1..(m - 1) /\ i - 1 \in 0..(m - 1)
        BY <3>2
      <4>2. g[i] = f[i] /\ g[i - 1] = f[i - 1]
        BY <3>2, <4>1
      <4> QED BY <2>1, <4>1, <4>2
    <3> QED BY <3>1, <3>2
  <2> HIDE DEF g
  <2>7. Turned(g, m)
    BY <2>4, <2>5, <2>6
  <2> QED BY <2>7
<1>3. 0..n \subseteq G
  <2> HIDE DEF Turned
  <2>1. 0 \in G
    BY <1>1
  <2>2. \A m \in 1..n : m - 1 \in G => m \in G
    BY <1>2
  <2> HIDE DEF G
  <2> QED BY <2>1, <2>2, LoopInduction
<1>4. n \in G
  BY <1>3
<1>5. \E f : Turned(f, n)
  BY <1>4
<1> QED BY <1>5 DEF IsLoop

Message == [port : Ports, length : 1..MaxLength]

(* The last byte of a message.                                              *)
Last(i) == Prefix + sent[i].length

(* The bytes of the messages that were sent from p.                         *)
BytesOf(p) == {b \in Byte : b[1] \in From(p) /\ b[2] <= Last(b[1])}

(* The loop of AddData between two turns, over bytes of S.                  *)
Reading(S) ==
  [entry : [valid : BOOLEAN, total : Int, data : Seq(S)], bytes : Seq(S),
   out : Seq(Seq(S)), missed : BOOLEAN]

(* A byte is the last one of its message.                                   *)
Done(b) == b[2] = Last(b[1])

(* Byte c comes right after byte b, and byte b before byte c, in what is    *)
(* sent from a port: no message is left out in the middle.                  *)
Follows(b, c) == IF Done(b) THEN b[1] < c[1] /\ c[2] = 1 ELSE c = <<b[1], b[2] + 1>>

Precedes(b, c) == b[1] < c[1] \/ (b[1] = c[1] /\ b[2] < c[2])

InRow(s) ==
  /\ \A k \in 1..(Len(s) - 1) : Follows(s[k], s[k + 1])
  /\ \A k, l \in 1..Len(s) : k < l => Precedes(s[k], s[l])

(* The entry has the prefix of message i and a part of its payload.         *)
Partial(e, i) ==
  /\ e.valid /\ e.total = sent[i].length /\ Len(e.data) < e.total
  /\ \A k \in 1..Len(e.data) : e.data[k] = <<i, Prefix + k>>

(* The messages of p that came out are before message i.                    *)
After(p, i) == \A j \in DOMAIN income : income[j].port = p => income[j].bytes[1][1] < i

LEMMA SentFacts ==
  ASSUME TcpLinkAssumption, sent \in Seq(Message), Len(sent) <= MaxMessages
  PROVE  /\ DOMAIN sent = 1..Len(sent) /\ Len(sent) \in Nat
         /\ \A i \in DOMAIN sent : /\ i \in 1..MaxMessages /\ sent[i].length \in 1..MaxLength
                                  /\ sent[i].length \in Nat /\ sent[i].length >= 1
                                  /\ sent[i].port \in Ports /\ Last(i) \in Nat /\ Last(i) > Prefix
                                  /\ Last(i) <= Prefix + MaxLength
         /\ \A p : From(p) \subseteq DOMAIN sent
<1>1. DOMAIN sent = 1..Len(sent) /\ Len(sent) \in Nat /\ MaxMessages \in Nat /\ MaxLength \in Nat
      /\ Prefix \in Nat
  BY DEF TcpLinkAssumption
<1>2. ASSUME NEW i \in DOMAIN sent
      PROVE  sent[i].length \in 1..MaxLength /\ sent[i].port \in Ports /\ i \in 1..MaxMessages
  <2>1. sent[i] \in Message
    BY <1>1
  <2> QED BY <1>1, <2>1 DEF Message
<1>3. \A p : From(p) \subseteq DOMAIN sent
  BY DEF From
<1> QED BY <1>1, <1>2, <1>3 DEF Last

(* What the prefix of a message is read as.                                 *)
LEMMA LengthFacts ==
  ASSUME TcpLinkAssumption, sent \in Seq(Message), Len(sent) <= MaxMessages,
         NEW p, NEW bytes \in Seq(BytesOf(p)), NEW garbage \in Garbage
  PROVE  Length(bytes, garbage) \in Int
<1>1. CASE bytes = PrefixOf(bytes[1][1])
  <2>1. DOMAIN bytes = 1..Prefix /\ 1 \in 1..Prefix
    BY <1>1 DEF PrefixOf, TcpLinkAssumption
  <2>2. bytes[1] \in BytesOf(p)
    BY <2>1
  <2>3. bytes[1][1] \in DOMAIN sent
    BY <2>2 DEF BytesOf, From
  <2>4. sent[bytes[1][1]].length \in Int
    BY <2>3, SentFacts
  <2> QED BY <1>1, <2>4 DEF Length
<1>2. CASE bytes # PrefixOf(bytes[1][1])
  BY <1>2 DEF Length, TcpLinkAssumption
<1> QED BY <1>1, <1>2

(* The first n bytes and the bytes after them.                              *)
Halves(S, q, n) ==
  /\ Left(q, n) \in Seq(S) /\ Len(Left(q, n)) = Len(q) - n
  /\ \A k \in 1..(Len(q) - n) : Left(q, n)[k] = q[n + k]
  /\ SubSeq(q, 1, n) \in Seq(S) /\ Len(SubSeq(q, 1, n)) = n
  /\ \A k \in 1..n : SubSeq(q, 1, n)[k] = q[k]

LEMMA LeftFacts ==
  ASSUME NEW S, NEW q \in Seq(S), NEW n \in 0..Len(q)
  PROVE  Halves(S, q, n)
<1>1. Len(q) \in Nat /\ \A k \in 1..Len(q) : q[k] \in S
  OBVIOUS
<1>2. /\ SubSeq(q, n + 1, Len(q)) \in Seq(S) /\ Len(SubSeq(q, n + 1, Len(q))) = Len(q) - n
      /\ \A k \in 1..(Len(q) - n) : SubSeq(q, n + 1, Len(q))[k] = q[n + k]
  BY <1>1
<1>3. /\ SubSeq(q, 1, n) \in Seq(S) /\ Len(SubSeq(q, 1, n)) = n
      /\ \A k \in 1..n : SubSeq(q, 1, n)[k] = q[k]
  BY <1>1
<1> QED BY <1>2, <1>3 DEF Left, Halves

(* What n of the bytes after the first a ones are, and the rest of them.    *)
Parts(S, q, a, n) ==
  /\ Left(q, a) \in Seq(S) /\ Len(Left(q, a)) = Len(q) - a
  /\ Left(Left(q, a), n) = Left(q, a + n) /\ Len(Left(q, a + n)) = (Len(q) - a) - n
  /\ SubSeq(Left(q, a), 1, n) \in Seq(S) /\ Len(SubSeq(Left(q, a), 1, n)) = n
  /\ \A k \in 1..n : SubSeq(Left(q, a), 1, n)[k] = q[a + k]

LEMMA LeftTwice ==
  ASSUME NEW S, NEW q \in Seq(S), NEW a \in 0..Len(q), NEW n \in 0..(Len(q) - a)
  PROVE  Parts(S, q, a, n)
<1> DEFINE b == Left(q, a)
<1>1. Len(q) \in Nat /\ a + n \in 0..Len(q)
  OBVIOUS
<1>2. b \in Seq(S) /\ Len(b) = Len(q) - a /\ \A k \in 1..(Len(q) - a) : b[k] = q[a + k]
  BY LeftFacts DEF Halves
<1> HIDE DEF b
<1>3. n \in 0..Len(b)
  BY <1>2
<1>4. /\ Left(b, n) \in Seq(S) /\ Len(Left(b, n)) = Len(b) - n
      /\ \A k \in 1..(Len(b) - n) : Left(b, n)[k] = b[n + k]
      /\ SubSeq(b, 1, n) \in Seq(S) /\ Len(SubSeq(b, 1, n)) = n
      /\ \A k \in 1..n : SubSeq(b, 1, n)[k] = b[k]
  BY <1>2, <1>3, LeftFacts DEF Halves
<1>5. /\ Left(q, a + n) \in Seq(S) /\ Len(Left(q, a + n)) = Len(q) - (a + n)
      /\ \A k \in 1..(Len(q) - (a + n)) : Left(q, a + n)[k] = q[(a + n) + k]
  BY <1>1, LeftFacts DEF Halves
<1>6. Len(Left(b, n)) = Len(Left(q, a + n)) /\ Len(Left(q, a + n)) = (Len(q) - a) - n
  <2>1. Len(q) - (a + n) = (Len(q) - a) - n
    BY <1>1
  <2> QED BY <1>2, <1>4, <1>5, <2>1
<1>7. \A k \in 1..Len(Left(b, n)) : Left(b, n)[k] = Left(q, a + n)[k]
  <2> SUFFICES ASSUME NEW k \in 1..Len(Left(b, n)) PROVE Left(b, n)[k] = Left(q, a + n)[k]
    OBVIOUS
  <2>1. /\ k \in 1..(Len(b) - n) /\ k \in 1..(Len(q) - (a + n)) /\ n + k \in 1..(Len(q) - a)
        /\ a + (n + k) = (a + n) + k
    BY <1>1, <1>2, <1>3, <1>4
  <2> QED BY <1>2, <1>4, <1>5, <2>1
<1>8. Left(b, n) = Left(q, a + n)
  BY <1>4, <1>5, <1>6, <1>7, SeqEqual
<1>9. \A k \in 1..n : k \in 1..(Len(q) - a)
  BY <1>1
<1> QED BY <1>2, <1>4, <1>6, <1>8, <1>9 DEF b, Parts

(* A turn leaves the loop in a state of it.                                 *)
LEMMA TurnTyped ==
  ASSUME TcpLinkAssumption, sent \in Seq(Message), Len(sent) <= MaxMessages,
         NEW p, NEW r \in Reading(BytesOf(p)), NEW garbage \in Garbage
  PROVE  Turn(r, garbage) \in Reading(BytesOf(p))
<1>0. PICK S, data, total, bytes :
        S = BytesOf(p) /\ data = r.entry.data /\ total = r.entry.total /\ bytes = r.bytes
  OBVIOUS
<1>1. /\ data \in Seq(S) /\ bytes \in Seq(S) /\ r.out \in Seq(Seq(S))
      /\ total \in Int /\ r.entry.valid \in BOOLEAN /\ r.missed \in BOOLEAN
      /\ r.entry \in [valid : BOOLEAN, total : Int, data : Seq(S)]
  BY <1>0 DEF Reading
<1>2. Len(data) \in Nat /\ Len(bytes) \in Nat /\ Prefix \in Nat
  BY <1>1 DEF TcpLinkAssumption
<1>3. KeepAll(r) \in Reading(S)
  <2>1. data \o bytes \in Seq(S)
    BY <1>1, ConcatProperties
  <2> QED BY <1>0, <1>1, <2>1 DEF Reading, KeepAll, Loop
<1>4. Miss(r) \in Reading(S)
  BY <1>0, <1>1 DEF Reading, Miss
<1>5. ASSUME ~ Lacks(r.entry, bytes), ~ (total < Len(data))
      PROVE  EndMessage(r) \in Reading(S)
  <2>1. total - Len(data) \in 0..Len(bytes)
    <3>1. ~ (Len(data) + Len(bytes) < total)
      BY <1>0, <1>5 DEF Lacks
    <3> QED BY <1>1, <1>2, <1>5, <3>1
  <2>2. /\ Left(bytes, total - Len(data)) \in Seq(S)
        /\ SubSeq(bytes, 1, total - Len(data)) \in Seq(S)
    BY <1>1, <2>1, LeftFacts DEF Halves
  <2>3. data \o SubSeq(bytes, 1, total - Len(data)) \in Seq(S)
    BY <1>1, <2>2, ConcatProperties
  <2>4. Append(r.out, data \o SubSeq(bytes, 1, total - Len(data))) \in Seq(Seq(S))
    BY <1>1, <2>3
  <2>5. Empty \in [valid : BOOLEAN, total : Int, data : Seq(S)]
    BY DEF Empty
  <2> QED BY <1>0, <1>1, <2>2, <2>4, <2>5 DEF Reading, EndMessage, Cleared, Loop
<1>6. ASSUME ~ (Len(bytes) < Prefix)
      PROVE  EndPrefix(r, garbage) \in Reading(S)
  <2> DEFINE n == Prefix - Len(data)
             prefix == data \o SubSeq(bytes, 1, n)
  <2>1. SubSeq(bytes, 1, n) \in Seq(S)
    <3>1. CASE n \in 0..Len(bytes)
      BY <1>1, <3>1, LeftFacts DEF Halves
    <3>2. CASE n \in Int /\ n < 1
      <4>1. SubSeq(bytes, 1, n) = <<>>
        BY <3>2, SubSeqEmpty
      <4> QED BY <4>1, EmptySeq
    <3> QED BY <1>2, <1>6, <3>1, <3>2
  <2>2. prefix \in Seq(S)
    BY <1>1, <2>1, ConcatProperties
  <2>3. Left(bytes, Prefix) \in Seq(S)
    BY <1>1, <1>2, <1>6, LeftFacts DEF Halves
  <2> HIDE DEF n
  <2>4. EndPrefix(r, garbage) =
          [entry |-> [valid |-> TRUE, data |-> <<>>, total |-> Length(prefix, garbage)],
           bytes |-> Left(bytes, Prefix), out |-> r.out, missed |-> FALSE]
    BY <1>0 DEF n, EndPrefix, Loop
  <2> HIDE DEF prefix
  <2>5. Length(prefix, garbage) \in Int
    BY <1>0, <2>2, LengthFacts
  <2> QED BY <1>1, <2>3, <2>4, <2>5 DEF Reading
<1> QED BY <1>0, <1>3, <1>4, <1>5, <1>6 DEF Turn

(* The turns of the loop over these bytes, each of them in R.               *)
Turns(f, R, e, bytes, garbage) ==
  /\ f \in [0..(2 * Len(bytes)) -> R] /\ f[0] = Loop(e, bytes, <<>>)
  /\ \A k \in 1..(2 * Len(bytes)) : f[k] = Turn(f[k - 1], garbage)
  /\ f[2 * Len(bytes)] = AddData(e, bytes, garbage)

Kept(R, garbage) == \A r \in R : Turn(r, garbage) \in R

LEMMA AddDataTurns ==
  ASSUME NEW S, NEW bytes \in Seq(S), NEW e, NEW garbage, NEW R,
         Loop(e, bytes, <<>>) \in R, Kept(R, garbage)
  PROVE  \E f : Turns(f, R, e, bytes, garbage)
<1> DEFINE n == 2 * Len(bytes)
           base == Loop(e, bytes, <<>>)
           F(f) == [k \in 0..n |-> IF k = 0 THEN base ELSE Turn(f[k - 1], garbage)]
           turns == CHOOSE f : f = F(f)
           step == [k \in 1..n |-> [r \in R |-> Turn(r, garbage)]]
<1>1. n \in Nat
  OBVIOUS
<1> USE DEF Kept
<1>2. AddData(e, bytes, garbage) = turns[n]
  BY DEF AddData
<1>3. step \in [1..n -> [R -> R]] /\ base \in R
  OBVIOUS
<1>4. \A k \in 1..n, r \in R : step[k][r] = Turn(r, garbage)
  OBVIOUS
<1> HIDE DEF n, base, step
<1>5. PICK f \in [0..n -> R] : IsLoop(f, n, base, step)
  BY <1>1, <1>3, LoopDefined
<1>6. f[0] = base /\ \A k \in 1..n : f[k] = step[k][f[k - 1]]
  BY <1>5 DEF IsLoop
<1>7. \A k \in 1..n : f[k] = Turn(f[k - 1], garbage)
  <2> SUFFICES ASSUME NEW k \in 1..n PROVE f[k] = Turn(f[k - 1], garbage)
    OBVIOUS
  <2>1. f[k - 1] \in R
    BY <1>1
  <2> QED BY <1>4, <1>6, <2>1
<1>8. f = F(f)
  BY <1>1, <1>6, <1>7
<1>9. ASSUME NEW g, g = F(g), NEW k \in 0..n
      PROVE  g[k] = IF k = 0 THEN base ELSE Turn(g[k - 1], garbage)
  BY <1>9
<1>10. turns = F(turns)
  <2> HIDE DEF F
  <2> QED BY <1>8, Zenon
<1> HIDE DEF turns
<1>11. DOMAIN turns = 0..n
  <2>1. DOMAIN F(turns) = 0..n
    OBVIOUS
  <2> HIDE DEF F
  <2> QED BY <1>10, <2>1
<1>12. turns[0] = base /\ \A k \in 1..n : turns[k] = Turn(turns[k - 1], garbage)
  <2>1. 0 \in 0..n /\ \A k \in 1..n : k \in 0..n /\ k # 0
    BY <1>1
  <2> HIDE DEF F
  <2> QED BY <1>9, <1>10, <2>1
<1>13. \A k \in 0..n : turns[k] \in R
  <2> DEFINE G == {k \in 0..n : turns[k] \in R}
  <2>1. 0 \in G
    BY <1>1, <1>3, <1>12
  <2>2. \A k \in 1..n : k - 1 \in G => k \in G
    BY <1>1, <1>12
  <2> HIDE DEF G
  <2>3. 0..n \subseteq G
    BY <1>1, <2>1, <2>2, LoopInduction
  <2> QED BY <2>3 DEF G
<1>14. turns \in [0..n -> R]
  <2>1. turns = [k \in 0..n |-> turns[k]]
    <3>1. F(turns) = [k \in 0..n |-> F(turns)[k]]
      OBVIOUS
    <3> HIDE DEF F
    <3> QED BY <1>10, <3>1
  <2> QED BY <1>13, <2>1
<1>15. Turns(turns, R, e, bytes, garbage)
  BY <1>2, <1>12, <1>14 DEF n, base, Turns
<1> QED BY <1>15
-----------------------------------------------------------------------------
(* The entry after the first a bytes of q, which are bytes from p.          *)
Ready(p, e, q, a) ==
  \/ /\ e = Empty
     /\ a > 0 => Done(q[a])
     /\ a < Len(q) => q[a + 1][2] = 1
  \/ \E i \in From(p) :
       /\ Partial(e, i)
       /\ a > 0 => q[a] = <<i, Prefix + Len(e.data)>>
       /\ a < Len(q) => q[a + 1] = <<i, Prefix + Len(e.data) + 1>>

(* What comes out are messages that end in the first a bytes, in order.     *)
Out(q, a, out) ==
  /\ \A j \in DOMAIN out : \E k \in 1..a : Done(q[k]) /\ out[j] = Payload(q[k][1])
  /\ \A j, k \in DOMAIN out : j < k => out[j][1][1] < out[k][1][1]

Standing(p, q, r) ==
  \E a \in 0..Len(q) : r.bytes = Left(q, a) /\ Out(q, a, r.out) /\ Ready(p, r.entry, q, a)

(* The bytes end inside a prefix.                                           *)
Broken(r) == r.bytes = <<>> /\ ~ r.entry.valid /\ r.entry.data # <<>>

Orderly(p, q) ==
  {r \in Reading(BytesOf(p)) : ~ r.missed /\ (Standing(p, q, r) \/ Broken(r))}

(* A byte of a message that was sent from p.                                *)
LEMMA ByteFacts ==
  ASSUME TcpLinkAssumption, sent \in Seq(Message), Len(sent) <= MaxMessages,
         NEW p, NEW b \in BytesOf(p)
  PROVE  /\ b[1] \in From(p) /\ b[1] \in Nat /\ b[2] \in Nat /\ b[2] >= 1 /\ b[2] <= Last(b[1])
         /\ Last(b[1]) \in Nat /\ Last(b[1]) > Prefix /\ Prefix \in Nat /\ Prefix >= 1
         /\ sent[b[1]].length \in Nat /\ sent[b[1]].length >= 1
         /\ b = <<b[1], b[2]>>
<1>1. b \in Byte /\ b[1] \in From(p) /\ b[2] <= Last(b[1])
  BY DEF BytesOf
<1>2. b[1] \in DOMAIN sent
  BY <1>1 DEF From
<1>3. b[1] \in Nat /\ b[2] \in Nat /\ b[2] >= 1 /\ b = <<b[1], b[2]>>
  BY <1>1 DEF Byte, TcpLinkAssumption
<1> QED BY <1>1, <1>2, <1>3, SentFacts DEF TcpLinkAssumption

(* There are m bytes after the first a ones and after byte b of message i;  *)
(* they are that message's if the first one is.                             *)
Room(q, a, i, b, m) ==
  /\ a \in Nat /\ b \in Nat /\ m \in Nat
  /\ a + m <= Len(q) /\ b + m <= Last(i) /\ (m > 0 => q[a + 1] = <<i, b + 1>>)

Same(q, a, i, b, m) == \A k \in 1..m : q[a + k] = <<i, b + k>>

(* The bytes of a message stand side by side.                               *)
LEMMA Run ==
  ASSUME TcpLinkAssumption, sent \in Seq(Message), Len(sent) <= MaxMessages,
         NEW p, NEW q \in Seq(BytesOf(p)), InRow(q),
         NEW a, NEW i, NEW b, NEW m, Room(q, a, i, b, m)
  PROVE  Same(q, a, i, b, m)
<1> USE DEF Room
<1> DEFINE G == {k \in 0..m : k > 0 => q[a + k] = <<i, b + k>>}
<1>1. 0 \in G
  OBVIOUS
<1>2. ASSUME NEW k \in 1..m, k - 1 \in G PROVE k \in G
  <2>1. CASE k = 1
    BY <2>1
  <2>2. CASE k > 1
    <3>1. a + (k - 1) \in 1..(Len(q) - 1) /\ (a + (k - 1)) + 1 = a + k
      BY <2>2
    <3>2. q[a + (k - 1)] = <<i, b + (k - 1)>>
      BY <1>2, <2>2
    <3>3. Follows(q[a + (k - 1)], q[a + k])
      BY <3>1 DEF InRow
    <3>4. q[a + (k - 1)] \in BytesOf(p)
      BY <3>1
    <3>5. Last(i) \in Nat
      BY <3>2, <3>4, ByteFacts, SMTT(30)
    <3>6. b + (k - 1) < Last(i)
      BY <3>5
    <3>7. ~ Done(q[a + (k - 1)])
      BY <3>2, <3>5, <3>6 DEF Done
    <3>8. q[a + k] = <<i, (b + (k - 1)) + 1>>
      BY <3>2, <3>3, <3>7 DEF Follows
    <3> QED BY <3>8
  <2> QED BY <2>1, <2>2
<1> HIDE DEF G
<1>3. 0..m \subseteq G
  BY <1>1, <1>2, LoopInduction
<1> QED BY <1>3 DEF G, Same

LEMMA EmptyFacts ==
  ~ Empty.valid /\ Empty.total = 0 /\ Empty.data = <<>> /\ Len(Empty.data) = 0
BY DEF Empty

(* A message that comes out after a bytes is later than those before.       *)
LEMMA OutGrows ==
  ASSUME TcpLinkAssumption, sent \in Seq(Message), Len(sent) <= MaxMessages,
         NEW p, NEW q \in Seq(BytesOf(p)), InRow(q),
         NEW a \in 0..Len(q), NEW b \in 1..Len(q), a < b, Done(q[b]),
         NEW out \in Seq(Seq(BytesOf(p))), Out(q, a, out)
  PROVE  Out(q, b, Append(out, Payload(q[b][1])))
<1> DEFINE o == Payload(q[b][1])
           new == Append(out, o)
<1>1. Len(out) \in Nat /\ DOMAIN out = 1..Len(out) /\ DOMAIN new = 1..(Len(out) + 1)
      /\ new[Len(out) + 1] = o /\ \A j \in 1..Len(out) : new[j] = out[j]
  OBVIOUS
<1>2. \A k \in 1..Len(q) : Payload(q[k][1])[1][1] = q[k][1]
  <2> SUFFICES ASSUME NEW k \in 1..Len(q) PROVE Payload(q[k][1])[1][1] = q[k][1]
    OBVIOUS
  <2>1. q[k] \in BytesOf(p)
    OBVIOUS
  <2>2. sent[q[k][1]].length \in Nat /\ sent[q[k][1]].length >= 1
    BY <2>1, ByteFacts
  <2>3. 1 \in 1..sent[q[k][1]].length
    BY <2>2
  <2> QED BY <2>3 DEF Payload
<1>3. ASSUME NEW j \in DOMAIN out PROVE out[j][1][1] < o[1][1]
  <2>1. PICK k \in 1..a : Done(q[k]) /\ out[j] = Payload(q[k][1])
    BY DEF Out
  <2>2. k \in 1..Len(q) /\ k < b
    OBVIOUS
  <2>3. Precedes(q[k], q[b])
    BY <2>2 DEF InRow
  <2>4. q[k][1] # q[b][1]
    <3>1. q[k] \in BytesOf(p) /\ q[b] \in BytesOf(p)
      BY <2>2
    <3>2. q[k][2] \in Nat /\ q[b][2] \in Nat /\ q[k][1] \in Nat /\ q[b][1] \in Nat
      BY <3>1, ByteFacts
    <3>3. q[k][2] = Last(q[k][1]) /\ q[b][2] = Last(q[b][1])
      BY <2>1 DEF Done
    <3> QED BY <2>3, <3>2, <3>3 DEF Precedes
  <2>5. q[k][1] < q[b][1]
    BY <2>3, <2>4 DEF Precedes
  <2> QED BY <1>2, <2>1, <2>2, <2>5
<1> HIDE DEF new
<1>4. ASSUME NEW j \in DOMAIN new
      PROVE  \E k \in 1..b : Done(q[k]) /\ new[j] = Payload(q[k][1])
  <2>1. CASE j \in DOMAIN out
    <3>1. PICK k \in 1..a : Done(q[k]) /\ out[j] = Payload(q[k][1])
      BY <2>1 DEF Out
    <3> QED BY <1>1, <2>1, <3>1
  <2>2. CASE j = Len(out) + 1
    <3>1. b \in 1..b /\ new[j] = Payload(q[b][1])
      BY <1>1, <2>2
    <3> WITNESS b \in 1..b
    <3> QED BY <3>1
  <2>3. j \in 1..Len(out) \/ j = Len(out) + 1
    <3>1. j \in 1..(Len(out) + 1) /\ Len(out) \in Nat
      BY <1>1
    <3> QED BY <3>1
  <2> QED BY <1>1, <2>1, <2>2, <2>3
<1> HIDE DEF o
<1>5. ASSUME NEW j \in DOMAIN new, NEW k \in DOMAIN new, j < k
      PROVE  new[j][1][1] < new[k][1][1]
  <2>1. j \in DOMAIN out /\ new[j] = out[j]
    BY <1>1, <1>5
  <2>2. CASE k \in DOMAIN out
    BY <1>1, <1>5, <2>1, <2>2 DEF Out
  <2>3. CASE k = Len(out) + 1
    BY <1>1, <1>3, <2>1, <2>3
  <2> QED BY <1>1, <2>2, <2>3
<1> QED BY <1>4, <1>5 DEF Out, new, o

(* A turn leads to the same place with fewer bytes.                         *)
Shorter(r, t) == IF r.bytes = <<>> THEN t = r ELSE Len(t.bytes) < Len(r.bytes)

(* An empty entry takes the whole prefix of a message, or the bytes end     *)
(* inside one.                                                              *)
LEMMA PrefixTurn ==
  ASSUME TcpLinkAssumption, sent \in Seq(Message), Len(sent) <= MaxMessages,
         NEW p, NEW q \in Seq(BytesOf(p)), InRow(q), NEW garbage \in Garbage,
         NEW r \in Reading(BytesOf(p)), ~ r.missed,
         NEW a \in 0..(Len(q) - 1), r.bytes = Left(q, a), Out(q, a, r.out),
         r.entry = Empty, q[a + 1][2] = 1
  PROVE  LET t == Turn(r, garbage) IN
         ~ t.missed /\ (Standing(p, q, t) \/ Broken(t)) /\ Len(t.bytes) < Len(r.bytes)
<1> DEFINE t == Turn(r, garbage)
           bytes == Left(q, a)
           i == q[a + 1][1]
           next == a + Prefix
<1>0. PICK S : S = BytesOf(p)
  OBVIOUS
<1>1. /\ a \in Nat /\ Len(q) \in Nat /\ Prefix \in Nat /\ Prefix >= 1
      /\ a + 1 \in 1..Len(q) /\ q[a + 1] \in BytesOf(p)
  BY DEF TcpLinkAssumption
<1>2. bytes \in Seq(S) /\ Len(bytes) = Len(q) - a
  <2>1. q \in Seq(S) /\ a \in 0..Len(q)
    BY <1>0, <1>1
  <2> QED BY <2>1, LeftFacts DEF Halves
<1>3. /\ i \in From(p) /\ Last(i) \in Nat /\ Last(i) > Prefix /\ q[a + 1] = <<i, 1>>
      /\ sent[i].length \in Nat /\ sent[i].length >= 1
  BY <1>1, ByteFacts
<1> HIDE DEF i, bytes
<1>4. r.bytes = bytes /\ bytes # <<>> /\ ~ r.entry.valid /\ r.entry.data = <<>>
  <2>1. Len(bytes) # 0
    BY <1>1, <1>2
  <2> QED BY <2>1, EmptyFacts DEF bytes
<1>5. CASE Len(bytes) < Prefix
  <2>1. t = KeepAll(r)
    BY <1>2, <1>4, <1>5 DEF Turn
  <2>2. <<>> \o bytes = bytes
    BY <1>2, ConcatEmptySeq
  <2>3. t.bytes = <<>> /\ ~ t.entry.valid /\ t.entry.data = bytes /\ ~ t.missed
    BY <1>4, <2>1, <2>2 DEF KeepAll, Loop
  <2>4. Len(t.bytes) < Len(r.bytes)
    BY <1>1, <1>2, <1>4, <2>3
  <2> QED BY <1>4, <2>3, <2>4 DEF Broken
<1>6. CASE ~ (Len(bytes) < Prefix)
  <2>1. t = EndPrefix(r, garbage)
    BY <1>2, <1>4, <1>6 DEF Turn
  <2>0. Prefix \in 0..(Len(q) - a) /\ a + Prefix <= Len(q) /\ 0 + Prefix <= Last(i)
    BY <1>1, <1>2, <1>3, <1>6
  <2>2. \A k \in 1..Prefix : q[a + k] = <<i, 0 + k>>
    <3>1. Room(q, a, i, 0, Prefix)
      BY <1>1, <1>3, <2>0 DEF Room
    <3> HIDE DEF next
    <3>2. Same(q, a, i, 0, Prefix)
      BY <3>1, Run
    <3> QED BY <3>2 DEF Same
  <2>3. SubSeq(bytes, 1, Prefix) = PrefixOf(i) /\ PrefixOf(i) \in Seq(S)
    <3> DEFINE u == SubSeq(bytes, 1, Prefix)
    <3>1. u \in Seq(S) /\ Len(u) = Prefix /\ \A k \in 1..Prefix : u[k] = q[a + k]
      <4>1. q \in Seq(S) /\ a \in 0..Len(q) /\ Prefix \in 0..(Len(q) - a)
        BY <1>0, <1>1, <2>0
      <4>2. Parts(S, q, a, Prefix)
        BY <4>1, LeftTwice
      <4> QED BY <4>2 DEF Parts, bytes
    <3> HIDE DEF u
    <3>2. \A k \in 1..Prefix : u[k] = <<i, k>>
      <4> SUFFICES ASSUME NEW k \in 1..Prefix PROVE u[k] = <<i, k>>
        OBVIOUS
      <4>1. u[k] = q[a + k] /\ q[a + k] = <<i, 0 + k>>
        BY <2>2, <3>1
      <4>2. 0 + k = k
        OBVIOUS
      <4> QED BY <4>1, <4>2
    <3>3. DOMAIN u = 1..Prefix /\ u = [k \in 1..Prefix |-> u[k]]
      BY <3>1
    <3>4. u = PrefixOf(i)
      BY <3>2, <3>3 DEF PrefixOf
    <3> QED BY <3>1, <3>4 DEF u
  <2>4. PrefixOf(i)[1][1] = i
    BY <1>1 DEF PrefixOf
  <2>5. <<>> \o PrefixOf(i) = PrefixOf(i)
    BY <2>3, ConcatEmptySeq
  <2>6. Length(PrefixOf(i), garbage) = sent[i].length
    BY <2>4 DEF Length
  <2>7. t = Loop([valid |-> TRUE, total |-> sent[i].length, data |-> <<>>],
                 Left(bytes, Prefix), r.out)
    <3>1. Prefix - Len(<<>>) = Prefix
      BY <1>1
    <3>2. r.entry.data \o SubSeq(r.bytes, 1, Prefix - Len(r.entry.data)) = PrefixOf(i)
      BY <1>4, <2>3, <2>5, <3>1
    <3> QED BY <1>4, <2>1, <2>6, <3>2 DEF EndPrefix
  <2>8. /\ t.entry.valid /\ t.entry.total = sent[i].length /\ t.entry.data = <<>>
        /\ t.bytes = Left(bytes, Prefix) /\ t.out = r.out /\ ~ t.missed
    BY <2>7 DEF Loop
  <2> HIDE DEF t
  <2>9. next \in 0..Len(q) /\ next > 0 /\ a < next /\ next \in Nat
    BY <1>1, <1>2, <1>6
  <2>10. Left(bytes, Prefix) = Left(q, next) /\ Len(Left(bytes, Prefix)) < Len(bytes)
    <3>1. /\ Left(bytes, Prefix) = Left(q, next)
          /\ Len(Left(q, next)) = (Len(q) - a) - Prefix
      <4>1. q \in Seq(S) /\ a \in 0..Len(q) /\ Prefix \in 0..(Len(q) - a)
        BY <1>0, <1>1, <2>0
      <4>2. Parts(S, q, a, Prefix)
        BY <4>1, LeftTwice
      <4> QED BY <4>2 DEF Parts, bytes
    <3> QED BY <1>1, <1>2, <3>1
  <2>11. q[next] = <<i, Prefix>>
    BY <1>1, <2>2
  <2>12. next < Len(q) => q[next + 1] = <<i, Prefix + 1>>
    <3> SUFFICES ASSUME next < Len(q) PROVE q[next + 1] = <<i, Prefix + 1>>
      OBVIOUS
    <3>1. next \in 1..(Len(q) - 1)
      BY <2>9
    <3>2. ~ Done(q[next])
      BY <1>1, <1>3, <2>11 DEF Done
    <3>3. Follows(q[next], q[next + 1])
      BY <3>1 DEF InRow
    <3> QED BY <2>11, <3>2, <3>3 DEF Follows
  <2>13. Partial(t.entry, i)
    BY <1>3, <2>8 DEF Partial
  <2>14. Ready(p, t.entry, q, next)
    <3> HIDE DEF next
    <3>1. Len(t.entry.data) = 0 /\ Prefix + 0 = Prefix
      BY <1>1, <2>8
    <3> QED BY <1>3, <2>11, <2>12, <2>13, <3>1 DEF Ready
  <2>15. Out(q, next, t.out)
    BY <2>8, <2>9 DEF Out
  <2>16. Standing(p, q, t)
    BY <2>8, <2>9, <2>10, <2>14, <2>15 DEF Standing
  <2> QED BY <1>4, <2>8, <2>10, <2>16 DEF t
<1> QED BY <1>5, <1>6

(* An entry with a part of a message takes the rest of it, or all bytes.    *)
LEMMA PayloadTurn ==
  ASSUME TcpLinkAssumption, sent \in Seq(Message), Len(sent) <= MaxMessages,
         NEW p, NEW q \in Seq(BytesOf(p)), InRow(q), NEW garbage \in Garbage,
         NEW r \in Reading(BytesOf(p)), ~ r.missed,
         NEW a \in 0..(Len(q) - 1), r.bytes = Left(q, a), Out(q, a, r.out),
         NEW i \in From(p), Partial(r.entry, i),
         q[a + 1] = <<i, Prefix + Len(r.entry.data) + 1>>
  PROVE  LET t == Turn(r, garbage) IN
         ~ t.missed /\ Standing(p, q, t) /\ Len(t.bytes) < Len(r.bytes)
<1> DEFINE t == Turn(r, garbage)
           bytes == Left(q, a)
<1>0. PICK S, data, total, n, len :
        S = BytesOf(p) /\ data = r.entry.data /\ total = r.entry.total /\ n = Len(q) /\ len = Len(data)
  OBVIOUS
<1>1. /\ a \in Nat /\ n \in Nat /\ Prefix \in Nat /\ Prefix >= 1 /\ a < n
      /\ a + 1 \in 1..Len(q) /\ q[a + 1] \in BytesOf(p)
  <2>1. Len(q) \in Nat
    OBVIOUS
  <2>2. a \in Nat /\ a < Len(q) /\ a + 1 \in 1..Len(q)
    BY <2>1
  <2>3. q[a + 1] \in BytesOf(p)
    BY <2>2, ElementOfSeq
  <2> QED BY <1>0, <2>1, <2>2, <2>3 DEF TcpLinkAssumption
<1>2. bytes \in Seq(S) /\ Len(bytes) = n - a
  <2>1. q \in Seq(S) /\ a \in 0..Len(q)
    BY <1>0, <1>1
  <2> QED BY <1>0, <2>1, LeftFacts DEF Halves
<1>3. /\ i \in DOMAIN sent /\ sent[i].length \in Nat /\ Last(i) = Prefix + sent[i].length
  <2>1. i \in DOMAIN sent
    BY DEF From
  <2> QED BY <2>1, SentFacts DEF Last
<1>4. /\ r.entry.valid /\ total = sent[i].length /\ len < total /\ total \in Nat /\ len \in Nat
      /\ data \in Seq(S) /\ DOMAIN data = 1..len /\ \A k \in 1..len : data[k] = <<i, Prefix + k>>
  <2>1. r.entry.data \in Seq(BytesOf(p))
    BY DEF Reading
  <2> QED BY <1>0, <1>3, <2>1 DEF Partial
<1>5. r.bytes = bytes /\ bytes # <<>>
  <2>1. Len(bytes) # 0
    BY <1>1, <1>2
  <2> QED BY <2>1
<1>11. a \in Nat /\ n \in Nat /\ len \in Nat /\ total \in Nat /\ Prefix \in Nat /\ a < n /\ len < total
  BY <1>1, <1>4
<1>6. ASSUME NEW m \in Nat, m <= n - a, len + m <= total
      PROVE  Same(q, a, i, Prefix + len, m)
  <2>1. Room(q, a, i, Prefix + len, m)
    <3>1. Prefix + len \in Nat /\ a + m <= n /\ (Prefix + len) + m <= Last(i)
      BY <1>3, <1>4, <1>6, <1>11, SMTT(30)
    <3>2. q[a + 1] = <<i, (Prefix + len) + 1>>
      BY <1>0
    <3> QED BY <1>0, <1>11, <3>1, <3>2 DEF Room
  <2> QED BY <2>1, Run
<1> HIDE DEF bytes
(* What the entry and the next m bytes are together.                        *)
<1>7. ASSUME NEW m \in Nat, m <= n - a, len + m <= total, NEW u \in Seq(S), Len(u) = m,
             \A k \in 1..m : u[k] = q[a + k]
      PROVE  /\ data \o u \in Seq(S) /\ Len(data \o u) = len + m
             /\ \A k \in 1..(len + m) : (data \o u)[k] = <<i, Prefix + k>>
  <2>1. /\ data \o u \in Seq(S) /\ Len(data \o u) = len + m
        /\ \A k \in 1..(len + m) : (data \o u)[k] = IF k <= len THEN data[k] ELSE u[k - len]
    <3>1. data \in Seq(S) /\ u \in Seq(S) /\ Len(data) = len /\ Len(u) = m
      BY <1>0, <1>4, <1>7
    <3>2. /\ data \o u \in Seq(S) /\ Len(data \o u) = Len(data) + Len(u)
          /\ \A k \in 1..(Len(data) + Len(u)) :
               (data \o u)[k] = IF k <= Len(data) THEN data[k] ELSE u[k - Len(data)]
      BY <3>1, ConcatProperties
    <3> QED BY <3>1, <3>2
  <2>2. ASSUME NEW k \in 1..(len + m)
        PROVE  (data \o u)[k] = <<i, Prefix + k>>
    <3>1. CASE k <= len
      <4>1. k \in 1..len
        BY <1>4, <3>1
      <4> QED BY <1>4, <2>1, <3>1, <4>1
    <3>2. CASE ~ (k <= len)
      <4>1. k - len \in 1..m /\ (Prefix + len) + (k - len) = Prefix + k
        BY <1>1, <1>4, <3>2
      <4>2. u[k - len] = <<i, (Prefix + len) + (k - len)>>
        BY <1>6, <1>7, <4>1 DEF Same
      <4> QED BY <2>1, <3>2, <4>1, <4>2
    <3> QED BY <3>1, <3>2
  <2> QED BY <2>1, <2>2
<1>8. Lacks(r.entry, bytes) <=> len + (n - a) < total
  BY <1>0, <1>2 DEF Lacks
<1>9. CASE len + (n - a) < total
  <2>1. t = KeepAll(r)
    BY <1>4, <1>5, <1>8, <1>9 DEF Turn
  <2>2. /\ t.bytes = <<>> /\ t.entry.valid /\ t.entry.data = data \o bytes
        /\ t.entry.total = total /\ ~ t.missed /\ t.out = r.out
    <3>1. /\ t.bytes = <<>> /\ t.entry.data = r.entry.data \o r.bytes /\ ~ t.missed
          /\ t.entry.total = r.entry.total /\ t.out = r.out /\ t.entry.valid = r.entry.valid
      BY <2>1, SMTT(30) DEF KeepAll, Loop
    <3>2. t.entry.valid
      BY <1>4, <3>1, Zenon
    <3> QED BY <1>0, <1>5, <3>1, <3>2
  <2> HIDE DEF t
  <2>3. \A k \in 1..(n - a) : bytes[k] = q[a + k]
    <3>1. q \in Seq(S) /\ a \in 0..Len(q)
      BY <1>0, <1>1
    <3> QED BY <1>0, <3>1, LeftFacts DEF bytes, Halves
  <2>4. n - a \in Nat /\ n - a <= n - a /\ len + (n - a) <= total
    BY <1>1, <1>4, <1>9
  <2>5. /\ Len(t.entry.data) = len + (n - a)
        /\ \A k \in 1..(len + (n - a)) : t.entry.data[k] = <<i, Prefix + k>>
    <3>1. bytes \in Seq(S) /\ Len(bytes) = n - a
      BY <1>2
    <3>2. /\ Len(data \o bytes) = len + (n - a)
          /\ \A k \in 1..(len + (n - a)) : (data \o bytes)[k] = <<i, Prefix + k>>
      BY <1>7, <2>3, <2>4, <3>1
    <3> QED BY <2>2, <3>2
  <2>6. Partial(t.entry, i)
    BY <1>4, <1>9, <2>2, <2>5 DEF Partial
  <2>7. q[n] = <<i, Prefix + Len(t.entry.data)>>
    <3>1. n - a \in 1..(n - a) /\ a + (n - a) = n /\ (Prefix + len) + (n - a) = Prefix + (len + (n - a))
      BY <1>1, <1>4
    <3>2. Same(q, a, i, Prefix + len, n - a)
      BY <1>6, <2>4
    <3>3. q[a + (n - a)] = <<i, (Prefix + len) + (n - a)>>
      BY <3>1, <3>2 DEF Same
    <3> QED BY <2>5, <3>1, <3>3
  <2>8. Ready(p, t.entry, q, Len(q))
    BY <1>0, <1>1, <2>6, <2>7 DEF Ready
  <2>9. t.bytes = Left(q, Len(q))
    <3>1. n + 1 \in Int /\ n < n + 1 /\ n \in Int
      BY <1>1
    <3>2. SubSeq(q, n + 1, n) = <<>>
      BY <3>1, SubSeqEmpty
    <3> QED BY <1>0, <2>2, <3>2 DEF Left
  <2>10. Out(q, Len(q), t.out)
    <3>1. \A k \in 1..a : k \in 1..Len(q)
      BY <1>0, <1>1
    <3> QED BY <2>2, <3>1 DEF Out
  <2>11. Standing(p, q, t)
    BY <1>0, <1>1, <2>8, <2>9, <2>10 DEF Standing
  <2>12. Len(t.bytes) < Len(r.bytes)
    <3>1. Len(t.bytes) = 0 /\ Len(r.bytes) > 0
      BY <1>1, <1>2, <1>5, <2>2
    <3> QED BY <3>1
  <2> QED BY <2>2, <2>11, <2>12 DEF t
<1>10. CASE ~ (len + (n - a) < total)
  <2> DEFINE take == total - len
             b == a + take
  <2>1. take \in Nat /\ take >= 1 /\ take <= n - a /\ len + take = total
    BY <1>10, <1>11
  <2>2. t = EndMessage(r)
    <3>1. ~ (total < len)
      BY <1>4
    <3> QED BY <1>0, <1>4, <1>5, <1>8, <1>10, <3>1 DEF Turn
  <2>3. /\ t.bytes = Left(bytes, take) /\ t.entry = Empty /\ ~ t.missed
        /\ t.out = Append(r.out, data \o SubSeq(bytes, 1, take))
    <3>1. t = Loop(Empty, Left(r.bytes, r.entry.total - Len(r.entry.data)),
                   Append(r.out, r.entry.data
                                 \o SubSeq(r.bytes, 1, r.entry.total - Len(r.entry.data))))
      BY <2>2 DEF EndMessage, Cleared
    <3>2. t = Loop(Empty, Left(bytes, take), Append(r.out, data \o SubSeq(bytes, 1, take)))
      BY <1>0, <1>5, <3>1
    <3> HIDE DEF t
    <3> QED BY <3>2 DEF Loop
  <2> HIDE DEF t, take
  <2>4. q \in Seq(S) /\ a \in 0..Len(q) /\ take \in 0..(Len(q) - a)
    BY <1>0, <1>1, <2>1
  <2> DEFINE u == SubSeq(bytes, 1, take)
  <2>5. /\ Left(bytes, take) = Left(q, a + take) /\ Len(Left(q, a + take)) = (Len(q) - a) - take
        /\ u \in Seq(S) /\ Len(u) = take /\ \A k \in 1..take : u[k] = q[a + k]
    <3>1. /\ Left(Left(q, a), take) = Left(q, a + take)
          /\ Len(Left(q, a + take)) = (Len(q) - a) - take
          /\ SubSeq(Left(q, a), 1, take) \in Seq(S) /\ Len(SubSeq(Left(q, a), 1, take)) = take
          /\ \A k \in 1..take : SubSeq(Left(q, a), 1, take)[k] = q[a + k]
      <4> HIDE DEF b, u
      <4>1. Parts(S, q, a, take)
        BY <2>4, LeftTwice
      <4> QED BY <4>1 DEF Parts
    <3> QED BY <3>1 DEF bytes
  <2>6. b \in 1..Len(q) /\ a < b /\ b \in 0..Len(q) /\ b > 0
    BY <1>0, <1>1, <2>1
  <2>7. q[b] = <<i, Last(i)>>
    <3>1. take \in 1..take /\ (Prefix + len) + take = Last(i) /\ len + take <= total
      BY <1>1, <1>3, <1>4, <2>1
    <3>2. Same(q, a, i, Prefix + len, take)
      BY <1>6, <2>1, <3>1
    <3> QED BY <3>1, <3>2 DEF Same
  <2>8. data \o u = Payload(i)
    <3>1. /\ data \o u \in Seq(S) /\ Len(data \o u) = total
          /\ \A k \in 1..total : (data \o u)[k] = <<i, Prefix + k>>
      <4>1. len + take <= total
        BY <1>4, <2>1
      <4> HIDE DEF u
      <4> QED BY <1>7, <2>1, <2>5, <4>1
    <3> DEFINE w == data \o u
    <3> HIDE DEF w, u
    <3>2. w \in Seq(S) /\ Len(w) = total /\ \A k \in 1..total : w[k] = <<i, Prefix + k>>
      BY <3>1 DEF w
    <3>3. DOMAIN w = 1..total /\ w = [k \in 1..total |-> w[k]]
      BY <3>2
    <3>4. w = Payload(i)
      BY <1>4, <3>2, <3>3 DEF Payload
    <3> QED BY <3>4 DEF w
  <2>9. q[b][1] = i /\ Done(q[b])
    BY <2>7 DEF Done
  <2>10. Out(q, b, t.out)
    <3>1. r.out \in Seq(Seq(BytesOf(p)))
      BY DEF Reading
    <3>2. t.out = Append(r.out, Payload(q[b][1]))
      BY <2>3, <2>8, <2>9
    <3> HIDE DEF b
    <3> QED BY <2>4, <2>6, <2>9, <3>1, <3>2, OutGrows
  <2>11. b < Len(q) => q[b + 1][2] = 1
    <3> SUFFICES ASSUME b < Len(q) PROVE q[b + 1][2] = 1
      OBVIOUS
    <3>1. b \in 1..(Len(q) - 1)
      BY <2>6
    <3>2. Follows(q[b], q[b + 1])
      BY <3>1 DEF InRow
    <3> QED BY <2>9, <3>2 DEF Follows
  <2>12. Ready(p, t.entry, q, b)
    BY <2>3, <2>9, <2>11 DEF Ready
  <2>13. Standing(p, q, t)
    BY <2>3, <2>5, <2>6, <2>10, <2>12 DEF Standing
  <2>14. Len(t.bytes) < Len(r.bytes)
    <3>1. Len(t.bytes) = (n - a) - take /\ Len(r.bytes) = n - a
      BY <1>0, <1>2, <1>5, <2>3, <2>5
    <3> QED BY <1>1, <2>1, <3>1
  <2> QED BY <2>3, <2>13, <2>14 DEF t
<1> QED BY <1>9, <1>10

LEMMA TurnOrderly ==
  ASSUME TcpLinkAssumption, sent \in Seq(Message), Len(sent) <= MaxMessages,
         NEW p, NEW q \in Seq(BytesOf(p)), InRow(q), NEW garbage \in Garbage,
         NEW r \in Orderly(p, q)
  PROVE  Turn(r, garbage) \in Orderly(p, q) /\ Shorter(r, Turn(r, garbage))
<1> DEFINE t == Turn(r, garbage)
<1>1. /\ r \in Reading(BytesOf(p)) /\ ~ r.missed /\ (Standing(p, q, r) \/ Broken(r))
      /\ r.bytes \in Seq(BytesOf(p))
  BY DEF Orderly, Reading
<1>2. CASE r.bytes = <<>>
  BY <1>2 DEF Turn, Shorter
<1>3. CASE r.bytes # <<>>
  <2>1. PICK a \in 0..Len(q) :
          r.bytes = Left(q, a) /\ Out(q, a, r.out) /\ Ready(p, r.entry, q, a)
    BY <1>1, <1>3 DEF Standing, Broken
  <2>2. a \in 0..(Len(q) - 1) /\ a < Len(q)
    <3>1. Len(q) \in Nat
      OBVIOUS
    <3>2. ASSUME a = Len(q) PROVE FALSE
      <4>1. SubSeq(q, Len(q) + 1, Len(q)) = <<>>
        BY <3>1, SubSeqEmpty
      <4> QED BY <1>3, <2>1, <3>2, <4>1 DEF Left
    <3> QED BY <3>1, <3>2
  <2>3. ~ t.missed /\ (Standing(p, q, t) \/ Broken(t)) /\ Len(t.bytes) < Len(r.bytes)
    <3>1. CASE r.entry = Empty /\ q[a + 1][2] = 1
      BY <1>1, <2>1, <2>2, <3>1, PrefixTurn
    <3>2. ASSUME NEW i \in From(p), Partial(r.entry, i),
                 q[a + 1] = <<i, Prefix + Len(r.entry.data) + 1>>
          PROVE  ~ t.missed /\ Standing(p, q, t) /\ Len(t.bytes) < Len(r.bytes)
      BY <1>1, <2>1, <2>2, <3>2, PayloadTurn
    <3> QED BY <2>1, <2>2, <3>1, <3>2 DEF Ready
  <2>4. t \in Reading(BytesOf(p))
    BY <1>1, TurnTyped
  <2> QED BY <1>3, <2>3, <2>4 DEF Orderly, Shorter
<1> QED BY <1>2, <1>3

(* All bytes are used.                                                      *)
LEMMA AddDataOrderly ==
  ASSUME TcpLinkAssumption, sent \in Seq(Message), Len(sent) <= MaxMessages,
         NEW p, NEW q \in Seq(BytesOf(p)), InRow(q), NEW garbage \in Garbage,
         NEW e \in [valid : BOOLEAN, total : Int, data : Seq(BytesOf(p))], Ready(p, e, q, 0)
  PROVE  LET r == AddData(e, q, garbage) IN r \in Orderly(p, q) /\ r.bytes = <<>>
<1> DEFINE n == 2 * Len(q)
           base == Loop(e, q, <<>>)
<1>1. Len(q) \in Nat /\ n \in Nat /\ Len(q) <= n
  OBVIOUS
<1>2. base \in Orderly(p, q)
  <2>1. base.entry = e /\ base.bytes = q /\ base.out = <<>> /\ ~ base.missed
    BY DEF Loop
  <2>2. base \in Reading(BytesOf(p))
    <3>1. <<>> \in Seq(Seq(BytesOf(p)))
      BY EmptySeq
    <3> QED BY <3>1 DEF Reading, Loop
  <2>3. Left(q, 0) = q
    BY SubSeqFull DEF Left
  <2>4. Out(q, 0, base.out)
    <3>1. DOMAIN base.out = {}
      BY <2>1
    <3> QED BY <3>1 DEF Out
  <2> HIDE DEF base
  <2>5. Standing(p, q, base)
    <3>1. 0 \in 0..Len(q)
      BY <1>1
    <3> QED BY <2>1, <2>3, <2>4, <3>1 DEF Standing
  <2> QED BY <2>1, <2>2, <2>5 DEF Orderly
<1>3. \A r \in Orderly(p, q) : Turn(r, garbage) \in Orderly(p, q)
  BY TurnOrderly
<1>4. PICK f \in [0..n -> Orderly(p, q)] :
        /\ f[0] = base /\ \A k \in 1..n : f[k] = Turn(f[k - 1], garbage)
        /\ f[n] = AddData(e, q, garbage)
  <2>1. Kept(Orderly(p, q), garbage)
    BY <1>3 DEF Kept
  <2>2. PICK f : Turns(f, Orderly(p, q), e, q, garbage)
    BY <1>2, <2>1, AddDataTurns
  <2> QED BY <2>2 DEF Turns
<1> DEFINE G == {k \in 0..n : f[k].bytes = <<>> \/ Len(f[k].bytes) + k <= Len(q)}
<1>5. \A k \in 0..n : f[k] \in Orderly(p, q) /\ Len(f[k].bytes) \in Nat
  <2> SUFFICES ASSUME NEW k \in 0..n PROVE f[k] \in Orderly(p, q) /\ Len(f[k].bytes) \in Nat
    OBVIOUS
  <2>1. f[k] \in Orderly(p, q)
    BY <1>4
  <2>2. f[k].bytes \in Seq(BytesOf(p))
    BY <2>1 DEF Orderly, Reading
  <2> QED BY <2>1, <2>2
<1>6. 0 \in G
  <2>1. f[0].bytes = q
    BY <1>4 DEF Loop
  <2> QED BY <1>1, <2>1
<1> HIDE DEF n, base
<1>7. ASSUME NEW k \in 1..n, k - 1 \in G PROVE k \in G
  <2>1. k - 1 \in 0..n /\ k \in 0..n
    BY <1>1
  <2>2. f[k] = Turn(f[k - 1], garbage) /\ f[k - 1] \in Orderly(p, q)
    BY <1>4, <1>5, <2>1
  <2>3. Shorter(f[k - 1], f[k])
    BY <2>2, TurnOrderly
  <2>4. Len(f[k].bytes) \in Nat /\ Len(f[k - 1].bytes) \in Nat
    BY <1>5, <2>1
  <2>5. CASE f[k - 1].bytes = <<>>
    BY <2>1, <2>3, <2>5 DEF Shorter
  <2>6. CASE f[k - 1].bytes # <<>>
    <3>1. Len(f[k].bytes) < Len(f[k - 1].bytes) /\ Len(f[k - 1].bytes) + (k - 1) <= Len(q)
      BY <1>7, <2>3, <2>6 DEF Shorter
    <3>2. Len(f[k].bytes) + k <= Len(q)
      BY <1>1, <2>4, <3>1
    <3> QED BY <2>1, <3>2
  <2> QED BY <2>5, <2>6
<1>8. n \in G
  <2> HIDE DEF G
  <2>1. 0..n \subseteq G
    BY <1>1, <1>6, <1>7, LoopInduction
  <2> QED BY <1>1, <2>1
<1>9. f[n].bytes = <<>>
  <2> SUFFICES ASSUME f[n].bytes # <<>> PROVE FALSE
    OBVIOUS
  <2>1. Len(f[n].bytes) + n <= Len(q)
    BY <1>8
  <2>2. n \in 0..n
    BY <1>1
  <2>3. f[n].bytes \in Seq(BytesOf(p)) /\ Len(f[n].bytes) \in Nat
    BY <1>5, <2>2 DEF Orderly, Reading
  <2>4. n = 2 * Len(q)
    BY DEF n
  <2>5. Len(f[n].bytes) = 0
    <3>1. PICK x : x = Len(f[n].bytes)
      OBVIOUS
    <3>2. x \in Nat /\ x + n <= Len(q)
      BY <2>1, <2>3, <3>1
    <3>3. x = 0
      BY <1>1, <2>4, <3>2
    <3> QED BY <3>1, <3>3
  <2> QED BY <2>3, <2>5, EmptySeq
<1> QED BY <1>1, <1>4, <1>5, <1>9
-----------------------------------------------------------------------------
(* The message that a sender is at is its last one.                         *)
Begun(p) == sender[p] # "none" => \E c \in From(p) : \A i \in From(p) : i <= c

(* What was sent from p and was read from it are bytes of its messages.     *)
Known(p) == stream[p] \in Seq(BytesOf(p)) /\ entries[p].data \in Seq(BytesOf(p))

(* The messages of the bytes that were not read did not come out yet.       *)
Later(p) == \A k \in DOMAIN stream[p] : After(p, stream[p][k][1])

(* Everything that was sent from p is whole messages ...                    *)
Ended(p) ==
  IF stream[p] = <<>> THEN entries[p] = Empty ELSE Done(stream[p][Len(stream[p])])

(* ... or whole messages and the prefix of message c.                       *)
Prefixed(p, c) ==
  /\ After(p, c)
  /\ IF stream[p] = <<>> THEN Partial(entries[p], c) /\ entries[p].data = <<>>
     ELSE stream[p][Len(stream[p])] = <<c, Prefix>>

Position(p, c) ==
  /\ sender[p] = "prefix" =>
       Ended(p) /\ After(p, c) /\ \A k \in DOMAIN stream[p] : stream[p][k][1] < c
  /\ sender[p] = "payload" => c \in cut \/ Prefixed(p, c)
  /\ sender[p] = "open" => c \in cut \/ Ended(p)

Framed(p) ==
  /\ Ready(p, entries[p], stream[p], 0) /\ InRow(stream[p]) /\ Later(p)
  /\ Position(p, Current(p))

(* The first part of WholeInOrder, for one port.                            *)
Whole(p) ==
  \A j \in DOMAIN income :
    income[j].port = p =>
      /\ \E i \in From(p) : income[j].bytes = Payload(i)
      /\ \A k \in 1..(j - 1) :
           income[k].port = p => income[k].bytes[1][1] < income[j].bytes[1][1]

AtPort(p) == Begun(p) /\ Known(p) /\ (p \notin spoiled => Framed(p) /\ Whole(p))

(* The inductive invariant.                                                 *)
IInv == TypeOK /\ (\A p \in Ports : AtPort(p)) /\ (dead => spoiled # {})

LEMMA CurrentFacts ==
  ASSUME NEW p, Begun(p), sender[p] # "none",
         From(p) \subseteq Nat
  PROVE  Current(p) \in From(p) /\ \A i \in From(p) : i <= Current(p)
BY DEF Begun, Current

LEMMA TypeFacts ==
  ASSUME TypeOK
  PROVE  /\ sent \in Seq(Message) /\ Len(sent) <= MaxMessages
         /\ DOMAIN income = 1..Len(income) /\ Len(income) \in Nat
         /\ \A p \in Ports :
              /\ entries[p] \in [valid : BOOLEAN, total : Int, data : Seq(Byte)]
              /\ stream[p] \in Seq(Byte)
BY DEF TypeOK, Message

(* The messages that were sent from p are still there.                      *)
Grows(p) == From(p) \subseteq From(p)' /\ \A i \in From(p) : sent'[i] = sent[i]

(* What is said about the bytes of the messages stays true.                 *)
LEMMA Grown ==
  ASSUME TcpLinkAssumption, sent \in Seq(Message), Len(sent) <= MaxMessages,
         NEW p, Grows(p), NEW s \in Seq(BytesOf(p)), NEW e
  PROVE  /\ BytesOf(p) \subseteq BytesOf(p)'
         /\ s \in Seq(BytesOf(p)')
         /\ Ready(p, e, s, 0) => Ready(p, e, s, 0)'
         /\ InRow(s) => InRow(s)'
         /\ \A k \in 1..Len(s) : Done(s[k]) => Done(s[k])'
         /\ \A i \in From(p) : (Partial(e, i) => Partial(e, i)') /\ Payload(i)' = Payload(i)
<1>1. \A i \in From(p) : i \in From(p)' /\ sent'[i] = sent[i] /\ Last(i)' = Last(i)
  BY DEF Grows, Last
<1>2. BytesOf(p) \subseteq BytesOf(p)'
  BY <1>1 DEF BytesOf
<1>3. \A k \in 1..Len(s) : s[k] \in BytesOf(p) /\ s[k][1] \in From(p)
  <2>1. \A k \in 1..Len(s) : s[k] \in BytesOf(p)
    BY ElementOfSeq
  <2> QED BY <2>1, ByteFacts
<1>4. \A k \in 1..Len(s) : Done(s[k]) <=> Done(s[k])'
  BY <1>1, <1>3 DEF Done
<1>5. \A i \in From(p) : (Partial(e, i) => Partial(e, i)') /\ Payload(i)' = Payload(i)
  BY <1>1 DEF Partial, Payload
<1>6. Ready(p, e, s, 0) => Ready(p, e, s, 0)'
  <2>1. CASE e = Empty /\ (0 < Len(s) => s[1][2] = 1)
    BY <2>1 DEF Ready
  <2>2. ASSUME NEW i \in From(p), Partial(e, i),
               0 < Len(s) => s[1] = <<i, Prefix + Len(e.data) + 1>>
        PROVE  Ready(p, e, s, 0)'
    <3>1. i \in From(p)' /\ Partial(e, i)'
      BY <1>1, <1>5, <2>2
    <3> QED BY <2>2, <3>1 DEF Ready
  <2> QED BY <2>1, <2>2 DEF Ready
<1>7. InRow(s) => InRow(s)'
  <2> SUFFICES ASSUME InRow(s) PROVE InRow(s)'
    OBVIOUS
  <2>1. ASSUME NEW k \in 1..(Len(s) - 1) PROVE Follows(s[k], s[k + 1])'
    <3>1. k \in 1..Len(s) /\ k + 1 \in 1..Len(s)
      OBVIOUS
    <3>2. Follows(s[k], s[k + 1])
      BY DEF InRow
    <3> QED BY <1>4, <3>1, <3>2 DEF Follows
  <2>2. \A k, l \in 1..Len(s) : k < l => Precedes(s[k], s[l])'
    BY DEF InRow, Precedes
  <2> QED BY <2>1, <2>2 DEF InRow
<1>8. s \in Seq(BytesOf(p)')
  BY <1>2, SeqMonotonic
<1> QED BY <1>2, <1>4, <1>5, <1>6, <1>7, <1>8

(* Nothing came out for p.                                                  *)
SameIncome(p) ==
  /\ DOMAIN income \subseteq DOMAIN income' /\ DOMAIN income' = 1..Len(income')
  /\ Len(income') \in Nat
  /\ \A j \in DOMAIN income' : income'[j].port = p => j \in DOMAIN income /\ income'[j] = income[j]

LEMMA IncomeKept ==
  ASSUME NEW p, SameIncome(p)
  PROVE  \A i : After(p, i) => After(p, i)'
BY DEF SameIncome, After

LEMMA WholeKept ==
  ASSUME TcpLinkAssumption, sent \in Seq(Message), Len(sent) <= MaxMessages,
         NEW p, Grows(p), SameIncome(p), Whole(p)
  PROVE  Whole(p)'
<1>1. \A i \in From(p) : i \in From(p)' /\ Payload(i)' = Payload(i)
  BY DEF Grows, Payload
<1>2. SUFFICES ASSUME NEW j \in DOMAIN income', income'[j].port = p
               PROVE  /\ \E i \in From(p)' : income'[j].bytes = Payload(i)'
                      /\ \A k \in 1..(j - 1) : income'[k].port = p =>
                           income'[k].bytes[1][1] < income'[j].bytes[1][1]
  BY DEF Whole
<1>3. j \in DOMAIN income /\ income'[j] = income[j]
  BY <1>2 DEF SameIncome
<1>4. \A k \in 1..(j - 1) : income'[k].port = p => income'[k] = income[k]
  BY <1>2 DEF SameIncome
<1>5. \E i \in From(p)' : income'[j].bytes = Payload(i)'
  BY <1>1, <1>2, <1>3 DEF Whole
<1> QED BY <1>2, <1>3, <1>4, <1>5 DEF Whole

LEMMA SameSent ==
  ASSUME sent' = sent
  PROVE  \A p : Grows(p) /\ From(p)' = From(p) /\ BytesOf(p)' = BytesOf(p)
BY DEF Grows, From, BytesOf, Last

LEMMA SameIncomeFacts ==
  ASSUME TypeOK, income' = income
  PROVE  \A p : SameIncome(p)
BY TypeFacts DEF SameIncome

(* Ended and Prefixed stay true as well.                                    *)
LEMMA PositionKept ==
  ASSUME TcpLinkAssumption, sent \in Seq(Message), Len(sent) <= MaxMessages,
         NEW p, Known(p), Grows(p), SameIncome(p),
         stream'[p] = stream[p], entries'[p] = entries[p]
  PROVE  /\ Ended(p) => Ended(p)'
         /\ \A c \in From(p) : Prefixed(p, c) => Prefixed(p, c)'
<1> PICK s, e : s = stream[p] /\ e = entries[p]
  OBVIOUS
<1>1. s \in Seq(BytesOf(p)) /\ s = stream'[p] /\ e = entries'[p] /\ Len(s) \in Nat
  BY DEF Known
<1>2. /\ \A k \in 1..Len(s) : Done(s[k]) => Done(s[k])'
      /\ \A i \in From(p) : Partial(e, i) => Partial(e, i)'
  BY <1>1, Grown
<1>3. s # <<>> => Len(s) \in 1..Len(s)
  BY <1>1, EmptySeq
<1>4. Ended(p) => Ended(p)'
  <2>1. Ended(p)' <=> IF s = <<>> THEN e = Empty ELSE Done(s[Len(s)])'
    BY <1>1 DEF Ended
  <2>2. Ended(p) <=> IF s = <<>> THEN e = Empty ELSE Done(s[Len(s)])
    BY DEF Ended
  <2> QED BY <1>2, <1>3, <2>1, <2>2
<1>5. ASSUME NEW c \in From(p), Prefixed(p, c) PROVE Prefixed(p, c)'
  <2>1. After(p, c)'
    BY <1>5, IncomeKept DEF Prefixed
  <2>2. IF s = <<>> THEN Partial(e, c) /\ e.data = <<>> ELSE s[Len(s)] = <<c, Prefix>>
    BY <1>5 DEF Prefixed
  <2>3. IF s = <<>> THEN Partial(e, c)' /\ e.data = <<>> ELSE s[Len(s)] = <<c, Prefix>>
    BY <1>2, <2>2
  <2>4. Prefixed(p, c)' <=>
          /\ After(p, c)'
          /\ IF s = <<>> THEN Partial(e, c)' /\ e.data = <<>> ELSE s[Len(s)] = <<c, Prefix>>
    BY <1>1 DEF Prefixed
  <2> QED BY <2>1, <2>3, <2>4
<1> QED BY <1>4, <1>5

(* An action that is not at p.                                              *)
Untouched(p) ==
  /\ Grows(p) /\ From(p)' = From(p) /\ SameIncome(p)
  /\ stream'[p] = stream[p] /\ entries'[p] = entries[p] /\ sender'[p] = sender[p]
  /\ cut \subseteq cut' /\ spoiled \subseteq spoiled'

LEMMA StreamOf ==
  ASSUME NEW p, NEW u, stream'[p] = u
  PROVE  InRow(stream[p])' <=> InRow(u)'
BY DEF InRow, Follows, Precedes, Done, Last

LEMMA ReadyKept ==
  ASSUME TcpLinkAssumption, sent \in Seq(Message), Len(sent) <= MaxMessages,
         NEW p, AtPort(p), Grows(p), SameIncome(p),
         stream'[p] = stream[p], entries'[p] = entries[p]
  PROVE  /\ Known(p)'
         /\ Framed(p) => Ready(p, entries[p], stream[p], 0)' /\ InRow(stream[p])' /\ Later(p)'
         /\ Whole(p) => Whole(p)'
<1> PICK s, e : s = stream[p] /\ e = entries[p]
  OBVIOUS
<1>1. /\ s \in Seq(BytesOf(p)) /\ e.data \in Seq(BytesOf(p))
      /\ s = stream'[p] /\ e = entries'[p]
  BY DEF AtPort, Known
<1>2. /\ BytesOf(p) \subseteq BytesOf(p)' /\ s \in Seq(BytesOf(p)')
      /\ Ready(p, e, s, 0) => Ready(p, e, s, 0)'
      /\ InRow(s) => InRow(s)'
  BY <1>1, Grown
<1>3. e.data \in Seq(BytesOf(p)')
  BY <1>1, <1>2, SeqMonotonic
<1>4. Known(p)'
  BY <1>1, <1>2, <1>3 DEF Known
<1>5. ASSUME Framed(p)
      PROVE  Ready(p, entries[p], stream[p], 0)' /\ InRow(stream[p])'
  <2>1. Ready(p, e, s, 0) /\ InRow(s)
    BY <1>5 DEF Framed
  <2>2. Ready(p, e, s, 0)' /\ InRow(s)'
    BY <1>2, <2>1
  <2>3. Ready(p, entries[p], stream[p], 0)' <=> Ready(p, e, s, 0)'
    BY <1>1 DEF Ready, Partial, Done, Last
  <2>4. InRow(stream[p])' <=> InRow(s)'
    BY <1>1, StreamOf
  <2> QED BY <2>2, <2>3, <2>4
<1>6. ASSUME Framed(p) PROVE Later(p)'
  <2>1. \A k \in DOMAIN s : After(p, s[k][1])
    BY <1>6 DEF Framed, Later
  <2>2. \A k \in DOMAIN s : After(p, s[k][1])'
    BY <2>1, IncomeKept
  <2> QED BY <1>1, <2>2 DEF Later
<1> QED BY <1>4, <1>5, <1>6, WholeKept

LEMMA PortKept ==
  ASSUME TcpLinkAssumption, sent \in Seq(Message), Len(sent) <= MaxMessages,
         NEW p, AtPort(p), Untouched(p)
  PROVE  AtPort(p)'
<1> USE DEF Untouched
<1>1. Begun(p)'
  BY DEF AtPort, Begun
<1>2. Known(p)' /\ (Whole(p) => Whole(p)')
  BY ReadyKept
<1>3. ASSUME Framed(p) PROVE Framed(p)'
  <2> PICK c : c = Current(p)
    OBVIOUS
  <2>1. Current(p)' = c
    BY DEF Current
  <2>2. Position(p, c)
    BY <1>3 DEF Framed
  <2>3. (Ended(p) => Ended(p)') /\ \A i : After(p, i) => After(p, i)'
    BY PositionKept, IncomeKept DEF AtPort
  <2>4. sender[p] = "payload" => (Prefixed(p, c) => Prefixed(p, c)')
    <3>1. From(p) \subseteq Nat
      BY SentFacts
    <3>2. sender[p] = "payload" => c \in From(p)
      BY <3>1, CurrentFacts DEF AtPort
    <3>3. \A i \in From(p) : Prefixed(p, i) => Prefixed(p, i)'
      BY PositionKept DEF AtPort
    <3> QED BY <3>2, <3>3
  <2>5. Position(p, c)'
    BY <2>2, <2>3, <2>4 DEF Position
  <2>6. Position(p, Current(p))'
    BY <2>1, <2>5 DEF Position, Prefixed
  <2> QED BY <1>3, <2>6, ReadyKept DEF Framed
<1> QED BY <1>1, <1>2, <1>3 DEF AtPort
-----------------------------------------------------------------------------
LEMMA InvFacts ==
  ASSUME IInv
  PROVE  /\ TypeOK /\ sent \in Seq(Message) /\ Len(sent) <= MaxMessages
         /\ \A p \in Ports : AtPort(p) /\ Begun(p) /\ Known(p)
BY TypeFacts DEF IInv, AtPort

LEMMA AcceptKeeps ==
  ASSUME TcpLinkAssumption, IInv, NEW p \in Ports, Accept(p)
  PROVE  IInv'
<1> USE DEF Accept, senderVars, historyVars
<1>1. TypeOK'
  BY DEF IInv, TypeOK
<1>2. ASSUME NEW o \in Ports PROVE AtPort(o)'
  <2>1. Untouched(o)
    BY InvFacts, SameSent, SameIncomeFacts DEF Untouched
  <2> QED BY <2>1, InvFacts, PortKept
<1> QED BY <1>1, <1>2 DEF IInv

LEMMA CloseSocketKeeps ==
  ASSUME TcpLinkAssumption, IInv, NEW p \in Ports, CloseSocket(p)
  PROVE  IInv'
<1> USE DEF CloseSocket, serverVars, historyVars
<1>1. TypeOK'
  BY DEF IInv, TypeOK
<1>2. ASSUME NEW o \in Ports, o # p PROVE AtPort(o)'
  <2>1. sender'[o] = sender[o]
    BY <1>2 DEF IInv, TypeOK
  <2>2. Untouched(o)
    BY <2>1, InvFacts, SameSent, SameIncomeFacts DEF Untouched
  <2> QED BY <2>2, InvFacts, PortKept
<1>3. AtPort(p)'
  <2>1. sender'[p] = "closed" /\ sender[p] = "open"
    BY DEF IInv, TypeOK
  <2>2. Grows(p) /\ From(p)' = From(p) /\ SameIncome(p)
    BY InvFacts, SameSent, SameIncomeFacts
  <2>3. Begun(p)'
    BY <2>1, <2>2, InvFacts DEF Begun
  <2>4. /\ Known(p)'
        /\ Framed(p) => Ready(p, entries[p], stream[p], 0)' /\ InRow(stream[p])' /\ Later(p)'
        /\ Whole(p) => Whole(p)'
    BY <2>2, InvFacts, ReadyKept
  <2>5. Position(p, Current(p))'
    BY <2>1 DEF Position
  <2>6. p \notin spoiled => Framed(p) /\ Whole(p)
    BY InvFacts DEF AtPort
  <2> QED BY <2>3, <2>4, <2>5, <2>6 DEF AtPort, Framed
<1> QED BY <1>1, <1>2, <1>3 DEF IInv

(* A connection that is closed leaves nothing of what was not read.         *)
LEMMA CloseKeeps ==
  ASSUME TcpLinkAssumption, IInv, NEW p \in Ports, CloseClient(p)
  PROVE  \A o \in Ports : AtPort(o)'
<1> USE DEF CloseClient, Close
<1>0. /\ \A o \in Ports : Grows(o) /\ From(o)' = From(o) /\ SameIncome(o)
      /\ BytesOf(p)' = BytesOf(p)
  BY InvFacts, SameSent, SameIncomeFacts
<1>1. ASSUME NEW o \in Ports, o # p PROVE AtPort(o)'
  <2>1. sender'[o] = sender[o] /\ stream'[o] = stream[o]
    BY <1>1 DEF IInv, TypeOK
  <2>2. Untouched(o)
    BY <1>0, <2>1 DEF Untouched
  <2> QED BY <2>2, InvFacts, PortKept
<1>2. AtPort(p)'
  <2>1. sender'[p] = "none" /\ stream'[p] = <<>> /\ entries'[p] = entries[p] /\ Len(<<>>) = 0
    BY DEF IInv, TypeOK
  <2>2. Begun(p)' /\ Position(p, Current(p))'
    BY <2>1 DEF Begun, Position
  <2>3. Known(p)'
    <3>1. <<>> \in Seq(BytesOf(p))
      BY EmptySeq
    <3> QED BY <1>0, <2>1, <3>1, InvFacts DEF Known
  <2>4. Whole(p) => Whole(p)'
    BY <1>0, InvFacts, WholeKept
  <2>5. InRow(stream[p])' /\ Later(p)'
    BY <2>1 DEF InRow, Later
  <2>6. ASSUME Framed(p) PROVE Ready(p, entries[p], stream[p], 0)'
    <3> PICK e : e = entries[p]
      OBVIOUS
    <3>1. Ready(p, e, stream[p], 0)
      BY <2>6 DEF Framed
    <3>2. e = Empty \/ \E i \in From(p) : Partial(e, i)
      BY <3>1 DEF Ready
    <3>3. ASSUME NEW i \in From(p), Partial(e, i) PROVE i \in From(p)' /\ Partial(e, i)'
      BY <1>0, <3>3 DEF Partial
    <3> QED BY <2>1, <3>2, <3>3 DEF Ready
  <2>7. p \notin spoiled => Framed(p) /\ Whole(p)
    BY InvFacts DEF AtPort
  <2> QED BY <2>2, <2>3, <2>4, <2>5, <2>6, <2>7 DEF AtPort, Framed
<1> QED BY <1>1, <1>2

LEMMA CloseTypes ==
  ASSUME TcpLinkAssumption, IInv, NEW p \in Ports, CloseClient(p)
  PROVE  /\ sender' \in [Ports -> {"none", "prefix", "payload", "open", "closed"}]
         /\ stream' \in [Ports -> Seq(Byte)]
         /\ \A o \in Ports : sender'[o] = "none" => o \notin clients' /\ stream'[o] = <<>>
         /\ clients' \subseteq Ports /\ cut' \subseteq DOMAIN sent'
         /\ UNCHANGED <<sent, entries, income, dead, spoiled>>
<1> USE DEF CloseClient, Close
<1>1. <<>> \in Seq(Byte)
  BY EmptySeq
<1>2. cut' \subseteq DOMAIN sent
  <2>1. cut \subseteq DOMAIN sent
    BY DEF IInv, TypeOK
  <2>2. \A k \in DOMAIN stream[p] : stream[p][k][1] \in DOMAIN sent
    <3> SUFFICES ASSUME NEW k \in DOMAIN stream[p] PROVE stream[p][k][1] \in DOMAIN sent
      OBVIOUS
    <3>1. stream[p] \in Seq(BytesOf(p)) /\ k \in 1..Len(stream[p])
      BY InvFacts DEF Known
    <3>2. stream[p][k] \in BytesOf(p)
      BY <3>1, ElementOfSeq
    <3> QED BY <3>2 DEF BytesOf, From
  <2>3. sender[p] \in {"prefix", "payload"} => Current(p) \in DOMAIN sent
    <3>1. From(p) \subseteq Nat /\ From(p) \subseteq DOMAIN sent
      BY InvFacts, SentFacts
    <3>2. sender[p] # "none" => Current(p) \in From(p)
      BY <3>1, InvFacts, CurrentFacts
    <3> QED BY <3>1, <3>2
  <2> QED BY <2>1, <2>2, <2>3
<1> QED BY <1>1, <1>2 DEF IInv, TypeOK

LEMMA CheckIdleSocketsKeeps ==
  ASSUME TcpLinkAssumption, IInv, NEW p \in Ports, CheckIdleSockets(p)
  PROVE  IInv'
<1>1. CloseClient(p) /\ handled' = handled /\ (faults' = faults \/ (faults < MaxFaults /\ faults' = faults + 1))
  BY DEF CheckIdleSockets
<1>2. faults' \in 0..MaxFaults
  BY <1>1 DEF IInv, TypeOK, TcpLinkAssumption
<1>3. TypeOK'
  BY <1>1, <1>2, CloseTypes DEF IInv, TypeOK
<1> QED BY <1>1, <1>3, CloseKeeps, CloseTypes DEF IInv

LEMMA HandleKeeps ==
  ASSUME TcpLinkAssumption, IInv, Handle
  PROVE  IInv'
<1>1. handled' = handled + 1 /\ handled' \in 0..Len(income) /\ handled' \in 1..Len(income)
      /\ faults' = faults
  BY DEF Handle, IInv, TypeOK
<1>2. CASE CloseClient(income[handled'].port)
  <2>1. PICK p : p = income[handled'].port
    OBVIOUS
  <2>2. p \in Ports /\ CloseClient(p)
    <3>1. p \in Ports
      <4>1. income \in Seq([port : Ports, bytes : Seq(Byte)])
        BY DEF IInv, TypeOK
      <4>2. income[handled'] \in [port : Ports, bytes : Seq(Byte)]
        BY <1>1, <4>1, ElementOfSeq
      <4> QED BY <2>1, <4>2
    <3>2. CloseClient(p)
      BY <1>2, <2>1 DEF CloseClient, Close
    <3> QED BY <3>1, <3>2
  <2>3. TypeOK'
    BY <1>1, <2>2, CloseTypes DEF IInv, TypeOK
  <2> QED BY <2>2, <2>3, CloseKeeps, CloseTypes DEF IInv
<1>3. CASE UNCHANGED <<senderVars, stream, clients, entries, income, dead, historyVars>>
  <2> USE DEF senderVars, historyVars
  <2>1. TypeOK'
    BY <1>1, <1>3 DEF IInv, TypeOK
  <2>2. ASSUME NEW o \in Ports PROVE AtPort(o)'
    <3>1. Untouched(o)
      BY <1>3, InvFacts, SameSent, SameIncomeFacts DEF Untouched
    <3> QED BY <3>1, InvFacts, PortKept
  <2> QED BY <1>3, <2>1, <2>2 DEF IInv
<1> QED BY <1>2, <1>3 DEF Handle

(* Bytes b + 1 to b + m of message c.                                       *)
Piece(t, c, b, m) ==
  /\ Len(t) = m /\ m \in Nat /\ b \in Nat /\ b + m <= Last(c)
  /\ \A k \in 1..m : t[k] = <<c, b + k>>

LEMMA PieceInRow ==
  ASSUME NEW p, NEW t \in Seq(BytesOf(p)), NEW c, NEW b, NEW m, Piece(t, c, b, m),
         Last(c) \in Nat, c \in Nat
  PROVE  InRow(t)
<1> USE DEF Piece
<1>1. ASSUME NEW k \in 1..(Len(t) - 1) PROVE Follows(t[k], t[k + 1])
  <2>1. t[k] = <<c, b + k>> /\ t[k + 1] = <<c, b + (k + 1)>>
    OBVIOUS
  <2>2. b + k < Last(c) /\ b + (k + 1) = (b + k) + 1 /\ b + k \in Nat
    OBVIOUS
  <2>3. ~ Done(t[k])
    BY <2>1, <2>2 DEF Done
  <2> QED BY <2>1, <2>2, <2>3 DEF Follows
<1>2. ASSUME NEW k \in 1..Len(t), NEW l \in 1..Len(t), k < l PROVE Precedes(t[k], t[l])
  <2>1. t[k] = <<c, b + k>> /\ t[l] = <<c, b + l>> /\ b + k < b + l
    BY <1>2
  <2> QED BY <2>1 DEF Precedes
<1> QED BY <1>1, <1>2 DEF InRow

(* Bytes that are sent after others, and come after them.                   *)
Joins(s, t) ==
  /\ s # <<>> => Follows(s[Len(s)], t[1])
  /\ \A k \in 1..Len(s), l \in 1..Len(t) : Precedes(s[k], t[l])

Appended(S, u, s, t) ==
  /\ u \in Seq(S) /\ Len(u) = Len(s) + Len(t) /\ Len(s) \in Nat /\ Len(t) \in Nat
  /\ \A k \in 1..Len(s) : u[k] = s[k]
  /\ \A k \in 1..Len(t) : u[Len(s) + k] = t[k]

LEMMA AppendedFacts ==
  ASSUME NEW S, NEW s \in Seq(S), NEW t \in Seq(S)
  PROVE  Appended(S, s \o t, s, t)
<1>1. Len(s) \in Nat /\ Len(t) \in Nat
  OBVIOUS
<1>2. /\ s \o t \in Seq(S) /\ Len(s \o t) = Len(s) + Len(t)
      /\ \A k \in 1..(Len(s) + Len(t)) :
           (s \o t)[k] = IF k <= Len(s) THEN s[k] ELSE t[k - Len(s)]
  BY ConcatProperties
<1>3. ASSUME NEW k \in 1..Len(s) PROVE (s \o t)[k] = s[k]
  BY <1>1, <1>2
<1>4. ASSUME NEW k \in 1..Len(t) PROVE (s \o t)[Len(s) + k] = t[k]
  <2>1. /\ Len(s) + k \in 1..(Len(s) + Len(t)) /\ ~ (Len(s) + k <= Len(s))
        /\ (Len(s) + k) - Len(s) = k
    BY <1>1
  <2> QED BY <1>2, <2>1
<1> QED BY <1>1, <1>2, <1>3, <1>4 DEF Appended

LEMMA JoinInRow ==
  ASSUME NEW p, NEW s \in Seq(BytesOf(p)), NEW t \in Seq(BytesOf(p)),
         InRow(s), InRow(t), Joins(s, t)
  PROVE  InRow(s \o t)
<1> DEFINE u == s \o t
<1>1. /\ Len(u) = Len(s) + Len(t) /\ Len(s) \in Nat /\ Len(t) \in Nat
      /\ \A k \in 1..Len(s) : u[k] = s[k]
      /\ \A k \in 1..Len(t) : u[Len(s) + k] = t[k]
  BY AppendedFacts DEF Appended
<1> HIDE DEF u
<1>2. ASSUME NEW k \in 1..Len(u)
      PROVE  k \in 1..Len(s) \/ \E l \in 1..Len(t) : k = Len(s) + l
  <2>1. CASE k <= Len(s)
    BY <2>1
  <2>2. CASE ~ (k <= Len(s))
    <3>1. k - Len(s) \in 1..Len(t) /\ k = Len(s) + (k - Len(s))
      BY <1>1, <2>2
    <3> QED BY <3>1
  <2> QED BY <2>1, <2>2
<1>3. ASSUME NEW k \in 1..(Len(u) - 1) PROVE Follows(u[k], u[k + 1])
  <2>1. CASE k <= Len(s) - 1
    <3>1. k \in 1..(Len(s) - 1) /\ k \in 1..Len(s) /\ k + 1 \in 1..Len(s)
      BY <1>1, <2>1
    <3> QED BY <1>1, <3>1 DEF InRow
  <2>2. CASE k = Len(s)
    <3>1. k \in 1..Len(s) /\ 1 \in 1..Len(t) /\ s # <<>>
      BY <1>1, <2>2, EmptySeq
    <3>2. u[k] = s[Len(s)] /\ u[k + 1] = t[1]
      BY <1>1, <2>2, <3>1
    <3> QED BY <3>1, <3>2 DEF Joins
  <2>3. CASE k > Len(s)
    <3>0. k \in 1..Len(u) /\ ~ (k \in 1..Len(s))
      BY <1>1, <2>3
    <3>1. PICK l \in 1..Len(t) : k = Len(s) + l
      BY <1>2, <3>0
    <3>2. l \in 1..(Len(t) - 1) /\ l + 1 \in 1..Len(t) /\ k + 1 = Len(s) + (l + 1)
      BY <1>1, <3>1
    <3>3. u[k] = t[l] /\ u[k + 1] = t[l + 1]
      BY <1>1, <3>1, <3>2
    <3> QED BY <3>2, <3>3 DEF InRow
  <2> QED BY <1>1, <2>1, <2>2, <2>3
<1>4. ASSUME NEW k \in 1..Len(u), NEW m \in 1..Len(u), k < m PROVE Precedes(u[k], u[m])
  <2>1. CASE k \in 1..Len(s) /\ m \in 1..Len(s)
    BY <1>1, <1>4, <2>1 DEF InRow
  <2>2. ASSUME k \in 1..Len(s), NEW l \in 1..Len(t), m = Len(s) + l PROVE Precedes(u[k], u[m])
    BY <1>1, <2>2 DEF Joins
  <2>3. ASSUME NEW j \in 1..Len(t), k = Len(s) + j, NEW l \in 1..Len(t), m = Len(s) + l
        PROVE  Precedes(u[k], u[m])
    <3>1. j < l
      BY <1>1, <1>4, <2>3
    <3> QED BY <1>1, <2>3, <3>1 DEF InRow
  <2>4. ASSUME NEW j \in 1..Len(t), k = Len(s) + j, m \in 1..Len(s) PROVE FALSE
    BY <1>1, <1>4, <2>4
  <2> QED BY <1>2, <2>1, <2>2, <2>3, <2>4
<1> QED BY <1>3, <1>4 DEF InRow, u

(* The entry waits for the same byte as before, or for the first new one.   *)
LEMMA JoinReady ==
  ASSUME NEW p, NEW s \in Seq(BytesOf(p)), NEW t \in Seq(BytesOf(p)), NEW e,
         Ready(p, e, s, 0), s = <<>> => Ready(p, e, t, 0)
  PROVE  Ready(p, e, s \o t, 0)
<1>1. CASE s = <<>>
  <2>1. s \o t = t
    BY <1>1, ConcatEmptySeq
  <2> QED BY <1>1, <2>1
<1>2. CASE s # <<>>
  <2>1. 0 < Len(s) /\ 1 \in 1..Len(s)
    BY <1>2, EmptySeq
  <2>2. (s \o t)[1] = s[1]
    BY <2>1, AppendedFacts DEF Appended
  <2> QED BY <2>1, <2>2 DEF Ready
<1> QED BY <1>1, <1>2

(* A sender that is at p sends bytes of its message, or none; it is further *)
(* in that message then.                                                    *)
Sends(p, t, where) ==
  /\ stream' = [stream EXCEPT ![p] = @ \o t]
  /\ sender' = [sender EXCEPT ![p] = where]
  /\ UNCHANGED <<sent, serverVars>>

LEMMA SendKeeps ==
  ASSUME TcpLinkAssumption, IInv, NEW p \in Ports, NEW t \in Seq(BytesOf(p)), NEW where,
         where \in {"payload", "open"}, sender[p] # "none",
         Sends(p, t, where), faults' \in 0..MaxFaults,
         cut \subseteq cut', cut' \subseteq DOMAIN sent,
         spoiled \subseteq spoiled', spoiled' \subseteq Ports,
         p \notin spoiled' =>
           \/ t = <<>>
           \/ /\ InRow(t) /\ Joins(stream[p], t) /\ After(p, Current(p))
              /\ stream[p] = <<>> => Ready(p, entries[p], t, 0)
              /\ \A k \in DOMAIN t : t[k][1] = Current(p),
         p \notin spoiled' => Position(p, Current(p))'
  PROVE  IInv'
<1> USE DEF Sends, serverVars
<1> PICK s, e, c : s = stream[p] /\ e = entries[p] /\ c = Current(p)
  OBVIOUS
<1>1. /\ \A o \in Ports : Grows(o) /\ From(o)' = From(o) /\ SameIncome(o)
      /\ BytesOf(p)' = BytesOf(p)
  BY InvFacts, SameSent, SameIncomeFacts
<1>2. /\ stream'[p] = s \o t /\ entries'[p] = e /\ sender'[p] = where
      /\ s \in Seq(BytesOf(p)) /\ e.data \in Seq(BytesOf(p))
  BY InvFacts DEF IInv, TypeOK, Known
<1>3. s \o t \in Seq(BytesOf(p))
  BY <1>2, ConcatProperties
<1>4. TypeOK'
  <2>1. stream' \in [Ports -> Seq(Byte)]
    <3>1. BytesOf(p) \subseteq Byte
      BY DEF BytesOf
    <3>2. s \o t \in Seq(Byte)
      BY <1>3, <3>1, SeqMonotonic
    <3> QED BY <3>2 DEF IInv, TypeOK
  <2>2. sender' \in [Ports -> {"none", "prefix", "payload", "open", "closed"}]
    BY DEF IInv, TypeOK
  <2>3. \A o \in Ports : sender'[o] = "none" => o \notin clients' /\ stream'[o] = <<>>
    BY <1>2 DEF IInv, TypeOK
  <2> QED BY <2>1, <2>2, <2>3 DEF IInv, TypeOK
<1>5. ASSUME NEW o \in Ports, o # p PROVE AtPort(o)'
  <2>1. sender'[o] = sender[o] /\ stream'[o] = stream[o]
    BY <1>5 DEF IInv, TypeOK
  <2>2. Untouched(o)
    BY <1>1, <2>1 DEF Untouched
  <2> QED BY <2>2, InvFacts, PortKept
<1>6. AtPort(p)'
  <2>1. Begun(p)'
    BY <1>1, InvFacts DEF Begun
  <2>2. Known(p)'
    BY <1>1, <1>2, <1>3 DEF Known
  <2>3. Whole(p) => Whole(p)'
    BY <1>1, InvFacts, WholeKept
  <2>4. ASSUME p \notin spoiled'
        PROVE  Ready(p, entries[p], stream[p], 0)' /\ InRow(stream[p])' /\ Later(p)'
    <3>1. Ready(p, e, s, 0) /\ InRow(s) /\ Later(p)
      BY <2>4, InvFacts DEF AtPort, Framed
    <3>2. CASE t = <<>>
      <4>1. s \o t = s
        BY <1>2, <3>2, ConcatEmptySeq
      <4>2. /\ Known(p)'
            /\ Framed(p) => Ready(p, entries[p], stream[p], 0)' /\ InRow(stream[p])' /\ Later(p)'
        BY <1>1, <1>2, <4>1, InvFacts, ReadyKept
      <4> QED BY <2>4, <4>2, InvFacts DEF AtPort
    <3>3. CASE t # <<>>
      <4>1. /\ InRow(t) /\ Joins(s, t) /\ After(p, c)
            /\ s = <<>> => Ready(p, e, t, 0)
            /\ \A k \in DOMAIN t : t[k][1] = c
        BY <2>4, <3>3
      <4>2. InRow(s \o t)
        BY <1>2, <3>1, <4>1, JoinInRow
      <4>3. Ready(p, e, s \o t, 0)
        BY <1>2, <3>1, <4>1, JoinReady
      <4>4. Ready(p, e, s \o t, 0)'
        BY <1>1, <1>3, <4>3, InvFacts, Grown
      <4>5. Ready(p, entries[p], stream[p], 0)'
        BY <1>2, <4>4 DEF Ready, Partial, Done, Last
      <4>6. InRow(stream[p])'
        <5>1. PICK u : u = s \o t
          OBVIOUS
        <5>2. u \in Seq(BytesOf(p)) /\ InRow(u) /\ stream'[p] = u
          BY <1>2, <1>3, <4>2, <5>1
        <5>3. InRow(u)'
          BY <1>1, <5>2, InvFacts, Grown
        <5>4. InRow(stream[p])' <=> InRow(u)'
          BY <5>2, StreamOf
        <5> QED BY <5>3, <5>4
      <4>7. ASSUME NEW k \in DOMAIN (s \o t) PROVE After(p, (s \o t)[k][1])
        <5>1. /\ DOMAIN (s \o t) = 1..(Len(s) + Len(t)) /\ DOMAIN s = 1..Len(s)
              /\ DOMAIN t = 1..Len(t) /\ Len(s) \in Nat /\ Len(t) \in Nat
              /\ (s \o t)[k] = IF k <= Len(s) THEN s[k] ELSE t[k - Len(s)]
          <6>1. s \o t \in Seq(BytesOf(p)) /\ Len(s \o t) = Len(s) + Len(t)
            BY <1>2, ConcatProperties
          <6>2. DOMAIN (s \o t) = 1..(Len(s) + Len(t))
            BY <6>1, LenProperties
          <6> QED BY <1>2, <6>2, ConcatProperties, LenProperties
        <5>2. CASE k <= Len(s)
          <6>1. k \in DOMAIN s
            BY <5>1, <5>2
          <6> QED BY <3>1, <5>1, <5>2, <6>1 DEF Later
        <5>3. CASE ~ (k <= Len(s))
          <6>1. k - Len(s) \in DOMAIN t
            BY <5>1, <5>3
          <6> QED BY <4>1, <5>1, <5>3, <6>1
        <5> QED BY <5>2, <5>3
      <4>8. Later(p)'
        BY <1>1, <1>2, <4>7, IncomeKept DEF Later
      <4> QED BY <4>5, <4>6, <4>8
    <3> QED BY <3>2, <3>3
  <2>5. p \notin spoiled' => Whole(p)
    BY InvFacts DEF AtPort
  <2> QED BY <2>1, <2>2, <2>3, <2>4, <2>5 DEF AtPort, Framed
<1> QED BY <1>4, <1>5, <1>6 DEF IInv

(* The message that a sender is at.                                         *)
LEMMA SenderFacts ==
  ASSUME TcpLinkAssumption, IInv, NEW p \in Ports, sender[p] # "none"
  PROVE  /\ Current(p) \in From(p) /\ Current(p) \in DOMAIN sent /\ Current(p) \in Nat
         /\ Current(p) \in 1..MaxMessages
         /\ Last(Current(p)) \in Nat /\ Last(Current(p)) > Prefix
         /\ sent[Current(p)].length \in Nat /\ sent[Current(p)].length >= 1
         /\ sent[Current(p)].length <= MaxLength
         /\ Prefix \in Nat /\ Prefix >= 1 /\ MaxLength \in Nat
<1>1. From(p) \subseteq DOMAIN sent /\ DOMAIN sent \subseteq Nat
  BY InvFacts, SentFacts
<1>2. Current(p) \in From(p)
  BY <1>1, InvFacts, CurrentFacts
<1>3. Current(p) \in DOMAIN sent
  BY <1>1, <1>2
<1> QED BY <1>1, <1>2, <1>3, InvFacts, SentFacts DEF TcpLinkAssumption

(* Sending nothing.                                                         *)
LEMMA NoBytes ==
  ASSUME IInv, NEW p \in Ports
  PROVE  /\ [stream EXCEPT ![p] = @ \o <<>>] = stream
         /\ <<>> \in Seq(BytesOf(p))
<1>1. stream \in [Ports -> Seq(Byte)]
  BY DEF IInv, TypeOK
<1>2. stream[p] \o <<>> = stream[p]
  BY <1>1, ConcatEmptySeq
<1> QED BY <1>1, <1>2, EmptySeq

LEMMA SendPrefixKeeps ==
  ASSUME TcpLinkAssumption, IInv, NEW p \in Ports, SendPrefix(p)
  PROVE  IInv'
<1> PICK s, e, c : s = stream[p] /\ e = entries[p] /\ c = Current(p)
  OBVIOUS
<1>1. /\ c \in From(p) /\ c \in Nat /\ c \in 1..MaxMessages /\ c \in DOMAIN sent
      /\ Last(c) \in Nat /\ Last(c) > Prefix
      /\ Prefix \in Nat /\ Prefix >= 1 /\ MaxLength \in Nat
  BY SenderFacts DEF SendPrefix
<1>2. sender[p] = "prefix" /\ sender' = [sender EXCEPT ![p] = "payload"] /\ sender'[p] = "payload"
  BY DEF SendPrefix, IInv, TypeOK
<1>3. Current(p)' = c
  BY SameSent DEF SendPrefix, Current
<1>4. s \in Seq(BytesOf(p))
  BY InvFacts DEF Known
<1>5. ASSUME p \notin spoiled
      PROVE  Ended(p) /\ After(p, c) /\ \A k \in DOMAIN s : s[k][1] < c
  BY <1>2, <1>5, InvFacts DEF AtPort, Framed, Position
<1>6. PICK n \in 0..Prefix :
        /\ stream' = [stream EXCEPT ![p] = @ \o SubSeq(PrefixOf(c), 1, n)]
        /\ faults' = IF n < Prefix THEN faults + 1 ELSE faults
        /\ faults' <= MaxFaults
        /\ cut' = IF n < Prefix THEN cut \cup {c} ELSE cut
  BY DEF SendPrefix
<1> DEFINE t == SubSeq(PrefixOf(c), 1, n)
<1>7. t \in Seq(BytesOf(p)) /\ Len(t) = n /\ n \in Nat /\ \A k \in 1..n : t[k] = <<c, k>>
  <2> DEFINE u == PrefixOf(c)
  <2>1. \A k \in 1..Prefix : <<c, k>> \in BytesOf(p)
    <3> SUFFICES ASSUME NEW k \in 1..Prefix PROVE <<c, k>> \in BytesOf(p)
      OBVIOUS
    <3>1. k \in 1..(Prefix + MaxLength) /\ k <= Last(c)
      BY <1>1
    <3>2. <<c, k>> \in Byte
      BY <1>1, <3>1 DEF Byte
    <3> QED BY <1>1, <3>1, <3>2 DEF BytesOf
  <2>2. u \in [1..Prefix -> BytesOf(p)] /\ \A k \in 1..Prefix : u[k] = <<c, k>>
    BY <2>1 DEF PrefixOf
  <2> HIDE DEF u
  <2>3. u \in Seq(BytesOf(p)) /\ Len(u) = Prefix
    BY <1>1, <2>2
  <2>4. SubSeq(u, 1, n) \in Seq(BytesOf(p)) /\ Len(SubSeq(u, 1, n)) = n
        /\ \A k \in 1..n : SubSeq(u, 1, n)[k] = u[k]
    BY <2>3, LeftFacts DEF Halves
  <2>5. \A k \in 1..n : k \in 1..Prefix
    BY <1>1
  <2>6. SubSeq(u, 1, n) = t
    BY DEF u
  <2> HIDE DEF t
  <2>7. t \in Seq(BytesOf(p)) /\ Len(t) = n /\ \A k \in 1..n : t[k] = u[k]
    BY <2>4, <2>6
  <2>8. ASSUME NEW k \in 1..n PROVE t[k] = <<c, k>>
    BY <2>2, <2>5, <2>7
  <2>9. n \in Nat
    BY <1>1
  <2> HIDE DEF u
  <2> QED BY <2>7, <2>8, <2>9
<1>8. Sends(p, t, "payload")
  BY <1>2, <1>6 DEF SendPrefix, Sends
<1> HIDE DEF t
<1>9. /\ faults' \in 0..MaxFaults /\ cut \subseteq cut' /\ cut' \subseteq DOMAIN sent
      /\ spoiled \subseteq spoiled' /\ spoiled' \subseteq Ports
  <2>1. faults \in 0..MaxFaults /\ cut \subseteq DOMAIN sent /\ spoiled \subseteq Ports
        /\ MaxFaults \in Nat
    BY DEF IInv, TypeOK, TcpLinkAssumption
  <2>2. faults' \in 0..MaxFaults
    BY <1>6, <2>1
  <2>3. spoiled' = spoiled
    BY DEF SendPrefix
  <2> QED BY <1>1, <1>6, <2>1, <2>2, <2>3
<1>10. SameIncome(p) /\ stream'[p] = s \o t /\ UNCHANGED spoiled
  BY <1>8, InvFacts, SameIncomeFacts DEF SendPrefix, Sends, serverVars, IInv, TypeOK
<1>11. CASE n = 0
  <2>1. t = <<>> /\ c \in cut'
    BY <1>1, <1>6, <1>7, <1>11, EmptySeq
  <2>2. Position(p, c)'
    BY <1>2, <2>1 DEF Position
  <2>3. Position(p, Current(p))'
    BY <1>3, <2>2 DEF Position, Prefixed
  <2> QED BY <1>2, <1>7, <1>8, <1>9, <2>1, <2>3, SendKeeps
<1>12. CASE n > 0
  <2>1. Piece(t, c, 0, n)
    BY <1>1, <1>7 DEF Piece
  <2>2. InRow(t)
    BY <1>1, <1>7, <2>1, PieceInRow
  <2>3. t[1] = <<c, 1>> /\ 1 \in 1..n
    BY <1>7, <1>12
  <2>4. ASSUME p \notin spoiled PROVE Joins(s, t)
    <3>1. ASSUME s # <<>> PROVE Follows(s[Len(s)], t[1])
      <4>1. Len(s) \in DOMAIN s
        BY <1>4, <3>1, EmptySeq
      <4>2. Done(s[Len(s)]) /\ s[Len(s)][1] < c
        BY <1>5, <2>4, <3>1, <4>1 DEF Ended
      <4> QED BY <2>3, <4>2 DEF Follows
    <3>2. \A k \in 1..Len(s), l \in 1..Len(t) : Precedes(s[k], t[l])
      BY <1>4, <1>5, <1>7, <2>4 DEF Precedes
    <3> QED BY <3>1, <3>2 DEF Joins
  <2>5. ASSUME p \notin spoiled, s = <<>> PROVE Ready(p, e, t, 0)
    <3>1. e = Empty
      BY <1>5, <2>5 DEF Ended
    <3>2. t[1][2] = 1
      BY <2>3
    <3> QED BY <3>1, <3>2 DEF Ready
  <2>6. \A k \in DOMAIN t : t[k][1] = c
    BY <1>7
  <2>7. ASSUME p \notin spoiled PROVE Position(p, Current(p))'
    <3>1. CASE n < Prefix
      <4>1. c \in cut'
        BY <1>6, <3>1
      <4>2. Position(p, c)'
        BY <1>2, <4>1 DEF Position
      <4> QED BY <1>3, <4>2 DEF Position, Prefixed
    <3>2. CASE n = Prefix
      <4>1. After(p, c)'
        BY <1>5, <1>10, <2>7, IncomeKept
      <4>2. s \o t # <<>> /\ (s \o t)[Len(s \o t)] = <<c, Prefix>>
        <5>1. Appended(BytesOf(p), s \o t, s, t)
          BY <1>4, <1>7, AppendedFacts
        <5>2. Len(s \o t) = Len(s) + Prefix /\ Len(s) \in Nat /\ Prefix \in 1..Len(t)
          BY <1>1, <1>4, <1>7, <3>2, <5>1 DEF Appended
        <5>3. (s \o t)[Len(s) + Prefix] = t[Prefix]
          BY <5>1, <5>2 DEF Appended
        <5>4. s \o t # <<>>
          BY <1>1, <5>2, EmptySeq
        <5> QED BY <1>1, <1>7, <3>2, <5>2, <5>3, <5>4
      <4>3. Prefixed(p, c)'
        BY <1>10, <4>1, <4>2 DEF Prefixed
      <4>4. Position(p, c)'
        BY <1>2, <4>3 DEF Position
      <4> QED BY <1>3, <4>4 DEF Position, Prefixed
    <3> QED BY <1>1, <3>1, <3>2
  <2>8. p \notin spoiled' =>
          /\ InRow(t) /\ Joins(stream[p], t) /\ After(p, Current(p))
          /\ stream[p] = <<>> => Ready(p, entries[p], t, 0)
          /\ \A k \in DOMAIN t : t[k][1] = Current(p)
    BY <1>5, <1>10, <2>2, <2>4, <2>5, <2>6
  <2>9. p \notin spoiled' => Position(p, Current(p))'
    BY <1>10, <2>7
  <2> QED BY <1>2, <1>7, <1>8, <1>9, <2>8, <2>9, SendKeeps
<1> QED BY <1>1, <1>11, <1>12

LEMMA SendPayloadKeeps ==
  ASSUME TcpLinkAssumption, IInv, NEW p \in Ports, SendPayload(p)
  PROVE  IInv'
<1> PICK s, e, c : s = stream[p] /\ e = entries[p] /\ c = Current(p)
  OBVIOUS
<1>1. /\ c \in From(p) /\ c \in Nat /\ c \in 1..MaxMessages /\ c \in DOMAIN sent
      /\ Last(c) \in Nat /\ Last(c) > Prefix
      /\ sent[c].length \in Nat /\ sent[c].length >= 1 /\ sent[c].length <= MaxLength
      /\ Prefix \in Nat /\ Prefix >= 1 /\ MaxLength \in Nat
  BY SenderFacts DEF SendPayload
<1>2. Last(c) = Prefix + sent[c].length
  BY DEF Last
<1>3. sender[p] = "payload" /\ sender' = [sender EXCEPT ![p] = "open"] /\ sender'[p] = "open"
  BY DEF SendPayload, IInv, TypeOK
<1>4. Current(p)' = c
  BY SameSent DEF SendPayload, Current
<1>5. s \in Seq(BytesOf(p)) /\ Len(s) \in Nat
  BY InvFacts DEF Known
<1>6. PICK n \in 0..sent[c].length :
        /\ stream' = [stream EXCEPT ![p] = @ \o SubSeq(Payload(c), 1, n)]
        /\ faults' = IF n < sent[c].length THEN faults + 1 ELSE faults
        /\ faults' <= MaxFaults
        /\ spoiled' = IF c \in cut /\ n > 0 THEN spoiled \cup {p} ELSE spoiled
        /\ cut' = IF n < sent[c].length THEN cut \cup {c} ELSE cut
  BY DEF SendPayload
<1> DEFINE t == SubSeq(Payload(c), 1, n)
<1>7. /\ t \in Seq(BytesOf(p)) /\ Len(t) = n /\ n \in Nat
      /\ \A k \in 1..n : t[k] = <<c, Prefix + k>>
  <2> DEFINE u == Payload(c)
  <2>1. \A k \in 1..sent[c].length : <<c, Prefix + k>> \in BytesOf(p)
    <3> SUFFICES ASSUME NEW k \in 1..sent[c].length PROVE <<c, Prefix + k>> \in BytesOf(p)
      OBVIOUS
    <3>1. Prefix + k \in 1..(Prefix + MaxLength) /\ Prefix + k <= Last(c)
      BY <1>1, <1>2
    <3>2. <<c, Prefix + k>> \in Byte
      BY <1>1, <3>1 DEF Byte
    <3> QED BY <1>1, <3>1, <3>2 DEF BytesOf
  <2>2. u \in [1..sent[c].length -> BytesOf(p)] /\ \A k \in 1..sent[c].length : u[k] = <<c, Prefix + k>>
    BY <2>1 DEF Payload
  <2> HIDE DEF u
  <2>3. u \in Seq(BytesOf(p)) /\ Len(u) = sent[c].length
    <3>1. PICK len \in Nat : len = sent[c].length
      BY <1>1
    <3>2. u \in [1..len -> BytesOf(p)]
      BY <2>2, <3>1
    <3>3. u \in Seq(BytesOf(p)) /\ DOMAIN u = 1..len
      BY <3>2
    <3> QED BY <3>1, <3>3
  <2>4. n \in 0..Len(u)
    BY <2>3
  <2>5. SubSeq(u, 1, n) \in Seq(BytesOf(p)) /\ Len(SubSeq(u, 1, n)) = n
        /\ \A k \in 1..n : SubSeq(u, 1, n)[k] = u[k]
    BY <2>3, <2>4, LeftFacts DEF Halves
  <2>6. \A k \in 1..n : k \in 1..sent[c].length
    BY <1>1
  <2>7. SubSeq(u, 1, n) = t
    BY DEF u
  <2> HIDE DEF t
  <2> QED BY <1>1, <2>2, <2>5, <2>6, <2>7
<1>8. Sends(p, t, "open")
  BY <1>3, <1>6 DEF SendPayload, Sends
<1> HIDE DEF t
<1>9. /\ faults' \in 0..MaxFaults /\ cut \subseteq cut' /\ cut' \subseteq DOMAIN sent
      /\ spoiled \subseteq spoiled' /\ spoiled' \subseteq Ports
  <2>1. faults \in 0..MaxFaults /\ cut \subseteq DOMAIN sent /\ spoiled \subseteq Ports
        /\ MaxFaults \in Nat
    BY DEF IInv, TypeOK, TcpLinkAssumption
  <2>2. faults' \in 0..MaxFaults
    BY <1>6, <2>1
  <2> QED BY <1>1, <1>6, <2>1, <2>2
<1>10. SameIncome(p) /\ stream'[p] = s \o t
  BY <1>8, InvFacts, SameIncomeFacts DEF Sends, serverVars, IInv, TypeOK
<1>11. CASE n = 0
  <2>1. t = <<>> /\ c \in cut'
    BY <1>1, <1>6, <1>7, <1>11, EmptySeq
  <2>2. Position(p, c)'
    BY <1>3, <2>1 DEF Position
  <2>3. Position(p, Current(p))'
    BY <1>4, <2>2 DEF Position, Prefixed
  <2> QED BY <1>3, <1>7, <1>8, <1>9, <2>1, <2>3, SendKeeps
<1>12. CASE n > 0
  <2>1. Piece(t, c, Prefix, n)
    BY <1>1, <1>2, <1>7 DEF Piece
  <2>2. InRow(t)
    BY <1>1, <1>7, <2>1, PieceInRow
  <2>3. ASSUME p \notin spoiled'
        PROVE  Prefixed(p, c) /\ p \notin spoiled /\ InRow(s)
    <3>1. c \notin cut /\ p \notin spoiled
      BY <1>6, <1>12, <2>3
    <3> QED BY <1>3, <3>1, InvFacts DEF AtPort, Framed, Position
  <2>4. t[1] = <<c, Prefix + 1>> /\ 1 \in 1..n
    BY <1>7, <1>12
  <2>5. ASSUME p \notin spoiled' PROVE Joins(s, t)
    <3>1. CASE s = <<>>
      BY <3>1, EmptySeq DEF Joins
    <3>2. CASE s # <<>>
      <4>1. s[Len(s)] = <<c, Prefix>> /\ Len(s) \in 1..Len(s)
        BY <1>5, <2>3, <2>5, <3>2, EmptySeq DEF Prefixed
      <4>2. ~ Done(s[Len(s)])
        BY <1>1, <4>1 DEF Done
      <4>3. Follows(s[Len(s)], t[1])
        BY <2>4, <4>1, <4>2 DEF Follows
      <4>4. ASSUME NEW k \in 1..Len(s), NEW l \in 1..Len(t) PROVE Precedes(s[k], t[l])
        <5>1. t[l] = <<c, Prefix + l>> /\ l \in Nat /\ l > 0
          BY <1>7
        <5>2. CASE k = Len(s)
          BY <1>1, <4>1, <5>1, <5>2 DEF Precedes
        <5>3. CASE k < Len(s)
          <6>1. Precedes(s[k], s[Len(s)])
            BY <2>3, <2>5, <4>1, <5>3 DEF InRow
          <6>2. s[k] \in BytesOf(p)
            BY <1>5, ElementOfSeq
          <6>3. s[k][1] \in Nat /\ s[k][2] \in Nat
            BY <6>2, InvFacts, ByteFacts
          <6> QED BY <1>1, <4>1, <5>1, <6>1, <6>3 DEF Precedes
        <5> QED BY <1>5, <5>2, <5>3
      <4> QED BY <4>3, <4>4 DEF Joins
    <3> QED BY <3>1, <3>2
  <2>6. ASSUME p \notin spoiled', s = <<>> PROVE Ready(p, e, t, 0)
    <3>1. Partial(e, c) /\ e.data = <<>>
      BY <2>3, <2>6 DEF Prefixed
    <3>2. Len(e.data) = 0 /\ Prefix + 0 + 1 = Prefix + 1
      BY <1>1, <3>1, EmptySeq
    <3> QED BY <1>1, <2>4, <3>1, <3>2 DEF Ready
  <2>7. ASSUME p \notin spoiled' PROVE Position(p, Current(p))'
    <3>1. CASE n < sent[c].length
      <4>1. c \in cut'
        BY <1>6, <3>1
      <4>2. Position(p, c)'
        BY <1>3, <4>1 DEF Position
      <4> QED BY <1>4, <4>2 DEF Position, Prefixed
    <3>2. CASE n = sent[c].length
      <4>1. Appended(BytesOf(p), s \o t, s, t)
        BY <1>5, <1>7, AppendedFacts
      <4>2. Len(s \o t) = Len(s) + n /\ n \in 1..Len(t)
        BY <1>7, <1>12, <4>1 DEF Appended
      <4>3. (s \o t)[Len(s) + n] = t[n] /\ t[n] = <<c, Last(c)>>
        <5>1. n \in 1..Len(t) /\ n \in 1..n
          BY <1>7, <4>2
        <5>2. t[n] = <<c, Prefix + n>> /\ Prefix + n = Last(c)
          BY <1>2, <1>7, <3>2, <5>1
        <5> QED BY <4>1, <5>1, <5>2 DEF Appended
      <4>4. s \o t # <<>>
        BY <1>5, <1>12, <4>2, EmptySeq
      <4>5. Last(c)' = Last(c)
        BY <1>8 DEF Sends, Last
      <4>6. Ended(p)'
        <5>1. PICK w : w = s \o t
          OBVIOUS
        <5>2. w[Len(w)] = <<c, Last(c)>> /\ w # <<>> /\ stream'[p] = w
          BY <1>10, <4>2, <4>3, <4>4, <5>1
        <5>3. Done(w[Len(w)])'
          BY <4>5, <5>2 DEF Done
        <5> QED BY <5>2, <5>3 DEF Ended
      <4>7. Position(p, c)'
        BY <1>3, <4>6 DEF Position
      <4> QED BY <1>4, <4>7 DEF Position, Prefixed
    <3> QED BY <1>1, <1>6, <1>7, <3>1, <3>2
  <2>8. p \notin spoiled' =>
          /\ InRow(t) /\ Joins(stream[p], t) /\ After(p, Current(p))
          /\ stream[p] = <<>> => Ready(p, entries[p], t, 0)
          /\ \A k \in DOMAIN t : t[k][1] = Current(p)
    <3>1. \A k \in DOMAIN t : t[k][1] = c
      BY <1>7
    <3> QED BY <2>2, <2>3, <2>5, <2>6, <3>1 DEF Prefixed
  <2> QED BY <1>3, <1>7, <1>8, <1>9, <2>7, <2>8, SendKeeps
<1> QED BY <1>7, <1>11, <1>12

(* A message is one after those that were sent before.                      *)
LEMMA SendMessageKeeps ==
  ASSUME TcpLinkAssumption, IInv, NEW p \in Ports, SendMessage(p)
  PROVE  IInv'
<1> DEFINE c == Len(sent) + 1
<1>0. /\ sent \in Seq(Message) /\ Len(sent) \in Nat /\ DOMAIN sent = 1..Len(sent)
      /\ Len(sent) < MaxMessages /\ MaxMessages \in Nat
      /\ UNCHANGED <<stream, serverVars, faults, cut>>
      /\ sender' = [sender EXCEPT ![p] = "prefix"]
  BY InvFacts DEF SendMessage, TcpLinkAssumption
<1>1. PICK n \in 1..MaxLength : sent' = Append(sent, [port |-> p, length |-> n])
  BY DEF SendMessage
<1>2. /\ sent' \in Seq(Message) /\ Len(sent') = c /\ Len(sent') <= MaxMessages
      /\ DOMAIN sent' = 1..c /\ sent'[c].port = p
      /\ \A i \in 1..Len(sent) : sent'[i] = sent[i]
  <2>1. PICK m \in Message : m = [port |-> p, length |-> n]
    BY DEF Message
  <2>2. sent' = Append(sent, m) /\ m.port = p
    BY <1>1, <2>1
  <2>3. /\ sent' \in Seq(Message) /\ Len(sent') = Len(sent) + 1 /\ sent'[Len(sent) + 1] = m
        /\ \A i \in 1..Len(sent) : sent'[i] = sent[i]
    BY <1>0, <2>2
  <2>4. DOMAIN sent' = 1..(Len(sent) + 1)
    BY <1>0, <2>3
  <2> QED BY <1>0, <2>2, <2>3, <2>4
<1>3. \A o : Grows(o) /\ From(o) \subseteq 1..Len(sent)
  BY <1>0, <1>2 DEF Grows, From
<1>4. From(p)' = From(p) \cup {c} /\ \A o : o # p => From(o)' = From(o)
  BY <1>0, <1>2 DEF From
<1>5. \A o : SameIncome(o)
  BY <1>0, InvFacts, SameIncomeFacts DEF serverVars
<1>6. sender'[p] = "prefix" /\ \A o \in Ports : o # p => sender'[o] = sender[o]
  BY <1>0 DEF IInv, TypeOK
<1>7. spoiled \subseteq spoiled' /\ spoiled' \subseteq Ports
  BY DEF SendMessage, IInv, TypeOK
<1>8. TypeOK'
  <2>1. sent' \in Seq([port : Ports, length : 1..MaxLength])
    BY <1>2 DEF Message
  <2>2. cut' \subseteq DOMAIN sent'
    BY <1>0, <1>2 DEF IInv, TypeOK
  <2>3. sender' \in [Ports -> {"none", "prefix", "payload", "open", "closed"}]
    BY <1>0 DEF IInv, TypeOK
  <2>4. \A o \in Ports : sender'[o] = "none" => o \notin clients' /\ stream'[o] = <<>>
    BY <1>0, <1>6 DEF IInv, TypeOK, serverVars
  <2> QED BY <1>0, <1>2, <1>7, <2>1, <2>2, <2>3, <2>4 DEF IInv, TypeOK, serverVars
<1>9. ASSUME NEW o \in Ports, o # p PROVE AtPort(o)'
  <2>1. Untouched(o)
    BY <1>0, <1>3, <1>4, <1>5, <1>6, <1>7, <1>9 DEF Untouched, serverVars
  <2> QED BY <1>0, <2>1, InvFacts, PortKept
<1>10. AtPort(p)'
  <2> PICK d : d = c
    OBVIOUS
  <2>1. d \in Nat /\ d \in From(p)' /\ \A i \in From(p)' : i <= d
    BY <1>0, <1>3, <1>4
  <2>2. Current(p)' = d
    <3>1. \A i \in From(p)' : (\A j \in From(p)' : j <= i) => i = d
      BY <1>0, <1>3, <1>4, <2>1
    <3> QED BY <2>1, <3>1 DEF Current
  <2>3. Begun(p)'
    BY <2>1 DEF Begun
  <2>4. /\ Known(p)'
        /\ Framed(p) => Ready(p, entries[p], stream[p], 0)' /\ InRow(stream[p])' /\ Later(p)'
        /\ Whole(p) => Whole(p)'
    BY <1>0, <1>3, <1>5, InvFacts, ReadyKept DEF serverVars
  <2>5. ASSUME p \notin spoiled' PROVE Position(p, Current(p))'
    <3>1. p \notin spoiled /\ Framed(p) /\ Whole(p)
      BY <1>7, <2>5, InvFacts DEF AtPort
    <3>2. Ended(p)
      <4>1. CASE sender[p] = "none" /\ p \notin clients
        <5>1. stream[p] = <<>>
          BY <4>1 DEF IInv, TypeOK
        <5>2. entries[p] = Empty
          BY <2>5, <3>1, <4>1 DEF SendMessage
        <5> QED BY <5>1, <5>2 DEF Ended
      <4>2. CASE sender[p] = "open"
        <5>1. Current(p) \notin cut
          BY <2>5, <3>1, <4>2 DEF SendMessage
        <5> QED BY <3>1, <4>2, <5>1 DEF Framed, Position
      <4> QED BY <4>1, <4>2 DEF SendMessage
    <3>3. Ended(p)'
      BY <1>0, <1>3, <1>5, <3>2, InvFacts, PositionKept DEF serverVars
    <3>4. \A j \in DOMAIN income : income[j].port = p => income[j].bytes[1][1] < d
      <4> SUFFICES ASSUME NEW j \in DOMAIN income, income[j].port = p
                   PROVE  income[j].bytes[1][1] < d
        OBVIOUS
      <4>1. PICK i \in From(p) : income[j].bytes = Payload(i)
        BY <3>1 DEF Whole
      <4>2. 1 \in 1..sent[i].length
        <5>1. i \in DOMAIN sent
          BY DEF From
        <5> QED BY <1>0, <5>1, SentFacts
      <4>3. Payload(i)[1][1] = i
        BY <4>2 DEF Payload
      <4>4. i < d
        BY <1>0, <1>3
      <4> QED BY <4>1, <4>3, <4>4
    <3>5. After(p, d)'
      BY <1>0, <3>4 DEF After, serverVars
    <3>6. \A k \in DOMAIN stream[p] : stream[p][k][1] < d
      <4> SUFFICES ASSUME NEW k \in DOMAIN stream[p] PROVE stream[p][k][1] < d
        OBVIOUS
      <4>1. stream[p] \in Seq(BytesOf(p)) /\ k \in 1..Len(stream[p])
        BY InvFacts DEF Known
      <4>2. stream[p][k] \in BytesOf(p)
        BY <4>1, ElementOfSeq
      <4>3. stream[p][k][1] \in 1..Len(sent)
        BY <1>3, <4>2 DEF BytesOf
      <4> QED BY <1>0, <4>3
    <3>7. \A k \in DOMAIN stream'[p] : stream'[p][k][1] < d
      BY <1>0, <3>6
    <3>8. Position(p, d)'
      BY <1>6, <3>3, <3>5, <3>7 DEF Position
    <3> QED BY <2>2, <3>8 DEF Position, Prefixed
  <2>6. p \notin spoiled' => Framed(p) /\ Whole(p)
    BY <1>7, InvFacts DEF AtPort
  <2> QED BY <2>3, <2>4, <2>5, <2>6 DEF AtPort, Framed
<1>11. dead' => spoiled' # {}
  BY <1>0, <1>7 DEF IInv, serverVars
<1> QED BY <1>8, <1>9, <1>10, <1>11 DEF IInv
-----------------------------------------------------------------------------
LEMMA AddDataTyped ==
  ASSUME TcpLinkAssumption, sent \in Seq(Message), Len(sent) <= MaxMessages,
         NEW p, NEW q \in Seq(BytesOf(p)), NEW garbage \in Garbage,
         NEW e \in [valid : BOOLEAN, total : Int, data : Seq(BytesOf(p))]
  PROVE  AddData(e, q, garbage) \in Reading(BytesOf(p))
<1> DEFINE R == Reading(BytesOf(p))
<1>1. Loop(e, q, <<>>) \in R
  <2>1. <<>> \in Seq(Seq(BytesOf(p)))
    BY EmptySeq
  <2> QED BY <2>1 DEF Loop, Reading
<1>2. Kept(R, garbage)
  BY TurnTyped DEF Kept
<1> HIDE DEF R
<1>3. PICK f : Turns(f, R, e, q, garbage)
  BY <1>1, <1>2, AddDataTurns
<1>4. f \in [0..(2 * Len(q)) -> R] /\ f[2 * Len(q)] = AddData(e, q, garbage)
  BY <1>3 DEF Turns
<1>5. 2 * Len(q) \in 0..(2 * Len(q))
  OBVIOUS
<1>6. f[2 * Len(q)] \in R
  BY <1>4, <1>5
<1> QED BY <1>4, <1>6 DEF R

(* AddData with the first n bytes of those that are there.                  *)
LEMMA ReadFacts ==
  ASSUME TcpLinkAssumption, sent \in Seq(Message), Len(sent) <= MaxMessages,
         NEW p, NEW s \in Seq(BytesOf(p)), InRow(s), NEW garbage \in Garbage,
         NEW e \in [valid : BOOLEAN, total : Int, data : Seq(BytesOf(p))], Ready(p, e, s, 0),
         NEW n \in 1..Len(s), NEW r, r = AddData(e, SubSeq(s, 1, n), garbage)
  PROVE  ~ r.missed /\ (Broken(r) \/ (Out(s, n, r.out) /\ Ready(p, r.entry, s, n)))
<1> PICK q : q = SubSeq(s, 1, n)
  OBVIOUS
<1>1. n \in 0..Len(s) /\ n \in Nat /\ n >= 1 /\ n <= Len(s) /\ Len(s) \in Nat
  OBVIOUS
<1>2. q \in Seq(BytesOf(p)) /\ Len(q) = n /\ \A k \in 1..n : q[k] = s[k]
  BY <1>1, LeftFacts DEF Halves
<1>3. InRow(q)
  <2>1. ASSUME NEW k \in 1..(Len(q) - 1) PROVE Follows(q[k], q[k + 1])
    <3>1. k \in 1..(Len(s) - 1) /\ k \in 1..n /\ k + 1 \in 1..n
      BY <1>1, <1>2
    <3> QED BY <1>2, <3>1 DEF InRow
  <2>2. ASSUME NEW k \in 1..Len(q), NEW l \in 1..Len(q), k < l PROVE Precedes(q[k], q[l])
    <3>1. k \in 1..Len(s) /\ l \in 1..Len(s) /\ k \in 1..n /\ l \in 1..n
      BY <1>1, <1>2
    <3> QED BY <1>2, <2>2, <3>1 DEF InRow
  <2> QED BY <2>1, <2>2 DEF InRow
<1>4. Ready(p, e, q, 0)
  <2>1. 0 < Len(s) /\ q[1] = s[1]
    BY <1>1, <1>2
  <2> QED BY <2>1 DEF Ready
<1>5. r \in Orderly(p, q) /\ r.bytes = <<>>
  BY <1>2, <1>3, <1>4, AddDataOrderly
<1>6. ~ r.missed /\ (Standing(p, q, r) \/ Broken(r))
  BY <1>5 DEF Orderly
<1>7. ASSUME Standing(p, q, r)
      PROVE  Out(s, n, r.out) /\ Ready(p, r.entry, s, n)
  <2>1. PICK a \in 0..Len(q) : r.bytes = Left(q, a) /\ Out(q, a, r.out) /\ Ready(p, r.entry, q, a)
    BY <1>7 DEF Standing
  <2>2. a = n
    <3>1. Halves(BytesOf(p), q, a)
      BY <1>2, LeftFacts
    <3>2. Len(Left(q, a)) = Len(q) - a
      BY <3>1 DEF Halves
    <3> QED BY <1>1, <1>2, <1>5, <2>1, <3>2, EmptySeq
  <2>3. Out(q, n, r.out) /\ Ready(p, r.entry, q, n) /\ q[n] = s[n]
    BY <1>1, <1>2, <2>1, <2>2
  <2>4. Out(s, n, r.out)
    BY <1>2, <2>3 DEF Out
  <2>5. n < Len(s) => Follows(s[n], s[n + 1])
    <3>1. n < Len(s) => n \in 1..(Len(s) - 1)
      BY <1>1
    <3> QED BY <3>1 DEF InRow
  <2>6. ASSUME r.entry = Empty, Done(s[n]) PROVE Ready(p, r.entry, s, n)
    BY <1>1, <2>5, <2>6 DEF Ready, Follows
  <2>7. ASSUME NEW i \in From(p), Partial(r.entry, i), s[n] = <<i, Prefix + Len(r.entry.data)>>
        PROVE  Ready(p, r.entry, s, n)
    <3>1. ~ Done(s[n])
      <4>1. i \in DOMAIN sent
        BY DEF From
      <4>2. Last(i) = Prefix + sent[i].length /\ sent[i].length \in Nat /\ Prefix \in Nat
        BY <4>1, SentFacts DEF Last, TcpLinkAssumption
      <4>3. Prefix + Len(r.entry.data) # Last(i)
        <5>1. Len(r.entry.data) \in Nat
          <6>1. r.entry.data \in Seq(BytesOf(p))
            BY <1>5 DEF Orderly, Reading
          <6> QED BY <6>1, LenProperties
        <5> QED BY <2>7, <4>2, <5>1, SMTT(30) DEF Partial
      <4> QED BY <2>7, <4>3 DEF Done
    <3>2. n < Len(s) => s[n + 1] = <<i, Prefix + Len(r.entry.data) + 1>>
      BY <2>5, <2>7, <3>1 DEF Follows
    <3> QED BY <1>1, <2>7, <3>2 DEF Ready
  <2>8. \/ r.entry = Empty /\ Done(s[n])
        \/ \E i \in From(p) : Partial(r.entry, i) /\ s[n] = <<i, Prefix + Len(r.entry.data)>>
    <3>1. n > 0
      BY <1>1
    <3>2. PICK x : x = q[n] /\ x = s[n]
      BY <2>3
    <3>3. \/ r.entry = Empty /\ Done(x)
          \/ \E i \in From(p) : Partial(r.entry, i) /\ x = <<i, Prefix + Len(r.entry.data)>>
      BY <2>3, <3>1, <3>2 DEF Ready
    <3> QED BY <3>2, <3>3
  <2> QED BY <2>4, <2>6, <2>7, <2>8
<1> QED BY <1>6, <1>7

(* The messages that come out are before those of the bytes that stay, and  *)
(* before the message that is not complete.                                 *)
Ahead(out, i) == \A j \in DOMAIN out : out[j][1][1] < i

LEMMA OutBefore ==
  ASSUME TcpLinkAssumption, sent \in Seq(Message), Len(sent) <= MaxMessages,
         NEW p, NEW s \in Seq(BytesOf(p)), InRow(s),
         NEW n \in 1..Len(s), NEW out, Out(s, n, out),
         NEW m \in 1..Len(s), n < m \/ (n = m /\ ~ Done(s[m]))
  PROVE  Ahead(out, s[m][1])
<1> SUFFICES ASSUME NEW j \in DOMAIN out PROVE out[j][1][1] < s[m][1]
  BY DEF Ahead
<1>1. PICK k \in 1..n : Done(s[k]) /\ out[j] = Payload(s[k][1])
  BY DEF Out
<1>2. k \in 1..Len(s) /\ k < m
  <2>1. k # m
    BY <1>1
  <2> QED BY <2>1
<1>3. s[k] \in BytesOf(p) /\ s[m] \in BytesOf(p)
  BY <1>2, ElementOfSeq
<1>4. /\ s[k][1] \in Nat /\ s[m][1] \in Nat /\ s[k][2] \in Nat /\ s[m][2] \in Nat
      /\ s[m][2] <= Last(s[m][1]) /\ sent[s[k][1]].length \in Nat /\ sent[s[k][1]].length >= 1
      /\ Last(s[m][1]) \in Nat
  BY <1>3, ByteFacts
<1>5. Precedes(s[k], s[m])
  BY <1>2 DEF InRow
<1>6. s[k][1] < s[m][1]
  <2>1. s[k][2] = Last(s[k][1])
    BY <1>1 DEF Done
  <2>2. s[k][1] = s[m][1] => ~ (s[k][2] < s[m][2])
    BY <1>4, <2>1
  <2> QED BY <1>5, <2>2 DEF Precedes
<1>7. out[j][1][1] = s[k][1]
  <2>1. 1 \in 1..sent[s[k][1]].length
    BY <1>4
  <2> QED BY <1>1, <2>1 DEF Payload
<1> QED BY <1>6, <1>7

Brings(p, out) == [k \in DOMAIN out |-> [port |-> p, bytes |-> out[k]]]

(* The messages of p are put after those that are there.                    *)
Longer(p, out) ==
  /\ income' \in Seq([port : Ports, bytes : Seq(Byte)])
  /\ Len(income') = Len(income) + Len(out) /\ Len(out) \in Nat
  /\ DOMAIN income' = 1..(Len(income) + Len(out)) /\ Len(income) \in Nat
  /\ \A j \in 1..Len(income) : income'[j] = income[j]
  /\ \A k \in 1..Len(out) : /\ income'[Len(income) + k].port = p
                           /\ income'[Len(income) + k].bytes = out[k]

LEMMA IncomeGrows ==
  ASSUME TypeOK, NEW p \in Ports, NEW out \in Seq(Seq(BytesOf(p))),
         income' = income \o Brings(p, out)
  PROVE  Longer(p, out)
<1> DEFINE M == [port : Ports, bytes : Seq(Byte)]
           t == Brings(p, out)
<1>1. income \in Seq(M)
  BY DEF TypeOK
<1>2. /\ t \in Seq(M) /\ Len(t) = Len(out) /\ Len(out) \in Nat
      /\ \A k \in 1..Len(out) : t[k].port = p /\ t[k].bytes = out[k]
  <2>1. Len(out) \in Nat /\ DOMAIN out = 1..Len(out) /\ \A k \in 1..Len(out) : out[k] \in Seq(BytesOf(p))
    BY LenProperties, ElementOfSeq
  <2>2. \A k \in 1..Len(out) : out[k] \in Seq(Byte)
    BY <2>1, SeqMonotonic DEF BytesOf
  <2>3. t \in [1..Len(out) -> M] /\ \A k \in 1..Len(out) : t[k].port = p /\ t[k].bytes = out[k]
    BY <2>1, <2>2 DEF Brings
  <2> HIDE DEF t, M
  <2>4. t \in Seq(M) /\ DOMAIN t = 1..Len(out)
    <3>1. PICK m \in Nat : m = Len(out)
      BY <2>1
    <3>2. t \in [1..m -> M]
      BY <2>3, <3>1
    <3>3. t \in Seq(M) /\ DOMAIN t = 1..m
      BY <3>2
    <3> QED BY <3>1, <3>3
  <2> QED BY <2>1, <2>3, <2>4, LenProperties
<1>3. income' = income \o t
  OBVIOUS
<1> HIDE DEF t, M
<1>4. Appended(M, income', income, t)
  BY <1>1, <1>2, <1>3, AppendedFacts
<1>5. /\ income' \in Seq(M) /\ Len(income') = Len(income) + Len(out) /\ Len(income) \in Nat
      /\ \A j \in 1..Len(income) : income'[j] = income[j]
      /\ \A k \in 1..Len(out) : income'[Len(income) + k] = t[k]
  BY <1>2, <1>4 DEF Appended
<1>6. DOMAIN income' = 1..(Len(income) + Len(out))
  BY <1>5, LenProperties
<1>7. income' \in Seq([port : Ports, bytes : Seq(Byte)])
  BY <1>5 DEF M
<1> QED BY <1>2, <1>5, <1>6, <1>7 DEF Longer

(* What comes out are messages of the port.                                 *)
OutOf(p, s, out) ==
  \A k \in DOMAIN out : \E a \in 1..Len(s) :
    out[k] = Payload(s[a][1]) /\ s[a][1] \in From(p) /\ out[k][1][1] = s[a][1]

LEMMA OutMessages ==
  ASSUME TcpLinkAssumption, sent \in Seq(Message), Len(sent) <= MaxMessages,
         NEW p, NEW s \in Seq(BytesOf(p)), NEW n \in 1..Len(s), NEW out, Out(s, n, out)
  PROVE  OutOf(p, s, out)
<1> SUFFICES ASSUME NEW k \in DOMAIN out
             PROVE  \E a \in 1..Len(s) :
                      out[k] = Payload(s[a][1]) /\ s[a][1] \in From(p) /\ out[k][1][1] = s[a][1]
  BY DEF OutOf
<1>1. PICK a \in 1..n : out[k] = Payload(s[a][1])
  BY DEF Out
<1>2. a \in 1..Len(s)
  OBVIOUS
<1>3. s[a] \in BytesOf(p)
  BY <1>2, ElementOfSeq
<1>4. s[a][1] \in From(p) /\ sent[s[a][1]].length \in Nat /\ sent[s[a][1]].length >= 1
  BY <1>3, ByteFacts
<1>5. 1 \in 1..sent[s[a][1]].length
  BY <1>4
<1>6. out[k][1][1] = s[a][1]
  BY <1>1, <1>5 DEF Payload
<1> QED BY <1>1, <1>2, <1>4, <1>6

LEMMA QueueWhole ==
  ASSUME TcpLinkAssumption, TypeOK, UNCHANGED sent, NEW p \in Ports, Known(p), Later(p), Whole(p),
         NEW n \in 1..Len(stream[p]), NEW out \in Seq(Seq(BytesOf(p))), Out(stream[p], n, out),
         income' = income \o Brings(p, out)
  PROVE  Whole(p)'
<1> PICK s : s = stream[p]
  OBVIOUS
<1>1. /\ Len(income') = Len(income) + Len(out) /\ Len(out) \in Nat
      /\ DOMAIN income' = 1..(Len(income) + Len(out)) /\ Len(income) \in Nat
      /\ \A j \in 1..Len(income) : income'[j] = income[j]
      /\ \A k \in 1..Len(out) : /\ income'[Len(income) + k].port = p
                               /\ income'[Len(income) + k].bytes = out[k]
  BY IncomeGrows DEF Longer
<1>2. s \in Seq(BytesOf(p)) /\ DOMAIN s = 1..Len(s) /\ n \in 1..Len(s) /\ Out(s, n, out)
  BY LenProperties DEF Known
<1>3. \A k \in DOMAIN out : \E a \in 1..Len(s) :
        out[k] = Payload(s[a][1]) /\ s[a][1] \in From(p) /\ out[k][1][1] = s[a][1]
  <2>1. sent \in Seq(Message) /\ Len(sent) <= MaxMessages
    BY TypeFacts
  <2>2. OutOf(p, s, out)
    BY <1>2, <2>1, OutMessages
  <2> QED BY <2>2 DEF OutOf
<1>4. DOMAIN income = 1..Len(income) /\ DOMAIN out = 1..Len(out)
  BY TypeFacts, LenProperties
<1>5. \A i : Payload(i)' = Payload(i)
  BY DEF Payload
<1>6. From(p)' = From(p)
  BY SameSent
<1>7. ASSUME NEW j \in DOMAIN income', income'[j].port = p
      PROVE  /\ \E i \in From(p) : income'[j].bytes = Payload(i)
             /\ \A m \in 1..(j - 1) : income'[m].port = p =>
                  income'[m].bytes[1][1] < income'[j].bytes[1][1]
  <2>1. CASE j \in 1..Len(income)
    <3>1. \A m \in 1..(j - 1) : m \in 1..Len(income)
      BY <1>1, <2>1
    <3> QED BY <1>1, <1>4, <1>7, <2>1, <3>1 DEF Whole
  <2>2. ASSUME NEW k \in 1..Len(out), j = Len(income) + k
        PROVE  /\ \E i \in From(p) : income'[j].bytes = Payload(i)
               /\ \A m \in 1..(j - 1) : income'[m].port = p =>
                    income'[m].bytes[1][1] < income'[j].bytes[1][1]
    <3>1. PICK a \in 1..Len(s) :
            out[k] = Payload(s[a][1]) /\ s[a][1] \in From(p) /\ out[k][1][1] = s[a][1]
      BY <1>3, <1>4
    <3>2. income'[j].bytes = out[k]
      BY <1>1, <2>2
    <3>3. ASSUME NEW m \in 1..(j - 1), income'[m].port = p
          PROVE  income'[m].bytes[1][1] < out[k][1][1]
      <4>1. CASE m \in 1..Len(income)
        <5>1. After(p, s[a][1])
          BY <1>2 DEF Later
        <5> QED BY <1>1, <1>4, <3>1, <3>3, <4>1, <5>1 DEF After
      <4>2. CASE ~ (m \in 1..Len(income))
        <5>1. m - Len(income) \in 1..Len(out) /\ m - Len(income) < k
              /\ m = Len(income) + (m - Len(income))
          BY <1>1, <2>2, <4>2
        <5>2. PICK l \in 1..Len(out) : l = m - Len(income) /\ l < k /\ m = Len(income) + l
          BY <5>1
        <5>3. income'[m].bytes = out[l]
          BY <1>1, <5>2
        <5>4. out[l][1][1] < out[k][1][1]
          BY <1>2, <1>4, <5>2 DEF Out
        <5> QED BY <5>3, <5>4
      <4> QED BY <4>1, <4>2
    <3> QED BY <3>1, <3>2, <3>3
  <2>3. j \in 1..Len(income) \/ \E k \in 1..Len(out) : j = Len(income) + k
    <3>1. CASE j <= Len(income)
      BY <1>1, <3>1
    <3>2. CASE ~ (j <= Len(income))
      <4>1. j - Len(income) \in 1..Len(out) /\ j = Len(income) + (j - Len(income))
        BY <1>1, <3>2
      <4> QED BY <4>1
    <3> QED BY <3>1, <3>2
  <2> QED BY <2>1, <2>2, <2>3
<1> QED BY <1>5, <1>6, <1>7 DEF Whole

LEMMA QueueAfter ==
  ASSUME TypeOK, NEW p \in Ports, NEW out \in Seq(Seq(BytesOf(p))),
         income' = income \o Brings(p, out)
  PROVE  \A i : After(p, i) /\ Ahead(out, i) => After(p, i)'
<1> SUFFICES ASSUME NEW i, After(p, i), Ahead(out, i),
                    NEW j \in DOMAIN income', income'[j].port = p
             PROVE  income'[j].bytes[1][1] < i
  BY DEF After
<1>1. /\ Len(out) \in Nat /\ Len(income) \in Nat
      /\ DOMAIN income' = 1..(Len(income) + Len(out))
      /\ \A k \in 1..Len(income) : income'[k] = income[k]
      /\ \A k \in 1..Len(out) : income'[Len(income) + k].bytes = out[k]
  BY IncomeGrows DEF Longer
<1>2. DOMAIN income = 1..Len(income) /\ DOMAIN out = 1..Len(out)
  BY TypeFacts, LenProperties
<1>3. CASE j <= Len(income)
  <2>1. j \in 1..Len(income)
    BY <1>1, <1>3
  <2> QED BY <1>1, <1>2, <2>1 DEF After
<1>4. CASE ~ (j <= Len(income))
  <2>1. j - Len(income) \in 1..Len(out) /\ j = Len(income) + (j - Len(income))
    BY <1>1, <1>4
  <2>2. PICK k \in 1..Len(out) : j = Len(income) + k
    BY <2>1
  <2>3. out[k][1][1] < i
    BY <1>2 DEF Ahead
  <2> QED BY <1>1, <2>2, <2>3
<1> QED BY <1>3, <1>4

LEMMA QueueFramed ==
  ASSUME TcpLinkAssumption, IInv, NEW p \in Ports, Framed(p),
         UNCHANGED <<sent, sender, cut>>,
         NEW n \in 1..Len(stream[p]), NEW out \in Seq(Seq(BytesOf(p))), NEW e,
         Out(stream[p], n, out), Ready(p, e, stream[p], n),
         stream'[p] = Left(stream[p], n), entries'[p] = e, e.data \in Seq(BytesOf(p)),
         income' = income \o Brings(p, out)
  PROVE  Framed(p)'
<1> PICK s, c, len : s = stream[p] /\ c = Current(p) /\ len = Len(s)
  OBVIOUS
<1> PICK t : t = Left(s, n)
  OBVIOUS
<1>0. sent \in Seq(Message) /\ Len(sent) <= MaxMessages /\ TypeOK
  BY InvFacts
<1>1. /\ s \in Seq(BytesOf(p)) /\ DOMAIN s = 1..len /\ len \in Nat /\ n \in 1..len
      /\ InRow(s) /\ Later(p) /\ Position(p, c)
      /\ Out(s, n, out) /\ Ready(p, e, s, n)
  BY InvFacts, LenProperties DEF Known, Framed
<1>2. /\ t \in Seq(BytesOf(p)) /\ Len(t) = len - n /\ stream'[p] = t
      /\ \A k \in 1..(len - n) : t[k] = s[n + k]
  <2>1. n \in 0..Len(s)
    BY <1>1
  <2>2. s \in Seq(BytesOf(p))
    BY <1>1
  <2>3. /\ Left(s, n) \in Seq(BytesOf(p)) /\ Len(Left(s, n)) = Len(s) - n
        /\ \A k \in 1..(Len(s) - n) : Left(s, n)[k] = s[n + k]
    <3>1. Halves(BytesOf(p), s, n)
      BY <2>1, <2>2, LeftFacts
    <3> QED BY <3>1 DEF Halves
  <2> QED BY <2>3
<1>3. \A k \in 1..(len - n) : n + k \in 1..len /\ n < n + k
  BY <1>1
<1>4. Grows(p) /\ BytesOf(p)' = BytesOf(p) /\ From(p)' = From(p)
  BY SameSent
<1>5. \A i : After(p, i) /\ Ahead(out, i) => After(p, i)'
  BY <1>0, QueueAfter
<1>6. \A k \in 1..len : k > n \/ (k = n /\ ~ Done(s[k])) => Ahead(out, s[k][1])
  BY <1>0, <1>1, OutBefore
<1>7. Ready(p, entries[p], stream[p], 0)'
  <2>1. Ready(p, e, t, 0)
    <3>1. Len(t) > 0 => n < len /\ t[1] = s[n + 1]
      <4>1. Len(t) > 0 => n < len /\ 1 \in 1..(len - n)
        BY <1>1, <1>2
      <4> QED BY <1>2, <4>1
    <3>2. ~ (0 > 0) /\ 0 + 1 = 1
      OBVIOUS
    <3> QED BY <1>1, <1>2, <3>1, <3>2 DEF Ready
  <2>2. Ready(p, e, t, 0)'
    BY <1>0, <1>2, <1>4, <2>1, Grown
  <2> QED BY <1>2, <2>2 DEF Ready, Partial, Done, Last
<1>8. InRow(stream[p])'
  <2>1. ASSUME NEW k \in 1..(Len(t) - 1) PROVE Follows(t[k], t[k + 1])
    <3>1. /\ k \in 1..(len - n) /\ k + 1 \in 1..(len - n) /\ n + k \in 1..(len - 1)
          /\ n + (k + 1) = (n + k) + 1
      BY <1>1, <1>2
    <3>2. Follows(s[n + k], s[(n + k) + 1])
      BY <1>1, <3>1 DEF InRow
    <3> QED BY <1>2, <3>1, <3>2
  <2>2. ASSUME NEW k \in 1..Len(t), NEW l \in 1..Len(t), k < l PROVE Precedes(t[k], t[l])
    <3>1. k \in 1..(len - n) /\ l \in 1..(len - n) /\ n + k < n + l
      BY <1>1, <1>2, <2>2
    <3> QED BY <1>1, <1>2, <1>3, <3>1 DEF InRow
  <2>3. InRow(t)
    BY <2>1, <2>2 DEF InRow
  <2>4. InRow(t)'
    BY <1>0, <1>2, <1>4, <2>3, Grown
  <2> QED BY <1>2, <2>4, StreamOf
<1>9. Later(p)'
  <2>1. ASSUME NEW k \in DOMAIN t PROVE After(p, t[k][1])'
    <3>1. k \in 1..(len - n)
      BY <1>2, LenProperties
    <3>2. t[k] = s[n + k] /\ n + k \in 1..len /\ n + k > n
      BY <1>2, <1>3, <3>1
    <3>3. After(p, s[n + k][1])
      BY <1>1, <3>2 DEF Later
    <3>4. Ahead(out, s[n + k][1])
      BY <1>6, <3>2
    <3> QED BY <1>5, <3>2, <3>3, <3>4
  <2> QED BY <1>2, <2>1 DEF Later
<1>10. stream[p] # <<>> /\ len \in 1..len /\ s[len] \in BytesOf(p)
  <2>1. s # <<>> /\ len \in 1..len
    BY <1>1, EmptySeq
  <2> QED BY <1>1, <2>1, ElementOfSeq
<1>11. IF n = len THEN t = <<>> ELSE t # <<>> /\ t[Len(t)] = s[len]
  <2>1. CASE n = len
    BY <1>1, <1>2, <2>1, EmptySeq
  <2>2. CASE n # len
    <3>1. len - n \in 1..(len - n) /\ n + (len - n) = len /\ len - n # 0
      BY <1>1, <2>2
    <3>2. t # <<>>
      BY <1>2, <3>1, EmptySeq
    <3> QED BY <1>2, <2>2, <3>1, <3>2
  <2> QED BY <2>1, <2>2
<1>12. ASSUME Ended(p) PROVE Ended(p)'
  <2>1. Done(s[len])
    BY <1>10, <1>12 DEF Ended
  <2>2. CASE n = len
    <3>1. \A i \in From(p) : Partial(e, i) => s[n] # <<i, Prefix + Len(e.data)>>
      <4> SUFFICES ASSUME NEW i \in From(p), Partial(e, i), s[n] = <<i, Prefix + Len(e.data)>>
                   PROVE  FALSE
        OBVIOUS
      <4>1. i \in DOMAIN sent
        BY DEF From
      <4>2. Last(i) = Prefix + sent[i].length /\ sent[i].length \in Nat /\ Prefix \in Nat
        BY <1>0, <4>1, SentFacts DEF Last, TcpLinkAssumption
      <4>3. Len(e.data) \in Nat
        BY LenProperties
      <4> QED BY <2>1, <2>2, <4>2, <4>3 DEF Partial, Done
    <3>2. n > 0
      BY <1>1
    <3>3. e = Empty
      BY <1>1, <3>1, <3>2 DEF Ready
    <3> QED BY <1>2, <1>11, <2>2, <3>3 DEF Ended
  <2>3. CASE n # len
    <3>1. t # <<>> /\ t[Len(t)] = s[len]
      BY <1>11, <2>3
    <3>2. Done(t[Len(t)])'
      BY <2>1, <3>1 DEF Done, Last
    <3> QED BY <1>2, <3>1, <3>2 DEF Ended
  <2> QED BY <2>2, <2>3
<1>13. ASSUME sender[p] = "payload", Prefixed(p, c) PROVE Prefixed(p, c)'
  <2>1. /\ s[len] = <<c, Prefix>> /\ After(p, c)
        /\ Last(c) \in Nat /\ Last(c) > Prefix /\ Prefix \in Nat
    BY <1>10, <1>13, SenderFacts DEF Prefixed
  <2>2. ~ Done(s[len])
    BY <2>1 DEF Done
  <2>3. Ahead(out, s[len][1])
    <3>1. len > n \/ len = n
      BY <1>1
    <3> QED BY <1>6, <1>10, <2>2, <3>1
  <2>4. After(p, c)'
    BY <1>5, <2>1, <2>3
  <2>5. CASE n = len
    <3>1. n > 0
      BY <1>1
    <3>2. PICK i \in From(p) : Partial(e, i) /\ s[n] = <<i, Prefix + Len(e.data)>>
      BY <1>1, <2>2, <2>5, <3>1 DEF Ready
    <3>3. Len(e.data) \in Nat
      BY LenProperties
    <3>4. i = c /\ Len(e.data) = 0
      BY <2>1, <2>5, <3>2, <3>3
    <3>5. e.data = <<>>
      BY <3>4, EmptySeq
    <3>6. Partial(e, c)'
      BY <3>2, <3>4 DEF Partial
    <3> QED BY <1>2, <1>11, <2>4, <2>5, <3>5, <3>6 DEF Prefixed
  <2>6. CASE n # len
    <3>1. t # <<>> /\ t[Len(t)] = <<c, Prefix>>
      BY <1>11, <2>1, <2>6
    <3> QED BY <1>2, <2>4, <3>1 DEF Prefixed
  <2> QED BY <2>5, <2>6
<1>14. ASSUME After(p, c), \A k \in DOMAIN s : s[k][1] < c
       PROVE  After(p, c)' /\ \A k \in DOMAIN t : t[k][1] < c
  <2>1. Ahead(out, c)
    <3> SUFFICES ASSUME NEW j \in DOMAIN out PROVE out[j][1][1] < c
      BY DEF Ahead
    <3>1. OutOf(p, s, out)
      BY <1>0, <1>1, OutMessages
    <3>2. PICK a \in 1..Len(s) : out[j][1][1] = s[a][1]
      BY <3>1 DEF OutOf
    <3> QED BY <1>1, <1>14, <3>2
  <2>2. \A k \in DOMAIN t : t[k][1] < c
    <3> SUFFICES ASSUME NEW k \in DOMAIN t PROVE t[k][1] < c
      OBVIOUS
    <3>1. k \in 1..(len - n)
      BY <1>2, LenProperties
    <3> QED BY <1>1, <1>2, <1>3, <1>14, <3>1
  <2> QED BY <1>5, <1>14, <2>1, <2>2
<1>15. Position(p, c)'
  BY <1>1, <1>2, <1>12, <1>13, <1>14 DEF Position
<1>16. Current(p)' = c
  BY <1>4 DEF Current
<1>17. Position(p, Current(p))'
  BY <1>15, <1>16 DEF Position, Prefixed
<1> QED BY <1>7, <1>8, <1>9, <1>17 DEF Framed

LEMMA QueuePacketKeeps ==
  ASSUME TcpLinkAssumption, IInv, NEW p \in Ports, NET_QueuePacket(p)
  PROVE  IInv'
<1>1. PICK n \in 1..Len(stream[p]), garbage \in Garbage :
        LET r == AddData(entries[p], SubSeq(stream[p], 1, n), garbage) IN
        /\ stream' = [stream EXCEPT ![p] = Left(@, n)]
        /\ entries' = [entries EXCEPT ![p] = r.entry]
        /\ income' = income \o [k \in DOMAIN r.out |-> [port |-> p, bytes |-> r.out[k]]]
        /\ dead' = r.missed
        /\ spoiled' = IF ~ r.entry.valid /\ r.entry.data # <<>> THEN spoiled \cup {p} ELSE spoiled
  BY DEF NET_QueuePacket
<1>2. ~ dead /\ UNCHANGED <<sent, sender, clients, handled, faults, cut>>
  BY DEF NET_QueuePacket, senderVars
<1> PICK s, e, B, r :
      /\ s = stream[p] /\ e = entries[p] /\ B = BytesOf(p)
      /\ r = AddData(e, SubSeq(s, 1, n), garbage)
  OBVIOUS
<1>3. /\ stream' = [stream EXCEPT ![p] = Left(@, n)] /\ entries' = [entries EXCEPT ![p] = r.entry]
      /\ income' = income \o Brings(p, r.out) /\ dead' = r.missed
      /\ spoiled' = IF ~ r.entry.valid /\ r.entry.data # <<>> THEN spoiled \cup {p} ELSE spoiled
  BY <1>1 DEF Brings
<1>4. sent \in Seq(Message) /\ Len(sent) <= MaxMessages /\ TypeOK
  BY InvFacts
<1>5. s \in Seq(B) /\ e.data \in Seq(B) /\ e \in [valid : BOOLEAN, total : Int, data : Seq(B)]
  <2>1. s \in Seq(B) /\ e.data \in Seq(B)
    BY InvFacts DEF Known
  <2>2. e \in [valid : BOOLEAN, total : Int, data : Seq(Byte)]
    BY <1>4, TypeFacts
  <2> QED BY <2>1, <2>2
<1>6. r \in Reading(B) /\ Left(s, n) \in Seq(B)
  <2>1. n \in 0..Len(s)
    BY <1>5
  <2>2. SubSeq(s, 1, n) \in Seq(B) /\ Left(s, n) \in Seq(B)
    BY <1>5, <2>1, LeftFacts DEF Halves
  <2> QED BY <1>4, <1>5, <2>2, AddDataTyped
<1>7. /\ r.entry \in [valid : BOOLEAN, total : Int, data : Seq(B)] /\ r.out \in Seq(Seq(B))
      /\ r.missed \in BOOLEAN /\ r.entry.data \in Seq(B)
  BY <1>6 DEF Reading
<1>8. /\ stream'[p] = Left(s, n) /\ entries'[p] = r.entry
      /\ \A o \in Ports : o # p => stream'[o] = stream[o] /\ entries'[o] = entries[o]
  BY <1>3, <1>4 DEF TypeOK
<1>9. ASSUME p \notin spoiled'
      PROVE  /\ p \notin spoiled /\ Framed(p) /\ Whole(p) /\ ~ r.missed
             /\ Out(s, n, r.out) /\ Ready(p, r.entry, s, n)
  <2>1. p \notin spoiled /\ ~ Broken(r)
    BY <1>3, <1>9 DEF Broken
  <2>2. Framed(p) /\ Whole(p)
    BY <2>1, InvFacts DEF AtPort
  <2>3. InRow(s) /\ Ready(p, e, s, 0)
    BY <2>2 DEF Framed
  <2>4. ~ r.missed /\ (Broken(r) \/ (Out(s, n, r.out) /\ Ready(p, r.entry, s, n)))
    BY <1>4, <1>5, <2>3, ReadFacts
  <2> QED BY <2>1, <2>2, <2>4
<1>10. /\ income' \in Seq([port : Ports, bytes : Seq(Byte)])
       /\ Len(income') = Len(income) + Len(r.out) /\ Len(r.out) \in Nat
       /\ DOMAIN income' = 1..(Len(income) + Len(r.out)) /\ Len(income) \in Nat
       /\ \A j \in 1..Len(income) : income'[j] = income[j]
       /\ \A k \in 1..Len(r.out) : /\ income'[Len(income) + k].port = p
                                  /\ income'[Len(income) + k].bytes = r.out[k]
  <2>1. r.out \in Seq(Seq(BytesOf(p))) /\ income' = income \o Brings(p, r.out) /\ TypeOK
    BY <1>3, <1>4, <1>7
  <2>2. PICK out : out = r.out
    OBVIOUS
  <2>3. out \in Seq(Seq(BytesOf(p))) /\ income' = income \o Brings(p, out)
    BY <2>1, <2>2
  <2>4. Longer(p, out)
    BY <2>1, <2>3, IncomeGrows
  <2> QED BY <2>2, <2>4 DEF Longer
<1>11. ASSUME NEW o \in Ports, o # p PROVE SameIncome(o)
  <2>1. ASSUME NEW j \in DOMAIN income', income'[j].port = o PROVE j \in DOMAIN income /\ income'[j] = income[j]
    <3>1. CASE j <= Len(income)
      <4>1. j \in 1..Len(income)
        BY <1>10, <3>1
      <4> QED BY <1>10, <4>1, <1>4, TypeFacts
    <3>2. CASE ~ (j <= Len(income))
      <4>1. j - Len(income) \in 1..Len(r.out) /\ j = Len(income) + (j - Len(income))
        BY <1>10, <3>2
      <4> QED BY <1>10, <1>11, <2>1, <4>1
    <3> QED BY <3>1, <3>2
  <2>2. DOMAIN income = 1..Len(income)
    BY <1>4, TypeFacts
  <2>3. DOMAIN income \subseteq DOMAIN income' /\ DOMAIN income' = 1..Len(income') /\ Len(income') \in Nat
    BY <1>10, <2>2
  <2> QED BY <2>1, <2>3 DEF SameIncome
<1>12. spoiled \subseteq spoiled' /\ spoiled' \subseteq Ports
  BY <1>3, <1>4 DEF TypeOK
<1>13. ASSUME NEW o \in Ports, o # p PROVE AtPort(o)'
  <2>1. Untouched(o)
    BY <1>2, <1>8, <1>11, <1>12, <1>13, SameSent DEF Untouched
  <2> QED BY <1>4, <2>1, InvFacts, PortKept
<1>14. AtPort(p)'
  <2>1. Begun(p)'
    BY <1>2, InvFacts, SameSent DEF Begun
  <2>2. Known(p)'
    BY <1>2, <1>6, <1>7, <1>8, SameSent DEF Known
  <2>3. p \notin spoiled' => Framed(p)'
    BY <1>2, <1>3, <1>7, <1>8, <1>9, QueueFramed
  <2>4. p \notin spoiled' => Whole(p)'
    BY <1>2, <1>3, <1>4, <1>7, <1>9, InvFacts, QueueWhole DEF Framed
  <2> QED BY <2>1, <2>2, <2>3, <2>4 DEF AtPort
<1>15. TypeOK'
  <2>1. /\ stream' \in [Ports -> Seq(Byte)]
        /\ entries' \in [Ports -> [valid : BOOLEAN, total : Int, data : Seq(Byte)]]
    <3>1. Left(s, n) \in Seq(Byte) /\ r.entry.data \in Seq(Byte)
      BY <1>6, <1>7, SeqMonotonic DEF BytesOf
    <3>2. r.entry \in [valid : BOOLEAN, total : Int, data : Seq(Byte)]
      BY <1>7, <3>1
    <3> QED BY <1>3, <1>4, <3>1, <3>2 DEF TypeOK
  <2>2. \A o \in Ports : sender'[o] = "none" => o \notin clients' /\ stream'[o] = <<>>
    <3>1. p \in clients
      BY DEF NET_QueuePacket
    <3>2. sender[p] # "none"
      BY <1>4, <3>1 DEF TypeOK
    <3> QED BY <1>2, <1>4, <1>8, <3>2 DEF TypeOK
  <2>3. \A o \in Ports :
          o \in spoiled' \/ Len(entries'[o].data) <= IF entries'[o].valid THEN entries'[o].total ELSE Prefix - 1
    <3>1. ASSUME NEW o \in Ports, o # p, o \notin spoiled'
          PROVE  Len(entries'[o].data) <= IF entries'[o].valid THEN entries'[o].total ELSE Prefix - 1
      BY <1>4, <1>8, <1>12, <3>1 DEF TypeOK
    <3>2. ASSUME p \notin spoiled'
          PROVE  Len(r.entry.data) <= IF r.entry.valid THEN r.entry.total ELSE Prefix - 1
      <4>1. r.entry = Empty \/ \E i \in From(p) : Partial(r.entry, i)
        BY <1>9, <3>2 DEF Ready
      <4>2. CASE r.entry = Empty
        BY <4>2, EmptyFacts DEF TcpLinkAssumption
      <4>3. CASE \E i \in From(p) : Partial(r.entry, i)
        <5>1. r.entry.valid /\ Len(r.entry.data) < r.entry.total
          BY <4>3 DEF Partial
        <5>2. Len(r.entry.data) \in Nat /\ r.entry.total \in Int
          BY <1>7, LenProperties
        <5>3. Len(r.entry.data) <= r.entry.total
          BY <5>1, <5>2
        <5> QED BY <5>1, <5>3
      <4> QED BY <4>1, <4>2, <4>3
    <3> QED BY <1>8, <3>1, <3>2
  <2>4. handled' \in 0..Len(income')
    BY <1>2, <1>4, <1>10 DEF TypeOK
  <2>5. dead' \in BOOLEAN
    BY <1>3, <1>7
  <2> QED BY <1>2, <1>4, <1>10, <1>12, <2>1, <2>2, <2>3, <2>4, <2>5 DEF TypeOK
<1>16. dead' => spoiled' # {}
  <2>1. CASE p \in spoiled'
    BY <2>1
  <2>2. CASE p \notin spoiled'
    BY <1>3, <1>9, <2>2
  <2> QED BY <2>1, <2>2
<1> QED BY <1>13, <1>14, <1>15, <1>16 DEF IInv
-----------------------------------------------------------------------------
LEMMA Start ==
  ASSUME TcpLinkAssumption, Init
  PROVE  IInv
<1> USE DEF Init
<1>1. sent = <<>> /\ income = <<>> /\ <<>> \in Seq(Byte) /\ Len(<<>>) = 0
  BY EmptySeq
<1>2. TypeOK
  <2>1. /\ sent \in Seq([port : Ports, length : 1..MaxLength]) /\ Len(sent) = 0
        /\ income \in Seq([port : Ports, bytes : Seq(Byte)]) /\ Len(income) = 0
    BY <1>1, EmptySeq
  <2>2. Empty \in [valid : BOOLEAN, total : Int, data : Seq(Byte)]
    BY <1>1 DEF Empty
  <2>3. entries \in [Ports -> [valid : BOOLEAN, total : Int, data : Seq(Byte)]]
    BY <2>2
  <2>4. \A p \in Ports : Len(entries[p].data) <= IF entries[p].valid THEN entries[p].total ELSE Prefix - 1
    <3> SUFFICES ASSUME NEW p \in Ports
                 PROVE  Len(entries[p].data) <= IF entries[p].valid THEN entries[p].total ELSE Prefix - 1
      OBVIOUS
    <3>1. entries[p] = Empty /\ 0 <= Prefix - 1
      BY DEF TcpLinkAssumption
    <3> QED BY <3>1, EmptyFacts
  <2>5. sender \in [Ports -> {"none", "prefix", "payload", "open", "closed"}]
        /\ stream \in [Ports -> Seq(Byte)]
    BY <1>1
  <2>6. 0 <= MaxMessages /\ 0 \in 0..Len(income) /\ 0 \in 0..MaxFaults
    BY <2>1 DEF TcpLinkAssumption
  <2> QED BY <1>1, <2>1, <2>3, <2>4, <2>5, <2>6 DEF TypeOK
<1>3. ASSUME NEW p \in Ports PROVE AtPort(p)
  <2>1. Begun(p) /\ Whole(p)
    BY <1>1 DEF Begun, Whole
  <2>2. Known(p)
    BY EmptyFacts, EmptySeq DEF Known
  <2>3. Framed(p)
    <3>1. stream[p] = <<>> /\ entries[p] = Empty /\ sender[p] = "none"
      OBVIOUS
    <3>2. Ready(p, entries[p], stream[p], 0)
      BY <1>1, <3>1 DEF Ready
    <3> QED BY <1>1, <3>1, <3>2 DEF Framed, InRow, Later, Position
  <2> QED BY <2>1, <2>2, <2>3 DEF AtPort
<1> QED BY <1>2, <1>3 DEF IInv

LEMMA Step ==
  ASSUME TcpLinkAssumption, IInv, [Next]_vars
  PROVE  IInv'
<1>1. CASE Handle
  BY <1>1, HandleKeeps
<1>2. ASSUME NEW p \in Ports, Senders(p) PROVE IInv'
  BY <1>2, SendMessageKeeps, SendPrefixKeeps, SendPayloadKeeps, CloseSocketKeeps DEF Senders
<1>3. ASSUME NEW p \in Ports, NetThread(p) PROVE IInv'
  BY <1>3, AcceptKeeps, QueuePacketKeeps, CheckIdleSocketsKeeps DEF NetThread
<1>4. CASE UNCHANGED vars
  <2> USE <1>4 DEF vars, senderVars, serverVars, historyVars
  <2>1. TypeOK'
    BY DEF IInv, TypeOK
  <2>2. ASSUME NEW o \in Ports PROVE AtPort(o)'
    <3>1. Untouched(o)
      BY InvFacts, SameSent, SameIncomeFacts DEF Untouched
    <3> QED BY <3>1, InvFacts, PortKept
  <2> QED BY <2>1, <2>2 DEF IInv
<1> QED BY <1>1, <1>2, <1>3, <1>4 DEF Next

(* What is not spoiled stays framed: the entry of the sender, the bytes that *)
(* were not read and the place where the sender is go on from each other.   *)
THEOREM Invariant == Spec => []IInv
<1>1. Init => IInv
  BY Start, TcpLinkAssumption
<1>2. IInv /\ [Next]_vars => IInv'
  BY Step, TcpLinkAssumption
<1> QED BY <1>1, <1>2, PTL DEF Spec

(* The entries, the clients and the connections are what TypeOK says; an    *)
(* entry holds less than it waits for unless its port is spoiled.           *)
THEOREM TcpLinkTypes == Spec => []TypeOK
<1>1. IInv => TypeOK
  BY DEF IInv
<1> QED BY <1>1, Invariant, PTL

(* The messages of a port come out whole, once and in their order, however  *)
(* recv splits the bytes, and AddData stays inside its bytes, unless one of *)
(* the three things that spoil a port has happened.                         *)
THEOREM MessagesComeWhole == Spec => []WholeInOrder
<1>1. IInv => WholeInOrder
  BY DEF IInv, AtPort, Whole, WholeInOrder
<1> QED BY <1>1, Invariant, PTL
=============================================================================
