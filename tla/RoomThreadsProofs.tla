-------------------------- MODULE RoomThreadsProofs --------------------------
(***************************************************************************)
(* Proofs about RoomThreads: no camera has two threads, and none is        *)
(* forgotten that has not ended, unless StopServer met the main thread     *)
(* between m_State and the threads.                                        *)
(***************************************************************************)
EXTENDS RoomThreads, SequenceTheorems, WellFoundedInduction, TLAPS

(* What holds before a loop and is kept by each turn holds up to the last:  *)
(* induction, with a set in the place of a predicate.                       *)
LEMMA LoopInduction ==
  ASSUME NEW n \in Nat, NEW G, 0 \in G, \A m \in 1..n : m - 1 \in G => m \in G
  PROVE  0..n \subseteq G
<1> DEFINE bad == (0..n) \ G
           less == {ss \in Nat \X Nat : ss[1] < ss[2]}
<1>1. SUFFICES ASSUME bad # {} PROVE FALSE
  OBVIOUS
<1>2. IsWellFoundedOn(less, Nat)
  BY NatLessThanWellFounded DEF OpToRel
<1>3. bad \subseteq Nat
  OBVIOUS
<1>4. PICK m \in bad : \A k \in bad : ~(<<k, m>> \in less)
  <2> HIDE DEF less, bad
  <2> QED BY <1>1, <1>2, <1>3, WFMin, Zenon
<1>5. m \in 1..n
  OBVIOUS
<1>6. m - 1 \in bad
  BY <1>5
<1>7. <<m - 1, m>> \in less
  BY <1>5
<1> QED BY <1>4, <1>6, <1>7

(* f is the value after each turn of a loop over 1..n whose turn i makes    *)
(* step[i][x] of x.                                                         *)
IsLoop(f, n, base, step) == f[0] = base /\ \A i \in 1..n : f[i] = step[i][f[i - 1]]

(* A loop computes something: the recursive function exists.                *)
LEMMA LoopDefined ==
  ASSUME NEW n \in Nat, NEW S, NEW base \in S, NEW step \in [1..n -> [S -> S]]
  PROVE  \E f \in [0..n -> S] : IsLoop(f, n, base, step)
<1> DEFINE Turned(f, m) ==
             f \in [0..m -> S] /\ f[0] = base /\ \A i \in 1..m : f[i] = step[i][f[i - 1]]
           G == {m \in 0..n : \E f : Turned(f, m)}
<1>1. Turned([i \in 0..0 |-> base], 0)
  OBVIOUS
<1>2. ASSUME NEW m \in 1..n, NEW f, Turned(f, m - 1)
      PROVE  \E g : Turned(g, m)
  <2> DEFINE g == [i \in 0..m |-> IF i = m THEN step[m][f[m - 1]] ELSE f[i]]
  <2>1. f \in [0..(m - 1) -> S] /\ f[0] = base /\ \A i \in 1..(m - 1) : f[i] = step[i][f[i - 1]]
    BY <1>2
  <2>2. f[m - 1] \in S
    BY <2>1
  <2>3. step[m][f[m - 1]] \in S
    BY <2>2
  <2>4. g \in [0..m -> S]
    BY <2>1, <2>3
  <2>5. g[0] = base
    BY <2>1
  <2>6. ASSUME NEW i \in 1..m PROVE g[i] = step[i][g[i - 1]]
    <3>1. CASE i = m
      <4>1. g[m - 1] = f[m - 1] /\ g[i] = step[m][f[m - 1]]
        BY <3>1
      <4> QED BY <3>1, <4>1
    <3>2. CASE i # m
      <4>1. i \in 1..(m - 1) /\ i - 1 \in 0..(m - 1)
        BY <3>2
      <4>2. g[i] = f[i] /\ g[i - 1] = f[i - 1]
        BY <3>2, <4>1
      <4> QED BY <2>1, <4>1, <4>2
    <3> QED BY <3>1, <3>2
  <2> HIDE DEF g
  <2>7. Turned(g, m)
    BY <2>4, <2>5, <2>6
  <2> QED BY <2>7
<1>3. 0..n \subseteq G
  <2> HIDE DEF Turned
  <2>1. 0 \in G
    BY <1>1
  <2>2. \A m \in 1..n : m - 1 \in G => m \in G
    BY <1>2
  <2> HIDE DEF G
  <2> QED BY <2>1, <2>2, LoopInduction
<1>4. n \in G
  BY <1>3
<1>5. \E f : Turned(f, n)
  BY <1>4
<1> QED BY <1>5 DEF IsLoop

(* Taking one message out of a channel leaves the others in their order.    *)
LEMMA RemoveAtFacts ==
  ASSUME NEW S, NEW q \in Seq(S), NEW i \in DOMAIN q
  PROVE  /\ RemoveAt(q, i) \in Seq(S) /\ Len(RemoveAt(q, i)) = Len(q) - 1
         /\ \A j \in DOMAIN RemoveAt(q, i) : \E k \in DOMAIN q : RemoveAt(q, i)[j] = q[k]
         /\ \A j \in DOMAIN RemoveAt(q, i) :
              RemoveAt(q, i)[j] = IF j < i THEN q[j] ELSE q[j + 1]
<1>1. i \in 1..Len(q) /\ Len(q) \in Nat /\ DOMAIN q = 1..Len(q)
  OBVIOUS
<1>2. RemoveAt(q, i) \in Seq(S) /\ Len(RemoveAt(q, i)) = Len(q) - 1
  BY <1>1 DEF RemoveAt
<1>3. ASSUME NEW j \in 1..(Len(q) - 1)
      PROVE  RemoveAt(q, i)[j] = IF j < i THEN q[j] ELSE q[j + 1]
  <2>1. CASE j < i
    BY <1>1, <2>1 DEF RemoveAt
  <2>2. CASE ~ (j < i)
    BY <1>1, <2>2 DEF RemoveAt
  <2> QED BY <2>1, <2>2
<1>4. DOMAIN RemoveAt(q, i) = 1..(Len(q) - 1)
  BY <1>1, <1>2
<1>5. ASSUME NEW j \in DOMAIN RemoveAt(q, i) PROVE \E k \in DOMAIN q : RemoveAt(q, i)[j] = q[k]
  <2>1. j \in DOMAIN q /\ j + 1 \in DOMAIN q
    BY <1>1, <1>4
  <2> QED BY <1>3, <1>4, <2>1
<1> QED BY <1>2, <1>3, <1>4, <1>5

(* t is q and r, one after the other.                                       *)
IsConcat(S, t, q, r) ==
  /\ t \in Seq(S) /\ Len(t) = Len(q) + Len(r)
  /\ Len(q) \in Nat /\ Len(r) \in Nat /\ DOMAIN t = 1..(Len(q) + Len(r))
  /\ \A i \in 1..Len(q) : t[i] = q[i]
  /\ \A i \in 1..Len(r) : t[Len(q) + i] = r[i]

(* What is put after a sequence leaves it as it is.                         *)
LEMMA ConcatFacts ==
  ASSUME NEW S, NEW q \in Seq(S), NEW r \in Seq(S)
  PROVE  IsConcat(S, q \o r, q, r)
<1>1. Len(q) \in Nat /\ Len(r) \in Nat
  OBVIOUS
<1>2. \A i \in 1..Len(q) : (q \o r)[i] = q[i]
  OBVIOUS
<1>3. ASSUME NEW i \in 1..Len(r) PROVE (q \o r)[Len(q) + i] = r[i]
  <2>1. Len(q) + i \in 1..(Len(q) + Len(r)) /\ ~(Len(q) + i <= Len(q)) /\ (Len(q) + i) - Len(q) = i
    BY <1>1
  <2>2. (q \o r)[Len(q) + i] = r[(Len(q) + i) - Len(q)]
    BY <1>1, <2>1
  <2> QED BY <2>1, <2>2
<1> QED BY <1>1, <1>2, <1>3 DEF IsConcat

Failed(i) == threads[analyzers[i]].status = "failed"

(* The loop that fills BadThreads, after i threads.                         *)
BadSoFar(q, i) ==
  /\ q \in Seq(1..i)
  /\ \A k \in DOMAIN q : Failed(q[k]) /\ k <= q[k]
  /\ \A j \in 1..i : Failed(j) => \E k \in DOMAIN q : q[k] = j
  /\ \A k, l \in DOMAIN q : k < l => q[k] < q[l]

LEMMA BadThreadsLoop ==
  ASSUME NEW n \in Nat, n = Len(analyzers)
  PROVE  \E bad : /\ BadThreads = bad[n] /\ bad[0] = <<>>
                  /\ \A i \in 1..n :
                       bad[i] = IF Failed(i) THEN Append(bad[i - 1], i) ELSE bad[i - 1]
<1> DEFINE turn == [i \in 1..n |-> [q \in Seq(Nat) |-> IF Failed(i) THEN Append(q, i) ELSE q]]
           F(f) == [i \in 0..n |->
                      IF i = 0 THEN <<>>
                      ELSE IF threads[analyzers[i]].status = "failed" THEN Append(f[i - 1], i)
                      ELSE f[i - 1]]
           bad == CHOOSE f : f = F(f)
<1>1. BadThreads = bad[n]
  BY DEF BadThreads
<1>2. \E f : f = F(f)
  <2>1. turn \in [1..n -> [Seq(Nat) -> Seq(Nat)]]
    OBVIOUS
  <2>2. PICK f \in [0..n -> Seq(Nat)] : f[0] = <<>> /\ \A i \in 1..n : f[i] = turn[i][f[i - 1]]
    <3> DEFINE S == Seq(Nat)
               base == <<>>
    <3>1. base \in S
      OBVIOUS
    <3>2. turn \in [1..n -> [S -> S]]
      BY <2>1
    <3> HIDE DEF turn, S, base
    <3>3. \E f \in [0..n -> S] : IsLoop(f, n, base, turn)
      BY <3>1, <3>2, LoopDefined
    <3> QED BY <3>3 DEF S, base, IsLoop
  <2>3. ASSUME NEW i \in 1..n
        PROVE  f[i] = IF Failed(i) THEN Append(f[i - 1], i) ELSE f[i - 1]
    <3>1. f[i - 1] \in Seq(Nat)
      OBVIOUS
    <3>2. turn[i][f[i - 1]] = IF Failed(i) THEN Append(f[i - 1], i) ELSE f[i - 1]
      BY <3>1
    <3> HIDE DEF turn
    <3> QED BY <2>2, <3>2
  <2>4. ASSUME NEW i \in 0..n PROVE f[i] = F(f)[i]
    <3>1. CASE i = 0
      BY <2>2, <3>1
    <3>2. CASE i # 0
      <4>1. i \in 1..n
        BY <3>2
      <4>2. f[i] = IF Failed(i) THEN Append(f[i - 1], i) ELSE f[i - 1]
        BY <2>3, <4>1
      <4>3. F(f)[i] = IF Failed(i) THEN Append(f[i - 1], i) ELSE f[i - 1]
        BY <4>1 DEF Failed
      <4> HIDE DEF F
      <4> QED BY <4>2, <4>3
    <3> QED BY <3>1, <3>2
  <2>5. f = F(f)
    BY <2>4
  <2> QED BY <2>5
<1>3. bad = F(bad)
  <2> HIDE DEF F
  <2> QED BY <1>2, Zenon
<1> HIDE DEF bad
<1>4. bad[0] = <<>> 
  BY <1>3
<1>5. ASSUME NEW i \in 1..n
      PROVE  bad[i] = IF Failed(i) THEN Append(bad[i - 1], i) ELSE bad[i - 1]
  <2>1. F(bad)[i] = IF Failed(i) THEN Append(bad[i - 1], i) ELSE bad[i - 1]
    BY DEF Failed
  <2> HIDE DEF F
  <2> QED BY <1>3, <2>1
<1> QED BY <1>1, <1>4, <1>5

(* BadThreads are the indices of the threads that failed, in their order.   *)
LEMMA BadThreadsFacts ==
  ASSUME TypeOK
  PROVE  BadSoFar(BadThreads, Len(analyzers))
<1> DEFINE n == Len(analyzers)
<1>1. n \in Nat
  BY DEF TypeOK
<1> HIDE DEF n
<1>2. PICK bad :
        /\ BadThreads = bad[n] /\ bad[0] = <<>>
        /\ \A i \in 1..n : bad[i] = IF Failed(i) THEN Append(bad[i - 1], i) ELSE bad[i - 1]
  BY <1>1, BadThreadsLoop DEF n
<1> DEFINE G == {i \in 0..n : BadSoFar(bad[i], i)}
<1>3. 0 \in G
  <2>1. BadSoFar(<<>>, 0)
    BY DEF BadSoFar
  <2> QED BY <1>1, <1>2, <2>1
<1>4. ASSUME NEW i \in 1..n, i - 1 \in G PROVE i \in G
  <2> DEFINE q == bad[i - 1]
  <2>1. BadSoFar(q, i - 1)
    BY <1>4
  <2>2. i \in Nat /\ i - 1 \in Nat /\ i \in 0..n
    BY <1>1
  <2>3. bad[i] = IF Failed(i) THEN Append(q, i) ELSE q
    BY <1>2
  <2> HIDE DEF q
  <2>4. /\ q \in Seq(1..(i - 1)) /\ q \in Seq(1..i)
        /\ \A k \in DOMAIN q : Failed(q[k]) /\ k <= q[k] /\ q[k] < i
        /\ \A j \in 1..(i - 1) : Failed(j) => \E k \in DOMAIN q : q[k] = j
        /\ \A k, l \in DOMAIN q : k < l => q[k] < q[l]
    BY <2>1, <2>2 DEF BadSoFar
  <2>5. CASE ~ Failed(i)
    BY <2>2, <2>3, <2>4, <2>5 DEF BadSoFar
  <2>6. CASE Failed(i)
    <3> DEFINE r == Append(q, i)
    <3>1. Len(q) \in Nat /\ DOMAIN q = 1..Len(q) /\ i \in 1..i
      BY <2>2, <2>4
    <3>2. r \in Seq(1..i) /\ DOMAIN r = 1..(Len(q) + 1) /\ r[Len(q) + 1] = i
          /\ \A k \in DOMAIN q : r[k] = q[k]
      BY <2>4, <3>1
    <3>3. Len(q) + 1 <= i
      <4>1. CASE Len(q) = 0
        BY <2>2, <4>1
      <4>2. CASE Len(q) # 0
        <5>1. Len(q) \in DOMAIN q
          BY <3>1, <4>2
        <5>2. Len(q) <= q[Len(q)] /\ q[Len(q)] < i /\ q[Len(q)] \in 1..i
          BY <2>4, <5>1
        <5> QED BY <2>2, <3>1, <5>2
      <4> QED BY <4>1, <4>2
    <3> HIDE DEF r
    <3>4. ASSUME NEW k \in DOMAIN r PROVE Failed(r[k]) /\ k <= r[k]
      <4>1. CASE k \in DOMAIN q
        BY <2>4, <3>2, <4>1
      <4>2. CASE k \notin DOMAIN q
        <5>1. k = Len(q) + 1
          BY <3>1, <3>2, <4>2
        <5> QED BY <2>6, <3>2, <3>3, <5>1
      <4> QED BY <4>1, <4>2
    <3>5. \A j \in 1..i : Failed(j) => \E k \in DOMAIN r : r[k] = j
      <4>1. Len(q) + 1 \in DOMAIN r /\ \A k \in DOMAIN q : k \in DOMAIN r
        BY <3>1, <3>2
      <4> QED BY <2>2, <2>4, <3>2, <4>1
    <3>6. ASSUME NEW k \in DOMAIN r, NEW l \in DOMAIN r, k < l PROVE r[k] < r[l]
      <4>1. k \in DOMAIN q /\ r[k] = q[k] /\ q[k] < i
        BY <2>4, <3>1, <3>2, <3>6
      <4>2. CASE l \in DOMAIN q
        BY <2>4, <3>2, <3>6, <4>1, <4>2
      <4>3. CASE l \notin DOMAIN q
        <5>1. l = Len(q) + 1
          BY <3>1, <3>2, <4>3
        <5> QED BY <3>2, <4>1, <5>1
      <4> QED BY <4>2, <4>3
    <3>7. BadSoFar(r, i)
      BY <3>2, <3>4, <3>5, <3>6 DEF BadSoFar
    <3> QED BY <2>2, <2>3, <2>6, <3>7 DEF r
  <2> QED BY <2>5, <2>6
<1> HIDE DEF G
<1>5. 0..n \subseteq G
  BY <1>1, <1>3, <1>4, LoopInduction
<1>6. n \in G
  BY <1>1, <1>5
<1>7. BadSoFar(bad[n], n)
  BY <1>6 DEF G
<1> QED BY <1>2, <1>7 DEF n

(* The loop that erases them, after k threads.                              *)
RestSoFar(q, k) ==
  /\ q \in Seq(DOMAIN threads) /\ Len(q) = Len(analyzers) - k /\ IsInjective(q)
  /\ \A p \in DOMAIN q : k = 0 \/ BadThreads[k] < p + k => q[p] = analyzers[p + k]
  /\ \A p \in DOMAIN q : \E i \in DOMAIN analyzers :
       q[p] = analyzers[i] /\ \A l \in 1..k : BadThreads[l] # i
  /\ \A i \in DOMAIN analyzers :
       (\A l \in 1..k : BadThreads[l] # i) => \E p \in DOMAIN q : q[p] = analyzers[i]

ErasePlace(k) == BadThreads[k] - (k - 1)

(* One turn: "nIndex" is a place of the vector, and the thread that is      *)
(* erased there is the one that failed.                                     *)
LEMMA EraseOne ==
  ASSUME TypeOK, NEW k \in 1..Len(BadThreads), NEW q, RestSoFar(q, k - 1)
  PROVE  ErasePlace(k) \in DOMAIN q /\ RestSoFar(RemoveAt(q, ErasePlace(k)), k)
<1> DEFINE n == Len(analyzers)
           B == BadThreads
           pos == ErasePlace(k)
           r == RemoveAt(q, pos)
<1>1. /\ n \in Nat /\ analyzers \in Seq(DOMAIN threads) /\ DOMAIN analyzers = 1..n
      /\ \A i, j \in DOMAIN analyzers : analyzers[i] = analyzers[j] => i = j
  BY DEF TypeOK, IsInjective
<1>2. /\ B \in Seq(1..n) /\ Len(B) \in Nat /\ DOMAIN B = 1..Len(B)
      /\ \A l \in DOMAIN B : l <= B[l] /\ B[l] \in 1..n
      /\ \A l, m \in DOMAIN B : l < m => B[l] < B[m]
  BY BadThreadsFacts DEF BadSoFar
<1>3. /\ q \in Seq(DOMAIN threads) /\ Len(q) = n - (k - 1) /\ DOMAIN q = 1..(n - (k - 1))
      /\ \A p, s \in DOMAIN q : q[p] = q[s] => p = s
      /\ \A p \in DOMAIN q : k - 1 = 0 \/ B[k - 1] < p + (k - 1) => q[p] = analyzers[p + (k - 1)]
      /\ \A p \in DOMAIN q : \E i \in DOMAIN analyzers :
           q[p] = analyzers[i] /\ \A l \in 1..(k - 1) : B[l] # i
      /\ \A i \in DOMAIN analyzers :
           (\A l \in 1..(k - 1) : B[l] # i) => \E p \in DOMAIN q : q[p] = analyzers[i]
  <2>1. q \in Seq(DOMAIN threads) /\ Len(q) = n - (k - 1)
    BY DEF RestSoFar
  <2> QED BY <2>1 DEF RestSoFar, IsInjective
<1>4. /\ k \in DOMAIN B /\ k <= B[k] /\ B[k] \in 1..n /\ k \in Nat /\ B[k] \in Nat
      /\ pos = B[k] - (k - 1) /\ pos + (k - 1) = B[k] /\ pos \in Nat
  <2>1. k \in DOMAIN B /\ k \in Nat /\ k <= B[k] /\ B[k] \in 1..n
    <3>1. k \in 1..Len(B)
      OBVIOUS
    <3> HIDE DEF B, n
    <3>2. k \in DOMAIN B /\ k \in Nat
      BY <1>2, <3>1
    <3> QED BY <1>2, <3>2
  <2>2. pos = B[k] - (k - 1)
    BY DEF ErasePlace
  <2> HIDE DEF B, n, pos
  <2>3. k \in Nat /\ B[k] \in Nat
    BY <1>1, <2>1
  <2>4. pos + (k - 1) = B[k] /\ pos \in Nat
    BY <2>1, <2>2, <2>3
  <2> QED BY <2>1, <2>2, <2>3, <2>4
<1> HIDE DEF B, n, pos
<1>5. pos \in DOMAIN q
  BY <1>1, <1>3, <1>4
<1>6. k - 1 = 0 \/ (k - 1 \in DOMAIN B /\ B[k - 1] \in Nat /\ B[k - 1] < B[k])
  BY <1>2, <1>4
<1>7. q[pos] = analyzers[B[k]]
  BY <1>3, <1>4, <1>5, <1>6
<1>8. /\ r \in Seq(DOMAIN threads) /\ Len(r) = n - k /\ DOMAIN r = 1..(n - k)
      /\ \A p \in DOMAIN r : r[p] = IF p < pos THEN q[p] ELSE q[p + 1]
  <2>1. /\ r \in Seq(DOMAIN threads) /\ Len(r) = Len(q) - 1
        /\ \A p \in DOMAIN r : r[p] = IF p < pos THEN q[p] ELSE q[p + 1]
    BY <1>3, <1>5, RemoveAtFacts
  <2> QED BY <1>1, <1>3, <1>4, <2>1
<1> HIDE DEF r
<1> DEFINE old(p) == IF p < pos THEN p ELSE p + 1
<1>9. ASSUME NEW p \in DOMAIN r
      PROVE  old(p) \in DOMAIN q /\ old(p) # pos /\ r[p] = q[old(p)]
  <2>1. /\ p \in 1..(n - k) /\ p \in 1..(n - (k - 1)) /\ p + 1 \in 1..(n - (k - 1))
        /\ p \in Nat
    BY <1>1, <1>4, <1>8
  <2>2. CASE p < pos
    BY <1>3, <1>4, <1>8, <2>1, <2>2
  <2>3. CASE ~(p < pos)
    <3>1. old(p) = p + 1 /\ r[p] = q[p + 1] /\ p + 1 # pos
      BY <1>4, <1>8, <2>1, <2>3
    <3> QED BY <1>3, <2>1, <3>1
  <2> QED BY <2>2, <2>3
<1>10. \A p, s \in DOMAIN r : r[p] = r[s] => p = s
  <2>1. \A p, s \in DOMAIN r : old(p) = old(s) => p = s
    <3>1. \A p, s \in Nat : old(p) = old(s) => p = s
      BY <1>4
    <3>2. DOMAIN r \subseteq Nat
      BY <1>1, <1>4, <1>8
    <3> HIDE DEF old
    <3> QED BY <3>1, <3>2
  <2> HIDE DEF old
  <2> QED BY <1>3, <1>9, <2>1
<1>11. ASSUME NEW p \in DOMAIN r, k = 0 \/ B[k] < p + k PROVE r[p] = analyzers[p + k]
  <2>1. p \in Nat /\ ~(p < pos) /\ k # 0
    BY <1>1, <1>4, <1>8, <1>11
  <2>2. r[p] = q[p + 1] /\ p + 1 \in DOMAIN q
    BY <1>8, <1>9, <2>1
  <2>3. (p + 1) + (k - 1) = p + k
    BY <1>4, <2>1
  <2>4. k - 1 = 0 \/ B[k - 1] < (p + 1) + (k - 1)
    BY <1>4, <1>6, <1>11, <2>1, <2>3
  <2> QED BY <1>3, <2>2, <2>3, <2>4
<1>12. ASSUME NEW p \in DOMAIN r
       PROVE  \E i \in DOMAIN analyzers : r[p] = analyzers[i] /\ \A l \in 1..k : B[l] # i
  <2>1. PICK i \in DOMAIN analyzers :
          q[old(p)] = analyzers[i] /\ \A l \in 1..(k - 1) : B[l] # i
    BY <1>3, <1>9
  <2>2. B[k] # i
    BY <1>3, <1>5, <1>7, <1>9, <2>1
  <2>3. \A l \in 1..k : l = k \/ l \in 1..(k - 1)
    BY <1>4
  <2>4. r[p] = analyzers[i]
    BY <1>9, <2>1
  <2> QED BY <2>1, <2>2, <2>3, <2>4
<1>13. ASSUME NEW i \in DOMAIN analyzers, \A l \in 1..k : B[l] # i
       PROVE  \E p \in DOMAIN r : r[p] = analyzers[i]
  <2>1. PICK s \in DOMAIN q : q[s] = analyzers[i]
    <3>1. \A l \in 1..(k - 1) : l \in 1..k
      BY <1>4
    <3> QED BY <1>3, <1>13, <3>1
  <2>2. s # pos
    <3>1. B[k] # i /\ B[k] \in DOMAIN analyzers
      BY <1>1, <1>4, <1>13
    <3> QED BY <1>1, <1>7, <2>1, <3>1
  <2>3. CASE s < pos
    <3>1. s \in DOMAIN r
      BY <1>1, <1>3, <1>4, <1>5, <1>8, <2>3
    <3> QED BY <1>8, <2>1, <2>3, <3>1
  <2>4. CASE ~(s < pos)
    <3>1. s \in 1..(n - (k - 1)) /\ s \in Nat /\ pos \in 1..(n - (k - 1)) /\ pos < s
      BY <1>1, <1>3, <1>4, <1>5, <2>2, <2>4
    <3>2. s - 1 \in 1..(n - k) /\ ~(s - 1 < pos) /\ (s - 1) + 1 = s
      BY <1>1, <1>4, <3>1
    <3> QED BY <1>8, <2>1, <3>2
  <2> QED BY <2>3, <2>4
<1>14. RestSoFar(r, k)
  BY <1>8, <1>10, <1>11, <1>12, <1>13 DEF RestSoFar, IsInjective, B, n
<1> QED BY <1>5, <1>14 DEF r, pos

(* The whole loop, for whatever erases as it does.                          *)
LEMMA EraseAll ==
  ASSUME TypeOK, NEW n \in Nat, n = Len(BadThreads), NEW f, f[0] = analyzers,
         \A k \in 1..n :
           RestSoFar(f[k - 1], k - 1) => f[k] = RemoveAt(f[k - 1], ErasePlace(k))
  PROVE  \A k \in 0..n : RestSoFar(f[k], k)
<1> DEFINE G == {k \in 0..n : RestSoFar(f[k], k)}
<1>1. 0 \in G
  <2>1. /\ analyzers \in Seq(DOMAIN threads) /\ IsInjective(analyzers)
        /\ Len(analyzers) \in Nat /\ DOMAIN analyzers = 1..Len(analyzers)
    BY DEF TypeOK
  <2>2. \A p \in DOMAIN analyzers : p + 0 = p
    BY <2>1
  <2>3. RestSoFar(analyzers, 0)
    BY <2>1, <2>2 DEF RestSoFar
  <2> QED BY <2>3
<1>2. ASSUME NEW k \in 1..n, k - 1 \in G PROVE k \in G
  <2>1. RestSoFar(f[k - 1], k - 1)
    BY <1>2
  <2>2. RestSoFar(RemoveAt(f[k - 1], ErasePlace(k)), k)
    BY <2>1, EraseOne
  <2> QED BY <2>1, <2>2
<1> HIDE DEF G
<1>3. 0..n \subseteq G
  BY <1>1, <1>2, LoopInduction
<1> QED BY <1>3 DEF G

LEMMA ErasedFacts ==
  ASSUME TypeOK
  PROVE  /\ Erased \in Seq(DOMAIN threads) /\ IsInjective(Erased)
         /\ \A p \in DOMAIN Erased : \E i \in DOMAIN analyzers :
              Erased[p] = analyzers[i] /\ ~ Failed(i)
         /\ \A i \in DOMAIN analyzers :
              ~ Failed(i) => \E p \in DOMAIN Erased : Erased[p] = analyzers[i]
<1> DEFINE n == Len(BadThreads)
           S == Seq(DOMAIN threads)
           F(f) == [i \in 0..Len(BadThreads) |->
                      IF i = 0 THEN analyzers
                      ELSE RemoveAt(f[i - 1], BadThreads[i] - (i - 1))]
           rest == CHOOSE f : f = F(f)
           turn == [i \in 1..n |-> [q \in S |->
                      IF RemoveAt(q, ErasePlace(i)) \in S
                      THEN RemoveAt(q, ErasePlace(i)) ELSE analyzers]]
<1>1. n \in Nat
  BY BadThreadsFacts DEF BadSoFar
<1>2. analyzers \in S
  BY DEF TypeOK
<1>3. Erased = rest[n]
  BY DEF Erased
<1>4. \E f : f = F(f)
  <2>1. turn \in [1..n -> [S -> S]]
    BY <1>2
  <2> HIDE DEF n, turn, S
  <2>2. PICK f \in [0..n -> S] : IsLoop(f, n, analyzers, turn)
    BY <1>1, <1>2, <2>1, LoopDefined
  <2>3. f[0] = analyzers /\ \A i \in 1..n : f[i] = turn[i][f[i - 1]]
    BY <2>2 DEF IsLoop
  <2>4. ASSUME NEW i \in 1..n, RestSoFar(f[i - 1], i - 1)
        PROVE  f[i] = RemoveAt(f[i - 1], ErasePlace(i))
    <3>1. i - 1 \in 0..n
      BY <1>1
    <3>2. f[i - 1] \in S
      BY <3>1
    <3>3. RemoveAt(f[i - 1], ErasePlace(i)) \in S
      BY <2>4, EraseOne DEF RestSoFar, n, S
    <3>4. turn[i][f[i - 1]] = RemoveAt(f[i - 1], ErasePlace(i))
      BY <3>2, <3>3 DEF turn
    <3> QED BY <2>3, <3>4
  <2>5. \A k \in 0..n : RestSoFar(f[k], k)
    <3>1. n = Len(BadThreads)
      BY DEF n
    <3> QED BY <1>1, <2>3, <2>4, <3>1, EraseAll
  <2>6. ASSUME NEW i \in 0..n PROVE f[i] = F(f)[i]
    <3>1. CASE i = 0
      BY <1>1, <2>3, <3>1 DEF n
    <3>2. CASE i # 0
      <4>1. i \in 1..n /\ i - 1 \in 0..n
        BY <1>1, <3>2
      <4>2. f[i] = RemoveAt(f[i - 1], ErasePlace(i))
        BY <2>4, <2>5, <4>1
      <4>3. F(f)[i] = RemoveAt(f[i - 1], ErasePlace(i))
        BY <3>2, <4>1 DEF n, ErasePlace
      <4> HIDE DEF F
      <4> QED BY <4>2, <4>3
    <3> QED BY <3>1, <3>2
  <2>7. f = F(f)
    BY <2>6 DEF n
  <2> QED BY <2>7
<1>5. rest = F(rest)
  <2> HIDE DEF F
  <2> QED BY <1>4, Zenon
<1> HIDE DEF rest
<1>6. rest[0] = analyzers
  <2>1. F(rest)[0] = analyzers
    BY <1>1
  <2> HIDE DEF F
  <2> QED BY <1>5, <2>1
<1>7. ASSUME NEW k \in 1..n PROVE rest[k] = RemoveAt(rest[k - 1], ErasePlace(k))
  <2>1. F(rest)[k] = RemoveAt(rest[k - 1], ErasePlace(k))
    BY <1>1 DEF ErasePlace
  <2> HIDE DEF F
  <2> QED BY <1>5, <2>1
<1>8. RestSoFar(rest[n], n)
  BY <1>1, <1>6, <1>7, EraseAll
<1>9. RestSoFar(Erased, n)
  BY <1>3, <1>8
<1>10. BadSoFar(BadThreads, Len(analyzers))
  BY BadThreadsFacts
<1>11. DOMAIN BadThreads = 1..n /\ DOMAIN analyzers = 1..Len(analyzers)
  BY <1>10 DEF BadSoFar, TypeOK
<1>12. \A i \in DOMAIN analyzers : Failed(i) <=> \E l \in 1..n : BadThreads[l] = i
  BY <1>10, <1>11 DEF BadSoFar
<1> HIDE DEF n
<1> QED BY <1>9, <1>12 DEF RestSoFar

(* The loop that fills NeedRestart, after i cameras.                        *)
NeedSoFar(q, i) ==
  /\ q \in Seq(Range(LocalCameras)) /\ IsInjective(q)
  /\ \A k \in DOMAIN q :
       q[k] \notin HaveNumbers /\ \E j \in 1..i : LocalCameras[j] = q[k]

(* A camera that has a thread gets no other, and none gets two.             *)
LEMMA NeedRestartFacts ==
  ASSUME RoomThreadsAssumption
  PROVE  /\ NeedRestart \in Seq(Range(LocalCameras)) /\ IsInjective(NeedRestart)
         /\ \A k \in DOMAIN NeedRestart : NeedRestart[k] \notin HaveNumbers
<1> DEFINE n == Len(LocalCameras)
           C == Range(LocalCameras)
           have == HaveNumbers
           S == Seq(C)
           Need(i, q) == IF LocalCameras[i] \notin have THEN Append(q, LocalCameras[i]) ELSE q
           F(f) == [i \in 0..Len(LocalCameras) |->
                      IF i = 0 THEN <<>>
                      ELSE IF LocalCameras[i] \notin HaveNumbers
                      THEN Append(f[i - 1], LocalCameras[i])
                      ELSE f[i - 1]]
           need == CHOOSE f : f = F(f)
           turn == [i \in 1..n |-> [q \in S |-> Need(i, q)]]
<1>1. /\ LocalCameras \in Seq(C) /\ n \in Nat /\ DOMAIN LocalCameras = 1..n
      /\ \A i \in 1..n : LocalCameras[i] \in C
      /\ \A i, j \in 1..n : LocalCameras[i] = LocalCameras[j] => i = j
  BY DEF RoomThreadsAssumption, IsInjective
<1>2. NeedRestart = need[n]
  BY DEF NeedRestart
<1> HIDE DEF have
<1>3. F(need) = need
  <2>1. turn \in [1..n -> [S -> S]]
    BY <1>1
  <2>2. <<>> \in S
    OBVIOUS
  <2> HIDE DEF n, turn, S
  <2>3. PICK f \in [0..n -> S] : IsLoop(f, n, <<>>, turn)
    BY <1>1, <2>1, <2>2, LoopDefined
  <2>4. f[0] = <<>> /\ \A i \in 1..n : f[i] = turn[i][f[i - 1]]
    BY <2>3 DEF IsLoop
  <2>5. ASSUME NEW i \in 0..n PROVE f[i] = F(f)[i]
    <3>1. CASE i = 0
      BY <1>1, <2>4, <3>1 DEF n
    <3>2. CASE i # 0
      <4>1. i \in 1..n /\ i - 1 \in 0..n
        BY <1>1, <3>2
      <4>2. f[i - 1] \in S
        BY <4>1
      <4>3. turn[i][f[i - 1]] = Need(i, f[i - 1])
        BY <4>1, <4>2 DEF turn
      <4>4. F(f)[i] = Need(i, f[i - 1])
        BY <3>2, <4>1 DEF n, have
      <4> HIDE DEF F, Need
      <4> QED BY <2>4, <4>1, <4>3, <4>4
    <3> QED BY <3>1, <3>2
  <2>6. f = F(f)
    BY <2>5 DEF n
  <2> HIDE DEF F
  <2> QED BY <2>6, Zenon
<1> HIDE DEF need
<1>4. need[0] = <<>>
  <2>1. F(need)[0] = <<>>
    BY <1>1
  <2> HIDE DEF F
  <2> QED BY <1>3, <2>1
<1>5. ASSUME NEW i \in 1..n PROVE need[i] = Need(i, need[i - 1])
  <2>1. F(need)[i] = Need(i, need[i - 1])
    BY <1>1 DEF have
  <2> HIDE DEF F, Need
  <2> QED BY <1>3, <2>1
<1> DEFINE G == {i \in 0..n : NeedSoFar(need[i], i)}
<1>6. 0 \in G
  <2>1. NeedSoFar(<<>>, 0)
    BY DEF NeedSoFar, IsInjective
  <2> QED BY <1>1, <1>4, <2>1
<1>7. ASSUME NEW i \in 1..n, i - 1 \in G PROVE i \in G
  <2> DEFINE q == need[i - 1]
             c == LocalCameras[i]
             r == Append(q, c)
  <2>1. NeedSoFar(q, i - 1)
    BY <1>7
  <2>2. need[i] = Need(i, q)
    BY <1>5
  <2>3. i \in 0..n /\ i \in 1..i /\ i \in Nat /\ c \in C
    BY <1>1
  <2> HIDE DEF q, c
  <2>4. /\ q \in Seq(C) /\ Len(q) \in Nat /\ DOMAIN q = 1..Len(q)
        /\ \A k, l \in DOMAIN q : q[k] = q[l] => k = l
        /\ \A k \in DOMAIN q :
             /\ q[k] \notin HaveNumbers
             /\ \E j \in 1..i : LocalCameras[j] = q[k]
             /\ q[k] # c
    <3>1. \A j \in 1..(i - 1) : j \in 1..i /\ j \in 1..n /\ j # i
      BY <1>1
    <3>2. \A j \in 1..(i - 1) : LocalCameras[j] # c
      BY <1>1, <3>1 DEF c
    <3> QED BY <2>1, <3>1, <3>2 DEF NeedSoFar, IsInjective
  <2>5. CASE c \in have
    <3>1. need[i] = q
      BY <2>2, <2>5 DEF c
    <3>2. NeedSoFar(q, i)
      BY <2>4 DEF NeedSoFar, IsInjective
    <3> QED BY <2>3, <3>1, <3>2
  <2>6. CASE c \notin have
    <3>1. need[i] = r
      BY <2>2, <2>6 DEF c
    <3>2. /\ r \in Seq(C) /\ DOMAIN r = 1..(Len(q) + 1) /\ r[Len(q) + 1] = c
          /\ \A k \in DOMAIN q : r[k] = q[k]
      BY <2>3, <2>4
    <3> HIDE DEF r
    <3>3. \A k \in DOMAIN r : k \in DOMAIN q \/ k = Len(q) + 1
      BY <2>4, <3>2
    <3>4. \A k, l \in DOMAIN r : r[k] = r[l] => k = l
      BY <2>4, <3>2, <3>3
    <3>5. \A k \in DOMAIN r :
            r[k] \notin HaveNumbers /\ \E j \in 1..i : LocalCameras[j] = r[k]
      BY <2>3, <2>4, <2>6, <3>2, <3>3 DEF c, have
    <3>6. NeedSoFar(r, i)
      BY <3>2, <3>4, <3>5 DEF NeedSoFar, IsInjective
    <3> QED BY <2>3, <3>1, <3>6
  <2> QED BY <2>5, <2>6
<1> HIDE DEF G
<1>8. 0..n \subseteq G
  BY <1>1, <1>6, <1>7, LoopInduction
<1>9. NeedSoFar(need[n], n)
  BY <1>1, <1>8 DEF G
<1> QED BY <1>2, <1>9 DEF NeedSoFar
-----------------------------------------------------------------------------
(* The two halves of TypeOK: the threads, and the places of the actors.     *)
TypeCameras ==
  /\ threads \in Seq([camera : Range(LocalCameras), status : Status])
  /\ analyzers \in Seq(DOMAIN threads) /\ IsInjective(analyzers)
  /\ signaled \subseteq DOMAIN threads /\ failures \in 0..MaxFailed
  /\ handles \in [Actors -> SUBSET DOMAIN threads]
  /\ cameraCS \in DOMAIN threads \cup {NoThread}

TypeControl ==
  /\ hallLocal \in BOOLEAN
  /\ state \in {"stopped", "running"} /\ action \in {"Stopped", "Worked"}
  /\ analyzerCS \in Actors \cup {"none"} /\ serverCS \in Actors \cup {"none"}
  /\ pc["main"] \in {"top", "check", "checkCameras", "pump", "pumping", "rest", "startHall",
                     "sendStop", "lock", "stopCameras", "wait", "ended", "terminated"}
  /\ pc["gui"] \in {"idle", "stop", "sendStop", "lock", "stopCameras", "wait", "destroy",
                    "stopMain", "waitMain", "free", "freed"}
  /\ DOMAIN pc = Actors /\ DOMAIN return = Actors
  /\ mainEvent \in BOOLEAN /\ overlap \in BOOLEAN

LEMMA TypeHalves == TypeOK <=> TypeCameras /\ TypeControl
BY DEF TypeOK, TypeCameras, TypeControl

(* Where StopWork is under way: after its test, and after its change of     *)
(* m_State.                                                                 *)
Stopping == {"sendStop", "lock", "stopCameras", "wait"}

Emptying == {"lock", "stopCameras", "wait"}

(* The threads in m_CameraAnalyzers are of different cameras, and every     *)
(* thread that reads a camera is there.                                     *)
OnePerCamera ==
  \A i, j \in DOMAIN analyzers :
    threads[analyzers[i]].camera = threads[analyzers[j]].camera => i = j

LiveKnown == \A t \in DOMAIN threads : threads[t].status \in Live => t \in Range(analyzers)

(* What StopCameraThreads waits for is what it erases afterwards.           *)
Waited == \A a \in Actors : pc[a] = "wait" => handles[a] = Range(analyzers)

Returns ==
  /\ pc["main"] \in Stopping => return["main"] = Done
  /\ pc["gui"] \in Stopping => return["gui"] \in {"destroy", "stopMain"}

(* Who holds which lock where.                                              *)
Locked ==
  /\ serverCS = "gui" <=> pc["gui"] \notin {"idle", "freed"}
  /\ serverCS = "main" <=>
       \/ pc["main"] = "pumping"
       \/ ~ hallLocal /\ pc["main"] \in Stopping \cup {"startHall"}
  /\ \A a \in Actors : pc[a] \in {"checkCameras", "stopCameras"} => analyzerCS = a
  /\ pc["gui"] = "wait" => analyzerCS = "gui"
  /\ pc["gui"] \in {"free", "freed"} => pc["main"] \in {"ended", "terminated"}

(* What m_State and the TimeAction are where the threads are.               *)
StateAgrees ==
  /\ state = "running" => pc["main"] \notin Emptying \cup {"startHall"}
  /\ state = "running" /\ hallLocal
       => action = "Worked" \/ pc["main"] = "sendStop" \/ pc["gui"] \in {"free", "freed"}
  /\ pc["main"] \in {"check", "checkCameras", "sendStop"} /\ pc["gui"] = "idle"
       => state = "running"
  /\ pc["gui"] \in Emptying => state = "stopped"
  /\ pc["gui"] \in Stopping =>
       /\ pc["main"] # "startHall"
       /\ pc["main"] = "wait" => analyzerCS = "main"
       /\ hallLocal /\ pc["main"] = "rest" => action = "Worked"

(* What the history variable tells of the main thread.                      *)
Remembers ==
  /\ Overlaps => overlap
  /\ ~ overlap /\ state = "stopped" /\ pc["gui"] \notin {"idle", "lock"}
       => pc["main"] # "checkCameras"
  /\ ~ overlap /\ pc["gui"] \in {"stopMain", "waitMain", "free"} => state = "stopped"

(* Where the work may be started no thread is left, and none once the user  *)
(* interface has looked after the work if nothing overlapped.               *)
NoneLeft ==
  state = "stopped" =>
    /\ pc["gui"] = "idle" /\ pc["main"] \notin Emptying \cup {"startHall"} => analyzers = <<>>
    /\ hallLocal /\ pc["main"] = "rest" /\ action = "Stopped" => analyzers = <<>>
    /\ ~ overlap /\ pc["gui"] \notin Emptying \cup {"idle"} => analyzers = <<>>

Control == TypeControl /\ Returns /\ Locked /\ StateAgrees /\ Remembers

Cameras == TypeCameras /\ OnePerCamera /\ LiveKnown /\ Waited /\ NoneLeft

(* While the server lives.                                                  *)
Inv == Control /\ Cameras

(* And when it has been freed.                                              *)
IInv ==
  /\ Control /\ TypeCameras
  /\ (pc["gui"] = "freed" /\ OneThreadPerCamera) \/ Cameras

LEMMA ControlStutters ==
  ASSUME Control, hallLocal' = hallLocal, state' = state, action' = action,
         analyzerCS' = analyzerCS, serverCS' = serverCS, pc' = pc, return' = return,
         mainEvent' = mainEvent, overlap' = overlap \/ overlap' = (overlap \/ Overlaps')
  PROVE  Control'
<1>1. TypeControl'
  BY DEF Control, TypeControl, Remembers, Overlaps
<1>2. Returns'
  BY DEF Control, Returns, Done
<1>3. Locked'
  BY DEF Control, Locked
<1>4. StateAgrees'
  BY DEF Control, StateAgrees
<1>5. Remembers'
  BY DEF Control, Remembers, Overlaps
<1> QED BY <1>1, <1>2, <1>3, <1>4, <1>5 DEF Control

(* The main thread and the user interface keep to the locks and agree on    *)
(* m_State, in each step.                                                   *)
LEMMA ControlNext ==
  ASSUME Control, Next, Frame
  PROVE  Control'
<1> USE DEF Frame, Control, TypeControl, Returns, Locked, StateAgrees, Remembers, Overlaps,
            Stopping, Emptying, Done, Goto, Actors, lockVars
<1>1. CASE Top
  BY <1>1 DEF Top
<1>2. CASE Check
  BY <1>2 DEF Check
<1>3. CASE Pump
  BY <1>3 DEF Pump
<1>4. CASE EndPump
  BY <1>4 DEF EndPump
<1>5. CASE Rest
  BY <1>5 DEF Rest
<1>6. CASE StartWork
  <2>1. /\ Commanded /\ state = "stopped" /\ action = "Stopped"
        /\ UNCHANGED <<state, action, lockVars, return, mainEvent>>
        /\ Goto("main", "startHall") \/ Goto("main", Done)
    BY <1>6 DEF StartWork
  <2>2. CASE Goto("main", "startHall")
    BY <2>1, <2>2 DEF Commanded
  <2>3. CASE Goto("main", Done)
    BY <2>1, <2>3 DEF Commanded
  <2> QED BY <2>1, <2>2, <2>3
<1>7. CASE StartHall
  BY <1>7 DEF StartHall
<1>8. CASE StartHallFails
  BY <1>8 DEF StartHallFails
<1>9. CASE Suspend
  <2>1. CASE StopWork("main", Done)
    BY <1>9, <2>1 DEF Suspend, Commanded, StopWork
  <2>2. CASE state # "running" /\ Goto("main", Done) /\ UNCHANGED <<state, lockVars, return, mainEvent>>
    BY <1>9, <2>2 DEF Suspend, Commanded
  <2> QED BY <1>9, <2>1, <2>2 DEF Suspend
<1>21. CASE SetStopped("main")
  BY <1>21 DEF SetStopped
<1>22. CASE SetStopped("gui")
  <2>1. /\ pc["gui"] = "sendStop" /\ state' = "stopped" /\ pc' = [pc EXCEPT !["gui"] = "lock"]
        /\ UNCHANGED <<hallLocal, action, analyzerCS, serverCS, return, mainEvent>>
    BY <1>22 DEF SetStopped
  <2>2. pc'["gui"] = "lock" /\ pc'["main"] = pc["main"]
    BY <2>1
  <2>3. TypeControl'
    BY <2>1, <2>2
  <2>4. Returns' /\ Locked'
    BY <2>1, <2>2
  <2>5. StateAgrees'
    BY <2>1, <2>2
  <2>6. Remembers'
    BY <2>1, <2>2
  <2> QED BY <2>3, <2>4, <2>5, <2>6
<1>10. CASE LockAnalyzerCS("main")
  BY <1>10 DEF LockAnalyzerCS
<1>11. CASE StopCameraThreads("main")
  BY <1>11 DEF StopCameraThreads
<1>12. CASE EndStopCameraThreads("main")
  BY <1>12 DEF EndStopCameraThreads
<1>13. CASE StopServer
  BY <1>13 DEF StopServer
<1>14. CASE GuiStopWork
  <2>1. UNCHANGED action
    BY <1>14 DEF GuiStopWork
  <2>2. CASE pc["gui"] = "stop" /\ StopWork("gui", "destroy")
    BY <2>1, <2>2 DEF StopWork
  <2>3. CASE pc["gui"] = "destroy" /\ StopWork("gui", "stopMain")
    BY <2>1, <2>3 DEF StopWork
  <2>4. CASE /\ pc["gui"] \in {"stop", "destroy"} /\ state # "running"
             /\ Goto("gui", IF pc["gui"] = "stop" THEN "destroy" ELSE "stopMain")
             /\ UNCHANGED <<state, cameraVars, lockVars, return, handles, mainEvent>>
    BY <2>1, <2>4
  <2> QED BY <1>14, <2>2, <2>3, <2>4 DEF GuiStopWork
<1>15. CASE StopMain
  BY <1>15 DEF StopMain
<1>16. CASE WaitForMain
  <2>1. /\ pc["gui"] = "waitMain" /\ pc'["gui"] = "free" /\ DOMAIN pc' = Actors
        /\ pc'["main"] \in {"ended", "terminated"}
    BY <1>16 DEF WaitForMain
  <2> QED BY <1>16, <2>1 DEF WaitForMain
<1>23. CASE FreeServer
  BY <1>23 DEF FreeServer
<1>17. CASE LockAnalyzerCS("gui")
  BY <1>17 DEF LockAnalyzerCS
<1>18. CASE StopCameraThreads("gui")
  BY <1>18 DEF StopCameraThreads
<1>19. CASE EndStopCameraThreads("gui")
  BY <1>19 DEF EndStopCameraThreads
<1>20. ASSUME NEW t \in DOMAIN threads, ThreadNext(t) PROVE Control'
  <2>1. /\ hallLocal' = hallLocal /\ state' = state /\ action' = action
        /\ analyzerCS' = analyzerCS /\ serverCS' = serverCS
        /\ pc' = pc /\ return' = return /\ mainEvent' = mainEvent
    BY <1>20 DEF ThreadNext, Enter, Leave, ThreadBegins, ThreadLooks, ThreadFails, CameraStep
  <2> QED BY <2>1, ControlStutters
<1> QED
  BY <1>1, <1>2, <1>3, <1>4, <1>5, <1>6, <1>7, <1>8, <1>9, <1>10, <1>11, <1>12, <1>13, <1>14,
     <1>15, <1>16, <1>17, <1>18, <1>19, <1>20, <1>21, <1>22, <1>23
  DEF Next, MainNext, GuiNext, StopNext

(* m_CameraAnalyzers loses only threads that have ended, in one step.       *)
Forgets == \A t \in Range(analyzers) \ Range(analyzers') : threads'[t].status \in Ended

(* What StartAnalyzers(need, n, s) makes of the threads.                    *)
Started(need, n, s) ==
  /\ threads' \in Seq([camera : Range(LocalCameras), status : Status])
  /\ Len(threads) \in Nat /\ DOMAIN threads = 1..Len(threads)
  /\ DOMAIN threads' = 1..(Len(threads) + n)
  /\ \A t \in DOMAIN threads : threads'[t] = threads[t]
  /\ \A i \in 1..n : /\ threads'[Len(threads) + i].camera = need[i]
                    /\ threads'[Len(threads) + i].status = s
  /\ failures' \in 0..MaxFailed

LEMMA StartedThreads ==
  ASSUME RoomThreadsAssumption, TypeCameras,
         NEW need \in Seq(Range(LocalCameras)), NEW n \in 0..Len(need), NEW s \in Status,
         StartAnalyzers(need, n, s)
  PROVE  Started(need, n, s)
<1> DEFINE R == [camera : Range(LocalCameras), status : Status]
           new == [i \in 1..n |-> [camera |-> need[i], status |-> s]]
           m == Len(threads)
<1>1. threads \in Seq(R) /\ m \in Nat /\ DOMAIN threads = 1..m /\ n \in Nat
      /\ threads' = threads \o new
  BY DEF TypeCameras, StartAnalyzers
<1>2. \A i \in 1..n : need[i] \in Range(LocalCameras)
  OBVIOUS
<1>3. new \in Seq(R) /\ Len(new) = n
      /\ \A i \in 1..n : new[i].camera = need[i] /\ new[i].status = s
  BY <1>1, <1>2
<1> HIDE DEF new, R
<1>4. /\ threads' \in Seq(R) /\ Len(threads') = m + n /\ DOMAIN threads' = 1..(m + n)
      /\ \A t \in 1..m : threads'[t] = threads[t]
      /\ \A i \in 1..n : threads'[m + i] = new[i]
  <2>1. IsConcat(R, threads', threads, new)
    BY <1>1, <1>3, ConcatFacts
  <2> QED BY <1>1, <1>3, <2>1 DEF IsConcat
<1>5. failures' \in 0..MaxFailed
  BY DEF StartAnalyzers, TypeCameras, RoomThreadsAssumption
<1> QED BY <1>1, <1>3, <1>4, <1>5 DEF R, Started

(* The vector q that is left gets the threads that could be started.        *)
LEMMA PushedThreads ==
  ASSUME RoomThreadsAssumption, TypeCameras,
         NEW q \in Seq(DOMAIN threads), IsInjective(q),
         NEW need \in Seq(Range(LocalCameras)), IsInjective(need), NEW n \in 0..Len(need),
         StartAnalyzers(need, n, "created"), analyzers' = q \o NewThreads(n),
         UNCHANGED <<signaled, handles, cameraCS>>,
         \A i, j \in DOMAIN q : threads[q[i]].camera = threads[q[j]].camera => i = j,
         \A i \in DOMAIN q, k \in DOMAIN need : threads[q[i]].camera # need[k],
         \A t \in DOMAIN threads : threads[t].status \in Live => t \in Range(q)
  PROVE  TypeCameras' /\ OnePerCamera' /\ LiveKnown' /\ Range(q) \subseteq Range(analyzers')
<1> DEFINE m == Len(threads)
           r == analyzers'
           T == threads'
<1>1. /\ T \in Seq([camera : Range(LocalCameras), status : Status])
      /\ m \in Nat /\ DOMAIN threads = 1..m /\ DOMAIN T = 1..(m + n)
      /\ \A t \in 1..m : T[t] = threads[t]
      /\ \A i \in 1..n : T[m + i].camera = need[i] /\ T[m + i].status = "created"
      /\ failures' \in 0..MaxFailed
  <2>1. "created" \in Status
    BY DEF Status
  <2>2. Started(need, n, "created")
    BY <2>1, StartedThreads
  <2> QED BY <2>2 DEF Started
<1>2. n \in Nat /\ 1..n \subseteq DOMAIN need /\ \A i, j \in 1..n : need[i] = need[j] => i = j
  BY DEF IsInjective
<1>3. /\ Len(q) \in Nat /\ DOMAIN q = 1..Len(q) /\ \A p \in 1..Len(q) : q[p] \in 1..m
      /\ \A p, k \in 1..Len(q) : q[p] = q[k] => p = k
  <2>1. q \in Seq(1..m)
    <3>1. DOMAIN threads = 1..m
      BY <1>1
    <3> HIDE DEF m
    <3> QED BY <3>1
  <2> HIDE DEF m
  <2>2. Len(q) \in Nat /\ DOMAIN q = 1..Len(q)
    OBVIOUS
  <2>3. \A p \in 1..Len(q) : q[p] \in 1..m
    BY <2>1, <2>2, ElementOfSeq
  <2> QED BY <2>2, <2>3 DEF IsInjective
<1>4. /\ r \in Seq(1..(m + n)) /\ DOMAIN r = 1..(Len(q) + n)
      /\ \A p \in 1..Len(q) : r[p] = q[p]
      /\ \A i \in 1..n : r[Len(q) + i] = m + i
  <2> DEFINE new == NewThreads(n)
  <2>1. new \in Seq(1..(m + n)) /\ Len(new) = n /\ \A i \in 1..n : new[i] = m + i
    BY <1>1, <1>2 DEF NewThreads
  <2>2. q \in Seq(1..(m + n))
    BY <1>1, <1>2, <1>3
  <2> HIDE DEF new
  <2>3. IsConcat(1..(m + n), r, q, new)
    BY <2>1, <2>2, ConcatFacts DEF new
  <2> QED BY <2>1, <2>3 DEF IsConcat
<1> HIDE DEF r, T, m
<1>5. \A p \in DOMAIN r : p \in 1..Len(q) \/ \E i \in 1..n : p = Len(q) + i
  <2>1. ASSUME NEW p \in DOMAIN r, p \notin 1..Len(q) PROVE p - Len(q) \in 1..n /\ p = Len(q) + (p - Len(q))
    BY <1>2, <1>3, <1>4, <2>1
  <2> QED BY <2>1
<1>6. \A i \in DOMAIN r, j \in DOMAIN r : T[r[i]].camera = T[r[j]].camera => i = j
  <2>1. \A i \in 1..Len(q) : T[r[i]].camera = threads[q[i]].camera
    BY <1>1, <1>3, <1>4
  <2>2. \A i \in 1..n : T[r[Len(q) + i]].camera = need[i]
    BY <1>1, <1>4
  <2>3. TAKE i \in DOMAIN r, j \in DOMAIN r
  <2>4. CASE i \in 1..Len(q) /\ j \in 1..Len(q)
    BY <1>3, <2>1, <2>4
  <2>5. CASE i \in 1..Len(q) /\ j \notin 1..Len(q)
    <3>1. PICK k \in 1..n : j = Len(q) + k
      BY <1>5, <2>5
    <3>2. T[r[i]].camera = threads[q[i]].camera /\ T[r[j]].camera = need[k]
      BY <2>1, <2>2, <2>5, <3>1
    <3>3. threads[q[i]].camera # need[k]
      BY <1>2, <1>3, <2>5
    <3> QED BY <3>2, <3>3
  <2>6. CASE i \notin 1..Len(q) /\ j \in 1..Len(q)
    <3>1. PICK k \in 1..n : i = Len(q) + k
      BY <1>5, <2>6
    <3>2. T[r[j]].camera = threads[q[j]].camera /\ T[r[i]].camera = need[k]
      BY <2>1, <2>2, <2>6, <3>1
    <3>3. threads[q[j]].camera # need[k]
      BY <1>2, <1>3, <2>6
    <3> QED BY <3>2, <3>3
  <2>7. CASE i \notin 1..Len(q) /\ j \notin 1..Len(q)
    <3>1. PICK k \in 1..n : i = Len(q) + k
      BY <1>5, <2>7
    <3>2. PICK l \in 1..n : j = Len(q) + l
      BY <1>5, <2>7
    <3>3. T[r[i]].camera = need[k] /\ T[r[j]].camera = need[l]
      BY <2>2, <3>1, <3>2
    <3> QED BY <1>2, <3>1, <3>2, <3>3
  <2> QED BY <2>4, <2>5, <2>6, <2>7
<1>7. IsInjective(r)
  BY <1>6 DEF IsInjective
<1>8. Range(q) \subseteq Range(r)
  BY <1>3, <1>4 DEF Range
<1>9. ASSUME NEW t \in DOMAIN T, T[t].status \in Live PROVE t \in Range(r)
  <2>1. CASE t \in 1..m
    BY <1>1, <1>8, <1>9, <2>1
  <2>2. CASE t \notin 1..m
    <3>1. t - m \in 1..n /\ t = m + (t - m)
      BY <1>1, <1>2, <2>2
    <3>2. Len(q) + (t - m) \in DOMAIN r
      BY <1>2, <1>3, <1>4, <3>1
    <3> QED BY <1>4, <3>1, <3>2 DEF Range
  <2> QED BY <2>1, <2>2
<1>10. TypeCameras'
  <2>1. DOMAIN threads \subseteq DOMAIN T
    BY <1>1, <1>2
  <2>2. /\ signaled' \subseteq DOMAIN T /\ handles' \in [Actors -> SUBSET DOMAIN T]
        /\ cameraCS' \in DOMAIN T \cup {NoThread}
    BY <2>1 DEF TypeCameras
  <2>3. r \in Seq(DOMAIN T)
    BY <1>1, <1>4
  <2> QED BY <1>1, <1>7, <2>2, <2>3 DEF TypeCameras, r, T
<1> QED BY <1>6, <1>8, <1>9, <1>10 DEF OnePerCamera, LiveKnown, r, T

(* CheckChildThreads: the main thread holds m_AnalyzerCS for the whole of   *)
(* it, so that no one waits for the threads, and the user interface has     *)
(* begun to close the room if the work is stopped.                          *)
LEMMA CheckStep ==
  ASSUME RoomThreadsAssumption, Inv, Check, Frame
  PROVE  Cameras' /\ Forgets
<1>1. TypeOK /\ TypeCameras /\ TypeControl
  BY TypeHalves DEF Inv, Control, Cameras
<1> DEFINE q == Erased
           need == NeedRestart
<1>2. PICK n \in 0..Len(need) :
        StartAnalyzers(need, n, "created") /\ analyzers' = q \o NewThreads(n)
  BY DEF Check, CheckCameraThreads
<1>3. /\ q \in Seq(DOMAIN threads) /\ IsInjective(q)
      /\ \A p \in DOMAIN q : \E i \in DOMAIN analyzers : q[p] = analyzers[i]
      /\ \A i \in DOMAIN analyzers :
           ~ Failed(i) => \E p \in DOMAIN q : q[p] = analyzers[i]
  BY <1>1, ErasedFacts
<1>4. /\ need \in Seq(Range(LocalCameras)) /\ IsInjective(need)
      /\ \A i \in DOMAIN q, k \in DOMAIN need : threads[q[i]].camera # need[k]
  BY NeedRestartFacts DEF HaveNumbers
<1> HIDE DEF q, need
<1>5. \A i, j \in DOMAIN q : threads[q[i]].camera = threads[q[j]].camera => i = j
  BY <1>3 DEF IsInjective, Inv, Cameras, OnePerCamera
<1>6. \A t \in DOMAIN threads : threads[t].status \in Live => t \in Range(q)
  <2>1. ASSUME NEW t \in DOMAIN threads, threads[t].status \in Live PROVE t \in Range(q)
    <3>1. PICK i \in DOMAIN analyzers : analyzers[i] = t
      BY <2>1 DEF Inv, Cameras, LiveKnown, Range
    <3>2. ~ Failed(i)
      BY <2>1, <3>1 DEF Failed, Live
    <3> QED BY <1>3, <3>1, <3>2 DEF Range
  <2> QED BY <2>1
<1>7. UNCHANGED <<signaled, handles, cameraCS>>
  BY DEF Check
<1>8. TypeCameras' /\ OnePerCamera' /\ LiveKnown' /\ Range(q) \subseteq Range(analyzers')
  BY <1>1, <1>2, <1>3, <1>4, <1>5, <1>6, <1>7, PushedThreads
<1>9. /\ pc["main"] = "checkCameras" /\ pc' = [pc EXCEPT !["main"] = "pump"]
      /\ state' = state /\ DOMAIN pc = Actors /\ analyzerCS = "main"
  BY <1>1 DEF Check, Goto, TypeControl, Actors, Inv, Control, Locked
<1>10. Waited'
  BY <1>9 DEF Waited, Actors, Inv, Control, Locked
<1>11. NoneLeft'
  BY <1>9 DEF NoneLeft, Actors, Inv, Control, StateAgrees, Locked, Remembers, Frame, Emptying
<1>12. ASSUME NEW t \in Range(analyzers) \ Range(analyzers')
       PROVE  threads'[t].status \in Ended
  <2>1. PICK i \in DOMAIN analyzers : analyzers[i] = t
    BY DEF Range
  <2>2. t \in DOMAIN threads
    BY <1>1, <2>1 DEF TypeCameras
  <2>3. Failed(i)
    BY <1>3, <1>8, <2>1 DEF Range
  <2>4. Started(need, n, "created")
    <3>1. "created" \in Status
      BY DEF Status
    <3> QED BY <1>1, <1>2, <1>4, <3>1, StartedThreads
  <2> QED BY <2>1, <2>2, <2>3, <2>4 DEF Started, Failed, Ended
<1> QED BY <1>8, <1>10, <1>11, <1>12 DEF Cameras, Forgets

(* Where StartWork may be, no thread is left of the session before.         *)
LEMMA NoneBeforeStart ==
  ASSUME Inv, Commanded, state = "stopped", action = "Stopped"
  PROVE  analyzers = <<>>
BY DEF Inv, Control, Cameras, TypeControl, Locked, NoneLeft, Commanded, Stopping, Emptying

LEMMA StartWorkStep ==
  ASSUME RoomThreadsAssumption, Inv, StartWork, Frame
  PROVE  Cameras' /\ Forgets
<1>1. /\ TypeCameras /\ TypeControl /\ Commanded /\ state = "stopped" /\ action = "Stopped"
      /\ state' = state /\ action' = action /\ handles' = handles /\ signaled' = signaled
      /\ cameraCS' = cameraCS
  BY DEF Inv, Control, Cameras, StartWork
<1>2. analyzers = <<>>
  BY <1>1, NoneBeforeStart
<1>3. Forgets
  BY <1>2 DEF Forgets, Range
<1>4. \A t \in DOMAIN threads : threads[t].status \notin Live
  BY <1>2 DEF Inv, Cameras, LiveKnown, Range
<1>5. /\ LocalCameras \in Seq(Range(LocalCameras)) /\ IsInjective(LocalCameras)
      /\ Len(LocalCameras) \in Nat
  BY DEF RoomThreadsAssumption
<1>6. \A a \in Actors : pc[a] = "wait" => handles[a] = Range(analyzers)
  BY DEF Inv, Cameras, Waited
<1>7. CASE /\ StartAnalyzers(LocalCameras, Len(LocalCameras), "created")
           /\ analyzers' = analyzers \o NewThreads(Len(LocalCameras))
           /\ Goto("main", "startHall")
  <2>1. TypeCameras' /\ OnePerCamera' /\ LiveKnown'
    <3>1. analyzers \in Seq(DOMAIN threads) /\ IsInjective(analyzers)
      BY <1>1 DEF TypeCameras
    <3>2. Len(LocalCameras) \in 0..Len(LocalCameras)
      BY <1>5
    <3>3. DOMAIN analyzers = {}
      BY <1>2
    <3>4. UNCHANGED <<signaled, handles, cameraCS>>
      BY <1>1
    <3> QED BY <1>1, <1>4, <1>5, <1>7, <3>1, <3>2, <3>3, <3>4, PushedThreads
  <2>2. pc["gui"] # "wait" /\ pc' = [pc EXCEPT !["main"] = "startHall"] /\ DOMAIN pc = Actors
    BY <1>1, <1>7 DEF Goto, TypeControl, Commanded, Inv, Control, Locked, StateAgrees, Stopping
  <2>3. Waited'
    BY <2>2 DEF Waited, Actors
  <2>4. NoneLeft'
    BY <1>1, <2>2 DEF NoneLeft, Actors, Emptying, Frame, Overlaps
  <2> QED BY <1>3, <2>1, <2>3, <2>4 DEF Cameras
<1>8. ASSUME NEW n \in 0..(Len(LocalCameras) - 1),
             StartAnalyzers(LocalCameras, n, "suspended"), analyzers' = <<>>,
             Goto("main", Done)
      PROVE  Cameras' /\ Forgets
  <2>1. Started(LocalCameras, n, "suspended")
    <3>1. "suspended" \in Status /\ n \in 0..Len(LocalCameras)
      BY <1>5 DEF Status
    <3> QED BY <1>1, <1>5, <1>8, <3>1, StartedThreads
  <2>2. n \in Nat /\ DOMAIN threads \subseteq DOMAIN threads'
    BY <1>5, <2>1 DEF Started
  <2>3. TypeCameras'
    <3>1. /\ signaled' \subseteq DOMAIN threads' /\ handles' \in [Actors -> SUBSET DOMAIN threads']
          /\ cameraCS' \in DOMAIN threads' \cup {NoThread}
      BY <1>1, <2>2 DEF TypeCameras
    <3> QED BY <1>8, <2>1, <3>1 DEF Started, TypeCameras, IsInjective
  <2>4. LiveKnown'
    <3>1. ASSUME NEW t \in DOMAIN threads' PROVE threads'[t].status \notin Live
      <4>1. CASE t \in DOMAIN threads
        BY <1>4, <2>1, <4>1 DEF Started
      <4>2. CASE t \notin DOMAIN threads
        <5>1. t - Len(threads) \in 1..n /\ t = Len(threads) + (t - Len(threads))
          BY <2>1, <2>2, <4>2 DEF Started
        <5> QED BY <2>1, <5>1 DEF Started, Live
      <4> QED BY <4>1, <4>2
    <3> QED BY <3>1 DEF LiveKnown
  <2>5. Waited'
    BY <1>1, <1>2, <1>6, <1>8 DEF Waited, Goto, Done, Actors, TypeControl
  <2> QED BY <1>3, <1>8, <2>3, <2>4, <2>5 DEF Cameras, OnePerCamera, NoneLeft
<1> QED BY <1>7, <1>8 DEF StartWork

(* Steps that leave the threads alone.                                      *)
LEMMA CamerasStay ==
  ASSUME Cameras, analyzers' = analyzers, threads' = threads, signaled' \subseteq DOMAIN threads,
         failures' \in 0..MaxFailed, handles' \in [Actors -> SUBSET DOMAIN threads],
         cameraCS' \in DOMAIN threads \cup {NoThread}
  PROVE  TypeCameras' /\ OnePerCamera' /\ LiveKnown' /\ Forgets
<1>1. TypeCameras'
  BY DEF Cameras, TypeCameras
<1>2. OnePerCamera'
  BY DEF Cameras, OnePerCamera
<1>3. LiveKnown'
  BY DEF Cameras, LiveKnown
<1>4. Forgets
  BY DEF Forgets
<1> QED BY <1>1, <1>2, <1>3, <1>4

(* StopCameraThreads sets the events of all threads and waits for them all. *)
StopCommon(a) ==
  /\ signaled' = signaled \cup Range(analyzers)
  /\ handles' = [handles EXCEPT ![a] = Range(analyzers)]
  /\ Goto(a, "wait")
  /\ UNCHANGED <<state, action, analyzers, threads, cameraCS>>

LEMMA StopStep ==
  ASSUME Inv, Frame, NEW a \in Actors, failures' \in 0..MaxFailed, StopCommon(a),
         pc[a] = "stopCameras" \/ (a = "main" /\ pc[a] = "startHall")
  PROVE  Cameras' /\ Forgets
<1>1. /\ TypeCameras /\ TypeControl /\ Cameras
      /\ \A i \in DOMAIN analyzers : analyzers[i] \in DOMAIN threads
  BY DEF Inv, Control, Cameras, TypeCameras
<1>2. Range(analyzers) \subseteq DOMAIN threads
  BY <1>1 DEF Range
<1>3. /\ signaled' \subseteq DOMAIN threads /\ handles' \in [Actors -> SUBSET DOMAIN threads]
      /\ handles'[a] = Range(analyzers) /\ \A b \in Actors \ {a} : handles'[b] = handles[b]
      /\ cameraCS' \in DOMAIN threads \cup {NoThread}
  BY <1>1, <1>2 DEF StopCommon, TypeCameras
<1>4. TypeCameras' /\ OnePerCamera' /\ LiveKnown' /\ Forgets
  BY <1>1, <1>3, CamerasStay DEF StopCommon
<1>5. pc' = [pc EXCEPT ![a] = "wait"] /\ DOMAIN pc = Actors /\ analyzers' = analyzers
  BY <1>1 DEF StopCommon, Goto, TypeControl
<1>6. Waited'
  BY <1>1, <1>3, <1>5 DEF Waited, Cameras
<1>7. NoneLeft'
  <2>1. state' = state /\ action' = action
    BY DEF StopCommon
  <2>2. CASE a = "main"
    BY <1>5, <2>1, <2>2 DEF NoneLeft, Emptying, Actors, Frame, Overlaps
  <2>3. CASE a = "gui"
    BY <1>1, <1>5, <2>1, <2>3 DEF NoneLeft, Emptying, Actors, Cameras, Frame
  <2> QED BY <2>2, <2>3 DEF Actors
<1> QED BY <1>4, <1>6, <1>7 DEF Cameras

(* No one else waits for the threads while they are stopped.                *)
LEMMA OneWaits ==
  ASSUME Inv, NEW a \in Actors, NEW b \in Actors, pc[a] = "wait", pc[b] = "wait"
  PROVE  a = b
BY DEF Actors, Inv, Control, Locked, StateAgrees, Stopping

LEMMA EndStopStep ==
  ASSUME RoomThreadsAssumption, Inv, NEW a \in Actors, EndStopCameraThreads(a)
  PROVE  Cameras' /\ Forgets
<1> DEFINE H == handles[a]
<1>1. /\ TypeCameras /\ TypeControl /\ analyzers' = <<>> /\ pc[a] = "wait"
      /\ pc' = [pc EXCEPT ![a] = return[a]] /\ DOMAIN pc = Actors
      /\ handles' = handles /\ signaled' = signaled /\ failures' = failures
      /\ cameraCS' = cameraCS
  BY DEF Inv, Control, Cameras, EndStopCameraThreads, Goto, TypeControl
<1>2. H = Range(analyzers) /\ H \subseteq DOMAIN threads
  BY <1>1 DEF Inv, Cameras, Waited, TypeCameras
<1>3. /\ threads' \in Seq([camera : Range(LocalCameras), status : Status])
      /\ DOMAIN threads' = DOMAIN threads
      /\ \A t \in H : threads'[t].status \in Ended
      /\ \A t \in DOMAIN threads \ H : threads'[t] = threads[t]
  <2>1. /\ threads \in Seq([camera : Range(LocalCameras), status : Status])
        /\ Len(threads) \in Nat /\ DOMAIN threads = 1..Len(threads)
    BY <1>1 DEF TypeCameras
  <2>2. CASE AllEnded(a) /\ threads' = threads
    BY <2>1, <2>2 DEF AllEnded
  <2>3. CASE threads' = [t \in DOMAIN threads |->
               IF t \in H /\ threads[t].status \notin Ended
               THEN [threads[t] EXCEPT !.status = "terminated"] ELSE threads[t]]
    <3>1. ASSUME NEW t \in DOMAIN threads
          PROVE  /\ threads'[t] \in [camera : Range(LocalCameras), status : Status]
                 /\ t \in H => threads'[t].status \in Ended
                 /\ t \notin H => threads'[t] = threads[t]
      <4> DEFINE r == threads[t]
      <4>1. r \in [camera : Range(LocalCameras), status : Status]
        <5> DEFINE R == [camera : Range(LocalCameras), status : Status]
        <5>1. threads \in Seq(R)
          BY <2>1
        <5> HIDE DEF R
        <5>2. threads[t] \in R
          BY <5>1
        <5> QED BY <5>2 DEF R
      <4>2. threads'[t] = IF t \in H /\ r.status \notin Ended
                          THEN [r EXCEPT !.status = "terminated"] ELSE r
        BY <2>3
      <4> HIDE DEF r, H
      <4>3. CASE t \in H /\ r.status \notin Ended
        <5>1. /\ threads'[t] \in [camera : Range(LocalCameras), status : Status]
              /\ threads'[t].status = "terminated"
          BY <4>1, <4>2, <4>3 DEF Status
        <5> QED BY <4>3, <5>1 DEF Ended
      <4>4. CASE ~(t \in H /\ r.status \notin Ended)
        BY <4>1, <4>2, <4>4 DEF r
      <4> QED BY <4>3, <4>4
    <3>2. DOMAIN threads' = 1..Len(threads)
      BY <2>1, <2>3
    <3> HIDE DEF H
    <3>3. threads' \in [1..Len(threads) -> [camera : Range(LocalCameras), status : Status]]
      BY <2>1, <2>3, <3>1, <3>2
    <3>4. threads' \in Seq([camera : Range(LocalCameras), status : Status])
      BY <2>1, <3>3
    <3> QED BY <1>2, <2>1, <3>1, <3>2, <3>4
  <2> QED BY <2>2, <2>3 DEF EndStopCameraThreads
<1> HIDE DEF H
<1>4. TypeCameras'
  BY <1>1, <1>3 DEF TypeCameras, IsInjective
<1>5. OnePerCamera' /\ NoneLeft'
  BY <1>1 DEF OnePerCamera, NoneLeft
<1>6. LiveKnown'
  <2>1. ASSUME NEW t \in DOMAIN threads' PROVE threads'[t].status \notin Live
    <3>1. CASE t \in H
      BY <1>3, <3>1 DEF Live, Ended
    <3>2. CASE t \notin H
      BY <1>2, <1>3, <3>2 DEF Inv, Cameras, LiveKnown
    <3> QED BY <3>1, <3>2
  <2> QED BY <2>1 DEF LiveKnown
<1>7. Forgets
  BY <1>2, <1>3 DEF Forgets
<1>8. Waited'
  <2>1. ASSUME NEW b \in Actors, pc'[b] = "wait" PROVE FALSE
    <3>1. CASE b = a
      BY <1>1, <2>1, <3>1 DEF Inv, Control, Returns, Stopping, Done, Actors
    <3>2. CASE b # a
      BY <1>1, <2>1, <3>2, OneWaits
    <3> QED BY <3>1, <3>2
  <2> QED BY <2>1 DEF Waited
<1> QED BY <1>4, <1>5, <1>6, <1>7, <1>8 DEF Cameras

(* A camera thread changes no status but its own, and does not come back.   *)
LEMMA ThreadStep ==
  ASSUME RoomThreadsAssumption, Inv, Frame, NEW t \in DOMAIN threads, ThreadNext(t)
  PROVE  Cameras' /\ Forgets
<1> DEFINE R == [camera : Range(LocalCameras), status : Status]
           r == threads[t]
<1>1. /\ TypeCameras /\ Cameras /\ analyzers' = analyzers /\ signaled' = signaled
      /\ handles' = handles /\ pc' = pc /\ state' = state /\ action' = action
  BY DEF Inv, Cameras, ThreadNext, Enter, Leave, ThreadBegins, ThreadLooks, ThreadFails, CameraStep
<1>2. failures' \in 0..MaxFailed /\ cameraCS' \in DOMAIN threads \cup {NoThread}
  BY <1>1
  DEF RoomThreadsAssumption, TypeCameras, ThreadNext, Enter, Leave, ThreadBegins, ThreadLooks,
      ThreadFails
<1>13. Waited' /\ NoneLeft'
  BY <1>1 DEF Cameras, Waited, NoneLeft, Frame
<1>14. CASE Enter(t)
  <2>1. threads' = threads /\ TypeCameras' /\ OnePerCamera' /\ LiveKnown' /\ Forgets
    BY <1>1, <1>2, <1>14, CamerasStay DEF Enter, TypeCameras
  <2> QED BY <1>13, <2>1 DEF Cameras
<1> SUFFICES ASSUME ~ Enter(t) PROVE Cameras' /\ Forgets
  BY <1>14
<1>3. PICK s \in Status : SetStatus(t, s) /\ r.status \in Live
  BY DEF ThreadNext, ThreadBegins, ThreadLooks, ThreadFails, Status, Live
<1>4. threads \in Seq(R) /\ r \in R /\ Len(threads) \in Nat /\ DOMAIN threads = 1..Len(threads)
  <2>1. threads \in Seq(R)
    BY <1>1 DEF TypeCameras
  <2> HIDE DEF R
  <2> QED BY <2>1
<1>5. /\ threads' = [threads EXCEPT ![t] = [r EXCEPT !.status = s]]
      /\ [r EXCEPT !.status = s] \in R /\ [r EXCEPT !.status = s].camera = r.camera
  BY <1>3, <1>4 DEF SetStatus
<1> HIDE DEF R
<1>6. /\ threads' \in Seq(R) /\ DOMAIN threads' = DOMAIN threads
      /\ \A u \in DOMAIN threads : threads'[u].camera = threads[u].camera
      /\ \A u \in DOMAIN threads : u # t => threads'[u] = threads[u]
  BY <1>4, <1>5
<1> HIDE DEF r
<1>7. TypeCameras'
  BY <1>1, <1>2, <1>6 DEF TypeCameras, R
<1>8. OnePerCamera'
  <2>1. \A i \in DOMAIN analyzers : analyzers[i] \in DOMAIN threads
    BY <1>1 DEF TypeCameras
  <2> QED BY <1>1, <1>6, <2>1 DEF OnePerCamera, Cameras
<1>9. LiveKnown'
  <2>1. ASSUME NEW u \in DOMAIN threads', threads'[u].status \in Live
        PROVE  u \in Range(analyzers)
    BY <1>1, <1>3, <1>6, <2>1 DEF LiveKnown, Cameras, r
  <2> QED BY <1>1, <2>1 DEF LiveKnown
<1>12. Forgets
  BY <1>1 DEF Forgets
<1> QED BY <1>7, <1>8, <1>9, <1>12, <1>13 DEF Cameras

(* The other steps touch neither the threads nor the vector.                *)
LEMMA OtherStep ==
  ASSUME RoomThreadsAssumption, Inv, Frame, UNCHANGED <<cameraVars, handles>>,
         \/ Top \/ Pump \/ EndPump \/ Rest \/ StartHall \/ Suspend
         \/ SetStopped("main") \/ SetStopped("gui")
         \/ LockAnalyzerCS("main") \/ LockAnalyzerCS("gui")
         \/ StopServer \/ GuiStopWork \/ StopMain \/ WaitForMain
  PROVE  Cameras' /\ Forgets
<1>1. /\ analyzers' = analyzers /\ threads' = threads /\ signaled' = signaled
      /\ failures' = failures /\ handles' = handles /\ hallLocal' = hallLocal
      /\ cameraCS' = cameraCS
  BY DEF cameraVars, Frame
<1>2. TypeControl /\ Returns /\ Locked /\ StateAgrees /\ Remembers /\ Cameras /\ TypeCameras /\ NoneLeft /\ Waited
  BY DEF Inv, Control, Cameras
<1>3. TypeCameras' /\ OnePerCamera' /\ LiveKnown' /\ Forgets
  BY <1>1, <1>2, CamerasStay DEF TypeCameras
<1>4. NoneLeft' /\ \A a \in Actors : pc'[a] = "wait" => pc[a] = "wait"
  <2> USE DEF TypeControl, Locked, StateAgrees, Remembers, Overlaps, Frame, NoneLeft, Stopping,
              Emptying, Done, Goto, Actors
  <2>1. CASE Top
    BY <1>1, <1>2, <2>1 DEF Top
  <2>2. CASE Pump
    BY <1>1, <1>2, <2>2 DEF Pump
  <2>3. CASE EndPump
    BY <1>1, <1>2, <2>3 DEF EndPump
  <2>4. CASE Rest
    BY <1>1, <1>2, <2>4 DEF Rest
  <2>5. CASE StartHall
    BY <1>1, <1>2, <2>5 DEF StartHall
  <2>6. CASE Suspend
    BY <1>1, <1>2, <2>6 DEF Suspend, StopWork, Commanded
  <2>7. CASE LockAnalyzerCS("main")
    BY <1>1, <1>2, <2>7 DEF LockAnalyzerCS
  <2>8. CASE LockAnalyzerCS("gui")
    BY <1>1, <1>2, <2>8 DEF LockAnalyzerCS
  <2>9. CASE StopServer
    BY <1>1, <1>2, <2>9 DEF StopServer
  <2>10. CASE GuiStopWork
    BY <1>1, <1>2, <2>10 DEF GuiStopWork, StopWork
  <2>11. CASE StopMain
    BY <1>1, <1>2, <2>11 DEF StopMain
  <2>12. CASE SetStopped("main")
    BY <1>1, <1>2, <2>12 DEF SetStopped
  <2>13. CASE SetStopped("gui")
    BY <1>1, <1>2, <2>13 DEF SetStopped
  <2>14. CASE WaitForMain
    <3>1. /\ pc["gui"] = "waitMain" /\ pc'["gui"] = "free" /\ state' = state /\ action' = action
          /\ pc'["main"] \in {"ended", "terminated"} /\ (~ overlap' => ~ overlap)
      BY <2>14 DEF WaitForMain
    <3> QED BY <1>1, <1>2, <3>1
  <2> QED BY <2>1, <2>2, <2>3, <2>4, <2>5, <2>6, <2>7, <2>8, <2>9, <2>10, <2>11, <2>12, <2>13, <2>14
<1>5. Waited'
  BY <1>1, <1>2, <1>4 DEF Waited
<1> QED BY <1>3, <1>4, <1>5 DEF Cameras

LEMMA InvNext ==
  ASSUME RoomThreadsAssumption, Inv, Next, Frame, ~ FreeServer
  PROVE  Inv' /\ Forgets
<1>1. Control'
  BY ControlNext DEF Inv
<1>2. TypeCameras
  BY DEF Inv, Cameras
<1>3. CASE Check
  BY <1>1, <1>3, CheckStep DEF Inv
<1>4. CASE StartWork
  BY <1>1, <1>4, StartWorkStep DEF Inv
<1>5. CASE StartHallFails
  <2>1. /\ StopCommon("main") /\ pc["main"] = "startHall" /\ failures' \in 0..MaxFailed
        /\ "main" \in Actors
    BY <1>2, <1>5 DEF StartHallFails, StopCommon, TypeCameras, RoomThreadsAssumption, Actors
  <2> QED BY <1>1, <2>1, StopStep DEF Inv
<1>6. ASSUME NEW a \in Actors, StopCameraThreads(a) PROVE Inv' /\ Forgets
  <2>1. StopCommon(a) /\ pc[a] = "stopCameras" /\ failures' \in 0..MaxFailed
    BY <1>2, <1>6 DEF StopCameraThreads, StopCommon, TypeCameras
  <2> QED BY <1>1, <2>1, StopStep DEF Inv
<1>7. ASSUME NEW a \in Actors, EndStopCameraThreads(a) PROVE Inv' /\ Forgets
  BY <1>1, <1>7, EndStopStep DEF Inv
<1>8. ASSUME NEW t \in DOMAIN threads, ThreadNext(t) PROVE Inv' /\ Forgets
  BY <1>1, <1>8, ThreadStep DEF Inv
<1>9. CASE \/ Top \/ Pump \/ EndPump \/ Rest \/ StartHall \/ Suspend
           \/ SetStopped("main") \/ SetStopped("gui")
           \/ LockAnalyzerCS("main") \/ LockAnalyzerCS("gui")
           \/ StopServer \/ GuiStopWork \/ StopMain \/ WaitForMain
  <2>1. UNCHANGED <<cameraVars, handles>>
    BY <1>9
    DEF Top, Pump, EndPump, Rest, StartHall, Suspend, StopWork, SetStopped, LockAnalyzerCS,
        StopServer, GuiStopWork, StopMain, WaitForMain, cameraVars
  <2> QED BY <1>1, <1>9, <2>1, OtherStep DEF Inv
<1> QED
  BY <1>3, <1>4, <1>5, <1>6, <1>7, <1>8, <1>9 DEF Next, MainNext, GuiNext, StopNext, Actors

(* What leaves the vector has ended, or is freed with the server after an   *)
(* overlap.                                                                 *)
ForgetsOrFrees ==
  \A t \in Range(analyzers) \ Range(analyzers') :
    threads'[t].status \in Ended \/ (pc'["gui"] = "freed" /\ overlap)

(* All threads that read are in the vector, which has one for each camera.  *)
LEMMA InvOneThread == Inv => OneThreadPerCamera
<1> SUFFICES ASSUME Inv, NEW t \in DOMAIN threads, NEW u \in DOMAIN threads,
                    threads[t].status \in Live, threads[u].status \in Live,
                    threads[t].camera = threads[u].camera
             PROVE  t = u
  BY DEF OneThreadPerCamera
<1>1. t \in Range(analyzers) /\ u \in Range(analyzers)
  BY DEF Inv, Cameras, LiveKnown
<1>2. PICK i \in DOMAIN analyzers, j \in DOMAIN analyzers : t = analyzers[i] /\ u = analyzers[j]
  BY <1>1 DEF Range
<1> QED BY <1>2 DEF Inv, Cameras, OnePerCamera

(* The destructors find no thread if nothing overlapped: the user interface *)
(* has looked at m_State, and the main thread has started nothing since.    *)
LEMMA FreeServerStep ==
  ASSUME Inv, FreeServer, Frame, Control'
  PROVE  IInv' /\ ForgetsOrFrees
<1>1. /\ pc["gui"] = "free" /\ pc'["gui"] = "freed" /\ analyzers' = <<>>
      /\ threads' = threads /\ signaled' = signaled /\ failures' = failures
      /\ handles' = handles /\ cameraCS' = cameraCS
  BY DEF FreeServer, Goto, Inv, Control, TypeControl, Actors
<1>2. TypeCameras'
  BY <1>1 DEF Inv, Cameras, TypeCameras, IsInjective
<1>3. OneThreadPerCamera'
  BY <1>1, InvOneThread DEF OneThreadPerCamera
<1>4. ~ overlap => analyzers = <<>>
  BY <1>1 DEF Inv, Control, Remembers, Cameras, NoneLeft, Emptying
<1>5. ForgetsOrFrees
  BY <1>1, <1>4 DEF ForgetsOrFrees, Range
<1> QED BY <1>1, <1>2, <1>3, <1>5 DEF IInv

(* Nothing happens once the server has been freed.                          *)
LEMMA FreedIsTheEnd ==
  ASSUME Control, pc["gui"] = "freed"
  PROVE  ~ Next
<1>1. pc["main"] \in {"ended", "terminated"}
  BY DEF Control, Locked
<1>2. ~ MainNext
  BY <1>1
  DEF MainNext, Top, Check, Pump, EndPump, Rest, StartWork, StartHall, StartHallFails, Suspend,
      Commanded
<1>3. ~ GuiNext
  BY DEF GuiNext, StopServer, GuiStopWork, StopMain, WaitForMain, FreeServer
<1>4. \A a \in Actors : ~ StopNext(a)
  BY <1>1
  DEF StopNext, SetStopped, LockAnalyzerCS, StopCameraThreads, EndStopCameraThreads, Actors
<1>5. \A t \in DOMAIN threads : ~ ThreadNext(t)
  BY DEF ThreadNext, Enter, Leave, ThreadBegins, ThreadLooks, ThreadFails, CameraStep
<1> QED BY <1>2, <1>3, <1>4, <1>5 DEF Next

LEMMA IInvNext ==
  ASSUME RoomThreadsAssumption, IInv, Next, Frame
  PROVE  IInv' /\ ForgetsOrFrees
<1>1. Inv
  BY FreedIsTheEnd DEF IInv, Inv
<1>2. CASE FreeServer
  <2>1. Control'
    BY ControlNext DEF IInv
  <2> QED BY <1>1, <1>2, <2>1, FreeServerStep DEF IInv
<1>3. CASE ~ FreeServer
  <2>1. Inv' /\ Forgets
    BY <1>1, <1>3, InvNext
  <2> QED BY <2>1 DEF IInv, Inv, Cameras, Forgets, ForgetsOrFrees
<1> QED BY <1>2, <1>3

LEMMA IInvStutters ==
  ASSUME IInv, UNCHANGED vars
  PROVE  IInv' /\ ForgetsOrFrees
<1>1. /\ hallLocal' = hallLocal /\ state' = state /\ action' = action
      /\ analyzerCS' = analyzerCS /\ serverCS' = serverCS
      /\ pc' = pc /\ return' = return /\ mainEvent' = mainEvent /\ overlap' = overlap
      /\ analyzers' = analyzers /\ threads' = threads /\ signaled' = signaled
      /\ failures' = failures /\ handles' = handles /\ cameraCS' = cameraCS
  BY DEF vars, cameraVars, lockVars
<1>2. Control'
  BY <1>1, ControlStutters DEF IInv
<1>3. TypeCameras'
  BY <1>1 DEF IInv, TypeCameras
<1>4. OneThreadPerCamera => OneThreadPerCamera'
  BY <1>1 DEF OneThreadPerCamera
<1>5. Cameras => OnePerCamera' /\ LiveKnown'
  BY <1>1 DEF Cameras, OnePerCamera, LiveKnown
<1>6. Cameras => Waited' /\ NoneLeft'
  BY <1>1 DEF Cameras, Waited, NoneLeft
<1>7. (pc'["gui"] = "freed" /\ OneThreadPerCamera') \/ Cameras'
  BY <1>1, <1>3, <1>4, <1>5, <1>6 DEF IInv, Cameras
<1>8. ForgetsOrFrees
  BY <1>1 DEF ForgetsOrFrees
<1> QED BY <1>2, <1>3, <1>7, <1>8 DEF IInv

LEMMA InitInv == RoomThreadsAssumption /\ Init => IInv
<1> SUFFICES ASSUME RoomThreadsAssumption, Init PROVE IInv
  OBVIOUS
<1>1. Control
  BY DEF RoomThreadsAssumption, Init, Control, TypeControl, Returns, Locked, StateAgrees, Remembers,
         Overlaps, Stopping, Emptying, Actors
<1>2. TypeCameras
  BY DEF RoomThreadsAssumption, Init, TypeCameras, IsInjective, Actors
<1>3. OnePerCamera /\ LiveKnown /\ Waited /\ NoneLeft
  BY DEF Init, OnePerCamera, LiveKnown, Waited, NoneLeft, Actors
<1>4. Inv
  BY <1>1, <1>2, <1>3 DEF Inv, Cameras
<1> QED BY <1>4 DEF IInv, Inv, Cameras

LEMMA Invariance == Spec => []IInv
<1>1. IInv /\ [Next /\ Frame]_vars => IInv'
  BY IInvNext, IInvStutters, RoomThreadsAssumption
<1> QED BY <1>1, InitInv, RoomThreadsAssumption, PTL DEF Spec
-----------------------------------------------------------------------------
(* The vector of the camera threads holds threads that exist, each once,    *)
(* through every start, restart and stop.                                   *)
THEOREM RoomThreadsTypes == Spec => []TypeOK
<1>1. IInv => TypeOK
  BY TypeHalves DEF IInv, Control
<1> QED BY <1>1, Invariance, PTL

(* Two threads that read the same camera are the same thread: all threads   *)
(* that read are in the vector, which has one for each camera.              *)
THEOREM OneThreadEach == Spec => []OneThreadPerCamera
<1>1. IInv => OneThreadPerCamera
  BY InvOneThread DEF IInv, Inv
<1> QED BY <1>1, Invariance, PTL

(* No thread leaves the vector, and with it its algorithm and its queue,    *)
(* before it has ended: what is erased while threads are stopped is what    *)
(* was waited for, as no one else changes the vector meanwhile, and the     *)
(* destructors find the vector empty, unless the main thread was about to   *)
(* check, start or stop threads while StopServer took the work for stopped. *)
THEOREM ForgottenHaveEnded == Spec => ForgetsOnlyEnded
<1>1. IInv /\ [Next /\ Frame]_vars => [ForgetsOrFrees]_vars
  BY IInvNext, RoomThreadsAssumption
<1>2. [ForgetsOrFrees]_vars =>
        [\A t \in Range(analyzers) \ Range(analyzers') :
           threads'[t].status \in Ended \/ (pc'["gui"] = "freed" /\ overlap)]_vars
  BY DEF ForgetsOrFrees
<1> QED BY <1>1, <1>2, Invariance, PTL DEF Spec, ForgetsOnlyEnded
=============================================================================
