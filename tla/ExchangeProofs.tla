--------------------------- MODULE ExchangeProofs ---------------------------
(***************************************************************************)
(* Proofs about Exchange: the locks and the states of the thread go        *)
(* together, no message is sent without a box office, timetables are       *)
(* executed in their order, and the box office gets nothing again but what *)
(* a call that failed leaves in doubt.                                     *)
(***************************************************************************)
EXTENDS Exchange, FiniteSetTheorems, TLAPS

(* Taking one message out of a channel leaves the others in their order.    *)
LEMMA RemoveAtFacts ==
  ASSUME NEW S, NEW q \in Seq(S), NEW i \in DOMAIN q
  PROVE  /\ RemoveAt(q, i) \in Seq(S) /\ Len(RemoveAt(q, i)) = Len(q) - 1
         /\ \A j \in DOMAIN RemoveAt(q, i) : \E k \in DOMAIN q : RemoveAt(q, i)[j] = q[k]
         /\ \A j \in DOMAIN RemoveAt(q, i) :
              RemoveAt(q, i)[j] = IF j < i THEN q[j] ELSE q[j + 1]
<1>1. i \in 1..Len(q) /\ Len(q) \in Nat /\ DOMAIN q = 1..Len(q)
  OBVIOUS
<1>2. RemoveAt(q, i) \in Seq(S) /\ Len(RemoveAt(q, i)) = Len(q) - 1
  BY <1>1 DEF RemoveAt
<1>3. ASSUME NEW j \in 1..(Len(q) - 1)
      PROVE  RemoveAt(q, i)[j] = IF j < i THEN q[j] ELSE q[j + 1]
  <2>1. CASE j < i
    BY <1>1, <2>1 DEF RemoveAt
  <2>2. CASE ~ (j < i)
    BY <1>1, <2>2 DEF RemoveAt
  <2> QED BY <2>1, <2>2
<1>4. DOMAIN RemoveAt(q, i) = 1..(Len(q) - 1)
  BY <1>1, <1>2
<1>5. ASSUME NEW j \in DOMAIN RemoveAt(q, i) PROVE \E k \in DOMAIN q : RemoveAt(q, i)[j] = q[k]
  <2>1. j \in DOMAIN q /\ j + 1 \in DOMAIN q
    BY <1>1, <1>4
  <2> QED BY <1>3, <1>4, <2>1
<1> QED BY <1>2, <1>3, <1>4, <1>5

(* Taking the first message leaves the others in their order.               *)
LEMMA TailFacts ==
  ASSUME NEW S, NEW q \in Seq(S), q # <<>>
  PROVE  /\ Tail(q) \in Seq(S)
         /\ Head(q) \in S /\ Head(q) = q[1]
         /\ Len(q) \in Nat \ {0}
         /\ Len(Tail(q)) = Len(q) - 1
         /\ \A i \in DOMAIN Tail(q) : i + 1 \in DOMAIN q /\ Tail(q)[i] = q[i + 1]
OBVIOUS

(* Sending a message puts it after the others.                              *)
LEMMA AppendFacts ==
  ASSUME NEW S, NEW q \in Seq(S), NEW e \in S
  PROVE  /\ Append(q, e) \in Seq(S)
         /\ \A i \in DOMAIN Append(q, e) :
              \/ i \in DOMAIN q /\ Append(q, e)[i] = q[i]
              \/ i = Len(q) + 1 /\ Append(q, e)[i] = e
OBVIOUS

Inside == {"pop", "log", "unlock", "timer", "send", "logSent"}

Connected == {"receive", "report", "wait"}

(* What the thread knows of the state while it is inside Process: nobody    *)
(* changes it then; and a state that sends has a box office, as only the    *)
(* ConnectState, which makes the connection, leads to one.                  *)
ConnectionInv ==
  /\ worker \in Inside => state \in Connected
  /\ worker \in Inside \cup {"turn"} /\ state \in Connected => com # "none"
  /\ worker = "log" => at <= Len(input)
  /\ worker = "logSent" => output # <<>>

Inv == TypeOK /\ ConnectionInv

USE ExchangeAssumption DEF Inside, Connected

(* An answer is an output message.                                          *)
LEMMA AnswerType ==
  ASSUME NEW q \in Query PROVE [type |-> "answer", n |-> q.n] \in OutputMessage
BY DEF Query, OutputMessage

(* The thread is not there at first.                                        *)
LEMMA InitInv == Init => Inv
BY DEF Init, Inv, TypeOK, ConnectionInv

(* A turn of the main thread or of the operator.                            *)
LEMMA MainInv ==
  Inv /\ (Request \/ GetState \/ Push \/ Reconnect \/ ForceReport) => Inv'
<1> SUFFICES ASSUME Inv PROVE Request \/ GetState \/ Push \/ Reconnect \/ ForceReport => Inv'
  OBVIOUS
<1>1. ASSUME Request PROVE Inv'
  BY <1>1 DEF Inv, TypeOK, ConnectionInv, Request, queues, locks, requestVars, outside
<1>2. ASSUME GetState PROVE Inv'
  BY <1>2 DEF Inv, TypeOK, ConnectionInv, GetState, Start, queues, locks, requestVars, outside
<1>3. ASSUME Push PROVE Inv'
  <2>1. /\ input' \in Seq(Query) /\ Len(input') >= Len(input) /\ accepted' \subseteq Query
        /\ Len(input) \in Nat /\ Len(input') \in Nat
    <3>1. input \in Seq(Query) /\ accepted \subseteq Query
      BY DEF Inv, TypeOK
    <3>2. CASE UNCHANGED <<input, accepted>>
      BY <3>1, <3>2
    <3>3. CASE \E q \in Query : input' = Append(input, q) /\ accepted' = accepted \cup {q}
      BY <3>1, <3>3
    <3> QED BY <1>3, <3>2, <3>3 DEF Push
  <2>2. at \in 1..(Len(input') + 1) /\ (at <= Len(input) => at <= Len(input'))
    BY <2>1 DEF Inv, TypeOK
  <2> QED
    BY <1>3, <2>1, <2>2
    DEF Inv, TypeOK, ConnectionInv, Push, queues, locks, requestVars, outside
<1>4. ASSUME Reconnect PROVE Inv'
  BY <1>4 DEF Inv, TypeOK, ConnectionInv, Reconnect, queues, locks, requestVars, outside
<1>5. ASSUME ForceReport PROVE Inv'
  BY <1>5 DEF Inv, TypeOK, ConnectionInv, ForceReport, queues, locks, requestVars, outside
<1> QED BY <1>1, <1>2, <1>3, <1>4, <1>5

(* A step of the working thread.                                            *)
LEMMA WorkerInv ==
  Inv /\ WorkerNext => Inv'
<1> SUFFICES ASSUME Inv, WorkerNext PROVE Inv'
  OBVIOUS
<1> USE DEF Inv, TypeOK, ConnectionInv, queues, locks, requestVars, outside
<1>1. ASSUME Starts PROVE Inv'
  BY <1>1 DEF Starts
<1>2. ASSUME Connect PROVE Inv'
  BY <1>2 DEF Connect, Turn, ConnectCOM
<1>3. ASSUME Pop PROVE Inv'
  BY <1>3 DEF Pop
<1>4. ASSUME ProcessNext PROVE Inv'
  <2> DEFINE q == input[at]
  <2>1. at \in DOMAIN input /\ q \in Query /\ Len(input) \in Nat
    BY <1>4 DEF ProcessNext
  <2>2. [type |-> "answer", n |-> q.n] \in OutputMessage
    BY <2>1, AnswerType
  <2>3. output' \in Seq(OutputMessage)
    <3>1. output' = output \/ output' = Append(output, [type |-> "answer", n |-> q.n])
      BY <1>4 DEF ProcessNext, ProcessQuery, Answer
    <3>2. output \in Seq(OutputMessage)
      OBVIOUS
    <3>3. Append(output, [type |-> "answer", n |-> q.n]) \in Seq(OutputMessage)
      BY <2>2, <3>2, AppendFacts
    <3> QED BY <3>1, <3>2, <3>3
  <2>4. /\ input' \in Seq(Query) /\ at' \in 1..(Len(input') + 1)
        /\ (worker' = "log" => at' <= Len(input'))
    BY <1>4, <2>1, RemoveAtFacts DEF ProcessNext, ProcessQuery, Erase
  <2>5. executed' \in Seq(1..MaxQueries)
    <3>1. executed' = executed \/ executed' = Append(executed, q.n)
      BY <1>4 DEF ProcessNext, ProcessQuery
    <3>2. q.n \in 1..MaxQueries
      BY <2>1 DEF Query
    <3>3. executed \in Seq(1..MaxQueries)
      OBVIOUS
    <3>4. Append(executed, q.n) \in Seq(1..MaxQueries)
      BY <3>2, <3>3, AppendFacts
    <3> QED BY <3>1, <3>3, <3>4
  <2> HIDE DEF q
  <2> QED BY <1>4, <2>3, <2>4, <2>5 DEF ProcessNext, ProcessQuery
<1>5. ASSUME LogUnknown PROVE Inv'
  <2>1. at \in DOMAIN input /\ Len(input) \in Nat
    BY <1>5 DEF LogUnknown
  <2>2. /\ input' \in Seq(Query) /\ at' \in 1..(Len(input') + 1) /\ worker' # "log"
    BY <1>5, <2>1, RemoveAtFacts DEF LogUnknown, Erase
  <2> QED BY <1>5, <2>2 DEF LogUnknown
<1>6. ASSUME Unlock PROVE Inv'
  BY <1>6 DEF Unlock
<1>7. ASSUME WaitTimeout \/ WaitOn PROVE Inv'
  BY <1>7 DEF WaitTimeout, WaitOn
<1>8. ASSUME CreateStatReport PROVE Inv'
  <2>1. reports' \in 0..MaxReports /\ reports' \in 1..MaxReports
    BY <1>8 DEF CreateStatReport
  <2>2. [type |-> "report", n |-> reports'] \in OutputMessage
    BY <2>1 DEF OutputMessage
  <2>3. output' \in Seq(OutputMessage)
    BY <1>8, <2>2, AppendFacts DEF CreateStatReport
  <2> QED BY <1>8, <2>1, <2>3 DEF CreateStatReport, Turn
<1>9. ASSUME SendOutput PROVE Inv'
  <2>1. delivered' \in Seq(OutputMessage)
    <3>1. output # <<>> /\ delivered' \in {delivered, Append(delivered, Head(output))}
      BY <1>9 DEF SendOutput
    <3>2. Head(output) \in OutputMessage
      BY <3>1, TailFacts
    <3>3. delivered \in Seq(OutputMessage)
      OBVIOUS
    <3>4. Append(delivered, Head(output)) \in Seq(OutputMessage)
      BY <3>2, <3>3, AppendFacts
    <3> QED BY <3>1, <3>3, <3>4
  <2>2. halfSent' \in 0..MaxHalfSent
    BY <1>9 DEF SendOutput
  <2> QED BY <1>9, <2>1, <2>2 DEF SendOutput
<1>10. ASSUME LogSent PROVE Inv'
  <2>1. output' \in Seq(OutputMessage)
    <3>1. output # <<>> /\ output' \in {output, Tail(output)}
      BY <1>10 DEF LogSent
    <3>2. output \in Seq(OutputMessage)
      OBVIOUS
    <3>3. Tail(output) \in Seq(OutputMessage)
      BY <3>1, <3>2, TailFacts
    <3> QED BY <3>1, <3>2, <3>3
  <2> QED BY <1>10, <2>1 DEF LogSent
<1>11. ASSUME EndTurn PROVE Inv'
  BY <1>11 DEF EndTurn
<1> QED BY <1>1, <1>2, <1>3, <1>4, <1>5, <1>6, <1>7, <1>8, <1>9, <1>10, <1>11 DEF WorkerNext

(* The box office and the database come and go.                             *)
LEMMA OutsideInv ==
  Inv /\ (BoxOffice \/ Database) => Inv'
<1> SUFFICES ASSUME Inv PROVE BoxOffice \/ Database => Inv'
  OBVIOUS
<1> USE DEF Inv, TypeOK, ConnectionInv, queues, locks, requestVars
<1>1. ASSUME BoxOffice PROVE Inv'
  BY <1>1 DEF BoxOffice
<1>2. ASSUME Database PROVE Inv'
  BY <1>2 DEF Database
<1> QED BY <1>1, <1>2

(* No step breaks the invariant.                                            *)
LEMMA NextInv == Inv /\ [Next]_vars => Inv'
<1> SUFFICES ASSUME Inv, [Next]_vars PROVE Inv'
  OBVIOUS
<1>1. CASE Next
  BY <1>1, MainInv, WorkerInv, OutsideInv DEF Next, RequestNext
<1>2. CASE UNCHANGED vars
  BY <1>2 DEF Inv, TypeOK, ConnectionInv, vars, queues, locks, requestVars, outside
<1> QED BY <1>1, <1>2

(* What the other proofs rest on.                                           *)
LEMMA ExchangeInvariant == Spec => []Inv
BY InitInv, NextInv, PTL DEF Spec

(* Queues, states and locks have their types, and the thread holds the      *)
(* locks of the place of Process where it is, and no others.                *)
THEOREM ExchangeTypeCorrect == Spec => []TypeOK
<1>1. Inv => TypeOK
  BY DEF Inv
<1> QED BY <1>1, ExchangeInvariant, PTL

(* m_pBoxOffice is never used while it is NULL.                             *)
THEOREM NeverSendsUnconnected == Spec => []ConnectedWhenSending
<1>1. Inv => ConnectedWhenSending
  BY DEF Inv, TypeOK, ConnectionInv, ConnectedWhenSending
<1> QED BY <1>1, ExchangeInvariant, PTL
-----------------------------------------------------------------------------
AnswerTo(q) == [type |-> "answer", n |-> q.n]

In(m, s) == \E i \in DOMAIN s : s[i] = m

Kept(q) == In(q, input) \/ In(AnswerTo(q), output) \/ In(AnswerTo(q), delivered)

(* A query that is answered but still in the input queue, and an answer     *)
(* that is sent but still in the output queue: what is between is in both.  *)
KeepInv ==
  /\ \A q \in accepted : q.kind # "error" => Kept(q)
  /\ worker = "log" /\ input[at].kind # "error" => In(AnswerTo(input[at]), output)
  /\ worker = "logSent" => In(Head(output), delivered)

(* What is not removed stays.                                               *)
LEMMA RemoveAtKeeps ==
  ASSUME NEW S, NEW s \in Seq(S), NEW i \in DOMAIN s, NEW m, In(m, s), m # s[i]
  PROVE  In(m, RemoveAt(s, i))
<1>1. PICK k \in DOMAIN s : s[k] = m
  BY DEF In
<1>2. k # i
  BY <1>1
<1>3. RemoveAt(s, i) \in Seq(S) /\ Len(RemoveAt(s, i)) = Len(s) - 1
  BY RemoveAtFacts
<1>4. CASE k < i
  <2>1. k \in DOMAIN RemoveAt(s, i)
    BY <1>3, <1>4
  <2>2. RemoveAt(s, i)[k] = s[k]
    BY <1>4, <2>1, RemoveAtFacts
  <2> QED BY <1>1, <2>1, <2>2 DEF In
<1>5. CASE k > i
  <2>1. k - 1 \in DOMAIN RemoveAt(s, i) /\ ~(k - 1 < i) /\ (k - 1) + 1 = k
    BY <1>3, <1>5
  <2>2. RemoveAt(s, i)[k - 1] = s[k]
    BY <2>1, RemoveAtFacts
  <2> QED BY <1>1, <2>1, <2>2 DEF In
<1> QED BY <1>2, <1>4, <1>5

(* What was there stays, and the new is there.                              *)
LEMMA AppendKeeps ==
  ASSUME NEW S, NEW s \in Seq(S), NEW e \in S
  PROVE  /\ In(e, Append(s, e))
         /\ \A m : In(m, s) => In(m, Append(s, e))
<1>1. /\ DOMAIN s = 1..Len(s) /\ Len(s) \in Nat
      /\ DOMAIN Append(s, e) = 1..(Len(s) + 1) /\ Append(s, e)[Len(s) + 1] = e
      /\ \A i \in DOMAIN s : Append(s, e)[i] = s[i]
  OBVIOUS
<1>2. Len(s) + 1 \in DOMAIN Append(s, e) /\ DOMAIN s \subseteq DOMAIN Append(s, e)
  BY <1>1
<1> QED BY <1>1, <1>2 DEF In

(* What is not the head stays.                                              *)
LEMMA TailKeeps ==
  ASSUME NEW S, NEW s \in Seq(S), s # <<>>, NEW m, In(m, s), m # Head(s)
  PROVE  In(m, Tail(s))
<1>1. PICK k \in DOMAIN s : s[k] = m
  BY DEF In
<1>2. k # 1
  BY <1>1
<1>3. k - 1 \in DOMAIN Tail(s) /\ Tail(s)[k - 1] = s[k]
  BY <1>2
<1> QED BY <1>1, <1>3 DEF In

(* The steps that touch no queue.                                           *)
LEMMA KeepRest ==
  ASSUME Inv, KeepInv, UNCHANGED <<input, output, delivered, accepted>>,
         worker' \notin {"log", "logSent"} \/ UNCHANGED <<worker, at>>
  PROVE  KeepInv'
BY DEF KeepInv, Kept, AnswerTo, In

(* A new query is in the input queue.                                       *)
LEMMA KeepPush == Inv /\ KeepInv /\ Push => KeepInv'
<1> SUFFICES ASSUME Inv, KeepInv, Push PROVE KeepInv'
  OBVIOUS
<1>1. UNCHANGED <<output, delivered, worker, at>> /\ worker # "log" /\ input \in Seq(Query)
  BY DEF Push, Inv, TypeOK, locks
<1>2. CASE UNCHANGED <<input, accepted>>
  BY <1>1, <1>2, KeepRest
<1>3. CASE \E q \in Query : input' = Append(input, q) /\ accepted' = accepted \cup {q}
  <2>1. PICK q \in Query : input' = Append(input, q) /\ accepted' = accepted \cup {q}
    BY <1>3
  <2>2. ASSUME NEW p \in accepted', p.kind # "error" PROVE Kept(p)'
    <3>1. p = q \/ (p \in accepted /\ Kept(p))
      BY <2>1, <2>2 DEF KeepInv
    <3>2. In(q, input')
      BY <1>1, <2>1, AppendKeeps
    <3>3. In(p, input) => In(p, input')
      BY <1>1, <2>1, AppendKeeps
    <3> QED BY <1>1, <3>1, <3>2, <3>3 DEF Kept, In
  <2> QED BY <1>1, <2>2 DEF KeepInv, In
<1> QED BY <1>2, <1>3 DEF Push

(* A query leaves the input queue only with an answer in the other.         *)
LEMMA KeepProcessNext == Inv /\ KeepInv /\ ProcessNext => KeepInv'
<1> SUFFICES ASSUME Inv, KeepInv, ProcessNext PROVE KeepInv'
  OBVIOUS
<1> DEFINE q == input[at]
<1>1. at \in DOMAIN input /\ q \in Query /\ input \in Seq(Query) /\ output \in Seq(OutputMessage)
  BY DEF ProcessNext, Inv, TypeOK
<1>2. /\ UNCHANGED <<delivered, accepted>> /\ worker' # "logSent"
      /\ \/ UNCHANGED input
         \/ /\ input' = RemoveAt(input, at) /\ worker' # "log"
            /\ q.kind = "error" \/ output' = Append(output, AnswerTo(q))
      /\ UNCHANGED output \/ output' = Append(output, AnswerTo(q))
      /\ worker' = "log" =>
           /\ UNCHANGED <<input, at>>
           /\ q.kind = "error" \/ output' = Append(output, AnswerTo(q))
  BY DEF ProcessNext, ProcessQuery, Answer, AnswerTo, Erase, requestVars
<1>3. AnswerTo(q) \in OutputMessage
  BY <1>1, AnswerType DEF AnswerTo
<1>4. ASSUME NEW m, In(m, output) PROVE In(m, output')
  BY <1>1, <1>2, <1>3, <1>4, AppendKeeps
<1>5. output' = Append(output, AnswerTo(q)) => In(AnswerTo(q), output')
  BY <1>1, <1>3, AppendKeeps
<1> HIDE DEF q
<1>6. ASSUME NEW p \in accepted', p.kind # "error" PROVE Kept(p)'
  <2>1. Kept(p)
    BY <1>2, <1>6 DEF KeepInv
  <2>2. In(p, input) => In(p, input') \/ In(AnswerTo(p), output')
    <3>1. CASE UNCHANGED input
      BY <3>1
    <3>2. CASE input' = RemoveAt(input, at) /\ p # q
      BY <1>1, <3>2, RemoveAtKeeps DEF q
    <3>3. CASE input' = RemoveAt(input, at) /\ p = q
      <4>1. UNCHANGED input \/ output' = Append(output, AnswerTo(q))
        BY <1>2, <1>6, <3>3
      <4> QED BY <1>5, <3>3, <4>1
    <3> QED BY <1>2, <3>1, <3>2, <3>3
  <2>3. In(AnswerTo(p), output) => In(AnswerTo(p), output')
    BY <1>4
  <2> QED BY <1>2, <2>1, <2>2, <2>3 DEF Kept, In, AnswerTo
<1>7. worker' = "log" /\ (input[at].kind)' # "error" => In(AnswerTo(input[at])', output')
  BY <1>2, <1>5 DEF q, AnswerTo
<1> QED BY <1>2, <1>6, <1>7 DEF KeepInv, In

(* The answer of a query that makes no sense is there before it is erased.  *)
LEMMA KeepLogUnknown == Inv /\ KeepInv /\ LogUnknown => KeepInv'
<1> SUFFICES ASSUME Inv, KeepInv, LogUnknown PROVE KeepInv'
  OBVIOUS
<1>1. /\ UNCHANGED <<output, delivered, accepted>> /\ worker' \notin {"log", "logSent"}
      /\ UNCHANGED input \/ input' = RemoveAt(input, at)
      /\ at \in DOMAIN input /\ input \in Seq(Query)
  BY DEF LogUnknown, Erase, Inv, TypeOK, ConnectionInv, requestVars
<1>2. input[at].kind # "error" => In(AnswerTo(input[at]), output)
  BY DEF LogUnknown, KeepInv
<1>3. ASSUME NEW p \in accepted', p.kind # "error" PROVE Kept(p)'
  <2>1. Kept(p)
    BY <1>1, <1>3 DEF KeepInv
  <2>2. In(p, input) /\ p # input[at] => In(p, input')
    BY <1>1, RemoveAtKeeps
  <2> QED BY <1>1, <1>2, <1>3, <2>1, <2>2 DEF Kept, In, AnswerTo
<1> QED BY <1>1, <1>3 DEF KeepInv

(* A report is put behind the answers.                                      *)
LEMMA KeepReport == Inv /\ KeepInv /\ CreateStatReport => KeepInv'
<1> SUFFICES ASSUME Inv, KeepInv, CreateStatReport PROVE KeepInv'
  OBVIOUS
<1> DEFINE m == [type |-> "report", n |-> reports']
<1>1. /\ UNCHANGED <<input, delivered, accepted>> /\ worker' = "send"
      /\ output' = Append(output, m) /\ output \in Seq(OutputMessage)
      /\ reports' \in 1..MaxReports
  BY DEF CreateStatReport, Inv, TypeOK, requestVars
<1>2. m \in OutputMessage
  BY <1>1 DEF OutputMessage
<1> HIDE DEF m
<1>3. \A p : In(p, output) => In(p, output')
  BY <1>1, <1>2, AppendKeeps
<1>4. ASSUME NEW p \in accepted', p.kind # "error" PROVE Kept(p)'
  <2>1. Kept(p)
    BY <1>1, <1>4 DEF KeepInv
  <2> QED BY <1>1, <1>3, <2>1 DEF Kept, In, AnswerTo
<1> QED BY <1>1, <1>4 DEF KeepInv

(* A message that is sent stays until it is logged.                         *)
LEMMA KeepSendOutput == Inv /\ KeepInv /\ SendOutput => KeepInv'
<1> SUFFICES ASSUME Inv, KeepInv, SendOutput PROVE KeepInv'
  OBVIOUS
<1>1. /\ UNCHANGED <<input, output, accepted, at>> /\ worker' # "log"
      /\ \/ UNCHANGED delivered /\ worker' # "logSent"
         \/ delivered' = Append(delivered, Head(output))
  BY DEF SendOutput, queues, requestVars
<1>2. delivered \in Seq(OutputMessage) /\ Head(output) \in OutputMessage
  BY TailFacts DEF SendOutput, Inv, TypeOK
<1>3. \A p : In(p, delivered) => In(p, delivered')
  BY <1>1, <1>2, AppendKeeps
<1>4. worker' = "logSent" => In(Head(output), delivered')
  BY <1>1, <1>2, AppendKeeps
<1>5. ASSUME NEW p \in accepted', p.kind # "error" PROVE Kept(p)'
  <2>1. Kept(p)
    BY <1>1, <1>5 DEF KeepInv
  <2> QED BY <1>1, <1>3, <2>1 DEF Kept, In, AnswerTo
<1> QED BY <1>1, <1>4, <1>5 DEF KeepInv

(* Only a message that was sent leaves the output queue.                    *)
LEMMA KeepLogSent == Inv /\ KeepInv /\ LogSent => KeepInv'
<1> SUFFICES ASSUME Inv, KeepInv, LogSent PROVE KeepInv'
  OBVIOUS
<1>1. /\ UNCHANGED <<input, delivered, accepted>> /\ worker' \notin {"log", "logSent"}
      /\ UNCHANGED output \/ output' = Tail(output)
      /\ output \in Seq(OutputMessage) /\ output # <<>>
  BY DEF LogSent, Inv, TypeOK, ConnectionInv, requestVars
<1>2. In(Head(output), delivered)
  BY DEF LogSent, KeepInv
<1>3. ASSUME NEW p \in accepted', p.kind # "error" PROVE Kept(p)'
  <2>1. Kept(p)
    BY <1>1, <1>3 DEF KeepInv
  <2>2. In(AnswerTo(p), output) /\ AnswerTo(p) # Head(output) => In(AnswerTo(p), output')
    BY <1>1, TailKeeps
  <2> QED BY <1>1, <1>2, <2>1, <2>2 DEF Kept, In, AnswerTo
<1> QED BY <1>1, <1>3 DEF KeepInv

(* No step forgets a query.                                                 *)
LEMMA KeepNext == Inv /\ KeepInv /\ [Next]_vars => KeepInv'
<1> SUFFICES ASSUME Inv, KeepInv, [Next]_vars PROVE KeepInv'
  OBVIOUS
<1>1. CASE Push \/ ProcessNext \/ LogUnknown \/ CreateStatReport \/ SendOutput \/ LogSent
  BY <1>1, KeepPush, KeepProcessNext, KeepLogUnknown, KeepReport, KeepSendOutput, KeepLogSent
<1>2. CASE Request \/ GetState \/ Reconnect \/ ForceReport \/ BoxOffice \/ Database \/ UNCHANGED vars
  BY <1>2, KeepRest
  DEF Request, GetState, Start, Reconnect, ForceReport, BoxOffice, Database, vars, queues,
      requestVars
<1>3. CASE Starts \/ Connect \/ Pop \/ Unlock \/ WaitTimeout \/ WaitOn \/ EndTurn
  BY <1>3, KeepRest
  DEF Starts, Connect, Turn, ConnectCOM, Pop, Unlock, WaitTimeout, WaitOn, EndTurn, queues,
      requestVars, Inv, TypeOK
<1> QED BY <1>1, <1>2, <1>3 DEF Next, RequestNext, WorkerNext

(* Every query that Request accepted is in one of the queues until its      *)
(* answer has reached the box office.                                       *)
THEOREM AcceptedIsKept == Spec => []NothingForgotten
<1>1. Init => KeepInv
  BY DEF Init, KeepInv
<1>2. KeepInv => NothingForgotten
  BY DEF KeepInv, Kept, NothingForgotten, Answered, AnswerTo, In
<1> QED BY <1>1, <1>2, KeepNext, ExchangeInvariant, PTL DEF Spec
-----------------------------------------------------------------------------
Before(n) == IF main = "idle" THEN n <= sent ELSE n < sent

Increasing(s) == \A i, j \in DOMAIN s : i < j => s[i].n < s[j].n

(* The input queue is in the order of the numbers, behind all that was      *)
(* executed and before all that is to come; and the thread executes only    *)
(* what is at the head of it.                                               *)
OrderInv ==
  /\ ExecutedInOrder
  /\ Increasing(input)
  /\ \A i \in DOMAIN executed, j \in DOMAIN input : executed[i] < input[j].n
  /\ \A j \in DOMAIN input : Before(input[j].n)
  /\ \A i \in DOMAIN executed : Before(executed[i])
  /\ state = "receive" /\ worker \in {"pop", "log"} => at = 1

(* The numbers of queries are numbers.                                      *)
LEMMA NumberTypes ==
  ASSUME Inv
  PROVE  /\ input \in Seq(Query) /\ Len(input) \in Nat /\ executed \in Seq(1..MaxQueries)
         /\ sent \in Nat
         /\ \A j \in DOMAIN input : input[j].n \in 1..MaxQueries /\ input[j].n \in Nat
         /\ \A i \in DOMAIN executed : executed[i] \in Nat
<1>1. input \in Seq(Query) /\ executed \in Seq(1..MaxQueries) /\ sent \in 0..MaxQueries
  BY DEF Inv, TypeOK
<1>2. ASSUME NEW j \in DOMAIN input PROVE input[j].n \in 1..MaxQueries
  <2>1. input[j] \in Query
    BY <1>1
  <2> QED BY <2>1 DEF Query
<1>3. \A i \in DOMAIN executed : executed[i] \in 1..MaxQueries
  BY <1>1
<1> QED BY <1>1, <1>2, <1>3

(* The steps that touch neither the input queue nor what was executed.      *)
LEMMA OrderRest ==
  ASSUME Inv, OrderInv, UNCHANGED <<input, executed>>,
         UNCHANGED <<main, sent>> \/ (main = "idle" /\ sent' = sent + 1)
           \/ (sent' = sent /\ main' # "idle" /\ main # "idle"),
         \/ worker' \notin {"pop", "log"} \/ at' = 1
         \/ UNCHANGED <<state, at>> /\ worker \in {"pop", "log"}
  PROVE  OrderInv'
<1>1. /\ input \in Seq(Query) /\ executed \in Seq(1..MaxQueries) /\ sent \in Nat
      /\ \A j \in DOMAIN input : input[j].n \in Nat
      /\ \A i \in DOMAIN executed : executed[i] \in Nat
  BY NumberTypes
<1>2. ASSUME NEW n \in Nat, Before(n) PROVE Before(n)'
  BY <1>1, <1>2 DEF Before
<1> QED BY <1>1, <1>2 DEF OrderInv, ExecutedInOrder, Increasing, Before

(* Taking a query out of the input queue without executing it.              *)
LEMMA OrderErase ==
  ASSUME Inv, OrderInv, at \in DOMAIN input, input' = RemoveAt(input, at),
         UNCHANGED <<executed, main, sent, at>>,
         worker' \notin {"pop", "log"}
           \/ (UNCHANGED state /\ worker \in {"pop", "log"})
  PROVE  OrderInv'
<1>1. /\ input \in Seq(Query) /\ Len(input) \in Nat
      /\ \A j \in DOMAIN input : input[j].n \in Nat
  BY NumberTypes
<1> DEFINE k(j) == IF j < at THEN j ELSE j + 1
<1>2. /\ input' \in Seq(Query) /\ Len(input') = Len(input) - 1
      /\ \A j \in DOMAIN input' : input'[j] = input[k(j)]
  BY <1>1, RemoveAtFacts
<1>3. /\ \A j \in DOMAIN input' : k(j) \in DOMAIN input
      /\ \A i, j \in DOMAIN input' : i < j => k(i) < k(j)
  BY <1>1, <1>2
<1> HIDE DEF k
<1>4. Increasing(input')
  BY <1>2, <1>3 DEF OrderInv, Increasing
<1>5. (\A j \in DOMAIN input : Before(input[j].n))'
  BY <1>2, <1>3 DEF OrderInv, Before
<1>6. \A i \in DOMAIN executed', j \in DOMAIN input' : executed'[i] < input'[j].n
  BY <1>2, <1>3 DEF OrderInv
<1>7. ExecutedInOrder' /\ (\A i \in DOMAIN executed : Before(executed[i]))'
  BY DEF OrderInv, ExecutedInOrder, Before
<1>8. state' = "receive" /\ worker' \in {"pop", "log"} => at' = 1
  BY DEF OrderInv
<1> QED BY <1>4, <1>5, <1>6, <1>7, <1>8 DEF OrderInv, Increasing

(* Push: the new query has a number that is greater than any before.        *)
LEMMA OrderPush == Inv /\ OrderInv /\ Push => OrderInv'
<1> SUFFICES ASSUME Inv, OrderInv, Push PROVE OrderInv'
  OBVIOUS
<1>1. /\ input \in Seq(Query) /\ executed \in Seq(1..MaxQueries) /\ sent \in Nat
      /\ \A j \in DOMAIN input : input[j].n \in Nat
      /\ \A i \in DOMAIN executed : executed[i] \in Nat
  BY NumberTypes
<1>2. /\ main = "push" /\ main' = "idle" /\ UNCHANGED <<sent, executed, worker, state, at>>
      /\ worker \notin {"pop", "log"}
  BY DEF Push, Inv, TypeOK, locks
<1>3. /\ \A j \in DOMAIN input : input[j].n < sent
      /\ \A i \in DOMAIN executed : executed[i] < sent
  BY <1>2 DEF OrderInv, Before
<1>4. /\ ExecutedInOrder' /\ (\A i \in DOMAIN executed : Before(executed[i]))'
      /\ state' = "receive" /\ worker' \in {"pop", "log"} => at' = 1
  BY <1>1, <1>2, <1>3 DEF OrderInv, ExecutedInOrder, Before
<1>5. CASE UNCHANGED input
  BY <1>1, <1>2, <1>3, <1>4, <1>5 DEF OrderInv, Increasing, Before
<1>6. CASE \E q \in Query : q.n = sent /\ input' = Append(input, q)
  <2>1. PICK q \in Query : q.n = sent /\ input' = Append(input, q)
    BY <1>6
  <2>2. \A j \in DOMAIN input' :
          \/ j \in DOMAIN input /\ input'[j] = input[j]
          \/ j = Len(input) + 1 /\ input'[j] = q
    <3>1. input' \in Seq(Query) /\ Len(input') = Len(input) + 1 /\ input'[Len(input) + 1] = q
      BY <1>1, <2>1
    <3>2. \A j \in DOMAIN input : input'[j] = input[j]
      BY <1>1, <2>1
    <3>3. DOMAIN input' = 1..(Len(input) + 1) /\ DOMAIN input = 1..Len(input)
      BY <1>1, <3>1
    <3>4. ASSUME NEW j \in DOMAIN input', j \notin DOMAIN input PROVE j = Len(input) + 1
      BY <1>1, <3>3, <3>4
    <3> QED BY <3>1, <3>2, <3>4
  <2>3. Increasing(input')
    BY <1>1, <1>3, <2>1, <2>2 DEF OrderInv, Increasing
  <2>4. \A i \in DOMAIN executed', j \in DOMAIN input' : executed'[i] < input'[j].n
    BY <1>1, <1>2, <1>3, <2>1, <2>2 DEF OrderInv
  <2>5. (\A j \in DOMAIN input : Before(input[j].n))'
    BY <1>1, <1>2, <1>3, <2>1, <2>2 DEF Before
  <2> QED BY <1>4, <2>3, <2>4, <2>5 DEF OrderInv, Increasing
<1> QED BY <1>5, <1>6 DEF Push

(* A timetable is executed: it is the first of the queue.                   *)
LEMMA OrderExecute ==
  ASSUME Inv, OrderInv, at \in DOMAIN input, at = 1, input' = RemoveAt(input, at),
         executed' = Append(executed, input[at].n),
         UNCHANGED <<main, sent, at, state, worker>>
  PROVE  OrderInv'
<1>1. /\ input \in Seq(Query) /\ Len(input) \in Nat /\ executed \in Seq(1..MaxQueries)
      /\ \A j \in DOMAIN input : input[j].n \in 1..MaxQueries
      /\ \A i \in DOMAIN executed : executed[i] \in Nat
  BY NumberTypes
<1>2. /\ input' \in Seq(Query) /\ Len(input') = Len(input) - 1
      /\ \A j \in DOMAIN input' : input'[j] = input[j + 1]
  <2>1. /\ input' \in Seq(Query) /\ Len(input') = Len(input) - 1
        /\ \A j \in DOMAIN input' : input'[j] = IF j < at THEN input[j] ELSE input[j + 1]
    BY <1>1, RemoveAtFacts
  <2>2. \A j \in DOMAIN input' : ~(j < at)
    BY <2>1
  <2> QED BY <2>1, <2>2
<1>3. \A j \in DOMAIN input' : j + 1 \in DOMAIN input /\ 1 < j + 1
  BY <1>1, <1>2
<1>4. \A i \in DOMAIN executed' :
        \/ i \in DOMAIN executed /\ executed'[i] = executed[i]
        \/ i = Len(executed) + 1 /\ executed'[i] = input[1].n
  <2>1. input[1].n \in 1..MaxQueries
    BY <1>1
  <2>2. executed' \in Seq(1..MaxQueries) /\ Len(executed') = Len(executed) + 1
    BY <1>1, <2>1
  <2>3. \A i \in DOMAIN executed : executed'[i] = executed[i]
    BY <1>1, <2>1
  <2>4. executed'[Len(executed) + 1] = input[1].n
    BY <1>1, <2>1
  <2>5. /\ DOMAIN executed' = 1..(Len(executed) + 1) /\ DOMAIN executed = 1..Len(executed)
        /\ Len(executed) \in Nat
    BY <1>1, <2>2
  <2>6. ASSUME NEW i \in DOMAIN executed', i \notin DOMAIN executed
        PROVE  i = Len(executed) + 1
    BY <2>5, <2>6
  <2> QED BY <2>3, <2>4, <2>6
<1>5. Increasing(input')
  <2>1. ASSUME NEW i \in DOMAIN input', NEW j \in DOMAIN input', i < j
        PROVE  input'[i].n < input'[j].n
    <3>1. /\ i + 1 \in DOMAIN input /\ j + 1 \in DOMAIN input /\ i + 1 < j + 1
          /\ input'[i] = input[i + 1] /\ input'[j] = input[j + 1]
      BY <1>1, <1>2, <1>3, <2>1
    <3> QED BY <3>1 DEF OrderInv, Increasing
  <2> QED BY <2>1 DEF Increasing
<1>6. (\A j \in DOMAIN input : Before(input[j].n))'
  BY <1>2, <1>3 DEF OrderInv, Before
<1>7. (\A i \in DOMAIN executed : Before(executed[i]))'
  BY <1>4 DEF OrderInv, Before
<1>8. \A i \in DOMAIN executed', j \in DOMAIN input' : executed'[i] < input'[j].n
  BY <1>2, <1>3, <1>4 DEF OrderInv, Increasing
<1>9. \A i, j \in DOMAIN executed' : i < j => executed'[i] < executed'[j]
  BY <1>1, <1>4 DEF OrderInv, ExecutedInOrder
<1> QED BY <1>5, <1>6, <1>7, <1>8, <1>9 DEF OrderInv, Increasing, ExecutedInOrder

(* No step breaks the order.                                                *)
LEMMA OrderNext == Inv /\ OrderInv /\ [Next]_vars => OrderInv'
<1> SUFFICES ASSUME Inv, OrderInv, [Next]_vars PROVE OrderInv'
  OBVIOUS
<1>1. CASE ProcessNext
  <2>1. at \in DOMAIN input /\ worker = "pop" /\ UNCHANGED <<main, sent>>
    BY <1>1 DEF ProcessNext, requestVars, Inv, TypeOK
  <2>2. \/ UNCHANGED <<input, executed, at, state>>
        \/ /\ UNCHANGED <<input, executed, state>> /\ state = "wait"
        \/ /\ input' = RemoveAt(input, at) /\ UNCHANGED <<executed, at>>
           /\ UNCHANGED state \/ worker' = "unlock"
        \/ /\ input' = RemoveAt(input, at) /\ executed' = Append(executed, input[at].n)
           /\ state = "receive" /\ UNCHANGED <<at, state, worker>>
    BY <1>1 DEF ProcessNext, ProcessQuery, Erase
  <2>3. CASE UNCHANGED <<input, executed, at, state>>
    BY <2>1, <2>3, OrderRest
  <2>4. CASE UNCHANGED <<input, executed, state>> /\ state = "wait"
    BY <2>1, <2>4 DEF OrderInv, ExecutedInOrder, Increasing, Before
  <2>5. CASE /\ input' = RemoveAt(input, at) /\ UNCHANGED <<executed, at>>
             /\ UNCHANGED state \/ worker' = "unlock"
    BY <2>1, <2>5, OrderErase
  <2>6. CASE /\ input' = RemoveAt(input, at) /\ executed' = Append(executed, input[at].n)
             /\ state = "receive" /\ UNCHANGED <<at, state, worker>>
    <3>1. at = 1
      BY <2>1, <2>6 DEF OrderInv
    <3> QED BY <2>1, <2>6, <3>1, OrderExecute
  <2> QED BY <2>2, <2>3, <2>4, <2>5, <2>6
<1>2. CASE LogUnknown
  <2>1. /\ at \in DOMAIN input /\ worker = "log"
        /\ UNCHANGED <<main, sent, executed, at, state>> /\ worker' # "log"
        /\ input' = RemoveAt(input, at) \/ (UNCHANGED input /\ worker' # "pop")
    BY <1>2 DEF LogUnknown, Erase, requestVars, Inv, TypeOK, ConnectionInv
  <2> QED BY <2>1, OrderErase, OrderRest
<1>3. CASE Push
  BY <1>3, OrderPush
<1>4. CASE Request \/ GetState
  BY <1>4, OrderRest DEF Request, GetState, Start, queues, Inv, TypeOK
<1>5. CASE Reconnect \/ ForceReport \/ BoxOffice \/ Database \/ UNCHANGED vars
  <2>1. UNCHANGED <<input, executed, main, sent, at, worker>>
    BY <1>5 DEF Reconnect, ForceReport, BoxOffice, Database, vars, queues, requestVars
  <2>2. worker \in {"pop", "log"} => UNCHANGED state
    BY <1>5 DEF Reconnect, ForceReport, BoxOffice, Database, vars, Inv, TypeOK
  <2> QED BY <2>1, <2>2, OrderRest
<1>6. CASE Starts \/ Connect \/ Pop \/ Unlock \/ WaitTimeout \/ WaitOn \/ EndTurn
  <2>1. UNCHANGED <<input, executed, main, sent>>
    BY <1>6
    DEF Starts, Connect, Pop, Unlock, WaitTimeout, WaitOn, EndTurn, queues, requestVars
  <2>2. worker' \notin {"pop", "log"} \/ at' = 1
    BY <1>6 DEF Starts, Connect, Turn, Pop, Unlock, WaitTimeout, WaitOn, EndTurn
  <2> QED BY <2>1, <2>2, OrderRest
<1>7. CASE CreateStatReport \/ SendOutput \/ LogSent
  <2>1. UNCHANGED <<input, executed, main, sent>> /\ worker' \notin {"pop", "log"}
    BY <1>7 DEF CreateStatReport, SendOutput, LogSent, queues, requestVars
  <2> QED BY <2>1, OrderRest
<1> QED BY <1>1, <1>2, <1>3, <1>4, <1>5, <1>6, <1>7 DEF Next, RequestNext, WorkerNext

(* Timetables are executed in the order in which they came, each once.      *)
THEOREM TimetablesInOrder == Spec => []ExecutedInOrder
<1>1. Init => OrderInv
  BY DEF Init, OrderInv, ExecutedInOrder, Increasing, Before
<1>2. OrderInv => ExecutedInOrder
  BY DEF OrderInv
<1> QED BY <1>1, <1>2, OrderNext, ExchangeInvariant, PTL DEF Spec
-----------------------------------------------------------------------------
(* Delivered once: a message is in the output queue once, only the head of  *)
(* the queue can have been sent already, and a call that brought it and     *)
(* failed has been counted (Sums); that a query is not answered twice       *)
(* follows from the order of the input queue (OrderInv).                    *)

(* The answer to query n, and report n.                                     *)
AnswerOf(n) == [type |-> "answer", n |-> n]

ReportOf(n) == [type |-> "report", n |-> n]

(* The message was put into the output queue at some time.                  *)
Made(m) == In(m, output) \/ In(m, delivered)

(* A message at the head of the output queue that was delivered by a call   *)
(* that failed will be delivered again.                                     *)
Owed ==
  IF /\ output # <<>> /\ In(output[1], delivered)
     /\ worker # "logSent" /\ changeCS # "dead"
    THEN 1 ELSE 0

(* The output queue has each message once, and all but its head are still   *)
(* to be sent.                                                              *)
Outgoing ==
  /\ \A i, j \in DOMAIN output : i # j => output[i] # output[j]
  /\ \A j \in DOMAIN output : j > 1 => ~ In(output[j], delivered)

(* What was made is of a query that was pushed, or of a report; and the     *)
(* queries in the input queue have no answer yet, but the one that is just  *)
(* being logged.                                                            *)
Fresh ==
  /\ \A n \in Nat : Made(AnswerOf(n)) => Before(n)
  /\ \A n \in Nat : Made(ReportOf(n)) => n <= reports
  /\ changeCS # "dead" =>
       \A i \in DOMAIN input : Made(AnswerOf(input[i].n)) => worker = "log" /\ i = at

Sums ==
  /\ IsFiniteSet(Range(delivered))
  /\ Len(delivered) + Owed <= Cardinality(Range(delivered)) + halfSent

OnceInv == Outgoing /\ Fresh /\ Sums

(* The queues are sequences and the counters numbers.                       *)
LEMMA OnceTypes ==
  ASSUME Inv
  PROVE  /\ output \in Seq(OutputMessage) /\ Len(output) \in Nat
         /\ delivered \in Seq(OutputMessage) /\ Len(delivered) \in Nat
         /\ DOMAIN output = 1..Len(output)
         /\ reports \in Nat /\ halfSent \in Nat /\ sent \in Nat
BY DEF Inv, TypeOK

(* A number that has been used stays used.                                  *)
LEMMA BeforeGrows ==
  ASSUME Inv, NEW n \in Nat, Before(n),
         \/ UNCHANGED <<main, sent>> \/ (main = "idle" /\ sent' = sent + 1)
         \/ sent' = sent /\ main # "idle"
  PROVE  Before(n)'
BY OnceTypes DEF Before

(* The steps that touch none of the queues.                                 *)
LEMMA OnceRest ==
  ASSUME Inv, OnceInv, UNCHANGED <<input, output, delivered, halfSent, reports>>,
         \/ UNCHANGED <<main, sent>> \/ (main = "idle" /\ sent' = sent + 1)
         \/ sent' = sent /\ main # "idle",
         worker = "log" => UNCHANGED <<worker, at>>,
         worker = "logSent" <=> worker' = "logSent",
         changeCS = "dead" <=> changeCS' = "dead"
  PROVE  OnceInv'
<1>1. Outgoing'
  BY DEF OnceInv, Outgoing, In
<1>2. \A m : Made(m)' <=> Made(m)
  BY DEF Made, In
<1>3. Fresh'
  BY <1>2, BeforeGrows DEF OnceInv, Fresh
<1>4. Sums'
  BY DEF OnceInv, Sums, Owed, In
<1> QED BY <1>1, <1>3, <1>4 DEF OnceInv

(* A message that was not there before is put into the output queue.        *)
LEMMA Adds ==
  ASSUME Inv, OnceInv, NEW m \in OutputMessage, ~ Made(m), output' = Append(output, m),
         UNCHANGED <<delivered, halfSent>>, worker # "logSent", changeCS # "dead"
  PROVE  Outgoing' /\ Sums' /\ \A x : Made(x)' => x = m \/ Made(x)
<1>1. \A i \in DOMAIN output' :
        \/ i \in DOMAIN output /\ output'[i] = output[i]
        \/ i = Len(output) + 1 /\ output'[i] = m
  BY OnceTypes, AppendFacts
<1>2. \A i \in DOMAIN output : output[i] # m
  BY DEF Made, In
<1>3. Outgoing'
  BY <1>1, <1>2 DEF OnceInv, Outgoing, Made, In
<1>4. In(output'[1], delivered) => output # <<>> /\ In(output[1], delivered)
  <2>1. 1 \in DOMAIN output'
    BY OnceTypes
  <2>2. CASE 1 \in DOMAIN output
    BY <1>1, <2>2, OnceTypes
  <2>3. CASE 1 \notin DOMAIN output
    BY <1>1, <2>1, <2>3 DEF Made
  <2> QED BY <2>2, <2>3
<1>5. Owed' <= Owed /\ Owed \in 0..1 /\ Owed' \in 0..1
  BY <1>4 DEF Owed, In
<1>6. IsFiniteSet(Range(delivered)) /\ Cardinality(Range(delivered)) \in Nat
  BY FS_CardinalityType DEF OnceInv, Sums
<1>7. Sums'
  <2>1. Len(delivered) + Owed' <= Cardinality(Range(delivered)) + halfSent
    BY <1>5, <1>6, OnceTypes DEF OnceInv, Sums
  <2> QED BY <1>6, <2>1 DEF Sums
<1> QED BY <1>1, <1>3, <1>7 DEF Made, In

(* What is left was there, at another place than what was removed.          *)
LEMMA RemoveAtOthers ==
  ASSUME NEW S, NEW s \in Seq(S), NEW i \in DOMAIN s, NEW j \in DOMAIN RemoveAt(s, i)
  PROVE  \E k \in DOMAIN s : k # i /\ RemoveAt(s, i)[j] = s[k]
<1>1. /\ RemoveAt(s, i) \in Seq(S) /\ Len(RemoveAt(s, i)) = Len(s) - 1
      /\ RemoveAt(s, i)[j] = IF j < i THEN s[j] ELSE s[j + 1]
  BY RemoveAtFacts
<1>2. j \in 1..(Len(s) - 1) /\ i \in 1..Len(s) /\ Len(s) \in Nat
  BY <1>1
<1>3. CASE j < i
  <2>1. j \in DOMAIN s /\ j # i /\ RemoveAt(s, i)[j] = s[j]
    BY <1>1, <1>2, <1>3
  <2> QED BY <2>1
<1>4. CASE ~(j < i)
  <2>1. j + 1 \in DOMAIN s /\ j + 1 # i /\ RemoveAt(s, i)[j] = s[j + 1]
    BY <1>1, <1>2, <1>4
  <2> QED BY <2>1
<1> QED BY <1>3, <1>4

(* The answer to a query is made while the thread handles it, and not for   *)
(* the second time: of the queries in the queue only one that is being      *)
(* logged has an answer.                                                    *)
LEMMA OnceAnswers ==
  ASSUME Inv, OrderInv, OnceInv, worker = "pop", at \in DOMAIN input,
         output' = Append(output, AnswerOf(input[at].n)),
         UNCHANGED <<delivered, halfSent, reports, main, sent, at>>,
         \/ UNCHANGED input /\ worker' = "log"
         \/ input' = RemoveAt(input, at) /\ worker' = "pop"
  PROVE  OnceInv'
<1> DEFINE a == input[at].n
<1>1. /\ input \in Seq(Query) /\ Len(input) \in Nat
      /\ \A j \in DOMAIN input : input[j].n \in 1..MaxQueries /\ input[j].n \in Nat
  BY NumberTypes
<1>2. a \in Nat /\ a \in 1..MaxQueries
  BY <1>1
<1>3. AnswerOf(a) \in OutputMessage
  BY <1>2 DEF AnswerOf, OutputMessage
<1>4. changeCS = "worker"
  BY DEF Inv, TypeOK
<1>5. ~ Made(AnswerOf(a))
  BY <1>4 DEF OnceInv, Fresh
<1>6. output' = Append(output, AnswerOf(a))
  OBVIOUS
<1>7. Before(a)
  BY DEF OrderInv
<1>8. \A i \in DOMAIN input : i # at => input[i].n # a
  BY <1>1 DEF OrderInv, Increasing
<1>9. \A n \in Nat : AnswerOf(n) = AnswerOf(a) => n = a
  BY <1>2 DEF AnswerOf
<1>10. \A n \in Nat : ReportOf(n) # AnswerOf(a)
  BY DEF AnswerOf, ReportOf
<1> HIDE DEF a
<1>11. Outgoing' /\ Sums' /\ \A x : Made(x)' => x = AnswerOf(a) \/ Made(x)
  BY <1>3, <1>4, <1>5, <1>6, Adds
<1>12. \A n \in Nat : Made(AnswerOf(n))' => n = a \/ Made(AnswerOf(n))
  BY <1>9, <1>11
<1>13. \A n \in Nat : Made(AnswerOf(n))' => Before(n)'
  <2> SUFFICES ASSUME NEW n \in Nat, Made(AnswerOf(n))' PROVE Before(n)'
    OBVIOUS
  <2>1. Before(n)
    BY <1>7, <1>12 DEF OnceInv, Fresh
  <2> QED BY <2>1 DEF Before
<1>14. \A n \in Nat : Made(ReportOf(n))' => n <= reports'
  BY <1>10, <1>11 DEF OnceInv, Fresh
<1>15. ASSUME NEW i \in DOMAIN input', Made(AnswerOf(input[i].n))'
       PROVE  worker' = "log" /\ i = at'
  <2>1. CASE UNCHANGED input /\ worker' = "log"
    <3>1. i \in DOMAIN input /\ input'[i].n = input[i].n /\ input[i].n \in Nat
      BY <1>1, <2>1
    <3>2. input[i].n = a \/ Made(AnswerOf(input[i].n))
      BY <1>12, <1>15, <3>1
    <3>3. ~ Made(AnswerOf(input[i].n))
      BY <1>4, <3>1 DEF OnceInv, Fresh
    <3> QED BY <1>8, <2>1, <3>1, <3>2, <3>3
  <2>2. CASE input' = RemoveAt(input, at) /\ worker' = "pop"
    <3>1. \E k \in DOMAIN input : k # at /\ RemoveAt(input, at)[i] = input[k]
      BY <1>1, <2>2, RemoveAtOthers
    <3>2. PICK k \in DOMAIN input : k # at /\ input'[i] = input[k]
      BY <2>2, <3>1
    <3>3. input[k].n \in Nat /\ input[k].n # a
      BY <1>1, <1>8, <3>2
    <3>4. Made(AnswerOf(input[k].n))
      BY <1>12, <1>15, <3>2, <3>3
    <3> QED BY <1>4, <3>2, <3>4 DEF OnceInv, Fresh
  <2> QED BY <2>1, <2>2
<1>16. Fresh'
  BY <1>13, <1>14, <1>15 DEF Fresh
<1> QED BY <1>11, <1>16 DEF OnceInv

(* A query leaves the input queue without an answer, or after it.           *)
LEMMA OnceErase ==
  ASSUME Inv, OrderInv, OnceInv, at \in DOMAIN input, input' = RemoveAt(input, at),
         UNCHANGED <<output, delivered, halfSent, reports, main, sent>>,
         worker \in {"pop", "log"}, worker' # "logSent", changeCS' # "dead"
  PROVE  OnceInv'
<1>1. input \in Seq(Query) /\ Len(input) \in Nat
  BY NumberTypes
<1>2. changeCS = "worker"
  BY DEF Inv, TypeOK
<1>3. \A m : Made(m)' <=> Made(m)
  BY DEF Made, In
<1>4. ASSUME NEW i \in DOMAIN input' PROVE ~ Made(AnswerOf(input[i].n))'
  <2>1. \E k \in DOMAIN input : k # at /\ RemoveAt(input, at)[i] = input[k]
    BY <1>1, RemoveAtOthers
  <2>2. PICK k \in DOMAIN input : k # at /\ input'[i] = input[k]
    BY <2>1
  <2>3. ~ Made(AnswerOf(input[k].n))
    BY <1>2, <2>2 DEF OnceInv, Fresh
  <2> QED BY <1>3, <2>2, <2>3
<1>5. \A n \in Nat : Before(n)' <=> Before(n)
  BY DEF Before
<1>6. Fresh'
  BY <1>3, <1>4, <1>5 DEF OnceInv, Fresh
<1>7. Outgoing'
  BY DEF OnceInv, Outgoing, In
<1>8. Sums'
  BY <1>2 DEF OnceInv, Sums, Owed, In
<1> QED BY <1>6, <1>7, <1>8 DEF OnceInv

(* The thread handles a query.                                              *)
LEMMA OnceProcessNext == Inv /\ OrderInv /\ OnceInv /\ ProcessNext => OnceInv'
<1> SUFFICES ASSUME Inv, OrderInv, OnceInv, ProcessNext PROVE OnceInv'
  OBVIOUS
<1>1. /\ at \in DOMAIN input /\ worker = "pop" /\ changeCS = "worker"
      /\ UNCHANGED <<main, sent, delivered, halfSent, reports, changeCS>>
  BY DEF ProcessNext, requestVars, locks, outside, Inv, TypeOK
<1>2. \/ /\ output' = Append(output, AnswerOf(input[at].n)) /\ UNCHANGED at
         /\ \/ UNCHANGED input /\ worker' = "log"
            \/ input' = RemoveAt(input, at) /\ worker' = "pop"
      \/ /\ input' = RemoveAt(input, at) /\ UNCHANGED output /\ worker' \in {"pop", "unlock"}
      \/ UNCHANGED <<input, output>> /\ worker' # "logSent"
  BY <1>1 DEF ProcessNext, ProcessQuery, Answer, AnswerOf, Erase
<1>3. CASE /\ output' = Append(output, AnswerOf(input[at].n)) /\ UNCHANGED at
           /\ \/ UNCHANGED input /\ worker' = "log"
              \/ input' = RemoveAt(input, at) /\ worker' = "pop"
  BY <1>1, <1>3, OnceAnswers
<1>4. CASE input' = RemoveAt(input, at) /\ UNCHANGED output /\ worker' \in {"pop", "unlock"}
  BY <1>1, <1>4, OnceErase
<1>5. CASE UNCHANGED <<input, output>> /\ worker' # "logSent"
  BY <1>1, <1>5, OnceRest
<1> QED BY <1>2, <1>3, <1>4, <1>5

(* The query that has its answer leaves the input queue, or the thread dies. *)
LEMMA OnceLogUnknown == Inv /\ OrderInv /\ OnceInv /\ LogUnknown => OnceInv'
<1> SUFFICES ASSUME Inv, OrderInv, OnceInv, LogUnknown PROVE OnceInv'
  OBVIOUS
<1>1. /\ at \in DOMAIN input /\ worker = "log" /\ changeCS = "worker"
      /\ UNCHANGED <<main, sent, output, delivered, halfSent, reports>>
  BY DEF LogUnknown, requestVars, outside, Inv, TypeOK, ConnectionInv
<1>2. CASE input' = RemoveAt(input, at) /\ worker' = "pop" /\ UNCHANGED changeCS
  BY <1>1, <1>2, OnceErase
<1>3. CASE UNCHANGED input /\ worker' = "dead" /\ changeCS' = "dead"
  <2>1. Outgoing'
    BY <1>1, <1>3 DEF OnceInv, Outgoing, In
  <2>2. Fresh'
    BY <1>1, <1>3 DEF OnceInv, Fresh, Made, In, Before
  <2>3. IsFiniteSet(Range(delivered)) /\ Cardinality(Range(delivered)) \in Nat
    BY FS_CardinalityType DEF OnceInv, Sums
  <2>4. Owed' = 0 /\ Owed \in 0..1
    BY <1>3 DEF Owed
  <2>5. Len(delivered) + Owed' <= Cardinality(Range(delivered)) + halfSent
    BY <2>3, <2>4, OnceTypes DEF OnceInv, Sums
  <2>6. Sums'
    BY <1>1, <2>3, <2>5 DEF Sums
  <2> QED BY <2>1, <2>2, <2>6 DEF OnceInv
<1> QED BY <1>2, <1>3 DEF LogUnknown, Erase, locks

(* A query that is pushed has a number greater than any before.             *)
LEMMA OncePush == Inv /\ OrderInv /\ OnceInv /\ Push => OnceInv'
<1> SUFFICES ASSUME Inv, OrderInv, OnceInv, Push PROVE OnceInv'
  OBVIOUS
<1>1. /\ main = "push" /\ main' = "idle" /\ worker \notin {"pop", "log"}
      /\ UNCHANGED <<sent, worker, at, output, delivered, halfSent, reports, changeCS>>
  BY DEF Push, locks, outside, Inv, TypeOK
<1>2. CASE UNCHANGED input
  BY <1>1, <1>2, OnceRest
<1>3. CASE \E q \in Query : q.n = sent /\ input' = Append(input, q)
  <2>1. PICK q \in Query : q.n = sent /\ input' = Append(input, q)
    BY <1>3
  <2>2. input \in Seq(Query)
    BY NumberTypes
  <2>3. \A i \in DOMAIN input' :
          (i \in DOMAIN input /\ input'[i] = input[i]) \/ input'[i] = q
    BY <2>1, <2>2, AppendFacts
  <2>4. \A m : Made(m)' <=> Made(m)
    BY <1>1 DEF Made, In
  <2>5. ~ Made(AnswerOf(q.n))
    BY <1>1, <2>1, OnceTypes DEF OnceInv, Fresh, Before
  <2>6. ASSUME NEW i \in DOMAIN input', changeCS # "dead" PROVE ~ Made(AnswerOf(input[i].n))'
    <3>1. CASE i \in DOMAIN input /\ input'[i] = input[i]
      <4>1. ~ Made(AnswerOf(input[i].n))
        BY <1>1, <2>6, <3>1 DEF OnceInv, Fresh
      <4> QED BY <2>4, <3>1, <4>1
    <3>2. CASE input'[i] = q
      BY <2>4, <2>5, <3>2
    <3> QED BY <2>3, <3>1, <3>2
  <2>7. \A n \in Nat : Before(n) => Before(n)'
    BY <1>1, BeforeGrows
  <2>8. Fresh'
    BY <1>1, <2>4, <2>6, <2>7 DEF OnceInv, Fresh
  <2>9. Outgoing'
    BY <1>1 DEF OnceInv, Outgoing, In
  <2>10. Sums'
    BY <1>1 DEF OnceInv, Sums, Owed, In
  <2> QED BY <2>8, <2>9, <2>10 DEF OnceInv
<1> QED BY <1>2, <1>3 DEF Push

(* Each report has a number of its own.                                     *)
LEMMA OnceReport == Inv /\ OnceInv /\ CreateStatReport => OnceInv'
<1> SUFFICES ASSUME Inv, OnceInv, CreateStatReport PROVE OnceInv'
  OBVIOUS
<1> DEFINE r == reports + 1
<1>1. /\ reports' = r /\ output' = Append(output, ReportOf(r)) /\ worker = "turn"
      /\ worker' = "send" /\ changeCS = "none"
      /\ UNCHANGED <<input, main, sent, delivered, halfSent>>
  BY DEF CreateStatReport, ReportOf, Turn, requestVars, outside
<1>2. r \in 1..MaxReports /\ reports \in Nat /\ reports < r
  <2>1. reports \in 0..MaxReports /\ reports < MaxReports
    BY DEF CreateStatReport, Inv, TypeOK
  <2> QED BY <2>1, ExchangeAssumption
<1> HIDE DEF r
<1>3. ReportOf(r) \in OutputMessage
  BY <1>2 DEF ReportOf, OutputMessage
<1>4. ~ Made(ReportOf(r))
  BY <1>2 DEF OnceInv, Fresh
<1>5. Outgoing' /\ Sums' /\ \A x : Made(x)' => x = ReportOf(r) \/ Made(x)
  BY <1>1, <1>3, <1>4, Adds
<1>6. \A n \in Nat : AnswerOf(n) # ReportOf(r) /\ (ReportOf(n) = ReportOf(r) => n = r)
  BY DEF AnswerOf, ReportOf
<1>7. \A n \in Nat : Made(AnswerOf(n))' => Made(AnswerOf(n))
  BY <1>5, <1>6
<1>8. \A n \in Nat : Made(ReportOf(n))' => n = r \/ n <= reports
  BY <1>5, <1>6 DEF OnceInv, Fresh
<1>9. \A n \in Nat : n = r \/ n <= reports => n <= reports'
  BY <1>1, <1>2
<1>10. \A n \in Nat : Before(n)' <=> Before(n)
  BY <1>1 DEF Before
<1>11. ASSUME NEW i \in DOMAIN input' PROVE ~ Made(AnswerOf(input[i].n))'
  <2>1. input[i].n \in Nat /\ i \in DOMAIN input
    BY <1>1, NumberTypes
  <2>2. ~ Made(AnswerOf(input[i].n))
    BY <1>1, <2>1 DEF OnceInv, Fresh
  <2> QED BY <1>1, <1>7, <2>1, <2>2
<1>12. \A n \in Nat : Made(AnswerOf(n))' => Before(n)'
  BY <1>7, <1>10 DEF OnceInv, Fresh
<1>13. \A n \in Nat : Made(ReportOf(n))' => n <= reports'
  BY <1>8, <1>9
<1>14. Fresh'
  BY <1>11, <1>12, <1>13 DEF Fresh
<1> QED BY <1>5, <1>14 DEF OnceInv

(* What a sequence has when something is put behind it.                     *)
LEMMA AppendRange ==
  ASSUME NEW S, NEW s \in Seq(S), NEW e \in S
  PROVE  Range(Append(s, e)) = Range(s) \cup {e}
<1>1. \A x : x \in Range(Append(s, e)) <=> \E i \in DOMAIN Append(s, e) : Append(s, e)[i] = x
  BY DEF Range
<1>2. \A x : x \in Range(s) <=> \E i \in DOMAIN s : s[i] = x
  BY DEF Range
<1>3. /\ \A i \in DOMAIN s : i \in DOMAIN Append(s, e) /\ Append(s, e)[i] = s[i]
      /\ Len(s) + 1 \in DOMAIN Append(s, e) /\ Append(s, e)[Len(s) + 1] = e
  OBVIOUS
<1>4. \A i \in DOMAIN Append(s, e) :
        Append(s, e)[i] = e \/ (i \in DOMAIN s /\ Append(s, e)[i] = s[i])
  BY AppendFacts
<1>5. \A x : x \in Range(Append(s, e)) <=> x \in Range(s) \/ x = e
  BY <1>1, <1>2, <1>3, <1>4
<1> QED BY <1>5

(* The box office gets the message at the head of the queue: for the second *)
(* time only if a call failed, and such a call may bring it once more.      *)
LEMMA OnceSendOutput == Inv /\ OnceInv /\ SendOutput => OnceInv'
<1> SUFFICES ASSUME Inv, OnceInv, SendOutput PROVE OnceInv'
  OBVIOUS
<1> DEFINE m == Head(output)
<1>1. /\ output # <<>> /\ worker = "send" /\ changeCS = "worker" /\ worker' # "log"
      /\ UNCHANGED <<input, output, main, sent, reports>>
  BY DEF SendOutput, queues, requestVars, Inv, TypeOK
<1>2. m \in OutputMessage /\ m = output[1] /\ In(m, output)
  BY <1>1, OnceTypes, TailFacts DEF In
<1>3. \/ UNCHANGED <<delivered, halfSent>> /\ worker' = "turn" /\ changeCS' = "none"
      \/ /\ delivered' = Append(delivered, m)
         /\ \/ worker' = "logSent" /\ UNCHANGED halfSent
            \/ worker' = "turn" /\ halfSent' = halfSent + 1
  BY DEF SendOutput
<1> HIDE DEF m
<1>4. CASE UNCHANGED <<delivered, halfSent>> /\ worker' = "turn" /\ changeCS' = "none"
  BY <1>1, <1>4, OnceRest
<1>5. CASE /\ delivered' = Append(delivered, m)
           /\ \/ worker' = "logSent" /\ UNCHANGED halfSent
              \/ worker' = "turn" /\ halfSent' = halfSent + 1
  <2>1. Range(delivered') = Range(delivered) \cup {m}
    BY <1>2, <1>5, OnceTypes, AppendRange
  <2>2. \A x : In(x, delivered) <=> x \in Range(delivered)
    BY DEF In, Range
  <2>3. \A x : In(x, delivered') <=> x \in Range(delivered')
    BY DEF In, Range
  <2>4. \A x : In(x, delivered)' <=> In(x, delivered) \/ x = m
    BY <2>1, <2>2, <2>3 DEF In
  <2>5. \A x : Made(x)' <=> Made(x)
    BY <1>1, <1>2, <2>4 DEF Made, In
  <2>6. Fresh'
    BY <1>1, <2>5 DEF OnceInv, Fresh, Before
  <2>7. Outgoing'
    <3>1. \A j \in DOMAIN output : j > 1 => output[j] # m
      BY <1>1, <1>2, OnceTypes DEF OnceInv, Outgoing
    <3> QED BY <1>1, <2>4, <3>1 DEF OnceInv, Outgoing
  <2>8. /\ Owed = IF In(m, delivered) THEN 1 ELSE 0
        /\ Owed' \in 0..1 /\ (worker' = "logSent" => Owed' = 0)
    BY <1>1, <1>2 DEF Owed
  <2>9. IsFiniteSet(Range(delivered)) /\ Cardinality(Range(delivered)) \in Nat
    BY FS_CardinalityType DEF OnceInv, Sums
  <2>10. /\ IsFiniteSet(Range(delivered'))
         /\ Cardinality(Range(delivered')) =
              IF In(m, delivered) THEN Cardinality(Range(delivered))
                                  ELSE Cardinality(Range(delivered)) + 1
    BY <2>1, <2>2, <2>9, FS_AddElement
  <2>11. Len(delivered') = Len(delivered) + 1
    BY <1>2, <1>5, OnceTypes
  <2>12. Len(delivered) + Owed <= Cardinality(Range(delivered)) + halfSent
    BY DEF OnceInv, Sums
  <2>13. Len(delivered') + Owed' <= Cardinality(Range(delivered')) + halfSent'
    BY <1>5, <2>8, <2>9, <2>10, <2>11, <2>12, OnceTypes
  <2>14. Sums'
    BY <2>10, <2>13 DEF Sums
  <2> QED BY <2>6, <2>7, <2>14 DEF OnceInv
<1> QED BY <1>3, <1>4, <1>5

(* The message that was sent leaves the queue, and the next was never sent. *)
LEMMA OnceLogSent == Inv /\ OnceInv /\ LogSent => OnceInv'
<1> SUFFICES ASSUME Inv, OnceInv, LogSent PROVE OnceInv'
  OBVIOUS
<1>1. /\ output # <<>> /\ worker = "logSent" /\ changeCS = "worker" /\ worker' # "log"
      /\ output' = Tail(output) \/ (UNCHANGED output /\ changeCS' = "dead")
      /\ UNCHANGED <<input, main, sent, reports, delivered, halfSent>>
  BY DEF LogSent, requestVars, outside, Inv, TypeOK, ConnectionInv
<1>2. output \in Seq(OutputMessage)
  BY OnceTypes
<1>3. \A i \in DOMAIN output' :
        \/ i + 1 \in DOMAIN output /\ output'[i] = output[i + 1] /\ i + 1 > 1
        \/ i \in DOMAIN output /\ output'[i] = output[i] /\ changeCS' = "dead"
  BY <1>1, <1>2, TailFacts
<1>4. Outgoing'
  <2>1. CASE output' = Tail(output)
    <3>1. \A i \in DOMAIN output' :
            i + 1 \in DOMAIN output /\ output'[i] = output[i + 1] /\ i + 1 > 1 /\ i \in Nat
      BY <1>1, <1>2, <2>1, TailFacts
    <3>2. \A i, j \in DOMAIN output' : i # j => i + 1 # j + 1
      BY <3>1
    <3> QED BY <1>1, <3>1, <3>2 DEF OnceInv, Outgoing, In
  <2>2. CASE UNCHANGED output
    BY <1>1, <2>2 DEF OnceInv, Outgoing, In
  <2> QED BY <1>1, <2>1, <2>2
<1>5. Owed' = 0
  <2>1. CASE output' = Tail(output) /\ output' # <<>>
    <3>1. 1 \in DOMAIN output' /\ output'[1] = output[2] /\ 2 \in DOMAIN output
      BY <1>1, <1>2, <2>1, TailFacts
    <3>2. ~ In(output[2], delivered)
      BY <3>1 DEF OnceInv, Outgoing
    <3> QED BY <1>1, <3>1, <3>2 DEF Owed, In
  <2>2. CASE output' = <<>>
    BY <2>2 DEF Owed
  <2>3. CASE changeCS' = "dead"
    BY <2>3 DEF Owed
  <2> QED BY <1>1, <2>1, <2>2, <2>3
<1>6. \A x : Made(x)' => Made(x)
  BY <1>1, <1>3 DEF Made, In
<1>7. Fresh'
  BY <1>1, <1>6 DEF OnceInv, Fresh, Before
<1>8. IsFiniteSet(Range(delivered)) /\ Cardinality(Range(delivered)) \in Nat /\ Owed = 0
  BY <1>1, FS_CardinalityType DEF OnceInv, Sums, Owed
<1>9. Sums'
  BY <1>1, <1>5, <1>8 DEF OnceInv, Sums
<1> QED BY <1>4, <1>7, <1>9 DEF OnceInv

(* No step sends more than it may.                                          *)
LEMMA OnceNext == Inv /\ OrderInv /\ OnceInv /\ [Next]_vars => OnceInv'
<1> SUFFICES ASSUME Inv, OrderInv, OnceInv, [Next]_vars PROVE OnceInv'
  OBVIOUS
<1>1. CASE Push \/ ProcessNext \/ LogUnknown \/ CreateStatReport \/ SendOutput \/ LogSent
  BY <1>1, OncePush, OnceProcessNext, OnceLogUnknown, OnceReport, OnceSendOutput, OnceLogSent
<1>2. CASE Request \/ GetState
  BY <1>2, OnceRest DEF Request, GetState, Start, queues, locks, outside
<1>3. CASE Reconnect \/ ForceReport \/ BoxOffice \/ Database \/ UNCHANGED vars
  BY <1>3, OnceRest
  DEF Reconnect, ForceReport, BoxOffice, Database, vars, queues, locks, requestVars, outside
<1>4. CASE Starts \/ Connect \/ Pop \/ Unlock \/ WaitTimeout \/ WaitOn \/ EndTurn
  <2>1. /\ UNCHANGED <<input, output, delivered, halfSent, reports, main, sent>>
        /\ worker \notin {"log", "logSent"} /\ worker' # "logSent"
    BY <1>4
    DEF Starts, Connect, Turn, Pop, Unlock, WaitTimeout, WaitOn, EndTurn, queues, requestVars,
        outside
  <2>2. changeCS = "dead" <=> changeCS' = "dead"
    BY <1>4
    DEF Starts, Connect, Turn, Pop, Unlock, WaitTimeout, WaitOn, EndTurn, locks, Inv, TypeOK
  <2> QED BY <2>1, <2>2, OnceRest
<1> QED BY <1>1, <1>2, <1>3, <1>4 DEF Next, RequestNext, WorkerNext

(* The box office gets each answer and each report once, and once more for  *)
(* each call that failed after it had the message.                          *)
THEOREM SentOnce == Spec => []DeliveredOnce
<1>1. Init => Inv /\ OrderInv /\ OnceInv
  <2>1. Init => OrderInv
    BY DEF Init, OrderInv, ExecutedInOrder, Increasing, Before
  <2>2. ASSUME Init PROVE OnceInv
    <3>1. Range(delivered) = {} /\ Len(delivered) = 0 /\ halfSent = 0 /\ Owed = 0
      BY <2>2 DEF Init, Range, Owed
    <3>2. Sums
      BY <3>1, FS_EmptySet DEF Sums
    <3> QED BY <2>2, <3>2 DEF Init, OnceInv, Outgoing, Fresh, Made, In
  <2> QED BY <2>1, <2>2, InitInv
<1>2. Inv /\ OnceInv => DeliveredOnce
  <2> SUFFICES ASSUME Inv, OnceInv PROVE DeliveredOnce
    OBVIOUS
  <2>1. Cardinality(Range(delivered)) \in Nat /\ Owed \in 0..1
    BY FS_CardinalityType DEF OnceInv, Sums, Owed
  <2> QED BY <2>1, OnceTypes DEF OnceInv, Sums, DeliveredOnce
<1> QED BY <1>1, <1>2, NextInv, OrderNext, OnceNext, PTL DEF Spec
=============================================================================
