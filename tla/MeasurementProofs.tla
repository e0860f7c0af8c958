-------------------------- MODULE MeasurementProofs --------------------------
(***************************************************************************)
(* Theorems of Measurement for any number of cameras and computers, any    *)
(* m_nRequestDataNumber, any losses, and timers that fire at any moment.   *)
(***************************************************************************)
EXTENDS Measurement, TLAPS

(* Taking one message out of a channel leaves the others in their order.    *)
LEMMA RemoveAtFacts ==
  ASSUME NEW S, NEW q \in Seq(S), NEW i \in DOMAIN q
  PROVE  /\ RemoveAt(q, i) \in Seq(S) /\ Len(RemoveAt(q, i)) = Len(q) - 1
         /\ \A j \in DOMAIN RemoveAt(q, i) : \E k \in DOMAIN q : RemoveAt(q, i)[j] = q[k]
         /\ \A j \in DOMAIN RemoveAt(q, i) :
              RemoveAt(q, i)[j] = IF j < i THEN q[j] ELSE q[j + 1]
<1>1. i \in 1..Len(q) /\ Len(q) \in Nat /\ DOMAIN q = 1..Len(q)
  OBVIOUS
<1>2. RemoveAt(q, i) \in Seq(S) /\ Len(RemoveAt(q, i)) = Len(q) - 1
  BY <1>1 DEF RemoveAt
<1>3. ASSUME NEW j \in 1..(Len(q) - 1)
      PROVE  RemoveAt(q, i)[j] = IF j < i THEN q[j] ELSE q[j + 1]
  <2>1. CASE j < i
    BY <1>1, <2>1 DEF RemoveAt
  <2>2. CASE ~ (j < i)
    BY <1>1, <2>2 DEF RemoveAt
  <2> QED BY <2>1, <2>2
<1>4. DOMAIN RemoveAt(q, i) = 1..(Len(q) - 1)
  BY <1>1, <1>2
<1>5. ASSUME NEW j \in DOMAIN RemoveAt(q, i) PROVE \E k \in DOMAIN q : RemoveAt(q, i)[j] = q[k]
  <2>1. j \in DOMAIN q /\ j + 1 \in DOMAIN q
    BY <1>1, <1>4
  <2> QED BY <1>3, <1>4, <2>1
<1> QED BY <1>2, <1>3, <1>4, <1>5

(* Taking the first message leaves the others in their order.               *)
LEMMA TailFacts ==
  ASSUME NEW S, NEW q \in Seq(S), q # <<>>
  PROVE  /\ Tail(q) \in Seq(S)
         /\ Head(q) \in S /\ Head(q) = q[1]
         /\ Len(q) \in Nat \ {0}
         /\ Len(Tail(q)) = Len(q) - 1
         /\ \A i \in DOMAIN Tail(q) : i + 1 \in DOMAIN q /\ Tail(q)[i] = q[i + 1]
OBVIOUS

(* Sending a message puts it after the others.                              *)
LEMMA AppendFacts ==
  ASSUME NEW S, NEW q \in Seq(S), NEW e \in S
  PROVE  /\ Append(q, e) \in Seq(S)
         /\ \A i \in DOMAIN Append(q, e) :
              \/ i \in DOMAIN q /\ Append(q, e)[i] = q[i]
              \/ i = Len(q) + 1 /\ Append(q, e)[i] = e
OBVIOUS

LEMMA ConstantFacts ==
  ASSUME MeasurementAssumption
  PROVE  /\ MaxRuns \in Nat /\ RequestNumber \in Nat /\ MaxLost \in Nat
         /\ 0 \in Stamp /\ Stamp \subseteq Nat /\ 1..MaxRuns \subseteq Stamp
         /\ NoData \in CameraData
         /\ NoCount \in Count /\ NoCount.run = 0
         /\ Garbage \subseteq BOOLEAN
         /\ \A c \in Cameras : HostOf[c] \in Hosts
BY DEF MeasurementAssumption, Stamp, NoData, CameraData, Count, NoCount
-----------------------------------------------------------------------------
(* StaProcessed is the TimeAction.                                          *)
Measuring == phase \in {"gather", "process"}

(* Before the first measurement nobody is asked.                            *)
NobodyAsked ==
  /\ Measuring => run # 0
  /\ run = 0 => /\ \A h \in Hosts : requests[h] = <<>>
                /\ \A c \in Cameras : asked[c] = 0

Typed == TypeOK /\ NobodyAsked

LEMMA InitTyped == MeasurementAssumption /\ Init => Typed
<1> SUFFICES ASSUME MeasurementAssumption, Init PROVE Typed
  OBVIOUS
<1>1. spectators \in [valid : BOOLEAN, count : Count]
  BY ConstantFacts DEF Init
<1>2. client \in [Hosts -> [wanted : SUBSET Cameras, got : CameraData]]
  BY ConstantFacts DEF Init
<1>3. /\ requests \in [Hosts -> Seq(SUBSET Cameras)] /\ asked \in [Cameras -> Nat]
      /\ answers \in [Hosts -> Seq([camera : Cameras, taken : 1..MaxRuns])]
      /\ responses \in Seq(CameraData) /\ counts \in Seq(Count)
  BY DEF Init
<1> QED BY <1>1, <1>2, <1>3, ConstantFacts DEF Init, Typed, TypeOK, NobodyAsked, Measuring

(* GetDataFromCameras only adds requests.                                   *)
LEMMA GetDataTyped ==
  ASSUME TypeOK, NEW missing, GetDataFromCameras(missing)
  PROVE  requests' \in [Hosts -> Seq(SUBSET Cameras)]
<1> SUFFICES ASSUME NEW h \in Hosts PROVE requests'[h] \in Seq(SUBSET Cameras)
  BY DEF GetDataFromCameras
<1> DEFINE those == IF h = HallHost THEN Of(h) \cap missing ELSE Of(h)
<1>1. those \in SUBSET Cameras
  BY DEF Of
<1>2. requests'[h] = requests[h] \/ requests'[h] = Append(requests[h], those)
  BY DEF GetDataFromCameras
<1>3. requests[h] \in Seq(SUBSET Cameras)
  BY DEF TypeOK
<1> HIDE DEF those
<1>4. Append(requests[h], those) \in Seq(SUBSET Cameras)
  BY <1>1, <1>3
<1> QED BY <1>2, <1>3, <1>4

LEMMA HallTyped ==
  ASSUME MeasurementAssumption, Typed, HallNext
  PROVE  Typed'
<1> USE DEF Typed, NobodyAsked, Measuring
<1>1. CASE Begin
  <2>1. run' \in Stamp /\ run' # 0
    BY <1>1, ConstantFacts DEF Begin, TypeOK, Stamp
  <2>2. requests' \in [Hosts -> Seq(SUBSET Cameras)]
    BY <1>1, GetDataTyped DEF Begin
  <2>a. 0 \in 0..RequestNumber
    BY ConstantFacts
  <2>3. TypeOK'
    BY <1>1, <2>a, <2>1, <2>2, ConstantFacts DEF Begin, TypeOK, threadVars, cameraVars
  <2> QED BY <2>1, <2>3
<1>2. CASE Exec
  <2>1. CASE AskAgain
    <3>1. requests' \in [Hosts -> Seq(SUBSET Cameras)]
      BY <2>1, GetDataTyped DEF AskAgain
    <3>2. tries' \in 0..RequestNumber
      BY <2>1, ConstantFacts DEF AskAgain, TypeOK
    <3>3. TypeOK'
      BY <2>1, <3>1, <3>2 DEF AskAgain, TypeOK, threadVars, cameraVars
    <3> QED BY <2>1, <3>3 DEF AskAgain, RepeatFires
  <2>2. CASE LoadDataToHallAnalyzer
    <3>1. tries' \in 0..RequestNumber
      BY <2>2, ConstantFacts DEF LoadDataToHallAnalyzer, TypeOK
    <3> QED
      BY <2>2, <3>1 DEF LoadDataToHallAnalyzer, RepeatFires, TypeOK, cameraVars
  <2>3. CASE GatherTimeout
    BY <2>3 DEF GatherTimeout, TypeOK, threadVars, cameraVars
  <2>4. CASE UpdateStat
    <3>1. spectators.count \in Count
      BY DEF TypeOK
    <3>2. [run |-> run, count |-> spectators.count, images |-> buffer] \in Row
      BY <3>1 DEF Row, TypeOK
    <3>4. saved' \subseteq Row /\ failed' \subseteq Stamp
      BY <2>4, <3>2 DEF UpdateStat, TypeOK
    <3>3. spectators' \in [valid : BOOLEAN, count : Count]
      BY <2>4 DEF UpdateStat, TypeOK
    <3> QED
      BY <2>4, <3>3, <3>4, ConstantFacts DEF UpdateStat, TypeOK, cameraVars
  <2>5. CASE ProcessTimeout
    BY <2>5 DEF ProcessTimeout, TypeOK, threadVars, cameraVars
  <2> QED BY <1>2, <2>1, <2>2, <2>3, <2>4, <2>5 DEF Exec
<1>3. CASE PopSpectators
  <2>1. Head(counts) \in Count /\ Tail(counts) \in Seq(Count)
    BY <1>3, TailFacts DEF PopSpectators, TypeOK
  <2> QED
    BY <1>3, <2>1 DEF PopSpectators, TypeOK, cameraVars
<1>4. CASE OnResponseData
  <2>1. PICK i \in DOMAIN responses :
          LET got == responses[i]
              known == {c \in wanted : phase # "stopped" /\ got[c] # 0} IN
          /\ responses' = RemoveAt(responses, i)
          /\ buffer' = [c \in Cameras |-> IF c \in known THEN got[c] ELSE buffer[c]]
          /\ hallData' = [c \in Cameras |-> IF c \in known THEN got[c] ELSE hallData[c]]
          /\ UNCHANGED <<hallVars, threadVars, requests, cameraVars, lost>>
    BY <1>4 DEF OnResponseData
  <2>2. responses' \in Seq(CameraData)
    BY <2>1, RemoveAtFacts DEF TypeOK
  <2>3. responses[i] \in CameraData
    BY DEF TypeOK
  <2>4. buffer' \in CameraData /\ hallData' \in CameraData
    BY <2>1, <2>3 DEF TypeOK, CameraData
  <2> QED
    BY <2>1, <2>2, <2>4 DEF TypeOK, hallVars, threadVars, cameraVars
<1>5. CASE EndSession
  <2>1. asked' \in [Cameras -> Nat]
    BY <1>5 DEF EndSession, TypeOK
  <2>2. run = 0 => \A c \in Cameras : asked'[c] = 0
    BY <1>5 DEF EndSession
  <2> QED
    BY <1>5, <2>1, <2>2, ConstantFacts DEF EndSession, TypeOK
<1>6. CASE NewSession
  BY <1>6 DEF NewSession, TypeOK, threadVars, cameraVars
<1> QED BY <1>1, <1>2, <1>3, <1>4, <1>5, <1>6 DEF HallNext

LEMMA ThreadTyped ==
  ASSUME MeasurementAssumption, Typed, ThreadNext
  PROVE  Typed'
<1> USE DEF Typed, NobodyAsked, Measuring
<1>1. CASE HallTakes
  <2>1. [run |-> event, data |-> hallData] \in Count
    BY DEF Count, TypeOK
  <2> QED
    BY <1>1, <2>1, ConstantFacts DEF HallTakes, TypeOK, hallVars, cameraVars
<1>2. CASE HallCounts
  <2>a. computing \in Count /\ counts \in Seq(Count)
    BY DEF TypeOK
  <2>b. Append(counts, computing) \in Seq(Count)
    BY <2>a, AppendFacts
  <2>1. counts' \in Seq(Count)
    BY <1>2, <2>a, <2>b DEF HallCounts
  <2>2. failed' \subseteq Stamp
    BY <1>2, <2>a DEF HallCounts, TypeOK, Count
  <2> QED
    BY <1>2, <2>1, <2>2, ConstantFacts DEF HallCounts, TypeOK, hallVars, cameraVars
<1> QED BY <1>1, <1>2 DEF ThreadNext

LEMMA OnRequestDataTyped ==
  ASSUME MeasurementAssumption, Typed, NEW h \in Hosts, OnRequestData(h)
  PROVE  Typed'
<1> USE DEF Typed, NobodyAsked, Measuring
<1>1. PICK i \in DOMAIN requests[h] :
        LET those == requests[h][i] IN
        /\ requests' = [requests EXCEPT ![h] = RemoveAt(@, i)]
        /\ client' = [client EXCEPT ![h] = [wanted |-> those, got |-> NoData]]
        /\ asked' = [c \in Cameras |-> IF c \in those THEN asked[c] + 1 ELSE asked[c]]
        /\ UNCHANGED <<hallVars, buffer, hallData, threadVars, answers, responses, lost>>
  BY DEF OnRequestData
<1>2. requests[h] \in Seq(SUBSET Cameras)
  BY DEF TypeOK
<1>3. RemoveAt(requests[h], i) \in Seq(SUBSET Cameras) /\ requests[h][i] \in SUBSET Cameras
  BY <1>2, RemoveAtFacts
<1>4. requests' \in [Hosts -> Seq(SUBSET Cameras)]
  BY <1>1, <1>3 DEF TypeOK
<1>5. [wanted |-> requests[h][i], got |-> NoData] \in [wanted : SUBSET Cameras, got : CameraData]
  BY <1>3, ConstantFacts
<1>6. client' \in [Hosts -> [wanted : SUBSET Cameras, got : CameraData]]
  BY <1>1, <1>5 DEF TypeOK
<1>7. asked' \in [Cameras -> Nat]
  BY <1>1 DEF TypeOK
<1>8. run # 0
  <2> SUFFICES ASSUME run = 0 PROVE FALSE
    OBVIOUS
  <2>1. requests[h] = <<>>
    OBVIOUS
  <2> QED BY <2>1, <1>1
<1> QED BY <1>1, <1>4, <1>6, <1>7, <1>8 DEF TypeOK, hallVars, threadVars

LEMMA PopThreadMessageTyped ==
  ASSUME MeasurementAssumption, Typed, NEW h \in Hosts, PopThreadMessage(h)
  PROVE  Typed'
<1> USE DEF Typed, NobodyAsked, Measuring
<1> DEFINE m == Head(answers[h])
           got == [client[h].got EXCEPT ![m.camera] = m.taken]
           Client == [wanted : SUBSET Cameras, got : CameraData]
           Answer == [camera : Cameras, taken : 1..MaxRuns]
<1>1. answers[h] \in Seq(Answer) /\ answers[h] # <<>>
  BY DEF PopThreadMessage, TypeOK
<1>2. m \in Answer /\ Tail(answers[h]) \in Seq(Answer)
  BY <1>1, TailFacts
<1>3. answers' \in [Hosts -> Seq(Answer)]
  BY <1>2 DEF PopThreadMessage, TypeOK
<1>4. client \in [Hosts -> Client]
  BY DEF TypeOK
<1>5. got \in CameraData
  BY <1>2, <1>4, ConstantFacts DEF CameraData
<1>6. /\ client' \in [Hosts -> Client]
      /\ responses' \in Seq(CameraData)
  <2>1. [client[h] EXCEPT !.got = got] \in Client
    BY <1>4, <1>5
  <2>2. [wanted |-> {}, got |-> NoData] \in Client
    BY ConstantFacts
  <2>3. Append(responses, got) \in Seq(CameraData) /\ responses \in Seq(CameraData)
    BY <1>5, AppendFacts DEF TypeOK
  <2>4. \/ UNCHANGED <<client, responses>>
        \/ client' = [client EXCEPT ![h] = [client[h] EXCEPT !.got = got]] /\ UNCHANGED responses
        \/ /\ client' = [client EXCEPT ![h] = [wanted |-> {}, got |-> NoData]]
           /\ responses' = Append(responses, got)
    BY DEF PopThreadMessage
  <2> DEFINE kept == [client[h] EXCEPT !.got = got]
             cleared == [wanted |-> {}, got |-> NoData]
  <2> HIDE DEF m, got, Client
  <2>5. responses' \in Seq(CameraData)
    BY <2>3, <2>4
  <2>6. client' \in [Hosts -> Client]
    <3>1. kept \in Client /\ cleared \in Client
      BY <2>1, <2>2
    <3>2. \/ client' = client
          \/ client' = [client EXCEPT ![h] = kept]
          \/ client' = [client EXCEPT ![h] = cleared]
      BY <2>4
    <3> HIDE DEF kept, cleared
    <3> QED BY <1>4, <3>1, <3>2
  <2> QED BY <2>5, <2>6
<1> HIDE DEF m, got
<1>7. UNCHANGED <<hallVars, buffer, hallData, threadVars, requests, asked, lost>>
  BY DEF PopThreadMessage
<1> QED BY <1>3, <1>6, <1>7 DEF TypeOK, hallVars, threadVars

LEMMA PushTyped ==
  ASSUME MeasurementAssumption, Typed, NEW c \in Cameras, PushImageAndData(c)
  PROVE  Typed'
<1> USE DEF Typed, NobodyAsked, Measuring
<1> DEFINE Answer == [camera : Cameras, taken : 1..MaxRuns]
<1>1. run # 0 /\ run \in 1..MaxRuns
  BY ConstantFacts DEF PushImageAndData, TypeOK, Stamp
<1>2. asked' \in [Cameras -> Nat]
  BY DEF PushImageAndData, TypeOK
<1>3. [camera |-> c, taken |-> run] \in Answer /\ HostOf[c] \in Hosts
  BY <1>1, ConstantFacts
<1>4. Append(answers[HostOf[c]], [camera |-> c, taken |-> run]) \in Seq(Answer)
  BY <1>3, AppendFacts DEF TypeOK
<1>5. answers' \in [Hosts -> Seq(Answer)]
  BY <1>3, <1>4 DEF PushImageAndData, TypeOK
<1> QED BY <1>1, <1>2, <1>5 DEF PushImageAndData, TypeOK, hallVars, threadVars

LEMMA LoseTyped ==
  ASSUME MeasurementAssumption, Typed, Lose
  PROVE  Typed'
<1> USE DEF Typed, NobodyAsked, Measuring
<1> DEFINE Answer == [camera : Cameras, taken : 1..MaxRuns]
<1>1. lost' \in 0..MaxLost
  BY ConstantFacts DEF Lose, TypeOK
<1>2. UNCHANGED <<hallVars, buffer, hallData, threadVars, client>>
  BY DEF Lose
<1>3. CASE \E h \in Hosts : \E i \in DOMAIN requests[h] :
             /\ requests' = [requests EXCEPT ![h] = RemoveAt(@, i)]
             /\ UNCHANGED <<asked, answers, responses>>
  <2>1. PICK h \in Hosts : \E i \in DOMAIN requests[h] :
             /\ requests' = [requests EXCEPT ![h] = RemoveAt(@, i)]
             /\ UNCHANGED <<asked, answers, responses>>
    BY <1>3
  <2>2. PICK i \in DOMAIN requests[h] :
             /\ requests' = [requests EXCEPT ![h] = RemoveAt(@, i)]
             /\ UNCHANGED <<asked, answers, responses>>
    BY <2>1
  <2>3. requests[h] \in Seq(SUBSET Cameras)
    BY DEF TypeOK
  <2>4. RemoveAt(requests[h], i) \in Seq(SUBSET Cameras)
    BY <2>3, RemoveAtFacts
  <2>5. requests' \in [Hosts -> Seq(SUBSET Cameras)]
    BY <2>2, <2>4 DEF TypeOK
  <2>6. run # 0
    <3> SUFFICES ASSUME run = 0 PROVE FALSE
      OBVIOUS
    <3>1. requests[h] = <<>>
      OBVIOUS
    <3> QED BY <3>1, <2>2
  <2> QED BY <1>1, <1>2, <2>2, <2>5, <2>6 DEF TypeOK, hallVars, threadVars
<1>4. CASE \E c \in Cameras :
             /\ asked[c] > 0 /\ asked' = [asked EXCEPT ![c] = @ - 1]
             /\ UNCHANGED <<requests, answers, responses>>
  <2>1. PICK c \in Cameras :
             /\ asked[c] > 0 /\ asked' = [asked EXCEPT ![c] = @ - 1]
             /\ UNCHANGED <<requests, answers, responses>>
    BY <1>4
  <2>2. asked' \in [Cameras -> Nat]
    <3>1. asked \in [Cameras -> Nat]
      BY DEF TypeOK
    <3> HIDE DEF Typed, NobodyAsked, Measuring
    <3> QED BY <2>1, <3>1
  <2>3. run # 0
    BY <2>1
  <2> QED BY <1>1, <1>2, <2>1, <2>2, <2>3 DEF TypeOK, hallVars, threadVars
<1>5. CASE \E h \in Hosts :
             /\ answers[h] # <<>> /\ answers' = [answers EXCEPT ![h] = Tail(@)]
             /\ UNCHANGED <<requests, asked, responses>>
  <2>1. PICK h \in Hosts :
             /\ answers[h] # <<>> /\ answers' = [answers EXCEPT ![h] = Tail(@)]
             /\ UNCHANGED <<requests, asked, responses>>
    BY <1>5
  <2>2. answers[h] \in Seq(Answer)
    BY DEF TypeOK
  <2>3. Tail(answers[h]) \in Seq(Answer)
    BY <2>1, <2>2, TailFacts
  <2>4. answers' \in [Hosts -> Seq(Answer)]
    BY <2>1, <2>3 DEF TypeOK
  <2> QED BY <1>1, <1>2, <2>1, <2>4 DEF TypeOK, hallVars, threadVars
<1>6. CASE \E i \in DOMAIN responses :
             /\ responses' = RemoveAt(responses, i)
             /\ UNCHANGED <<requests, asked, answers>>
  <2>1. responses' \in Seq(CameraData)
    BY <1>6, RemoveAtFacts DEF TypeOK
  <2> QED BY <1>1, <1>2, <1>6, <2>1 DEF TypeOK, hallVars, threadVars
<1> QED BY <1>3, <1>4, <1>5, <1>6 DEF Lose

LEMMA StepTyped ==
  ASSUME MeasurementAssumption, Typed, [Next]_vars
  PROVE  Typed'
<1>1. CASE UNCHANGED vars
  BY <1>1 DEF Typed, NobodyAsked, Measuring, TypeOK, vars, hallVars, threadVars, cameraVars
<1> QED
  BY <1>1, HallTyped, ThreadTyped, OnRequestDataTyped, PopThreadMessageTyped, PushTyped,
     LoseTyped DEF Next, HostNext

(* Counts, data and messages are of their types (TypeOK), whatever is lost  *)
(* and whenever the timers fire.                                            *)
THEOREM MeasurementTypeCorrect == MeasurementAssumption => (Spec => []TypeOK)
<1> SUFFICES ASSUME MeasurementAssumption PROVE Spec => []TypeOK
  OBVIOUS
<1>1. Init => Typed
  BY InitTyped
<1>2. Typed /\ [Next]_vars => Typed'
  BY StepTyped
<1>3. Typed => TypeOK
  BY DEF Typed
<1> QED BY <1>1, <1>2, <1>3, PTL DEF Spec
-----------------------------------------------------------------------------
(* What the servers of the cameras do, and what is lost, is nothing to the  *)
(* hall server.                                                             *)
CameraStep ==
  \/ \E h \in Hosts : HostNext(h)
  \/ \E c \in Cameras : PushImageAndData(c)
  \/ Lose

LEMMA CameraFrame ==
  ASSUME CameraStep
  PROVE  UNCHANGED <<hallVars, buffer, hallData, threadVars>>
BY DEF CameraStep, HostNext, OnRequestData, PopThreadMessage, PushImageAndData, Lose

(* In a measurement all cameras are wanted, and what m_ServerCameraData has *)
(* the hall thread has too; the event is set when that is everything.       *)
Complete ==
  /\ Measuring => wanted = Cameras
  /\ Measuring => \A c \in Cameras : buffer[c] # 0 => hallData[c] # 0
  /\ event # 0 => \A c \in Cameras : hallData[c] # 0
  /\ CountsAreComplete

LEMMA InitComplete == MeasurementAssumption /\ Init => Complete
BY DEF Init, Complete, CountsAreComplete, Measuring

LEMMA StepComplete ==
  ASSUME MeasurementAssumption, Typed, Complete, [Next]_vars
  PROVE  Complete'
<1> USE DEF Complete, CountsAreComplete, Measuring
<1>1. CASE Begin
  <2>1. \A c \in Cameras : buffer'[c] = 0
    BY <1>1 DEF Begin, NoData
  <2> QED BY <1>1, <2>1 DEF Begin, threadVars
<1>2. CASE AskAgain \/ GatherTimeout \/ ProcessTimeout
  BY <1>2 DEF AskAgain, GatherTimeout, ProcessTimeout, RepeatFires, threadVars
<1>3. CASE LoadDataToHallAnalyzer
  <2>1. phase = "gather" /\ \A c \in Cameras : buffer[c] # 0
    BY <1>3 DEF LoadDataToHallAnalyzer, RepeatFires, Missing
  <2> QED BY <1>3, <2>1 DEF LoadDataToHallAnalyzer
<1>4. CASE UpdateStat
  BY <1>4 DEF UpdateStat
<1>5. CASE PopSpectators
  BY <1>5 DEF PopSpectators
<1>6. CASE OnResponseData
  <2>1. PICK i \in DOMAIN responses :
          LET got == responses[i]
              known == {c \in wanted : phase # "stopped" /\ got[c] # 0} IN
          /\ buffer' = [c \in Cameras |-> IF c \in known THEN got[c] ELSE buffer[c]]
          /\ hallData' = [c \in Cameras |-> IF c \in known THEN got[c] ELSE hallData[c]]
    BY <1>6 DEF OnResponseData
  <2>2. UNCHANGED <<hallVars, threadVars>>
    BY <1>6 DEF OnResponseData
  <2>3. \A c \in Cameras : hallData[c] # 0 => hallData'[c] # 0
    BY <2>1
  <2>4. \A c \in Cameras : (buffer[c] # 0 => hallData[c] # 0) => (buffer'[c] # 0 => hallData'[c] # 0)
    BY <2>1
  <2> QED BY <2>2, <2>3, <2>4 DEF hallVars, threadVars
<1>7. CASE EndSession \/ NewSession
  BY <1>7 DEF EndSession, NewSession, threadVars
<1>8. CASE HallTakes
  BY <1>8 DEF HallTakes, hallVars
<1>9. CASE HallCounts
  BY <1>9 DEF HallCounts, hallVars
<1>10. CASE CameraStep
  BY <1>10, CameraFrame DEF hallVars, threadVars
<1>11. CASE UNCHANGED vars
  BY <1>11 DEF vars, hallVars, threadVars
<1> QED
  BY <1>1, <1>2, <1>3, <1>4, <1>5, <1>6, <1>7, <1>8, <1>9, <1>10, <1>11
     DEF Next, HallNext, Exec, ThreadNext, CameraStep

LEMMA AlwaysTyped == ASSUME MeasurementAssumption PROVE Spec => []Typed
<1>1. Init => Typed
  BY InitTyped
<1>2. Typed /\ [Next]_vars => Typed'
  BY StepTyped
<1> QED BY <1>1, <1>2, PTL DEF Spec

(* The hall thread has the data of every camera whenever it computes,       *)
(* whatever the order in which responses, timers and films come.            *)
THEOREM CompleteCounts == MeasurementAssumption => (Spec => []CountsAreComplete)
<1> SUFFICES ASSUME MeasurementAssumption PROVE Spec => []CountsAreComplete
  OBVIOUS
<1>1. Init => Complete
  BY InitComplete
<1>2. Typed /\ Complete /\ [Next]_vars => Complete'
  BY StepComplete
<1>3. Complete => CountsAreComplete
  BY DEF Complete
<1> QED BY <1>1, <1>2, <1>3, AlwaysTyped, PTL DEF Spec
-----------------------------------------------------------------------------
(* Counts go from the event through the hall thread, its queue and          *)
(* m_Spectators into the table, and never overtake each other: what is      *)
(* further on its way was asked for by an earlier measurement.              *)
SavedBefore(n) == \A r \in saved : r.count.run < n

SpectatorsBefore(n) == SavedBefore(n) /\ (spectators.valid => spectators.count.run < n)

QueueBefore(n) == SpectatorsBefore(n) /\ \A i \in DOMAIN counts : counts[i].run < n

ComputingBefore(n) == QueueBefore(n) /\ (computing # NoCount => computing.run < n)

EventBefore(n) == ComputingBefore(n) /\ (event # 0 => event < n)

InTurn ==
  /\ spectators.valid => SavedBefore(spectators.count.run)
  /\ \A i \in DOMAIN counts : SpectatorsBefore(counts[i].run)
  /\ \A i, j \in DOMAIN counts : i < j => counts[i].run < counts[j].run
  /\ computing # NoCount => QueueBefore(computing.run)
  /\ event # 0 => ComputingBefore(event)
  /\ EventBefore(run + 1)
  /\ phase = "gather" => EventBefore(run)

(* A measurement is saved when it ends.                                     *)
SavedOnce ==
  /\ \A r \in saved : r.run < run + 1
  /\ Measuring => \A r \in saved : r.run < run
  /\ NoRowTwice

LEMMA InitInTurn == MeasurementAssumption /\ Init => InTurn /\ SavedOnce
<1> SUFFICES ASSUME MeasurementAssumption, Init PROVE InTurn /\ SavedOnce
  OBVIOUS
<1>1. /\ saved = {} /\ counts = <<>> /\ computing = NoCount /\ event = 0 /\ run = 0
      /\ phase = "idle" /\ spectators.count.run = 0
  BY ConstantFacts DEF Init
<1> QED
  BY <1>1 DEF InTurn, SavedOnce, NoRowTwice, EventBefore, ComputingBefore, QueueBefore,
              SpectatorsBefore, SavedBefore, Measuring

(* The numbers of the measurements that counts belong to.                   *)
LEMMA RunsAreNumbers ==
  ASSUME MeasurementAssumption, Typed
  PROVE  /\ run \in Nat /\ event \in Nat /\ computing.run \in Nat
         /\ spectators.count.run \in Nat
         /\ \A i \in DOMAIN counts : counts[i].run \in Nat
         /\ \A r \in saved : r.run \in Nat /\ r.count.run \in Nat
<1>1. Stamp \subseteq Nat
  BY ConstantFacts
<1>2. \A x \in Count : x.run \in Nat
  BY <1>1 DEF Count
<1>3. /\ run \in Stamp /\ event \in Stamp /\ computing \in Count /\ counts \in Seq(Count)
      /\ spectators.count \in Count /\ saved \subseteq Row
  BY DEF Typed, TypeOK
<1>4. \A r \in saved : r.run \in Stamp /\ r.count \in Count
  BY <1>3 DEF Row
<1>5. \A i \in DOMAIN counts : counts[i] \in Count
  BY <1>3
<1> QED BY <1>1, <1>2, <1>3, <1>4, <1>5

LEMMA StepInTurn ==
  ASSUME MeasurementAssumption, Typed, InTurn, SavedOnce, [Next]_vars
  PROVE  InTurn' /\ SavedOnce'
<1> USE RunsAreNumbers
<1> USE DEF InTurn, SavedOnce, NoRowTwice, EventBefore, ComputingBefore, QueueBefore,
            SpectatorsBefore, SavedBefore, Measuring
<1>1. CASE Begin
  BY <1>1 DEF Begin, threadVars
<1>2. CASE AskAgain \/ GatherTimeout \/ ProcessTimeout
  BY <1>2 DEF AskAgain, GatherTimeout, ProcessTimeout, RepeatFires, threadVars
<1>3. CASE LoadDataToHallAnalyzer
  BY <1>3 DEF LoadDataToHallAnalyzer, RepeatFires
<1>4. CASE UpdateStat
  <2> DEFINE row == [run |-> run, count |-> spectators.count, images |-> buffer]
  <2>1. row.run = run /\ row.count.run = spectators.count.run
    OBVIOUS
  <2>2. saved' \in {saved, saved \cup {row}} /\ phase = "process" /\ phase' = "idle"
    BY <1>4 DEF UpdateStat
  <2>3. UNCHANGED <<run, event, computing, counts>>
    BY <1>4 DEF UpdateStat
  <2>4. spectators.valid /\ ~ spectators'.valid
    BY <1>4 DEF UpdateStat, Typed, TypeOK
  <2> HIDE DEF row
  <2>5. NoRowTwice'
    BY <2>1, <2>2, <2>4
  <2>6. \A n \in Nat : SpectatorsBefore(n) => SpectatorsBefore(n)'
    BY <2>1, <2>2, <2>4
  <2>7. InTurn'
    BY <2>2, <2>3, <2>4, <2>6
  <2> QED BY <2>1, <2>2, <2>3, <2>5, <2>7
<1>5. CASE PopSpectators
  <2>1. UNCHANGED <<run, phase, saved, event, computing>>
    BY <1>5 DEF PopSpectators
  <2>2. counts # <<>> /\ counts' = Tail(counts) /\ counts \in Seq(Count)
    BY <1>5 DEF PopSpectators, Typed, TypeOK
  <2>3. 1 \in DOMAIN counts /\ spectators'.valid /\ spectators'.count = counts[1]
    BY <1>5, <2>2, TailFacts DEF PopSpectators
  <2>4. \A i \in DOMAIN counts' : i + 1 \in DOMAIN counts /\ counts'[i] = counts[i + 1] /\ 1 < i + 1
    BY <2>2, TailFacts
  <2>5. \A i, j \in DOMAIN counts' : i < j => i + 1 < j + 1
    BY <2>2
  <2>6. \A n \in Nat : QueueBefore(n) => QueueBefore(n)'
    BY <2>1, <2>3, <2>4
  <2>7. \A i \in DOMAIN counts' : SpectatorsBefore(counts[i].run)'
    BY <2>1, <2>3, <2>4
  <2> QED BY <2>1, <2>3, <2>4, <2>5, <2>6, <2>7
<1>6. CASE OnResponseData
  BY <1>6 DEF OnResponseData, hallVars, threadVars
<1>7. CASE EndSession \/ NewSession
  BY <1>7 DEF EndSession, NewSession, threadVars
<1>8. CASE HallTakes
  BY <1>8 DEF HallTakes, hallVars
<1>9. CASE HallCounts
  <2>1. UNCHANGED <<run, phase, saved, spectators, event>> /\ computing' = NoCount
    BY <1>9 DEF HallCounts, hallVars
  <2>2. computing # NoCount /\ (counts' = Append(counts, computing) \/ counts' = counts)
    BY <1>9 DEF HallCounts
  <2>3. counts \in Seq(Count) /\ computing \in Count
    BY DEF Typed, TypeOK
  <2>4. CASE counts' = Append(counts, computing)
    <3>1. \A i \in DOMAIN counts' :
            \/ i \in DOMAIN counts /\ counts'[i] = counts[i]
            \/ i = Len(counts) + 1 /\ counts'[i] = computing
      BY <2>3, <2>4, AppendFacts
    <3>2. \A i \in DOMAIN counts : i \in Nat /\ i < Len(counts) + 1
      BY <2>3
    <3>3. \A n \in Nat : ComputingBefore(n) => ComputingBefore(n)'
      BY <2>1, <2>2, <3>1
    <3>4. \A i \in DOMAIN counts' : SpectatorsBefore(counts'[i].run)
      BY <2>2, <3>1
    <3>5. \A i, j \in DOMAIN counts' : i < j => counts'[i].run < counts'[j].run
      BY <2>2, <3>1, <3>2
    <3>6. (\A i \in DOMAIN counts : SpectatorsBefore(counts[i].run))'
      BY <2>1, <3>4
    <3>7. event # 0 => ComputingBefore(event)'
      BY <2>1, <3>3
    <3>8. EventBefore(run + 1)'
      BY <2>1, <3>3
    <3>9. phase = "gather" => EventBefore(run)'
      BY <2>1, <3>3
    <3>10. spectators.valid => SavedBefore(spectators.count.run)'
      BY <2>1
    <3>11. InTurn'
      BY <2>1, <3>5, <3>6, <3>7, <3>8, <3>9, <3>10
    <3>12. SavedOnce'
      BY <2>1
    <3> QED BY <3>11, <3>12
  <2>5. CASE counts' = counts
    BY <2>1, <2>5
  <2> QED BY <2>2, <2>4, <2>5
<1>10. CASE CameraStep
  BY <1>10, CameraFrame DEF hallVars, threadVars
<1>11. CASE UNCHANGED vars
  BY <1>11 DEF vars, hallVars, threadVars
<1> QED
  BY <1>1, <1>2, <1>3, <1>4, <1>5, <1>6, <1>7, <1>8, <1>9, <1>10, <1>11
     DEF Next, HallNext, Exec, ThreadNext, CameraStep

(* No measurement and no count is saved twice, also when counts come late,  *)
(* when films end and begin between, and when the hall algorithm fails.     *)
THEOREM SavedAtMostOnce == MeasurementAssumption => (Spec => []NoRowTwice)
<1> SUFFICES ASSUME MeasurementAssumption PROVE Spec => []NoRowTwice
  OBVIOUS
<1>1. Init => InTurn /\ SavedOnce
  BY InitInTurn
<1>2. Typed /\ (InTurn /\ SavedOnce) /\ [Next]_vars => (InTurn /\ SavedOnce)'
  BY StepInTurn
<1>3. SavedOnce => NoRowTwice
  BY DEF SavedOnce
<1> QED BY <1>1, <1>2, <1>3, AlwaysTyped, PTL DEF Spec
-----------------------------------------------------------------------------
(* With timers that are long enough, and an m_bValid that begins FALSE,     *)
(* there is at most one count on its way, it is of this measurement, and    *)
(* there is none between two measurements.                                  *)
InTime ==
  /\ phase # "process" => event = 0 /\ computing = NoCount /\ counts = <<>> /\ ~ spectators.valid
  /\ phase = "process" => Missing(wanted, buffer) = {}
  /\ event # 0 => event = run /\ computing = NoCount /\ counts = <<>> /\ ~ spectators.valid
  /\ computing # NoCount => computing.run = run /\ counts = <<>> /\ ~ spectators.valid
  /\ counts # <<>> => Len(counts) = 1 /\ counts[1].run = run /\ ~ spectators.valid
  /\ spectators.valid => spectators.count.run = run
  /\ OwnCount

LEMMA InitInTime ==
  ASSUME MeasurementAssumption, Garbage \subseteq {FALSE}, Init
  PROVE  InTime
<1>1. spectators.valid = FALSE
  BY DEF Init
<1> QED BY <1>1 DEF Init, InTime, OwnCount

LEMMA StepInTime ==
  ASSUME MeasurementAssumption, Timely, Typed, InTime, [Next]_vars
  PROVE  InTime'
<1> USE DEF InTime, OwnCount
<1>1. CASE Begin
  BY <1>1 DEF Begin, threadVars
<1>2. CASE AskAgain \/ GatherTimeout
  BY <1>2 DEF AskAgain, GatherTimeout, RepeatFires, threadVars
<1>3. CASE LoadDataToHallAnalyzer
  <2>1. Missing(wanted, buffer)' = {}
    BY <1>3 DEF LoadDataToHallAnalyzer, Missing
  <2> QED BY <1>3, <2>1 DEF LoadDataToHallAnalyzer, RepeatFires
<1>4. CASE UpdateStat
  <2> DEFINE row == [run |-> run, count |-> spectators.count, images |-> buffer]
  <2>1. row.run = run /\ row.count.run = run
    BY <1>4 DEF UpdateStat
  <2>2. saved' \in {saved, saved \cup {row}} /\ phase' = "idle"
    BY <1>4 DEF UpdateStat
  <2>3. ~ spectators'.valid
    BY <1>4 DEF UpdateStat, Typed, TypeOK
  <2>4. event = 0 /\ computing = NoCount /\ counts = <<>>
    BY <1>4 DEF UpdateStat
  <2>5. UNCHANGED <<event, computing, counts>>
    BY <1>4 DEF UpdateStat
  <2> HIDE DEF row
  <2> QED BY <2>1, <2>2, <2>3, <2>4, <2>5
<1>5. CASE ProcessTimeout
  BY <1>5 DEF ProcessTimeout, threadVars
<1>6. CASE PopSpectators
  <2>1. UNCHANGED <<run, phase, saved, event, computing, wanted, buffer>>
    BY <1>6 DEF PopSpectators
  <2>2. counts # <<>> /\ counts' = Tail(counts) /\ counts \in Seq(Count)
    BY <1>6 DEF PopSpectators, Typed, TypeOK
  <2>3. spectators'.valid /\ spectators'.count = counts[1]
    BY <1>6, <2>2, TailFacts DEF PopSpectators
  <2>4. counts' = <<>>
    BY <2>2
  <2>5. phase = "process" /\ event = 0 /\ computing = NoCount
    BY <2>2
  <2>6. Missing(wanted, buffer)' = {}
    BY <2>1, <2>5 DEF Missing
  <2> QED BY <2>1, <2>2, <2>3, <2>4, <2>5, <2>6
<1>7. CASE OnResponseData
  <2>1. PICK i \in DOMAIN responses :
          LET got == responses[i]
              known == {c \in wanted : phase # "stopped" /\ got[c] # 0} IN
          buffer' = [c \in Cameras |-> IF c \in known THEN got[c] ELSE buffer[c]]
    BY <1>7 DEF OnResponseData
  <2>2. UNCHANGED <<hallVars, threadVars>>
    BY <1>7 DEF OnResponseData
  <2>3. \A c \in Cameras : buffer[c] # 0 => buffer'[c] # 0
    BY <2>1
  <2>4. wanted \subseteq Cameras
    BY DEF Typed, TypeOK
  <2>5. Missing(wanted, buffer) = {} => Missing(wanted, buffer)' = {}
    BY <2>2, <2>3, <2>4 DEF Missing, hallVars
  <2> QED BY <2>2, <2>5 DEF hallVars, threadVars
<1>8. CASE EndSession \/ NewSession
  BY <1>8 DEF EndSession, NewSession, threadVars
<1>9. CASE HallTakes
  <2>1. [run |-> event, data |-> hallData].run = event
    OBVIOUS
  <2> QED BY <1>9, <2>1 DEF HallTakes, hallVars, Missing
<1>10. CASE HallCounts
  <2>1. computing \in Count /\ counts = <<>>
    BY <1>10 DEF HallCounts, Typed, TypeOK
  <2>2. Len(Append(counts, computing)) = 1 /\ Append(counts, computing)[1] = computing
    BY <2>1
  <2>3. UNCHANGED <<hallVars, buffer, event>> /\ computing' = NoCount
    BY <1>10 DEF HallCounts
  <2>4. counts' = Append(counts, computing) \/ counts' = <<>>
    BY <1>10, <2>1 DEF HallCounts
  <2>5. phase = "process" /\ event = 0 /\ ~ spectators.valid /\ computing.run = run
    BY <1>10 DEF HallCounts
  <2>6. Missing(wanted, buffer)' = {}
    BY <2>3, <2>5 DEF hallVars, Missing
  <2>7. counts' # <<>> => Len(counts') = 1 /\ counts'[1].run = run
    BY <2>2, <2>4, <2>5
  <2> QED BY <2>3, <2>5, <2>6, <2>7 DEF hallVars
<1>11. CASE CameraStep
  BY <1>11, CameraFrame DEF hallVars, threadVars, Missing
<1>12. CASE UNCHANGED vars
  BY <1>12 DEF vars, hallVars, threadVars, Missing
<1> QED
  BY <1>1, <1>2, <1>3, <1>4, <1>5, <1>6, <1>7, <1>8, <1>9, <1>10, <1>11, <1>12
     DEF Next, HallNext, Exec, ThreadNext, CameraStep

(* A row holds the count its own measurement asked for when no timer fires  *)
(* too early and m_bValid begins FALSE.  Neither condition can be left      *)
(* out: a late count is saved by the next measurement, a TRUE without one.  *)
THEOREM TimelyCountsAreOwn ==
  MeasurementAssumption /\ Timely /\ Garbage \subseteq {FALSE} => (Spec => []OwnCount)
<1> SUFFICES ASSUME MeasurementAssumption, Timely, Garbage \subseteq {FALSE}
             PROVE  Spec => []OwnCount
  OBVIOUS
<1>1. Init => InTime
  BY InitInTime
<1>2. Typed /\ InTime /\ [Next]_vars => InTime'
  BY StepInTime
<1>3. InTime => OwnCount
  BY DEF InTime
<1> QED BY <1>1, <1>2, <1>3, AlwaysTyped, PTL DEF Spec
=============================================================================
