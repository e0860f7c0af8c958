-------------------------- MODULE RoomSessionProofs --------------------------
(***************************************************************************)
(* Proofs about RoomSession for any number of camera servers, films,       *)
(* packets under way, crashes and failed starts: which films agree when    *)
(* the network loses, reorders and duplicates packets, and that nobody is  *)
(* disturbed or goes back when it only loses them.                         *)
(***************************************************************************)
EXTENDS RoomSession, TLAPS

(* Taking one message out of a channel leaves the others in their order.    *)
LEMMA RemoveAtFacts ==
  ASSUME NEW S, NEW q \in Seq(S), NEW i \in DOMAIN q
  PROVE  /\ RemoveAt(q, i) \in Seq(S) /\ Len(RemoveAt(q, i)) = Len(q) - 1
         /\ \A j \in DOMAIN RemoveAt(q, i) : \E k \in DOMAIN q : RemoveAt(q, i)[j] = q[k]
         /\ \A j \in DOMAIN RemoveAt(q, i) :
              RemoveAt(q, i)[j] = IF j < i THEN q[j] ELSE q[j + 1]
<1>1. i \in 1..Len(q) /\ Len(q) \in Nat /\ DOMAIN q = 1..Len(q)
  OBVIOUS
<1>2. RemoveAt(q, i) \in Seq(S) /\ Len(RemoveAt(q, i)) = Len(q) - 1
  BY <1>1 DEF RemoveAt
<1>3. ASSUME NEW j \in 1..(Len(q) - 1)
      PROVE  RemoveAt(q, i)[j] = IF j < i THEN q[j] ELSE q[j + 1]
  <2>1. CASE j < i
    BY <1>1, <2>1 DEF RemoveAt
  <2>2. CASE ~ (j < i)
    BY <1>1, <2>2 DEF RemoveAt
  <2> QED BY <2>1, <2>2
<1>4. DOMAIN RemoveAt(q, i) = 1..(Len(q) - 1)
  BY <1>1, <1>2
<1>5. ASSUME NEW j \in DOMAIN RemoveAt(q, i) PROVE \E k \in DOMAIN q : RemoveAt(q, i)[j] = q[k]
  <2>1. j \in DOMAIN q /\ j + 1 \in DOMAIN q
    BY <1>1, <1>4
  <2> QED BY <1>3, <1>4, <2>1
<1> QED BY <1>2, <1>3, <1>4, <1>5

(* What is true of every packet p under way, given the hall server h and    *)
(* the last GUID g: no packet is of a session that is still to come, and    *)
(* while the hall server works, a packet that names its session carries its *)
(* film and does not say that it is stopped.                                *)
GoodPacket(p, h, g) ==
  p.type # "stop" =>
    /\ p.session <= g
    /\ h.up /\ h.running /\ p.session = h.session =>
         /\ p.film = h.film
         /\ p.type = "state" => p.working

GoodNet == \A c \in Cameras : \A i \in DOMAIN net[c] : GoodPacket(net[c][i], hall, guids)

KnownSessions ==
  /\ 1 <= hall.session /\ hall.session <= guids
  /\ \A c \in Cameras : cam[c].session <= guids

RoomInv == TypeOK /\ KnownSessions /\ GoodNet /\ SameSessionSameFilm

LEMMA ConstantFacts ==
  /\ MaxGuid \in Nat \ {0} /\ Guid \subseteq Nat /\ 0 \in Guid /\ 1 \in Guid
  /\ NoFilm \in AnyFilm /\ Film \subseteq AnyFilm /\ MaxCrash \in Nat /\ MaxFailed \in Nat
BY RoomAssumption DEF Guid, AnyFilm

LEMMA PacketFacts ==
  ASSUME NEW p \in Packet
  PROVE  /\ p.type = "start" => p.session \in Guid /\ p.film \in AnyFilm
         /\ p.type = "state" =>
              p.working \in BOOLEAN /\ p.session \in Guid /\ p.film \in AnyFilm
BY DEF Packet, NetStart, NetStop, NetCurrentState

LEMMA InitRoom == Init => RoomInv
BY ConstantFacts
   DEF Init, RoomInv, TypeOK, KnownSessions, GoodNet, SameSessionSameFilm, HallWorks,
       Server, Crashing

(* A multicast keeps the channels typed, and every packet under way is an   *)
(* old one or the new one.                                                  *)
LEMMA MulticastFacts ==
  ASSUME TypeOK, NEW p \in Packet, Multicast(p)
  PROVE  /\ net' \in [Cameras -> Seq(Packet)]
         /\ \A c \in Cameras : \A i \in DOMAIN net'[c] :
              net'[c][i] = p \/ \E k \in DOMAIN net[c] : net'[c][i] = net[c][k]
<1> SUFFICES ASSUME NEW c \in Cameras
             PROVE  /\ net'[c] \in Seq(Packet)
                    /\ \A i \in DOMAIN net'[c] :
                         net'[c][i] = p \/ \E k \in DOMAIN net[c] : net'[c][i] = net[c][k]
  BY DEF Multicast
<1>1. net[c] \in Seq(Packet)
  BY DEF TypeOK
<1>2. net'[c] = Append(net[c], p) \/ net'[c] = net[c]
  BY DEF Multicast
<1>3. CASE net'[c] = Append(net[c], p)
  <2>1. /\ DOMAIN net'[c] = 1..(Len(net[c]) + 1) /\ DOMAIN net[c] = 1..Len(net[c])
        /\ Len(net[c]) \in Nat
        /\ net'[c][Len(net[c]) + 1] = p
        /\ \A i \in 1..Len(net[c]) : net'[c][i] = net[c][i]
        /\ net'[c] \in Seq(Packet)
    BY <1>1, <1>3
  <2> QED BY <2>1
<1>4. CASE net'[c] = net[c]
  BY <1>1, <1>4
<1> QED BY <1>2, <1>3, <1>4

(* A multicast of a good packet leaves only good packets under way.         *)
LEMMA MulticastGood ==
  ASSUME TypeOK, NEW p \in Packet, Multicast(p), GoodPacket(p, hall', guids'),
         \A c \in Cameras : \A i \in DOMAIN net[c] : GoodPacket(net[c][i], hall', guids')
  PROVE  GoodNet' /\ net' \in [Cameras -> Seq(Packet)]
BY MulticastFacts DEF GoodNet

(* The packets that stay under way when one arrives or is lost.             *)
LEMMA ChannelFacts ==
  ASSUME TypeOK, NEW c \in Cameras, NEW i \in DOMAIN net[c],
         net' = net \/ net' = [net EXCEPT ![c] = RemoveAt(@, i)]
  PROVE  /\ net' \in [Cameras -> Seq(Packet)]
         /\ \A d \in Cameras : \A j \in DOMAIN net'[d] :
              \E k \in DOMAIN net[d] : net'[d][j] = net[d][k]
<1>1. CASE net' = net
  BY <1>1 DEF TypeOK
<1>2. CASE net' = [net EXCEPT ![c] = RemoveAt(@, i)]
  <2>1. net[c] \in Seq(Packet) /\ net \in [Cameras -> Seq(Packet)]
    BY DEF TypeOK
  <2>2. /\ RemoveAt(net[c], i) \in Seq(Packet)
        /\ \A j \in DOMAIN RemoveAt(net[c], i) :
             \E k \in DOMAIN net[c] : RemoveAt(net[c], i)[j] = net[c][k]
    BY <2>1, RemoveAtFacts
  <2>3. /\ net'[c] = RemoveAt(net[c], i)
        /\ \A d \in Cameras : d # c => net'[d] = net[d]
        /\ net' \in [Cameras -> Seq(Packet)]
    BY <1>2, <2>1, <2>2
  <2> QED BY <2>2, <2>3
<1> QED BY <1>1, <1>2
-----------------------------------------------------------------------------
(* A step of the hall server that ends with the server stopped or down      *)
(* promises nothing about sessions.                                         *)
LEMMA StoppedIsFree ==
  ASSUME ~(hall'.up /\ hall'.running)
  PROVE  SameSessionSameFilm'
BY DEF SameSessionSameFilm, HallWorks

LEMMA OldPackets ==
  ASSUME RoomInv, ~(hall'.up /\ hall'.running), guids' \in Nat, guids <= guids'
  PROVE  \A c \in Cameras : \A i \in DOMAIN net[c] : GoodPacket(net[c][i], hall', guids')
<1> SUFFICES ASSUME NEW c \in Cameras, NEW i \in DOMAIN net[c]
             PROVE  GoodPacket(net[c][i], hall', guids')
  OBVIOUS
<1>1. net[c][i] \in Packet /\ GoodPacket(net[c][i], hall, guids) /\ guids \in Nat
  BY ConstantFacts DEF RoomInv, TypeOK, GoodNet
<1>2. net[c][i].type \in {"start", "stop", "state"}
  BY <1>1 DEF Packet, NetStart, NetStop, NetCurrentState
<1>3. net[c][i].type # "stop" => net[c][i].session \in Nat
  BY <1>1, <1>2, PacketFacts, ConstantFacts
<1> QED BY <1>1, <1>3 DEF GoodPacket

LEMMA StartWorkStep ==
  ASSUME RoomInv, NEW f \in Film, StartWork(f)
  PROVE  RoomInv'
<1> DEFINE p == [type |-> "start", session |-> guids', film |-> f]
<1>10. guids' = guids + 1 /\ guids' \in Guid /\ guids' \in Nat /\ guids \in Nat
  BY ConstantFacts DEF StartWork, RoomInv, TypeOK, Guid
<1>11. hall' \in Server /\ hall'.session = guids' /\ hall'.film = f
  <2>1. hall \in Server /\ f \in AnyFilm
    BY ConstantFacts DEF RoomInv, TypeOK
  <2>2. hall' = [hall EXCEPT !.film = f, !.session = guids', !.running = TRUE]
    BY DEF StartWork
  <2> QED BY <1>10, <2>1, <2>2 DEF Server
<1>1. UNCHANGED <<cam, crashes, failed>> /\ Multicast(p)
  BY DEF StartWork
<1>2. p \in Packet
  BY <1>10, ConstantFacts DEF Packet, NetStart
<1>3. GoodPacket(p, hall', guids')
  BY <1>10, <1>11 DEF GoodPacket
<1>4. ASSUME NEW c \in Cameras, NEW i \in DOMAIN net[c]
      PROVE  GoodPacket(net[c][i], hall', guids')
  <2>1. net[c][i] \in Packet /\ GoodPacket(net[c][i], hall, guids)
    BY DEF RoomInv, TypeOK, GoodNet
  <2>2. net[c][i].type \in {"start", "stop", "state"}
    BY <2>1 DEF Packet, NetStart, NetStop, NetCurrentState
  <2>3. net[c][i].type # "stop" => net[c][i].session \in Nat
    BY <2>1, <2>2, PacketFacts, ConstantFacts
  <2> QED BY <1>10, <1>11, <2>1, <2>3 DEF GoodPacket
<1>5. GoodNet' /\ net' \in [Cameras -> Seq(Packet)]
  BY <1>1, <1>2, <1>3, <1>4, MulticastGood DEF RoomInv
<1>6. TypeOK'
  BY <1>10, <1>11, <1>1, <1>5 DEF RoomInv, TypeOK
<1>7. \A c \in Cameras : cam'[c].session \in Nat /\ cam'[c].session <= guids
  BY <1>1, ConstantFacts DEF RoomInv, TypeOK, KnownSessions, Server
<1>8. KnownSessions' /\ SameSessionSameFilm'
  BY <1>10, <1>11, <1>1, <1>7 DEF KnownSessions, SameSessionSameFilm, RoomInv
<1> QED BY <1>5, <1>6, <1>8 DEF RoomInv

LEMMA StopWorkStep ==
  ASSUME RoomInv, StopWork
  PROVE  RoomInv'
<1> DEFINE p == [type |-> "stop"]
<1>1. /\ hall' \in Server /\ ~hall'.running /\ hall'.session = hall.session
      /\ UNCHANGED <<cam, guids, crashes, failed>> /\ Multicast(p) /\ guids \in Nat
  BY ConstantFacts DEF StopWork, RoomInv, TypeOK, Server
<1>2. p \in Packet /\ GoodPacket(p, hall', guids')
  BY DEF Packet, NetStop, GoodPacket
<1>3. GoodNet' /\ net' \in [Cameras -> Seq(Packet)]
  BY <1>1, <1>2, OldPackets, MulticastGood DEF RoomInv
<1>4. TypeOK' /\ KnownSessions'
  BY <1>1, <1>3 DEF RoomInv, TypeOK, KnownSessions
<1> QED BY <1>1, <1>3, <1>4, StoppedIsFree DEF RoomInv

LEMMA SendCurrentStateStep ==
  ASSUME RoomInv, SendCurrentState
  PROVE  RoomInv'
<1> DEFINE p == [type |-> "state", working |-> hall.running,
                 session |-> hall.session, film |-> hall.film]
<1>1. /\ hall \in Server /\ hall.up /\ 1 <= hall.session /\ hall.session <= guids
      /\ UNCHANGED <<hall, cam, guids, crashes, failed>> /\ Multicast(p)
  BY DEF SendCurrentState, RoomInv, TypeOK, KnownSessions
<1>2. p \in Packet /\ GoodPacket(p, hall', guids')
  BY <1>1 DEF Packet, NetCurrentState, GoodPacket, Server
<1>3. GoodNet' /\ net' \in [Cameras -> Seq(Packet)]
  BY <1>1, <1>2, MulticastGood DEF RoomInv, GoodNet
<1>4. TypeOK' /\ KnownSessions' /\ SameSessionSameFilm'
  BY <1>1, <1>3 DEF RoomInv, TypeOK, KnownSessions, SameSessionSameFilm, HallWorks
<1> QED BY <1>3, <1>4 DEF RoomInv

(* The steps of the hall server that send nothing.                          *)
LEMMA SilentHallStep ==
  ASSUME RoomInv, (\E f \in Film : StartWorkFails(f)) \/ CrashHall \/ BootHall
  PROVE  RoomInv'
<1> DEFINE Quiet ==
             /\ hall' \in Server /\ ~hall'.running
             /\ guids' \in Guid /\ guids' \in Nat /\ guids <= guids' /\ guids \in Nat
             /\ 1 <= hall'.session /\ hall'.session <= guids'
             /\ crashes' \in [Crashing -> 0..MaxCrash]
             /\ UNCHANGED <<cam, net, failed>>
<1>1. Quiet
  <2>1. /\ hall \in Server /\ guids \in Guid /\ guids \in Nat
        /\ crashes \in [Crashing -> 0..MaxCrash]
        /\ 1 <= hall.session /\ hall.session <= guids
    BY ConstantFacts DEF RoomInv, TypeOK, KnownSessions
  <2>2. ASSUME NEW f \in Film, StartWorkFails(f) PROVE Quiet
    <3>1. hall' = [hall EXCEPT !.film = f] /\ ~hall.running /\ f \in AnyFilm
          /\ UNCHANGED <<cam, net, guids, crashes, failed>>
      BY <2>2, ConstantFacts DEF StartWorkFails
    <3> QED BY <2>1, <3>1 DEF Server
  <2>3. CASE CrashHall
    <3>1. hall' = [hall EXCEPT !.up = FALSE, !.running = FALSE]
          /\ UNCHANGED <<cam, net, guids, failed>>
      BY <2>3 DEF CrashHall
    <3>2. crashes' \in [Crashing -> 0..MaxCrash]
      BY <2>1, <2>3, ConstantFacts DEF CrashHall, Crashing
    <3>3. hall' \in Server /\ ~hall'.running /\ hall'.session = hall.session
      BY <2>1, <3>1 DEF Server
    <3> QED BY <2>1, <3>1, <3>2, <3>3
  <2>4. CASE BootHall
    <3>1. hall' = [up |-> TRUE, running |-> FALSE, session |-> guids', film |-> NoFilm]
          /\ guids' = guids + 1 /\ guids < MaxGuid
          /\ UNCHANGED <<cam, net, crashes, failed>>
      BY <2>4 DEF BootHall
    <3>2. guids' \in Guid /\ guids' \in Nat
      BY <2>1, <3>1, ConstantFacts DEF Guid
    <3> QED BY <2>1, <3>1, <3>2, ConstantFacts DEF Server
  <2> HIDE DEF Quiet
  <2> QED BY <2>2, <2>3, <2>4
<1>2. GoodNet'
  BY <1>1, OldPackets DEF GoodNet
<1>3. TypeOK'
  BY <1>1 DEF RoomInv, TypeOK
<1>4. \A c \in Cameras : cam[c].session \in Nat /\ cam[c].session <= guids
  BY ConstantFacts DEF RoomInv, TypeOK, KnownSessions, Server
<1>5. KnownSessions'
  BY <1>1, <1>4 DEF KnownSessions
<1> QED BY <1>1, <1>2, <1>3, <1>5, StoppedIsFree DEF RoomInv
-----------------------------------------------------------------------------
(* What a step of camera server c has to leave behind.                      *)
CameraStepOK(c) ==
  /\ \E server \in Server : cam' = [cam EXCEPT ![c] = server]
  /\ cam'[c].session <= guids
  /\ HallWorks /\ cam'[c].session = hall.session => cam'[c].film = hall.film
  /\ failed' \in [Cameras -> 0..MaxFailed]
  /\ crashes' \in [Crashing -> 0..MaxCrash]
  /\ UNCHANGED <<hall, guids>>

LEMMA CameraStep ==
  ASSUME RoomInv, NEW c \in Cameras, CameraStepOK(c),
         net' \in [Cameras -> Seq(Packet)],
         \A d \in Cameras : \A j \in DOMAIN net'[d] :
           \E k \in DOMAIN net[d] : net'[d][j] = net[d][k]
  PROVE  RoomInv'
<1>1. cam \in [Cameras -> Server]
  BY DEF RoomInv, TypeOK
<1>2. cam' \in [Cameras -> Server] /\ \A d \in Cameras : d # c => cam'[d] = cam[d]
  BY <1>1 DEF CameraStepOK
<1>3. TypeOK'
  BY <1>2 DEF CameraStepOK, RoomInv, TypeOK
<1>4. GoodNet'
  BY DEF CameraStepOK, RoomInv, GoodNet
<1>5. KnownSessions'
  BY <1>2 DEF CameraStepOK, RoomInv, KnownSessions
<1>6. SameSessionSameFilm'
  BY <1>2 DEF CameraStepOK, RoomInv, SameSessionSameFilm, HallWorks
<1> QED BY <1>3, <1>4, <1>5, <1>6 DEF RoomInv

LEMMA SameChannels ==
  ASSUME RoomInv, UNCHANGED net
  PROVE  /\ net' \in [Cameras -> Seq(Packet)]
         /\ \A d \in Cameras : \A j \in DOMAIN net'[d] :
              \E k \in DOMAIN net[d] : net'[d][j] = net[d][k]
BY DEF RoomInv, TypeOK

(* A restart for a good session leaves the film of that session.            *)
LEMMA RestartStep ==
  ASSUME RoomInv, NEW c \in Cameras, NEW s \in Guid, NEW f \in AnyFilm,
         Restart(c, s, f), UNCHANGED <<hall, guids, crashes>>, s <= guids,
         HallWorks /\ s = hall.session => f = hall.film
  PROVE  CameraStepOK(c)
<1>1. /\ cam \in [Cameras -> Server] /\ cam[c] \in Server
      /\ crashes \in [Crashing -> 0..MaxCrash]
      /\ failed \in [Cameras -> 0..MaxFailed]
  BY DEF RoomInv, TypeOK
<1>2. PICK b \in BOOLEAN :
        cam' = [cam EXCEPT ![c] = [@ EXCEPT !.session = s, !.film = f, !.running = b]]
  BY DEF Restart
<1> DEFINE server == [cam[c] EXCEPT !.session = s, !.film = f, !.running = b]
<1>3. server \in Server /\ server.session = s /\ server.film = f
  BY <1>1 DEF Server
<1>4. cam' = [cam EXCEPT ![c] = server]
  BY <1>2
<1>5. failed' \in [Cameras -> 0..MaxFailed]
  BY <1>1, ConstantFacts DEF Restart
<1> HIDE DEF server
<1>6. cam'[c].session = s /\ cam'[c].film = f
  BY <1>1, <1>3, <1>4
<1> QED BY <1>3, <1>4, <1>5, <1>6, <1>1 DEF CameraStepOK

LEMMA ReceiveStep ==
  ASSUME RoomInv, NEW c \in Cameras, Receive(c)
  PROVE  RoomInv'
<1>1. PICK i \in DOMAIN net[c] :
        /\ Arrives(c, i)
        /\ \/ OnStartWork(c, net[c][i]) \/ OnStopWork(c, net[c][i])
           \/ OnCurrentState(c, net[c][i])
        /\ UNCHANGED <<hall, guids, crashes>>
  BY DEF Receive
<1> DEFINE p == net[c][i]
<1>2. p \in Packet /\ GoodPacket(p, hall, guids)
  BY DEF RoomInv, TypeOK, GoodNet
<1>3. /\ cam \in [Cameras -> Server] /\ cam[c] \in Server /\ cam[c].session <= guids
      /\ failed \in [Cameras -> 0..MaxFailed]
      /\ crashes \in [Crashing -> 0..MaxCrash]
      /\ HallWorks /\ cam[c].session = hall.session => cam[c].film = hall.film
  BY DEF RoomInv, TypeOK, KnownSessions, SameSessionSameFilm
<1> HIDE DEF p
<1>4. CASE OnStartWork(c, p)
  <2>1. p.session \in Guid /\ p.film \in AnyFilm /\ Restart(c, p.session, p.film)
    BY <1>2, <1>4, PacketFacts DEF OnStartWork
  <2>2. p.session <= guids /\ (HallWorks /\ p.session = hall.session => p.film = hall.film)
    BY <1>2, <1>4 DEF OnStartWork, GoodPacket, HallWorks
  <2> QED BY <1>1, <2>1, <2>2, RestartStep, CameraStep, ChannelFacts DEF Arrives, RoomInv
<1>5. ASSUME NEW s \in Guid, s <= guids, NEW b \in BOOLEAN,
             HallWorks /\ s = hall.session => cam[c].film = hall.film,
             cam' = [cam EXCEPT ![c] = [@ EXCEPT !.session = s, !.running = b]], UNCHANGED failed
      PROVE  CameraStepOK(c)
  <2> DEFINE server == [cam[c] EXCEPT !.session = s, !.running = b]
  <2>1. server \in Server /\ server.session = s /\ server.film = cam[c].film
    BY <1>3, <1>5 DEF Server
  <2>2. cam' = [cam EXCEPT ![c] = server]
    BY <1>5
  <2> HIDE DEF server
  <2>3. cam'[c].session = s /\ cam'[c].film = cam[c].film
    BY <1>3, <2>1, <2>2
  <2> QED BY <1>1, <1>3, <1>5, <2>1, <2>2, <2>3 DEF CameraStepOK
<1>6. ASSUME NEW b \in BOOLEAN, cam' = [cam EXCEPT ![c] = [@ EXCEPT !.running = b]], UNCHANGED failed
      PROVE  CameraStepOK(c)
  <2>1. cam' = [cam EXCEPT ![c] = [@ EXCEPT !.session = cam[c].session, !.running = b]]
    BY <1>3, <1>6 DEF Server
  <2>2. cam[c].session \in Guid
    BY <1>3 DEF Server
  <2> QED BY <1>3, <1>5, <1>6, <2>1, <2>2
<1>7. CASE OnStopWork(c, p)
  <2>1. CameraStepOK(c)
    BY <1>6, <1>7 DEF OnStopWork
  <2> QED BY <1>1, <2>1, CameraStep, ChannelFacts DEF Arrives, RoomInv
<1>8. CASE OnCurrentState(c, p)
  <2>1. /\ p.type = "state" /\ p.working \in BOOLEAN
        /\ p.session \in Guid /\ p.film \in AnyFilm /\ p.session <= guids
        /\ HallWorks /\ p.session = hall.session => p.film = hall.film /\ p.working
    BY <1>2, <1>8, PacketFacts DEF OnCurrentState, GoodPacket, HallWorks
  <2>2. ASSUME p.working, Restart(c, p.session, p.film) PROVE CameraStepOK(c)
    BY <1>1, <2>1, <2>2, RestartStep
  <2>3. ASSUME ~p.working, cam' = [cam EXCEPT ![c] = [@ EXCEPT !.session = p.session]], UNCHANGED failed
        PROVE  CameraStepOK(c)
    <3>1. cam' = [cam EXCEPT ![c] = [@ EXCEPT !.session = p.session, !.running = cam[c].running]]
          /\ cam[c].running \in BOOLEAN
      BY <1>3, <2>3 DEF Server
    <3> QED BY <1>5, <2>1, <2>3, <3>1
  <2>4. ASSUME cam' = [cam EXCEPT ![c].running = @ /\ p.working], UNCHANGED failed
        PROVE  CameraStepOK(c)
    <3>1. (cam[c].running /\ p.working) \in BOOLEAN
      OBVIOUS
    <3> QED BY <1>6, <2>4, <3>1
  <2>5. CameraStepOK(c)
    BY <1>8, <2>2, <2>3, <2>4 DEF OnCurrentState
  <2> QED BY <1>1, <2>5, CameraStep, ChannelFacts DEF Arrives, RoomInv
<1> QED BY <1>1, <1>4, <1>7, <1>8 DEF p

LEMMA LoseStep ==
  ASSUME RoomInv, NEW c \in Cameras, Lose(c)
  PROVE  RoomInv'
<1>1. /\ cam \in [Cameras -> Server]
      /\ cam[c] \in Server /\ cam' = [cam EXCEPT ![c] = cam[c]]
  BY DEF RoomInv, TypeOK, Lose
<1>2. CameraStepOK(c)
  BY <1>1 DEF CameraStepOK, Lose, RoomInv, TypeOK, KnownSessions, SameSessionSameFilm
<1> QED BY <1>2, CameraStep, ChannelFacts DEF Lose, RoomInv

LEMMA CrashOrBootCameraStep ==
  ASSUME RoomInv, NEW c \in Cameras, CrashCamera(c) \/ BootCamera(c)
  PROVE  RoomInv'
<1>1. /\ cam \in [Cameras -> Server] /\ cam[c] \in Server
      /\ cam[c].session <= guids /\ hall.session \in Nat /\ 1 <= hall.session
      /\ guids \in Nat
      /\ HallWorks /\ cam[c].session = hall.session => cam[c].film = hall.film
      /\ crashes \in [Crashing -> 0..MaxCrash] /\ failed \in [Cameras -> 0..MaxFailed]
  BY ConstantFacts DEF RoomInv, TypeOK, KnownSessions, SameSessionSameFilm, Server
<1>2. CASE CrashCamera(c)
  <2> DEFINE server == [cam[c] EXCEPT !.up = FALSE, !.running = FALSE]
  <2>1. /\ server \in Server /\ server.session = cam[c].session
        /\ server.film = cam[c].film
    BY <1>1 DEF Server
  <2>2. cam' = [cam EXCEPT ![c] = server]
    BY <1>2 DEF CrashCamera
  <2>3. crashes' \in [Crashing -> 0..MaxCrash]
    BY <1>1, <1>2, ConstantFacts DEF CrashCamera, Crashing
  <2> HIDE DEF server
  <2>4. cam'[c].session = cam[c].session /\ cam'[c].film = cam[c].film
    BY <1>1, <2>1, <2>2
  <2>5. UNCHANGED <<hall, net, guids, failed>>
    BY <1>2 DEF CrashCamera
  <2>6. CameraStepOK(c)
    BY <1>1, <2>1, <2>2, <2>3, <2>4, <2>5 DEF CameraStepOK
  <2> QED BY <2>5, <2>6, CameraStep, SameChannels
<1>3. CASE BootCamera(c)
  <2> DEFINE server == [up |-> TRUE, running |-> FALSE, session |-> 0, film |-> NoFilm]
  <2>1. server \in Server /\ server.session = 0
    BY ConstantFacts DEF Server
  <2>2. cam' = [cam EXCEPT ![c] = server]
    BY <1>3 DEF BootCamera
  <2>3. UNCHANGED <<hall, net, guids, crashes, failed>>
    BY <1>3 DEF BootCamera
  <2> HIDE DEF server
  <2>4. cam'[c].session = 0
    BY <1>1, <2>1, <2>2
  <2>5. 0 <= guids /\ 0 # hall.session
    BY <1>1
  <2>6. CameraStepOK(c)
    BY <1>1, <2>1, <2>2, <2>3, <2>4, <2>5, Zenon DEF CameraStepOK
  <2> QED BY <2>3, <2>6, CameraStep, SameChannels
<1> QED BY <1>2, <1>3
-----------------------------------------------------------------------------
LEMMA NextRoom == RoomInv /\ [Next]_vars => RoomInv'
<1> SUFFICES ASSUME RoomInv, [Next]_vars PROVE RoomInv'
  OBVIOUS
<1>1. CASE HallNext
  BY <1>1, StartWorkStep, StopWorkStep, SendCurrentStateStep, SilentHallStep
     DEF HallNext
<1>2. ASSUME NEW c \in Cameras, CameraNext(c) \/ Lose(c) PROVE RoomInv'
  BY <1>2, ReceiveStep, LoseStep, CrashOrBootCameraStep DEF CameraNext
<1>3. CASE UNCHANGED vars
  BY <1>3 DEF vars, RoomInv, TypeOK, KnownSessions, GoodNet, SameSessionSameFilm, HallWorks
<1> QED BY <1>1, <1>2, <1>3 DEF Next

LEMMA RoomInvHolds == Spec => []RoomInv
BY InitRoom, NextRoom, PTL DEF Spec

(* Type correctness of the servers and of the packets under way.            *)
THEOREM RoomTypeCorrect == Spec => []TypeOK
BY RoomInvHolds, PTL DEF RoomInv

(* For every number of camera servers, of packets under way, of crashes and *)
(* of failed starts, and however the network loses, reorders or duplicates: *)
(* a camera server that names the session the hall server works on has the  *)
(* film of the hall server.                                                 *)
THEOREM FilmAgreement == Spec => []SameSessionSameFilm
BY RoomInvHolds, PTL DEF RoomInv
-----------------------------------------------------------------------------
(* A packet that would stop or restart a camera server that is in step.     *)
Disturbing(p) == p.type = "stop" \/ (p.type = "start" /\ p.session = hall.session)

(* What is under way to c when packets keep their order: no packet names an *)
(* older session than one before it, or than c does; and what would disturb *)
(* c comes before every packet of the session of the hall.                  *)
Ordered(c) ==
  /\ \A i, j \in DOMAIN net[c] :
       i < j /\ net[c][i].type # "stop" /\ net[c][j].type # "stop"
         => net[c][i].session <= net[c][j].session
  /\ \A i \in DOMAIN net[c] :
       net[c][i].type # "stop" => cam[c].session <= net[c][i].session
  /\ HallWorks =>
       \A i \in DOMAIN net[c] : Disturbing(net[c][i]) =>
         /\ cam[c].session # hall.session
         /\ \A j \in DOMAIN net[c] :
              j < i /\ net[c][j].type # "stop" => net[c][j].session # hall.session

OrderInv == hall.session = guids /\ \A c \in Cameras : Ordered(c)

(* Sessions are numbers, none of which is still to come.                    *)
LEMMA SessionFacts ==
  ASSUME RoomInv
  PROVE  /\ guids \in Nat /\ hall.session \in Nat /\ 1 <= hall.session
         /\ \A c \in Cameras : cam[c].session \in Nat /\ cam[c].session <= guids
         /\ \A c \in Cameras : \A i \in DOMAIN net[c] :
              /\ net[c][i] \in Packet /\ i \in Nat
              /\ net[c][i].type \in {"start", "stop", "state"}
              /\ net[c][i].type # "stop" =>
                   net[c][i].session \in Nat /\ net[c][i].session <= guids
<1>1. /\ guids \in Nat /\ hall.session \in Nat /\ 1 <= hall.session
      /\ \A c \in Cameras : cam[c].session \in Nat /\ cam[c].session <= guids
  BY ConstantFacts DEF RoomInv, TypeOK, KnownSessions, Server
<1>2. ASSUME NEW c \in Cameras, NEW i \in DOMAIN net[c]
      PROVE  /\ net[c][i] \in Packet /\ i \in Nat
             /\ net[c][i].type \in {"start", "stop", "state"}
             /\ net[c][i].type # "stop" =>
                  net[c][i].session \in Nat /\ net[c][i].session <= guids
  <2>1. net[c][i] \in Packet /\ i \in Nat /\ GoodPacket(net[c][i], hall, guids)
    BY DEF RoomInv, TypeOK, GoodNet
  <2>2. net[c][i].type \in {"start", "stop", "state"}
    BY <2>1 DEF Packet, NetStart, NetStop, NetCurrentState
  <2>3. net[c][i].type # "stop" => net[c][i].session \in Nat
    BY <2>1, <2>2, PacketFacts, ConstantFacts
  <2> QED BY <2>1, <2>2, <2>3 DEF GoodPacket
<1> QED BY <1>1, <1>2

(* A multicast puts its packet behind the others, or nowhere.               *)
LEMMA MulticastOrder ==
  ASSUME RoomInv, NEW p \in Packet, Multicast(p), NEW c \in Cameras
  PROVE  \A i \in DOMAIN net'[c] :
           \/ i \in DOMAIN net[c] /\ net'[c][i] = net[c][i]
           \/ net'[c][i] = p /\ \A j \in DOMAIN net'[c] : j # i =>
                j < i /\ j \in DOMAIN net[c] /\ net'[c][j] = net[c][j]
<1>1. net[c] \in Seq(Packet)
  BY DEF RoomInv, TypeOK
<1>2. CASE net'[c] = Append(net[c], p)
  <2>1. /\ DOMAIN net'[c] = 1..(Len(net[c]) + 1) /\ DOMAIN net[c] = 1..Len(net[c])
        /\ Len(net[c]) \in Nat /\ net'[c][Len(net[c]) + 1] = p
        /\ \A i \in 1..Len(net[c]) : net'[c][i] = net[c][i]
    BY <1>1, <1>2
  <2> QED BY <2>1
<1>3. CASE net'[c] = net[c]
  BY <1>3
<1> QED BY <1>2, <1>3 DEF Multicast

(* A multicast keeps the order when its packet is of the newest session,    *)
(* and disturbs nobody but when it is the first of a session.               *)
LEMMA MulticastOrdered ==
  ASSUME RoomInv, OrderInv, NEW p \in Packet, Multicast(p), UNCHANGED cam,
         p.type # "stop" => p.session = guids', hall'.session = guids',
         \/ ~HallWorks'
         \/ UNCHANGED <<hall, guids>> /\ p.type = "state"
         \/ guids' = guids + 1 /\ p.type # "stop",
         guids' = guids \/ guids' = guids + 1
  PROVE  OrderInv'
<1> SUFFICES ASSUME NEW c \in Cameras PROVE Ordered(c)'
  BY DEF OrderInv
<1>1. /\ guids \in Nat /\ cam[c].session \in Nat /\ cam[c].session <= guids
      /\ \A i \in DOMAIN net[c] :
           /\ i \in Nat
           /\ net[c][i].type # "stop" =>
                net[c][i].session \in Nat /\ net[c][i].session <= guids
  BY SessionFacts
<1>2. \A i \in DOMAIN net'[c] :
        \/ i \in DOMAIN net[c] /\ net'[c][i] = net[c][i]
        \/ net'[c][i] = p /\ \A j \in DOMAIN net'[c] : j # i =>
             j < i /\ j \in DOMAIN net[c] /\ net'[c][j] = net[c][j]
  BY MulticastOrder
<1>3. DOMAIN net'[c] \subseteq Nat
  BY MulticastFacts DEF RoomInv
<1>4. Ordered(c)
  BY DEF OrderInv
<1>5. ASSUME NEW i \in DOMAIN net'[c], NEW j \in DOMAIN net'[c], i < j,
             net'[c][i].type # "stop", net'[c][j].type # "stop"
      PROVE  net'[c][i].session <= net'[c][j].session
  <2>1. i \in DOMAIN net[c] /\ net'[c][i] = net[c][i]
    BY <1>2, <1>3, <1>5
  <2>2. CASE j \in DOMAIN net[c] /\ net'[c][j] = net[c][j]
    BY <1>4, <1>5, <2>1, <2>2 DEF Ordered
  <2>3. CASE net'[c][j] = p
    BY <1>1, <1>5, <2>1, <2>3
  <2> QED BY <1>2, <2>2, <2>3
<1>6. ASSUME NEW i \in DOMAIN net'[c], net'[c][i].type # "stop"
      PROVE  cam'[c].session <= net'[c][i].session
  <2>1. CASE i \in DOMAIN net[c] /\ net'[c][i] = net[c][i]
    BY <1>4, <1>6, <2>1 DEF Ordered
  <2>2. CASE net'[c][i] = p
    BY <1>1, <1>6, <2>2
  <2> QED BY <1>2, <2>1, <2>2
<1>7. ASSUME HallWorks', NEW i \in DOMAIN net'[c], Disturbing(net[c][i])'
      PROVE  /\ cam'[c].session # hall'.session
             /\ \A j \in DOMAIN net'[c] :
                  j < i /\ net'[c][j].type # "stop" => net'[c][j].session # hall'.session
  <2>1. \A j \in DOMAIN net'[c] : j < i => j \in DOMAIN net[c] /\ net'[c][j] = net[c][j]
    BY <1>2, <1>3
  <2>2. CASE UNCHANGED <<hall, guids>> /\ p.type = "state"
    <3>1. net'[c][i] # p
      BY <1>7, <2>2 DEF Disturbing
    <3>2. i \in DOMAIN net[c] /\ net'[c][i] = net[c][i]
      BY <1>2, <3>1
    <3>3. HallWorks /\ Disturbing(net[c][i])
      BY <1>7, <2>2, <3>2 DEF HallWorks, Disturbing
    <3> QED BY <1>4, <2>1, <2>2, <3>2, <3>3 DEF Ordered
  <2>3. CASE guids' = guids + 1
    BY <1>1, <2>1, <2>3
  <2> QED BY <1>7, <2>2, <2>3
<1> QED BY <1>5, <1>6, <1>7 DEF Ordered

(* The steps of the hall server.                                            *)
LEMMA HallOrder == RoomInv /\ OrderInv /\ HallNext => OrderInv'
<1> SUFFICES ASSUME RoomInv, OrderInv, HallNext PROVE OrderInv'
  OBVIOUS
<1>1. /\ guids \in Nat /\ hall \in Server /\ hall.session = guids /\ guids \in Guid
  BY SessionFacts DEF RoomInv, TypeOK, OrderInv
<1>2. ASSUME NEW f \in Film, StartWork(f) PROVE OrderInv'
  <2> DEFINE p == [type |-> "start", session |-> guids', film |-> f]
  <2>1. guids' = guids + 1 /\ guids' \in Guid /\ UNCHANGED cam /\ Multicast(p)
    BY <1>1, <1>2, ConstantFacts DEF StartWork, Guid
  <2>2. hall'.session = guids'
    BY <1>1, <1>2 DEF StartWork, Server
  <2>3. p \in Packet /\ p.type = "start" /\ p.session = guids'
    BY <2>1, ConstantFacts DEF Packet, NetStart
  <2> HIDE DEF p
  <2> QED BY <2>1, <2>2, <2>3, MulticastOrdered
<1>3. ASSUME StopWork PROVE OrderInv'
  <2> DEFINE p == [type |-> "stop"]
  <2>1. UNCHANGED <<guids, cam>> /\ Multicast(p)
    BY <1>3 DEF StopWork
  <2>2. hall'.session = guids' /\ ~ hall'.running
    BY <1>1, <1>3, <2>1 DEF StopWork, Server
  <2>3. p \in Packet /\ p.type = "stop"
    BY DEF Packet, NetStop
  <2> HIDE DEF p
  <2> QED BY <2>1, <2>2, <2>3, MulticastOrdered DEF HallWorks
<1>4. ASSUME SendCurrentState PROVE OrderInv'
  <2> DEFINE p == [type |-> "state", working |-> hall.running,
                   session |-> hall.session, film |-> hall.film]
  <2>1. UNCHANGED <<hall, guids, cam>> /\ Multicast(p)
    BY <1>4 DEF SendCurrentState
  <2>2. p \in Packet /\ p.type = "state" /\ p.session = hall.session
    BY <1>1 DEF Packet, NetCurrentState, Server
  <2> HIDE DEF p
  <2> QED BY <1>1, <2>1, <2>2, MulticastOrdered
<1>5. ASSUME UNCHANGED <<cam, net>>, ~ HallWorks', hall'.session = guids' PROVE OrderInv'
  BY <1>5 DEF OrderInv, Ordered
<1>6. ASSUME NEW f \in Film, StartWorkFails(f) PROVE OrderInv'
  <2>1. UNCHANGED <<cam, net>> /\ ~ HallWorks' /\ hall'.session = guids'
    BY <1>1, <1>6 DEF StartWorkFails, Server, HallWorks
  <2> QED BY <1>5, <2>1
<1>7. ASSUME CrashHall PROVE OrderInv'
  <2>1. UNCHANGED <<cam, net>> /\ ~ HallWorks' /\ hall'.session = guids'
    BY <1>1, <1>7 DEF CrashHall, Server, HallWorks
  <2> QED BY <1>5, <2>1
<1>8. ASSUME BootHall PROVE OrderInv'
  <2>1. UNCHANGED <<cam, net>> /\ ~ HallWorks' /\ hall'.session = guids'
    BY <1>1, <1>8 DEF BootHall, HallWorks
  <2> QED BY <1>5, <2>1
<1> QED BY <1>2, <1>3, <1>4, <1>6, <1>7, <1>8 DEF HallNext

(* What is left in a channel when a packet arrived or was lost is the old   *)
(* packets but that one, in their order.                                    *)
LEMMA ChannelOrder ==
  ASSUME RoomInv, NEW c \in Cameras, NEW i \in DOMAIN net[c],
         net' = [net EXCEPT ![c] = RemoveAt(@, i)]
  PROVE  /\ \A d \in Cameras : d # c => net'[d] = net[d]
         /\ DOMAIN net'[c] \subseteq Nat \ {0} /\ DOMAIN net[c] \subseteq Nat \ {0}
         /\ \A j \in DOMAIN net'[c] :
              /\ j < i => j \in DOMAIN net[c] /\ net'[c][j] = net[c][j]
              /\ ~(j < i) => j + 1 \in DOMAIN net[c] /\ net'[c][j] = net[c][j + 1]
<1>1. net \in [Cameras -> Seq(Packet)] /\ net[c] \in Seq(Packet)
  BY DEF RoomInv, TypeOK
<1>2. /\ net'[c] = RemoveAt(net[c], i)
      /\ \A d \in Cameras : d # c => net'[d] = net[d]
  BY <1>1
<1>3. /\ RemoveAt(net[c], i) \in Seq(Packet) /\ Len(RemoveAt(net[c], i)) = Len(net[c]) - 1
      /\ \A j \in DOMAIN RemoveAt(net[c], i) :
           RemoveAt(net[c], i)[j] = IF j < i THEN net[c][j] ELSE net[c][j + 1]
  BY <1>1, RemoveAtFacts
<1>4. /\ net'[c] \in Seq(Packet) /\ Len(net'[c]) = Len(net[c]) - 1
      /\ \A j \in DOMAIN net'[c] :
           net'[c][j] = IF j < i THEN net[c][j] ELSE net[c][j + 1]
  BY <1>2, <1>3
<1>5. /\ DOMAIN net'[c] = 1..(Len(net[c]) - 1) /\ DOMAIN net[c] = 1..Len(net[c])
      /\ Len(net[c]) \in Nat
  BY <1>1, <1>4
<1> QED BY <1>2, <1>4, <1>5

(* A packet that is lost, or that comes first and whose session c takes     *)
(* over, leaves the others in order.                                        *)
LEMMA RemovedOrdered ==
  ASSUME RoomInv, OrderInv, NEW c \in Cameras, NEW i \in DOMAIN net[c],
         UNCHANGED <<hall, guids>>,
         net' = [net EXCEPT ![c] = RemoveAt(@, i)],
         \A d \in Cameras : d # c => cam'[d] = cam[d],
         \/ cam'[c].session = cam[c].session
         \/ i = 1 /\ net[c][i].type # "stop" /\ cam'[c].session = net[c][i].session
  PROVE  OrderInv'
<1>1. /\ \A d \in Cameras : d # c => net'[d] = net[d]
      /\ DOMAIN net'[c] \subseteq Nat \ {0} /\ DOMAIN net[c] \subseteq Nat \ {0}
      /\ \A j \in DOMAIN net'[c] :
           /\ j < i => j \in DOMAIN net[c] /\ net'[c][j] = net[c][j]
           /\ ~(j < i) => j + 1 \in DOMAIN net[c] /\ net'[c][j] = net[c][j + 1]
  BY ChannelOrder
<1>2. ASSUME NEW j \in DOMAIN net'[c]
      PROVE  j \in Nat /\ \E k \in DOMAIN net[c] :
               /\ k = (IF j < i THEN j ELSE j + 1) /\ k # i /\ i \in Nat
               /\ net'[c][j] = net[c][k] /\ k \in Nat
  BY <1>1
<1>3. Ordered(c) /\ hall.session = guids
  BY DEF OrderInv
<1>4. ASSUME NEW j \in DOMAIN net'[c], NEW m \in DOMAIN net'[c], j < m,
             net'[c][j].type # "stop", net'[c][m].type # "stop"
      PROVE  net'[c][j].session <= net'[c][m].session
  <2>1. PICK k \in DOMAIN net[c] :
          k = (IF j < i THEN j ELSE j + 1) /\ net'[c][j] = net[c][k]
    BY <1>2
  <2>2. PICK l \in DOMAIN net[c] :
          l = (IF m < i THEN m ELSE m + 1) /\ net'[c][m] = net[c][l]
    BY <1>2
  <2>3. k < l
    BY <1>1, <1>4, <2>1, <2>2
  <2> QED BY <1>3, <1>4, <2>1, <2>2, <2>3 DEF Ordered
<1>5. ASSUME NEW j \in DOMAIN net'[c], net'[c][j].type # "stop"
      PROVE  cam'[c].session <= net'[c][j].session
  <2>1. PICK k \in DOMAIN net[c] :
          k # i /\ net'[c][j] = net[c][k] /\ k \in Nat /\ i \in Nat /\ k = (IF j < i THEN j ELSE j + 1)
    BY <1>2
  <2>2. CASE cam'[c].session = cam[c].session
    BY <1>3, <1>5, <2>1, <2>2 DEF Ordered
  <2>3. CASE i = 1 /\ net[c][i].type # "stop" /\ cam'[c].session = net[c][i].session
    <3>1. i < k
      BY <1>1, <2>1, <2>3
    <3> QED BY <1>3, <1>5, <2>1, <2>3, <3>1 DEF Ordered
  <2> QED BY <2>2, <2>3
<1>6. ASSUME HallWorks', NEW j \in DOMAIN net'[c], Disturbing(net[c][j])'
      PROVE  /\ cam'[c].session # hall'.session
             /\ \A m \in DOMAIN net'[c] :
                  m < j /\ net'[c][m].type # "stop" => net'[c][m].session # hall'.session
  <2>1. PICK k \in DOMAIN net[c] :
          k # i /\ net'[c][j] = net[c][k] /\ k \in Nat /\ i \in Nat /\ k = (IF j < i THEN j ELSE j + 1)
    BY <1>2
  <2>2. HallWorks /\ Disturbing(net[c][k]) /\ hall' = hall
    BY <1>6, <2>1 DEF HallWorks, Disturbing
  <2>3. /\ cam[c].session # hall.session
        /\ \A l \in DOMAIN net[c] :
             l < k /\ net[c][l].type # "stop" => net[c][l].session # hall.session
    BY <1>3, <2>2 DEF Ordered
  <2>4. cam'[c].session # hall'.session
    <3>1. CASE cam'[c].session = cam[c].session
      BY <2>2, <2>3, <3>1
    <3>2. CASE i = 1 /\ net[c][i].type # "stop" /\ cam'[c].session = net[c][i].session
      <4>1. i < k
        BY <1>1, <2>1, <3>2
      <4> QED BY <2>2, <2>3, <3>2, <4>1
    <3> QED BY <3>1, <3>2
  <2>5. ASSUME NEW m \in DOMAIN net'[c], m < j, net'[c][m].type # "stop"
        PROVE  net'[c][m].session # hall'.session
    <3>1. PICK l \in DOMAIN net[c] :
            l = (IF m < i THEN m ELSE m + 1) /\ net'[c][m] = net[c][l]
      BY <1>2
    <3>2. l < k
      BY <1>1, <2>1, <2>5, <3>1
    <3> QED BY <2>2, <2>3, <2>5, <3>1, <3>2
  <2> QED BY <2>4, <2>5
<1>7. Ordered(c)'
  BY <1>4, <1>5, <1>6 DEF Ordered
<1>8. ASSUME NEW d \in Cameras, d # c PROVE Ordered(d)'
  BY <1>1, <1>8 DEF OrderInv, Ordered, Disturbing, HallWorks
<1> QED BY <1>3, <1>7, <1>8 DEF OrderInv

(* A server that dies keeps its channel; a new process is of no session.    *)
LEMMA RestartedOrdered ==
  ASSUME RoomInv, OrderInv, NEW c \in Cameras, UNCHANGED <<hall, guids, net>>,
         \A d \in Cameras : d # c => cam'[d] = cam[d],
         cam'[c].session = cam[c].session \/ cam'[c].session = 0
  PROVE  OrderInv'
<1>1. /\ hall.session \in Nat /\ 1 <= hall.session
      /\ \A i \in DOMAIN net[c] : net[c][i].type # "stop" => net[c][i].session \in Nat
  BY SessionFacts
<1>2. Ordered(c)'
  <2>1. CASE cam'[c].session = cam[c].session
    BY <2>1 DEF OrderInv, Ordered, Disturbing, HallWorks
  <2>2. CASE cam'[c].session = 0
    <3>1. Ordered(c)
      BY DEF OrderInv
    <3>2. \A i \in DOMAIN net[c] : net[c][i].type # "stop" => cam'[c].session <= net[c][i].session
      BY <1>1, <2>2
    <3>3. cam'[c].session # hall.session
      BY <1>1, <2>2
    <3> QED BY <3>1, <3>2, <3>3 DEF Ordered, Disturbing, HallWorks
  <2> QED BY <2>1, <2>2
<1>3. ASSUME NEW d \in Cameras, d # c PROVE Ordered(d)'
  BY <1>3 DEF OrderInv, Ordered, Disturbing, HallWorks
<1> QED BY <1>2, <1>3 DEF OrderInv

(* What the handlers do to the server: the session is kept or is the one of *)
(* the packet, which is then no NetStop.                                    *)
LEMMA HandlerSession ==
  ASSUME RoomInv, NEW c \in Cameras, NEW p,
         OnStartWork(c, p) \/ OnStopWork(c, p) \/ OnCurrentState(c, p)
  PROVE  /\ \A d \in Cameras : d # c => cam'[d] = cam[d]
         /\ \/ cam'[c].session = cam[c].session
            \/ p.type # "stop" /\ cam'[c].session = p.session
<1>1. cam \in [Cameras -> Server] /\ cam[c] \in Server
  BY DEF RoomInv, TypeOK
<1>2. ASSUME Restart(c, p.session, p.film)
      PROVE  (\A d \in Cameras : d # c => cam'[d] = cam[d]) /\ cam'[c].session = p.session
  BY <1>1, <1>2 DEF Restart, Server
<1>3. CASE OnStartWork(c, p)
  BY <1>2, <1>3 DEF OnStartWork
<1>4. CASE OnStopWork(c, p)
  BY <1>1, <1>4 DEF OnStopWork, Server
<1>5. CASE OnCurrentState(c, p)
  BY <1>1, <1>2, <1>5 DEF OnCurrentState, Server
<1> QED BY <1>3, <1>4, <1>5

(* The steps of the camera servers and of the network.                      *)
LEMMA CameraOrder ==
  ASSUME InOrder, RoomInv, OrderInv, NEW c \in Cameras, CameraNext(c) \/ Lose(c)
  PROVE  OrderInv'
<1>1. cam \in [Cameras -> Server] /\ cam[c] \in Server
  BY DEF RoomInv, TypeOK
<1>2. CASE Receive(c)
  <2>1. PICK i \in DOMAIN net[c] :
          /\ Arrives(c, i) /\ UNCHANGED <<hall, guids>>
          /\ \/ OnStartWork(c, net[c][i]) \/ OnStopWork(c, net[c][i])
             \/ OnCurrentState(c, net[c][i])
    BY <1>2 DEF Receive
  <2>2. i = 1 /\ net' = [net EXCEPT ![c] = RemoveAt(@, i)]
    BY <2>1 DEF Arrives
  <2>3. /\ \A d \in Cameras : d # c => cam'[d] = cam[d]
        /\ \/ cam'[c].session = cam[c].session
           \/ net[c][i].type # "stop" /\ cam'[c].session = net[c][i].session
    BY <2>1, HandlerSession
  <2> QED BY <2>1, <2>2, <2>3, RemovedOrdered
<1>3. CASE Lose(c)
  <2>1. PICK i \in DOMAIN net[c] :
          net' = [net EXCEPT ![c] = RemoveAt(@, i)] /\ UNCHANGED <<hall, guids, cam>>
    BY <1>3 DEF Lose
  <2> QED BY <2>1, RemovedOrdered
<1>4. CASE CrashCamera(c)
  <2>1. /\ UNCHANGED <<hall, guids, net>> /\ cam'[c].session = cam[c].session
        /\ \A d \in Cameras : d # c => cam'[d] = cam[d]
    BY <1>1, <1>4 DEF CrashCamera, Server
  <2> QED BY <2>1, RestartedOrdered
<1>5. CASE BootCamera(c)
  <2>1. /\ UNCHANGED <<hall, guids, net>> /\ cam'[c].session = 0
        /\ \A d \in Cameras : d # c => cam'[d] = cam[d]
    BY <1>1, <1>5 DEF BootCamera, Server
  <2> QED BY <2>1, RestartedOrdered
<1> QED BY <1>2, <1>3, <1>4, <1>5 DEF CameraNext

LEMMA OrderInit == Init => OrderInv
BY DEF Init, OrderInv, Ordered, HallWorks

LEMMA OrderNext == InOrder /\ RoomInv /\ OrderInv /\ [Next]_vars => OrderInv'
<1> SUFFICES ASSUME InOrder, RoomInv, OrderInv, [Next]_vars PROVE OrderInv'
  OBVIOUS
<1>1. CASE HallNext
  BY <1>1, HallOrder
<1>2. ASSUME NEW c \in Cameras, CameraNext(c) \/ Lose(c) PROVE OrderInv'
  BY <1>2, CameraOrder
<1>3. CASE UNCHANGED vars
  BY <1>3 DEF vars, OrderInv, Ordered, Disturbing, HallWorks
<1> QED BY <1>1, <1>2, <1>3 DEF Next

LEMMA OrderInvHolds == ASSUME InOrder PROVE Spec => []OrderInv
<1>1. RoomInv /\ OrderInv /\ [Next]_vars => OrderInv'
  BY OrderNext
<1> QED BY <1>1, OrderInit, RoomInvHolds, PTL DEF Spec
-----------------------------------------------------------------------------
(* A server that hears that its hall still works stays as it is.            *)
LEMMA StillRunning ==
  ASSUME NEW s \in Server, s.running
  PROVE  [s EXCEPT !.running = TRUE] = s
BY DEF Server

(* The steps that a camera server does not take leave it alone.             *)
LEMMA OthersLeaveAlone ==
  ASSUME RoomInv, NEW c \in Cameras, [Next]_vars, ~ CameraNext(c)
  PROVE  cam'[c] = cam[c] /\ failed'[c] = failed[c]
<1>1. cam \in [Cameras -> Server] /\ failed \in [Cameras -> 0..MaxFailed]
  BY DEF RoomInv, TypeOK
<1>2. CASE HallNext
  <2>1. CASE \E f \in Film : StartWork(f) \/ StartWorkFails(f)
    BY <2>1 DEF StartWork, StartWorkFails
  <2>2. CASE StopWork
    BY <2>2 DEF StopWork
  <2>3. CASE SendCurrentState
    BY <2>3 DEF SendCurrentState
  <2>4. CASE CrashHall \/ BootHall
    BY <2>4 DEF CrashHall, BootHall
  <2> QED BY <1>2, <2>1, <2>2, <2>3, <2>4 DEF HallNext
<1>3. CASE UNCHANGED vars
  BY <1>3 DEF vars
<1>4. ASSUME NEW d \in Cameras, Lose(d) PROVE cam'[c] = cam[c] /\ failed'[c] = failed[c]
  BY <1>4 DEF Lose
<1>5. ASSUME NEW d \in Cameras, d # c, CameraNext(d)
      PROVE  cam'[c] = cam[c] /\ failed'[c] = failed[c]
  <2>1. CASE CrashCamera(d) \/ BootCamera(d)
    BY <1>1, <1>5, <2>1 DEF CrashCamera, BootCamera
  <2>2. CASE Receive(d)
    <3>1. PICK i \in DOMAIN net[d] :
            \/ OnStartWork(d, net[d][i]) \/ OnStopWork(d, net[d][i])
            \/ OnCurrentState(d, net[d][i])
      BY <2>2 DEF Receive
    <3>2. ASSUME NEW p, Restart(d, p.session, p.film)
          PROVE  cam'[c] = cam[c] /\ failed'[c] = failed[c]
      BY <1>1, <1>5, <3>2 DEF Restart
    <3>3. CASE OnStartWork(d, net[d][i])
      BY <3>2, <3>3 DEF OnStartWork
    <3>4. CASE OnStopWork(d, net[d][i])
      BY <1>1, <1>5, <3>4 DEF OnStopWork
    <3>5. CASE OnCurrentState(d, net[d][i])
      BY <1>1, <1>5, <3>2, <3>5 DEF OnCurrentState
    <3> QED BY <3>1, <3>3, <3>4, <3>5
  <2> QED BY <1>5, <2>1, <2>2 DEF CameraNext
<1>6. QED
  BY <1>2, <1>3, <1>4, <1>5 DEF Next

(* What a camera server can receive while it is in step: a state of the     *)
(* session it is in, of a hall server that works.                           *)
LEMMA InStepReceives ==
  ASSUME RoomInv, OrderInv, NEW c \in Cameras, HallWorks, InStep(c), NEW i \in DOMAIN net[c]
  PROVE  /\ net[c][i].type = "state" /\ net[c][i].working = TRUE
         /\ net[c][i].session = cam[c].session
<1>1. /\ hall.session = guids /\ guids \in Nat /\ cam[c].session = hall.session
      /\ net[c][i] \in Packet /\ net[c][i].type \in {"start", "stop", "state"}
      /\ net[c][i].type # "stop" => net[c][i].session \in Nat /\ net[c][i].session <= guids
  BY SessionFacts DEF OrderInv, InStep
<1>2. Ordered(c) /\ GoodPacket(net[c][i], hall, guids)
  BY DEF OrderInv, RoomInv, GoodNet
<1>3. ~ Disturbing(net[c][i])
  BY <1>1, <1>2 DEF Ordered
<1>4. net[c][i].type # "stop" => net[c][i].session = hall.session
  BY <1>1, <1>2 DEF Ordered
<1>5. net[c][i].type = "state"
  BY <1>1, <1>3, <1>4 DEF Disturbing
<1>6. net[c][i].working
  BY <1>2, <1>4, <1>5 DEF GoodPacket, HallWorks
<1>7. net[c][i].working \in BOOLEAN
  BY <1>1, <1>5, PacketFacts
<1> QED BY <1>1, <1>4, <1>5, <1>6, <1>7

LEMMA UndisturbedStep ==
  ASSUME RoomInv, OrderInv, [Next]_vars, NEW c \in Cameras,
         HallWorks, InStep(c), cam'[c].up
  PROVE  cam'[c] = cam[c] /\ failed'[c] = failed[c]
<1>1. cam \in [Cameras -> Server] /\ cam[c] \in Server
  BY DEF RoomInv, TypeOK
<1>2. CASE Receive(c)
  <2>1. PICK i \in DOMAIN net[c] :
          \/ OnStartWork(c, net[c][i]) \/ OnStopWork(c, net[c][i])
          \/ OnCurrentState(c, net[c][i])
    BY <1>2 DEF Receive
  <2>2. /\ net[c][i].type = "state" /\ net[c][i].working = TRUE
        /\ net[c][i].session = cam[c].session
    BY InStepReceives
  <2>3. OnCurrentState(c, net[c][i])
    BY <2>1, <2>2 DEF OnStartWork, OnStopWork
  <2>4. /\ cam' = [cam EXCEPT ![c].running = @ /\ net[c][i].working]
        /\ failed' = failed
    BY <2>2, <2>3 DEF OnCurrentState
  <2>5. cam[c].running = TRUE
    BY <1>1 DEF InStep, Server
  <2>6. cam'[c] = [cam[c] EXCEPT !.running = TRUE]
    <3> DEFINE b == cam[c].running /\ net[c][i].working
    <3>1. b = TRUE
      BY <2>2, <2>5
    <3>2. cam'[c] = [cam[c] EXCEPT !.running = b]
      BY <1>1, <2>4
    <3> HIDE DEF b
    <3> QED BY <3>1, <3>2
  <2>7. [cam[c] EXCEPT !.running = TRUE] = cam[c]
    BY <1>1, <2>5, StillRunning
  <2> QED BY <2>4, <2>6, <2>7
<1>3. ~ CrashCamera(c) /\ ~ BootCamera(c)
  BY <1>1 DEF CrashCamera, BootCamera, InStep, Server
<1>4. CASE ~ CameraNext(c)
  BY <1>4, OthersLeaveAlone
<1> QED BY <1>2, <1>3, <1>4 DEF CameraNext

LEMMA NeverBackStep ==
  ASSUME RoomInv, OrderInv, [Next]_vars, NEW c \in Cameras, cam[c].up, cam'[c].up
  PROVE  cam[c].session <= cam'[c].session
<1>1. cam \in [Cameras -> Server] /\ cam[c] \in Server /\ cam[c].session \in Nat
  BY SessionFacts DEF RoomInv, TypeOK
<1>2. CASE Receive(c)
  <2>1. PICK i \in DOMAIN net[c] :
          \/ OnStartWork(c, net[c][i]) \/ OnStopWork(c, net[c][i])
          \/ OnCurrentState(c, net[c][i])
    BY <1>2 DEF Receive
  <2>2. \/ cam'[c].session = cam[c].session
        \/ net[c][i].type # "stop" /\ cam'[c].session = net[c][i].session
    BY <2>1, HandlerSession
  <2> QED BY <1>1, <2>2 DEF OrderInv, Ordered
<1>3. ~ CrashCamera(c) /\ ~ BootCamera(c)
  BY <1>1 DEF CrashCamera, BootCamera, Server
<1>4. CASE ~ CameraNext(c)
  BY <1>1, <1>4, OthersLeaveAlone
<1> QED BY <1>2, <1>3, <1>4 DEF CameraNext

(* When the network loses packets but keeps their order, a camera server in *)
(* the session of the hall is neither stopped nor restarted as long as the  *)
(* hall server works in it and the camera server lives, for every number of *)
(* servers, sessions, crashes and failed starts.                            *)
THEOREM LeftInPeace == ASSUME InOrder PROVE Spec => Undisturbed
<1>1. RoomInv /\ OrderInv /\ [Next]_vars =>
        [\A c \in Cameras :
           HallWorks /\ HallWorks' /\ InStep(c) /\ cam'[c].up =>
             cam'[c] = cam[c] /\ failed'[c] = failed[c]]_vars
  BY UndisturbedStep
<1> QED BY <1>1, RoomInvHolds, OrderInvHolds, PTL DEF Spec, Undisturbed

(* When the network loses packets but keeps their order, no camera server   *)
(* that lives takes over a session older than the one it is in.             *)
THEOREM NeverGoesBack == ASSUME InOrder PROVE Spec => NeverBack
<1>1. RoomInv /\ OrderInv /\ [Next]_vars =>
        [\A c \in Cameras :
           cam[c].up /\ cam'[c].up => cam[c].session <= cam'[c].session]_vars
  BY NeverBackStep
<1> QED BY <1>1, RoomInvHolds, OrderInvHolds, PTL DEF Spec, NeverBack
=============================================================================
