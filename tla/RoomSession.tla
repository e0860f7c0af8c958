----------------------------- MODULE RoomSession -----------------------------
(***************************************************************************)
(* The session protocol of a room.  The server of the hall starts and      *)
(* stops a film session and multicasts NetStart, NetStop and, every        *)
(* second, NetCurrentState over UDP; the servers of the cameras follow it. *)
(* A session is named by a GUID that the hall server makes when it starts  *)
(* (main_server_impl.cpp StartWork, StopWork, SendCurrentState,            *)
(* OnStartWork, OnStopWork, OnCurrentState; SessionServer.cpp).            *)
(*                                                                         *)
(* GUIDs are numbered in the order CoCreateGuid makes them.  The GUID that *)
(* a camera server makes for itself is never sent in a packet a peer       *)
(* listens to, so it is the number 0.  When the hall server starts and     *)
(* stops is the business of FilmScheduler; here it may happen any time.    *)
(***************************************************************************)
EXTENDS Naturals, Sequences, SequencesExt

CONSTANTS
  Cameras,    \* the servers that have cameras of the room but not its hall
  Film,       \* the film times of the timetable
  NoFilm,     \* a CTime pair nobody set
  MaxGuid,    \* bound: GUIDs the hall server makes
  MaxCrash,   \* bound: crashes of the hall server and of each camera server
  MaxFailed,  \* bound: failed starts of each camera server
  MaxSent,    \* bound: packets under way to one camera server
  InOrder     \* TRUE: packets may be lost; FALSE: also reordered, duplicated

ASSUME RoomAssumption ==
  /\ MaxGuid \in Nat \ {0} /\ MaxCrash \in Nat /\ MaxFailed \in Nat /\ MaxSent \in Nat
  /\ InOrder \in BOOLEAN
  /\ NoFilm \notin Film

Guid == 0..MaxGuid

AnyFilm == Film \cup {NoFilm}

Server == [up : BOOLEAN, running : BOOLEAN, session : Guid, film : AnyFilm]

NetStart == [type : {"start"}, session : Guid, film : AnyFilm]
NetStop == [type : {"stop"}]
NetCurrentState ==
  [type : {"state"}, working : BOOLEAN, session : Guid, film : AnyFilm]
Packet == NetStart \cup NetStop \cup NetCurrentState

VARIABLES
  hall,    \* m_State, m_SessionID, m_TimeFilm of the hall server
  cam,     \* the same of each camera server
  net,     \* net[c]: the packets under way from the hall server to c
  guids,   \* the last GUID made
  crashes, \* [the hall or a camera server -> crashes so far]
  failed   \* failed[c]: starts of c that have failed

vars == <<hall, cam, net, guids, crashes, failed>>

Crashing == Cameras \cup {"hall"}

Init ==
  /\ hall = [up |-> TRUE, running |-> FALSE, session |-> 1, film |-> NoFilm]
  /\ cam = [c \in Cameras |->
              [up |-> TRUE, running |-> FALSE, session |-> 0, film |-> NoFilm]]
  /\ net = [c \in Cameras |-> <<>>]
  /\ guids = 1
  /\ crashes = [x \in Crashing |-> 0]
  /\ failed = [c \in Cameras |-> 0]
-----------------------------------------------------------------------------
(* A multicast: each camera server whose channel has room has the packet    *)
(* under way; Lose takes it away again.                                     *)
Multicast(p) ==
  net' = [c \in Cameras |-> IF Len(net[c]) < MaxSent THEN Append(net[c], p) ELSE net[c]]

(* Faulty StartWork: keeps the session of the film before.                  *)
StartWorkSameSession(f) ==
  /\ hall.up /\ ~hall.running
  /\ guids < MaxGuid
  /\ hall' = [hall EXCEPT !.film = f, !.running = TRUE]
  /\ Multicast([type |-> "start", session |-> hall.session, film |-> f])
  /\ UNCHANGED <<cam, guids, crashes, failed>>

(* StartWork of the hall server: the film of the scheduler, the camera and  *)
(* hall threads, a new session, NetStart.                                   *)
StartWork(f) ==
  /\ hall.up /\ ~hall.running
  /\ guids < MaxGuid
  /\ guids' = guids + 1
  /\ hall' = [hall EXCEPT !.film = f, !.session = guids', !.running = TRUE]
  /\ Multicast([type |-> "start", session |-> guids', film |-> f])
  /\ UNCHANGED <<cam, crashes, failed>>

(* StartCameraThreads or StartHallThread failed: the film time is already   *)
(* set, there is no session and nothing is sent.                            *)
StartWorkFails(f) ==
  /\ hall.up /\ ~hall.running
  /\ hall' = [hall EXCEPT !.film = f]
  /\ UNCHANGED <<cam, net, guids, crashes, failed>>

(* StopWork of the hall server.  NetStop does not name the session.         *)
StopWork ==
  /\ hall.up /\ hall.running
  /\ hall' = [hall EXCEPT !.running = FALSE]
  /\ Multicast([type |-> "stop"])
  /\ UNCHANGED <<cam, guids, crashes, failed>>

(* SendCurrentState, each second.                                           *)
SendCurrentState ==
  /\ hall.up
  /\ Multicast([type |-> "state", working |-> hall.running,
                session |-> hall.session, film |-> hall.film])
  /\ UNCHANGED <<hall, cam, guids, crashes, failed>>

(* The process of the hall server dies without StopWork; the bound leaves a *)
(* GUID for the next process.                                               *)
CrashHall ==
  /\ hall.up /\ crashes["hall"] < MaxCrash /\ guids < MaxGuid
  /\ hall' = [hall EXCEPT !.up = FALSE, !.running = FALSE]
  /\ crashes' = [crashes EXCEPT !["hall"] = @ + 1]
  /\ UNCHANGED <<cam, net, guids, failed>>

(* Faulty BootHall: each process makes the same GUID.                       *)
BootHallSameGuid ==
  /\ ~hall.up /\ guids < MaxGuid
  /\ guids' = guids + 1
  /\ hall' = [up |-> TRUE, running |-> FALSE, session |-> 1, film |-> NoFilm]
  /\ UNCHANGED <<cam, net, crashes, failed>>

(* A new process: the constructor of SessionServer makes a GUID.            *)
BootHall ==
  /\ ~hall.up /\ guids < MaxGuid
  /\ guids' = guids + 1
  /\ hall' = [up |-> TRUE, running |-> FALSE, session |-> guids', film |-> NoFilm]
  /\ UNCHANGED <<cam, net, crashes, failed>>
-----------------------------------------------------------------------------
(* The packet at position i reaches c.  A UDP datagram may overtake others, *)
(* and may come again.                                                      *)
Arrives(c, i) ==
  /\ IF InOrder THEN i = 1 ELSE TRUE
  /\ \/ net' = [net EXCEPT ![c] = RemoveAt(@, i)]
     \/ ~InOrder /\ UNCHANGED net

(* c.StartWork(true) for session s and film f, whether it was running or    *)
(* not; a failure leaves the server stopped, with the session and the film. *)
Restart(c, s, f) ==
  \/ /\ cam' = [cam EXCEPT ![c] = [@ EXCEPT !.session = s, !.film = f, !.running = TRUE]]
     /\ UNCHANGED failed
  \/ /\ failed[c] < MaxFailed
     /\ cam' = [cam EXCEPT ![c] = [@ EXCEPT !.session = s, !.film = f, !.running = FALSE]]
     /\ failed' = [failed EXCEPT ![c] = @ + 1]

OnStartWork(c, p) ==
  /\ p.type = "start"
  /\ Restart(c, p.session, p.film)

OnStopWork(c, p) ==
  /\ p.type = "stop"
  /\ cam' = [cam EXCEPT ![c] = [@ EXCEPT !.running = FALSE]]
  /\ UNCHANGED failed

(* Faulty OnCurrentState: restarts without comparing sessions.              *)
OnCurrentStateAlways(c, p) ==
  /\ p.type = "state"
  /\ IF p.working
       THEN Restart(c, p.session, p.film)
       ELSE cam' = [cam EXCEPT ![c] = [@ EXCEPT !.session = p.session, !.running = FALSE]]
            /\ UNCHANGED failed

(* Faulty OnCurrentState: takes over a session, starts nothing.             *)
OnCurrentStateNoRestart(c, p) ==
  /\ p.type = "state"
  /\ cam' = [cam EXCEPT ![c] = [@ EXCEPT !.session = p.session, !.running = cam[c].running /\ p.working]]
  /\ UNCHANGED failed

(* Faulty OnCurrentState: a stopped hall server stops nobody.               *)
OnCurrentStateNoStop(c, p) ==
  /\ p.type = "state"
  /\ \/ p.session # cam[c].session /\ p.working /\ Restart(c, p.session, p.film)
     \/ /\ p.session = cam[c].session \/ ~p.working
        /\ cam' = [cam EXCEPT ![c] = [@ EXCEPT !.session = p.session]]
        /\ UNCHANGED failed

(* OnCurrentState.  IsNewSessionRequired takes over the session of the      *)
(* packet, also when the hall server is not working and nothing else is     *)
(* done about the new session.                                              *)
OnCurrentState(c, p) ==
  /\ p.type = "state"
  /\ \/ /\ p.session # cam[c].session /\ p.working
        /\ Restart(c, p.session, p.film)
     \/ /\ p.session # cam[c].session /\ ~p.working
        /\ cam' = [cam EXCEPT ![c] = [@ EXCEPT !.session = p.session]]
        /\ UNCHANGED failed
     \/ /\ p.session = cam[c].session
        /\ cam' = [cam EXCEPT ![c].running = @ /\ p.working]
        /\ UNCHANGED failed

(* PumpMessage of c hands a packet to its handler.  Hdr_StopWork has no     *)
(* break: OnErrorMessage and TCP_CloseClient come after OnStopWork, and do  *)
(* nothing to what is here.                                                 *)
Receive(c) ==
  \E i \in DOMAIN net[c] :
    /\ cam[c].up
    /\ Arrives(c, i)
    /\ LET p == net[c][i] IN
       OnStartWork(c, p) \/ OnStopWork(c, p) \/ OnCurrentState(c, p)
    /\ UNCHANGED <<hall, guids, crashes>>

Lose(c) ==
  \E i \in DOMAIN net[c] :
    /\ net' = [net EXCEPT ![c] = RemoveAt(@, i)]
    /\ UNCHANGED <<hall, cam, guids, crashes, failed>>

CrashCamera(c) ==
  /\ cam[c].up /\ crashes[c] < MaxCrash
  /\ cam' = [cam EXCEPT ![c] = [@ EXCEPT !.up = FALSE, !.running = FALSE]]
  /\ crashes' = [crashes EXCEPT ![c] = @ + 1]
  /\ UNCHANGED <<hall, net, guids, failed>>

(* Faulty BootCamera: the session is not initialised.                       *)
BootCameraNoGuid(c) ==
  /\ ~cam[c].up
  /\ cam' = [cam EXCEPT ![c] =
               [up |-> TRUE, running |-> FALSE, session |-> MaxGuid + 1, film |-> NoFilm]]
  /\ UNCHANGED <<hall, net, guids, crashes, failed>>

(* A new process, with a GUID of its own.                                   *)
BootCamera(c) ==
  /\ ~cam[c].up
  /\ cam' = [cam EXCEPT ![c] =
               [up |-> TRUE, running |-> FALSE, session |-> 0, film |-> NoFilm]]
  /\ UNCHANGED <<hall, net, guids, crashes, failed>>
-----------------------------------------------------------------------------
HallNext ==
  \/ \E f \in Film : StartWork(f) \/ StartWorkFails(f)
  \/ StopWork \/ SendCurrentState \/ CrashHall \/ BootHall

CameraNext(c) == Receive(c) \/ CrashCamera(c) \/ BootCamera(c)

Next == HallNext \/ \E c \in Cameras : CameraNext(c) \/ Lose(c)

Spec == Init /\ [][Next]_vars

(* The loop of a room server runs each 20 ms, sends its state each second   *)
(* and hands over every packet that came; CSGuard starts a dead process     *)
(* again.  Of the packets sent for ever, not every one is lost.             *)
Fairness ==
  /\ WF_vars(SendCurrentState) /\ WF_vars(BootHall)
  /\ \A c \in Cameras : SF_vars(Receive(c)) /\ WF_vars(BootCamera(c))

FairSpec == Spec /\ Fairness
-----------------------------------------------------------------------------
(* Every server and packet is of the types declared in main_server_impl.h   *)
(* and NetProto.h.                                                          *)
TypeOK ==
  /\ hall \in Server
  /\ cam \in [Cameras -> Server]
  /\ net \in [Cameras -> Seq(Packet)]
  /\ guids \in Guid
  /\ crashes \in [Crashing -> 0..MaxCrash]
  /\ failed \in [Cameras -> 0..MaxFailed]

HallWorks == hall.up /\ hall.running

InStep(c) == cam[c].up /\ cam[c].running /\ cam[c].session = hall.session

(* While the hall server counts a film, a camera server that names the same *)
(* session has the time of the same film, whatever the network and the      *)
(* servers did before: OnCurrentState restarts nothing when the GUIDs are   *)
(* equal, so a wrong film would stay until the film is over.                *)
SameSessionSameFilm ==
  HallWorks => \A c \in Cameras : cam[c].session = hall.session => cam[c].film = hall.film

(* When packets are lost but not reordered, a camera server that follows    *)
(* the session of the hall is left in peace: it is neither stopped nor      *)
(* restarted while the hall server works on that session, unless it dies.   *)
Undisturbed ==
  [][\A c \in Cameras :
       HallWorks /\ HallWorks' /\ InStep(c) /\ cam'[c].up =>
         cam'[c] = cam[c] /\ failed'[c] = failed[c]]_vars

(* When packets are lost but not reordered, no camera server ever goes back *)
(* to a session that is over.                                               *)
NeverBack ==
  [][\A c \in Cameras :
       cam[c].up /\ cam'[c].up => cam[c].session <= cam'[c].session]_vars

(* A session that goes on is in the end counted by every camera server,     *)
(* although NetStart was lost, the server crashed or was started late.  The *)
(* exception is a server whose start has failed: OnStartWork ignores the    *)
(* result, the session is taken over, and nobody tries again in it.         *)
CamerasJoin ==
  <>[]HallWorks => <>[](\A c \in Cameras : InStep(c) \/ failed[c] > 0)

(* When the hall server has stopped for good no camera server goes on       *)
(* counting, although NetStop was lost or the hall server died before it    *)
(* could send it and came back with another GUID.                           *)
CamerasLeave ==
  <>[](hall.up /\ ~hall.running) => <>[](\A c \in Cameras : ~cam[c].running)
=============================================================================
