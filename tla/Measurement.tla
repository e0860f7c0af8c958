----------------------------- MODULE Measurement -----------------------------
(***************************************************************************)
(* One count of the spectators of a room.  StaProcessed of the hall server *)
(* asks the servers of the cameras for data, again and again until it has  *)
(* the data of every camera, wakes the hall thread, waits for its count    *)
(* and saves count and images (mainserver/ServerTimeAction.cpp,            *)
(* CameraDataBuffer, HallServer.cpp, CameraServer.cpp and the data         *)
(* handlers of main_server_impl.cpp).                                      *)
(*                                                                         *)
(* Data and image of a camera always travel together: they are the number  *)
(* of the measurement in which they were taken, 0 if there are none.  A    *)
(* timer may fire at any moment; Timely says that it is long enough.       *)
(***************************************************************************)
EXTENDS Naturals, Sequences, SequencesExt, FiniteSets

CONSTANTS
  Cameras,
  Hosts,         \* the computers of the room
  HostOf,        \* [Cameras -> Hosts]
  HallHost,      \* the computer of the hall server
  RequestNumber, \* m_nRequestDataNumber
  MaxRuns,       \* bound: measurements
  MaxLost,       \* bound: messages and answers lost
  Timely,        \* TRUE: no timer fires while what it waits for is under way
  MayFail,       \* TRUE: ProcessData of the hall algorithm, and the statistics
                 \*   server, may fail
  Garbage        \* what the memory of m_bValid may hold at the start

ASSUME MeasurementAssumption ==
  /\ HostOf \in [Cameras -> Hosts] /\ HallHost \in Hosts
  /\ RequestNumber \in Nat /\ MaxRuns \in Nat /\ MaxLost \in Nat
  /\ Timely \in BOOLEAN /\ MayFail \in BOOLEAN /\ Garbage \subseteq BOOLEAN

Stamp == 0..MaxRuns

CameraData == [Cameras -> Stamp]

NoData == [c \in Cameras |-> 0]

(* What ProcessData returns: the measurement that asked for it, and the     *)
(* data it was computed from.                                               *)
Count == [run : Stamp, data : CameraData]

NoCount == [run |-> 0, data |-> NoData]

Row == [run : Stamp, count : Count, images : CameraData]

Of(h) == {c \in Cameras : HostOf[c] = h}

VARIABLES
  run,        \* measurements begun
  phase,      \* no work: "stopped"; StaWorked: "idle"; StaProcessed: "gather",
              \*   "process"
  tries,      \* m_nProcessingNumber
  wanted,     \* m_ServerCameraData: its requested cameras,
  buffer,     \*   and the data and images it has
  hallData,   \* m_HallAnalyzer->m_CameraData
  event,      \* m_hEventForProcessing: the measurement that set it, or 0
  computing,  \* the count the hall thread is working on, or NoCount
  counts,     \* rsp_hall_spectators in m_ServerMessage
  failed,     \* history: the measurements whose ProcessData or Statistics failed
  spectators, \* m_Spectators
  saved,      \* the rows of the table of statistics
  requests,   \* requests[h]: requests under way to the server of h
  client,     \* client[h]: m_ClientCameraData of the server of h
  asked,      \* asked[c]: rqt_cam_data in the queue of the thread of c
  answers,    \* answers[h]: rsp_cam_data in m_ServerMessage of h
  responses,  \* responses under way to the hall server
  lost        \* what was lost so far

hallVars == <<run, phase, tries, wanted, spectators, saved>>
threadVars == <<event, computing, counts, failed>>
cameraVars == <<client, asked, answers>>
vars == <<hallVars, buffer, hallData, threadVars, requests, cameraVars, responses, lost>>

Init ==
  /\ run = 0 /\ phase = "idle" /\ tries = 0
  /\ wanted = {} /\ buffer = NoData /\ hallData = NoData
  /\ event = 0 /\ computing = NoCount /\ counts = <<>> /\ failed = {}
  /\ spectators \in [valid : Garbage, count : {NoCount}]
  /\ saved = {}
  /\ requests = [h \in Hosts |-> <<>>]
  /\ client = [h \in Hosts |-> [wanted |-> {}, got |-> NoData]]
  /\ asked = [c \in Cameras |-> 0]
  /\ answers = [h \in Hosts |-> <<>>]
  /\ responses = <<>> /\ lost = 0
-----------------------------------------------------------------------------
(* WhatCamerasRequired, of a request for w that has the data d.             *)
Missing(w, d) == {c \in w : d[c] = 0}

(* GetDataFromCameras: the cameras of a remote computer are all asked for,  *)
(* whether their data is missing or not.                                    *)
GetDataFromCameras(missing) ==
  requests' = [h \in Hosts |->
    LET those == IF h = HallHost THEN Of(h) \cap missing ELSE Of(h) IN
    IF those = {} THEN requests[h] ELSE Append(requests[h], those)]

(* Faulty Begin: the data of the last measurement is kept.                  *)
BeginKeepsData ==
  /\ phase = "idle" /\ run < MaxRuns
  /\ run' = run + 1 /\ phase' = "gather" /\ tries' = 0
  /\ wanted' = Cameras
  /\ GetDataFromCameras(Missing(Cameras, buffer))
  /\ UNCHANGED <<buffer, hallData, spectators, saved, threadVars, cameraVars, responses, lost>>

(* The constructor of StaProcessed, with StartProcessing.                   *)
Begin ==
  /\ phase = "idle" /\ run < MaxRuns
  /\ run' = run + 1 /\ phase' = "gather" /\ tries' = 0
  /\ wanted' = Cameras /\ buffer' = NoData
  /\ GetDataFromCameras(Cameras)
  /\ UNCHANGED <<hallData, spectators, saved, threadVars, cameraVars, responses, lost>>

Quiet ==
  /\ \A h \in Hosts : requests[h] = <<>> /\ answers[h] = <<>>
  /\ \A c \in Cameras : asked[c] = 0
  /\ responses = <<>>

(* State_GetData when m_timerRepeatRequest is signaled.                     *)
RepeatFires == phase = "gather" /\ (Timely => Quiet)

(* Faulty AskAgain: off by one.                                             *)
AskAgainOneMore ==
  /\ RepeatFires /\ tries <= RequestNumber
  /\ Missing(wanted, buffer) # {}
  /\ GetDataFromCameras(Missing(wanted, buffer))
  /\ tries' = tries + 1
  /\ UNCHANGED <<run, phase, wanted, buffer, hallData, spectators, saved, threadVars,
                 cameraVars, responses, lost>>

(* Faulty AskAgain: counts a try but sends nothing.                         *)
AskAgainNever ==
  /\ RepeatFires /\ tries < RequestNumber
  /\ Missing(wanted, buffer) # {}
  /\ tries' = tries + 1
  /\ UNCHANGED <<run, phase, wanted, buffer, hallData, spectators, saved, threadVars,
                 requests, cameraVars, responses, lost>>

AskAgain ==
  /\ RepeatFires /\ tries < RequestNumber
  /\ Missing(wanted, buffer) # {}
  /\ GetDataFromCameras(Missing(wanted, buffer))
  /\ tries' = tries + 1
  /\ UNCHANGED <<run, phase, wanted, buffer, hallData, spectators, saved, threadVars,
                 cameraVars, responses, lost>>

(* All data is there: LoadDataToHallAnalyzer wakes the hall thread.         *)
LoadDataToHallAnalyzer ==
  /\ RepeatFires /\ tries < RequestNumber
  /\ Missing(wanted, buffer) = {}
  /\ event' = run
  /\ phase' = "process" /\ tries' = tries + 1
  /\ UNCHANGED <<run, wanted, buffer, hallData, spectators, saved, computing, counts,
                 failed, requests, cameraVars, responses, lost>>

(* "Timeout : some cameras didn't send data".                               *)
GatherTimeout ==
  /\ RepeatFires /\ tries >= RequestNumber
  /\ phase' = "idle"
  /\ UNCHANGED <<run, tries, wanted, buffer, hallData, spectators, saved, threadVars,
                 requests, cameraVars, responses, lost>>

(* Faulty UpdateStat: m_bValid is not reset.                                *)
UpdateStatKeeps ==
  /\ phase = "process"
  /\ spectators.valid /\ Missing(wanted, buffer) = {}
  /\ saved' = saved \cup {[run |-> run, count |-> spectators.count, images |-> buffer]}
  /\ wanted' = {} /\ buffer' = NoData
  /\ phase' = "idle"
  /\ UNCHANGED <<run, tries, hallData, spectators, threadVars, requests, cameraVars,
                 responses, lost>>

(* State_Process when the count is ready: UpdateStat saves it and clears    *)
(* m_ServerCameraData, also when the statistics server fails.               *)
UpdateStat ==
  /\ phase = "process"
  /\ spectators.valid /\ Missing(wanted, buffer) = {}
  /\ \/ /\ saved' = saved \cup {[run |-> run, count |-> spectators.count, images |-> buffer]}
        /\ UNCHANGED failed
     \/ MayFail /\ failed' = failed \cup {run} /\ UNCHANGED saved
  /\ wanted' = {} /\ buffer' = NoData
  /\ spectators' = [spectators EXCEPT !.valid = FALSE]
  /\ phase' = "idle"
  /\ UNCHANGED <<run, tries, hallData, event, computing, counts, requests, cameraVars,
                 responses, lost>>

(* Faulty ProcessTimeout: waits on.                                         *)
ProcessTimeoutWaits ==
  /\ phase = "process"
  /\ ~(spectators.valid /\ Missing(wanted, buffer) = {})
  /\ Timely => event = 0 /\ computing = NoCount /\ counts = <<>>
  /\ UNCHANGED vars

(* "Timeout : some cameras didn't send images or spectator number is not    *)
(* set".  m_Spectators is left as it is.                                    *)
ProcessTimeout ==
  /\ phase = "process"
  /\ ~(spectators.valid /\ Missing(wanted, buffer) = {})
  /\ Timely => event = 0 /\ computing = NoCount /\ counts = <<>>
  /\ phase' = "idle"
  /\ UNCHANGED <<run, tries, wanted, buffer, hallData, spectators, saved, threadVars,
                 requests, cameraVars, responses, lost>>

Exec == AskAgain \/ LoadDataToHallAnalyzer \/ GatherTimeout \/ UpdateStat \/ ProcessTimeout

(* The rsp_hall_spectators branch of PopThreadMessage.                      *)
PopSpectators ==
  /\ counts # <<>>
  /\ spectators' = [valid |-> TRUE, count |-> Head(counts)]
  /\ counts' = Tail(counts)
  /\ UNCHANGED <<run, phase, tries, wanted, saved, buffer, hallData, event, computing,
                 failed, requests, cameraVars, responses, lost>>

(* OnResponseData.  A camera that m_ServerCameraData does not ask for is    *)
(* left out, as everything is between two films; nothing tells to which     *)
(* request the response belongs.                                            *)
OnResponseData ==
  \E i \in DOMAIN responses :
    LET got == responses[i]
        known == {c \in wanted : phase # "stopped" /\ got[c] # 0} IN
    /\ responses' = RemoveAt(responses, i)
    /\ buffer' = [c \in Cameras |-> IF c \in known THEN got[c] ELSE buffer[c]]
    /\ hallData' = [c \in Cameras |-> IF c \in known THEN got[c] ELSE hallData[c]]
    /\ UNCHANGED <<hallVars, threadVars, requests, cameraVars, lost>>

(* The film ends: StopWork, also on the computers that get the message, and *)
(* with the threads go what they hold and the requests in their queues.     *)
(* StaProcessed ignores Suspend, so this is between two measurements.       *)
EndSession ==
  /\ phase = "idle" /\ phase' = "stopped"
  /\ hallData' = NoData /\ event' = 0 /\ computing' = NoCount
  /\ \E stopped \in SUBSET Hosts :
       /\ HallHost \in stopped
       /\ asked' = [c \in Cameras |-> IF HostOf[c] \in stopped THEN 0 ELSE asked[c]]
  /\ UNCHANGED <<run, tries, wanted, spectators, saved, buffer, counts, failed, requests,
                 client, answers, responses, lost>>

(* The next film begins: StartWork, with a new hall thread.                 *)
NewSession ==
  /\ phase = "stopped" /\ phase' = "idle"
  /\ UNCHANGED <<run, tries, wanted, spectators, saved, buffer, hallData, threadVars, requests,
                 cameraVars, responses, lost>>
-----------------------------------------------------------------------------
(* HallThread: the event is reset and the data of the cameras is taken.     *)
HallTakes ==
  /\ event # 0 /\ computing = NoCount
  /\ event' = 0
  /\ computing' = [run |-> event, data |-> hallData]
  /\ UNCHANGED <<hallVars, buffer, hallData, counts, failed, requests, cameraVars, responses,
                 lost>>

(* ProcessData returned a count, which is pushed to the server, or failed.  *)
HallCounts ==
  /\ computing # NoCount
  /\ computing' = NoCount
  /\ \/ counts' = Append(counts, computing) /\ UNCHANGED failed
     \/ MayFail /\ failed' = failed \cup {computing.run} /\ UNCHANGED counts
  /\ UNCHANGED <<hallVars, buffer, hallData, event, requests, cameraVars, responses, lost>>
-----------------------------------------------------------------------------
(* OnRequestData of the server of h: NewRequest forgets what it had, and    *)
(* each camera thread is asked.                                             *)
OnRequestData(h) ==
  \E i \in DOMAIN requests[h] :
    LET those == requests[h][i] IN
    /\ requests' = [requests EXCEPT ![h] = RemoveAt(@, i)]
    /\ client' = [client EXCEPT ![h] = [wanted |-> those, got |-> NoData]]
    /\ asked' = [c \in Cameras |-> IF c \in those THEN asked[c] + 1 ELSE asked[c]]
    /\ UNCHANGED <<hallVars, buffer, hallData, threadVars, answers, responses, lost>>

(* The thread of camera c pops rqt_cam_data and pushes image and data.      *)
PushImageAndData(c) ==
  /\ asked[c] > 0
  /\ asked' = [asked EXCEPT ![c] = @ - 1]
  /\ answers' = [answers EXCEPT ![HostOf[c]] = Append(@, [camera |-> c, taken |-> run])]
  /\ UNCHANGED <<hallVars, buffer, hallData, threadVars, requests, client, responses, lost>>

(* The rsp_cam_data branch of PopThreadMessage of the server of h, with     *)
(* TrySendDataResponse: when the last camera has answered, one response     *)
(* goes to the hall server and m_ClientCameraData is cleared.               *)
PopThreadMessage(h) ==
  /\ answers[h] # <<>>
  /\ answers' = [answers EXCEPT ![h] = Tail(@)]
  /\ LET m == Head(answers[h])
         got == [client[h].got EXCEPT ![m.camera] = m.taken] IN
     \/ /\ m.camera \notin client[h].wanted
        /\ UNCHANGED <<client, responses>>
     \/ /\ m.camera \in client[h].wanted /\ Missing(client[h].wanted, got) # {}
        /\ client' = [client EXCEPT ![h] = [@ EXCEPT !.got = got]]
        /\ UNCHANGED responses
     \/ /\ m.camera \in client[h].wanted /\ Missing(client[h].wanted, got) = {}
        /\ client' = [client EXCEPT ![h] = [wanted |-> {}, got |-> NoData]]
        /\ responses' = Append(responses, got)
  /\ UNCHANGED <<hallVars, buffer, hallData, threadVars, requests, asked, lost>>

(* A connection fails, a server is not running or restarts its threads, an  *)
(* algorithm has no data, a queue is full.                                  *)
Lose ==
  /\ lost < MaxLost /\ lost' = lost + 1
  /\ \/ \E h \in Hosts : \E i \in DOMAIN requests[h] :
          /\ requests' = [requests EXCEPT ![h] = RemoveAt(@, i)]
          /\ UNCHANGED <<asked, answers, responses>>
     \/ \E c \in Cameras :
          /\ asked[c] > 0 /\ asked' = [asked EXCEPT ![c] = @ - 1]
          /\ UNCHANGED <<requests, answers, responses>>
     \/ \E h \in Hosts :
          /\ answers[h] # <<>> /\ answers' = [answers EXCEPT ![h] = Tail(@)]
          /\ UNCHANGED <<requests, asked, responses>>
     \/ \E i \in DOMAIN responses :
          /\ responses' = RemoveAt(responses, i)
          /\ UNCHANGED <<requests, asked, answers>>
  /\ UNCHANGED <<hallVars, buffer, hallData, threadVars, client>>
-----------------------------------------------------------------------------
HallNext == Begin \/ Exec \/ PopSpectators \/ OnResponseData \/ EndSession \/ NewSession

ThreadNext == HallTakes \/ HallCounts

HostNext(h) == OnRequestData(h) \/ PopThreadMessage(h)

Next ==
  \/ HallNext \/ ThreadNext
  \/ \E h \in Hosts : HostNext(h)
  \/ \E c \in Cameras : PushImageAndData(c)
  \/ Lose

Spec == Init /\ [][Next]_vars

(* Each loop of a server pumps messages and calls Exec, and the threads     *)
(* run; the next measurement and the next film are nobody's duty here.      *)
Fairness ==
  /\ WF_vars(Exec) /\ WF_vars(PopSpectators) /\ WF_vars(OnResponseData)
  /\ WF_vars(HallTakes) /\ WF_vars(HallCounts)
  /\ \A h \in Hosts : WF_vars(OnRequestData(h)) /\ WF_vars(PopThreadMessage(h))
  /\ \A c \in Cameras : WF_vars(PushImageAndData(c))

FairSpec == Spec /\ Fairness
-----------------------------------------------------------------------------
(* Counts, data and messages are of their types.                            *)
TypeOK ==
  /\ run \in Stamp /\ phase \in {"stopped", "idle", "gather", "process"}
  /\ tries \in 0..RequestNumber
  /\ wanted \subseteq Cameras /\ buffer \in CameraData /\ hallData \in CameraData
  /\ event \in Stamp /\ computing \in Count /\ counts \in Seq(Count)
  /\ failed \subseteq Stamp
  /\ spectators \in [valid : BOOLEAN, count : Count]
  /\ saved \subseteq Row
  /\ requests \in [Hosts -> Seq(SUBSET Cameras)]
  /\ client \in [Hosts -> [wanted : SUBSET Cameras, got : CameraData]]
  /\ asked \in [Cameras -> Nat]
  /\ answers \in [Hosts -> Seq([camera : Cameras, taken : 1..MaxRuns])]
  /\ responses \in Seq(CameraData)
  /\ lost \in 0..MaxLost

(* The hall thread never counts with the data of a camera missing, although *)
(* its data is kept apart from that of m_ServerCameraData and lives from    *)
(* measurement to measurement, but not from film to film.                   *)
CountsAreComplete == computing # NoCount => \A c \in Cameras : computing.data[c] # 0

(* No measurement is saved twice, and no count is saved twice, also when    *)
(* counts come after the timeout.                                           *)
NoRowTwice ==
  \A r, s \in saved : r.run = s.run \/ r.count.run = s.count.run => r = s

(* Statistics( nRoomID, Time, Images, nSpectators ): "Time" is the time of  *)
(* the count, so the count that is saved is the one that this measurement   *)
(* asked for.                                                               *)
OwnCount == \A r \in saved : r.count.run = r.run

(* Each measurement comes to an end: StaProcessed, which ignores Suspend,   *)
(* does not keep the server working for ever.                               *)
MeasurementEnds == phase \in {"gather", "process"} ~> phase = "idle"

(* Requests are repeated: unless as many messages are lost as the hall      *)
(* server sends requests, or the hall algorithm or the statistics server    *)
(* fails, every measurement is saved when the timers are long enough.       *)
EveryMeasurementSaved ==
  \A n \in 1..MaxRuns :
    run = n ~> (\E r \in saved : r.run = n) \/ n \in failed \/ lost >= RequestNumber
=============================================================================
