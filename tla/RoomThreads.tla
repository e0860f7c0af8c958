----------------------------- MODULE RoomThreads -----------------------------
(***************************************************************************)
(* The threads of the server of a room: the main thread, whose loop starts *)
(* and stops the work and restarts camera threads, the threads of the      *)
(* cameras, and the thread of the user interface, which closes the room    *)
(* with StopServer (mainserver/main_server_impl.cpp, CameraServer.cpp,     *)
(* ThreadError.h, SuperServerImpl.cpp).                                    *)
(*                                                                         *)
(* The hall thread is left out: it is stopped as the camera threads are.   *)
(* A thread that is terminated leaves m_CameraThreadCS locked when it is   *)
(* inside.                                                                 *)
(***************************************************************************)
EXTENDS Naturals, Sequences, SequencesExt, FiniteSets

CONSTANTS
  LocalCameras, \* m_LocalCameras, a sequence without repetition
  HallLocals,   \* what hallLocal may be
  MaxThreads,   \* bound: threads there may be when the work is started
  MaxFailed     \* bound: starts and threads that fail

ASSUME RoomThreadsAssumption ==
  /\ LocalCameras \in Seq(Range(LocalCameras)) /\ IsInjective(LocalCameras)
  /\ HallLocals \subseteq BOOLEAN
  /\ MaxThreads \in Nat /\ MaxFailed \in Nat

Actors == {"main", "gui"}

Status == {"suspended", "created", "working", "failed", "stopped", "terminated"}

Live == {"created", "working"}

Ended == {"failed", "stopped", "terminated"}

NoThread == 0

VARIABLES
  hallLocal,  \* m_HallConfig.IsLocal(): the timetable starts and stops the
              \*   work; otherwise messages of the hall server do
  state,      \* m_State: "stopped", "running"
  action,     \* m_pTimeAction: StaStopped or not
  analyzers,  \* m_CameraAnalyzers, as indices of threads
  threads,    \* all camera threads ever created
  signaled,   \* the threads whose m_hEvent is set
  failures,   \* starts and threads that failed
  cameraCS,   \* the camera thread inside m_CameraThreadCS, or NoThread
  analyzerCS, \* who holds m_AnalyzerCS
  serverCS,   \* who holds m_MainServerCS of the super server
  pc,         \* where the main thread and the user interface are
  return,     \* where StopWork returns to
  handles,    \* the threads StopCameraThreads waits for
  mainEvent,  \* the m_hEvent of m_MainThread is set
  overlap     \* history: StopServer met the main thread between m_State and
              \*   the camera threads (see Overlaps)

cameraVars == <<analyzers, threads, signaled, failures, cameraCS>>
lockVars == <<analyzerCS, serverCS>>
vars ==
  <<hallLocal, state, action, cameraVars, lockVars, pc, return, handles, mainEvent, overlap>>

Init ==
  /\ hallLocal \in HallLocals
  /\ state = "stopped" /\ action = "Stopped"
  /\ analyzers = <<>> /\ threads = <<>> /\ signaled = {} /\ failures = 0
  /\ cameraCS = NoThread /\ analyzerCS = "none" /\ serverCS = "none"
  /\ pc = [a \in Actors |-> IF a = "main" THEN "top" ELSE "idle"]
  /\ return = [a \in Actors |-> "idle"] /\ handles = [a \in Actors |-> {}]
  /\ mainEvent = FALSE /\ overlap = FALSE

Goto(a, place) == pc' = [pc EXCEPT ![a] = place]
-----------------------------------------------------------------------------
(* StartCameraAnalyzer for the cameras of need, in their order, until one   *)
(* fails; n of them are started.  s is the status of the new threads.       *)
StartAnalyzers(need, n, s) ==
  /\ failures' = IF n < Len(need) THEN failures + 1 ELSE failures
  /\ failures' <= MaxFailed
  /\ threads' = threads \o [i \in 1..n |-> [camera |-> need[i], status |-> s]]

NewThreads(n) == [i \in 1..n |-> Len(threads) + i]

(* CheckCameraThreads: the indices of the threads that exited with an error *)
BadThreads ==
  LET bad[i \in 0..Len(analyzers)] ==
        IF i = 0 THEN <<>>
        ELSE IF threads[analyzers[i]].status = "failed" THEN Append(bad[i - 1], i)
        ELSE bad[i - 1]
  IN  bad[Len(analyzers)]

(* Faulty Erased: threads that failed are left in the vector.               *)
EraseNothing == analyzers

(* "size_t nIndex = BadThreads[i] - i;", i from 0: what is erased before    *)
(* moves the rest up.                                                       *)
Erased ==
  LET rest[i \in 0..Len(BadThreads)] ==
        IF i = 0 THEN analyzers ELSE RemoveAt(rest[i - 1], BadThreads[i] - (i - 1))
  IN  rest[Len(BadThreads)]

HaveNumbers == {threads[Erased[i]].camera : i \in DOMAIN Erased}

(* Faulty NeedRestart: cameras that have a thread get another.              *)
RestartAll == LocalCameras

NeedRestart ==
  LET need[i \in 0..Len(LocalCameras)] ==
        IF i = 0 THEN <<>>
        ELSE IF LocalCameras[i] \notin HaveNumbers THEN Append(need[i - 1], LocalCameras[i])
        ELSE need[i - 1]
  IN  need[Len(LocalCameras)]

(* Faulty CheckCameraThreads: a start that failed is pushed too.            *)
PushesFailed ==
  \E n \in 0..Len(NeedRestart) :
    /\ StartAnalyzers(NeedRestart, n, "created")
    /\ analyzers' = Erased \o NewThreads(Len(NeedRestart))

CheckCameraThreads ==
  \E n \in 0..Len(NeedRestart) :
    /\ StartAnalyzers(NeedRestart, n, "created")
    /\ analyzers' = Erased \o NewThreads(n)

(* Faulty Check: m_AnalyzerCS is not taken.                                 *)
CheckUnlocked ==
  /\ pc["main"] = "check"
  /\ CheckCameraThreads
  /\ Goto("main", "pump")
  /\ UNCHANGED <<state, action, signaled, cameraCS, lockVars, return, handles, mainEvent>>

(* The loop of ServerThreadProc: m_State is read, and later m_AnalyzerCS is *)
(* taken for CheckChildThreads.                                             *)
Top ==
  /\ pc["main"] = "top"
  /\ Goto("main", CASE mainEvent -> "ended"
                    [] ~ mainEvent /\ state = "running" -> "check"
                    [] OTHER -> "pump")
  /\ UNCHANGED <<state, action, cameraVars, lockVars, return, handles, mainEvent>>

LockAnalyzerCS(a) ==
  /\ pc[a] \in {"check", "lock"} /\ analyzerCS = "none"
  /\ analyzerCS' = a
  /\ Goto(a, IF pc[a] = "check" THEN "checkCameras" ELSE "stopCameras")
  /\ UNCHANGED <<state, action, cameraVars, serverCS, return, handles, mainEvent>>

(* CheckChildThreads, when m_CameraThreadCS is free; m_AnalyzerCS is held   *)
(* until then.                                                              *)
Check ==
  /\ pc["main"] = "checkCameras" /\ cameraCS = NoThread
  /\ CheckCameraThreads
  /\ analyzerCS' = "none" /\ Goto("main", "pump")
  /\ UNCHANGED <<state, action, signaled, cameraCS, serverCS, return, handles, mainEvent>>

(* PumpMessage, between LockIncomeBuffer and UnlockIncomeBuffer.            *)
Pump ==
  /\ pc["main"] = "pump" /\ serverCS = "none"
  /\ serverCS' = "main" /\ Goto("main", "pumping")
  /\ UNCHANGED <<state, action, cameraVars, analyzerCS, return, handles, mainEvent>>

EndPump ==
  /\ pc["main"] = "pumping"
  /\ serverCS' = "none" /\ Goto("main", "rest")
  /\ UNCHANGED <<state, action, cameraVars, analyzerCS, return, handles, mainEvent>>

(* Nothing to do for the scheduler.                                         *)
Rest ==
  /\ pc["main"] = "rest" /\ Goto("main", "top")
  /\ UNCHANGED <<state, action, cameraVars, lockVars, return, handles, mainEvent>>
-----------------------------------------------------------------------------
(* StartWork and StopWork come from the TimeAction or from messages.        *)
Commanded == pc["main"] = IF hallLocal THEN "rest" ELSE "pumping"

Done == IF hallLocal THEN "top" ELSE "pumping"

(* StartWork, StartCameraThreads: all threads are created suspended, then   *)
(* resumed; when one fails the others are left suspended.                   *)
StartWork ==
  /\ Commanded /\ state = "stopped" /\ action = "Stopped"
  /\ Len(threads) <= MaxThreads
  /\ UNCHANGED <<state, action, signaled, cameraCS, lockVars, return, handles, mainEvent>>
  /\ \/ /\ StartAnalyzers(LocalCameras, Len(LocalCameras), "created")
        /\ analyzers' = analyzers \o NewThreads(Len(LocalCameras))
        /\ Goto("main", "startHall")
     \/ \E n \in 0..(Len(LocalCameras) - 1) :
          /\ StartAnalyzers(LocalCameras, n, "suspended")
          /\ analyzers' = <<>>
          /\ Goto("main", Done)

(* StartHallThread succeeds, if there is a hall to start.                   *)
StartHall ==
  /\ pc["main"] = "startHall"
  /\ state' = "running" /\ Goto("main", Done)
  /\ action' = IF hallLocal THEN "Worked" ELSE action
  /\ UNCHANGED <<cameraVars, lockVars, return, handles, mainEvent>>

(* It fails: StopCameraThreads, without m_AnalyzerCS.                       *)
StartHallFails ==
  /\ pc["main"] = "startHall" /\ hallLocal
  /\ failures < MaxFailed /\ failures' = failures + 1
  /\ signaled' = signaled \cup Range(analyzers)
  /\ handles' = [handles EXCEPT !["main"] = Range(analyzers)]
  /\ return' = [return EXCEPT !["main"] = Done]
  /\ Goto("main", "wait")
  /\ UNCHANGED <<state, action, analyzers, threads, cameraCS, lockVars, mainEvent>>

(* StopWork by a: m_State is tested, and SendStopWork is called.            *)
StopWork(a, to) ==
  /\ state = "running"
  /\ return' = [return EXCEPT ![a] = to] /\ Goto(a, "sendStop")
  /\ UNCHANGED <<state, cameraVars, lockVars, handles, mainEvent>>

(* Then m_State is set, whoever has set it meanwhile, and m_AnalyzerCS      *)
(* taken.                                                                   *)
SetStopped(a) ==
  /\ pc[a] = "sendStop"
  /\ state' = "stopped" /\ Goto(a, "lock")
  /\ UNCHANGED <<action, cameraVars, lockVars, return, handles, mainEvent>>

(* Suspend of the TimeAction, or OnStopWork.                                *)
Suspend ==
  /\ Commanded /\ (hallLocal => action = "Worked")
  /\ action' = "Stopped"
  /\ \/ StopWork("main", Done)
     \/ /\ state # "running" /\ Goto("main", Done)
        /\ UNCHANGED <<state, cameraVars, lockVars, return, handles, mainEvent>>

(* StopCameraThreads: all events are set and all threads are waited for.    *)
StopCameraThreads(a) ==
  /\ pc[a] = "stopCameras"
  /\ signaled' = signaled \cup Range(analyzers)
  /\ handles' = [handles EXCEPT ![a] = Range(analyzers)] /\ Goto(a, "wait")
  /\ UNCHANGED <<state, action, analyzers, threads, failures, cameraCS, lockVars, return, mainEvent>>

AllEnded(a) == \A t \in handles[a] : threads[t].status \in Ended

(* MultipleThreadSync::Stop returns: all threads have ended, or after the   *)
(* timeout all that still work are terminated, also inside m_CameraThreadCS. *)
EndStopCameraThreads(a) ==
  /\ pc[a] = "wait"
  /\ \/ AllEnded(a) /\ UNCHANGED threads
     \/ /\ ~ AllEnded(a)
        /\ threads' = [t \in DOMAIN threads |->
             IF t \in handles[a] /\ threads[t].status \notin Ended
             THEN [threads[t] EXCEPT !.status = "terminated"] ELSE threads[t]]
  /\ analyzers' = <<>> /\ Goto(a, return[a])
  /\ analyzerCS' = IF analyzerCS = a THEN "none" ELSE analyzerCS
  /\ UNCHANGED <<state, action, signaled, failures, cameraCS, serverCS, return, handles, mainEvent>>
-----------------------------------------------------------------------------
(* SuperServerImpl::StopServer, under m_MainServerCS: Stop(true), then the  *)
(* destructor, which looks at m_State once more and stops the main thread.  *)
StopServer ==
  /\ pc["gui"] = "idle" /\ serverCS = "none"
  /\ serverCS' = "gui" /\ Goto("gui", "stop")
  /\ UNCHANGED <<state, action, cameraVars, analyzerCS, return, handles, mainEvent>>

GuiStopWork ==
  /\ UNCHANGED action
  /\ \/ pc["gui"] = "stop" /\ StopWork("gui", "destroy")
     \/ pc["gui"] = "destroy" /\ StopWork("gui", "stopMain")
     \/ /\ pc["gui"] \in {"stop", "destroy"} /\ state # "running"
        /\ Goto("gui", IF pc["gui"] = "stop" THEN "destroy" ELSE "stopMain")
        /\ UNCHANGED <<state, cameraVars, lockVars, return, handles, mainEvent>>

StopMain ==
  /\ pc["gui"] = "stopMain"
  /\ mainEvent' = TRUE /\ Goto("gui", "waitMain")
  /\ UNCHANGED <<state, action, cameraVars, lockVars, return, handles>>

(* Faulty WaitForMain: without the timeout.                                 *)
WaitsForEver ==
  /\ pc["gui"] = "waitMain" /\ pc["main"] = "ended"
  /\ Goto("gui", "free")
  /\ UNCHANGED <<state, action, cameraVars, lockVars, return, handles, mainEvent>>

(* WaitForThread: the main thread has ended, or is terminated after the     *)
(* timeout.                                                                 *)
WaitForMain ==
  /\ pc["gui"] = "waitMain"
  /\ pc' = [a \in Actors |-> IF a = "gui" THEN "free"
                             ELSE IF pc[a] = "ended" THEN "ended" ELSE "terminated"]
  /\ UNCHANGED <<state, action, cameraVars, lockVars, return, handles, mainEvent>>

(* The server is erased from the map: the destructors free                  *)
(* m_CameraAnalyzers, with the algorithm and the queue of every thread that *)
(* is still there.                                                          *)
FreeServer ==
  /\ pc["gui"] = "free"
  /\ analyzers' = <<>> /\ serverCS' = "none" /\ Goto("gui", "freed")
  /\ UNCHANGED <<state, action, threads, signaled, failures, cameraCS, analyzerCS, return,
                 handles, mainEvent>>
-----------------------------------------------------------------------------
SetStatus(t, s) == threads' = [threads EXCEPT ![t] = [@ EXCEPT !.status = s]]

(* The program ends with the server: what a thread does with the memory     *)
(* that has been freed is not defined.                                      *)
CameraStep ==
  /\ pc["gui"] # "freed"
  /\ UNCHANGED <<state, action, analyzers, signaled, lockVars, pc, return, handles, mainEvent>>

(* FindLocalCameraConfig, GetCameraAnalyzer and FindCameraThread enter      *)
(* m_CameraThreadCS, and what they find is known when they leave it.        *)
Enter(t) ==
  /\ CameraStep /\ UNCHANGED <<threads, failures>>
  /\ threads[t].status \in Live
  /\ cameraCS = NoThread /\ cameraCS' = t

Leave(t) ==
  /\ CameraStep /\ UNCHANGED failures
  /\ cameraCS = t /\ cameraCS' = NoThread

(* FindLocalCameraConfig looks at as many cameras as m_CameraAnalyzers has  *)
(* elements.                                                                *)
FindLocalCameraConfig(c) ==
  \E i \in DOMAIN LocalCameras : i <= Len(analyzers) /\ LocalCameras[i] = c

(* When it finds nothing, NULL is used and the thread fails.                *)
ThreadBegins(t) ==
  /\ Leave(t)
  /\ threads[t].status = "created"
  /\ SetStatus(t, IF FindLocalCameraConfig(threads[t].camera) THEN "working" ELSE "failed")

(* The loop of the thread goes by the first element for its camera, in each *)
(* turn.                                                                    *)
CanWork(t) ==
  \E i \in DOMAIN analyzers :
    /\ threads[analyzers[i]].camera = threads[t].camera
    /\ \A j \in 1..(i - 1) : threads[analyzers[j]].camera # threads[t].camera
    /\ analyzers[i] \notin signaled

ThreadLooks(t) ==
  /\ Leave(t)
  /\ threads[t].status = "working"
  /\ SetStatus(t, IF CanWork(t) THEN "working" ELSE "stopped")

(* The grabber or the algorithm fails, or an exception is caught.           *)
ThreadFails(t) ==
  /\ CameraStep /\ UNCHANGED cameraCS
  /\ threads[t].status \in Live /\ cameraCS # t
  /\ failures < MaxFailed /\ failures' = failures + 1
  /\ SetStatus(t, "failed")
-----------------------------------------------------------------------------
MainNext ==
  \/ Top \/ Check \/ Pump \/ EndPump \/ Rest
  \/ StartWork \/ StartHall \/ StartHallFails \/ Suspend

GuiNext == StopServer \/ GuiStopWork \/ StopMain \/ WaitForMain \/ FreeServer

StopNext(a) ==
  SetStopped(a) \/ LockAnalyzerCS(a) \/ StopCameraThreads(a) \/ EndStopCameraThreads(a)

ThreadNext(t) == Enter(t) \/ ThreadBegins(t) \/ ThreadLooks(t) \/ ThreadFails(t)

Next ==
  \/ MainNext \/ GuiNext
  \/ \E a \in Actors : StopNext(a)
  \/ \E t \in DOMAIN threads : ThreadNext(t)

(* While StopServer is under way and m_State says that nothing works, the   *)
(* main thread is about to check threads, starts them or stops them.        *)
Overlaps ==
  /\ pc["gui"] # "idle" /\ state = "stopped"
  /\ pc["main"] \in {"check", "startHall", "lock", "stopCameras", "wait"}

(* The configuration of the room does not change while its server lives,    *)
(* and the history variable looks on.                                       *)
Frame == UNCHANGED hallLocal /\ overlap' = (overlap \/ Overlaps')

Spec == Init /\ [][Next /\ Frame]_vars

(* The threads run, and a camera thread is outside m_CameraThreadCS for a   *)
(* while in each turn; commands, failures and the user are nobody's duty.   *)
Fairness ==
  /\ WF_vars((Top \/ Pump \/ EndPump \/ Rest \/ StartHall) /\ Frame)
  /\ SF_vars(Check /\ Frame)
  /\ \A a \in Actors : WF_vars(StopNext(a) /\ Frame)
  /\ WF_vars((GuiStopWork \/ StopMain \/ WaitForMain \/ FreeServer) /\ Frame)
  /\ \A c \in Range(LocalCameras) :
       SF_vars((\E t \in DOMAIN threads : threads[t].camera = c /\ Enter(t)) /\ Frame)
  /\ WF_vars((\E t \in DOMAIN threads : ThreadBegins(t) \/ ThreadLooks(t)) /\ Frame)

FairSpec == Spec /\ Fairness
-----------------------------------------------------------------------------
(* m_CameraAnalyzers holds threads that exist, each once, and every lock,  *)
(* status and place is one that the code has.                               *)
TypeOK ==
  /\ hallLocal \in BOOLEAN
  /\ state \in {"stopped", "running"} /\ action \in {"Stopped", "Worked"}
  /\ threads \in Seq([camera : Range(LocalCameras), status : Status])
  /\ analyzers \in Seq(DOMAIN threads) /\ IsInjective(analyzers)
  /\ signaled \subseteq DOMAIN threads /\ failures \in 0..MaxFailed
  /\ cameraCS \in DOMAIN threads \cup {NoThread}
  /\ analyzerCS \in Actors \cup {"none"} /\ serverCS \in Actors \cup {"none"}
  /\ pc["main"] \in {"top", "check", "checkCameras", "pump", "pumping", "rest", "startHall",
                     "sendStop", "lock", "stopCameras", "wait", "ended", "terminated"}
  /\ pc["gui"] \in {"idle", "stop", "sendStop", "lock", "stopCameras", "wait", "destroy",
                    "stopMain", "waitMain", "free", "freed"}
  /\ DOMAIN pc = Actors /\ DOMAIN return = Actors
  /\ handles \in [Actors -> SUBSET DOMAIN threads]
  /\ mainEvent \in BOOLEAN /\ overlap \in BOOLEAN

(* A camera thread leaves m_CameraAnalyzers, which frees its algorithm and  *)
(* its queue, only when it has ended: CheckCameraThreads and both uses of   *)
(* StopCameraThreads change the vector, the user interface does it beside   *)
(* the main thread, and the destructors free what is left.  Only they may   *)
(* free it under a thread, and only if the main thread was about to check,  *)
(* start or stop threads while StopServer took the work for stopped.        *)
ForgetsOnlyEnded ==
  [][\A t \in Range(analyzers) \ Range(analyzers') :
       threads'[t].status \in Ended \/ (pc'["gui"] = "freed" /\ overlap)]_vars

(* No two threads read the same camera, through restarts and sessions.      *)
OneThreadPerCamera ==
  \A t, u \in DOMAIN threads :
    /\ threads[t].status \in Live /\ threads[u].status \in Live
    /\ threads[t].camera = threads[u].camera
    => t = u

(* A thread was terminated inside m_CameraThreadCS, which stays locked.     *)
Abandoned == cameraCS # NoThread /\ threads[cameraCS].status = "terminated"

(* While the server runs, every camera has a working thread again and again *)
(* when only so many starts and threads fail, unless the room is closed or  *)
(* a terminated thread has left m_CameraThreadCS locked.                    *)
CamerasWork ==
  \A c \in Range(LocalCameras) :
    state = "running" ~>
      \/ state = "stopped" \/ pc["gui"] = "freed" \/ Abandoned
      \/ \E i \in DOMAIN analyzers :
           threads[analyzers[i]].camera = c /\ threads[analyzers[i]].status = "working"

(* StopServer returns, although the main thread may wait for m_MainServerCS *)
(* that StopServer holds, unless a terminated thread has left               *)
(* m_CameraThreadCS locked, for which the main thread waits with            *)
(* m_AnalyzerCS.                                                            *)
StopServerReturns == pc["gui"] = "stop" ~> pc["gui"] = "freed" \/ Abandoned

(* "sync check thread and stop thread functions", of m_AnalyzerCS in the    *)
(* loop: no camera thread is started once StopWork of the user interface    *)
(* has stopped them all.                                                    *)
StaysStopped ==
  [][pc["gui"] \in {"destroy", "stopMain", "waitMain"} /\ return["gui"] # "idle"
       => Len(threads') = Len(threads)]_vars
=============================================================================
