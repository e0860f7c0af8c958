# CinemaSec: models, checks and proofs

CinemaSec counts the spectators of the rooms of a cinema. Each computer of a
cinema runs the *launcher* (`src/CSLauncher`), and in it the *engine*
(`src/CSEngine`): a super server that owns the network connections, one room
server per room this computer has cameras of or computes the count of, and, on
one computer, the exchange with the box office. These modules specify the
engine's control: who may start, stop, ask, answer, retry and give up, in which
order, with what other threads and computers doing meanwhile. Image processing,
user interface and SQL are left out.

## 1. Inventory

### Components, their state and their operations

| Component | Code (`src/CSEngine/...`) | State | Operations |
|---|---|---|---|
| Thread message queue | `mainserver/ThreadMessage.h` | `m_Buffer`, `m_cs`, `m_nMaxSize` | `Push`, `Front`, `Pop`, `IsEmpty`, entering the critical section with or without waiting |
| Room session protocol | `mainserver/main_server_impl.cpp`, `NetProto.*`, `SessionServer.cpp` | `m_State`, `m_SessionID`, `m_TimeFilm`, `m_GUID` on each computer; UDP packets | `StartWork`, `StopWork`, `SendCurrentState`; `OnStartWork`, `OnStopWork`, `OnCurrentState` |
| Film scheduler | `mainserver/TimeSheduler.cpp`, `ServerTimeAction.cpp`, `PumpState` | `m_Settings`, `m_LastProcessedTime`, `m_pTimeAction` | `ProcessNoSetting`, `ProcessNormalSettings`, `Wait`, `Suspend`, `Process`, `Exec` |
| Measurement | `StaProcessed` in `ServerTimeAction.cpp`, `CameraDataBuffer.cpp`, `HallServer.cpp`, data handlers of `main_server_impl.cpp` | `m_ServerCameraData`, `m_ClientCameraData`, `m_Spectators`, the hall thread's copy of the data, queues | request, repeat, answer, collect, count, save, time out |
| Threads of a room server | `CameraServer.cpp`, `ThreadError.h`, `main_server_impl.cpp`, `SuperServerImpl.cpp` | `m_State`, `m_CameraAnalyzers`, thread handles and events, `m_AnalyzerCS`, `m_CameraThreadCS`, `m_MainServerCS` | `StartWork`, `StopWork`, `CheckChildThreads`, `StopServer`, the thread procedures |
| Box office exchange | `Exchange/RequestImpl.cpp`, `ExchangeState.cpp`, `MessageProcessor.cpp` | `m_pState`, `m_InputQueue`, `m_OutputQueue`, `m_pBoxOffice`, `m_ChangeStateSync`, `m_WorkingThreadSync` | `Request`, `Reconnect`, `ForceReport`, `ThreadProc` |
| Super server | `mainserver/SuperServerImpl.cpp` | the list of room servers, the network thread, `m_MainServerCS` | `StartServer`, `StopServer`, `LockIncomeBuffer`, `UDP_SendMessage`, `OnFileRequest` |
| UDP link | `IPC/NetLink.cpp` | one entry for each sender: `splitflags`, `netsplit`; `m_gSequenceNumber` | `NET_SendLong`, `NET_SendTo`, `NET_QueuePacket`, `NET_GetLong` |
| TCP link | `IPC/NetTcpLink.cpp` | `m_Clients`, one entry for each address in `m_StreamList` | `NET_SendPacket`, accept, `AddData`, `CheckIdleSockets`, `CloseClient` |
| Archive transfer | `FileTransfer/`, `mainserver/FileTransferServer.cpp`, `FileTransferState.cpp` | the transfer under way | start, request, response, stop |
| System diagnostic | `diagnostic/` | the last state of each computer | network thread writes, user interface reads |
| Configuration, statistics, backup, encoder, DNS pool, exit guard | `mainserver/`, `DBFacet/` | none, or the database | conversions and I/O |

### How they interact

* A camera thread takes requests from its own `m_CameraMessage` and pushes data
  and images into `m_ServerMessage`; the hall thread pushes its count there. The
  main thread of the room server is the only receiver of `m_ServerMessage` and
  the only sender of each `m_CameraMessage`.
* The main thread's loop (`ServerThreadProc`) checks its child threads, pumps
  network messages under `m_MainServerCS`, lets the scheduler compare the clock
  with the timetable, and calls `Exec` of the current `TimeAction`. The
  scheduler starts and stops the work and begins measurements.
* The room server of the computer that has the hall algorithm, the *hall
  server*, commands the others, the *camera servers*, by UDP: `NetStart`,
  `NetStop`, and each second `NetCurrentState`. Requests for data and the data
  itself go by TCP.
* Below both is a link: UDP cuts long messages into datagrams and puts them
  together, TCP finds messages in a stream of bytes.
* The exchange changes the timetable that the scheduler reads, and reads the
  statistics that measurements have written. They share only the database.
* The user interface calls `StopServer`, `Reconnect` and `ForceReport` on its
  own thread, beside all of the above.

### What is hard, and what would be correct

* **Order of critical sections and handlers.** `Front` and `Pop` are two calls;
  what is popped must be what was handled, in the order it was sent.
* **Lost, late and repeated packets, and crashes.** Camera servers must end up
  in the session of the hall server with the times of its film, must not be
  disturbed while they are, and must stop when the hall server has stopped or
  died.
* **A clock and a timetable that move.** A film must be counted in its window,
  in one session, and none missed when the loop is in time; the film may be put
  off, struck off or over by the time anyone looks at it.
* **Repeated requests and late answers.** A count must have the data of every
  camera, be saved once, and be the measurement's own.
* **Threads that fail, restart and are stopped from two sides.** A camera must
  not be read twice, a thread must not be forgotten while it runs, and the user
  must get his window back.
* **Parts of messages.** Datagrams of different messages must not be put
  together, a stream must be cut where its messages end, and what an entry holds
  from before must not spoil what comes next.
* **A partner and a database that go away in the middle of a message.** An
  accepted query must be kept until its answer is delivered, and answered once;
  timetables must be executed in order.

`PROJECT.json` lists every hazard at its line with the properties aimed at it.

## 2. Modules

| Module | What it is |
|---|---|
| `LossyFifo` | what a message queue promises: order, no repetition, only the oldest message may be given up |
| `ThreadMessage` | the queue as it is: lock, `Front`, `Pop`, `Push` that drops; implements `LossyFifo` |
| `RoomSession` | hall server, camera servers and the network between them |
| `FilmScheduler` | clock, timetable, `TimeSheduler`, the three `TimeAction`s |
| `Measurement` | one count after another, over all computers of a room |
| `RoomThreads` | main thread, camera threads, user interface, three locks |
| `Exchange` | main thread, working thread, box office, database |
| `Datagrams` | what the protocol of the rooms may assume of its network: whole messages or none |
| `UdpLink` | messages cut into datagrams and put together; implements `Datagrams` |
| `TcpLink` | messages in byte streams, over connections that break and ports used again |
| `MC...` | instances for TLC: small sets and the films and cameras used |
| `...Proofs` | theorems and proofs about the module of that name, with the lemmas on sequences they rest on |

Definitions named "Faulty ..." in a comment are variants of the operator that
follows them, with a mistake one could plausibly make (a guard dropped, a reset
forgotten, an off-by-one). They are not part of any `Next`; putting one in the
place of its operator violates the property it is meant for, which shows that
the property can fail.

### How state and actions correspond to the code

**ThreadMessage.** `m_cs` is the thread inside the critical section, `front` the
reference that the handler works on. A sender enters (waiting), pushes and
leaves; the receiver only *tries* to enter, and inside takes `Front`, handles it
and calls `Pop`. `Drain` tells the main thread, which empties its queue, from a
camera thread, which takes one message per frame. `sent` and `handled` are
history.

**RoomSession.** `hall` and `cam[c]` have `m_State`, `m_SessionID` and
`m_TimeFilm`; `net[c]` is the packets under way. GUIDs are counted up, so that
"an older session" can be said. `OnCurrentState` is modelled with all its
branches: not started, another session, stopped. `StartWorkFails` has what
`StartWork` has already changed when it returns FALSE. `Restart` keeps the film
time apart from the result, as `IsNewSessionRequired` does. A crash loses
everything in memory, the restarted process has a new GUID or none.

**FilmScheduler.** One unit of time is the ten seconds of `PumpState`'s timer.
Reading the timetable and acting on the answer are two steps
(`PumpState`, `ProcessNormalSettings`), as the code reads the clock twice.
A loop is in time when in each ten seconds it has read the timetable and looked
at the answer (`looked`) and, where a measurement ended after that, has called
the scheduler again (`turned`), which the loop does on every turn; `late` records
that it did not, or that the query failed. A measurement is one interval here, of
any length up to `MaxProcess`, and may run over the end of its film in a loop in
time. The query leaves out the seconds of the present time (`TimeTable.cpp:284`);
the model compares whole units, which is the same for films that end at a whole
minute, as those of timetables do.

**Measurement.** Data and image of a camera are the number of the measurement
in which they were taken, 0 for none, and a count carries the data it was
computed from, so that late and mixed answers can be told apart. `requests`,
`asked`, `answers` and `responses` are the four stretches of the way of a
request and its answer. Requests to, and responses from, other computers may
overtake each other; queues inside a computer may not. `Timely` says that timers
are longer than the way there and back; without it they fire at any moment.
`Garbage` is what the memory of the uninitialised `m_bValid` may hold. `failed`
are the measurements whose count the hall algorithm refused or whose row the
statistics server lost. A film ends (`EndSession`) between two measurements, with
what the threads hold, on the hall server and on those computers that got the
message; after it, and until the next begins (`NewSession`), responses find
`m_State` stopped (main_server_impl.cpp:762) and are dropped.

**RoomThreads.** `threads` is every camera thread ever made, `analyzers` the
vector that holds the current ones. The main thread and the user interface each
have a `pc`; what a function does between taking and leaving a lock, or up to a
point where another thread can see it, is one step. `StopWork` tests `m_State`
in one step and sets it in another (`SetStopped`), as `SendStopWork` is between
them, so that both actors may pass the test. `cameraCS` is the camera thread
inside `m_CameraThreadCS`: it enters, looks at the vector and leaves, and
`Check` waits until nobody is inside. A thread that is terminated inside stays
there (`Abandoned`). `hallLocal` tells a server whose own timetable starts and
stops it from one that is commanded by packets, inside `LockIncomeBuffer`. Waits
with a timeout may end either way. `FreeServer` is the end of `StopServer`: the
server is erased from the map, and its destructors free what is left in
`m_CameraAnalyzers`. `overlap` is history: while `StopServer` was under way and
`m_State` said stopped, the main thread was past its own look at `m_State`,
about to check, start or stop threads.

**Exchange.** `worker` is where the working thread is, `at` its iterator over
the input queue, `changeCS` and `workingCS` who holds the two locks. `com` is
"stale" when the box office has gone since `ConnectCOM`. An exception that
nobody in `Process` catches ends the thread where it is: `worker` and the locks
it held become "dead" (`Dead`). `Start` may fail, for a missing value of the
registry or because there is no thread to be had, which `Request` does not look
at: the query is queued, and the next `Request` tries again. A timetable that
`Validate` or `Execute` refuses is answered and erased, but not executed; an
error message nobody can make sense of gets no answer. A query is a timetable,
an error message (the answer to a report) or nonsense. `accepted`, `executed`
and `delivered` are history.

**UdpLink.** A datagram is `<<i, k>>`, part k of the i-th message; what its
header says is looked up in `sent`. `current`, `splitCount`, `total`,
`splitflags` and `buffer` are the receiver's entry of one sender. The threads of
the rooms send as they like: each increments `m_gSequenceNumber` (`NewNumber`,
and `numbering` counts those who have), reads it again for its header
(`NET_SendLong`) and sends its parts between those of others (`next`). The entry
is never thrown away, since `NET_DiscardStaleSplitpackets` has no caller, and
`splitflags` are not cleared between messages: a part is told from an old one by
its sequence number alone. Sequence numbers begin anew after a restart of the
sender and after the largest, and two threads have the same when both increment
before either reads; `Reused` says that a number was used twice. `times` and
`streak` are history: how often a datagram came, and which parts of one message
came in a row. `NET_GetLong` is one action: the part is put in its place, and
the message is taken out when no part is missing.

**TcpLink.** A byte is `<<i, k>>`, byte k of the i-th message; the first
`Prefix` bytes hold its length. A read takes any number of bytes from the
stream; `AddData` is the loop over them, as a function of the number of turns,
and `Turn` one turn of it with its branches: all bytes are kept (`KeepAll`), a
message ends (`EndMessage`), a prefix ends (`EndPrefix`), or what the code adds
or skips is not there (`Miss`). Prefix and payload are two sends, the results of
which nobody looks at; of each any number of bytes may be sent, or none. Entries
are of addresses and outlive the connection. `cut` is the messages of which
bytes got lost, `spoiled` the ports whose bytes do not begin with a prefix any
more, and `dead` says that `AddData` has gone past the end of its bytes. What
bytes that are no prefix are read as is chosen from `Garbage`.

## 3. Checks

Run each with `tlc -config <cfg> <module>`.

| Run | Config | Question |
|---|---|---|
| `queue` | `ThreadMessage.cfg` | Does the queue keep bound and order, pop what was handled, and implement the lossy FIFO? |
| `room_unordered` | `RoomUnordered.cfg` | With packets lost, repeated and reordered, crashes and failed starts: does whoever names the hall's session have its film? |
| `room_ordered` | `RoomOrdered.cfg` | With packets only lost: is a server in step left alone, does none go back, do all join and leave in the end? |
| `scheduler` | `Scheduler.cfg` | Is every film counted, in its window and in one session, and do `TimeAction` and server agree? |
| `measure_late` | `MeasurementLate.cfg` | With timers firing at any moment: is every count complete and saved once? |
| `measure_timely` | `MeasurementTimely.cfg` | With long enough timers, lost messages and failing counts: does each measurement end, and is its own count saved? |
| `threads` | `Threads.cfg` | One thread per camera, none forgotten alive, failed cameras back, `StopServer` returns? |
| `threads_race` | `ThreadsRace.cfg` | (violated) Does no camera thread start after the user's `StopWork`? |
| `exchange` | `Exchange.cfg` | With box office, database and single calls failing: are timetables executed in order, queries kept, answers sent once and over a connection; does `Request` return, and is every query answered? |
| `exchange_db` | `ExchangeDb.cfg` | (violated) Is a query answered when the database was away for a moment? |
| `udp` | `UdpLink.cfg` | With datagrams lost, copied and reordered and both ends restarted: are messages whole, and does one that arrives come out? |
| `tcp` | `TcpLink.cfg` | However bytes are split and connections break: are messages whole, in order, and delivered? |

### Bounds, and why they are enough

* `queue` (2 496 states): `MaxSize` 1 lets a queue be empty, at its maximum and
  one above it, where `Push` drops; two senders, three messages each, are
  enough for a drop before, between and after `Front` and `Pop` and for two
  messages of one sender with one of the other between them.
* `room_*` (780 833 and 351 646 states): one camera server, as camera servers
  send nothing to each other and the hall treats them alike; two films, which
  are symmetric; four GUIDs, so that a hall server has a session before the
  crash, one after it and one more; one crash of each; one failed start; three
  packets under way, so that a start, a stop and a state of different sessions
  meet. `room_unordered` reduces by the symmetry of films; `room_ordered`, which
  checks liveness, does not.
* `scheduler` (279 018 states): two films of six units, with a gap or without;
  the first can be put off or struck off. `Before` is two units because a
  measurement may take up to three (40 s with the default timeouts, see
  `SystemConfigImpl.cpp`, 233-235, at 10 s per unit): when it is shorter, a
  measurement can run over the end of its film into a film that follows at
  once. Seventeen units reach past both films. Two changes of the timetable
  allow a change and its reversal, one failed start lets a film be lost.
* `measure_late` (4 434 179 states): two measurements and two computers, so that
  an answer, a response and a count of the first may come in the second;
  `measure_timely` (31 842): a computer with two cameras, whose response waits
  for both, beside the hall's own, three requests against three losses, three
  measurements, and a hall algorithm and a statistics server that may fail.
* `threads` (435 362 states): two cameras, so that indices shift when the first
  is erased and one start can fail after another has succeeded; both commands;
  two failures; the work may be started again as long as there are at most two
  threads from before, which allows sessions after failures.
* `exchange` (741 133 states): limit 1 lets the queue be empty, at its limit,
  and one above it; three queries are enough for a timetable, the error message
  that is looked for behind it and one more; two attempts to connect, one report,
  one failure of everything that can fail.
* `udp` (5 030 787 states): three messages of one or two parts, so that a part
  of the first may come between those of the second and after them; two threads
  that send at a time; three sequence numbers, so that a number is used twice
  only by a restart or by two threads; one restart of either end, one copy. Two
  parts have a first, which opens an entry, and a last, which gives the size;
  the theorems are for any number of parts.
* `tcp` (285 512 states): one port, used for several connections, since the
  entries of different ports share nothing (two ports were checked too, and are
  only slower); a prefix of two bytes, which a read can split; messages of one
  or two bytes, three messages, so that one read ends one message, holds the next
  and begins a third; two faults, so that one can meet what the other has left.

Deadlock is checked except in `threads` and `threads_race`, where the server is
freed in the end, in `exchange` and `exchange_db`, where a thread that died with
both locks stops everything, as the code does, and in `udp` and `tcp`, where
nothing more happens when the last message was sent.

### Fairness

* *Loops run.* The main thread's loop sleeps 20 ms and goes round, camera, hall
  and working threads loop: their steps are weakly fair. Nothing is assumed of
  commands, users, failures, the next film or the next measurement.
* *State packets.* `SendCurrentState` is on a one second timer (weakly fair).
  `Receive` is strongly fair: of the packets that are sent for ever, not every
  one is lost. A dead process is restarted by `CSGuard` (weakly fair boot).
* *Lock of the camera threads.* A camera thread is outside `m_CameraThreadCS` for
  at least 10 ms of each turn (`CanThreadWork(10)`), far longer than a look at
  the vector takes, so that those who wait for it get in: `Check` and `Enter` are
  strongly fair.
* *Waits with a timeout* end: `WaitForThread`, `MultipleThreadSync::Stop`,
  `State_GetData`, `State_Process` and `WaitForResponseState` have timers.
* *Locks of the exchange.* The working thread sleeps 50 ms outside its critical
  sections in each turn, far longer than anyone needs to enter, so `GetState`
  and `Push` are strongly fair; so is the timer of `WaitForResponseState`, and
  the rest of `Request`, which the box office waits for. The box office and the
  database come back.
* *TCP.* A sender goes through `NET_SendPacket`; the thread of `NetServer`
  accepts and reads in each turn (weakly fair). Nobody has to close a connection.

### Exceptions the properties make

* `OnlyInWindow` leaves out a timetable with no film left: a measurement that
  runs over the end of the last film leaves the server in StaWorked, and
  `PumpState` then has nothing to suspend it with.
* `OneSessionPerFilm` is stated for at most one change of the timetable. When
  it is changed and changed back, the end of a film that existed only for a
  while resets `m_LastProcessedTime`, and a film is started twice.
* `NoFilmMissed` is stated for a loop in time, without failed starts: a start
  that fails in `Wait` is not tried again before the next film.
* `CamerasJoin` leaves out a camera server whose start failed: `OnStartWork`
  ignores the result, and the session counts as taken over.
* `Undisturbed` and `NeverBack` need packets in order: a `NetCurrentState` of
  the session before that overtakes a `NetStart` restarts a server in step, and
  `NetStop` names no session.
* `OwnCount` needs `Timely` and an `m_bValid` that starts FALSE: a count that
  comes after the timeout of `State_Process` stays in `m_Spectators` and is
  saved by the next measurement, with its images and its time.
* `EveryMeasurementSaved` leaves out measurements for which the hall algorithm or
  the statistics server failed: neither is asked again.
* `ForgetsOnlyEnded` leaves out what the destructors free (`FreeServer`) after
  `StopServer` met the main thread between its look at `m_State` and the camera
  threads (`overlap`); see the next section. What `CheckCameraThreads` and
  `StopCameraThreads` erase is never excepted.
* `CamerasWork` and `StopServerReturns` leave out a thread that was terminated
  inside `m_CameraThreadCS` (`Abandoned`): `CheckCameraThreads` waits for that
  lock with `m_AnalyzerCS`, and then `StopWork` of the user interface for
  `m_AnalyzerCS` with `m_MainServerCS`.
* `AnsweredUnlessStuck` makes three exceptions: a thread that has died with its
  locks, which is what `exchange_db` shows of `QueriesAnswered`; a thread that
  has given up connecting and waits for the operator; and no thread at all,
  because `Start` failed and no later `Request` has begun one.
* `OnlyWholeMessages` and `RowIsDelivered` leave out sequence numbers that two
  messages have: after a restart of the sender, or when two threads got the same
  number, parts of both messages count for one.
* `WholeInOrder` and `Delivered` leave out ports that are spoiled, and
  `Delivered` messages of which bytes were never sent or never read.
* `Timely` in `FilmSchedulerProofs` is what the configuration has to grant
  the scheduler; see the next section for what happens below it.

### What the two violations show

* `threads_race`: `ServerThreadProc` tests `m_State` (main_server_impl.cpp:486)
  before it takes `m_AnalyzerCS` (488, "sync check thread and stop thread
  functions"). When the user closes the room in between, `StopWork` stops all
  camera threads and leaves the section, and `CheckChildThreads` starts them
  again in a server that is being destroyed. As `m_State` is stopped, nobody
  stops them a second time: `m_MainServers.erase(it)` (SuperServerImpl.cpp:112)
  runs the destructors (main_server_impl.cpp:40-46), which free algorithms and
  queues under threads that still use them. The same happens when a start or a
  stop of the main thread is under way; these are the cases of `overlap`.
* `exchange_db`: when the database cannot be opened, `ProcessQuery` queues an
  error answer and opens it once more to log the query, outside the `try` block
  (RequestImpl.cpp:298). The exception ends the thread inside both critical
  sections, the answer that DataExchangeProtoErrors.md:24 promises is never
  sent, and a new thread cannot begin.

Limits of the code that the links and the scheduler showed, each the reason of
an exception above:

* A read that ends inside a prefix loses the framing of its sender for good:
  lines 133 and 134 of `NetTcpLink.cpp` go on by `sizeof(int) - Arr.size()`
  bytes, after line 132 has cleared `Arr`, so by four instead of the missing
  ones.
* The settings let the operator choose 0 to 30 minutes before the end of a film
  (`src/CSClient/SETTINGS_MODE/settings_mode_view.cpp:113`). With 0, or anything
  less than two units (20 s), `NoFilmMissed` and `OnlyInWindow` fail: the query
  gives only films that are not over, `TimeSheduler.cpp:76` compares with `>`,
  and so the last moment of the window is missed. Both also fail when a
  measurement takes as long as `After + Before` or longer, and when a film
  follows at once and is counted from its beginning (`After` = 0): a measurement
  that ends in the last ten seconds of a film leaves the server working, and the
  next reading of the timetable finds the next film in its window already, sets
  `m_LastProcessedTime` and calls `Wait` of a StaWorked, which does nothing. A
  period of 0 is not modelled.

Other disagreements met while modelling, visible in the models and without a run
of their own: `StaProcessed::Suspend` does nothing although TimeSheduler.h:28
says that process leads to suspend; the assertion of
TimeSheduler.cpp:45 can fail, since the film the query returned may be over
when the clock is read again; `FindLocalCameraConfig` bounds its loop over one
vector by the size of another (`CameraServer.cpp:38`), so that a thread which
starts while others are missing fails and is started again; the queue of the
exchange takes one query more than the 100 of the document
(RequestImpl.cpp:119).

## 4. Proofs

All theorems hold for every value of the constants that the named `ASSUME` of
the module allows: any number of senders, cameras, computers and films, any
sizes, limits and bounds.

| Theorem | Module | What it says |
|---|---|---|
| `TypeCorrect`, `QueueIsBounded`, `NoPushUnderTheHandler`, `HandledInOrder` | `ThreadMessageProofs` | type, bound, what is popped was handled, order |
| `Implementation` | `ThreadMessageProofs` | `ThreadMessage` implements `LossyFifo` |
| `RoomTypeCorrect`, `FilmAgreement` | `RoomSessionProofs` | type; same session, same film |
| `LeftInPeace`, `NeverGoesBack` | `RoomSessionProofs` | with packets in order: a server in step is neither stopped nor restarted; none takes over an older session |
| `SchedulerTypeCorrect`, `ActionAndServerAgree` | `FilmSchedulerProofs` | type, and never ahead of the clock; `StaStopped` exactly when stopped |
| `CountsOnlyInWindow`, `MissesNoFilm` | `FilmSchedulerProofs` | a loop in time measures only in the window of a film, and passes none |
| `OneSession` | `FilmSchedulerProofs` | no film has two sessions, however late the loop is |
| `MeasurementTypeCorrect`, `CompleteCounts`, `SavedAtMostOnce`, `TimelyCountsAreOwn` | `MeasurementProofs` | type; complete; saved once; own count when timely |
| `ExchangeTypeCorrect`, `NeverSendsUnconnected`, `AcceptedIsKept`, `TimetablesInOrder` | `ExchangeProofs` | type and locks; connected; kept; in order |
| `SentOnce` | `ExchangeProofs` | each answer and report is delivered once, and again only for a call that failed |
| `RoomThreadsTypes`, `OneThreadEach`, `ForgottenHaveEnded` | `RoomThreadsProofs` | type; no camera has two threads; only threads that have ended leave the vector, and only `overlap` lets the destructors free others |
| `Typing`, `Assembles` | `UdpLinkProofs` | type; only whole messages, or a number used twice |
| `RowsAreDelivered` | `UdpLinkProofs` | a message whose parts arrive in a row comes out |
| `LinkImplementsDatagrams` | `UdpLinkProofs` | `UdpLink` implements `Datagrams` as long as no number is used twice |
| `Invariant`, `TcpLinkTypes`, `MessagesComeWhole` | `TcpLinkProofs` | the inductive invariant; type; messages come out whole and in order |

Assumptions: `QueueAssumption` and `NoMsgAssumption` (the receiver is no sender,
sizes are numbers), `RoomAssumption`, `SchedulerAssumption` (films are intervals,
a positive period), `MeasurementAssumption`, `RoomThreadsAssumption`,
`ExchangeAssumption`, `UdpLinkAssumption`, `TcpLinkAssumption`. TLC evaluates
each of them in a run. Some theorems have hypotheses of their own, or have them
in the property: `LeftInPeace` and `NeverGoesBack` that the network keeps the
order of packets (`InOrder`); `CountsOnlyInWindow` and `MissesNoFilm` `Timely`,
that there is a break of at least one unit after the beginning of a film and two
before its end, that a measurement is shorter than `After + Before`, and that the
films of a room do not overlap;
`OneSession` only the last of these (`NoOverlap`); `TimelyCountsAreOwn` that the
timers are long enough and `m_bValid` starts FALSE.

The arguments:

* **Queue.** That the head stays while it is handled needs the owner of the
  lock: `front # NoMsg` only while the receiver is inside, and a push needs a
  sender inside. Order needs, beside the order of what was handled and of what
  is queued, that everything of a sender is numbered at most `sent`. The
  refinement maps `Push` to `Put` or `PutOverOldest`, `Pop` to `Take`, where
  `NoPushUnderTheHandler` says that the head is `front`, and every other step
  to a stutter.
* **Film agreement.** `SameSessionSameFilm` is not inductive: a packet under way
  may bring a session and a film that do not belong together. The invariant
  adds that every packet, and every camera server, that names the session of a
  working hall server has its film, and that no session is named that was not
  made yet; so a new GUID is unknown to all, and a crash makes all old ones
  harmless.
* **Undisturbed servers.** When packets keep their order, the sessions of the
  packets under way to a server grow, and none is older than the session the
  server is in (`Ordered`); what would disturb it, a `NetStop` or the `NetStart`
  of the session of a working hall server, has been overtaken by nothing of that
  session, so that while it is under way the server cannot be in step. The third
  part is what makes it inductive over `StartWork`, which sends such a packet,
  and `Receive`, which takes over a session from the front of the channel.
* **Scheduler.** The calls of `Wait`, `Suspend` and `Process` are lemmas about
  what a call may do to the server; the step lemma has one case per action. That
  the film the query chooses is in the timetable needs that a nonempty set of
  beginnings has a least one, which is well-foundedness of the naturals. The
  window (`Scheduled`) needs to know, at each place of the loop, which film the
  server is serving, that the answer of the query is still the earliest film
  that is not over, and by how much a measurement can have run over; no film is
  missed because the films of the past are those served, or those that were not
  there in time.
* **One session per film.** The step that starts a session sees `settings`, or
  what the query has answered, and `m_LastProcessedTime`. The invariant
  (`Sessions`) relates all three to the films that had their session: each of
  them is the film in question, or ends before it, or was struck off
  (`Behind`), and while `m_LastProcessedTime` is unset none of them can be
  chosen again (`NotAgain`). Neither lateness nor failed starts enter, so the
  theorem needs no `Timely`, but films that overlapped could alternate.
* **Measurement.** Completeness (`Complete`): in a measurement (`Measuring`)
  every camera is wanted, and whatever camera the buffer has data of, the hall
  thread's copy has data of too, although the copy is filled by the same handler
  but cleared at other moments; while the event is set the copy is full. Saved
  once (`InTurn`, `SavedOnce`): counts go through the event, the thread, the
  queue, `m_Spectators` and the rows in the order of their measurements, so that
  a later stage holds only older ones, and a measurement is saved only when it
  ends. Own count (`InTime`): when timers are long enough a count is in at most
  one of these stages, is the current measurement's, and is nowhere outside
  State_Process.
* **Exchange.** `ConnectionInv` says in which states and places there is an
  interface; `KeepInv` that each accepted query is at a place in a queue, or
  answered, also where the thread stands between queueing an answer and erasing
  the query; `OrderInv` that the queue is sorted by number, and that what was
  executed is before everything still queued. `SentOnce` adds that a message is
  not in the output queue and delivered at once, except for a call that failed
  half way, and counts: the delivered messages are as many as different ones plus
  those calls.
* **Threads.** That a camera has one thread is not inductive without two more
  facts: every thread that reads is in the vector (`LiveKnown`), and where the
  work may be started the vector is empty (`NoneLeft`). The second depends on
  where both actors are, on the locks they hold and on `m_State` and the
  `TimeAction` (`Control`): `StopWork` of one side must not meet `StartWork` of
  the other. `CheckCameraThreads` erases by indices that it corrects as it goes
  (`BadThreads[i] - i`, `ErasePlace`); by induction over its loop exactly the
  failed threads leave, so that what `NeedRestart` collects are cameras without
  one. What leaves the vector in `StopCameraThreads` is what it has waited for
  (`Waited`), as the lock was not left in between. That the destructors find the
  vector empty (`NoneLeft` again) needs that no one filled it after the user's
  `StopWork`: the main thread can only if it was past its look at `m_State` when
  that said stopped, which `overlap` remembers (`Remembers`).
* **UDP link.** A place of the buffer that the current number has flagged holds a
  part of a message with that number, and `splitCount` is the number of parts of
  that message without a flag; when it is 0 every place has a part of it. The
  argument breaks down exactly when a number names two messages, which is in the
  statement. For `RowsAreDelivered`, `Rows` adds what is known of `splitflags`,
  which is never cleared: a number in it is that of a message whose part at this
  place came. So a part of the row whose place is flagged is a copy, and
  otherwise is counted; when all parts came, `splitCount` is 0 and the message is
  out.
* **TCP link.** For a port that is not spoiled three things go on from each
  other: what its entry waits for, the bytes that were not read, and the place
  where the sender is in `NET_SendPacket` (`Framed`). The entry is empty before
  the first byte of a message, or has its length and a beginning of its payload
  before the byte that follows (`Ready`); the bytes are those of messages one
  after the other (`InRow`), which none of the messages that came out is after
  (`Later`); and the sender adds only what follows the last of them
  (`Position`). For a read, the same is shown of each turn of the loop of
  `AddData`: after it the entry fits the bytes that are left, or a prefix was
  cut and the loop ends (`Orderly`); and each turn uses bytes up, so that the
  turns of `AddData` are enough. A port becomes spoiled exactly where the
  agreement is lost, in the three ways of `WholeInOrder`.

What stays with TLC:

* liveness (`CamerasJoin`, `CamerasLeave`, `EveryMeasurementSaved`,
  `MeasurementEnds`, `CamerasWork`, `StopServerReturns`, `RequestReturns`,
  `AnsweredUnlessStuck`, `Delivered`): fairness and ENABLED are out of the
  prover's reach;

Every invariant and every safety property of steps that a passing run checks is
also a theorem. Loops are functions of the number of turns, and the library's
induction theorems take a predicate as a parameter, which the provers cannot
instantiate. `LoopInduction` has a set in its place and follows from the least
element of a set of naturals; `LoopDefined` says with it that the function which
a turn after another defines exists. The loops of the code that are proved about
(`CheckCameraThreads`, `AddData`) need no more.

## 5. Not modelled, and why

* Pixels, chair and hall algorithms, image encoding: numerical code.
* Launcher, client, guard, playlist, drawing and capture tools: user interface.
  Their calls into the engine are actions of the models.
* SQL, COM marshalling, Windows registry: what callers see of them is in the
  models, nothing else.
* In `RoomSession`: `StartRoomSession`, which gives each process a room by a
  named event, and packets of other rooms. The handler of `Hdr_StopWork` has no
  `break` (NetProto.cpp:37-40) and falls into that of images, which finds none:
  none of the modelled state changes.
* In `FilmScheduler`: `PumpState` overwrites the result of `GetWorkParam` with
  that of the query for the film (main_server_impl.cpp:1069-1070), so that when
  only the first fails, `nAfter`, `nBefore` and `nPeriod` are used uninitialised.
  The model has both succeed or the reading fail.
* In `Measurement`: a statistics server that fails with an exception. `Statistics`
  catches only those of the insertion; one of the query for the cameras of the
  room (CStatisticsServerImpl.cpp:92) is caught by nobody on the way and ends the
  main thread (main_server_impl.cpp:459). The branch of the constructor of
  `StaProcessed` for a missing hall thread (ServerTimeAction.cpp:220), which
  `StaWorked::Process` (83) undoes by putting the new `StaProcessed` over the
  `StaWorked`; without the user interface the hall thread is there while the work
  runs.
* In `RoomThreads`: the hall thread, which has no vector and is stopped like the
  others, and other locks that a terminated thread may hold, such as `m_cs` of
  `m_ServerMessage` or that of the heap.
* In `Exchange`: `Stop`, `RenewParam`, the contents of messages, and the reference
  number in the answer of the box office, which the code does not compare. The
  box office is assumed to take a call while one of its own is under way
  (RequestImpl.cpp:366), as a program does whose calls wait in a message loop:
  one that is blocked in its own `Request` would never let `SendOutput` end, and
  its `Request` would wait for the lock that the working thread holds there.
  `RequestReturns` says nothing of such a box office.
* File transfer: the server's handler of requests, `OnFileRequest`
  (`SuperServerImpl.cpp:407`), answers every request with busy, so the client's
  protocol has no partner in this version.
* System diagnostic: a map of states that one thread fills and the tab shows; no
  decision is taken from it.
* In `UdpLink` and `TcpLink`: sockets and their options, the lock around the
  receive buffers, several computers that send (they share no entry), and
  datagrams of other programs, which the check of the header drops. In `UdpLink`
  `m_gSequenceNumber++` and the test behind it are one step: an increment that
  is lost to another thread's, and so sets the counter back, and two that meet
  at the wrap, where the number is negative for a moment, are not modelled. In
  `TcpLink` the walk of `NET_Sleep` over `m_Clients` (NetTcpLink.cpp:743-754),
  whose lock is commented out, beside `CloseClient`, which erases from it.

Most of the repository's lines are not engine: DirectShow and Direct3D headers,
grid, chart and image libraries and dialogs make up far more than half of them,
and numerical algorithms most of the rest. The modules cover the control of the
engine.

## 6. What is open

1. `Measurement` composed with `RoomThreads`: the user interface stops the hall
   thread during a measurement. The product of the two is beyond a run; it would
   need an abstraction of `Measurement` first.
2. The list of room servers and `StartServer` beside the network thread.
3. Timetables of several rooms, written room by room (`TimeTableMessage.cpp`).
4. Film times in the exchange, for the five seconds in which a report can be
   begun (`ExchangeState.cpp:44`).
