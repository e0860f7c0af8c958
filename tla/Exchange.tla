------------------------------ MODULE Exchange ------------------------------
(***************************************************************************)
(* The exchange with the box office (CSEngine/Exchange).  The box office   *)
(* sends queries, mostly timetables, through Request on the main thread of *)
(* the launcher; a working thread handles them, sends the answers and, a   *)
(* while after each film, a report of the spectators, and waits for the    *)
(* answer to the report.  What the thread does is the business of its      *)
(* ExchangeState, which the operator may change with Reconnect and         *)
(* ForceReport.  Every query and answer is logged in the database.         *)
(*                                                                         *)
(* A query is a timetable, an error message of the box office (its answer  *)
(* to a report), or something ProcessMessage cannot make sense of.  Each   *)
(* has the number under which it was sent.  The working thread is one of   *)
(* those Start began; "dead" is one that an exception ended.               *)
(***************************************************************************)
EXTENDS Naturals, Sequences, SequencesExt, FiniteSets

CONSTANTS
  MaxQueue,   \* the limit of the input queue, 100 in the code
  Attempts,   \* m_nExchangeNumber: attempts to connect, 0 for no limit
  MaxQueries, \* bound: queries the box office sends
  MaxReports, \* bound: reports
  MaxBoxDown, \* bound: times the box office goes down
  MaxDbDown,  \* bound: times the database cannot be opened
  MaxHalfSent,  \* bound: calls that fail after the box office has the message
  StartMayFail  \* may Start fail?

ASSUME ExchangeAssumption ==
  /\ MaxQueue \in Nat /\ Attempts \in Nat /\ MaxQueries \in Nat /\ MaxReports \in Nat
  /\ MaxBoxDown \in Nat /\ MaxDbDown \in Nat /\ MaxHalfSent \in Nat
  /\ StartMayFail \in BOOLEAN

Query == [kind : {"timetable", "error", "invalid"}, n : 1..MaxQueries]

OutputMessage ==
  [type : {"answer"}, n : 1..MaxQueries] \cup [type : {"report"}, n : 1..MaxReports]

VARIABLES
  input,     \* m_InputQueue
  output,    \* m_OutputQueue
  state,     \* m_pState: "connect", "receive", "report", "wait", "disconnect"
  ticks,     \* m_nTicks of the ConnectState
  com,       \* m_pBoxOffice: "none", "good", or "stale": its server is gone
  worker,    \* where the working thread is
  at,        \* the iterator of PopMessage and PopResponseMessage
  changeCS,  \* who holds m_ChangeStateSync: "none", "worker", "dead"
  workingCS, \* who holds m_WorkingThreadSync
  main,      \* where Request is on the main thread, or "idle"
  accepted,  \* the queries that Request has put into the queue
  executed,  \* the timetables executed, in order
  delivered, \* what the box office has received, in order
  box, db,   \* is the box office, is the database there
  sent, reports, boxDowns, dbDowns, halfSent

queues == <<input, output>>
locks == <<changeCS, workingCS>>
requestVars == <<main, accepted, sent>>
outside == <<box, db, boxDowns, dbDowns, halfSent>>
vars == <<queues, state, ticks, com, worker, at, locks, requestVars, executed,
          delivered, reports, outside>>

Init ==
  /\ input = <<>> /\ output = <<>>
  /\ state = "connect" /\ ticks = 0 /\ com = "none"
  /\ worker = "none" /\ at = 1 /\ changeCS = "none" /\ workingCS = "none"
  /\ main = "idle" /\ accepted = {} /\ executed = <<>> /\ delivered = <<>>
  /\ box = "up" /\ db = "up"
  /\ sent = 0 /\ reports = 0 /\ boxDowns = 0 /\ dbDowns = 0 /\ halfSent = 0
-----------------------------------------------------------------------------
(* Start fails when the registry lacks a value or there is no thread to be  *)
(* had; Request does not look at the result.                                *)
Start ==
  \/ worker' = "starting"
  \/ StartMayFail /\ UNCHANGED worker

(* Request of the main thread.  GetState looks whether the thread runs; if  *)
(* not, Start is to begin another.                                          *)
Request ==
  /\ main = "idle" /\ sent < MaxQueries
  /\ main' = "getState" /\ sent' = sent + 1
  /\ UNCHANGED <<queues, state, ticks, com, worker, at, locks, accepted, executed,
                 delivered, reports, outside>>

GetState ==
  /\ main = "getState"
  /\ \/ worker \in {"none", "dead"} /\ Start
     \/ worker \notin {"none", "dead"} /\ changeCS = "none" /\ UNCHANGED worker
  /\ main' = "push"
  /\ UNCHANGED <<queues, state, ticks, com, at, locks, accepted, sent, executed,
                 delivered, reports, outside>>

(* E_PENDING when the queue is full.                                        *)
Push ==
  /\ main = "push" /\ workingCS = "none"
  /\ \/ Len(input) > MaxQueue /\ UNCHANGED <<input, accepted>>
     \/ /\ Len(input) <= MaxQueue
        /\ \E q \in Query :
             q.n = sent /\ input' = Append(input, q) /\ accepted' = accepted \cup {q}
  /\ main' = "idle"
  /\ UNCHANGED <<output, state, ticks, com, worker, at, locks, sent, executed,
                 delivered, reports, outside>>

(* Reconnect of the operator.                                               *)
Reconnect ==
  /\ main = "idle" /\ changeCS = "none"
  /\ state = "disconnect"
  /\ state' = "connect" /\ ticks' = 0
  /\ UNCHANGED <<queues, com, worker, at, locks, requestVars, executed, delivered,
                 reports, outside>>

(* Faulty ForceReport: whatever the state is.                               *)
ForceReportAlways ==
  /\ main = "idle" /\ changeCS = "none" /\ reports < MaxReports
  /\ state' = "report"
  /\ UNCHANGED <<queues, ticks, com, worker, at, locks, requestVars, executed,
                 delivered, reports, outside>>

(* ForceReport of the operator.                                             *)
ForceReport ==
  /\ main = "idle" /\ changeCS = "none" /\ reports < MaxReports
  /\ state \in {"receive", "report"}
  /\ state' = "report"
  /\ UNCHANGED <<queues, ticks, com, worker, at, locks, requestVars, executed,
                 delivered, reports, outside>>
-----------------------------------------------------------------------------
(* ThreadProc: the thread begins with the ConnectState.                     *)
Starts ==
  /\ worker = "starting" /\ changeCS = "none"
  /\ state' = "connect" /\ ticks' = 0 /\ worker' = "turn"
  /\ UNCHANGED <<queues, com, at, locks, requestVars, executed, delivered, reports,
                 outside>>

(* A turn of the loop calls Process under m_ChangeStateSync.                *)
Turn(s) == worker = "turn" /\ changeCS = "none" /\ state = s

ConnectCOM(n) ==
  \/ box = "up" /\ state' = "receive" /\ com' = "good" /\ ticks' = 0
  \/ box = "down" /\ ticks' = n /\ UNCHANGED <<state, com>>

(* ConnectState: at once, then each time the timer is signaled, until there *)
(* were Attempts of them.  Without a limit the next turn tries again.       *)
Connect ==
  /\ Turn("connect")
  /\ \/ ticks = 0 /\ ConnectCOM(1)
     \/ ticks > 0 /\ Attempts = 0
        /\ (ConnectCOM(1) \/ (ticks' = 0 /\ UNCHANGED <<state, com>>))
     \/ ticks > 0 /\ ticks < Attempts /\ ConnectCOM(ticks + 1)
     \/ /\ Attempts > 0 /\ ticks >= Attempts
        /\ state' = "disconnect" /\ ticks' = 0 /\ UNCHANGED com
  /\ UNCHANGED <<queues, worker, at, locks, requestVars, executed, delivered, reports,
                 outside>>

(* Faulty Pop: leaves an empty queue with the section locked.               *)
PopKeepsLock ==
  /\ worker = "turn" /\ changeCS = "none" /\ state \in {"receive", "wait"}
  /\ changeCS' = "worker" /\ at' = 1
  /\ workingCS' = "worker"
  /\ worker' = IF input # <<>> THEN "pop" ELSE IF state = "receive" THEN "send" ELSE "timer"
  /\ UNCHANGED <<queues, state, ticks, com, requestVars, executed, delivered, reports,
                 outside>>

(* PopMessage and PopResponseMessage: Try fails while Request is in the     *)
(* critical section.                                                        *)
Pop ==
  /\ worker = "turn" /\ changeCS = "none" /\ state \in {"receive", "wait"}
  /\ changeCS' = "worker" /\ at' = 1
  /\ \/ /\ input # <<>>
        /\ workingCS' = "worker" /\ worker' = "pop"
     \/ /\ input = <<>> \/ main = "push"
        /\ worker' = IF state = "receive" THEN "send" ELSE "timer"
        /\ UNCHANGED workingCS
  /\ UNCHANGED <<queues, state, ticks, com, requestVars, executed, delivered, reports,
                 outside>>

Answer(q) == output' = Append(output, [type |-> "answer", n |-> q.n])

Erase == input' = RemoveAt(input, at) /\ UNCHANGED at

(* ProcessQuery up to the answer.  The database is opened for a query that  *)
(* makes sense; when that fails, the query is answered as one that does not *)
(* make sense, and will be logged as unknown; that answer carries           *)
(* c_DefErrorID where the model keeps the number.  A timetable of which     *)
(* Validate or Execute thinks badly is answered and logged, but not         *)
(* executed; an error message of which ParseError cannot make sense gets no *)
(* answer, and is no answer to a report.  A thread that waits for the       *)
(* answer to its report leaves timetables where they are.                   *)
ProcessQuery(q) ==
  \/ /\ q.kind = "invalid" \/ db = "down"
     /\ Answer(q)
     /\ worker' = "log" /\ UNCHANGED <<input, at, executed, state>>
  \/ /\ q.kind = "error"
     /\ worker' = "log" /\ UNCHANGED <<input, output, at, executed, state>>
  \/ /\ q.kind = "timetable" /\ db = "up"
     /\ Answer(q)
     /\ Erase /\ UNCHANGED <<worker, executed, state>>
  \/ /\ q.kind = "timetable" /\ db = "up" /\ state = "receive"
     /\ executed' = Append(executed, q.n) /\ Answer(q)
     /\ Erase /\ UNCHANGED <<worker, state>>
  \/ /\ q.kind = "error" /\ db = "up" /\ state = "receive"
     /\ Erase /\ UNCHANGED <<output, worker, executed, state>>
  \/ /\ q.kind = "timetable" /\ db = "up" /\ state = "wait"
     /\ at' = at + 1 /\ UNCHANGED <<input, output, worker, executed, state>>
  \/ /\ q.kind = "error" /\ db = "up" /\ state = "wait"
     /\ Erase /\ state' = "receive" /\ worker' = "unlock"
     /\ UNCHANGED <<output, executed>>

(* Faulty ProcessQuery: erases what it leaves for later.                    *)
ProcessQueryErases(q) ==
  IF q.kind = "timetable" /\ db = "up" /\ state = "wait"
    THEN Erase /\ UNCHANGED <<output, worker, executed, state>>
    ELSE ProcessQuery(q)

(* Faulty ProcessQuery: executes what it leaves for later.                  *)
ProcessQueryExecutes(q) ==
  IF q.kind = "timetable" /\ db = "up" /\ state = "wait"
    THEN executed' = Append(executed, q.n) /\ at' = at + 1
         /\ UNCHANGED <<input, output, worker, state>>
    ELSE ProcessQuery(q)

(* Faulty ProcessNext: erases what it leaves for later.                     *)
ProcessNextErases ==
  /\ worker = "pop" /\ at <= Len(input)
  /\ ProcessQueryErases(input[at])
  /\ UNCHANGED <<ticks, com, locks, requestVars, delivered, reports, outside>>

(* Faulty ProcessNext: executes what it leaves for later.                   *)
ProcessNextExecutes ==
  /\ worker = "pop" /\ at <= Len(input)
  /\ ProcessQueryExecutes(input[at])
  /\ UNCHANGED <<ticks, com, locks, requestVars, delivered, reports, outside>>

(* The next query of the loop.                                              *)
ProcessNext ==
  /\ worker = "pop" /\ at <= Len(input)
  /\ ProcessQuery(input[at])
  /\ UNCHANGED <<ticks, com, locks, requestVars, delivered, reports, outside>>

(* "if( !bDBLog )": the database is opened once more, outside the try block *)
(* that knows DataBaseException.                                            *)
LogUnknown ==
  /\ worker = "log"
  /\ \/ /\ db = "up"
        /\ Erase /\ worker' = "pop" /\ UNCHANGED locks
     \/ /\ db = "down"
        /\ worker' = "dead" /\ changeCS' = "dead" /\ workingCS' = "dead"
        /\ UNCHANGED <<input, at>>
  /\ UNCHANGED <<output, state, ticks, com, requestVars, executed, delivered, reports,
                 outside>>

(* The end of the loop.  A thread that got the answer it waited for has     *)
(* done its turn, one that did not looks at the timer.                      *)
Unlock ==
  /\ worker = "unlock" \/ (worker = "pop" /\ at > Len(input))
  /\ workingCS' = "none" /\ at' = 1
  /\ \/ worker = "unlock" /\ worker' = "turn" /\ changeCS' = "none"
     \/ /\ worker = "pop"
        /\ worker' = IF state = "receive" THEN "send" ELSE "timer"
        /\ UNCHANGED changeCS
  /\ UNCHANGED <<queues, state, ticks, com, requestVars, executed, delivered, reports,
                 outside>>

(* Faulty WaitTimeout: the timer was never started.                         *)
WaitTimeoutNever ==
  /\ worker = "timer" /\ FALSE
  /\ UNCHANGED vars

(* WaitForResponseState after m_nWaitTimeout.                               *)
WaitTimeout ==
  /\ worker = "timer"
  /\ state' = "receive" /\ worker' = "turn" /\ changeCS' = "none"
  /\ UNCHANGED <<queues, ticks, com, at, workingCS, requestVars, executed, delivered,
                 reports, outside>>

WaitOn ==
  /\ worker = "timer"
  /\ worker' = "turn" /\ changeCS' = "none"
  /\ UNCHANGED <<queues, state, ticks, com, at, workingCS, requestVars, executed,
                 delivered, reports, outside>>

(* SendReportState: CreateStatReport fails without the database, and is     *)
(* tried again in the next turn.                                            *)
CreateStatReport ==
  /\ Turn("report")
  /\ db = "up" /\ reports < MaxReports
  /\ reports' = reports + 1
  /\ output' = Append(output, [type |-> "report", n |-> reports'])
  /\ changeCS' = "worker" /\ worker' = "send"
  /\ UNCHANGED <<input, state, ticks, com, at, workingCS, requestVars, executed,
                 delivered, outside>>

(* SendOutputQueue, one message.  When the call fails: DisconnectCOM and    *)
(* back to the ConnectState, with the message still in the queue.           *)
SendOutput ==
  /\ worker = "send" /\ output # <<>>
  /\ \/ /\ com = "good"
        /\ delivered' = Append(delivered, Head(output)) /\ worker' = "logSent"
        /\ UNCHANGED <<state, ticks, com, changeCS>>
        /\ UNCHANGED halfSent
     \/ /\ com' = "none" /\ state' = "connect" /\ ticks' = 0
        /\ worker' = "turn" /\ changeCS' = "none"
        /\ \/ com = "stale" /\ UNCHANGED <<delivered, halfSent>>
           \/ /\ com = "good" /\ halfSent < MaxHalfSent
              /\ delivered' = Append(delivered, Head(output)) /\ halfSent' = halfSent + 1
  /\ UNCHANGED <<queues, at, workingCS, requestVars, executed, reports, box, db,
                 boxDowns, dbDowns>>

(* Faulty LogSent: does not pop.                                            *)
LogSentKeeps ==
  /\ worker = "logSent" /\ Len(delivered) < 9
  /\ \/ db = "up" /\ worker' = "send" /\ UNCHANGED <<output, changeCS>>
     \/ db = "down" /\ worker' = "dead" /\ changeCS' = "dead" /\ UNCHANGED output
  /\ UNCHANGED <<input, state, ticks, com, at, workingCS, requestVars, executed,
                 delivered, reports, outside>>

(* LogMessageToDB opens the database, which nothing catches; then the       *)
(* message is popped.                                                       *)
LogSent ==
  /\ worker = "logSent"
  /\ \/ db = "up" /\ output' = Tail(output) /\ worker' = "send" /\ UNCHANGED changeCS
     \/ db = "down" /\ worker' = "dead" /\ changeCS' = "dead" /\ UNCHANGED output
  /\ UNCHANGED <<input, state, ticks, com, at, workingCS, requestVars, executed,
                 delivered, reports, outside>>

(* The output queue is empty: the IncomingRequestState goes on, or a film   *)
(* has ended and there is to be a report; the SendReportState is done.      *)
EndTurn ==
  /\ worker = "send" /\ output = <<>>
  /\ \/ state = "report" /\ state' = "wait"
     \/ state = "receive" /\ UNCHANGED state
     \/ state = "receive" /\ reports < MaxReports /\ state' = "report"
  /\ worker' = "turn" /\ changeCS' = "none"
  /\ UNCHANGED <<queues, ticks, com, at, workingCS, requestVars, executed, delivered,
                 reports, outside>>
-----------------------------------------------------------------------------
BoxOffice ==
  /\ \/ /\ box = "up" /\ boxDowns < MaxBoxDown
        /\ box' = "down" /\ boxDowns' = boxDowns + 1
        /\ com' = IF com = "good" THEN "stale" ELSE com
     \/ box = "down" /\ box' = "up" /\ UNCHANGED <<boxDowns, com>>
  /\ UNCHANGED <<queues, state, ticks, worker, at, locks, requestVars, executed,
                 delivered, reports, db, dbDowns, halfSent>>

Database ==
  /\ \/ db = "up" /\ dbDowns < MaxDbDown /\ db' = "down" /\ dbDowns' = dbDowns + 1
     \/ db = "down" /\ db' = "up" /\ UNCHANGED dbDowns
  /\ UNCHANGED <<queues, state, ticks, com, worker, at, locks, requestVars, executed,
                 delivered, reports, box, boxDowns, halfSent>>

RequestNext == GetState \/ Push

WorkerNext ==
  \/ Starts \/ Connect \/ Pop \/ ProcessNext \/ LogUnknown \/ Unlock
  \/ WaitTimeout \/ WaitOn \/ CreateStatReport \/ SendOutput \/ LogSent \/ EndTurn

Next ==
  \/ Request \/ RequestNext \/ Reconnect \/ ForceReport
  \/ WorkerNext \/ BoxOffice \/ Database

Spec == Init /\ [][Next]_vars

(* The thread runs and is outside its critical sections for 50 ms of each   *)
(* turn, so that who waits for one gets in; a timer that runs is signaled.  *)
(* The box office and the database come back.                               *)
Fairness ==
  /\ WF_vars(WorkerNext) /\ SF_vars(WaitTimeout)
  /\ SF_vars(RequestNext)
  /\ WF_vars(BoxOffice /\ box = "down") /\ WF_vars(Database /\ db = "down")

FairSpec == Spec /\ Fairness
-----------------------------------------------------------------------------
(* Queues, states and locks are those of RequestImpl.h and ExchangeState.h, *)
(* and a place of the thread inside Process goes with the locks it holds    *)
(* there.                                                                   *)
TypeOK ==
  /\ input \in Seq(Query) /\ output \in Seq(OutputMessage)
  /\ state \in {"connect", "receive", "report", "wait", "disconnect"}
  /\ ticks \in Nat /\ com \in {"none", "good", "stale"}
  /\ worker \in {"none", "starting", "turn", "pop", "log", "unlock", "timer", "send",
                 "logSent", "dead"}
  /\ at \in 1..(Len(input) + 1)
  /\ changeCS \in {"none", "worker", "dead"} /\ workingCS \in {"none", "worker", "dead"}
  /\ main \in {"idle", "getState", "push"}
  /\ accepted \subseteq Query /\ executed \in Seq(1..MaxQueries)
  /\ delivered \in Seq(OutputMessage)
  /\ box \in {"up", "down"} /\ db \in {"up", "down"}
  /\ sent \in 0..MaxQueries /\ reports \in 0..MaxReports
  /\ boxDowns \in 0..MaxBoxDown /\ dbDowns \in 0..MaxDbDown /\ halfSent \in 0..MaxHalfSent
  /\ changeCS = "worker" <=> worker \in {"pop", "log", "unlock", "timer", "send", "logSent"}
  /\ workingCS = "worker" <=> worker \in {"pop", "log", "unlock"}

(* m_pBoxOffice is never used while it is NULL, whatever states Reconnect   *)
(* and ForceReport put between those of the thread.                         *)
ConnectedWhenSending == worker \in {"send", "logSent"} => com # "none"

(* Timetables are executed in the order in which they came, and none twice, *)
(* although the thread leaves them in the queue while it waits for the      *)
(* answer to a report: of two timetables for a day the later one counts.    *)
ExecutedInOrder ==
  \A i, j \in DOMAIN executed : i < j => executed[i] < executed[j]

Answered(n) == \E i \in DOMAIN delivered : delivered[i] = [type |-> "answer", n |-> n]

(* A query that Request has accepted and that asks for an answer is in one  *)
(* of the queues until it is answered, through reconnects, reports and      *)
(* failures of the database.                                                *)
NothingForgotten ==
  \A q \in accepted :
    q.kind # "error" =>
      \/ \E i \in DOMAIN input : input[i] = q
      \/ \E i \in DOMAIN output : output[i] = [type |-> "answer", n |-> q.n]
      \/ Answered(q.n)

(* The box office gets each answer and report once, and once more for each  *)
(* call that failed after it had the message: neither a reconnect nor the   *)
(* death of the thread between sending and logging sends anything again.    *)
DeliveredOnce == Len(delivered) <= Cardinality(Range(delivered)) + halfSent

(* The thread died and holds its locks.                                     *)
Dead == "dead" \in {changeCS, workingCS}

(* Request returns to the box office, whatever the thread does under the    *)
(* locks, unless it died with them.                                         *)
RequestReturns == main = "getState" ~> main = "idle" \/ Dead

AsksAnswer(n) == \E q \in accepted : q.n = n /\ q.kind # "error"

(* Every query that was accepted is answered, also when the database cannot *)
(* be reached for a while: error 65535 is the answer then.                  *)
QueriesAnswered == \A n \in 1..MaxQueries : AsksAnswer(n) ~> Answered(n)

(* Every query that was accepted is answered, unless there is no thread     *)
(* because Start has failed, the thread died with its locks, or it has      *)
(* given up connecting and waits for the operator: reports that wait for    *)
(* their answer, reconnects and calls that failed do not leave one behind,  *)
(* nor does a Start that failed once the next one succeeds.                 *)
AnsweredUnlessStuck ==
  \A n \in 1..MaxQueries :
    AsksAnswer(n) ~> Answered(n) \/ Dead \/ worker = "none" \/ state = "disconnect"
=============================================================================
