---------------------------- MODULE FilmScheduler ----------------------------
(***************************************************************************)
(* When the hall server of a room counts.  Every ten seconds PumpState     *)
(* reads the timetable, and on each turn of the server loop TimeSheduler   *)
(* compares the clock with the film it knows and calls Suspend, Wait or    *)
(* Process of the current TimeAction: StaStopped, StaWorked or             *)
(* StaProcessed, which start and stop the work of the server (mainserver/  *)
(* TimeSheduler.cpp, ServerTimeAction.cpp, PumpState and the loop of       *)
(* main_server_impl.cpp).                                                  *)
(*                                                                         *)
(* A unit of time is the ten seconds of the timer of PumpState.  What      *)
(* happens inside a measurement is not seen here: Exec ends it.            *)
(***************************************************************************)
EXTENDS Integers

CONSTANTS
  Tables,     \* the timetables: each a set of films [begin, end]
  After,      \* m_nAfter, m_nBefore, m_nPeriod of the room
  Before,
  Period,
  Horizon,    \* bound: the last moment
  MaxProcess, \* how long a measurement may take
  MaxFailed,  \* bound: failed starts
  MaxEdits,   \* bound: changes of the timetable
  NoFilm,     \* an unset Property<Settings>
  Unset       \* an unset Property<CTime>

AllFilms == UNION Tables

ASSUME SchedulerAssumption ==
  /\ After \in Nat /\ Before \in Nat /\ Period \in Nat \ {0}
  /\ Horizon \in Nat /\ MaxProcess \in Nat /\ MaxFailed \in Nat /\ MaxEdits \in Nat
  /\ \A f \in AllFilms : f.begin \in Nat /\ f.end \in Nat /\ f.begin < f.end
  /\ NoFilm \notin AllFilms /\ Unset \notin Nat

VARIABLES
  now,      \* the clock
  table,    \* the timetable in the database
  settings, \* m_Settings: the film the scheduler goes by
  last,     \* m_LastProcessedTime
  action,   \* m_pTimeAction: "Stopped", "Worked", "Processed"
  running,  \* m_State = ss_running
  film,     \* m_TimeFilm
  answer,   \* the film PumpState has just read, not yet looked at
  current,  \* the timetable was read since the clock or the action moved
  looked,   \* it was read since the clock moved
  turned,   \* the scheduler ran since the clock or the action moved
  since,    \* when the measurement began
  worked,   \* the films whose session was started
  late,     \* the loop stood still for a while, or the database did not answer
  failed, edits

vars == <<now, table, settings, last, action, running, film, answer, current, looked,
          turned, since, worked, late, failed, edits>>

serverVars == <<action, running, film, since, worked, failed>>

Init ==
  /\ now = 0 /\ table \in Tables
  /\ settings = NoFilm /\ last = Unset
  /\ action = "Stopped" /\ running = FALSE /\ film = NoFilm
  /\ answer = NoFilm /\ current = FALSE /\ looked = FALSE /\ turned = FALSE /\ since = 0
  /\ worked = {} /\ late = FALSE /\ failed = 0 /\ edits = 0
-----------------------------------------------------------------------------
InWindow(f) == f.begin + After <= now /\ now + Before <= f.end

(* GetCurrentOrNextFilmTime: the earliest film that is not over.  The query *)
(* leaves out the seconds of the present time, which changes nothing for    *)
(* films that end at a whole minute.                                        *)
CurrentOrNext ==
  LET left == {f \in table : f.end > now} IN
  IF left = {} THEN NoFilm
  ELSE CHOOSE f \in left : \A g \in left : f.begin <= g.begin

(* Faulty Wait: goes on to StaWorked when StartWork failed.                 *)
WaitUnchecked(f) ==
  \/ /\ action = "Stopped"
     /\ film' = f /\ action' = "Worked"
     /\ \/ running' = TRUE /\ worked' = worked \cup {f} /\ UNCHANGED failed
        \/ failed < MaxFailed /\ failed' = failed + 1 /\ UNCHANGED <<running, worked>>
     /\ UNCHANGED since
  \/ action # "Stopped" /\ UNCHANGED serverVars

(* StartWork of StaStopped::Wait; a failure has set the film time already.  *)
Wait(f) ==
  \/ /\ action = "Stopped"
     /\ film' = f
     /\ \/ /\ running' = TRUE /\ action' = "Worked"
           /\ worked' = worked \cup {f} /\ UNCHANGED failed
        \/ /\ failed < MaxFailed /\ failed' = failed + 1
           /\ UNCHANGED <<running, action, worked>>
     /\ UNCHANGED since
  \/ action # "Stopped" /\ UNCHANGED serverVars

(* StaWorked::Suspend is StopWork; the two other states ignore the call.    *)
Suspend ==
  \/ /\ action = "Worked"
     /\ action' = "Stopped" /\ running' = FALSE
     /\ UNCHANGED <<film, since, worked, failed>>
  \/ action # "Worked" /\ UNCHANGED serverVars

(* StaWorked::Process begins a measurement; the others ignore the call.     *)
BeginProcess ==
  \/ /\ action = "Worked"
     /\ action' = "Processed" /\ since' = now
     /\ UNCHANGED <<running, film, worked, failed>>
  \/ action # "Worked" /\ UNCHANGED serverVars

(* TimeSheduler::Process before the film: nothing is forgotten.             *)
BeforeFilm(f) ==
  /\ now < f.begin + After
  /\ Suspend
  /\ settings' = f /\ UNCHANGED last

(* Faulty AfterFilm: the end of the film resets no time.                    *)
AfterFilmKeepsLast(f) ==
  /\ now >= f.begin + After /\ now + Before > f.end
  /\ Suspend
  /\ settings' = NoFilm /\ UNCHANGED last

(* Faulty AfterFilm: nothing is suspended.                                  *)
AfterFilmGoesOn(f) ==
  /\ now >= f.begin + After /\ now + Before > f.end
  /\ settings' = NoFilm /\ last' = Unset /\ UNCHANGED serverVars

(* After it, or in it when it is too short, everything is forgotten.        *)
AfterFilm(f) ==
  /\ now >= f.begin + After /\ now + Before > f.end
  /\ Suspend
  /\ settings' = NoFilm /\ last' = Unset

(* Faulty DuringFilm: the period counts from the next turn.                 *)
DuringFilmAhead(f) ==
  /\ InWindow(f) /\ settings' = f
  /\ \/ last = Unset /\ last' = now /\ Wait(f)
     \/ last # Unset /\ last + Period <= now /\ last' = now + Period /\ BeginProcess
     \/ last # Unset /\ last + Period > now /\ UNCHANGED <<last, serverVars>>

(* Faulty DuringFilm: forgets and suspends between measurements.            *)
DuringFilmRestarts(f) ==
  /\ InWindow(f) /\ settings' = f
  /\ \/ last = Unset /\ last' = now /\ Wait(f)
     \/ last # Unset /\ last + Period <= now /\ last' = now /\ BeginProcess
     \/ last # Unset /\ last + Period > now /\ last' = Unset /\ Suspend

(* In between Wait once, then Process each period.                          *)
DuringFilm(f) ==
  /\ InWindow(f) /\ settings' = f
  /\ \/ last = Unset /\ last' = now /\ Wait(f)
     \/ last # Unset /\ last + Period <= now /\ last' = now /\ BeginProcess
     \/ last # Unset /\ last + Period > now /\ UNCHANGED <<last, serverVars>>

(* TimeSheduler::Process with m_Settings = f.                               *)
Process(f) == BeforeFilm(f) \/ AfterFilm(f) \/ DuringFilm(f)

(* ProcessNoSetting: go by the film already known, if any.                  *)
ProcessNoSetting ==
  \/ settings # NoFilm /\ Process(settings)
  \/ settings = NoFilm /\ UNCHANGED <<settings, last, serverVars>>
-----------------------------------------------------------------------------
(* A turn of the loop whose timer is not signalled.                         *)
Turn ==
  /\ answer = NoFilm
  /\ ProcessNoSetting
  /\ turned' = TRUE
  /\ UNCHANGED <<now, table, answer, current, looked, late, edits>>

(* PumpState asks the database, which gives the film and the parameters of  *)
(* the room.                                                                *)
PumpState ==
  /\ answer = NoFilm
  /\ CurrentOrNext # NoFilm
  /\ answer' = CurrentOrNext
  /\ UNCHANGED <<now, table, settings, last, current, looked, turned, serverVars, late, edits>>

(* PumpState when the table has no film left, or cannot be read.            *)
PumpStateNoFilm ==
  /\ answer = NoFilm
  /\ late' = (late \/ CurrentOrNext # NoFilm)
  /\ ProcessNoSetting
  /\ current' = TRUE /\ looked' = TRUE /\ turned' = TRUE
  /\ UNCHANGED <<now, table, answer, edits>>

(* ProcessNormalSettings, which reads the clock again.                      *)
ProcessNormalSettings ==
  /\ answer # NoFilm
  /\ Process(answer)
  /\ answer' = NoFilm /\ current' = TRUE /\ looked' = TRUE /\ turned' = TRUE
  /\ UNCHANGED <<now, table, late, edits>>

(* Exec of StaProcessed: the measurement ends, done or timed out.           *)
Exec ==
  /\ answer = NoFilm
  /\ action = "Processed"
  /\ action' = "Worked" /\ current' = FALSE /\ turned' = FALSE
  /\ UNCHANGED <<now, table, settings, last, running, film, answer, looked, since,
                 worked, late, failed, edits>>

(* Ten seconds pass.  A loop that is in time has read the timetable and     *)
(* looked at it since the ten seconds before, and has called the scheduler  *)
(* again when a measurement ended after that.                               *)
Tick ==
  /\ now < Horizon
  /\ late' = (late \/ ~looked \/ ~turned \/ answer # NoFilm)
  /\ action = "Processed" => now < since + MaxProcess
  /\ now' = now + 1 /\ current' = FALSE /\ looked' = FALSE /\ turned' = FALSE
  /\ UNCHANGED <<table, settings, last, answer, serverVars, edits>>

(* The exchange with the box office changes the timetable.                  *)
EditTable ==
  /\ edits < MaxEdits
  /\ edits' = edits + 1 /\ table' \in Tables
  /\ UNCHANGED <<now, settings, last, answer, current, looked, turned, serverVars, late>>

Next ==
  \/ Turn \/ PumpState \/ PumpStateNoFilm \/ ProcessNormalSettings
  \/ Exec \/ Tick \/ EditTable

Spec == Init /\ [][Next]_vars
-----------------------------------------------------------------------------
(* The scheduler never looks ahead of the clock, and everything it knows is *)
(* a film of some timetable.                                                *)
TypeOK ==
  /\ now \in 0..Horizon /\ table \in Tables
  /\ {settings, film, answer} \subseteq AllFilms \cup {NoFilm}
  /\ last \in 0..now \cup {Unset} /\ since \in 0..now
  /\ action \in {"Stopped", "Worked", "Processed"}
  /\ running \in BOOLEAN /\ late \in BOOLEAN
  /\ {current, looked, turned} \subseteq BOOLEAN /\ (current => looked /\ turned)
  /\ worked \subseteq AllFilms
  /\ failed \in 0..MaxFailed /\ edits \in 0..MaxEdits

(* The TimeAction and the server agree: StaStopped waits for the next film  *)
(* exactly when the threads are stopped, also after a start that failed.    *)
ActionMatchesServer == running <=> action # "Stopped"

(* When the loop is never late, a server that is not in the middle of a     *)
(* measurement counts only between After past the beginning and Before from *)
(* the end of the film whose time it gave the algorithms.  The exception is *)
(* the last film of the timetable: a measurement that runs over its end     *)
(* leaves the server working.                                               *)
OnlyInWindow ==
  ~late /\ edits = 0 /\ current /\ answer = NoFilm
    /\ action = "Worked" /\ CurrentOrNext # NoFilm => InWindow(film)

(* When the loop is never late and no start fails, no film of the timetable *)
(* is missed.                                                               *)
NoFilmMissed ==
  ~late /\ failed = 0 /\ edits = 0 =>
    \A f \in table :
      f.begin + After <= f.end - Before /\ f.end - Before < now => f \in worked

(* No film is counted in two sessions, however late the loop is, although   *)
(* starts fail and the timetable is changed.  When it is changed and then   *)
(* changed back this is lost: the end of a film that was only for a while   *)
(* in the timetable resets m_LastProcessedTime.                             *)
OneSessionPerFilm ==
  [][edits <= 1 => \A f \in worked : ~(~running /\ running' /\ film' = f)]_vars
=============================================================================
