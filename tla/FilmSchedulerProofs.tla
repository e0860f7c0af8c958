------------------------- MODULE FilmSchedulerProofs -------------------------
(***************************************************************************)
(* Theorems of FilmScheduler, for every set of timetables, every After,    *)
(* Before and Period, every bound, and a loop that is late or not.         *)
(***************************************************************************)
EXTENDS FilmScheduler, WellFoundedInduction, TLAPS

(* Of the films that are not over f begins first, or before all of them.    *)
Earliest(f) == f \in table /\ \A g \in table : g.end > now => f.begin <= g.begin

IsCurrent(f) == Earliest(f) /\ f.end > now

NoneLeft == \A g \in table : g.end <= now

LEMMA FilmFacts ==
  ASSUME SchedulerAssumption, table \in Tables, NEW f \in table
  PROVE  f \in AllFilms /\ f # NoFilm /\ f.begin \in Nat /\ f.end \in Nat /\ f.begin < f.end
<1>1. f \in AllFilms
  BY DEF AllFilms
<1> QED BY <1>1 DEF SchedulerAssumption

(* CurrentOrNext chooses a film of the timetable: among the films that are  *)
(* not over there is one that begins first, even if they are infinitely     *)
(* many.                                                                    *)
LEMMA CurrentOrNextFirst ==
  ASSUME SchedulerAssumption, table \in Tables, now \in Nat, ~ NoneLeft
  PROVE  IsCurrent(CurrentOrNext) /\ CurrentOrNext # NoFilm
<1> DEFINE left == {f \in table : f.end > now}
           begins == {f.begin : f \in left}
           less == {ss \in Nat \X Nat : ss[1] < ss[2]}
<1>1. \A f \in table : f.begin \in Nat /\ f.end \in Nat
  BY FilmFacts
<1>2. \A f \in left : f.begin \in Nat
  BY <1>1
<1>3. left # {}
  BY <1>1 DEF NoneLeft
<1>4. begins \subseteq Nat /\ begins # {}
  BY <1>2, <1>3
<1>5. PICK b \in begins : \A d \in begins : ~(<<d, b>> \in less)
  <2>1. IsWellFoundedOn(less, Nat)
    BY NatLessThanWellFounded DEF OpToRel
  <2> HIDE DEF less, begins
  <2> QED BY <1>4, <2>1, WFMin, Zenon
<1>6. ASSUME NEW d \in begins PROVE b <= d
  <2>1. b \in Nat /\ d \in Nat
    BY <1>4, <1>5, Zenon
  <2>2. ~(<<d, b>> \in less)
    BY <1>5, Zenon
  <2> HIDE DEF begins
  <2> QED BY <2>1, <2>2
<1>7. PICK f \in left : f.begin = b
  OBVIOUS
<1>8. \A g \in left : f.begin <= g.begin
  BY <1>6, <1>7
<1>9. CurrentOrNext \in left /\ \A g \in left : CurrentOrNext.begin <= g.begin
  BY <1>3, <1>7, <1>8 DEF CurrentOrNext
<1> QED BY <1>9, FilmFacts DEF IsCurrent, Earliest

LEMMA CurrentOrNextNone ==
  ASSUME SchedulerAssumption, table \in Tables, now \in Nat, NoneLeft
  PROVE  CurrentOrNext = NoFilm
<1>1. {f \in table : f.end > now} = {}
  BY FilmFacts DEF NoneLeft
<1> QED BY <1>1 DEF CurrentOrNext

LEMMA CurrentOrNextKnown ==
  ASSUME SchedulerAssumption, table \in Tables, now \in Nat, CurrentOrNext # NoFilm
  PROVE  CurrentOrNext \in AllFilms
<1>1. ~ NoneLeft
  BY CurrentOrNextNone
<1> QED BY <1>1, CurrentOrNextFirst, FilmFacts DEF IsCurrent, Earliest

Inv == TypeOK /\ ActionMatchesServer

LEMMA InitInv == SchedulerAssumption /\ Init => Inv
<1> SUFFICES ASSUME SchedulerAssumption, Init PROVE TypeOK /\ ActionMatchesServer
  BY DEF Inv
<1>1. now \in 0..Horizon /\ since \in 0..now
  BY DEF SchedulerAssumption, Init
<1>2. failed \in 0..MaxFailed /\ edits \in 0..MaxEdits
  BY DEF SchedulerAssumption, Init
<1> QED BY <1>1, <1>2 DEF Init, TypeOK, ActionMatchesServer

(* What a call to the TimeAction may do to the server.                      *)
ServerMoves ==
  /\ action' \in {"Stopped", "Worked", "Processed"}
  /\ running' \in BOOLEAN /\ (running' <=> action' # "Stopped")
  /\ film' \in AllFilms \cup {NoFilm}
  /\ since' \in 0..now
  /\ worked' \subseteq AllFilms
  /\ failed' \in 0..MaxFailed

LEMMA ServerStays ==
  ASSUME Inv, UNCHANGED serverVars
  PROVE  ServerMoves
BY DEF Inv, TypeOK, ActionMatchesServer, ServerMoves, serverVars

LEMMA WaitMoves ==
  ASSUME SchedulerAssumption, Inv, NEW f \in AllFilms, Wait(f)
  PROVE  ServerMoves
<1>1. CASE action = "Stopped"
  <2>1. CASE running' = TRUE /\ action' = "Worked" /\ worked' = worked \cup {f} /\ UNCHANGED failed
    BY <1>1, <2>1 DEF Wait, Inv, TypeOK, ServerMoves
  <2>2. CASE failed < MaxFailed /\ failed' = failed + 1 /\ UNCHANGED <<running, action, worked>>
    <3>1. failed' \in 0..MaxFailed
      BY <2>2 DEF SchedulerAssumption, Inv, TypeOK
    <3>2. running' = FALSE
      BY <1>1, <2>2 DEF Inv, TypeOK, ActionMatchesServer
    <3> QED BY <1>1, <2>2, <3>1, <3>2 DEF Wait, Inv, TypeOK, ServerMoves
  <2> QED BY <1>1, <2>1, <2>2 DEF Wait
<1>2. CASE action # "Stopped"
  BY <1>2, ServerStays DEF Wait
<1> QED BY <1>1, <1>2

LEMMA SuspendMoves ==
  ASSUME Inv, Suspend
  PROVE  ServerMoves
<1>1. CASE action = "Worked"
  BY <1>1 DEF Suspend, Inv, TypeOK, ActionMatchesServer, ServerMoves, serverVars
<1>2. CASE action # "Worked"
  BY <1>2, ServerStays DEF Suspend
<1> QED BY <1>1, <1>2

LEMMA BeginProcessMoves ==
  ASSUME Inv, BeginProcess
  PROVE  ServerMoves
<1>1. CASE action = "Worked"
  BY <1>1 DEF BeginProcess, Inv, TypeOK, ActionMatchesServer, ServerMoves, serverVars
<1>2. CASE action # "Worked"
  BY <1>2, ServerStays DEF BeginProcess
<1> QED BY <1>1, <1>2

(* One call of the scheduler.                                               *)
SchedulerMoves ==
  /\ ServerMoves
  /\ settings' \in AllFilms \cup {NoFilm}
  /\ last' \in 0..now \cup {Unset}

LEMMA ProcessMoves ==
  ASSUME SchedulerAssumption, Inv, NEW f \in AllFilms, Process(f)
  PROVE  SchedulerMoves
<1>1. CASE now < f.begin + After /\ Suspend /\ settings' = f /\ UNCHANGED last
  BY <1>1, SuspendMoves DEF SchedulerMoves, Inv, TypeOK
<1>2. CASE Suspend /\ settings' = NoFilm /\ last' = Unset
  BY <1>2, SuspendMoves DEF SchedulerMoves
<1>3. CASE InWindow(f) /\ settings' = f /\ last' = now /\ Wait(f)
  BY <1>3, WaitMoves DEF SchedulerMoves, Inv, TypeOK
<1>4. CASE InWindow(f) /\ settings' = f /\ last' = now /\ BeginProcess
  BY <1>4, BeginProcessMoves DEF SchedulerMoves, Inv, TypeOK
<1>5. CASE InWindow(f) /\ settings' = f /\ UNCHANGED <<last, serverVars>>
  BY <1>5, ServerStays DEF SchedulerMoves, Inv, TypeOK
<1> QED BY <1>1, <1>2, <1>3, <1>4, <1>5 DEF Process, BeforeFilm, AfterFilm, DuringFilm

LEMMA ProcessNoSettingMoves ==
  ASSUME SchedulerAssumption, Inv, ProcessNoSetting
  PROVE  SchedulerMoves
<1>1. CASE settings # NoFilm /\ Process(settings)
  BY <1>1, ProcessMoves DEF Inv, TypeOK
<1>2. CASE settings = NoFilm /\ UNCHANGED <<settings, last, serverVars>>
  BY <1>2, ServerStays DEF SchedulerMoves, Inv, TypeOK
<1> QED BY <1>1, <1>2 DEF ProcessNoSetting

(* After a call of the scheduler that leaves the clock and the timetable    *)
(* alone the invariant holds again.                                         *)
LEMMA SchedulerKeepsInv ==
  ASSUME Inv, SchedulerMoves, UNCHANGED <<now, table, edits>>,
         answer' \in {answer, NoFilm}, late' \in BOOLEAN,
         {current', looked', turned'} \subseteq BOOLEAN, current' => looked' /\ turned'
  PROVE  Inv'
BY DEF Inv, TypeOK, ActionMatchesServer, SchedulerMoves, ServerMoves

LEMMA NextInv == SchedulerAssumption /\ Inv /\ [Next]_vars => Inv'
<1> SUFFICES ASSUME SchedulerAssumption, Inv, [Next]_vars PROVE Inv'
  OBVIOUS
<1>1. CASE Turn
  BY <1>1, ProcessNoSettingMoves, SchedulerKeepsInv DEF Turn, Inv, TypeOK
<1>2. CASE PumpState
  <2>1. answer' \in AllFilms
    BY <1>2, CurrentOrNextKnown DEF PumpState, Inv, TypeOK, SchedulerAssumption
  <2> QED
    BY <1>2, <2>1 DEF PumpState, Inv, TypeOK, ActionMatchesServer, serverVars
<1>3. CASE PumpStateNoFilm
  BY <1>3, ProcessNoSettingMoves, SchedulerKeepsInv DEF PumpStateNoFilm, Inv, TypeOK
<1>4. CASE ProcessNormalSettings
  <2>1. answer \in AllFilms
    BY <1>4 DEF ProcessNormalSettings, Inv, TypeOK
  <2> QED
    BY <1>4, <2>1, ProcessMoves, SchedulerKeepsInv DEF ProcessNormalSettings, Inv, TypeOK
<1>5. CASE Exec
  BY <1>5 DEF Exec, Inv, TypeOK, ActionMatchesServer
<1>6. CASE Tick
  <2>1. now' \in 0..Horizon /\ 0..now \subseteq 0..now'
    BY <1>6 DEF Tick, Inv, TypeOK, SchedulerAssumption
  <2>2. last' \in 0..now' \cup {Unset} /\ since' \in 0..now'
    BY <1>6, <2>1 DEF Tick, Inv, TypeOK, serverVars
  <2> QED
    BY <1>6, <2>1, <2>2 DEF Tick, Inv, TypeOK, ActionMatchesServer, serverVars
<1>7. CASE EditTable
  BY <1>7 DEF EditTable, Inv, TypeOK, ActionMatchesServer, serverVars, SchedulerAssumption
<1>8. CASE UNCHANGED vars
  BY <1>8 DEF vars, Inv, TypeOK, ActionMatchesServer
<1> QED BY <1>1, <1>2, <1>3, <1>4, <1>5, <1>6, <1>7, <1>8 DEF Next

LEMMA InvHolds == Spec => []Inv
BY SchedulerAssumption, InitInv, NextInv, PTL DEF Spec

(* The scheduler knows only films of timetables and never looks ahead of    *)
(* the clock: m_LastProcessedTime is a moment that has been.                *)
THEOREM SchedulerTypeCorrect == Spec => []TypeOK
BY InvHolds, PTL DEF Inv

(* Whatever the timetables, the delays of the loop and the starts that      *)
(* fail, the TimeAction is StaStopped exactly when the server is stopped:   *)
(* the auto_ptr m_pTimeAction and m_State, which two different functions    *)
(* change, agree.                                                           *)
THEOREM ActionAndServerAgree == Spec => []ActionMatchesServer
BY InvHolds, PTL DEF Inv
-----------------------------------------------------------------------------
(* The films of a room are shown one after the other.                       *)
NoOverlap ==
  \A t \in Tables : \A f, g \in t : f = g \/ f.end <= g.begin \/ g.end <= f.begin

(* What a loop in time needs to count each film in its window: the break    *)
(* before the end is longer than one period of PumpState, there is a break  *)
(* after the beginning, a measurement ends before the next film can be      *)
(* counted, and films do not overlap.                                       *)
Timely ==
  /\ Before >= 2 /\ After >= 1
  /\ MaxProcess < After + Before
  /\ NoOverlap

Answered == answer # NoFilm => IsCurrent(answer)

Known ==
  settings # NoFilm =>
    Earliest(settings) /\ (looked => NoneLeft \/ IsCurrent(settings))

(* m_LastProcessedTime is set only while the scheduler goes by the film     *)
(* that is shown.                                                           *)
Counting ==
  last # Unset =>
    /\ IsCurrent(settings)
    /\ settings.begin + After <= last
    /\ now + Before <= settings.end + 1
    /\ turned => now + Before <= settings.end

(* A server that works after the end of its film is in a measurement, which *)
(* ends before the next film is counted, or just out of it; a scheduler     *)
(* that has forgotten the film then has done so before its end.             *)
Overtime ==
  \/ NoneLeft
  \/ /\ now + Before > film.end /\ now < film.end + After
     /\ looked /\ settings = NoFilm => now < film.end
     /\ action = "Worked" => ~ current /\ (turned => settings = NoFilm)

Serving ==
  action # "Stopped" =>
    /\ Earliest(film)
    /\ last # Unset => film = settings
    /\ last = Unset => Overtime
    /\ action = "Processed" => now <= since + MaxProcess /\ since + Before <= film.end

Counted ==
  failed = 0 =>
    /\ \A f \in table :
         f.begin + After <= f.end - Before /\ f.end - Before < now => f \in worked
    /\ last # Unset => settings \in worked
    /\ looked => \A f \in table : IsCurrent(f) /\ InWindow(f) => f \in worked

Scheduled == Answered /\ Known /\ Counting /\ Serving /\ Counted

(* The strengthening under which OnlyInWindow and NoFilmMissed are          *)
(* inductive.                                                               *)
InTime == ~late /\ edits = 0 => Scheduled

LEMMA CurrentUnique ==
  ASSUME SchedulerAssumption, Timely, Inv, NEW f, NEW g, IsCurrent(f), IsCurrent(g)
  PROVE  f = g
<1>1. f \in table /\ g \in table /\ table \in Tables
  BY DEF IsCurrent, Earliest, Inv, TypeOK
<1>2. /\ f.begin \in Nat /\ f.end \in Nat /\ f.begin < f.end
      /\ g.begin \in Nat /\ g.end \in Nat /\ g.begin < g.end
  BY <1>1, FilmFacts
<1>3. f.begin <= g.begin /\ g.begin <= f.begin
  BY <1>1 DEF IsCurrent, Earliest
<1>4. f = g \/ f.end <= g.begin \/ g.end <= f.begin
  BY <1>1 DEF Timely, NoOverlap
<1> QED BY <1>2, <1>3, <1>4

(* The numbers that the invariants speak of.                                *)
LEMMA Numbers ==
  ASSUME SchedulerAssumption, Inv
  PROVE  /\ now \in Nat /\ since \in Nat /\ last \in Nat \cup {Unset} /\ Unset \notin Nat
         /\ last # Unset => last <= now
         /\ After \in Nat /\ Before \in Nat /\ MaxProcess \in Nat /\ failed \in Nat
         /\ edits \in Nat /\ Period \in Nat \ {0} /\ table \in Tables
BY DEF SchedulerAssumption, Inv, TypeOK

(* A film whose server works overtime is not counted again, and no other    *)
(* film is counted while it does.                                           *)
LEMMA OvertimeNotInWindow ==
  ASSUME SchedulerAssumption, Timely, Inv, Scheduled, action # "Stopped", last = Unset,
         NEW f \in table, Earliest(f), InWindow(f)
  PROVE  FALSE
<1>1. /\ f.begin \in Nat /\ f.end \in Nat /\ f.begin < f.end
      /\ film \in table /\ film.begin \in Nat /\ film.end \in Nat /\ film.begin < film.end
  BY Numbers, FilmFacts DEF Scheduled, Serving, Earliest
<1>2. f.begin + After <= now /\ now + Before <= f.end /\ f.end > now
  BY <1>1, Numbers DEF InWindow, Timely
<1>3. now + Before > film.end /\ now < film.end + After
  BY <1>1, <1>2, Numbers DEF Scheduled, Serving, Overtime, NoneLeft
<1>4. film.begin <= f.begin
  BY <1>2 DEF Scheduled, Serving, Earliest
<1>5. f = film \/ f.end <= film.begin \/ film.end <= f.begin
  BY <1>1, Numbers DEF Timely, NoOverlap
<1> QED BY <1>1, <1>2, <1>3, <1>4, <1>5, Numbers

(* What one call of the scheduler with the film f does in time.             *)
Processed(f) ==
  /\ settings' \in {f, NoFilm}
  /\ last' # Unset =>
       settings' = f /\ f.end > now /\ InWindow(f) /\ f.begin + After <= last'
  /\ action' # "Stopped" =>
       /\ Earliest(film')
       /\ last' # Unset => film' = f
       /\ last' = Unset =>
            /\ action' = "Processed"
            /\ \/ NoneLeft
               \/ /\ now + Before > film'.end /\ now < film'.end + After
                  /\ settings' = NoFilm /\ IsCurrent(f) => now < film'.end
       /\ action' = "Processed" => now <= since' + MaxProcess /\ since' + Before <= film'.end
  /\ worked \subseteq worked' /\ (failed' = 0 => failed = 0)
  /\ failed' = 0 /\ last' # Unset => f \in worked'
  /\ InWindow(f) => last' # Unset

LEMMA ProcessInTime ==
  ASSUME SchedulerAssumption, Timely, Inv, Scheduled, NEW f, Earliest(f),
         f = settings \/ IsCurrent(f), Process(f)
  PROVE  Processed(f)
<1>1. f \in table /\ f.begin \in Nat /\ f.end \in Nat /\ f.begin < f.end
  BY Numbers, FilmFacts DEF Earliest
<1>2. last # Unset => f = settings
  BY CurrentUnique DEF Scheduled, Counting
<1>3. last # Unset => f.begin + After <= now
  BY <1>1, <1>2, Numbers DEF Scheduled, Counting
<1>4. CASE BeforeFilm(f)
  <2>1. last = Unset /\ last' = Unset
    BY <1>1, <1>3, <1>4, Numbers DEF BeforeFilm
  <2>2. /\ action' # "Stopped" => action = "Processed" /\ UNCHANGED serverVars
        /\ UNCHANGED <<worked, failed>>
    BY <1>4 DEF BeforeFilm, Suspend, serverVars, Inv, TypeOK
  <2>3. settings' = f /\ settings' # NoFilm /\ ~ InWindow(f)
    BY <1>1, <1>4, Numbers, FilmFacts DEF BeforeFilm, InWindow
  <2> QED BY <2>1, <2>2, <2>3 DEF Processed, Scheduled, Serving, Overtime, serverVars
<1>5. CASE AfterFilm(f)
  <2>1. last' = Unset /\ settings' = NoFilm /\ now + Before > f.end /\ ~ InWindow(f)
    BY <1>1, <1>5, Numbers DEF AfterFilm, InWindow
  <2>2. /\ action' # "Stopped" => action = "Processed" /\ UNCHANGED serverVars
        /\ UNCHANGED <<worked, failed>>
    BY <1>5 DEF AfterFilm, Suspend, serverVars, Inv, TypeOK
  <2>3. ASSUME action = "Processed"
        PROVE  \/ NoneLeft
               \/ /\ now + Before > film.end /\ now < film.end + After
                  /\ IsCurrent(f) => now < film.end
    <3>1. CASE last = Unset
      <4>1. NoneLeft \/ (now + Before > film.end /\ now < film.end + After)
        BY <2>3, <3>1 DEF Scheduled, Serving, Overtime
      <4>2. ASSUME IsCurrent(f), ~ NoneLeft PROVE film = f
        <5>1. /\ film \in table /\ film.begin \in Nat /\ film.end \in Nat /\ film.begin < film.end
              /\ film.begin <= f.begin
          BY <1>1, <2>3, <4>2, Numbers, FilmFacts DEF Scheduled, Serving, Earliest, IsCurrent
        <5>2. film = f \/ f.end <= film.begin \/ film.end <= f.begin
          BY <1>1, <5>1, Numbers DEF Timely, NoOverlap
        <5>3. now >= f.begin + After /\ now < film.end + After
          BY <1>5, <4>1, <4>2 DEF AfterFilm
        <5> QED BY <1>1, <5>1, <5>2, <5>3, Numbers
      <4>3. IsCurrent(f) /\ ~ NoneLeft => now < film.end
        BY <1>1, <4>2, Numbers DEF IsCurrent
      <4> QED BY <4>1, <4>3
    <3>2. CASE last # Unset
      <4>1. film = f
        BY <1>2, <2>3, <3>2 DEF Scheduled, Serving
      <4>2. now <= since + MaxProcess /\ since + Before <= f.end
        BY <2>3, <4>1 DEF Scheduled, Serving
      <4> QED BY <1>1, <2>1, <4>1, <4>2, Numbers DEF Timely, IsCurrent
    <3> QED BY <3>1, <3>2
  <2> QED BY <2>1, <2>2, <2>3 DEF Processed, Scheduled, Serving, serverVars
<1>6. CASE DuringFilm(f)
  <2>1. InWindow(f) /\ settings' = f /\ f.begin + After <= now /\ now + Before <= f.end
    BY <1>6 DEF DuringFilm, InWindow
  <2>2. f.end > now
    BY <1>1, <2>1, Numbers DEF Timely
  <2>3. CASE last = Unset /\ last' = now /\ Wait(f)
    <3>1. action = "Stopped"
      BY <1>1, <2>1, <2>3, OvertimeNotInWindow
    <3>2. /\ action' # "Stopped" => film' = f /\ action' = "Worked"
          /\ worked \subseteq worked' /\ (failed' = 0 => failed = 0 /\ f \in worked')
      BY <2>3, <3>1, Numbers DEF Wait
    <3> QED BY <2>1, <2>2, <2>3, <3>2, Numbers DEF Processed
  <2>4. CASE last # Unset /\ last' = now /\ BeginProcess
    <3>1. f = settings /\ (failed = 0 => f \in worked)
      BY <1>2, <2>4 DEF Scheduled, Counted
    <3>2. UNCHANGED <<film, worked, failed>> /\ (action' # "Stopped" => action # "Stopped")
      BY <2>4 DEF BeginProcess, serverVars
    <3>3. action' # "Stopped" => film = f /\ Earliest(film)
      BY <2>4, <3>1, <3>2 DEF Scheduled, Serving
    <3>4. action' = "Processed" => now <= since' + MaxProcess /\ since' + Before <= film.end
      <4>1. CASE action = "Worked"
        BY <2>1, <2>4, <3>3, <4>1, Numbers DEF BeginProcess
      <4>2. CASE action # "Worked"
        BY <2>4, <4>2 DEF BeginProcess, serverVars, Scheduled, Serving
      <4> QED BY <4>1, <4>2
    <3> QED BY <2>1, <2>2, <2>4, <3>1, <3>2, <3>3, <3>4, Numbers DEF Processed
  <2>5. CASE last # Unset /\ UNCHANGED <<last, serverVars>>
    <3>1. f = settings /\ (failed = 0 => f \in worked) /\ f.begin + After <= last
      BY <1>2, <2>5 DEF Scheduled, Counted, Counting
    <3> QED
      BY <2>1, <2>2, <2>5, <3>1 DEF Processed, Scheduled, Serving, serverVars
  <2> QED BY <1>6, <2>3, <2>4, <2>5 DEF DuringFilm
<1> QED BY <1>4, <1>5, <1>6 DEF Process

(* A call of the scheduler keeps the invariants; those about looked need    *)
(* that the film is the current one.                                        *)
LEMMA ProcessedKeeps ==
  ASSUME SchedulerAssumption, Timely, Inv, Scheduled, NEW f, Earliest(f), Processed(f),
         UNCHANGED <<now, table>>, answer' \in {answer, NoFilm},
         looked' => NoneLeft \/ IsCurrent(f)
  PROVE  Scheduled'
<1>1. Answered' /\ Known'
  BY DEF Scheduled, Answered, Known, Processed, NoneLeft, IsCurrent, Earliest
<1>2. Counting'
  <2>1. f \in table /\ f.end \in Nat
    BY Numbers, FilmFacts DEF Earliest
  <2>2. InWindow(f) => now + Before <= f.end + 1 /\ now + Before <= f.end
    BY <2>1, Numbers DEF InWindow
  <2> QED BY <2>2 DEF Counting, Processed, IsCurrent, Earliest
<1>3. Serving'
  BY DEF Serving, Processed, Overtime, NoneLeft, Earliest
<1>4. Counted'
  <2> SUFFICES ASSUME failed' = 0 PROVE Counted'
    BY DEF Counted
  <2>1. worked \subseteq worked' /\ failed = 0
    BY DEF Processed
  <2>2. \A g \in table :
          g.begin + After <= g.end - Before /\ g.end - Before < now => g \in worked'
    BY <2>1 DEF Scheduled, Counted
  <2>3. last' # Unset => settings' \in worked'
    BY DEF Processed
  <2>4. ASSUME looked', NEW g \in table, IsCurrent(g), InWindow(g) PROVE g \in worked'
    <3>2. CASE NoneLeft
      <4>1. g.end <= now /\ g.end > now /\ g.end \in Nat
        BY <2>4, <3>2, Numbers, FilmFacts DEF NoneLeft, IsCurrent
      <4> QED BY <4>1, Numbers
    <3>3. CASE IsCurrent(f)
      <4>1. g = f
        BY <2>4, <3>3, CurrentUnique
      <4> QED BY <2>4, <4>1 DEF Processed
    <3> QED BY <2>4, <3>2, <3>3
  <2> QED BY <2>2, <2>3, <2>4 DEF Counted, IsCurrent, Earliest, InWindow
<1> QED BY <1>1, <1>2, <1>3, <1>4 DEF Scheduled

LEMMA NoneCurrent ==
  ASSUME SchedulerAssumption, Inv, NoneLeft, NEW f
  PROVE  ~ IsCurrent(f)
<1> SUFFICES ASSUME IsCurrent(f) PROVE FALSE
  OBVIOUS
<1>1. f \in table /\ f.end > now /\ f.end <= now
  BY DEF IsCurrent, Earliest, NoneLeft
<1> QED BY <1>1, Numbers, FilmFacts

LEMMA IdleKeeps ==
  ASSUME SchedulerAssumption, Inv, Scheduled,
         UNCHANGED <<now, table, settings, last, answer, serverVars>>,
         current' => current \/ NoneLeft, looked' => looked \/ NoneLeft,
         turned' => turned \/ settings = NoFilm
  PROVE  Scheduled'
<1>1. Answered' /\ Known'
  BY DEF Scheduled, Answered, Known, NoneLeft, IsCurrent, Earliest
<1>2. Counting'
  <2>1. last # Unset => settings # NoFilm
    BY Numbers, FilmFacts DEF Scheduled, Counting, IsCurrent, Earliest
  <2> QED BY <2>1 DEF Scheduled, Counting, IsCurrent, Earliest
<1>3. Serving'
  BY DEF Scheduled, Serving, Overtime, NoneLeft, Earliest, serverVars
<1>4. Counted'
  BY NoneCurrent DEF Scheduled, Counted, IsCurrent, Earliest, InWindow, serverVars
<1> QED BY <1>1, <1>2, <1>3, <1>4 DEF Scheduled

LEMMA NoSettingKeeps ==
  ASSUME SchedulerAssumption, Timely, Inv, Scheduled, ProcessNoSetting,
         UNCHANGED <<now, table, answer>>,
         current' => current \/ NoneLeft, looked' => looked \/ NoneLeft
  PROVE  Scheduled'
<1>1. CASE settings # NoFilm /\ Process(settings)
  BY <1>1, ProcessInTime, ProcessedKeeps DEF Scheduled, Known
<1>2. CASE settings = NoFilm /\ UNCHANGED <<settings, last, serverVars>>
  BY <1>2, IdleKeeps
<1> QED BY <1>1, <1>2 DEF ProcessNoSetting

LEMMA TickKeeps ==
  ASSUME SchedulerAssumption, Timely, Inv, Scheduled, Tick, ~ late'
  PROVE  Scheduled'
<1>1. /\ looked /\ turned /\ answer = NoFilm /\ now' = now + 1 /\ ~ current' /\ ~ looked' /\ ~ turned'
      /\ UNCHANGED <<table, settings, last, answer, serverVars>>
      /\ action = "Processed" => now < since + MaxProcess
  BY DEF Tick, Inv, TypeOK
<1>2. \A f : Earliest(f) => Earliest(f)'
  BY <1>1, Numbers, FilmFacts DEF Earliest
<1>3. Answered' /\ Known'
  BY <1>1, <1>2 DEF Scheduled, Answered, Known, Earliest
<1>4. Counting'
  <2> SUFFICES ASSUME last # Unset PROVE Counting'
    BY <1>1 DEF Counting
  <2>1. /\ Earliest(settings) /\ settings.begin + After <= last
        /\ now + Before <= settings.end /\ settings.end \in Nat
    BY <1>1, Numbers, FilmFacts DEF Scheduled, Counting, IsCurrent, Earliest
  <2>2. Earliest(settings)'
    BY <1>1, <1>2, <2>1 DEF Earliest
  <2>3. settings.end > now' /\ now' + Before <= settings.end + 1
    BY <1>1, <2>1, Numbers DEF Timely
  <2> QED BY <1>1, <2>1, <2>2, <2>3 DEF Counting, IsCurrent
<1>5. Serving'
  <2> SUFFICES ASSUME action # "Stopped" PROVE Serving'
    BY <1>1 DEF Serving, serverVars
  <2>1. Earliest(film) /\ film \in table /\ film.end \in Nat /\ (last # Unset => film = settings)
    BY Numbers, FilmFacts DEF Scheduled, Serving, Earliest
  <2>2. Earliest(film)'
    BY <1>1, <1>2, <2>1 DEF Earliest, serverVars
  <2>3. action = "Processed" => now' <= since + MaxProcess /\ since + Before <= film.end
    BY <1>1, Numbers DEF Scheduled, Serving
  <2>4. ASSUME last = Unset, ~ NoneLeft
        PROVE  now' + Before > film.end /\ now' < film.end + After
    <3>1. now + Before > film.end
      BY <2>4 DEF Scheduled, Serving, Overtime
    <3>2. CASE action = "Processed"
      BY <1>1, <2>1, <2>3, <3>1, <3>2, Numbers DEF Timely
    <3>3. CASE action = "Worked"
      <4>1. now < film.end
        BY <1>1, <2>4, <3>3 DEF Scheduled, Serving, Overtime
      <4> QED BY <1>1, <2>1, <3>1, <4>1, Numbers DEF Timely
    <3> QED BY <3>2, <3>3 DEF Inv, TypeOK
  <2>5. NoneLeft => NoneLeft'
    BY <1>1, Numbers, FilmFacts DEF NoneLeft
  <2> QED BY <1>1, <2>1, <2>2, <2>3, <2>4, <2>5 DEF Serving, Overtime, serverVars
<1>6. Counted'
  <2> SUFFICES ASSUME failed = 0 PROVE Counted'
    BY <1>1 DEF Counted, serverVars
  <2>1. ASSUME NEW f \in table, f.begin + After <= f.end - Before, f.end - Before < now'
        PROVE  f \in worked
    <3>1. f.begin \in Nat /\ f.end \in Nat /\ f.begin < f.end
      BY Numbers, FilmFacts
    <3>2. CASE f.end - Before < now
      BY <2>1, <3>2 DEF Scheduled, Counted
    <3>3. CASE f.end - Before = now
      <4>1. InWindow(f) /\ f.end > now /\ f.begin <= now
        BY <2>1, <3>1, <3>3, Numbers DEF InWindow, Timely
      <4>2. ASSUME NEW g \in table, g.end > now PROVE f.begin <= g.begin
        <5>1. g.begin \in Nat /\ g.end \in Nat /\ g.begin < g.end
          BY Numbers, FilmFacts
        <5>2. f = g \/ f.end <= g.begin \/ g.end <= f.begin
          BY Numbers DEF Timely, NoOverlap
        <5> QED BY <3>1, <4>1, <4>2, <5>1, <5>2, Numbers
      <4> QED BY <1>1, <4>1, <4>2 DEF Scheduled, Counted, IsCurrent, Earliest
    <3>4. f.end - Before < now + 1
      BY <1>1, <2>1
    <3>5. f.end - Before < now \/ f.end - Before = now
      BY <3>1, <3>4, Numbers
    <3> QED BY <3>2, <3>3, <3>5
  <2>2. last # Unset => settings \in worked
    BY DEF Scheduled, Counted
  <2> QED BY <1>1, <2>1, <2>2 DEF Counted, serverVars
<1> QED BY <1>3, <1>4, <1>5, <1>6 DEF Scheduled

LEMMA NextInTime ==
  ASSUME SchedulerAssumption, Timely, Inv, InTime, [Next]_vars
  PROVE  InTime'
<1> SUFFICES ASSUME ~ late', edits' = 0 PROVE Scheduled'
  BY DEF InTime
<1>1. CASE Turn
  BY <1>1, NoSettingKeeps DEF Turn, InTime
<1>2. CASE PumpState
  <2>1. Scheduled /\ UNCHANGED <<now, table, settings, last, current, looked, turned, serverVars>>
    BY <1>2 DEF PumpState, InTime
  <2>2. IsCurrent(CurrentOrNext)
    BY <1>2, Numbers, CurrentOrNextFirst, CurrentOrNextNone DEF PumpState
  <2>3. Answered'
    BY <1>2, <2>1, <2>2 DEF PumpState, Answered, IsCurrent, Earliest
  <2>4. Known' /\ Counting'
    BY <2>1 DEF Scheduled, Known, Counting, NoneLeft, IsCurrent, Earliest
  <2>5. Serving'
    BY <2>1 DEF Scheduled, Serving, Overtime, NoneLeft, Earliest, serverVars
  <2>6. Counted'
    BY <2>1 DEF Scheduled, Counted, IsCurrent, Earliest, InWindow, serverVars
  <2> QED BY <2>3, <2>4, <2>5, <2>6 DEF Scheduled
<1>3. CASE PumpStateNoFilm
  <2>1. Scheduled /\ CurrentOrNext = NoFilm
    BY <1>3 DEF PumpStateNoFilm, InTime
  <2>2. NoneLeft
    BY <2>1, Numbers, CurrentOrNextFirst
  <2> QED BY <1>3, <2>1, <2>2, NoSettingKeeps DEF PumpStateNoFilm
<1>4. CASE ProcessNormalSettings
  <2>1. Scheduled /\ IsCurrent(answer) /\ Earliest(answer)
    BY <1>4 DEF ProcessNormalSettings, InTime, Scheduled, Answered, IsCurrent
  <2>2. Processed(answer)
    BY <1>4, <2>1, ProcessInTime DEF ProcessNormalSettings
  <2> QED BY <1>4, <2>1, <2>2, ProcessedKeeps DEF ProcessNormalSettings
<1>5. CASE Exec
  <2>1. Scheduled
    BY <1>5 DEF Exec, InTime
  <2>2. Answered' /\ Known' /\ Counting' /\ Counted'
    BY <1>5, <2>1 DEF Exec, Scheduled, Answered, Known, Counting, Counted,
                      NoneLeft, IsCurrent, Earliest, InWindow
  <2>3. Serving'
    BY <1>5, <2>1 DEF Exec, Scheduled, Serving, Overtime, NoneLeft, Earliest
  <2> QED BY <2>2, <2>3 DEF Scheduled
<1>6. CASE Tick
  BY <1>6, TickKeeps DEF Tick, InTime
<1>7. CASE EditTable
  BY <1>7, Numbers DEF EditTable
<1>8. CASE UNCHANGED vars
  BY <1>8, IdleKeeps DEF vars, serverVars, InTime
<1> QED BY <1>1, <1>2, <1>3, <1>4, <1>5, <1>6, <1>7, <1>8 DEF Next

LEMMA InitInTime == SchedulerAssumption /\ Init => InTime
<1> SUFFICES ASSUME SchedulerAssumption, Init PROVE Scheduled
  BY DEF InTime
<1>1. Answered /\ Known /\ Counting /\ Serving
  BY DEF Init, Answered, Known, Counting, Serving
<1>2. ASSUME NEW f \in table, f.begin + After <= f.end - Before, f.end - Before < now
      PROVE  FALSE
  <2>1. f.begin \in Nat /\ f.end \in Nat /\ now = 0
    BY FilmFacts DEF Init
  <2> QED BY <1>2, <2>1 DEF SchedulerAssumption
<1>3. Counted
  BY <1>2 DEF Init, Counted
<1> QED BY <1>1, <1>3 DEF Scheduled

LEMMA InTimeHolds ==
  ASSUME Timely
  PROVE  Spec => [](Inv /\ InTime)
<1>1. Init => Inv /\ InTime
  BY SchedulerAssumption, InitInv, InitInTime
<1>2. Inv /\ InTime /\ [Next]_vars => (Inv /\ InTime)'
  BY SchedulerAssumption, NextInv, NextInTime
<1> QED BY <1>1, <1>2, PTL DEF Spec

(* A loop that reads the timetable and looks at it in each of its periods,  *)
(* and calls the scheduler again after a measurement, counts only inside    *)
(* the window of the film whose time it gave the algorithms, for any        *)
(* timetable of films that do not overlap, if the break before the end is   *)
(* longer than one period (with m_nBefore = 0 the query drops a film at the *)
(* moment in which TimeSheduler::Process still counts it), there is a break *)
(* after the beginning and a measurement does not last into the window of   *)
(* the next film.                                                           *)
THEOREM CountsOnlyInWindow ==
  ASSUME Timely
  PROVE  Spec => []OnlyInWindow
<1>1. SchedulerAssumption /\ Inv /\ InTime => OnlyInWindow
  <2> SUFFICES ASSUME SchedulerAssumption, Inv, InTime, ~late, edits = 0, current,
                      answer = NoFilm, action = "Worked", CurrentOrNext # NoFilm
               PROVE  InWindow(film)
    BY DEF OnlyInWindow
  <2>1. Scheduled /\ ~ NoneLeft
    BY Numbers, CurrentOrNextNone DEF InTime
  <2>2. last # Unset /\ film = settings
    BY <2>1 DEF Scheduled, Serving, Overtime
  <2>3. turned
    BY DEF Inv, TypeOK
  <2>4. settings.begin + After <= last /\ now + Before <= settings.end /\ settings.begin \in Nat
    BY <2>1, <2>2, <2>3, Numbers, FilmFacts DEF Scheduled, Counting, IsCurrent, Earliest
  <2> QED BY <2>2, <2>4, Numbers DEF InWindow
<1> QED BY <1>1, SchedulerAssumption, InTimeHolds, PTL

(* Under the same conditions no film is missed whose window is not empty,   *)
(* unless a start of the work has failed.                                   *)
THEOREM MissesNoFilm ==
  ASSUME Timely
  PROVE  Spec => []NoFilmMissed
<1>1. InTime => NoFilmMissed
  BY DEF InTime, Scheduled, Counted, NoFilmMissed
<1> QED BY <1>1, InTimeHolds, PTL
-----------------------------------------------------------------------------
(* A session is started only while the film can be counted.                 *)
Begun == \A f \in worked : f.begin + After <= now

(* Until the timetable is changed all films are its films.                  *)
Original ==
  edits = 0 => worked \subseteq table /\ {settings, answer} \subseteq table \cup {NoFilm}

(* A film that had its session, and is not f, ends before f or was struck   *)
(* off the timetable.                                                       *)
Behind(f) ==
  f # NoFilm => \A g \in worked : f = g \/ g.end < f.end \/ (edits = 1 /\ g \notin table)

(* When the scheduler would start a session, the films that had theirs are  *)
(* over, or nothing is left that leads to them.                             *)
NotAgain ==
  last = Unset =>
    \A f \in worked :
      f.end < now + Before \/ (edits = 1 /\ f \notin table \cup {settings, answer})

Sessions ==
  Begun /\ (edits <= 1 => Original /\ Behind(settings) /\ Behind(answer) /\ NotAgain)

LEMMA WorkedFacts ==
  ASSUME SchedulerAssumption, Inv
  PROVE  /\ \A f \in worked \cup ({settings, answer} \ {NoFilm}) :
              f \in AllFilms /\ f # NoFilm /\ f.begin \in Nat /\ f.end \in Nat
         /\ edits \in Nat
BY DEF Inv, TypeOK, SchedulerAssumption

(* A call of the scheduler with the film it knows or with the one that was  *)
(* just read.                                                               *)
LEMMA ProcessSessions ==
  ASSUME SchedulerAssumption, Inv, Sessions, NEW f \in {settings, answer}, f # NoFilm,
         Process(f), answer' = NoFilm, UNCHANGED <<now, table, edits>>
  PROVE  Sessions'
<1>1. f \in AllFilms /\ f.begin \in Nat /\ f.end \in Nat
  BY WorkedFacts
<1>2. /\ settings' \in {f, NoFilm}
      /\ \A g \in worked' : g \in worked \/ g = f
  <2>1. Suspend \/ BeginProcess => worked' = worked
    BY DEF Suspend, BeginProcess, serverVars
  <2>2. Wait(f) => \A g \in worked' : g \in worked \/ g = f
    BY DEF Wait, serverVars
  <2> QED
    BY <2>1, <2>2 DEF Process, BeforeFilm, AfterFilm, DuringFilm, serverVars
<1>3. Begun'
  <2>1. f \in worked' => f \in worked \/ f.begin + After <= now
    BY DEF Process, BeforeFilm, AfterFilm, DuringFilm, InWindow, Suspend, serverVars
  <2> QED BY <1>2, <2>1 DEF Sessions, Begun
<1>4. ASSUME edits <= 1 PROVE Original' /\ Behind(settings)' /\ Behind(answer)'
  <2>1. edits = 0 => f \in table
    BY <1>4 DEF Sessions, Original
  <2>2. Behind(f)
    BY <1>4 DEF Sessions
  <2> QED BY <1>2, <1>4, <2>1, <2>2 DEF Sessions, Original, Behind
<1>5. ASSUME edits <= 1 PROVE NotAgain'
  <2> SUFFICES ASSUME last' = Unset, NEW g \in worked'
               PROVE  \/ g.end < now + Before
                      \/ edits = 1 /\ g \notin table \cup {settings', NoFilm}
    BY DEF NotAgain
  <2>1. CASE BeforeFilm(f)
    <3>1. last = Unset /\ worked' = worked /\ settings' = f
      BY <2>1 DEF BeforeFilm, Suspend, serverVars
    <3> QED BY <1>5, <3>1, WorkedFacts DEF Sessions, NotAgain
  <2>2. CASE AfterFilm(f)
    <3>1. worked' = worked /\ settings' = NoFilm /\ now + Before > f.end
      BY <2>2 DEF AfterFilm, Suspend, serverVars
    <3>2. f = g \/ g.end < f.end \/ (edits = 1 /\ g \notin table)
      BY <1>5, <3>1 DEF Sessions, Behind
    <3>3. g.end \in Nat /\ g # NoFilm
      BY <3>1, WorkedFacts
    <3> QED BY <1>1, <3>1, <3>2, <3>3, Numbers
  <2>3. CASE DuringFilm(f)
    <3>1. last' # Unset
      BY <2>3, Numbers DEF DuringFilm, SchedulerAssumption
    <3> QED BY <3>1
  <2> QED BY <2>1, <2>2, <2>3 DEF Process
<1> QED BY <1>3, <1>4, <1>5 DEF Sessions

LEMMA NoSettingSessions ==
  ASSUME SchedulerAssumption, Inv, Sessions, ProcessNoSetting, answer = NoFilm,
         UNCHANGED <<now, table, edits, answer>>
  PROVE  Sessions'
<1>1. CASE settings # NoFilm /\ Process(settings)
  BY <1>1, ProcessSessions
<1>2. CASE settings = NoFilm /\ UNCHANGED <<settings, last, serverVars>>
  BY <1>2 DEF Sessions, Begun, Original, Behind, NotAgain, serverVars
<1> QED BY <1>1, <1>2 DEF ProcessNoSetting

(* A film of the timetable that had its session had begun: the film that is *)
(* read now is that film, or ends after it.                                 *)
LEMMA PumpStateSessions ==
  ASSUME SchedulerAssumption, NoOverlap, Inv, Sessions, PumpState
  PROVE  Sessions'
<1> DEFINE f == CurrentOrNext
<1>1. /\ answer' = f /\ f # NoFilm
      /\ UNCHANGED <<now, table, settings, last, worked, edits>>
  BY DEF PumpState, serverVars
<1>2. IsCurrent(f)
  BY <1>1, Numbers, CurrentOrNextFirst, CurrentOrNextNone
<1> HIDE DEF f
<1>3. f \in table /\ f.end > now /\ f.begin \in Nat /\ f.end \in Nat
  BY <1>2, Numbers, FilmFacts DEF IsCurrent, Earliest
<1>4. ASSUME NEW g \in worked, g \in table PROVE f = g \/ g.end < f.end
  <2>1. g.begin \in Nat /\ g.end \in Nat /\ g.begin + After <= now
    BY WorkedFacts DEF Sessions, Begun
  <2>2. f = g \/ f.end <= g.begin \/ g.end <= f.begin
    BY <1>3, <1>4, Numbers DEF NoOverlap
  <2>3. f.begin < f.end
    BY <1>3, Numbers, FilmFacts
  <2> QED BY <1>3, <2>1, <2>2, <2>3, Numbers
<1>5. ASSUME edits <= 1 PROVE \A g \in worked : g \in table \/ edits = 1
  BY <1>5, WorkedFacts DEF Sessions, Original
<1>6. edits <= 1 => Behind(answer)'
  BY <1>1, <1>4, <1>5 DEF Behind
<1>7. edits <= 1 => Original' /\ NotAgain'
  BY <1>1, <1>3 DEF Sessions, Original, NotAgain
<1>8. Begun' /\ (edits <= 1 => Behind(settings)')
  BY <1>1 DEF Sessions, Begun, Behind
<1> QED BY <1>1, <1>6, <1>7, <1>8 DEF Sessions

LEMMA TickSessions ==
  ASSUME SchedulerAssumption, Inv, Sessions, Tick
  PROVE  Sessions'
<1>1. now' = now + 1 /\ UNCHANGED <<table, settings, last, answer, worked, edits>>
  BY DEF Tick, serverVars
<1>2. Begun'
  BY <1>1, WorkedFacts, Numbers DEF Sessions, Begun
<1>3. edits <= 1 => NotAgain'
  <2> SUFFICES ASSUME edits <= 1, last = Unset, NEW f \in worked
               PROVE  \/ f.end < now' + Before
                      \/ edits = 1 /\ f \notin table \cup {settings, answer}
    BY <1>1 DEF NotAgain
  <2>1. f.end < now + Before \/ (edits = 1 /\ f \notin table \cup {settings, answer})
    BY DEF Sessions, NotAgain
  <2>2. f.end \in Nat
    BY WorkedFacts
  <2> QED BY <1>1, <2>1, <2>2, Numbers
<1> QED BY <1>1, <1>2, <1>3 DEF Sessions, Original, Behind

(* The films that had a session are those of the first timetable until it   *)
(* is changed: what the others lack is over.                                *)
LEMMA EditSessions ==
  ASSUME SchedulerAssumption, Inv, Sessions, EditTable
  PROVE  Sessions'
<1>1. edits' = edits + 1 /\ UNCHANGED <<now, settings, last, answer, worked>>
  BY DEF EditTable, serverVars
<1>2. Begun'
  BY <1>1 DEF Sessions, Begun
<1>3. CASE edits = 0
  <2>1. worked \subseteq table /\ Behind(settings) /\ Behind(answer) /\ NotAgain
    BY <1>3 DEF Sessions, Original
  <2>2. edits' = 1
    BY <1>1, <1>3
  <2>3. Original'
    BY <2>2 DEF Original
  <2>4. Behind(settings)' /\ Behind(answer)'
    BY <1>1, <1>3, <2>1, <2>2 DEF Behind
  <2>5. NotAgain'
    BY <1>1, <1>3, <2>1, <2>2 DEF NotAgain
  <2> QED BY <1>2, <2>3, <2>4, <2>5 DEF Sessions
<1>4. CASE edits # 0
  <2>1. ~ (edits' <= 1)
    BY <1>1, <1>4, WorkedFacts
  <2> QED BY <1>2, <2>1 DEF Sessions
<1> QED BY <1>3, <1>4

LEMMA NextSessions ==
  ASSUME SchedulerAssumption, NoOverlap, Inv, Sessions, [Next]_vars
  PROVE  Sessions'
<1>1. CASE Turn \/ PumpStateNoFilm
  BY <1>1, NoSettingSessions DEF Turn, PumpStateNoFilm
<1>2. CASE PumpState
  BY <1>2, PumpStateSessions
<1>3. CASE ProcessNormalSettings
  BY <1>3, ProcessSessions DEF ProcessNormalSettings
<1>4. CASE Exec \/ UNCHANGED vars
  BY <1>4 DEF Exec, vars, Sessions, Begun, Original, Behind, NotAgain
<1>5. CASE Tick
  BY <1>5, TickSessions
<1>6. CASE EditTable
  BY <1>6, EditSessions
<1> QED BY <1>1, <1>2, <1>3, <1>4, <1>5, <1>6 DEF Next

(* A session is started only by Wait, for a film that had none.             *)
LEMMA StartsOnce ==
  ASSUME SchedulerAssumption, Inv, Sessions, NEW f \in {settings, answer}, f # NoFilm,
         Process(f), edits <= 1, ~ running, running'
  PROVE  film' = f /\ f \notin worked
<1>1. action = "Stopped"
  BY DEF Inv, ActionMatchesServer
<1>2. ~ Suspend /\ ~ BeginProcess /\ ~ UNCHANGED serverVars
  BY <1>1 DEF Suspend, BeginProcess, serverVars
<1>3. last = Unset /\ Wait(f) /\ InWindow(f)
  BY <1>2 DEF Process, BeforeFilm, AfterFilm, DuringFilm
<1>4. film' = f
  BY <1>1, <1>3 DEF Wait
<1>5. ASSUME f \in worked PROVE FALSE
  <2>1. f.end < now + Before
    BY <1>3, <1>5 DEF Sessions, NotAgain
  <2>2. f.end \in Nat /\ now + Before <= f.end
    BY <1>3, WorkedFacts DEF InWindow
  <2> QED BY <2>1, <2>2, Numbers
<1> QED BY <1>4, <1>5

(* However late the loop is, although starts fail, and when the timetable   *)
(* is changed once to any other, no film has two sessions: for any          *)
(* timetables in which films do not overlap, and any breaks after the       *)
(* beginning and before the end of a film.                                  *)
THEOREM OneSession ==
  ASSUME NoOverlap
  PROVE  Spec => OneSessionPerFilm
<1>1. Init => Sessions
  BY DEF Init, Sessions, Begun, Original, Behind, NotAgain
<1>2. SchedulerAssumption /\ Inv /\ Sessions /\ [Next]_vars => Sessions'
  BY NextSessions
<1>3. ASSUME SchedulerAssumption, Inv, Sessions, [Next]_vars
      PROVE  [edits <= 1 => \A f \in worked : ~(~running /\ running' /\ film' = f)]_vars
  <2> SUFFICES ASSUME edits <= 1, ~ running, running' PROVE film' \notin worked
    OBVIOUS
  <2>1. CASE Turn \/ PumpStateNoFilm
    BY <1>3, <2>1, StartsOnce DEF Turn, PumpStateNoFilm, ProcessNoSetting, serverVars
  <2>2. CASE ProcessNormalSettings
    BY <1>3, <2>2, StartsOnce DEF ProcessNormalSettings
  <2>3. CASE PumpState \/ Exec \/ Tick \/ EditTable \/ UNCHANGED vars
    BY <2>3 DEF PumpState, Exec, Tick, EditTable, serverVars, vars
  <2> QED BY <1>3, <2>1, <2>2, <2>3 DEF Next
<1> QED
  BY <1>1, <1>2, <1>3, SchedulerAssumption, InvHolds, PTL DEF Spec, OneSessionPerFilm
=============================================================================
