-------------------------- MODULE ArenaPagesProofs --------------------------
(***************************************************************************)
(* Proofs about the pages of the browser application.                      *)
(*                                                                         *)
(* The theorems hold for any rounds, any number of runs and any bound on   *)
(* the timers that are pending.                                            *)
(***************************************************************************)
EXTENDS ArenaPages, TLAPS

(***************************************************************************)
(* The validation dialog.                                                  *)
(***************************************************************************)

ArenaType ==
    [nav : BOOLEAN, shown : BOOLEAN, modal : BOOLEAN, timers : Nat, log : Nat]

\* The state of a Code Arena while the engine's status is s.  The two refs say
\* what is under way: a navigation has its timer, and no error was shown for a
\* run that is still in preparation.
Sound(a, s) ==
    /\ a \in ArenaType
    /\ a.nav => a.timers > 0
    /\ a.shown => s \notin BusyStatus
    /\ a.modal => s \in BusyStatus \/ a.timers > 0 \/ a.log > 0

\* An arena that is not mounted has no state.
ModalInv ==
    /\ Sound(arena, status)
    /\ View # "arena" => arena = FreshArena
    /\ hidden \in BOOLEAN

LEMMA FreshIsSound == ASSUME NEW s PROVE Sound(FreshArena, s)
BY DEF FreshArena, Sound, ArenaType

\* The status callback of CodeArena.jsx.  A status of a run in preparation may
\* only come after the error of an earlier run was forgotten.
LEMMA HandledIsSound ==
    ASSUME NEW a, NEW s, NEW t, NEW known \in BOOLEAN, Sound(a, s),
           t \in {"idle", "queued", "running", "done", "error"} \/ t = s,
           t \in BusyStatus => ~a.shown
    PROVE  Sound(Handled(a, t, known), t)
<1> USE DEF Sound, ArenaType
<1>1. CASE t \in BusyStatus
  <2>1. Handled(a, t, known) = [a EXCEPT !.modal = TRUE]
    BY <1>1 DEF Handled, BusyStatus, RunStatus
  <2> QED BY <1>1, <2>1
<1>2. CASE t \in RunStatus /\ ~a.nav
  <2>1. Handled(a, t, known) = [a EXCEPT !.nav = TRUE, !.timers = a.timers + 1]
    BY <1>2 DEF Handled, BusyStatus, RunStatus
  <2>2. t \notin BusyStatus
    BY <1>2 DEF BusyStatus, RunStatus
  <2>3. PICK k \in Nat : k = a.timers + 1 /\ k > 0
    OBVIOUS
  <2>4. Handled(a, t, known) = [a EXCEPT !.nav = TRUE, !.timers = k]
    BY <2>1, <2>3
  <2>5. Handled(a, t, known).timers = k /\ Handled(a, t, known) \in ArenaType
    BY <2>4
  <2> QED BY <2>2, <2>3, <2>4, <2>5
<1>3. CASE t \in RunStatus /\ a.nav
  <2>1. Handled(a, t, known) = a
    BY <1>3 DEF Handled, BusyStatus, RunStatus
  <2>2. t \notin BusyStatus
    BY <1>3 DEF BusyStatus, RunStatus
  <2> QED BY <1>3, <2>1, <2>2
<1>4. CASE t \in {"error", "tle"} /\ ~a.shown /\ known
  <2>1. Handled(a, t, known) = [a EXCEPT !.shown = TRUE, !.log = a.log + 1]
    BY <1>4 DEF Handled, BusyStatus, RunStatus
  <2>2. t \notin BusyStatus
    BY <1>4 DEF BusyStatus
  <2>3. PICK k \in Nat : k = a.log + 1 /\ k > 0
    OBVIOUS
  <2>4. Handled(a, t, known) = [a EXCEPT !.shown = TRUE, !.log = k]
    BY <2>1, <2>3
  <2>5. Handled(a, t, known).log = k /\ Handled(a, t, known) \in ArenaType
    BY <2>4
  <2> QED BY <2>2, <2>3, <2>4, <2>5
<1>5. CASE t \in {"error", "tle"} /\ ~a.shown /\ ~known
  <2>1. Handled(a, t, known) = Closed([a EXCEPT !.shown = TRUE])
    BY <1>5 DEF Handled, BusyStatus, RunStatus
  <2>2. t \notin BusyStatus
    BY <1>5 DEF BusyStatus
  <2> QED BY <2>1, <2>2 DEF Closed
<1>6. CASE t \in {"error", "tle"} /\ a.shown
  <2>1. Handled(a, t, known) = a
    BY <1>6 DEF Handled, BusyStatus, RunStatus
  <2>2. t \notin BusyStatus
    BY <1>6 DEF BusyStatus
  <2> QED BY <1>6, <2>1, <2>2
<1>7. CASE t \in {"idle", "done"}
  <2>1. Handled(a, t, known) = Closed(a)
    BY <1>7 DEF Handled, BusyStatus, RunStatus
  <2>2. t \notin BusyStatus
    BY <1>7 DEF BusyStatus
  <2> QED BY <2>1, <2>2 DEF Closed
<1>8. CASE /\ t \notin BusyStatus \cup RunStatus
           /\ t \notin {"error", "tle", "idle", "done"}
  <2>1. Handled(a, t, known) = a
    BY <1>8 DEF Handled, BusyStatus, RunStatus
  <2>2. t = s
    BY <1>8 DEF BusyStatus, RunStatus
  <2> QED BY <2>1, <2>2
<1> QED BY <1>1, <1>2, <1>3, <1>4, <1>5, <1>6, <1>7, <1>8

\* Any page that takes another's place leaves a sound arena behind, mounted or
\* not, provided that no timer that has just fired leads to the arena again.
LEMMA ShowIsSound ==
    ASSUME ModalInv, NEW p, NEW h \in BOOLEAN, NEW a, NEW nav, NEW clc,
           Show(p, h, a, nav, clc),
           status' = status \/ p # "arena"
    PROVE  ModalInv'
<1> DEFINE v == Mounted(p, h)
<1>1. View' = v /\ hidden' = h
  BY DEF Show, View
<1>2. CASE v # "arena"
  <2>1. arena' = FreshArena
    BY <1>2 DEF Show
  <2> QED BY <1>1, <2>1, FreshIsSound DEF ModalInv
<1>3. CASE v = "arena" /\ View = "arena"
  <2>1. arena' = arena /\ status' = status
    BY <1>3 DEF Show, Mounted
  <2> QED BY <1>1, <1>3, <2>1 DEF ModalInv
<1>4. CASE v = "arena" /\ View # "arena"
  <2>1. status' = status
    BY <1>4 DEF Mounted
  <2>2. PICK known \in BOOLEAN : arena' = Handled(FreshArena, status, known)
    BY <1>4, <2>1 DEF Show
  <2>3. ~FreshArena.shown
    BY DEF FreshArena
  <2>4. Sound(arena', status')
    BY <2>1, <2>2, <2>3, FreshIsSound, HandledIsSound
  <2> QED BY <1>1, <1>4, <2>4 DEF ModalInv
<1> QED BY <1>2, <1>3, <1>4

\* What the engine tells the pages.
LEMMA TellsIsSound ==
    ASSUME ModalInv, NEW s, NEW l, NEW heard, Tells(s, l, heard),
           s \in {"idle", "running", "done", "error"} \/ s = status
    PROVE  ModalInv'
<1>1. status' = s /\ UNCHANGED <<page, hidden>>
  BY DEF Tells
<1>2. View' = View
  BY <1>1 DEF View
<1>3. CASE arena' = arena /\ (View # "arena" \/ s = status)
  <2>1. CASE View # "arena"
    BY <1>1, <1>2, <1>3, <2>1, FreshIsSound DEF ModalInv
  <2>2. CASE s = status
    BY <1>1, <1>2, <1>3, <2>2 DEF ModalInv
  <2> QED BY <1>3, <2>1, <2>2
<1>4. CASE View = "arena" /\ \E known \in BOOLEAN : arena' = Handled(arena, s, known)
  <2>1. s \in BusyStatus => ~arena.shown
    BY DEF ModalInv, Sound, BusyStatus
  <2>2. Sound(arena', s)
    BY <1>4, <2>1, HandledIsSound DEF ModalInv
  <2> QED BY <1>1, <1>2, <1>4, <2>2 DEF ModalInv
<1> QED BY <1>3, <1>4 DEF Tells

LEMMA RemindedIsSound == ASSUME ModalInv, Reminded PROVE ModalInv'
<1>1. status' = status /\ UNCHANGED <<page, hidden>>
  BY DEF Reminded, restVars
<1>2. View' = View
  BY <1>1 DEF View
<1>3. CASE View # "arena"
  BY <1>1, <1>2, <1>3 DEF Reminded, ModalInv
<1>4. CASE View = "arena"
  <2>1. PICK known \in BOOLEAN : arena' = Handled(arena, status, known)
    BY <1>4 DEF Reminded
  <2>2. Sound(arena', status)
    BY <2>1, HandledIsSound DEF ModalInv, Sound
  <2> QED BY <1>1, <1>2, <1>4, <2>2 DEF ModalInv
<1> QED BY <1>3, <1>4

\* The dashboard and the leaderboard are not the Code Arena, wherever the
\* guards send the visitor instead.
LEMMA RouteAvoidsArena ==
    ASSUME NEW p, p # "arena", NEW r
    PROVE  Route(p, r) # "arena"
BY DEF Route

LEMMA NavigateIsSound ==
    ASSUME ModalInv, NEW target, NEW a, Navigate(target, a) PROVE ModalInv'
BY ShowIsSound DEF Navigate, Arrive, Moves, engineVars, ModalInv

LEMMA LoadsIsSound ==
    ASSUME ModalInv, NEW p, NEW a, Loads(p, a) PROVE ModalInv'
BY FreshIsSound DEF Loads, ModalInv

LEMMA ModalStep == ModalInv /\ [Next]_vars => ModalInv'
<1> SUFFICES ASSUME ModalInv, [Next]_vars PROVE ModalInv'
  OBVIOUS
<1>1. CASE UNCHANGED <<page, hidden, arena, status>>
  BY <1>1 DEF ModalInv, View
<1>2. CASE EnterAsStudent \/ Choose \/ DrawerAnswers \/ ToggleRun \/ SelectEnvironment
           \/ SelectMode
  BY <1>1, <1>2 DEF EnterAsStudent, Choose, DrawerAnswers, ToggleRun, SelectEnvironment,
                    SelectMode, pageVars, engineVars
<1>3. CASE RegistrationEnds \/ EnterAsCreator \/ Exit
  BY <1>3, ShowIsSound DEF RegistrationEnds, EnterAsCreator, Exit, Arrive, Moves, engineVars,
                           ModalInv
<1>4. CASE ConfirmJoin \/ EnterArena \/ FollowLink \/ NewRun \/ LeaveResults \/ AutoReturn
           \/ Redirect
  BY <1>4, NavigateIsSound
     DEF ConfirmJoin, EnterArena, FollowLink, NewRun, LeaveResults, AutoReturn, Redirect
<1>5. CASE SelectTab
  BY <1>5, ShowIsSound DEF SelectTab, engineVars, ModalInv
<1>6. CASE TimeUp
  BY <1>1, <1>6 DEF TimeUp, pageVars, engineVars
<1>7. CASE ViewGlobalLeaderboard \/ \E p \in Pages : OpenUrl(p)
  BY <1>7, LoadsIsSound DEF ViewGlobalLeaderboard, OpenUrl
<1>8. CASE StartRun
  <2>1. Sound(Rearmed(arena), "queued") /\ ~Rearmed(arena).shown
    BY <1>8 DEF StartRun, ModalInv, Sound, Rearmed, BusyStatus, ArenaType
  <2>2. Sound(arena', status')
    BY <1>8, <2>1, HandledIsSound DEF StartRun
  <2> QED BY <1>8, <2>2 DEF StartRun, restVars, ModalInv, View
<1>9. CASE Cancel
  <2>1. Sound(arena', status')
    BY <1>9, HandledIsSound DEF Cancel, ModalInv, BusyStatus
  <2>2. View = "arena"
    BY <1>9 DEF Cancel, ModalInv, FreshArena
  <2> QED BY <1>9, <2>1, <2>2 DEF Cancel, restVars, ModalInv, View
<1>10. CASE LogFetched
  <2>1. View = "arena"
    BY <1>10 DEF LogFetched, ModalInv, FreshArena
  <2>2. arena' = Closed([arena EXCEPT !.log = arena.log - 1]) /\ status' = status
    BY <1>10 DEF LogFetched, engineVars
  <2>3. arena.log - 1 \in Nat
    BY <1>10 DEF LogFetched, ModalInv, Sound, ArenaType
  <2>4. Sound(arena', status')
    BY <2>2, <2>3 DEF Closed, ModalInv, Sound, ArenaType
  <2> QED BY <1>10, <2>1, <2>4 DEF LogFetched, restVars, ModalInv, View
<1>11. CASE TimerFires \/ LateTimerFires \/ CalcTimerFires
  BY <1>11, ShowIsSound
     DEF TimerFires, LateTimerFires, CalcTimerFires, Moves, engineVars, ModalInv
<1>12. CASE (\E s \in {"idle", "running"} : EngineStatus(s))
            \/ EngineTicks \/ EngineCompletes \/ EngineFails
  BY <1>12, TellsIsSound DEF EngineStatus, EngineTicks, EngineCompletes, EngineFails
<1>13. CASE EngineLogs \/ DetectBackends
  BY <1>13, RemindedIsSound DEF EngineLogs, DetectBackends
<1>14. CASE LoadHistoric
  BY <1>14, ShowIsSound, RouteAvoidsArena DEF LoadHistoric, Arrive, Moves, ModalInv
<1>15. CASE PollBoard
            \/ \E f \in Filters : SetFilter(f) \/ BoardAnswered(f) \/ BoardFails(f)
  BY <1>1, <1>15 DEF PollBoard, SetFilter, BoardAnswered, BoardFails, boardFrame, engineVars
<1>16. CASE UNCHANGED vars
  BY <1>1, <1>16 DEF vars, pageVars, engineVars
<1> QED
  BY <1>2, <1>3, <1>4, <1>5, <1>6, <1>7, <1>8, <1>9, <1>10, <1>11, <1>12, <1>13,
     <1>14, <1>15, <1>16 DEF Next

\* The dialog of CodeArena.jsx never stays over an idle page, through repeated
\* status messages, several runs, late logs and any way to leave and return.
THEOREM DialogIsJustified == Spec => []ModalIsJustified
<1>1. Init => ModalInv
  BY FreshIsSound DEF Init, ModalInv
<1>2. ModalInv => ModalIsJustified
  BY DEF ModalInv, Sound, ModalIsJustified
<1> QED BY <1>1, <1>2, ModalStep, PTL DEF Spec

(***************************************************************************)
(* The shape of the pages' state.                                          *)
(***************************************************************************)

Lasts == {"null", "live", "done", "failed"}

\* What belongs to the application rather than to a page.
AppInv ==
    /\ page \in Pages /\ role \in {"none", "student", "creator"}
    /\ registering \in BOOLEAN /\ over \in BOOLEAN /\ begun \in BOOLEAN
    /\ detecting \in BOOLEAN
    /\ status \in {"idle", "queued", "running", "done", "error"} /\ last \in Lasts
    /\ hidden \in BOOLEAN /\ (hidden => page \in LayoutPages)

\* The state of a page goes with it.
PlaceInv ==
    /\ auto \in BOOLEAN /\ (auto => page = "leaderboard")
    /\ dialog \in BOOLEAN /\ (dialog => page = "lobby")
    /\ live \in Lasts /\ (View \notin {"simulation", "calculating"} => live = "null")
    /\ expanded \in BOOLEAN /\ (expanded => View = "history")
    /\ form \in {"student", "creator"} /\ (form = "creator" => page = "select")
    /\ drawer \in {"empty", "server", "local"} /\ (drawer # "empty" => page \in LayoutPages)
    /\ isFinalRound \in BOOLEAN /\ (isFinalRound => View = "simulation")

BoardT == [filter : Filters, rows : Filters \cup {"none"}, asked : SUBSET Filters]

BoardInv ==
    /\ board \in BoardT
    /\ View # "leaderboard" => board = FreshBoard

\* The requests for execution logs: one for every run at most, and one for an
\* error of a run before; the one of the current run is still to come while no
\* error was shown.
LogsFit(a, r) == a.log <= r + 1 /\ (~a.shown => a.log <= r)

\* The timers of a Code Arena, mounted or left, are bounded together.
CountInv ==
    /\ runs \in 0..MaxRuns /\ late \in Nat /\ calc \in 0..MaxTimers
    /\ late + arena.timers <= MaxTimers
    /\ LogsFit(arena, runs)

TypeInv == ModalInv /\ AppInv /\ PlaceInv /\ BoardInv /\ CountInv

LEMMA FreshFits == FreshArena.timers = 0 /\ \A r \in Nat : LogsFit(FreshArena, r)
BY DEF FreshArena, LogsFit

\* The status callback asks for at most one log until a new run is started.
LEMMA HandledFits ==
    ASSUME NEW a \in ArenaType, NEW s, NEW known \in BOOLEAN, NEW r \in Nat, LogsFit(a, r)
    PROVE  LogsFit(Handled(a, s, known), r)
<1>1. CASE s \in BusyStatus
  <2>1. Handled(a, s, known) = [a EXCEPT !.modal = TRUE]
    BY <1>1 DEF Handled, BusyStatus, RunStatus
  <2> QED BY <2>1 DEF LogsFit, ArenaType
<1>2. CASE s \in RunStatus /\ ~a.nav
  <2>1. Handled(a, s, known) = [a EXCEPT !.nav = TRUE, !.timers = a.timers + 1]
    BY <1>2 DEF Handled, BusyStatus, RunStatus
  <2>2. Handled(a, s, known).log = a.log /\ Handled(a, s, known).shown = a.shown
    BY <2>1 DEF ArenaType
  <2> QED BY <2>2 DEF LogsFit
<1>3. CASE s \in {"error", "tle"} /\ ~a.shown /\ known
  <2>1. Handled(a, s, known) = [a EXCEPT !.shown = TRUE, !.log = a.log + 1]
    BY <1>3 DEF Handled, BusyStatus, RunStatus
  <2>2. a.log \in Nat /\ a.log <= r
    BY <1>3 DEF LogsFit, ArenaType
  <2>3. Handled(a, s, known).log = a.log + 1 /\ Handled(a, s, known).shown = TRUE
    BY <2>1 DEF ArenaType
  <2>4. a.log + 1 <= r + 1
    BY <2>2
  <2> QED BY <2>3, <2>4 DEF LogsFit
<1>4. CASE s \in {"error", "tle"} /\ ~a.shown /\ ~known
  <2>1. Handled(a, s, known) = Closed([a EXCEPT !.shown = TRUE])
    BY <1>4 DEF Handled, BusyStatus, RunStatus
  <2>2. Handled(a, s, known).log = a.log /\ Handled(a, s, known).shown = TRUE
    BY <2>1 DEF ArenaType, Closed
  <2> QED BY <2>2 DEF LogsFit
<1>5. CASE s \in {"idle", "done"}
  <2>1. Handled(a, s, known) = Closed(a)
    BY <1>5 DEF Handled, BusyStatus, RunStatus
  <2>2. Handled(a, s, known).log = a.log /\ Handled(a, s, known).shown = a.shown
    BY <2>1 DEF ArenaType, Closed
  <2> QED BY <2>2 DEF LogsFit
<1>6. CASE /\ s \notin BusyStatus /\ ~(s \in RunStatus /\ ~a.nav)
           /\ ~(s \in {"error", "tle"} /\ ~a.shown) /\ s \notin {"idle", "done"}
  <2>1. Handled(a, s, known) = a
    BY <1>6 DEF Handled
  <2> QED BY <2>1
<1> QED BY <1>1, <1>2, <1>3, <1>4, <1>5, <1>6

LEMMA FreshBoardFits == FreshBoard \in BoardT /\ [FreshBoard EXCEPT !.asked = {"main"}] \in BoardT
BY DEF FreshBoard, BoardT, Filters

\* A page takes another's place.
LEMMA ShowFits ==
    ASSUME TypeInv, NEW p \in Pages, NEW h \in BOOLEAN, h => p \in LayoutPages,
           NEW a \in BOOLEAN, NEW nav, NEW clc, Show(p, h, a, nav, clc), last' \in Lasts,
           UNCHANGED runs,
           nav = 0 \/ (nav = 1 /\ (late > 0 \/ (arena.timers > 0 /\ p # "arena"))),
           clc = 0 \/ (clc = 1 /\ calc > 0)
    PROVE  /\ page' \in Pages /\ hidden' \in BOOLEAN /\ (hidden' => page' \in LayoutPages)
           /\ PlaceInv' /\ BoardInv' /\ CountInv'
<1> DEFINE v == Mounted(p, h)
           left == IF View = "arena" /\ v # "arena" THEN arena.timers ELSE 0
           armed == IF Arms(v) THEN 1 ELSE 0
<1>1. /\ page' = p /\ hidden' = h /\ auto' = (a /\ p = "leaderboard")
      /\ late' = late + left - nav /\ calc' = calc + armed - clc
      /\ board' = Shown(v) /\ live' = Subscribed(v)
      /\ expanded' = (expanded /\ v = "history" /\ View = v)
      /\ dialog' = FALSE
      /\ form' = IF p = "select" /\ page = p THEN form ELSE "student"
      /\ drawer' = IF p \in LayoutPages THEN drawer ELSE "empty"
      /\ isFinalRound' = (isFinalRound /\ v = "simulation" /\ View = v)
      /\ late' + arena'.timers <= MaxTimers /\ calc' <= MaxTimers
  BY DEF Show
<1>2. View' = v
  BY <1>1 DEF View
<1>3. arena \in ArenaType /\ (View # "arena" => arena = FreshArena)
  BY DEF TypeInv, ModalInv, Sound
<1>4. PlaceInv'
  <2>1. live' \in Lasts /\ (v \notin {"simulation", "calculating"} => live' = "null")
    <3>1. live' \in {live, last', "null"}
      BY <1>1 DEF Subscribed
    <3>2. v \notin {"simulation", "calculating"} => live' = "null"
      BY <1>1 DEF Subscribed
    <3> QED BY <3>1, <3>2 DEF TypeInv, PlaceInv, Lasts
  <2>2. /\ auto' \in BOOLEAN /\ (auto' => p = "leaderboard")
        /\ expanded' \in BOOLEAN /\ (expanded' => v = "history")
        /\ isFinalRound' \in BOOLEAN /\ (isFinalRound' => v = "simulation")
    BY <1>1
  <2>3. /\ form' \in {"student", "creator"} /\ (form' = "creator" => p = "select")
        /\ drawer' \in {"empty", "server", "local"} /\ (drawer' # "empty" => p \in LayoutPages)
    BY <1>1 DEF TypeInv, PlaceInv
  <2> QED BY <1>1, <1>2, <2>1, <2>2, <2>3 DEF PlaceInv
<1>5. BoardInv'
  <2>1. Shown(v) \in BoardT /\ (v # "leaderboard" => Shown(v) = FreshBoard)
    BY FreshBoardFits DEF Shown, TypeInv, BoardInv
  <2> QED BY <1>1, <1>2, <2>1 DEF BoardInv
<1>6. CountInv'
  <2>1. /\ late \in Nat /\ calc \in Nat /\ arena.timers \in Nat /\ runs \in 0..MaxRuns
        /\ MaxTimers \in Nat /\ runs \in Nat
    BY <1>3, PagesAssumption DEF TypeInv, CountInv, ArenaType
  <2>2. late' \in Nat
    <3>1. left \in Nat
      BY <2>1
    <3>2. CASE nav = 0
      BY <1>1, <2>1, <3>1, <3>2
    <3>3. CASE nav = 1 /\ late > 0
      BY <1>1, <2>1, <3>1, <3>3
    <3>4. CASE nav = 1 /\ arena.timers > 0 /\ p # "arena"
      <4>1. View = "arena" /\ v # "arena"
        BY <1>3, <3>4, FreshFits DEF Mounted
      <4>2. left = arena.timers
        BY <4>1
      <4> HIDE DEF left
      <4> QED BY <1>1, <2>1, <3>4, <4>2
    <3> QED BY <3>2, <3>3, <3>4
  <2>3. calc' \in 0..MaxTimers
    <3>1. armed \in {0, 1}
      OBVIOUS
    <3> HIDE DEF armed
    <3> QED BY <1>1, <2>1, <3>1
  <2>4. LogsFit(arena', runs)
    <3>1. \/ arena' = FreshArena \/ arena' = arena
          \/ \E known \in BOOLEAN : arena' = Handled(FreshArena, status', known)
      BY DEF Show
    <3>2. FreshArena \in ArenaType
      BY DEF FreshArena, ArenaType
    <3> QED BY <2>1, <3>1, <3>2, FreshFits, HandledFits DEF TypeInv, CountInv
  <2> QED BY <1>1, <2>1, <2>2, <2>3, <2>4 DEF CountInv
<1> QED BY <1>1, <1>4, <1>5, <1>6

\* Where a navigation can end.
LEMMA RouteIsPage == ASSUME NEW p \in Pages, NEW r PROVE Route(p, r) \in Pages
BY DEF Route, Pages, LayoutPages

LEMMA MovesFits ==
    ASSUME TypeInv, NEW target \in Pages, NEW r, NEW a \in BOOLEAN, NEW nav, NEW clc,
           Moves(target, r, a, nav, clc), last' \in Lasts, UNCHANGED runs,
           nav = 0 \/ (nav = 1 /\ (late > 0 \/ (arena.timers > 0 /\ target # "arena"))),
           clc = 0 \/ (clc = 1 /\ calc > 0)
    PROVE  /\ page' \in Pages /\ hidden' \in BOOLEAN /\ (hidden' => page' \in LayoutPages)
           /\ PlaceInv' /\ BoardInv' /\ CountInv'
<1> DEFINE p == Route(target, r)
           h == hidden /\ p \in LayoutPages
<1>1. p \in Pages /\ (target # "arena" => p # "arena")
  BY RouteIsPage, RouteAvoidsArena
<1>2. Show(p, h, a, nav, clc)
  BY DEF Moves
<1> HIDE DEF p
<1>3. h \in BOOLEAN /\ (h => p \in LayoutPages)
  BY DEF TypeInv, ModalInv
<1> HIDE DEF h
<1> QED BY <1>1, <1>2, <1>3, ShowFits

\* The steps that navigate while the engine says nothing.
LEMMA MovesFitsAll ==
    ASSUME TypeInv, NEW target \in Pages, NEW r, NEW a \in BOOLEAN, NEW nav, NEW clc,
           Moves(target, r, a, nav, clc), role' \in {"none", "student", "creator"},
           registering' \in BOOLEAN, over' \in BOOLEAN, UNCHANGED engineVars,
           nav = 0 \/ (nav = 1 /\ (late > 0 \/ (arena.timers > 0 /\ target # "arena"))),
           clc = 0 \/ (clc = 1 /\ calc > 0)
    PROVE  AppInv' /\ PlaceInv' /\ BoardInv' /\ CountInv'
<1>1. UNCHANGED <<status, last, begun, runs, detecting>>
  BY DEF engineVars
<1>2. last' \in Lasts
  BY <1>1 DEF TypeInv, AppInv
<1>3. /\ page' \in Pages /\ hidden' \in BOOLEAN /\ (hidden' => page' \in LayoutPages)
      /\ PlaceInv' /\ BoardInv' /\ CountInv'
  BY <1>1, <1>2, MovesFits
<1>4. AppInv'
  BY <1>1, <1>3 DEF AppInv, TypeInv
<1> QED BY <1>3, <1>4

LEMMA NavigateFits ==
    ASSUME TypeInv, NEW target \in Pages, NEW a \in BOOLEAN, Navigate(target, a)
    PROVE  AppInv' /\ PlaceInv' /\ BoardInv' /\ CountInv'
<1>1. /\ UNCHANGED <<role, registering, over>> /\ UNCHANGED engineVars
      /\ Moves(target, role, a, 0, 0)
  BY DEF Navigate, Arrive
<1> QED BY <1>1, MovesFitsAll DEF TypeInv, AppInv

LEMMA LoadsFits ==
    ASSUME TypeInv, NEW p \in Pages, NEW a \in BOOLEAN, Loads(p, a)
    PROVE  AppInv' /\ PlaceInv' /\ BoardInv' /\ CountInv'
<1>1. page' \in Pages
  BY RouteIsPage DEF Loads
<1>2. View' = page'
  BY DEF Loads, View, Mounted
<1>3. AppInv'
  BY <1>1 DEF Loads, AppInv, TypeInv, Lasts
<1>4. PlaceInv'
  BY <1>2 DEF Loads, PlaceInv, Lasts
<1>5. BoardInv'
  BY <1>2, FreshBoardFits DEF Loads, BoardInv
<1>6. CountInv'
  <2>1. 0 \in 0..MaxTimers /\ 0 \in Nat /\ 0 + 0 <= MaxTimers
    BY PagesAssumption
  <2>2. runs \in 0..MaxRuns /\ runs \in Nat
    BY PagesAssumption DEF TypeInv, CountInv
  <2> QED BY <2>1, <2>2, FreshFits DEF Loads, CountInv
<1> QED BY <1>3, <1>4, <1>5, <1>6

\* The engine's word to the pages.
LEMMA TellsFits ==
    ASSUME TypeInv, NEW s \in {"idle", "queued", "running", "done", "error"}, NEW l \in Lasts,
           NEW heard \in BOOLEAN, Tells(s, l, heard)
    PROVE  AppInv' /\ PlaceInv' /\ BoardInv' /\ CountInv'
<1>1. /\ status' = s /\ last' = l
      /\ UNCHANGED <<page, hidden, auto, dialog, board, expanded, form, drawer, isFinalRound,
                     role, registering, over, begun, runs, detecting, late>>
      /\ live' = IF heard /\ (View = "simulation" \/ (View = "calculating" /\ l \in Ended))
                 THEN l ELSE live
      /\ calc' = IF heard /\ View = "calculating" /\ l = "done" THEN calc + 1 ELSE calc
      /\ late + arena'.timers <= MaxTimers /\ calc' <= MaxTimers
  BY DEF Tells
<1>2. View' = View
  BY <1>1 DEF View
<1>3. AppInv'
  BY <1>1 DEF AppInv, TypeInv
<1>4. PlaceInv'
  BY <1>1, <1>2 DEF PlaceInv, TypeInv
<1>5. BoardInv'
  BY <1>1, <1>2 DEF BoardInv, TypeInv
<1>6. CountInv'
  <2>1. arena \in ArenaType /\ runs \in Nat /\ calc \in Nat /\ MaxTimers \in Nat
    BY PagesAssumption DEF TypeInv, ModalInv, Sound, CountInv
  <2>2. arena' = arena \/ \E known \in BOOLEAN : arena' = Handled(arena, s, known)
    BY DEF Tells
  <2>3. LogsFit(arena', runs)
    BY <2>1, <2>2, HandledFits DEF TypeInv, CountInv
  <2>4. calc' \in 0..MaxTimers
    BY <1>1, <2>1
  <2> QED BY <1>1, <2>3, <2>4 DEF CountInv, TypeInv
<1> QED BY <1>3, <1>4, <1>5, <1>6

\* The Code Arena changes where it stands.
LEMMA ArenaFits ==
    ASSUME TypeInv, UNCHANGED restVars, UNCHANGED <<late, calc>>,
           runs' \in 0..MaxRuns, LogsFit(arena', runs'), late + arena'.timers <= MaxTimers,
           status' \in {"idle", "queued", "running", "done", "error"}, last' \in Lasts,
           begun' \in BOOLEAN, detecting' \in BOOLEAN
    PROVE  AppInv' /\ PlaceInv' /\ BoardInv' /\ CountInv'
<1>1. View' = View
  BY DEF View, restVars
<1>2. AppInv'
  BY DEF AppInv, TypeInv, restVars
<1>3. PlaceInv'
  BY <1>1 DEF PlaceInv, TypeInv, restVars
<1>4. BoardInv'
  BY <1>1 DEF BoardInv, TypeInv, restVars
<1>5. CountInv'
  BY DEF CountInv, TypeInv
<1> QED BY <1>2, <1>3, <1>4, <1>5

LEMMA StartRunFits ==
    ASSUME TypeInv, StartRun
    PROVE  AppInv' /\ PlaceInv' /\ BoardInv' /\ CountInv'
<1>1. /\ runs' = runs + 1 /\ runs < MaxRuns /\ begun' = TRUE /\ status' = "queued"
      /\ last' = "null" /\ arena' = Handled(Rearmed(arena), "queued", FALSE)
      /\ UNCHANGED restVars /\ UNCHANGED <<late, calc, detecting>>
  BY DEF StartRun
<1>2. arena \in ArenaType /\ runs \in 0..MaxRuns /\ arena.log <= runs + 1 /\ MaxRuns \in Nat
  BY PagesAssumption DEF TypeInv, ModalInv, Sound, CountInv, LogsFit
<1>3. /\ Rearmed(arena) \in ArenaType /\ Rearmed(arena).log = arena.log
      /\ Rearmed(arena).timers = arena.timers
  BY <1>2 DEF Rearmed, ArenaType
<1>4. arena' = [Rearmed(arena) EXCEPT !.modal = TRUE]
  BY <1>1 DEF Handled, BusyStatus, RunStatus
<1>5. arena'.timers = arena.timers /\ arena'.log = arena.log
  BY <1>3, <1>4 DEF ArenaType
<1>6. arena.log \in Nat /\ runs' \in 0..MaxRuns /\ arena.log <= runs'
      /\ arena.log <= runs' + 1
  BY <1>1, <1>2 DEF ArenaType
<1>7. LogsFit(arena', runs')
  BY <1>5, <1>6 DEF LogsFit
<1> QED BY <1>1, <1>5, <1>6, <1>7, ArenaFits DEF TypeInv, AppInv, CountInv, Lasts

LEMMA BoardFits ==
    ASSUME TypeInv, UNCHANGED boardFrame, board' \in BoardT,
           View = "leaderboard" \/ board.asked # {}
    PROVE  AppInv' /\ PlaceInv' /\ BoardInv' /\ CountInv'
<1>1. View = "leaderboard"
  BY DEF TypeInv, BoardInv, FreshBoard
<1>2. UNCHANGED <<page, hidden>> /\ View' = View
  BY DEF boardFrame, View
<1>3. BoardInv'
  BY <1>1, <1>2 DEF BoardInv
<1>4. AppInv' /\ CountInv'
  BY DEF AppInv, CountInv, TypeInv, boardFrame, engineVars
<1>5. PlaceInv'
  BY <1>2 DEF PlaceInv, TypeInv, boardFrame
<1> QED BY <1>3, <1>4, <1>5

LEMMA TypeStep == TypeInv /\ [Next]_vars => TypeInv'
<1> SUFFICES ASSUME TypeInv, [Next]_vars PROVE TypeInv'
  OBVIOUS
<1>m. ModalInv'
  BY ModalStep DEF TypeInv
<1> SUFFICES AppInv' /\ PlaceInv' /\ BoardInv' /\ CountInv'
  BY <1>m DEF TypeInv
<1>0. /\ {"arena", "simulation", "wiki", "lobby", "leaderboard", "calculating", "select",
          "creator"} \subseteq Pages
      /\ TRUE \in BOOLEAN /\ FALSE \in BOOLEAN
  BY DEF Pages, LayoutPages
<1>1. CASE UNCHANGED vars
  <2>1. View' = View
    BY <1>1 DEF View, vars, pageVars
  <2>2. AppInv' /\ CountInv'
    BY <1>1 DEF AppInv, CountInv, TypeInv, vars, pageVars, engineVars
  <2>3. PlaceInv' /\ BoardInv'
    BY <1>1, <2>1 DEF PlaceInv, BoardInv, TypeInv, vars, pageVars
  <2> QED BY <2>2, <2>3
<1>2. CASE SelectMode \/ Choose \/ DrawerAnswers \/ ToggleRun \/ SelectEnvironment
  <2>1. UNCHANGED <<page, hidden, board, arena, late, calc, live, auto, role, registering, over>>
        /\ UNCHANGED engineVars
    BY <1>2 DEF SelectMode, Choose, DrawerAnswers, ToggleRun, SelectEnvironment
  <2>2. View' = View
    BY <2>1 DEF View
  <2>3. AppInv' /\ CountInv'
    BY <2>1 DEF AppInv, CountInv, TypeInv, engineVars
  <2>4. BoardInv'
    BY <2>1, <2>2 DEF BoardInv, TypeInv
  <2>5. PlaceInv'
    <3>1. CASE SelectMode
      BY <2>2, <3>1 DEF PlaceInv, TypeInv, SelectMode
    <3>2. CASE Choose
      BY <2>2, <3>2 DEF PlaceInv, TypeInv, Choose
    <3>3. CASE DrawerAnswers
      BY <2>2, <3>3 DEF PlaceInv, TypeInv, DrawerAnswers
    <3>4. CASE ToggleRun
      BY <2>2, <3>4 DEF PlaceInv, TypeInv, ToggleRun
    <3>5. CASE SelectEnvironment
      BY <2>2, <3>5 DEF PlaceInv, TypeInv, SelectEnvironment
    <3> QED BY <1>2, <3>1, <3>2, <3>3, <3>4, <3>5
  <2> QED BY <2>3, <2>4, <2>5
<1>3. CASE EnterAsStudent
  <2>1. UNCHANGED pageVars /\ UNCHANGED engineVars /\ role' = "student" /\ registering' = TRUE
        /\ over' = over
    BY <1>3 DEF EnterAsStudent
  <2>2. View' = View
    BY <2>1 DEF View, pageVars
  <2>3. AppInv' /\ CountInv'
    BY <2>1 DEF AppInv, CountInv, TypeInv, engineVars, pageVars
  <2>4. PlaceInv' /\ BoardInv'
    BY <2>1, <2>2 DEF PlaceInv, BoardInv, TypeInv, pageVars
  <2> QED BY <2>3, <2>4
<1>4. CASE RegistrationEnds
  BY <1>0, <1>4, MovesFitsAll DEF RegistrationEnds, Arrive, TypeInv, AppInv
<1>5. CASE EnterAsCreator \/ Exit
  BY <1>0, <1>5, MovesFitsAll DEF EnterAsCreator, Exit, Arrive, TypeInv, AppInv
<1>6. CASE ConfirmJoin \/ EnterArena \/ FollowLink \/ NewRun \/ LeaveResults \/ AutoReturn
           \/ Redirect
  BY <1>0, <1>6, NavigateFits
     DEF ConfirmJoin, EnterArena, FollowLink, NewRun, LeaveResults, AutoReturn, Redirect
<1>7. CASE SelectTab
  <2>1. Show(page, ~hidden, auto, 0, 0) /\ page \in LayoutPages
        /\ UNCHANGED <<role, registering, over, status, last, begun, runs, detecting>>
    BY <1>7 DEF SelectTab, engineVars
  <2>2. page \in Pages /\ (~hidden) \in BOOLEAN /\ auto \in BOOLEAN /\ last' \in Lasts
    BY <2>1 DEF TypeInv, AppInv, PlaceInv
  <2>3. /\ page' \in Pages /\ hidden' \in BOOLEAN /\ (hidden' => page' \in LayoutPages)
        /\ PlaceInv' /\ BoardInv' /\ CountInv'
    BY <2>1, <2>2, ShowFits
  <2>4. AppInv'
    BY <2>1, <2>3 DEF TypeInv, AppInv
  <2> QED BY <2>3, <2>4
<1>8. CASE TimeUp
  <2>1. over' = TRUE /\ UNCHANGED <<role, registering>> /\ UNCHANGED engineVars
    BY <1>8 DEF TimeUp
  <2>2. UNCHANGED pageVars
    BY <1>8 DEF TimeUp
  <2>3. View' = View
    BY <2>2 DEF View, pageVars
  <2>4. AppInv' /\ CountInv'
    BY <2>1, <2>2 DEF AppInv, CountInv, TypeInv, engineVars, pageVars
  <2>5. PlaceInv' /\ BoardInv'
    BY <2>2, <2>3 DEF PlaceInv, BoardInv, TypeInv, pageVars
  <2> QED BY <2>4, <2>5
<1>9. CASE ViewGlobalLeaderboard
  BY <1>0, <1>9, LoadsFits DEF ViewGlobalLeaderboard
<1>10. ASSUME NEW p \in Pages, OpenUrl(p) PROVE AppInv' /\ PlaceInv' /\ BoardInv' /\ CountInv'
  <2>1. (auto /\ p = page) \in BOOLEAN
    OBVIOUS
  <2> QED BY <1>10, <2>1, LoadsFits DEF OpenUrl
<1>11. CASE StartRun
  BY <1>11, StartRunFits
<1>12. CASE Cancel \/ LogFetched
  <2>1. arena \in ArenaType /\ runs \in Nat /\ runs \in 0..MaxRuns /\ LogsFit(arena, runs)
        /\ late + arena.timers <= MaxTimers
    BY PagesAssumption DEF TypeInv, ModalInv, Sound, CountInv
  <2>2. CASE Cancel
    <3>1. /\ UNCHANGED restVars /\ UNCHANGED <<late, calc, last, begun, runs, detecting>>
          /\ status' = "idle" /\ arena' = Handled(arena, "idle", FALSE)
      BY <2>2 DEF Cancel
    <3>2. arena' = Closed(arena)
      BY <3>1 DEF Handled, BusyStatus, RunStatus
    <3>3. arena'.timers = arena.timers
      BY <2>1, <3>2 DEF Closed, ArenaType
    <3>4. LogsFit(arena', runs)
      BY <1>0, <2>1, <3>1, HandledFits
    <3> QED BY <2>1, <3>1, <3>3, <3>4, ArenaFits DEF TypeInv, AppInv
  <2>3. CASE LogFetched
    <3>1. /\ UNCHANGED restVars /\ UNCHANGED <<late, calc, status, last, begun, runs, detecting>>
          /\ arena' = Closed([arena EXCEPT !.log = arena.log - 1]) /\ arena.log > 0
      BY <2>3 DEF LogFetched, engineVars
    <3>2. /\ arena'.timers = arena.timers /\ arena'.log = arena.log - 1
          /\ arena'.shown = arena.shown
      BY <2>1, <3>1 DEF Closed, ArenaType
    <3>3. arena.log \in Nat /\ arena.log - 1 <= arena.log
      BY <2>1 DEF ArenaType
    <3>4. LogsFit(arena', runs)
      BY <2>1, <3>2, <3>3 DEF LogsFit
    <3> QED BY <2>1, <3>1, <3>2, <3>4, ArenaFits DEF TypeInv, AppInv
  <2> QED BY <1>12, <2>2, <2>3
<1>13. CASE TimerFires \/ LateTimerFires \/ CalcTimerFires
  BY <1>0, <1>13, MovesFitsAll
     DEF TimerFires, LateTimerFires, CalcTimerFires, TypeInv, AppInv
<1>14. CASE (\E s \in {"idle", "running"} : EngineStatus(s))
            \/ EngineTicks \/ EngineCompletes \/ EngineFails
  <2>1. /\ last \in Lasts /\ status \in {"idle", "queued", "running", "done", "error"}
        /\ {"live", "done", "failed"} \subseteq Lasts
    BY DEF TypeInv, AppInv, Lasts
  <2> QED BY <1>0, <1>14, <2>1, TellsFits
          DEF EngineStatus, EngineTicks, EngineCompletes, EngineFails
<1>15. CASE EngineLogs \/ DetectBackends
  <2>1. /\ UNCHANGED restVars /\ UNCHANGED <<late, calc, status, last, begun, runs>>
        /\ late + arena'.timers <= MaxTimers
        /\ arena' = arena \/ \E known \in BOOLEAN : arena' = Handled(arena, status, known)
    BY <1>15 DEF EngineLogs, DetectBackends, Reminded
  <2>2. detecting' \in BOOLEAN
    BY <1>15 DEF EngineLogs, DetectBackends, TypeInv, AppInv
  <2>3. arena \in ArenaType /\ runs \in Nat /\ runs \in 0..MaxRuns /\ LogsFit(arena, runs)
    BY PagesAssumption DEF TypeInv, ModalInv, Sound, CountInv
  <2>4. LogsFit(arena', runs)
    BY <2>1, <2>3, HandledFits
  <2> QED BY <2>1, <2>2, <2>3, <2>4, ArenaFits DEF TypeInv, AppInv
<1>16. CASE LoadHistoric
  <2>1. /\ status' = "done" /\ last' = "done"
        /\ UNCHANGED <<role, registering, over, begun, runs, detecting>>
        /\ Moves("simulation", role, FALSE, 0, 0)
    BY <1>16 DEF LoadHistoric, Arrive
  <2>2. last' \in Lasts
    BY <2>1 DEF Lasts
  <2>3. /\ page' \in Pages /\ hidden' \in BOOLEAN /\ (hidden' => page' \in LayoutPages)
        /\ PlaceInv' /\ BoardInv' /\ CountInv'
    BY <1>0, <2>1, <2>2, MovesFits
  <2>4. AppInv'
    BY <2>1, <2>2, <2>3 DEF TypeInv, AppInv
  <2> QED BY <2>3, <2>4
<1>17. CASE PollBoard \/ \E f \in Filters : SetFilter(f) \/ BoardAnswered(f) \/ BoardFails(f)
  <2>1. board \in BoardT
    BY DEF TypeInv, BoardInv
  <2>2. board' \in BoardT /\ UNCHANGED boardFrame
    <3>1. CASE PollBoard
      BY <2>1, <3>1 DEF PollBoard, BoardT
    <3>2. ASSUME NEW f \in Filters, SetFilter(f) PROVE board' \in BoardT /\ UNCHANGED boardFrame
      BY <2>1, <3>2 DEF SetFilter, BoardT
    <3>3. ASSUME NEW f \in Filters, BoardAnswered(f)
          PROVE  board' \in BoardT /\ UNCHANGED boardFrame
      BY <2>1, <3>3 DEF BoardAnswered, BoardT
    <3>4. ASSUME NEW f \in Filters, BoardFails(f) PROVE board' \in BoardT /\ UNCHANGED boardFrame
      BY <2>1, <3>4 DEF BoardFails, BoardT
    <3> QED BY <1>17, <3>1, <3>2, <3>3, <3>4
  <2>3. View = "leaderboard" \/ board.asked # {}
    BY <1>17 DEF PollBoard, SetFilter, BoardAnswered, BoardFails
  <2> QED BY <2>2, <2>3, BoardFits
<1> QED
  BY <1>1, <1>2, <1>3, <1>4, <1>5, <1>6, <1>7, <1>8, <1>9, <1>10, <1>11, <1>12, <1>13,
     <1>14, <1>15, <1>16, <1>17 DEF Next

\* The application as it is loaded.
LEMMA TypeStart == Init => TypeInv
<1> SUFFICES ASSUME Init PROVE TypeInv
  OBVIOUS
<1>1. View = "select"
  BY DEF Init, View, Mounted
<1>2. ModalInv
  BY FreshIsSound DEF Init, ModalInv
<1>3. AppInv
  BY DEF Init, AppInv, Pages, Lasts
<1>4. PlaceInv
  BY <1>1 DEF Init, PlaceInv, Lasts
<1>5. BoardInv
  BY FreshBoardFits DEF Init, BoardInv
<1>6. CountInv
  <2>1. 0 \in 0..MaxTimers /\ 0 \in 0..MaxRuns /\ 0 \in Nat /\ 0 + 0 <= MaxTimers
    BY PagesAssumption
  <2> QED BY <2>1, FreshFits DEF Init, CountInv
<1> QED BY <1>2, <1>3, <1>4, <1>5, <1>6 DEF TypeInv

\* A page's state exists only while the page shows: nothing of the Code Arena,
\* the leaderboard, the submissions, the dashboard or the lobby's dialog is left
\* over wherever the contestant, a timer that outlived its page (CodeArena.jsx,
\* CalculatingResults.jsx) or a late registration navigates, and the execution
\* logs that are asked for never outnumber the runs by more than one.
THEOREM PagesKeepShape == Spec => []TypeOK
<1>1. TypeInv => TypeOK
  <2> SUFFICES ASSUME TypeInv PROVE TypeOK
    OBVIOUS
  <2>1. /\ arena \in ArenaType /\ runs \in 0..MaxRuns /\ late \in Nat /\ calc \in 0..MaxTimers
        /\ late + arena.timers <= MaxTimers /\ arena.log <= runs + 1
        /\ MaxRuns \in Nat /\ MaxTimers \in Nat
    BY PagesAssumption DEF TypeInv, ModalInv, Sound, CountInv, LogsFit
  <2>2. arena.timers \in 0..MaxTimers /\ arena.log \in 0..(MaxRuns + 1) /\ late \in 0..MaxTimers
    BY <2>1 DEF ArenaType
  <2>3. arena \in [nav : BOOLEAN, shown : BOOLEAN, modal : BOOLEAN,
                   timers : 0..MaxTimers, log : 0..(MaxRuns + 1)]
    BY <2>1, <2>2 DEF ArenaType
  <2>4. /\ board.filter \in Filters /\ board.rows \in Filters \cup {"none"}
        /\ board.asked \subseteq Filters /\ (View # "leaderboard" => board = FreshBoard)
    BY DEF TypeInv, BoardInv, BoardT
  <2>5. View # "arena" => arena = FreshArena
    BY DEF TypeInv, ModalInv
  <2> QED BY <2>1, <2>2, <2>3, <2>4, <2>5 DEF TypeInv, AppInv, PlaceInv, TypeOK, Lasts
<1> QED BY <1>1, TypeStart, TypeStep, PTL DEF Spec

(***************************************************************************)
(* The results page.                                                       *)
(***************************************************************************)

\* A page that takes another's place: CalculatingResults arms its timer if it
\* is mounted on a result, and keeps what it has if it was there already.
LEMMA ShowMovesOn ==
    ASSUME TypeInv, ResultsMoveOn, NEW p, NEW h, NEW a, NEW nav, NEW clc,
           Show(p, h, a, nav, clc),
           clc = 0 \/ (clc = 1 /\ calc > 0 /\ p # "calculating")
    PROVE  ResultsMoveOn'
<1> DEFINE v == Mounted(p, h)
<1>1. View' = v /\ live' = Subscribed(v)
      /\ calc' = calc + (IF Arms(v) THEN 1 ELSE 0) - clc
  BY DEF Show, View
<1>2. calc \in Nat
  BY PagesAssumption DEF TypeInv, CountInv
<1>3. SUFFICES ASSUME v = "calculating", live' = "done" PROVE calc' > 0
  BY <1>1 DEF ResultsMoveOn
<1>4. clc = 0
  BY <1>3 DEF Mounted
<1>5. CASE View = v
  <2>1. live' = live
    BY <1>1, <1>3, <1>5 DEF Subscribed
  <2>2. calc > 0
    BY <1>3, <1>5, <2>1 DEF ResultsMoveOn
  <2>3. ~Arms(v)
    BY <1>5 DEF Arms
  <2> QED BY <1>1, <1>2, <1>4, <2>2, <2>3
<1>6. CASE View # v
  <2>1. last' = "done"
    BY <1>1, <1>3, <1>6 DEF Subscribed
  <2>2. Arms(v)
    BY <1>3, <1>6, <2>1 DEF Arms
  <2> QED BY <1>1, <1>2, <1>4, <2>2
<1> QED BY <1>5, <1>6

\* What the engine tells the page: a result it hears of arms another timer.
LEMMA TellsMovesOn ==
    ASSUME TypeInv, ResultsMoveOn, NEW s, NEW l, NEW heard \in BOOLEAN, Tells(s, l, heard)
    PROVE  ResultsMoveOn'
<1>1. View' = View
  BY DEF Tells, View
<1>2. calc \in Nat
  BY PagesAssumption DEF TypeInv, CountInv
<1> QED BY <1>1, <1>2 DEF Tells, ResultsMoveOn

LEMMA MoveOnStep == TypeInv /\ ResultsMoveOn /\ [Next]_vars => ResultsMoveOn'
<1> SUFFICES ASSUME TypeInv, ResultsMoveOn, [Next]_vars PROVE ResultsMoveOn'
  OBVIOUS
<1>1. CASE UNCHANGED <<page, hidden, live, calc>>
  BY <1>1 DEF ResultsMoveOn, View
<1>2. CASE EnterAsStudent \/ Choose \/ DrawerAnswers \/ ToggleRun \/ SelectEnvironment
           \/ SelectMode \/ TimeUp
  BY <1>1, <1>2 DEF EnterAsStudent, Choose, DrawerAnswers, ToggleRun, SelectEnvironment,
                    SelectMode, TimeUp, pageVars
<1>3. CASE RegistrationEnds \/ EnterAsCreator \/ Exit \/ LoadHistoric
  BY <1>3, ShowMovesOn DEF RegistrationEnds, EnterAsCreator, Exit, LoadHistoric, Arrive, Moves
<1>4. CASE ConfirmJoin \/ EnterArena \/ FollowLink \/ NewRun \/ LeaveResults \/ AutoReturn
           \/ Redirect
  BY <1>4, ShowMovesOn
     DEF ConfirmJoin, EnterArena, FollowLink, NewRun, LeaveResults, AutoReturn, Redirect,
         Navigate, Arrive, Moves
<1>5. CASE SelectTab
  BY <1>5, ShowMovesOn DEF SelectTab
<1>6. CASE ViewGlobalLeaderboard \/ \E p \in Pages : OpenUrl(p)
  BY <1>6 DEF ViewGlobalLeaderboard, OpenUrl, Loads, ResultsMoveOn
<1>7. CASE StartRun \/ Cancel \/ LogFetched \/ EngineLogs \/ DetectBackends
  BY <1>1, <1>7 DEF StartRun, Cancel, LogFetched, EngineLogs, DetectBackends, Reminded, restVars
<1>8. CASE TimerFires \/ LateTimerFires
  BY <1>8, ShowMovesOn DEF TimerFires, LateTimerFires, Moves
<1>9. CASE CalcTimerFires
  <2>1. Route("leaderboard", role) # "calculating"
    BY DEF Route
  <2> QED BY <1>9, <2>1, ShowMovesOn DEF CalcTimerFires, Moves
<1>10. CASE (\E s \in {"idle", "running"} : EngineStatus(s))
            \/ EngineTicks \/ EngineCompletes \/ EngineFails
  BY <1>10, TellsMovesOn DEF EngineStatus, EngineTicks, EngineCompletes, EngineFails
<1>11. CASE PollBoard
            \/ \E f \in Filters : SetFilter(f) \/ BoardAnswered(f) \/ BoardFails(f)
  BY <1>1, <1>11 DEF PollBoard, SetFilter, BoardAnswered, BoardFails, boardFrame
<1>12. CASE UNCHANGED vars
  BY <1>1, <1>12 DEF vars, pageVars
<1> QED
  BY <1>2, <1>3, <1>4, <1>5, <1>6, <1>7, <1>8, <1>9, <1>10, <1>11, <1>12 DEF Next

\* With any number of runs, visits and pending timers, a results page
\* (CalculatingResults.jsx) that shows a result has a timer that leads on.
THEOREM ResultsLeadOn == Spec => []ResultsMoveOn
<1>1. Init => ResultsMoveOn
  BY DEF Init, ResultsMoveOn, View, Mounted
<1> QED BY <1>1, TypeStart, TypeStep, MoveOnStep, PTL DEF Spec
=============================================================================
