----------------------------- MODULE ArenaPages -----------------------------
(***************************************************************************)
(* The pages of the browser application as one contestant walks through    *)
(* them: routes and their guards (App.jsx, Layout.jsx), the Code Arena     *)
(* with its validation dialog (CodeArena.jsx), the lobby, the results and  *)
(* submissions pages and the leaderboard.                                  *)
(*                                                                         *)
(* A page that is left forgets its state, but not everything it began ends *)
(* with it: its timers still navigate, requests still answer.  The engine  *)
(* is seen through what it tells the pages, its status and its last state  *)
(* (VidhiEngine models where they come from).                              *)
(***************************************************************************)
EXTENDS Integers, FiniteSets

CONSTANTS
    Rounds,     \* rounds the leaderboard can be filtered by
    MaxRuns,    \* bound on runs started
    MaxTimers   \* bound on navigation timers pending at a time

ASSUME PagesAssumption ==
    /\ Rounds \cap {"main", "none", "local"} = {}
    /\ MaxRuns \in Nat /\ MaxTimers \in Nat \ {0}

Filters == Rounds \cup {"main"}

\* Pages inside Layout, where the contest's clock runs.
LayoutPages == {"arena", "simulation", "leaderboard", "assets", "history",
                "calculating", "wiki"}
Pages == LayoutPages \cup {"select", "creator", "lobby"}

VARIABLES
    page, role,
    hidden,      \* Layout shows its Logs or Settings tab in place of the page
    auto,        \* location.state.autoReturn
    registering, \* enterAsStudent waits for setRole
    over,        \* the contest's time is up
    dialog,      \* the lobby asks to confirm a contest
    status, last,\* the engine's status and lastState
    begun,       \* a run was started since the application was loaded
    runs,        \* runs started
    arena,       \* the state of the Code Arena
    late,        \* its navigation timers that outlived it
    calc,        \* pending timers of CalculatingResults
    board,       \* the state of the leaderboard
    live,        \* the state the dashboard or the results page was told
    expanded,    \* Submissions shows the details of a run
    form,        \* the form RoleSelector shows
    drawer,      \* the rows of the drawer beside Layout's pages
    isFinalRound,\* the environment the dashboard shows
    detecting    \* _detectBackends waits for its two probes

engineVars == <<status, last, begun, runs, detecting>>
restVars == <<page, hidden, auto, dialog, board, live, expanded, form, drawer,
              isFinalRound, role, registering, over>>
boardFrame == <<page, hidden, auto, dialog, arena, late, calc, live, expanded,
                form, drawer, isFinalRound, role, registering, over, engineVars>>
pageVars == <<page, hidden, auto, dialog, arena, late, calc, board, live, expanded,
              form, drawer, isFinalRound>>
vars == <<pageVars, role, registering, over, engineVars>>

\* refs and state of CodeArena; timers and execution-log requests pending.
FreshArena == [nav |-> FALSE, shown |-> FALSE, modal |-> FALSE, timers |-> 0, log |-> 0]

\* state of Leaderboard; asked: the filters of requests that are under way.
FreshBoard == [filter |-> "main", rows |-> "none", asked |-> {}]

Init ==
    /\ page = "select" /\ role = "none" /\ registering = FALSE
    /\ hidden = FALSE /\ auto = FALSE /\ live = "null" /\ expanded = FALSE
    /\ over = FALSE /\ dialog = FALSE
    /\ status = "idle" /\ last = "null" /\ begun = FALSE /\ runs = 0
    /\ arena = FreshArena /\ late = 0 /\ calc = 0 /\ board = FreshBoard
    /\ form = "student" /\ drawer = "empty" /\ isFinalRound = FALSE
    /\ detecting = TRUE

---------------------------------------------------------------------------
(* Routes. *)

\* RoleGuard.
Allowed(p, r) ==
    \/ p = "select"
    \/ p = "creator" /\ r = "creator"
    \/ p \notin {"select", "creator"} /\ r = "student"

\* Where a visitor with role r ends up: the guard decides as it renders.
Route(p, r) == IF Allowed(p, r) THEN p ELSE "select"

\* Pages Layout's effect leads away from once the time is up.
TimedPages == LayoutPages \ {"calculating", "leaderboard"}

BusyStatus == {"queued", "scanning", "transpiling", "compiling", "validating"}
RunStatus == {"running", "queued_gm"}

\* handleAlertAndClose
Closed(a) == [a EXCEPT !.nav = FALSE, !.modal = FALSE]

\* The Code Arena's status callback; known: the engine has a run id, whose
\* execution log is fetched before the alert.
Handled(a, s, known) ==
    CASE s \in BusyStatus -> [a EXCEPT !.modal = TRUE]
      [] s \in RunStatus /\ ~a.nav -> [a EXCEPT !.nav = TRUE, !.timers = @ + 1]
      [] s \in {"error", "tle"} /\ ~a.shown ->
            IF known THEN [a EXCEPT !.shown = TRUE, !.log = @ + 1]
            ELSE Closed([a EXCEPT !.shown = TRUE])
      [] s \in {"idle", "done"} -> Closed(a)
      [] OTHER -> a

\* What is mounted: nothing of page p under another tab of Layout.
Mounted(p, h) == IF h THEN "none" ELSE p
View == Mounted(page, hidden)

\* Deliberate error: the interval of a leaderboard that was left goes on.
Shown_keepsAsking(v) ==
    IF v # "leaderboard" THEN [FreshBoard EXCEPT !.asked = board.asked]
    ELSE IF View = v THEN board ELSE [FreshBoard EXCEPT !.asked = {"main"}]

\* The leaderboard once v is mounted; a new one asks for the main ranking.
Shown(v) ==
    IF v # "leaderboard" THEN FreshBoard
    ELSE IF View = v THEN board ELSE [FreshBoard EXCEPT !.asked = {"main"}]

\* States of the engine that are done.
Ended == {"done", "failed"}

\* The dashboard and the results page subscribe to the state and are told the
\* last one at once; the results page keeps only the state of a run that ended.
Subscribed(v) ==
    CASE v \in {"simulation", "calculating"} /\ View = v -> live
      [] v = "simulation" /\ View # v -> last'
      [] v = "calculating" /\ View # v /\ last' \in Ended -> last'
      [] OTHER -> "null"

\* Deliberate error: the results page arms no timer for a run that had ended
\* before the page was opened.
Arms_told(v) == FALSE

\* CalculatingResults, as it is mounted, finds a run that ended with a result.
Arms(v) == v = "calculating" /\ View # v /\ last' = "done"

\* Page p takes the place of the one shown (h: under another tab).  The Code
\* Arena subscribes to the status and is told the current one at once;
\* CalculatingResults arms its timer if the last state is a finished run.
\* nav and clc: timers of the Code Arena and the results that fired.
Show(p, h, a, nav, clc) ==
    LET v == Mounted(p, h)
        left == IF View = "arena" /\ v # "arena" THEN arena.timers ELSE 0
        armed == IF Arms(v) THEN 1 ELSE 0
    IN  /\ page' = p /\ hidden' = h /\ auto' = (a /\ p = "leaderboard")
        /\ arena' \in IF v # "arena" THEN {FreshArena}
                      ELSE IF View = "arena" THEN {arena}
                      ELSE {Handled(FreshArena, status', known) : known \in BOOLEAN}
        /\ late' = late + left - nav
        /\ calc' = calc + armed - clc
        /\ board' = Shown(v) /\ live' = Subscribed(v)
        /\ expanded' = (expanded /\ v = "history" /\ View = v)
        /\ dialog' = FALSE
        /\ form' = IF p = "select" /\ page = p THEN form ELSE "student"
        /\ drawer' = IF p \in LayoutPages THEN drawer ELSE "empty"
        /\ isFinalRound' = (isFinalRound /\ v = "simulation" /\ View = v)
        /\ late' + arena'.timers <= MaxTimers /\ calc' <= MaxTimers

\* navigate(target): the tab of Layout stays as long as Layout does.
Moves(target, r, a, nav, clc) ==
    LET p == Route(target, r)
    IN  Show(p, hidden /\ p \in LayoutPages, a, nav, clc)

Arrive(target, r, a) == Moves(target, r, a, 0, 0)

Navigate(target, a) ==
    /\ UNCHANGED <<role, registering, over, engineVars>>
    /\ Arrive(target, role, a)

---------------------------------------------------------------------------
(* Role selector and lobby. *)

\* The mode selector.  A registration that is under way goes on.
SelectMode ==
    /\ page = "select" /\ form' = IF form = "student" THEN "creator" ELSE "student"
    /\ UNCHANGED <<page, hidden, auto, dialog, arena, late, calc, board, live, expanded,
                   drawer, isFinalRound, role, registering, over, engineVars>>

EnterAsStudent ==
    /\ page = "select" /\ form = "student" /\ ~registering
    /\ role' = "student" /\ registering' = TRUE
    /\ UNCHANGED <<pageVars, over, engineVars>>

RegistrationEnds ==
    /\ registering /\ registering' = FALSE
    /\ UNCHANGED <<role, over, engineVars>>
    /\ Arrive("lobby", role, FALSE)

EnterAsCreator ==
    /\ page = "select" /\ form = "creator" /\ role' = "creator"
    /\ UNCHANGED <<registering, over, engineVars>>
    /\ Arrive("creator", role', FALSE)

Exit ==
    /\ page \in {"lobby", "creator"} /\ role' = "none"
    /\ UNCHANGED <<registering, over, engineVars>>
    /\ Arrive("select", role', FALSE)

\* Choosing a contest opens the dialog; CANCEL closes it, confirmJoin goes on.
Choose ==
    /\ page = "lobby" /\ dialog' = ~dialog
    /\ UNCHANGED <<page, hidden, auto, arena, late, calc, board, live, expanded,
                   form, drawer, isFinalRound, role, registering, over, engineVars>>

ConfirmJoin == page = "lobby" /\ dialog /\ Navigate("arena", FALSE)

EnterArena == page = "lobby" /\ ~dialog /\ Navigate("arena", FALSE)

---------------------------------------------------------------------------
(* Layout. *)

\* The links and tabs lie beside the page: the dialog of the Code Arena does
\* not cover them.
FollowLink ==
    /\ page \in LayoutPages
    /\ \E p \in {"arena", "simulation", "wiki", "lobby"} \ {page} : Navigate(p, FALSE)

\* The tabs of Layout: the page is unmounted and mounted again.
SelectTab ==
    /\ page \in LayoutPages
    /\ UNCHANGED <<role, registering, over, engineVars>>
    /\ Show(page, ~hidden, auto, 0, 0)

\* A GET request: rows, or an exception when the answer is an error or none comes.
Get == {"rows", "refused", "unreachable"}

\* The drawer asks for the ranking of the active round as Layout appears and
\* every ten seconds; when that fails it shows what the store knows.
DrawerAnswers ==
    /\ page \in LayoutPages
    /\ \E answer \in Get : drawer' = IF answer = "rows" THEN "server" ELSE "local"
    /\ UNCHANGED <<page, hidden, auto, dialog, arena, late, calc, board, live, expanded,
                   form, isFinalRound, role, registering, over, engineVars>>

\* The clock of the contest; only Layout looks at it.
TimeUp ==
    /\ ~over /\ over' = TRUE
    /\ UNCHANGED <<pageVars, role, registering, engineVars>>

\* Layout's effect, when the time is up: it runs after the page was mounted
\* and its own effects ran, and again whenever the path changes.
Redirect == over /\ page \in TimedPages /\ Navigate("calculating", FALSE)

\* The application is loaded again: engine, timers and requests are gone.
Loads(p, a) ==
    /\ page' = Route(p, role)
    /\ hidden' = FALSE /\ auto' = (a /\ page' = "leaderboard")
    /\ registering' = FALSE /\ dialog' = FALSE
    /\ status' = "idle" /\ last' = "null" /\ begun' = FALSE
    /\ arena' = FreshArena /\ late' = 0 /\ calc' = 0
    /\ board' = IF page' = "leaderboard" THEN [FreshBoard EXCEPT !.asked = {"main"}]
                ELSE FreshBoard
    /\ live' = "null" /\ expanded' = FALSE
    /\ form' = "student" /\ drawer' = "empty" /\ isFinalRound' = FALSE
    /\ detecting' = TRUE
    /\ UNCHANGED <<role, over, runs>>

\* An address is typed in, or the page reloaded, which keeps location.state.
OpenUrl(p) == Loads(p, auto /\ p = page)

\* The dashboard's button, once it shows a finished run, does that, too.
ViewGlobalLeaderboard == View = "simulation" /\ live \in Ended /\ Loads("leaderboard", FALSE)

---------------------------------------------------------------------------
(* The Code Arena. *)

\* Deliberate error: hasShownErrorRef is not reset for a new run.
Rearmed_keepsShown(a) == [a EXCEPT !.nav = FALSE]

\* handleRunLocal and handleRunCloud reset the refs before they start.
Rearmed(a) == [a EXCEPT !.shown = FALSE, !.nav = FALSE]

\* The buttons are disabled while the status says that a run is on, and the
\* dialog covers them.
StartRun ==
    /\ View = "arena" /\ ~arena.modal /\ runs < MaxRuns
    /\ status \notin BusyStatus \cup RunStatus
    /\ runs' = runs + 1 /\ begun' = TRUE /\ status' = "queued" /\ last' = "null"
    /\ arena' = Handled(Rearmed(arena), status', FALSE)
    /\ UNCHANGED <<restVars, late, calc, detecting>>

\* The dialog's buttons: stopSimulation.
Cancel ==
    /\ arena.modal
    /\ status' = "idle"
    /\ arena' = Handled(arena, status', FALSE)
    /\ UNCHANGED <<restVars, last, begun, runs, detecting, late, calc>>

\* The execution log came, or could not be fetched: the alert.
LogFetched ==
    /\ arena.log > 0
    /\ arena' = Closed([arena EXCEPT !.log = @ - 1])
    /\ UNCHANGED <<restVars, engineVars, late, calc>>

\* The timer set when the run started.
TimerFires ==
    /\ arena.timers > 0
    /\ UNCHANGED <<role, registering, over, engineVars>>
    /\ Moves("simulation", role, FALSE, 1, 0)

\* The timer of a Code Arena that was left: from any page to the dashboard.
LateTimerFires ==
    /\ late > 0
    /\ UNCHANGED <<role, registering, over, engineVars>>
    /\ Moves("simulation", role, FALSE, 1, 0)

---------------------------------------------------------------------------
(* What the engine tells the pages. *)

\* The engine's status and last state become s and l: the Code Arena is told
\* the status, and the pages that subscribed to the state are told that one
\* only where the code calls the subscribers (heard).
Tells(s, l, heard) ==
    /\ begun
    /\ status' = s /\ last' = l
    /\ arena' \in (IF View = "arena" THEN {Handled(arena, s, known) : known \in BOOLEAN} ELSE {})
                  \cup (IF View = "arena" /\ s # status THEN {} ELSE {arena})
    /\ live' = IF heard /\ (View = "simulation" \/ (View = "calculating" /\ l \in Ended))
               THEN l ELSE live
    /\ calc' = IF heard /\ View = "calculating" /\ l = "done" THEN calc + 1 ELSE calc
    /\ late + arena'.timers <= MaxTimers /\ calc' <= MaxTimers
    /\ UNCHANGED <<page, hidden, auto, dialog, board, expanded, form, drawer, isFinalRound,
                   role, registering, over, begun, runs, detecting, late>>

\* COMPILE_OK, and SIMULATION_STOPPED of a run that was stopped.
EngineStatus(s) == Tells(s, last, FALSE)

\* Ticks and updates of a run; an update is merged into the state of a run
\* that has ended and leaves it ended.
EngineTicks ==
    \E l \in {"live"} \cup (IF last \in Ended THEN {"done"} ELSE {}) : Tells(status, l, TRUE)

\* A run is complete: nobody tells the subscribers of the state.
EngineCompletes == Tells("done", "done", FALSE)

\* A run fails before it starts (all are told), on the server or by a compile
\* error (nobody is).  The state of a run out of time says "tle", which the
\* results page takes for a result.
EngineFails ==
    \/ \E heard \in BOOLEAN : Tells("error", "failed", heard)
    \/ Tells("error", "done", FALSE)
    \/ Tells("error", IF last = "null" THEN "live" ELSE last, FALSE)

\* The Code Arena, if it shows, is told the current status once more.
Reminded ==
    /\ arena' \in IF View # "arena" THEN {arena}
                  ELSE {Handled(arena, status, known) : known \in BOOLEAN}
    /\ late + arena'.timers <= MaxTimers
    /\ UNCHANGED <<restVars, status, last, begun, runs, late, calc>>

\* _log tells the status subscribers the current status again.
EngineLogs == begun /\ View = "arena" /\ Reminded /\ UNCHANGED detecting

\* So does _detectBackends, which the engine calls as it is made, when both
\* probes have answered or failed.
DetectBackends == detecting /\ detecting' = FALSE /\ Reminded

\* A click on a run of the submissions page.
ToggleRun ==
    /\ View = "history" /\ expanded' = ~expanded
    /\ UNCHANGED <<page, hidden, auto, dialog, arena, late, calc, board, live,
                   form, drawer, isFinalRound, role, registering, over, engineVars>>

\* The environment tabs of the dashboard.
SelectEnvironment ==
    /\ View = "simulation" /\ isFinalRound' = ~isFinalRound
    /\ UNCHANGED <<page, hidden, auto, dialog, arena, late, calc, board, live, expanded,
                   form, drawer, role, registering, over, engineVars>>

\* LOAD IN BACKTEST DASHBOARD of an expanded run.
LoadHistoric ==
    /\ View = "history" /\ expanded
    /\ status' = "done" /\ last' = "done"
    /\ UNCHANGED <<role, registering, over, begun, runs, detecting>>
    /\ Arrive("simulation", role, FALSE)

NewRun == View = "history" /\ Navigate("arena", FALSE)

---------------------------------------------------------------------------
(* Results and leaderboard. *)

CalcTimerFires ==
    /\ calc > 0
    /\ UNCHANGED <<role, registering, over, engineVars>>
    /\ Moves("leaderboard", role, TRUE, 0, 1)

\* The buttons of the results page: on from the result, or back.
LeaveResults ==
    /\ View = "calculating"
    /\ \/ live = "done" /\ Navigate("leaderboard", TRUE)
       \/ live # "done" /\ status = "error" /\ Navigate("arena", FALSE)

AutoReturn == View = "leaderboard" /\ auto /\ Navigate("arena", FALSE)

\* setActiveFilter: the effect asks at once for the new filter; the answers
\* to earlier requests are still taken.
SetFilter(f) ==
    /\ View = "leaderboard" /\ f # board.filter
    /\ board' = [board EXCEPT !.filter = f, !.asked = @ \cup {f}]
    /\ UNCHANGED boardFrame

\* Deliberate error: the interval keeps the filter the page opened with.
PollBoard_staleFilter ==
    /\ View = "leaderboard"
    /\ board' = [board EXCEPT !.asked = @ \cup {"main"}]
    /\ UNCHANGED boardFrame

\* The interval: every ten seconds the current filter is asked for.
PollBoard ==
    /\ View = "leaderboard"
    /\ board' = [board EXCEPT !.asked = @ \cup {board.filter}]
    /\ UNCHANGED boardFrame

\* The answer to a request for f replaces the rows; it may be empty.
BoardAnswered(f) ==
    /\ f \in board.asked
    /\ \E rows \in {f, "none"} : board' = [board EXCEPT !.asked = @ \ {f}, !.rows = rows]
    /\ UNCHANGED boardFrame

\* Neither backend answered, or with null: the rows stay.
BoardFails(f) ==
    /\ f \in board.asked
    /\ board' = [board EXCEPT !.asked = @ \ {f}]
    /\ UNCHANGED boardFrame

\* What the table shows: the server's rows, or those of the store without any.
Entries == IF board.rows = "none" THEN "local" ELSE board.rows

Next ==
    \/ SelectMode \/ EnterAsStudent \/ RegistrationEnds \/ EnterAsCreator \/ Exit
    \/ Choose \/ ConfirmJoin \/ EnterArena
    \/ FollowLink \/ SelectTab \/ DrawerAnswers \/ TimeUp \/ Redirect
    \/ ViewGlobalLeaderboard \/ \E p \in Pages : OpenUrl(p)
    \/ StartRun \/ Cancel \/ LogFetched \/ TimerFires \/ LateTimerFires
    \/ \E s \in {"idle", "running"} : EngineStatus(s)
    \/ EngineTicks \/ EngineCompletes \/ EngineFails
    \/ EngineLogs \/ DetectBackends \/ SelectEnvironment
    \/ ToggleRun \/ LoadHistoric \/ NewRun
    \/ CalcTimerFires \/ LeaveResults \/ AutoReturn
    \/ \E f \in Filters : SetFilter(f) \/ BoardAnswered(f) \/ BoardFails(f)
    \/ PollBoard

\* The interval fires as long as the page shows, and the browser lets every
\* request end, with an answer or without.
Fairness ==
    /\ WF_vars(PollBoard)
    /\ \A f \in Filters : WF_vars(BoardAnswered(f) \/ BoardFails(f))

Spec == Init /\ [][Next]_vars /\ Fairness

---------------------------------------------------------------------------
(* Properties. *)

\* The state of a page exists only while the page shows, apart from what the
\* counters of late timers remember.
TypeOK ==
    /\ page \in Pages /\ role \in {"none", "student", "creator"}
    /\ registering \in BOOLEAN /\ over \in BOOLEAN /\ dialog \in BOOLEAN
    /\ status \in {"idle", "queued", "running", "done", "error"}
    /\ last \in {"null", "live", "done", "failed"} /\ runs \in 0..MaxRuns /\ begun \in BOOLEAN
    /\ arena \in [nav : BOOLEAN, shown : BOOLEAN, modal : BOOLEAN,
                  timers : 0..MaxTimers, log : 0..(MaxRuns + 1)]
    /\ late \in 0..MaxTimers /\ calc \in 0..MaxTimers
    /\ board.filter \in Filters /\ board.rows \in Filters \cup {"none"}
    /\ board.asked \subseteq Filters
    /\ hidden \in BOOLEAN /\ (hidden => page \in LayoutPages)
    /\ auto \in BOOLEAN /\ (auto => page = "leaderboard")
    /\ View # "arena" => arena = FreshArena
    /\ View # "leaderboard" => board = FreshBoard
    /\ live \in {"null", "live", "done", "failed"} /\ (View \notin {"simulation", "calculating"} => live = "null")
    /\ expanded \in BOOLEAN /\ (expanded => View = "history")
    /\ dialog => page = "lobby"
    /\ form \in {"student", "creator"} /\ (form = "creator" => page = "select")
    /\ drawer \in {"empty", "server", "local"} /\ (drawer # "empty" => page \in LayoutPages)
    /\ detecting \in BOOLEAN
    /\ isFinalRound \in BOOLEAN /\ (isFinalRound => View = "simulation")

\* The contestant is never stuck on a result: while the results page shows one
\* (finalState, not an error), a timer that leads on to the leaderboard is
\* pending, although the page neither cancels its timers nor counts them and
\* the run may have ended before the page was opened, while it showed, or
\* while another tab of Layout hid it.
ResultsMoveOn == View = "calculating" /\ live = "done" => calc > 0

\* The validation dialog is never left over: while it covers the Code Arena,
\* a run is in preparation, or the timer or the request that closes it is
\* under way.  (Otherwise the contestant could not start another run.)
ModalIsJustified ==
    arena.modal => status \in BusyStatus \/ arena.timers > 0 \/ arena.log > 0

\* A leaderboard whose filter is left alone comes to show what the server
\* answered for that filter, or the store's rows when that is empty, and
\* nothing else from then on: the answers to requests for an earlier filter
\* are still taken when they come late, but do not last.  This is said of a
\* server that answers some of the requests for f if they never stop.
RowsFollowFilter ==
    \A f \in Filters :
        SF_vars(BoardAnswered(f)) /\ <>[](View = "leaderboard" /\ board.filter = f)
            => <>[](Entries \in {f, "local"})
=============================================================================
