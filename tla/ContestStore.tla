---------------------------- MODULE ContestStore ----------------------------
(***************************************************************************)
(* The page's contest store, vidhi_context/src/store/ContestStore.js: one  *)
(* object in memory, written to localStorage by every operation, with      *)
(* operations that wait for the server (the fetch of the contests when the *)
(* page is loaded, setRole, createContest, publishContest) and meanwhile   *)
(* let every other operation run.                                          *)
(*                                                                         *)
(* JavaScript objects are shared by reference: createContest keeps writing *)
(* to the contest and the rounds it put into the list, also after another  *)
(* operation replaced the list or copied the contest.  The field "by" of a *)
(* contest or a round in memory names the createContest call that still    *)
(* holds a reference to that very object (0: none).                        *)
(*                                                                         *)
(* Names, times and figures are left out.  The actions of the page that    *)
(* edits contests are in ContestCreator.                                   *)
(***************************************************************************)
EXTENDS Integers, Sequences, FiniteSets, SequencesExt

CONSTANTS
    MaxSaves,     \* bound on createContest calls
    MaxRegs,      \* bound on registrations of a student
    MaxClicks,    \* bound on what the user, the sockets and the quota do
    MaxSockets    \* bound on telemetry sockets the page opens

ASSUME StoreAssumption ==
    /\ MaxSaves \in Nat /\ MaxRegs \in Nat /\ MaxClicks \in Nat
    /\ MaxSockets \in Nat

Saves == 1..MaxSaves
Regs == 1..MaxRegs

\* Contest ids: "local" ones contain the time of createContest call n, the
\* "server" chose one for the POST of call n, "extra" ones for the POST of
\* publishContest; the two "demo" contests; the server's "seed" contest.
None == <<"none", 0>>
ContestIds == ({"local", "server"} \X Saves) \cup ({"extra"} \X (1..MaxClicks))
              \cup {<<"demo", 1>>, <<"demo", 2>>, <<"seed", 0>>}

VARIABLES
    mem,      \* this.state
    disk,     \* localStorage['vidhi_contest_store']
    full,     \* setItem throws from now on
    fetching, \* the fetch of the contests is under way
    reg,      \* per setRole call, what it waits for
    call,     \* per createContest call, where it is
    server,   \* the server's contests, newest first
    sockets,  \* telemetry sockets of this page: how many are up, are down
    page,     \* the route: "select", "loading" (there, the student form is
              \* sent), "creator" or "student"; "blank" once a render threw
    clicks    \* how often the user did something

allButClicks == <<mem, disk, full, fetching, reg, call, server, sockets, page>>
storeVars == <<allButClicks, clicks>>

Click == clicks < MaxClicks /\ clicks' = clicks + 1

Round(id, live, by) == [id |-> id, live |-> live, data |-> "none", by |-> by]
Contest(id, status, rounds) ==
    [id |-> id, status |-> status, joined |-> {}, rounds |-> rounds, by |-> 0]

\* DEFAULT_STATE.  sid and key are the numbers of the registration the
\* student's id and API key came from, 0 when empty.
DefaultState ==
    [role |-> "none", sid |-> 0, key |-> 0, active |-> None,
     contests |-> <<>>, telemetry |-> "offline"]

IdleCall == [pc |-> "idle", id |-> None, n |-> 0, i |-> 0, page |-> FALSE]

\* The page was loaded: for the first time, or with the role of an earlier
\* visit.
InitStore ==
    /\ page \in {"select", "creator", "student"}
    /\ mem = CASE page = "select" -> DefaultState
               [] page = "student" -> [DefaultState EXCEPT !.role = "student"]
               [] page = "creator" -> [DefaultState EXCEPT !.role = "creator",
                                                          !.telemetry = "connecting"]
    /\ disk = mem /\ full = FALSE
    /\ fetching = TRUE
    /\ reg = [n \in Regs |-> "idle"]
    /\ call = [o \in Saves |-> IdleCall]
    /\ server = <<>>
    /\ sockets = [up |-> 0, down |-> IF page = "creator" THEN 1 ELSE 0]
    /\ clicks = 0

\* JSON has no references: what is written forgets who holds the objects.
Bare(c) ==
    [c EXCEPT !.by = 0, !.rounds = [i \in DOMAIN @ |-> [@[i] EXCEPT !.by = 0]]]

Written(m) == [m EXCEPT !.contests = [k \in DOMAIN @ |-> Bare(@[k])]]

\* _save: the new state goes to localStorage unless that is full.
Save(m) ==
    /\ mem' = m
    /\ disk' = IF full THEN disk ELSE Written(m)

QuotaExceeded ==
    /\ Click
    /\ ~full /\ full' = TRUE
    /\ UNCHANGED <<mem, disk, fetching, reg, call, server, sockets, page>>

IndexOf(m, id) == SelectInSeq(m.contests, LAMBDA c : c.id = id)
Listed(m, id) == IndexOf(m, id) # 0
ListedIds == {mem.contests[k].id : k \in DOMAIN mem.contests}

---------------------------------------------------------------------------
(* The list of the server. *)

\* The answer to GET /api/contests: the active contests with their rounds,
\* all active; without any, a seed contest that is not in the database.
Active(s) ==
    IF s = <<>> THEN <<Contest(<<"seed", 0>>, "active", <<>>)>>
    ELSE [k \in DOMAIN s |->
            Contest(s[k].id, "active",
                    [i \in DOMAIN s[k].rounds |-> Round(s[k].rounds[i], TRUE, 0)])]

\* fetchContestsFromServer: the answer replaces the list.
FetchContestsFromServer ==
    /\ fetching
    /\ Save([mem EXCEPT !.contests = Active(server)])
    /\ fetching' = FALSE
    /\ UNCHANGED <<full, reg, call, server, sockets, page, clicks>>

\* No backend is configured, it does not answer, or not with a list.
FetchFails ==
    /\ fetching
    /\ fetching' = FALSE
    /\ UNCHANGED <<mem, disk, full, reg, call, server, sockets, page, clicks>>

---------------------------------------------------------------------------
(* Telemetry of the creator's page. *)

\* connectTelemetry, called when the creator's page is shown: another socket
\* unless one is known to be up.
Connected(m) ==
    IF m.telemetry = "online" THEN m ELSE [m EXCEPT !.telemetry = "connecting"]

Dialled(m, s) == IF m.telemetry = "online" THEN s ELSE [s EXCEPT !.down = @ + 1]

SocketOpens ==
    /\ Click
    /\ sockets.down > 0
    /\ sockets' = [up |-> sockets.up + 1, down |-> sockets.down - 1]
    /\ Save([mem EXCEPT !.telemetry = "online"])
    /\ UNCHANGED <<full, fetching, reg, call, server, page>>

SocketCloses ==
    /\ Click
    /\ sockets.up > 0
    /\ sockets' = [up |-> sockets.up - 1, down |-> sockets.down + 1]
    /\ Save([mem EXCEPT !.telemetry = "offline"])
    /\ UNCHANGED <<full, fetching, reg, call, server, page>>

\* The timer of the telemetry buffer: figures are merged and saved.
FlushTelemetry ==
    /\ sockets.up + sockets.down > 0
    /\ Save(mem)
    /\ UNCHANGED <<full, fetching, reg, call, server, sockets, page, clicks>>

---------------------------------------------------------------------------
(* Roles and registration. *)

\* Deliberate error: any role will do.
Guarded_anyRole(m, p) == IF m.role # "none" THEN p ELSE "select"

\* RoleGuard: a page shows only to its role, others are sent to the selector.
Guarded(m, p) == IF m.role = p THEN p ELSE "select"

\* enterAsStudent and setRole up to its first await.
EnterAsStudent(n) ==
    /\ Click
    /\ page = "select"
    /\ reg[n] = "idle" /\ \A k \in 1..(n - 1) : reg[k] # "idle"
    /\ Save([mem EXCEPT !.role = "student"])
    /\ reg' = [reg EXCEPT ![n] = "register"]
    /\ page' = "loading"
    /\ UNCHANGED <<full, fetching, call, server, sockets>>

\* The contestant was registered: the id is set, and not saved yet.
Registered(n) ==
    /\ reg[n] = "register"
    /\ mem' = [mem EXCEPT !.sid = n]
    /\ reg' = [reg EXCEPT ![n] = "key"]
    /\ UNCHANGED <<disk, full, fetching, call, server, sockets, page, clicks>>

\* The creator's page goes: the calls go on, without a form to update.
Orphaned == [o \in Saves |-> [call[o] EXCEPT !.page = FALSE]]

\* setRole returns and enterAsStudent goes to the lobby, from whatever page.
RegistrationEnds(n, m) ==
    /\ reg' = [reg EXCEPT ![n] = "over"]
    /\ page' = IF page = "blank" THEN "blank" ELSE Guarded(m, "student")
    /\ call' = Orphaned
    /\ UNCHANGED <<full, fetching, server, sockets, clicks>>

\* The request for a key ends: with a key, or refused; both are saved.
KeyAnswered(n) ==
    /\ reg[n] = "key"
    /\ \E key \in {n, mem.key} : Save([mem EXCEPT !.key = key])
    /\ RegistrationEnds(n, mem)

\* A refusal of the registration, or an exception at either request.
RegistrationFails(n) ==
    /\ reg[n] \in {"register", "key"}
    /\ UNCHANGED <<mem, disk>>
    /\ RegistrationEnds(n, mem)

\* The creator's tab of the selector stays usable while a student registers.
EnterAsCreator ==
    /\ Click
    /\ page \in {"select", "loading"}
    /\ mem.telemetry = "online" \/ sockets.up + sockets.down < MaxSockets
    /\ Save([Connected(mem) EXCEPT !.role = "creator"])
    /\ sockets' = Dialled(mem, sockets)
    /\ page' = "creator"
    /\ UNCHANGED <<full, fetching, reg, call, server>>

\* The EXIT buttons: setRole(null); ids and selection stay.
Exit ==
    /\ Click
    /\ page \in {"creator", "student"}
    /\ Save([mem EXCEPT !.role = "none"])
    /\ page' = "select"
    /\ call' = Orphaned
    /\ UNCHANGED <<full, fetching, reg, server, sockets>>

---------------------------------------------------------------------------
(* The student. *)

MyId(m) == m.sid   \* studentId, or 'me' (0) before there is one

JoinContest(id) ==
    /\ Click
    /\ page = "student" /\ Listed(mem, id)
    /\ LET k == IndexOf(mem, id) IN
        /\ mem.contests[k].status = "active"
        /\ Save([mem EXCEPT !.contests[k].joined = @ \cup {MyId(mem)},
                            !.active = id])
    /\ UNCHANGED <<full, fetching, reg, call, server, sockets, page>>

\* Deliberate error: the change stays in memory.
LeaveContest_unsaved ==
    /\ Click
    /\ page = "student" /\ mem.active # None
    /\ mem' = [mem EXCEPT !.active = None]
    /\ UNCHANGED <<disk, full, fetching, reg, call, server, sockets, page>>

LeaveContest ==
    /\ Click
    /\ page = "student" /\ mem.active # None
    /\ Save([mem EXCEPT !.active = None])
    /\ UNCHANGED <<full, fetching, reg, call, server, sockets, page>>

Live(c) == c.status = "active" /\ \E i \in DOMAIN c.rounds : c.rounds[i].live

\* getActiveContest selects a contest when the selected one is not listed:
\* the first that runs, or, with nothing selected, the first.
GetActiveContest(m) ==
    LET live == SelectInSeq(m.contests, Live)
    IN  IF Listed(m, m.active) \/ m.contests = <<>> THEN m
        ELSE IF live # 0 THEN [m EXCEPT !.active = m.contests[live].id]
        ELSE IF m.active = None THEN [m EXCEPT !.active = m.contests[1].id]
        ELSE m

\* A page of the student is rendered.
Render ==
    /\ page = "student"
    /\ LET m == GetActiveContest(mem) IN m # mem /\ Save(m)
    /\ UNCHANGED <<full, fetching, reg, call, server, sockets, page, clicks>>

\* The engine stores what a run brought: getActiveRoundId, recordResult or
\* addRunHistory, the last two saving always; figures are left out.  It may
\* come on any page once a student started a run.
RecordResult ==
    /\ \E n \in Regs : reg[n] # "idle"
    /\ Save(GetActiveContest(mem))
    /\ UNCHANGED <<full, fetching, reg, call, server, sockets, page, clicks>>

\* saveLastCode saves when the student joined the selected contest.
SaveLastCode ==
    /\ page = "student" /\ Listed(mem, mem.active)
    /\ MyId(mem) \in mem.contests[IndexOf(mem, mem.active)].joined
    /\ Save(mem)
    /\ UNCHANGED <<full, fetching, reg, call, server, sockets, page, clicks>>

---------------------------------------------------------------------------
(* createContest, after its synchronous part (ContestCreator!SaveContest). *)

\* Deliberate error: a contest that is in the list is added again.
Put_pushes(contests, c) == Append(contests, c)

\* The contest replaces the one with its id, or is added.
Put(contests, c) ==
    LET k == SelectInSeq(contests, LAMBDA d : d.id = c.id)
    IN  IF k = 0 THEN Append(contests, c) ELSE [contests EXCEPT ![k] = c]

Posted(o) ==
    /\ call[o].pc = "post"
    /\ call' = [call EXCEPT ![o].pc = "posted"]
    /\ server' = <<[id |-> <<"server", o>>, rounds |-> <<>>]>> \o server
    /\ UNCHANGED <<mem, disk, full, fetching, reg, sockets, page, clicks>>

\* contest.id = d.id: the contest in the list changes if it is the object.
Renamed(m, o) ==
    [m EXCEPT !.contests =
        [k \in DOMAIN @ |-> IF @[k].by = o THEN [@[k] EXCEPT !.id = <<"server", o>>]
                            ELSE @[k]]]

\* contest.rounds[i].id = rData.round_id, for the round objects still listed.
RoundNamed(m, o, i) ==
    [m EXCEPT !.contests =
        [k \in DOMAIN @ |->
            IF i \in DOMAIN @[k].rounds /\ @[k].rounds[i].by = o
            THEN [@[k] EXCEPT !.rounds[i].id = o] ELSE @[k]]]

\* The call is over and its references with it.
Dropped(c, o) ==
    [c EXCEPT !.by = IF @ = o THEN 0 ELSE @,
              !.rounds = [i \in DOMAIN @ |->
                  IF @[i].by = o THEN [@[i] EXCEPT !.by = 0] ELSE @[i]]]

Released(m, o) == [m EXCEPT !.contests = [k \in DOMAIN @ |-> Dropped(@[k], o)]]

AddRound(o) ==
    [k \in DOMAIN server |->
        IF server[k].id = <<"server", o>>
        THEN [server[k] EXCEPT !.rounds = Append(@, o)] ELSE server[k]]

---------------------------------------------------------------------------
(* The creator's operations on a contest of the list. *)

\* updateContest: a copy with the patch takes the contest's place.
Updated(m, patched) ==
    [m EXCEPT !.contests[IndexOf(m, patched.id)] = [patched EXCEPT !.by = 0]]

Published(c) ==
    [c EXCEPT !.status = "active",
              !.rounds = IF @ = <<>> THEN @ ELSE [@ EXCEPT ![1].live = TRUE]]

Ended(c) == [c EXCEPT !.status = "ended"]

\* The buttons of a contest in the creator's list.
Offered(c) ==
    {"monitor", "delete"}
        \cup (IF c.status = "draft" THEN {"publish"} ELSE {})
        \cup (IF c.status = "active" THEN {"end"} ELSE {})

Clicks(button, id) ==
    /\ page = "creator" /\ Click /\ Listed(mem, id)
    /\ button \in Offered(mem.contests[IndexOf(mem, id)])

EndContest(id) ==
    /\ Clicks("end", id)
    /\ Save(Updated(mem, Ended(mem.contests[IndexOf(mem, id)])))
    /\ UNCHANGED <<full, fetching, reg, call, server, sockets, page>>

\* The filter of deleteContest over the list: what is left of its first k
\* contests, for every k.
Without(contests, id) ==
    LET left[k \in 0..Len(contests)] ==
          IF k = 0 THEN <<>>
          ELSE IF contests[k].id = id THEN left[k - 1]
          ELSE Append(left[k - 1], contests[k])
    IN  left[Len(contests)]

DeleteContest(id) ==
    /\ Clicks("delete", id)
    /\ Save([mem EXCEPT !.contests = Without(@, id)])
    /\ UNCHANGED <<full, fetching, reg, call, server, sockets, page>>

\* resetAndCreateDemoContests: everything is forgotten, the role too.
DemoState ==
    LET First == [Round(0, TRUE, 0) EXCEPT !.data = "done"]
        Other == [Round(0, FALSE, 0) EXCEPT !.data = "done"]
    IN  [DefaultState EXCEPT
        !.contests = <<Contest(<<"demo", 1>>, "active", <<First, Other, Other>>),
                       Contest(<<"demo", 2>>, "active", <<First, Other>>)>>,
        !.active = <<"demo", 1>>]

ResetAndCreateDemoContests ==
    /\ page = "creator" /\ Click
    /\ Save(DemoState)
    /\ page' = "select"
    /\ call' = Orphaned
    /\ UNCHANGED <<full, fetching, reg, server, sockets>>

---------------------------------------------------------------------------
(* A reload of the page. *)

\* Requests, sockets and references are gone, the state is read back and the
\* contests are fetched again.
Reload ==
    /\ Click
    /\ page' = Guarded(disk, IF page = "blank" THEN "creator" ELSE page)
    /\ IF page' = "creator"
       THEN Save(Connected(disk)) /\ sockets' = Dialled(disk, [up |-> 0, down |-> 0])
       ELSE mem' = disk /\ disk' = disk /\ sockets' = [up |-> 0, down |-> 0]
    /\ fetching' = TRUE
    /\ reg' = [n \in Regs |-> IF reg[n] = "idle" THEN "idle" ELSE "over"]
    /\ call' = [o \in Saves |-> IF call[o].pc = "idle" THEN IdleCall
                                ELSE [IdleCall EXCEPT !.pc = "over"]]
    /\ UNCHANGED <<full, server>>
=============================================================================
