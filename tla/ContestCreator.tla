--------------------------- MODULE ContestCreator ---------------------------
(***************************************************************************)
(* The creator's page, vidhi_context/src/pages/ContestCreator.jsx, on top  *)
(* of the contest store: the form with the contest being edited, its       *)
(* rounds, the uploads of datasets and the saves, all of which go on while *)
(* the form is edited.                                                     *)
(*                                                                         *)
(* An update of a round is made from the rounds the handler was created    *)
(* with: an upload that ends writes back the rounds of the form as they    *)
(* were when it began.  After a save the form's rounds are the very        *)
(* objects of the store's contest; "src" is the index there of the object  *)
(* (0: the form's own copy).                                               *)
(***************************************************************************)
EXTENDS ContestStore

CONSTANTS
    MaxRounds,    \* bound on the rounds of the form
    MaxUploads    \* bound on uploads under way

ASSUME CreatorAssumption == MaxRounds \in Nat \ {0} /\ MaxUploads \in Nat

VARIABLES
    form,
    uploads,
    monitor     \* the monitor tab: its monitorTarget, its panel's evaluating

vars == <<storeVars, form, uploads, monitor>>
formVars == <<form, uploads>>

\* BLANK_ROUND: no id yet (0), no dataset.
BlankRound == [id |-> 0, live |-> FALSE, data |-> "none", src |-> 0]

BlankForm == [id |-> None, named |-> FALSE, rounds |-> <<BlankRound>>]

NoMonitor == [target |-> None, evaluating |-> FALSE]

Init == InitStore /\ form = BlankForm /\ uploads = {} /\ monitor = NoMonitor

---------------------------------------------------------------------------
(* Editing the form. *)

\* updateRound of the render that showed `rounds`: one round is replaced.
UpdateRound(rounds, i, round) == [rounds EXCEPT ![i] = [round EXCEPT !.src = 0]]

\* toggleBot and the inputs of RoundBuilder.
EditRound(i) ==
    /\ Click
    /\ page = "creator" /\ i \in DOMAIN form.rounds
    /\ form' = [form EXCEPT !.rounds = UpdateRound(@, i, @[i])]
    /\ UNCHANGED <<allButClicks, uploads>>

\* The inputs of the contest itself; only whether it has a name matters (one
\* that is cleared again just disables saving, as before it was typed).
EditForm ==
    /\ page = "creator" /\ ~form.named
    /\ form' = [form EXCEPT !.named = TRUE]
    /\ UNCHANGED <<storeVars, uploads>>

DeleteRound(i) ==
    /\ Click
    /\ page = "creator" /\ i \in DOMAIN form.rounds
    /\ form' = [form EXCEPT !.rounds = RemoveAt(@, i)]
    /\ UNCHANGED <<allButClicks, uploads>>

AddBlankRound ==
    /\ Click
    /\ page = "creator" /\ Len(form.rounds) < MaxRounds
    /\ form' = [form EXCEPT !.rounds = Append(@, BlankRound)]
    /\ UNCHANGED <<allButClicks, uploads>>

---------------------------------------------------------------------------
(* Uploads. *)

\* Deliberate error: any round may be uploaded to.
MayUpload_any(round) == TRUE

\* The round must have an id of the server.
MayUpload(round) == round.id # 0

Marked(rounds, i, mark) == UpdateRound(rounds, i, [rounds[i] EXCEPT !.data = mark])

BeginUpload(i) ==
    /\ Click
    /\ page = "creator" /\ i \in DOMAIN form.rounds
    /\ Cardinality(uploads) < MaxUploads
    /\ MayUpload(form.rounds[i])
    /\ uploads' = uploads \cup {[i |-> i, rounds |-> form.rounds]}
    /\ form' = [form EXCEPT !.rounds = Marked(@, i, "uploading")]
    /\ UNCHANGED allButClicks

\* uploadRoundDataset: the server took the file, or the request threw.
UploadRoundDataset == {"done", "failed"}

EndUpload(u) ==
    /\ uploads' = uploads \ {u}
    /\ \E mark \in UploadRoundDataset :
        form' = [form EXCEPT !.rounds = Marked(u.rounds, u.i, mark)]
    /\ UNCHANGED storeVars

---------------------------------------------------------------------------
(* Saves. *)

\* The form's rounds are no longer the objects of the list.
Unshared(rounds) == [i \in DOMAIN rounds |-> [rounds[i] EXCEPT !.src = 0]]

Detached(f) == [f EXCEPT !.rounds = Unshared(@)]
DetachedUploads == {[u EXCEPT !.rounds = Unshared(@)] : u \in uploads}

\* saveContest and createContest up to the await: a copy of the form.
SaveContest(o) ==
    /\ Click
    /\ page = "creator" /\ form.named
    /\ call[o].pc = "idle" /\ \A k \in 1..(o - 1) : call[k].pc # "idle"
    /\ \E status \in {"draft", "active"} :
        LET id == IF form.id = None THEN <<"local", o>> ELSE form.id
            rounds == [i \in DOMAIN form.rounds |->
                         [id |-> form.rounds[i].id, live |-> form.rounds[i].live,
                          data |-> form.rounds[i].data, by |-> o]]
            contest == [Contest(id, status, rounds) EXCEPT !.by = o]
        IN  /\ Save([mem EXCEPT !.contests = Put(@, contest)])
            /\ call' = [call EXCEPT ![o] = [pc |-> "post", id |-> id, i |-> 1,
                                            n |-> Len(form.rounds), page |-> TRUE]]
    /\ form' = Detached(form) /\ uploads' = DetachedUploads
    /\ UNCHANGED <<full, fetching, reg, server, sockets, page>>

\* createContest returns `id` with the store in state m, and saveContest
\* takes the stored contest over into the form, if its page is still shown.
Returns(o, id, m) ==
    /\ call' = [call EXCEPT ![o] = [IdleCall EXCEPT !.pc = "over"]]
    /\ IF call[o].page /\ Listed(m, id)
       THEN LET rounds == m.contests[IndexOf(m, id)].rounds
            IN  form' = [id |-> id, named |-> TRUE,
                         rounds |-> [i \in DOMAIN rounds |->
                             [id |-> rounds[i].id, live |-> rounds[i].live,
                              data |-> rounds[i].data, src |-> i]]]
       ELSE form' = form
    /\ UNCHANGED <<uploads, full, fetching, reg, sockets, page, clicks>>

\* POST /api/contests fails: refused, or without an answer.
CreateFails(o) ==
    /\ call[o].pc \in {"post", "posted"}
    /\ mem' = Released(mem, o) /\ disk' = disk
    /\ Returns(o, call[o].id, Released(mem, o))
    /\ UNCHANGED server

CreateAnswered(o) ==
    /\ call[o].pc = "posted"
    /\ LET id == <<"server", o>> IN
        IF call[o].n = 0
        THEN LET m == Released(Renamed(mem, o), o)
             IN  Save(m) /\ Returns(o, id, m)
        ELSE /\ Save(Renamed(mem, o))
             /\ call' = [call EXCEPT ![o].pc = "rounds", ![o].id = id]
             /\ UNCHANGED <<formVars, full, fetching, reg, sockets, page, clicks>>
    /\ UNCHANGED server

\* POST /api/rounds for round i: answered, or refused.  After the last round
\* the store is saved.
RoundAnswered(o) ==
    /\ call[o].pc = "rounds"
    /\ \E ok \in BOOLEAN :
        LET named == IF ok THEN RoundNamed(mem, o, call[o].i) ELSE mem
            last == call[o].i = call[o].n
            m == IF last THEN Released(named, o) ELSE named
        IN  /\ server' = IF ok THEN AddRound(o) ELSE server
            /\ IF last
               THEN Save(m) /\ Returns(o, call[o].id, m)
               ELSE /\ mem' = m /\ disk' = disk
                    /\ call' = [call EXCEPT ![o].i = @ + 1]
                    /\ UNCHANGED <<formVars, full, fetching, reg, sockets, page, clicks>>

\* No answer for a round, whether or not the server added it: nothing is saved.
RoundFails(o) ==
    /\ call[o].pc = "rounds"
    /\ server' \in {server, AddRound(o)}
    /\ mem' = Released(mem, o) /\ disk' = disk
    /\ Returns(o, call[o].id, Released(mem, o))

---------------------------------------------------------------------------
(* Operations of the store that reach the objects of the form. *)

\* rounds[0].status = 'active' is seen wherever that object is held.
LiveShared(rounds) ==
    [i \in DOMAIN rounds |->
        IF rounds[i].src = 1 THEN [rounds[i] EXCEPT !.live = TRUE] ELSE rounds[i]]

\* publishContest: activate, then POST a contest again, whatever it answers.
PublishContest(id) ==
    /\ Clicks("publish", id)
    /\ Save(Updated(mem, Published(mem.contests[IndexOf(mem, id)])))
    /\ server' \in {server, <<[id |-> <<"extra", clicks'>>, rounds |-> <<>>]>> \o server}
    /\ IF form.id = id
       THEN /\ form' = [form EXCEPT !.rounds = LiveShared(@)]
            /\ uploads' = {[u EXCEPT !.rounds = LiveShared(@)] : u \in uploads}
       ELSE UNCHANGED formVars
    /\ UNCHANGED <<full, fetching, reg, call, sockets, page>>

\* The fetched list has objects of its own.
FetchReplacesList ==
    /\ FetchContestsFromServer
    /\ form' = Detached(form) /\ uploads' = DetachedUploads

---------------------------------------------------------------------------
(* The monitor tab. *)

\* MONITOR of the list, or a contest of the tab's own selector.
Watch(id) ==
    /\ Clicks("monitor", id)
    /\ monitor' = [monitor EXCEPT !.target = id]
    /\ UNCHANGED <<allButClicks, formVars>>

\* The tab asks the store for a contest that is no longer listed (deleted,
\* fetched anew, or renamed by the server) and hands undefined to its panel,
\* which throws: React takes the whole application down.
PanelThrows ==
    /\ page = "creator" /\ monitor.target # None /\ ~Listed(mem, monitor.target)
    /\ page' = "blank" /\ call' = Orphaned
    /\ UNCHANGED <<mem, disk, full, fetching, reg, server, sockets, clicks>>

\* The round TRIGGER FINAL EVALUATION is for: the first that is or was live.
Evaluated(c) == SelectInSeq(c.rounds, LAMBDA r : r.live)

HandleFinalEvaluation ==
    /\ page = "creator" /\ ~monitor.evaluating /\ Listed(mem, monitor.target)
    /\ LET c == mem.contests[IndexOf(mem, monitor.target)] IN
        c.status = "ended" /\ Evaluated(c) # 0
    /\ monitor' = [monitor EXCEPT !.evaluating = TRUE]
    /\ UNCHANGED <<storeVars, formVars>>

\* The server answered, or the tab was left and shown again.
EvaluationEnds ==
    /\ monitor.evaluating
    /\ monitor' = [monitor EXCEPT !.evaluating = FALSE]
    /\ UNCHANGED <<storeVars, formVars>>

---------------------------------------------------------------------------
(* The page as a whole. *)

StudentNext ==
    \/ \E n \in Regs : EnterAsStudent(n) \/ Registered(n)
    \/ \E id \in ListedIds : JoinContest(id)
    \/ LeaveContest \/ Render \/ RecordResult \/ SaveLastCode

ListNext ==
    \/ QuotaExceeded \/ FetchFails
    \/ SocketOpens \/ SocketCloses \/ FlushTelemetry
    \/ \E id \in ListedIds : EndContest(id) \/ DeleteContest(id)
    \/ \E o \in Saves : Posted(o)

\* The form is the state of the creator's page and goes with it; an EnterAs-
\* Creator or a reload shows a new one.
PageNext ==
    \/ EnterAsCreator \/ Exit \/ ResetAndCreateDemoContests \/ Reload \/ PanelThrows
    \/ \E n \in Regs : KeyAnswered(n) \/ RegistrationFails(n)

FormNext ==
    \/ \E i \in 1..MaxRounds : EditRound(i) \/ DeleteRound(i) \/ BeginUpload(i)
    \/ EditForm \/ AddBlankRound
    \/ \E u \in uploads : EndUpload(u)
    \/ \E id \in ListedIds : PublishContest(id)
    \/ \E o \in Saves :
        \/ SaveContest(o)
        \/ CreateAnswered(o) \/ CreateFails(o)
        \/ RoundAnswered(o) \/ RoundFails(o)
    \/ FetchReplacesList

MonitorNext ==
    \/ \E id \in ListedIds : Watch(id)
    \/ HandleFinalEvaluation \/ EvaluationEnds

Next ==
    \/ (StudentNext \/ ListNext) /\ UNCHANGED <<formVars, monitor>>
    \/ PageNext /\ form' = BlankForm /\ uploads' = {} /\ monitor' = NoMonitor
    \/ FormNext /\ UNCHANGED monitor
    \/ MonitorNext

Spec == Init /\ [][Next]_vars

---------------------------------------------------------------------------
(* Properties. *)

Marks == {"none", "uploading", "done", "failed"}

StateOK(m) ==
    /\ m.role \in {"none", "student", "creator"}
    /\ m.sid \in 0..MaxRegs /\ m.key \in 0..MaxRegs
    /\ m.active \in ContestIds \cup {None}
    /\ m.telemetry \in {"offline", "connecting", "online"}
    /\ \A k \in DOMAIN m.contests :
        LET c == m.contests[k] IN
        /\ c.id \in ContestIds /\ c.status \in {"draft", "active", "ended"}
        /\ c.joined \subseteq 0..MaxRegs /\ c.by \in 0..MaxSaves
        /\ \A i \in DOMAIN c.rounds :
            c.rounds[i] \in [id : 0..MaxSaves, live : BOOLEAN, data : Marks,
                             by : 0..MaxSaves]

\* The shape of the store and of the form.  A page is only shown to the role
\* it is for, and a call that holds objects of the list is under way.
TypeOK ==
    /\ StateOK(mem) /\ StateOK(disk)
    /\ page \in {"creator", "student"} => mem.role = page
    /\ \A k \in DOMAIN mem.contests :
        mem.contests[k].by # 0 => call[mem.contests[k].by].pc \in {"post", "posted", "rounds"}
    /\ form.id \in ContestIds \cup {None} /\ form.named \in BOOLEAN
    /\ \A i \in DOMAIN form.rounds :
        form.rounds[i] \in [id : 0..MaxSaves, live : BOOLEAN, data : Marks, src : 0..MaxRounds]
    /\ monitor \in [target : ContestIds \cup {None}, evaluating : BOOLEAN]
    /\ page # "creator" => form = BlankForm /\ uploads = {} /\ monitor = NoMonitor

\* No contest is twice in the list, in memory or in localStorage, whatever
\* saves, answers, fetches and reloads cross: every lookup of the store
\* (find, findIndex) takes the first match and would miss the other.
UniqueIds ==
    \A m \in {mem, disk} :
        \A j, k \in DOMAIN m.contests :
            m.contests[j].id = m.contests[k].id => j = k

\* What a reload forgets: as long as localStorage accepts writes, it holds the
\* state in memory except the ids that calls under way or broken off have
\* received (studentId; the rounds' ids).
DiskFollows ==
    LET Anonymous(c) == [c EXCEPT !.rounds = [i \in DOMAIN @ |-> [@[i] EXCEPT !.id = 0]]]
        NoIds(m) == [Written(m) EXCEPT !.sid = 0,
                                       !.contests = [k \in DOMAIN @ |-> Anonymous(@[k])]]
    IN  ~full => NoIds(mem) = NoIds(disk)

\* A dataset is shown as uploaded, in the form or in a stored contest that is
\* not a demo, only for a round the server knows, although uploads and saves write
\* back rounds as they were when they began.
UploadedIsKnown ==
    /\ \A i \in DOMAIN form.rounds :
        form.rounds[i].data # "none" => form.rounds[i].id # 0
    /\ \A k \in DOMAIN mem.contests :
        mem.contests[k].id \notin {<<"demo", 1>>, <<"demo", 2>>} =>
            \A i \in DOMAIN mem.contests[k].rounds :
                mem.contests[k].rounds[i].data # "none" => mem.contests[k].rounds[i].id # 0
=============================================================================
