----------------------------- MODULE VidhiEngine -----------------------------
(***************************************************************************)
(* The page's simulation engine, vidhi_context/src/engine/VidhiEngine.js,  *)
(* with the parts of api/client.js it uses: local runs in a Web Worker     *)
(* (WorkerProtocol), cloud runs submitted over HTTP, followed over a       *)
(* WebSocket and by polling.                                               *)
(*                                                                         *)
(* The page is single-threaded, so each action is one turn of its event    *)
(* loop: a button, the answer to a request, a message, a timer.  Starts    *)
(* are numbered; the run id of a cloud start n is n, a local run n is      *)
(* stored under the id -n.  Run `Foreign` is another user's: the server    *)
(* broadcasts every run to every client.                                   *)
(***************************************************************************)
EXTENDS Integers, Sequences

CONSTANTS
    MaxStarts,     \* bound on startSimulation calls
    MaxStops,      \* bound on stopSimulation calls
    MaxLoads,      \* bound on loadHistoricState calls
    MaxAnnounced,  \* bound on terminal broadcasts of one run
    MaxTicks,      \* bound on TICK_UPDATEs and on TICK_TELEMETRYs of a run
    StoredKey,     \* key in localStorage at the start: 1, or 0 for none
    Expired,       \* 1 if the server no longer accepts that key
    MaxKeys        \* bound on API keys handed out

ASSUME EngineAssumption ==
    /\ MaxStarts \in Nat /\ MaxStops \in Nat /\ MaxLoads \in Nat
    /\ MaxAnnounced \in Nat /\ MaxTicks \in Nat
    /\ MaxKeys \in Nat \ {0} /\ StoredKey \in {0, 1} /\ Expired \in {0, 1}

Starts == 1..MaxStarts
Foreign == MaxStarts + 1
Runs == Starts \cup {Foreign}
Ids == (-MaxStarts)..Foreign   \* run ids, 0 = null

VARIABLES
    \* the engine
    status, isSimulating, mode, currentRunId, pollStopped,
    lastState,   \* "null", "live" figures of a run, or marked "done"
    buffer,      \* _telemetryBuffer holds a tick and its timer is armed
    handle,      \* start whose socket is _wsHandle, 0 = null
    \* requests in flight
    op,          \* per start, where its submission is
    apiKey,      \* localStorage vidhi_api_key, 0 = none
    sentKey,     \* per start, the key its last submission carried
    refused,     \* per start, the key the server refused
    \* the worker and the sockets
    wRun, wPhase, wIn, wOut, ticks,
    open,        \* sockets that were not closed by the page
    up,          \* those that are connected
    wire,        \* per socket, the messages on their way
    \* the server, and what the store keeps
    server,      \* per run, its status
    announced,   \* per run, how often its terminal status was broadcast
    keys,        \* keys handed out
    history,     \* per id, its entries in ContestStore.state.mySubmissions
    starts, stops, loads

engineVars == <<status, isSimulating, mode, currentRunId,
                pollStopped, lastState, buffer, handle>>
opVars     == <<op, apiKey, sentKey, refused>>
workerVars == <<wRun, wPhase, wIn, wOut, ticks>>
netVars    == <<open, up, wire>>
serverVars == <<server, announced, keys>>
userVars   == <<starts, stops, loads>>
vars == <<engineVars, opVars, workerVars, netVars, serverVars, userVars, history>>

Worker == INSTANCE WorkerProtocol WITH phase <- wPhase, last <- wOut

Terminal == {"complete", "error"}   \* "tle" is handled as "error"

\* {...lastState, figures}: the figures change, the done flag stays.
Extended == IF lastState = "done" THEN "done" ELSE "live"

Init ==
    /\ status = "idle" /\ isSimulating = FALSE /\ mode = "local"
    /\ currentRunId = 0 /\ pollStopped = FALSE
    /\ lastState = "null" /\ buffer = FALSE /\ handle = 0
    /\ op = [n \in Starts |-> "none"]
    /\ apiKey = StoredKey /\ keys = 1
    /\ sentKey = [n \in Starts |-> 0] /\ refused = [n \in Starts |-> 0]
    /\ wRun = 0 /\ wPhase = "none" /\ wIn = 0 /\ wOut = <<>> /\ ticks = 0
    /\ open = {} /\ up = {} /\ wire = [h \in Starts |-> <<>>]
    /\ server = [r \in Runs |-> IF r = Foreign THEN "running" ELSE "none"]
    /\ announced = [r \in Runs |-> 0]
    /\ history = [id \in Ids |-> 0] /\ starts = 0 /\ stops = 0 /\ loads = 0

----------------------------- (* The buttons *) -----------------------------
Busy == {"queued", "running"}   \* the buttons of CodeArena are disabled

\* Deliberate error: the handle is forgotten, its socket stays open.
StillOpen_forgets == open

\* _disconnectWS: the sockets that are left after _wsHandle.close().
StillOpen == open \ {handle}

\* Nothing is delivered over a closed socket and it does not reconnect.
SocketsFollow ==
    /\ up' = up \cap open'
    /\ wire' = [h \in Starts |-> IF h \in open' THEN wire[h] ELSE <<>>]

\* startSimulation up to its first call of a path.
BeginStart(n) ==
    /\ status \notin Busy /\ starts < MaxStarts
    /\ n = starts + 1 /\ starts' = n
    /\ isSimulating' = TRUE
    /\ lastState' = "null"
    /\ pollStopped' = FALSE

DisconnectWS == open' = StillOpen /\ SocketsFollow /\ handle' = 0

\* _connectWS: the socket of start n takes the place of the one held.
ConnectWS(n) == open' = StillOpen \cup {n} /\ SocketsFollow /\ handle' = n

\* _initWorker: a fresh worker replaces the old one and gets
\* START_SIMULATION; terminate() also discards what the old one had posted.
InitWorker(n) ==
    /\ wRun' = n
    /\ wPhase' = "loading" /\ wIn' = 0 /\ wOut' = <<>> /\ ticks' = 0

\* forceLocal.
StartLocal ==
    /\ \E n \in Starts : BeginStart(n) /\ InitWorker(n)
    /\ DisconnectWS
    /\ mode' = "local" /\ status' = "queued"
    /\ UNCHANGED <<currentRunId, buffer, stops, loads, opVars, serverVars, history>>

\* _failBeforeRun
Fail ==
    /\ isSimulating' = FALSE
    /\ status' = "error"
    /\ lastState' = "done"

\* forceCloud with code that _validateBackendPython refuses.
StartCloudInvalid ==
    /\ \E n \in Starts :
        /\ starts < MaxStarts /\ status \notin Busy
        /\ n = starts + 1 /\ starts' = n
    /\ DisconnectWS
    /\ mode' = "cloud" /\ pollStopped' = FALSE
    /\ Fail
    /\ UNCHANGED <<currentRunId, buffer, stops, loads, opVars, workerVars,
                   serverVars, history>>

\* forceCloud: a socket is opened; with an API key the submission goes out at
\* once, without one a key is asked for first.  The worker of an earlier local
\* run is left alone.
StartCloud ==
    /\ \E n \in Starts :
        /\ BeginStart(n) /\ ConnectWS(n)
        /\ op' = [op EXCEPT ![n] = IF apiKey = 0 THEN "provision" ELSE "submit"]
        /\ sentKey' = [sentKey EXCEPT ![n] = apiKey]
    /\ mode' = "cloud" /\ status' = "queued"
    /\ UNCHANGED <<currentRunId, buffer, apiKey, refused, stops, loads,
                   workerVars, serverVars, history>>

\* The dialog of the Code Arena has the buttons that stop a run: it is open
\* while one is on, and after an error until the log of the run is fetched.
MayStop == status \in Busy \/ (status = "error" /\ currentRunId # 0)

\* stopSimulation: STOP to the worker if there is one, the socket is closed;
\* neither a submission in flight nor a polling loop is told.
StopSimulation ==
    /\ MayStop /\ stops < MaxStops /\ stops' = stops + 1
    /\ isSimulating' = FALSE /\ status' = "idle"
    /\ wIn' = IF wRun # 0 THEN wIn + 1 ELSE wIn
    /\ DisconnectWS
    /\ UNCHANGED <<mode, currentRunId, pollStopped, lastState, buffer,
                   wRun, wPhase, wOut, ticks, starts, loads, opVars,
                   serverVars, history>>

\* loadHistoricState, from the list of submissions.
LoadHistoricState ==
    /\ loads < MaxLoads /\ loads' = loads + 1
    /\ \E id \in Ids : history[id] > 0 /\ currentRunId' = id
    /\ lastState' = "done"
    /\ isSimulating' = FALSE /\ status' = "done"
    /\ UNCHANGED <<mode, pollStopped, buffer, handle, starts, stops,
                   opVars, workerVars, netVars, serverVars, history>>

------------------------- (* Submitting to the cloud *) -------------------------
\* autoProvisionApiKey ends: a new key is stored, or the request failed and the
\* key stays what it is by now; then submitCode sends the code.
ProvisionAnswered(n) ==
    /\ op[n] \in {"provision", "reprovision"}
    /\ \/ /\ keys < MaxKeys /\ keys' = keys + 1 /\ apiKey' = keys + 1
       \/ UNCHANGED <<keys, apiKey>>
    /\ op' = [op EXCEPT ![n] = IF @ = "provision" THEN "submit" ELSE "resubmit"]
    /\ sentKey' = [sentKey EXCEPT ![n] = apiKey']
    /\ UNCHANGED <<refused, server, announced, engineVars, workerVars,
                   netVars, userVars, history>>

KeyAccepted(n) == sentKey[n] > Expired

\* The server takes the submission and starts its pipeline (external); the
\* answer is still on its way.
ServerAccepts(n) ==
    /\ op[n] \in {"submit", "resubmit"} /\ server[n] = "none" /\ KeyAccepted(n)
    /\ server' = [server EXCEPT ![n] = "running"]
    /\ UNCHANGED <<announced, keys, engineVars, opVars, workerVars, netVars,
                   userVars, history>>

\* The submission is over; its keys no longer matter.
Forget(n) == sentKey' = [sentKey EXCEPT ![n] = 0] /\ refused' = [refused EXCEPT ![n] = 0]

\* The run id arrives: it becomes the current one, whatever has happened since,
\* and polling begins.
SubmitAccepted(n) ==
    /\ op[n] \in {"submit", "resubmit"} /\ server[n] # "none"
    /\ currentRunId' = n
    /\ op' = [op EXCEPT ![n] = "polling"]
    /\ Forget(n)
    /\ UNCHANGED <<status, isSimulating, mode, pollStopped, lastState,
                   buffer, handle, apiKey, workerVars, netVars,
                   serverVars, userVars, history>>

\* Deliberate error: a refused key is not removed.
KeyAfterRefusal_kept == apiKey

\* submitCode on 401: setApiKey(null).
KeyAfterRefusal == 0

\* 401 on the first attempt: the key is dropped and a new one asked for.  If
\* a key is stored by then (none is, as long as it was dropped) it is reused.
SubmitRefused(n) ==
    /\ op[n] = "submit" /\ server[n] = "none" /\ ~KeyAccepted(n)
    /\ apiKey' = KeyAfterRefusal
    /\ refused' = [refused EXCEPT ![n] = sentKey[n]]
    /\ op' = [op EXCEPT ![n] = IF apiKey' = 0 THEN "reprovision" ELSE "resubmit"]
    /\ sentKey' = [sentKey EXCEPT ![n] = apiKey']
    /\ UNCHANGED <<engineVars, workerVars, netVars, serverVars, userVars, history>>

\* 401 on the retry, an error answer, or a network error, which may also lose
\* the answer to a submission the server has taken: _failBeforeRun.
SubmitFails(n) ==
    /\ op[n] \in {"submit", "resubmit"}
    /\ apiKey' = IF server[n] # "none" \/ KeyAccepted(n) THEN apiKey ELSE KeyAfterRefusal
    /\ op' = [op EXCEPT ![n] = "ended"]
    /\ Forget(n) /\ Fail
    /\ UNCHANGED <<mode, currentRunId, pollStopped, buffer, handle,
                   workerVars, netVars, serverVars, userVars, history>>

\* One round of pollRunUntilDone: the callback acts on an error unless the
\* WebSocket was first (_pollStopped), and not on a completion; a terminal
\* status ends the loop.
Poll(n) ==
    /\ op[n] = "polling"
    /\ IF server[n] = "error" /\ ~pollStopped
       THEN /\ isSimulating' = FALSE /\ pollStopped' = TRUE /\ status' = "error"
            /\ lastState' = "done"
       ELSE /\ lastState' = IF server[n] = "running" /\ ~pollStopped
                            THEN Extended
                            ELSE lastState
            /\ UNCHANGED <<isSimulating, pollStopped, status>>
    /\ op' = [op EXCEPT ![n] = IF server[n] \in Terminal THEN "ended" ELSE @]
    /\ UNCHANGED <<mode, currentRunId, buffer, handle, apiKey, sentKey,
                   refused, workerVars, netVars, serverVars, userVars, history>>

\* Ten minutes have passed; only the log learns of it.
PollTimeout(n) ==
    /\ op[n] = "polling" /\ server[n] = "running"
    /\ op' = [op EXCEPT ![n] = "ended"]
    /\ UNCHANGED <<apiKey, sentKey, refused, engineVars, workerVars, netVars,
                   serverVars, userVars, history>>

---------------------------- (* The WebSocket *) ----------------------------
Message(type, run, st) == [type |-> type, run |-> run, status |-> st]

Broadcast(msg) == wire' = [h \in Starts |-> IF h \in up THEN Append(wire[h], msg) ELSE wire[h]]

Connect(h) ==   \* ws.onopen, first or after a reconnect
    /\ h \in open \ up
    /\ up' = up \cup {h}
    /\ UNCHANGED <<open, wire, engineVars, opVars, workerVars, serverVars,
                   userVars, history>>

Disconnect(h) ==   \* the connection is lost with what it carried; it will retry
    /\ h \in up
    /\ up' = up \ {h}
    /\ wire' = [wire EXCEPT ![h] = <<>>]
    /\ UNCHANGED <<open, engineVars, opVars, workerVars, serverVars, userVars, history>>

\* The run ends (or its end is announced again): cacheRun broadcasts RUN_UPDATE.
ServerAnnounces(r) ==
    /\ announced[r] < (IF r = Foreign THEN 1 ELSE MaxAnnounced)
    /\ server[r] # "none"
    /\ announced' = [announced EXCEPT ![r] = @ + 1]
    /\ server' \in {[server EXCEPT ![r] = st] :
                      st \in IF server[r] = "running" THEN Terminal ELSE {server[r]}}
    /\ Broadcast(Message("RUN_UPDATE", r, server'[r]))
    /\ UNCHANGED <<keys, open, up, engineVars, opVars, workerVars,
                   userVars, history>>

\* A tick or an intermediate status of the run is broadcast.
ServerReports(r) ==
    /\ server[r] = "running" /\ up # {}
    /\ \A h \in up : Len(wire[h]) < MaxTicks
    /\ \E type \in {"TICK_TELEMETRY", "RUN_UPDATE"} : Broadcast(Message(type, r, "running"))
    /\ UNCHANGED <<open, up, engineVars, opVars, workerVars, serverVars,
                   userVars, history>>

\* The current run, or any run while none is current.
ForUs(msg) == currentRunId \in {0, msg.run}

\* Deliberate error: isSimulating is not reset.
RunEnded_keepsSimulating(msg) ==
    /\ isSimulating' = isSimulating /\ pollStopped' = TRUE
    /\ lastState' = "done"
    /\ status' = IF msg.status = "complete" THEN "done" ELSE "error"
    /\ history' = [history EXCEPT ![msg.run] = @ + 1]

\* _handleWSMessage, a terminal RUN_UPDATE for us.
RunEnded(msg) ==
    /\ isSimulating' = FALSE /\ pollStopped' = TRUE
    /\ lastState' = "done"
    /\ status' = IF msg.status = "complete" THEN "done" ELSE "error"
    /\ history' = [history EXCEPT ![msg.run] = @ + 1]

\* The next message of a socket.
Deliver(h) ==
    /\ wire[h] # <<>>
    /\ LET msg == Head(wire[h]) IN
       IF ~ForUs(msg)
       THEN UNCHANGED <<isSimulating, pollStopped, lastState, status, history, buffer>>
       ELSE IF msg.type = "RUN_UPDATE" /\ msg.status \in Terminal
            THEN RunEnded(msg) /\ UNCHANGED buffer
            ELSE /\ lastState' = IF msg.type = "RUN_UPDATE"
                                 THEN Extended ELSE lastState
                 /\ buffer' = (buffer \/ (msg.type = "TICK_TELEMETRY" /\ isSimulating))
                 /\ UNCHANGED <<isSimulating, pollStopped, status, history>>
    /\ wire' = [wire EXCEPT ![h] = Tail(@)]
    /\ UNCHANGED <<mode, currentRunId, handle, open, up, opVars,
                   workerVars, serverVars, userVars>>

\* Deliberate error: the tick replaces lastState instead of extending it.
ProcessTick_replaces == "live"

\* _processTick extends lastState with the tick.
ProcessTick == Extended

FlushTelemetry ==   \* the 33 ms timer; starting and stopping do not cancel it
    /\ buffer
    /\ lastState' = ProcessTick
    /\ buffer' = FALSE
    /\ UNCHANGED <<status, isSimulating, mode, currentRunId, pollStopped,
                   handle, opVars, workerVars, netVars, serverVars, userVars, history>>

------------------------------ (* The worker *) ------------------------------
WorkerMoves(moves) ==
    \E m \in moves :
        /\ wPhase = m.from /\ wPhase' = m.to
        /\ wOut' = Append(wOut, m.msg)
        /\ m.msg = "TICK_UPDATE" => ticks < MaxTicks
        /\ ticks' = IF m.msg = "TICK_UPDATE" THEN ticks + 1 ELSE ticks

WorkerActs ==
    /\ WorkerMoves(Worker!OwnMoves)
    /\ UNCHANGED <<wRun, wIn, engineVars, opVars, netVars, serverVars, userVars, history>>

WorkerGetsStop ==
    /\ wIn > 0 /\ wIn' = wIn - 1
    /\ IF wPhase = "loading" THEN UNCHANGED <<wPhase, wOut, ticks>>
       ELSE WorkerMoves(Worker!StopMoves)
    /\ UNCHANGED <<wRun, engineVars, opVars, netVars, serverVars, userVars, history>>

WorkerCrashes ==   \* worker.onerror: the script failed to load or threw
    /\ wPhase = "loading" /\ wPhase' = "rest"
    /\ Fail
    /\ UNCHANGED <<mode, currentRunId, pollStopped, buffer, handle, wRun,
                   wIn, wOut, ticks, opVars, netVars, serverVars, userVars, history>>

\* Deliberate error: a compile error is only logged.
StatusAfter_onlyLogs(type) ==
    CASE type = "COMPILE_OK" -> "running"
      [] type = "SIMULATION_COMPLETE" -> "done"
      [] type = "SIMULATION_STOPPED" -> "idle"
      [] OTHER -> status

StatusAfter(type) ==
    CASE type = "COMPILE_OK" -> "running"
      [] type = "COMPILE_ERROR" -> "error"
      [] type = "SIMULATION_COMPLETE" -> "done"
      [] type = "SIMULATION_STOPPED" -> "idle"
      [] OTHER -> status

\* _handleLocalMessage.  A message of a worker that was left running is taken
\* for the current run's.
HandleLocalMessage ==
    /\ wOut # <<>> /\ wOut' = Tail(wOut)
    /\ LET type == Head(wOut) IN
       /\ status' = StatusAfter(type)
       /\ isSimulating' = IF type \in {"SIMULATION_COMPLETE", "SIMULATION_STOPPED"}
                          THEN FALSE ELSE isSimulating
       /\ lastState' = CASE type = "TICK_UPDATE" -> "live"
                        [] type = "SIMULATION_COMPLETE" -> "done"
                        [] OTHER -> lastState
       /\ history' = IF type = "SIMULATION_COMPLETE"
                     THEN [history EXCEPT ![-wRun] = @ + 1]
                     ELSE history
    /\ UNCHANGED <<mode, currentRunId, pollStopped, buffer, handle, wRun,
                   wPhase, wIn, ticks, opVars, netVars, serverVars, userVars>>

----------------------------------------------------------------------------
SubmitAnswered(n) == SubmitAccepted(n) \/ SubmitRefused(n) \/ SubmitFails(n)

WorkerNext == WorkerActs \/ WorkerGetsStop

Buttons == StartLocal \/ StartCloud \/ StartCloudInvalid \/ StopSimulation \/ LoadHistoricState

Next ==
    \/ Buttons
    \/ \E n \in Starts : \/ ProvisionAnswered(n) \/ ServerAccepts(n) \/ SubmitAnswered(n)
                        \/ Poll(n) \/ PollTimeout(n)
                        \/ Connect(n) \/ Disconnect(n) \/ Deliver(n)
    \/ \E r \in Runs : ServerAnnounces(r) \/ ServerReports(r)
    \/ FlushTelemetry
    \/ WorkerNext \/ WorkerCrashes \/ HandleLocalMessage

\* The event loop serves every request, message and timer; the user, the server
\* and the network owe nothing.
Fairness ==
    /\ WF_vars(WorkerNext) /\ WF_vars(HandleLocalMessage) /\ WF_vars(FlushTelemetry)
    /\ \A n \in Starts : /\ WF_vars(ProvisionAnswered(n)) /\ WF_vars(SubmitAnswered(n))
                         /\ WF_vars(Poll(n)) /\ WF_vars(Deliver(n))

Spec == Init /\ [][Next]_vars /\ Fairness

------------------------------ (* Properties *) ------------------------------
\* Values of the right kind; the only socket the page has not closed is the one
\* the engine holds.
TypeOK ==
    /\ status \in {"idle", "queued", "running", "error", "done"}
    /\ isSimulating \in BOOLEAN /\ pollStopped \in BOOLEAN
    /\ mode \in {"local", "cloud"}
    /\ currentRunId \in Ids
    /\ lastState \in {"null", "live", "done"}
    /\ buffer \in BOOLEAN /\ handle \in 0..MaxStarts
    /\ up \subseteq open /\ open \subseteq {handle} /\ open \subseteq Starts

\* A page that shows "idle" or "done" is not simulating, whichever of the worker,
\* the socket, a poll, a failed submission or the user ended the run, and
\* although late messages of other runs are handled too.
IdleIsQuiet == status \in {"idle", "done"} => ~isSimulating

\* A result enters the list of submissions at most once for each time the
\* server announces it (a local run: once), through reconnects, restarts and
\* polling in parallel to the WebSocket.
RecordedPerAnnouncement ==
    /\ \A r \in Runs : history[r] <= announced[r]
    /\ \A n \in Starts : history[-n] <= 1

\* "API key provisioning new one": a submission is never repeated with
\* the key that was refused, also when two submissions share the stored key.
NoStaleRetry ==
    \A n \in Starts : op[n] = "resubmit" /\ sentKey[n] # 0 => sentKey[n] # refused[n]

\* While no worker is at work, "done" goes with a state that is marked done: a
\* tick or status that arrives after the end does not turn it into a live view.
DoneIsShown ==
    (status = "done" /\ wPhase \in {"none", "rest"} /\ wOut = <<>>) => lastState = "done"

\* A local run does not hang in the queue: it starts, fails or is stopped.
LocalLeavesQueue == (status = "queued" /\ mode = "local") ~> (status # "queued")

\* "Kick off polling as fallback for WS": a cloud run that has completed and is
\* polled ends in the page even if the WebSocket misses the announcement.
PollIsFallback ==
    \A n \in Starts :
        (op[n] = "polling" /\ server[n] = "complete" /\ currentRunId = n /\ status = "queued")
            ~> (status # "queued")
=============================================================================
