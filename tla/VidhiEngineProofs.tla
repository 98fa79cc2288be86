-------------------------- MODULE VidhiEngineProofs --------------------------
(***************************************************************************)
(* Proofs about the page's engine, for any number of starts, stops, keys,  *)
(* ticks and announcements.                                                *)
(***************************************************************************)
EXTENDS VidhiEngine, FiniteSetTheorems, TLAPS

(***************************************************************************)
(* What the page shows.                                                    *)
(***************************************************************************)

\* The actions of the engine's surroundings, and those of the page that leave
\* its status alone.
LEMMA StatusFrame ==
    ASSUME NEW n,
           \/ ProvisionAnswered(n) \/ ServerAccepts(n) \/ SubmitAccepted(n)
           \/ SubmitRefused(n) \/ PollTimeout(n) \/ Connect(n) \/ Disconnect(n)
           \/ ServerAnnounces(n) \/ ServerReports(n)
           \/ FlushTelemetry \/ WorkerNext
    PROVE  UNCHANGED <<status, isSimulating>>
BY DEF ProvisionAnswered, ServerAccepts, SubmitAccepted, SubmitRefused, PollTimeout,
       Connect, Disconnect, ServerAnnounces, ServerReports, FlushTelemetry, WorkerNext,
       WorkerActs, WorkerGetsStop, engineVars

LEMMA IdleStep == IdleIsQuiet /\ [Next]_vars => IdleIsQuiet'
<1> SUFFICES ASSUME IdleIsQuiet, [Next]_vars PROVE IdleIsQuiet'
  OBVIOUS
<1> USE DEF IdleIsQuiet
<1>1. CASE UNCHANGED <<status, isSimulating>>
  BY <1>1
<1>2. CASE Buttons
  BY <1>2 DEF Buttons, StartLocal, StartCloud, StartCloudInvalid, StopSimulation,
              LoadHistoricState, BeginStart, Fail
<1>3. CASE \E n \in Starts : ProvisionAnswered(n) \/ ServerAccepts(n) \/ PollTimeout(n)
                             \/ Connect(n) \/ Disconnect(n)
  BY <1>1, <1>3, StatusFrame
<1>4. CASE \E n \in Starts : SubmitAnswered(n)
  BY <1>1, <1>4, StatusFrame DEF SubmitAnswered, SubmitFails, Fail
<1>5. CASE \E n \in Starts : Poll(n)
  BY <1>5 DEF Poll
<1>6. CASE \E n \in Starts : Deliver(n)
  BY <1>6 DEF Deliver, RunEnded
<1>7. CASE (\E r \in Runs : ServerAnnounces(r)) \/ (\E r \in Runs : ServerReports(r))
  BY <1>1, <1>7, StatusFrame
<1>8. CASE FlushTelemetry \/ WorkerNext
  BY <1>1, <1>8, StatusFrame
<1>9. CASE WorkerCrashes
  BY <1>9 DEF WorkerCrashes, Fail
<1>10. CASE HandleLocalMessage
  BY <1>10 DEF HandleLocalMessage, StatusAfter
<1>11. CASE UNCHANGED vars
  BY <1>1, <1>11 DEF vars, engineVars
<1> QED
  BY <1>2, <1>3, <1>4, <1>5, <1>6, <1>7, <1>8, <1>9, <1>10, <1>11 DEF Next

\* A page that shows "idle" or "done" is not simulating, whichever of the
\* worker, the socket, a poll, a failed submission or the user ended the run.
THEOREM QuietWhenIdle == Spec => []IdleIsQuiet
<1>1. Init => IdleIsQuiet
  BY DEF Init, IdleIsQuiet
<1> QED BY <1>1, IdleStep, PTL DEF Spec

(***************************************************************************)
(* API keys.                                                               *)
(*                                                                         *)
(* A key that was refused never comes back: the stored key is dropped, and *)
(* keys that are handed out later are new.  So a submission that waits for *)
(* a new key, or was sent again with it, remembers a refused key that is   *)
(* not the stored one, whatever other submissions do to the latter.        *)
(***************************************************************************)
KeyTypes ==
    /\ keys \in Nat \ {0} /\ apiKey \in 0..keys
    /\ op \in [Starts -> {"none", "provision", "submit", "reprovision", "resubmit",
                          "polling", "ended"}]
    /\ sentKey \in [Starts -> 0..keys] /\ refused \in [Starts -> 0..keys]

KeyInv ==
    /\ KeyTypes
    /\ \A n \in Starts : op[n] = "reprovision" => apiKey = 0 \/ apiKey # refused[n]
    /\ NoStaleRetry

\* A step that leaves the requests alone.
LEMMA KeyFrame == ASSUME KeyInv, UNCHANGED <<opVars, keys>> PROVE KeyInv'
BY DEF KeyInv, KeyTypes, NoStaleRetry, opVars

LEMMA KeyStep == KeyInv /\ [Next]_vars => KeyInv'
<1> SUFFICES ASSUME KeyInv, [Next]_vars PROVE KeyInv'
  OBVIOUS
<1>0. /\ keys \in Nat /\ keys > 0 /\ apiKey \in Nat /\ apiKey <= keys
      /\ 0 \in 0..keys
  BY DEF KeyInv, KeyTypes
<1>1. CASE UNCHANGED <<opVars, keys>>
  BY <1>1, KeyFrame
<1>2. CASE StartLocal \/ StartCloudInvalid \/ StopSimulation \/ LoadHistoricState
  BY <1>1, <1>2 DEF StartLocal, StartCloudInvalid, StopSimulation, LoadHistoricState,
                    serverVars
<1>3. CASE StartCloud
  <2>1. PICK n \in Starts :
            /\ op' = [op EXCEPT ![n] = IF apiKey = 0 THEN "provision" ELSE "submit"]
            /\ sentKey' = [sentKey EXCEPT ![n] = apiKey]
    BY <1>3 DEF StartCloud
  <2>2. UNCHANGED <<apiKey, refused, keys>>
    BY <1>3 DEF StartCloud, serverVars
  <2>3. KeyTypes'
    BY <2>1, <2>2 DEF KeyInv, KeyTypes
  <2>4. ASSUME NEW m \in Starts, op'[m] \in {"reprovision", "resubmit"}
        PROVE  m # n /\ op'[m] = op[m] /\ sentKey'[m] = sentKey[m]
    BY <2>1, <2>4 DEF KeyInv, KeyTypes
  <2> QED BY <2>2, <2>3, <2>4 DEF KeyInv, NoStaleRetry
<1>4. ASSUME NEW n \in Starts, ProvisionAnswered(n) PROVE KeyInv'
  <2>1. /\ op[n] \in {"provision", "reprovision"}
        /\ op' = [op EXCEPT ![n] = IF op[n] = "provision" THEN "submit" ELSE "resubmit"]
        /\ sentKey' = [sentKey EXCEPT ![n] = apiKey'] /\ refused' = refused
        /\ \/ keys' = keys + 1 /\ apiKey' = keys + 1
           \/ keys' = keys /\ apiKey' = apiKey
    BY <1>4 DEF ProvisionAnswered
  <2>2. keys' \in Nat \ {0} /\ keys <= keys' /\ apiKey' \in 0..keys' /\ 0..keys \subseteq 0..keys'
    BY <1>0, <2>1
  <2>3. KeyTypes'
    BY <2>1, <2>2 DEF KeyInv, KeyTypes
  <2>4. \A m \in Starts : refused[m] \in Nat /\ refused[m] <= keys
    BY <1>0 DEF KeyInv, KeyTypes
  <2>5. ASSUME NEW m \in Starts, op[m] = "reprovision"
        PROVE  apiKey' = 0 \/ apiKey' # refused[m]
    BY <1>0, <2>1, <2>4, <2>5 DEF KeyInv
  <2>6. ASSUME NEW m \in Starts, op'[m] = "reprovision"
        PROVE  apiKey' = 0 \/ apiKey' # refused'[m]
    <3>1. m # n /\ op[m] = "reprovision"
      BY <2>1, <2>6 DEF KeyInv, KeyTypes
    <3> QED BY <2>1, <2>5, <3>1
  <2>7. ASSUME NEW m \in Starts, op'[m] = "resubmit", sentKey'[m] # 0
        PROVE  sentKey'[m] # refused'[m]
    <3>1. CASE m = n
      <4>1. op[n] = "reprovision" /\ sentKey'[n] = apiKey'
        BY <2>1, <2>7, <3>1 DEF KeyInv, KeyTypes
      <4> QED BY <2>1, <2>5, <2>7, <3>1, <4>1
    <3>2. CASE m # n
      BY <2>1, <2>7, <3>2 DEF KeyInv, KeyTypes, NoStaleRetry
    <3> QED BY <3>1, <3>2
  <2> QED BY <2>3, <2>6, <2>7 DEF KeyInv, NoStaleRetry
<1>5. ASSUME NEW n \in Starts, SubmitAccepted(n) PROVE KeyInv'
  <2>1. /\ op' = [op EXCEPT ![n] = "polling"]
        /\ sentKey' = [sentKey EXCEPT ![n] = 0] /\ refused' = [refused EXCEPT ![n] = 0]
        /\ apiKey' = apiKey /\ keys' = keys
    BY <1>5 DEF SubmitAccepted, Forget, serverVars
  <2>2. KeyTypes'
    BY <1>0, <2>1 DEF KeyInv, KeyTypes
  <2>3. ASSUME NEW m \in Starts, op'[m] \in {"reprovision", "resubmit"}
        PROVE  /\ op'[m] = op[m] /\ sentKey'[m] = sentKey[m]
               /\ refused'[m] = refused[m]
    BY <2>1, <2>3 DEF KeyInv, KeyTypes
  <2> QED BY <2>1, <2>2, <2>3 DEF KeyInv, NoStaleRetry
<1>6. ASSUME NEW n \in Starts, SubmitRefused(n) PROVE KeyInv'
  <2>1. /\ op' = [op EXCEPT ![n] = "reprovision"]
        /\ sentKey' = [sentKey EXCEPT ![n] = 0]
        /\ refused' = [refused EXCEPT ![n] = sentKey[n]]
        /\ apiKey' = 0 /\ keys' = keys
    BY <1>6 DEF SubmitRefused, KeyAfterRefusal, serverVars
  <2>2. KeyTypes'
    BY <1>0, <2>1 DEF KeyInv, KeyTypes
  <2>3. ASSUME NEW m \in Starts, op'[m] = "resubmit"
        PROVE  op[m] = "resubmit" /\ sentKey'[m] = sentKey[m] /\ refused'[m] = refused[m]
    BY <2>1, <2>3 DEF KeyInv, KeyTypes
  <2> QED BY <2>1, <2>2, <2>3 DEF KeyInv, NoStaleRetry
<1>7. ASSUME NEW n \in Starts, SubmitFails(n) PROVE KeyInv'
  <2>1. /\ op' = [op EXCEPT ![n] = "ended"]
        /\ sentKey' = [sentKey EXCEPT ![n] = 0] /\ refused' = [refused EXCEPT ![n] = 0]
        /\ apiKey' \in {apiKey, 0} /\ keys' = keys
    BY <1>7 DEF SubmitFails, Forget, KeyAfterRefusal, serverVars
  <2>2. KeyTypes'
    BY <1>0, <2>1 DEF KeyInv, KeyTypes
  <2>3. ASSUME NEW m \in Starts, op'[m] \in {"reprovision", "resubmit"}
        PROVE  /\ op'[m] = op[m] /\ sentKey'[m] = sentKey[m]
               /\ refused'[m] = refused[m]
    BY <2>1, <2>3 DEF KeyInv, KeyTypes
  <2> QED BY <2>1, <2>2, <2>3 DEF KeyInv, NoStaleRetry
<1>8. ASSUME NEW n \in Starts, Poll(n) \/ PollTimeout(n) PROVE KeyInv'
  <2>1. /\ op' \in {op, [op EXCEPT ![n] = "ended"]}
        /\ UNCHANGED <<apiKey, sentKey, refused, keys>>
    BY <1>8 DEF Poll, PollTimeout, serverVars, KeyInv, KeyTypes
  <2>2. KeyTypes'
    BY <2>1 DEF KeyInv, KeyTypes
  <2>3. ASSUME NEW m \in Starts, op'[m] \in {"reprovision", "resubmit"}
        PROVE  op'[m] = op[m]
    BY <2>1, <2>3 DEF KeyInv, KeyTypes
  <2> QED BY <2>1, <2>2, <2>3 DEF KeyInv, NoStaleRetry
<1>9. CASE \E n \in Starts : ServerAccepts(n) \/ Connect(n) \/ Disconnect(n) \/ Deliver(n)
  BY <1>1, <1>9 DEF ServerAccepts, Connect, Disconnect, Deliver, serverVars
<1>10. CASE (\E r \in Runs : ServerAnnounces(r)) \/ (\E r \in Runs : ServerReports(r))
  BY <1>1, <1>10 DEF ServerAnnounces, ServerReports, serverVars
<1>11. CASE FlushTelemetry \/ WorkerNext \/ WorkerCrashes \/ HandleLocalMessage
  BY <1>1, <1>11 DEF FlushTelemetry, WorkerNext, WorkerActs, WorkerGetsStop, WorkerCrashes,
                     HandleLocalMessage, serverVars
<1>12. CASE UNCHANGED vars
  BY <1>1, <1>12 DEF vars, serverVars
<1> QED
  BY <1>2, <1>3, <1>4, <1>5, <1>6, <1>7, <1>8, <1>9, <1>10, <1>11, <1>12
     DEF Next, Buttons, SubmitAnswered

\* The retry of a refused submission (client.js, VidhiEngine.js) never sends
\* the refused key again, however many submissions share the stored key.
THEOREM RetryUsesNewKey == Spec => []NoStaleRetry
<1>1. Init => KeyInv
  <2>1. Init => KeyTypes
    BY EngineAssumption DEF Init, KeyTypes
  <2> QED BY <2>1 DEF Init, KeyInv, NoStaleRetry
<1>2. KeyInv => NoStaleRetry
  BY DEF KeyInv
<1> QED BY <1>1, <1>2, KeyStep, PTL DEF Spec

(***************************************************************************)
(* The result that is shown.                                               *)
(*                                                                         *)
(* A tick makes the state live again.  It cannot be the last message of a  *)
(* worker at rest: such a worker has posted an end after it, and before it *)
(* runs a worker posts nothing.                                            *)
(***************************************************************************)
Ends == {"COMPILE_ERROR", "SIMULATION_COMPLETE", "SIMULATION_STOPPED"}

MessageTypes == Ends \cup {"COMPILE_OK", "TICK_UPDATE"}

ShownInv ==
    /\ wOut \in Seq(MessageTypes)
    /\ wPhase \in {"none", "loading"} => wOut = <<>>
    /\ wPhase = "rest" /\ wOut # <<>> => wOut[Len(wOut)] \in Ends
    /\ DoneIsShown

\* A step of the page alone that does not make a finished result a live one.
LEMMA ShownFrame ==
    ASSUME ShownInv, UNCHANGED <<wPhase, wOut>>,
           status' = "done" => lastState' = "done" \/ (status = "done" /\ lastState' = lastState)
                               \/ (status = "done" /\ lastState' = Extended)
    PROVE  ShownInv'
BY DEF ShownInv, DoneIsShown, Extended

\* A message leaves the queue of a worker.
LEMMA TailKeepsEnd ==
    ASSUME ShownInv, wOut # <<>>, wPhase' = wPhase, wOut' = Tail(wOut)
    PROVE  /\ Head(wOut) \in MessageTypes
           /\ wOut' \in Seq(MessageTypes)
           /\ wPhase = "rest" /\ wOut' # <<>> => wOut'[Len(wOut')] \in Ends
           /\ wPhase = "rest" /\ wOut' = <<>> => Head(wOut) \in Ends
           /\ wPhase \notin {"none", "loading"}
<1>1. wOut \in Seq(MessageTypes) /\ Len(wOut) > 0 /\ Len(wOut) \in Nat
  BY DEF ShownInv
<1>2. Len(wOut') = Len(wOut) - 1 /\ wOut' \in Seq(MessageTypes)
  BY <1>1
<1>3. \A k \in 1..Len(wOut') : wOut'[k] = wOut[k + 1]
  BY <1>1
<1>4. wOut' # <<>> => wOut'[Len(wOut')] = wOut[Len(wOut)]
  BY <1>1, <1>2, <1>3
<1>5. wOut' = <<>> => Len(wOut) = 1
  BY <1>1, <1>2
<1>6. wOut' = <<>> => Head(wOut) = wOut[Len(wOut)]
  BY <1>1, <1>5
<1> QED BY <1>1, <1>2, <1>4, <1>6 DEF ShownInv

LEMMA WorkerMovesShown ==
    ASSUME ShownInv, NEW m \in Worker!Moves,
           wPhase = m.from, wPhase' = m.to, wOut' = Append(wOut, m.msg)
    PROVE  ShownInv'
<1>1. m.msg \in MessageTypes /\ m.to \in {"running", "rest"}
      /\ (m.to = "rest" => m.msg \in Ends)
  BY DEF Worker!Moves, Worker!OwnMoves, Worker!StopMoves, Worker!Move, MessageTypes, Ends
<1>2. /\ wOut' \in Seq(MessageTypes) /\ wOut' # <<>>
      /\ wOut'[Len(wOut')] = m.msg
  BY <1>1 DEF ShownInv
<1> QED BY <1>1, <1>2 DEF ShownInv, DoneIsShown

LEMMA ShownStep == ShownInv /\ [Next]_vars => ShownInv'
<1> SUFFICES ASSUME ShownInv, [Next]_vars PROVE ShownInv'
  OBVIOUS
<1>1. CASE StartLocal
  BY <1>1 DEF StartLocal, BeginStart, InitWorker, ShownInv, DoneIsShown
<1>2. CASE StartCloud \/ StartCloudInvalid \/ StopSimulation \/ LoadHistoricState
  BY <1>2, ShownFrame DEF StartCloud, StartCloudInvalid, StopSimulation, LoadHistoricState,
                          Fail, workerVars
<1>3. CASE \E n \in Starts : ProvisionAnswered(n) \/ ServerAccepts(n) \/ SubmitAnswered(n)
                             \/ PollTimeout(n) \/ Connect(n) \/ Disconnect(n)
  BY <1>3, ShownFrame
     DEF ProvisionAnswered, ServerAccepts, SubmitAnswered, SubmitAccepted, SubmitRefused,
         SubmitFails, Fail, PollTimeout, Connect, Disconnect, engineVars, workerVars
<1>4. CASE \E n \in Starts : Poll(n)
  BY <1>4, ShownFrame DEF Poll, workerVars
<1>5. CASE \E n \in Starts : Deliver(n)
  BY <1>5, ShownFrame DEF Deliver, RunEnded, workerVars
<1>6. CASE (\E r \in Runs : ServerAnnounces(r)) \/ (\E r \in Runs : ServerReports(r))
  BY <1>6, ShownFrame DEF ServerAnnounces, ServerReports, engineVars, workerVars
<1>7. CASE FlushTelemetry
  BY <1>7, ShownFrame DEF FlushTelemetry, ProcessTick, workerVars
<1>8. CASE WorkerActs
  <2>1. PICK m \in Worker!OwnMoves :
            wPhase = m.from /\ wPhase' = m.to /\ wOut' = Append(wOut, m.msg)
    BY <1>8 DEF WorkerActs, WorkerMoves
  <2> QED BY <2>1, WorkerMovesShown DEF Worker!Moves
<1>9. CASE WorkerGetsStop
  <2>1. CASE wPhase = "loading"
    BY <1>9, <2>1, ShownFrame DEF WorkerGetsStop, engineVars
  <2>2. CASE wPhase # "loading"
    <3>1. PICK m \in Worker!StopMoves :
              wPhase = m.from /\ wPhase' = m.to /\ wOut' = Append(wOut, m.msg)
      BY <1>9, <2>2 DEF WorkerGetsStop, WorkerMoves
    <3> QED BY <3>1, WorkerMovesShown DEF Worker!Moves
  <2> QED BY <2>1, <2>2
<1>10. CASE WorkerCrashes
  BY <1>10 DEF WorkerCrashes, Fail, ShownInv, DoneIsShown
<1>11. CASE HandleLocalMessage
  <2>1. /\ wOut # <<>> /\ wOut' = Tail(wOut) /\ wPhase' = wPhase
        /\ status' = StatusAfter(Head(wOut))
        /\ Head(wOut) = "SIMULATION_COMPLETE" => lastState' = "done"
    BY <1>11 DEF HandleLocalMessage
  <2>2. Head(wOut) \in Ends /\ status' = "done" => lastState' = "done"
    BY <2>1 DEF StatusAfter, Ends
  <2> QED BY <2>1, <2>2, TailKeepsEnd DEF ShownInv, DoneIsShown
<1>12. CASE UNCHANGED vars
  BY <1>12, ShownFrame DEF vars, engineVars, workerVars
<1> QED
  BY <1>1, <1>2, <1>3, <1>4, <1>5, <1>6, <1>7, <1>8, <1>9, <1>10, <1>11, <1>12
     DEF Next, Buttons, WorkerNext

\* While no worker is at work, "done" goes with a state that is marked done:
\* neither a tick the throttle timer kept back nor a late status or poll turns
\* it into a live view.
THEOREM ResultStaysShown == Spec => []DoneIsShown
<1>1. Init => ShownInv
  BY DEF Init, ShownInv, DoneIsShown
<1>2. ShownInv => DoneIsShown
  BY DEF ShownInv
<1> QED BY <1>1, <1>2, ShownStep, PTL DEF Spec

(***************************************************************************)
(* Recorded results.                                                       *)
(*                                                                         *)
(* An announcement is recorded when a socket delivers it.  It can be on    *)
(* its way only once, because the page has at most one open socket: what a *)
(* socket still carries of a run and what was recorded of it are together  *)
(* no more than what was announced.                                        *)
(***************************************************************************)
Messages == [type : {"RUN_UPDATE", "TICK_TELEMETRY"}, run : Runs,
             status : {"running", "complete", "error"}]

Announces(msg, r) ==
    msg.type = "RUN_UPDATE" /\ msg.status \in Terminal /\ msg.run = r

\* The places of wire w with an announcement of run r.
Places(w, r) == {k \in 1..Len(w) : Announces(w[k], r)}

Carried(w, r) == Cardinality(Places(w, r))

LEMMA CarriedType ==
    ASSUME NEW w \in Seq(Messages), NEW r
    PROVE  IsFiniteSet(Places(w, r)) /\ Carried(w, r) \in Nat
<1>1. IsFiniteSet(1..Len(w))
  BY FS_Interval
<1>2. Places(w, r) \in SUBSET (1..Len(w))
  BY DEF Places
<1>3. IsFiniteSet(Places(w, r))
  BY <1>1, <1>2, FS_Subset
<1> QED BY <1>3, FS_CardinalityType DEF Carried

LEMMA CarriedEmpty == ASSUME NEW r PROVE Carried(<<>>, r) = 0
<1>1. Places(<<>>, r) = {}
  BY DEF Places
<1> QED BY <1>1, FS_EmptySet DEF Carried

LEMMA CarriedAppend ==
    ASSUME NEW w \in Seq(Messages), NEW msg \in Messages, NEW r
    PROVE  /\ Carried(Append(w, msg), r) <= Carried(w, r) + 1
           /\ ~Announces(msg, r) => Carried(Append(w, msg), r) = Carried(w, r)
<1> DEFINE v == Append(w, msg)
<1>1. /\ Len(v) = Len(w) + 1 /\ Len(w) \in Nat /\ v[Len(w) + 1] = msg
      /\ \A k \in 1..Len(w) : v[k] = w[k]
  OBVIOUS
<1>2. IsFiniteSet(Places(w, r)) /\ Carried(w, r) \in Nat
  BY CarriedType
<1>3. Len(w) + 1 \notin Places(w, r)
  BY <1>1 DEF Places
<1>4. CASE Announces(msg, r)
  <2>1. Places(v, r) = Places(w, r) \cup {Len(w) + 1}
    BY <1>1, <1>4 DEF Places
  <2>2. Cardinality(Places(v, r)) = Cardinality(Places(w, r)) + 1
    BY <1>2, <1>3, <2>1, FS_AddElement
  <2> QED BY <1>2, <1>4, <2>2 DEF Carried
<1>5. CASE ~Announces(msg, r)
  <2>1. Places(v, r) = Places(w, r)
    BY <1>1, <1>5 DEF Places
  <2> QED BY <1>2, <2>1 DEF Carried
<1> QED BY <1>4, <1>5

LEMMA CarriedTail ==
    ASSUME NEW w \in Seq(Messages), w # <<>>, NEW r
    PROVE  /\ Tail(w) \in Seq(Messages)
           /\ Carried(Tail(w), r) <= Carried(w, r)
           /\ Announces(Head(w), r) => Carried(Tail(w), r) + 1 <= Carried(w, r)
<1> DEFINE v == Tail(w)
<1> DEFINE rest == Places(w, r) \ {1}
<1>1. /\ v \in Seq(Messages) /\ Len(w) \in Nat /\ Len(v) = Len(w) - 1
      /\ \A k \in 1..Len(v) : v[k] = w[k + 1]
      /\ Head(w) = w[1] /\ 1 \in 1..Len(w)
  OBVIOUS
<1>2. IsFiniteSet(Places(w, r)) /\ Carried(w, r) \in Nat
  BY CarriedType
<1>3. Carried(v, r) \in Nat
  BY <1>1, CarriedType
<1>4. /\ IsFiniteSet(rest)
      /\ Cardinality(rest) = IF 1 \in Places(w, r) THEN Carried(w, r) - 1 ELSE Carried(w, r)
  BY <1>2, FS_RemoveElement DEF Carried
<1>5. \A k \in Places(v, r) : k + 1 \in rest
  <2>1. SUFFICES ASSUME NEW k \in Places(v, r) PROVE k + 1 \in rest
    OBVIOUS
  <2>2. k \in 1..Len(v) /\ Announces(v[k], r)
    BY DEF Places
  <2>3. k + 1 \in 1..Len(w) /\ k + 1 # 1 /\ v[k] = w[k + 1]
    BY <1>1, <2>2
  <2> QED BY <2>2, <2>3 DEF Places
<1> DEFINE f == [k \in Places(v, r) |-> k + 1]
<1>6. f \in Injection(Places(v, r), rest)
  <2>1. \A k \in Places(v, r) : k \in Int
    BY <1>1 DEF Places
  <2>2. f \in [Places(v, r) -> rest]
    BY <1>5
  <2>3. \A j, k \in Places(v, r) : f[j] = f[k] => j = k
    BY <2>1
  <2> QED BY <2>2, <2>3 DEF Injection, IsInjective
<1>7. Carried(v, r) <= Cardinality(rest)
  <2> HIDE DEF f, rest
  <2> QED BY <1>4, <1>6, FS_Injection DEF Carried
<1>8. Announces(Head(w), r) => 1 \in Places(w, r)
  BY <1>1 DEF Places
<1>9. Cardinality(rest) <= Carried(w, r)
      /\ (1 \in Places(w, r) => Cardinality(rest) + 1 <= Carried(w, r))
      /\ Cardinality(rest) \in Nat
  <2>1. Cardinality(rest) \in Nat
    BY <1>4, FS_CardinalityType
  <2> HIDE DEF rest
  <2> QED BY <1>2, <1>4, <2>1
<1> HIDE DEF rest
<1> QED BY <1>1, <1>2, <1>3, <1>7, <1>8, <1>9

WireTypes ==
    /\ wire \in [Starts -> Seq(Messages)]
    /\ history \in [Ids -> Nat] /\ announced \in [Runs -> Nat]
    /\ server \in [Runs -> {"none", "running", "complete", "error"}]
    /\ starts \in 0..MaxStarts /\ wRun \in 0..starts

OneSocket == open \subseteq {handle} /\ open \subseteq Starts /\ up \subseteq open

WireInv ==
    /\ WireTypes /\ OneSocket
    /\ \A h \in Starts : h \notin open => wire[h] = <<>>
    /\ \A r \in Runs : history[r] <= announced[r]
    /\ \A h \in Starts, r \in Runs : history[r] + Carried(wire[h], r) <= announced[r]

\* A step that does not send, deliver or record.
LEMMA WireFrame ==
    ASSUME WireInv, WireTypes', OneSocket', UNCHANGED <<history, announced>>,
           \A h \in Starts : wire'[h] \in {wire[h], <<>>},
           \A h \in Starts : h \notin open' => wire'[h] = <<>>
    PROVE  WireInv'
<1>1. ASSUME NEW h \in Starts, NEW r \in Runs
      PROVE  history[r] + Carried(wire'[h], r) <= announced[r]
  <2>1. CASE wire'[h] = wire[h]
    BY <2>1 DEF WireInv
  <2>2. CASE wire'[h] = <<>>
    <3>1. Carried(wire'[h], r) = 0
      BY <2>2, CarriedEmpty
    <3>2. r \in Ids
      BY EngineAssumption DEF Runs, Starts, Ids, Foreign
    <3>3. history[r] \in Nat /\ announced[r] \in Nat /\ history[r] <= announced[r]
      BY <3>2 DEF WireInv, WireTypes
    <3> QED BY <3>1, <3>3
  <2> QED BY <2>1, <2>2
<1> QED BY <1>1 DEF WireInv

\* Closing the socket that is held, and opening another in its place.
LEMMA SocketSteps ==
    ASSUME WireInv, NEW n \in Starts, DisconnectWS \/ ConnectWS(n)
    PROVE  /\ OneSocket' /\ wire' \in [Starts -> Seq(Messages)]
           /\ \A h \in Starts : wire'[h] \in {wire[h], <<>>}
           /\ \A h \in Starts : h \notin open' => wire'[h] = <<>>
<1>1. SocketsFollow
  BY DEF DisconnectWS, ConnectWS
<1>2. OneSocket'
  BY <1>1 DEF DisconnectWS, ConnectWS, StillOpen, OneSocket, WireInv, SocketsFollow
<1>3. wire' \in [Starts -> Seq(Messages)]
  BY <1>1 DEF SocketsFollow, WireInv, WireTypes
<1>4. \A h \in Starts : wire'[h] = IF h \in open' THEN wire[h] ELSE <<>>
  BY <1>1 DEF SocketsFollow
<1> QED BY <1>2, <1>3, <1>4

\* A message is sent to the connected sockets.
LEMMA BroadcastSends ==
    ASSUME WireInv, NEW msg \in Messages, Broadcast(msg)
    PROVE  /\ wire' \in [Starts -> Seq(Messages)]
           /\ \A h \in Starts : h \notin open => wire'[h] = <<>>
           /\ \A h \in Starts, r \in Runs :
                /\ Carried(wire'[h], r) <= Carried(wire[h], r) + 1
                /\ ~Announces(msg, r) => Carried(wire'[h], r) = Carried(wire[h], r)
                /\ Carried(wire[h], r) \in Nat /\ Carried(wire'[h], r) \in Nat
<1>1. \A h \in Starts : /\ wire[h] \in Seq(Messages)
                        /\ wire'[h] = IF h \in up THEN Append(wire[h], msg) ELSE wire[h]
  BY DEF Broadcast, WireInv, WireTypes
<1>2. wire' \in [Starts -> Seq(Messages)]
  BY <1>1 DEF Broadcast
<1>3. ASSUME NEW h \in Starts, NEW r \in Runs
      PROVE  /\ Carried(wire'[h], r) <= Carried(wire[h], r) + 1
             /\ ~Announces(msg, r) => Carried(wire'[h], r) = Carried(wire[h], r)
             /\ Carried(wire[h], r) \in Nat /\ Carried(wire'[h], r) \in Nat
  <2>1. Carried(wire[h], r) \in Nat /\ Carried(wire'[h], r) \in Nat
    BY <1>1, <1>2, CarriedType
  <2>2. CASE h \in up
    BY <1>1, <2>1, <2>2, CarriedAppend
  <2>3. CASE h \notin up
    BY <1>1, <2>1, <2>3
  <2> QED BY <2>2, <2>3
<1>4. \A h \in Starts : h \notin open => wire'[h] = <<>>
  BY <1>1 DEF WireInv, OneSocket
<1> QED BY <1>2, <1>3, <1>4

LEMMA WireStep == WireInv /\ [Next]_vars => WireInv'
<1> SUFFICES ASSUME WireInv, [Next]_vars PROVE WireInv'
  OBVIOUS
<1>0. /\ starts \in Nat /\ starts <= MaxStarts /\ MaxStarts \in Nat
      /\ Runs \subseteq Ids /\ Starts \subseteq Runs /\ Starts \subseteq Nat
  BY EngineAssumption DEF WireInv, WireTypes, Runs, Starts, Ids, Foreign
<1>1. CASE UNCHANGED <<open, up, wire, handle, history, announced, server, starts, wRun>>
  BY <1>1 DEF WireInv, WireTypes, OneSocket
<1>2. CASE StartLocal
  <2>1. PICK n \in Starts : n = starts + 1 /\ starts' = n /\ wRun' = n
    BY <1>2 DEF StartLocal, BeginStart, InitWorker
  <2>2. UNCHANGED <<history, server, announced>>
    BY <1>2 DEF StartLocal, serverVars
  <2>3. starts' \in 0..MaxStarts /\ wRun' \in 0..starts'
    BY <1>0, <2>1 DEF Starts
  <2>4. DisconnectWS
    BY <1>2 DEF StartLocal
  <2>5. WireTypes'
    BY <2>1, <2>2, <2>3, <2>4, SocketSteps DEF WireInv, WireTypes
  <2> QED BY <2>1, <2>2, <2>4, <2>5, SocketSteps, WireFrame
<1>3. CASE StartCloud \/ StartCloudInvalid
  <2>1. PICK n \in Starts : n = starts + 1 /\ starts' = n /\ (ConnectWS(n) \/ DisconnectWS)
    BY <1>3 DEF StartCloud, StartCloudInvalid, BeginStart
  <2>2. UNCHANGED <<history, server, announced, wRun>>
    BY <1>3 DEF StartCloud, StartCloudInvalid, serverVars, workerVars
  <2>3. starts' \in 0..MaxStarts /\ wRun' \in 0..starts'
    BY <1>0, <2>1, <2>2 DEF Starts, WireInv, WireTypes
  <2>4. WireTypes'
    BY <2>1, <2>2, <2>3, SocketSteps DEF WireInv, WireTypes
  <2> QED BY <2>1, <2>2, <2>4, SocketSteps, WireFrame
<1>4. CASE StopSimulation
  <2>1. DisconnectWS /\ UNCHANGED <<history, server, announced, wRun, starts>>
    BY <1>4 DEF StopSimulation, serverVars
  <2>2. CASE Starts = {}
    BY <2>1, <2>2 DEF WireInv, WireTypes, OneSocket, DisconnectWS, SocketsFollow, StillOpen
  <2>3. CASE Starts # {}
    <3>1. PICK n : n \in Starts
      BY <2>3
    <3>2. WireTypes'
      BY <2>1, <3>1, SocketSteps DEF WireInv, WireTypes
    <3> QED BY <2>1, <3>1, <3>2, SocketSteps, WireFrame
  <2> QED BY <2>2, <2>3
<1>5. CASE LoadHistoricState
  BY <1>1, <1>5 DEF LoadHistoricState, netVars, workerVars, serverVars
<1>6. CASE \E n \in Starts : ProvisionAnswered(n) \/ SubmitAnswered(n) \/ Poll(n) \/ PollTimeout(n)
  BY <1>1, <1>6 DEF ProvisionAnswered, SubmitAnswered, SubmitAccepted, SubmitRefused,
                    SubmitFails, Poll, PollTimeout, netVars, workerVars, serverVars,
                    userVars, engineVars
<1>7. ASSUME NEW n \in Starts, ServerAccepts(n) PROVE WireInv'
  <2>1. UNCHANGED <<open, up, wire, handle, history, announced, starts, wRun>>
    BY <1>7 DEF ServerAccepts, netVars, workerVars, userVars, engineVars
  <2>2. server' \in [Runs -> {"none", "running", "complete", "error"}]
    BY <1>0, <1>7 DEF ServerAccepts, WireInv, WireTypes
  <2> QED BY <2>1, <2>2 DEF WireInv, WireTypes, OneSocket
<1>8. ASSUME NEW n \in Starts, Connect(n) \/ Disconnect(n) PROVE WireInv'
  <2>1. UNCHANGED <<open, handle, history, announced, server, starts, wRun>>
    BY <1>8 DEF Connect, Disconnect, workerVars, userVars, engineVars, serverVars
  <2>2. OneSocket'
    BY <1>8, <2>1 DEF Connect, Disconnect, WireInv, OneSocket
  <2>3. /\ wire' \in [Starts -> Seq(Messages)]
        /\ \A h \in Starts : wire'[h] \in {wire[h], <<>>}
        /\ \A h \in Starts : h \notin open' => wire'[h] = <<>>
    <3>1. CASE Connect(n)
      BY <2>1, <3>1 DEF Connect, WireInv, WireTypes
    <3>2. CASE Disconnect(n)
      <4>1. wire' = [wire EXCEPT ![n] = <<>>] /\ wire \in [Starts -> Seq(Messages)]
        BY <3>2 DEF Disconnect, WireInv, WireTypes
      <4>2. \A h \in Starts : wire'[h] = IF h = n THEN <<>> ELSE wire[h]
        BY <4>1
      <4>3. wire' \in [Starts -> Seq(Messages)]
        BY <4>1
      <4> QED BY <2>1, <4>2, <4>3 DEF WireInv
    <3> QED BY <1>8, <3>1, <3>2
  <2>4. WireTypes'
    BY <2>1, <2>3 DEF WireInv, WireTypes
  <2> QED BY <2>1, <2>2, <2>3, <2>4, WireFrame
<1>9. ASSUME NEW h \in Starts, Deliver(h) PROVE WireInv'
  <2> DEFINE msg == Head(wire[h])
  <2>1. wire[h] # <<>> /\ wire[h] \in Seq(Messages) /\ msg \in Messages
    BY <1>9 DEF Deliver, WireInv, WireTypes
  <2>2. /\ UNCHANGED <<open, up, handle, server, announced, starts, wRun>>
        /\ wire' = [wire EXCEPT ![h] = Tail(wire[h])]
        /\ \/ history' = history
           \/ /\ Announces(msg, msg.run)
              /\ history' = [history EXCEPT ![msg.run] = history[msg.run] + 1]
    BY <1>9 DEF Deliver, RunEnded, Announces, workerVars, userVars, serverVars
  <2>3. /\ Tail(wire[h]) \in Seq(Messages)
        /\ \A r \in Runs :
             /\ Carried(Tail(wire[h]), r) <= Carried(wire[h], r)
             /\ Announces(msg, r) => Carried(Tail(wire[h]), r) + 1 <= Carried(wire[h], r)
             /\ Carried(wire[h], r) \in Nat /\ Carried(Tail(wire[h]), r) \in Nat
    BY <2>1, CarriedTail, CarriedType
  <2>4. msg.run \in Runs /\ \A r \in Runs : Announces(msg, r) <=> Announces(msg, msg.run) /\ r = msg.run
    BY <2>1 DEF Messages, Announces
  <2>5. /\ \A r \in Runs : history[r] \in Nat /\ announced[r] \in Nat
        /\ history' \in [Ids -> Nat]
    BY <1>0, <2>2, <2>4 DEF WireInv, WireTypes
  <2>6. WireTypes'
    BY <2>2, <2>3, <2>5 DEF WireInv, WireTypes
  <2>7. \A g \in Starts : g # h => wire'[g] = <<>> /\ wire[g] = <<>>
    BY <2>1, <2>2 DEF WireInv, OneSocket, WireTypes
  <2>8. wire'[h] = Tail(wire[h]) /\ h \in open
    BY <2>1, <2>2 DEF WireInv, WireTypes
  <2>9. ASSUME NEW r \in Runs PROVE history'[r] + Carried(wire'[h], r) <= announced'[r]
    <3>1. history[r] + Carried(wire[h], r) <= announced[r]
      BY DEF WireInv
    <3>2. CASE history'[r] = history[r]
      BY <2>2, <2>3, <2>5, <2>8, <3>1, <3>2
    <3>3. CASE history'[r] # history[r]
      <4>1. Announces(msg, r) /\ history'[r] = history[r] + 1
        BY <1>0, <2>2, <2>4, <3>3 DEF WireInv, WireTypes
      <4> QED BY <2>2, <2>3, <2>5, <2>8, <3>1, <4>1
    <3> QED BY <3>2, <3>3
  <2>10. \A r \in Runs : history'[r] \in Nat /\ Carried(wire'[h], r) \in Nat
                         /\ announced'[r] \in Nat
    BY <1>0, <2>2, <2>3, <2>5, <2>8
  <2>11. \A r \in Runs : history'[r] <= announced'[r]
    BY <2>9, <2>10
  <2>12. ASSUME NEW g \in Starts, NEW r \in Runs
         PROVE  history'[r] + Carried(wire'[g], r) <= announced'[r]
    <3>1. CASE g = h
      BY <2>9, <3>1
    <3>2. CASE g # h
      <4>1. Carried(wire'[g], r) = 0
        BY <2>7, <3>2, CarriedEmpty
      <4> QED BY <2>10, <2>11, <4>1
    <3> QED BY <3>1, <3>2
  <2>13. OneSocket' /\ \A g \in Starts : g \notin open' => wire'[g] = <<>>
    BY <2>2, <2>7, <2>8 DEF WireInv, OneSocket
  <2> QED BY <2>6, <2>11, <2>12, <2>13 DEF WireInv
<1>10. ASSUME NEW r \in Runs, ServerAnnounces(r) PROVE WireInv'
  <2> DEFINE msg == Message("RUN_UPDATE", r, server'[r])
  <2>1. /\ UNCHANGED <<open, up, handle, history, starts, wRun>>
        /\ announced' = [announced EXCEPT ![r] = announced[r] + 1]
        /\ Broadcast(msg)
    BY <1>10 DEF ServerAnnounces, workerVars, userVars, engineVars
  <2>2. /\ server' \in [Runs -> {"none", "running", "complete", "error"}]
        /\ server'[r] \in {"running", "complete", "error"}
    <3>1. PICK st \in Terminal \cup {server[r]} : server' = [server EXCEPT ![r] = st]
      BY <1>10 DEF ServerAnnounces
    <3>2. st \in {"running", "complete", "error"}
      BY <1>10 DEF ServerAnnounces, WireInv, WireTypes, Terminal
    <3> QED BY <3>1, <3>2 DEF WireInv, WireTypes
  <2>3. msg \in Messages
    BY <2>2 DEF Message, Messages
  <2>4. announced' \in [Runs -> Nat] /\ \A q \in Runs : announced[q] \in Nat /\ history[q] \in Nat
    BY <1>0, <2>1 DEF WireInv, WireTypes
  <2>5. \A q \in Runs : Announces(msg, q) => q = r
    BY DEF Announces, Message
  <2> HIDE DEF msg
  <2>6. WireTypes'
    BY <2>1, <2>2, <2>3, <2>4, BroadcastSends DEF WireInv, WireTypes
  <2>7. ASSUME NEW h \in Starts, NEW q \in Runs
        PROVE  history[q] + Carried(wire'[h], q) <= announced'[q]
    <3>1. history[q] + Carried(wire[h], q) <= announced[q]
      BY DEF WireInv
    <3>2. CASE q = r
      <4>1. announced'[q] = announced[q] + 1
        BY <2>1, <3>2 DEF WireInv, WireTypes
      <4> QED BY <2>1, <2>3, <2>4, <3>1, <4>1, BroadcastSends
    <3>3. CASE q # r
      <4>1. announced'[q] = announced[q] /\ ~Announces(msg, q)
        BY <2>1, <2>5, <3>3 DEF WireInv, WireTypes
      <4> QED BY <2>1, <2>3, <2>4, <3>1, <4>1, BroadcastSends
    <3> QED BY <3>2, <3>3
  <2>8. \A q \in Runs : history[q] <= announced'[q]
    BY <2>1, <2>4 DEF WireInv, WireTypes
  <2>9. OneSocket' /\ \A h \in Starts : h \notin open' => wire'[h] = <<>>
    BY <2>1, <2>3, BroadcastSends DEF WireInv, OneSocket
  <2> QED BY <2>1, <2>6, <2>7, <2>8, <2>9 DEF WireInv
<1>11. ASSUME NEW r \in Runs, ServerReports(r) PROVE WireInv'
  <2>1. UNCHANGED <<open, up, handle, history, announced, server, starts, wRun>>
    BY <1>11 DEF ServerReports, workerVars, userVars, engineVars, serverVars
  <2>2. PICK type \in {"TICK_TELEMETRY", "RUN_UPDATE"} : Broadcast(Message(type, r, "running"))
    BY <1>11 DEF ServerReports
  <2> DEFINE msg == Message(type, r, "running")
  <2>3. msg \in Messages /\ \A q \in Runs : ~Announces(msg, q)
    BY <1>0 DEF Message, Messages, Announces, Terminal
  <2> HIDE DEF msg
  <2>4. WireTypes'
    BY <2>1, <2>2, <2>3, BroadcastSends DEF WireInv, WireTypes, msg
  <2>5. /\ \A h \in Starts, q \in Runs : Carried(wire'[h], q) = Carried(wire[h], q)
        /\ \A h \in Starts : h \notin open => wire'[h] = <<>>
    BY <2>2, <2>3, BroadcastSends DEF msg
  <2> QED BY <2>1, <2>4, <2>5 DEF WireInv, OneSocket
<1>12. CASE FlushTelemetry \/ WorkerNext \/ WorkerCrashes
  BY <1>1, <1>12 DEF FlushTelemetry, WorkerNext, WorkerActs, WorkerGetsStop, WorkerCrashes,
                     netVars, workerVars, serverVars, userVars, engineVars
<1>13. CASE HandleLocalMessage
  <2>1. UNCHANGED <<open, up, wire, handle, announced, server, starts, wRun>>
    BY <1>13 DEF HandleLocalMessage, netVars, serverVars, userVars
  <2>2. history' \in {history, [history EXCEPT ![-wRun] = history[-wRun] + 1]}
    BY <1>13 DEF HandleLocalMessage
  <2>3. -wRun \in Ids /\ -wRun \notin Runs
    BY <1>0 DEF WireInv, WireTypes, Ids, Runs, Starts, Foreign
  <2>4. history' \in [Ids -> Nat] /\ \A r \in Runs : history'[r] = history[r]
    BY <1>0, <2>2, <2>3 DEF WireInv, WireTypes
  <2> QED BY <2>1, <2>4 DEF WireInv, WireTypes, OneSocket
<1>14. CASE UNCHANGED vars
  BY <1>1, <1>14 DEF vars, netVars, workerVars, serverVars, userVars, engineVars
<1> QED
  BY <1>2, <1>3, <1>4, <1>5, <1>6, <1>7, <1>8, <1>9, <1>10, <1>11, <1>12, <1>13, <1>14
     DEF Next, Buttons

(***************************************************************************)
(* A local run is recorded when its SIMULATION_COMPLETE is handled.  The   *)
(* worker posts it once, on its way to rest, and a new worker belongs to a *)
(* new start.                                                              *)
(***************************************************************************)
Completes(k) == wOut[k] = "SIMULATION_COMPLETE"

LocalInv ==
    /\ wRun = 0 => wPhase = "none"
    /\ \A n \in Starts : history[-n] <= 1 /\ (starts < n => history[-n] = 0)
    /\ wPhase # "rest" => /\ wRun # 0 => history[-wRun] = 0
                          /\ \A k \in 1..Len(wOut) : ~Completes(k)
    /\ \A j, k \in 1..Len(wOut) : Completes(j) /\ Completes(k) => j = k
    /\ \A k \in 1..Len(wOut) : Completes(k) => history[-wRun] = 0

\* A step without the worker that records at most results of the server.
LEMMA LocalFrame ==
    ASSUME LocalInv, WireInv, UNCHANGED <<wRun, wPhase, wOut>>, starts' \in Nat, starts <= starts',
           \A n \in Starts : history'[-n] = history[-n]
    PROVE  LocalInv'
<1>1. starts \in Nat /\ wRun \in Nat /\ (wRun # 0 => wRun \in Starts) /\ Starts \subseteq Nat
  BY EngineAssumption DEF WireInv, WireTypes, Starts
<1>2. \A n \in Starts : starts' < n => starts < n
  BY <1>1
<1>3. wRun # 0 => history'[-wRun] = history[-wRun]
  BY <1>1
<1>4. wRun = 0 => \A k \in 1..Len(wOut) : ~Completes(k)
  BY DEF LocalInv
<1> QED BY <1>1, <1>2, <1>3, <1>4 DEF LocalInv, Completes

\* The worker posts a message.
LEMMA LocalMoves ==
    ASSUME LocalInv, WireInv, ShownInv, NEW m \in Worker!Moves,
           wPhase = m.from, wPhase' = m.to, wOut' = Append(wOut, m.msg),
           UNCHANGED <<wRun, history, starts>>
    PROVE  LocalInv'
<1>1. /\ m.msg \in MessageTypes /\ m.from # "none"
      /\ m.msg = "SIMULATION_COMPLETE" => m.from = "running" /\ m.to = "rest"
      /\ m.from = "rest" => m.to = "rest"
  BY DEF Worker!Moves, Worker!OwnMoves, Worker!StopMoves, Worker!Move, MessageTypes, Ends
<1>2. /\ wOut \in Seq(MessageTypes) /\ Len(wOut) \in Nat /\ Len(wOut') = Len(wOut) + 1
      /\ wOut'[Len(wOut')] = m.msg
      /\ \A k \in 1..Len(wOut) : wOut'[k] = wOut[k]
  BY <1>1 DEF ShownInv
<1>3. wRun # 0 /\ wRun' = wRun /\ history' = history
  BY <1>1 DEF LocalInv
<1>4. CASE m.msg = "SIMULATION_COMPLETE"
  <2>1. /\ wPhase # "rest" /\ wPhase' = "rest" /\ history[-wRun] = 0
        /\ \A k \in 1..Len(wOut) : ~Completes(k)
    BY <1>1, <1>3, <1>4 DEF LocalInv
  <2>2. \A k \in 1..Len(wOut') : wOut'[k] = "SIMULATION_COMPLETE" => k = Len(wOut')
    BY <1>2, <2>1 DEF Completes
  <2> QED BY <1>3, <2>1, <2>2 DEF LocalInv, Completes
<1>5. CASE m.msg # "SIMULATION_COMPLETE"
  <2>1. \A k \in 1..Len(wOut') :
            wOut'[k] = "SIMULATION_COMPLETE" => k \in 1..Len(wOut) /\ Completes(k)
    BY <1>2, <1>5 DEF Completes
  <2>2. wPhase' # "rest" => wPhase # "rest"
    BY <1>1
  <2> QED BY <1>3, <2>1, <2>2 DEF LocalInv, Completes
<1> QED BY <1>4, <1>5

LEMMA LocalStep == WireInv /\ ShownInv /\ LocalInv /\ [Next]_vars => LocalInv'
<1> SUFFICES ASSUME WireInv, ShownInv, LocalInv, [Next]_vars PROVE LocalInv'
  OBVIOUS
<1>0. /\ starts \in Nat /\ MaxStarts \in Nat /\ Starts \subseteq Nat /\ 0 \notin Starts
      /\ \A n \in Starts : -n \in Ids /\ history[-n] \in Nat /\ -n \notin Runs
      /\ wRun \in Nat /\ (wRun # 0 => wRun \in Starts)
  BY EngineAssumption DEF WireInv, WireTypes, Runs, Starts, Ids, Foreign
<1>1. CASE /\ UNCHANGED <<wRun, wPhase, wOut, history>>
           /\ starts' = starts \/ starts' = starts + 1
  BY <1>0, <1>1, LocalFrame
<1>2. CASE StartLocal
  <2>1. /\ wRun' = starts + 1 /\ starts' = starts + 1 /\ starts + 1 \in Starts
        /\ wPhase' = "loading" /\ wOut' = <<>> /\ history' = history
    BY <1>2 DEF StartLocal, BeginStart, InitWorker
  <2>2. history[-(starts + 1)] = 0
    BY <1>0, <2>1 DEF LocalInv
  <2>3. \A n \in Starts : starts' < n => starts < n
    BY <1>0, <2>1
  <2> QED BY <1>0, <2>1, <2>2, <2>3 DEF LocalInv, Completes
<1>3. CASE StartCloud \/ StartCloudInvalid \/ StopSimulation \/ LoadHistoricState
  BY <1>1, <1>3 DEF StartCloud, StartCloudInvalid, StopSimulation, LoadHistoricState,
                    BeginStart, workerVars
<1>4. CASE \E n \in Starts : ProvisionAnswered(n) \/ ServerAccepts(n) \/ SubmitAnswered(n)
                             \/ Poll(n) \/ PollTimeout(n) \/ Connect(n) \/ Disconnect(n)
  BY <1>1, <1>4
     DEF ProvisionAnswered, ServerAccepts, SubmitAnswered, SubmitAccepted, SubmitRefused,
         SubmitFails, Poll, PollTimeout, Connect, Disconnect, workerVars, userVars
<1>5. ASSUME NEW h \in Starts, Deliver(h) PROVE LocalInv'
  <2> DEFINE msg == Head(wire[h])
  <2>1. msg.run \in Runs
    <3>1. wire[h] # <<>> /\ wire[h] \in Seq(Messages)
      BY <1>5 DEF Deliver, WireInv, WireTypes
    <3>2. msg \in Messages
      BY <3>1
    <3> QED BY <3>2 DEF Messages
  <2>2. /\ UNCHANGED <<wRun, wPhase, wOut, starts>>
        /\ history' = history \/ history' = [history EXCEPT ![msg.run] = history[msg.run] + 1]
    BY <1>5 DEF Deliver, RunEnded, workerVars, userVars
  <2>3. \A n \in Starts : history'[-n] = history[-n]
    BY <1>0, <2>1, <2>2 DEF WireInv, WireTypes
  <2> QED BY <1>0, <2>2, <2>3, LocalFrame
<1>6. CASE (\E r \in Runs : ServerAnnounces(r)) \/ (\E r \in Runs : ServerReports(r))
  BY <1>1, <1>6 DEF ServerAnnounces, ServerReports, workerVars, userVars
<1>7. CASE FlushTelemetry
  BY <1>1, <1>7 DEF FlushTelemetry, workerVars, userVars
<1>8. CASE WorkerActs
  <2>1. PICK m \in Worker!OwnMoves :
            wPhase = m.from /\ wPhase' = m.to /\ wOut' = Append(wOut, m.msg)
    BY <1>8 DEF WorkerActs, WorkerMoves
  <2>2. UNCHANGED <<wRun, history, starts>>
    BY <1>8 DEF WorkerActs, userVars
  <2> QED BY <2>1, <2>2, LocalMoves DEF Worker!Moves
<1>9. CASE WorkerGetsStop
  <2>1. UNCHANGED <<wRun, history, starts>>
    BY <1>9 DEF WorkerGetsStop, userVars
  <2>2. CASE wPhase = "loading"
    BY <1>1, <1>9, <2>1, <2>2 DEF WorkerGetsStop
  <2>3. CASE wPhase # "loading"
    <3>1. PICK m \in Worker!StopMoves :
              wPhase = m.from /\ wPhase' = m.to /\ wOut' = Append(wOut, m.msg)
      BY <1>9, <2>3 DEF WorkerGetsStop, WorkerMoves
    <3> QED BY <2>1, <3>1, LocalMoves DEF Worker!Moves
  <2> QED BY <2>2, <2>3
<1>10. CASE WorkerCrashes
  <2>1. /\ wPhase = "loading" /\ wPhase' = "rest"
        /\ UNCHANGED <<wRun, wOut, history, starts>>
    BY <1>10 DEF WorkerCrashes, userVars
  <2>2. wRun # 0
    BY <2>1 DEF LocalInv
  <2> QED BY <2>1, <2>2 DEF LocalInv, Completes
<1>11. CASE HandleLocalMessage
  <2>1. /\ wOut # <<>> /\ wOut' = Tail(wOut) /\ UNCHANGED <<wRun, wPhase, starts>>
        /\ history' = IF Head(wOut) = "SIMULATION_COMPLETE"
                      THEN [history EXCEPT ![-wRun] = history[-wRun] + 1] ELSE history
    BY <1>11 DEF HandleLocalMessage, userVars
  <2>2. /\ wOut \in Seq(MessageTypes) /\ Len(wOut) \in Nat /\ 1 \in 1..Len(wOut)
        /\ Head(wOut) = wOut[1] /\ Len(wOut') = Len(wOut) - 1
        /\ \A k \in 1..Len(wOut') : wOut'[k] = wOut[k + 1] /\ k + 1 \in 1..Len(wOut) /\ k + 1 # 1
    BY <2>1 DEF ShownInv
  <2>3. wRun \in Starts
    BY <1>0, <2>1 DEF ShownInv, LocalInv
  <2>4. CASE Head(wOut) = "SIMULATION_COMPLETE"
    <3>1. Completes(1)
      BY <2>2, <2>4 DEF Completes
    <3>2. wPhase = "rest" /\ history[-wRun] = 0
      BY <2>2, <3>1 DEF LocalInv
    <3>3. \A k \in 1..Len(wOut') : wOut'[k] # "SIMULATION_COMPLETE"
      BY <2>2, <3>1 DEF LocalInv, Completes
    <3>4. history'[-wRun] = 1
      BY <1>0, <2>1, <2>3, <2>4, <3>2 DEF WireInv, WireTypes
    <3>5. \A n \in Starts : n # wRun => history'[-n] = history[-n]
      BY <1>0, <2>1, <2>3, <2>4 DEF WireInv, WireTypes
    <3>6. wRun <= starts
      BY DEF WireInv, WireTypes
    <3>7. ASSUME NEW n \in Starts
          PROVE  history'[-n] <= 1 /\ (starts < n => history'[-n] = 0)
      <4>1. CASE n = wRun
        BY <1>0, <3>4, <3>6, <4>1
      <4>2. CASE n # wRun
        BY <3>5, <4>2 DEF LocalInv
      <4> QED BY <4>1, <4>2
    <3> QED BY <1>0, <2>1, <2>3, <3>2, <3>3, <3>7 DEF LocalInv, Completes
  <2>5. CASE Head(wOut) # "SIMULATION_COMPLETE"
    <3>1. history' = history
      BY <2>1, <2>5
    <3>2. \A k \in 1..Len(wOut') : wOut'[k] = "SIMULATION_COMPLETE" => Completes(k + 1)
      BY <2>2 DEF Completes
    <3>3. \A j, k \in 1..Len(wOut') :
              /\ wOut'[j] = "SIMULATION_COMPLETE" /\ wOut'[k] = "SIMULATION_COMPLETE"
              => j = k
      <4>1. SUFFICES ASSUME NEW j \in 1..Len(wOut'), NEW k \in 1..Len(wOut'),
                            wOut'[j] = "SIMULATION_COMPLETE", wOut'[k] = "SIMULATION_COMPLETE"
                     PROVE  j = k
        OBVIOUS
      <4>2. j + 1 = k + 1
        BY <2>2, <3>2, <4>1 DEF LocalInv
      <4> QED BY <4>2
    <3> QED BY <2>1, <2>2, <3>1, <3>2, <3>3 DEF LocalInv, Completes
  <2> QED BY <2>4, <2>5
<1>12. CASE UNCHANGED vars
  BY <1>1, <1>12 DEF vars, workerVars, userVars
<1> QED
  BY <1>2, <1>3, <1>4, <1>5, <1>6, <1>7, <1>8, <1>9, <1>10, <1>11, <1>12
     DEF Next, Buttons, WorkerNext

LEMMA WireInit == Init => WireInv
<1> SUFFICES ASSUME Init PROVE WireInv
  OBVIOUS
<1>1. WireTypes /\ OneSocket
  BY EngineAssumption DEF Init, WireTypes, OneSocket, Starts, Runs, Foreign
<1>2. \A r \in Runs : r \in Ids /\ history[r] = 0 /\ announced[r] = 0
  BY EngineAssumption DEF Init, Runs, Starts, Ids, Foreign
<1>3. \A h \in Starts : wire[h] = <<>>
  BY DEF Init
<1> QED BY <1>1, <1>2, <1>3, CarriedEmpty DEF WireInv

\* The store's list of submissions (_handleWSMessage and _handleLocalMessage of
\* VidhiEngine.js) holds a result at most as often as it was announced, a local
\* one at most once, however often the page reconnects, restarts or polls.
THEOREM ResultsRecordedOnce == Spec => []RecordedPerAnnouncement
<1>1. Init => LocalInv
  <2>1. \A n \in Starts : -n \in Ids
    BY EngineAssumption DEF Starts, Ids, Foreign
  <2> QED BY <2>1 DEF Init, LocalInv, Completes
<1>2. Init => ShownInv
  BY DEF Init, ShownInv, DoneIsShown
<1>3. WireInv /\ LocalInv => RecordedPerAnnouncement
  BY DEF WireInv, LocalInv, RecordedPerAnnouncement
<1> QED BY <1>1, <1>2, <1>3, WireInit, WireStep, LocalStep, ShownStep, PTL DEF Spec

(***************************************************************************)
(* Types.                                                                  *)
(***************************************************************************)
LEMMA TypeStep == WireInv /\ TypeOK /\ [Next]_vars => TypeOK'
<1> SUFFICES ASSUME WireInv, WireInv', TypeOK, [Next]_vars PROVE TypeOK'
  BY WireStep
<1>0. /\ OneSocket' /\ Starts \subseteq 0..MaxStarts /\ Starts \subseteq Ids /\ 0 \in 0..MaxStarts
      /\ Extended \in {"null", "live", "done"}
  BY EngineAssumption DEF WireInv, Starts, Ids, Foreign, Extended
<1> USE DEF TypeOK, OneSocket
<1>1. CASE UNCHANGED engineVars
  BY <1>0, <1>1 DEF engineVars
<1>2. CASE StartLocal \/ StartCloud \/ StartCloudInvalid
  BY <1>0, <1>2 DEF StartLocal, StartCloud, StartCloudInvalid, BeginStart, Fail, ConnectWS,
                    DisconnectWS
<1>3. CASE StopSimulation
  BY <1>0, <1>3 DEF StopSimulation, DisconnectWS
<1>4. CASE LoadHistoricState
  BY <1>0, <1>4 DEF LoadHistoricState
<1>5. CASE \E n \in Starts : ProvisionAnswered(n) \/ ServerAccepts(n) \/ SubmitRefused(n)
                             \/ PollTimeout(n) \/ Connect(n) \/ Disconnect(n)
  BY <1>1, <1>5 DEF ProvisionAnswered, ServerAccepts, SubmitRefused, PollTimeout, Connect,
                    Disconnect
<1>6. CASE \E n \in Starts : SubmitAccepted(n) \/ SubmitFails(n)
  BY <1>0, <1>6 DEF SubmitAccepted, SubmitFails, Fail
<1>7. CASE \E n \in Starts : Poll(n)
  BY <1>0, <1>7 DEF Poll
<1>8. ASSUME NEW h \in Starts, Deliver(h) PROVE TypeOK'
  <2>1. /\ UNCHANGED <<mode, currentRunId, handle>>
        /\ isSimulating' = isSimulating \/ isSimulating' = FALSE
        /\ pollStopped' = pollStopped \/ pollStopped' = TRUE
        /\ status' \in {status, "done", "error"}
        /\ lastState' \in {lastState, Extended, "done"}
    BY <1>8 DEF Deliver, RunEnded
  <2>2. buffer' \in BOOLEAN
    BY <1>8 DEF Deliver
  <2> QED BY <1>0, <2>1, <2>2
<1>9. CASE (\E r \in Runs : ServerAnnounces(r)) \/ (\E r \in Runs : ServerReports(r))
  BY <1>1, <1>9 DEF ServerAnnounces, ServerReports
<1>10. CASE FlushTelemetry
  BY <1>0, <1>10 DEF FlushTelemetry, ProcessTick
<1>11. CASE WorkerNext
  BY <1>1, <1>11 DEF WorkerNext, WorkerActs, WorkerGetsStop
<1>12. CASE WorkerCrashes
  BY <1>0, <1>12 DEF WorkerCrashes, Fail
<1>13. CASE HandleLocalMessage
  BY <1>0, <1>13 DEF HandleLocalMessage, StatusAfter
<1>14. CASE UNCHANGED vars
  BY <1>1, <1>14 DEF vars
<1> QED
  BY <1>2, <1>3, <1>4, <1>5, <1>6, <1>7, <1>8, <1>9, <1>10, <1>11, <1>12, <1>13, <1>14
     DEF Next, Buttons, SubmitAnswered

\* The variables have their types, and the only socket that is open is the one
\* the engine holds (_connectWS and _disconnectWS of VidhiEngine.js).
THEOREM TypeCorrect == Spec => []TypeOK
<1>1. Init => TypeOK
  <2>1. 0 \in Ids /\ 0 \in 0..MaxStarts
    BY EngineAssumption DEF Ids, Foreign
  <2> QED BY <2>1 DEF Init, TypeOK
<1> QED BY <1>1, WireInit, WireStep, TypeStep, PTL DEF Spec
=============================================================================
