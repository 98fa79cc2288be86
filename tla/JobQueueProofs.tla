--------------------------- MODULE JobQueueProofs ---------------------------
(***************************************************************************)
(* Proofs about JobQueue, for any number of runs, workers, core pairs,     *)
(* retries, crashes and failing Redis calls: core pairs are neither shared *)
(* nor leaked, payloads do not outlive their retries, and a run is lost    *)
(* only by a crash, a lost BRPOP reply or a refused enqueue.               *)
(***************************************************************************)
EXTENDS JobQueue, FiniteSetTheorems, SequenceTheorems, TLAPS

Who == {"worker", "reaper"}
Jobs == {p \in [run : Runs, via : Seq(Who)] : Len(p.via) <= MaxRetries}

WorkerPcs == {"poll", "heartbeat", "activate", "check", "core", "spawn", "start", "gm", "lrem",
              "del", "retry", "mark", "giveup"}
ReaperPcs == {"idle", "scan", "lrem", "retry", "giveup"}
Statuses == {"queued", "running", "complete", "tle", "error"}

QueueInv == pending \in Seq(Jobs) /\ active \subseteq Jobs /\ rItems \subseteq Jobs

\* Who holds a payload: a worker from BRPOP to its return to the poll, the
\* reaper from EXISTS to the end of the item.
HandInv ==
    /\ wPc \in [Workers -> WorkerPcs] /\ wJob \in [Workers -> Jobs \cup {NoJob}]
    /\ \A w \in Workers : wPc[w] = "poll" <=> wJob[w] = NoJob
    /\ \A w \in Workers : wPc[w] = "retry" => Len(wJob[w].via) < MaxRetries
    /\ rPc \in ReaperPcs /\ rJob \in Jobs \cup {NoJob}
    /\ rPc \in {"idle", "scan"} <=> rJob = NoJob
    /\ rPc = "retry" => Len(rJob.via) < MaxRetries

StatusInv == heartbeat \subseteq Runs /\ status \in [Runs -> Statuses]

CoreInv ==
    /\ wCore \in [Workers -> Cores \cup {NoCore}] /\ corePool \subseteq Cores
    /\ CoresPartition

\* A worker reports success only for a run that is settled.
OkInv ==
    /\ wOk \in [Workers -> BOOLEAN]
    /\ \A w \in Workers : wOk[w] => wPc[w] \in {"lrem", "del"} /\ wJob[w].run \in settled

\* A worker that has enqueued its run again and only has to mark it does not
\* count any more: another worker may have finished the run by then.
Kept(r) ==
    \/ r \in settled \cup lost
    \/ \E i \in DOMAIN pending : pending[i].run = r
    \/ \E p \in active : p.run = r
    \/ \E w \in Workers : wPc[w] # "mark" /\ wJob[w].run = r
    \/ rJob.run = r

KeptInv == \A r \in Runs : Kept(r)

IInv == QueueInv /\ HandInv /\ StatusInv /\ CoreInv /\ OkInv /\ KeptInv

-----------------------------------------------------------------------------
(* Payloads *)

LEMMA NoJobIsNoJob == NoJob \notin Jobs /\ \A p \in Jobs : p.run # NoJob.run
BY QueueAssumption DEF Jobs, NoJob

LEMMA AgainIsJob ==
    ASSUME NEW p \in Jobs, NEW who \in Who, Len(p.via) < MaxRetries
    PROVE  Again(p, who) \in Jobs /\ Again(p, who).run = p.run
<1>1. p.via \in Seq(Who) /\ p.run \in Runs /\ p = [run |-> p.run, via |-> p.via]
  BY DEF Jobs
<1>2. Append(p.via, who) \in Seq(Who) /\ Len(Append(p.via, who)) = Len(p.via) + 1
  BY <1>1
<1>3. Again(p, who) = [run |-> p.run, via |-> Append(p.via, who)]
  BY <1>1 DEF Again
<1>4. Len(p.via) + 1 <= MaxRetries
  BY <1>1, QueueAssumption
<1> QED BY <1>1, <1>2, <1>3, <1>4 DEF Jobs

\* Enqueue keeps the list a list of payloads, and the run in it or in lost.
LEMMA EnqueueKeeps ==
    ASSUME pending \in Seq(Jobs), NEW p \in Jobs, NEW who \in Who,
           Len(p.via) < MaxRetries, Enqueue(p, who)
    PROVE  /\ pending' \in Seq(Jobs)
           /\ p.run \in lost' \/ \E i \in DOMAIN pending' : pending'[i].run = p.run
           /\ lost \subseteq lost'
           /\ \A r : (\E i \in DOMAIN pending : pending[i].run = r)
                      => \E i \in DOMAIN pending' : pending'[i].run = r
<1>1. CASE UNCHANGED pending /\ lost' = lost \cup {p.run}
  BY <1>1
<1>2. CASE pending' = Append(pending, Again(p, who)) /\ UNCHANGED lost
  <2>1. Again(p, who) \in Jobs /\ Again(p, who).run = p.run
    BY AgainIsJob
  <2>2. /\ pending' \in Seq(Jobs) /\ Len(pending') = Len(pending) + 1
        /\ pending'[Len(pending) + 1] = Again(p, who)
        /\ \A i \in 1..Len(pending) : pending'[i] = pending[i]
    BY <1>2, <2>1
  <2>3. DOMAIN pending = 1..Len(pending) /\ DOMAIN pending' = 1..(Len(pending) + 1)
    BY <2>2
  <2>4. Len(pending) + 1 \in DOMAIN pending' /\ DOMAIN pending \subseteq DOMAIN pending'
    BY <2>3
  <2> QED BY <1>2, <2>1, <2>2, <2>3, <2>4
<1> QED BY <1>1, <1>2 DEF Enqueue

\* BRPOP moves one payload.
LEMMA PopKeeps ==
    ASSUME pending \in Seq(Jobs), pending # <<>>, pending' = Tail(pending)
    PROVE  /\ Head(pending) \in Jobs /\ pending' \in Seq(Jobs)
           /\ \A i \in DOMAIN pending :
                 pending[i] = Head(pending) \/ \E j \in DOMAIN pending' : pending'[j] = pending[i]
<1>1. Head(pending) = pending[1] /\ Head(pending) \in Jobs /\ Tail(pending) \in Seq(Jobs)
  OBVIOUS
<1>2. Len(Tail(pending)) = Len(pending) - 1
      /\ \A j \in 1..(Len(pending) - 1) : Tail(pending)[j] = pending[j + 1]
  OBVIOUS
<1>3. ASSUME NEW i \in DOMAIN pending, i # 1
      PROVE  \E j \in DOMAIN pending' : pending'[j] = pending[i]
  <2>1. i - 1 \in 1..(Len(pending) - 1) /\ (i - 1) + 1 = i
    BY <1>3
  <2>2. DOMAIN pending' = 1..(Len(pending) - 1)
    BY <1>1, <1>2
  <2> QED BY <1>2, <2>1, <2>2
<1> QED BY <1>1, <1>3

-----------------------------------------------------------------------------
(* The lists and the hands *)

LEMMA QueueStep == QueueInv /\ HandInv /\ [Next]_vars => QueueInv'
<1> SUFFICES ASSUME QueueInv, HandInv, [Next]_vars PROVE QueueInv'
  OBVIOUS
<1> USE DEF QueueInv, HandInv, redis, reaper, workers, history
<1>1. ASSUME NEW w \in Workers, WorkerStep(w) PROVE QueueInv'
  <2>1. CASE BRPop(w)
    BY <2>1, PopKeeps DEF BRPop
  <2>2. CASE PushActive(w)
    <3>1. wJob[w] \in Jobs
      BY <2>2 DEF PushActive, At
    <3> QED BY <2>2, <3>1 DEF PushActive
  <2>3. CASE LRem(w)
    BY <2>3 DEF LRem
  <2>4. CASE Retry(w)
    <3>1. wJob[w] \in Jobs /\ Len(wJob[w].via) < MaxRetries
      BY <2>4 DEF Retry, At
    <3>2. pending' \in Seq(Jobs)
      BY <2>4, <3>1, EnqueueKeeps DEF Retry, Who
    <3> QED BY <2>4, <3>2 DEF Retry
  <2>5. CASE UNCHANGED <<redis, reaper>>
    BY <2>5
  <2>6. CASE UNCHANGED <<pending, active, reaper>>
    BY <2>6
  <2> QED
    BY <1>1, <2>1, <2>2, <2>3, <2>4, <2>5, <2>6
    DEF WorkerStep, SetHeartbeat, CheckFails, CheckPasses, TakeCore, SpawnReturns,
        StartGM, StartFails, GMCompletes, GMFails, Del, MarkQueued, GiveUp
<1>5. ASSUME NEW w \in Workers, BRPopFails(w) PROVE QueueInv'
  BY <1>5, PopKeeps DEF BRPopFails
<1>2. ASSUME ReaperStep PROVE QueueInv'
  <2>1. CASE ReapRetry
    <3>1. rJob \in Jobs /\ Len(rJob.via) < MaxRetries
      BY <2>1 DEF ReapRetry
    <3>2. pending' \in Seq(Jobs)
      BY <2>1, <3>1, EnqueueKeeps DEF ReapRetry, Who
    <3> QED BY <2>1, <3>2 DEF ReapRetry
  <2>2. CASE LRange \/ ReapLRem \/ ReapGiveUp \/ ScanEnds \/ \E p \in rItems : Exists(p)
    BY <2>2 DEF LRange, ReapLRem, ReapGiveUp, ScanEnds, Exists
  <2> QED BY <1>2, <2>1, <2>2 DEF ReaperStep
<1>3. CASE Crash
  BY <1>3 DEF Crash
<1>4. CASE UNCHANGED vars \/ \E r \in Runs : Expire(r)
  BY <1>4 DEF vars, Expire
<1> QED BY <1>1, <1>2, <1>3, <1>4, <1>5 DEF Next, Drained

\* One worker moves on with the payload it has, or to the poll without one.
LEMMA WorkerMoves ==
    ASSUME HandInv, NEW w \in Workers, NEW pc \in WorkerPcs, NEW p \in Jobs \cup {NoJob},
           wPc' = [wPc EXCEPT ![w] = pc], wJob' = [wJob EXCEPT ![w] = p],
           pc = "poll" <=> p = NoJob, pc = "retry" => Len(p.via) < MaxRetries,
           UNCHANGED reaper
    PROVE  HandInv'
<1> USE DEF HandInv, reaper
<1>1. wPc' \in [Workers -> WorkerPcs] /\ wJob' \in [Workers -> Jobs \cup {NoJob}]
  OBVIOUS
<1>2. ASSUME NEW v \in Workers
      PROVE  /\ wPc'[v] = "poll" <=> wJob'[v] = NoJob
             /\ wPc'[v] = "retry" => Len(wJob'[v].via) < MaxRetries
  BY <1>1
<1> QED BY <1>1, <1>2

LEMMA HandStep == QueueInv /\ HandInv /\ [Next]_vars => HandInv'
<1> SUFFICES ASSUME QueueInv, HandInv, [Next]_vars PROVE HandInv'
  OBVIOUS
<1> USE DEF redis, reaper, workers, history
<1>1. ASSUME NEW w \in Workers, WorkerStep(w) PROVE HandInv'
  <2> DEFINE job == wJob[w]
  <2>0. /\ job \in Jobs \cup {NoJob} /\ (wPc[w] = "poll" <=> job = NoJob)
        /\ wJob = [wJob EXCEPT ![w] = job]
    BY DEF HandInv
  <2>1. CASE BRPop(w)
    <3>1. Head(pending) \in Jobs
      BY <2>1, PopKeeps DEF BRPop, QueueInv
    <3> QED BY <2>1, <3>1, NoJobIsNoJob, WorkerMoves DEF BRPop, Goto, WorkerPcs
  <2>2. CASE Del(w)
    <3> DEFINE pc == AfterDel(w)
    <3>1. pc \in WorkerPcs /\ (pc = "retry" => Len(job.via) < MaxRetries)
      BY DEF AfterDel, MayRetry, Retries, WorkerPcs
    <3>2. job # NoJob
      BY <2>0, <2>2 DEF Del, At
    <3>3. wPc' = [wPc EXCEPT ![w] = pc] /\ UNCHANGED reaper
      BY <2>2 DEF Del, Goto
    <3>4. CASE pc = "poll"
      <4>1. wJob' = [wJob EXCEPT ![w] = NoJob]
        BY <2>2, <3>4 DEF Del, Forget
      <4> QED BY <3>1, <3>3, <3>4, <4>1, WorkerMoves
    <3>5. CASE pc # "poll"
      <4>1. wJob' = [wJob EXCEPT ![w] = job]
        BY <2>0, <2>2, <3>5 DEF Del, Forget
      <4> HIDE DEF pc, job
      <4> QED BY <2>0, <3>1, <3>2, <3>3, <3>5, <4>1, WorkerMoves
    <3> QED BY <3>4, <3>5
  <2>3. CASE MarkQueued(w) \/ GiveUp(w)
    <3>1. /\ wPc' = [wPc EXCEPT ![w] = "poll"] /\ wJob' = [wJob EXCEPT ![w] = NoJob]
          /\ UNCHANGED reaper
      BY <2>3 DEF MarkQueued, GiveUp, Goto, Forget
    <3> QED BY <3>1, WorkerMoves DEF WorkerPcs
  <2>4. ASSUME NEW pc \in {"activate", "check", "core", "spawn", "start", "gm", "lrem", "del", "mark"},
               wPc[w] # "poll", wPc' = [wPc EXCEPT ![w] = pc], UNCHANGED <<wJob, reaper>>
        PROVE  HandInv'
    <3>1. wJob' = [wJob EXCEPT ![w] = job] /\ job # NoJob /\ pc \in WorkerPcs
      BY <2>0, <2>4 DEF WorkerPcs
    <3> HIDE DEF job
    <3> QED BY <2>0, <2>4, <3>1, WorkerMoves
  <2>5. CASE SetHeartbeat(w) \/ PushActive(w) \/ LRem(w) \/ Retry(w)
    BY <2>4, <2>5 DEF SetHeartbeat, PushActive, LRem, Retry, Goto, At
  <2>8. CASE CheckPasses(w) \/ SpawnReturns(w)
    BY <2>4, <2>8 DEF CheckPasses, SpawnReturns, Goto, At
  <2>6. CASE TakeCore(w) \/ StartGM(w) \/ StartFails(w) \/ GMCompletes(w)
    BY <2>4, <2>6 DEF TakeCore, StartGM, StartFails, GMCompletes, Return, Goto, At
  <2>7. ASSUME NEW b \in BOOLEAN, CheckFails(w, b) \/ GMFails(w, b) PROVE HandInv'
    BY <2>4, <2>7 DEF CheckFails, GMFails, Return, Goto, At
  <2> QED
    BY <1>1, <2>1, <2>2, <2>3, <2>5, <2>6, <2>7, <2>8 DEF WorkerStep
<1>5. ASSUME NEW w \in Workers, BRPopFails(w) PROVE HandInv'
  BY <1>5 DEF BRPopFails, HandInv
<1>2. ASSUME ReaperStep PROVE HandInv'
  <2>1. CASE ReapLRem
    BY <2>1 DEF ReapLRem, HandInv, ReaperPcs, MayRetry, Retries
  <2>2. CASE LRange \/ ReapRetry \/ ReapGiveUp \/ ScanEnds
    BY <2>2 DEF LRange, ReapRetry, ReapGiveUp, ScanEnds, HandInv, ReaperPcs
  <2>3. ASSUME NEW p \in rItems, Exists(p) PROVE HandInv'
    <3>1. p \in Jobs /\ p # NoJob
      BY NoJobIsNoJob DEF QueueInv
    <3> QED BY <2>3, <3>1 DEF Exists, HandInv, ReaperPcs
  <2> QED BY <1>2, <2>1, <2>2, <2>3 DEF ReaperStep
<1>3. CASE Crash
  BY <1>3 DEF Crash, HandInv, WorkerPcs, ReaperPcs
<1>4. CASE UNCHANGED vars \/ \E r \in Runs : Expire(r)
  BY <1>4 DEF vars, Expire, HandInv
<1> QED BY <1>1, <1>2, <1>3, <1>4, <1>5 DEF Next, Drained

-----------------------------------------------------------------------------
(* Status, core pairs and results *)

LEMMA StatusStep == QueueInv /\ HandInv /\ StatusInv /\ [Next]_vars => StatusInv'
<1> SUFFICES ASSUME QueueInv, HandInv, StatusInv, [Next]_vars PROVE StatusInv'
  OBVIOUS
<1> USE DEF StatusInv, Statuses, redis, reaper, workers, history
<1>1. ASSUME NEW w \in Workers, WorkerStep(w) PROVE StatusInv'
  <2>1. wPc[w] # "poll" => wJob[w].run \in Runs
    BY DEF HandInv, Jobs
  <2>2. CASE SetHeartbeat(w) \/ Del(w)
    BY <2>1, <2>2 DEF SetHeartbeat, Del, At
  <2>3. CASE StartGM(w) \/ GMCompletes(w) \/ MarkQueued(w) \/ GiveUp(w)
    BY <2>1, <2>3 DEF StartGM, GMCompletes, MarkQueued, GiveUp, SetStatus, At
  <2>4. ASSUME NEW b \in BOOLEAN, CheckFails(w, b) \/ GMFails(w, b) PROVE StatusInv'
    BY <2>1, <2>4 DEF CheckFails, GMFails, SetStatus, At
  <2>5. CASE UNCHANGED <<heartbeat, status>>
    BY <2>5
  <2> QED
    BY <1>1, <2>2, <2>3, <2>4, <2>5
    DEF WorkerStep, BRPop, PushActive, CheckPasses, TakeCore, SpawnReturns, StartFails, LRem, Retry
<1>5. ASSUME NEW w \in Workers, BRPopFails(w) PROVE StatusInv'
  BY <1>5 DEF BRPopFails
<1>2. ASSUME ReaperStep PROVE StatusInv'
  <2>1. CASE ReapGiveUp
    <3>1. rJob.run \in Runs
      BY <2>1 DEF ReapGiveUp, HandInv, Jobs
    <3> QED BY <2>1, <3>1 DEF ReapGiveUp, SetStatus
  <2>2. CASE UNCHANGED <<heartbeat, status>>
    BY <2>2
  <2> QED BY <1>2, <2>1, <2>2 DEF ReaperStep, LRange, Exists, ReapLRem, ReapRetry, ScanEnds
<1>3. CASE Crash
  BY <1>3 DEF Crash
<1>4. CASE UNCHANGED vars \/ \E r \in Runs : Expire(r)
  BY <1>4 DEF vars, Expire
<1> QED BY <1>1, <1>2, <1>3, <1>4, <1>5 DEF Next, Drained

\* The core pairs that are in use.
Used == {wCore[w] : w \in {v \in Workers : wCore[v] # NoCore}}

LEMMA CoreStep == HandInv /\ CoreInv /\ [Next]_vars => CoreInv'
<1> SUFFICES ASSUME HandInv, CoreInv, [Next]_vars PROVE CoreInv'
  OBVIOUS
<1>0. NoCore \notin Cores
  BY QueueAssumption DEF NoCore
<1> USE DEF CoreInv, CoresPartition, redis, reaper, workers, history
<1>a. wPc \in [Workers -> WorkerPcs]
  BY DEF HandInv
<1>1. ASSUME NEW w \in Workers, WorkerStep(w) PROVE CoreInv'
  <2>1. ASSUME NEW pc, wPc' = [wPc EXCEPT ![w] = pc], UNCHANGED <<wCore, corePool>>,
               wPc[w] \in {"spawn", "start", "gm"} <=> pc \in {"spawn", "start", "gm"}
        PROVE  CoreInv'
    <3>1. \A v \in Workers : wPc'[v] \in {"spawn", "start", "gm"} <=> wPc[v] \in {"spawn", "start", "gm"}
      BY <1>a, <2>1
    <3> QED BY <2>1, <3>1
  <2>2. CASE TakeCore(w)
    <3>1. PICK c \in corePool : wCore' = [wCore EXCEPT ![w] = c] /\ corePool' = corePool \ {c}
      BY <2>2 DEF TakeCore
    <3>2. wPc' = [wPc EXCEPT ![w] = "spawn"] /\ wPc[w] = "core"
      BY <2>2 DEF TakeCore, Goto, At
    <3>3. c \in Cores /\ c # NoCore /\ wCore[w] = NoCore
      BY <1>0, <3>2
    <3>4. wCore' \in [Workers -> Cores \cup {NoCore}] /\ corePool' \subseteq Cores
      BY <3>1, <3>3
    <3>5. \A v \in Workers : wCore'[v] # NoCore <=> wPc'[v] \in {"spawn", "start", "gm"}
      BY <1>a, <3>1, <3>2, <3>3
    <3>6. \A v \in Workers : wCore'[v] \notin corePool'
      BY <3>1
    <3>7. \A u, v \in Workers : u # v /\ wCore'[u] # NoCore => wCore'[u] # wCore'[v]
      BY <3>1, <3>3
    <3>8. corePool' \cup {wCore'[v] : v \in {u \in Workers : wCore'[u] # NoCore}} = Cores
      <4>1. {wCore'[v] : v \in {u \in Workers : wCore'[u] # NoCore}} = Used \cup {c}
        BY <3>1, <3>3 DEF Used
      <4>2. corePool \cup Used = Cores
        BY DEF Used
      <4> QED BY <3>1, <4>1, <4>2
    <3> QED BY <3>4, <3>5, <3>6, <3>7, <3>8
  <2>3. ASSUME wPc[w] \in {"spawn", "start", "gm"}, ReturnCore(w), wPc' = [wPc EXCEPT ![w] = "lrem"]
        PROVE  CoreInv'
    <3> DEFINE c == wCore[w]
    <3>1. wCore' = [wCore EXCEPT ![w] = NoCore] /\ corePool' = corePool \cup {c}
      BY <2>3 DEF ReturnCore, FreeCore
    <3>3. c \in Cores /\ c # NoCore
      BY <2>3
    <3>4. wCore' \in [Workers -> Cores \cup {NoCore}] /\ corePool' \subseteq Cores
      BY <3>1, <3>3
    <3>5. \A v \in Workers : wCore'[v] # NoCore <=> wPc'[v] \in {"spawn", "start", "gm"}
      BY <1>a, <2>3, <3>1
    <3>6. \A v \in Workers : wCore'[v] \notin corePool'
      <4> TAKE v \in Workers
      <4>1. CASE v = w
        BY <1>0, <3>1, <3>3, <4>1
      <4>2. CASE v # w
        BY <3>1, <3>3, <4>2
      <4> QED BY <4>1, <4>2
    <3>7. \A u, v \in Workers : u # v /\ wCore'[u] # NoCore => wCore'[u] # wCore'[v]
      BY <3>1, <3>3
    <3>8. corePool' \cup {wCore'[v] : v \in {u \in Workers : wCore'[u] # NoCore}} = Cores
      <4>1. {wCore'[v] : v \in {u \in Workers : wCore'[u] # NoCore}} = Used \ {c}
        BY <3>1, <3>3 DEF Used
      <4>2. corePool \cup Used = Cores
        BY DEF Used
      <4> QED BY <3>1, <3>3, <4>1, <4>2
    <3> QED BY <3>4, <3>5, <3>6, <3>7, <3>8
  <2>4. CASE StartFails(w) \/ GMCompletes(w)
    BY <2>3, <2>4 DEF StartFails, GMCompletes, Return, Goto, At
  <2>5. ASSUME NEW b \in BOOLEAN, GMFails(w, b) PROVE CoreInv'
    BY <2>3, <2>5 DEF GMFails, Return, Goto, At
  <2>6. ASSUME NEW b \in BOOLEAN, CheckFails(w, b) PROVE CoreInv'
    BY <2>1, <2>6 DEF CheckFails, Return, Goto, At
  <2>7. CASE BRPop(w) \/ SetHeartbeat(w) \/ PushActive(w) \/ StartGM(w)
    BY <2>1, <2>7 DEF BRPop, SetHeartbeat, PushActive, StartGM, Goto, At
  <2>8. CASE LRem(w) \/ Retry(w) \/ MarkQueued(w) \/ GiveUp(w)
    BY <2>1, <2>8 DEF LRem, Retry, MarkQueued, GiveUp, Goto, At
  <2>9. CASE Del(w)
    <3>1. AfterDel(w) \notin {"spawn", "start", "gm"}
      BY DEF AfterDel
    <3> QED BY <2>1, <2>9, <3>1 DEF Del, Goto, At
  <2>10. CASE CheckPasses(w) \/ SpawnReturns(w)
    BY <2>1, <2>10 DEF CheckPasses, SpawnReturns, Goto, At
  <2> QED BY <1>1, <2>2, <2>4, <2>5, <2>6, <2>7, <2>8, <2>9, <2>10 DEF WorkerStep
<1>2. CASE UNCHANGED workers
  BY <1>2
<1>3. CASE Crash
  <2>1. /\ wPc' = [w \in Workers |-> "poll"] /\ wCore' = [w \in Workers |-> NoCore]
        /\ corePool' = Cores
    BY <1>3 DEF Crash
  <2> QED BY <1>0, <2>1
<1> QED
  BY <1>1, <1>2, <1>3
  DEF Next, Drained, vars, Expire, BRPopFails, ReaperStep, LRange, Exists, ReapLRem, ReapRetry,
      ReapGiveUp, ScanEnds

LEMMA OkStep == HandInv /\ OkInv /\ [Next]_vars => OkInv'
<1> SUFFICES ASSUME HandInv, OkInv, [Next]_vars PROVE OkInv'
  OBVIOUS
<1> USE DEF OkInv, redis, reaper, workers, history
<1>a. wPc \in [Workers -> WorkerPcs] /\ wJob \in [Workers -> Jobs \cup {NoJob}]
  BY DEF HandInv
<1>1. ASSUME NEW w \in Workers, WorkerStep(w) PROVE OkInv'
  <2>1. ASSUME NEW pc, wPc' = [wPc EXCEPT ![w] = pc], ~wOk[w],
               NEW p, wJob' = [wJob EXCEPT ![w] = p], UNCHANGED wOk, settled \subseteq settled'
        PROVE  OkInv'
    <3>1. \A v \in Workers : v # w => wPc'[v] = wPc[v] /\ wJob'[v] = wJob[v]
      BY <1>a, <2>1
    <3> QED BY <2>1, <3>1
  <2>2. wPc[w] \notin {"lrem", "del"} => ~wOk[w]
    OBVIOUS
  <2>3. wJob = [wJob EXCEPT ![w] = wJob[w]]
    BY <1>a
  <2>4. ASSUME NEW b \in BOOLEAN, wPc' = [wPc EXCEPT ![w] = "lrem"],
               wOk' = [wOk EXCEPT ![w] = b], UNCHANGED wJob, settled \subseteq settled',
               b => wJob[w].run \in settled'
        PROVE  OkInv'
    <3>1. wOk' \in [Workers -> BOOLEAN]
      BY <2>4
    <3>2. ASSUME NEW v \in Workers, wOk'[v]
          PROVE  wPc'[v] \in {"lrem", "del"} /\ wJob'[v].run \in settled'
      BY <1>a, <2>4, <3>2
    <3> QED BY <3>1, <3>2
  <2>5. CASE BRPop(w)
    BY <2>1, <2>2, <2>5 DEF BRPop, Goto, At
  <2>6. CASE SetHeartbeat(w) \/ PushActive(w) \/ TakeCore(w) \/ StartGM(w) \/ Retry(w)
    BY <2>1, <2>2, <2>3, <2>6 DEF SetHeartbeat, PushActive, TakeCore, StartGM, Retry, Goto, At
  <2>7. CASE MarkQueued(w) \/ GiveUp(w)
    BY <2>1, <2>2, <2>7 DEF MarkQueued, GiveUp, Goto, Forget, At
  <2>8. CASE StartFails(w) \/ GMCompletes(w)
    BY <2>4, <2>8 DEF StartFails, GMCompletes, Return, Goto
  <2>9. ASSUME NEW b \in BOOLEAN, CheckFails(w, b) \/ GMFails(w, b) PROVE OkInv'
    BY <2>4, <2>9 DEF CheckFails, GMFails, Return, Goto
  <2>10. CASE LRem(w)
    <3>1. wPc' = [wPc EXCEPT ![w] = "del"] /\ UNCHANGED <<wOk, wJob, settled>>
      BY <2>10 DEF LRem, Goto
    <3>2. \A v \in Workers : wPc[v] \in {"lrem", "del"} => wPc'[v] \in {"lrem", "del"}
      BY <1>a, <3>1
    <3> QED BY <3>1, <3>2
  <2>11. CASE Del(w)
    <3>1. /\ wPc' = [wPc EXCEPT ![w] = AfterDel(w)] /\ wOk' = [wOk EXCEPT ![w] = FALSE]
          /\ UNCHANGED settled
          /\ wJob' = wJob \/ wJob' = [wJob EXCEPT ![w] = NoJob]
      BY <2>11 DEF Del, Goto, Forget
    <3>2. \A v \in Workers : v # w => wPc'[v] = wPc[v] /\ wJob'[v] = wJob[v]
      BY <1>a, <3>1
    <3>3. wOk' \in [Workers -> BOOLEAN] /\ ~wOk'[w]
      BY <3>1
    <3>4. \A v \in Workers : v # w => wOk'[v] = wOk[v]
      BY <3>1
    <3> QED BY <3>1, <3>2, <3>3, <3>4
  <2>12. CASE CheckPasses(w) \/ SpawnReturns(w)
    BY <2>1, <2>2, <2>3, <2>12 DEF CheckPasses, SpawnReturns, Goto, At
  <2> QED
    BY <1>1, <2>5, <2>6, <2>7, <2>8, <2>9, <2>10, <2>11, <2>12 DEF WorkerStep
<1>2. CASE UNCHANGED workers /\ settled \subseteq settled'
  BY <1>2
<1>3. CASE Crash
  BY <1>3 DEF Crash
<1> QED
  BY <1>1, <1>2, <1>3
  DEF Next, Drained, vars, Expire, BRPopFails, ReaperStep, LRange, Exists, ReapLRem, ReapRetry,
      ReapGiveUp, ScanEnds

-----------------------------------------------------------------------------
(* No run is lost *)

LEMMA KeptStep == QueueInv /\ HandInv /\ OkInv /\ KeptInv /\ [Next]_vars => KeptInv'
<1> SUFFICES ASSUME QueueInv, HandInv, OkInv, KeptInv, [Next]_vars, NEW r \in Runs
             PROVE  Kept(r)'
  BY DEF KeptInv
<1>0. Kept(r)
  BY DEF KeptInv
<1> USE DEF redis, reaper, workers, history
<1>a. wPc \in [Workers -> WorkerPcs] /\ wJob \in [Workers -> Jobs \cup {NoJob}]
  BY DEF HandInv
<1>1. ASSUME NEW w \in Workers, WorkerStep(w) PROVE Kept(r)'
  \* The other workers keep what they hold.
  <2> DEFINE Elsewhere ==
               \/ r \in settled \cup lost
               \/ \E i \in DOMAIN pending : pending[i].run = r
               \/ \E p \in active : p.run = r
               \/ rJob.run = r
  <2>1. ASSUME NEW pc, wPc' = [wPc EXCEPT ![w] = pc],
               NEW p, wJob' = [wJob EXCEPT ![w] = p],
               NEW v \in Workers, v # w, wPc[v] # "mark", wJob[v].run = r
        PROVE  Kept(r)'
    <3>1. wPc'[v] = wPc[v] /\ wJob'[v] = wJob[v]
      BY <1>a, <2>1
    <3> QED BY <2>1, <3>1 DEF Kept
  <2>2. wJob = [wJob EXCEPT ![w] = wJob[w]]
    BY <1>a
  \* w goes on with its payload in its hands.
  <2>3. ASSUME NEW pc, pc # "mark", wPc' = [wPc EXCEPT ![w] = pc], UNCHANGED <<wJob, rJob>>,
               pending' = pending, settled \subseteq settled', lost' = lost,
               \A p \in active : p \in active' \/ p = wJob[w]
        PROVE  Kept(r)'
    <3>1. CASE wJob[w].run = r
      <4>1. wPc'[w] = pc /\ wJob'[w] = wJob[w]
        BY <1>a, <2>3
      <4> QED BY <2>3, <3>1, <4>1 DEF Kept
    <3>2. CASE wJob[w].run # r
      <4>1. CASE Elsewhere
        BY <2>3, <3>2, <4>1 DEF Kept
      <4>2. CASE \E v \in Workers : wPc[v] # "mark" /\ wJob[v].run = r
        BY <2>1, <2>2, <2>3, <3>2, <4>2
      <4> HIDE DEF Elsewhere
      <4> QED BY <1>0, <4>1, <4>2 DEF Kept, Elsewhere
    <3> QED BY <3>1, <3>2
  \* w goes to the poll: its run is settled, or w was no longer counted.
  <2>4. ASSUME wPc' = [wPc EXCEPT ![w] = "poll"], wJob' = [wJob EXCEPT ![w] = NoJob],
               UNCHANGED <<pending, active, rJob, lost>>, settled \subseteq settled',
               wPc[w] = "mark" \/ wJob[w].run \in settled'
        PROVE  Kept(r)'
    <3>1. CASE Elsewhere
      BY <2>4, <3>1 DEF Kept
    <3>2. ASSUME NEW v \in Workers, wPc[v] # "mark", wJob[v].run = r PROVE Kept(r)'
      <4>1. CASE v = w
        BY <2>4, <3>2, <4>1 DEF Kept
      <4>2. CASE v # w
        BY <2>1, <2>4, <3>2, <4>2
      <4> QED BY <4>1, <4>2
    <3> QED BY <1>0, <3>1, <3>2 DEF Kept
  <2>5. CASE BRPop(w)
    <3>1. /\ wPc' = [wPc EXCEPT ![w] = "heartbeat"]
          /\ wJob' = [wJob EXCEPT ![w] = Head(pending)]
          /\ UNCHANGED <<active, rJob, settled, lost>>
      BY <2>5 DEF BRPop, Goto
    <3>2. wPc'[w] = "heartbeat" /\ wJob'[w] = Head(pending)
      BY <1>a, <3>1
    <3>3. ASSUME NEW i \in DOMAIN pending, pending[i].run = r PROVE Kept(r)'
      <4>1. pending[i] = Head(pending) \/ \E j \in DOMAIN pending' : pending'[j] = pending[i]
        BY <2>5, PopKeeps DEF BRPop, QueueInv
      <4> QED BY <3>2, <3>3, <4>1 DEF Kept
    <3>4. ASSUME NEW v \in Workers, wPc[v] # "mark", wJob[v].run = r PROVE Kept(r)'
      <4>1. v # w
        BY <2>5, <3>4, NoJobIsNoJob, QueueAssumption DEF BRPop, At, HandInv, NoJob
      <4> QED BY <2>1, <3>1, <3>4, <4>1
    <3>5. CASE r \in settled \cup lost \/ (\E p \in active : p.run = r) \/ rJob.run = r
      BY <3>1, <3>5 DEF Kept
    <3> QED BY <1>0, <3>3, <3>4, <3>5 DEF Kept
  <2>6. CASE SetHeartbeat(w) \/ PushActive(w) \/ TakeCore(w) \/ StartGM(w)
    BY <2>3, <2>6 DEF SetHeartbeat, PushActive, TakeCore, StartGM, Goto
  <2>7. CASE StartFails(w) \/ GMCompletes(w) \/ LRem(w)
    BY <2>3, <2>7 DEF StartFails, GMCompletes, LRem, Return, Goto
  <2>8. ASSUME NEW b \in BOOLEAN, CheckFails(w, b) \/ GMFails(w, b) PROVE Kept(r)'
    BY <2>3, <2>8 DEF CheckFails, GMFails, Return, Goto
  <2>9. CASE Del(w)
    <3>1. CASE wOk[w]
      <4>1. AfterDel(w) = "poll" /\ wJob[w].run \in settled
        BY <3>1 DEF AfterDel, OkInv
      <4> QED BY <2>4, <2>9, <4>1 DEF Del, Goto, Forget
    <3>2. CASE ~wOk[w]
      <4>1. AfterDel(w) \in {"retry", "giveup"}
        BY <3>2 DEF AfterDel
      <4> QED BY <2>3, <2>9, <4>1 DEF Del, Goto, Forget
    <3> QED BY <3>1, <3>2
  <2>10. CASE MarkQueued(w) \/ GiveUp(w)
    BY <2>4, <2>10 DEF MarkQueued, GiveUp, Goto, Forget, At
  <2>11. CASE Retry(w)
    <3>1. wJob[w] \in Jobs /\ Len(wJob[w].via) < MaxRetries
      BY <2>11 DEF Retry, At, HandInv
    <3>2. /\ wJob[w].run \in lost' \/ \E i \in DOMAIN pending' : pending'[i].run = wJob[w].run
          /\ lost \subseteq lost'
          /\ (\E i \in DOMAIN pending : pending[i].run = r)
               => \E i \in DOMAIN pending' : pending'[i].run = r
      BY <2>11, <3>1, EnqueueKeeps DEF Retry, Who, QueueInv
    <3>3. wPc' = [wPc EXCEPT ![w] = "mark"] /\ UNCHANGED <<active, wJob, rJob, settled>>
      BY <2>11 DEF Retry, Goto
    <3>4. CASE wJob[w].run = r
      BY <3>2, <3>4 DEF Kept
    <3>5. ASSUME wJob[w].run # r, NEW v \in Workers, wPc[v] # "mark", wJob[v].run = r
          PROVE  Kept(r)'
      <4>1. v # w
        BY <3>5
      <4> QED BY <2>1, <2>2, <3>3, <3>5, <4>1
    <3>6. CASE Elsewhere
      BY <3>2, <3>3, <3>6 DEF Kept
    <3> QED BY <1>0, <3>4, <3>5, <3>6 DEF Kept
  <2>12. CASE CheckPasses(w) \/ SpawnReturns(w)
    BY <2>3, <2>12 DEF CheckPasses, SpawnReturns, Goto
  <2> QED
    BY <1>1, <2>5, <2>6, <2>7, <2>8, <2>9, <2>10, <2>11, <2>12 DEF WorkerStep
<1>5. ASSUME NEW w \in Workers, BRPopFails(w) PROVE Kept(r)'
  <2>1. \A i \in DOMAIN pending :
            pending[i] = Head(pending) \/ \E j \in DOMAIN pending' : pending'[j] = pending[i]
    BY <1>5, PopKeeps DEF BRPopFails, QueueInv
  <2>2. /\ lost' = lost \cup {Head(pending).run}
        /\ UNCHANGED <<active, wPc, wJob, rJob, settled>>
    BY <1>5 DEF BRPopFails
  <2> QED BY <1>0, <2>1, <2>2 DEF Kept
<1>2. ASSUME ReaperStep PROVE Kept(r)'
  <2>0. UNCHANGED <<wPc, wJob>>
    BY <1>2 DEF ReaperStep, LRange, Exists, ReapLRem, ReapRetry, ReapGiveUp, ScanEnds
  <2>1. ASSUME NEW p \in rItems, Exists(p) PROVE Kept(r)'
    <3>1. rJob = NoJob
      BY <2>1 DEF Exists, HandInv
    <3>2. rJob.run # r
      BY <3>1, QueueAssumption DEF NoJob
    <3> QED BY <1>0, <2>0, <2>1, <3>2 DEF Exists, Kept
  <2>2. CASE ReapLRem
    BY <1>0, <2>0, <2>2 DEF ReapLRem, Kept
  <2>3. CASE ReapRetry
    <3>1. rJob \in Jobs /\ Len(rJob.via) < MaxRetries
      BY <2>3 DEF ReapRetry, HandInv
    <3>2. /\ rJob.run \in lost' \/ \E i \in DOMAIN pending' : pending'[i].run = rJob.run
          /\ lost \subseteq lost'
          /\ (\E i \in DOMAIN pending : pending[i].run = r)
               => \E i \in DOMAIN pending' : pending'[i].run = r
      BY <2>3, <3>1, EnqueueKeeps DEF ReapRetry, Who, QueueInv
    <3>3. UNCHANGED <<active, settled>>
      BY <2>3 DEF ReapRetry
    <3>4. CASE rJob.run = r
      BY <3>2, <3>4 DEF Kept
    <3> QED BY <1>0, <2>0, <3>2, <3>3, <3>4 DEF Kept
  <2>4. CASE ReapGiveUp
    BY <1>0, <2>0, <2>4 DEF ReapGiveUp, Kept
  <2>5. CASE LRange \/ ScanEnds
    BY <1>0, <2>0, <2>5 DEF LRange, ScanEnds, Kept
  <2> QED BY <1>2, <2>1, <2>2, <2>3, <2>4, <2>5 DEF ReaperStep
<1>3. CASE Crash
  <2>1. /\ UNCHANGED <<pending, active, settled>>
        /\ lost' = lost \cup {q \in Runs : InHand(q) /\ ~InRedis(q)}
    BY <1>3 DEF Crash
  <2> QED BY <1>0, <2>1 DEF Kept, InHand, InRedis
<1>4. CASE UNCHANGED vars \/ \E q \in Runs : Expire(q)
  BY <1>0, <1>4 DEF vars, Expire, Kept
<1> QED BY <1>1, <1>2, <1>3, <1>4, <1>5 DEF Next, Drained

-----------------------------------------------------------------------------
(* The theorems *)

\* At the start every run is queued: a list as long as Runs without a double
\* has them all.
LEMMA AllQueued ==
    ASSUME NEW order \in [1..Cardinality(Runs) -> Runs],
           \A i, j \in DOMAIN order : order[i] = order[j] => i = j,
           NEW r \in Runs
    PROVE  \E i \in DOMAIN order : order[i] = r
<1>1. Cardinality(Runs) \in Nat /\ IsFiniteSet(Runs)
  BY QueueAssumption, FS_CardinalityType
<1>2. IsFiniteSet(1..Cardinality(Runs)) /\ Cardinality(1..Cardinality(Runs)) = Cardinality(Runs)
  BY <1>1, FS_Interval
<1>3. order \in Injection(1..Cardinality(Runs), Runs)
  BY DEF Injection, IsInjective
<1>4. order \in Surjection(1..Cardinality(Runs), Runs)
  BY <1>1, <1>2, <1>3, FS_Injection
<1> QED BY <1>4 DEF Surjection

LEMMA InitInv == Init => IInv
<1> SUFFICES ASSUME Init PROVE IInv
  OBVIOUS
<1>1. PICK order \in [1..Cardinality(Runs) -> Runs] :
          /\ \A i, j \in DOMAIN order : order[i] = order[j] => i = j
          /\ pending = [i \in DOMAIN order |-> Job(order[i])]
  BY DEF Init
<1>2. \A q \in Runs : Job(q) \in Jobs /\ Job(q).run = q
  <2>1. <<>> \in Seq(Who) /\ Len(<<>>) = 0 /\ 0 <= MaxRetries
    BY QueueAssumption
  <2> QED BY <2>1 DEF Job, Jobs
<1>3. pending \in Seq(Jobs) /\ DOMAIN pending = DOMAIN order
  <2>1. Cardinality(Runs) \in Nat
    BY QueueAssumption, FS_CardinalityType
  <2> QED BY <1>1, <1>2, <2>1
<1>4. QueueInv
  BY <1>3 DEF Init, QueueInv
<1>5. HandInv
  BY DEF Init, HandInv, WorkerPcs, ReaperPcs
<1>6. StatusInv
  BY DEF Init, StatusInv, Statuses
<1>7. CoreInv
  BY QueueAssumption DEF Init, CoreInv, CoresPartition, NoCore
<1>8. OkInv
  BY DEF Init, OkInv
<1>9. KeptInv
  <2> SUFFICES ASSUME NEW r \in Runs PROVE \E i \in DOMAIN pending : pending[i].run = r
    BY DEF KeptInv, Kept
  <2>1. PICK i \in DOMAIN order : order[i] = r
    BY <1>1, AllQueued
  <2>2. pending[i] = Job(r)
    BY <1>1, <2>1
  <2> QED BY <1>2, <1>3, <2>1, <2>2
<1> QED BY <1>4, <1>5, <1>6, <1>7, <1>8, <1>9 DEF IInv

LEMMA Inductive == Spec => []IInv
<1>1. IInv /\ [Next]_vars => IInv'
  BY QueueStep, HandStep, StatusStep, CoreStep, OkStep, KeptStep DEF IInv
<1> QED BY InitInv, <1>1, PTL DEF Spec

\* A core pair is never shared by two Game Masters and never leaks, whichever
\* way processJob returns and whenever the process crashes; no payload is
\* queued beyond MaxRetries (job_worker.go: processJob, loop, reapStale).
THEOREM CoresAreSound == Spec => []WorkersSound
<1>1. IInv => WorkersSound
  <2> SUFFICES ASSUME IInv PROVE TypeOK /\ CoresPartition
    BY DEF WorkersSound
  <2>1. \A p \in Jobs : Payload(p)
    BY DEF Jobs, Payload, Retries
  <2>2. \A i \in DOMAIN pending : pending[i] \in Jobs
    BY DEF IInv, QueueInv
  <2> QED
    BY <2>1, <2>2
    DEF IInv, QueueInv, HandInv, StatusInv, CoreInv, Statuses, TypeOK, At
<1> QED BY Inductive, <1>1, PTL

\* An unfinished run that was not dropped by a crash, by a lost BRPOP reply or by a
\* refused enqueue is in a Redis list or in the hands of a goroutine, through retries,
\* expiring heartbeats and reaps of runs that are still worked on.
THEOREM RunsAreKept == Spec => []LossNeedsFault
<1>1. IInv => LossNeedsFault
  BY DEF IInv, KeptInv, Kept, LossNeedsFault, InRedis, InHand
<1> QED BY Inductive, <1>1, PTL
=============================================================================
