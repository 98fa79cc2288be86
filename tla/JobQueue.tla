------------------------------ MODULE JobQueue ------------------------------
(***************************************************************************)
(* The run queue of backend/worker/job_worker.go: two Redis lists and a    *)
(* heartbeat key per run, the worker goroutines, the reaper, the pool of   *)
(* core pairs and the status column of the runs table.  Every Redis or     *)
(* database call is a step of its own.                                     *)
(*                                                                         *)
(* The control plane is one process: a crash takes all its goroutines, and *)
(* a restart starts them afresh.  Redis and the database survive.          *)
(* A payload carries the time it was enqueued, which makes it unique; here *)
(* it carries the chain of who re-enqueued it instead.                     *)
(***************************************************************************)
EXTENDS Integers, Sequences, FiniteSets

CONSTANTS Runs, Workers, Cores,
          MaxRetries,
          MaxCrashes,      \* bound on crashes of the process
          MaxFaults,       \* bound on pops and enqueues that Redis fails
          SlowJobs         \* may a live job outlast ActiveTTL?

ASSUME QueueAssumption ==
    /\ MaxRetries \in Nat /\ MaxCrashes \in Nat /\ MaxFaults \in Nat
    /\ SlowJobs \in BOOLEAN
    /\ IsFiniteSet(Runs) /\ IsFiniteSet(Workers) /\ IsFiniteSet(Cores)
    /\ "none" \notin Runs /\ "none" \notin Cores   \* NoJob and NoCore are neither

VARIABLES
    pending, active, heartbeat,      \* Redis
    status,                          \* runs.status
    corePool,
    wPc, wJob, wOk, wCore,           \* worker goroutines
    rPc, rItems, rJob,               \* the reaper
    crashes, faults,
    settled,      \* history: runs completed, or given up after the last retry
    lost          \* history: runs dropped by a crash or a failed Redis call

redis   == <<pending, active, heartbeat>>
workers == <<wPc, wJob, wOk, wCore, corePool>>
reaper  == <<rPc, rItems, rJob>>
history == <<settled, lost>>
vars    == <<redis, status, workers, reaper, crashes, faults, history>>

NoCore == "none"
Job(r) == [run |-> r, via |-> <<>>]
NoJob  == [run |-> "none", via |-> <<>>]
Retries(p) == Len(p.via)
Again(p, who) == [p EXCEPT !.via = Append(@, who)]

Init ==
    /\ \E order \in [1 .. Cardinality(Runs) -> Runs] :
           /\ \A i, j \in DOMAIN order : order[i] = order[j] => i = j
           /\ pending = [i \in DOMAIN order |-> Job(order[i])]
    /\ active = {} /\ heartbeat = {}
    /\ status = [r \in Runs |-> "queued"]
    /\ corePool = Cores
    /\ wPc = [w \in Workers |-> "poll"] /\ wJob = [w \in Workers |-> NoJob]
    /\ wOk = [w \in Workers |-> FALSE] /\ wCore = [w \in Workers |-> NoCore]
    /\ rPc = "idle" /\ rItems = {} /\ rJob = NoJob
    /\ crashes = 0 /\ faults = 0
    /\ settled = {} /\ lost = {}

-----------------------------------------------------------------------------
(* loop: one worker goroutine *)

At(w, pc) == wPc[w] = pc
Goto(w, pc) == wPc' = [wPc EXCEPT ![w] = pc]
SetStatus(r, s) == status' = [status EXCEPT ![r] = s]

BRPop(w) ==
    /\ At(w, "poll") /\ pending # <<>>
    /\ wJob' = [wJob EXCEPT ![w] = Head(pending)] /\ pending' = Tail(pending)
    /\ Goto(w, "heartbeat")
    /\ UNCHANGED <<active, heartbeat, status, wOk, wCore, corePool, reaper, crashes, faults, history>>

\* Redis has popped the job, but the reply does not arrive: the error is logged
\* and the loop goes on.
BRPopFails(w) ==
    /\ At(w, "poll") /\ pending # <<>>
    /\ faults < MaxFaults /\ faults' = faults + 1
    /\ pending' = Tail(pending) /\ lost' = lost \cup {Head(pending).run}
    /\ UNCHANGED <<active, heartbeat, status, workers, reaper, crashes, settled>>

SetHeartbeat(w) ==
    /\ At(w, "heartbeat")
    /\ heartbeat' = heartbeat \cup {wJob[w].run}
    /\ Goto(w, "activate")
    /\ UNCHANGED <<pending, active, status, wJob, wOk, wCore, corePool, reaper, crashes, faults, history>>

PushActive(w) ==
    /\ At(w, "activate")
    /\ active' = active \cup {wJob[w]}
    /\ Goto(w, "check")
    /\ UNCHANGED <<pending, heartbeat, status, wJob, wOk, wCore, corePool, reaper, crashes, faults, history>>

\* processJob ends with this result.
Return(w, ok) == Goto(w, "lrem") /\ wOk' = [wOk EXCEPT ![w] = ok]

\* The .so is missing, or the ELF validator refuses it.
CheckFails(w, refused) ==
    /\ At(w, "check")
    /\ IF refused THEN SetStatus(wJob[w].run, "error") ELSE UNCHANGED status
    /\ Return(w, FALSE)
    /\ UNCHANGED <<redis, wJob, wCore, corePool, reaper, crashes, faults, history>>

CheckPasses(w) ==
    /\ At(w, "check") /\ Goto(w, "core")
    /\ UNCHANGED <<redis, status, wJob, wOk, wCore, corePool, reaper, crashes, faults, history>>

\* Receiving from corePool blocks until another job returns its pair.
TakeCore(w) ==
    /\ At(w, "core")
    /\ \E c \in corePool :
           wCore' = [wCore EXCEPT ![w] = c] /\ corePool' = corePool \ {c}
    /\ Goto(w, "spawn")
    /\ UNCHANGED <<redis, status, wJob, wOk, reaper, crashes, faults, history>>

\* Seeded fault: a failed start returns before the core is given back.
FreeCore_leak(w) == IF At(w, "start") THEN corePool ELSE corePool \cup {wCore[w]}
FreeCore(w) == corePool \cup {wCore[w]}

\* The deferred function of processJob.
ReturnCore(w) == corePool' = FreeCore(w) /\ wCore' = [wCore EXCEPT ![w] = NoCore]

\* POST /spawn-async is answered, refused or fails; /ready is then polled for
\* 30 s at most, and the Game Master is started in every case.
SpawnReturns(w) ==
    /\ At(w, "spawn") /\ Goto(w, "start")
    /\ UNCHANGED <<redis, status, wJob, wOk, wCore, corePool, reaper, crashes, faults, history>>

\* cmd.Start works or does not.
StartGM(w) ==
    /\ At(w, "start")
    /\ SetStatus(wJob[w].run, "running") /\ Goto(w, "gm")
    /\ UNCHANGED <<redis, wJob, wOk, wCore, corePool, reaper, crashes, faults, history>>

StartFails(w) ==
    /\ At(w, "start")
    /\ Return(w, FALSE) /\ ReturnCore(w)
    /\ UNCHANGED <<redis, status, wJob, reaper, crashes, faults, history>>

GMCompletes(w) ==
    /\ At(w, "gm")
    /\ SetStatus(wJob[w].run, "complete") /\ settled' = settled \cup {wJob[w].run}
    /\ Return(w, TRUE) /\ ReturnCore(w)
    /\ UNCHANGED <<redis, wJob, reaper, crashes, faults, lost>>

\* The five-minute deadline, or any other bad exit or output.
GMFails(w, timeout) ==
    /\ At(w, "gm")
    /\ IF timeout THEN SetStatus(wJob[w].run, "tle") ELSE UNCHANGED status
    /\ Return(w, FALSE) /\ ReturnCore(w)
    /\ UNCHANGED <<redis, wJob, reaper, crashes, faults, history>>

LRem(w) ==
    /\ At(w, "lrem")
    /\ active' = active \ {wJob[w]}
    /\ Goto(w, "del")
    /\ UNCHANGED <<pending, heartbeat, status, wJob, wOk, wCore, corePool, reaper, crashes, faults, history>>

MayRetry(p) == Retries(p) < MaxRetries

\* Seeded fault: a failed job is dropped instead of retried.
AfterDel_drop(w) == "poll"
AfterDel(w) == IF wOk[w] THEN "poll"
               ELSE IF MayRetry(wJob[w]) THEN "retry" ELSE "giveup"

\* A worker that goes back to poll forgets its job.
Forget(w, pc) == wJob' = IF pc = "poll" THEN [wJob EXCEPT ![w] = NoJob] ELSE wJob

Del(w) ==
    /\ At(w, "del")
    /\ heartbeat' = heartbeat \ {wJob[w].run}
    /\ Goto(w, AfterDel(w)) /\ Forget(w, AfterDel(w))
    /\ wOk' = [wOk EXCEPT ![w] = FALSE]
    /\ UNCHANGED <<pending, active, status, wCore, corePool, reaper, crashes, faults, history>>

\* Enqueue by `who`; a refusal by Redis is only logged.
Enqueue(p, who) ==
    \/ pending' = Append(pending, Again(p, who)) /\ UNCHANGED <<faults, lost>>
    \/ /\ faults < MaxFaults /\ faults' = faults + 1
       /\ lost' = lost \cup {p.run} /\ UNCHANGED pending

Retry(w) ==
    /\ At(w, "retry")
    /\ Enqueue(wJob[w], "worker")
    /\ Goto(w, "mark")
    /\ UNCHANGED <<active, heartbeat, status, wJob, wOk, wCore, corePool, reaper, crashes, settled>>

MarkQueued(w) ==
    /\ At(w, "mark")
    /\ SetStatus(wJob[w].run, "queued")
    /\ Goto(w, "poll") /\ Forget(w, "poll")
    /\ UNCHANGED <<redis, wOk, wCore, corePool, reaper, crashes, faults, history>>

GiveUp(w) ==
    /\ At(w, "giveup")
    /\ SetStatus(wJob[w].run, "error") /\ settled' = settled \cup {wJob[w].run}
    /\ Goto(w, "poll") /\ Forget(w, "poll")
    /\ UNCHANGED <<redis, wOk, wCore, corePool, reaper, crashes, faults, lost>>

-----------------------------------------------------------------------------
(* reapStale *)

LRange ==
    /\ rPc = "idle" /\ active # {}
    /\ rItems' = active /\ rPc' = "scan"
    /\ UNCHANGED <<redis, status, workers, rJob, crashes, faults, history>>

\* Seeded fault: nothing is ever stale.
Stale_never(p) == FALSE
Stale(p) == p.run \notin heartbeat

\* EXISTS on the heartbeat of one item of the snapshot.
Exists(p) ==
    /\ rPc = "scan" /\ p \in rItems
    /\ rItems' = rItems \ {p}
    /\ IF Stale(p) THEN rPc' = "lrem" /\ rJob' = p ELSE UNCHANGED <<rPc, rJob>>
    /\ UNCHANGED <<redis, status, workers, crashes, faults, history>>

\* LREM: how many items it removed is not looked at.
ReapLRem ==
    /\ rPc = "lrem"
    /\ active' = active \ {rJob}
    /\ rPc' = IF MayRetry(rJob) THEN "retry" ELSE "giveup"
    /\ UNCHANGED <<pending, heartbeat, status, workers, rItems, rJob, crashes, faults, history>>

ReapRetry ==
    /\ rPc = "retry"
    /\ Enqueue(rJob, "reaper")
    /\ rPc' = "scan" /\ rJob' = NoJob
    /\ UNCHANGED <<active, heartbeat, status, workers, rItems, crashes, settled>>

ReapGiveUp ==
    /\ rPc = "giveup"
    /\ SetStatus(rJob.run, "error") /\ settled' = settled \cup {rJob.run}
    /\ rPc' = "scan" /\ rJob' = NoJob
    /\ UNCHANGED <<redis, workers, rItems, crashes, faults, lost>>

ScanEnds ==
    /\ rPc = "scan" /\ rItems = {}
    /\ rPc' = "idle"
    /\ UNCHANGED <<redis, status, workers, rItems, rJob, crashes, faults, history>>

-----------------------------------------------------------------------------
(* The environment *)

\* From SetHeartbeat to Del.
Beating(w) == wPc[w] \in {"activate", "check", "core", "spawn", "start", "gm", "lrem", "del"}

\* ActiveTTL passes without the key having been set again.
Expire(r) ==
    /\ r \in heartbeat
    /\ SlowJobs \/ \A w \in Workers : Beating(w) => wJob[w].run # r
    /\ heartbeat' = heartbeat \ {r}
    /\ UNCHANGED <<pending, active, status, workers, reaper, crashes, faults, history>>

\* Where a run that is not settled is kept.
InRedis(r) == (\E i \in DOMAIN pending : pending[i].run = r) \/ (\E p \in active : p.run = r)
InHand(r)  == (\E w \in Workers : wJob[w].run = r) \/ rJob.run = r

Crash ==
    /\ crashes < MaxCrashes /\ crashes' = crashes + 1
    /\ lost' = lost \cup {r \in Runs : InHand(r) /\ ~InRedis(r)}
    /\ wPc' = [w \in Workers |-> "poll"] /\ wJob' = [w \in Workers |-> NoJob]
    /\ wOk' = [w \in Workers |-> FALSE] /\ wCore' = [w \in Workers |-> NoCore]
    /\ corePool' = Cores
    /\ rPc' = "idle" /\ rItems' = {} /\ rJob' = NoJob
    /\ UNCHANGED <<redis, status, faults, settled>>

-----------------------------------------------------------------------------

WorkerStep(w) ==
    \/ BRPop(w) \/ SetHeartbeat(w) \/ PushActive(w)
    \/ (\E b \in BOOLEAN : CheckFails(w, b)) \/ CheckPasses(w) \/ TakeCore(w)
    \/ SpawnReturns(w) \/ StartGM(w) \/ StartFails(w)
    \/ GMCompletes(w) \/ (\E b \in BOOLEAN : GMFails(w, b))
    \/ LRem(w) \/ Del(w) \/ Retry(w) \/ MarkQueued(w) \/ GiveUp(w)

ReaperStep ==
    \/ LRange \/ (\E p \in rItems : Exists(p)) \/ ReapLRem
    \/ ReapRetry \/ ReapGiveUp \/ ScanEnds

\* Nothing is queued, active or being worked on.
Quiescent ==
    /\ pending = <<>> /\ active = {} /\ rPc = "idle"
    /\ \A w \in Workers : At(w, "poll")

Drained == Quiescent /\ UNCHANGED vars

Next == (\E w \in Workers : WorkerStep(w) \/ BRPopFails(w)) \/ ReaperStep
          \/ (\E r \in Runs : Expire(r)) \/ Crash \/ Drained

\* Two calls of processJob have no time limit of their own: the POST uses
\* http.DefaultClient without a context, and cmd.Wait, after the deadline has
\* killed the Game Master, waits for whoever else holds its stdout.
Unlimited(w) == wPc[w] \in {"spawn", "gm"}

\* Goroutines are scheduled, Redis and the database answer or fail, the ticker
\* ticks and keys expire.  Nothing is assumed of the two calls above.
Fairness ==
    /\ \A w \in Workers : WF_vars(WorkerStep(w) /\ ~Unlimited(w))
    /\ WF_vars(ReaperStep)
    /\ \A r \in Runs : WF_vars(Expire(r))

Spec == Init /\ [][Next]_vars /\ Fairness

-----------------------------------------------------------------------------
(* Properties *)

Payload(p) == p.run \in Runs /\ Retries(p) <= MaxRetries

\* Type invariant; no payload is ever enqueued beyond MaxRetries.
TypeOK ==
    /\ \A i \in DOMAIN pending : Payload(pending[i])
    /\ \A p \in active \cup rItems : Payload(p)
    /\ heartbeat \subseteq Runs
    /\ status \in [Runs -> {"queued", "running", "complete", "tle", "error"}]
    /\ \A w \in Workers : At(w, "poll") <=> wJob[w] = NoJob
    /\ corePool \subseteq Cores

\* A run is only ever lost by a crash while no Redis list holds it, by a BRPOP
\* whose reply is lost, or by an Enqueue that Redis refuses: every other unfinished run is in a list or in
\* the hands of a goroutine.
LossNeedsFault ==
    \A r \in Runs : r \in settled \cup lost \/ InRedis(r) \/ InHand(r)

\* Two Game Masters never share a core pair and no pair leaks, whichever way
\* processJob returns.
CoresPartition ==
    /\ \A w \in Workers : wCore[w] # NoCore <=> wPc[w] \in {"spawn", "start", "gm"}
    /\ \A w \in Workers : wCore[w] \notin corePool
    /\ \A v, w \in Workers : v # w /\ wCore[v] # NoCore => wCore[v] # wCore[w]
    /\ corePool \cup {wCore[w] : w \in {v \in Workers : wCore[v] # NoCore}} = Cores

\* Whatever order workers, reaper, expiry and crashes take their steps in, no
\* core pair is shared or leaked and no payload outlives its retries.
WorkersSound == TypeOK /\ CoresPartition

\* Provided the two calls without a time limit return, everything that was
\* queued or active is worked off, also after crashes: workers get the core
\* pairs they wait for, stale jobs come back and retries run out.
QueueDrains == (\A w \in Workers : []<>~Unlimited(w)) => <>[]Quiescent

=============================================================================
