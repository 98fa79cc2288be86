--------------------------- MODULE ForgePipeline ---------------------------
(***************************************************************************)
(* A submission's way from handleSubmit to the run queue, backend/main.go: *)
(* the reference-counted lock per code hash, the forge steps, the shared   *)
(* cache of compiled .so files, and the two records of a run's status, the *)
(* in-memory runCache and the runs table.                                  *)
(*                                                                         *)
(* A pipeline is one goroutine of runForgePipeline and stands for its run. *)
(* A lock entry is named after the pipeline that allocated it.  The worker *)
(* appears only through what it may do to the runs table: JobQueue has the *)
(* queue itself, its retries and its reaper.                               *)
(***************************************************************************)
EXTENDS Integers, FiniteSets

CONSTANTS Pipelines, Hashes,
          HashOf,        \* the SHA-256 of the submitted code
          Cpp,           \* hashes of C++ submissions
          GoodCode,      \* hashes whose .so the ELF validator accepts
          None,
          MaxCrashes,    \* bound on crashes of the control plane
          MaxUnwritten   \* bound on runs whose row cannot be written

ASSUME PipelineAssumption ==
    /\ IsFiniteSet(Pipelines) /\ None \notin Pipelines
    /\ HashOf \in [Pipelines -> Hashes]
    /\ Cpp \subseteq Hashes /\ GoodCode \subseteq Hashes
    /\ MaxCrashes \in Nat /\ MaxUnwritten \in Nat

VARIABLES
    hashLocks,      \* hash -> entry, or None
    refs, owner,    \* the entries' fields: references, holder of mu
    entry, pc,      \* the goroutines
    so,             \* the .so cache
    runCache, db,   \* status of each run in memory and in the runs table
    handed,         \* runs that are or were in the worker's queue
    unsure,         \* history: enqueues whose reply was lost
    unwritten,      \* history: runs whose last write of the row failed
    rejected,       \* history: runs failed by the ELF validator
    interrupted,    \* history: hashes whose compilation was cut short
    orphaned,       \* hashes whose compiler may have outlived forge.py's timeout
    crashes

locks  == <<hashLocks, refs, owner, entry>>
worker == <<handed, unsure>>
table  == <<db, unwritten>>
history == <<rejected, interrupted, orphaned>>
vars   == <<locks, pc, so, runCache, table, worker, history, crashes>>

Files == {"none", "partial", "built"}

Init ==
    /\ hashLocks = [h \in Hashes |-> None]
    /\ refs = [p \in Pipelines |-> 0] /\ owner = [p \in Pipelines |-> None]
    /\ entry = [p \in Pipelines |-> None] /\ pc = [p \in Pipelines |-> "new"]
    /\ so = [h \in Hashes |-> "none"]
    /\ runCache = [p \in Pipelines |-> "none"] /\ db = [p \in Pipelines |-> "none"]
    /\ handed = {} /\ unsure = {} /\ unwritten = {}
    /\ rejected = {} /\ interrupted = {} /\ orphaned = {}
    /\ crashes = 0

-----------------------------------------------------------------------------

At(p, where) == pc[p] = where
Goto(p, where) == pc' = [pc EXCEPT ![p] = where]
updateRunStatus(p, s) == runCache' = [runCache EXCEPT ![p] = s]

\* The upsert of the run's row; an error of the database is only logged.
persistRun(p, s) ==
    \/ db' = [db EXCEPT ![p] = s] /\ unwritten' = unwritten \ {p}
    \/ /\ unwritten' = unwritten \cup {p} /\ UNCHANGED db
       /\ Cardinality(unwritten') <= MaxUnwritten

\* The end of handleSubmit: both records are to say "queued" before the goroutine
\* starts.
Submit(p) ==
    /\ At(p, "new") /\ Goto(p, "acquire")
    /\ updateRunStatus(p, "queued") /\ persistRun(p, "queued")
    /\ UNCHANGED <<locks, so, worker, history, crashes>>

(* acquireHashLock: the part under hashLocksMu, then entry.mu.Lock() *)

\* Seeded fault: a fresh entry for every pipeline.
EntryFor_new(p) == p
EntryFor(p) == IF hashLocks[HashOf[p]] = None THEN p ELSE hashLocks[HashOf[p]]

LookupEntry(p) ==
    /\ At(p, "acquire") /\ Goto(p, "lock")
    /\ hashLocks' = [hashLocks EXCEPT ![HashOf[p]] = EntryFor(p)]
    /\ refs' = [refs EXCEPT ![EntryFor(p)] = @ + 1]
    /\ entry' = [entry EXCEPT ![p] = EntryFor(p)]
    /\ UNCHANGED <<owner, so, runCache, table, worker, history, crashes>>

Free(p) == owner[entry[p]] = None

LockEntry(p) ==
    /\ At(p, "lock") /\ Free(p)
    /\ owner' = [owner EXCEPT ![entry[p]] = p]
    /\ Goto(p, "write")
    /\ UNCHANGED <<hashLocks, refs, entry, so, runCache, table, worker, history, crashes>>

AfterFail(p) == "persist"

\* failRun: the cache first, then persistRun.
failRun(p) == updateRunStatus(p, "error") /\ Goto(p, AfterFail(p))

Write(p) ==
    /\ At(p, "write")
    /\ IF HashOf[p] \in Cpp THEN updateRunStatus(p, "compiling_cpp") /\ Goto(p, "stat")
                            ELSE updateRunStatus(p, "scanning") /\ Goto(p, "scan")
    /\ UNCHANGED <<locks, so, table, worker, history, crashes>>

Scan(p) ==
    /\ At(p, "scan")
    /\ updateRunStatus(p, "transpiling") /\ Goto(p, "transpile")
    /\ UNCHANGED <<locks, so, table, worker, history, crashes>>

Transpile(p) ==
    /\ At(p, "transpile")
    /\ updateRunStatus(p, "compiling") /\ Goto(p, "stat")
    /\ UNCHANGED <<locks, so, table, worker, history, crashes>>

\* The raw file cannot be written, or the scanner or transpiler refuses.
StepFails(p) ==
    /\ pc[p] \in {"write", "scan", "transpile"}
    /\ failRun(p)
    /\ UNCHANGED <<locks, so, table, worker, history, crashes>>

\* os.Stat(soPath): compile, or a cache hit.
Stat(p) ==
    /\ At(p, "stat")
    /\ IF so[HashOf[p]] = "none"
       THEN Goto(p, "forge") /\ UNCHANGED runCache
       ELSE updateRunStatus(p, "validating") /\ Goto(p, "validate")
    /\ UNCHANGED <<locks, so, table, worker, history, crashes>>

\* The linker opens the .so for writing long before it is whole.
ForgeBegins(p) ==
    /\ At(p, "forge")
    /\ so' = [so EXCEPT ![HashOf[p]] = "partial"] /\ Goto(p, "forging")
    /\ UNCHANGED <<locks, runCache, table, worker, history, crashes>>

ForgeEnds(p) ==
    /\ At(p, "forging")
    /\ so' = [so EXCEPT ![HashOf[p]] = "built"]
    /\ updateRunStatus(p, "validating") /\ Goto(p, "validate")
    /\ UNCHANGED <<locks, table, worker, history, crashes>>

\* A failing linker removes what it has written.
ForgeFails(p) ==
    /\ pc[p] \in {"forge", "forging"}
    /\ so' = [so EXCEPT ![HashOf[p]] = "none"]
    /\ failRun(p)
    /\ UNCHANGED <<locks, table, worker, history, crashes>>

\* forge.py kills its compilation after 60 seconds; the linker may be anywhere.
\* The kill reaches the Python child only, not the compiler that it has started.
ForgeKilled(p, left) ==
    /\ At(p, "forging") /\ HashOf[p] \notin Cpp
    /\ so' = [so EXCEPT ![HashOf[p]] = left]
    /\ interrupted' = interrupted \cup {HashOf[p]}
    /\ orphaned' = orphaned \cup {HashOf[p]}
    /\ failRun(p)
    /\ UNCHANGED <<locks, table, worker, rejected, crashes>>

\* Such a compiler or linker writes, ends or removes its output, whoever holds
\* the lock by then.
OrphanWrites(h, left) ==
    /\ h \in orphaned
    /\ so' = [so EXCEPT ![h] = left]
    /\ UNCHANGED <<locks, pc, runCache, table, worker, history, crashes>>

\* ValidateContestantBinary: a truncated file is no valid ELF.
Accepts(h) == so[h] = "built" /\ h \in GoodCode

Validate(p) ==
    /\ At(p, "validate") /\ Accepts(HashOf[p])
    /\ updateRunStatus(p, "queued_gm") /\ Goto(p, "enqueue")
    /\ UNCHANGED <<locks, so, table, worker, history, crashes>>

ValidateFails(p) ==
    /\ At(p, "validate") /\ ~Accepts(HashOf[p])
    /\ so' = [so EXCEPT ![HashOf[p]] = "none"]
    /\ failRun(p) /\ rejected' = rejected \cup {p}
    /\ UNCHANGED <<locks, table, worker, interrupted, orphaned, crashes>>

\* worker.Enqueue succeeds, or returns an error although or because the LPUSH
\* was or was not executed; an error falls through to direct dispatch.
Enqueued(p) == handed' = handed \cup {p}

\* Seeded fault: no return after a successful Enqueue.
AfterEnqueue_falls(p) == "dispatch"
AfterEnqueue(p) == "unlock"

Enqueue(p) ==
    /\ At(p, "enqueue")
    /\ Enqueued(p) /\ Goto(p, AfterEnqueue(p))
    /\ UNCHANGED <<locks, so, runCache, table, unsure, history, crashes>>

EnqueueFails(p, executed) ==
    /\ At(p, "enqueue")
    /\ IF executed THEN Enqueued(p) /\ unsure' = unsure \cup {p} ELSE UNCHANGED worker
    /\ updateRunStatus(p, "running") /\ Goto(p, "dispatch")
    /\ UNCHANGED <<locks, so, table, history, crashes>>

\* dispatchToGameMaster returns a result or an error.
Dispatch(p) ==
    /\ At(p, "dispatch")
    /\ updateRunStatus(p, "complete") /\ Goto(p, "persist")
    /\ UNCHANGED <<locks, so, table, worker, history, crashes>>

DispatchFails(p) ==
    /\ At(p, "dispatch")
    /\ failRun(p)
    /\ UNCHANGED <<locks, so, table, worker, history, crashes>>

Persist(p) ==
    /\ At(p, "persist")
    /\ persistRun(p, runCache[p]) /\ Goto(p, "unlock")
    /\ UNCHANGED <<locks, so, runCache, worker, history, crashes>>

(* releaseHashLock: entry.mu.Unlock(), then the part under hashLocksMu *)

Unlock(p) ==
    /\ At(p, "unlock") /\ Goto(p, "release")
    /\ owner' = [owner EXCEPT ![entry[p]] = None]
    /\ UNCHANGED <<hashLocks, refs, entry, so, runCache, table, worker, history, crashes>>

Dropped(p) == refs[entry[p]] - 1

\* Seeded fault: the entry is always freed.
LastUser_always(p) == TRUE
LastUser(p) == refs[entry[p]] = 1

Release(p) ==
    /\ At(p, "release") /\ Goto(p, "done")
    /\ refs' = [refs EXCEPT ![entry[p]] = Dropped(p)]
    /\ hashLocks' = IF LastUser(p) THEN [hashLocks EXCEPT ![HashOf[p]] = None] ELSE hashLocks
    /\ entry' = [entry EXCEPT ![p] = None]
    /\ UNCHANGED <<owner, so, runCache, table, worker, history, crashes>>

-----------------------------------------------------------------------------
(* The worker, and crashes of the control plane *)

\* Whatever order retries, the reaper and a second execution of the run put
\* them in: "running", "complete", "tle" and the validator's "error" come from
\* processJob, "queued" and "error" from the retries and the reaper.  UPDATE
\* changes nothing if the row was never written.
WorkerStatuses == {"queued", "running", "complete", "tle", "error"}

WorkerWrites(p, s) ==
    /\ p \in handed /\ db[p] # "none"
    /\ db' = [db EXCEPT ![p] = s]
    /\ UNCHANGED <<locks, pc, so, runCache, unwritten, worker, history, crashes>>

Forging(h) == \E p \in Pipelines : At(p, "forging") /\ HashOf[p] = h
Idle == {"new", "done", "dead"}

\* The goroutines and the maps are gone; Redis, the table and the files stay,
\* and a compiler that was writing may have got anywhere.
Crash ==
    /\ crashes < MaxCrashes /\ crashes' = crashes + 1
    /\ \E left \in [Hashes -> Files] :
           so' = [h \in Hashes |-> IF Forging(h) THEN left[h] ELSE so[h]]
    /\ interrupted' = interrupted \cup {h \in Hashes : Forging(h)}
    /\ pc' = [p \in Pipelines |-> IF pc[p] \in Idle THEN pc[p] ELSE "dead"]
    /\ hashLocks' = [h \in Hashes |-> None]
    /\ refs' = [p \in Pipelines |-> 0] /\ owner' = [p \in Pipelines |-> None]
    /\ entry' = [p \in Pipelines |-> None]
    /\ runCache' = [p \in Pipelines |-> "none"]
    /\ UNCHANGED <<table, worker, rejected, orphaned>>

-----------------------------------------------------------------------------

PipelineStep(p) ==
    \/ LookupEntry(p) \/ LockEntry(p)
    \/ Write(p) \/ Scan(p) \/ Transpile(p) \/ StepFails(p)
    \/ Stat(p) \/ ForgeBegins(p) \/ ForgeEnds(p) \/ ForgeFails(p)
    \/ (\E left \in Files : ForgeKilled(p, left))
    \/ Validate(p) \/ ValidateFails(p)
    \/ Enqueue(p) \/ (\E b \in BOOLEAN : EnqueueFails(p, b))
    \/ Dispatch(p) \/ DispatchFails(p) \/ Persist(p)
    \/ Unlock(p) \/ Release(p)

WorkerStep(p) == \E s \in WorkerStatuses : WorkerWrites(p, s)
OrphanStep == \E h \in Hashes, left \in Files : OrphanWrites(h, left)

Finished == (\A p \in Pipelines : pc[p] \in Idle) /\ UNCHANGED vars

Next == (\E p \in Pipelines : Submit(p) \/ PipelineStep(p) \/ WorkerStep(p))
          \/ OrphanStep \/ Crash \/ Finished

Spec == Init /\ [][Next]_vars

-----------------------------------------------------------------------------
(* Properties *)

Locked == {"write", "scan", "transpile", "stat", "forge", "forging", "validate",
           "enqueue", "dispatch", "persist", "unlock"}
Places == Locked \cup Idle \cup {"acquire", "lock", "release"}
Statuses == {"none", "queued", "compiling_cpp", "scanning", "transpiling", "compiling",
             "validating", "queued_gm", "running", "complete", "tle", "error"}
Final == {"complete", "error"}

\* Type invariant.
TypeOK ==
    /\ hashLocks \in [Hashes -> Pipelines \cup {None}]
    /\ refs \in [Pipelines -> Nat]
    /\ owner \in [Pipelines -> Pipelines \cup {None}]
    /\ entry \in [Pipelines -> Pipelines \cup {None}]
    /\ pc \in [Pipelines -> Places]
    /\ so \in [Hashes -> Files]
    /\ runCache \in [Pipelines -> Statuses] /\ db \in [Pipelines -> Statuses]
    /\ handed \subseteq Pipelines /\ unsure \subseteq Pipelines
    /\ unwritten \subseteq Pipelines /\ rejected \subseteq Pipelines
    /\ interrupted \subseteq Hashes /\ orphaned \subseteq Hashes
    /\ crashes \in 0 .. MaxCrashes

\* Two pipelines of the same code are never between acquireHashLock and
\* releaseHashLock together, although entries come and go.
MutualExclusion ==
    \A p, q \in Pipelines :
        p # q /\ pc[p] \in Locked /\ pc[q] \in Locked => HashOf[p] # HashOf[q]

\* main.go, FIX #5: "entries are deleted when no goroutine uses them", and not
\* before: the map has an entry for a hash exactly while a goroutine uses it.
EntriesCounted ==
    \A h \in Hashes :
        (hashLocks[h] # None) <=> (\E p \in Pipelines : entry[p] # None /\ HashOf[p] = h)

\* The worker, at every retry, and the direct dispatch find a whole, validated
\* .so: no other pipeline rewrites or removes it under a job.  Only a compiler
\* that outlived forge.py's timeout can.
JobsHaveSo ==
    \A p \in Pipelines :
        At(p, "dispatch") \/ p \in handed => Accepts(HashOf[p]) \/ HashOf[p] \in orphaned

\* Code that compiles to a valid .so is refused only when an earlier compilation
\* of it was cut short and left a truncated file in the cache.
RefusalHasCause ==
    \A p \in rejected : HashOf[p] \in GoodCode => HashOf[p] \in interrupted

\* A pipeline does not end without a trace, unless the database refused the last
\* write of the row: the runs table says how the run ended, or the worker has the
\* run and a row it can update.
EndsRecorded ==
    \A p \in Pipelines :
        pc[p] \in {"unlock", "release", "done"} =>
            p \in unwritten \/ db[p] \in Final \/ (p \in handed /\ db[p] # "none")

\* A change of a row is the pipeline's own step, taken before the hand-over and
\* before a verdict, or it is a write of the worker that has the run.
RowStep ==
    \A p \in Pipelines : db'[p] # db[p] =>
        IF pc'[p] # pc[p] THEN p \in unsure \/ (p \notin handed /\ db[p] \notin Final)
                          ELSE p \in handed

\* A row has one writer at a time: the pipeline writes neither after the
\* hand-over, whatever statuses the worker's retries go through, nor over a
\* verdict of its own.  The exception is a run whose Enqueue was executed although
\* its reply was lost: it is dispatched directly as well, and both write.
RowHasOneWriter == [][RowStep]_vars

=============================================================================
