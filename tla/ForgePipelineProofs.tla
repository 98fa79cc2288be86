------------------------ MODULE ForgePipelineProofs ------------------------
(***************************************************************************)
(* Proofs about ForgePipeline, for any number of submissions, hashes and   *)
(* crashes.  The lock is correct because every goroutine that holds a      *)
(* pointer to an entry finds that entry in the map (Shared), which         *)
(* deleting entries by their reference count keeps true only because the   *)
(* count is the number of such goroutines (Counted).                       *)
(***************************************************************************)
EXTENDS ForgePipeline, FiniteSetTheorems, TLAPS

Users(e) == {p \in Pipelines : entry[p] = e}
Using == Locked \cup {"lock", "release"}

\* The reference count is the number of goroutines with a pointer.
Counted == \A e \in Pipelines : refs[e] = Cardinality(Users(e))

\* A pointer is held exactly from lookup to release.
Entered == \A p \in Pipelines : (entry[p] # None) <=> (pc[p] \in Using)

\* Whoever has a pointer has the entry that is in the map for its hash.
Shared == \A p \in Pipelines : entry[p] # None => hashLocks[HashOf[p]] = entry[p]

\* An entry in the map is used for the hash it is filed under.
Mapped == \A h \in Hashes : hashLocks[h] # None =>
              \E p \in Pipelines : entry[p] = hashLocks[h] /\ HashOf[p] = h

\* An entry is used for one hash only.
OneHash == \A p \in Pipelines : entry[p] # None => HashOf[entry[p]] = HashOf[p]

\* Whoever is past LockEntry owns its entry.
Holds == \A p \in Pipelines : pc[p] \in Locked => owner[entry[p]] = p

LockInv == Counted /\ Entered /\ Shared /\ Mapped /\ OneHash /\ Holds

\* What a pipeline under the lock knows of its .so.
SoAt(p) ==
    /\ At(p, "forge") => so[HashOf[p]] = "none"
    /\ At(p, "forging") => so[HashOf[p]] = "partial"
    /\ At(p, "validate") => so[HashOf[p]] # "none"
    /\ pc[p] \in {"enqueue", "dispatch"} => Accepts(HashOf[p])
    /\ p \in handed => Accepts(HashOf[p])

\* It knows nothing once a compiler has outlived the timeout of its forge.
Known(p) == HashOf[p] \in orphaned \/ SoAt(p)

SoInv == \A p \in Pipelines : Known(p)

\* A truncated .so is being written, or its compilation was cut short.
PartialInv ==
    /\ \A h \in Hashes : so[h] = "partial" => Forging(h) \/ h \in interrupted
    /\ orphaned \subseteq interrupted

\* Who may still write the status of a run, before and after the hand-over.
Before == {"new", "acquire", "lock"} \cup (Locked \ {"unlock"})

StatusAt(p) ==
    /\ At(p, "persist") => runCache[p] \in Final
    /\ pc[p] # "new" => p \in unwritten \/ db[p] # "none"
    /\ pc[p] \in {"unlock", "release", "done"} =>
          p \in unwritten \/ db[p] \in Final \/ (p \in handed /\ db[p] # "none")
    /\ p \notin unsure /\ pc[p] \in Before => p \notin handed /\ db[p] \notin Final

StatusInv == \A p \in Pipelines : StatusAt(p)

-----------------------------------------------------------------------------
(* Users of an entry *)

\* The users of an entry are finitely many.
LEMMA UsersFinite ==
    ASSUME TypeOK, NEW e \in Pipelines
    PROVE  IsFiniteSet(Users(e)) /\ Cardinality(Users(e)) \in Nat
<1>1. Users(e) \in SUBSET Pipelines
    BY DEF Users
<1> QED
    BY <1>1, FS_Subset, FS_CardinalityType, PipelineAssumption

-----------------------------------------------------------------------------
(* Steps that leave the lock alone *)

\* While the lock's variables do not change and nobody enters or leaves a
\* place that counts for the lock, the lock invariant is kept.
LEMMA LockFrame ==
    ASSUME LockInv, UNCHANGED locks,
           \A p \in Pipelines : (pc'[p] \in Using) <=> (pc[p] \in Using),
           \A p \in Pipelines : pc'[p] \in Locked => pc[p] \in Locked
    PROVE  LockInv'
<1>1. Counted' /\ Shared' /\ Mapped' /\ OneHash'
    BY DEF LockInv, Counted, Shared, Mapped, OneHash, Users, locks
<1>2. Entered'
    BY DEF LockInv, Entered, locks
<1>3. Holds'
    BY DEF LockInv, Holds, locks
<1> QED
    BY <1>1, <1>2, <1>3 DEF LockInv

\* The steps of runForgePipeline between acquire and release.
Inner(p) ==
    \/ Write(p) \/ Scan(p) \/ Transpile(p) \/ StepFails(p)
    \/ Stat(p) \/ ForgeBegins(p) \/ ForgeEnds(p) \/ ForgeFails(p)
    \/ (\E left \in Files : ForgeKilled(p, left))
    \/ Validate(p) \/ ValidateFails(p)
    \/ Enqueue(p) \/ (\E b \in BOOLEAN : EnqueueFails(p, b))
    \/ Dispatch(p) \/ DispatchFails(p) \/ Persist(p)

\* Such a step moves one pipeline from one place under the lock to another.
LEMMA InnerMoves ==
    ASSUME TypeOK, NEW p \in Pipelines, Inner(p)
    PROVE  /\ UNCHANGED locks /\ UNCHANGED crashes
           /\ pc[p] \in Locked
           /\ \E where \in Locked : pc' = [pc EXCEPT ![p] = where]
<1> USE DEF At, Goto, failRun, AfterFail, AfterEnqueue, Locked, updateRunStatus
<1>1. CASE Write(p) \/ Scan(p) \/ Transpile(p) \/ StepFails(p)
    BY <1>1 DEF Write, Scan, Transpile, StepFails
<1>2. CASE Stat(p) \/ ForgeBegins(p) \/ ForgeEnds(p) \/ ForgeFails(p)
    BY <1>2 DEF Stat, ForgeBegins, ForgeEnds, ForgeFails
<1>3. CASE \E left \in Files : ForgeKilled(p, left)
    BY <1>3 DEF ForgeKilled
<1>4. CASE Validate(p) \/ ValidateFails(p) \/ Enqueue(p)
    BY <1>4 DEF Validate, ValidateFails, Enqueue
<1>5. CASE \E b \in BOOLEAN : EnqueueFails(p, b)
    BY <1>5 DEF EnqueueFails
<1>6. CASE Dispatch(p) \/ DispatchFails(p) \/ Persist(p)
    BY <1>6 DEF Dispatch, DispatchFails, Persist, persistRun
<1> QED
    BY <1>1, <1>2, <1>3, <1>4, <1>5, <1>6 DEF Inner

-----------------------------------------------------------------------------
(* Types *)

\* The type invariant in two parts: the lock, and everything else.
LocksTyped ==
    /\ hashLocks \in [Hashes -> Pipelines \cup {None}]
    /\ refs \in [Pipelines -> Nat]
    /\ owner \in [Pipelines -> Pipelines \cup {None}]
    /\ entry \in [Pipelines -> Pipelines \cup {None}]

RunsTyped ==
    /\ pc \in [Pipelines -> Places]
    /\ so \in [Hashes -> Files]
    /\ runCache \in [Pipelines -> Statuses] /\ db \in [Pipelines -> Statuses]
    /\ handed \subseteq Pipelines /\ unsure \subseteq Pipelines
    /\ unwritten \subseteq Pipelines /\ rejected \subseteq Pipelines
    /\ interrupted \subseteq Hashes /\ orphaned \subseteq Hashes
    /\ crashes \in 0 .. MaxCrashes

\* Every pipeline has a hash.
LEMMA HashType == ASSUME NEW p \in Pipelines PROVE HashOf[p] \in Hashes
BY PipelineAssumption

\* Only the steps of acquire and release write the lock's fields.
LEMMA LockSteps ==
    ASSUME Next
    PROVE  \/ \E p \in Pipelines : LookupEntry(p) \/ LockEntry(p) \/ Unlock(p) \/ Release(p)
           \/ \E p \in Pipelines : Submit(p) \/ Inner(p) \/ WorkerStep(p)
           \/ OrphanStep \/ Crash \/ UNCHANGED vars
BY DEF Next, PipelineStep, Inner, Finished

\* A pipeline that leaves has been counted.
LEMMA UserCounts ==
    ASSUME TypeOK, LockInv, NEW p \in Pipelines, entry[p] # None
    PROVE  entry[p] \in Pipelines /\ refs[entry[p]] \in Nat \ {0}
<1>1. entry[p] \in Pipelines
    BY DEF TypeOK
<1>2. p \in Users(entry[p])
    BY DEF Users
<1>3. IsFiniteSet(Users(entry[p])) /\ Cardinality(Users(entry[p])) \in Nat
    BY <1>1, UsersFinite
<1>4. Cardinality(Users(entry[p])) # 0
    BY <1>2, <1>3, FS_EmptySet
<1> QED
    BY <1>1, <1>3, <1>4 DEF LockInv, Counted

\* Steps under the lock keep the types of everything but the lock.
LEMMA RunsTypedInner ==
    ASSUME TypeOK, NEW p \in Pipelines, Inner(p)
    PROVE  RunsTyped'
<1> USE HashType DEF TypeOK, RunsTyped, At, Goto, failRun, AfterFail, AfterEnqueue,
        updateRunStatus, Places, Locked, Idle, Statuses, Files, locks, table, worker, history
<1>1. CASE Write(p) \/ Scan(p) \/ Transpile(p) \/ StepFails(p)
    BY <1>1 DEF Write, Scan, Transpile, StepFails
<1>2. CASE Stat(p) \/ ForgeBegins(p) \/ ForgeEnds(p) \/ ForgeFails(p)
    BY <1>2 DEF Stat, ForgeBegins, ForgeEnds, ForgeFails
<1>3. CASE \E left \in Files : ForgeKilled(p, left)
    BY <1>3 DEF ForgeKilled
<1>4. CASE Validate(p) \/ ValidateFails(p) \/ Enqueue(p)
    BY <1>4 DEF Validate, ValidateFails, Enqueue, Enqueued
<1>5. CASE \E b \in BOOLEAN : EnqueueFails(p, b)
    BY <1>5 DEF EnqueueFails, Enqueued
<1>6. CASE Dispatch(p) \/ DispatchFails(p) \/ Persist(p)
    BY <1>6 DEF Dispatch, DispatchFails, Persist, persistRun
<1> QED
    BY <1>1, <1>2, <1>3, <1>4, <1>5, <1>6 DEF Inner

\* Every step keeps the types; a reference count is never decremented below zero.
LEMMA TypeStep ==
    ASSUME TypeOK, LockInv, [Next]_vars
    PROVE  TypeOK'
<1> USE HashType
<1>1. ASSUME NEW p \in Pipelines, LookupEntry(p) PROVE TypeOK'
    <2>1. EntryFor(p) \in Pipelines
        BY DEF EntryFor, TypeOK
    <2>2. LocksTyped'
        BY <1>1, <2>1 DEF LookupEntry, TypeOK, LocksTyped
    <2>3. RunsTyped'
        BY <1>1 DEF LookupEntry, TypeOK, RunsTyped, At, Goto, Places, table, worker, history
    <2> QED
        BY <2>2, <2>3 DEF TypeOK, LocksTyped, RunsTyped
<1>2. ASSUME NEW p \in Pipelines, LockEntry(p) PROVE TypeOK'
    BY <1>2 DEF LockEntry, TypeOK, At, Goto, Places, Locked, table, worker, history
<1>3. ASSUME NEW p \in Pipelines, Unlock(p) PROVE TypeOK'
    BY <1>3 DEF Unlock, TypeOK, At, Goto, Places, table, worker, history
<1>4. ASSUME NEW p \in Pipelines, Release(p) PROVE TypeOK'
    <2>1. entry[p] \in Pipelines /\ refs[entry[p]] - 1 \in Nat
        BY <1>4, UserCounts DEF Release, LockInv, Entered, At, Using
    <2>2. LocksTyped'
        BY <1>4, <2>1 DEF Release, Dropped, TypeOK, LocksTyped
    <2>3. RunsTyped'
        BY <1>4 DEF Release, TypeOK, RunsTyped, At, Goto, Places, Idle, table, worker, history
    <2> QED
        BY <2>2, <2>3 DEF TypeOK, LocksTyped, RunsTyped
<1>5. ASSUME NEW p \in Pipelines, Submit(p) PROVE TypeOK'
    BY <1>5 DEF Submit, persistRun, updateRunStatus, TypeOK, At, Goto, Places, Statuses, locks, table, worker, history
<1>6. ASSUME NEW p \in Pipelines, Inner(p) PROVE TypeOK'
    <2>1. UNCHANGED locks
        BY <1>6, InnerMoves
    <2>2. RunsTyped'
        BY <1>6, RunsTypedInner
    <2> QED
        BY <2>1, <2>2 DEF TypeOK, LocksTyped, RunsTyped, locks
<1>7. ASSUME NEW p \in Pipelines, WorkerStep(p) PROVE TypeOK'
    BY <1>7 DEF WorkerStep, WorkerWrites, WorkerStatuses, TypeOK, Statuses, locks, worker, history
<1>10. CASE OrphanStep
    BY <1>10 DEF OrphanStep, OrphanWrites, TypeOK, locks, table, worker, history
<1>8. CASE Crash
    <2>1. LocksTyped'
        BY <1>8 DEF Crash, LocksTyped
    <2>2. crashes' \in 0 .. MaxCrashes
        BY <1>8, PipelineAssumption DEF Crash, TypeOK
    <2>3. so' \in [Hashes -> Files]
        BY <1>8 DEF Crash, TypeOK
    <2>4. pc' \in [Pipelines -> Places]
        BY <1>8 DEF Crash, TypeOK, Places, Idle
    <2>5. RunsTyped'
        BY <1>8, <2>2, <2>3, <2>4 DEF Crash, TypeOK, RunsTyped, Statuses, table, worker, history
    <2> QED
        BY <2>1, <2>5 DEF TypeOK, LocksTyped, RunsTyped
<1>9. CASE UNCHANGED vars
    BY <1>9 DEF vars, TypeOK, locks, table, worker, history
<1> QED
    BY <1>1, <1>2, <1>3, <1>4, <1>5, <1>6, <1>7, <1>8, <1>9, <1>10, LockSteps

-----------------------------------------------------------------------------
(* The lock *)

\* acquireHashLock under hashLocksMu: one more user of the entry in the map.
LEMMA LookupKeepsLock ==
    ASSUME TypeOK, LockInv, NEW p \in Pipelines, LookupEntry(p)
    PROVE  LockInv'
<1> DEFINE e == EntryFor(p)
<1> USE HashType
<1>1. e \in Pipelines /\ e # None
    BY PipelineAssumption DEF EntryFor, TypeOK
<1>2. entry[p] = None
    BY DEF LookupEntry, LockInv, Entered, At, Using, Locked
<1>3. HashOf[e] = HashOf[p]
    BY DEF EntryFor, LockInv, Mapped, OneHash
<1>4. hashLocks[HashOf[p]] # None => hashLocks[HashOf[p]] = e
    BY DEF EntryFor
<1>5. /\ entry' = [entry EXCEPT ![p] = e] /\ pc' = [pc EXCEPT ![p] = "lock"]
      /\ hashLocks' = [hashLocks EXCEPT ![HashOf[p]] = e]
      /\ refs' = [refs EXCEPT ![e] = @ + 1] /\ owner' = owner
    BY DEF LookupEntry, Goto
<1> HIDE DEF e
<1>6. Counted'
    <2> SUFFICES ASSUME NEW f \in Pipelines PROVE refs'[f] = Cardinality(Users(f)')
        BY DEF Counted
    <2>1. CASE f = e
        <3>1. Users(f)' = Users(e) \cup {p} /\ p \notin Users(e)
            BY <1>1, <1>2, <1>5, <2>1 DEF Users, TypeOK
        <3>2. Cardinality(Users(f)') = Cardinality(Users(e)) + 1
            BY <1>1, <3>1, UsersFinite, FS_AddElement
        <3> QED
            BY <1>1, <1>5, <2>1, <3>2 DEF LockInv, Counted, TypeOK
    <2>2. CASE f # e
        <3>1. Users(f)' = Users(f)
            BY <1>2, <1>5, <2>2, PipelineAssumption DEF Users, TypeOK
        <3> QED
            BY <1>1, <1>5, <2>2, <3>1 DEF LockInv, Counted, TypeOK
    <2> QED
        BY <2>1, <2>2
<1>7. Entered'
    BY <1>1, <1>5 DEF LockInv, Entered, TypeOK, Using
<1>8. Shared'
    BY <1>1, <1>4, <1>5 DEF LockInv, Shared, TypeOK
<1>9. Mapped'
    <2> SUFFICES ASSUME NEW h \in Hashes, hashLocks'[h] # None
                 PROVE  \E q \in Pipelines : entry'[q] = hashLocks'[h] /\ HashOf[q] = h
        BY DEF Mapped
    <2>1. CASE h = HashOf[p]
        BY <1>5, <2>1 DEF TypeOK
    <2>2. CASE h # HashOf[p]
        <3>1. hashLocks'[h] = hashLocks[h]
            BY <1>5, <2>2 DEF TypeOK
        <3>2. PICK q \in Pipelines : entry[q] = hashLocks[h] /\ HashOf[q] = h
            BY <3>1 DEF LockInv, Mapped
        <3> QED
            BY <1>5, <2>2, <3>1, <3>2 DEF TypeOK
    <2> QED
        BY <2>1, <2>2
<1>10. OneHash'
    BY <1>3, <1>5 DEF LockInv, OneHash, TypeOK
<1>11. Holds'
    BY <1>5 DEF LockInv, Holds, TypeOK, Locked
<1> QED
    BY <1>6, <1>7, <1>8, <1>9, <1>10, <1>11 DEF LockInv

\* releaseHashLock under hashLocksMu: the entry leaves the map with its last user.
LEMMA ReleaseKeepsLock ==
    ASSUME TypeOK, LockInv, NEW p \in Pipelines, Release(p)
    PROVE  LockInv'
<1> DEFINE e == entry[p]
<1> USE HashType
<1>1. e # None
    BY DEF Release, At, LockInv, Entered, Using
<1>2. e \in Pipelines /\ refs[e] \in Nat \ {0}
    BY <1>1, UserCounts
<1>3. /\ entry' = [entry EXCEPT ![p] = None] /\ pc' = [pc EXCEPT ![p] = "done"]
      /\ hashLocks' = IF refs[e] = 1 THEN [hashLocks EXCEPT ![HashOf[p]] = None] ELSE hashLocks
      /\ refs' = [refs EXCEPT ![e] = refs[e] - 1] /\ owner' = owner
    BY DEF Release, Goto, LastUser, Dropped
<1>4. /\ IsFiniteSet(Users(e)) /\ p \in Users(e)
      /\ refs[e] = Cardinality(Users(e))
    BY <1>2, UsersFinite DEF LockInv, Counted, Users
<1>5. refs[e] = 1 => \A q \in Pipelines : entry[q] = e => q = p
    <2>1. refs[e] = 1 => \E x : Users(e) = {x}
        BY <1>4, FS_Singleton
    <2> QED
        BY <1>4, <2>1 DEF Users
<1>6. refs[e] # 1 => \E q \in Pipelines : q # p /\ entry[q] = e
    <2>1. SUFFICES ASSUME \A q \in Pipelines : entry[q] = e => q = p PROVE refs[e] = 1
        OBVIOUS
    <2>2. Users(e) = {p}
        BY <2>1 DEF Users
    <2> QED
        BY <1>4, <2>2, FS_Singleton
<1>7. hashLocks[HashOf[p]] = e
    BY <1>1 DEF LockInv, Shared
<1>8. \A q \in Pipelines : entry[q] = e => HashOf[q] = HashOf[p]
    BY <1>1 DEF LockInv, OneHash
<1>8a. \A q \in Pipelines : q # p => entry'[q] = entry[q]
    BY <1>3 DEF TypeOK
<1>8b. entry'[p] = None
    BY <1>3 DEF TypeOK
<1>8c. \A h \in Hashes : h # HashOf[p] => hashLocks'[h] = hashLocks[h]
    BY <1>3 DEF TypeOK
<1>8d. hashLocks'[HashOf[p]] = IF refs[e] = 1 THEN None ELSE e
    BY <1>3, <1>7 DEF TypeOK
<1> HIDE DEF e
<1>9. Counted'
    <2> SUFFICES ASSUME NEW f \in Pipelines PROVE refs'[f] = Cardinality(Users(f)')
        BY DEF Counted
    <2>1. CASE f = e
        <3>1. Users(f)' = Users(e) \ {p}
            BY <1>1, <1>8a, <1>8b, <2>1 DEF Users
        <3>2. Cardinality(Users(f)') = Cardinality(Users(e)) - 1
            BY <1>4, <3>1, FS_RemoveElement
        <3> QED
            BY <1>2, <1>3, <1>4, <2>1, <3>2 DEF TypeOK
    <2>2. CASE f # e
        <3>1. Users(f)' = Users(f)
            BY <1>4, <1>8a, <1>8b, <2>2, PipelineAssumption DEF Users
        <3> QED
            BY <1>2, <1>3, <2>2, <3>1 DEF LockInv, Counted, TypeOK
    <2> QED
        BY <2>1, <2>2
<1>10. Entered'
    <2>1. pc'[p] \notin Using
        BY <1>3 DEF TypeOK, Using, Locked
    <2>2. \A q \in Pipelines : q # p => pc'[q] = pc[q]
        BY <1>3 DEF TypeOK
    <2> QED
        BY <1>8a, <1>8b, <2>1, <2>2 DEF LockInv, Entered
<1>11. Shared'
    <2> SUFFICES ASSUME NEW q \in Pipelines, entry'[q] # None
                 PROVE  hashLocks'[HashOf[q]] = entry'[q]
        BY DEF Shared
    <2>1. q # p /\ entry'[q] = entry[q] /\ hashLocks[HashOf[q]] = entry[q]
        BY <1>8a, <1>8b DEF LockInv, Shared
    <2>2. CASE HashOf[q] = HashOf[p]
        BY <1>5, <1>7, <1>8d, <2>1, <2>2
    <2>3. CASE HashOf[q] # HashOf[p]
        BY <1>8c, <2>1, <2>3
    <2> QED
        BY <2>2, <2>3
<1>12. Mapped'
    <2> SUFFICES ASSUME NEW h \in Hashes, hashLocks'[h] # None
                 PROVE  \E q \in Pipelines : entry'[q] = hashLocks'[h] /\ HashOf[q] = h
        BY DEF Mapped
    <2>1. CASE h = HashOf[p]
        BY <1>6, <1>8, <1>8a, <1>8d, <2>1
    <2>2. CASE h # HashOf[p]
        <3>1. PICK q \in Pipelines : entry[q] = hashLocks[h] /\ HashOf[q] = h
            BY <1>8c, <2>2 DEF LockInv, Mapped
        <3> QED
            BY <1>8a, <1>8c, <2>2, <3>1
    <2> QED
        BY <2>1, <2>2
<1>13. OneHash'
    BY <1>8a, <1>8b DEF LockInv, OneHash
<1>14. Holds'
    <2>1. pc'[p] \notin Locked /\ \A q \in Pipelines : q # p => pc'[q] = pc[q]
        BY <1>3 DEF TypeOK, Locked
    <2> QED
        BY <1>3, <1>8a, <2>1 DEF LockInv, Holds
<1> QED
    BY <1>9, <1>10, <1>11, <1>12, <1>13, <1>14 DEF LockInv

\* Every step keeps the lock invariant.
LEMMA LockStep ==
    ASSUME TypeOK, LockInv, [Next]_vars
    PROVE  LockInv'
<1>1. ASSUME NEW p \in Pipelines, LockEntry(p) PROVE LockInv'
    <2>1. entry[p] # None /\ entry[p] \in Pipelines
        BY <1>1 DEF LockEntry, At, LockInv, Entered, Using, TypeOK
    <2>2. Counted' /\ Shared' /\ Mapped' /\ OneHash'
        BY <1>1 DEF LockEntry, LockInv, Counted, Shared, Mapped, OneHash, Users
    <2>3. Entered'
        BY <1>1 DEF LockEntry, Goto, At, LockInv, Entered, TypeOK, Using, Locked
    <2>4. Holds'
        <3> SUFFICES ASSUME NEW q \in Pipelines, pc'[q] \in Locked
                     PROVE  owner'[entry'[q]] = q
            BY DEF Holds
        <3>1. entry'[q] = entry[q] /\ owner' = [owner EXCEPT ![entry[p]] = p]
            BY <1>1 DEF LockEntry
        <3>2. CASE q = p
            BY <2>1, <3>1, <3>2 DEF TypeOK
        <3>3. CASE q # p
            <4>1. pc[q] \in Locked
                BY <1>1, <3>3 DEF LockEntry, Goto, TypeOK
            <4>2. owner[entry[q]] = q /\ entry[q] \in Pipelines
                BY <4>1 DEF LockInv, Holds, Entered, Using, TypeOK
            <4>3. entry[q] # entry[p]
                BY <1>1, <4>2, PipelineAssumption DEF LockEntry, Free
            <4> QED
                BY <3>1, <4>2, <4>3 DEF TypeOK
        <3> QED
            BY <3>2, <3>3
    <2> QED
        BY <2>2, <2>3, <2>4 DEF LockInv
<1>2. ASSUME NEW p \in Pipelines, Unlock(p) PROVE LockInv'
    <2>1. pc[p] \in Locked /\ owner[entry[p]] = p
        BY <1>2 DEF Unlock, At, LockInv, Holds, Locked
    <2>2. Counted' /\ Shared' /\ Mapped' /\ OneHash'
        BY <1>2 DEF Unlock, LockInv, Counted, Shared, Mapped, OneHash, Users
    <2>3. Entered'
        BY <1>2 DEF Unlock, Goto, At, LockInv, Entered, TypeOK, Using, Locked
    <2>4. Holds'
        <3> SUFFICES ASSUME NEW q \in Pipelines, pc'[q] \in Locked
                     PROVE  owner'[entry'[q]] = q
            BY DEF Holds
        <3>1. entry'[q] = entry[q] /\ owner' = [owner EXCEPT ![entry[p]] = None]
            BY <1>2 DEF Unlock
        <3>2. q # p
            BY <1>2 DEF Unlock, Goto, TypeOK, Locked
        <3>3. pc[q] \in Locked
            BY <1>2, <3>2 DEF Unlock, Goto, TypeOK
        <3>4. owner[entry[q]] = q /\ entry[q] \in Pipelines
            BY <3>3 DEF LockInv, Holds, Entered, Using, TypeOK
        <3> QED
            BY <2>1, <3>1, <3>2, <3>4 DEF TypeOK
    <2> QED
        BY <2>2, <2>3, <2>4 DEF LockInv
<1>3. ASSUME NEW p \in Pipelines, Submit(p) PROVE LockInv'
    <2>1. UNCHANGED locks /\ pc[p] = "new" /\ pc' = [pc EXCEPT ![p] = "acquire"]
        BY <1>3 DEF Submit, At, Goto
    <2>2. \A q \in Pipelines : /\ (pc'[q] \in Using) <=> (pc[q] \in Using)
                               /\ pc'[q] \in Locked => pc[q] \in Locked
        BY <2>1 DEF TypeOK, Using, Locked
    <2> QED
        BY <2>1, <2>2, LockFrame
<1>4. ASSUME NEW p \in Pipelines, Inner(p) PROVE LockInv'
    <2>1. PICK where \in Locked : pc' = [pc EXCEPT ![p] = where]
        BY <1>4, InnerMoves
    <2>2. UNCHANGED locks /\ pc[p] \in Locked
        BY <1>4, InnerMoves
    <2>3. \A q \in Pipelines : /\ (pc'[q] \in Using) <=> (pc[q] \in Using)
                               /\ pc'[q] \in Locked => pc[q] \in Locked
        BY <2>1, <2>2 DEF TypeOK, Using
    <2> QED
        BY <2>2, <2>3, LockFrame
<1>5. ASSUME NEW p \in Pipelines, WorkerStep(p) PROVE LockInv'
    BY <1>5, LockFrame DEF WorkerStep, WorkerWrites
<1>8. CASE OrphanStep
    BY <1>8, LockFrame DEF OrphanStep, OrphanWrites
<1>6. CASE Crash
    <2>1. /\ hashLocks' = [h \in Hashes |-> None] /\ refs' = [q \in Pipelines |-> 0]
          /\ entry' = [q \in Pipelines |-> None]
          /\ pc' = [q \in Pipelines |-> IF pc[q] \in Idle THEN pc[q] ELSE "dead"]
        BY <1>6 DEF Crash
    <2>2. \A q \in Pipelines : pc'[q] \notin Using
        BY <2>1 DEF Idle, Using, Locked
    <2>3. Counted'
        <3>1. \A f \in Pipelines : Users(f)' = {}
            BY <2>1, PipelineAssumption DEF Users
        <3> QED
            BY <2>1, <3>1, FS_EmptySet DEF Counted
    <2>4. Entered' /\ Holds'
        BY <2>1, <2>2 DEF Entered, Holds, Using
    <2>5. Shared' /\ Mapped' /\ OneHash'
        BY <2>1 DEF Shared, Mapped, OneHash
    <2> QED
        BY <2>3, <2>4, <2>5 DEF LockInv
<1>7. CASE UNCHANGED vars
    BY <1>7, LockFrame DEF vars
<1> QED
    BY <1>1, <1>2, <1>3, <1>4, <1>5, <1>6, <1>7, <1>8, LockSteps, LookupKeepsLock, ReleaseKeepsLock

-----------------------------------------------------------------------------
(* What the lock is for *)

\* The lock invariant gives mutual exclusion: pipelines of one hash share an
\* entry, and its owner is one.
LEMMA LockExcludes ==
    ASSUME LockInv
    PROVE  MutualExclusion
<1> SUFFICES ASSUME NEW p \in Pipelines, NEW q \in Pipelines, p # q,
                    pc[p] \in Locked, pc[q] \in Locked, HashOf[p] = HashOf[q]
             PROVE  FALSE
    BY DEF MutualExclusion
<1>1. entry[p] # None /\ entry[q] # None
    BY DEF LockInv, Entered, Using
<1>2. entry[p] = entry[q]
    BY <1>1 DEF LockInv, Shared
<1>3. owner[entry[p]] = p /\ owner[entry[q]] = q
    BY DEF LockInv, Holds
<1> QED
    BY <1>2, <1>3

\* The lock invariant says which hashes have an entry.
LEMMA LockCounts ==
    ASSUME LockInv
    PROVE  EntriesCounted
BY DEF LockInv, EntriesCounted, Shared, Mapped

\* A step under the lock does not disturb what other pipelines know of their .so.
OthersKeep(p) == \A q \in Pipelines : q # p => Known(q)'

\* If a step of p leaves a .so that a job may use alone, and changes at most the
\* .so of its own hash, then what the others know stays true.
LEMMA SoFrame ==
    ASSUME TypeOK, LockInv, SoInv, NEW p \in Pipelines, pc[p] \in Locked,
           NEW where, pc' = [pc EXCEPT ![p] = where],
           NEW file, so' = [so EXCEPT ![HashOf[p]] = file],
           Accepts(HashOf[p]) /\ HashOf[p] \notin orphaned => file = "built",
           orphaned \subseteq orphaned',
           \A q \in Pipelines : q # p => (q \in handed' <=> q \in handed)
    PROVE  OthersKeep(p)
<1> USE HashType
<1> SUFFICES ASSUME NEW q \in Pipelines, q # p, HashOf[q] \notin orphaned PROVE SoAt(q)'
    BY DEF OthersKeep, Known
<1>1. pc'[q] = pc[q] /\ (q \in handed' <=> q \in handed) /\ SoAt(q)
    BY DEF TypeOK, SoInv, Known
<1>2. CASE HashOf[q] # HashOf[p]
    <2>1. so'[HashOf[q]] = so[HashOf[q]]
        BY <1>2 DEF TypeOK
    <2> QED
        BY <1>1, <2>1 DEF SoAt, At, Accepts
<1>3. CASE HashOf[q] = HashOf[p]
    <2>1. pc[q] \notin Locked
        BY <1>3, LockExcludes DEF MutualExclusion
    <2>2. Accepts(HashOf[q]) => Accepts(HashOf[q])'
        BY <1>3 DEF Accepts, TypeOK
    <2> QED
        BY <1>1, <2>1, <2>2 DEF SoAt, At, Locked
<1> QED
    BY <1>2, <1>3

\* Steps under the lock keep the .so invariant.
LEMMA SoInner ==
    ASSUME TypeOK, LockInv, SoInv, NEW p \in Pipelines, Inner(p)
    PROVE  SoInv'
<1> USE HashType
<1>0. SUFFICES Known(p)' /\ OthersKeep(p)
    BY DEF SoInv, OthersKeep
<1>a. pc[p] \in Locked /\ Known(p)
    BY InnerMoves DEF SoInv
<1>b. so = [so EXCEPT ![HashOf[p]] = so[HashOf[p]]]
    BY DEF TypeOK
<1> USE DEF At, Goto, failRun, AfterFail, AfterEnqueue
<1>1. CASE Write(p) \/ Scan(p) \/ Transpile(p) \/ StepFails(p)
    <2>1. /\ so' = so /\ UNCHANGED <<handed, orphaned>>
          /\ \E where \in {"stat", "scan", "transpile", "persist"} : pc' = [pc EXCEPT ![p] = where]
        BY <1>1 DEF Write, Scan, Transpile, StepFails, worker, history
    <2>2. OthersKeep(p)
        BY <1>a, <1>b, <2>1, SoFrame DEF Accepts
    <2>3. Known(p)'
        BY <1>a, <2>1 DEF Known, SoAt, Accepts, TypeOK
    <2> QED
        BY <2>2, <2>3
<1>2. CASE Stat(p)
    <2>1. /\ so' = so /\ UNCHANGED <<handed, orphaned>>
          /\ \/ so[HashOf[p]] = "none" /\ pc' = [pc EXCEPT ![p] = "forge"]
             \/ so[HashOf[p]] # "none" /\ pc' = [pc EXCEPT ![p] = "validate"]
        BY <1>2 DEF Stat, worker, history
    <2>2. OthersKeep(p)
        BY <1>a, <1>b, <2>1, SoFrame DEF Accepts
    <2>3. Known(p)'
        BY <1>a, <2>1 DEF Known, SoAt, Accepts, TypeOK
    <2> QED
        BY <2>2, <2>3
<1>3. CASE ForgeBegins(p)
    <2>1. /\ so' = [so EXCEPT ![HashOf[p]] = "partial"] /\ UNCHANGED <<handed, orphaned>>
          /\ pc' = [pc EXCEPT ![p] = "forging"]
          /\ HashOf[p] \in orphaned \/ so[HashOf[p]] = "none"
        BY <1>a, <1>3 DEF ForgeBegins, worker, history, Known, SoAt
    <2>2. OthersKeep(p)
        BY <1>a, <2>1, SoFrame DEF Accepts
    <2>3. Known(p)'
        BY <1>a, <2>1 DEF Known, SoAt, Accepts, TypeOK
    <2> QED
        BY <2>2, <2>3
<1>4. CASE ForgeEnds(p) \/ ForgeFails(p) \/ (\E left \in Files : ForgeKilled(p, left))
    <2>1. /\ HashOf[p] \in orphaned \/ so[HashOf[p]] # "built"
          /\ handed' = handed /\ orphaned \subseteq orphaned'
          /\ \E file \in Files : so' = [so EXCEPT ![HashOf[p]] = file]
          /\ \/ /\ so' = [so EXCEPT ![HashOf[p]] = "built"]
                /\ pc' = [pc EXCEPT ![p] = "validate"]
             \/ pc' = [pc EXCEPT ![p] = "persist"]
        BY <1>a, <1>4 DEF ForgeEnds, ForgeFails, ForgeKilled, worker, history, Known, SoAt, Files
    <2>2. OthersKeep(p)
        BY <1>a, <2>1, SoFrame DEF Accepts
    <2>3. Known(p)'
        BY <1>a, <2>1 DEF Known, SoAt, Accepts, TypeOK
    <2> QED
        BY <2>2, <2>3
<1>5. CASE Validate(p)
    <2>1. /\ so' = so /\ UNCHANGED <<handed, orphaned>> /\ Accepts(HashOf[p])
          /\ pc' = [pc EXCEPT ![p] = "enqueue"]
        BY <1>5 DEF Validate, worker, history
    <2>2. OthersKeep(p)
        BY <1>a, <1>b, <2>1, SoFrame DEF Accepts
    <2>3. Known(p)'
        BY <1>a, <2>1 DEF Known, SoAt, Accepts, TypeOK
    <2> QED
        BY <2>2, <2>3
<1>6. CASE ValidateFails(p)
    <2>1. /\ so' = [so EXCEPT ![HashOf[p]] = "none"] /\ UNCHANGED <<handed, orphaned>>
          /\ ~Accepts(HashOf[p]) /\ pc' = [pc EXCEPT ![p] = "persist"]
        BY <1>6 DEF ValidateFails, worker, history
    <2>2. OthersKeep(p)
        BY <1>a, <2>1, SoFrame
    <2>3. Known(p)'
        BY <1>a, <2>1 DEF Known, SoAt, TypeOK
    <2> QED
        BY <2>2, <2>3
<1>7. CASE Enqueue(p) \/ \E b \in BOOLEAN : EnqueueFails(p, b)
    <2>1. /\ so' = so /\ orphaned' = orphaned
          /\ HashOf[p] \in orphaned \/ Accepts(HashOf[p])
          /\ handed' \subseteq handed \cup {p} /\ handed \subseteq handed'
          /\ \E where \in {"unlock", "dispatch"} : pc' = [pc EXCEPT ![p] = where]
        BY <1>a, <1>7 DEF Enqueue, EnqueueFails, Enqueued, worker, history, Known, SoAt
    <2>2. \A q \in Pipelines : q # p => (q \in handed' <=> q \in handed)
        BY <2>1
    <2>3. OthersKeep(p)
        BY <1>a, <1>b, <2>1, <2>2, SoFrame DEF Accepts
    <2>4. Known(p)'
        BY <1>a, <2>1 DEF Known, SoAt, Accepts, TypeOK
    <2> QED
        BY <2>3, <2>4
<1>8. CASE Dispatch(p) \/ DispatchFails(p) \/ Persist(p)
    <2>1. /\ so' = so /\ UNCHANGED <<handed, orphaned>>
          /\ \E where \in {"persist", "unlock"} : pc' = [pc EXCEPT ![p] = where]
        BY <1>8 DEF Dispatch, DispatchFails, Persist, persistRun, worker, history
    <2>2. OthersKeep(p)
        BY <1>a, <1>b, <2>1, SoFrame DEF Accepts
    <2>3. Known(p)'
        BY <1>a, <2>1 DEF Known, SoAt, Accepts, TypeOK
    <2> QED
        BY <2>2, <2>3
<1> QED
    BY <1>1, <1>2, <1>3, <1>4, <1>5, <1>6, <1>7, <1>8 DEF Inner

\* Places where a pipeline knows nothing of its .so.
Outside == {"new", "acquire", "lock", "write", "unlock", "release", "done", "dead"}

\* Every step keeps the .so invariant.
LEMMA SoStep ==
    ASSUME TypeOK, LockInv, SoInv, [Next]_vars
    PROVE  SoInv'
<1> USE HashType
<1>1. ASSUME NEW p \in Pipelines,
             Submit(p) \/ LookupEntry(p) \/ LockEntry(p) \/ Unlock(p) \/ Release(p)
      PROVE  SoInv'
    <2>1. /\ so' = so /\ UNCHANGED <<handed, orphaned>>
          /\ \E where \in Outside : pc' = [pc EXCEPT ![p] = where]
        BY <1>1 DEF Submit, LookupEntry, LockEntry, Unlock, Release, Goto, Outside, worker, history
    <2>2. ASSUME NEW q \in Pipelines PROVE Known(q)'
        <3>1. pc'[q] = pc[q] \/ pc'[q] \in Outside
            BY <2>1 DEF TypeOK
        <3> QED
            BY <2>1, <3>1 DEF SoInv, Known, SoAt, At, Accepts, Outside
    <2> QED
        BY <2>2 DEF SoInv
<1>2. ASSUME NEW p \in Pipelines, WorkerStep(p) PROVE SoInv'
    BY <1>2 DEF WorkerStep, WorkerWrites, SoInv, Known, SoAt, At, Accepts, worker, history
<1>5. CASE OrphanStep
    <2>1. PICK h \in Hashes, left \in Files : OrphanWrites(h, left)
        BY <1>5 DEF OrphanStep
    <2>2. /\ h \in orphaned /\ so' = [so EXCEPT ![h] = left]
          /\ UNCHANGED <<pc, handed, orphaned>>
        BY <2>1 DEF OrphanWrites, worker, history
    <2>3. ASSUME NEW q \in Pipelines, HashOf[q] \notin orphaned PROVE SoAt(q)'
        <3>1. so'[HashOf[q]] = so[HashOf[q]] /\ SoAt(q)
            BY <2>2, <2>3 DEF TypeOK, SoInv, Known
        <3> QED
            BY <2>2, <3>1 DEF SoAt, At, Accepts
    <2> QED
        BY <2>2, <2>3 DEF SoInv, Known
<1>3. CASE Crash
    <2>1. ASSUME NEW q \in Pipelines, HashOf[q] \notin orphaned PROVE SoAt(q)'
        <3>1. pc'[q] \in Idle /\ handed' = handed /\ SoAt(q)
            BY <1>3, <2>1 DEF Crash, Idle, worker, SoInv, Known
        <3>2. Accepts(HashOf[q]) => so'[HashOf[q]] = so[HashOf[q]]
            <4>1. Accepts(HashOf[q]) => ~Forging(HashOf[q])
                BY <2>1 DEF SoInv, Known, SoAt, Forging, Accepts
            <4> QED
                BY <1>3, <4>1 DEF Crash
        <3> QED
            BY <3>1, <3>2 DEF SoAt, At, Accepts, Idle
    <2>2. orphaned' = orphaned
        BY <1>3 DEF Crash
    <2> QED
        BY <2>1, <2>2 DEF SoInv, Known
<1>4. CASE UNCHANGED vars
    BY <1>4 DEF vars, SoInv, Known, SoAt, At, Accepts, worker, history
<1> QED
    BY <1>1, <1>2, <1>3, <1>4, <1>5, SoInner, LockSteps

\* A truncated .so has a cause, and so has the refusal of good code.
CauseInv == PartialInv /\ RefusalHasCause

\* If a step of p does not take it away from a compilation and changes no .so,
\* truncated files keep their cause.
LEMMA PartialFrame ==
    ASSUME TypeOK, PartialInv, NEW p \in Pipelines, ~At(p, "forging"),
           NEW where, pc' = [pc EXCEPT ![p] = where],
           \A h \in Hashes : so'[h] = "partial" => so[h] = "partial",
           interrupted \subseteq interrupted', orphaned' = orphaned
    PROVE  PartialInv'
<1> SUFFICES ASSUME NEW h \in Hashes, so'[h] = "partial", h \notin interrupted'
             PROVE  Forging(h)'
    BY DEF PartialInv
<1>1. PICK q \in Pipelines : At(q, "forging") /\ HashOf[q] = h
    BY DEF PartialInv, Forging
<1>2. At(q, "forging")'
    BY <1>1 DEF At, TypeOK
<1> QED
    BY <1>1, <1>2 DEF Forging

\* Steps under the lock keep the causes.
LEMMA CauseInner ==
    ASSUME TypeOK, LockInv, SoInv, CauseInv, NEW p \in Pipelines, Inner(p)
    PROVE  CauseInv'
<1> USE HashType DEF At, Goto, failRun, AfterFail, AfterEnqueue
<1>1. CASE ForgeBegins(p)
    <2>1. /\ so' = [so EXCEPT ![HashOf[p]] = "partial"] /\ UNCHANGED history
          /\ pc' = [pc EXCEPT ![p] = "forging"] /\ pc[p] = "forge"
        BY <1>1 DEF ForgeBegins
    <2>2. ASSUME NEW h \in Hashes, so'[h] = "partial", h \notin interrupted' PROVE Forging(h)'
        <3>1. CASE h = HashOf[p]
            BY <2>1, <3>1 DEF Forging, TypeOK
        <3>2. CASE h # HashOf[p]
            <4>1. so[h] = "partial" /\ h \notin interrupted
                BY <2>1, <2>2, <3>2 DEF TypeOK, history
            <4>2. PICK q \in Pipelines : pc[q] = "forging" /\ HashOf[q] = h
                BY <4>1 DEF CauseInv, PartialInv, Forging
            <4> QED
                BY <2>1, <4>2 DEF Forging, TypeOK
        <3> QED
            BY <3>1, <3>2
    <2>3. PartialInv'
        BY <2>1, <2>2 DEF CauseInv, PartialInv, history
    <2> QED
        BY <2>1, <2>3 DEF CauseInv, RefusalHasCause, history
<1>2. CASE ForgeEnds(p) \/ ForgeFails(p) \/ (\E left \in Files : ForgeKilled(p, left))
    <2>1. /\ rejected' = rejected /\ interrupted \subseteq interrupted'
          /\ \E file \in Files : /\ so' = [so EXCEPT ![HashOf[p]] = file]
                                 /\ file = "partial" => HashOf[p] \in interrupted'
          /\ \E where \in Places : pc' = [pc EXCEPT ![p] = where]
        BY <1>2 DEF ForgeEnds, ForgeFails, ForgeKilled, history, Files, Places, Locked
    <2>2. ASSUME NEW h \in Hashes, so'[h] = "partial", h \notin interrupted' PROVE Forging(h)'
        <3>1. h # HashOf[p] /\ so[h] = "partial" /\ h \notin interrupted
            BY <2>1, <2>2 DEF TypeOK
        <3>2. PICK q \in Pipelines : pc[q] = "forging" /\ HashOf[q] = h
            BY <3>1 DEF CauseInv, PartialInv, Forging
        <3> QED
            BY <2>1, <3>1, <3>2 DEF Forging, TypeOK
    <2>3. PartialInv'
        <3>1. orphaned' \subseteq interrupted'
            BY <1>2 DEF ForgeEnds, ForgeFails, ForgeKilled, history, CauseInv, PartialInv
        <3> QED
            BY <2>2, <3>1 DEF PartialInv
    <2> QED
        BY <2>1, <2>3 DEF CauseInv, RefusalHasCause
<1>3. CASE ValidateFails(p)
    <2>1. /\ so' = [so EXCEPT ![HashOf[p]] = "none"] /\ rejected' = rejected \cup {p}
          /\ UNCHANGED <<interrupted, orphaned>> /\ pc' = [pc EXCEPT ![p] = "persist"]
          /\ pc[p] = "validate" /\ ~Accepts(HashOf[p])
        BY <1>3 DEF ValidateFails
    <2>2. PartialInv'
        <3>1. \A h \in Hashes : so'[h] = "partial" => so[h] = "partial"
            BY <2>1 DEF TypeOK
        <3> QED
            BY <2>1, <3>1, PartialFrame DEF CauseInv
    <2>3. HashOf[p] \in GoodCode => HashOf[p] \in interrupted
        <3> SUFFICES ASSUME HashOf[p] \in GoodCode, HashOf[p] \notin orphaned
                     PROVE  HashOf[p] \in interrupted
            BY DEF CauseInv, PartialInv
        <3>1. so[HashOf[p]] = "partial"
            BY <2>1 DEF Accepts, SoInv, Known, SoAt, TypeOK, Files
        <3>2. ~Forging(HashOf[p])
            <4> SUFFICES ASSUME NEW q \in Pipelines, pc[q] = "forging", HashOf[q] = HashOf[p]
                         PROVE  FALSE
                BY DEF Forging
            <4>1. q # p /\ pc[q] \in Locked /\ pc[p] \in Locked
                BY <2>1 DEF Locked
            <4> QED
                BY <4>1, LockExcludes DEF MutualExclusion
        <3> QED
            BY <3>1, <3>2 DEF CauseInv, PartialInv
    <2> QED
        BY <2>1, <2>2, <2>3 DEF CauseInv, RefusalHasCause
<1>4. CASE \/ Write(p) \/ Scan(p) \/ Transpile(p) \/ StepFails(p) \/ Stat(p) \/ Validate(p)
           \/ Enqueue(p) \/ (\E b \in BOOLEAN : EnqueueFails(p, b))
           \/ Dispatch(p) \/ DispatchFails(p) \/ Persist(p)
    <2>1. /\ so' = so /\ UNCHANGED history /\ pc[p] # "forging"
        BY <1>4 DEF Write, Scan, Transpile, StepFails, Stat, Validate, Enqueue, EnqueueFails,
                    Dispatch, DispatchFails, Persist, persistRun
    <2>2. PICK where \in Locked : pc' = [pc EXCEPT ![p] = where]
        BY InnerMoves
    <2>3. PartialInv'
        BY <2>1, <2>2, PartialFrame DEF CauseInv, history
    <2> QED
        BY <2>1, <2>3 DEF CauseInv, RefusalHasCause, history
<1> QED
    BY <1>1, <1>2, <1>3, <1>4 DEF Inner

\* Every step keeps the causes.
LEMMA CauseStep ==
    ASSUME TypeOK, LockInv, SoInv, CauseInv, [Next]_vars
    PROVE  CauseInv'
<1>1. ASSUME NEW p \in Pipelines,
             Submit(p) \/ LookupEntry(p) \/ LockEntry(p) \/ Unlock(p) \/ Release(p)
      PROVE  CauseInv'
    <2>1. /\ so' = so /\ UNCHANGED history /\ ~At(p, "forging")
          /\ \E where \in Outside : pc' = [pc EXCEPT ![p] = where]
        BY <1>1 DEF Submit, LookupEntry, LockEntry, Unlock, Release, At, Goto, Outside
    <2>2. PartialInv'
        BY <2>1, PartialFrame DEF CauseInv, history
    <2> QED
        BY <2>1, <2>2 DEF CauseInv, RefusalHasCause, history
<1>2. ASSUME NEW p \in Pipelines, WorkerStep(p) PROVE CauseInv'
    BY <1>2 DEF WorkerStep, WorkerWrites, CauseInv, PartialInv, RefusalHasCause,
                Forging, At, history
<1>5. CASE OrphanStep
    <2>1. PICK h \in Hashes, left \in Files : OrphanWrites(h, left)
        BY <1>5 DEF OrphanStep
    <2>2. /\ h \in orphaned /\ so' = [so EXCEPT ![h] = left] /\ UNCHANGED <<pc, history>>
        BY <2>1 DEF OrphanWrites
    <2>3. \A g \in Hashes : g \notin interrupted => so'[g] = so[g]
        BY <2>2 DEF CauseInv, PartialInv, TypeOK
    <2> QED
        BY <2>2, <2>3 DEF CauseInv, PartialInv, RefusalHasCause, Forging, At, history
<1>3. CASE Crash
    <2>1. /\ UNCHANGED <<rejected, orphaned>>
          /\ interrupted' = interrupted \cup {h \in Hashes : Forging(h)}
        BY <1>3 DEF Crash
    <2>2. \A h \in Hashes : ~Forging(h) => so'[h] = so[h]
        BY <1>3 DEF Crash
    <2>3. PartialInv'
        BY <2>1, <2>2 DEF CauseInv, PartialInv
    <2> QED
        BY <2>1, <2>3 DEF CauseInv, RefusalHasCause
<1>4. CASE UNCHANGED vars
    BY <1>4 DEF vars, CauseInv, PartialInv, RefusalHasCause, Forging, At, history
<1> QED
    BY <1>1, <1>2, <1>3, <1>4, <1>5, CauseInner, LockSteps

-----------------------------------------------------------------------------
(* Who writes the runs table *)

\* A step of p that touches no other run's record keeps what holds of the others.
LEMMA StatusFrame ==
    ASSUME StatusInv, NEW p \in Pipelines, StatusAt(p)', 
           \A q \in Pipelines : q # p => /\ pc'[q] = pc[q] /\ runCache'[q] = runCache[q]
                                         /\ db'[q] = db[q]
                                         /\ (q \in handed') <=> (q \in handed)
                                         /\ (q \in unsure') <=> (q \in unsure)
                                         /\ (q \in unwritten') <=> (q \in unwritten)
    PROVE  StatusInv'
<1> SUFFICES ASSUME NEW q \in Pipelines, q # p PROVE StatusAt(q)'
    BY DEF StatusInv
<1>1. StatusAt(q)
    BY DEF StatusInv
<1> QED
    BY <1>1 DEF StatusAt, At

\* Every step keeps the status invariant, and a row has one writer.
LEMMA StatusStep ==
    ASSUME TypeOK, StatusInv, [Next]_vars
    PROVE  StatusInv' /\ RowStep
<1> USE DEF At, Goto, updateRunStatus, failRun, AfterFail, AfterEnqueue, worker, table
<1>1. ASSUME NEW p \in Pipelines,
             LookupEntry(p) \/ LockEntry(p) \/ Unlock(p) \/ Release(p)
      PROVE  StatusInv' /\ RowStep
    <2>1. UNCHANGED <<runCache, table, handed, unsure>>
        BY <1>1 DEF LookupEntry, LockEntry, Unlock, Release
    <2>2. \/ /\ pc[p] \in Before \ {"new"}
             /\ \E w \in Before \ {"persist"} : pc' = [pc EXCEPT ![p] = w]
          \/ pc[p] \in {"unlock", "release"} /\ \E w \in {"release", "done"} : pc' = [pc EXCEPT ![p] = w]
        BY <1>1 DEF LookupEntry, LockEntry, Unlock, Release, Before, Locked
    <2>3. StatusAt(p)'
        BY <2>1, <2>2 DEF StatusInv, StatusAt, Before, Locked, TypeOK
    <2> QED
        BY <2>1, <2>2, <2>3, StatusFrame DEF RowStep, TypeOK
<1>2. ASSUME NEW p \in Pipelines, Submit(p) PROVE StatusInv' /\ RowStep
    <2>1. /\ pc[p] = "new" /\ pc' = [pc EXCEPT ![p] = "acquire"] /\ UNCHANGED <<handed, unsure>>
          /\ runCache' = [runCache EXCEPT ![p] = "queued"]
          /\ \/ db' = [db EXCEPT ![p] = "queued"] /\ unwritten' = unwritten \ {p}
             \/ unwritten' = unwritten \cup {p} /\ db' = db
        BY <1>2 DEF Submit, persistRun
    <2>2. StatusAt(p)' /\ (p \in unsure \/ (p \notin handed /\ db[p] \notin Final))
        BY <2>1 DEF StatusInv, StatusAt, Before, Locked, Final, TypeOK
    <2> QED
        BY <2>1, <2>2, StatusFrame DEF RowStep, TypeOK
<1>3. ASSUME NEW p \in Pipelines, Persist(p) PROVE StatusInv' /\ RowStep
    <2>1. /\ pc[p] = "persist" /\ pc' = [pc EXCEPT ![p] = "unlock"]
          /\ UNCHANGED <<runCache, handed, unsure>>
          /\ \/ db' = [db EXCEPT ![p] = runCache[p]] /\ unwritten' = unwritten \ {p}
             \/ unwritten' = unwritten \cup {p} /\ db' = db
        BY <1>3 DEF Persist, persistRun
    <2>2. runCache[p] \in Final /\ (p \notin unsure => p \notin handed /\ db[p] \notin Final)
        BY <2>1 DEF StatusInv, StatusAt, Before, Locked
    <2>3. StatusAt(p)'
        BY <2>1, <2>2 DEF StatusAt, Before, Locked, Final, TypeOK
    <2> QED
        BY <2>1, <2>2, <2>3, StatusFrame DEF RowStep, TypeOK
<1>4. ASSUME NEW p \in Pipelines, Enqueue(p) PROVE StatusInv' /\ RowStep
    <2>1. /\ pc[p] = "enqueue" /\ pc' = [pc EXCEPT ![p] = "unlock"]
          /\ UNCHANGED <<runCache, table, unsure>> /\ handed' = handed \cup {p}
        BY <1>4 DEF Enqueue, Enqueued
    <2>2. StatusAt(p)'
        BY <2>1 DEF StatusInv, StatusAt, Before, Locked, TypeOK
    <2> QED
        BY <2>1, <2>2, StatusFrame DEF RowStep, TypeOK
<1>5. ASSUME NEW p \in Pipelines, NEW b \in BOOLEAN, EnqueueFails(p, b)
      PROVE  StatusInv' /\ RowStep
    <2>1. /\ pc[p] = "enqueue" /\ pc' = [pc EXCEPT ![p] = "dispatch"]
          /\ UNCHANGED table /\ runCache' = [runCache EXCEPT ![p] = "running"]
          /\ \/ unsure' = unsure \cup {p} /\ handed' = handed \cup {p}
             \/ UNCHANGED <<unsure, handed>>
        BY <1>5 DEF EnqueueFails, Enqueued
    <2>2. StatusAt(p)'
        BY <2>1 DEF StatusInv, StatusAt, Before, Locked, TypeOK
    <2> QED
        BY <2>1, <2>2, StatusFrame DEF RowStep, TypeOK
<1>6. ASSUME NEW p \in Pipelines,
             \/ Write(p) \/ Scan(p) \/ Transpile(p) \/ StepFails(p)
             \/ Stat(p) \/ ForgeBegins(p) \/ ForgeEnds(p) \/ ForgeFails(p)
             \/ (\E left \in Files : ForgeKilled(p, left))
             \/ Validate(p) \/ ValidateFails(p) \/ Dispatch(p) \/ DispatchFails(p)
      PROVE  StatusInv' /\ RowStep
    <2>1. /\ UNCHANGED <<table, handed, unsure>>
          /\ pc[p] \in Before /\ pc[p] # "new"
          /\ \E s \in Statuses : runCache' = [runCache EXCEPT ![p] = s]
          /\ \/ \E w \in Before \ {"persist"} : pc' = [pc EXCEPT ![p] = w]
             \/ /\ pc' = [pc EXCEPT ![p] = "persist"]
                /\ \E s \in Final : runCache' = [runCache EXCEPT ![p] = s]
        <3>1. CASE Write(p) \/ Scan(p) \/ Transpile(p) \/ StepFails(p)
            BY <3>1 DEF Write, Scan, Transpile, StepFails, Before, Locked, Statuses, Final
        <3>2. CASE Stat(p)
            <4>1. runCache = [runCache EXCEPT ![p] = runCache[p]] /\ runCache[p] \in Statuses
                BY DEF TypeOK
            <4> QED
                BY <3>2, <4>1 DEF Stat, Before, Locked, Statuses
        <3>3. CASE ForgeBegins(p)
            <4>1. runCache = [runCache EXCEPT ![p] = runCache[p]] /\ runCache[p] \in Statuses
                BY DEF TypeOK
            <4> QED
                BY <3>3, <4>1 DEF ForgeBegins, Before, Locked
        <3>4. CASE ForgeEnds(p) \/ ForgeFails(p) \/ (\E left \in Files : ForgeKilled(p, left))
            BY <3>4 DEF ForgeEnds, ForgeFails, ForgeKilled, Before, Locked, Statuses, Final
        <3>5. CASE Validate(p) \/ ValidateFails(p) \/ Dispatch(p) \/ DispatchFails(p)
            BY <3>5 DEF Validate, ValidateFails, Dispatch, DispatchFails, Before, Locked, Statuses, Final
        <3> QED
            BY <1>6, <3>1, <3>2, <3>3, <3>4, <3>5
    <2>2. StatusAt(p)'
        BY <2>1 DEF StatusInv, StatusAt, Before, Locked, TypeOK
    <2> QED
        BY <2>1, <2>2, StatusFrame DEF RowStep, TypeOK
<1>7. ASSUME NEW p \in Pipelines, WorkerStep(p) PROVE StatusInv' /\ RowStep
    <2>1. /\ UNCHANGED <<pc, runCache, unwritten, handed, unsure>>
          /\ p \in handed /\ db[p] # "none"
          /\ \E s \in WorkerStatuses : db' = [db EXCEPT ![p] = s]
        BY <1>7 DEF WorkerStep, WorkerWrites
    <2>2. StatusAt(p)'
        BY <2>1 DEF StatusInv, StatusAt, WorkerStatuses, TypeOK
    <2> QED
        BY <2>1, <2>2, StatusFrame DEF RowStep, TypeOK
<1>10. CASE OrphanStep
    BY <1>10 DEF OrphanStep, OrphanWrites, StatusInv, StatusAt, RowStep
<1>8. CASE Crash
    <2>1. /\ UNCHANGED <<table, handed, unsure>>
          /\ \A q \in Pipelines :
                \/ pc'[q] = pc[q] /\ pc[q] \in Idle
                \/ pc'[q] = "dead" /\ pc[q] # "new"
        BY <1>8 DEF Crash, Idle
    <2>2. ASSUME NEW q \in Pipelines PROVE StatusAt(q)'
        <3>1. StatusAt(q) /\ db' = db /\ unwritten' = unwritten
            BY <2>1 DEF StatusInv
        <3>2. CASE pc'[q] = "dead" /\ pc[q] # "new"
            BY <2>1, <3>1, <3>2 DEF StatusAt, Before, Locked
        <3>3. CASE pc'[q] = pc[q] /\ pc[q] \in Idle
            BY <2>1, <3>1, <3>3 DEF StatusAt, Idle
        <3> QED
            BY <2>1, <3>2, <3>3
    <2> QED
        BY <2>1, <2>2 DEF StatusInv, RowStep
<1>9. CASE UNCHANGED vars
    BY <1>9 DEF vars, StatusInv, StatusAt, RowStep
<1> QED
    BY <1>1, <1>2, <1>3, <1>4, <1>5, <1>6, <1>7, <1>8, <1>9, <1>10, LockSteps DEF Inner

-----------------------------------------------------------------------------
(* The theorems *)

IInv == TypeOK /\ LockInv /\ SoInv /\ CauseInv /\ StatusInv

\* The invariant holds in every state of every behaviour.
THEOREM Invariance == Spec => []IInv
<1>1. Init => IInv
    <2> SUFFICES ASSUME Init PROVE IInv
        OBVIOUS
    <2>1. TypeOK
        BY PipelineAssumption DEF Init, TypeOK, Places, Idle, Statuses, Files
    <2>2. LockInv
        <3>1. Counted
            <4>1. \A e \in Pipelines : Users(e) = {}
                BY PipelineAssumption DEF Init, Users
            <4> QED
                BY <4>1, FS_EmptySet DEF Counted, Init
        <3>2. Entered /\ Holds
            BY DEF Init, Entered, Holds, Using, Locked
        <3>3. Shared /\ Mapped /\ OneHash
            BY DEF Init, Shared, Mapped, OneHash
        <3> QED
            BY <3>1, <3>2, <3>3 DEF LockInv
    <2>3. SoInv /\ StatusInv
        BY DEF Init, SoInv, Known, SoAt, StatusInv, StatusAt, At, Before, Final
    <2>4. CauseInv
        BY HashType, PipelineAssumption DEF Init, CauseInv, PartialInv, RefusalHasCause
    <2> QED
        BY <2>1, <2>2, <2>3, <2>4 DEF IInv
<1>2. IInv /\ [Next]_vars => IInv'
    BY TypeStep, LockStep, SoStep, CauseStep, StatusStep DEF IInv
<1> QED
    BY <1>1, <1>2, PTL DEF Spec

\* Types are kept; in particular no reference count becomes negative.
THEOREM TypeCorrect == Spec => []TypeOK
<1>1. IInv => TypeOK
    BY DEF IInv
<1> QED
    BY <1>1, Invariance, PTL

\* acquireHashLock and releaseHashLock exclude each other per hash, although
\* entries are allocated and freed while others wait.
THEOREM OneForgePerHash == Spec => []MutualExclusion
<1>1. IInv => MutualExclusion
    BY LockExcludes DEF IInv
<1> QED
    BY <1>1, Invariance, PTL

\* The map of locks has an entry exactly for the hashes in use.
THEOREM LocksAreFreed == Spec => []EntriesCounted
<1>1. IInv => EntriesCounted
    BY LockCounts DEF IInv
<1> QED
    BY <1>1, Invariance, PTL

\* No job, queued, running, to be retried or dispatched directly, loses its .so,
\* except to a compiler that outlived the timeout of its forge.
THEOREM SoIsThere == Spec => []JobsHaveSo
<1>1. IInv => JobsHaveSo
    BY DEF IInv, SoInv, Known, SoAt, JobsHaveSo, At
<1> QED
    BY <1>1, Invariance, PTL

\* Valid code is refused only after a compilation of it was cut short.
THEOREM RefusalsExplained == Spec => []RefusalHasCause
<1>1. IInv => RefusalHasCause
    BY DEF IInv, CauseInv
<1> QED
    BY <1>1, Invariance, PTL

\* A pipeline that has ended left its run with the worker and a row to update, or
\* with a verdict in its row, or the database refused the last write of the row.
THEOREM NoSilentEnd == Spec => []EndsRecorded
<1>1. IInv => EndsRecorded
    BY DEF IInv, StatusInv, StatusAt, EndsRecorded
<1> QED
    BY <1>1, Invariance, PTL

\* The pipeline of a run writes the run's row neither after the hand-over to the
\* worker nor over its own verdict, unless the reply to the Enqueue was lost.
THEOREM OneWriterPerRow == Spec => RowHasOneWriter
<1>1. IInv /\ [Next]_vars => [RowStep]_vars
    BY StatusStep DEF IInv
<1> QED
    BY <1>1, Invariance, PTL DEF Spec, RowHasOneWriter

=============================================================================
