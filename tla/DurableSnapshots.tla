------------------------- MODULE DurableSnapshots -------------------------
(***************************************************************************)
(* snapshot_file() and restore_file() (agent_saga/durable.py) in the steps *)
(* of one saga that rewrites one file, and SnapshotGC (agent_saga/gc.py),  *)
(* which deletes from the store they share by what it reads in the log and *)
(* in the journal of the recovery daemon.  Sagas share nothing here but    *)
(* the sweep, so one saga is enough; RecoveryDaemon has the claims.        *)
(***************************************************************************)
EXTENDS SagaLog, FiniteSetsExt

CONSTANTS
    MaxSteps,    \* bound: steps of the saga
    Grace,       \* grace_seconds, in ticks of the clock
    MaxTrouble   \* bound: calls that fail, crashes of the saga and of the daemon

ASSUME SnapshotAssumption == MaxSteps \in Nat \ {0} /\ Grace \in Nat /\ MaxTrouble \in Nat

StepNumbers == 1..MaxSteps

\* What the file holds: nothing, its first contents (0), what step i wrote (i), or
\* what somebody else did.
Absent == -1
Edited == MaxSteps + 1

VARIABLES
    pc, n,       \* where the saga stands, and its latest step
    file,
    prior,       \* what snapshot_file() found before each step's mutation
    store,       \* the steps whose snapshot is in the store
    age,         \* how old each is, up to Grace + 1
    disk,        \* the saga's records, in the order of the log
    synced,      \* how many of them a crash cannot take
    quiet,       \* ticks since the saga's last record, up to Grace + 1
    cursor, halted, \* rollback()
    at,          \* the daemon: "idle", or "restored" and not yet journalled
    recovered,   \* the journal: steps with RECOVERY_SUCCESS,
    escalated,   \* and was there a RECOVERY_FAILED or RECOVERY_ESCALATED?
    view,        \* what a sweep of the collector read, or <<>>
    origin,      \* history: the file before the saga
    early,       \* history: snapshots deleted before their step's outcome was known
    trouble

saga == <<pc, n, prior, cursor, halted>>
logVars == <<disk, synced, quiet>>
keeping == <<store, age, early>>
journal == <<at, recovered, escalated>>
vars == <<saga, file, logVars, keeping, journal, view, origin, trouble>>

Init ==
    /\ pc = "body" /\ n = 0 /\ cursor = 0 /\ halted = FALSE
    /\ origin \in {Absent, 0} /\ file = origin
    /\ prior = [i \in StepNumbers |-> Absent]
    /\ store = {} /\ age = [i \in StepNumbers |-> 0] /\ early = {}
    /\ disk = <<>> /\ synced = 0 /\ quiet = 0
    /\ at = "idle" /\ recovered = {} /\ escalated = FALSE
    /\ view = <<>> /\ trouble = 0

Trouble == trouble < MaxTrouble /\ trouble' = trouble + 1

Rec(ev, i, comp) == [ev |-> ev, step |-> i, sem |-> "COMPENSABLE", comp |-> comp]

\* append(), with and without a fence behind it.
Record(r, fenced) ==
    /\ disk' = Append(disk, r) /\ quiet' = 0
    /\ synced' = IF fenced THEN Len(disk) + 1 ELSE synced

-----------------------------------------------------------------------------
(* The saga.                                                                *)

\* Mutant: the contents are captured after the mutation.
FoundAfter == n + 1

Found == file

Put(i) == store' = store \union {i} /\ age' = [age EXCEPT ![i] = 0]

\* snapshot_file(): the prior contents go to the store, if there are any, and then
\* execute() fences the intent.
Capture ==
    /\ pc = "body" /\ n < MaxSteps /\ n' = n + 1
    /\ prior' = [prior EXCEPT ![n + 1] = Found]
    /\ IF Found = Absent THEN UNCHANGED <<store, age>> ELSE Put(n + 1)
    /\ pc' = "captured"
    /\ UNCHANGED <<file, logVars, cursor, halted, early, journal, view, origin, trouble>>

Intent ==
    /\ pc = "captured" /\ Record(Rec("STEP_INTENT", n, "none"), TRUE) /\ pc' = "calling"
    /\ UNCHANGED <<n, prior, cursor, halted, file, keeping, journal, view, origin, trouble>>

\* mutate() wrote the file; it takes the time it takes.
Mutate ==
    /\ pc = "calling" /\ file' = n /\ pc' = "mutated"
    /\ UNCHANGED <<n, prior, cursor, halted, logVars, keeping, journal, view, origin, trouble>>

\* The reference goes into the log with the outcome; an error of mutate() makes the
\* outcome UNKNOWN, and no hash of the contents is known.
Outcomes ==
    /\ \/ pc = "mutated" /\ Record(Rec("STEP_COMMITTED", n, "durable"), TRUE)
          /\ pc' = "body" /\ UNCHANGED trouble
       \/ pc \in {"calling", "mutated"} /\ Trouble
          /\ Record(Rec("STEP_UNKNOWN", n, "durable"), TRUE) /\ pc' = "body"
    /\ UNCHANGED <<n, prior, cursor, halted, file, keeping, journal, view, origin>>

Complete ==
    /\ pc = "body" /\ Record(Rec("SAGA_COMPLETE", 0, "none"), TRUE) /\ pc' = "done"
    /\ UNCHANGED <<n, prior, cursor, halted, file, keeping, journal, view, origin, trouble>>

Abort ==
    /\ pc = "body" /\ pc' = "undoing" /\ cursor' = n /\ halted' = FALSE
    /\ Record(Rec("ROLLBACK_START", 0, "none"), FALSE)
    /\ UNCHANGED <<n, prior, file, keeping, journal, view, origin, trouble>>

\* The hash in the descriptor is that of what the step left in the file.
Guard(i) == LoggedState(disk, i) = "STEP_COMMITTED" => file = i

\* restore_file() raises StaleFile, or FileNotFoundError for a snapshot that is gone.
Restorable(i) == Guard(i) /\ (prior[i] = Absent \/ i \in store)
Restore(i) == file' = prior[i]

\* rollback(), newest first; COMPENSATED is not fenced.
Undo ==
    /\ pc = "undoing" /\ cursor > 0 /\ ~halted
    /\ \/ Restorable(cursor) /\ Restore(cursor)
          /\ Record(Rec("COMPENSATED", cursor, "none"), FALSE) /\ UNCHANGED halted
       \/ ~Restorable(cursor) /\ halted' = TRUE /\ UNCHANGED file
          /\ Record(Rec("COMPENSATION_FAILED", cursor, "none"), FALSE)
    /\ cursor' = cursor - 1
    /\ UNCHANGED <<pc, n, prior, keeping, journal, view, origin, trouble>>

EndRollback ==
    /\ pc = "undoing" /\ (cursor = 0 \/ halted) /\ pc' = "aborting"
    /\ Record(Rec("ROLLBACK_END", 0, "none"), TRUE)
    /\ UNCHANGED <<n, prior, cursor, halted, file, keeping, journal, view, origin, trouble>>

Aborted ==
    /\ pc = "aborting" /\ Record(Rec("SAGA_ABORTED", 0, "none"), TRUE) /\ pc' = "done"
    /\ UNCHANGED <<n, prior, cursor, halted, file, keeping, journal, view, origin, trouble>>

Crash ==
    /\ pc \notin {"done", "dead"} /\ Trouble /\ pc' = "dead"
    /\ \E k \in synced..Len(disk) : disk' = SubSeq(disk, 1, k) /\ synced' = k
    /\ UNCHANGED <<n, prior, cursor, halted, file, quiet, keeping, journal, view, origin>>

\* Somebody else edits the file, once.
Edit ==
    /\ file # Edited /\ \A i \in 1..n : prior[i] # Edited
    /\ file' = Edited
    /\ UNCHANGED <<saga, logVars, keeping, journal, view, origin, trouble>>

-----------------------------------------------------------------------------
(* The daemon, on a saga whose process is gone.                             *)

Due == LET todo == Pending(disk) \ recovered IN IF todo = {} THEN 0 ELSE Max(todo)

\* A step without a descriptor goes to a human, like one whose handler raised.
Recover ==
    /\ pc = "dead" /\ at = "idle" /\ ~ResolvedInProcess(disk) /\ Due # 0
    /\ quiet' = 0
    /\ IF LoggedComp(disk, Due) = "durable" /\ Restorable(Due)
       THEN Restore(Due) /\ at' = "restored" /\ UNCHANGED escalated
       ELSE escalated' = TRUE /\ UNCHANGED <<file, at>>
    /\ UNCHANGED <<saga, disk, synced, keeping, recovered, view, origin, trouble>>

Journal ==
    /\ at = "restored" /\ at' = "idle" /\ recovered' = recovered \union {Due} /\ quiet' = 0
    /\ UNCHANGED <<saga, file, disk, synced, keeping, escalated, view, origin, trouble>>

DaemonDies ==
    /\ at = "restored" /\ Trouble /\ at' = "idle"
    /\ UNCHANGED <<saga, file, logVars, keeping, recovered, escalated, view, origin>>

-----------------------------------------------------------------------------
(* The collector.                                                           *)

\* Mutant: only the outcomes known to be good are read.
ReferencesCommitted ==
    {i \in LoggedSteps(disk) : LoggedState(disk, i) = "STEP_COMMITTED" /\ prior[i] # Absent}

\* _SagaLife.snapshot_ids
References == {i \in LoggedSteps(disk) : LoggedComp(disk, i) = "durable" /\ prior[i] # Absent}

\* Mutant: only a saga the daemon resolved counts.
ResolvedIfRecovered == recovered # {} /\ ~escalated

\* _SagaLife.resolved, with _apply_recovery_journal()
Resolved == ResolvedInProcess(disk) \/ (recovered # {} /\ ~escalated)

\* The _SagaLife that _sagas() makes of the records.
Life == [references |-> References, resolved |-> Resolved, escalated |-> escalated,
         old |-> quiet > Grace, outcomes |-> {i \in StepNumbers : Outcome(disk, i) # 0}]

\* collect() reads the log and the journal, then lists the store.
Collect ==
    /\ view = <<>> /\ view' = <<Life>>
    /\ UNCHANGED <<saga, file, logVars, keeping, journal, origin, trouble>>

\* age_seconds() of the snapshot, beyond the grace period.
Old(i) == age[i] > Grace

Reapable(i) ==
    IF i \in view[1].references THEN view[1].resolved /\ ~view[1].escalated /\ view[1].old
    ELSE Old(i)

Delete(i) == store' = store \ {i}

Reap(i) ==
    /\ view # <<>> /\ i \in store /\ Reapable(i) /\ Delete(i)
    /\ early' = IF i \in view[1].outcomes THEN early ELSE early \union {i}
    /\ UNCHANGED <<saga, file, logVars, age, journal, view, origin, trouble>>

Collected ==
    /\ view # <<>> /\ \A i \in store : ~Reapable(i)
    /\ view' = <<>>
    /\ UNCHANGED <<saga, file, logVars, keeping, journal, origin, trouble>>

Older(ticks) == IF ticks > Grace THEN ticks ELSE ticks + 1

Tick ==
    /\ age' = [i \in StepNumbers |-> IF i \in store THEN Older(age[i]) ELSE age[i]]
    /\ quiet' = Older(quiet)
    /\ UNCHANGED <<saga, file, disk, synced, store, early, journal, view, origin, trouble>>

-----------------------------------------------------------------------------
Sweep == Collect \/ (\E i \in StepNumbers : Reap(i)) \/ Collected

Next ==
    \/ Capture \/ Intent \/ Mutate \/ Outcomes \/ Complete
    \/ Abort \/ Undo \/ EndRollback \/ Aborted \/ Crash \/ Edit
    \/ Recover \/ Journal \/ DaemonDies \/ Sweep \/ Tick

Spec == Init /\ [][Next]_vars

\* The collector is scheduled, and time passes.
SweptSpec == Spec /\ WF_vars(Sweep) /\ WF_vars(Tick)

-----------------------------------------------------------------------------
(* Properties                                                               *)

\* The snapshot of a step that still has to be undone.
Needed(i) ==
    i \in Pending(disk) \ recovered /\ LoggedComp(disk, i) = "durable" /\ prior[i] # Absent
    /\ ~ResolvedInProcess(disk)

\* The failure the collector must never cause: it does not delete what an undo still
\* needs, but for a call that outlasted the grace period before its outcome was
\* known, and for a saga the daemon got half through (gc.py:8, gc.py:131, gc.py:155).
KeptWhileNeeded ==
    \A i \in StepNumbers : Needed(i) => i \in store \/ i \in early \/ recovered # {}

\* An undo that went through to the end leaves the file as it was before the saga,
\* or as somebody else made it: whatever the rollback had done before it died, and
\* however often the daemon restored what was restored (durable.py:122).
UndoneMeansRestored ==
    LoggedSteps(disk) # {} /\ LoggedSteps(disk) \subseteq LoggedUndone(disk) \union recovered =>
        file \in {origin, Edited}

\* The store does not grow for ever: the snapshots of a saga that is over go
\* (gc.py:4).
GarbageGoes == pc \in {"done", "dead"} /\ ResolvedInProcess(disk) ~> store = {}

\* "A snapshot referenced by an UNRESOLVED saga is always kept" (gc.py:12).
UnresolvedKept == \A i \in StepNumbers : Needed(i) /\ i \notin early => i \in store
=============================================================================
