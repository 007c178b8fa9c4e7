------------------------------ MODULE SagaLog ------------------------------
(***************************************************************************)
(* What another process learns of one saga by reading its records: the     *)
(* fold parse_wal() of agent_saga/recovery.py, as operators on a log.  The *)
(* daemon and whatever else recovers from the log read it this way.        *)
(***************************************************************************)
EXTENDS Integers, SequencesExt

StepEvents == {"STEP_INTENT", "STEP_COMMITTED", "STEP_UNKNOWN",
               "COMPLETED_VIA_FALLBACK"}

Says(L, ev) == \E r \in ToSet(L) : r.ev = ev

\* saga.steps: the steps any step event names.
LoggedSteps(L) == {r.step : r \in {s \in ToSet(L) : s.ev \in StepEvents}}

\* DanglingStep.order: the position at which the step first appeared.
Order(L, i) == SelectInSeq(L, LAMBDA r : r.ev \in StepEvents /\ r.step = i)

\* The last outcome recorded for a step; 0 when there is only its intent.
Outcome(L, i) ==
    SelectLastInSeq(L, LAMBDA r : r.ev \in StepEvents \ {"STEP_INTENT"} /\ r.step = i)

LoggedState(L, i) ==
    IF Outcome(L, i) = 0 THEN "INTENT_LOGGED" ELSE L[Outcome(L, i)].ev

LoggedComp(L, i) ==
    IF Outcome(L, i) = 0 THEN "none" ELSE L[Outcome(L, i)].comp

LoggedSem(L, i) == L[Order(L, i)].sem

LoggedUndone(L) == {r.step : r \in {s \in ToSet(L) : s.ev = "COMPENSATED"}}

\* Mutant: a saga that completed is not told from one that stopped.
ResolvedOnlyByAbort(L) == Says(L, "SAGA_ABORTED") /\ Says(L, "ROLLBACK_END")

\* DanglingSaga.resolved_in_process
ResolvedInProcess(L) ==
    \/ Says(L, "SAGA_COMPLETE")
    \/ Says(L, "SAGA_ABORTED") /\ Says(L, "ROLLBACK_END")

\* Mutant: only steps known to be committed are pending.
PendingCommitted(L) ==
    {i \in LoggedSteps(L) \ LoggedUndone(L) : LoggedState(L, i) = "STEP_COMMITTED"}

\* DanglingSaga.pending(): an intent without an outcome counts, a fallback does not.
Pending(L) ==
    {i \in LoggedSteps(L) \ LoggedUndone(L) :
        LoggedState(L, i) # "COMPLETED_VIA_FALLBACK"}

Dangling(L) == ~ResolvedInProcess(L) /\ Pending(L) # {}
=============================================================================
