--------------------------- MODULE RecoveryDaemon ---------------------------
(***************************************************************************)
(* Recovery daemons (agent_saga/recovery.py) on the host of one saga's     *)
(* log, with the default FileLock and FileLedger they share.  A sweep      *)
(* reads the log and the ledger once; what follows works on those copies   *)
(* while other daemons move on.  Each await on a handler and each access   *)
(* to a shared file is a point where daemons interleave.                   *)
(***************************************************************************)
EXTENDS LogSink, SagaLog, Remote

CONSTANTS
    Daemons,     \* recovery daemons
    Handlers,    \* the compensations whose handler the daemons have imported
    MaxTrouble   \* bound: handler failures and daemon crashes

ASSUME DaemonAssumption ==
    /\ Handlers \subseteq CompKindsAll
    /\ MaxTrouble \in Nat

VARIABLES
    at,         \* where each daemon stands
    seen,       \* the log as its sweep read it
    done,       \* what its sweep found already compensated
    todo,       \* pending steps it has not dealt with
    claim,      \* holder of the saga's claim file
    ledger,     \* steps with a RECOVERY_SUCCESS in the shared ledger
    escalated,  \* steps with a RECOVERY_ESCALATED or RECOVERY_FAILED
    trouble     \* failures and crashes so far

daemon     == <<at, seen, done, todo>>
shared     == <<claim, ledger, escalated>>
daemonVars == <<daemon, shared, trouble>>

Nobody == "nobody"

DaemonInit ==
    /\ at = [d \in Daemons |-> "idle"]
    /\ seen = [d \in Daemons |-> <<>>]
    /\ done = [d \in Daemons |-> {}]
    /\ todo = [d \in Daemons |-> {}]
    /\ claim = Nobody /\ ledger = {} /\ escalated = {} /\ trouble = 0

-----------------------------------------------------------------------------
\* The sweep is over for this saga; its copies are dropped.
Idle(d) ==
    /\ at' = [at EXCEPT ![d] = "idle"]
    /\ seen' = [seen EXCEPT ![d] = <<>>]
    /\ done' = [done EXCEPT ![d] = {}]
    /\ todo' = [todo EXCEPT ![d] = {}]

Goto(d, place) == at' = [at EXCEPT ![d] = place] /\ UNCHANGED <<seen, done, todo>>

\* `return` out of recover(): the finally clause removes the claim file.
Release(d) == claim' = Nobody /\ Idle(d)

Trouble == trouble < MaxTrouble /\ trouble' = trouble + 1

\* The records of the file, without a partial last line.
ReadRecords(d) == seen' = [seen EXCEPT ![d] = disk]

\* completed_keys(): what daemons recorded and what the saga's own rollback did.
CompletedKeys == ledger \union LoggedUndone(disk)

\* recover_all(): one read of the log, one of the ledger.  A saga that is not
\* dangling, or whose lease has not expired, is passed over without effect.
Sweep(d) ==
    /\ at[d] = "idle" /\ Dangling(disk)
    /\ at' = [at EXCEPT ![d] = "swept"]
    /\ ReadRecords(d)
    /\ done' = [done EXCEPT ![d] = CompletedKeys]
    /\ UNCHANGED <<todo, shared, trouble>>

Irreversible(d) ==
    {i \in Pending(seen[d]) : LoggedSem(seen[d], i) = "IRREVERSIBLE"}

\* Fail closed before touching anything.
EscalateSaga(d) ==
    /\ at[d] = "swept" /\ Irreversible(d) # {}
    /\ escalated' = escalated \union Irreversible(d)
    /\ Idle(d)
    /\ UNCHANGED <<claim, ledger, trouble>>

Claim(d) ==
    /\ at[d] = "swept" /\ Irreversible(d) = {}
    /\ IF claim = Nobody
       THEN /\ claim' = d
            /\ at' = [at EXCEPT ![d] = "working"]
            /\ todo' = [todo EXCEPT ![d] = Pending(seen[d])]
            /\ UNCHANGED <<seen, done>>
       ELSE Idle(d) /\ UNCHANGED claim
    /\ UNCHANGED <<ledger, escalated, trouble>>

\* Mutant: oldest first.
IsBottom(d, i) ==
    /\ i \in todo[d]
    /\ \A j \in todo[d] : Order(seen[d], i) <= Order(seen[d], j)

\* The step that is due: the last to have appeared in the log.
IsTop(d, i) ==
    /\ i \in todo[d]
    /\ \A j \in todo[d] : Order(seen[d], j) <= Order(seen[d], i)

Working(d, i) == at[d] = "working" /\ IsTop(d, i)

Runnable(d, i) ==
    LoggedComp(seen[d], i) \in {c \in Handlers : Recoverable(c)}

\* should_skip()
Skip(d, i) ==
    /\ Working(d, i) /\ i \in done[d]
    /\ todo' = [todo EXCEPT ![d] = @ \ {i}]
    /\ UNCHANGED <<at, seen, done, shared, trouble>>

\* Mutant: a step the daemon cannot run is passed over.
EscalateStepNot(d, i) ==
    /\ Working(d, i) /\ i \notin done[d] /\ ~Runnable(d, i)
    /\ todo' = [todo EXCEPT ![d] = @ \ {i}]
    /\ UNCHANGED <<at, seen, done, shared, trouble>>

\* No descriptor, a closure, or a handler this daemon never imported.
EscalateStep(d, i) ==
    /\ Working(d, i) /\ i \notin done[d] /\ ~Runnable(d, i)
    /\ escalated' = escalated \union {i}
    /\ Release(d)
    /\ UNCHANGED <<ledger, trouble>>

\* RECOVERY_ATTEMPT is journalled, then the handler is called.
Attempt(d, i) ==
    /\ Working(d, i) /\ i \notin done[d] /\ Runnable(d, i)
    /\ Goto(d, "calling")
    /\ UNCHANGED <<shared, trouble>>

\* Mutant: no key is added.
ApplyUnkeyed(d, i) == Apply("daemon", i, LoggedComp(seen[d], i) = "ownkey")

\* IdempotencyManager.inject() adds the descriptor's key when the handler can
\* take one.
ApplyFromLog(d, i) == Apply("daemon", i, LoggedComp(seen[d], i) \in {"keyed", "ownkey"})

CallOk(d, i) ==
    /\ at[d] = "calling" /\ IsTop(d, i)
    /\ ApplyFromLog(d, i)
    /\ Goto(d, "journalling")
    /\ UNCHANGED <<shared, trouble>>

\* The handler raised, before or after the remote applied the inverse.
CallFails(d, i) ==
    /\ at[d] = "calling" /\ IsTop(d, i) /\ Trouble
    /\ ApplyFromLog(d, i) \/ UNCHANGED <<undone, keySeen>>
    /\ escalated' = escalated \union {i}
    /\ Release(d)
    /\ UNCHANGED ledger

\* FileLedger.record(), which fsyncs.
RecordSuccess(i) == ledger' = ledger \union {i}

\* RECOVERY_SUCCESS is journalled.
JournalSuccess(d, i) ==
    /\ at[d] = "journalling" /\ IsTop(d, i)
    /\ RecordSuccess(i)
    /\ todo' = [todo EXCEPT ![d] = @ \ {i}]
    /\ at' = [at EXCEPT ![d] = "working"]
    /\ UNCHANGED <<seen, done, claim, escalated, trouble>>

\* RECOVERED
Recovered(d) ==
    /\ at[d] = "working" /\ todo[d] = {}
    /\ Release(d)
    /\ UNCHANGED <<ledger, escalated, trouble>>

\* The daemon dies and is started again; a handler call under way may have
\* reached the remote.  Its claim file stays.
DaemonCrash(d) ==
    /\ at[d] # "idle" /\ Trouble
    /\ \/ at[d] = "calling" /\ \E i \in todo[d] : IsTop(d, i) /\ ApplyFromLog(d, i)
       \/ UNCHANGED <<undone, keySeen>>
    /\ Idle(d)
    /\ UNCHANGED shared

\* An operator removes the claim of a daemon that is gone (FileLock: "so a
\* stale claim can be diagnosed by hand").
OperatorUnclaim ==
    /\ claim # Nobody /\ at[claim] \in {"idle", "swept"}
    /\ claim' = Nobody
    /\ UNCHANGED <<daemon, ledger, escalated, trouble>>

HandlerCall(d) ==
    \/ \E i \in todo[d] : CallOk(d, i)
    \/ \E i \in todo[d] : CallFails(d, i)

\* What a sweep does that touches neither the log nor the world.
Bookkeeping(d) ==
    \/ EscalateSaga(d)
    \/ Claim(d)
    \/ \E i \in todo[d] :
        \/ Skip(d, i)
        \/ EscalateStep(d, i)
        \/ Attempt(d, i)
        \/ JournalSuccess(d, i)
    \/ Recovered(d)
=============================================================================
