----------------------------- MODULE Tentative -----------------------------
(***************************************************************************)
(* Tentative resources (agent_saga/patterns/tentative.py) from their       *)
(* registration to the boundary of their saga that confirms or reverts     *)
(* them (agent_saga/context.py), or to the daemon that finds them PENDING  *)
(* in a dead saga's log (agent_saga/recovery.py).  The saga runs no steps  *)
(* here: SagaContext has those.  One daemon: RecoveryDaemon has the claims.*)
(***************************************************************************)
EXTENDS LogSink, FiniteSets

CONSTANTS
    Resources,
    Reverts,       \* the ways a resource can be reverted: see RevertKinds
    Imported,      \* those whose handler the daemon has imported
    SlowCallbacks, \* may an on_commit outlast the lease's grace?
    MaxFaults,     \* bound: log errors and callbacks that raise
    MaxTrouble     \* bound: handlers that raise and daemon crashes

\* A closure of the process, a registered handler, one that takes a key.
RevertKinds == {"closure", "plain", "keyed"}

ASSUME TentativeAssumption ==
    /\ Imported \subseteq Reverts /\ Reverts \subseteq RevertKinds
    /\ SlowCallbacks \in BOOLEAN /\ {MaxFaults, MaxTrouble} \subseteq Nat

VARIABLES
    pc,         \* where saga_scope() stands
    heartbeat,  \* is the lease being renewed?
    tentatives, \* ctx._tentatives, in order of registration
    status,     \* resource.status, "none" before it is registered
    revert,     \* what its on_rollback is, to a daemon
    next,       \* _resolve_tentatives(): the resource it considers
    vouched,    \* resources whose durable registration returned
    calls,      \* external: the callbacks applied, [commit, rollback, daemon]
    failed,     \* history: resources whose callback raised
    spoiled,    \* history: a batch of the log was rejected
    faults,
    at, found, ledger, escalated, keySeen, trouble \* the daemon's sweep, and what it shares

saga == <<pc, heartbeat, tentatives, status, revert, next, vouched>>
daemon == <<at, found, ledger, escalated, keySeen, trouble>>
vars == <<log, saga, calls, failed, spoiled, faults, daemon>>

Init ==
    /\ LogInit({0})
    /\ pc = "new" /\ heartbeat = FALSE /\ tentatives = <<>> /\ next = 1 /\ vouched = {}
    /\ status = [r \in Resources |-> "none"] /\ revert \in [Resources -> Reverts]
    /\ calls = [r \in Resources |-> [commit |-> 0, rollback |-> 0, daemon |-> 0]]
    /\ failed = {} /\ spoiled = FALSE /\ faults = 0
    /\ at = "idle" /\ found = <<>> /\ ledger = {} /\ escalated = {} /\ keySeen = {}
    /\ trouble = 0

Rec(ev) == [ev |-> ev, res |-> <<>>]
ResRec(ev, r) == [ev |-> ev, res |-> <<r>>]

OnDisk(ev, r) == \E x \in ToSet(disk) : x.ev = ev /\ x.res = <<r>>
Ended == {x.ev : x \in ToSet(disk)}

Fault == faults < MaxFaults /\ faults' = faults + 1

\* append() raises WALBackpressure out of the scope.
Thrown(at_) == Fault /\ pc' = at_ /\ UNCHANGED log

-----------------------------------------------------------------------------
(* The body of the saga.                                                    *)

Begin ==
    /\ pc = "new" /\ EnqueueFenced(0, Rec("SAGA_START")) /\ pc' = "beginning"
    /\ UNCHANGED <<heartbeat, tentatives, status, revert, next, vouched, calls, failed, spoiled, faults, daemon>>

Begun ==
    /\ pc = "beginning"
    /\ \/ Answered(0, "granted") /\ pc' = "body" /\ heartbeat' = TRUE
       \/ Answered(0, "refused") /\ pc' = "unbegun" /\ UNCHANGED heartbeat
    /\ UNCHANGED <<tentatives, status, revert, next, vouched, calls, failed, spoiled, faults, daemon>>

\* Mutant: register_tentative_durable() does not wait.
RecordUnfenced(r, durable) ==
    /\ Enqueue(ResRec("TENTATIVE_REGISTERED", r)) /\ UNCHANGED <<pc, faults>>
    /\ vouched' = IF durable THEN vouched \union {r} ELSE vouched

\* register_tentative(): the resource is tracked before it is recorded, and
\* register_tentative_durable() fences the record.
Record(r, durable) ==
    /\ \/ /\ durable /\ EnqueueFenced(0, ResRec("TENTATIVE_REGISTERED", r))
          /\ pc' = "registering" /\ UNCHANGED faults
       \/ ~durable /\ Enqueue(ResRec("TENTATIVE_REGISTERED", r)) /\ UNCHANGED <<pc, faults>>
       \/ Thrown("body")
    /\ UNCHANGED vouched

Register(r, durable) ==
    /\ pc = "body" /\ status[r] = "none"
    /\ tentatives' = Append(tentatives, r)
    /\ status' = [status EXCEPT ![r] = "PENDING"]
    /\ Record(r, durable)
    /\ UNCHANGED <<heartbeat, revert, next, calls, failed, spoiled, daemon>>

\* The fence answers; a refusal raises into the agent, which may go on.
Registered ==
    /\ pc = "registering" /\ pc' = "body"
    /\ \/ Answered(0, "granted") /\ vouched' = vouched \union {Last(tentatives)}
       \/ Answered(0, "refused") /\ UNCHANGED vouched
    /\ UNCHANGED <<heartbeat, tentatives, status, revert, next, calls, failed, spoiled, faults, daemon>>

-----------------------------------------------------------------------------
(* The boundary.                                                            *)

\* finish() of a saga whose body returned: no lease is renewed from here on.
Finish ==
    /\ pc = "body" /\ pc' = "confirm" /\ heartbeat' = FALSE
    /\ UNCHANGED <<log, tentatives, status, revert, next, vouched, calls, failed, spoiled, faults, daemon>>

\* record_abort() and rollback(), which has no steps to undo here.
Abort ==
    /\ pc = "body"
    /\ \/ Enqueue(Rec("ROLLBACK_START")) /\ pc' = "revert" /\ UNCHANGED faults
       \/ Thrown("escaped")
    /\ UNCHANGED <<heartbeat, tentatives, status, revert, next, vouched, calls, failed, spoiled, daemon>>

IsPending(r) == status[r] = "PENDING"

Settling == {"confirm", "revert", "recheck"}

Considered == tentatives[next]

Skip ==
    /\ pc \in Settling /\ next <= Len(tentatives) /\ ~IsPending(Considered)
    /\ next' = next + 1
    /\ UNCHANGED <<log, pc, heartbeat, tentatives, status, revert, vouched, calls, failed, spoiled, faults, daemon>>

Target == IF pc = "confirm" THEN "COMMITTED" ELSE "ROLLED_BACK"

Calling == [confirm |-> "confirming", revert |-> "reverting", recheck |-> "reverting"]
Back == [confirming |-> "confirm", reverting |-> "revert"]

\* The status moves first, then the callback is awaited.
Settle ==
    /\ pc \in Settling /\ next <= Len(tentatives) /\ IsPending(Considered)
    /\ status' = [status EXCEPT ![Considered] = Target]
    /\ pc' = Calling[pc]
    /\ UNCHANGED <<log, heartbeat, tentatives, revert, next, vouched, calls, failed, spoiled, faults, daemon>>

Applied(r) ==
    calls' = IF status[r] = "COMMITTED" THEN [calls EXCEPT ![r].commit = @ + 1]
             ELSE [calls EXCEPT ![r].rollback = @ + 1]

\* Mutant: a callback's exception is swallowed.
UnresolvedSilently(r) == pc' = Back[pc] /\ next' = next + 1 /\ UNCHANGED log

\* TENTATIVE_UNRESOLVED, and on to the next; its append may raise in turn.
Unresolved(r) ==
    /\ Enqueue(ResRec("TENTATIVE_UNRESOLVED", r)) /\ pc' = Back[pc] /\ next' = next + 1

Escaping == IF heartbeat THEN "escaped" ELSE "unfinished"

\* The callback returns.  If TENTATIVE_RESOLVED cannot be appended, that error
\* is handled like one of the callback.
CallbackReturns ==
    /\ pc \in {"confirming", "reverting"} /\ Applied(Considered)
    /\ \/ /\ Enqueue(ResRec("TENTATIVE_RESOLVED", Considered))
          /\ pc' = Back[pc] /\ next' = next + 1 /\ UNCHANGED faults
       \/ Fault /\ Unresolved(Considered)
       \/ Thrown(Escaping) /\ UNCHANGED next
    /\ UNCHANGED <<heartbeat, tentatives, status, revert, vouched, failed, spoiled, daemon>>

\* It raises, before or after it took effect; a CancelledError goes through.
CallbackRaises ==
    /\ pc \in {"confirming", "reverting"} /\ Fault
    /\ Applied(Considered) \/ UNCHANGED calls
    /\ failed' = failed \union {Considered}
    /\ \/ Unresolved(Considered)
       \/ pc' = Escaping /\ UNCHANGED <<log, next>>
    /\ UNCHANGED <<heartbeat, tentatives, status, revert, vouched, spoiled, daemon>>

\* All settled: SAGA_COMPLETE, or the ROLLBACK_END of rollback().
Close ==
    /\ pc \in {"confirm", "revert"} /\ next > Len(tentatives)
    /\ \/ /\ EnqueueFenced(0, Rec(IF pc = "confirm" THEN "SAGA_COMPLETE" ELSE "ROLLBACK_END"))
          /\ pc' = (IF pc = "confirm" THEN "completing" ELSE "rolledback") /\ UNCHANGED faults
       \/ Thrown(Escaping)
    /\ UNCHANGED <<heartbeat, tentatives, status, revert, next, vouched, calls, failed, spoiled, daemon>>

\* rollback() returned: finish(aborted=True), which looks at every resource again.
FinishAborted ==
    /\ pc = "rolledback"
    /\ \/ Answered(0, "granted") /\ pc' = "recheck" /\ heartbeat' = FALSE
       \/ Answered(0, "refused") /\ pc' = "escaped" /\ UNCHANGED heartbeat
    /\ next' = 1
    /\ UNCHANGED <<tentatives, status, revert, vouched, calls, failed, spoiled, faults, daemon>>

CloseAborted ==
    /\ pc = "recheck" /\ next > Len(tentatives)
    /\ \/ EnqueueFenced(0, Rec("SAGA_ABORTED")) /\ pc' = "aborting" /\ UNCHANGED faults
       \/ Thrown("unfinished")
    /\ UNCHANGED <<heartbeat, tentatives, status, revert, next, vouched, calls, failed, spoiled, daemon>>

Told == [completing |-> "completed", aborting |-> "aborted"]

\* The agent learns the outcome once the terminal record is durable.
Finished ==
    /\ pc \in DOMAIN Told
    /\ \/ Answered(0, "granted") /\ pc' = Told[pc]
       \/ Answered(0, "refused") /\ pc' = "unfinished"
    /\ UNCHANGED <<heartbeat, tentatives, status, revert, next, vouched, calls, failed, spoiled, faults, daemon>>

-----------------------------------------------------------------------------
(* The log, and the death of the process: a callback in flight may take     *)
(* effect, the first k queued records may be in the file.                   *)

LogWorks ==
    /\ pc # "dead"
    /\ \/ \E k \in 1..Len(buf) : Persist(k) /\ UNCHANGED <<faults, spoiled>>
       \/ \E k \in 1..Len(buf) : \E j \in 0..k : Reject(k, j) /\ Fault /\ spoiled' = TRUE
       \/ Stall(0) /\ Fault /\ UNCHANGED spoiled
    /\ UNCHANGED <<saga, calls, failed, daemon>>

Crash ==
    /\ pc \notin {"new", "unbegun", "completed", "aborted", "dead"}
    /\ \/ pc \in {"confirming", "reverting"} /\ Applied(Considered)
       \/ UNCHANGED calls
    /\ \E k \in 0..Len(buf) : LogCrash(k)
    /\ pc' = "dead" /\ heartbeat' = FALSE
    /\ UNCHANGED <<tentatives, status, revert, next, vouched, failed, spoiled, faults, daemon>>

-----------------------------------------------------------------------------
(* The daemon: recover() of a saga without pending steps.                   *)

\* Mutant: a saga that completed is not told from one that stopped.
ResolvedIfAborted == {"SAGA_ABORTED", "ROLLBACK_END"} \subseteq Ended

\* resolved_in_process
Resolved == "SAGA_COMPLETE" \in Ended \/ {"SAGA_ABORTED", "ROLLBACK_END"} \subseteq Ended

\* pending_tentatives(), in the order of their registration.
Pending ==
    LET reg == SelectSeq(disk, LAMBDA x : x.ev = "TENTATIVE_REGISTERED") IN
    SelectSeq([i \in DOMAIN reg |-> reg[i].res[1]], LAMBDA r : ~OnDisk("TENTATIVE_RESOLVED", r))

\* The lease is renewed until finish(), and the rest of finish() takes less than
\* its grace, unless a callback is slow.
LeaseExpired ==
    \/ pc \in {"dead", "unfinished", "completed", "aborted"}
    \/ SlowCallbacks /\ pc = "confirming"

Sweep ==
    /\ at = "idle" /\ ~Resolved /\ Pending # <<>> /\ LeaseExpired
    /\ at' = "working"
    /\ found' = SelectSeq(Pending, LAMBDA r : r \notin ledger)
    /\ UNCHANGED <<log, saga, calls, failed, spoiled, faults, ledger, escalated, keySeen, trouble>>

Idle == at' = "idle" /\ found' = <<>>

Trouble == trouble < MaxTrouble /\ trouble' = trouble + 1

\* The log names a handler, and this daemon has it.
Recoverable(r) == revert[r] \in Imported

\* No handler, or none this daemon knows: the sweep of this saga ends there.
Escalate ==
    /\ at = "working" /\ found # <<>> /\ ~Recoverable(Head(found))
    /\ escalated' = escalated \union {Head(found)} /\ Idle
    /\ UNCHANGED <<log, saga, calls, failed, spoiled, faults, ledger, keySeen, trouble>>

Attempt ==
    /\ at = "working" /\ found # <<>> /\ Recoverable(Head(found))
    /\ at' = "calling"
    /\ UNCHANGED <<log, saga, calls, failed, spoiled, faults, found, ledger, escalated, keySeen, trouble>>

RevertRemote(r) ==
    LET keyed == revert[r] = "keyed" IN
    /\ calls' = IF keyed /\ r \in keySeen THEN calls ELSE [calls EXCEPT ![r].daemon = @ + 1]
    /\ keySeen' = IF keyed THEN keySeen \union {r} ELSE keySeen

HandlerReturns ==
    /\ at = "calling" /\ RevertRemote(Head(found)) /\ at' = "journalling"
    /\ UNCHANGED <<log, saga, failed, spoiled, faults, found, ledger, escalated, trouble>>

HandlerRaises ==
    /\ at = "calling" /\ Trouble /\ Idle
    /\ RevertRemote(Head(found)) \/ UNCHANGED <<calls, keySeen>>
    /\ escalated' = escalated \union {Head(found)}
    /\ UNCHANGED <<log, saga, failed, spoiled, faults, ledger>>

Journal ==
    /\ at = "journalling" /\ at' = "working"
    /\ ledger' = ledger \union {Head(found)} /\ found' = Tail(found)
    /\ UNCHANGED <<log, saga, calls, failed, spoiled, faults, escalated, keySeen, trouble>>

Recovered ==
    /\ at = "working" /\ found = <<>> /\ Idle
    /\ UNCHANGED <<log, saga, calls, failed, spoiled, faults, ledger, escalated, keySeen, trouble>>

DaemonDies ==
    /\ at # "idle" /\ Trouble /\ Idle
    /\ \/ at = "calling" /\ RevertRemote(Head(found))
       \/ UNCHANGED <<calls, keySeen>>
    /\ UNCHANGED <<log, saga, failed, spoiled, faults, ledger, escalated>>

-----------------------------------------------------------------------------
SagaStep ==
    \/ Begin \/ Begun \/ Registered \/ Finish \/ Abort
    \/ \E r \in Resources, durable \in BOOLEAN : Register(r, durable)
    \/ Skip \/ Settle \/ CallbackReturns \/ CallbackRaises
    \/ Close \/ FinishAborted \/ CloseAborted \/ Finished

DaemonStep ==
    \/ Sweep \/ Escalate \/ Attempt \/ HandlerReturns \/ HandlerRaises \/ Journal \/ Recovered

Next == SagaStep \/ LogWorks \/ Crash \/ DaemonStep \/ DaemonDies

Spec == Init /\ [][Next]_vars

\* watch() sweeps again and again, and a daemon gets on with its sweep.
WatchedSpec == Spec /\ WF_vars(DaemonStep)

-----------------------------------------------------------------------------
(* Properties                                                               *)

\* What the agent was told is what became of its resources: nothing a completed
\* saga held is reverted by anybody, nothing an aborted one held is confirmed, and
\* no callback runs twice (tentative.py:54, context.py:202).
OutcomeAgrees ==
    \A r \in Resources :
        /\ pc = "completed" => calls[r].rollback = 0 /\ calls[r].daemon = 0
        /\ pc = "aborted" => calls[r].commit = 0 /\ calls[r].daemon = 0
        /\ calls[r].commit + calls[r].rollback <= 1

\* A callback that raised is on record by the time the outcome is told, unless the
\* log itself lost a batch (context.py:205).
FailureOnRecord ==
    \A r \in failed : pc \in {"completed", "aborted"} /\ ~spoiled =>
        OnDisk("TENTATIVE_UNRESOLVED", r)

\* A resource registered with a fence is never stranded by the death of its saga:
\* it was settled, or a daemon reverts it or calls a human (context.py:161).
NeverStranded ==
    \A r \in Resources :
        pc = "dead" /\ r \in vouched ~>
            \/ Resolved \/ OnDisk("TENTATIVE_RESOLVED", r)
            \/ calls[r].daemon > 0 \/ escalated # {}

\* "COMMITTED on success, ROLLED_BACK on failure", each callback "invoked exactly
\* once" (tentative.py:55, 148): a resource is not settled both ways.
SettledOneWay == \A r \in Resources : calls[r].commit = 0 \/ calls[r].daemon = 0
=============================================================================
