---------------------------- MODULE SagaContext ----------------------------
(***************************************************************************)
(* One saga in its own process: saga_scope() (agent_saga/decorator.py) and *)
(* SagaContext.begin/execute/rollback/finish (agent_saga/context.py), up   *)
(* to the death of the process.  The agent decides which tools it calls,   *)
(* whether it swallows a failure, whether it calls several tools at once   *)
(* and when it gives up.  Code between two awaits is one action; coroutine *)
(* 0 is the scope's own, coroutine i that of the i-th call.                *)
(*                                                                         *)
(* Modelled sagas register no tentative resource and take no semantic      *)
(* lock, so finish() and rollback() find none to settle.                   *)
(***************************************************************************)
EXTENDS LogSink, Remote, FiniteSets

CONSTANTS
    MaxSteps,       \* bound: tool calls of one saga
    MaxFaults,      \* bound: sink errors, stalled fences and full buffers
    Semantics,      \* the semantics the agent's tools declare
    CompKinds,      \* the compensations their factories derive
    Fallbacks,      \* may a tool carry a fallback_action?
    Parallel,       \* may the agent call several tools at once?
    LateEffects,    \* may a timed-out call land after the saga gave up on it?
    DurableCommit,  \* durable_commit
    HaltOnFailure   \* halt_on_compensation_failure

ASSUME SagaAssumption ==
    /\ MaxSteps \in Nat /\ MaxFaults \in Nat
    /\ Semantics \subseteq {"REVERSIBLE", "COMPENSABLE", "IRREVERSIBLE"}
    /\ CompKinds \subseteq CompKindsAll
    /\ {Fallbacks, Parallel, LateEffects} \subseteq BOOLEAN
    /\ {DurableCommit, HaltOnFailure} \subseteq BOOLEAN

VARIABLES
    pc,        \* where saga_scope() stands
    call,      \* per call of execute(), where it stands
    stack,     \* ctx.stack: [sem, st, comp] per call, in call order
    cursor,    \* rollback(): the step under consideration
    halted,    \* report.halted
    heartbeat, \* is the lease being renewed?
    faults     \* faults injected so far

scope    == <<pc, cursor, halted, heartbeat>>
sagaVars == <<log, scope, call, stack, world, faults>>

Steps == 1..MaxSteps
NewSteps == {i \in Steps : i = Len(stack) + 1}

Rec(ev, i) ==
    [ev |-> ev, step |-> i, sem |-> IF i = 0 THEN "-" ELSE stack[i].sem,
     comp |-> "none"]

CompRec(ev, i, comp) == [Rec(ev, i) EXCEPT !.comp = comp]

SagaInit ==
    /\ LogInit(0..MaxSteps)
    /\ pc = "new" /\ cursor = 0 /\ halted = FALSE /\ heartbeat = FALSE
    /\ call = [i \in Steps |-> "none"] /\ stack = <<>>
    /\ effect = [i \in Steps |-> "none"]
    /\ undone = [i \in Steps |-> [saga |-> 0, daemon |-> 0]]
    /\ keySeen = [i \in Steps |-> FALSE]
    /\ faults = 0

-----------------------------------------------------------------------------
(* Building blocks                                                          *)

Alive == pc # "dead"

\* saga_scope() has been left: its outcome is durable, or an exception of the
\* log came out of begin(), the abort path or the final finish().
Left == {"completed", "aborted", "unbegun", "escaped", "unfinished"}

Fault == faults < MaxFaults /\ faults' = faults + 1

\* append() raising WALBackpressure.
BufferFull == Fault /\ UNCHANGED log

\* A record of the scope's own coroutine, unfenced or fenced.
ScopeAppend(r, next) ==
    \/ Enqueue(r) /\ pc' = next /\ UNCHANGED faults
    \/ BufferFull /\ pc' = "escaped"

ScopeFence(r, waiting, raised) ==
    \/ EnqueueFenced(0, r) /\ pc' = waiting /\ UNCHANGED faults
    \/ BufferFull /\ pc' = raised

At(i, place) == call' = [call EXCEPT ![i] = place]

\* A record of call i, with a barrier() behind it when `fenced`.
CallAppend(i, r, fenced, waiting, next) ==
    \/ fenced /\ EnqueueFenced(i, r) /\ At(i, waiting) /\ UNCHANGED faults
    \/ ~fenced /\ Enqueue(r) /\ At(i, next) /\ UNCHANGED faults
    \/ BufferFull /\ At(i, "raised")

Put(i, state, comp) ==
    stack' = [stack EXCEPT ![i].st = state, ![i].comp = comp]

Durable(i) == stack[i].sem # "REVERSIBLE"

InFlight == {i \in Steps : call[i] \notin {"none", "returned", "raised"}}

-----------------------------------------------------------------------------
(* begin()                                                                  *)

Begin ==
    /\ pc = "new"
    /\ ScopeFence(Rec("SAGA_START", 0), "beginning", "unbegun")
    /\ UNCHANGED <<cursor, halted, heartbeat, call, stack, world>>

Begun ==
    /\ pc = "beginning"
    /\ \/ Answered(0, "granted") /\ pc' = "body" /\ heartbeat' = TRUE
       \/ Answered(0, "refused") /\ pc' = "unbegun" /\ UNCHANGED heartbeat
    /\ UNCHANGED <<cursor, halted, call, stack, world, faults>>

-----------------------------------------------------------------------------
(* execute()                                                                *)

\* Mutant: only IRREVERSIBLE intents are fenced.
ExecuteUnfenced(i, sem) ==
    /\ pc = "body" /\ (Parallel \/ InFlight = {})
    /\ stack' = Append(stack, [sem |-> sem, st |-> "INTENT_LOGGED", comp |-> "none"])
    /\ CallAppend(i, [ev |-> "STEP_INTENT", step |-> i, sem |-> sem, comp |-> "none"],
                  sem = "IRREVERSIBLE", "intent", "forward")
    /\ effect' = IF call'[i] = "forward"
                 THEN [effect EXCEPT ![i] = "running"] ELSE effect
    /\ UNCHANGED <<scope, undone, keySeen>>

\* The gate let the call through.  The step is on the stack before its intent
\* is recorded; a REVERSIBLE intent is not fenced.
Execute(i, sem) ==
    /\ pc = "body" /\ (Parallel \/ InFlight = {})
    /\ stack' = Append(stack, [sem |-> sem, st |-> "INTENT_LOGGED", comp |-> "none"])
    /\ CallAppend(i, [ev |-> "STEP_INTENT", step |-> i, sem |-> sem, comp |-> "none"],
                  sem # "REVERSIBLE", "intent", "forward")
    /\ effect' = IF call'[i] = "forward"
                 THEN [effect EXCEPT ![i] = "running"] ELSE effect
    /\ UNCHANGED <<scope, undone, keySeen>>

IntentAnswered(i) ==
    /\ call[i] = "intent"
    /\ \/ /\ Answered(i, "granted") /\ At(i, "forward")
          /\ effect' = [effect EXCEPT ![i] = "running"]
       \/ Answered(i, "refused") /\ At(i, "raised") /\ UNCHANGED effect
    /\ UNCHANGED <<scope, stack, undone, keySeen, faults>>

\* Mutant: the commit is recorded and not fenced.
ForwardOkUnfenced(i, comp) ==
    /\ call[i] = "forward"
    /\ effect' = [effect EXCEPT ![i] = "landed"]
    /\ Put(i, "COMMITTED", comp)
    /\ CallAppend(i, CompRec("STEP_COMMITTED", i, comp), FALSE, "commit", "returned")
    /\ UNCHANGED <<scope, undone, keySeen>>

\* The forward call returned: the inverse is derived and recorded.
ForwardOk(i, comp) ==
    /\ call[i] = "forward"
    /\ effect' = [effect EXCEPT ![i] = "landed"]
    /\ Put(i, "COMMITTED", comp)
    /\ CallAppend(i, CompRec("STEP_COMMITTED", i, comp),
                  DurableCommit /\ Durable(i), "commit", "returned")
    /\ UNCHANGED <<scope, undone, keySeen>>

\* What is left of a call whose outcome the engine does not know.
Ambiguous == {"landed", IF LateEffects THEN "running" ELSE "none"}

\* The tail of the exception path: state, inverse of an unknown result, record.
\* It ends in `raise`, fenced or not, whatever the fence answers.
MarkUnknown(i, comp) ==
    /\ Put(i, "UNKNOWN", comp)
    /\ CallAppend(i, CompRec("STEP_UNKNOWN", i, comp), Durable(i), "unknown", "raised")

\* The forward call raised and there was no fallback_action, or that raised
\* too, or its record found the buffer full.
ForwardFails(i, comp, outcome) ==
    /\ call[i] = "forward"
    /\ effect' = [effect EXCEPT ![i] = outcome]
    /\ MarkUnknown(i, comp)
    /\ UNCHANGED <<scope, undone, keySeen>>

\* The forward call raised and the fallback_action returned.
FallbackOk(i, outcome) ==
    /\ call[i] = "forward" /\ Fallbacks
    /\ effect' = [effect EXCEPT ![i] = outcome]
    /\ Put(i, "COMPLETED_VIA_FALLBACK", "none")
    /\ LET r == Rec("COMPLETED_VIA_FALLBACK", i)
       IN  IF DurableCommit /\ Durable(i)
           THEN EnqueueFenced(i, r) /\ At(i, "fallback")
           ELSE Enqueue(r) /\ At(i, "returned")
    /\ UNCHANGED <<scope, undone, keySeen, faults>>

\* WALStalled from the fallback's own fence is caught as a failed fallback.
FallbackRefused(i, comp) ==
    /\ call[i] = "fallback" /\ fence[i] = "refused"
    /\ MarkUnknown(i, comp)
    /\ UNCHANGED <<scope, world>>

\* execute() comes back from its last fence.
CallAnswered(i) ==
    /\ \/ call[i] \in {"commit", "fallback"} /\ Answered(i, "granted") /\ At(i, "returned")
       \/ call[i] = "commit" /\ Answered(i, "refused") /\ At(i, "raised")
       \/ /\ call[i] = "unknown" /\ At(i, "raised")
          /\ Answered(i, "granted") \/ Answered(i, "refused")
    /\ UNCHANGED <<scope, stack, world, faults>>

\* A timed-out call completes behind the saga's back.
LateLanding(i) ==
    /\ effect[i] = "running" /\ (call[i] # "forward" \/ ~Alive)
    /\ effect' = [effect EXCEPT ![i] = "landed"]
    /\ UNCHANGED <<log, scope, call, stack, undone, keySeen, faults>>

-----------------------------------------------------------------------------
(* saga_scope(): how the agent's body ends                                  *)

\* The body raises: record_abort() and the head of rollback().  Tools called in
\* parallel may still be running: gather() does not cancel its siblings.
Abort ==
    /\ pc = "body" /\ (Parallel \/ InFlight = {})
    /\ \/ /\ buf' = buf \o <<Rec("SAGA_ABORT_CAUSE", 0), Rec("ROLLBACK_START", 0)>>
          /\ pc' = "rollback"
          /\ UNCHANGED <<disk, fence, want, faults>>
       \/ BufferFull /\ pc' = "escaped"
    /\ cursor' = Len(stack)
    /\ UNCHANGED <<halted, heartbeat, call, stack, world>>

\* The body returns: finish() stops the heartbeat and records the outcome.
Complete ==
    /\ pc = "body" /\ InFlight = {}
    /\ heartbeat' = FALSE
    /\ ScopeFence(Rec("SAGA_COMPLETE", 0), "completing", "unfinished")
    /\ UNCHANGED <<cursor, halted, call, stack, world>>

\* The fence of the terminal record answers: saga_scope() returns, or raises
\* SagaAborted; refused, WALStalled leaves it instead.
Finished ==
    /\ \/ /\ pc = "completing"
          /\ \/ Answered(0, "granted") /\ pc' = "completed"
             \/ Answered(0, "refused") /\ pc' = "unfinished"
       \/ /\ pc = "aborting"
          /\ \/ Answered(0, "granted") /\ pc' = "aborted"
             \/ Answered(0, "refused") /\ pc' = "escaped"
    /\ UNCHANGED <<cursor, halted, heartbeat, call, stack, world, faults>>

-----------------------------------------------------------------------------
(* rollback(): one iteration per step, last call first                      *)

\* Mutant: a call whose outcome is unknown counts as not done.
NeedsNoGuess(i) == stack[i].st = "COMMITTED"

NeedsCompensation(i) == stack[i].st \in {"COMMITTED", "UNKNOWN"}

\* Mutant: the step is not taken off before `continue`.
PassOverStays ==
    /\ pc = "rollback" /\ cursor > 0
    /\ \/ halted /\ Put(cursor, "UNRESOLVED", stack[cursor].comp)
       \/ ~halted /\ ~NeedsCompensation(cursor) /\ UNCHANGED stack
    /\ UNCHANGED <<log, scope, call, world, faults>>

\* Halted: everything below the failure is UNRESOLVED.  Otherwise a step that
\* was gated, never ran or completed by its fallback has nothing to undo.
PassOver ==
    /\ pc = "rollback" /\ cursor > 0
    /\ \/ halted /\ Put(cursor, "UNRESOLVED", stack[cursor].comp)
       \/ ~halted /\ ~NeedsCompensation(cursor) /\ UNCHANGED stack
    /\ cursor' = cursor - 1
    /\ UNCHANGED <<log, pc, halted, heartbeat, call, world, faults>>

Due == pc = "rollback" /\ cursor > 0 /\ ~halted /\ NeedsCompensation(cursor)

Orphan ==
    /\ Due /\ stack[cursor].comp = "none"
    /\ Put(cursor, "ORPHANED", "none")
    /\ ScopeAppend(Rec("STEP_ORPHANED", cursor), "rollback")
    /\ cursor' = cursor - 1
    /\ UNCHANGED <<halted, heartbeat, call, world>>

Undo ==
    /\ Due /\ stack[cursor].comp # "none"
    /\ pc' = "undoing"
    /\ UNCHANGED <<log, cursor, halted, heartbeat, call, stack, world, faults>>

\* In process the compensation is called with its own arguments: no key is added.
ApplyInProcess(i) == Apply("saga", i, stack[i].comp = "ownkey")

UndoOk ==
    /\ pc = "undoing"
    /\ ApplyInProcess(cursor)
    /\ Put(cursor, "COMPENSATED", stack[cursor].comp)
    /\ ScopeAppend(Rec("COMPENSATED", cursor), "rollback")
    /\ cursor' = cursor - 1
    /\ UNCHANGED <<halted, heartbeat, call, effect>>

\* Mutant: halt_on_compensation_failure is ignored.
UndoFailsGoesOn ==
    /\ pc = "undoing"
    /\ ApplyInProcess(cursor) \/ UNCHANGED <<undone, keySeen>>
    /\ Put(cursor, "COMPENSATION_FAILED", stack[cursor].comp)
    /\ ScopeAppend(Rec("COMPENSATION_FAILED", cursor), "rollback")
    /\ cursor' = cursor - 1
    /\ UNCHANGED <<halted, heartbeat, call, effect>>

\* The compensation raised, before or after the remote applied it.
UndoFails ==
    /\ pc = "undoing"
    /\ ApplyInProcess(cursor) \/ UNCHANGED <<undone, keySeen>>
    /\ Put(cursor, "COMPENSATION_FAILED", stack[cursor].comp)
    /\ halted' = HaltOnFailure
    /\ ScopeAppend(Rec("COMPENSATION_FAILED", cursor), "rollback")
    /\ cursor' = cursor - 1
    /\ UNCHANGED <<heartbeat, call, effect>>

RollbackEnd ==
    /\ pc = "rollback" /\ cursor = 0
    /\ ScopeFence(Rec("ROLLBACK_END", 0), "rolledBack", "escaped")
    /\ UNCHANGED <<cursor, halted, heartbeat, call, stack, world>>

\* ROLLBACK_END is durable: finish(aborted=True).
FinishAborted ==
    /\ pc = "rolledBack" /\ fence[0] = "granted"
    /\ heartbeat' = FALSE
    /\ ScopeFence(Rec("SAGA_ABORTED", 0), "aborting", "escaped")
    /\ UNCHANGED <<cursor, halted, call, stack, world>>

\* It is not: WALStalled leaves saga_scope(), finish() never runs and nobody
\* stops the heartbeat.
RollbackEndRefused ==
    /\ pc = "rolledBack" /\ Answered(0, "refused")
    /\ pc' = "escaped"
    /\ UNCHANGED <<cursor, halted, heartbeat, call, stack, world, faults>>

-----------------------------------------------------------------------------
(* The sink, and the end of the process                                     *)

SinkStep ==
    /\ \/ \E k \in 1..Len(buf) : Persist(k) /\ UNCHANGED faults
       \/ \E k \in 1..Len(buf) : \E j \in 0..k : Reject(k, j) /\ Fault
       \/ \E f \in DOMAIN fence : Stall(f) /\ Fault
    /\ UNCHANGED <<scope, call, stack, world>>

\* SIGKILL: the lease is no longer renewed; calls in flight may have landed.
\* `stack` stays behind as the history of what was called.
Crash ==
    /\ Alive
    /\ pc' = "dead" /\ heartbeat' = FALSE
    /\ \E k \in 0..Len(buf) : LogCrash(k)
    /\ LET running == {i \in Steps : call[i] = "forward"} IN
       \E out \in [running -> Ambiguous] :
          effect' = [i \in Steps |-> IF i \in running THEN out[i] ELSE effect[i]]
    /\ \/ pc = "undoing" /\ ApplyInProcess(cursor)
       \/ UNCHANGED <<undone, keySeen>>
    /\ call' = [i \in Steps |-> "none"]
    /\ cursor' = 0 /\ halted' = FALSE
    /\ UNCHANGED <<stack, faults>>

CallStep(i) ==
    \/ i \in NewSteps /\ \E sem \in Semantics : Execute(i, sem)
    \/ IntentAnswered(i)
    \/ \E comp \in CompKinds : ForwardOk(i, comp)
    \/ \E comp \in CompKinds, o \in Ambiguous : ForwardFails(i, comp, o)
    \/ \E o \in Ambiguous : FallbackOk(i, o)
    \/ \E comp \in CompKinds : FallbackRefused(i, comp)
    \/ CallAnswered(i)

RollbackStep ==
    \/ PassOver \/ Orphan \/ Undo \/ UndoOk \/ UndoFails
    \/ RollbackEnd \/ FinishAborted \/ RollbackEndRefused

ScopeStep ==
    \/ Begin \/ Begun \/ Abort \/ Complete \/ Finished
    \/ RollbackStep

SagaNext ==
    \/ ScopeStep
    \/ \E i \in Steps : CallStep(i)
    \/ \E i \in Steps : LateLanding(i)
    \/ SinkStep
    \/ Crash

SagaSpec == SagaInit /\ [][SagaNext]_sagaVars

\* The event loop runs the scope's coroutine, a compensation returns or raises,
\* and every fence is answered or times out.
LiveSpec == SagaSpec /\ WF_sagaVars(ScopeStep) /\ WF_sagaVars(SinkStep)

-----------------------------------------------------------------------------
(* Properties                                                               *)

States == {"INTENT_LOGGED", "COMMITTED", "UNKNOWN", "COMPENSATED",
           "COMPENSATION_FAILED", "ORPHANED", "UNRESOLVED", "COMPLETED_VIA_FALLBACK"}

Events == {"SAGA_START", "STEP_INTENT", "STEP_COMMITTED", "STEP_UNKNOWN",
           "COMPLETED_VIA_FALLBACK", "SAGA_ABORT_CAUSE", "ROLLBACK_START",
           "STEP_ORPHANED", "COMPENSATED", "COMPENSATION_FAILED", "ROLLBACK_END",
           "SAGA_COMPLETE", "SAGA_ABORTED"}

Comps == CompKinds \union {"none"}

Records == [ev : Events, step : 0..MaxSteps, sem : Semantics \union {"-"},
            comp : Comps]

LogType ==
    /\ buf \in Seq(Records) /\ disk \in Seq(Records)
    /\ fence \in [0..MaxSteps -> FenceStates]
    /\ want \in [0..MaxSteps -> Seq(Records)]

StackType == stack \in Seq([sem : Semantics, st : States, comp : Comps])

ScopeType ==
    /\ pc \in {"new", "beginning", "body", "rollback", "undoing", "rolledBack",
               "aborting", "completing", "completed", "aborted", "unbegun",
               "escaped", "unfinished", "dead"}
    /\ cursor \in 0..MaxSteps /\ halted \in BOOLEAN /\ heartbeat \in BOOLEAN

CallType ==
    call \in [Steps -> {"none", "intent", "forward", "commit", "fallback",
                        "unknown", "returned", "raised"}]

WorldType ==
    /\ effect \in [Steps -> {"none", "running", "landed"}]
    /\ undone \in [Steps -> [saga : Nat, daemon : Nat]]
    /\ keySeen \in [Steps -> BOOLEAN]

TypeOK ==
    /\ LogType /\ StackType /\ ScopeType /\ CallType /\ WorldType
    /\ faults \in 0..MaxFaults

OnDisk(ev, i) == \E r \in ToSet(disk) : r.ev = ev /\ r.step = i

Called == 1..Len(stack)

\* The write-ahead rule: nothing that must be undone or reported happens before
\* a reader of the log could know of it, whatever the sink rejects, whichever
\* fence stalls and whenever the process dies (context.py, "Write intent BEFORE
\* the effect").
IntentBeforeEffect ==
    \A i \in Called : effect[i] # "none" /\ Durable(i) => OnDisk("STEP_INTENT", i)

\* When a durable call has come back to the agent, the log already says how to
\* undo it: a later crash finds the descriptor, not a bare intent.
InverseBeforeReturn ==
    \A i \in Called :
        DurableCommit /\ Durable(i) /\ call[i] = "returned"
            => \E r \in ToSet(disk) :
                  /\ r.step = i /\ r.comp = stack[i].comp
                  /\ r.ev \in {"STEP_COMMITTED", "COMPLETED_VIA_FALLBACK"}

Reported == {"COMPENSATION_FAILED", "ORPHANED", "UNRESOLVED"}

\* "Steps are never silently discarded": once the scope has raised SagaAborted,
\* every effect of the saga was undone once or stands in the report.  A step
\* that its fallback completed counts as settled.
NothingForgotten ==
    pc = "aborted" =>
        \A i \in Called :
            effect[i] = "landed" /\ stack[i].st # "COMPLETED_VIA_FALLBACK" =>
                \/ stack[i].st \in Reported
                \/ stack[i].st = "COMPENSATED" /\ undone[i] = [saga |-> 1, daemon |-> 0]

\* Compensation is LIFO, also across failures: an inverse runs only when every
\* later effect is undone, known to have no inverse, or failed in a rollback that
\* does not halt.
UndoLIFO ==
    [][\A i \in Called : undone'[i].saga > undone[i].saga =>
          \A j \in (i + 1)..Len(stack) :
              effect[j] = "landed" =>
                  \/ Undone(j)
                  \/ stack[j].st \in {"ORPHANED", "COMPLETED_VIA_FALLBACK"}
                  \/ stack[j].st = "COMPENSATION_FAILED" /\ ~HaltOnFailure]_sagaVars

\* A rollback comes to an end, whatever its compensations and the sink do.
RollbackEnds == pc = "rollback" ~> pc \in Left \union {"dead"}
=============================================================================
