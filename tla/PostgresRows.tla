---------------------------- MODULE PostgresRows ----------------------------
(***************************************************************************)
(* The Postgres connector (agent_saga/connectors/postgres.py): one saga    *)
(* that updates, inserts and deletes one row, other sessions that write    *)
(* the same row meanwhile, and a rollback in process or, after a crash, by *)
(* daemons that share a RedisLedger (agent_saga/ledger.py).  No            *)
(* transaction spans two statements of a forward call, so every statement  *)
(* is a step of its own; INSERT fails on a key that is taken.              *)
(*                                                                         *)
(* Intents and outcomes are recorded durably here (SagaContext has what    *)
(* happens when they are not); the rollback's COMPENSATED records are not  *)
(* fenced one by one, so a crash may lose the last of them.                *)
(***************************************************************************)
EXTENDS Integers, Sequences, FiniteSets

CONSTANTS
    Ops,         \* the operations the agent uses
    Daemons,     \* recovery daemons, on hosts of their own: no claim is shared
    FreshKeys,   \* does the agent insert only under keys that are free?
    MaxSteps,    \* bound: calls of the saga
    MaxTheirs,   \* bound: writes of other sessions
    MaxTrouble   \* bound: lost connections, timeouts and daemon crashes

ASSUME RowAssumption ==
    /\ Ops \subseteq {"update", "insert", "delete"}
    /\ {MaxSteps, MaxTheirs, MaxTrouble} \subseteq Nat
    /\ FreshKeys \in BOOLEAN
    /\ "saga" \notin Daemons

VARIABLES
    row,        \* what the table holds under the key
    before,     \* what it held when the saga began
    theirs,     \* writes of other sessions so far
    pc,         \* where the saga's process stands
    captured,   \* what the call under way has read
    stack,      \* ctx.stack: [op, st, comp] per call
    logUndone,  \* after a crash: steps whose COMPENSATED record survived
    at,         \* per worker that compensates, where it stands
    todo,       \* per worker, the steps it has not dealt with
    seen,       \* per daemon, completed_keys() as its sweep read them
    doneSet,    \* RedisLedger's SET of completed tokens
    told,       \* has a daemon asked for a human?
    trouble     \* failures so far

table   == <<row, before, theirs>>
saga    == <<pc, captured, stack, logUndone>>
workers == <<at, todo, seen>>
vars    == <<table, saga, workers, doneSet, told, trouble>>

Steps   == 1..MaxSteps
Workers == {"saga"} \union Daemons

Absent    == <<"absent", 0>>
Orig      == <<"orig", 0>>
Ours(i)   == <<"ours", i>>
Theirs(n) == <<"theirs", n>>

NoComp       == [fn |-> "none", row |-> Absent]
Comp(fn, r)  == [fn |-> fn, row |-> r]

Init ==
    /\ row \in {Absent, Orig} /\ before = row /\ theirs = 0
    /\ pc = "body" /\ captured = Absent /\ stack = <<>> /\ logUndone = {}
    /\ at = [w \in Workers |-> "idle"]
    /\ todo = [w \in Workers |-> {}]
    /\ seen = [w \in Workers |-> {}]
    /\ doneSet = {} /\ told = FALSE /\ trouble = 0

Trouble == trouble < MaxTrouble /\ trouble' = trouble + 1

Last == Len(stack)

-----------------------------------------------------------------------------
(* The forward calls                                                        *)

Execute(op) ==
    /\ pc = "body" /\ Last < MaxSteps
    /\ op = "insert" /\ FreshKeys => row = Absent
    /\ stack' = Append(stack, [op |-> op, st |-> "INTENT", comp |-> NoComp])
    /\ captured' = Absent
    /\ pc' = IF op = "insert" THEN "mutating" ELSE "selecting"
    /\ UNCHANGED <<table, logUndone, workers, doneSet, told, trouble>>

\* fetchrow(); a row that is not there is a LookupError.
Select ==
    /\ pc = "selecting"
    /\ captured' = row
    /\ pc' = IF row = Absent THEN "raised" ELSE "mutating"
    /\ UNCHANGED <<table, stack, logUndone, workers, doneSet, told, trouble>>

\* The row after the statement of the call: an UPDATE of a row that is gone
\* touches none, and nobody looks at the count.
Mutated ==
    CASE stack[Last].op = "update" -> IF row = Absent THEN Absent ELSE Ours(Last)
      [] stack[Last].op = "insert" -> IF row = Absent THEN Ours(Last) ELSE row
      [] stack[Last].op = "delete" -> Absent

KeyTaken == stack[Last].op = "insert" /\ row # Absent

Mutate ==
    /\ pc = "mutating"
    /\ row' = Mutated
    /\ pc' = IF KeyTaken THEN "raised" ELSE "returned"
    /\ UNCHANGED <<before, theirs, captured, stack, logUndone, workers, doneSet,
                   told, trouble>>

\* A timeout or a lost connection: the statement may have reached the server.
Lost ==
    /\ pc \in {"selecting", "mutating"} /\ Trouble
    /\ row' \in {row, IF pc = "mutating" THEN Mutated ELSE row}
    /\ pc' = "raised"
    /\ UNCHANGED <<before, theirs, captured, stack, logUndone, workers, doneSet, told>>

Inverse(op, r) ==
    CASE op = "update" -> Comp("restore", r)
      [] op = "insert" -> Comp("delete", Absent)
      [] op = "delete" -> Comp("reinsert", r)

\* _compensate(None): an UPDATE leaves nothing to write back, an INSERT under a
\* key of the caller's choice can be deleted by it, a DELETE is undone from the
\* row the closure captured.
InverseUnknown(op) ==
    IF op = "insert" \/ (op = "delete" /\ captured # Absent)
    THEN Inverse(op, captured) ELSE NoComp

Outcome(st, comp) ==
    /\ stack' = [stack EXCEPT ![Last].st = st, ![Last].comp = comp]
    /\ pc' = "body"
    /\ UNCHANGED <<table, captured, logUndone, workers, doneSet, told, trouble>>

\* STEP_COMMITTED is durable and execute() returns to the agent.
Commit == pc = "returned" /\ Outcome("COMMITTED", Inverse(stack[Last].op, captured))

\* STEP_UNKNOWN is durable and execute() raises; the agent may swallow it.
Unknown == pc = "raised" /\ Outcome("UNKNOWN", InverseUnknown(stack[Last].op))

\* Another session of the database.
OtherWrite ==
    /\ stack # <<>> /\ theirs < MaxTheirs
    /\ theirs' = theirs + 1
    /\ row' \in {Theirs(theirs + 1)} \union (IF row = Absent THEN {} ELSE {Absent})
    /\ UNCHANGED <<before, saga, workers, doneSet, told, trouble>>

-----------------------------------------------------------------------------
(* The compensators, whoever runs them                                      *)

\* Mutant: oldest first.
Bottom(w, i) == i \in todo[w] /\ \A j \in todo[w] : i <= j

\* The step that is due: LIFO.
Top(w, i) == i \in todo[w] /\ \A j \in todo[w] : j <= i

Working(w, i) == at[w] = "working" /\ Top(w, i)

Fn(w, i, fn) == Working(w, i) /\ stack[i].comp.fn = fn

\* The handler returned: the saga appends COMPENSATED and goes on; a daemon has
\* its success to record first.
Done(w, i) ==
    IF w = "saga"
    THEN /\ stack' = [stack EXCEPT ![i].st = "COMPENSATED"]
         /\ todo' = [todo EXCEPT ![w] = @ \ {i}]
         /\ at' = [at EXCEPT ![w] = "working"]
         /\ UNCHANGED <<seen, told>>
    ELSE /\ at' = [at EXCEPT ![w] = "undone"]
         /\ UNCHANGED <<stack, todo, seen, told>>

\* The sweep of daemon d is over for this saga.
SweepOver(d) ==
    /\ at' = [at EXCEPT ![d] = "idle"]
    /\ todo' = [todo EXCEPT ![d] = {}]
    /\ seen' = [seen EXCEPT ![d] = {}]

\* The handler raised: a rollback halts, every step below it is UNRESOLVED; a
\* daemon journals RECOVERY_FAILED and leaves the saga to a human.
Raise(w, i) ==
    IF w = "saga"
    THEN /\ stack' = [j \in 1..Last |->
                 IF j = i THEN [stack[j] EXCEPT !.st = "COMPENSATION_FAILED"]
                 ELSE IF j < i THEN [stack[j] EXCEPT !.st = "UNRESOLVED"]
                 ELSE stack[j]]
         /\ todo' = [todo EXCEPT ![w] = {}]
         /\ at' = [at EXCEPT ![w] = "working"]
         /\ UNCHANGED <<seen, told>>
    ELSE /\ SweepOver(w) /\ told' = TRUE
         /\ UNCHANGED stack

Handled == UNCHANGED <<before, theirs, pc, captured, logUndone, doneSet>>

\* Mutant: the UPDATE has no guard.
HoldsOursOrAny(i) == row # Absent

\* ... WHERE pk AND every column IS NOT DISTINCT FROM what this step wrote.
HoldsOurs(i) == row = Ours(i)

\* restore_row(): one guarded UPDATE; no row affected is ConcurrentModification.
RestoreRow(w, i) ==
    /\ Fn(w, i, "restore")
    /\ \/ HoldsOurs(i) /\ row' = stack[i].comp.row /\ Done(w, i)
       \/ ~HoldsOurs(i) /\ Raise(w, i) /\ UNCHANGED row
    /\ Handled /\ UNCHANGED trouble

\* delete_inserted_row(): one DELETE by key; no row is success too.
DeleteInsertedRow(w, i) ==
    /\ Fn(w, i, "delete")
    /\ row' = Absent
    /\ Done(w, i)
    /\ Handled /\ UNCHANGED trouble

Free == row = Absent

\* reinsert_row(): the existence check ...
CheckFree(w, i) ==
    /\ Fn(w, i, "reinsert")
    /\ \/ /\ Free /\ at' = [at EXCEPT ![w] = "checked"]
          /\ UNCHANGED <<stack, todo, seen, told>>
       \/ ~Free /\ Raise(w, i)
    /\ Handled /\ UNCHANGED <<row, trouble>>

\* ... and the INSERT, a statement of its own: who came in between makes it fail.
ReinsertRow(w, i) ==
    /\ at[w] = "checked" /\ Top(w, i)
    /\ \/ Free /\ row' = stack[i].comp.row /\ Done(w, i)
       \/ ~Free /\ Raise(w, i) /\ UNCHANGED row
    /\ Handled /\ UNCHANGED trouble

\* What the handler's next statement makes of the row.
Effect(w, i) ==
    CASE at[w] = "checked" -> IF Free THEN stack[i].comp.row ELSE row
      [] stack[i].comp.fn = "restore" -> IF HoldsOurs(i) THEN stack[i].comp.row ELSE row
      [] stack[i].comp.fn = "delete" -> Absent
      [] OTHER -> row

\* The handler loses its connection, before or after the statement took effect.
HandlerLost(w, i) ==
    /\ at[w] \in {"working", "checked"} /\ Top(w, i) /\ stack[i].comp # NoComp
    /\ Trouble
    /\ row' \in {row, Effect(w, i)}
    /\ Raise(w, i)
    /\ Handled

-----------------------------------------------------------------------------
(* Rollback in process, crash, and the daemons                              *)

Abort ==
    /\ pc = "body" /\ Last > 0
    /\ pc' = "rollback"
    /\ at' = [at EXCEPT !["saga"] = "working"]
    /\ todo' = [todo EXCEPT !["saga"] = 1..Last]
    /\ UNCHANGED <<table, captured, stack, logUndone, seen, doneSet, told, trouble>>

Orphan(i) ==
    /\ Fn("saga", i, "none")
    /\ stack' = [stack EXCEPT ![i].st = "ORPHANED"]
    /\ todo' = [todo EXCEPT !["saga"] = @ \ {i}]
    /\ UNCHANGED <<row, at, seen, told, trouble>> /\ Handled

\* ROLLBACK_END and SAGA_ABORTED are durable.
Aborted ==
    /\ pc = "rollback" /\ at["saga"] = "working" /\ todo["saga"] = {}
    /\ pc' = "aborted"
    /\ at' = [at EXCEPT !["saga"] = "idle"]
    /\ UNCHANGED <<table, captured, stack, logUndone, todo, seen, doneSet, told, trouble>>

\* The process dies, a statement under way or not.  COMPENSATED records reached
\* the log in the order they were written: the last steps first.
Crash ==
    /\ pc \notin {"aborted", "dead"} /\ Last > 0
    /\ pc' = "dead"
    /\ row' \in {row} \union (IF pc = "mutating" THEN {Mutated} ELSE {})
                      \union {Effect("saga", i) : i \in {j \in todo["saga"] :
                                 Top("saga", j) /\ stack[j].comp # NoComp}}
    /\ \E k \in 1..(Last + 1) :
          logUndone' = {i \in k..Last : stack[i].st = "COMPENSATED"}
    /\ SweepOver("saga")
    /\ UNCHANGED <<before, theirs, captured, stack, doneSet, told, trouble>>

\* Mutant: the SET is not read.
CompletedKeysNone == {}

\* completed_keys(): the SET.
CompletedKeys == doneSet

\* recover_all(): the log and the ledger are read once per sweep; FileLock's
\* claim is a file of this host, so it keeps out no other daemon of the fleet.
Sweep(d) ==
    /\ pc = "dead" /\ at[d] = "idle"
    /\ 1..Last \ logUndone # {}
    /\ at' = [at EXCEPT ![d] = "working"]
    /\ todo' = [todo EXCEPT ![d] = 1..Last \ logUndone]
    /\ seen' = [seen EXCEPT ![d] = CompletedKeys]
    /\ UNCHANGED <<table, saga, doneSet, told, trouble>>

\* should_skip()
Skip(d, i) ==
    /\ Working(d, i) /\ i \in seen[d]
    /\ todo' = [todo EXCEPT ![d] = @ \ {i}]
    /\ UNCHANGED <<row, stack, at, seen, told, trouble>> /\ Handled

\* No compensation was recorded: a bare intent, or one derived from nothing.
Escalate(d, i) ==
    /\ Fn(d, i, "none") /\ i \notin seen[d]
    /\ SweepOver(d) /\ told' = TRUE
    /\ UNCHANGED <<row, stack, trouble>> /\ Handled

\* RedisLedger.record("RECOVERY_SUCCESS"): RPUSH to the audit list, then SADD.
Record(d, i) ==
    /\ at[d] = "undone" /\ Top(d, i)
    /\ doneSet' = doneSet \union {i}
    /\ todo' = [todo EXCEPT ![d] = @ \ {i}]
    /\ at' = [at EXCEPT ![d] = "working"]
    /\ UNCHANGED <<table, saga, seen, told, trouble>>

Recovered(d) ==
    /\ at[d] = "working" /\ todo[d] = {}
    /\ SweepOver(d)
    /\ UNCHANGED <<table, saga, doneSet, told, trouble>>

\* A daemon dies and is started again: the SADD of its success may be missing.
DaemonCrash(d) ==
    /\ at[d] # "idle" /\ Trouble
    /\ row' \in {row} \union {Effect(d, i) : i \in {j \in todo[d] :
                   at[d] # "undone" /\ Top(d, j) /\ j \notin seen[d]
                   /\ stack[j].comp # NoComp}}
    /\ SweepOver(d)
    /\ UNCHANGED <<before, theirs, saga, doneSet, told>>

Compensate(w, i) ==
    \/ RestoreRow(w, i) \/ DeleteInsertedRow(w, i)
    \/ CheckFree(w, i) \/ ReinsertRow(w, i) \/ HandlerLost(w, i)

Next ==
    \/ \E op \in Ops : Execute(op)
    \/ Select \/ Mutate \/ Lost \/ Commit \/ Unknown
    \/ OtherWrite
    \/ Abort \/ Aborted \/ Crash
    \/ \E i \in Steps : Orphan(i) \/ Compensate("saga", i)
    \/ \E d \in Daemons :
        \/ Sweep(d) \/ Recovered(d) \/ DaemonCrash(d)
        \/ \E i \in Steps :
            \/ Skip(d, i) \/ Escalate(d, i) \/ Record(d, i)
            \/ i \notin seen[d] /\ Compensate(d, i)

Spec == Init /\ [][Next]_vars

-----------------------------------------------------------------------------
(* Properties                                                               *)

Clean == \A i \in 1..Last : stack[i].st = "COMPENSATED"

\* A clean report is the truth: when the scope says every step was compensated,
\* or a daemon says RECOVERED, the row is what it was before the saga, unless
\* another session wrote it meanwhile; also when calls were lost half way, the
\* rollback died and daemons began again (context.py, "clean"; recovery.py).
CleanMeansRestored ==
    theirs = 0 =>
        /\ pc = "aborted" /\ Clean => row = before
        /\ \A d \in Daemons : at[d] = "working" /\ todo[d] = {} => row = before

\* "A lost update caused by the rollback itself" does not happen: whoever
\* compensates, and however often, the inverse of an UPDATE or of a DELETE never
\* replaces what another session wrote (restore_row, reinsert_row).
PutsBack(w) ==
    at[w] \in {"working", "checked"}
    /\ \E i \in todo[w] : Top(w, i) /\ stack[i].comp.fn \in {"restore", "reinsert"}

TheirsKept ==
    [][\A w \in Workers, n \in 1..MaxTheirs :
          row = Theirs(n) /\ PutsBack(w) /\ (at'[w] # at[w] \/ todo'[w] # todo[w])
              => row' = row]_vars

\* Nothing the saga wrote is brought back to life: once the row has been undone
\* all the way, no retry of a crashed or failed recovery changes it again (the
\* guards and the ledger together are the de-duplication Postgres lacks).
StaysUndone ==
    [][pc = "dead" /\ 1..Last \subseteq logUndone \union doneSet
          => row' = row \/ theirs' # theirs]_vars
=============================================================================
