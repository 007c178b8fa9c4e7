-------------------------- MODULE PostgresRowsProofs --------------------------
(***************************************************************************)
(* What the Postgres compensators may and may not do to the row, for any   *)
(* number of calls, of lost connections and of writes by other sessions.   *)
(***************************************************************************)
EXTENDS PostgresRows, TLAPS

-----------------------------------------------------------------------------
(* The inductive invariant                                                  *)

Rows == {"absent", "orig", "ours", "theirs"} \X Nat

Fns == {"none", "restore", "delete", "reinsert"}

Calls == [op : {"update", "insert", "delete"},
          st : {"INTENT", "COMMITTED", "UNKNOWN", "COMPENSATED", "COMPENSATION_FAILED",
                "UNRESOLVED", "ORPHANED"},
          comp : [fn : Fns, row : Rows]]

Forward == {"body", "selecting", "mutating", "returned", "raised"}

TypeOK ==
    /\ row \in Rows /\ before \in Rows /\ captured \in Rows
    /\ theirs \in Nat
    /\ pc \in Forward \union {"rollback", "aborted", "dead"}
    /\ stack \in Seq(Calls)
    /\ at \in [Workers -> {"idle", "working", "checked", "undone"}]
    /\ todo \in [Workers -> SUBSET (1..Last)]

\* Who may be at work when: nobody before the rollback, the saga in it, and the
\* daemons once its process is dead.
Phases ==
    /\ pc \notin {"body", "rollback", "aborted", "dead"} => Last > 0
    /\ pc \in {"rollback", "aborted", "dead"} => Last > 0
    /\ pc # "dead" => doneSet = {} /\ logUndone = {} /\ \A d \in Daemons : at[d] = "idle"
    /\ pc # "rollback" => at["saga"] = "idle"
    /\ pc = "rollback" => at["saga"] \in {"working", "checked"}
    /\ \A w \in Workers :
          /\ at[w] = "idle" => todo[w] = {}
          /\ at[w] = "checked" =>
                \E i \in todo[w] : Top(w, i) /\ stack[i].comp.fn = "reinsert"
          /\ at[w] = "undone" => w # "saga" /\ todo[w] # {}

\* What undoes the first call leaves the row as it was before the saga.
UndoesTo(comp) ==
    /\ comp.fn \in {"restore", "reinsert"} => comp.row = before
    /\ comp.fn = "delete" => before = Absent

\* The first call found the row as it was before the saga.
FirstCall ==
    /\ Last = 0 => row = before
    /\ Last = 1 /\ pc = "selecting" =>
          row = before /\ captured = Absent /\ stack[1].op # "insert"
    /\ Last = 1 /\ pc = "mutating" => row = before
    /\ Last = 1 /\ pc \in {"mutating", "returned", "raised"} =>
          IF stack[1].op = "insert" THEN before = Absent
          ELSE captured = before \/ (captured = Absent /\ pc = "raised")
    /\ Last > 0 => UndoesTo(stack[1].comp)

\* The rollback is done with the first call last, and until then with the calls behind
\* it: compensated, or without a compensation.
Undone(i) == stack[i].st = "COMPENSATED" \/ stack[i].comp.fn = "none"

Backwards ==
    /\ pc \in Forward => \A i \in 1..Last : stack[i].st \in {"INTENT", "COMMITTED", "UNKNOWN"}
    /\ pc = "rollback" =>
          /\ \A i \in todo["saga"] : stack[i].st # "COMPENSATED"
          /\ \A i \in todo["saga"] : \A j \in 1..i : j \in todo["saga"]
          /\ \/ \A i \in 1..Last : i \notin todo["saga"] => Undone(i)
             \/ todo["saga"] = {} /\ stack[1].st \in {"COMPENSATION_FAILED", "UNRESOLVED"}
    /\ pc \in {"rollback", "aborted"} /\ stack[1].st = "COMPENSATED" /\ theirs = 0 =>
          row = before

\* A sweep deals with every step that is neither in the log nor in the ledger, and
\* what its daemon records it is done with.
Sweeps ==
    /\ seen \in [Workers -> SUBSET doneSet]
    /\ \A d \in Daemons :
          /\ todo[d] \intersect logUndone = {}
          /\ todo[d] \intersect doneSet \subseteq seen[d]
          /\ at[d] # "idle" => 1..Last \subseteq todo[d] \union doneSet \union logUndone

\* The first step is the last one anybody deals with, and its undo stays.
Restored ==
    /\ logUndone \subseteq 1..Last
    /\ 1 \in doneSet => 1..Last \subseteq doneSet \union logUndone
    /\ 1 \in logUndone => \A i \in 1..Last : i \in logUndone \/ stack[i].comp.fn = "none"
    /\ theirs = 0 /\ 1 \in doneSet \union logUndone => row = before
    /\ \A d \in Daemons : theirs = 0 /\ at[d] = "undone" /\ Top(d, 1) => row = before

IInv == TypeOK /\ Phases

RInv == (theirs = 0 => FirstCall) /\ Backwards /\ Sweeps /\ Restored

-----------------------------------------------------------------------------
(* The values                                                               *)

LEMMA RowTypes ==
    /\ Absent \in Rows /\ Orig \in Rows
    /\ \A i \in Nat : Ours(i) \in Rows /\ Theirs(i) \in Rows
    /\ \A i, n : Ours(i) # Theirs(n) /\ Theirs(n) # Absent /\ Ours(i) # Absent
BY DEF Rows, Absent, Orig, Ours, Theirs

LEMMA StackType ==
    ASSUME TypeOK, NEW i \in 1..Last
    PROVE  stack[i] \in Calls /\ i \in Nat /\ Last \in Nat
BY DEF TypeOK, Last

LEMMA MutatedType ==
    ASSUME TypeOK, Last > 0
    PROVE  Mutated \in Rows
<1>1. Last \in 1..Last /\ Last \in Nat
    BY DEF TypeOK, Last
<1>2. stack[Last].op \in {"update", "insert", "delete"} /\ row \in Rows
    BY <1>1, StackType DEF Calls, TypeOK
<1> QED
    BY <1>1, <1>2, RowTypes DEF Mutated

LEMMA EffectType ==
    ASSUME TypeOK, NEW w \in Workers, NEW i \in todo[w]
    PROVE  i \in 1..Last /\ Effect(w, i) \in Rows
<1>1. i \in 1..Last /\ row \in Rows
    BY DEF TypeOK
<1>2. stack[i].comp.row \in Rows
    BY <1>1, StackType DEF Calls
<1> QED
    BY <1>1, <1>2, RowTypes DEF Effect

LEMMA TopUnique ==
    ASSUME TypeOK, NEW w \in Workers, NEW i, NEW j, Top(w, i), Top(w, j)
    PROVE  i = j
<1>1. i \in 1..Last /\ j \in 1..Last /\ i <= j /\ j <= i
    BY DEF Top, TypeOK
<1> QED
    BY <1>1

\* Nobody's bookkeeping but that of w.
OthersKept(w) ==
    /\ at' \in [Workers -> {"idle", "working", "checked", "undone"}]
    /\ todo' \in [Workers -> SUBSET (1..Last)]
    /\ \A v \in Workers \ {w} : at'[v] = at[v] /\ todo'[v] = todo[v] /\ seen'[v] = seen[v]

\* The calls stay what they are, but for what is said of their undo.
CallsKept ==
    /\ stack' \in Seq(Calls) /\ Len(stack') = Len(stack)
    /\ \A j \in 1..Last : stack'[j].comp = stack[j].comp /\ stack'[j].op = stack[j].op

LEMMA DoneMoves ==
    ASSUME TypeOK, NEW w \in Workers, NEW i \in todo[w], Done(w, i)
    PROVE  /\ CallsKept /\ OthersKept(w) /\ seen' = seen
           /\ w = "saga" =>
                 /\ todo'[w] = todo[w] \ {i} /\ at'[w] = "working"
                 /\ \A j \in 1..Last : stack'[j].st = IF j = i THEN "COMPENSATED" ELSE stack[j].st
           /\ w # "saga" => todo' = todo /\ stack' = stack /\ at'[w] = "undone"
<1>0. /\ stack \in Seq(Calls) /\ i \in 1..Len(stack)
      /\ at \in [Workers -> {"idle", "working", "checked", "undone"}]
      /\ todo \in [Workers -> SUBSET (1..Last)]
    BY DEF TypeOK, Last
<1>1. CASE w = "saga"
    <2>1. /\ stack' = [stack EXCEPT ![i].st = "COMPENSATED"]
          /\ todo' = [todo EXCEPT ![w] = @ \ {i}]
          /\ at' = [at EXCEPT ![w] = "working"] /\ seen' = seen
        BY <1>1 DEF Done
    <2>2. OthersKept(w) /\ todo'[w] = todo[w] \ {i} /\ at'[w] = "working"
        BY <1>0, <2>1 DEF OthersKept
    <2>3. \A j \in 1..Len(stack) : stack[j] \in Calls
        BY <1>0
    <2>4. /\ Len(stack') = Len(stack)
          /\ \A j \in 1..Len(stack) :
                /\ stack'[j] \in Calls
                /\ stack'[j].comp = stack[j].comp /\ stack'[j].op = stack[j].op
                /\ stack'[j].st = IF j = i THEN "COMPENSATED" ELSE stack[j].st
        BY <1>0, <2>1, <2>3 DEF Calls
    <2>5. stack' \in Seq(Calls)
        BY <1>0, <2>1, <2>4
    <2> QED
        BY <1>1, <2>1, <2>2, <2>4, <2>5 DEF CallsKept, Last
<1>2. CASE w # "saga"
    <2>1. at' = [at EXCEPT ![w] = "undone"] /\ UNCHANGED <<stack, todo, seen>>
        BY <1>2 DEF Done
    <2>2. OthersKept(w) /\ at'[w] = "undone"
        BY <1>0, <2>1 DEF OthersKept
    <2>3. CallsKept
        BY <1>0, <2>1 DEF CallsKept, Last
    <2> QED
        BY <1>2, <2>1, <2>2, <2>3
<1> QED
    BY <1>1, <1>2

LEMMA SweepOverMoves ==
    ASSUME TypeOK, NEW w \in Workers, SweepOver(w)
    PROVE  OthersKept(w) /\ at'[w] = "idle" /\ todo'[w] = {}
BY DEF TypeOK, SweepOver, OthersKept

LEMMA RaiseMoves ==
    ASSUME TypeOK, NEW w \in Workers, NEW i \in todo[w], Raise(w, i)
    PROVE  /\ CallsKept /\ OthersKept(w) /\ todo'[w] = {}
           /\ at'[w] = IF w = "saga" THEN "working" ELSE "idle"
           /\ w = "saga" => \A j \in 1..Last : stack'[j].st =
                 IF j = i THEN "COMPENSATION_FAILED"
                 ELSE IF j < i THEN "UNRESOLVED" ELSE stack[j].st
           /\ w # "saga" => stack' = stack
<1>0. /\ stack \in Seq(Calls) /\ i \in 1..Len(stack)
      /\ at \in [Workers -> {"idle", "working", "checked", "undone"}]
      /\ todo \in [Workers -> SUBSET (1..Last)]
    BY DEF TypeOK, Last
<1>1. CASE w = "saga"
    <2>1. /\ stack' = [j \in 1..Last |->
                 IF j = i THEN [stack[j] EXCEPT !.st = "COMPENSATION_FAILED"]
                 ELSE IF j < i THEN [stack[j] EXCEPT !.st = "UNRESOLVED"]
                 ELSE stack[j]]
          /\ todo' = [todo EXCEPT ![w] = {}]
          /\ at' = [at EXCEPT ![w] = "working"] /\ seen' = seen
        BY <1>1 DEF Raise
    <2>2. OthersKept(w) /\ todo'[w] = {} /\ at'[w] = "working"
        BY <1>0, <2>1 DEF OthersKept
    <2>3. \A j \in 1..Len(stack) : stack[j] \in Calls
        BY <1>0
    <2>4. \A j \in 1..Len(stack) :
                /\ stack'[j] \in Calls
                /\ stack'[j].comp = stack[j].comp /\ stack'[j].op = stack[j].op
                /\ stack'[j].st = IF j = i THEN "COMPENSATION_FAILED"
                                  ELSE IF j < i THEN "UNRESOLVED" ELSE stack[j].st
        BY <1>0, <2>1, <2>3 DEF Calls, Last
    <2>5. stack' \in Seq(Calls) /\ Len(stack') = Len(stack)
        <3>1. Len(stack) \in Nat /\ DOMAIN stack' = 1..Len(stack)
            BY <1>0, <2>1 DEF Last
        <3>2. stack' = [j \in 1..Len(stack) |-> stack'[j]]
            BY <2>1 DEF Last
        <3>3. stack' \in [1..Len(stack) -> Calls]
            BY <2>4, <3>2
        <3> QED
            BY <3>1, <3>3
    <2> QED
        BY <1>1, <2>2, <2>4, <2>5 DEF CallsKept, Last
<1>2. CASE w # "saga"
    <2>1. SweepOver(w) /\ UNCHANGED stack
        BY <1>2 DEF Raise
    <2>2. CallsKept
        BY <1>0, <2>1 DEF CallsKept, Last
    <2> QED
        BY <1>2, <2>1, <2>2, SweepOverMoves
<1> QED
    BY <1>1, <1>2

-----------------------------------------------------------------------------
(* What a compensator does                                                  *)

\* A handler that returned has put back what its call found.
PutBack(i) ==
    /\ stack[i].comp.fn # "none"
    /\ stack[i].comp.fn \in {"restore", "reinsert"} => row' = stack[i].comp.row
    /\ stack[i].comp.fn = "delete" => row' = Absent

\* The handler is between its check and its INSERT.
Checked(w, i) ==
    /\ row' = row /\ stack[i].comp.fn = "reinsert" /\ at[w] = "working"
    /\ at' = [at EXCEPT ![w] = "checked"] /\ UNCHANGED <<stack, todo, seen>>

LEMMA Compensations ==
    ASSUME TypeOK, Phases, NEW w \in Workers, NEW i, Compensate(w, i)
    PROVE  /\ Top(w, i) /\ i \in todo[w] /\ i \in 1..Last /\ at[w] \in {"working", "checked"}
           /\ stack[i].comp.fn # "none" \/ UNCHANGED row
           /\ row' \in Rows /\ Handled
           /\ \/ Done(w, i) /\ PutBack(i)
              \/ Checked(w, i)
              \/ Raise(w, i) /\ row' \in {row, Effect(w, i)}
<1>1. Top(w, i) /\ i \in todo[w] /\ at[w] \in {"working", "checked"} /\ Handled
    BY DEF Compensate, RestoreRow, DeleteInsertedRow, CheckFree, ReinsertRow, HandlerLost, Fn,
           Working, Top
<1>2. i \in 1..Last /\ Effect(w, i) \in Rows /\ row \in Rows /\ stack[i] \in Calls
    <2>1. i \in 1..Last /\ Effect(w, i) \in Rows
        BY <1>1, EffectType
    <2> QED
        BY <2>1, StackType DEF TypeOK
<1>3. at[w] = "checked" => stack[i].comp.fn = "reinsert"
    BY <1>1, TopUnique DEF Phases
<1>4. CASE RestoreRow(w, i)
    BY <1>1, <1>2, <1>4 DEF RestoreRow, Fn, Working, PutBack, Calls
<1>5. CASE DeleteInsertedRow(w, i)
    BY <1>1, <1>2, <1>5, RowTypes DEF DeleteInsertedRow, Fn, Working, PutBack, Calls
<1>6. CASE CheckFree(w, i)
    BY <1>1, <1>2, <1>6 DEF CheckFree, Fn, Working, Checked
<1>7. CASE ReinsertRow(w, i)
    BY <1>1, <1>2, <1>3, <1>7 DEF ReinsertRow, PutBack, Calls
<1>8. CASE HandlerLost(w, i)
    <2>1. Raise(w, i) /\ row' \in {row, Effect(w, i)}
        BY <1>8 DEF HandlerLost
    <2>2. stack[i].comp.fn = "none" => Effect(w, i) = row
        BY <1>1, <1>3 DEF Effect
    <2> QED
        BY <1>1, <1>2, <2>1, <2>2
<1> QED
    BY <1>4, <1>5, <1>6, <1>7, <1>8 DEF Compensate

-----------------------------------------------------------------------------
(* Types and phases, step by step                                           *)

\* A worker's step keeps the types and the phases of the others.
LEMMA WorkerKeeps ==
    ASSUME IInv, NEW w \in Workers, CallsKept, OthersKept(w), UNCHANGED <<before, theirs, pc, captured>>,
           pc # "dead" => UNCHANGED <<logUndone, doneSet>>,
           row' \in Rows,
           pc = IF w = "saga" THEN "rollback" ELSE "dead",
           at'[w] \in IF w = "saga" THEN {"working", "checked"} ELSE {"idle", "working", "checked", "undone"},
           at'[w] = "idle" => todo'[w] = {},
           at'[w] = "checked" =>
               \E i \in todo'[w] : (\A j \in todo'[w] : j <= i) /\ stack[i].comp.fn = "reinsert",
           at'[w] = "undone" => w # "saga" /\ todo'[w] # {}
    PROVE  IInv'
<1>1. Last' = Last /\ Last \in Nat
    BY DEF IInv, TypeOK, CallsKept, Last
<1>2. TypeOK'
    BY <1>1 DEF IInv, TypeOK, CallsKept, OthersKept
<1>3. Phases'
    <2>1. "saga" \in Workers /\ \A d \in Daemons : d \in Workers /\ d # "saga"
        BY RowAssumption DEF Workers
    <2>2. /\ pc' \notin {"body", "rollback", "aborted", "dead"} => Last' > 0
          /\ pc' \in {"rollback", "aborted", "dead"} => Last' > 0
        BY <1>1 DEF IInv, Phases
    <2>3. /\ pc' # "dead" => doneSet' = {} /\ logUndone' = {} /\ \A d \in Daemons : at'[d] = "idle"
          /\ pc' # "rollback" => at'["saga"] = "idle"
          /\ pc' = "rollback" => at'["saga"] \in {"working", "checked"}
        BY <2>1 DEF IInv, Phases, OthersKept
    <2>4. ASSUME NEW v \in Workers
          PROVE  /\ at'[v] = "idle" => todo'[v] = {}
                 /\ at'[v] = "checked" =>
                        \E i \in todo'[v] : Top(v, i)' /\ stack'[i].comp.fn = "reinsert"
                 /\ at'[v] = "undone" => v # "saga" /\ todo'[v] # {}
        <3>0. \A i \in todo'[v] : stack'[i].comp = stack[i].comp
            BY DEF CallsKept, OthersKept
        <3>1. CASE v = w
            BY <3>0, <3>1 DEF Top
        <3>2. CASE v # w
            <4>1. at'[v] = at[v] /\ todo'[v] = todo[v]
                BY <3>2 DEF OthersKept
            <4>2. /\ at[v] = "idle" => todo[v] = {}
                  /\ at[v] = "checked" => \E i \in todo[v] : Top(v, i) /\ stack[i].comp.fn = "reinsert"
                  /\ at[v] = "undone" => v # "saga" /\ todo[v] # {}
                BY DEF IInv, Phases
            <4> QED
                BY <3>0, <4>1, <4>2 DEF Top
        <3> QED
            BY <3>1, <3>2
    <2> QED
        BY <2>2, <2>3, <2>4 DEF Phases
<1> QED
    BY <1>2, <1>3 DEF IInv

\* Whoever is at work: the saga in its rollback, a daemon after its death.
LEMMA AtWork ==
    ASSUME IInv, NEW w \in Workers, at[w] # "idle" \/ todo[w] # {}
    PROVE  pc = IF w = "saga" THEN "rollback" ELSE "dead"
BY RowAssumption DEF IInv, Phases, Workers

LEMMA CompensateKeeps ==
    ASSUME IInv, NEW w \in Workers, NEW i, Compensate(w, i)
    PROVE  IInv'
<1>1. /\ Top(w, i) /\ i \in todo[w] /\ i \in 1..Last /\ at[w] \in {"working", "checked"}
      /\ row' \in Rows /\ Handled
      /\ \/ Done(w, i) /\ PutBack(i)
         \/ Checked(w, i)
         \/ Raise(w, i) /\ row' \in {row, Effect(w, i)}
    BY Compensations DEF IInv
<1>2. pc = (IF w = "saga" THEN "rollback" ELSE "dead")
    BY <1>1, AtWork
<1>3. UNCHANGED <<before, theirs, pc, captured, logUndone, doneSet>>
    BY <1>1 DEF Handled
<1>4. CASE Done(w, i)
    <2>1. /\ CallsKept /\ OthersKept(w)
          /\ w = "saga" => at'[w] = "working"
          /\ w # "saga" => todo' = todo /\ stack' = stack /\ at'[w] = "undone"
        BY <1>1, <1>4, DoneMoves DEF IInv
    <2> QED
        BY <1>1, <1>2, <1>3, <2>1, WorkerKeeps
<1>5. CASE Checked(w, i)
    <2>1. CallsKept
        BY <1>5 DEF IInv, TypeOK, Checked, CallsKept
    <2>2. OthersKept(w) /\ at'[w] = "checked" /\ todo'[w] = todo[w] /\ stack[i].comp.fn = "reinsert"
        BY <1>5 DEF IInv, TypeOK, Checked, OthersKept
    <2>3. \E j \in todo'[w] : (\A k \in todo'[w] : k <= j) /\ stack[j].comp.fn = "reinsert"
        BY <1>1, <2>2 DEF Top
    <2> QED
        BY <1>1, <1>2, <1>3, <2>1, <2>2, <2>3, WorkerKeeps
<1>6. CASE Raise(w, i)
    <2>1. /\ CallsKept /\ OthersKept(w) /\ todo'[w] = {}
          /\ at'[w] = IF w = "saga" THEN "working" ELSE "idle"
        BY <1>1, <1>6, RaiseMoves DEF IInv
    <2> QED
        BY <1>1, <1>2, <1>3, <2>1, WorkerKeeps
<1> QED
    BY <1>1, <1>4, <1>5, <1>6

\* The steps of a sweep that touch neither the row nor the calls.
LEMMA DaemonFrame ==
    ASSUME IInv, NEW d \in Daemons, OthersKept(d), pc = "dead", UNCHANGED <<table, saga>>,
           at'[d] \in {"idle", "working", "undone"},
           at'[d] = "idle" => todo'[d] = {},
           at'[d] = "undone" => todo'[d] # {}
    PROVE  IInv'
<1>1. d \in Workers /\ d # "saga"
    BY RowAssumption DEF Workers
<1>2. CallsKept /\ row' \in Rows /\ UNCHANGED <<before, theirs, pc, captured>>
    BY DEF IInv, TypeOK, CallsKept, table, saga
<1> QED
    BY <1>1, <1>2, WorkerKeeps

\* A step of the saga before its rollback, while nobody else is at work.
LEMMA ForwardKeeps ==
    ASSUME IInv, pc \in Forward, pc' \in Forward, UNCHANGED <<before, theirs, logUndone, workers, doneSet>>,
           row' \in Rows, captured' \in Rows, stack' \in Seq(Calls),
           Last' > 0, Last <= Last'
    PROVE  IInv'
<1>1. TypeOK'
    <2>1. Last \in Nat /\ Last' \in Nat /\ 1..Last \subseteq 1..Last'
        BY DEF IInv, TypeOK, Last
    <2>2. todo' \in [Workers -> SUBSET (1..Last')]
        BY <2>1 DEF IInv, TypeOK, workers
    <2> QED
        BY <2>2 DEF IInv, TypeOK, workers
<1>2. Phases'
    <2>1. \A w \in Workers : at[w] = "idle" /\ todo[w] = {}
        BY DEF IInv, Phases, Workers, Forward
    <2> QED
        BY <2>1 DEF IInv, Phases, workers, Forward
<1> QED
    BY <1>1, <1>2 DEF IInv

\* The call under way, and what is said of it.
LEMMA CallAppended ==
    ASSUME TypeOK, NEW c \in Calls, stack' = Append(stack, c)
    PROVE  /\ stack' \in Seq(Calls) /\ Last' = Last + 1 /\ stack'[Last'] = c
           /\ \A i \in 1..Last : stack'[i] = stack[i]
BY DEF TypeOK, Last

LEMMA ExecuteKeeps ==
    ASSUME IInv, NEW op \in Ops, Execute(op)
    PROVE  IInv'
<1> DEFINE c == [op |-> op, st |-> "INTENT", comp |-> NoComp]
<1>1. c \in Calls
    BY RowAssumption, RowTypes DEF Calls, NoComp, Fns
<1>2. stack' = Append(stack, c) /\ pc = "body" /\ pc' \in {"mutating", "selecting"}
      /\ captured' = Absent /\ UNCHANGED <<table, logUndone, workers, doneSet>>
    BY DEF Execute
<1> HIDE DEF c
<1>3. stack' \in Seq(Calls) /\ Last' = Last + 1 /\ Last \in Nat
    <2>1. TypeOK
        BY DEF IInv
    <2>2. Last \in Nat
        BY <2>1 DEF TypeOK, Last
    <2> QED
        BY <1>1, <1>2, <2>1, <2>2, CallAppended
<1>4. row' \in Rows /\ captured' \in Rows
    BY <1>2, RowTypes DEF IInv, TypeOK, table
<1> QED
    BY <1>2, <1>3, <1>4, ForwardKeeps DEF Forward, table

LEMMA SelectKeeps == ASSUME IInv, Select PROVE IInv'
<1>1. /\ pc = "selecting" /\ pc' \in {"raised", "mutating"} /\ captured' = row
      /\ UNCHANGED <<table, stack, logUndone, workers, doneSet>>
    BY DEF Select
<1>2. Last > 0 /\ Last' = Last /\ Last \in Nat
    BY <1>1 DEF IInv, TypeOK, Phases, Last
<1> QED
    BY <1>1, <1>2, ForwardKeeps DEF IInv, TypeOK, Forward, table

LEMMA MutateKeeps == ASSUME IInv, Mutate PROVE IInv'
<1>1. /\ pc = "mutating" /\ pc' \in {"raised", "returned"} /\ row' = Mutated
      /\ UNCHANGED <<before, theirs, captured, stack, logUndone, workers, doneSet>>
    BY DEF Mutate
<1>2. Last > 0 /\ Last' = Last /\ Last \in Nat
    BY <1>1 DEF IInv, TypeOK, Phases, Last
<1>3. row' \in Rows
    BY <1>1, <1>2, MutatedType DEF IInv
<1> QED
    BY <1>1, <1>2, <1>3, ForwardKeeps DEF IInv, TypeOK, Forward

LEMMA LostKeeps == ASSUME IInv, Lost PROVE IInv'
<1>1. /\ pc \in {"selecting", "mutating"} /\ pc' = "raised" /\ row' \in {row, Mutated}
      /\ UNCHANGED <<before, theirs, captured, stack, logUndone, workers, doneSet>>
    BY DEF Lost
<1>2. Last > 0 /\ Last' = Last /\ Last \in Nat
    BY <1>1 DEF IInv, TypeOK, Phases, Last
<1>3. row' \in Rows
    BY <1>1, <1>2, MutatedType DEF IInv, TypeOK
<1> QED
    BY <1>1, <1>2, <1>3, ForwardKeeps DEF IInv, TypeOK, Forward

\* What the outcome says of the call under way.
LEMMA OutcomeMoves ==
    ASSUME IInv, NEW st \in {"COMMITTED", "UNKNOWN"}, NEW comp \in [fn : Fns, row : Rows],
           pc \in {"returned", "raised"}, Outcome(st, comp)
    PROVE  /\ IInv' /\ Last' = Last /\ Last \in 1..Last
           /\ \A i \in 1..Last : stack'[i] =
                 IF i = Last THEN [op |-> stack[i].op, st |-> st, comp |-> comp] ELSE stack[i]
<1>1. /\ stack' = [stack EXCEPT ![Last].st = st, ![Last].comp = comp] /\ pc' = "body"
      /\ UNCHANGED <<table, captured, logUndone, workers, doneSet>>
    BY DEF Outcome
<1>2. Last > 0 /\ Last \in Nat /\ stack \in Seq(Calls) /\ Last \in 1..Last
    BY DEF IInv, TypeOK, Phases, Last
<1>3. \A i \in 1..Last : stack[i] \in Calls
    BY <1>2 DEF Last
<1>4. \A i \in 1..Last : stack'[i] =
          IF i = Last THEN [op |-> stack[i].op, st |-> st, comp |-> comp] ELSE stack[i]
    BY <1>1, <1>2, <1>3 DEF Calls, Last
<1>5. ASSUME NEW i \in 1..Last PROVE stack'[i] \in Calls
    <2>1. CASE i = Last
        <3>1. stack'[i] = [op |-> stack[i].op, st |-> st, comp |-> comp]
            BY <1>4, <2>1
        <3>2. stack[i].op \in {"update", "insert", "delete"}
            BY <1>3 DEF Calls
        <3> QED
            BY <3>1, <3>2 DEF Calls
    <2>2. CASE i # Last
        BY <1>3, <1>4, <2>2
    <2> QED
        BY <2>1, <2>2
<1>6. stack' \in Seq(Calls) /\ Len(stack') = Len(stack)
    <2>1. Len(stack) \in Nat /\ DOMAIN stack = 1..Len(stack)
        BY <1>2
    <2>2. stack' = [i \in DOMAIN stack |-> stack'[i]]
        BY <1>1
    <2>3. stack' \in [1..Len(stack) -> Calls]
        BY <1>5, <2>1, <2>2 DEF Last
    <2> QED
        BY <2>1, <2>3
<1>7. IInv'
    BY <1>1, <1>2, <1>6, ForwardKeeps DEF IInv, TypeOK, Forward, table, Last
<1> QED
    BY <1>2, <1>4, <1>6, <1>7 DEF Last

\* What the two outcomes leave to undo the call with.
LEMMA InverseTypes ==
    ASSUME TypeOK, Last > 0
    PROVE  /\ Inverse(stack[Last].op, captured) \in [fn : Fns, row : Rows]
           /\ InverseUnknown(stack[Last].op) \in [fn : Fns, row : Rows]
<1>1. Last \in 1..Last /\ captured \in Rows
    BY DEF TypeOK, Last
<1>2. stack[Last].op \in {"update", "insert", "delete"}
    BY <1>1, StackType DEF Calls
<1>3. \A r \in Rows, fn \in Fns : Comp(fn, r) \in [fn : Fns, row : Rows]
    BY DEF Comp
<1>4. NoComp \in [fn : Fns, row : Rows]
    BY RowTypes DEF NoComp, Fns
<1>5. \A op \in {"update", "insert", "delete"} : Inverse(op, captured) \in [fn : Fns, row : Rows]
    BY <1>1, <1>3, RowTypes DEF Inverse, Fns
<1> QED
    BY <1>2, <1>4, <1>5 DEF InverseUnknown

LEMMA CommitKeeps == ASSUME IInv, Commit PROVE IInv'
<1>1. pc = "returned" /\ Outcome("COMMITTED", Inverse(stack[Last].op, captured)) /\ Last > 0
    BY DEF Commit, IInv, Phases
<1> QED
    BY <1>1, InverseTypes, OutcomeMoves DEF IInv

LEMMA UnknownKeeps == ASSUME IInv, Unknown PROVE IInv'
<1>1. pc = "raised" /\ Outcome("UNKNOWN", InverseUnknown(stack[Last].op)) /\ Last > 0
    BY DEF Unknown, IInv, Phases
<1> QED
    BY <1>1, InverseTypes, OutcomeMoves DEF IInv

LEMMA OtherWriteKeeps == ASSUME IInv, OtherWrite PROVE IInv'
<1>1. /\ theirs' = theirs + 1 /\ row' \in {Theirs(theirs + 1), Absent}
      /\ UNCHANGED <<before, saga, workers, doneSet>> /\ theirs' \in Nat
    BY DEF OtherWrite, IInv, TypeOK
<1>2. row' \in Rows
    BY <1>1, RowTypes
<1>3. TypeOK'
    BY <1>1, <1>2 DEF IInv, TypeOK, saga, workers, Last
<1>4. Phases'
    BY <1>1 DEF IInv, Phases, saga, workers, Last, Top
<1> QED
    BY <1>3, <1>4 DEF IInv

LEMMA AbortKeeps == ASSUME IInv, Abort PROVE IInv'
<1>1. /\ pc = "body" /\ pc' = "rollback" /\ Last > 0
      /\ at' = [at EXCEPT !["saga"] = "working"]
      /\ todo' = [todo EXCEPT !["saga"] = 1..Last]
      /\ UNCHANGED <<table, captured, stack, logUndone, seen, doneSet>>
    BY DEF Abort
<1>2. TypeOK'
    BY <1>1 DEF IInv, TypeOK, table, Last
<1>3. \A d \in Daemons : at'[d] = at[d] /\ todo'[d] = todo[d] /\ at[d] = "idle" /\ todo[d] = {}
    BY <1>1, RowAssumption DEF IInv, TypeOK, Phases, Workers
<1>4. at'["saga"] = "working" /\ Last' = Last
    BY <1>1 DEF IInv, TypeOK, Workers, Last
<1>5. Phases'
    BY <1>1, <1>3, <1>4 DEF IInv, Phases, Workers
<1> QED
    BY <1>2, <1>5 DEF IInv

LEMMA OrphanMoves ==
    ASSUME IInv, NEW i, Orphan(i)
    PROVE  /\ IInv' /\ Top("saga", i) /\ i \in todo["saga"] /\ i \in 1..Last
           /\ stack[i].comp.fn = "none" /\ CallsKept /\ OthersKept("saga")
           /\ pc = "rollback" /\ at'["saga"] = "working" /\ todo'["saga"] = todo["saga"] \ {i}
           /\ \A j \in 1..Last : stack'[j].st = IF j = i THEN "ORPHANED" ELSE stack[j].st
<1>1. /\ stack' = [stack EXCEPT ![i].st = "ORPHANED"] /\ at["saga"] = "working"
      /\ todo' = [todo EXCEPT !["saga"] = @ \ {i}] /\ UNCHANGED <<row, at, seen>> /\ Handled
      /\ Top("saga", i) /\ i \in todo["saga"] /\ stack[i].comp.fn = "none"
    BY DEF Orphan, Fn, Working, Top
<1>2. /\ stack \in Seq(Calls) /\ i \in 1..Len(stack) /\ "saga" \in Workers
      /\ at \in [Workers -> {"idle", "working", "checked", "undone"}]
      /\ todo \in [Workers -> SUBSET (1..Last)] /\ row \in Rows
    BY <1>1 DEF IInv, TypeOK, Last, Workers
<1>3. \A j \in 1..Len(stack) : stack[j] \in Calls
    BY <1>2
<1>4. \A j \in 1..Len(stack) :
          /\ stack'[j] \in Calls
          /\ stack'[j].comp = stack[j].comp /\ stack'[j].op = stack[j].op
          /\ stack'[j].st = IF j = i THEN "ORPHANED" ELSE stack[j].st
    BY <1>1, <1>2, <1>3 DEF Calls
<1>5. stack' \in Seq(Calls) /\ Len(stack') = Len(stack)
    <2>1. Len(stack) \in Nat /\ DOMAIN stack = 1..Len(stack)
        BY <1>2
    <2>2. stack' = [j \in DOMAIN stack |-> stack'[j]]
        BY <1>1
    <2>3. stack' \in [1..Len(stack) -> Calls]
        BY <1>4, <2>1, <2>2
    <2> QED
        BY <2>1, <2>3
<1>6. CallsKept
    BY <1>4, <1>5 DEF CallsKept, Last
<1>7. OthersKept("saga") /\ at'["saga"] = "working" /\ todo'["saga"] = todo["saga"] \ {i}
    BY <1>1, <1>2 DEF OthersKept
<1>8. pc = "rollback" /\ UNCHANGED <<before, theirs, pc, captured, logUndone, doneSet>>
    BY <1>1, <1>2, AtWork DEF Handled
<1>9. IInv'
    BY <1>1, <1>2, <1>6, <1>7, <1>8, WorkerKeeps
<1> QED
    BY <1>1, <1>2, <1>4, <1>6, <1>7, <1>8, <1>9 DEF Last

LEMMA AbortedKeeps == ASSUME IInv, Aborted PROVE IInv'
<1>1. /\ pc = "rollback" /\ pc' = "aborted" /\ todo["saga"] = {}
      /\ at' = [at EXCEPT !["saga"] = "idle"]
      /\ UNCHANGED <<table, captured, stack, logUndone, todo, seen, doneSet>>
    BY DEF Aborted
<1>2. TypeOK'
    BY <1>1 DEF IInv, TypeOK, table, Last
<1>3. \A d \in Daemons : at'[d] = "idle" /\ todo'[d] = {}
    BY <1>1, RowAssumption DEF IInv, TypeOK, Phases, Workers
<1>4. at'["saga"] = "idle" /\ Last' = Last
    BY <1>1 DEF IInv, TypeOK, Workers, Last
<1>5. Phases'
    BY <1>1, <1>3, <1>4 DEF IInv, Phases, Workers
<1> QED
    BY <1>2, <1>5 DEF IInv

LEMMA CrashMoves ==
    ASSUME IInv, Crash
    PROVE  /\ IInv' /\ pc' = "dead" /\ Last' = Last
           /\ \A w \in Workers : todo'[w] = {} /\ at'[w] = "idle"
           /\ \E k \in 1..(Last + 1) : logUndone' = {i \in k..Last : stack[i].st = "COMPENSATED"}
           /\ \/ row' = row
              \/ pc = "mutating" /\ row' = Mutated
              \/ \E i \in todo["saga"] : Top("saga", i) /\ row' = Effect("saga", i)
<1>0. "saga" \in Workers /\ Last > 0 /\ Last \in Nat
    BY DEF Workers, Crash, IInv, TypeOK, Last
<1>1. /\ pc' = "dead" /\ SweepOver("saga") /\ pc \notin {"aborted", "dead"}
      /\ UNCHANGED <<before, theirs, captured, stack, doneSet>>
    BY DEF Crash
<1>2. OthersKept("saga") /\ at'["saga"] = "idle" /\ todo'["saga"] = {}
    BY <1>0, <1>1, SweepOverMoves DEF IInv
<1>3. \A w \in Workers : todo'[w] = {} /\ at'[w] = "idle"
    <2>1. \A w \in Workers \ {"saga"} : at'[w] = "idle" /\ todo'[w] = {}
        BY <1>1, <1>2 DEF IInv, Phases, OthersKept, Workers
    <2> QED
        BY <1>2, <2>1
<1>4. \/ row' = row
      \/ pc = "mutating" /\ row' = Mutated
      \/ \E i \in todo["saga"] : Top("saga", i) /\ row' = Effect("saga", i)
    BY DEF Crash
<1>5. row' \in Rows
    BY <1>0, <1>4, MutatedType, EffectType DEF IInv, TypeOK
<1>6. Last' = Last
    BY <1>1 DEF Last
<1>7. TypeOK'
    BY <1>1, <1>2, <1>5, <1>6 DEF IInv, TypeOK, OthersKept
<1>8. Phases'
    BY <1>0, <1>1, <1>3, <1>6 DEF Phases, Workers
<1>9. \E k \in 1..(Last + 1) : logUndone' = {i \in k..Last : stack[i].st = "COMPENSATED"}
    BY DEF Crash
<1> QED
    BY <1>1, <1>3, <1>4, <1>6, <1>7, <1>8, <1>9 DEF IInv

LEMMA SweepMoves ==
    ASSUME IInv, NEW d \in Daemons, Sweep(d)
    PROVE  /\ IInv' /\ pc = "dead" /\ at[d] = "idle" /\ at'[d] = "working" /\ OthersKept(d)
           /\ todo'[d] = 1..Last \ logUndone /\ seen' = [seen EXCEPT ![d] = doneSet]
           /\ UNCHANGED <<table, saga, doneSet>>
<1>1. /\ pc = "dead" /\ at' = [at EXCEPT ![d] = "working"] /\ at[d] = "idle"
      /\ todo' = [todo EXCEPT ![d] = 1..Last \ logUndone]
      /\ seen' = [seen EXCEPT ![d] = doneSet] /\ UNCHANGED <<table, saga, doneSet>>
    BY DEF Sweep, CompletedKeys
<1>2. d \in Workers /\ seen' = [seen EXCEPT ![d] = doneSet]
    BY <1>1 DEF Workers
<1>3. /\ at' \in [Workers -> {"idle", "working", "checked", "undone"}]
      /\ todo' \in [Workers -> SUBSET (1..Last)]
      /\ \A v \in Workers \ {d} : at'[v] = at[v] /\ todo'[v] = todo[v]
      /\ at'[d] = "working" /\ todo'[d] = 1..Last \ logUndone
    BY <1>1, <1>2 DEF IInv, TypeOK
<1>4. \A v \in Workers \ {d} : seen'[v] = seen[v]
    BY <1>1
<1>5. OthersKept(d)
    BY <1>3, <1>4 DEF OthersKept
<1>6. IInv'
    BY <1>1, <1>3, <1>5, DaemonFrame
<1> QED
    BY <1>1, <1>3, <1>5, <1>6

LEMMA SkipMoves ==
    ASSUME IInv, NEW d \in Daemons, NEW i, Skip(d, i)
    PROVE  /\ IInv' /\ OthersKept(d) /\ seen' = seen /\ at' = at /\ at[d] = "working"
           /\ i \in seen[d] /\ todo'[d] = todo[d] \ {i} /\ UNCHANGED <<row, stack>> /\ Handled
<1>1. /\ todo' = [todo EXCEPT ![d] = @ \ {i}] /\ UNCHANGED <<row, stack, at, seen>> /\ Handled
      /\ at[d] = "working" /\ i \in seen[d]
    BY DEF Skip, Working
<1>2. d \in Workers /\ d # "saga" /\ pc = "dead"
    BY <1>1, AtWork, RowAssumption DEF Workers
<1>3. OthersKept(d) /\ todo'[d] = todo[d] \ {i}
    BY <1>1, <1>2 DEF IInv, TypeOK, OthersKept
<1>4. UNCHANGED <<table, saga>>
    BY <1>1 DEF Handled, table, saga
<1>5. IInv'
    BY <1>1, <1>2, <1>3, <1>4, DaemonFrame
<1> QED
    BY <1>1, <1>3, <1>5

\* A sweep that ends, whatever ended it.
LEMMA SweepEnds ==
    ASSUME IInv, NEW d \in Daemons, SweepOver(d), at[d] # "idle",
           UNCHANGED <<before, theirs, saga>>, row' \in Rows
    PROVE  IInv' /\ OthersKept(d) /\ at'[d] = "idle" /\ todo'[d] = {} /\ pc = "dead"
<1>1. d \in Workers /\ d # "saga" /\ pc = "dead"
    BY AtWork, RowAssumption DEF Workers
<1>2. OthersKept(d) /\ at'[d] = "idle" /\ todo'[d] = {}
    BY <1>1, SweepOverMoves DEF IInv
<1>3. CallsKept /\ UNCHANGED <<before, theirs, pc, captured>>
    BY DEF IInv, TypeOK, CallsKept, saga
<1>4. IInv'
    BY <1>1, <1>2, <1>3, WorkerKeeps
<1> QED
    BY <1>1, <1>2, <1>4

LEMMA EscalateKeeps ==
    ASSUME IInv, NEW d \in Daemons, NEW i, Escalate(d, i)
    PROVE  IInv' /\ OthersKept(d) /\ at'[d] = "idle" /\ todo'[d] = {} /\ pc = "dead"
<1>1. SweepOver(d) /\ at[d] = "working" /\ UNCHANGED <<row, stack>> /\ Handled
    BY DEF Escalate, Fn, Working
<1> QED
    BY <1>1, SweepEnds DEF Handled, saga, IInv, TypeOK

LEMMA RecoveredKeeps ==
    ASSUME IInv, NEW d \in Daemons, Recovered(d)
    PROVE  IInv' /\ OthersKept(d) /\ at'[d] = "idle" /\ todo'[d] = {} /\ pc = "dead"
<1>1. SweepOver(d) /\ at[d] = "working" /\ UNCHANGED <<table, saga>>
    BY DEF Recovered
<1> QED
    BY <1>1, SweepEnds DEF table, IInv, TypeOK

\* A daemon's handler may have taken effect when it dies.
LEMMA DaemonCrashMoves ==
    ASSUME IInv, NEW d \in Daemons, DaemonCrash(d)
    PROVE  /\ IInv' /\ OthersKept(d) /\ at'[d] = "idle" /\ todo'[d] = {} /\ pc = "dead"
           /\ \/ row' = row
              \/ \E i \in todo[d] : /\ at[d] # "undone" /\ Top(d, i) /\ i \notin seen[d]
                                    /\ row' = Effect(d, i)
<1>1. /\ SweepOver(d) /\ at[d] # "idle" /\ UNCHANGED <<before, theirs, saga, doneSet>>
      /\ \/ row' = row
         \/ \E i \in todo[d] : /\ at[d] # "undone" /\ Top(d, i) /\ i \notin seen[d]
                               /\ row' = Effect(d, i)
    BY DEF DaemonCrash
<1>2. d \in Workers
    BY DEF Workers
<1>3. row' \in Rows
    BY <1>1, <1>2, EffectType DEF IInv, TypeOK
<1> QED
    BY <1>1, <1>3, SweepEnds

LEMMA RecordMoves ==
    ASSUME IInv, NEW d \in Daemons, NEW i, Record(d, i)
    PROVE  /\ IInv' /\ OthersKept(d) /\ seen' = seen /\ at[d] = "undone" /\ at'[d] = "working"
           /\ Top(d, i) /\ i \in todo[d] /\ todo'[d] = todo[d] \ {i}
           /\ doneSet' = doneSet \union {i} /\ pc = "dead" /\ UNCHANGED <<table, saga>>
<1>1. /\ todo' = [todo EXCEPT ![d] = @ \ {i}] /\ at' = [at EXCEPT ![d] = "working"]
      /\ doneSet' = doneSet \union {i} /\ UNCHANGED <<table, saga, seen>>
      /\ at[d] = "undone" /\ Top(d, i) /\ i \in todo[d]
    BY DEF Record, Top
<1>2. d \in Workers /\ d # "saga" /\ pc = "dead"
    BY <1>1, AtWork, RowAssumption DEF Workers
<1>3. OthersKept(d) /\ todo'[d] = todo[d] \ {i} /\ at'[d] = "working"
    BY <1>1, <1>2 DEF IInv, TypeOK, OthersKept
<1>4. IInv'
    BY <1>1, <1>2, <1>3, DaemonFrame
<1> QED
    BY <1>1, <1>2, <1>3, <1>4

LEMMA InitIInv == Init => IInv
<1> SUFFICES ASSUME Init PROVE IInv
    OBVIOUS
<1>1. TypeOK
  <2>1. row \in Rows /\ before \in Rows /\ captured \in Rows /\ theirs \in Nat
        /\ pc \in Forward \union {"rollback", "aborted", "dead"}
    BY RowTypes DEF Init, Forward
  <2>2. stack \in Seq(Calls)
    BY DEF Init
  <2>3. at \in [Workers -> {"idle", "working", "checked", "undone"}]
    BY DEF Init
  <2>4. todo \in [Workers -> SUBSET (1..Last)]
    BY DEF Init
  <2> QED
    BY <2>1, <2>2, <2>3, <2>4 DEF TypeOK
<1>2. Phases
    BY DEF Init, Phases, Last, Workers
<1> QED
    BY <1>1, <1>2 DEF IInv

LEMMA IInvStep == IInv /\ [Next]_vars => IInv'
<1> SUFFICES ASSUME IInv, [Next]_vars PROVE IInv'
    OBVIOUS
<1>1. CASE UNCHANGED vars
    BY <1>1 DEF vars, table, saga, workers, IInv, TypeOK, Phases, Last, Top
<1>2. ASSUME NEW op \in Ops, Execute(op) PROVE IInv'
    BY <1>2, ExecuteKeeps
<1>3. CASE Select \/ Mutate \/ Lost \/ Commit \/ Unknown \/ OtherWrite
    BY <1>3, SelectKeeps, MutateKeeps, LostKeeps, CommitKeeps, UnknownKeeps, OtherWriteKeeps
<1>4. CASE Abort \/ Aborted \/ Crash
    BY <1>4, AbortKeeps, AbortedKeeps, CrashMoves
<1>5. ASSUME NEW i \in Steps, Orphan(i) \/ Compensate("saga", i) PROVE IInv'
    BY <1>5, OrphanMoves, CompensateKeeps DEF Workers
<1>6. ASSUME NEW d \in Daemons, Sweep(d) \/ Recovered(d) \/ DaemonCrash(d) PROVE IInv'
    BY <1>6, SweepMoves, RecoveredKeeps, DaemonCrashMoves
<1>7. ASSUME NEW d \in Daemons, NEW i \in Steps,
             Skip(d, i) \/ Escalate(d, i) \/ Record(d, i) \/ Compensate(d, i)
      PROVE  IInv'
    BY <1>7, SkipMoves, EscalateKeeps, RecordMoves, CompensateKeeps DEF Workers
<1> QED
    BY <1>1, <1>2, <1>3, <1>4, <1>5, <1>6, <1>7 DEF Next

\* Nobody compensates before the rollback, only the saga does in it, and only daemons
\* after the death of its process; a handler between its check and its INSERT is that
\* of a deleted row (context.py, recovery.py, reinsert_row()).
THEOREM Invariant == Spec => []IInv
<1> QED
    BY InitIInv, IInvStep, PTL DEF Spec

-----------------------------------------------------------------------------
(* What another session wrote                                               *)

LEMMA EffectSpares ==
    ASSUME TypeOK, NEW w \in Workers, NEW n \in Nat, row = Theirs(n), PutsBack(w),
           NEW i, Top(w, i)
    PROVE  Effect(w, i) = row
<1>1. PICK j \in todo[w] : Top(w, j) /\ stack[j].comp.fn \in {"restore", "reinsert"}
    BY DEF PutsBack
<1>2. i = j
    BY <1>1, TopUnique
<1>3. row # Ours(i) /\ row # Absent
    BY RowTypes
<1> QED
    BY <1>1, <1>2, <1>3 DEF Effect, HoldsOurs, Free

LEMMA CompensateSpares ==
    ASSUME IInv, NEW w \in Workers, NEW n \in Nat, row = Theirs(n), PutsBack(w),
           NEW i, Compensate(w, i)
    PROVE  row' = row
<1>1. PICK j \in todo[w] : Top(w, j) /\ stack[j].comp.fn \in {"restore", "reinsert"}
    BY DEF PutsBack
<1>2. Top(w, i) /\ i = j
    BY <1>1, TopUnique, Compensations DEF IInv
<1>3. row # Ours(i) /\ row # Absent /\ Effect(w, i) = row
    BY <1>2, RowTypes, EffectSpares DEF IInv
<1> QED
    BY <1>1, <1>2, <1>3 DEF Compensate, RestoreRow, DeleteInsertedRow, CheckFree, ReinsertRow,
           HandlerLost, Fn, HoldsOurs, Free

\* The inverse of an UPDATE or of a DELETE never replaces what another session wrote,
\* whoever compensates, for any number of daemons, calls and failures: the guard of
\* the UPDATE and the INSERT that fails on a taken key (restore_row, reinsert_row).
THEOREM TheirWritesAreKept == Spec => TheirsKept
<1>1. ASSUME IInv, [Next]_vars, NEW w \in Workers, NEW n \in 1..MaxTheirs,
             row = Theirs(n), PutsBack(w), at'[w] # at[w] \/ todo'[w] # todo[w]
      PROVE  row' = row
    <2>0. n \in Nat /\ "saga" \in Workers /\ \A d \in Daemons : d \in Workers /\ d # "saga"
        BY RowAssumption DEF Workers
    <2>1. at[w] # "idle"
        BY <1>1 DEF PutsBack
    \* A step that is not of w leaves its bookkeeping alone.
    <2>2. ASSUME NEW v \in Workers, OthersKept(v) PROVE v = w
        BY <1>1, <2>2 DEF OthersKept
    <2>3. ASSUME NEW v \in Workers, NEW i, Compensate(v, i) PROVE row' = row
        <3>1. v = w
            <4>1. /\ i \in todo[v] /\ \/ Done(v, i) \/ Checked(v, i) \/ Raise(v, i)
                BY <1>1, <2>3, Compensations DEF IInv
            <4>2. CASE Done(v, i)
                BY <1>1, <2>2, <4>1, <4>2, DoneMoves DEF IInv
            <4>3. CASE Raise(v, i)
                BY <1>1, <2>2, <4>1, <4>3, RaiseMoves DEF IInv
            <4>4. CASE Checked(v, i)
                BY <1>1, <4>4 DEF Checked, IInv, TypeOK
            <4> QED
                BY <4>1, <4>2, <4>3, <4>4
        <3> QED
            BY <1>1, <2>0, <2>3, <3>1, CompensateSpares
    <2>4. CASE UNCHANGED workers
        BY <1>1, <2>4 DEF workers
    <2>5. CASE Abort \/ Aborted
        BY <2>5 DEF Abort, Aborted, table
    <2>6. CASE Crash
        <3>1. w = "saga"
            BY <1>1, <2>0, <2>6, CrashMoves, SweepOverMoves, <2>2 DEF Crash, IInv
        <3>2. pc = "rollback"
            BY <1>1, <2>1, <3>1, AtWork
        <3>3. \/ row' = row
              \/ \E i \in todo["saga"] : Top("saga", i) /\ row' = Effect("saga", i)
            BY <1>1, <2>6, <3>2, CrashMoves
        <3> QED
            BY <1>1, <2>0, <3>1, <3>3, EffectSpares DEF IInv
    <2>7. ASSUME NEW i \in Steps, Orphan(i) PROVE row' = row
        BY <2>7 DEF Orphan
    <2>8. ASSUME NEW d \in Daemons, Sweep(d) \/ Recovered(d) PROVE row' = row
        BY <2>8 DEF Sweep, Recovered, table
    <2>9. ASSUME NEW d \in Daemons, DaemonCrash(d) PROVE row' = row
        <3>1. /\ OthersKept(d)
              /\ \/ row' = row
                 \/ \E i \in todo[d] : Top(d, i) /\ row' = Effect(d, i)
            BY <1>1, <2>9, DaemonCrashMoves
        <3>2. d = w
            BY <2>0, <2>2, <3>1
        <3> QED
            BY <1>1, <2>0, <3>1, <3>2, EffectSpares DEF IInv
    <2>10. ASSUME NEW d \in Daemons, NEW i \in Steps, Skip(d, i) \/ Escalate(d, i) \/ Record(d, i)
           PROVE  row' = row
        BY <2>10 DEF Skip, Escalate, Record, table
    <2>11. ASSUME NEW op \in Ops, Execute(op) PROVE row' = row
        BY <2>11 DEF Execute, table
    <2>12. Select \/ Mutate \/ Lost \/ Commit \/ Unknown \/ OtherWrite => UNCHANGED workers
        BY DEF Select, Mutate, Lost, Commit, Unknown, Outcome, OtherWrite
    <2>13. UNCHANGED vars => UNCHANGED workers
        BY DEF vars
    <2> QED
        BY <1>1, <2>0, <2>3, <2>4, <2>5, <2>6, <2>7, <2>8, <2>9, <2>10, <2>11, <2>12, <2>13 DEF Next
<1>2. IInv /\ [Next]_vars =>
          [\A w \in Workers, n \in 1..MaxTheirs :
              row = Theirs(n) /\ PutsBack(w) /\ (at'[w] # at[w] \/ todo'[w] # todo[w])
                  => row' = row]_vars
    BY <1>1
<1> QED
    BY <1>2, Invariant, PTL DEF Spec, TheirsKept

-----------------------------------------------------------------------------
(* A sweep and the ledger it reads                                          *)

\* The claim keeps out nobody on another host: what follows is of one daemon.
OneDaemon == \A d, e \in Daemons : d = e

\* A compensator that a daemon runs says nothing in the log of the saga.
LEMMA DaemonCompensates ==
    ASSUME IInv, NEW d \in Daemons, NEW i, Compensate(d, i)
    PROVE  /\ IInv' /\ OthersKept(d) /\ pc = "dead" /\ Handled /\ stack' = stack /\ Last' = Last
           /\ Top(d, i) /\ i \in todo[d] /\ i \in 1..Last /\ at[d] # "idle"
           /\ stack[i].comp.fn # "none" \/ UNCHANGED row
           /\ \/ todo' = todo /\ seen' = seen /\ at'[d] = "undone" /\ PutBack(i)
              \/ todo' = todo /\ seen' = seen /\ at'[d] = "checked" /\ row' = row
              \/ SweepOver(d) /\ at'[d] = "idle" /\ todo'[d] = {}
<1>0. d \in Workers /\ d # "saga"
    BY RowAssumption DEF Workers
<1>1. /\ Top(d, i) /\ i \in todo[d] /\ i \in 1..Last /\ at[d] \in {"working", "checked"}
      /\ stack[i].comp.fn # "none" \/ UNCHANGED row
      /\ Handled
      /\ \/ Done(d, i) /\ PutBack(i)
         \/ Checked(d, i)
         \/ Raise(d, i)
    BY <1>0, Compensations DEF IInv
<1>2. IInv' /\ pc = "dead"
    BY <1>0, <1>1, AtWork, CompensateKeeps
<1>3. CASE Done(d, i) /\ PutBack(i)
    <2>1. OthersKept(d) /\ todo' = todo /\ stack' = stack /\ at'[d] = "undone" /\ seen' = seen
        BY <1>0, <1>1, <1>3, DoneMoves DEF IInv
    <2> QED
        BY <1>1, <1>2, <1>3, <2>1 DEF Last
<1>4. CASE Checked(d, i)
    <2>1. /\ at' = [at EXCEPT ![d] = "checked"] /\ UNCHANGED <<row, stack, todo, seen>>
        BY <1>4 DEF Checked
    <2>2. OthersKept(d) /\ at'[d] = "checked"
        BY <1>0, <2>1 DEF IInv, TypeOK, OthersKept
    <2> QED
        BY <1>1, <1>2, <2>1, <2>2 DEF Last
<1>5. CASE Raise(d, i)
    <2>1. SweepOver(d) /\ stack' = stack
        BY <1>0, <1>5 DEF Raise
    <2>2. OthersKept(d) /\ at'[d] = "idle" /\ todo'[d] = {}
        BY <1>0, <2>1, SweepOverMoves DEF IInv
    <2> QED
        BY <1>1, <1>2, <2>1, <2>2 DEF Last
<1> QED
    BY <1>1, <1>3, <1>4, <1>5

\* Once the process is dead, only daemons and other sessions do anything.
LEMMA DeadSteps ==
    ASSUME IInv, [Next]_vars, pc = "dead"
    PROVE  \/ UNCHANGED vars \/ OtherWrite
           \/ \E d \in Daemons :
                 \/ Sweep(d) \/ Recovered(d) \/ DaemonCrash(d)
                 \/ \E i \in Steps :
                       \/ Skip(d, i) \/ Escalate(d, i) \/ Record(d, i)
                       \/ i \notin seen[d] /\ Compensate(d, i)
<1>1. "saga" \in Workers
    BY DEF Workers
<1>2. ASSUME NEW i, Orphan(i) PROVE FALSE
    BY <1>2, OrphanMoves
<1>3. ASSUME NEW i, Compensate("saga", i) PROVE FALSE
    <2>1. at["saga"] \in {"working", "checked"}
        BY <1>1, <1>3, Compensations DEF IInv
    <2> QED
        BY <1>1, <2>1, AtWork
<1>4. /\ \A op \in Ops : ~Execute(op)
      /\ ~Select /\ ~Mutate /\ ~Lost /\ ~Commit /\ ~Unknown /\ ~Abort /\ ~Aborted /\ ~Crash
    BY DEF Execute, Select, Mutate, Lost, Commit, Unknown, Abort, Aborted, Crash
<1> QED
    BY <1>2, <1>3, <1>4 DEF Next

\* Until then no daemon does anything, and the ledger stays empty.
LEMMA LiveSteps ==
    ASSUME IInv, [Next]_vars, pc # "dead"
    PROVE  /\ \/ UNCHANGED vars \/ OtherWrite \/ \E op \in Ops : Execute(op)
              \/ Select \/ Mutate \/ Lost \/ Commit \/ Unknown
              \/ Abort \/ Aborted \/ Crash
              \/ \E i \in Steps : Orphan(i) \/ Compensate("saga", i)
           /\ doneSet' = doneSet /\ doneSet = {} /\ \A d \in Daemons : at'[d] = "idle"
           /\ seen \in [Workers -> SUBSET doneSet] => seen' \in [Workers -> SUBSET doneSet]
<1>0. \A d \in Daemons : d \in Workers /\ d # "saga"
    BY RowAssumption DEF Workers
<1>1. ASSUME NEW d \in Daemons, NEW i, Compensate(d, i) PROVE FALSE
    BY <1>1, DaemonCompensates
<1>2. ASSUME NEW d \in Daemons PROVE ~DaemonCrash(d) /\ ~Recovered(d) /\ ~Sweep(d)
    BY <1>0, AtWork DEF DaemonCrash, Recovered, Sweep
<1>3. ASSUME NEW d \in Daemons, NEW i PROVE ~Skip(d, i) /\ ~Escalate(d, i) /\ ~Record(d, i)
    BY <1>0, AtWork DEF Skip, Escalate, Record, Working, Fn
<1>4. \/ UNCHANGED vars \/ OtherWrite \/ \E op \in Ops : Execute(op)
      \/ Select \/ Mutate \/ Lost \/ Commit \/ Unknown
      \/ Abort \/ Aborted \/ Crash
      \/ \E i \in Steps : Orphan(i) \/ Compensate("saga", i)
    BY <1>1, <1>2, <1>3 DEF Next
<1>5. doneSet = {} /\ \A d \in Daemons : at[d] = "idle"
    BY DEF IInv, Phases
<1>6. doneSet' = doneSet /\ (seen' = seen \/ seen' = [seen EXCEPT !["saga"] = {}])
    <2>1. ASSUME NEW i, Compensate("saga", i)
          PROVE  doneSet' = doneSet /\ (seen' = seen \/ seen' = [seen EXCEPT !["saga"] = {}])
        <3>1. /\ i \in todo["saga"] /\ Handled
              /\ Done("saga", i) \/ Checked("saga", i) \/ Raise("saga", i)
            BY <2>1, Compensations DEF IInv, Workers
        <3> QED
            BY <3>1 DEF Handled, Done, Checked, Raise
    <2>2. ASSUME NEW i, Orphan(i) PROVE doneSet' = doneSet /\ seen' = seen
        BY <2>2 DEF Orphan, Handled
    <2>3. CASE Crash
        BY <2>3 DEF Crash, SweepOver
    <2>4. CASE Abort \/ Aborted
        BY <2>4 DEF Abort, Aborted
    <2>5. CASE \/ UNCHANGED vars \/ OtherWrite \/ \E op \in Ops : Execute(op)
               \/ Select \/ Mutate \/ Lost \/ Commit \/ Unknown
        BY <2>5 DEF vars, workers, OtherWrite, Execute, Select, Mutate, Lost, Commit, Unknown, Outcome
    <2> QED
        BY <1>4, <2>1, <2>2, <2>3, <2>4, <2>5
<1>7. \A d \in Daemons : at'[d] = "idle"
    <2>1. CASE Crash
        BY <1>0, <2>1, CrashMoves
    <2>2. CASE ~Crash
        <3>1. pc' # "dead"
            <4>1. ASSUME NEW i, Compensate("saga", i) PROVE pc' = pc
                BY <4>1, Compensations DEF IInv, Workers, Handled
            <4>2. \A i : Orphan(i) => pc' = pc
                BY DEF Orphan, Handled
            <4>3. /\ UNCHANGED vars \/ OtherWrite => pc' = pc
                  /\ \A op \in Ops : Execute(op) => pc' # "dead"
                  /\ Select \/ Mutate \/ Lost \/ Commit \/ Unknown \/ Abort \/ Aborted => pc' # "dead"
                BY DEF vars, saga, OtherWrite, Execute, Select, Mutate, Lost, Commit, Unknown, Outcome,
                       Abort, Aborted
            <4> QED
                BY <1>4, <2>2, <4>1, <4>2, <4>3
        <3> QED
            BY <3>1, IInvStep DEF IInv, Phases
    <2> QED
        BY <2>1, <2>2
<1> QED
    BY <1>4, <1>5, <1>6, <1>7

LEMMA SweepsStep ==
    ASSUME IInv, Sweeps, OneDaemon, [Next]_vars
    PROVE  Sweeps'
<1>0. IInv' /\ \A d \in Daemons : d \in Workers /\ d # "saga"
    BY IInvStep, RowAssumption DEF Workers
<1>1. seen \in [Workers -> SUBSET doneSet]
    BY DEF Sweeps
<1>2. CASE pc # "dead"
    <2>1. seen' \in [Workers -> SUBSET doneSet'] /\ \A d \in Daemons : at'[d] = "idle"
        BY <1>1, <1>2, LiveSteps
    <2>2. \A d \in Daemons : todo'[d] = {}
        BY <1>0, <2>1 DEF IInv, Phases
    <2> QED
        BY <2>1, <2>2 DEF Sweeps
<1>3. CASE UNCHANGED vars \/ OtherWrite
    <2>1. UNCHANGED <<saga, workers, doneSet>>
        BY <1>3 DEF vars, OtherWrite
    <2> QED
        BY <2>1 DEF Sweeps, saga, workers, Last
<1>4. ASSUME NEW d \in Daemons, NEW i, seen' \in [Workers -> SUBSET doneSet'],
             logUndone' = logUndone, Last' = Last,
             todo'[d] \intersect logUndone = {},
             todo'[d] \intersect doneSet' \subseteq seen'[d],
             at'[d] # "idle" => 1..Last \subseteq todo'[d] \union doneSet' \union logUndone
      PROVE  Sweeps'
    BY <1>4 DEF Sweeps, OneDaemon
<1>5. ASSUME NEW d \in Daemons, at'[d] = "idle", todo'[d] = {}, SweepOver(d),
             doneSet' = doneSet, logUndone' = logUndone, Last' = Last
      PROVE  Sweeps'
    <2>1. seen' \in [Workers -> SUBSET doneSet']
        BY <1>0, <1>1, <1>5 DEF SweepOver
    <2> QED
        BY <1>4, <1>5, <2>1
<1>6. ASSUME NEW d \in Daemons, Sweep(d) PROVE Sweeps'
    <2>1. /\ todo'[d] = 1..Last \ logUndone /\ seen' = [seen EXCEPT ![d] = doneSet]
          /\ doneSet' = doneSet /\ logUndone' = logUndone /\ Last' = Last
        BY <1>6, SweepMoves DEF saga, Last
    <2>2. seen'[d] = doneSet /\ seen' \in [Workers -> SUBSET doneSet']
        BY <1>0, <1>1, <2>1
    <2> QED
        BY <1>4, <2>1, <2>2
<1>7. ASSUME NEW d \in Daemons, Recovered(d) \/ DaemonCrash(d) PROVE Sweeps'
    <2>1. at'[d] = "idle" /\ todo'[d] = {}
        BY <1>7, RecoveredKeeps, DaemonCrashMoves
    <2>2. SweepOver(d) /\ doneSet' = doneSet /\ logUndone' = logUndone /\ Last' = Last
        BY <1>7 DEF Recovered, DaemonCrash, saga, Last
    <2> QED
        BY <1>5, <2>1, <2>2
<1>8. ASSUME NEW d \in Daemons, NEW i, Skip(d, i) PROVE Sweeps'
    <2>1. /\ seen' = seen /\ i \in seen[d] /\ todo'[d] = todo[d] \ {i} /\ at' = at
          /\ doneSet' = doneSet /\ logUndone' = logUndone /\ Last' = Last
        BY <1>8, SkipMoves DEF Handled, Last
    <2>2. i \in doneSet
        BY <1>0, <1>1, <2>1
    <2> QED
        BY <1>1, <1>4, <2>1, <2>2 DEF Sweeps
<1>9. ASSUME NEW d \in Daemons, NEW i, Escalate(d, i) PROVE Sweeps'
    <2>1. at'[d] = "idle" /\ todo'[d] = {}
        BY <1>9, EscalateKeeps
    <2>2. SweepOver(d) /\ doneSet' = doneSet /\ logUndone' = logUndone /\ Last' = Last
        BY <1>9 DEF Escalate, Handled, Last
    <2> QED
        BY <1>5, <2>1, <2>2
<1>10. ASSUME NEW d \in Daemons, NEW i, Record(d, i) PROVE Sweeps'
    <2>1. /\ seen' = seen /\ todo'[d] = todo[d] \ {i} /\ at[d] = "undone" /\ at'[d] = "working"
          /\ doneSet' = doneSet \union {i} /\ logUndone' = logUndone /\ Last' = Last
        BY <1>10, RecordMoves DEF saga, Last
    <2>2. seen' \in [Workers -> SUBSET doneSet']
        BY <1>1, <2>1
    <2> QED
        BY <1>4, <2>1, <2>2 DEF Sweeps
<1>11. ASSUME NEW d \in Daemons, NEW i, Compensate(d, i) PROVE Sweeps'
    <2>1. /\ doneSet' = doneSet /\ logUndone' = logUndone /\ Last' = Last /\ at[d] # "idle"
          /\ \/ todo' = todo /\ seen' = seen
             \/ SweepOver(d) /\ at'[d] = "idle" /\ todo'[d] = {}
        BY <1>11, DaemonCompensates DEF Handled
    <2>2. CASE todo' = todo /\ seen' = seen
        BY <1>1, <1>4, <2>1, <2>2 DEF Sweeps
    <2> QED
        BY <1>5, <2>1, <2>2
<1> QED
    BY <1>2, <1>3, <1>6, <1>7, <1>8, <1>9, <1>10, <1>11, DeadSteps

LEMMA InitSweeps == Init => Sweeps
BY RowAssumption DEF Init, Sweeps, Last, Workers

\* Nothing a daemon does changes the row when every step is undone, in the log or in
\* the ledger.
LEMMA NothingLeftToDo ==
    ASSUME IInv, Sweeps, NEW d \in Daemons, NEW i \in todo[d],
           1..Last \subseteq logUndone \union doneSet
    PROVE  i \in seen[d]
<1>1. i \in 1..Last
    BY DEF IInv, TypeOK, Workers
<1> QED
    BY <1>1 DEF Sweeps

\* Once every step is recorded as undone, in the log or in the ledger, the row stays as
\* it is until another session writes it, however often the recovery dies and begins
\* again: one daemon, any number of calls, failures and sweeps (recovery.py,
\* should_skip(); ledger.py, record()).
THEOREM UndoneStaysUndone == OneDaemon => (Spec => StaysUndone)
<1> SUFFICES ASSUME OneDaemon PROVE Spec => StaysUndone
    OBVIOUS
<1>1. Init => IInv /\ Sweeps
    BY InitIInv, InitSweeps
<1>2. IInv /\ Sweeps /\ [Next]_vars => IInv' /\ Sweeps'
    BY IInvStep, SweepsStep
<1>3. ASSUME IInv, Sweeps, [Next]_vars, pc = "dead", 1..Last \subseteq logUndone \union doneSet
      PROVE  row' = row \/ theirs' # theirs
    <2>1. CASE OtherWrite
        BY <1>3, <2>1 DEF OtherWrite, IInv, TypeOK
    <2>2. ASSUME NEW d \in Daemons, NEW i, i \notin seen[d], Compensate(d, i) PROVE FALSE
        BY <1>3, <2>2, DaemonCompensates, NothingLeftToDo
    <2>3. ASSUME NEW d \in Daemons, DaemonCrash(d) PROVE row' = row
        BY <1>3, <2>3, DaemonCrashMoves, NothingLeftToDo
    <2>4. ASSUME NEW d \in Daemons, Sweep(d) \/ Recovered(d) PROVE row' = row
        BY <2>4 DEF Sweep, Recovered, table
    <2>5. ASSUME NEW d \in Daemons, NEW i, Skip(d, i) \/ Escalate(d, i) \/ Record(d, i)
          PROVE  row' = row
        BY <2>5 DEF Skip, Escalate, Record, table
    <2>6. UNCHANGED vars => row' = row
        BY DEF vars, table
    <2> QED
        BY <1>3, <2>1, <2>2, <2>3, <2>4, <2>5, <2>6, DeadSteps
<1>4. IInv /\ Sweeps /\ [Next]_vars =>
          [pc = "dead" /\ 1..Last \subseteq logUndone \union doneSet
              => row' = row \/ theirs' # theirs]_vars
    BY <1>3
<1> QED
    BY <1>1, <1>2, <1>4, PTL DEF Spec, StaysUndone

-----------------------------------------------------------------------------
(* What the first call found                                                *)

LEMMA LastNat == IInv => Last \in Nat
BY DEF IInv, TypeOK, Last

\* No step but a call of the agent's changes what undoes the first call.
LEMMA FirstKept ==
    ASSUME IInv, FirstCall, Last > 0, before' = before, Last' = Last, pc' \in {"rollback", "aborted", "dead"},
           stack'[1].comp = stack[1].comp
    PROVE  FirstCall'
BY DEF FirstCall, UndoesTo

LEMMA ExecuteFirst ==
    ASSUME IInv, FirstCall, FreshKeys = TRUE, NEW op \in Ops, Execute(op)
    PROVE  FirstCall'
<1> DEFINE c == [op |-> op, st |-> "INTENT", comp |-> NoComp]
<1>0. c \in Calls /\ c.op = op /\ c.comp.fn = "none"
    BY RowAssumption, RowTypes DEF Calls, NoComp, Fns
<1>1. /\ stack' = Append(stack, c) /\ captured' = Absent /\ pc = "body"
      /\ pc' = (IF op = "insert" THEN "mutating" ELSE "selecting") /\ UNCHANGED table
      /\ op = "insert" => row = Absent
    BY DEF Execute
<1> HIDE DEF c
<1>2. Last' = Last + 1 /\ Last \in Nat /\ stack'[Last'] = c /\ \A i \in 1..Last : stack'[i] = stack[i]
    BY <1>0, <1>1, CallAppended DEF IInv, TypeOK, Last
<1>3. CASE Last = 0
    <2>1. row = before /\ row' = row /\ before' = before
        BY <1>1, <1>3 DEF FirstCall, table
    <2>2. Last' = 1 /\ stack'[1] = c
        BY <1>2, <1>3
    <2> QED
        BY <1>0, <1>1, <2>1, <2>2 DEF FirstCall, UndoesTo
<1>4. CASE Last # 0
    <2>1. Last' > 1 /\ stack'[1] = stack[1] /\ before' = before /\ Last > 0
        BY <1>1, <1>2, <1>4 DEF table
    <2>2. UndoesTo(stack[1].comp)
        BY <2>1 DEF FirstCall
    <2> QED
        BY <2>1, <2>2 DEF FirstCall, UndoesTo
<1> QED
    BY <1>3, <1>4

LEMMA SelectFirst == ASSUME IInv, FirstCall, Select PROVE FirstCall'
<1>1. /\ pc = "selecting" /\ captured' = row /\ pc' = (IF row = Absent THEN "raised" ELSE "mutating")
      /\ UNCHANGED <<row, before, stack>> /\ Last' = Last /\ Last > 0 /\ Last \in Nat
    BY DEF Select, table, Last, IInv, Phases, TypeOK
<1> QED
    BY <1>1 DEF FirstCall, UndoesTo

LEMMA MutateFirst == ASSUME IInv, FirstCall, Mutate PROVE FirstCall'
<1>1. /\ pc = "mutating" /\ pc' \in {"raised", "returned"}
      /\ UNCHANGED <<before, stack, captured>> /\ Last' = Last /\ Last > 0 /\ Last \in Nat
    BY DEF Mutate, Last, IInv, Phases, TypeOK
<1> QED
    BY <1>1 DEF FirstCall, UndoesTo

LEMMA LostFirst == ASSUME IInv, FirstCall, Lost PROVE FirstCall'
<1>1. /\ pc \in {"selecting", "mutating"} /\ pc' = "raised"
      /\ UNCHANGED <<before, stack, captured>> /\ Last' = Last /\ Last > 0 /\ Last \in Nat
    BY DEF Lost, Last, IInv, Phases, TypeOK
<1> QED
    BY <1>1 DEF FirstCall, UndoesTo

\* Whatever the outcome records undoes to what the call has read.
LEMMA OutcomeFirst ==
    ASSUME IInv, FirstCall, Commit \/ Unknown
    PROVE  FirstCall'
<1>1. PICK st \in {"COMMITTED", "UNKNOWN"}, comp \in [fn : Fns, row : Rows] :
          /\ Outcome(st, comp) /\ pc \in {"returned", "raised"}
          /\ \/ pc = "returned" /\ comp = Inverse(stack[Last].op, captured)
             \/ pc = "raised" /\ comp = InverseUnknown(stack[Last].op)
    <2>1. Last > 0
        BY DEF IInv, Phases, Commit, Unknown
    <2> QED
        BY <2>1, InverseTypes DEF IInv, Commit, Unknown
<1>2. /\ Last' = Last /\ Last \in 1..Last
      /\ \A i \in 1..Last : stack'[i] =
             IF i = Last THEN [op |-> stack[i].op, st |-> st, comp |-> comp] ELSE stack[i]
    BY <1>1, OutcomeMoves
<1>3. pc' = "body" /\ before' = before
    BY <1>1 DEF Outcome, table
<1>4. UndoesTo(stack'[1].comp)
    <2>1. CASE Last = 1
        <3>1. stack'[1].comp = comp
            BY <1>2, <2>1
        <3>2. stack[1].op \in {"update", "insert", "delete"}
            BY <1>2, StackType, <2>1 DEF IInv, Calls
        <3>3. IF stack[1].op = "insert" THEN before = Absent
              ELSE captured = before \/ (captured = Absent /\ pc = "raised")
            BY <1>1, <2>1 DEF FirstCall
        <3>4. CASE pc = "returned"
            BY <1>1, <2>1, <3>1, <3>2, <3>3, <3>4 DEF Inverse, Comp, UndoesTo
        <3>5. CASE pc = "raised"
            BY <1>1, <2>1, <3>1, <3>2, <3>3, <3>5 DEF InverseUnknown, Inverse, Comp, NoComp, UndoesTo
        <3> QED
            BY <1>1, <3>4, <3>5
    <2>2. CASE Last # 1
        <3>1. 1 \in 1..Last /\ Last > 0
            BY <1>2, LastNat
        <3>2. stack'[1] = stack[1]
            BY <1>2, <2>2, <3>1
        <3> QED
            BY <3>1, <3>2 DEF FirstCall
    <2> QED
        BY <2>1, <2>2
<1>5. Last' > 0 /\ Last \in Nat
    BY <1>2
<1> QED
    BY <1>2, <1>3, <1>4, <1>5 DEF FirstCall, UndoesTo

LEMMA FirstCallStep ==
    ASSUME IInv, theirs = 0 => FirstCall, FreshKeys = TRUE, [Next]_vars, theirs' = 0
    PROVE  FirstCall'
<1>0. theirs = 0 /\ ~OtherWrite
    <2>1. CASE pc = "dead"
        <3>1. \A d \in Daemons : Sweep(d) \/ Recovered(d) \/ DaemonCrash(d) => theirs' = theirs
            BY DEF Sweep, Recovered, DaemonCrash, table
        <3>2. \A d \in Daemons, i \in Steps : Skip(d, i) \/ Escalate(d, i) \/ Record(d, i) => theirs' = theirs
            BY DEF Skip, Escalate, Record, Handled, table
        <3>3. ASSUME NEW d \in Daemons, NEW i, Compensate(d, i) PROVE theirs' = theirs
            BY <3>3, DaemonCompensates DEF Handled
        <3>4. UNCHANGED vars => theirs' = theirs
            BY DEF vars, table
        <3>5. OtherWrite => theirs' # 0
            BY DEF OtherWrite, IInv, TypeOK
        <3> QED
            BY <2>1, <3>1, <3>2, <3>3, <3>4, <3>5, DeadSteps
    <2>2. CASE pc # "dead"
        <3>1. ASSUME NEW i, Compensate("saga", i) PROVE theirs' = theirs
            BY <3>1, Compensations DEF IInv, Workers, Handled
        <3>2. \A i : Orphan(i) => theirs' = theirs
            BY DEF Orphan, Handled
        <3>3. OtherWrite => theirs' # 0
            BY DEF OtherWrite, IInv, TypeOK
        <3>4. /\ UNCHANGED vars \/ Select \/ Mutate \/ Lost \/ Commit \/ Unknown \/ Abort \/ Aborted \/ Crash
                     => theirs' = theirs
              /\ \A op \in Ops : Execute(op) => theirs' = theirs
            BY DEF vars, Execute, Select, Mutate, Lost, Commit, Unknown, Outcome, Abort, Aborted, Crash, table
        <3> QED
            BY <2>2, <3>1, <3>2, <3>3, <3>4, LiveSteps
    <2> QED
        BY <2>1, <2>2
<1>1. FirstCall
    BY <1>0
<1>2. CASE UNCHANGED vars
    BY <1>1, <1>2 DEF FirstCall, UndoesTo, vars, table, saga, Last
<1>3. CASE pc = "dead"
    <2>1. Last > 0
        BY <1>3 DEF IInv, Phases
    <2>2. \A d \in Daemons : Sweep(d) \/ Recovered(d) \/ DaemonCrash(d) => UNCHANGED <<before, pc, stack>>
        BY DEF Sweep, Recovered, DaemonCrash, table, saga
    <2>3. \A d \in Daemons, i \in Steps : Skip(d, i) \/ Escalate(d, i) \/ Record(d, i) => UNCHANGED <<before, pc, stack>>
        BY DEF Skip, Escalate, Record, Handled, table, saga
    <2>4. ASSUME NEW d \in Daemons, NEW i, Compensate(d, i) PROVE UNCHANGED <<before, pc, stack>>
        BY <2>4, DaemonCompensates DEF Handled
    <2>5. UNCHANGED vars \/ UNCHANGED <<before, pc, stack>>
        BY <1>0, <1>3, <2>2, <2>3, <2>4, DeadSteps
    <2> QED
        BY <1>1, <1>2, <1>3, <2>1, <2>5, FirstKept DEF Last
<1>4. ASSUME NEW i, Orphan(i) \/ Compensate("saga", i) PROVE FirstCall'
    <2>0. "saga" \in Workers
        BY DEF Workers
    <2>1. CASE Orphan(i)
        <3>1. CallsKept /\ pc = "rollback" /\ i \in 1..Last
            BY <2>1, OrphanMoves
        <3>2. pc' = pc /\ before' = before /\ Last > 0 /\ Last' = Last
            BY <2>1, <3>1 DEF Orphan, Handled, CallsKept, Last
        <3>3. 1 \in 1..Last
            BY <3>1, LastNat
        <3> QED
            BY <1>1, <3>1, <3>2, <3>3, FirstKept DEF CallsKept
    <2>2. CASE Compensate("saga", i)
        <3>1. /\ i \in 1..Last /\ i \in todo["saga"] /\ Handled /\ pc = "rollback"
              /\ Done("saga", i) \/ Checked("saga", i) \/ Raise("saga", i)
            BY <2>0, <2>2, Compensations, AtWork DEF IInv
        <3>2. CallsKept
            <4>1. CASE Checked("saga", i)
                BY <4>1 DEF Checked, CallsKept, IInv, TypeOK, Last
            <4> QED
                BY <2>0, <3>1, <4>1, DoneMoves, RaiseMoves DEF IInv
        <3>3. pc' = pc /\ before' = before /\ Last > 0 /\ Last' = Last /\ 1 \in 1..Last
            BY <3>1, <3>2 DEF Handled, CallsKept, Last
        <3> QED
            BY <1>1, <3>1, <3>2, <3>3, FirstKept DEF CallsKept
    <2> QED
        BY <1>4, <2>1, <2>2
<1>5. CASE Abort \/ Aborted \/ Crash
    <2>1. /\ pc' \in {"rollback", "aborted", "dead"} /\ before' = before /\ stack' = stack
          /\ Last > 0 /\ Last' = Last
        BY <1>5 DEF Abort, Aborted, Crash, table, Last, IInv, Phases
    <2> QED
        BY <1>1, <2>1, FirstKept
<1> QED
    BY <1>0, <1>1, <1>2, <1>3, <1>4, <1>5, ExecuteFirst, SelectFirst, MutateFirst, LostFirst,
       OutcomeFirst, LiveSteps

-----------------------------------------------------------------------------
(* The rollback in process                                                  *)

\* A handler that returned for the first call leaves the row as it was before the saga.
LEMMA FirstPutBack ==
    ASSUME IInv, FirstCall, 1 \in 1..Last, PutBack(1)
    PROVE  row' = before
<1>1. UndoesTo(stack[1].comp) /\ stack[1].comp.fn \in Fns
    BY LastNat, StackType DEF FirstCall, IInv, Calls
<1> QED
    BY <1>1 DEF PutBack, UndoesTo, Fns

\* Before the rollback nothing says COMPENSATED.
Pending == \A i \in 1..Last : stack[i].st \in {"INTENT", "COMMITTED", "UNKNOWN"}

LEMMA ForwardBackwards ==
    ASSUME IInv, Backwards, pc \in Forward, pc' \in Forward,
           Select \/ Mutate \/ Lost \/ Commit \/ Unknown \/ \E op \in Ops : Execute(op)
    PROVE  Backwards'
<1>1. Pending
    BY DEF Backwards, Pending
<1>2. Pending'
    <2>1. CASE Select \/ Mutate \/ Lost
        BY <1>1, <2>1 DEF Select, Mutate, Lost, Pending, Last
    <2>2. ASSUME NEW op \in Ops, Execute(op) PROVE Pending'
        <3> DEFINE c == [op |-> op, st |-> "INTENT", comp |-> NoComp]
        <3>1. c \in Calls /\ c.st = "INTENT"
            BY RowAssumption, RowTypes DEF Calls, NoComp, Fns
        <3>2. stack' = Append(stack, c)
            BY <2>2 DEF Execute
        <3> HIDE DEF c
        <3>3. Last' = Last + 1 /\ Last \in Nat /\ stack'[Last'] = c
              /\ \A i \in 1..Last : stack'[i] = stack[i]
            BY <3>1, <3>2, LastNat, CallAppended DEF IInv
        <3>4. \A i \in 1..Last' : i \in 1..Last \/ i = Last'
            BY <3>3
        <3> QED
            BY <1>1, <3>1, <3>3, <3>4 DEF Pending
    <2>3. CASE Commit \/ Unknown
        <3>1. PICK st \in {"COMMITTED", "UNKNOWN"}, comp \in [fn : Fns, row : Rows] :
                  Outcome(st, comp) /\ pc \in {"returned", "raised"}
            <4>1. Last > 0
                BY <2>3 DEF IInv, Phases, Commit, Unknown
            <4> QED
                BY <2>3, <4>1, InverseTypes DEF IInv, Commit, Unknown
        <3>2. /\ Last' = Last
              /\ \A i \in 1..Last : stack'[i] =
                    IF i = Last THEN [op |-> stack[i].op, st |-> st, comp |-> comp] ELSE stack[i]
            BY <3>1, OutcomeMoves
        <3>3. ASSUME NEW i \in 1..Last PROVE stack'[i].st \in {"INTENT", "COMMITTED", "UNKNOWN"}
            <4>1. CASE i = Last
                <5>1. stack'[i] = [op |-> stack[i].op, st |-> st, comp |-> comp]
                    BY <3>2, <4>1
                <5> QED
                    BY <5>1
            <4>2. CASE i # Last
                BY <1>1, <3>2, <4>2 DEF Pending
            <4> QED
                BY <4>1, <4>2
        <3> QED
            BY <3>2, <3>3 DEF Pending
    <2> QED
        BY <2>1, <2>2, <2>3
<1> QED
    BY <1>2 DEF Backwards, Pending, Forward

\* Where the rollback stands.
Halfway ==
    /\ \A i \in todo["saga"] : stack[i].st # "COMPENSATED"
    /\ \A i \in todo["saga"] : \A j \in 1..i : j \in todo["saga"]
    /\ \/ \A i \in 1..Last : i \notin todo["saga"] => Undone(i)
       \/ todo["saga"] = {} /\ stack[1].st \in {"COMPENSATION_FAILED", "UNRESOLVED"}

LEMMA OrphanBackwards ==
    ASSUME IInv, Backwards, NEW i, Orphan(i)
    PROVE  Backwards'
<1>1. /\ Top("saga", i) /\ i \in todo["saga"] /\ i \in 1..Last
      /\ stack[i].comp.fn = "none" /\ CallsKept
      /\ pc = "rollback" /\ todo'["saga"] = todo["saga"] \ {i}
      /\ \A j \in 1..Last : stack'[j].st = IF j = i THEN "ORPHANED" ELSE stack[j].st
    BY OrphanMoves
<1>2. UNCHANGED <<row, before, theirs, pc>> /\ Last' = Last /\ Last \in Nat
    BY <1>1, LastNat DEF Orphan, Handled, CallsKept, Last
<1>3. todo["saga"] \subseteq 1..Last /\ \A j \in todo["saga"] : j <= i
    BY <1>1 DEF IInv, TypeOK, Workers, Top
<1>4. Halfway
    BY <1>1 DEF Backwards, Halfway
<1>5. Halfway'
    <2>1. \A j \in todo'["saga"] : stack'[j].st # "COMPENSATED"
        BY <1>1, <1>3, <1>4 DEF Halfway
    <2>2. \A j \in todo'["saga"] : \A k \in 1..j : k \in todo'["saga"]
        BY <1>1, <1>2, <1>3, <1>4 DEF Halfway
    <2>3. \A j \in 1..Last' : j \notin todo'["saga"] => Undone(j)'
        BY <1>1, <1>2, <1>4 DEF Halfway, Undone, CallsKept
    <2> QED
        BY <2>1, <2>2, <2>3 DEF Halfway
<1>6. 1 \in 1..Last /\ stack'[1].st \in {"ORPHANED", stack[1].st}
    BY <1>1, <1>2
<1> QED
    BY <1>1, <1>2, <1>5, <1>6 DEF Backwards, Halfway, Forward

LEMMA CompensateBackwards ==
    ASSUME IInv, theirs = 0 => FirstCall, Backwards, NEW i, Compensate("saga", i)
    PROVE  Backwards'
<1>0. "saga" \in Workers /\ Last \in Nat
    BY LastNat DEF Workers
<1>1. /\ Top("saga", i) /\ i \in todo["saga"] /\ i \in 1..Last /\ Handled
      /\ \/ Done("saga", i) /\ PutBack(i)
         \/ Checked("saga", i)
         \/ Raise("saga", i)
      /\ at["saga"] \in {"working", "checked"}
    BY <1>0, Compensations DEF IInv
<1>2. pc = "rollback" /\ UNCHANGED <<before, theirs, pc>> /\ 1 \in 1..Last /\ 1 \in 1..i
    BY <1>0, <1>1, AtWork DEF Handled
<1>3. Halfway /\ todo["saga"] \subseteq 1..Last /\ \A j \in todo["saga"] : j <= i
    BY <1>0, <1>1, <1>2 DEF Backwards, Halfway, IInv, TypeOK, Top
<1>4. stack[1].st # "COMPENSATED"
    BY <1>1, <1>2, <1>3 DEF Halfway
<1>5. CASE Done("saga", i) /\ PutBack(i)
    <2>1. /\ CallsKept /\ todo'["saga"] = todo["saga"] \ {i}
          /\ \A j \in 1..Last : stack'[j].st = IF j = i THEN "COMPENSATED" ELSE stack[j].st
        BY <1>0, <1>1, <1>5, DoneMoves DEF IInv
    <2>2. Last' = Last
        BY <2>1 DEF CallsKept, Last
    <2>3. \A j \in todo'["saga"] : stack'[j].st # "COMPENSATED"
        BY <1>3, <2>1 DEF Halfway
    <2>4. \A j \in todo'["saga"] : \A k \in 1..j : k \in todo'["saga"]
        BY <1>0, <1>1, <1>3, <2>1 DEF Halfway
    <2>5. \A j \in 1..Last' : j \notin todo'["saga"] => Undone(j)'
        BY <1>1, <1>3, <2>1, <2>2 DEF Halfway, Undone, CallsKept
    <2>6. stack'[1].st = "COMPENSATED" /\ theirs = 0 => row' = before
        BY <1>2, <1>4, <1>5, <2>1, FirstPutBack
    <2>7. Halfway'
        BY <2>3, <2>4, <2>5 DEF Halfway
    <2> QED
        BY <1>2, <2>6, <2>7 DEF Backwards, Halfway, Forward
<1>6. CASE Checked("saga", i)
    <2>1. UNCHANGED <<row, stack, todo, before, theirs, pc>>
        BY <1>2, <1>6 DEF Checked
    <2> QED
        BY <2>1 DEF Backwards, Undone, Last
<1>7. CASE Raise("saga", i)
    <2>1. /\ todo'["saga"] = {}
          /\ \A j \in 1..Last : stack'[j].st =
                 IF j = i THEN "COMPENSATION_FAILED"
                 ELSE IF j < i THEN "UNRESOLVED" ELSE stack[j].st
        BY <1>0, <1>1, <1>7, RaiseMoves DEF IInv
    <2>2. stack'[1].st \in {"COMPENSATION_FAILED", "UNRESOLVED"}
        BY <1>1, <1>2, <2>1
    <2> QED
        BY <1>2, <2>1, <2>2 DEF Backwards, Forward
<1> QED
    BY <1>1, <1>5, <1>6, <1>7

LEMMA BackwardsStep ==
    ASSUME IInv, theirs = 0 => FirstCall, Backwards, [Next]_vars
    PROVE  Backwards'
<1>1. CASE UNCHANGED vars
    BY <1>1 DEF Backwards, Undone, vars, table, saga, workers, Last
<1>2. CASE OtherWrite
    <2>1. UNCHANGED <<stack, pc, todo>> /\ theirs' # 0
        BY <1>2 DEF OtherWrite, saga, workers, IInv, TypeOK
    <2> QED
        BY <2>1 DEF Backwards, Undone, Last
<1>3. CASE pc = "dead"
    <2>1. \A d \in Daemons : Sweep(d) \/ Recovered(d) \/ DaemonCrash(d) => pc' = pc
        BY DEF Sweep, Recovered, DaemonCrash, saga
    <2>2. \A d \in Daemons, i \in Steps : Skip(d, i) \/ Escalate(d, i) \/ Record(d, i) => pc' = pc
        BY DEF Skip, Escalate, Record, Handled, saga
    <2>3. ASSUME NEW d \in Daemons, NEW i, Compensate(d, i) PROVE pc' = pc
        BY <2>3, DaemonCompensates DEF Handled
    <2>4. pc' = "dead" \/ OtherWrite \/ UNCHANGED vars
        BY <1>3, <2>1, <2>2, <2>3, DeadSteps
    <2> QED
        BY <1>1, <1>2, <2>4 DEF Backwards, Forward
<1>4. CASE Crash
    BY <1>4 DEF Crash, Backwards, Forward
<1>5. CASE Abort
    <2>1. /\ pc = "body" /\ pc' = "rollback" /\ stack' = stack /\ Last' = Last /\ Last \in Nat
          /\ todo' = [todo EXCEPT !["saga"] = 1..Last] /\ Last > 0
        BY <1>5, LastNat DEF Abort, Last
    <2>2. todo'["saga"] = 1..Last
        BY <2>1 DEF IInv, TypeOK, Workers
    <2>3. Pending /\ 1 \in 1..Last
        BY <2>1 DEF Backwards, Forward, Pending
    <2> QED
        BY <2>1, <2>2, <2>3 DEF Backwards, Forward, Pending
<1>6. CASE Aborted
    BY <1>6 DEF Aborted, Backwards, Forward, table
<1>7. CASE Select \/ Mutate \/ Lost \/ Commit \/ Unknown \/ \E op \in Ops : Execute(op)
    <2>1. pc \in Forward /\ pc' \in Forward
        BY <1>7 DEF Select, Mutate, Lost, Commit, Unknown, Outcome, Execute, Forward
    <2> QED
        BY <1>7, <2>1, ForwardBackwards
<1> QED
    BY <1>1, <1>2, <1>3, <1>4, <1>5, <1>6, <1>7, OrphanBackwards, CompensateBackwards, LiveSteps

-----------------------------------------------------------------------------
(* What is recorded as undone stays so                                      *)

\* A handler of a call that has nothing to undo does nothing.
LEMMA NoEffect ==
    ASSUME IInv, NEW w \in Workers, NEW i, Top(w, i), stack[i].comp.fn = "none"
    PROVE  Effect(w, i) = row
<1>1. at[w] # "checked"
    BY TopUnique DEF IInv, Phases
<1> QED
    BY <1>1 DEF Effect

\* What the log keeps of an interrupted rollback: with the first call, all of it.
LEMMA CrashRestored ==
    ASSUME IInv, Backwards, Crash
    PROVE  Restored'
<1>1. /\ pc' = "dead" /\ Last' = Last /\ Last \in Nat
      /\ \A w \in Workers : todo'[w] = {} /\ at'[w] = "idle"
      /\ \/ row' = row
         \/ pc = "mutating" /\ row' = Mutated
         \/ \E i \in todo["saga"] : Top("saga", i) /\ row' = Effect("saga", i)
    BY CrashMoves, LastNat
<1>2. PICK k \in 1..(Last + 1) : logUndone' = {i \in k..Last : stack[i].st = "COMPENSATED"}
    BY CrashMoves
<1>3. /\ doneSet' = doneSet /\ doneSet = {} /\ stack' = stack /\ before' = before /\ theirs' = theirs
      /\ pc \notin {"aborted", "dead"} /\ Last > 0
    BY DEF Crash, IInv, Phases
<1>4. ASSUME 1 \in logUndone'
      PROVE  /\ \A i \in 1..Last : i \in logUndone' \/ stack[i].comp.fn = "none"
             /\ theirs = 0 => row' = before
    <2>1. k = 1 /\ stack[1].st = "COMPENSATED" /\ 1 \in 1..Last
        BY <1>1, <1>2, <1>4
    <2>2. pc = "rollback"
        BY <1>3, <2>1 DEF Backwards, IInv, TypeOK, Forward
    <2>3. Halfway
        BY <2>2 DEF Backwards, Halfway
    <2>4. todo["saga"] = {}
        <3>1. ASSUME NEW i \in todo["saga"] PROVE FALSE
            <4>1. 1 \in 1..i
                BY DEF IInv, TypeOK, Workers
            <4> QED
                BY <2>1, <2>3, <4>1 DEF Halfway
        <3> QED
            BY <3>1
    <2>5. \A i \in 1..Last : Undone(i)
        BY <2>1, <2>3, <2>4 DEF Halfway
    <2>6. theirs = 0 => row' = before
        BY <1>1, <2>1, <2>2, <2>4 DEF Backwards
    <2> QED
        BY <1>1, <1>2, <2>1, <2>5, <2>6 DEF Undone
<1>5. logUndone' \subseteq 1..Last
    BY <1>1, <1>2
<1>6. \A d \in Daemons : at'[d] # "undone"
    BY <1>1 DEF Workers
<1> QED
    BY <1>1, <1>3, <1>4, <1>5, <1>6 DEF Restored

\* Until the process is dead nothing is recorded as undone.
LEMMA LiveRestored ==
    ASSUME IInv, Backwards, [Next]_vars, pc # "dead"
    PROVE  Restored'
<1>1. CASE Crash
    BY <1>1, CrashRestored
<1>2. CASE ~Crash
    <2>1. doneSet' = {} /\ (\A d \in Daemons : at'[d] = "idle") /\ logUndone = {}
        BY LiveSteps DEF IInv, Phases
    <2>2. logUndone' = logUndone
        <3>1. ASSUME NEW i, Compensate("saga", i) PROVE logUndone' = logUndone
            BY <3>1, Compensations DEF IInv, Workers, Handled
        <3>2. \A i : Orphan(i) => logUndone' = logUndone
            BY DEF Orphan, Handled
        <3>3. /\ UNCHANGED vars \/ OtherWrite \/ Select \/ Mutate \/ Lost \/ Commit \/ Unknown
                 \/ Abort \/ Aborted => logUndone' = logUndone
              /\ \A op \in Ops : Execute(op) => logUndone' = logUndone
            BY DEF vars, saga, OtherWrite, Execute, Select, Mutate, Lost, Commit, Unknown, Outcome,
                   Abort, Aborted
        <3> QED
            BY <1>2, <3>1, <3>2, <3>3, LiveSteps
    <2> QED
        BY <2>1, <2>2 DEF Restored
<1> QED
    BY <1>1, <1>2

\* A daemon that has anything to do is not at a row that is undone.
LEMMA UndoneLeftAlone ==
    ASSUME IInv, Sweeps, Restored, NEW d \in Daemons, NEW i, Top(d, i), i \notin seen[d],
           1 \in doneSet \union logUndone
    PROVE  stack[i].comp.fn = "none"
<1>1. i \in todo[d] /\ i \in 1..Last
    BY DEF Top, IInv, TypeOK, Workers
<1>2. i \notin logUndone /\ i \notin doneSet
    BY <1>1 DEF Sweeps
<1> QED
    BY <1>1, <1>2 DEF Restored

LEMMA DeadRestored ==
    ASSUME IInv, theirs = 0 => FirstCall, Sweeps, Restored, OneDaemon, [Next]_vars, pc = "dead"
    PROVE  Restored'
<1>0. /\ Last \in Nat /\ Last > 0 /\ 1 \in 1..Last
      /\ \A d \in Daemons : d \in Workers /\ d # "saga"
    BY LastNat, RowAssumption DEF Workers, IInv, Phases
<1>1. CASE UNCHANGED vars
    BY <1>1 DEF Restored, vars, table, saga, workers, Last, Top
<1>2. CASE OtherWrite
    <2>1. UNCHANGED <<saga, workers, doneSet>> /\ theirs' # 0
        BY <1>2 DEF OtherWrite, IInv, TypeOK
    <2> QED
        BY <2>1 DEF Restored, saga, workers, Last
\* A step that records nothing.
<1>3. ASSUME NEW d \in Daemons, UNCHANGED <<stack, logUndone, doneSet, before, theirs>>,
             theirs = 0 /\ 1 \in doneSet \union logUndone => row' = row,
             theirs = 0 /\ at'[d] = "undone" /\ Top(d, 1)' => row' = before
      PROVE  Restored'
    <2>1. Last' = Last
        BY <1>3 DEF Last
    <2>2. \A e \in Daemons : theirs' = 0 /\ at'[e] = "undone" /\ Top(e, 1)' => row' = before'
        BY <1>3 DEF OneDaemon
    <2> QED
        BY <1>3, <2>1, <2>2 DEF Restored
<1>4. ASSUME NEW d \in Daemons, Sweep(d) PROVE Restored'
    <2>1. at'[d] = "working" /\ UNCHANGED <<table, saga, doneSet>>
        BY <1>4, SweepMoves
    <2> QED
        BY <1>3, <2>1 DEF table, saga
<1>5. ASSUME NEW d \in Daemons, Recovered(d) PROVE Restored'
    <2>1. at'[d] = "idle" /\ UNCHANGED <<table, saga, doneSet>>
        BY <1>5, RecoveredKeeps DEF Recovered
    <2> QED
        BY <1>3, <2>1 DEF table, saga
<1>6. ASSUME NEW d \in Daemons, DaemonCrash(d) PROVE Restored'
    <2>1. /\ at'[d] = "idle"
          /\ \/ row' = row
             \/ \E i \in todo[d] : Top(d, i) /\ i \notin seen[d] /\ row' = Effect(d, i)
        BY <1>6, DaemonCrashMoves
    <2>2. UNCHANGED <<stack, logUndone, doneSet, before, theirs>>
        BY <1>6 DEF DaemonCrash, saga
    <2>3. 1 \in doneSet \union logUndone => row' = row
        BY <1>0, <2>1, UndoneLeftAlone, NoEffect
    <2> QED
        BY <1>3, <2>1, <2>2, <2>3
<1>7. ASSUME NEW d \in Daemons, NEW i, Skip(d, i) PROVE Restored'
    <2>1. at' = at /\ at[d] = "working" /\ UNCHANGED <<row, stack>> /\ Handled
        BY <1>7, SkipMoves
    <2> QED
        BY <1>3, <2>1 DEF Handled
<1>8. ASSUME NEW d \in Daemons, NEW i, Escalate(d, i) PROVE Restored'
    <2>1. at'[d] = "idle" /\ UNCHANGED <<row, stack>> /\ Handled
        BY <1>8, EscalateKeeps DEF Escalate
    <2> QED
        BY <1>3, <2>1 DEF Handled
<1>9. ASSUME NEW d \in Daemons, NEW i, Record(d, i) PROVE Restored'
    <2>1. /\ at[d] = "undone" /\ at'[d] = "working" /\ Top(d, i) /\ i \in todo[d]
          /\ doneSet' = doneSet \union {i} /\ UNCHANGED <<table, saga>> /\ Last' = Last
        BY <1>9, RecordMoves DEF saga, Last
    <2>2. CASE i = 1
        <3>1. todo[d] \subseteq {1}
            BY <1>0, <2>1, <2>2 DEF Top, IInv, TypeOK
        <3>2. 1..Last \subseteq doneSet' \union logUndone
            BY <2>1, <2>2, <3>1 DEF Sweeps
        <3>3. theirs = 0 => row = before
            BY <2>1, <2>2 DEF Restored
        <3>4. \A e \in Daemons : at'[e] = "working"
            BY <2>1 DEF OneDaemon
        <3> QED
            BY <2>1, <3>2, <3>3, <3>4 DEF Restored, table, saga
    <2>3. CASE i # 1
        <3>1. \A e \in Daemons : at'[e] = "working"
            BY <2>1 DEF OneDaemon
        <3> QED
            BY <2>1, <2>3, <3>1 DEF Restored, table, saga
    <2> QED
        BY <2>2, <2>3
<1>10. ASSUME NEW d \in Daemons, NEW i, i \notin seen[d], Compensate(d, i) PROVE Restored'
    <2>1. /\ Handled /\ stack' = stack /\ Top(d, i)
          /\ stack[i].comp.fn # "none" \/ UNCHANGED row
          /\ \/ todo' = todo /\ at'[d] = "undone" /\ PutBack(i)
             \/ at'[d] = "checked"
             \/ at'[d] = "idle"
        BY <1>10, DaemonCompensates
    <2>2. 1 \in doneSet \union logUndone => row' = row
        BY <1>10, <2>1, UndoneLeftAlone
    <2>3. ASSUME theirs = 0, at'[d] = "undone", Top(d, 1)' PROVE row' = before
        <3>1. todo' = todo /\ PutBack(i)
            BY <2>1, <2>3
        <3>2. Top(d, 1)
            BY <2>3, <3>1 DEF Top
        <3>3. i = 1
            BY <1>0, <2>1, <3>2, TopUnique DEF IInv
        <3> QED
            BY <1>0, <2>3, <3>1, <3>3, FirstPutBack
    <2> QED
        BY <1>3, <2>1, <2>2, <2>3 DEF Handled
<1> QED
    BY <1>1, <1>2, <1>4, <1>5, <1>6, <1>7, <1>8, <1>9, <1>10, DeadSteps

\* When the scope reports that every step was compensated, or a daemon that the saga is
\* recovered, the row is what it was before the saga, unless another session wrote it:
\* any number of calls, of lost connections and of crashes of the rollback and of the
\* daemon.  An agent that inserts under taken keys and a second daemon are ruled out:
\* with either the property fails (postgres.py, _compensate(); ledger.py, try_claim()).
THEOREM CleanReportIsTrue == FreshKeys = TRUE /\ OneDaemon => (Spec => []CleanMeansRestored)
<1> SUFFICES ASSUME FreshKeys = TRUE, OneDaemon PROVE Spec => []CleanMeansRestored
    OBVIOUS
<1>1. Init => IInv /\ RInv
    <2> SUFFICES ASSUME Init PROVE IInv /\ RInv
        OBVIOUS
    <2>1. FirstCall /\ Backwards /\ Restored
        BY RowAssumption DEF Init, FirstCall, Backwards, Restored, Last, Forward, Workers
    <2> QED
        BY <2>1, InitIInv, InitSweeps DEF RInv
<1>2. IInv /\ RInv /\ [Next]_vars => IInv' /\ RInv'
    <2> SUFFICES ASSUME IInv, RInv, [Next]_vars PROVE IInv' /\ RInv'
        OBVIOUS
    <2>1. (theirs = 0 => FirstCall) /\ Backwards /\ Sweeps /\ Restored
        BY DEF RInv
    <2>2. theirs' = 0 => FirstCall'
        BY <2>1, FirstCallStep
    <2>3. Backwards' /\ Sweeps'
        BY <2>1, BackwardsStep, SweepsStep
    <2>4. Restored'
        BY <2>1, LiveRestored, DeadRestored
    <2> QED
        BY <2>2, <2>3, <2>4, IInvStep DEF RInv
<1>3. IInv /\ RInv => CleanMeansRestored
    <2> SUFFICES ASSUME IInv, RInv, theirs = 0
                 PROVE  /\ pc = "aborted" /\ Clean => row = before
                        /\ \A d \in Daemons : at[d] = "working" /\ todo[d] = {} => row = before
        BY DEF CleanMeansRestored
    <2>1. ASSUME pc = "aborted", Clean PROVE row = before
        <3>1. 1 \in 1..Last
            BY <2>1, LastNat DEF IInv, Phases
        <3> QED
            BY <2>1, <3>1 DEF Clean, RInv, Backwards
    <2>2. ASSUME NEW d \in Daemons, at[d] = "working", todo[d] = {} PROVE row = before
        <3>1. pc = "dead"
            BY <2>2, AtWork, RowAssumption DEF Workers
        <3>2. 1 \in 1..Last
            BY <3>1, LastNat DEF IInv, Phases
        <3>3. 1 \in doneSet \union logUndone
            BY <2>2, <3>2 DEF RInv, Sweeps
        <3> QED
            BY <3>3 DEF RInv, Restored
    <2> QED
        BY <2>1, <2>2
<1> QED
    BY <1>1, <1>2, <1>3, PTL DEF Spec
=============================================================================
