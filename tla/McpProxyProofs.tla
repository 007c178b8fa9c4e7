--------------------------- MODULE McpProxyProofs ---------------------------
(***************************************************************************)
(* What the client of the proxy can rely on, for any number of calls: "clean" *)
(* means undone, and what the end of a session keeps was asked for or had  *)
(* succeeded, whatever becomes of the server, the log and the process.     *)
(***************************************************************************)
EXTENDS McpProxy, SequenceTheorems, TLAPS

-----------------------------------------------------------------------------
(* The records of a log                                                     *)

\* ToSet by positions.
LEMMA ToSetDef ==
    ASSUME NEW S, NEW s \in Seq(S)
    PROVE  ToSet(s) = {s[i] : i \in 1..Len(s)} /\ ToSet(s) \subseteq S
BY DEF ToSet

-----------------------------------------------------------------------------
(* The inductive invariant                                                  *)

StepRecords == [state : {"INTENT_LOGGED", "COMMITTED", "UNKNOWN"}, inverse : BOOLEAN,
                effect : BOOLEAN, undone : BOOLEAN]

SagaRecords == [begun : BOOLEAN, rolled : BOOLEAN, steps : Seq(StepRecords),
                told : {"nothing", "kept", "committed", "rolled back", "not clean"}]

LoopType ==
    /\ boundary \in Boundaries
    /\ pc \in {"serving", "gate", "calling", "reading", "listing", "undoing",
               "closing", "ended"}
    /\ open \in BOOLEAN /\ failed \in BOOLEAN /\ gone \in BOOLEAN /\ cut \in BOOLEAN
    /\ calls \in 0..MaxCalls /\ faults \in 0..MaxFaults

ConnectionType ==
    server \in {"up", "dead", "mute"} /\ request \in {"none", "pending", "result", "error"}

ReportType == cursor \in Nat /\ clean \in BOOLEAN /\ halted \in BOOLEAN

TypeOK ==
    /\ sagas \in Seq(SagaRecords)
    /\ LoopType /\ ConnectionType /\ ReportType

\* The client has not been told anything about the saga that is open.
Opened == open => Now > 0 /\ sagas[Now].told = "nothing"

\* What the place at which the loop stands says about the rest.
Places ==
    /\ pc \in {"gate", "calling", "undoing"} => open
    /\ pc = "calling" => Top > 0
    /\ pc = "undoing" => cursor <= Top
    /\ pc = "undoing" /\ request # "none" => cursor > 0
    /\ request # "none" => pc \in {"calling", "reading", "listing", "undoing"}
    /\ pc \in {"serving", "gate", "calling", "reading", "listing"} => ~gone

Flying(i) == pc = "calling" /\ i = Top

\* What is known of step i of the open saga: a bare intent had no effect, a step that
\* did not commit was heard of, and the rollback's report is about what it did.
Known(i) ==
    /\ Stack[i].state = "INTENT_LOGGED" /\ ~Flying(i) => ~Stack[i].effect
    /\ ~failed /\ ~cut /\ ~Flying(i) => Stack[i].state = "COMMITTED"
    /\ pc = "undoing" /\ i > cursor /\ clean => (Stack[i].effect => Stack[i].undone)
    /\ pc = "undoing" /\ i = cursor /\ request = "result" => Stack[i].undone

PInv ==
    /\ TypeOK /\ Opened /\ Places
    /\ open => \A i \in 1..Top : Known(i)
    /\ CleanMeansUndone /\ NotKeptUnasked

-----------------------------------------------------------------------------
(* The sagas so far, and the open one                                       *)

LEMMA OpenSaga ==
    ASSUME TypeOK, Opened, open
    PROVE  /\ Now \in DOMAIN sagas /\ sagas[Now] \in SagaRecords
           /\ Stack \in Seq(StepRecords) /\ Top \in Nat
           /\ \A i \in 1..Top : Stack[i] \in StepRecords
<1>1. sagas \in Seq(SagaRecords) /\ Now \in Nat /\ DOMAIN sagas = 1..Now
    BY LenProperties DEF TypeOK, Now
<1>2. Now \in 1..Len(sagas)
    BY <1>1 DEF Opened, Now
<1>3. sagas[Now] \in SagaRecords
    BY <1>1, <1>2, ElementOfSeq
<1>4. Stack \in Seq(StepRecords)
    BY <1>3 DEF SagaRecords, Stack
<1> QED
    BY <1>1, <1>2, <1>3, <1>4, LenProperties, ElementOfSeq DEF Top, Now

LEMMA OpenChanges ==
    ASSUME TypeOK, Opened, open, NEW s \in SagaRecords, sagas' = [sagas EXCEPT ![Now] = s]
    PROVE  /\ sagas' \in Seq(SagaRecords) /\ Now' = Now /\ sagas'[Now] = s
           /\ DOMAIN sagas' = DOMAIN sagas
           /\ \A k \in DOMAIN sagas : k # Now => sagas'[k] = sagas[k]
<1>1. sagas \in Seq(SagaRecords) /\ Now \in 1..Len(sagas) /\ DOMAIN sagas = 1..Len(sagas)
    BY OpenSaga, LenProperties DEF TypeOK
<1>2. /\ sagas' \in Seq(SagaRecords) /\ Len(sagas') = Len(sagas)
      /\ \A j \in 1..Len(sagas) : sagas'[j] = IF j = Now THEN s ELSE sagas[j]
    BY <1>1, ExceptSeq
<1> QED
    BY <1>1, <1>2 DEF Now

\* One step of the open saga changes.
LEMMA StepChanges ==
    ASSUME TypeOK, Opened, open, NEW i \in 1..Top, NEW r \in StepRecords, StepAt(i, r)
    PROVE  /\ sagas' \in Seq(SagaRecords) /\ Now' = Now /\ Top' = Top
           /\ sagas'[Now].told = sagas[Now].told
           /\ Stack'[i] = r /\ \A j \in 1..Top : j # i => Stack'[j] = Stack[j]
           /\ DOMAIN sagas' = DOMAIN sagas
           /\ \A k \in DOMAIN sagas : k # Now => sagas'[k] = sagas[k]
<1> DEFINE t == [Stack EXCEPT ![i] = r]
           s == [sagas[Now] EXCEPT !.steps = t]
<1>1. sagas[Now] \in SagaRecords /\ Stack \in Seq(StepRecords) /\ i \in 1..Len(Stack)
    BY OpenSaga DEF Top
<1>2. /\ t \in Seq(StepRecords) /\ Len(t) = Len(Stack)
      /\ \A j \in 1..Len(Stack) : t[j] = IF j = i THEN r ELSE Stack[j]
    BY <1>1, ExceptSeq
<1>3. sagas' = [sagas EXCEPT ![Now] = s]
    BY DEF StepAt, Stack
<1> HIDE DEF t
<1>4. s \in SagaRecords /\ s.steps = t /\ s.told = sagas[Now].told
    BY <1>1, <1>2 DEF SagaRecords
<1> HIDE DEF s
<1>5. /\ sagas' \in Seq(SagaRecords) /\ Now' = Now /\ sagas'[Now] = s
      /\ DOMAIN sagas' = DOMAIN sagas
      /\ \A k \in DOMAIN sagas : k # Now => sagas'[k] = sagas[k]
    BY <1>3, <1>4, OpenChanges
<1>6. Stack' = t
    BY <1>4, <1>5 DEF Stack
<1> QED
    BY <1>1, <1>2, <1>4, <1>5, <1>6 DEF Top

\* What the client was told of a saga it may go on believing.
LEMMA PastKeeps ==
    ASSUME CleanMeansUndone, NotKeptUnasked, UNCHANGED boundary, cut => cut',
           \A k \in DOMAIN sagas' :
               \/ k \in DOMAIN sagas /\ sagas'[k] = sagas[k]
               \/ sagas'[k].told \notin {"rolled back", "kept"}
    PROVE  CleanMeansUndone' /\ NotKeptUnasked'
BY DEF CleanMeansUndone, NotKeptUnasked, Steps

-----------------------------------------------------------------------------
(* Steps that leave the sagas alone                                         *)

LEMMA StillKeeps ==
    ASSUME PInv, UNCHANGED <<boundary, sagas, open>>, cut => cut', failed => failed',
           LoopType', ConnectionType', ReportType', Places',
           open => \A i \in 1..Top : Known(i)'
    PROVE  PInv'
<1>1. CleanMeansUndone' /\ NotKeptUnasked'
    BY PastKeeps DEF PInv
<1> QED
    BY <1>1 DEF PInv, TypeOK, Opened, Now, Top, Stack

LEMMA FaultType ==
    ASSUME LoopType, LogFault \/ UNCHANGED faults
    PROVE  faults' \in 0..MaxFaults
BY ProxyAssumption DEF LoopType, LogFault

LEMMA CallsType ==
    ASSUME LoopType, Client \/ UNCHANGED calls
    PROVE  calls' \in 0..MaxCalls
BY ProxyAssumption DEF LoopType, Client

\* The loop moves on between calls: nothing is in flight and no rollback runs.
LEMMA BetweenCalls ==
    ASSUME PInv, UNCHANGED <<boundary, sagas, open, cursor, clean, halted>>,
           cut => cut', failed => failed', cut' \in BOOLEAN, failed' \in BOOLEAN,
           gone' \in BOOLEAN, ConnectionType',
           Client \/ UNCHANGED calls, LogFault \/ UNCHANGED faults,
           pc \notin {"calling", "undoing"},
           pc' \in {"serving", "reading", "listing", "closing", "ended"},
           pc' \in {"serving", "reading", "listing"} => ~gone',
           request' # "none" => pc' \in {"reading", "listing"}
    PROVE  PInv'
<1>1. LoopType' /\ ReportType'
    BY FaultType, CallsType DEF PInv, TypeOK, LoopType, ReportType
<1>2. Places'
    BY DEF Places
<1>3. ASSUME open, NEW i \in 1..Top PROVE Known(i)'
    <2>1. Known(i)
        BY <1>3 DEF PInv
    <2> QED
        BY <2>1 DEF Known, Flying, Stack, Now
<1> QED
    BY <1>1, <1>2, <1>3, StillKeeps

LEMMA ReadsKeep ==
    ASSUME PInv, Refuse \/ Read \/ ReadReturns \/ ListTools \/ Listed \/ Disconnect
    PROVE  PInv'
<1> USE DEF PInv, TypeOK, LoopType, ConnectionType
<1>1. CASE Refuse
    BY <1>1, BetweenCalls DEF Refuse, ReplyError, ends, connection, report, Places
<1>2. CASE Read \/ ListTools
    BY <1>2, BetweenCalls DEF Read, ListTools, Client, Send, ends, report, Places
<1>3. CASE ReadReturns
    BY <1>3, BetweenCalls DEF ReadReturns, Take, Reply, ReplyError, ends, report, Places
<1>4. CASE Listed
    BY <1>4, BetweenCalls DEF Listed, Take, Leave, ends, report, Places
<1>5. CASE Disconnect
    BY <1>5, BetweenCalls DEF Disconnect, Leave, connection, report, Places
<1> QED
    BY <1>1, <1>2, <1>3, <1>4, <1>5

\* rollback() goes on to the next step, which has nothing standing or is reported.
LEMMA DownKeeps ==
    ASSUME PInv, pc = "undoing", cursor > 0, Down, request' = "none",
           UNCHANGED <<boundary, pc, sagas, open, failed, gone, cut, calls, faults>>,
           ConnectionType', clean' \in BOOLEAN, halted' \in BOOLEAN,
           clean' => clean /\ (Stack[cursor].effect => Stack[cursor].undone)
    PROVE  PInv'
<1>1. open /\ cursor \in Nat /\ cursor' = cursor - 1 /\ Top \in Nat /\ cursor <= Top
    BY OpenSaga DEF PInv, Places, TypeOK, ReportType, Down
<1>2. LoopType' /\ ReportType'
    BY <1>1 DEF PInv, TypeOK, LoopType, ReportType
<1>3. Places'
    BY <1>1 DEF PInv, Places, Top, Stack, Now
<1>4. ASSUME NEW i \in 1..Top PROVE Known(i)'
    <2>1. Known(i)
        BY <1>1 DEF PInv
    <2>2. i > cursor' => i > cursor \/ i = cursor
        BY <1>1
    <2> QED
        BY <2>1, <2>2 DEF Known, Flying, Stack, Now
<1> QED
    BY <1>2, <1>3, <1>4, StillKeeps

LEMMA RollbackKeeps ==
    ASSUME PInv, Pass \/ Orphan \/ Compensate \/ Compensated
    PROVE  PInv'
<1>0. open => \A i \in 1..Top : Known(i)
    BY DEF PInv
<1>1. pc = "undoing" /\ cursor > 0 => open /\ cursor \in 1..Top
    BY OpenSaga DEF PInv, Places, TypeOK, ReportType
<1>2. CASE Pass
    <2>1. /\ pc = "undoing" /\ cursor > 0 /\ request = "none" /\ Down
          /\ halted \/ Stack[cursor].state = "INTENT_LOGGED"
          /\ clean' = (clean /\ ~halted)
          /\ UNCHANGED <<boundary, pc, sagas, open, failed, gone, cut, server, request, halted,
                         calls, faults>>
        BY <1>2 DEF Pass, AtStep, ends, connection
    <2>2. Known(cursor)
        BY <1>0, <1>1, <2>1
    <2>3. clean' = (clean /\ ~halted)
        BY <1>2 DEF Pass
    <2>4. clean' => clean /\ (Stack[cursor].effect => Stack[cursor].undone)
        BY <2>1, <2>2, <2>3 DEF Known, Flying
    <2> QED
        BY <2>1, <2>3, <2>4, DownKeeps DEF PInv, TypeOK, ConnectionType, ReportType
<1>3. CASE Orphan
    <2>1. /\ pc = "undoing" /\ cursor > 0 /\ request = "none" /\ Down /\ clean' = FALSE
          /\ UNCHANGED <<boundary, pc, sagas, open, failed, gone, cut, server, request, halted,
                         calls, faults>>
        BY <1>3 DEF Orphan, Orphaned, AtStep, ends, connection
    <2> QED
        BY <2>1, DownKeeps DEF PInv, TypeOK, ConnectionType, ReportType
<1>4. CASE Compensate
    <2>1. /\ pc = "undoing" /\ cursor > 0 /\ request = "none"
          /\ request' \in {"error", "pending"} /\ server' = server
          /\ UNCHANGED <<boundary, pc, sagas, open, failed, gone, cut, cursor, clean, halted,
                         calls, faults>>
        BY <1>4 DEF Compensate, AtStep, Send, report
    <2>2. LoopType' /\ ConnectionType' /\ ReportType'
        BY <2>1 DEF PInv, TypeOK, LoopType, ConnectionType, ReportType
    <2>3. Places'
        BY <2>1 DEF PInv, Places, Top, Stack, Now
    <2>4. ASSUME open, NEW i \in 1..Top PROVE Known(i)'
        BY <1>0, <2>1, <2>4 DEF Known, Flying, Stack, Now
    <2> QED
        BY <2>1, <2>2, <2>3, <2>4, StillKeeps
<1>5. CASE Compensated
    <2>1. /\ pc = "undoing" /\ request \in {"result", "error"} /\ cursor > 0
          /\ request' = "none" /\ server' = server
          /\ UNCHANGED <<boundary, sagas, open, gone, cut, calls>>
        BY <1>5 DEF Compensated, Take, ends, PInv, Places
    <2>2. CASE request = "error" /\ clean' = FALSE /\ halted' = TRUE /\ Down
               /\ UNCHANGED <<pc, failed, faults>>
        BY <2>1, <2>2, DownKeeps DEF PInv, TypeOK, ConnectionType, ReportType
    <2>3. CASE request = "result" /\ Down /\ UNCHANGED <<clean, halted, pc, failed, faults>>
        <3>1. Known(cursor)
            BY <1>0, <1>1, <2>1
        <3>2. Stack[cursor].undone
            BY <2>1, <2>3, <3>1 DEF Known
        <3> QED
            BY <2>1, <2>3, <3>2, DownKeeps DEF PInv, TypeOK, ConnectionType, ReportType
    <2>4. CASE LogFault /\ Raise /\ UNCHANGED report
        <3>1. /\ pc' \in {"ended", "serving"}
              /\ pc' = "serving" => ~gone
              /\ failed => failed'
              /\ failed' \in BOOLEAN
              /\ UNCHANGED <<cursor, clean, halted>>
            BY <2>4 DEF Raise, ReplyError, report, PInv, TypeOK, LoopType
        <3>2. faults' \in 0..MaxFaults
            BY <2>4, FaultType DEF PInv, TypeOK
        <3>5. LoopType' /\ ConnectionType' /\ ReportType'
            <4>1. LoopType'
                BY <2>1, <3>1, <3>2 DEF PInv, TypeOK, LoopType
            <4>2. ConnectionType' /\ ReportType'
                BY <2>1, <3>1 DEF PInv, TypeOK, ConnectionType, ReportType
            <4> QED
                BY <4>1, <4>2
        <3>3. Places'
            BY <2>1, <3>1 DEF Places
        <3>4. ASSUME open, NEW i \in 1..Top PROVE Known(i)'
            BY <1>0, <2>1, <3>1, <3>4 DEF Known, Flying, Stack, Now
        <3> QED
            BY <2>1, <3>1, <3>3, <3>4, <3>5, StillKeeps
    <2> QED
        BY <1>5, <2>2, <2>3, <2>4 DEF Compensated
<1> QED
    BY <1>2, <1>3, <1>4, <1>5

-----------------------------------------------------------------------------
(* Steps that change one step of the open saga                              *)

LEMMA StepKeeps ==
    ASSUME PInv, open, UNCHANGED <<boundary, open>>, cut => cut', failed => failed',
           LoopType', ConnectionType', ReportType',
           NEW i \in 1..Top, NEW r \in StepRecords, StepAt(i, r),
           Top' = Top => Places', Stack'[i] = r => Known(i)',
           \A j \in 1..Top : j # i /\ Stack'[j] = Stack[j] /\ Top' = Top => Known(j)'
    PROVE  PInv'
<1>1. /\ sagas' \in Seq(SagaRecords) /\ Now' = Now /\ Top' = Top
      /\ sagas'[Now].told = sagas[Now].told
      /\ Stack'[i] = r /\ \A j \in 1..Top : j # i => Stack'[j] = Stack[j]
      /\ DOMAIN sagas' = DOMAIN sagas
      /\ \A k \in DOMAIN sagas : k # Now => sagas'[k] = sagas[k]
    BY StepChanges DEF PInv
<1>2. CleanMeansUndone' /\ NotKeptUnasked'
    BY <1>1, PastKeeps DEF PInv, Opened
<1>3. Opened' /\ TypeOK'
    BY <1>1 DEF PInv, TypeOK, Opened
<1>4. \A j \in 1..Top' : Known(j)'
    BY <1>1
<1> QED
    BY <1>1, <1>2, <1>3, <1>4 DEF PInv

\* The server did what the request in flight asked for, or it did not.
LEMMA WorksKeeps ==
    ASSUME PInv, request = "pending", request' \in {"result", "error"},
           server' \in {"up", "dead", "mute"},
           NEW applied \in BOOLEAN, Works(applied), request' = "result" => applied,
           UNCHANGED <<boundary, pc, open, failed, gone, cut, cursor, clean, halted, calls, faults>>
    PROVE  PInv'
<1>1. LoopType' /\ ConnectionType' /\ ReportType'
    BY DEF PInv, TypeOK, LoopType, ConnectionType, ReportType
<1>2. open => \A i \in 1..Top : Known(i) /\ Stack[i] \in StepRecords
    BY OpenSaga DEF PInv
<1>3. Top' = Top => Places'
    BY DEF PInv, Places
<1>4. CASE applied /\ pc = "calling"
    <2> DEFINE r == [Stack[Top] EXCEPT !.effect = TRUE]
    <2>1. open /\ Top \in 1..Top
        BY <1>4, OpenSaga DEF PInv, Places
    <2>2. r \in StepRecords /\ StepAt(Top, r)
        BY <1>2, <1>4, <2>1 DEF StepRecords, Works
    <2> HIDE DEF r
    <2>3. PICK t \in 1..Top : t = Top
        BY <2>1
    <2>4. pc' # "undoing" /\ pc' = "calling"
        BY <1>4
    <2>5. Top' = Top => Known(t)'
        BY <2>3, <2>4 DEF Known, Flying
    <2>6. ASSUME NEW j \in 1..Top, j # t, Stack'[j] = Stack[j] PROVE Known(j)'
        <3>1. Known(j) /\ j # Top
            BY <1>2, <2>1, <2>3, <2>6
        <3> QED
            BY <2>4, <2>6, <3>1, <1>4 DEF Known, Flying
    <2>7. Top' = Top
        BY <2>1, <2>2, StepChanges DEF PInv
    <2> QED
        BY <1>1, <1>3, <2>1, <2>2, <2>3, <2>5, <2>6, <2>7, StepKeeps
<1>5. CASE applied /\ pc = "undoing"
    <2> DEFINE r == [Stack[cursor] EXCEPT !.undone = TRUE]
    <2>1. open /\ cursor \in 1..Top
        BY <1>5, OpenSaga DEF PInv, Places, TypeOK, ReportType
    <2>2. r \in StepRecords /\ StepAt(cursor, r) /\ r.undone = TRUE
          /\ r.state = Stack[cursor].state /\ r.effect = Stack[cursor].effect
        BY <1>2, <1>5, <2>1 DEF StepRecords, Works
    <2> HIDE DEF r
    <2>3. PICK t \in 1..Top : t = cursor
        BY <2>1
    <2>4. Stack'[t] = r => Known(t)'
        BY <1>2, <1>5, <2>1, <2>2, <2>3 DEF Known, Flying
    <2>5. ASSUME NEW j \in 1..Top, j # t, Stack'[j] = Stack[j] PROVE Known(j)'
        BY <1>2, <1>5, <2>1, <2>3, <2>5 DEF Known, Flying
    <2> QED
        BY <1>1, <1>3, <2>1, <2>2, <2>3, <2>4, <2>5, StepKeeps
<1>6. CASE UNCHANGED sagas /\ (~applied \/ pc \notin {"calling", "undoing"})
    <2>1. Places'
        BY <1>3, <1>6 DEF Top, Stack, Now
    <2>2. ASSUME open, NEW i \in 1..Top PROVE Known(i)'
        BY <1>2, <1>6, <2>2 DEF Known, Flying, Stack, Now, Top
    <2> QED
        BY <1>1, <1>6, <2>1, <2>2, StillKeeps
<1> QED
    BY <1>4, <1>5, <1>6 DEF Works

LEMMA ServerKeeps ==
    ASSUME PInv, Answer \/ \E fault \in {"dead", "mute"} : ReaderEnds(fault)
    PROVE  PInv'
<1>1. CASE Answer
    <2>1. request = "pending" /\ server' \in {"up", "dead", "mute"}
          /\ request' \in {"result", "error"}
          /\ UNCHANGED <<boundary, pc, open, failed, gone, cut, cursor, clean, halted, calls, faults>>
        BY <1>1 DEF Answer, ends, report
    <2>2. \E applied \in BOOLEAN : Works(applied) /\ (request' = "result" => applied)
        BY <1>1 DEF Answer
    <2> QED
        BY <2>1, <2>2, WorksKeeps
<1>2. ASSUME NEW fault \in {"dead", "mute"}, ReaderEnds(fault) PROVE PInv'
    <2>1. server' \in {"up", "dead", "mute"}
          /\ UNCHANGED <<boundary, pc, open, failed, gone, cut, cursor, clean, halted, calls, faults>>
        BY <1>2 DEF ReaderEnds, ends, report
    <2>2. CASE request = "pending"
        BY <1>2, <2>1, <2>2, WorksKeeps DEF ReaderEnds, FailPending
    <2>3. CASE request # "pending"
        <3>1. UNCHANGED <<sagas, request>>
            BY <1>2, <2>3 DEF ReaderEnds, FailPending
        <3>2. LoopType' /\ ConnectionType' /\ ReportType'
            BY <2>1, <3>1 DEF PInv, TypeOK, LoopType, ConnectionType, ReportType
        <3>3. Places'
            BY <2>1, <3>1 DEF PInv, Places, Top, Stack, Now
        <3>4. ASSUME open, NEW i \in 1..Top PROVE Known(i)'
            BY <2>1, <3>1, <3>4 DEF PInv, Known, Flying, Stack, Now, Top
        <3> QED
            BY <2>1, <3>1, <3>2, <3>3, <3>4, StillKeeps
    <2> QED
        BY <2>2, <2>3
<1> QED
    BY <1>1, <1>2

\* The outcome of the call is on the stack: whatever it is, it says that there was a call.
LEMMA OutcomeKeeps ==
    ASSUME PInv, pc = "calling", request' = "none", UNCHANGED <<boundary, open, server, cursor, clean, halted, calls>>,
           LogFault \/ UNCHANGED faults, cut' \in BOOLEAN, failed' \in BOOLEAN, gone' \in BOOLEAN,
           cut => cut', failed => failed',
           \/ pc' = "serving" /\ gone' = gone
           \/ pc' = "closing" /\ gone' = TRUE,
           NEW inverse \in BOOLEAN, NEW state \in {"COMMITTED", "UNKNOWN"}, NEW applied \in BOOLEAN,
           state = "UNKNOWN" => failed' \/ cut',
           StepAt(Top, [Stack[Top] EXCEPT !.inverse = inverse, !.state = state, !.effect = applied])
    PROVE  PInv'
<1> DEFINE r == [Stack[Top] EXCEPT !.inverse = inverse, !.state = state, !.effect = applied]
<1>1. open /\ Top \in 1..Top /\ Top \in Nat
    BY OpenSaga DEF PInv, Places
<1>2. r \in StepRecords /\ r.state = state
    BY <1>1, OpenSaga DEF StepRecords, PInv
<1> HIDE DEF r
<1>3. StepAt(Top, r)
    BY DEF r
<1>4. LoopType' /\ ConnectionType' /\ ReportType'
    BY FaultType DEF PInv, TypeOK, LoopType, ConnectionType, ReportType
<1>5. Places'
    BY <1>1 DEF PInv, Places
<1>6. PICK t \in 1..Top : t = Top
    BY <1>1
<1>7. Stack'[t] = r => Known(t)'
    BY <1>2 DEF Known, Flying
<1>8. ASSUME NEW j \in 1..Top, j # t, Stack'[j] = Stack[j] PROVE Known(j)'
    <2>1. Known(j) /\ ~Flying(j)
        BY <1>1, <1>6, <1>8 DEF PInv, Flying
    <2> QED
        BY <1>8, <2>1 DEF Known, Flying
<1> QED
    BY <1>1, <1>2, <1>3, <1>4, <1>5, <1>6, <1>7, <1>8, StepKeeps

LEMMA ConcludeKeeps ==
    ASSUME PInv, Conclude
    PROVE  PInv'
<1> DEFINE state == IF request = "result" THEN "COMMITTED" ELSE "UNKNOWN"
<1>1. PICK inverse \in BOOLEAN : StepAt(Top, [Stack[Top] EXCEPT !.inverse = inverse, !.state = state])
    BY DEF Conclude
<1>2. pc = "calling" /\ Stack[Top] \in StepRecords
    <2>1. pc = "calling" /\ open /\ Top \in 1..Top
        BY OpenSaga DEF Conclude, PInv, Places
    <2> QED
        BY <2>1, OpenSaga DEF PInv
<1>3. state \in {"COMMITTED", "UNKNOWN"}
    OBVIOUS
<1>4. /\ request' = "none" /\ UNCHANGED <<boundary, open, server, cursor, clean, halted, calls, gone, cut>>
      /\ LogFault \/ UNCHANGED faults
      /\ pc' = "serving" /\ failed' \in BOOLEAN
      /\ failed => failed'
      /\ state = "UNKNOWN" => failed'
    BY DEF Conclude, Take, Reply, ReplyError, ends, report, PInv, TypeOK, LoopType
<1> HIDE DEF state
<1>5. [Stack[Top] EXCEPT !.inverse = inverse, !.state = state]
        = [Stack[Top] EXCEPT !.inverse = inverse, !.state = state, !.effect = Stack[Top].effect]
    BY <1>2 DEF StepRecords
<1>6. Stack[Top].effect \in BOOLEAN
    BY <1>2 DEF StepRecords
<1> QED
    BY <1>1, <1>2, <1>3, <1>4, <1>5, <1>6, OutcomeKeeps DEF PInv, TypeOK, LoopType

LEMMA InterruptKeeps ==
    ASSUME PInv, Interrupt
    PROVE  PInv'
<1>1. /\ cut' = TRUE /\ pc' = "closing" /\ gone' = TRUE /\ request' = "none"
      /\ UNCHANGED <<boundary, open, server, failed, cursor, clean, halted, calls, faults>>
    BY DEF Interrupt, Leave, report
<1>2. CASE pc = "serving" /\ UNCHANGED sagas
    BY <1>1, <1>2, BetweenCalls DEF PInv, TypeOK, LoopType, ConnectionType
<1>3. CASE pc = "calling"
    <2>1. PICK inverse \in BOOLEAN, applied \in {Stack[Top].effect, server = "up"} :
              StepAt(Top, [Stack[Top] EXCEPT !.inverse = inverse, !.state = "UNKNOWN",
                              !.effect = applied])
        BY <1>3 DEF Interrupt
    <2>2. Stack[Top].effect \in BOOLEAN
        <3>1. open /\ Top \in 1..Top
            BY <1>3, OpenSaga DEF PInv, Places
        <3> QED
            BY <3>1, OpenSaga DEF PInv, StepRecords
    <2>3. applied \in BOOLEAN
        BY <2>1, <2>2
    <2> QED
        BY <1>1, <1>3, <2>1, <2>3, OutcomeKeeps DEF PInv, TypeOK, LoopType
<1> QED
    BY <1>2, <1>3 DEF Interrupt

-----------------------------------------------------------------------------
(* Calls                                                                    *)

\* The first call opens a saga; the next ones find it.
LEMMA CallKeeps ==
    ASSUME PInv, Call
    PROVE  PInv'
<1>0. open \in BOOLEAN /\ failed \in BOOLEAN
    BY DEF PInv, TypeOK, LoopType
<1>1. /\ pc = "serving" /\ pc' \in {"gate", "serving"} /\ open' = TRUE
      /\ failed => failed'
      /\ failed' \in BOOLEAN
      /\ UNCHANGED <<boundary, gone, cut, server, request, cursor, clean, halted>>
    BY <1>0 DEF Call, Client, ReplyError, ends, connection, report
<1>2. faults' \in 0..MaxFaults /\ calls' \in 0..MaxCalls
    <2>1. Client /\ (LogFault \/ UNCHANGED faults)
        BY DEF Call
    <2> QED
        BY <2>1, FaultType, CallsType DEF PInv, TypeOK
<1>3. LoopType' /\ ConnectionType' /\ ReportType' /\ Places'
    <2>1. LoopType'
        BY <1>1, <1>2 DEF PInv, TypeOK, LoopType
    <2>2. ConnectionType' /\ ReportType'
        BY <1>1 DEF PInv, TypeOK, ConnectionType, ReportType
    <2>3. Places'
        BY <1>1 DEF PInv, Places
    <2> QED
        BY <2>1, <2>2, <2>3
<1>4. CASE open
    <2>1. UNCHANGED sagas
        BY <1>4 DEF Call
    <2>2. ASSUME NEW i \in 1..Top PROVE Known(i)'
        <3>1. Known(i)
            BY <1>4 DEF PInv
        <3> QED
            BY <1>1, <2>1, <3>1 DEF Known, Flying, Stack, Now
    <2> QED
        BY <1>1, <1>3, <1>4, <2>1, <2>2, StillKeeps
<1>5. CASE ~open
    <2>1. PICK n \in {NewSaga, [NewSaga EXCEPT !.begun = TRUE]} : sagas' = Append(sagas, n)
        BY <1>5, Zenon DEF Call
    <2>2. n \in SagaRecords /\ n.told = "nothing" /\ n.steps = <<>>
        <3>1. <<>> \in Seq(StepRecords)
            BY EmptySeq
        <3>2. NewSaga \in SagaRecords /\ NewSaga.told = "nothing" /\ NewSaga.steps = <<>>
            BY <3>1 DEF NewSaga, SagaRecords
        <3>3. CASE n = [NewSaga EXCEPT !.begun = TRUE]
            BY <3>2, <3>3 DEF SagaRecords
        <3> QED
            BY <3>2, <3>3
    <2>3. /\ sagas' \in Seq(SagaRecords) /\ Len(sagas') = Len(sagas) + 1 /\ Len(sagas) \in Nat
          /\ sagas'[Len(sagas) + 1] = n /\ \A k \in 1..Len(sagas) : sagas'[k] = sagas[k]
          /\ DOMAIN sagas' = 1..Len(sagas') /\ DOMAIN sagas = 1..Len(sagas)
        <3>1. sagas \in Seq(SagaRecords) /\ sagas' = Append(sagas, n)
            BY <2>1 DEF PInv, TypeOK
        <3> QED
            BY <2>2, <3>1, AppendProperties, LenProperties
    <2>4. CleanMeansUndone' /\ NotKeptUnasked'
        <3>1. ASSUME NEW k \in DOMAIN sagas'
              PROVE  \/ k \in DOMAIN sagas /\ sagas'[k] = sagas[k]
                     \/ sagas'[k].told \notin {"rolled back", "kept"}
            <4>1. k \in 1..Len(sagas) \/ k = Len(sagas) + 1
                BY <2>3
            <4> QED
                BY <2>2, <2>3, <4>1
        <3> QED
            BY <1>1, <3>1, PastKeeps DEF PInv
    <2>5. Opened' /\ Top' = 0
        BY <2>2, <2>3 DEF Opened, Now, Top, Stack
    <2> QED
        BY <1>1, <1>3, <2>3, <2>4, <2>5 DEF PInv, TypeOK
<1> QED
    BY <1>4, <1>5

LEMMA ExecuteKeeps ==
    ASSUME PInv, Execute
    PROVE  PInv'
<1> DEFINE t == Append(Stack, NewStep)
           s == [sagas[Now] EXCEPT !.steps = t]
<1>1. /\ pc = "gate" /\ open /\ open' = open /\ sagas' = [sagas EXCEPT ![Now] = s]
      /\ \/ request' \in {"error", "pending"} /\ pc' = "calling" /\ failed' = failed /\ UNCHANGED faults
         \/ pc' = "serving" /\ failed' = TRUE /\ request' = request /\ LogFault
      /\ UNCHANGED <<boundary, gone, cut, server, cursor, clean, halted, calls>>
    BY DEF Execute, Send, ReplyError, ends, connection, report, PInv, Places, Stack
<1>2. sagas[Now] \in SagaRecords /\ Stack \in Seq(StepRecords) /\ NewStep \in StepRecords
    BY <1>1, OpenSaga DEF PInv, NewStep, StepRecords
<1>3. /\ t \in Seq(StepRecords) /\ Len(t) = Len(Stack) + 1 /\ Len(Stack) \in Nat
      /\ t[Len(Stack) + 1] = NewStep /\ \A i \in 1..Len(Stack) : t[i] = Stack[i]
    BY <1>2, AppendProperties, LenProperties
<1> HIDE DEF t
<1>4. s \in SagaRecords /\ s.steps = t /\ s.told = sagas[Now].told
    BY <1>2, <1>3 DEF SagaRecords
<1> HIDE DEF s
<1>5. /\ sagas' \in Seq(SagaRecords) /\ Now' = Now /\ sagas'[Now] = s
      /\ DOMAIN sagas' = DOMAIN sagas
      /\ \A k \in DOMAIN sagas : k # Now => sagas'[k] = sagas[k]
    BY <1>1, <1>4, OpenChanges DEF PInv
<1>6. Stack' = t /\ Top' = Top + 1 /\ Top \in Nat
    BY <1>3, <1>4, <1>5 DEF Stack, Top
<1>7. faults' \in 0..MaxFaults
    BY <1>1, FaultType DEF PInv, TypeOK
<1>8. TypeOK' /\ Opened'
    BY <1>1, <1>4, <1>5, <1>7
    DEF PInv, TypeOK, LoopType, ConnectionType, ReportType, Opened
<1>9. Places'
    BY <1>1, <1>6 DEF PInv, Places
<1>10. CleanMeansUndone' /\ NotKeptUnasked'
    BY <1>1, <1>4, <1>5, PastKeeps DEF PInv, Opened
<1>11. ASSUME NEW i \in 1..Top' PROVE Known(i)'
    <2>1. CASE i = Top + 1
        BY <1>1, <1>3, <1>6, <2>1 DEF Known, Flying, NewStep, Top
    <2>2. CASE i # Top + 1
        <3>1. i \in 1..Top /\ Stack'[i] = Stack[i]
            BY <1>3, <1>6, <2>2 DEF Top
        <3>2. Known(i) /\ ~Flying(i)
            BY <1>1, <3>1 DEF PInv, Flying
        <3> QED
            BY <1>1, <3>1, <3>2 DEF Known
    <2> QED
        BY <2>1, <2>2
<1> QED
    BY <1>8, <1>9, <1>10, <1>11 DEF PInv

-----------------------------------------------------------------------------
(* Commit and rollback                                                      *)

\* The client is told what became of the open saga, which is forgotten.
LEMMA TellKeeps ==
    ASSUME PInv, open, open' = FALSE, UNCHANGED <<boundary, cut>>,
           LoopType', ConnectionType', ReportType', Places',
           NEW what \in {"kept", "committed", "rolled back", "not clean"},
           sagas' = [sagas EXCEPT ![Now].told = what],
           what = "kept" =>
               boundary = "session" /\ \A i \in 1..Top : cut \/ Stack[i].state = "COMMITTED",
           what = "rolled back" => \A i \in 1..Top : Stack[i].effect => Stack[i].undone
    PROVE  PInv'
<1> DEFINE s == [sagas[Now] EXCEPT !.told = what]
<1>1. Now \in DOMAIN sagas /\ sagas[Now] \in SagaRecords /\ Stack \in Seq(StepRecords)
    BY OpenSaga DEF PInv
<1>2. s \in SagaRecords /\ s.told = what /\ s.steps = Stack
    BY <1>1 DEF SagaRecords, Stack
<1>3. sagas' = [sagas EXCEPT ![Now] = s]
    OBVIOUS
<1> HIDE DEF s
<1>4. /\ sagas' \in Seq(SagaRecords) /\ Now' = Now /\ sagas'[Now] = s
      /\ DOMAIN sagas' = DOMAIN sagas
      /\ \A k \in DOMAIN sagas : k # Now => sagas'[k] = sagas[k]
    BY <1>2, <1>3, OpenChanges DEF PInv
<1>5. \A e \in ToSet(Stack) : \E i \in 1..Top : e = Stack[i]
    <2> DEFINE q == Stack
    <2>1. q \in Seq(StepRecords) /\ Top = Len(q)
        BY <1>1 DEF Top
    <2> HIDE DEF q
    <2>2. ToSet(q) = {q[i] : i \in 1..Len(q)}
        BY <2>1, ToSetDef
    <2>3. \A e \in ToSet(q) : \E i \in 1..Top : e = q[i]
        BY <2>1, <2>2
    <2> QED
        BY <2>3 DEF q
<1>6. CleanMeansUndone'
    <2> SUFFICES ASSUME NEW k \in DOMAIN sagas', sagas'[k].told = "rolled back",
                        NEW e \in ToSet(sagas'[k].steps), e.effect
                 PROVE  e.undone
        BY DEF CleanMeansUndone, Steps
    <2>1. CASE k = Now
        <3>1. what = "rolled back" /\ e \in ToSet(Stack)
            BY <1>2, <1>4, <2>1
        <3>2. PICK i \in 1..Top : e = Stack[i]
            BY <1>5, <3>1
        <3> QED
            BY <3>1, <3>2
    <2>2. CASE k # Now
        BY <1>4, <2>2 DEF PInv, CleanMeansUndone, Steps
    <2> QED
        BY <2>1, <2>2
<1>7. NotKeptUnasked'
    <2> SUFFICES ASSUME NEW k \in DOMAIN sagas', sagas'[k].told = "kept", ~cut
                 PROVE  boundary = "session" /\ \A e \in ToSet(sagas'[k].steps) : e.state = "COMMITTED"
        BY DEF NotKeptUnasked, Steps
    <2>1. CASE k = Now
        <3>1. what = "kept" /\ sagas'[k].steps = Stack
            BY <1>2, <1>4, <2>1
        <3>2. ASSUME NEW e \in ToSet(Stack) PROVE e.state = "COMMITTED"
            <4>1. PICK i \in 1..Top : e = Stack[i]
                BY <1>5
            <4> QED
                BY <3>1, <4>1
        <3> QED
            BY <3>1, <3>2
    <2>2. CASE k # Now
        BY <1>4, <2>2 DEF PInv, NotKeptUnasked, Steps
    <2> QED
        BY <2>1, <2>2
<1> QED
    BY <1>4, <1>6, <1>7 DEF PInv, TypeOK, Opened

\* The two ways a commit or a rollback ends, and what is true of the loop then.
LEMMA ReturnMoves ==
    ASSUME PInv, Return \/ Raise, UNCHANGED <<boundary, ends, connection>>,
           pc \in {"serving", "closing", "undoing"}, request = "none",
           Client \/ UNCHANGED calls, LogFault \/ UNCHANGED faults, open' \in BOOLEAN
    PROVE  /\ pc' \in {"serving", "ended"}
           /\ pc' = "serving" => ~gone'
           /\ failed => failed'
           /\ failed' \in BOOLEAN
           /\ LoopType' /\ ConnectionType' /\ Places'
<1>0. gone \in BOOLEAN /\ failed \in BOOLEAN
    BY DEF PInv, TypeOK, LoopType
<1>1. /\ pc' \in {"serving", "ended"} /\ gone' = gone /\ cut' = cut
      /\ UNCHANGED <<boundary, server, request>>
      /\ pc' = "serving" => ~gone'
    BY DEF Return, Raise, Reply, ReplyError, ends, connection
<1>2. failed' \in {failed, TRUE}
    BY DEF Return, Raise, Reply, ReplyError
<1>3. faults' \in 0..MaxFaults /\ calls' \in 0..MaxCalls
    BY FaultType, CallsType DEF PInv, TypeOK
<1>4. LoopType'
    BY <1>0, <1>1, <1>2, <1>3 DEF PInv, TypeOK, LoopType
<1>5. ConnectionType'
    BY <1>1 DEF PInv, TypeOK, ConnectionType
<1>6. Places'
    BY <1>1 DEF Places
<1> QED
    BY <1>0, <1>1, <1>2, <1>4, <1>5, <1>6

LEMMA CommitKeeps ==
    ASSUME PInv, Commit, UNCHANGED <<boundary, ends>>, Client \/ UNCHANGED calls,
           \/ pc = "serving"
           \/ pc = "closing" /\ ~(open /\ RollsBack)
    PROVE  PInv'
<1>1. request = "none" /\ gone \in BOOLEAN /\ open \in BOOLEAN /\ UNCHANGED <<connection, report>>
    BY DEF PInv, Places, TypeOK, LoopType, Commit
<1>2. UNCHANGED <<gone, cut, server, request, cursor, clean, halted>>
    BY <1>1 DEF ends, connection, report
<1>3. CASE UNCHANGED <<sagas, open>> /\ (Return \/ Raise) /\ (LogFault \/ UNCHANGED faults)
    BY <1>1, <1>2, <1>3, ReturnMoves, BetweenCalls DEF PInv, TypeOK, LoopType
<1>4. CASE /\ open /\ open' = FALSE /\ Return /\ UNCHANGED faults
           /\ sagas' = [sagas EXCEPT ![Now].told = IF gone THEN "kept" ELSE "committed"]
    <2> DEFINE what == IF gone THEN "kept" ELSE "committed"
    <2>1. LoopType' /\ ConnectionType' /\ Places' /\ ReportType'
        BY <1>1, <1>2, <1>4, ReturnMoves DEF PInv, TypeOK, ReportType
    <2>2. what \in {"kept", "committed"} /\ (what = "kept" => gone)
          /\ sagas' = [sagas EXCEPT ![Now].told = what]
        BY <1>4
    <2> HIDE DEF what
    <2>3. ASSUME what = "kept", NEW i \in 1..Top
          PROVE  boundary = "session" /\ (cut \/ Stack[i].state = "COMMITTED")
        <3>1. pc = "closing" /\ ~failed /\ boundary # "explicit"
            BY <1>4, <2>2, <2>3 DEF PInv, Places, RollsBack
        <3>2. boundary = "session"
            BY <3>1, ProxyAssumption DEF PInv, TypeOK, LoopType
        <3>3. Known(i)
            BY <1>4, <2>3 DEF PInv
        <3> QED
            BY <3>1, <3>2, <3>3 DEF Known, Flying
    <2>4. what = "kept" => boundary = "session"
        <3>1. what = "kept" => pc = "closing" /\ boundary # "explicit"
            BY <1>4, <2>2 DEF PInv, Places, RollsBack
        <3> QED
            BY <3>1, ProxyAssumption DEF PInv, TypeOK, LoopType
    <2> QED
        BY <1>2, <1>4, <2>1, <2>2, <2>3, <2>4, TellKeeps
<1> QED
    BY <1>3, <1>4 DEF Commit

LEMMA RollbackStartKeeps ==
    ASSUME PInv, Rollback, UNCHANGED <<boundary, ends>>, Client \/ UNCHANGED calls,
           pc \in {"serving", "closing"}
    PROVE  PInv'
<1>1. request = "none" /\ open \in BOOLEAN /\ UNCHANGED <<connection, open>>
    BY DEF PInv, Places, TypeOK, LoopType, Rollback
<1>2. UNCHANGED <<gone, cut, server, request>>
    BY <1>1 DEF ends, connection
<1>3. CASE (Return \/ Raise) /\ UNCHANGED <<sagas, report, faults>>
    BY <1>1, <1>2, <1>3, ReturnMoves, BetweenCalls DEF PInv, TypeOK, LoopType, report
<1>4. ASSUME open, NEW rolled \in BOOLEAN, sagas' = [sagas EXCEPT ![Now].rolled = rolled],
             LoopType', ConnectionType', ReportType', failed => failed', pc' # "calling",
             Top' = Top => Places',
             pc' = "undoing" => cursor' = Len(Stack)
      PROVE  PInv'
    <2> DEFINE s == [sagas[Now] EXCEPT !.rolled = rolled]
    <2>1. Now \in DOMAIN sagas /\ sagas[Now] \in SagaRecords /\ Top \in Nat
        BY <1>4, OpenSaga DEF PInv
    <2>2. s \in SagaRecords /\ s.told = sagas[Now].told /\ s.steps = Stack
        BY <2>1 DEF SagaRecords, Stack
    <2>3. sagas' = [sagas EXCEPT ![Now] = s]
        BY <1>4
    <2> HIDE DEF s
    <2>4. /\ sagas' \in Seq(SagaRecords) /\ Now' = Now /\ sagas'[Now] = s
          /\ DOMAIN sagas' = DOMAIN sagas
          /\ \A k \in DOMAIN sagas : k # Now => sagas'[k] = sagas[k]
        BY <1>4, <2>2, <2>3, OpenChanges DEF PInv
    <2>5. Stack' = Stack /\ Top' = Top
        BY <2>2, <2>4 DEF Stack, Top
    <2>6. CleanMeansUndone' /\ NotKeptUnasked'
        BY <1>2, <1>4, <2>2, <2>4, PastKeeps DEF PInv, Opened
    <2>7. ASSUME NEW i \in 1..Top PROVE Known(i)'
        <3>1. Known(i) /\ ~Flying(i)
            BY <1>4, <2>7 DEF PInv, Flying
        <3>2. pc' = "undoing" => ~(i > cursor')
            BY <1>4, <2>1 DEF Top
        <3> QED
            BY <1>1, <1>2, <1>4, <2>5, <3>1, <3>2 DEF Known
    <2>8. Opened'
        BY <1>1, <2>2, <2>4 DEF PInv, Opened
    <2> QED
        BY <1>4, <2>4, <2>5, <2>6, <2>7, <2>8 DEF PInv, TypeOK
<1>5. CASE /\ open /\ sagas' = [sagas EXCEPT ![Now].rolled = TRUE] /\ pc' = "undoing"
           /\ cursor' = Len(Stack) /\ clean' = TRUE /\ halted' = FALSE
           /\ UNCHANGED <<failed, faults>>
    <2>1. calls' \in 0..MaxCalls /\ Len(Stack) \in Nat
        BY <1>5, CallsType, OpenSaga DEF PInv, TypeOK, Top
    <2>2. LoopType' /\ ConnectionType' /\ ReportType'
        BY <1>1, <1>2, <1>5, <2>1 DEF PInv, TypeOK, LoopType, ConnectionType, ReportType
    <2>3. Top' = Top => Places'
        BY <1>1, <1>2, <1>5, <2>1 DEF Places, Top
    <2> QED
        BY <1>4, <1>5, <2>2, <2>3
<1>6. CASE /\ open /\ LogFault /\ Raise /\ UNCHANGED report
           /\ \E rolled \in BOOLEAN : sagas' = [sagas EXCEPT ![Now].rolled = rolled]
    <2>1. /\ pc' \in {"serving", "ended"} /\ LoopType' /\ ConnectionType' /\ Places'
          /\ failed => failed'
        BY <1>1, <1>6, ReturnMoves
    <2>2. ReportType'
        BY <1>6 DEF PInv, TypeOK, ReportType, report
    <2> QED
        BY <1>4, <1>6, <2>1, <2>2
<1> QED
    BY <1>3, <1>5, <1>6 DEF Rollback

LEMMA ControlKeeps ==
    ASSUME PInv, Control \/ Close
    PROVE  PInv'
<1>1. CASE Control
    BY <1>1, CommitKeeps, RollbackStartKeeps DEF Control, Client
<1>2. CASE Close
    BY <1>2, CommitKeeps, RollbackStartKeeps DEF Close
<1> QED
    BY <1>1, <1>2

\* A report that is clean at the end of the stack is clean for all of it.
LEMMA RolledBackKeeps ==
    ASSUME PInv, RolledBack
    PROVE  PInv'
<1>0. /\ pc = "undoing" /\ cursor = 0
      /\ UNCHANGED <<boundary, ends, calls, gone, cut, cursor, clean, halted, request, server>>
      /\ UNCHANGED <<connection, report>>
    BY DEF RolledBack, ends, connection, report
<1>1. /\ pc = "undoing" /\ cursor = 0 /\ open /\ request = "none" /\ Top \in Nat
      /\ UNCHANGED <<boundary, ends, calls, gone, cut, cursor, clean, halted, request, server>>
      /\ UNCHANGED <<connection, report>>
    BY <1>0, OpenSaga DEF PInv, Places
<1>2. /\ Return \/ Raise
      /\ LogFault \/ UNCHANGED faults
      /\ open' \in BOOLEAN
    BY <1>1 DEF RolledBack
<1>3. /\ pc' \in {"serving", "ended"} /\ LoopType' /\ ConnectionType' /\ Places'
      /\ failed => failed'
    BY <1>1, <1>2, ReturnMoves
<1>4. ReportType'
    BY <1>1 DEF PInv, TypeOK, ReportType
<1>5. CASE /\ sagas' = [sagas EXCEPT ![Now].told = IF clean THEN "rolled back" ELSE "not clean"]
           /\ open' = FALSE
    <2> DEFINE what == IF clean THEN "rolled back" ELSE "not clean"
    <2>1. what \in {"rolled back", "not clean"} /\ (what = "rolled back" => clean)
          /\ sagas' = [sagas EXCEPT ![Now].told = what]
        BY <1>5
    <2> HIDE DEF what
    <2>2. ASSUME what = "rolled back", NEW i \in 1..Top PROVE Stack[i].effect => Stack[i].undone
        <3>1. Known(i)
            BY <1>1, <2>2 DEF PInv
        <3>2. i > 0 /\ cursor = 0
            <4>1. Top \in Nat /\ cursor = 0
                BY <1>1
            <4> QED
                BY <4>1
        <3> QED
            BY <1>1, <2>1, <2>2, <3>1, <3>2 DEF Known
    <2> QED
        BY <1>1, <1>3, <1>4, <1>5, <2>1, <2>2, TellKeeps
<1>6. CASE LogFault /\ Raise /\ UNCHANGED <<sagas, open>>
    <2>1. ASSUME NEW i \in 1..Top PROVE Known(i)'
        <3>1. Known(i)
            BY <1>1, <2>1 DEF PInv
        <3> QED
            BY <1>1, <1>3, <1>6, <3>1 DEF Known, Flying, Stack, Now
    <2> QED
        BY <1>1, <1>3, <1>4, <1>6, <2>1, StillKeeps
<1> QED
    BY <1>5, <1>6 DEF RolledBack

-----------------------------------------------------------------------------
(* The theorems                                                             *)

LEMMA InitPInv == Init => PInv
<1> SUFFICES ASSUME Init PROVE PInv
    OBVIOUS
<1>1. sagas \in Seq(SagaRecords) /\ sagas = <<>> /\ DOMAIN sagas = {}
    BY EmptySeq DEF Init
<1>2. 0 \in 0..MaxCalls /\ 0 \in 0..MaxFaults /\ 0 \in Nat
    BY ProxyAssumption
<1>3. LoopType
    BY <1>2, Zenon DEF Init, LoopType
<1>4. ConnectionType /\ ReportType
    BY <1>2 DEF Init, ConnectionType, ReportType
<1>5. CleanMeansUndone /\ NotKeptUnasked
    BY <1>1 DEF CleanMeansUndone, NotKeptUnasked
<1>6. Places /\ Opened /\ ~open
    BY DEF Init, Places, Opened
<1> QED
    BY <1>1, <1>3, <1>4, <1>5, <1>6 DEF PInv, TypeOK

LEMMA PInvStep == PInv /\ [Next]_vars => PInv'
<1> SUFFICES ASSUME PInv, [Next]_vars PROVE PInv'
    OBVIOUS
<1>1. CASE UNCHANGED vars
    <2>1. UNCHANGED <<boundary, pc, sagas, open, failed, gone, cut, server, request, cursor,
                     clean, halted, calls, faults>>
        BY <1>1 DEF vars, ends, connection, report
    <2>2. LoopType' /\ ConnectionType' /\ ReportType'
        BY <2>1 DEF PInv, TypeOK, LoopType, ConnectionType, ReportType
    <2>3. Places'
        BY <2>1 DEF PInv, Places, Top, Stack, Now
    <2>4. ASSUME open, NEW i \in 1..Top PROVE Known(i)'
        BY <2>1, <2>4 DEF PInv, Known, Flying, Top, Stack, Now
    <2> QED
        BY <2>1, <2>2, <2>3, <2>4, StillKeeps
<1> QED
    BY <1>1, ReadsKeep, RollbackKeeps, ServerKeeps, ConcludeKeeps, InterruptKeeps, CallKeeps,
       ExecuteKeeps, ControlKeeps, RolledBackKeeps
    DEF Next, Proxy

\* The inductive invariant holds in every state of a session: what each of its
\* sagas has in place, and what the client was told of them.
THEOREM Invariant == Spec => []PInv
BY InitPInv, PInvStep, PTL DEF Spec

\* Every variable keeps its type: no rollback touches a step that is not there.
THEOREM TypeCorrect == Spec => []TypeOK
<1>1. PInv => TypeOK
    BY DEF PInv
<1> QED
    BY <1>1, Invariant, PTL

\* A client that is told "clean" has no effect of that saga left standing, whatever
\* the server, the log and the policy's paths did (proxy.py:137, policy.py:217).
THEOREM CleanIsUndone == Spec => []CleanMeansUndone
<1>1. PInv => CleanMeansUndone
    BY DEF PInv
<1> QED
    BY <1>1, Invariant, PTL

\* What the end of a session keeps without being asked is a session's saga all of
\* whose calls succeeded, unless the loop ended by itself (proxy.py:157, stdio.py:189).
THEOREM NothingKeptUnasked == Spec => []NotKeptUnasked
<1>1. PInv => NotKeptUnasked
    BY DEF PInv
<1> QED
    BY <1>1, Invariant, PTL
=============================================================================
