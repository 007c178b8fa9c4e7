------------------------- MODULE CrashRecoveryProofs -------------------------
(***************************************************************************)
(* Safety of one saga for any number of calls, made one after the other or *)
(* in parallel, whatever the sink rejects, whichever fence stalls and      *)
(* whenever the process dies; then of its rollback, for calls in sequence; *)
(* then what the recovery daemons may and may not do to it, for any number *)
(* of daemons, failures and crashes.                                       *)
(***************************************************************************)
EXTENDS CrashRecovery, SequenceTheorems, WellFoundedInduction, TLAPS

-----------------------------------------------------------------------------
(* The records of a log, of a part of a batch, and positions in them        *)

\* ToSet by positions.
LEMMA ToSetDef ==
    ASSUME NEW S, NEW s \in Seq(S)
    PROVE  ToSet(s) = {s[i] : i \in 1..Len(s)} /\ ToSet(s) \subseteq S
BY DEF ToSet

LEMMA ToSetEmpty == ToSet(<<>>) = {}
BY DEF ToSet

LEMMA ToSetAppend ==
    ASSUME NEW S, NEW s \in Seq(S), NEW e \in S
    PROVE  ToSet(Append(s, e)) = ToSet(s) \union {e}
<1> DEFINE t == Append(s, e)
<1>1. t \in Seq(S) /\ Len(t) = Len(s) + 1 /\ t[Len(s) + 1] = e
      /\ \A i \in 1..Len(s) : t[i] = s[i]
    BY AppendProperties
<1>2. ToSet(t) = {t[i] : i \in 1..Len(t)} /\ ToSet(s) = {s[i] : i \in 1..Len(s)}
    BY <1>1, ToSetDef
<1>3. \A x : x \in ToSet(t) <=> x \in ToSet(s) \/ x = e
    BY <1>1, <1>2
<1> QED
    BY <1>3

LEMMA ToSetConcat ==
    ASSUME NEW S, NEW s \in Seq(S), NEW t \in Seq(S)
    PROVE  ToSet(s \o t) = ToSet(s) \union ToSet(t)
<1> DEFINE u == s \o t
<1>1. u \in Seq(S) /\ Len(u) = Len(s) + Len(t)
      /\ \A i \in 1..(Len(s) + Len(t)) :
            u[i] = IF i <= Len(s) THEN s[i] ELSE t[i - Len(s)]
    BY ConcatProperties
<1>2. /\ ToSet(u) = {u[i] : i \in 1..Len(u)}
      /\ ToSet(s) = {s[i] : i \in 1..Len(s)}
      /\ ToSet(t) = {t[i] : i \in 1..Len(t)}
    BY <1>1, ToSetDef
<1>3. ASSUME NEW x \in ToSet(u) PROVE x \in ToSet(s) \union ToSet(t)
    <2>1. PICK i \in 1..Len(u) : x = u[i]
        BY <1>2
    <2>2. CASE i <= Len(s)
        BY <1>1, <1>2, <2>1, <2>2
    <2>3. CASE i > Len(s)
        <3>1. i - Len(s) \in 1..Len(t) /\ x = t[i - Len(s)]
            BY <1>1, <2>1, <2>3
        <3> QED
            BY <1>2, <3>1
    <2> QED
        BY <2>2, <2>3
<1>4. ASSUME NEW x \in ToSet(s) PROVE x \in ToSet(u)
    <2>1. PICK i \in 1..Len(s) : x = s[i]
        BY <1>2
    <2>2. i \in 1..Len(u) /\ u[i] = x
        BY <1>1, <2>1
    <2> QED
        BY <1>2, <2>2
<1>5. ASSUME NEW x \in ToSet(t) PROVE x \in ToSet(u)
    <2>1. PICK i \in 1..Len(t) : x = t[i]
        BY <1>2
    <2>2. i + Len(s) \in 1..Len(u) /\ u[i + Len(s)] = x
        BY <1>1, <2>1
    <2> QED
        BY <1>2, <2>2
<1> QED
    BY <1>3, <1>4, <1>5

\* A batch torn by a failed write is a prefix of the batch.
LEMMA PrefixProperties ==
    ASSUME NEW S, NEW s \in Seq(S), NEW k \in 0..Len(s)
    PROVE  /\ SubSeq(s, 1, k) \in Seq(S)
           /\ Len(SubSeq(s, 1, k)) = k
           /\ \A i \in 1..k : SubSeq(s, 1, k)[i] = s[i]
           /\ ToSet(SubSeq(s, 1, k)) \subseteq ToSet(s)
<1> DEFINE p == SubSeq(s, 1, k)
<1>1. p \in Seq(S) /\ Len(p) = k /\ \A i \in 1..k : p[i] = s[i]
    <2>1. \A i \in 1..k : s[i] \in S
        OBVIOUS
    <2>2. /\ p \in Seq(S)
          /\ Len(p) = IF 1 <= k THEN k - 1 + 1 ELSE 0
          /\ \A i \in 1..(k - 1 + 1) : p[i] = s[1 + i - 1]
        BY <2>1, SubSeqProperties
    <2> QED
        BY <2>2
<1>2. ToSet(p) = {p[i] : i \in 1..k} /\ ToSet(s) = {s[i] : i \in 1..Len(s)}
    BY <1>1, ToSetDef
<1>3. ToSet(p) \subseteq ToSet(s)
    BY <1>1, <1>2
<1> QED
    BY <1>1, <1>3

\* What a flush takes from the front of the queue, and what it leaves there.
LEMMA SuffixProperties ==
    ASSUME NEW S, NEW s \in Seq(S), NEW k \in 0..Len(s)
    PROVE  /\ SubSeq(s, k + 1, Len(s)) \in Seq(S)
           /\ Len(SubSeq(s, k + 1, Len(s))) = Len(s) - k
           /\ \A i \in 1..(Len(s) - k) : SubSeq(s, k + 1, Len(s))[i] = s[k + i]
<1>1. \A i \in (k + 1)..Len(s) : s[i] \in S
    OBVIOUS
<1>2. k + 1 \in Int /\ Len(s) \in Int
    OBVIOUS
<1> QED
    BY <1>1, <1>2, SubSeqProperties

\* A log that is written to loses nothing.
LEMMA ToSetGrows ==
    ASSUME NEW S, NEW s \in Seq(S), NEW t \in Seq(S)
    PROVE  ToSet(s) \subseteq ToSet(s \o t)
BY ToSetConcat

\* The first of a set of positions.
LEMMA MinExists ==
    ASSUME NEW T, T \subseteq Nat, T # {}
    PROVE  Min(T) \in T /\ \A y \in T : Min(T) <= y
<1> DEFINE R == {ss \in Nat \X Nat : ss[1] < ss[2]}
<1>1. IsWellFoundedOn(R, Nat)
    BY NatLessThanWellFounded DEF OpToRel
<1>2. \A x, y \in Nat : y < x => <<y, x>> \in R
    OBVIOUS
<1>3. PICK x \in T : \A y \in T : ~(<<y, x>> \in R)
    <2> HIDE DEF R
    <2> QED
        BY <1>1, WFMin
<1>4. \A y \in T : x <= y
    <2> SUFFICES ASSUME NEW y \in T PROVE x <= y
        OBVIOUS
    <2>1. x \in Nat /\ y \in Nat /\ ~(y < x)
        <3> HIDE DEF R
        <3> QED
            BY <1>2, <1>3
    <2> QED
        BY <2>1
<1> QED
    BY <1>4 DEF Min

\* The last of them, as SelectLastInSeq() finds it.
LEMMA MaxExists ==
    ASSUME NEW n \in Nat, NEW T, T \subseteq 1..n, T # {}
    PROVE  Max(T) \in T /\ \A y \in T : y <= Max(T)
<1> DEFINE M == {n - y : y \in T}
<1>0. \A y \in T : y \in 1..n /\ n - y \in Nat
    OBVIOUS
<1>1. M \subseteq Nat /\ M # {}
    BY <1>0
<1>2. Min(M) \in M /\ \A y \in M : Min(M) <= y
    <2> HIDE DEF M
    <2> QED
        BY <1>1, MinExists
<1>3. PICK x \in T : Min(M) = n - x
    BY <1>2
<1>4. \A y \in T : y <= x
    <2> SUFFICES ASSUME NEW y \in T PROVE y <= x
        OBVIOUS
    <2>1. n - y \in M
        OBVIOUS
    <2>2. n - x <= n - y
        BY <1>2, <1>3, <2>1
    <2> QED
        BY <1>0, <2>2
<1> QED
    BY <1>4 DEF Max

-----------------------------------------------------------------------------
(* The inductive invariant                                                  *)

Coroutines == 0..MaxSteps

StepRecords == [sem : Semantics, st : States, comp : Comps]

\* A granted fence means that the record it waits for is on disk.
FencesHonest ==
    \A f \in Coroutines : fence[f] = "granted" => ToSet(want[f]) \subseteq ToSet(disk)

\* What the fence of call i waits for, and what has become of its effect, are
\* what the place it stands at says.
Placed(i) ==
    /\ i \notin Called => call[i] = "none" /\ effect[i] = "none"
    /\ call[i] = "intent" =>
          \E r \in Records : want[i] = <<r>> /\ r.ev = "STEP_INTENT" /\ r.step = i
    /\ call[i] = "forward" => effect[i] = "running"
    /\ call[i] \in {"commit", "fallback"} =>
          \E r \in Records :
              /\ want[i] = <<r>> /\ r.step = i /\ r.comp = stack[i].comp
              /\ r.ev \in {"STEP_COMMITTED", "COMPLETED_VIA_FALLBACK"}

\* The two promises, call by call.
IntentFirst(i) ==
    i \in Called /\ effect[i] # "none" /\ Durable(i) => OnDisk("STEP_INTENT", i)

InverseFirst(i) ==
    i \in Called /\ DurableCommit /\ Durable(i) /\ call[i] = "returned"
        => \E r \in ToSet(disk) :
              /\ r.step = i /\ r.comp = stack[i].comp
              /\ r.ev \in {"STEP_COMMITTED", "COMPLETED_VIA_FALLBACK"}

Recorded(i) == Placed(i) /\ IntentFirst(i) /\ InverseFirst(i)

\* The rollback walks over the calls there are; a dead process makes none.
Bounded ==
    /\ Len(stack) <= MaxSteps /\ cursor <= Len(stack)
    /\ pc \in {"new", "beginning"} => stack = <<>>
    /\ pc = "undoing" => cursor > 0
    /\ pc = "dead" => \A i \in Steps : call[i] = "none"

IInv ==
    /\ TypeOK /\ FencesHonest /\ Bounded
    /\ \A i \in Steps : Recorded(i)

-----------------------------------------------------------------------------
(* The log                                                                  *)

\* Whatever a saga's step does to the log is one of these.
LogMove ==
    \/ UNCHANGED log
    \/ \E s \in Seq(Records) : buf' = buf \o s /\ UNCHANGED <<disk, fence, want>>
    \/ \E f \in Coroutines, r \in Records : EnqueueFenced(f, r)
    \/ \E f \in Coroutines, answer \in FenceStates : Answered(f, answer)
    \/ \E k \in 1..Len(buf) : Persist(k)
    \/ \E k \in 1..Len(buf) : \E j \in 0..k : Reject(k, j)
    \/ \E f \in DOMAIN fence : Stall(f)
    \/ \E k \in 0..Len(buf) : LogCrash(k)

\* Records only arrive on disk, and no fence is granted without its record.
LEMMA LogMoves ==
    ASSUME LogType, FencesHonest, LogMove
    PROVE  LogType' /\ FencesHonest' /\ ToSet(disk) \subseteq ToSet(disk')
<1> USE DEF LogType, FencesHonest, FenceStates, Coroutines
<1>0. Len(buf) \in Nat
    BY LenProperties
<1>1. CASE UNCHANGED log
    BY <1>1 DEF log
<1>2. ASSUME NEW s \in Seq(Records), buf' = buf \o s, UNCHANGED <<disk, fence, want>>
      PROVE  LogType' /\ FencesHonest' /\ ToSet(disk) \subseteq ToSet(disk')
    BY <1>2, ConcatProperties
<1>3. ASSUME NEW f \in Coroutines, NEW r \in Records, EnqueueFenced(f, r)
      PROVE  LogType' /\ FencesHonest' /\ ToSet(disk) \subseteq ToSet(disk')
    <2>1. buf' \in Seq(Records) /\ <<r>> \in Seq(Records)
        BY <1>3, AppendProperties DEF EnqueueFenced
    <2> QED
        BY <1>3, <2>1 DEF EnqueueFenced
<1>4. ASSUME NEW f \in Coroutines, NEW answer \in FenceStates, Answered(f, answer)
      PROVE  LogType' /\ FencesHonest' /\ ToSet(disk) \subseteq ToSet(disk')
    <2>1. <<>> \in Seq(Records)
        BY EmptySeq
    <2> QED
        BY <1>4, <2>1 DEF Answered
<1>5. ASSUME NEW k \in 1..Len(buf), Persist(k)
      PROVE  LogType' /\ FencesHonest' /\ ToSet(disk) \subseteq ToSet(disk')
    <2> DEFINE batch == SubSeq(buf, 1, k)
    <2>1. batch \in Seq(Records) /\ buf' \in Seq(Records)
        BY <1>0, <1>5, PrefixProperties, SuffixProperties DEF Persist
    <2>2. disk' = disk \o batch /\ disk' \in Seq(Records)
        BY <1>5, <2>1, ConcatProperties DEF Persist
    <2>3. ToSet(disk') = ToSet(disk) \union ToSet(batch)
        <3>1. ToSet(disk \o batch) = ToSet(disk) \union ToSet(batch)
            <4>1. disk \in Seq(Records) /\ batch \in Seq(Records)
                BY <2>1
            <4> HIDE DEF batch, LogType, Coroutines, FenceStates, FencesHonest
            <4> QED
                BY <4>1, ToSetConcat
        <3> QED
            BY <2>2, <3>1
    <2> QED
        BY <1>5, <2>1, <2>2, <2>3 DEF Persist
<1>6. ASSUME NEW k \in 1..Len(buf), NEW j \in 0..k, Reject(k, j)
      PROVE  LogType' /\ FencesHonest' /\ ToSet(disk) \subseteq ToSet(disk')
    <2>1. SubSeq(buf, 1, j) \in Seq(Records) /\ buf' \in Seq(Records)
        BY <1>0, <1>6, PrefixProperties, SuffixProperties DEF Reject
    <2>2. disk' \in Seq(Records) /\ ToSet(disk) \subseteq ToSet(disk')
        BY <1>6, <2>1, ConcatProperties, ToSetGrows DEF Reject
    <2> QED
        BY <1>6, <2>1, <2>2 DEF Reject
<1>7. ASSUME NEW f \in DOMAIN fence, Stall(f)
      PROVE  LogType' /\ FencesHonest' /\ ToSet(disk) \subseteq ToSet(disk')
    BY <1>7 DEF Stall
<1>8. ASSUME NEW k \in 0..Len(buf), LogCrash(k)
      PROVE  LogType' /\ FencesHonest' /\ ToSet(disk) \subseteq ToSet(disk')
    <2>1. SubSeq(buf, 1, k) \in Seq(Records) /\ <<>> \in Seq(Records)
        BY <1>0, PrefixProperties, EmptySeq
    <2>2. disk' \in Seq(Records) /\ ToSet(disk) \subseteq ToSet(disk')
        BY <1>8, <2>1, ConcatProperties, ToSetGrows DEF LogCrash
    <2> QED
        BY <1>8, <2>1, <2>2 DEF LogCrash
<1> QED
    BY <1>1, <1>2, <1>3, <1>4, <1>5, <1>6, <1>7, <1>8 DEF LogMove

-----------------------------------------------------------------------------
(* Records and the stack                                                    *)

LEMMA StepSeq == StackType <=> stack \in Seq(StepRecords)
BY DEF StackType, StepRecords

LEMMA StepType ==
    ASSUME StackType, NEW i \in Called
    PROVE  /\ stack[i] \in StepRecords /\ stack[i].sem \in Semantics
           /\ stack[i].st \in States /\ stack[i].comp \in Comps
<1>1. stack[i] \in StepRecords
    BY StepSeq, ElementOfSeq DEF Called
<1> QED
    BY <1>1 DEF StepRecords

LEMMA RecType ==
    ASSUME StackType, Len(stack) <= MaxSteps,
           NEW ev \in Events, NEW i \in 0..Len(stack), NEW comp \in Comps
    PROVE  /\ Rec(ev, i) \in Records
           /\ CompRec(ev, i, comp) \in Records
           /\ CompRec(ev, i, comp).ev = ev /\ CompRec(ev, i, comp).step = i
           /\ CompRec(ev, i, comp).comp = comp
           /\ Rec(ev, i).ev = ev /\ Rec(ev, i).step = i /\ Rec(ev, i).comp = "none"
<1>1. Len(stack) \in Nat /\ MaxSteps \in Nat
    BY LenProperties, SagaAssumption DEF StackType
<1>2. i \in 0..MaxSteps
    BY <1>1
<1>3. i # 0 => stack[i].sem \in Semantics
    BY <1>1, StepType DEF Called
<1>4. (IF i = 0 THEN "-" ELSE stack[i].sem) \in Semantics \union {"-"}
    BY <1>3
<1> DEFINE sem == IF i = 0 THEN "-" ELSE stack[i].sem
<1>5. Rec(ev, i) = [ev |-> ev, step |-> i, sem |-> sem, comp |-> "none"]
    BY DEF Rec
<1>6. sem \in Semantics \union {"-"}
    BY <1>4
<1> HIDE DEF sem
<1>7. CompRec(ev, i, comp) = [ev |-> ev, step |-> i, sem |-> sem, comp |-> comp]
    BY <1>5 DEF CompRec
<1> QED
    BY <1>2, <1>5, <1>6, <1>7 DEF Records, Comps

LEMMA PutMoves ==
    ASSUME StackType, NEW i \in Called, NEW st \in States, NEW comp \in Comps,
           Put(i, st, comp)
    PROVE  /\ StackType' /\ Len(stack') = Len(stack)
           /\ stack'[i].st = st /\ stack'[i].comp = comp /\ stack'[i].sem = stack[i].sem
           /\ \A j \in Called : j # i => stack'[j] = stack[j]
<1> DEFINE e == [stack[i] EXCEPT !.st = st, !.comp = comp]
<1>1. stack[i] \in StepRecords
    BY StepType
<1>2. e \in StepRecords /\ e.st = st /\ e.comp = comp /\ e.sem = stack[i].sem
    BY <1>1 DEF StepRecords
<1>3. stack \in Seq(StepRecords) /\ i \in 1..Len(stack)
    BY StepSeq DEF Called
<1>4. stack' = [stack EXCEPT ![i] = e]
    BY <1>3 DEF Put
<1>5. /\ stack' \in Seq(StepRecords) /\ Len(stack') = Len(stack)
      /\ \A j \in 1..Len(stack) : stack'[j] = IF j = i THEN e ELSE stack[j]
    <2> HIDE DEF e
    <2> QED
        BY <1>2, <1>3, <1>4, ExceptSeq
<1>6. StackType'
    BY <1>5 DEF StackType, StepRecords
<1> QED
    BY <1>2, <1>5, <1>6 DEF Called

-----------------------------------------------------------------------------
(* A call that takes no part in a step                                      *)

LEMMA QuietCall ==
    ASSUME NEW i \in Steps, Recorded(i), ToSet(disk) \subseteq ToSet(disk'),
           call'[i] = "none" \/ (call'[i] = call[i] /\ want'[i] = want[i]),
           \/ effect'[i] = effect[i]
           \/ effect[i] # "none" /\ call'[i] # "forward",
           i \in Called <=> i \in Called',
           i \in Called => stack'[i].sem = stack[i].sem /\ stack'[i].comp = stack[i].comp
    PROVE  Recorded(i)'
<1>1. Placed(i)'
    BY DEF Recorded, Placed
<1>2. IntentFirst(i)'
    BY DEF Recorded, IntentFirst, OnDisk, Durable
<1>3. InverseFirst(i)'
    BY DEF Recorded, InverseFirst, Durable
<1> QED
    BY <1>1, <1>2, <1>3 DEF Recorded

-----------------------------------------------------------------------------
(* The scope's own steps                                                    *)

\* What a step of the scope leaves alone, and what it keeps well-formed.
ScopeFrame ==
    /\ LogMove /\ StackType' /\ ScopeType' /\ WorldType'
    /\ faults' \in 0..MaxFaults
    /\ UNCHANGED <<call, effect>>
    /\ \A i \in Steps : want'[i] = want[i]
    /\ Len(stack') = Len(stack)
    /\ \A i \in Called : stack'[i].sem = stack[i].sem /\ stack'[i].comp = stack[i].comp

LEMMA StackLength ==
    ASSUME IInv
    PROVE  /\ Len(stack) \in Nat /\ Len(stack) <= MaxSteps /\ MaxSteps \in Nat
           /\ Called \subseteq Steps
<1>1. Len(stack) \in Nat /\ MaxSteps \in Nat
    BY StepSeq, LenProperties, SagaAssumption DEF IInv, TypeOK
<1> QED
    BY <1>1 DEF IInv, Bounded, Called, Steps

LEMMA AppendIsMove ==
    ASSUME LogType, NEW r \in Records, Enqueue(r)
    PROVE  LogMove /\ UNCHANGED want
<1>1. <<r>> \in Seq(Records)
    OBVIOUS
<1>2. buf' = buf \o <<r>>
    BY AppendIsConcat DEF Enqueue, LogType
<1> QED
    BY <1>1, <1>2 DEF LogMove, Enqueue

LEMMA ScopeAppendMoves ==
    ASSUME IInv, NEW r \in Records, NEW next, ScopeAppend(r, next)
    PROVE  /\ LogMove /\ UNCHANGED want
           /\ pc' \in {next, "escaped"} /\ faults' \in 0..MaxFaults
<1>1. CASE Enqueue(r) /\ pc' = next /\ UNCHANGED faults
    BY <1>1, AppendIsMove DEF IInv, TypeOK
<1>2. CASE BufferFull /\ pc' = "escaped"
    BY <1>2, SagaAssumption DEF BufferFull, Fault, LogMove, log, IInv, TypeOK
<1> QED
    BY <1>1, <1>2 DEF ScopeAppend

LEMMA ScopeFenceMoves ==
    ASSUME IInv, NEW r \in Records, NEW waiting, NEW raised,
           ScopeFence(r, waiting, raised)
    PROVE  /\ LogMove /\ \A i \in Steps : want'[i] = want[i]
           /\ pc' \in {waiting, raised} /\ faults' \in 0..MaxFaults
<1>0. 0 \in Coroutines /\ \A i \in Steps : i # 0 /\ i \in Coroutines
    BY SagaAssumption DEF Coroutines, Steps
<1>1. CASE EnqueueFenced(0, r) /\ pc' = waiting /\ UNCHANGED faults
    <2>1. LogMove
        BY <1>0, <1>1 DEF LogMove
    <2>2. \A i \in Steps : want'[i] = want[i]
        BY <1>0, <1>1 DEF EnqueueFenced, IInv, TypeOK, LogType, Coroutines
    <2> QED
        BY <1>1, <2>1, <2>2 DEF IInv, TypeOK
<1>2. CASE BufferFull /\ pc' = raised
    BY <1>2, SagaAssumption DEF BufferFull, Fault, LogMove, log, IInv, TypeOK
<1> QED
    BY <1>1, <1>2 DEF ScopeFence

LEMMA AnsweredMoves ==
    ASSUME IInv, NEW f \in Coroutines, NEW answer \in FenceStates, Answered(f, answer)
    PROVE  LogMove /\ \A i \in Coroutines : i # f => want'[i] = want[i]
BY DEF LogMove, Answered, IInv, TypeOK, LogType, Coroutines

LEMMA ApplyType ==
    ASSUME WorldType, NEW i \in Steps, ApplyInProcess(i)
    PROVE  /\ undone' \in [Steps -> [saga : Nat, daemon : Nat]]
           /\ keySeen' \in [Steps -> BOOLEAN]
BY DEF WorldType, ApplyInProcess, Apply

LEMMA BoundaryMoves ==
    ASSUME IInv, Begin \/ Begun \/ Abort \/ Complete \/ Finished
    PROVE  ScopeFrame /\ Bounded'
<1> USE DEF IInv, TypeOK, ScopeType, Bounded
<1>0. /\ 0 \in 0..Len(stack) /\ 0 \in Coroutines /\ Steps \subseteq Coroutines /\ 0 \notin Steps
      /\ Len(stack) \in 0..MaxSteps /\ {"granted", "refused"} \subseteq FenceStates
    BY StackLength DEF Coroutines, Steps, FenceStates
<1>1. \A ev \in {"SAGA_START", "SAGA_COMPLETE", "SAGA_ABORT_CAUSE", "ROLLBACK_START"} :
          Rec(ev, 0) \in Records
    BY <1>0, RecType DEF Events, Comps
<1>2. UNCHANGED stack => StackType'
    BY DEF StackType
<1>3. UNCHANGED world => WorldType'
    BY DEF world, WorldType
<1>4. CASE Begin
    <2>1. ScopeFence(Rec("SAGA_START", 0), "beginning", "unbegun") /\ pc = "new"
          /\ UNCHANGED <<cursor, halted, heartbeat, call, stack, world>>
        BY <1>4 DEF Begin
    <2>2. /\ LogMove /\ \A i \in Steps : want'[i] = want[i]
          /\ pc' \in {"beginning", "unbegun"} /\ faults' \in 0..MaxFaults
        BY <1>1, <2>1, ScopeFenceMoves
    <2> QED
        BY <1>2, <1>3, <2>1, <2>2 DEF ScopeFrame, world
<1>5. CASE Begun
    <2>1. PICK answer \in {"granted", "refused"} : Answered(0, answer)
        BY <1>5 DEF Begun
    <2>2. LogMove /\ \A i \in Steps : want'[i] = want[i]
        BY <1>0, <2>1, AnsweredMoves
    <2>3. pc' \in {"body", "unbegun"} /\ heartbeat' \in BOOLEAN
          /\ UNCHANGED <<cursor, halted, call, stack, world, faults>>
        BY <1>5 DEF Begun
    <2> QED
        BY <1>2, <1>3, <2>2, <2>3 DEF ScopeFrame, world
<1>6. CASE Abort
    <2>1. LogMove /\ UNCHANGED want /\ pc' \in {"rollback", "escaped"} /\ faults' \in 0..MaxFaults
        <3>1. CASE /\ buf' = buf \o <<Rec("SAGA_ABORT_CAUSE", 0), Rec("ROLLBACK_START", 0)>>
                   /\ UNCHANGED <<disk, fence, want, faults>> /\ pc' = "rollback"
            <4>1. <<Rec("SAGA_ABORT_CAUSE", 0), Rec("ROLLBACK_START", 0)>> \in Seq(Records)
                BY <1>1
            <4> QED
                BY <3>1, <4>1 DEF LogMove
        <3>2. CASE BufferFull /\ pc' = "escaped"
            BY <3>2, SagaAssumption DEF BufferFull, Fault, LogMove, log
        <3> QED
            BY <1>6, <3>1, <3>2 DEF Abort
    <2>2. cursor' = Len(stack) /\ UNCHANGED <<halted, heartbeat, call, stack, world>>
        BY <1>6 DEF Abort
    <2> QED
        BY <1>0, <1>2, <1>3, <2>1, <2>2 DEF ScopeFrame, world
<1>7. CASE Complete
    <2>1. ScopeFence(Rec("SAGA_COMPLETE", 0), "completing", "unfinished")
          /\ heartbeat' = FALSE /\ UNCHANGED <<cursor, halted, call, stack, world>>
        BY <1>7 DEF Complete
    <2>2. /\ LogMove /\ \A i \in Steps : want'[i] = want[i]
          /\ pc' \in {"completing", "unfinished"} /\ faults' \in 0..MaxFaults
        BY <1>1, <2>1, ScopeFenceMoves
    <2> QED
        BY <1>2, <1>3, <2>1, <2>2 DEF ScopeFrame, world
<1>8. CASE Finished
    <2>1. PICK answer \in {"granted", "refused"} : Answered(0, answer)
        BY <1>8 DEF Finished
    <2>2. LogMove /\ \A i \in Steps : want'[i] = want[i]
        BY <1>0, <2>1, AnsweredMoves
    <2>3. pc' \in {"completed", "unfinished", "aborted", "escaped"}
          /\ UNCHANGED <<cursor, halted, heartbeat, call, stack, world, faults>>
        BY <1>8 DEF Finished
    <2> QED
        BY <1>2, <1>3, <2>2, <2>3 DEF ScopeFrame, world
<1> QED
    BY <1>4, <1>5, <1>6, <1>7, <1>8

LEMMA RollbackMoves ==
    ASSUME IInv, RollbackStep
    PROVE  ScopeFrame /\ Bounded'
<1> USE DEF IInv, TypeOK, ScopeType, Bounded
<1>0. /\ 0 \in 0..Len(stack) /\ 0 \in Coroutines /\ Steps \subseteq Coroutines /\ 0 \notin Steps
      /\ cursor > 0 => cursor \in Called /\ cursor \in Steps
      /\ cursor \in 0..Len(stack) /\ cursor > 0 => cursor - 1 \in 0..MaxSteps
      /\ Len(stack) \in Nat /\ {"granted", "refused"} \subseteq FenceStates
    BY StackLength DEF Coroutines, Steps, FenceStates, Called
<1>1. \A ev \in {"STEP_ORPHANED", "COMPENSATED", "COMPENSATION_FAILED"} :
          Rec(ev, cursor) \in Records
    BY <1>0, RecType DEF Events, Comps
<1>2. \A ev \in {"ROLLBACK_END", "SAGA_ABORTED"} : Rec(ev, 0) \in Records
    BY <1>0, RecType DEF Events, Comps
<1>3. UNCHANGED stack => StackType'
    BY DEF StackType
<1>4. UNCHANGED world => WorldType'
    BY DEF world, WorldType
\* What becomes of a step the rollback has dealt with.
<1>5. ASSUME cursor > 0, NEW st \in States, NEW comp, Put(cursor, st, comp),
             comp = stack[cursor].comp
      PROVE  /\ StackType' /\ Len(stack') = Len(stack)
             /\ \A i \in Called : stack'[i].sem = stack[i].sem /\ stack'[i].comp = stack[i].comp
    <2>1. comp \in Comps
        BY <1>0, <1>5, StepType
    <2> QED
        BY <1>0, <1>5, <2>1, PutMoves
<1>6. CASE PassOver
    <2>1. /\ StackType' /\ Len(stack') = Len(stack)
          /\ \A i \in Called : stack'[i].sem = stack[i].sem /\ stack'[i].comp = stack[i].comp
        <3>1. CASE halted /\ Put(cursor, "UNRESOLVED", stack[cursor].comp)
            BY <1>5, <1>6, <3>1 DEF PassOver, States
        <3>2. CASE UNCHANGED stack
            BY <1>3, <3>2
        <3> QED
            BY <1>6, <3>1, <3>2 DEF PassOver
    <2>2. /\ cursor > 0 /\ cursor' = cursor - 1 /\ pc = "rollback"
          /\ UNCHANGED <<log, pc, halted, heartbeat, call, world, faults>>
        BY <1>6 DEF PassOver
    <2>3. LogMove /\ UNCHANGED want
        BY <2>2 DEF LogMove, log
    <2> QED
        BY <1>0, <1>4, <2>1, <2>2, <2>3 DEF ScopeFrame, world
<1>7. CASE Orphan
    <2>1. /\ cursor > 0 /\ cursor' = cursor - 1 /\ pc = "rollback"
          /\ Put(cursor, "ORPHANED", "none") /\ stack[cursor].comp = "none"
          /\ ScopeAppend(Rec("STEP_ORPHANED", cursor), "rollback")
          /\ UNCHANGED <<halted, heartbeat, call, world>>
        BY <1>7 DEF Orphan, Due
    <2>2. /\ LogMove /\ UNCHANGED want
          /\ pc' \in {"rollback", "escaped"} /\ faults' \in 0..MaxFaults
        BY <1>1, <2>1, ScopeAppendMoves
    <2>3. /\ StackType' /\ Len(stack') = Len(stack)
          /\ \A i \in Called : stack'[i].sem = stack[i].sem /\ stack'[i].comp = stack[i].comp
        BY <1>5, <2>1 DEF States
    <2> QED
        BY <1>0, <1>4, <2>1, <2>2, <2>3 DEF ScopeFrame, world
<1>8. CASE Undo
    <2>1. /\ cursor > 0 /\ pc' = "undoing"
          /\ UNCHANGED <<log, cursor, halted, heartbeat, call, stack, world, faults>>
        BY <1>8 DEF Undo, Due
    <2>2. LogMove /\ UNCHANGED want
        BY <2>1 DEF LogMove, log
    <2> QED
        BY <1>0, <1>3, <1>4, <2>1, <2>2 DEF ScopeFrame, world
<1>9. ASSUME NEW st \in {"COMPENSATED", "COMPENSATION_FAILED"}, pc = "undoing",
             Put(cursor, st, stack[cursor].comp), ScopeAppend(Rec(st, cursor), "rollback"),
             cursor' = cursor - 1, halted' \in BOOLEAN, UNCHANGED <<heartbeat, call, effect>>,
             ApplyInProcess(cursor) \/ UNCHANGED <<undone, keySeen>>
      PROVE  ScopeFrame /\ Bounded'
    <2>1. cursor > 0
        BY <1>9
    <2>2. /\ LogMove /\ UNCHANGED want
          /\ pc' \in {"rollback", "escaped"} /\ faults' \in 0..MaxFaults
        BY <1>1, <1>9, ScopeAppendMoves
    <2>3. /\ StackType' /\ Len(stack') = Len(stack)
          /\ \A i \in Called : stack'[i].sem = stack[i].sem /\ stack'[i].comp = stack[i].comp
        BY <1>5, <1>9, <2>1 DEF States
    <2>4. WorldType'
        BY <1>0, <1>9, <2>1, ApplyType DEF WorldType
    <2> QED
        BY <1>0, <1>9, <2>1, <2>2, <2>3, <2>4 DEF ScopeFrame
<1>10. CASE UndoOk
    BY <1>9, <1>10 DEF UndoOk
<1>11. CASE UndoFails
    <2>1. HaltOnFailure \in BOOLEAN
        BY SagaAssumption
    <2> QED
        BY <1>9, <1>11, <2>1 DEF UndoFails
<1>12. CASE RollbackEnd
    <2>1. ScopeFence(Rec("ROLLBACK_END", 0), "rolledBack", "escaped")
          /\ UNCHANGED <<cursor, halted, heartbeat, call, stack, world>>
        BY <1>12 DEF RollbackEnd
    <2>2. /\ LogMove /\ \A i \in Steps : want'[i] = want[i]
          /\ pc' \in {"rolledBack", "escaped"} /\ faults' \in 0..MaxFaults
        BY <1>2, <2>1, ScopeFenceMoves
    <2> QED
        BY <1>3, <1>4, <2>1, <2>2 DEF ScopeFrame, world
<1>13. CASE FinishAborted
    <2>1. ScopeFence(Rec("SAGA_ABORTED", 0), "aborting", "escaped")
          /\ heartbeat' = FALSE /\ UNCHANGED <<cursor, halted, call, stack, world>>
        BY <1>13 DEF FinishAborted
    <2>2. /\ LogMove /\ \A i \in Steps : want'[i] = want[i]
          /\ pc' \in {"aborting", "escaped"} /\ faults' \in 0..MaxFaults
        BY <1>2, <2>1, ScopeFenceMoves
    <2> QED
        BY <1>3, <1>4, <2>1, <2>2 DEF ScopeFrame, world
<1>14. CASE RollbackEndRefused
    <2>1. Answered(0, "refused") /\ pc' = "escaped"
          /\ UNCHANGED <<cursor, halted, heartbeat, call, stack, world, faults>>
        BY <1>14 DEF RollbackEndRefused
    <2>2. LogMove /\ \A i \in Steps : want'[i] = want[i]
        BY <1>0, <2>1, AnsweredMoves
    <2> QED
        BY <1>3, <1>4, <2>1, <2>2 DEF ScopeFrame, world
<1> QED
    BY <1>6, <1>7, <1>8, <1>10, <1>11, <1>12, <1>13, <1>14 DEF RollbackStep

LEMMA ScopeKeeps ==
    ASSUME IInv, ScopeStep
    PROVE  IInv'
<1>1. ScopeFrame /\ Bounded'
    BY BoundaryMoves, RollbackMoves DEF ScopeStep
<1>2. LogType' /\ FencesHonest' /\ ToSet(disk) \subseteq ToSet(disk')
    BY <1>1, LogMoves DEF ScopeFrame, IInv, TypeOK
<1>3. CallType'
    BY <1>1 DEF ScopeFrame, CallType, IInv, TypeOK
<1>4. ASSUME NEW i \in Steps PROVE Recorded(i)'
    <2>1. Recorded(i) /\ (i \in Called <=> i \in Called')
        BY <1>1 DEF ScopeFrame, IInv, Called
    <2> QED
        BY <1>1, <1>2, <2>1, QuietCall DEF ScopeFrame
<1> QED
    BY <1>1, <1>2, <1>3, <1>4 DEF ScopeFrame, IInv, TypeOK, Steps

-----------------------------------------------------------------------------
(* The steps of a call                                                      *)

CallPlaces == {"none", "intent", "forward", "commit", "fallback",
               "unknown", "returned", "raised"}

\* What a step of call i leaves alone, and what it keeps well-formed.
CallFrame(i) ==
    /\ LogMove /\ StackType' /\ CallType' /\ WorldType'
    /\ faults' \in 0..MaxFaults
    /\ UNCHANGED <<pc, cursor, halted, heartbeat, undone, keySeen>>
    /\ Bounded'
    /\ \A j \in Steps : j # i =>
          /\ want'[j] = want[j] /\ call'[j] = call[j] /\ effect'[j] = effect[j]
          /\ j \in Called <=> j \in Called'
          /\ j \in Called => stack'[j] = stack[j]

\* A call takes one step of its own, and the others stand still.
LEMMA CallKeeps ==
    ASSUME IInv, NEW i \in Steps, CallFrame(i), Recorded(i)'
    PROVE  IInv'
<1>1. LogType' /\ FencesHonest' /\ ToSet(disk) \subseteq ToSet(disk')
    BY LogMoves DEF CallFrame, IInv, TypeOK
<1>2. ScopeType'
    BY DEF CallFrame, ScopeType, IInv, TypeOK
<1>3. ASSUME NEW j \in Steps PROVE Recorded(j)'
    <2>1. CASE j = i
        BY <2>1
    <2>2. CASE j # i
        <3>1. Recorded(j)
            BY DEF IInv
        <3> QED
            BY <1>1, <2>2, <3>1, QuietCall DEF CallFrame
    <2> QED
        BY <2>1, <2>2
<1> QED
    BY <1>1, <1>2, <1>3 DEF CallFrame, IInv, TypeOK, Steps

LEMMA CallAppendMoves ==
    ASSUME IInv, NEW i \in Steps, NEW r \in Records, NEW fenced \in BOOLEAN,
           NEW waiting \in CallPlaces, NEW next \in CallPlaces,
           CallAppend(i, r, fenced, waiting, next)
    PROVE  /\ LogMove /\ CallType' /\ faults' \in 0..MaxFaults
           /\ \A j \in Steps : j # i => want'[j] = want[j] /\ call'[j] = call[j]
           /\ \/ fenced /\ want'[i] = <<r>> /\ call'[i] = waiting
              \/ ~fenced /\ call'[i] = next
              \/ call'[i] = "raised"
<1>0. i \in Coroutines /\ Steps \subseteq Coroutines
    BY SagaAssumption DEF Coroutines, Steps
<1>1. ASSUME NEW place \in CallPlaces, At(i, place)
      PROVE  /\ CallType' /\ call'[i] = place
             /\ \A j \in Steps : j # i => call'[j] = call[j]
    BY <1>1 DEF At, CallType, CallPlaces, IInv, TypeOK
<1>2. CASE fenced /\ EnqueueFenced(i, r) /\ At(i, waiting) /\ UNCHANGED faults
    <2>1. LogMove
        BY <1>0, <1>2 DEF LogMove
    <2>2. want'[i] = <<r>> /\ \A j \in Steps : j # i => want'[j] = want[j]
        BY <1>0, <1>2 DEF EnqueueFenced, IInv, TypeOK, LogType, Coroutines
    <2> QED
        BY <1>1, <1>2, <2>1, <2>2 DEF IInv, TypeOK
<1>3. CASE ~fenced /\ Enqueue(r) /\ At(i, next) /\ UNCHANGED faults
    BY <1>1, <1>3, AppendIsMove DEF IInv, TypeOK
<1>4. CASE BufferFull /\ At(i, "raised")
    <2>1. LogMove /\ UNCHANGED want /\ faults' \in 0..MaxFaults
        BY <1>4, SagaAssumption DEF BufferFull, Fault, LogMove, log, IInv, TypeOK
    <2> QED
        BY <1>1, <1>4, <2>1 DEF CallPlaces
<1> QED
    BY <1>2, <1>3, <1>4 DEF CallAppend

\* A call that is in flight is on the stack.
LEMMA InFlightCalled ==
    ASSUME IInv, NEW i \in Steps, call[i] # "none"
    PROVE  i \in Called
BY DEF IInv, Recorded, Placed

LEMMA ExecuteMoves ==
    ASSUME IInv, NEW i \in Steps, i \in NewSteps, NEW sem \in Semantics, Execute(i, sem)
    PROVE  CallFrame(i) /\ Recorded(i)'
<1> DEFINE r == [ev |-> "STEP_INTENT", step |-> i, sem |-> sem, comp |-> "none"]
           e == [sem |-> sem, st |-> "INTENT_LOGGED", comp |-> "none"]
<1>1. /\ r \in Records /\ r.ev = "STEP_INTENT" /\ r.step = i
      /\ e \in StepRecords /\ e.sem = sem
      /\ i \in 0..MaxSteps
    BY SagaAssumption DEF Records, Events, Comps, StepRecords, States, Steps
<1> HIDE DEF r, e
<1>2. /\ i = Len(stack) + 1 /\ pc = "body" /\ stack' = Append(stack, e)
      /\ CallAppend(i, r, sem # "REVERSIBLE", "intent", "forward")
      /\ effect' = IF call'[i] = "forward" THEN [effect EXCEPT ![i] = "running"] ELSE effect
      /\ UNCHANGED <<pc, cursor, halted, heartbeat, undone, keySeen>>
    BY DEF Execute, NewSteps, r, e, scope
<1>3. /\ StackType' /\ Len(stack') = Len(stack) + 1 /\ stack'[i].sem = sem
      /\ \A j \in Called : stack'[j] = stack[j]
    <2>1. stack \in Seq(StepRecords)
        BY StepSeq DEF IInv, TypeOK
    <2>2. /\ stack' \in Seq(StepRecords) /\ Len(stack') = Len(stack) + 1
          /\ stack'[Len(stack) + 1] = e /\ \A j \in 1..Len(stack) : stack'[j] = stack[j]
        BY <1>1, <1>2, <2>1, AppendProperties
    <2> QED
        BY <1>1, <1>2, <2>2 DEF StackType, StepRecords, Called
<1>4. /\ LogMove /\ CallType' /\ faults' \in 0..MaxFaults
      /\ \A j \in Steps : j # i => want'[j] = want[j] /\ call'[j] = call[j]
      /\ \/ sem # "REVERSIBLE" /\ want'[i] = <<r>> /\ call'[i] = "intent"
         \/ sem = "REVERSIBLE" /\ call'[i] = "forward"
         \/ call'[i] = "raised"
    BY <1>1, <1>2, CallAppendMoves DEF CallPlaces
<1>5. effect \in [Steps -> {"none", "running", "landed"}] /\ effect[i] = "none"
    <2>1. i \notin Called
        BY <1>2, StackLength DEF Called
    <2> QED
        BY <2>1 DEF IInv, TypeOK, WorldType, Recorded, Placed
<1>6. CallFrame(i)
    <2>1. Bounded'
        BY <1>2, <1>3, StackLength DEF Bounded, IInv, Steps, TypeOK, ScopeType
    <2>2. WorldType'
        BY <1>2, <1>5 DEF WorldType, IInv, TypeOK
    <2>3. \A j \in Steps : j # i => (j \in Called <=> j \in Called')
        BY <1>2, <1>3, StackLength DEF Called, Steps
    <2> QED
        BY <1>2, <1>3, <1>4, <1>5, <2>1, <2>2, <2>3 DEF CallFrame
<1>7. Recorded(i)'
    <2>1. i \in Called' /\ Called' = 1..Len(stack')
        BY <1>2, <1>3, StackLength DEF Called
    <2>2. Placed(i)'
        BY <1>1, <1>2, <1>4, <1>5, <2>1 DEF Placed
    <2>3. IntentFirst(i)'
        BY <1>2, <1>3, <1>4, <1>5 DEF IntentFirst, Durable
    <2>4. InverseFirst(i)'
        BY <1>4 DEF InverseFirst
    <2> QED
        BY <2>2, <2>3, <2>4 DEF Recorded
<1> QED
    BY <1>6, <1>7

\* A step of call i that may put a new state and inverse on its step, or not.
LEMMA PutFrame ==
    ASSUME IInv, NEW i \in Steps, i \in Called, LogMove, CallType', faults' \in 0..MaxFaults,
           UNCHANGED <<pc, cursor, halted, heartbeat, undone, keySeen>>,
           \A j \in Steps : j # i => want'[j] = want[j] /\ call'[j] = call[j],
           \/ UNCHANGED stack
           \/ \E st \in States, comp \in Comps : Put(i, st, comp),
           \/ UNCHANGED effect
           \/ \E out \in {"none", "running", "landed"} : effect' = [effect EXCEPT ![i] = out],
           pc # "dead"
    PROVE  CallFrame(i) /\ Called' = Called /\ stack'[i].sem = stack[i].sem
<1>1. /\ StackType' /\ Len(stack') = Len(stack) /\ stack'[i].sem = stack[i].sem
      /\ \A j \in Called : j # i => stack'[j] = stack[j]
    <2>1. CASE UNCHANGED stack
        BY <2>1 DEF StackType, IInv, TypeOK
    <2>2. ASSUME NEW st \in States, NEW comp \in Comps, Put(i, st, comp)
          PROVE  /\ StackType' /\ Len(stack') = Len(stack) /\ stack'[i].sem = stack[i].sem
                 /\ \A j \in Called : j # i => stack'[j] = stack[j]
        BY <2>2, PutMoves DEF IInv, TypeOK
    <2> QED
        BY <2>1, <2>2
<1>2. Called' = Called
    BY <1>1 DEF Called
<1>3. WorldType' /\ \A j \in Steps : j # i => effect'[j] = effect[j]
    BY DEF WorldType, IInv, TypeOK
<1>4. Bounded'
    <2>1. stack # <<>>
        BY DEF Called
    <2> QED
        BY <1>1, <2>1 DEF Bounded, IInv
<1> QED
    BY <1>1, <1>2, <1>3, <1>4 DEF CallFrame

\* A process with a call in flight is alive.
LEMMA InFlightAlive ==
    ASSUME IInv, NEW i \in Steps, call[i] # "none"
    PROVE  pc # "dead" /\ i \in Coroutines /\ i \in Called
BY InFlightCalled, SagaAssumption DEF IInv, Bounded, Coroutines, Steps

LEMMA IntentAnsweredMoves ==
    ASSUME IInv, NEW i \in Steps, IntentAnswered(i)
    PROVE  CallFrame(i) /\ Recorded(i)'
<1>1. /\ call[i] = "intent" /\ pc # "dead" /\ i \in Coroutines /\ i \in Called
      /\ UNCHANGED <<pc, cursor, halted, heartbeat, undone, keySeen, stack, faults>>
    BY InFlightAlive DEF IntentAnswered, scope
<1>2. PICK answer \in {"granted", "refused"} :
          /\ Answered(i, answer)
          /\ \/ /\ answer = "granted" /\ At(i, "forward")
                /\ effect' = [effect EXCEPT ![i] = "running"]
             \/ answer = "refused" /\ At(i, "raised") /\ UNCHANGED effect
    BY DEF IntentAnswered
<1>3. LogMove /\ \A j \in Steps : j # i => want'[j] = want[j]
    BY <1>1, <1>2, AnsweredMoves, SagaAssumption DEF FenceStates, Coroutines, Steps
<1>4. /\ CallType' /\ call'[i] \in {"forward", "raised"}
      /\ call'[i] = "forward" => answer = "granted" /\ effect'[i] = "running"
      /\ call'[i] = "raised" => effect'[i] = effect[i]
      /\ \A j \in Steps : j # i => call'[j] = call[j]
    BY <1>2 DEF At, CallType, WorldType, IInv, TypeOK
<1>5. CallFrame(i) /\ Called' = Called
    <2>1. faults' \in 0..MaxFaults
        BY <1>1 DEF IInv, TypeOK
    <2> QED
        BY <1>1, <1>2, <1>3, <1>4, <2>1, PutFrame
<1>6. answer = "granted" => OnDisk("STEP_INTENT", i)'
    <2> SUFFICES ASSUME answer = "granted" PROVE OnDisk("STEP_INTENT", i)'
        OBVIOUS
    <2>1. PICK r \in Records : want[i] = <<r>> /\ r.ev = "STEP_INTENT" /\ r.step = i
        BY <1>1 DEF IInv, Recorded, Placed
    <2>2. ToSet(want[i]) \subseteq ToSet(disk) /\ disk' = disk
        BY <1>1, <1>2 DEF IInv, FencesHonest, Answered
    <2>3. r \in ToSet(want[i])
        BY <2>1 DEF ToSet
    <2> QED
        BY <2>1, <2>2, <2>3 DEF OnDisk
<1>7. Recorded(i)'
    <2>1. Placed(i)'
        BY <1>1, <1>4, <1>5 DEF Placed
    <2>2. IntentFirst(i)'
        <3>1. CASE call'[i] = "forward"
            BY <1>4, <1>6, <3>1 DEF IntentFirst
        <3>2. CASE call'[i] = "raised"
            BY <1>1, <1>2, <1>4, <1>5, <3>2 DEF IntentFirst, IInv, Recorded, Durable, OnDisk, Answered
        <3> QED
            BY <1>4, <3>1, <3>2
    <2>3. InverseFirst(i)'
        BY <1>4 DEF InverseFirst
    <2> QED
        BY <2>1, <2>2, <2>3 DEF Recorded
<1> QED
    BY <1>5, <1>7

\* An intent that is on disk stays there.
LEMMA IntentStays ==
    ASSUME IInv, NEW i \in Steps, i \in Called, effect[i] # "none", LogMove,
           stack'[i].sem = stack[i].sem
    PROVE  IntentFirst(i)'
<1>1. ToSet(disk) \subseteq ToSet(disk')
    BY LogMoves DEF IInv, TypeOK
<1>2. IntentFirst(i)
    BY DEF IInv, Recorded
<1> QED
    BY <1>1, <1>2 DEF IntentFirst, OnDisk, Durable

LEMMA ForwardRuns ==
    ASSUME IInv, NEW i \in Steps, call[i] = "forward"
    PROVE  effect[i] = "running"
BY DEF IInv, Recorded, Placed

LEMMA OutcomeType ==
    Ambiguous \subseteq {"none", "running", "landed"}
    /\ CompKinds \subseteq Comps /\ DurableCommit \in BOOLEAN
    /\ \A i \in Called : Durable(i) \in BOOLEAN
BY SagaAssumption DEF Ambiguous, Comps, Durable

LEMMA ForwardOkMoves ==
    ASSUME IInv, NEW i \in Steps, NEW comp \in CompKinds, ForwardOk(i, comp)
    PROVE  CallFrame(i) /\ Recorded(i)'
<1> DEFINE r == CompRec("STEP_COMMITTED", i, comp)
<1>1. /\ call[i] = "forward" /\ effect[i] = "running"
      /\ pc # "dead" /\ i \in Coroutines /\ i \in Called
      /\ effect' = [effect EXCEPT ![i] = "landed"] /\ Put(i, "COMMITTED", comp)
      /\ CallAppend(i, r, DurableCommit /\ Durable(i), "commit", "returned")
      /\ UNCHANGED <<pc, cursor, halted, heartbeat, undone, keySeen>>
    BY InFlightAlive, ForwardRuns DEF ForwardOk, scope
<1>2. /\ r \in Records /\ r.ev = "STEP_COMMITTED" /\ r.step = i /\ r.comp = comp
      /\ comp \in Comps /\ (DurableCommit /\ Durable(i)) \in BOOLEAN
    BY <1>1, RecType, StackLength, OutcomeType DEF IInv, TypeOK, Called, Events
<1> HIDE DEF r
<1>3. /\ LogMove /\ CallType' /\ faults' \in 0..MaxFaults
      /\ \A j \in Steps : j # i => want'[j] = want[j] /\ call'[j] = call[j]
      /\ \/ DurableCommit /\ Durable(i) /\ want'[i] = <<r>> /\ call'[i] = "commit"
         \/ ~(DurableCommit /\ Durable(i)) /\ call'[i] = "returned"
         \/ call'[i] = "raised"
    <2>1. "commit" \in CallPlaces /\ "returned" \in CallPlaces
        BY DEF CallPlaces
    <2> QED
        <3> DEFINE fenced == DurableCommit /\ Durable(i)
        <3>1. CallAppend(i, r, fenced, "commit", "returned") /\ fenced \in BOOLEAN /\ r \in Records
            BY <1>1, <1>2
        <3> HIDE DEF fenced
        <3>2. /\ LogMove /\ CallType' /\ faults' \in 0..MaxFaults
              /\ \A j \in Steps : j # i => want'[j] = want[j] /\ call'[j] = call[j]
              /\ \/ fenced /\ want'[i] = <<r>> /\ call'[i] = "commit"
                 \/ ~fenced /\ call'[i] = "returned"
                 \/ call'[i] = "raised"
            BY <2>1, <3>1, CallAppendMoves
        <3> QED
            BY <3>2 DEF fenced
<1>4. CallFrame(i) /\ Called' = Called /\ stack'[i].sem = stack[i].sem
    <2>1. "COMMITTED" \in States
        BY DEF States
    <2> QED
        BY <1>1, <1>2, <1>3, <2>1, PutFrame
<1>5. stack'[i].comp = comp
    BY <1>1, <1>2, PutMoves DEF States, IInv, TypeOK
<1>6. Recorded(i)'
    <2>1. Placed(i)'
        BY <1>1, <1>2, <1>3, <1>4, <1>5 DEF Placed
    <2>2. IntentFirst(i)'
        BY <1>1, <1>3, <1>4, IntentStays
    <2>3. InverseFirst(i)'
        BY <1>3, <1>4 DEF InverseFirst, Durable
    <2> QED
        BY <2>1, <2>2, <2>3 DEF Recorded
<1> QED
    BY <1>4, <1>6

\* The exception path, from the forward call or from the fallback's own fence.
LEMMA MarkUnknownMoves ==
    ASSUME IInv, NEW i \in Steps, NEW comp \in CompKinds, MarkUnknown(i, comp),
           call[i] # "none",
           \/ UNCHANGED effect
           \/ effect[i] # "none" /\ \E out \in Ambiguous : effect' = [effect EXCEPT ![i] = out],
           UNCHANGED <<pc, cursor, halted, heartbeat, undone, keySeen>>
    PROVE  CallFrame(i) /\ Recorded(i)'
<1> DEFINE r == CompRec("STEP_UNKNOWN", i, comp)
<1>1. /\ pc # "dead" /\ i \in Coroutines /\ i \in Called
      /\ Put(i, "UNKNOWN", comp) /\ CallAppend(i, r, Durable(i), "unknown", "raised")
    BY InFlightAlive DEF MarkUnknown
<1>2. r \in Records /\ comp \in Comps /\ Durable(i) \in BOOLEAN
    BY <1>1, RecType, StackLength, OutcomeType DEF IInv, TypeOK, Called, Events
<1> HIDE DEF r
<1>3. /\ LogMove /\ CallType' /\ faults' \in 0..MaxFaults
      /\ \A j \in Steps : j # i => want'[j] = want[j] /\ call'[j] = call[j]
      /\ call'[i] \in {"unknown", "raised"}
    <2>1. "unknown" \in CallPlaces /\ "raised" \in CallPlaces
        BY DEF CallPlaces
    <2> QED
        BY <1>1, <1>2, <2>1, CallAppendMoves
<1>4. CallFrame(i) /\ Called' = Called /\ stack'[i].sem = stack[i].sem
    <2>1. "UNKNOWN" \in States
        BY DEF States
    <2> QED
        BY <1>1, <1>2, <1>3, <2>1, OutcomeType, PutFrame
<1>5. Recorded(i)'
    <2>1. Placed(i)'
        BY <1>1, <1>3, <1>4 DEF Placed
    <2>2. IntentFirst(i)'
        <3>1. CASE effect[i] = "none"
            BY <3>1 DEF IntentFirst
        <3>2. CASE effect[i] # "none"
            BY <1>1, <1>3, <1>4, <3>2, IntentStays
        <3> QED
            BY <3>1, <3>2
    <2>3. InverseFirst(i)'
        BY <1>3 DEF InverseFirst
    <2> QED
        BY <2>1, <2>2, <2>3 DEF Recorded
<1> QED
    BY <1>4, <1>5

LEMMA FailureMoves ==
    ASSUME IInv, NEW i \in Steps, NEW comp \in CompKinds,
           (\E out \in Ambiguous : ForwardFails(i, comp, out)) \/ FallbackRefused(i, comp)
    PROVE  CallFrame(i) /\ Recorded(i)'
<1>1. ASSUME NEW out \in Ambiguous, ForwardFails(i, comp, out) PROVE CallFrame(i) /\ Recorded(i)'
    BY <1>1, ForwardRuns, MarkUnknownMoves DEF ForwardFails, scope
<1>2. CASE FallbackRefused(i, comp)
    BY <1>2, MarkUnknownMoves DEF FallbackRefused, scope, world
<1> QED
    BY <1>1, <1>2

LEMMA FallbackOkMoves ==
    ASSUME IInv, NEW i \in Steps, NEW out \in Ambiguous, FallbackOk(i, out)
    PROVE  CallFrame(i) /\ Recorded(i)'
<1> DEFINE r == Rec("COMPLETED_VIA_FALLBACK", i)
<1>1. /\ call[i] = "forward" /\ effect[i] = "running"
      /\ pc # "dead" /\ i \in Coroutines /\ i \in Called
      /\ effect' = [effect EXCEPT ![i] = out] /\ Put(i, "COMPLETED_VIA_FALLBACK", "none")
      /\ CallAppend(i, r, DurableCommit /\ Durable(i), "fallback", "returned")
      /\ \/ DurableCommit /\ Durable(i) /\ At(i, "fallback")
         \/ ~(DurableCommit /\ Durable(i)) /\ At(i, "returned")
      /\ UNCHANGED <<pc, cursor, halted, heartbeat, undone, keySeen>>
    BY InFlightAlive, ForwardRuns DEF FallbackOk, scope, CallAppend
<1>2. /\ r \in Records /\ r.ev = "COMPLETED_VIA_FALLBACK" /\ r.step = i /\ r.comp = "none"
      /\ (DurableCommit /\ Durable(i)) \in BOOLEAN /\ "none" \in Comps
    <2>1. i \in 0..Len(stack) /\ "none" \in Comps /\ "COMPLETED_VIA_FALLBACK" \in Events
        BY <1>1, StackLength DEF Called, Comps, Events
    <2> QED
        BY <1>1, <2>1, RecType, StackLength, OutcomeType DEF IInv, TypeOK
<1> HIDE DEF r
<1>3. /\ LogMove /\ CallType' /\ faults' \in 0..MaxFaults
      /\ \A j \in Steps : j # i => want'[j] = want[j] /\ call'[j] = call[j]
      /\ \/ DurableCommit /\ Durable(i) /\ want'[i] = <<r>> /\ call'[i] = "fallback"
         \/ ~(DurableCommit /\ Durable(i)) /\ call'[i] = "returned"
         \/ call'[i] = "raised"
    <2>1. "fallback" \in CallPlaces /\ "returned" \in CallPlaces
        BY DEF CallPlaces
    <2> QED
        BY <1>1, <1>2, <2>1, CallAppendMoves
<1>4. CallFrame(i) /\ Called' = Called /\ stack'[i].sem = stack[i].sem
    <2>1. "COMPLETED_VIA_FALLBACK" \in States
        BY DEF States
    <2> QED
        BY <1>1, <1>2, <1>3, <2>1, OutcomeType, PutFrame
<1>5. stack'[i].comp = "none"
    BY <1>1, <1>2, PutMoves DEF States, IInv, TypeOK
<1>6. Recorded(i)'
    <2>1. Placed(i)'
        BY <1>1, <1>2, <1>3, <1>4, <1>5 DEF Placed
    <2>2. IntentFirst(i)'
        BY <1>1, <1>3, <1>4, IntentStays
    <2>3. InverseFirst(i)'
        BY <1>3, <1>4 DEF InverseFirst, Durable
    <2> QED
        BY <2>1, <2>2, <2>3 DEF Recorded
<1> QED
    BY <1>4, <1>6

LEMMA CallAnsweredMoves ==
    ASSUME IInv, NEW i \in Steps, CallAnswered(i)
    PROVE  CallFrame(i) /\ Recorded(i)'
<1>1. /\ call[i] \in {"commit", "fallback", "unknown"}
      /\ UNCHANGED <<pc, cursor, halted, heartbeat, effect, undone, keySeen, stack, faults>>
    BY DEF CallAnswered, scope, world
<1>2. pc # "dead" /\ i \in Coroutines /\ i \in Called
    BY <1>1, InFlightAlive
<1>3. PICK answer \in {"granted", "refused"}, place \in {"returned", "raised"} :
          /\ Answered(i, answer) /\ At(i, place)
          /\ place = "returned" => answer = "granted" /\ call[i] \in {"commit", "fallback"}
    BY DEF CallAnswered
<1>4. LogMove /\ \A j \in Steps : j # i => want'[j] = want[j]
    BY <1>2, <1>3, AnsweredMoves, SagaAssumption DEF FenceStates, Coroutines, Steps
<1>5. /\ CallType' /\ call'[i] = place
      /\ \A j \in Steps : j # i => call'[j] = call[j]
    BY <1>3 DEF At, CallType, IInv, TypeOK
<1>6. CallFrame(i) /\ Called' = Called /\ stack'[i].sem = stack[i].sem
    <2>1. faults' \in 0..MaxFaults
        BY <1>1 DEF IInv, TypeOK
    <2> QED
        BY <1>1, <1>2, <1>4, <1>5, <2>1, PutFrame
<1>7. Recorded(i)'
    <2>1. Placed(i)'
        BY <1>2, <1>3, <1>5, <1>6 DEF Placed
    <2>2. IntentFirst(i)'
        <3>1. CASE effect[i] = "none"
            BY <1>1, <3>1 DEF IntentFirst
        <3>2. CASE effect[i] # "none"
            BY <1>2, <1>4, <1>6, <3>2, IntentStays
        <3> QED
            BY <3>1, <3>2
    <2>3. InverseFirst(i)'
        <3>1. CASE place = "raised"
            BY <1>5, <3>1 DEF InverseFirst
        <3>2. CASE place = "returned"
            <4>1. PICK r \in Records :
                      /\ want[i] = <<r>> /\ r.step = i /\ r.comp = stack[i].comp
                      /\ r.ev \in {"STEP_COMMITTED", "COMPLETED_VIA_FALLBACK"}
                BY <1>3, <3>2 DEF IInv, Recorded, Placed
            <4>2. ToSet(want[i]) \subseteq ToSet(disk) /\ disk' = disk
                BY <1>2, <1>3, <3>2 DEF IInv, FencesHonest, Answered
            <4>3. r \in ToSet(want[i])
                BY <4>1 DEF ToSet
            <4> QED
                BY <1>1, <4>1, <4>2, <4>3 DEF InverseFirst
        <3> QED
            BY <1>3, <3>1, <3>2
    <2> QED
        BY <2>1, <2>2, <2>3 DEF Recorded
<1> QED
    BY <1>6, <1>7

LEMMA CallStepMoves ==
    ASSUME IInv, NEW i \in Steps, CallStep(i)
    PROVE  CallFrame(i) /\ Recorded(i)'
BY ExecuteMoves, IntentAnsweredMoves, ForwardOkMoves, FailureMoves, FallbackOkMoves,
   CallAnsweredMoves DEF CallStep

LEMMA CallStepKeeps ==
    ASSUME IInv, NEW i \in Steps, CallStep(i)
    PROVE  IInv'
BY CallStepMoves, CallKeeps

-----------------------------------------------------------------------------
(* The world, the sink and the end of the process                           *)

\* A timed-out call that lands takes no step of the saga.
LEMMA LateLandingKeeps ==
    ASSUME IInv, NEW i \in Steps, LateLanding(i)
    PROVE  IInv'
<1>1. /\ effect[i] = "running" /\ effect' = [effect EXCEPT ![i] = "landed"]
      /\ call[i] # "forward" \/ pc = "dead"
      /\ UNCHANGED <<buf, disk, fence, want, pc, cursor, halted, heartbeat, call, stack,
                     undone, keySeen, faults>>
    BY DEF LateLanding, Alive, log, scope
<1>2. call[i] # "forward"
    BY <1>1 DEF IInv, Bounded
<1>3. TypeOK' /\ FencesHonest' /\ Bounded'
    <2>1. WorldType'
        BY <1>1 DEF IInv, TypeOK, WorldType
    <2>2. LogType' /\ StackType' /\ ScopeType' /\ CallType' /\ faults' \in 0..MaxFaults
        BY <1>1 DEF IInv, TypeOK, LogType, StackType, ScopeType, CallType
    <2>3. FencesHonest' /\ Bounded'
        BY <1>1 DEF IInv, FencesHonest, Bounded
    <2> QED
        BY <2>1, <2>2, <2>3 DEF TypeOK
<1>4. ASSUME NEW j \in Steps PROVE Recorded(j)'
    <2>1. effect'[j] = effect[j] \/ (effect[j] # "none" /\ call'[j] # "forward")
        BY <1>1, <1>2 DEF IInv, TypeOK, WorldType
    <2>2. Recorded(j) /\ (j \in Called <=> j \in Called')
        BY <1>1 DEF IInv, Called
    <2> QED
        BY <1>1, <2>1, <2>2, QuietCall
<1> QED
    BY <1>3, <1>4 DEF IInv, Steps

LEMMA SinkKeeps ==
    ASSUME IInv, SinkStep
    PROVE  IInv'
<1>1. /\ LogMove /\ faults' \in 0..MaxFaults /\ UNCHANGED want
      /\ UNCHANGED <<pc, cursor, halted, heartbeat, call, stack, effect, undone, keySeen>>
    <2>1. UNCHANGED <<pc, cursor, halted, heartbeat, call, stack, effect, undone, keySeen>>
        BY DEF SinkStep, scope, world
    <2>2. Fault \/ UNCHANGED faults => faults' \in 0..MaxFaults
        BY SagaAssumption DEF Fault, IInv, TypeOK
    <2>3. ASSUME NEW k \in 1..Len(buf), Persist(k) PROVE LogMove /\ UNCHANGED want
        BY <2>3 DEF LogMove, Persist
    <2>4. ASSUME NEW k \in 1..Len(buf), NEW j \in 0..k, Reject(k, j)
          PROVE  LogMove /\ UNCHANGED want
        BY <2>4 DEF LogMove, Reject
    <2>5. ASSUME NEW f \in DOMAIN fence, Stall(f) PROVE LogMove /\ UNCHANGED want
        BY <2>5 DEF LogMove, Stall
    <2> QED
        BY <2>1, <2>2, <2>3, <2>4, <2>5 DEF SinkStep
<1>2. LogType' /\ FencesHonest' /\ ToSet(disk) \subseteq ToSet(disk')
    BY <1>1, LogMoves DEF IInv, TypeOK
<1>3. TypeOK' /\ Bounded'
    BY <1>1, <1>2 DEF IInv, TypeOK, StackType, ScopeType, CallType, WorldType, Bounded
<1>4. ASSUME NEW j \in Steps PROVE Recorded(j)'
    <2>1. Recorded(j) /\ (j \in Called <=> j \in Called')
        BY <1>1 DEF IInv, Called
    <2> QED
        BY <1>1, <1>2, <2>1, QuietCall
<1> QED
    BY <1>2, <1>3, <1>4 DEF IInv, Steps

\* The process dies: what is on disk is on disk, and a call that was running has
\* had an effect or may have one yet.
LEMMA CrashKeeps ==
    ASSUME IInv, Crash
    PROVE  IInv'
<1> DEFINE running == {i \in Steps : call[i] = "forward"}
<1>0. cursor \in Int /\ MaxSteps \in Nat
    BY SagaAssumption DEF IInv, TypeOK, ScopeType
<1>1. PICK k \in 0..Len(buf) : LogCrash(k)
    BY DEF Crash
<1>2. /\ pc # "dead" /\ pc' = "dead" /\ heartbeat' = FALSE /\ cursor' = 0 /\ halted' = FALSE
      /\ call' = [i \in Steps |-> "none"] /\ UNCHANGED <<stack, faults>>
    BY DEF Crash, Alive
<1>3. PICK out \in [running -> Ambiguous] :
          effect' = [i \in Steps |-> IF i \in running THEN out[i] ELSE effect[i]]
    BY DEF Crash
<1>4. LogMove
    BY <1>1 DEF LogMove
<1>5. LogType' /\ FencesHonest' /\ ToSet(disk) \subseteq ToSet(disk')
    BY <1>4, LogMoves DEF IInv, TypeOK
<1>6. WorldType'
    <2>1. effect' \in [Steps -> {"none", "running", "landed"}]
        BY <1>3, OutcomeType DEF IInv, TypeOK, WorldType
    <2>2. /\ undone' \in [Steps -> [saga : Nat, daemon : Nat]]
          /\ keySeen' \in [Steps -> BOOLEAN]
        <3>1. CASE pc = "undoing" /\ ApplyInProcess(cursor)
            <4>1. cursor \in Steps
                BY <1>0, <3>1, StackLength DEF IInv, Bounded, Steps
            <4> QED
                BY <3>1, <4>1, ApplyType DEF IInv, TypeOK
        <3>2. CASE UNCHANGED <<undone, keySeen>>
            BY <3>2 DEF IInv, TypeOK, WorldType
        <3> QED
            BY <3>1, <3>2 DEF Crash
    <2> QED
        BY <2>1, <2>2 DEF WorldType
<1>7. TypeOK'
    <2>1. StackType'
        BY <1>2 DEF IInv, TypeOK, StackType
    <2>2. ScopeType' /\ faults' \in 0..MaxFaults
        <3>1. 0 \in 0..MaxSteps /\ faults' \in 0..MaxFaults
            BY <1>0, <1>2 DEF IInv, TypeOK
        <3> QED
            BY <1>2, <3>1 DEF ScopeType
    <2>3. CallType'
        BY <1>2 DEF CallType
    <2> QED
        BY <1>5, <1>6, <2>1, <2>2, <2>3 DEF TypeOK
<1>8. Bounded'
    BY <1>2, StackLength DEF Bounded
<1>9. ASSUME NEW j \in Steps PROVE Recorded(j)'
    <2>1. Recorded(j) /\ (j \in Called <=> j \in Called') /\ call'[j] = "none"
        BY <1>2 DEF IInv, Called
    <2>2. effect'[j] = effect[j] \/ effect[j] # "none"
        <3>1. CASE call[j] = "forward"
            BY <3>1, ForwardRuns
        <3>2. CASE call[j] # "forward"
            BY <1>3, <3>2
        <3> QED
            BY <3>1, <3>2
    <2> QED
        BY <1>2, <1>5, <2>1, <2>2, QuietCall
<1> QED
    BY <1>5, <1>7, <1>8, <1>9 DEF IInv, Steps

-----------------------------------------------------------------------------
(* The theorems                                                             *)

LEMMA InitIInv == SagaInit => IInv
<1> SUFFICES ASSUME SagaInit PROVE IInv
    OBVIOUS
<1>0. MaxSteps \in Nat /\ MaxFaults \in Nat
    BY SagaAssumption
<1>1. LogType /\ StackType
    BY <1>0, EmptySeq DEF SagaInit, LogInit, LogType, StackType, FenceStates
<1>2. ScopeType /\ CallType /\ WorldType /\ faults \in 0..MaxFaults
    <2>1. ScopeType /\ faults \in 0..MaxFaults
        <3>1. 0 \in 0..MaxSteps /\ 0 \in 0..MaxFaults
            BY <1>0
        <3> QED
            BY <3>1, Zenon DEF SagaInit, ScopeType
    <2>4. CallType
        BY DEF SagaInit, CallType
    <2>2. [saga |-> 0, daemon |-> 0] \in [saga : Nat, daemon : Nat]
        OBVIOUS
    <2>3. WorldType
        BY <2>2 DEF SagaInit, WorldType
    <2> QED
        BY <2>1, <2>3, <2>4
<1>3. FencesHonest /\ Bounded
    BY <1>0 DEF SagaInit, LogInit, FencesHonest, Bounded, Coroutines
<1>4. ASSUME NEW i \in Steps PROVE Recorded(i)
    <2>1. i \notin Called /\ call[i] = "none" /\ effect[i] = "none"
        BY DEF SagaInit, Called
    <2> QED
        BY <2>1 DEF Recorded, Placed, IntentFirst, InverseFirst
<1> QED
    BY <1>1, <1>2, <1>3, <1>4 DEF IInv, TypeOK

LEMMA IInvStep == IInv /\ [SagaNext]_sagaVars => IInv'
<1> SUFFICES ASSUME IInv, [SagaNext]_sagaVars PROVE IInv'
    OBVIOUS
<1>1. CASE ScopeStep
    BY <1>1, ScopeKeeps
<1>2. ASSUME NEW i \in Steps, CallStep(i) PROVE IInv'
    BY <1>2, CallStepKeeps
<1>3. ASSUME NEW i \in Steps, LateLanding(i) PROVE IInv'
    BY <1>3, LateLandingKeeps
<1>4. CASE SinkStep
    BY <1>4, SinkKeeps
<1>5. CASE Crash
    BY <1>5, CrashKeeps
<1>6. CASE UNCHANGED sagaVars
    <2>1. UNCHANGED <<buf, disk, fence, want, pc, cursor, halted, heartbeat, call, stack,
                     effect, undone, keySeen, faults>>
        BY <1>6 DEF sagaVars, log, scope, world
    <2>2. TypeOK' /\ FencesHonest' /\ Bounded'
        BY <2>1 DEF IInv, TypeOK, LogType, StackType, ScopeType, CallType, WorldType,
                    FencesHonest, Bounded
    <2>3. ASSUME NEW j \in Steps PROVE Recorded(j)'
        <3>1. Recorded(j) /\ (j \in Called <=> j \in Called')
            BY <2>1 DEF IInv, Called
        <3> QED
            BY <2>1, <3>1, QuietCall
    <2> QED
        BY <2>2, <2>3 DEF IInv, Steps
<1> QED
    BY <1>1, <1>2, <1>3, <1>4, <1>5, <1>6 DEF SagaNext

\* The inductive invariant holds in every state a saga can reach, however many
\* calls it makes and whether or not it makes them in parallel.
THEOREM Invariant == SagaSpec => []IInv
BY InitIInv, IInvStep, PTL DEF SagaSpec

\* Every variable keeps its type: no rollback touches a step that is not there.
THEOREM TypeCorrect == SagaSpec => []TypeOK
<1>1. IInv => TypeOK
    BY DEF IInv
<1> QED
    BY <1>1, Invariant, PTL

\* The write-ahead rule: nothing that must be undone or reported happens before a
\* reader of the log could know of it (context.py, "Write intent BEFORE the effect").
THEOREM WriteAhead == SagaSpec => []IntentBeforeEffect
<1>1. IInv => IntentBeforeEffect
    BY StackLength DEF IInv, Recorded, IntentFirst, IntentBeforeEffect
<1> QED
    BY <1>1, Invariant, PTL

\* A durable call that has come back to the agent left its inverse in the log,
\* and nothing the rollback does afterwards changes which one it is.
THEOREM InverseRecorded == SagaSpec => []InverseBeforeReturn
<1>1. IInv => InverseBeforeReturn
    BY StackLength DEF IInv, Recorded, InverseFirst, InverseBeforeReturn
<1> QED
    BY <1>1, Invariant, PTL

-----------------------------------------------------------------------------
(* What a rollback leaves behind, for an agent that calls its tools one     *)
(* after the other: any number of calls, any sequence of failures of the    *)
(* log and of the compensations.  An agent that calls them in parallel does *)
(* not get these promises, as TLC shows of the configuration saga_gather.   *)
(*                                                                          *)
(* The inductive invariant, on top of IInv                                  *)

Before  == {"new", "beginning", "body"}
Walking == {"rollback", "undoing"}
Walked  == {"rolledBack", "aborting", "aborted"}

\* A call is in flight only while the agent's body runs.
Quiet == pc # "body" => InFlight = {}

\* No rollback has looked at call i yet: nothing was undone, and an effect it
\* has had, or may yet have, is on the stack as one.
Fresh(i) ==
    /\ undone[i] = [saga |-> 0, daemon |-> 0] /\ keySeen[i] = FALSE
    /\ i \in Called =>
          /\ stack[i].st \in {"INTENT_LOGGED", "COMMITTED", "UNKNOWN", "COMPLETED_VIA_FALLBACK"}
          /\ stack[i].st = "INTENT_LOGGED" /\ effect[i] # "none" => call[i] = "forward"

\* The rollback has dealt with call i: its effect was undone, once, or is in the
\* report, or its fallback stands for it.
Settled(i) ==
    i \in Called /\ effect[i] # "none" =>
        \/ stack[i].st \in Reported \union {"COMPLETED_VIA_FALLBACK"}
        \/ stack[i].st = "COMPENSATED" /\ undone[i] = [saga |-> 1, daemon |-> 0]

\* It went past call i without having to stop.
Passed(i) ==
    i \in Called =>
        /\ stack[i].st # "UNRESOLVED"
        /\ HaltOnFailure => stack[i].st # "COMPENSATION_FAILED"

Progress(i) ==
    /\ pc \in Before \/ (pc \in Walking /\ i <= cursor) => Fresh(i)
    /\ pc \in Walking \union Walked /\ i > cursor => Settled(i)
    /\ pc \in Walking /\ ~halted /\ i > cursor => Passed(i)

RInv ==
    /\ Quiet
    /\ pc \in Walked => cursor = 0
    /\ pc = "undoing" => ~halted
    /\ \A i \in Steps : Progress(i)

-----------------------------------------------------------------------------
(* The steps of a call                                                      *)

LEMMA CallsInBody ==
    ASSUME Quiet, NEW i \in Steps, CallStep(i)
    PROVE  pc = "body"
BY DEF CallStep, Quiet, InFlight, Execute, IntentAnswered, ForwardOk, ForwardFails, FallbackOk,
       FallbackRefused, CallAnswered

\* What execute() leaves on the stack for the rollback to find.
LEMMA CallIsFresh ==
    ASSUME IInv, NEW i \in Steps, Fresh(i), CallStep(i), CallFrame(i)
    PROVE  Fresh(i)'
<1>0. undone'[i] = undone[i] /\ keySeen'[i] = keySeen[i]
    BY DEF CallFrame
<1>1. ASSUME NEW sem \in Semantics, i \in NewSteps, Execute(i, sem) PROVE Fresh(i)'
    <2> DEFINE e == [sem |-> sem, st |-> "INTENT_LOGGED", comp |-> "none"]
    <2>1. stack \in Seq(StepRecords) /\ i = Len(stack) + 1
        BY <1>1, StepSeq DEF IInv, TypeOK, NewSteps
    <2>2. stack' = Append(stack, e) /\ e.st = "INTENT_LOGGED"
        BY <1>1 DEF Execute
    <2>3. stack'[i].st = "INTENT_LOGGED"
        <3> HIDE DEF e
        <3> QED
            BY <2>1, <2>2
    <2>4. effect[i] = "none"
        BY <2>1, StackLength DEF Called, IInv, Recorded, Placed
    <2>5. effect'[i] # "none" => call'[i] = "forward"
        BY <1>1, <2>4 DEF Execute
    <2> QED
        BY <1>0, <2>3, <2>5 DEF Fresh
<1>2. CASE IntentAnswered(i)
    <2>1. /\ UNCHANGED stack
          /\ i \in Called /\ stack[i].st = "INTENT_LOGGED" => effect[i] = "none"
        BY <1>2 DEF IntentAnswered, Fresh
    <2>2. call'[i] = "forward" \/ UNCHANGED effect
        BY <1>2 DEF IntentAnswered, At, IInv, TypeOK, CallType
    <2> QED
        BY <1>0, <2>1, <2>2 DEF Fresh, Called
<1>3. ASSUME NEW st \in {"COMMITTED", "UNKNOWN", "COMPLETED_VIA_FALLBACK"}, NEW comp \in Comps,
             call[i] # "none", Put(i, st, comp)
      PROVE  Fresh(i)'
    <2>1. stack'[i].st = st
        BY <1>3, InFlightCalled, PutMoves DEF States, IInv, TypeOK
    <2> QED
        BY <1>0, <2>1 DEF Fresh
<1>4. ASSUME NEW comp \in CompKinds, ForwardOk(i, comp) PROVE Fresh(i)'
    BY <1>3, <1>4 DEF ForwardOk, Comps
<1>5. ASSUME NEW comp \in CompKinds, NEW o \in Ambiguous, ForwardFails(i, comp, o)
      PROVE  Fresh(i)'
    BY <1>3, <1>5 DEF ForwardFails, MarkUnknown, Comps
<1>6. ASSUME NEW o \in Ambiguous, FallbackOk(i, o) PROVE Fresh(i)'
    BY <1>3, <1>6 DEF FallbackOk, Comps
<1>7. ASSUME NEW comp \in CompKinds, FallbackRefused(i, comp) PROVE Fresh(i)'
    BY <1>3, <1>7 DEF FallbackRefused, MarkUnknown, Comps
<1>8. CASE CallAnswered(i)
    <2>1. i \in Called /\ call[i] # "forward" /\ UNCHANGED <<stack, effect>>
        BY <1>8, InFlightCalled DEF CallAnswered, world
    <2> QED
        BY <1>0, <2>1 DEF Fresh, Called
<1> QED
    BY <1>1, <1>2, <1>4, <1>5, <1>6, <1>7, <1>8 DEF CallStep

LEMMA CallStepRolls ==
    ASSUME IInv, RInv, NEW i \in Steps, CallStep(i)
    PROVE  RInv'
<1>1. CallFrame(i) /\ pc = "body" /\ pc' = "body"
    BY CallStepMoves, CallsInBody DEF RInv, CallFrame
<1>2. ASSUME NEW j \in Steps PROVE Progress(j)'
    <2>1. Fresh(j)
        BY <1>1 DEF RInv, Progress, Before
    <2>2. Fresh(j)'
        <3>1. CASE j = i
            BY <1>1, <2>1, <3>1, CallIsFresh
        <3>2. CASE j # i
            BY <1>1, <2>1, <3>2 DEF CallFrame, Fresh
        <3> QED
            BY <3>1, <3>2
    <2> QED
        BY <1>1, <2>2 DEF Progress, Before, Walking, Walked
<1> QED
    BY <1>1, <1>2 DEF RInv, Quiet, Walked, Steps

-----------------------------------------------------------------------------
(* The rollback                                                             *)

\* How the rollback takes call i off: the others stand still.
Taken(i) ==
    /\ i = cursor /\ cursor' = i - 1 /\ pc' \in {"rollback", "escaped"}
    /\ UNCHANGED <<call, effect>> /\ Len(stack') = Len(stack)
    /\ \A j \in Called : j # i =>
          stack'[j] = stack[j] /\ undone'[j] = undone[j] /\ keySeen'[j] = keySeen[j]
    /\ Settled(i)'
    /\ ~halted' => ~halted /\ Passed(i)'

LEMMA TakenRolls ==
    ASSUME IInv, RInv, pc \in Walking, NEW i \in Called, Taken(i)
    PROVE  RInv'
<1>0. Len(stack) \in Nat /\ cursor = i /\ cursor' = i - 1
    BY StackLength DEF Taken
<1>1. InFlight' = {} /\ pc' \in {"rollback", "escaped"} /\ Called' = Called
    BY DEF RInv, Quiet, Walking, Taken, InFlight, Called
<1>2. ASSUME NEW j \in Steps, pc' = "rollback" PROVE Progress(j)'
    <2>1. ASSUME j <= cursor' PROVE Fresh(j)'
        <3>1. j < i /\ j \in Called
            BY <1>0, <2>1 DEF Steps, Called
        <3>2. Fresh(j)
            BY <1>0, <3>1 DEF RInv, Progress, Steps, Called
        <3>3. /\ stack'[j] = stack[j] /\ undone'[j] = undone[j] /\ keySeen'[j] = keySeen[j]
              /\ call'[j] = call[j] /\ effect'[j] = effect[j]
            BY <3>1 DEF Taken, Called
        <3> QED
            BY <3>1, <3>2, <3>3 DEF Fresh
    <2>2. ASSUME j > cursor', j # i PROVE Settled(j)' /\ (~halted' => Passed(j)')
        <3>1. j > i
            BY <1>0, <2>2 DEF Steps, Called
        <3>2. Settled(j) /\ (~halted => Passed(j))
            BY <1>0, <3>1 DEF RInv, Progress
        <3>3. j \in Called =>
                /\ stack'[j] = stack[j] /\ undone'[j] = undone[j]
                /\ call'[j] = call[j] /\ effect'[j] = effect[j]
            BY <2>2 DEF Taken
        <3> QED
            BY <1>1, <3>2, <3>3 DEF Settled, Passed, Taken
    <2> QED
        BY <1>2, <2>1, <2>2 DEF Progress, Before, Walking, Walked, Taken
<1>3. CASE pc' = "escaped"
    BY <1>1, <1>3 DEF RInv, Quiet, Progress, Before, Walking, Walked
<1>4. CASE pc' = "rollback"
    BY <1>1, <1>2, <1>4 DEF RInv, Quiet, Walked, Steps
<1> QED
    BY <1>1, <1>3, <1>4

LEMMA AtCursor ==
    ASSUME IInv, RInv, pc \in Walking, cursor > 0
    PROVE  \E i \in Called : i \in Steps /\ i = cursor /\ Fresh(i) /\ call[i] # "forward"
<1>1. cursor \in Called /\ cursor \in Steps
    BY StackLength DEF IInv, Bounded, TypeOK, ScopeType, Called
<1> QED
    BY <1>1 DEF RInv, Progress, Steps, Quiet, InFlight, Walking

\* A step the rollback passes over has nothing to undo, or is left UNRESOLVED.
LEMMA PassOverRolls ==
    ASSUME IInv, RInv, PassOver
    PROVE  RInv'
<1>1. /\ pc = "rollback" /\ cursor > 0 /\ cursor' = cursor - 1
      /\ UNCHANGED <<pc, halted, call, effect, undone, keySeen>>
    BY DEF PassOver, world
<1>2. PICK i \in Called : i \in Steps /\ i = cursor /\ Fresh(i) /\ call[i] # "forward"
    BY <1>1, AtCursor DEF Walking
<1>3. CASE halted /\ Put(i, "UNRESOLVED", stack[i].comp)
    <2>1. /\ Len(stack') = Len(stack) /\ stack'[i].st = "UNRESOLVED"
          /\ \A j \in Called : j # i => stack'[j] = stack[j]
        BY <1>3, PutMoves, StepType DEF IInv, TypeOK, States
    <2> QED
        BY <1>1, <1>2, <1>3, <2>1, TakenRolls DEF Taken, Settled, Reported, Walking
<1>4. CASE ~halted /\ ~NeedsCompensation(i) /\ UNCHANGED stack
    <2>1. /\ effect[i] # "none" => stack[i].st = "COMPLETED_VIA_FALLBACK"
          /\ stack[i].st \in {"INTENT_LOGGED", "COMPLETED_VIA_FALLBACK"}
        BY <1>2, <1>4 DEF Fresh, NeedsCompensation
    <2> QED
        BY <1>1, <1>2, <1>4, <2>1, TakenRolls DEF Taken, Settled, Passed, Walking
<1> QED
    BY <1>2, <1>3, <1>4 DEF PassOver

\* What becomes of a step whose compensation is due.
LEMMA OutcomeRolls ==
    ASSUME IInv, RInv, pc \in Walking, cursor > 0, cursor' = cursor - 1,
           pc' \in {"rollback", "escaped"}, UNCHANGED <<call, effect>>,
           NEW st \in {"ORPHANED", "COMPENSATED", "COMPENSATION_FAILED"},
           Put(cursor, st, stack[cursor].comp),
           ApplyInProcess(cursor) \/ (st # "COMPENSATED" /\ UNCHANGED <<undone, keySeen>>),
           ~halted, halted' = (st = "COMPENSATION_FAILED" /\ HaltOnFailure)
    PROVE  RInv'
<1>1. PICK i \in Called : i \in Steps /\ i = cursor /\ Fresh(i) /\ call[i] # "forward"
    BY AtCursor
<1>2. /\ Len(stack') = Len(stack) /\ stack'[i].st = st
      /\ \A j \in Called : j # i => stack'[j] = stack[j]
    BY <1>1, PutMoves, StepType DEF IInv, TypeOK, States
<1>3. /\ \A j \in Steps : j # i => undone'[j] = undone[j] /\ keySeen'[j] = keySeen[j]
      /\ st = "COMPENSATED" => undone'[i] = [saga |-> 1, daemon |-> 0]
    BY <1>1 DEF ApplyInProcess, Apply, Fresh, IInv, TypeOK, WorldType
<1>4. Settled(i)' /\ (~halted' => Passed(i)')
    BY <1>2, <1>3 DEF Settled, Passed, Reported
<1> QED
    BY <1>1, <1>2, <1>3, <1>4, TakenRolls, StackLength DEF Taken

-----------------------------------------------------------------------------
(* The steps that leave calls, stack and world alone                        *)

LEMMA StillRolls ==
    ASSUME IInv, RInv, UNCHANGED <<call, stack, effect, undone, keySeen, halted>>,
           pc' # "body" => InFlight = {},
           \/ pc \in Before /\ pc' \in Before
           \/ pc = "body" /\ pc' = "rollback" /\ cursor' = Len(stack)
           \/ pc = "rollback" /\ pc' = "undoing" /\ ~halted /\ cursor' = cursor
           \/ pc = "rollback" /\ pc' \in Walked /\ cursor = 0 /\ cursor' = cursor
           \/ pc \in Walked /\ pc' \in Walked /\ cursor' = cursor
           \/ pc' = pc /\ cursor' = cursor
           \/ pc' \notin Before \union Walking \union Walked
    PROVE  RInv'
<1> USE DEF Before, Walking, Walked
<1>1. Quiet'
    BY DEF Quiet, InFlight
<1>2. ASSUME NEW j \in Steps PROVE Progress(j)'
    <2>1. /\ Fresh(j) => Fresh(j)'
          /\ Settled(j) => Settled(j)'
          /\ Passed(j) => Passed(j)'
        BY DEF Fresh, Settled, Passed, Called
    <2>2. Progress(j)
        BY DEF RInv
    <2>3. CASE pc = "body" /\ pc' = "rollback" /\ cursor' = Len(stack)
        <3>1. Fresh(j)
            BY <2>2, <2>3 DEF Progress
        <3>2. j > cursor' => j \notin Called'
            BY <2>3, StackLength DEF Called
        <3>3. j > cursor' => Settled(j)' /\ Passed(j)'
            BY <3>2 DEF Settled, Passed
        <3> QED
            BY <2>1, <2>3, <3>1, <3>3 DEF Progress
    <2>4. CASE ~(pc = "body" /\ pc' = "rollback")
        BY <2>1, <2>2, <2>4 DEF Progress
    <2> QED
        BY <2>3, <2>4
<1>3. /\ pc' \in Walked => cursor' = 0
      /\ pc' = "undoing" => ~halted'
    BY DEF RInv
<1> QED
    BY <1>1, <1>2, <1>3 DEF RInv, Steps

LEMMA BoundaryRolls ==
    ASSUME IInv, RInv, Parallel = FALSE, Begin \/ Begun \/ Abort \/ Complete \/ Finished
    PROVE  RInv'
<1>1. UNCHANGED <<call, stack, effect, undone, keySeen, halted>>
    BY DEF Begin, Begun, Abort, Complete, Finished, world
<1>2. CASE Begin \/ Begun
    <2>1. pc \in {"new", "beginning"} /\ pc' \in {"beginning", "body", "unbegun"}
          /\ cursor' = cursor
        BY <1>2 DEF Begin, Begun, ScopeFence
    <2> QED
        BY <1>1, <2>1, StillRolls DEF RInv, Quiet, Before, Walking, Walked
<1>3. CASE Abort
    <2>1. /\ pc = "body" /\ InFlight = {} /\ pc' \in {"rollback", "escaped"}
          /\ cursor' = Len(stack)
        BY <1>3 DEF Abort
    <2> QED
        BY <1>1, <2>1, StillRolls DEF Before, Walking, Walked
<1>4. CASE Complete
    <2>1. pc = "body" /\ InFlight = {} /\ pc' \in {"completing", "unfinished"}
        BY <1>4 DEF Complete, ScopeFence
    <2> QED
        BY <1>1, <2>1, StillRolls DEF Before, Walking, Walked
<1>5. CASE Finished
    <2>1. /\ \/ pc = "aborting" /\ pc' = "aborted"
             \/ pc' \in {"completed", "unfinished", "escaped"}
          /\ pc # "body" /\ cursor' = cursor
        BY <1>5 DEF Finished
    <2> QED
        BY <1>1, <2>1, StillRolls DEF RInv, Quiet, Before, Walking, Walked
<1> QED
    BY <1>2, <1>3, <1>4, <1>5

LEMMA RollbackRolls ==
    ASSUME IInv, RInv, RollbackStep
    PROVE  RInv'
<1>1. CASE PassOver
    BY <1>1, PassOverRolls
<1>2. CASE Orphan
    <2>1. /\ pc = "rollback" /\ cursor > 0 /\ cursor' = cursor - 1 /\ ~halted
          /\ halted' = halted /\ Put(cursor, "ORPHANED", stack[cursor].comp)
          /\ UNCHANGED <<call, effect, undone, keySeen>>
          /\ pc' \in {"rollback", "escaped"}
        BY <1>2 DEF Orphan, Due, ScopeAppend, world
    <2>2. halted \in BOOLEAN
        BY DEF IInv, TypeOK, ScopeType
    <2> QED
        BY <2>1, <2>2, OutcomeRolls DEF Walking
<1>3. CASE Undo
    <2>1. /\ pc = "rollback" /\ pc' = "undoing" /\ ~halted
          /\ UNCHANGED <<call, stack, effect, undone, keySeen, halted, cursor>>
        BY <1>3 DEF Undo, Due, world
    <2> QED
        BY <2>1, StillRolls DEF RInv, Quiet
<1>4. CASE UndoOk
    <2>1. /\ pc = "undoing" /\ cursor' = cursor - 1 /\ halted' = halted
          /\ Put(cursor, "COMPENSATED", stack[cursor].comp)
          /\ ApplyInProcess(cursor) /\ UNCHANGED <<call, effect>>
          /\ pc' \in {"rollback", "escaped"}
        BY <1>4 DEF UndoOk, ScopeAppend
    <2>2. cursor > 0 /\ ~halted /\ halted \in BOOLEAN
        BY <2>1 DEF RInv, IInv, Bounded, TypeOK, ScopeType
    <2> QED
        BY <2>1, <2>2, OutcomeRolls DEF Walking
<1>5. CASE UndoFails
    <2>1. /\ pc = "undoing" /\ cursor' = cursor - 1 /\ halted' = HaltOnFailure
          /\ Put(cursor, "COMPENSATION_FAILED", stack[cursor].comp)
          /\ ApplyInProcess(cursor) \/ UNCHANGED <<undone, keySeen>>
          /\ UNCHANGED <<call, effect>> /\ pc' \in {"rollback", "escaped"}
        BY <1>5 DEF UndoFails, ScopeAppend
    <2>2. cursor > 0 /\ ~halted /\ HaltOnFailure \in BOOLEAN
        BY <2>1, SagaAssumption DEF RInv, IInv, Bounded
    <2> QED
        BY <2>1, <2>2, OutcomeRolls DEF Walking
<1>6. CASE RollbackEnd \/ FinishAborted \/ RollbackEndRefused
    <2>1. /\ UNCHANGED <<call, stack, effect, undone, keySeen, halted, cursor>>
          /\ \/ pc = "rollback" /\ cursor = 0 /\ pc' = "rolledBack"
             \/ pc = "rolledBack" /\ pc' = "aborting"
             \/ pc # "body" /\ pc' = "escaped"
        BY <1>6 DEF RollbackEnd, FinishAborted, RollbackEndRefused, ScopeFence, world
    <2> QED
        BY <2>1, StillRolls DEF RInv, Quiet, Before, Walking, Walked
<1> QED
    BY <1>1, <1>2, <1>3, <1>4, <1>5, <1>6 DEF RollbackStep

LEMMA LateLandingRolls ==
    ASSUME IInv, RInv, NEW i \in Steps, LateLanding(i)
    PROVE  RInv'
<1>1. /\ effect[i] = "running" /\ effect' = [effect EXCEPT ![i] = "landed"]
      /\ UNCHANGED <<pc, cursor, halted, call, stack, undone, keySeen>>
    BY DEF LateLanding, scope
<1>2. \A j \in Steps : effect'[j] # "none" <=> effect[j] # "none"
    BY <1>1 DEF IInv, TypeOK, WorldType
<1>3. ASSUME NEW j \in Steps PROVE Progress(j)'
    <2>1. Progress(j) /\ (j \in Called' <=> j \in Called)
        BY <1>1 DEF RInv, Called
    <2>2. Fresh(j) => Fresh(j)'
        BY <1>1, <1>2, <2>1 DEF Fresh
    <2>3. (Settled(j) => Settled(j)') /\ (Passed(j) => Passed(j)')
        BY <1>1, <1>2, <2>1 DEF Settled, Passed
    <2> QED
        BY <1>1, <2>1, <2>2, <2>3 DEF Progress
<1> QED
    BY <1>1, <1>3 DEF RInv, Quiet, InFlight, Steps

-----------------------------------------------------------------------------
(* The theorems                                                             *)

LEMMA InitRInv == SagaInit => RInv
<1> SUFFICES ASSUME SagaInit PROVE RInv
    OBVIOUS
<1>1. /\ pc = "new" /\ stack = <<>> /\ InFlight = {}
      /\ \A i \in Steps : undone[i] = [saga |-> 0, daemon |-> 0] /\ keySeen[i] = FALSE
    BY DEF SagaInit, InFlight
<1> QED
    BY <1>1 DEF RInv, Quiet, Progress, Fresh, Called, Before, Walking, Walked

LEMMA RInvStep == Parallel = FALSE /\ IInv /\ RInv /\ [SagaNext]_sagaVars => RInv'
<1> SUFFICES ASSUME Parallel = FALSE, IInv, RInv, [SagaNext]_sagaVars PROVE RInv'
    OBVIOUS
<1>1. CASE ScopeStep
    BY <1>1, BoundaryRolls, RollbackRolls DEF ScopeStep
<1>2. ASSUME NEW i \in Steps, CallStep(i) PROVE RInv'
    BY <1>2, CallStepRolls
<1>3. ASSUME NEW i \in Steps, LateLanding(i) PROVE RInv'
    BY <1>3, LateLandingRolls
<1>4. CASE SinkStep \/ UNCHANGED sagaVars
    <2>1. UNCHANGED <<pc, cursor, halted, call, stack, effect, undone, keySeen>>
        BY <1>4 DEF SinkStep, sagaVars, scope, world
    <2> QED
        BY <2>1, StillRolls DEF RInv, Quiet
<1>5. CASE Crash
    <2>1. pc' = "dead" /\ call' = [i \in Steps |-> "none"]
        BY <1>5 DEF Crash
    <2> QED
        BY <2>1 DEF RInv, Quiet, InFlight, Progress, Before, Walking, Walked
<1> QED
    BY <1>1, <1>2, <1>3, <1>4, <1>5 DEF SagaNext

\* For an agent that waits for one call before it makes the next, the rollback's
\* invariant holds as well.
THEOREM RollbackInvariant == Parallel = FALSE => (SagaSpec => [](IInv /\ RInv))
<1>1. SagaInit => IInv /\ RInv
    BY InitIInv, InitRInv
<1>2. Parallel = FALSE /\ (IInv /\ RInv) /\ [SagaNext]_sagaVars => (IInv /\ RInv)'
    BY IInvStep, RInvStep
<1>3. CASE Parallel = FALSE
    <2>1. (IInv /\ RInv) /\ [SagaNext]_sagaVars => (IInv /\ RInv)'
        BY <1>2, <1>3
    <2> QED
        BY <1>1, <2>1, PTL DEF SagaSpec
<1> QED
    BY <1>3

\* "Steps are never silently discarded": every effect of a saga that ended in
\* SagaAborted was undone, once, or stands in the report.
THEOREM NothingIsForgotten == Parallel = FALSE => (SagaSpec => []NothingForgotten)
<1>1. IInv /\ RInv => NothingForgotten
    <2> SUFFICES ASSUME IInv, RInv, pc = "aborted", NEW i \in Called,
                        effect[i] = "landed", stack[i].st # "COMPLETED_VIA_FALLBACK"
                 PROVE  \/ stack[i].st \in Reported
                        \/ stack[i].st = "COMPENSATED" /\ undone[i] = [saga |-> 1, daemon |-> 0]
        BY DEF NothingForgotten
    <2>1. i \in Steps /\ cursor = 0 /\ i > cursor
        BY StackLength DEF RInv, Walked, Called
    <2> QED
        BY <2>1 DEF RInv, Progress, Walked, Settled
<1>2. CASE Parallel = FALSE
    BY <1>1, <1>2, RollbackInvariant, PTL
<1> QED
    BY <1>2

\* Compensation is LIFO, also across failures: while the inverse of a call runs,
\* every later effect is undone, known to have no inverse, or its compensation
\* failed in a rollback that does not halt.
THEOREM LastInFirstOut == Parallel = FALSE => (SagaSpec => UndoLIFO)
<1> DEFINE LIFO == \A i \in Called : undone'[i].saga > undone[i].saga =>
          \A j \in (i + 1)..Len(stack) :
              effect[j] = "landed" =>
                  \/ Undone(j)
                  \/ stack[j].st \in {"ORPHANED", "COMPLETED_VIA_FALLBACK"}
                  \/ stack[j].st = "COMPENSATION_FAILED" /\ ~HaltOnFailure
\* Only a compensation of the call at the cursor undoes anything.
<1>1. ASSUME IInv, [SagaNext]_sagaVars, NEW i \in Called, undone'[i].saga > undone[i].saga
      PROVE  pc = "undoing" /\ i = cursor
    <2>0. undone[i].saga \in Nat /\ undone'[i] # undone[i]
        BY <1>1, StackLength DEF IInv, TypeOK, WorldType
    <2>1. ASSUME NEW j \in Steps, ApplyInProcess(j) PROVE i = j
        BY <1>1, <2>0, <2>1, StackLength DEF ApplyInProcess, Apply, IInv, TypeOK, WorldType
    <2>2. UndoOk \/ UndoFails \/ Crash
        <3>1. CASE ScopeStep
            BY <2>0, <3>1 DEF ScopeStep, RollbackStep, Begin, Begun, Abort, Complete, Finished,
               PassOver, Orphan, Undo, RollbackEnd, FinishAborted, RollbackEndRefused, world
        <3>2. ASSUME NEW j \in Steps, CallStep(j) PROVE FALSE
            BY <1>1, <2>0, <3>2, CallStepMoves DEF CallFrame
        <3>3. ASSUME NEW j \in Steps, LateLanding(j) PROVE FALSE
            BY <2>0, <3>3 DEF LateLanding
        <3>4. CASE SinkStep \/ UNCHANGED sagaVars
            BY <2>0, <3>4 DEF SinkStep, sagaVars, world
        <3> QED
            BY <1>1, <3>1, <3>2, <3>3, <3>4 DEF SagaNext
    <2>3. pc = "undoing" /\ ApplyInProcess(cursor)
        BY <2>0, <2>2 DEF UndoOk, UndoFails, Crash
    <2>4. cursor \in Steps
        BY <1>1, <2>3, StackLength DEF IInv, Bounded, TypeOK, ScopeType, Steps
    <2> QED
        BY <2>1, <2>3, <2>4
<1>2. IInv /\ RInv /\ [SagaNext]_sagaVars => [LIFO]_sagaVars
    <2> SUFFICES ASSUME IInv, RInv, [SagaNext]_sagaVars,
                        NEW i \in Called, undone'[i].saga > undone[i].saga,
                        NEW j \in (i + 1)..Len(stack), effect[j] = "landed"
                 PROVE  \/ Undone(j)
                        \/ stack[j].st \in {"ORPHANED", "COMPLETED_VIA_FALLBACK"}
                        \/ stack[j].st = "COMPENSATION_FAILED" /\ ~HaltOnFailure
        OBVIOUS
    <2>1. pc = "undoing" /\ i = cursor /\ ~halted
        BY <1>1 DEF RInv
    <2>2. j \in Steps /\ j \in Called /\ j > cursor
        BY <2>1, StackLength DEF Called, Steps
    <2>3. Settled(j) /\ Passed(j)
        BY <2>1, <2>2 DEF RInv, Progress, Walking
    <2> QED
        BY <2>2, <2>3 DEF Settled, Passed, Reported, Undone
<1>3. CASE Parallel = FALSE
    BY <1>2, <1>3, RollbackInvariant, PTL DEF SagaSpec, UndoLIFO
<1> QED
    BY <1>3

-----------------------------------------------------------------------------
(* Reading a log                                                           *)

\* The steps a log names are those of its step events.
LEMMA LoggedStepsDef ==
    ASSUME NEW S, NEW L \in Seq(S)
    PROVE  /\ \A i : i \in LoggedSteps(L) <=>
                       \E p \in 1..Len(L) : L[p].ev \in StepEvents /\ L[p].step = i
           /\ \A i : i \in LoggedSteps(L) <=>
                       \E r \in ToSet(L) : r.ev \in StepEvents /\ r.step = i
<1>1. ToSet(L) = {L[p] : p \in 1..Len(L)}
    BY ToSetDef
<1>2. \A i : i \in LoggedSteps(L) <=> \E r \in ToSet(L) : r.ev \in StepEvents /\ r.step = i
    BY DEF LoggedSteps
<1> QED
    BY <1>1, <1>2

\* The position at which a step first appeared is one.
LEMMA OrderFound ==
    ASSUME NEW S, NEW L \in Seq(S), NEW i \in LoggedSteps(L)
    PROVE  /\ Order(L, i) \in 1..Len(L)
           /\ L[Order(L, i)].ev \in StepEvents /\ L[Order(L, i)].step = i
           /\ \A p \in 1..Len(L) :
                 L[p].ev \in StepEvents /\ L[p].step = i => Order(L, i) <= p
<1> DEFINE I == {p \in 1..Len(L) : L[p].ev \in StepEvents /\ L[p].step = i}
<1>1. I # {}
    BY LoggedStepsDef
<1>2. I \subseteq Nat
    OBVIOUS
<1>3. Order(L, i) = Min(I)
    BY <1>1 DEF Order, SelectInSeq
<1>4. Min(I) \in I /\ \A p \in I : Min(I) <= p
    <2> HIDE DEF I
    <2> QED
        BY <1>1, <1>2, MinExists
<1> QED
    BY <1>3, <1>4

\* No two steps appear at the same position.
LEMMA OrderIsUnique ==
    ASSUME NEW S, NEW L \in Seq(S), NEW i \in LoggedSteps(L), NEW j \in LoggedSteps(L),
           Order(L, i) = Order(L, j)
    PROVE  i = j
BY OrderFound

\* The outcome read for a step is that of a record about it.
LEMMA OutcomeFound ==
    ASSUME NEW S, NEW L \in Seq(S), NEW i, Outcome(L, i) # 0
    PROVE  /\ L[Outcome(L, i)] \in ToSet(L)
           /\ L[Outcome(L, i)].ev \in StepEvents /\ L[Outcome(L, i)].step = i
<1> DEFINE I == {p \in 1..Len(L) : L[p].ev \in StepEvents \ {"STEP_INTENT"} /\ L[p].step = i}
<1>0. Len(L) \in Nat
    BY LenProperties
<1>1. I # {} /\ Outcome(L, i) = Max(I)
    BY DEF Outcome, SelectLastInSeq
<1>2. I \subseteq 1..Len(L)
    OBVIOUS
<1>3. Max(I) \in I
    <2> HIDE DEF I
    <2> QED
        BY <1>0, <1>1, <1>2, MaxExists
<1>4. L[Max(I)] \in ToSet(L)
    BY <1>3, ToSetDef
<1> QED
    BY <1>1, <1>3, <1>4

-----------------------------------------------------------------------------
(* The inductive invariant                                                 *)

\* The saga's process is dead, or its scope has failed to record the outcome.
Lost == {"dead", "escaped", "unfinished"}

Waits(ev) == \E r \in ToSet(want[0]) : r.ev = ev

LogRecords == ToSet(buf) \union ToSet(disk)

\* As long as the saga is not lost, it renews its lease, or its log has nothing
\* to recover yet, or its outcome is in the log or on its way: no daemon works.
Owned ==
    /\ pc \in {"body", "rollback", "undoing", "rolledBack"} => heartbeat
    /\ pc \in {"new", "beginning", "unbegun"} =>
          stack = <<>> /\ \A r \in LogRecords : r.ev = "SAGA_START"
    /\ pc = "completing" => Waits("SAGA_COMPLETE")
    /\ pc = "completed" => Says(disk, "SAGA_COMPLETE")
    /\ pc = "rolledBack" => Waits("ROLLBACK_END")
    /\ pc \in {"aborting", "aborted"} => Says(disk, "ROLLBACK_END")
    /\ pc = "aborting" => Waits("SAGA_ABORTED")
    /\ pc = "aborted" => Says(disk, "SAGA_ABORTED")
    /\ pc \notin Lost => \A d \in Daemons : at[d] = "idle"
    /\ pc \notin Lost => \A i \in Steps : undone[i].daemon = 0

\* What a record says is so: which call it is about, how to undo that call, that
\* it was undone, and that it had a fallback.
Truthful(r) ==
    /\ r.ev \in StepEvents => r.step \in Called /\ r.sem = stack[r.step].sem
    /\ r.comp # "none" => r.step \in Called /\ stack[r.step].comp = r.comp
    /\ r.ev = "COMPENSATED" => r.step \in Called /\ Undone(r.step)
    /\ r.ev = "COMPLETED_VIA_FALLBACK" => Fallbacks

Truth == \A r \in LogRecords : Truthful(r)

\* The inverse of a call is derived once, a key is seen with the request that
\* carries it, and daemons apply only inverses that were derived.
Derived(i) ==
    /\ call[i] \in {"intent", "forward", "fallback"} => stack[i].comp = "none"
    /\ keySeen[i] => Undone(i)
    /\ undone[i].daemon > 0 => i \in Called /\ stack[i].comp # "none"
    /\ i \in Called /\ stack[i].comp = "keyed" =>
          undone[i].daemon <= IF keySeen[i] THEN 1 ELSE 0

AtWork == {"working", "calling", "journalling"}

\* What daemon d read is in the log, what it passes over is undone, what it calls
\* can be run, and nothing that it read as pending is lost from sight.
Worker(d) ==
    /\ ToSet(seen[d]) \subseteq ToSet(disk)
    /\ \A i \in done[d] : Undone(i)
    /\ todo[d] \subseteq Pending(seen[d])
    /\ at[d] = "idle" => todo[d] = {}
    /\ at[d] = "calling" => \A i \in Steps : IsTop(d, i) => Runnable(d, i)
    /\ at[d] = "journalling" => \A i \in Steps : IsTop(d, i) => Undone(i)
    /\ at[d] \in AtWork => \A i \in Pending(seen[d]) : i \in todo[d] \/ Undone(i)
    /\ at[d] \in AtWork => \A i \in Pending(seen[d]) : LoggedSem(seen[d], i) # "IRREVERSIBLE"

\* Step events appear in call order.
InOrder(L, M) ==
    \A p \in 1..Len(L), q \in 1..Len(M) :
        L[p].ev \in StepEvents /\ M[q].ev \in StepEvents => L[p].step <= M[q].step

Sorted(L) ==
    \A p, q \in 1..Len(L) :
        p < q /\ L[p].ev \in StepEvents /\ L[q].ev \in StepEvents => L[p].step <= L[q].step

\* An agent that calls its tools one after the other has none in flight when its
\* body is left, and what a daemon reads covers every effect there is.
Sequential ==
    /\ pc # "body" => InFlight = {}
    /\ \A i \in InFlight : i = Len(stack)
    /\ Sorted(disk) /\ Sorted(buf) /\ InOrder(disk, buf)
    /\ \A d \in Daemons : at[d] # "idle" =>
          /\ Sorted(seen[d])
          /\ \A i \in Called : effect[i] # "none" /\ Durable(i) => i \in LoggedSteps(seen[d])

Safe ==
    /\ Owned /\ Truth
    /\ \A i \in Steps : Derived(i)
    /\ \A d \in Daemons : Worker(d)
    /\ \A i \in ledger : Undone(i)

DInv ==
    /\ IInv /\ DaemonTypeOK /\ Safe
    /\ ~Parallel => Sequential

-----------------------------------------------------------------------------
(* The remote                                                              *)

\* What was undone stays undone, and a key that was seen belongs to an undo.
WorldGrows ==
    /\ undone' \in [Steps -> [saga : Nat, daemon : Nat]]
    /\ keySeen' \in [Steps -> BOOLEAN]
    /\ \A j \in Steps : Undone(j) => Undone(j)'
    /\ \A j \in Steps : keySeen[j] => keySeen'[j]
    /\ \A j \in Steps : keySeen'[j] => Undone(j)'

\* The inverse of step i was applied, with a key or without.
LEMMA ApplyGrows ==
    ASSUME WorldType, NEW who \in {"saga", "daemon"}, NEW i \in Steps, NEW keyed \in BOOLEAN,
           Apply(who, i, keyed), \A j \in Steps : keySeen[j] => Undone(j)
    PROVE  /\ WorldGrows /\ Undone(i)'
           /\ \A j \in Steps : j # i => undone'[j] = undone[j] /\ keySeen'[j] = keySeen[j]
           /\ who = "saga" => undone'[i].daemon = undone[i].daemon
           /\ who = "daemon" =>
                 undone'[i].daemon = IF keyed /\ keySeen[i] THEN undone[i].daemon
                                     ELSE undone[i].daemon + 1
           /\ keyed => keySeen'[i] = TRUE
<1>0. /\ undone \in [Steps -> [saga : Nat, daemon : Nat]] /\ keySeen \in [Steps -> BOOLEAN]
      /\ \A j \in Steps : undone[j].saga \in Nat /\ undone[j].daemon \in Nat
    BY DEF WorldType
<1>1. /\ keySeen' \in [Steps -> BOOLEAN]
      /\ \A j \in Steps : j # i => keySeen'[j] = keySeen[j]
      /\ keyed => keySeen'[i] = TRUE
      /\ ~keyed => keySeen'[i] = keySeen[i]
    BY <1>0 DEF Apply
<1>2. CASE keyed /\ keySeen[i]
    <2>1. undone' = undone
        BY <1>2 DEF Apply
    <2> QED
        BY <1>0, <1>1, <1>2, <2>1 DEF WorldGrows, Undone
<1>3. CASE ~(keyed /\ keySeen[i])
    <2>1. /\ undone' \in [Steps -> [saga : Nat, daemon : Nat]]
          /\ \A j \in Steps : j # i => undone'[j] = undone[j]
          /\ who = "saga" => /\ undone'[i].saga = undone[i].saga + 1
                             /\ undone'[i].daemon = undone[i].daemon
          /\ who = "daemon" => /\ undone'[i].daemon = undone[i].daemon + 1
                               /\ undone'[i].saga = undone[i].saga
        <3>1. CASE who = "saga"
            BY <1>0, <1>3, <3>1 DEF Apply
        <3>2. CASE who = "daemon"
            BY <1>0, <1>3, <3>2 DEF Apply
        <3> QED
            BY <3>1, <3>2
    <2>2. Undone(i)'
        BY <1>0, <2>1 DEF Undone
    <2> QED
        BY <1>0, <1>1, <1>3, <2>1, <2>2 DEF WorldGrows, Undone
<1> QED
    BY <1>2, <1>3

\* The saga applies inverses of its own, and none of them counts as a daemon's.
LEMMA SagaWorld ==
    ASSUME IInv, \A j \in Steps : keySeen[j] => Undone(j), SagaNext
    PROVE  WorldGrows /\ \A j \in Steps : undone'[j].daemon = undone[j].daemon
<1>0. WorldType
    BY DEF IInv, TypeOK
<1>1. CASE UNCHANGED <<undone, keySeen>>
    BY <1>0, <1>1 DEF WorldGrows, WorldType, Undone
<1>2. ASSUME ApplyInProcess(cursor), pc = "undoing"
      PROVE  WorldGrows /\ \A j \in Steps : undone'[j].daemon = undone[j].daemon
    <2>1. cursor \in Steps
        BY <1>2, StackLength DEF IInv, Bounded, Steps, TypeOK, ScopeType
    <2>2. Apply("saga", cursor, stack[cursor].comp = "ownkey")
        BY <1>2 DEF ApplyInProcess
    <2>3. (stack[cursor].comp = "ownkey") \in BOOLEAN
        OBVIOUS
    <2> QED
        BY <1>0, <2>1, <2>2, <2>3, ApplyGrows
<1>3. CASE ScopeStep
    BY <1>1, <1>2, <1>3 DEF ScopeStep, Begin, Begun, Abort, Complete, Finished, RollbackStep,
       PassOver, Orphan, Undo, UndoOk, UndoFails, RollbackEnd, FinishAborted,
       RollbackEndRefused, world
<1>4. ASSUME NEW i \in Steps, CallStep(i) PROVE UNCHANGED <<undone, keySeen>>
    BY <1>4, CallStepMoves DEF CallFrame
<1>5. ASSUME NEW i \in Steps, LateLanding(i) PROVE UNCHANGED <<undone, keySeen>>
    BY <1>5 DEF LateLanding
<1>6. CASE SinkStep
    BY <1>1, <1>6 DEF SinkStep, world
<1>7. CASE Crash
    BY <1>1, <1>2, <1>7 DEF Crash
<1> QED
    BY <1>1, <1>3, <1>4, <1>5, <1>6, <1>7 DEF SagaNext

-----------------------------------------------------------------------------
(* What the steps of the saga write                                        *)

\* Nothing new comes into the log.
Drains ==
    /\ LogRecords' \subseteq LogRecords
    /\ Sorted(disk) /\ Sorted(buf) /\ InOrder(disk, buf)
          => Sorted(disk') /\ Sorted(buf') /\ InOrder(disk', buf')

\* The records s are queued.
Writes(s) == buf' = buf \o s /\ UNCHANGED disk

LEMMA ConcatSorted ==
    ASSUME NEW L \in Seq(Records), NEW M \in Seq(Records), Sorted(L), Sorted(M), InOrder(L, M)
    PROVE  Sorted(L \o M)
<1> DEFINE u == L \o M
<1>1. /\ Len(u) = Len(L) + Len(M) /\ Len(L) \in Nat /\ Len(M) \in Nat
      /\ \A p \in 1..(Len(L) + Len(M)) : u[p] = IF p <= Len(L) THEN L[p] ELSE M[p - Len(L)]
    BY ConcatProperties, LenProperties
<1>2. ASSUME NEW p \in 1..Len(u), NEW q \in 1..Len(u), p < q,
             u[p].ev \in StepEvents, u[q].ev \in StepEvents
      PROVE  u[p].step <= u[q].step
    <2>1. CASE q <= Len(L)
        <3>1. p \in 1..Len(L) /\ q \in 1..Len(L) /\ u[p] = L[p] /\ u[q] = L[q]
            BY <1>1, <1>2, <2>1
        <3> HIDE DEF u
        <3> QED
            BY <1>2, <3>1 DEF Sorted
    <2>2. CASE p > Len(L)
        <3>1. /\ p - Len(L) \in 1..Len(M) /\ q - Len(L) \in 1..Len(M)
              /\ p - Len(L) < q - Len(L) /\ u[p] = M[p - Len(L)] /\ u[q] = M[q - Len(L)]
            BY <1>1, <1>2, <2>2
        <3> HIDE DEF u
        <3> QED
            BY <1>2, <3>1 DEF Sorted
    <2>3. CASE p <= Len(L) /\ q > Len(L)
        <3>1. /\ p \in 1..Len(L) /\ q - Len(L) \in 1..Len(M)
              /\ u[p] = L[p] /\ u[q] = M[q - Len(L)]
            BY <1>1, <1>2, <2>3
        <3> HIDE DEF u
        <3> QED
            BY <1>2, <3>1 DEF InOrder
    <2> QED
        BY <1>1, <2>1, <2>2, <2>3
<1> HIDE DEF u
<1> QED
    BY <1>2 DEF Sorted, u

\* A queue that is in order is so in parts, and a part is in order with what
\* comes after it.
LEMMA PartsSorted ==
    ASSUME NEW L \in Seq(Records), NEW M \in Seq(Records), NEW k \in 0..Len(M), NEW j \in 0..k,
           Sorted(L), Sorted(M), InOrder(L, M)
    PROVE  /\ SubSeq(M, 1, j) \in Seq(Records) /\ SubSeq(M, k + 1, Len(M)) \in Seq(Records)
           /\ Sorted(L \o SubSeq(M, 1, j)) /\ Sorted(SubSeq(M, k + 1, Len(M)))
           /\ InOrder(L \o SubSeq(M, 1, j), SubSeq(M, k + 1, Len(M)))
<1> DEFINE a == SubSeq(M, 1, j)
           b == SubSeq(M, k + 1, Len(M))
<1>0. Len(M) \in Nat /\ j \in 0..Len(M) /\ j <= k
    BY LenProperties
<1>1. /\ a \in Seq(Records) /\ Len(a) = j /\ \A p \in 1..j : a[p] = M[p]
    BY <1>0, PrefixProperties
<1>2. /\ b \in Seq(Records) /\ Len(b) = Len(M) - k
      /\ \A p \in 1..(Len(M) - k) : b[p] = M[k + p]
    BY SuffixProperties
<1> HIDE DEF a, b
<1>3. Sorted(a) /\ InOrder(L, a)
    <2>1. \A p \in 1..Len(a) : p \in 1..Len(M) /\ a[p] = M[p]
        BY <1>0, <1>1
    <2> QED
        BY <2>1 DEF Sorted, InOrder
<1>4. Sorted(b) /\ InOrder(L, b)
    <2>1. \A p \in 1..Len(b) : k + p \in 1..Len(M) /\ b[p] = M[k + p]
        BY <1>0, <1>2
    <2>2. \A p, q \in 1..Len(b) : p < q => k + p < k + q
        BY <1>0, <1>2
    <2> QED
        BY <2>1, <2>2 DEF Sorted, InOrder
<1>5. InOrder(a, b)
    <2>1. \A p \in 1..Len(b) : k + p \in 1..Len(M) /\ b[p] = M[k + p]
        BY <1>0, <1>2
    <2>2. \A p \in 1..Len(a), q \in 1..Len(b) : p < k + q /\ p \in 1..Len(M) /\ a[p] = M[p]
        BY <1>0, <1>1, <1>2
    <2> QED
        BY <2>1, <2>2 DEF Sorted, InOrder
<1>6. Sorted(L \o a)
    BY <1>1, <1>3, ConcatSorted
<1>7. InOrder(L \o a, b)
    <2> DEFINE u == L \o a
    <2>1. /\ Len(u) = Len(L) + Len(a) /\ Len(L) \in Nat /\ Len(a) \in Nat
          /\ \A p \in 1..(Len(L) + Len(a)) : u[p] = IF p <= Len(L) THEN L[p] ELSE a[p - Len(L)]
        BY <1>1, ConcatProperties, LenProperties
    <2>2. ASSUME NEW p \in 1..Len(u), NEW q \in 1..Len(b),
                 u[p].ev \in StepEvents, b[q].ev \in StepEvents
          PROVE  u[p].step <= b[q].step
        <3>1. CASE p <= Len(L)
            BY <1>4, <2>1, <2>2, <3>1 DEF InOrder
        <3>2. CASE p > Len(L)
            <4>1. p - Len(L) \in 1..Len(a) /\ u[p] = a[p - Len(L)]
                BY <2>1, <2>2, <3>2
            <4> HIDE DEF u
            <4> QED
                BY <1>5, <2>2, <4>1 DEF InOrder
        <3> QED
            BY <2>1, <3>1, <3>2
    <2> HIDE DEF u
    <2> QED
        BY <2>2 DEF InOrder, u
<1> QED
    BY <1>1, <1>2, <1>4, <1>6, <1>7 DEF a, b

\* Whatever the sink writes, rejects or loses with the process.
LEMMA FlushDrains ==
    ASSUME LogType, NEW k \in 0..Len(buf), NEW j \in 0..k,
           disk' = disk \o SubSeq(buf, 1, j),
           buf' = SubSeq(buf, k + 1, Len(buf)) \/ buf' = <<>>
    PROVE  Drains
<1> DEFINE a == SubSeq(buf, 1, j)
           b == SubSeq(buf, k + 1, Len(buf))
<1>0. Len(buf) \in Nat /\ j \in 0..Len(buf) /\ buf \in Seq(Records) /\ disk \in Seq(Records)
    BY LenProperties DEF LogType
<1>1. a \in Seq(Records) /\ ToSet(a) \subseteq ToSet(buf)
    BY <1>0, PrefixProperties
<1>2. b \in Seq(Records) /\ ToSet(b) \subseteq ToSet(buf)
    <2>1. /\ b \in Seq(Records) /\ Len(b) = Len(buf) - k
          /\ \A p \in 1..(Len(buf) - k) : b[p] = buf[k + p]
        BY <1>0, SuffixProperties
    <2>2. \A p \in 1..Len(b) : k + p \in 1..Len(buf) /\ b[p] = buf[k + p]
        BY <1>0, <2>1
    <2> HIDE DEF b
    <2>3. ToSet(b) = {b[p] : p \in 1..Len(b)} /\ ToSet(buf) = {buf[p] : p \in 1..Len(buf)}
        BY <1>0, <2>1, ToSetDef
    <2> QED
        BY <2>1, <2>2, <2>3
<1>3. ToSet(disk') = ToSet(disk) \union ToSet(a) /\ ToSet(buf') \subseteq ToSet(buf)
    <2>1. ToSet(disk \o a) = ToSet(disk) \union ToSet(a)
        <3> HIDE DEF a
        <3> QED
            BY <1>0, <1>1, ToSetConcat
    <2> QED
        BY <1>2, <2>1, ToSetEmpty
<1>4. ASSUME Sorted(disk), Sorted(buf), InOrder(disk, buf)
      PROVE  Sorted(disk') /\ Sorted(buf') /\ InOrder(disk', buf')
    <2>1. Sorted(disk \o a) /\ Sorted(b) /\ InOrder(disk \o a, b)
        BY <1>0, <1>4, PartsSorted
    <2>2. Sorted(<<>>) /\ \A L : InOrder(L, <<>>)
        BY DEF Sorted, InOrder
    <2> QED
        BY <2>1, <2>2
<1> QED
    BY <1>1, <1>3, <1>4 DEF Drains, LogRecords

LEMMA SinkDrains ==
    ASSUME IInv, SinkStep
    PROVE  Drains /\ UNCHANGED want /\ UNCHANGED <<scope, call, stack, world>>
<1>0. LogType /\ Len(buf) \in Nat
    BY LenProperties DEF IInv, TypeOK, LogType
<1>1. ASSUME NEW k \in 1..Len(buf), Persist(k) PROVE Drains /\ UNCHANGED want
    <2>1. k \in 0..Len(buf) /\ k \in 0..k
        BY <1>0
    <2> QED
        BY <1>0, <1>1, <2>1, FlushDrains DEF Persist
<1>2. ASSUME NEW k \in 1..Len(buf), NEW j \in 0..k, Reject(k, j)
      PROVE  Drains /\ UNCHANGED want
    <2>1. k \in 0..Len(buf)
        BY <1>0
    <2> QED
        BY <1>0, <1>2, <2>1, FlushDrains DEF Reject
<1>3. ASSUME NEW f \in DOMAIN fence, Stall(f) PROVE Drains /\ UNCHANGED want
    BY <1>3 DEF Stall, Drains, LogRecords
<1> QED
    BY <1>1, <1>2, <1>3 DEF SinkStep

LEMMA CrashDrains ==
    ASSUME IInv, Crash
    PROVE  Drains
<1>0. LogType /\ Len(buf) \in Nat
    BY LenProperties DEF IInv, TypeOK, LogType
<1>1. PICK k \in 0..Len(buf) : LogCrash(k)
    BY DEF Crash
<1>2. k \in 0..k
    BY <1>0
<1> QED
    BY <1>0, <1>1, <1>2, FlushDrains DEF LogCrash

\* A record of the scope's own: it is about no call in flight, and it says that
\* a call was undone only when it was.
ScopeRecord(r) ==
    /\ r.ev \notin StepEvents /\ r.comp = "none"
    /\ r.ev = "COMPENSATED" => \E i \in Called' : r.step = i /\ Undone(i)'

LEMMA EmptyWrite ==
    ASSUME LogType, UNCHANGED <<buf, disk>>
    PROVE  Writes(<<>>) /\ <<>> \in Seq(Records) /\ \A r \in ToSet(<<>>) : ScopeRecord(r)
BY ToSetEmpty, EmptySeq DEF Writes, LogType

LEMMA OneWrite ==
    ASSUME LogType, NEW r \in Records, buf' = Append(buf, r), UNCHANGED disk, ScopeRecord(r)
    PROVE  Writes(<<r>>) /\ <<r>> \in Seq(Records) /\ \A q \in ToSet(<<r>>) : ScopeRecord(q)
<1>1. <<r>> \in Seq(Records) /\ \A q \in ToSet(<<r>>) : q = r
    BY DEF ToSet
<1>2. Append(buf, r) = buf \o <<r>>
    BY AppendIsConcat DEF LogType
<1> QED
    BY <1>1, <1>2 DEF Writes

LEMMA ScopeWrites ==
    ASSUME IInv, \A j \in Steps : keySeen[j] => Undone(j), ScopeStep
    PROVE  \E s \in Seq(Records) : Writes(s) /\ \A r \in ToSet(s) : ScopeRecord(r)
<1>0. /\ LogType /\ WorldType /\ 0 \in 0..Len(stack) /\ Len(stack) \in Nat
      /\ cursor > 0 => cursor \in Called /\ cursor \in Steps /\ cursor \in 0..Len(stack)
      /\ Called' = Called
    <2>1. ScopeFrame
        BY BoundaryMoves, RollbackMoves DEF ScopeStep
    <2> QED
        BY <2>1, StackLength DEF ScopeFrame, IInv, Bounded, TypeOK, ScopeType, Called, Steps
<1> DEFINE Goal == \E s \in Seq(Records) : Writes(s) /\ \A r \in ToSet(s) : ScopeRecord(r)
<1>1. UNCHANGED <<buf, disk>> => Goal
    BY <1>0, EmptyWrite
<1>2. ASSUME NEW r \in Records, Enqueue(r) \/ (\E f : EnqueueFenced(f, r)) \/ UNCHANGED <<buf, disk>>,
             ScopeRecord(r)
      PROVE  Goal
    BY <1>0, <1>1, <1>2, OneWrite DEF Enqueue, EnqueueFenced
<1>3. ASSUME NEW ev \in {"SAGA_START", "SAGA_COMPLETE", "ROLLBACK_END", "SAGA_ABORTED",
                         "SAGA_ABORT_CAUSE", "ROLLBACK_START"}
      PROVE  Rec(ev, 0) \in Records /\ ScopeRecord(Rec(ev, 0))
    <2>1. ev \in Events /\ "none" \in Comps /\ ev \notin StepEvents /\ ev # "COMPENSATED"
        BY <1>3 DEF Events, Comps, StepEvents
    <2> QED
        BY <1>0, <2>1, RecType DEF ScopeRecord, IInv, Bounded, TypeOK
<1>4. ASSUME NEW ev \in {"SAGA_START", "SAGA_COMPLETE", "ROLLBACK_END", "SAGA_ABORTED"},
             NEW waiting, NEW raised, ScopeFence(Rec(ev, 0), waiting, raised)
      PROVE  Goal
    BY <1>2, <1>3, <1>4 DEF ScopeFence, BufferFull, log
<1>5. ASSUME NEW ev \in {"STEP_ORPHANED", "COMPENSATED", "COMPENSATION_FAILED"}, cursor > 0,
             ev = "COMPENSATED" => \E i \in Called : i = cursor /\ Undone(i)',
             NEW next, ScopeAppend(Rec(ev, cursor), next)
      PROVE  Goal
    <2>1. ev \in Events /\ "none" \in Comps /\ ev \notin StepEvents
        BY <1>5 DEF Events, Comps, StepEvents
    <2>2. Rec(ev, cursor) \in Records /\ Rec(ev, cursor).ev = ev
          /\ Rec(ev, cursor).step = cursor /\ Rec(ev, cursor).comp = "none"
        BY <1>0, <1>5, <2>1, RecType DEF IInv, Bounded, TypeOK
    <2>3. ScopeRecord(Rec(ev, cursor))
        BY <1>0, <1>5, <2>1, <2>2 DEF ScopeRecord
    <2> QED
        BY <1>2, <1>5, <2>2, <2>3 DEF ScopeAppend, BufferFull, log
<1>6. CASE Begin
    BY <1>4, <1>6 DEF Begin
<1>7. CASE Begun \/ Finished \/ RollbackEndRefused
    BY <1>1, <1>7 DEF Begun, Finished, RollbackEndRefused, Answered
<1>8. CASE Abort
    <2> DEFINE s == <<Rec("SAGA_ABORT_CAUSE", 0), Rec("ROLLBACK_START", 0)>>
    <2>1. s \in Seq(Records) /\ \A r \in ToSet(s) : ScopeRecord(r)
        BY <1>3 DEF ToSet
    <2>2. (buf' = buf \o s /\ UNCHANGED disk) \/ UNCHANGED <<buf, disk>>
        BY <1>8 DEF Abort, BufferFull, log
    <2> HIDE DEF s
    <2> QED
        BY <1>1, <2>1, <2>2 DEF Writes
<1>9. CASE Complete
    BY <1>4, <1>9 DEF Complete
<1>10. CASE PassOver \/ Undo
    BY <1>1, <1>10 DEF PassOver, Undo, log
<1>11. CASE Orphan
    BY <1>5, <1>11 DEF Orphan, Due
<1>12. CASE UndoOk
    <2>1. cursor > 0 /\ ApplyInProcess(cursor)
        BY <1>12 DEF UndoOk, IInv, Bounded
    <2>2. PICK c \in Called : c = cursor /\ c \in Steps
        BY <1>0, <2>1
    <2>3. Apply("saga", c, stack[c].comp = "ownkey") /\ (stack[c].comp = "ownkey") \in BOOLEAN
        BY <2>1, <2>2 DEF ApplyInProcess
    <2>4. Undone(c)'
        BY <1>0, <2>2, <2>3, ApplyGrows
    <2> QED
        BY <1>5, <1>12, <2>1, <2>2, <2>4 DEF UndoOk
<1>13. CASE UndoFails
    BY <1>5, <1>13 DEF UndoFails, IInv, Bounded
<1>14. CASE RollbackEnd
    BY <1>4, <1>14 DEF RollbackEnd
<1>15. CASE FinishAborted
    BY <1>4, <1>15 DEF FinishAborted
<1> QED
    BY <1>6, <1>7, <1>8, <1>9, <1>10, <1>11, <1>12, <1>13, <1>14, <1>15 DEF ScopeStep, RollbackStep

\* What a step of call i writes is about that call, and says how to undo it as
\* the stack does.
CallRecord(r, i) ==
    /\ r.ev \in StepEvents /\ r.step = i /\ r.sem = stack'[i].sem
    /\ r.comp # "none" => r.comp = stack'[i].comp
    /\ r.ev = "COMPLETED_VIA_FALLBACK" => Fallbacks

CallMove(i) ==
    /\ want'[0] = want[0] /\ i \in Called'
    /\ UNCHANGED disk
    /\ UNCHANGED buf \/ \E r \in Records : buf' = Append(buf, r) /\ CallRecord(r, i)
    /\ call'[i] \in {"intent", "forward", "fallback"} => stack'[i].comp = "none"
    /\ i \in Called => /\ stack'[i].sem = stack[i].sem
                       /\ stack[i].comp # "none" => stack'[i].comp = stack[i].comp
                       /\ Len(stack') = Len(stack) /\ i \in InFlight
    /\ i \notin Called => Len(stack') = i /\ pc = "body" /\ (Parallel \/ InFlight = {})

LEMMA CallAppendWrites ==
    ASSUME IInv, NEW i \in Steps, NEW r \in Records, NEW fenced, NEW waiting, NEW next,
           CallAppend(i, r, fenced, waiting, next)
    PROVE  /\ want'[0] = want[0] /\ UNCHANGED disk
           /\ UNCHANGED buf \/ buf' = Append(buf, r)
<1>0. 0 \in 0..MaxSteps /\ i \in 0..MaxSteps /\ i # 0
    BY SagaAssumption DEF Steps
<1>1. CASE EnqueueFenced(i, r)
    BY <1>0, <1>1 DEF EnqueueFenced, IInv, TypeOK, LogType
<1>2. CASE Enqueue(r) \/ UNCHANGED log
    BY <1>2 DEF Enqueue, log
<1> QED
    BY <1>1, <1>2 DEF CallAppend, BufferFull

LEMMA RecSem ==
    ASSUME NEW i \in Called, NEW ev, NEW comp
    PROVE  Rec(ev, i).sem = stack[i].sem /\ CompRec(ev, i, comp).sem = stack[i].sem
<1>1. i # 0
    BY DEF Called
<1> QED
    BY <1>1 DEF Rec, CompRec

\* A call that puts a new state and inverse on its step and records both.
LEMMA PutWrites ==
    ASSUME IInv, NEW i \in Steps, call[i] \in {"forward", "fallback"}, stack[i].comp = "none",
           NEW st \in States, NEW comp \in Comps, Put(i, st, comp),
           NEW r \in Records, r.ev \in StepEvents, r.step = i, r.sem = stack[i].sem, r.comp = comp,
           r.ev = "COMPLETED_VIA_FALLBACK" => Fallbacks,
           want'[0] = want[0], UNCHANGED disk, UNCHANGED buf \/ buf' = Append(buf, r),
           call'[i] \in {"commit", "unknown", "returned", "raised"} \/ comp = "none"
    PROVE  CallMove(i)
<1>1. i \in Called /\ StackType /\ i \in InFlight
    BY InFlightCalled DEF IInv, TypeOK, InFlight
<1>2. /\ Len(stack') = Len(stack) /\ stack'[i].comp = comp /\ stack'[i].sem = stack[i].sem
    BY <1>1, PutMoves
<1>3. CallRecord(r, i) /\ i \in Called'
    BY <1>1, <1>2 DEF CallRecord, Called
<1> QED
    BY <1>1, <1>2, <1>3 DEF CallMove

LEMMA CallWrites ==
    ASSUME IInv, NEW i \in Steps, Derived(i), CallStep(i)
    PROVE  CallMove(i)
<1>0. /\ StackType /\ Len(stack) \in Nat /\ Len(stack) <= MaxSteps /\ "none" \in Comps
      /\ {"STEP_INTENT", "STEP_COMMITTED", "STEP_UNKNOWN", "COMPLETED_VIA_FALLBACK"}
            \subseteq Events \intersect StepEvents
      /\ {"COMMITTED", "UNKNOWN", "COMPLETED_VIA_FALLBACK"} \subseteq States
      /\ CompKinds \subseteq Comps
    BY StackLength DEF IInv, TypeOK, Comps, Events, StepEvents, States
<1>1. ASSUME NEW sem \in Semantics, i \in NewSteps, Execute(i, sem) PROVE CallMove(i)
    <2> DEFINE r == [ev |-> "STEP_INTENT", step |-> i, sem |-> sem, comp |-> "none"]
               e == [sem |-> sem, st |-> "INTENT_LOGGED", comp |-> "none"]
    <2>1. /\ r \in Records /\ r.ev = "STEP_INTENT" /\ r.step = i /\ r.sem = sem /\ r.comp = "none"
          /\ e.sem = sem /\ e.comp = "none"
        BY SagaAssumption DEF Records, Events, Comps, Steps
    <2>2. /\ i = Len(stack) + 1 /\ pc = "body" /\ (Parallel \/ InFlight = {})
          /\ stack' = Append(stack, e)
          /\ CallAppend(i, r, sem # "REVERSIBLE", "intent", "forward")
        BY <1>1 DEF Execute, NewSteps
    <2> HIDE DEF r, e
    <2>3. want'[0] = want[0] /\ UNCHANGED disk /\ (UNCHANGED buf \/ buf' = Append(buf, r))
        BY <2>1, <2>2, CallAppendWrites
    <2>4. Len(stack') = i /\ stack'[i] = e
        BY <2>2, StepSeq, <1>0
    <2>5. i \in Called' /\ i \notin Called
        BY <2>2, <2>4, <1>0 DEF Called
    <2>6. CallRecord(r, i)
        BY <1>0, <2>1, <2>4 DEF CallRecord
    <2> QED
        BY <2>1, <2>2, <2>3, <2>4, <2>5, <2>6 DEF CallMove
<1>2. ASSUME call[i] # "none", call[i] \notin {"returned", "raised"}, UNCHANGED <<stack, buf, disk>>,
             want' = [want EXCEPT ![i] = <<>>],
             call'[i] \in {"intent", "forward", "fallback"} => stack[i].comp = "none"
      PROVE  CallMove(i)
    <2>1. want'[0] = want[0]
        BY <1>2, SagaAssumption DEF IInv, TypeOK, LogType, Steps
    <2>2. i \in Called /\ i \in InFlight
        BY <1>2, InFlightCalled DEF InFlight
    <2> QED
        BY <1>2, <2>1, <2>2 DEF CallMove, Called
<1>3. CASE IntentAnswered(i)
    BY <1>2, <1>3 DEF IntentAnswered, Answered, Derived
<1>4. CASE CallAnswered(i)
    <2>1. call'[i] \in {"returned", "raised"}
        BY <1>4 DEF CallAnswered, At, IInv, TypeOK, CallType
    <2> QED
        BY <1>2, <1>4, <2>1 DEF CallAnswered, Answered
<1>5. ASSUME NEW ev \in {"STEP_COMMITTED", "STEP_UNKNOWN"}, NEW comp \in CompKinds,
             NEW st \in {"COMMITTED", "UNKNOWN"}, NEW fenced \in BOOLEAN,
             NEW waiting \in {"commit", "unknown"}, NEW next \in {"returned", "raised"},
             call[i] \in {"forward", "fallback"}, Put(i, st, comp),
             CallAppend(i, CompRec(ev, i, comp), fenced, waiting, next)
      PROVE  CallMove(i)
    <2>1. i \in Called /\ i \in 0..Len(stack)
        BY <1>5, InFlightCalled DEF Called
    <2> DEFINE r == CompRec(ev, i, comp)
    <2>2. r \in Records /\ r.ev = ev /\ r.step = i /\ r.comp = comp
        BY <1>0, <1>5, <2>1, RecType
    <2>3. r.sem = stack[i].sem
        BY <2>1, RecSem
    <2> HIDE DEF r
    <2>4. want'[0] = want[0] /\ UNCHANGED disk /\ (UNCHANGED buf \/ buf' = Append(buf, r))
        BY <1>5, <2>2, CallAppendWrites DEF r
    <2>5. call'[i] \in {"commit", "unknown", "returned", "raised"}
        BY <1>5, <2>2, CallAppendMoves DEF r, CallPlaces
    <2>6. stack[i].comp = "none"
        BY <1>5 DEF Derived
    <2> QED
        BY <1>0, <1>5, <2>2, <2>3, <2>4, <2>5, <2>6, PutWrites
<1>6. \A j \in Called : Durable(j) \in BOOLEAN /\ (DurableCommit /\ Durable(j)) \in BOOLEAN
    BY SagaAssumption DEF Durable
<1>7. ASSUME NEW comp \in CompKinds, ForwardOk(i, comp) PROVE CallMove(i)
    <2>1. i \in Called
        BY <1>7, InFlightCalled DEF ForwardOk
    <2> QED
        BY <1>5, <1>6, <1>7, <2>1 DEF ForwardOk
<1>8. ASSUME NEW comp \in CompKinds, MarkUnknown(i, comp), call[i] \in {"forward", "fallback"}
      PROVE  CallMove(i)
    <2>1. i \in Called
        BY <1>8, InFlightCalled
    <2> QED
        BY <1>5, <1>6, <1>8, <2>1 DEF MarkUnknown
<1>9. ASSUME NEW o \in Ambiguous, FallbackOk(i, o) PROVE CallMove(i)
    <2>1. i \in Called /\ i \in 0..Len(stack)
        BY <1>9, InFlightCalled DEF FallbackOk, Called
    <2> DEFINE r == Rec("COMPLETED_VIA_FALLBACK", i)
    <2>2. r \in Records /\ r.ev = "COMPLETED_VIA_FALLBACK" /\ r.step = i /\ r.comp = "none"
        BY <1>0, <2>1, RecType
    <2>3. r.sem = stack[i].sem
        BY <2>1, RecSem
    <2> HIDE DEF r
    <2>4. /\ call[i] = "forward" /\ Put(i, "COMPLETED_VIA_FALLBACK", "none")
          /\ CallAppend(i, r, DurableCommit /\ Durable(i), "fallback", "returned")
          /\ Fallbacks
        BY <1>9 DEF FallbackOk, CallAppend, r
    <2>5. want'[0] = want[0] /\ UNCHANGED disk /\ (UNCHANGED buf \/ buf' = Append(buf, r))
        BY <2>2, <2>4, CallAppendWrites
    <2>6. stack[i].comp = "none"
        BY <2>4 DEF Derived
    <2> QED
        BY <1>0, <2>2, <2>3, <2>4, <2>5, <2>6, PutWrites
<1> QED
    BY <1>1, <1>3, <1>4, <1>7, <1>8, <1>9 DEF CallStep, ForwardFails, FallbackRefused

-----------------------------------------------------------------------------
(* What the steps of the saga keep                                         *)

\* Calls stay on the stack, with their semantics and the inverse once derived.
StackKeeps ==
    \A j \in Called :
        /\ j \in Called' /\ stack'[j].sem = stack[j].sem
        /\ stack[j].comp # "none" => stack'[j].comp = stack[j].comp

LEMMA SagaFrame ==
    ASSUME IInv, \A i \in Steps : Derived(i), SagaNext
    PROVE  /\ StackKeeps /\ WorldGrows
           /\ \A j \in Steps : undone'[j].daemon = undone[j].daemon
           /\ ToSet(disk) \subseteq ToSet(disk')
<1>1. WorldGrows /\ \A j \in Steps : undone'[j].daemon = undone[j].daemon
    BY SagaWorld DEF Derived
<1>2. UNCHANGED stack => StackKeeps
    BY DEF StackKeeps, Called
<1>3. LogType /\ FencesHonest
    BY DEF IInv, TypeOK
<1>4. CASE ScopeStep
    <2>1. ScopeFrame
        BY <1>4, BoundaryMoves, RollbackMoves DEF ScopeStep
    <2>2. ToSet(disk) \subseteq ToSet(disk')
        BY <1>3, <2>1, LogMoves DEF ScopeFrame
    <2> QED
        BY <1>1, <2>1, <2>2 DEF ScopeFrame, StackKeeps, Called
<1>5. ASSUME NEW i \in Steps, CallStep(i)
      PROVE  StackKeeps /\ ToSet(disk) \subseteq ToSet(disk')
    <2>1. CallFrame(i) /\ CallMove(i)
        BY <1>5, CallStepMoves, CallWrites
    <2>2. \A j \in Called : j \in Steps
        BY StackLength
    <2> QED
        BY <2>1, <2>2 DEF CallFrame, CallMove, StackKeeps
<1>6. ASSUME NEW i \in Steps, LateLanding(i)
      PROVE  StackKeeps /\ ToSet(disk) \subseteq ToSet(disk')
    BY <1>2, <1>6 DEF LateLanding, log
<1>7. CASE SinkStep
    <2>1. LogMove
        BY <1>7 DEF SinkStep, LogMove
    <2> QED
        BY <1>1, <1>2, <1>3, <1>7, <2>1, LogMoves DEF SinkStep
<1>8. CASE Crash
    <2>1. LogMove
        BY <1>8 DEF Crash, LogMove
    <2> QED
        BY <1>1, <1>2, <1>3, <1>8, <2>1, LogMoves DEF Crash
<1> QED
    BY <1>1, <1>4, <1>5, <1>6, <1>7, <1>8 DEF SagaNext

LEMMA StaysTruthful ==
    ASSUME IInv, StackKeeps, WorldGrows, NEW r, Truthful(r)
    PROVE  Truthful(r)'
<1>1. Called \subseteq Steps
    BY StackLength
<1> QED
    BY <1>1 DEF Truthful, StackKeeps, WorldGrows

\* Every record in the log stays true, and every new one is.
LEMMA TruthKeeps ==
    ASSUME IInv, \A i \in Steps : Derived(i), Truth, SagaNext
    PROVE  Truth'
<1>0. /\ StackKeeps /\ WorldGrows /\ buf \in Seq(Records)
    BY SagaFrame DEF IInv, TypeOK, LogType
<1>1. LogRecords' \subseteq LogRecords => Truth'
    BY <1>0, StaysTruthful DEF Truth
<1>2. CASE ScopeStep
    <2>1. PICK s \in Seq(Records) : Writes(s) /\ \A r \in ToSet(s) : ScopeRecord(r)
        BY <1>2, ScopeWrites DEF Derived
    <2>2. LogRecords' = LogRecords \union ToSet(s)
        BY <1>0, <2>1, ToSetConcat DEF Writes, LogRecords
    <2>3. ASSUME NEW r \in ToSet(s) PROVE Truthful(r)'
        BY <2>1 DEF ScopeRecord, Truthful, StepEvents
    <2> QED
        BY <1>0, <2>2, <2>3, StaysTruthful DEF Truth
<1>3. ASSUME NEW i \in Steps, CallStep(i) PROVE Truth'
    <2>1. CallMove(i)
        BY <1>3, CallWrites
    <2>2. CASE UNCHANGED buf
        BY <1>1, <2>1, <2>2 DEF CallMove, LogRecords
    <2>3. ASSUME NEW r \in Records, buf' = Append(buf, r), CallRecord(r, i) PROVE Truth'
        <3>1. LogRecords' = LogRecords \union {r}
            BY <1>0, <2>1, <2>3, ToSetAppend DEF CallMove, LogRecords
        <3>2. Truthful(r)'
            BY <2>1, <2>3 DEF CallMove, CallRecord, Truthful, StepEvents
        <3> QED
            BY <1>0, <3>1, <3>2, StaysTruthful DEF Truth
    <2> QED
        BY <2>1, <2>2, <2>3 DEF CallMove
<1>4. ASSUME NEW i \in Steps, LateLanding(i) PROVE Truth'
    BY <1>1, <1>4 DEF LateLanding, log, LogRecords
<1>5. CASE SinkStep
    BY <1>1, <1>5, SinkDrains DEF Drains
<1>6. CASE Crash
    BY <1>1, <1>6, CrashDrains DEF Drains
<1> QED
    BY <1>2, <1>3, <1>4, <1>5, <1>6 DEF SagaNext

LEMMA InverseKeeps ==
    ASSUME IInv, \A j \in Steps : Derived(j), SagaNext, NEW i \in Steps
    PROVE  Derived(i)'
<1>0. /\ StackKeeps /\ WorldGrows /\ undone'[i].daemon = undone[i].daemon
      /\ Derived(i) /\ undone[i].daemon \in Nat
    BY SagaFrame DEF IInv, TypeOK, WorldType
<1>1. call'[i] \in {"intent", "forward", "fallback"} => stack'[i].comp = "none"
    <2>1. call[i] # "none" => i \in Called
        BY InFlightCalled
    <2>2. CASE ScopeStep
        <3>1. ScopeFrame
            BY <2>2, BoundaryMoves, RollbackMoves DEF ScopeStep
        <3> QED
            BY <1>0, <2>1, <3>1 DEF ScopeFrame, Derived
    <2>3. ASSUME NEW j \in Steps, CallStep(j)
          PROVE  call'[i] \in {"intent", "forward", "fallback"} => stack'[i].comp = "none"
        <3>1. CASE j = i
            BY <2>3, <3>1, CallWrites DEF CallMove
        <3>2. CASE j # i
            BY <1>0, <2>1, <2>3, <3>2, CallStepMoves DEF CallFrame, Derived
        <3> QED
            BY <3>1, <3>2
    <2>4. ASSUME NEW j \in Steps, LateLanding(j)
          PROVE  call'[i] \in {"intent", "forward", "fallback"} => stack'[i].comp = "none"
        BY <1>0, <2>4 DEF LateLanding, Derived
    <2>5. CASE SinkStep
        BY <1>0, <2>5 DEF SinkStep, Derived
    <2>6. CASE Crash
        BY <2>6 DEF Crash
    <2> QED
        BY <2>2, <2>3, <2>4, <2>5, <2>6 DEF SagaNext
<1>2. keySeen'[i] => Undone(i)'
    BY <1>0 DEF WorldGrows
<1>3. undone'[i].daemon > 0 => i \in Called' /\ stack'[i].comp # "none"
    BY <1>0 DEF Derived, StackKeeps
<1>4. i \in Called' /\ stack'[i].comp = "keyed"
          => undone'[i].daemon <= IF keySeen'[i] THEN 1 ELSE 0
    <2>1. CASE undone[i].daemon > 0
        <3>1. i \in Called /\ stack[i].comp = stack'[i].comp
            BY <1>0, <2>1 DEF Derived, StackKeeps
        <3> QED
            BY <1>0, <3>1 DEF Derived, WorldGrows
    <2>2. CASE undone[i].daemon = 0
        BY <1>0, <2>2
    <2> QED
        BY <1>0, <2>1, <2>2
<1> QED
    BY <1>1, <1>2, <1>3, <1>4 DEF Derived

\* Daemon d takes no step.
Still(d) ==
    at'[d] = at[d] /\ seen'[d] = seen[d] /\ done'[d] = done[d] /\ todo'[d] = todo[d]

\* A daemon's copies are as good as before while the others go on.
LEMMA WorkerStays ==
    ASSUME NEW d \in Daemons, Worker(d), Still(d), DaemonTypeOK,
           ToSet(disk) \subseteq ToSet(disk'), \A i \in Steps : Undone(i) => Undone(i)',
           Pending(seen[d]) \subseteq Steps
    PROVE  Worker(d)'
<1>1. done[d] \subseteq Steps
    BY DEF DaemonTypeOK
<1>2. \A i : (IsTop(d, i)' <=> IsTop(d, i)) /\ (Runnable(d, i)' <=> Runnable(d, i))
    BY DEF IsTop, Runnable, Still
<1> QED
    BY <1>1, <1>2 DEF Worker, Still

\* What a log of true records says about the steps it names.
LEMMA TrueLog ==
    ASSUME Truth, NEW L \in Seq(Records), ToSet(L) \subseteq ToSet(disk)
    PROVE  /\ LoggedSteps(L) \subseteq Called /\ Pending(L) \subseteq LoggedSteps(L)
           /\ \A i \in LoggedSteps(L) : LoggedSem(L, i) = stack[i].sem
           /\ \A i : LoggedComp(L, i) # "none" => i \in Called /\ stack[i].comp = LoggedComp(L, i)
           /\ \A i \in LoggedUndone(L) : i \in Called /\ Undone(i)
<1>1. \A r \in ToSet(L) : Truthful(r)
    BY DEF Truth, LogRecords
<1>2. LoggedSteps(L) \subseteq Called /\ Pending(L) \subseteq LoggedSteps(L)
    BY <1>1, LoggedStepsDef DEF Truthful, Pending
<1>3. ASSUME NEW i \in LoggedSteps(L) PROVE LoggedSem(L, i) = stack[i].sem
    <2>1. /\ Order(L, i) \in 1..Len(L)
          /\ L[Order(L, i)].ev \in StepEvents /\ L[Order(L, i)].step = i
        BY OrderFound
    <2>2. L[Order(L, i)] \in ToSet(L)
        BY <2>1, ToSetDef
    <2> QED
        BY <1>1, <2>1, <2>2 DEF Truthful, LoggedSem
<1>4. ASSUME NEW i, LoggedComp(L, i) # "none"
      PROVE  i \in Called /\ stack[i].comp = LoggedComp(L, i)
    <2>1. Outcome(L, i) # 0 /\ LoggedComp(L, i) = L[Outcome(L, i)].comp
        BY <1>4 DEF LoggedComp
    <2>2. L[Outcome(L, i)] \in ToSet(L) /\ L[Outcome(L, i)].step = i
        BY <2>1, OutcomeFound
    <2> QED
        BY <1>1, <1>4, <2>1, <2>2 DEF Truthful
<1>5. \A i \in LoggedUndone(L) : i \in Called /\ Undone(i)
    BY <1>1 DEF LoggedUndone, Truthful
<1> QED
    BY <1>2, <1>3, <1>4, <1>5

\* The same for what a daemon has read.
LEMMA TrueSight ==
    ASSUME IInv, DaemonTypeOK, Truth, NEW d \in Daemons, Worker(d)
    PROVE  /\ seen[d] \in Seq(Records) /\ LoggedSteps(seen[d]) \subseteq Called
           /\ Pending(seen[d]) \subseteq LoggedSteps(seen[d]) /\ todo[d] \subseteq Called
           /\ Called \subseteq Steps
           /\ \A i \in LoggedSteps(seen[d]) : LoggedSem(seen[d], i) = stack[i].sem
           /\ \A i : LoggedComp(seen[d], i) # "none" =>
                        i \in Called /\ stack[i].comp = LoggedComp(seen[d], i)
           /\ \A i \in LoggedUndone(seen[d]) : Undone(i)
<1>1. seen[d] \in Seq(Records) /\ ToSet(seen[d]) \subseteq ToSet(disk)
    BY DEF DaemonTypeOK, Worker
<1>2. /\ LoggedSteps(seen[d]) \subseteq Called /\ Pending(seen[d]) \subseteq LoggedSteps(seen[d])
      /\ \A i \in LoggedSteps(seen[d]) : LoggedSem(seen[d], i) = stack[i].sem
      /\ \A i : LoggedComp(seen[d], i) # "none" =>
                        i \in Called /\ stack[i].comp = LoggedComp(seen[d], i)
      /\ \A i \in LoggedUndone(seen[d]) : i \in Called /\ Undone(i)
    BY <1>1, TrueLog
<1> QED
    BY <1>1, <1>2, StackLength DEF Worker

\* Whoever has not been told the outcome of the saga, or may renew its lease, has
\* no daemon at work on it.
LEMMA OwnedKeeps ==
    ASSUME IInv, Safe, SagaNext, UNCHANGED daemonVars
    PROVE  Owned'
<1>0. /\ Owned /\ UNCHANGED at /\ FencesHonest /\ 0 \in Coroutines
      /\ ToSet(disk) \subseteq ToSet(disk')
      /\ \A j \in Steps : undone'[j].daemon = undone[j].daemon
      /\ LogType
    BY SagaFrame, SagaAssumption
       DEF Safe, IInv, TypeOK, daemonVars, daemon, Coroutines
<1>1. \A ev : Says(disk, ev) => Says(disk', ev)
    BY <1>0 DEF Says
\* The state of the scope does not change.
<1>2. ASSUME UNCHANGED pc, pc \notin Lost => UNCHANGED heartbeat, want'[0] = want[0],
             pc \in {"new", "beginning", "unbegun"} =>
                 stack' = <<>> /\ LogRecords' \subseteq LogRecords
      PROVE  Owned'
    BY <1>0, <1>1, <1>2 DEF Owned, Waits, Lost
\* A fence of the scope's own was granted.
<1>3. ASSUME NEW ev, Waits(ev), fence[0] = "granted" PROVE Says(disk, ev)
    BY <1>0, <1>3 DEF Waits, FencesHonest, Says
<1>4. ASSUME NEW ev, NEW raised, ScopeFence(Rec(ev, 0), pc', raised), pc' # raised PROVE Waits(ev)'
    <2>1. want'[0] = <<Rec(ev, 0)>>
        BY <1>0, <1>4 DEF ScopeFence, EnqueueFenced, LogType, Coroutines
    <2>2. Rec(ev, 0) \in ToSet(want'[0]) /\ Rec(ev, 0).ev = ev
        BY <2>1 DEF ToSet, Rec
    <2> QED
        BY <2>2 DEF Waits
<1>5. CASE Begin
    <2>1. /\ pc = "new" /\ pc' \in {"beginning", "unbegun"} /\ UNCHANGED stack
          /\ buf' = Append(buf, Rec("SAGA_START", 0)) \/ UNCHANGED buf
          /\ UNCHANGED disk
        BY <1>5 DEF Begin, ScopeFence, EnqueueFenced, BufferFull, log
    <2>2. Rec("SAGA_START", 0) \in Records /\ Rec("SAGA_START", 0).ev = "SAGA_START"
        BY RecType, StackLength DEF IInv, TypeOK, Events, Comps
    <2>3. LogRecords' \subseteq LogRecords \union {Rec("SAGA_START", 0)}
        <3>1. buf \in Seq(Records)
            BY <1>0 DEF LogType
        <3>2. ToSet(Append(buf, Rec("SAGA_START", 0))) = ToSet(buf) \union {Rec("SAGA_START", 0)}
            BY <2>2, <3>1, ToSetAppend
        <3> QED
            BY <2>1, <3>2 DEF LogRecords
    <2> QED
        BY <1>0, <2>1, <2>2, <2>3 DEF Owned, Lost
<1>6. CASE Begun
    BY <1>0, <1>6 DEF Begun, Owned, Lost, Answered, LogRecords
<1>7. CASE Abort
    <2>1. pc = "body" /\ pc' \in {"rollback", "escaped"} /\ UNCHANGED heartbeat
        BY <1>7 DEF Abort
    <2> QED
        BY <1>0, <2>1 DEF Owned, Lost
<1>8. CASE Complete
    <2>1. /\ pc = "body" /\ ScopeFence(Rec("SAGA_COMPLETE", 0), "completing", "unfinished")
          /\ pc' \in {"completing", "unfinished"}
        BY <1>8 DEF Complete, ScopeFence
    <2>2. pc' = "completing" => Waits("SAGA_COMPLETE")'
        BY <1>4, <2>1
    <2> QED
        BY <1>0, <2>1, <2>2 DEF Owned, Lost
<1>9. CASE Finished
    <2>1. CASE pc = "completing"
        <3>1. pc' \in {"completed", "unfinished"} /\ (pc' = "completed" => fence[0] = "granted")
            BY <1>9, <2>1 DEF Finished, Answered
        <3>2. pc' = "completed" => Says(disk', "SAGA_COMPLETE")
            BY <1>0, <1>1, <1>3, <2>1, <3>1 DEF Owned
        <3> QED
            BY <1>0, <2>1, <3>1, <3>2 DEF Owned, Lost
    <2>2. CASE pc = "aborting"
        <3>1. pc' \in {"aborted", "escaped"} /\ (pc' = "aborted" => fence[0] = "granted")
            BY <1>9, <2>2 DEF Finished, Answered
        <3>2. pc' = "aborted" => Says(disk', "SAGA_ABORTED") /\ Says(disk', "ROLLBACK_END")
            BY <1>0, <1>1, <1>3, <2>2, <3>1 DEF Owned
        <3> QED
            BY <1>0, <2>2, <3>1, <3>2 DEF Owned, Lost
    <2> QED
        BY <1>9, <2>1, <2>2 DEF Finished
<1>10. CASE PassOver \/ Orphan \/ Undo \/ UndoOk \/ UndoFails
    <2>1. /\ pc \in {"rollback", "undoing"} /\ pc' \in {"rollback", "undoing", "escaped"}
          /\ UNCHANGED heartbeat
        BY <1>10 DEF PassOver, Orphan, Undo, UndoOk, UndoFails, Due, ScopeAppend
    <2> QED
        BY <1>0, <2>1 DEF Owned, Lost
<1>11. CASE RollbackEnd
    <2>1. /\ pc = "rollback" /\ ScopeFence(Rec("ROLLBACK_END", 0), "rolledBack", "escaped")
          /\ pc' \in {"rolledBack", "escaped"} /\ UNCHANGED heartbeat
        BY <1>11 DEF RollbackEnd, ScopeFence
    <2>2. pc' = "rolledBack" => Waits("ROLLBACK_END")'
        BY <1>4, <2>1
    <2> QED
        BY <1>0, <2>1, <2>2 DEF Owned, Lost
<1>12. CASE FinishAborted
    <2>1. /\ pc = "rolledBack" /\ fence[0] = "granted"
          /\ ScopeFence(Rec("SAGA_ABORTED", 0), "aborting", "escaped")
          /\ pc' \in {"aborting", "escaped"}
        BY <1>12 DEF FinishAborted, ScopeFence
    <2>2. pc' = "aborting" => Waits("SAGA_ABORTED")'
        BY <1>4, <2>1
    <2>3. Says(disk', "ROLLBACK_END")
        BY <1>0, <1>1, <1>3, <2>1 DEF Owned
    <2> QED
        BY <1>0, <2>1, <2>2, <2>3 DEF Owned, Lost
<1>13. CASE RollbackEndRefused
    BY <1>0, <1>13 DEF RollbackEndRefused, Owned, Lost
<1>14. ASSUME NEW i \in Steps, CallStep(i) PROVE Owned'
    <2>1. CallFrame(i) /\ CallMove(i)
        BY <1>14, CallStepMoves, CallWrites DEF Safe
    <2>2. pc \in {"new", "beginning", "unbegun"} => FALSE
        BY <1>0, <2>1 DEF CallMove, Owned, Called
    <2> QED
        BY <1>2, <2>1, <2>2 DEF CallFrame, CallMove
<1>15. ASSUME NEW i \in Steps, LateLanding(i) PROVE Owned'
    <2>1. UNCHANGED <<buf, disk, want, pc, heartbeat, stack>>
        BY <1>15 DEF LateLanding, log, scope
    <2> QED
        BY <1>0, <1>2, <2>1 DEF LogRecords, Owned
<1>16. CASE SinkStep
    <2>1. Drains /\ UNCHANGED <<want, pc, heartbeat, stack>>
        BY <1>16, SinkDrains DEF scope
    <2> QED
        BY <1>0, <1>2, <2>1 DEF Drains, Owned
<1>17. CASE Crash
    BY <1>17 DEF Crash, Owned, Lost
<1> QED
    BY <1>5, <1>6, <1>7, <1>8, <1>9, <1>10, <1>11, <1>12, <1>13, <1>14, <1>15, <1>16, <1>17
       DEF SagaNext, ScopeStep, RollbackStep

-----------------------------------------------------------------------------
(* An agent that calls its tools one after the other                       *)

Ordered == Sorted(disk) /\ Sorted(buf) /\ InOrder(disk, buf)

\* Records that belong behind what is there keep the log in order.
LEMMA WriteOrdered ==
    ASSUME LogType, Ordered, NEW s \in Seq(Records), Writes(s), Sorted(s),
           InOrder(disk, s), InOrder(buf, s)
    PROVE  Ordered'
<1>0. buf \in Seq(Records) /\ disk \in Seq(Records)
    BY DEF LogType
<1>1. Sorted(buf \o s)
    BY <1>0, ConcatSorted DEF Ordered
<1>2. InOrder(disk, buf \o s)
    <2> DEFINE u == buf \o s
    <2>1. /\ Len(u) = Len(buf) + Len(s) /\ Len(buf) \in Nat /\ Len(s) \in Nat
          /\ \A p \in 1..(Len(buf) + Len(s)) :
                u[p] = IF p <= Len(buf) THEN buf[p] ELSE s[p - Len(buf)]
        BY <1>0, ConcatProperties, LenProperties
    <2>2. ASSUME NEW p \in 1..Len(disk), NEW q \in 1..Len(u),
                 disk[p].ev \in StepEvents, u[q].ev \in StepEvents
          PROVE  disk[p].step <= u[q].step
        <3>1. CASE q <= Len(buf)
            <4>1. q \in 1..Len(buf) /\ u[q] = buf[q]
                BY <2>1, <2>2, <3>1
            <4> HIDE DEF u
            <4> QED
                BY <2>2, <4>1 DEF Ordered, InOrder
        <3>2. CASE q > Len(buf)
            <4>1. q - Len(buf) \in 1..Len(s) /\ u[q] = s[q - Len(buf)]
                BY <2>1, <2>2, <3>2
            <4> HIDE DEF u
            <4> QED
                BY <2>2, <4>1 DEF InOrder
        <3> QED
            BY <2>1, <3>1, <3>2
    <2> HIDE DEF u
    <2> QED
        BY <2>2 DEF InOrder, u
<1> QED
    BY <1>1, <1>2 DEF Ordered, Writes

LEMMA ScopeOrdered ==
    ASSUME IInv, \A j \in Steps : keySeen[j] => Undone(j), Ordered, ScopeStep
    PROVE  Ordered'
<1>1. PICK s \in Seq(Records) : Writes(s) /\ \A r \in ToSet(s) : ScopeRecord(r)
    BY ScopeWrites
<1>2. \A p \in 1..Len(s) : s[p].ev \notin StepEvents
    <2>1. \A p \in 1..Len(s) : s[p] \in ToSet(s)
        BY ToSetDef
    <2> QED
        BY <1>1, <2>1 DEF ScopeRecord
<1>3. Sorted(s) /\ \A L : InOrder(L, s)
    BY <1>2 DEF Sorted, InOrder
<1> QED
    BY <1>1, <1>3, WriteOrdered DEF IInv, TypeOK

\* What a call writes belongs behind what is there: no later call has begun.
LEMMA CallOrdered ==
    ASSUME IInv, Truth, Ordered, NEW i \in Steps, CallMove(i), Len(stack) <= i
    PROVE  Ordered'
<1>0. LogType /\ Len(stack) \in Nat /\ i \in Nat
    BY StackLength DEF IInv, TypeOK, Steps
<1>1. CASE UNCHANGED buf
    BY <1>1 DEF CallMove, Ordered
<1>2. ASSUME NEW r \in Records, buf' = Append(buf, r), CallRecord(r, i) PROVE Ordered'
    <2>1. buf' = buf \o <<r>> /\ <<r>> \in Seq(Records) /\ Len(<<r>>) = 1 /\ <<r>>[1] = r
        BY <1>0, <1>2, AppendIsConcat DEF LogType
    <2>2. Sorted(<<r>>)
        BY DEF Sorted
    <2>3. ASSUME NEW L \in Seq(Records), ToSet(L) \subseteq LogRecords
          PROVE  InOrder(L, <<r>>)
        <3>1. ASSUME NEW p \in 1..Len(L), L[p].ev \in StepEvents PROVE L[p].step <= r.step
            <4>1. L[p] \in LogRecords
                BY <2>3, ToSetDef
            <4>2. L[p].step \in Called
                BY <3>1, <4>1 DEF Truth, Truthful
            <4> QED
                BY <1>0, <1>2, <4>2 DEF Called, CallRecord
        <3> QED
            BY <2>1, <3>1 DEF InOrder
    <2>4. InOrder(disk, <<r>>) /\ InOrder(buf, <<r>>)
        BY <1>0, <2>3 DEF LogType, LogRecords
    <2>5. Writes(<<r>>)
        BY <2>1 DEF Writes, CallMove
    <2> QED
        BY <1>0, <2>1, <2>2, <2>4, <2>5, WriteOrdered
<1> QED
    BY <1>1, <1>2 DEF CallMove

LEMMA SequentialKeeps ==
    ASSUME IInv, DaemonTypeOK, Safe, ~Parallel, Sequential, SagaNext, UNCHANGED daemonVars
    PROVE  Sequential'
<1>0. /\ UNCHANGED <<at, seen>> /\ Ordered /\ Truth /\ Owned
      /\ \A j \in Steps : keySeen[j] => Undone(j)
      /\ Len(stack) \in Nat
    BY StackLength DEF Sequential, Ordered, Safe, Derived, daemonVars, daemon
<1>1. ASSUME NEW d \in Daemons, at[d] # "idle" PROVE InFlight = {} /\ pc # "body"
    BY <1>1 DEF Safe, Owned, Lost, Sequential
\* What a daemon reads covers every effect: none is added.
<1>2. ASSUME \A i \in Called' : i \in Called /\ stack'[i].sem = stack[i].sem
                                /\ (effect'[i] # "none" => effect[i] # "none")
      PROVE  \A d \in Daemons : at'[d] # "idle" =>
                 /\ Sorted(seen[d])'
                 /\ \A i \in Called' : effect'[i] # "none" /\ Durable(i)'
                                          => i \in LoggedSteps(seen[d])'
    BY <1>0, <1>2 DEF Sequential, Durable
\* The calls stand still.
<1>3. ASSUME UNCHANGED <<call, stack>>, pc' # "body" => InFlight = {}, Ordered',
             \A i \in Called : effect'[i] # "none" => effect[i] # "none"
      PROVE  Sequential'
    <2>1. InFlight' = InFlight /\ Called' = Called
        BY <1>3 DEF InFlight, Called
    <2> QED
        BY <1>2, <1>3, <2>1 DEF Sequential, Ordered
<1>4. CASE ScopeStep
    <2>1. ScopeFrame
        BY <1>4, BoundaryMoves, RollbackMoves DEF ScopeStep
    <2>2. InFlight' = InFlight /\ Called' = Called /\ Len(stack') = Len(stack)
        BY <2>1 DEF ScopeFrame, InFlight, Called
    <2>3. pc' # "body" => InFlight = {}
        BY <1>4 DEF Sequential, ScopeStep, Begin, Begun, Abort, Complete, Finished, RollbackStep,
           PassOver, Orphan, Undo, UndoOk, UndoFails, RollbackEnd, FinishAborted,
           RollbackEndRefused, Due
    <2>4. Ordered'
        BY <1>0, <1>4, ScopeOrdered
    <2> QED
        BY <1>2, <2>1, <2>2, <2>3, <2>4 DEF ScopeFrame, Sequential, Ordered
<1>5. ASSUME NEW i \in Steps, CallStep(i) PROVE Sequential'
    <2>1. CallFrame(i) /\ CallMove(i)
        BY <1>5, CallStepMoves, CallWrites DEF Safe
    <2>2. pc = "body" /\ pc' = "body" /\ Len(stack) <= i /\ Len(stack') = i
        BY <1>0, <2>1 DEF CallFrame, CallMove, Sequential, Called, Steps
    <2>3. ASSUME NEW j \in InFlight' PROVE j = Len(stack')
        <3>1. CASE j = i
            BY <2>2, <3>1
        <3>2. CASE j # i
            <4>1. j \in InFlight /\ j = Len(stack)
                BY <2>1, <2>3, <3>2 DEF CallFrame, InFlight, Sequential
            <4> QED
                BY <2>1, <3>2, <4>1 DEF CallMove, Sequential
        <3> QED
            BY <3>1, <3>2
    <2>4. Ordered'
        BY <1>0, <2>1, <2>2, CallOrdered
    <2>5. \A d \in Daemons : at'[d] = "idle"
        BY <1>0, <1>1, <2>2
    <2> QED
        BY <2>2, <2>3, <2>4, <2>5 DEF Sequential, Ordered
<1>6. ASSUME NEW i \in Steps, LateLanding(i) PROVE Sequential'
    <2>1. /\ UNCHANGED <<buf, disk, call, stack, pc>>
          /\ effect[i] = "running" /\ effect' = [effect EXCEPT ![i] = "landed"]
        BY <1>6 DEF LateLanding, log, scope
    <2>2. Called \subseteq Steps
        BY StackLength
    <2> QED
        BY <1>0, <1>3, <2>1, <2>2 DEF Sequential, Ordered, IInv, TypeOK, WorldType
<1>7. CASE SinkStep
    <2>1. Drains /\ UNCHANGED <<pc, call, stack, effect>>
        BY <1>7, SinkDrains DEF scope, world
    <2>2. Ordered'
        BY <1>0, <2>1 DEF Drains, Ordered
    <2> QED
        BY <1>3, <2>1, <2>2 DEF Sequential
<1>8. CASE Crash
    <2>1. InFlight' = {} /\ UNCHANGED stack
        BY <1>8 DEF Crash, InFlight
    <2>2. Ordered'
        BY <1>0, <1>8, CrashDrains DEF Drains, Ordered
    <2>3. ASSUME NEW d \in Daemons, at[d] # "idle", NEW i \in Called
          PROVE  effect'[i] # "none" => effect[i] # "none"
        <3>1. i \in Steps /\ call[i] # "forward"
            BY <1>1, <2>3, StackLength DEF InFlight
        <3>2. effect'[i] = effect[i]
            BY <1>8, <3>1 DEF Crash
        <3> QED
            BY <3>2
    <2>4. \A d \in Daemons : at'[d] # "idle" =>
                 /\ Sorted(seen[d])'
                 /\ \A i \in Called' : effect'[i] # "none" /\ Durable(i)'
                                          => i \in LoggedSteps(seen[d])'
        BY <1>0, <2>1, <2>3 DEF Sequential, Durable, Called
    <2> QED
        BY <2>1, <2>2, <2>4 DEF Sequential, Ordered
<1> QED
    BY <1>4, <1>5, <1>6, <1>7, <1>8 DEF SagaNext

-----------------------------------------------------------------------------
(* The steps of the daemons                                                *)

\* A daemon finds work only when the saga is lost: as long as its process renews
\* the lease, and when its outcome is in the log, there is none.
LEMMA SweepIsLost ==
    ASSUME IInv, Owned, LeaseExpired, Dangling(disk)
    PROVE  pc \in Lost
<1>1. pc # "unbegun"
    <2> SUFFICES ASSUME pc = "unbegun" PROVE FALSE
        OBVIOUS
    <2>1. \A r \in ToSet(disk) : r.ev \notin StepEvents
        BY DEF Owned, LogRecords, StepEvents
    <2>2. Pending(disk) = {}
        BY <2>1 DEF Pending, LoggedSteps
    <2> QED
        BY <2>2 DEF Dangling
<1>2. pc \notin {"completed", "aborted"}
    BY DEF Owned, Dangling, ResolvedInProcess
<1>3. pc \notin {"body", "rollback", "undoing", "rolledBack", "new", "beginning",
                 "completing", "aborting"}
    BY DEF LeaseExpired, Owned
<1> QED
    BY <1>1, <1>2, <1>3 DEF Lost, IInv, TypeOK, ScopeType

\* Only one step is due at a time.
LEMMA TopIsUnique ==
    ASSUME NEW d \in Daemons, seen[d] \in Seq(Records), todo[d] \subseteq LoggedSteps(seen[d]),
           NEW i, NEW j, IsTop(d, i), IsTop(d, j)
    PROVE  i = j
<1>1. i \in LoggedSteps(seen[d]) /\ j \in LoggedSteps(seen[d])
    BY DEF IsTop
<1>2. Order(seen[d], i) \in 1..Len(seen[d]) /\ Order(seen[d], j) \in 1..Len(seen[d])
    BY <1>1, OrderFound
<1>3. Order(seen[d], i) = Order(seen[d], j)
    BY <1>2 DEF IsTop
<1> QED
    BY <1>1, <1>3, OrderIsUnique

\* A daemon that calls a handler applies an inverse that the saga derived, with
\* the key that belongs to it.
LEMMA DaemonApplies ==
    ASSUME IInv, DaemonTypeOK, Safe, NEW d \in Daemons, NEW i, IsTop(d, i), at[d] = "calling",
           ApplyFromLog(d, i), UNCHANGED <<call, stack>>
    PROVE  /\ WorldGrows /\ i \in Steps /\ Undone(i)'
           /\ \A j \in Steps : Derived(j)'
<1> DEFINE comp == LoggedComp(seen[d], i)
           keyed == comp \in {"keyed", "ownkey"}
<1>1. /\ i \in Called /\ i \in Steps /\ Worker(d) /\ \A j \in Steps : Derived(j)
      /\ \A j : LoggedComp(seen[d], j) # "none" => stack[j].comp = LoggedComp(seen[d], j)
    BY TrueSight DEF Safe, IsTop
<1>2. comp # "none" /\ stack[i].comp = comp
    <2>1. Recoverable(comp)
        BY <1>1 DEF Worker, Runnable
    <2>2. comp # "none"
        BY <2>1 DEF Recoverable
    <2> QED
        BY <1>1, <2>2
<1>3. Apply("daemon", i, keyed) /\ keyed \in BOOLEAN /\ WorldType
    BY DEF ApplyFromLog, IInv, TypeOK
<1> HIDE DEF comp, keyed
<1>4. /\ WorldGrows /\ Undone(i)'
      /\ \A j \in Steps : j # i => undone'[j] = undone[j] /\ keySeen'[j] = keySeen[j]
      /\ undone'[i].daemon = IF keyed /\ keySeen[i] THEN undone[i].daemon
                             ELSE undone[i].daemon + 1
      /\ keyed => keySeen'[i] = TRUE
    BY <1>1, <1>3, ApplyGrows DEF Derived
<1>5. ASSUME NEW j \in Steps, j # i PROVE Derived(j)'
    BY <1>1, <1>4, <1>5 DEF Derived, Called, Undone
<1>6. Derived(i)'
    <2>1. undone[i].daemon \in Nat
        BY <1>1, <1>3 DEF WorldType
    <2>2. stack[i].comp = "keyed" => undone'[i].daemon <= IF keySeen'[i] THEN 1 ELSE 0
        <3> SUFFICES ASSUME stack[i].comp = "keyed" PROVE undone'[i].daemon <= 1 /\ keySeen'[i] = TRUE
            OBVIOUS
        <3>1. keyed
            BY <1>2 DEF keyed
        <3>2. undone[i].daemon <= IF keySeen[i] THEN 1 ELSE 0
            BY <1>1 DEF Derived
        <3> QED
            BY <1>4, <2>1, <3>1, <3>2
    <2> QED
        BY <1>1, <1>2, <1>4, <2>2 DEF Derived, Called, Undone
<1> QED
    BY <1>1, <1>4, <1>5, <1>6

\* The saga's state, as a step of a daemon leaves it.
LEMMA AsideKeeps ==
    ASSUME IInv, WorldGrows, UNCHANGED <<log, scope, call, stack, effect, faults>>
    PROVE  IInv'
<1>1. UNCHANGED <<buf, disk, fence, want, pc, cursor, halted, heartbeat>>
    BY DEF log, scope
<1>2. TypeOK' /\ FencesHonest' /\ Bounded'
    <2>1. LogType' /\ StackType' /\ ScopeType' /\ CallType' /\ faults' \in 0..MaxFaults
        BY <1>1 DEF IInv, TypeOK, LogType, StackType, ScopeType, CallType
    <2>2. WorldType'
        BY DEF IInv, TypeOK, WorldType, WorldGrows
    <2>3. FencesHonest' /\ Bounded'
        BY <1>1 DEF IInv, FencesHonest, Bounded
    <2> QED
        BY <2>1, <2>2, <2>3 DEF TypeOK
<1>3. ASSUME NEW j \in Steps PROVE Recorded(j)'
    BY <1>1 DEF IInv, Recorded, Placed, IntentFirst, InverseFirst, OnDisk, Durable, Called
<1> QED
    BY <1>2, <1>3 DEF IInv, Steps

LEMMA AsideTruthful ==
    ASSUME IInv, Truth, WorldGrows, UNCHANGED <<log, stack>>
    PROVE  Truth'
<1>1. StackKeeps /\ LogRecords' = LogRecords
    BY DEF StackKeeps, Called, LogRecords, log
<1> QED
    BY <1>1, StaysTruthful DEF Truth

DaemonType ==
    /\ at \in [Daemons -> {"idle", "swept", "working", "calling", "journalling"}]
    /\ seen \in [Daemons -> Seq(Records)]
    /\ done \in [Daemons -> SUBSET Steps] /\ todo \in [Daemons -> SUBSET Steps]

\* What daemon d reads covers every effect, step events in call order.
Covers(d) ==
    at[d] # "idle" =>
        /\ Sorted(seen[d])
        /\ \A i \in Called : effect[i] # "none" /\ Durable(i) => i \in LoggedSteps(seen[d])

\* What a step of daemon d leaves alone, and what it keeps.
DaemonFrame(d) ==
    /\ pc \in Lost
    /\ UNCHANGED <<log, scope, call, stack, effect, faults>>
    /\ WorldGrows /\ \A j \in Steps : Derived(j)'
    /\ DaemonTypeOK' /\ \A e \in Daemons : e # d => Still(e)
    /\ Worker(d)'
    /\ \A i \in ledger' : Undone(i)'
    /\ ~Parallel => Covers(d)'

LEMMA DaemonKeeps ==
    ASSUME DInv, NEW d \in Daemons, DaemonFrame(d)
    PROVE  DInv'
<1> USE DEF DInv, Safe
<1>0. UNCHANGED <<buf, disk, pc, heartbeat, want>>
    BY DEF DaemonFrame, log, scope
<1>1. IInv' /\ Truth'
    BY AsideKeeps, AsideTruthful DEF DaemonFrame
<1>2. Owned'
    BY <1>0 DEF DaemonFrame, Owned, Lost, Waits, LogRecords
<1>3. ASSUME NEW e \in Daemons, e # d PROVE Worker(e)' /\ (Covers(e) => Covers(e)')
    <2>1. Still(e) /\ Worker(e) /\ Pending(seen[e]) \subseteq Steps
        BY <1>3, TrueSight DEF DaemonFrame
    <2>2. Worker(e)'
        BY <1>0, <2>1, WorkerStays DEF DaemonFrame, WorldGrows
    <2> QED
        BY <2>1, <2>2 DEF Covers, DaemonFrame, Still, Called, Durable
<1>4. ~Parallel => Sequential'
    BY <1>0, <1>3 DEF Sequential, DaemonFrame, InFlight, Covers
<1> QED
    BY <1>1, <1>2, <1>3, <1>4 DEF DaemonFrame

\* A step that applies nothing.
LEMMA NothingApplied ==
    ASSUME IInv, Safe, UNCHANGED <<call, stack, undone, keySeen>>
    PROVE  /\ WorldGrows /\ \A j \in Steps : Derived(j)'
           /\ \A i : Undone(i)' <=> Undone(i)
BY DEF IInv, TypeOK, WorldType, Safe, WorldGrows, Derived, Undone, Called

\* A daemon that is through with the saga drops its copies.
LEMMA IdleMoves ==
    ASSUME DaemonType, NEW d \in Daemons, Idle(d)
    PROVE  /\ DaemonType' /\ \A e \in Daemons : e # d => Still(e)
           /\ Worker(d)' /\ Covers(d)'
<1>1. at'[d] = "idle" /\ seen'[d] = <<>> /\ done'[d] = {} /\ todo'[d] = {}
    BY DEF DaemonType, Idle
<1>2. DaemonType' /\ \A e \in Daemons : e # d => Still(e)
    <2>1. <<>> \in Seq(Records)
        BY EmptySeq
    <2> QED
        BY <2>1 DEF DaemonType, Idle, Still
<1>3. Worker(d)' /\ Covers(d)'
    BY <1>1, ToSetEmpty DEF Worker, Covers, AtWork
<1> QED
    BY <1>2, <1>3

\* A daemon that goes on with its copies.
LEMMA GotoMoves ==
    ASSUME DaemonType, NEW d \in Daemons, NEW place \in AtWork, NEW rest \in SUBSET Steps,
           at' = [at EXCEPT ![d] = place], todo' = [todo EXCEPT ![d] = rest],
           UNCHANGED <<seen, done>>
    PROVE  /\ DaemonType' /\ \A e \in Daemons : e # d => Still(e)
           /\ at'[d] = place /\ todo'[d] = rest /\ seen'[d] = seen[d] /\ done'[d] = done[d]
BY DEF DaemonType, Still, AtWork

LEMMA SweepMoves ==
    ASSUME DInv, NEW d \in Daemons, SweepStep(d)
    PROVE  DaemonFrame(d)
<1> USE DEF DInv, Safe
<1>1. /\ at[d] = "idle" /\ at' = [at EXCEPT ![d] = "swept"] /\ seen' = [seen EXCEPT ![d] = disk]
      /\ done' = [done EXCEPT ![d] = ledger \union LoggedUndone(disk)]
      /\ UNCHANGED <<todo, claim, ledger, escalated, trouble>>
      /\ UNCHANGED <<log, scope, call, stack, effect, undone, keySeen, faults>>
      /\ LeaseExpired /\ Dangling(disk)
    BY DEF SweepStep, Sweep, ReadRecords, CompletedKeys, shared, sagaVars, world
<1>2. pc \in Lost
    BY <1>1, SweepIsLost
<1>3. /\ WorldGrows /\ \A j \in Steps : Derived(j)'
      /\ \A i : Undone(i)' <=> Undone(i)
    BY <1>1, NothingApplied
<1>4. /\ disk \in Seq(Records) /\ Called \subseteq Steps /\ disk' = disk
      /\ \A i \in LoggedUndone(disk) : i \in Called /\ Undone(i)
    BY <1>1, TrueLog, StackLength DEF IInv, TypeOK, LogType, log
<1>5. /\ DaemonTypeOK' /\ \A e \in Daemons : e # d => Still(e)
      /\ at'[d] = "swept" /\ seen'[d] = disk /\ todo'[d] = {}
      /\ done'[d] = ledger \union LoggedUndone(disk)
    <2>1. ledger \union LoggedUndone(disk) \subseteq Steps
        BY <1>4 DEF DaemonTypeOK
    <2>2. todo[d] = {}
        BY <1>1 DEF Worker
    <2> QED
        BY <1>1, <1>4, <2>1, <2>2 DEF DaemonTypeOK, Still
<1>6. Worker(d)'
    BY <1>3, <1>4, <1>5 DEF Worker, AtWork
<1>7. ~Parallel => Covers(d)'
    <2> SUFFICES ASSUME ~Parallel PROVE Covers(d)'
        OBVIOUS
    <2>1. Sorted(disk)
        BY DEF Sequential
    <2>2. ASSUME NEW i \in Called, effect[i] # "none", Durable(i) PROVE i \in LoggedSteps(disk)
        <3>1. OnDisk("STEP_INTENT", i)
            BY <1>4, <2>2 DEF IInv, Recorded, IntentFirst
        <3> QED
            BY <1>4, <3>1, LoggedStepsDef DEF OnDisk, StepEvents
    <2> QED
        BY <1>1, <1>5, <2>1, <2>2 DEF Covers, Called, Durable
<1> QED
    BY <1>1, <1>2, <1>3, <1>5, <1>6, <1>7 DEF DaemonFrame

\* A daemon that is not idle works for a saga that is lost.
LEMMA BusyIsLost ==
    ASSUME DInv, NEW d \in Daemons, at[d] # "idle"
    PROVE  pc \in Lost
BY DEF DInv, Safe, Owned

\* The steps a daemon reads as pending, and what it knows of them.
LEMMA Sight ==
    ASSUME DInv, NEW d \in Daemons
    PROVE  /\ Worker(d) /\ DaemonType /\ (~Parallel => Covers(d))
           /\ seen[d] \in Seq(Records)
           /\ Pending(seen[d]) \subseteq LoggedSteps(seen[d]) /\ Pending(seen[d]) \subseteq Steps
           /\ todo[d] \subseteq Pending(seen[d])
           /\ \A i, j : IsTop(d, i) /\ IsTop(d, j) => i = j
<1>1. /\ Worker(d) /\ DaemonType /\ (~Parallel => Covers(d))
      /\ seen[d] \in Seq(Records) /\ Pending(seen[d]) \subseteq LoggedSteps(seen[d])
      /\ Pending(seen[d]) \subseteq Steps
    BY TrueSight DEF DInv, Safe, Sequential, Covers, DaemonTypeOK, DaemonType
<1>2. todo[d] \subseteq Pending(seen[d])
    BY <1>1 DEF Worker
<1> QED
    BY <1>1, <1>2, TopIsUnique

\* Whatever the sweep does between its calls.
LEMMA BookkeepingMoves ==
    ASSUME DInv, NEW d \in Daemons, BookkeepingStep(d)
    PROVE  DaemonFrame(d)
<1>0. /\ UNCHANGED <<log, scope, call, stack, effect, undone, keySeen, faults>>
      /\ Bookkeeping(d) /\ at[d] # "idle"
    BY DEF BookkeepingStep, Bookkeeping, sagaVars, world, EscalateSaga, Claim, Skip,
       EscalateStep, Attempt, JournalSuccess, Recovered, Working
<1>1. pc \in Lost
    BY <1>0, BusyIsLost
<1>2. /\ WorldGrows /\ \A j \in Steps : Derived(j)'
      /\ \A i : Undone(i)' <=> Undone(i)
    BY <1>0, NothingApplied DEF DInv
<1>3. /\ Worker(d) /\ DaemonType /\ (~Parallel => Covers(d))
      /\ seen[d] \in Seq(Records) /\ Pending(seen[d]) \subseteq Steps
      /\ todo[d] \subseteq Pending(seen[d])
      /\ \A i, j : IsTop(d, i) /\ IsTop(d, j) => i = j
    BY Sight
<1>4. /\ \A i \in ledger : Undone(i)
      /\ ledger \subseteq Steps /\ escalated \subseteq Steps
      /\ claim \in Daemons \union {Nobody} /\ trouble \in 0..MaxTrouble
    BY DEF DInv, Safe, DaemonTypeOK
\* What is left to show of each step.
<1>5. ASSUME DaemonType', \A e \in Daemons : e # d => Still(e), Worker(d)', ~Parallel => Covers(d)',
             \A i \in ledger' : Undone(i), ledger' \subseteq Steps, escalated' \subseteq Steps,
             claim' \in Daemons \union {Nobody}, UNCHANGED trouble
      PROVE  DaemonFrame(d)
    <2>1. DaemonTypeOK'
        BY <1>4, <1>5 DEF DaemonTypeOK, DaemonType
    <2> QED
        BY <1>0, <1>1, <1>2, <1>5, <2>1 DEF DaemonFrame
<1>6. ASSUME Idle(d), UNCHANGED <<ledger, trouble>>, escalated' \subseteq Steps,
             claim' \in Daemons \union {Nobody}
      PROVE  DaemonFrame(d)
    BY <1>3, <1>4, <1>5, <1>6, IdleMoves
\* The daemon goes on: its copy of the log, and what it covers, are the same.
<1>7. ASSUME NEW place \in AtWork, NEW rest \in SUBSET Steps,
             at' = [at EXCEPT ![d] = place], todo' = [todo EXCEPT ![d] = rest],
             UNCHANGED <<seen, done, trouble, escalated>>, claim' \in Daemons \union {Nobody},
             ledger' \subseteq Steps, \A i \in ledger' : Undone(i), rest \subseteq Pending(seen[d]),
             \A i \in Pending(seen[d]) : i \in rest \/ Undone(i),
             \A i \in Pending(seen[d]) : LoggedSem(seen[d], i) # "IRREVERSIBLE",
             place = "calling" => \A i \in Steps : IsTop(d, i)' => Runnable(d, i),
             place # "journalling"
      PROVE  DaemonFrame(d)
    <2>1. /\ DaemonType' /\ \A e \in Daemons : e # d => Still(e)
          /\ at'[d] = place /\ todo'[d] = rest /\ seen'[d] = seen[d] /\ done'[d] = done[d]
        BY <1>3, <1>7, GotoMoves
    <2>2. Worker(d)'
        <3>1. \A i : Runnable(d, i)' <=> Runnable(d, i)
            BY <2>1 DEF Runnable
        <3>2. disk' = disk /\ done[d] \subseteq Steps
            BY <1>0, <1>3 DEF log, DaemonType
        <3> QED
            BY <1>2, <1>3, <1>7, <2>1, <3>1, <3>2 DEF Worker, AtWork
    <2>3. ~Parallel => Covers(d)'
        BY <1>0, <1>3, <2>1 DEF Covers, Called, Durable
    <2> QED
        BY <1>4, <1>5, <1>7, <2>1, <2>2, <2>3
<1>8. CASE EscalateSaga(d)
    <2>1. Irreversible(d) \subseteq Steps
        BY <1>3 DEF Irreversible
    <2> QED
        BY <1>4, <1>6, <1>8, <2>1 DEF EscalateSaga
<1>9. CASE Claim(d)
    <2>1. CASE claim = Nobody
        <3>1. /\ at' = [at EXCEPT ![d] = "working"]
              /\ todo' = [todo EXCEPT ![d] = Pending(seen[d])]
              /\ UNCHANGED <<seen, done, ledger, trouble, escalated>> /\ claim' = d
              /\ \A i \in Pending(seen[d]) : LoggedSem(seen[d], i) # "IRREVERSIBLE"
            BY <1>9, <2>1 DEF Claim, Irreversible
        <3> QED
            BY <1>3, <1>4, <1>7, <3>1 DEF AtWork
    <2>2. CASE claim # Nobody
        BY <1>4, <1>6, <1>9, <2>2 DEF Claim
    <2> QED
        BY <2>1, <2>2
<1>10. ASSUME NEW i \in todo[d], Skip(d, i) PROVE DaemonFrame(d)
    <2>1. /\ at[d] = "working" /\ i \in done[d] /\ UNCHANGED <<at, seen, done, claim, ledger, escalated, trouble>>
          /\ todo' = [todo EXCEPT ![d] = todo[d] \ {i}]
        BY <1>10 DEF Skip, Working, shared
    <2>2. at' = [at EXCEPT ![d] = "working"]
        BY <1>3, <2>1 DEF DaemonType
    <2>3. Undone(i) /\ todo[d] \ {i} \subseteq Steps
        BY <1>3, <2>1 DEF Worker
    <2> QED
        BY <1>3, <1>4, <1>7, <2>1, <2>2, <2>3 DEF AtWork, Worker
<1>11. ASSUME NEW i \in todo[d], EscalateStep(d, i) PROVE DaemonFrame(d)
    BY <1>3, <1>4, <1>6, <1>11 DEF EscalateStep, Release
<1>12. ASSUME NEW i \in todo[d], Attempt(d, i) PROVE DaemonFrame(d)
    <2>1. /\ at[d] = "working" /\ IsTop(d, i) /\ Runnable(d, i)
          /\ at' = [at EXCEPT ![d] = "calling"]
          /\ UNCHANGED <<seen, done, todo, claim, ledger, escalated, trouble>>
        BY <1>12 DEF Attempt, Working, Goto, shared
    <2>2. todo' = [todo EXCEPT ![d] = todo[d]] /\ todo[d] \in SUBSET Steps
        BY <1>3, <2>1 DEF DaemonType
    <2>3. \A j \in Steps : IsTop(d, j)' => Runnable(d, j)
        BY <1>3, <2>1 DEF IsTop
    <2> QED
        BY <1>3, <1>4, <1>7, <2>1, <2>2, <2>3 DEF AtWork, Worker
<1>13. ASSUME NEW i \in todo[d], JournalSuccess(d, i) PROVE DaemonFrame(d)
    <2>1. /\ at[d] = "journalling" /\ IsTop(d, i) /\ at' = [at EXCEPT ![d] = "working"]
          /\ todo' = [todo EXCEPT ![d] = todo[d] \ {i}] /\ ledger' = ledger \union {i}
          /\ UNCHANGED <<seen, done, claim, escalated, trouble>>
        BY <1>13 DEF JournalSuccess, RecordSuccess
    <2>2. i \in Steps /\ Undone(i) /\ todo[d] \ {i} \subseteq Steps
        BY <1>3, <2>1 DEF Worker
    <2> QED
        BY <1>3, <1>4, <1>7, <2>1, <2>2 DEF AtWork, Worker
<1>14. CASE Recovered(d)
    BY <1>4, <1>6, <1>14 DEF Recovered, Release
<1> QED
    BY <1>0, <1>8, <1>9, <1>10, <1>11, <1>12, <1>13, <1>14 DEF Bookkeeping

\* The daemon calls a handler, or dies; what a call under way does to the world,
\* it does before anybody else looks.
LEMMA HandlerMoves ==
    ASSUME DInv, NEW d \in Daemons, HandlerStep(d) \/ DaemonCrashStep(d)
    PROVE  DaemonFrame(d)
<1>0. UNCHANGED <<log, scope, call, stack, effect, faults>> /\ at[d] # "idle"
    BY DEF HandlerStep, DaemonCrashStep, HandlerCall, CallOk, CallFails, DaemonCrash
<1>1. pc \in Lost
    BY <1>0, BusyIsLost
<1>2. /\ Worker(d) /\ DaemonType /\ (~Parallel => Covers(d))
      /\ seen[d] \in Seq(Records) /\ Pending(seen[d]) \subseteq Steps
      /\ todo[d] \subseteq Pending(seen[d])
      /\ \A i, j : IsTop(d, i) /\ IsTop(d, j) => i = j
    BY Sight
<1>3. /\ \A i \in ledger : Undone(i)
      /\ ledger \subseteq Steps /\ escalated \subseteq Steps
      /\ claim \in Daemons \union {Nobody} /\ trouble \in 0..MaxTrouble /\ MaxTrouble \in Nat
    BY DaemonAssumption DEF DInv, Safe, DaemonTypeOK
<1>4. ASSUME Trouble PROVE trouble' \in 0..MaxTrouble
    BY <1>3, <1>4 DEF Trouble
\* What is left to show of each step.
<1>5. ASSUME WorldGrows, \A j \in Steps : Derived(j)',
             DaemonType', \A e \in Daemons : e # d => Still(e), Worker(d)', ~Parallel => Covers(d)',
             UNCHANGED ledger, escalated' \subseteq Steps,
             claim' \in Daemons \union {Nobody}, trouble' \in 0..MaxTrouble
      PROVE  DaemonFrame(d)
    <2>1. DaemonTypeOK'
        BY <1>3, <1>5 DEF DaemonTypeOK, DaemonType
    <2>2. \A i \in ledger' : Undone(i)'
        BY <1>3, <1>5 DEF WorldGrows
    <2> QED
        BY <1>0, <1>1, <1>5, <2>1, <2>2 DEF DaemonFrame
<1>6. ASSUME at[d] = "calling", NEW i, IsTop(d, i), ApplyFromLog(d, i)
      PROVE  WorldGrows /\ (\A j \in Steps : Derived(j)') /\ i \in Steps /\ Undone(i)'
    BY <1>0, <1>6, DaemonApplies DEF DInv
<1>7. ASSUME UNCHANGED <<undone, keySeen>>
      PROVE  WorldGrows /\ \A j \in Steps : Derived(j)'
    BY <1>0, <1>7, NothingApplied DEF DInv
<1>8. ASSUME NEW i \in todo[d], CallOk(d, i) PROVE DaemonFrame(d)
    <2>1. /\ at[d] = "calling" /\ IsTop(d, i) /\ ApplyFromLog(d, i)
          /\ at' = [at EXCEPT ![d] = "journalling"]
          /\ UNCHANGED <<seen, done, todo, claim, ledger, escalated, trouble>>
        BY <1>8 DEF CallOk, Goto, shared
    <2>2. WorldGrows /\ (\A j \in Steps : Derived(j)') /\ i \in Steps /\ Undone(i)'
        BY <1>6, <2>1
    <2>3. /\ DaemonType' /\ \A e \in Daemons : e # d => Still(e)
          /\ at'[d] = "journalling" /\ todo'[d] = todo[d] /\ seen'[d] = seen[d] /\ done'[d] = done[d]
        <3>1. todo' = [todo EXCEPT ![d] = todo[d]] /\ todo[d] \in SUBSET Steps
            BY <1>2, <2>1 DEF DaemonType
        <3> QED
            BY <1>2, <2>1, <3>1, GotoMoves DEF AtWork
    <2>4. Worker(d)'
        <3>1. \A j : IsTop(d, j)' => j = i
            BY <1>2, <2>1 DEF IsTop
        <3>2. disk' = disk /\ done[d] \subseteq Steps
            BY <1>0, <1>2 DEF log, DaemonType
        <3> QED
            BY <1>2, <2>1, <2>2, <2>3, <3>1, <3>2 DEF Worker, AtWork, WorldGrows
    <2>5. ~Parallel => Covers(d)'
        BY <1>0, <1>2, <2>1, <2>3 DEF Covers, Called, Durable
    <2> QED
        BY <1>3, <1>5, <2>1, <2>2, <2>3, <2>4, <2>5
<1>9. ASSUME WorldGrows, \A j \in Steps : Derived(j)', Idle(d), UNCHANGED ledger, Trouble,
             escalated' \subseteq Steps, claim' \in Daemons \union {Nobody}
      PROVE  DaemonFrame(d)
    BY <1>2, <1>4, <1>5, <1>9, IdleMoves
<1>10. ASSUME NEW i \in todo[d], CallFails(d, i) PROVE DaemonFrame(d)
    <2>1. WorldGrows /\ \A j \in Steps : Derived(j)'
        BY <1>6, <1>7, <1>10 DEF CallFails
    <2> QED
        BY <1>2, <1>3, <1>9, <1>10, <2>1 DEF CallFails, Release
<1>11. CASE DaemonCrash(d)
    <2>1. WorldGrows /\ \A j \in Steps : Derived(j)'
        BY <1>6, <1>7, <1>11 DEF DaemonCrash
    <2> QED
        BY <1>3, <1>9, <1>11, <2>1 DEF DaemonCrash, shared
<1> QED
    BY <1>8, <1>10, <1>11 DEF HandlerStep, DaemonCrashStep, HandlerCall

-----------------------------------------------------------------------------
(* The system                                                              *)

\* A step of the saga, while the daemons stand still.
LEMMA SagaKeeps ==
    ASSUME DInv, SagaNext, UNCHANGED daemonVars
    PROVE  DInv'
<1> USE DEF DInv, Safe
<1>1. /\ StackKeeps /\ WorldGrows /\ ToSet(disk) \subseteq ToSet(disk')
      /\ IInv' /\ Owned' /\ Truth'
    BY SagaFrame, IInvStep, OwnedKeeps, TruthKeeps
<1>2. \A i \in Steps : Derived(i)'
    BY InverseKeeps
<1>3. UNCHANGED <<at, seen, done, todo, claim, ledger, escalated, trouble>>
    BY DEF daemonVars, daemon, shared
<1>4. DaemonTypeOK' /\ \A i \in ledger' : Undone(i)'
    BY <1>1, <1>3 DEF DaemonTypeOK, WorldGrows
<1>5. ASSUME NEW d \in Daemons PROVE Worker(d)'
    <2>1. Worker(d) /\ Pending(seen[d]) \subseteq Steps
        BY TrueSight
    <2>2. Still(d)
        BY <1>3 DEF Still
    <2> QED
        BY <1>1, <2>1, <2>2, WorkerStays DEF WorldGrows
<1>6. ~Parallel => Sequential'
    BY SequentialKeeps
<1> QED
    BY <1>1, <1>2, <1>4, <1>5, <1>6

\* An operator removes a claim, or nothing happens.
LEMMA ClaimKeeps ==
    ASSUME DInv, UNCHANGED <<sagaVars, daemon, ledger, escalated, trouble>>,
           claim' \in {claim, Nobody}
    PROVE  DInv'
<1> USE DEF DInv, Safe
<1>1. /\ UNCHANGED <<buf, disk, fence, want, pc, cursor, halted, heartbeat, call, stack, effect,
                     undone, keySeen, faults, at, seen, done, todo, ledger, escalated, trouble>>
      /\ UNCHANGED <<log, scope>>
    BY DEF sagaVars, log, scope, world, daemon
<1>2. WorldGrows /\ \A j \in Steps : Derived(j)'
    BY <1>1, NothingApplied
<1>3. IInv' /\ Truth'
    BY <1>1, <1>2, AsideKeeps, AsideTruthful
<1>4. Owned'
    BY <1>1 DEF Owned, Lost, Waits, LogRecords
<1>5. DaemonTypeOK' /\ \A i \in ledger' : Undone(i)'
    BY <1>1 DEF DaemonTypeOK, Undone
<1>6. ASSUME NEW d \in Daemons PROVE Worker(d)'
    <2>1. Worker(d) /\ Pending(seen[d]) \subseteq Steps /\ Still(d)
        BY <1>1, TrueSight DEF Still
    <2> QED
        BY <1>1, <1>2, <2>1, WorkerStays DEF WorldGrows
<1>7. ~Parallel => Sequential'
    BY <1>1 DEF Sequential, InFlight, Called, Durable
<1> QED
    BY <1>2, <1>3, <1>4, <1>5, <1>6, <1>7

LEMMA InitDInv == Init => DInv
<1> SUFFICES ASSUME Init PROVE DInv
    OBVIOUS
<1>1. IInv
    BY InitIInv DEF Init
<1>2. DaemonTypeOK
    <2>1. <<>> \in Seq(Records) /\ 0 \in 0..MaxTrouble
        BY EmptySeq, DaemonAssumption
    <2> QED
        BY <2>1 DEF Init, DaemonInit, DaemonTypeOK
<1>3. /\ buf = <<>> /\ disk = <<>> /\ stack = <<>> /\ pc = "new" /\ Called = {}
      /\ \A i \in Steps : undone[i] = [saga |-> 0, daemon |-> 0] /\ keySeen[i] = FALSE
                          /\ call[i] = "none"
      /\ \A d \in Daemons : at[d] = "idle" /\ seen[d] = <<>> /\ done[d] = {} /\ todo[d] = {}
      /\ ledger = {}
    BY DEF Init, SagaInit, LogInit, DaemonInit, Called
<1>4. LogRecords = {}
    BY <1>3, ToSetEmpty DEF LogRecords
<1>5. Owned /\ Truth
    BY <1>3, <1>4 DEF Owned, Truth, Lost
<1>6. \A i \in Steps : Derived(i)
    BY <1>3 DEF Derived
<1>7. \A d \in Daemons : Worker(d)
    BY <1>3, ToSetEmpty DEF Worker, AtWork
<1>8. Sequential
    BY <1>3 DEF Sequential, InFlight, Sorted, InOrder
<1> QED
    BY <1>1, <1>2, <1>3, <1>5, <1>6, <1>7, <1>8 DEF DInv, Safe

LEMMA DInvStep == DInv /\ [Next]_systemVars => DInv'
<1> SUFFICES ASSUME DInv, [Next]_systemVars PROVE DInv'
    OBVIOUS
<1>1. CASE SagaNext /\ UNCHANGED daemonVars
    BY <1>1, SagaKeeps
<1>2. ASSUME NEW d \in Daemons,
             SweepStep(d) \/ BookkeepingStep(d) \/ HandlerStep(d) \/ DaemonCrashStep(d)
      PROVE  DInv'
    BY <1>2, SweepMoves, BookkeepingMoves, HandlerMoves, DaemonKeeps
<1>3. CASE OperatorUnclaim /\ UNCHANGED sagaVars
    BY <1>3, ClaimKeeps DEF OperatorUnclaim, daemon
<1>4. CASE UNCHANGED systemVars
    BY <1>4, ClaimKeeps DEF systemVars, daemonVars, daemon, shared
<1> QED
    BY <1>1, <1>2, <1>3, <1>4 DEF Next

\* The inductive invariant holds in every state the saga and its daemons reach.
THEOREM RecoveryInvariant == Spec => []DInv
BY InitDInv, DInvStep, PTL DEF Spec

\* The saga's variables keep their types while daemons apply inverses, and the
\* daemons work on steps that the log names.
THEOREM SystemTypeCorrect == Spec => [](TypeOK /\ DaemonTypeOK)
<1>1. DInv => TypeOK /\ DaemonTypeOK
    BY DEF DInv, IInv
<1> QED
    BY <1>1, RecoveryInvariant, PTL

\* "A live process is never touched": as long as the scope has not failed to record
\* its outcome and the process lives, no daemon applies an inverse, also when the
\* saga is rolling back, when it has just ended, and when calls run in parallel.
THEOREM OwnedIsUntouched == Spec => []OwnedUntouched
<1>1. DInv => OwnedUntouched
    BY DEF DInv, Safe, Owned, Lost, OwnedUntouched
<1> QED
    BY <1>1, RecoveryInvariant, PTL

\* A keyed handler takes effect once, however many daemons race, retry or die over
\* it: the key comes from the descriptor, which is derived once.
THEOREM KeyedAppliesOnce == Spec => []DaemonsApplyOnce
<1>1. DInv => DaemonsApplyOnce
    <2> SUFFICES ASSUME DInv, NEW i \in Called, stack[i].comp = "keyed"
                 PROVE  undone[i].daemon <= 1
        BY DEF DaemonsApplyOnce
    <2>1. i \in Steps /\ Derived(i) /\ undone[i].daemon \in Nat
        BY StackLength DEF DInv, Safe, IInv, TypeOK, WorldType
    <2> QED
        BY <2>1 DEF Derived
<1> QED
    BY <1>1, RecoveryInvariant, PTL

-----------------------------------------------------------------------------
(* The verdict and the order of a recovery, for an agent that calls its     *)
(* tools one after the other                                               *)

\* A durable effect that stands, of a call without a fallback, is pending for
\* every daemon that read the log.
LEMMA StandingIsPending ==
    ASSUME DInv, ~Parallel, NEW d \in Daemons, at[d] # "idle",
           NEW i \in Called, Standing(i), Durable(i), ~OnDisk("COMPLETED_VIA_FALLBACK", i)
    PROVE  i \in Pending(seen[d]) /\ i \in LoggedSteps(seen[d])
<1>1. /\ seen[d] \in Seq(Records) /\ ToSet(seen[d]) \subseteq ToSet(disk)
      /\ Covers(d) /\ \A j \in LoggedUndone(seen[d]) : Undone(j)
    BY Sight, TrueSight DEF DInv, Safe, Worker
<1>2. i \in LoggedSteps(seen[d]) /\ i \notin LoggedUndone(seen[d])
    BY <1>1 DEF Covers, Standing
<1>3. LoggedState(seen[d], i) # "COMPLETED_VIA_FALLBACK"
    BY <1>1, OutcomeFound DEF LoggedState, OnDisk
<1> QED
    BY <1>2, <1>3 DEF Pending

\* When a daemon reports RECOVERED, every durable effect is undone, by whomever,
\* or the log says that a fallback stands for it.
SettledOrFallback ==
    \A d \in Daemons :
        at[d] = "working" /\ todo[d] = {} =>
            \A i \in Called :
                Standing(i) /\ Durable(i) => OnDisk("COMPLETED_VIA_FALLBACK", i)

LEMMA Settles == DInv /\ ~Parallel => SettledOrFallback
<1> SUFFICES ASSUME DInv, ~Parallel, NEW d \in Daemons, at[d] = "working", todo[d] = {},
                    NEW i \in Called, Standing(i), Durable(i),
                    ~OnDisk("COMPLETED_VIA_FALLBACK", i)
             PROVE  FALSE
    BY DEF SettledOrFallback
<1>1. i \in Pending(seen[d])
    BY StandingIsPending
<1>2. Worker(d)
    BY DEF DInv, Safe
<1> QED
    BY <1>1, <1>2 DEF Worker, AtWork, Standing

LEMMA NoFallback ==
    ASSUME DInv, ~Fallbacks, NEW i
    PROVE  ~OnDisk("COMPLETED_VIA_FALLBACK", i)
BY DEF DInv, Safe, Truth, Truthful, LogRecords, OnDisk

\* A recovery that reports success has undone what was there, or found it undone
\* or covered by a fallback.
THEOREM RecoveredIsSettled == Parallel = FALSE => (Spec => []SettledOrFallback)
<1> SUFFICES ASSUME Parallel = FALSE PROVE Spec => []SettledOrFallback
    OBVIOUS
<1>1. DInv => SettledOrFallback
    BY Settles
<1> QED
    BY <1>1, RecoveryInvariant, PTL

\* RECOVERED is the truth, for tools without a fallback: when a daemon reports it,
\* no durable effect stands.
THEOREM RecoveredIsUndone ==
    Parallel = FALSE /\ Fallbacks = FALSE => (Spec => []RecoveredMeansUndone)
<1> SUFFICES ASSUME Parallel = FALSE, Fallbacks = FALSE
             PROVE  Spec => []RecoveredMeansUndone
    OBVIOUS
<1>1. DInv => RecoveredMeansUndone
    BY Settles, NoFallback DEF SettledOrFallback, RecoveredMeansUndone
<1> QED
    BY <1>1, RecoveryInvariant, PTL

\* Recovery is LIFO across the crash: a daemon undoes a step only when every later
\* durable effect is undone, whoever did it.
THEOREM RecoveryIsLIFO ==
    Parallel = FALSE /\ Fallbacks = FALSE => (Spec => RecoveryLIFO)
<1> SUFFICES ASSUME Parallel = FALSE, Fallbacks = FALSE PROVE Spec => RecoveryLIFO
    OBVIOUS
<1> DEFINE LIFO == \A d \in Daemons, i \in Steps : Calls(d, i) =>
          \A j \in (i + 1)..Len(stack) :
              Standing(j) /\ Durable(j) => stack[j].st = "COMPLETED_VIA_FALLBACK"
<1>1. DInv => LIFO
    <2> SUFFICES ASSUME DInv, NEW d \in Daemons, NEW i \in Steps, Calls(d, i),
                        NEW j \in (i + 1)..Len(stack), Standing(j), Durable(j)
                 PROVE  FALSE
        OBVIOUS
    <2>1. /\ i \in Nat /\ j \in Called /\ i < j /\ Len(stack) \in Nat
        BY StackLength DEF DInv, Called, Steps
    <2>2. at[d] = "working" /\ IsTop(d, i)
        BY DEF Calls
    <2>3. j \in Pending(seen[d]) /\ j \in LoggedSteps(seen[d])
        BY <2>1, <2>2, NoFallback, StandingIsPending
    <2>4. /\ Worker(d) /\ seen[d] \in Seq(Records) /\ Covers(d)
          /\ i \in LoggedSteps(seen[d])
        BY <2>2, Sight DEF IsTop
    <2>5. j \in todo[d] /\ Order(seen[d], j) <= Order(seen[d], i)
        BY <2>2, <2>3, <2>4 DEF Worker, AtWork, Standing, IsTop
    <2> DEFINE p == Order(seen[d], j)
               q == Order(seen[d], i)
    <2>6. /\ p \in 1..Len(seen[d]) /\ seen[d][p].ev \in StepEvents /\ seen[d][p].step = j
          /\ q \in 1..Len(seen[d]) /\ seen[d][q].ev \in StepEvents /\ seen[d][q].step = i
        BY <2>3, <2>4, OrderFound
    <2> HIDE DEF p, q
    <2>7. p < q
        <3>1. p # q
            BY <2>1, <2>6
        <3> QED
            BY <2>5, <2>6, <3>1 DEF p, q
    <2>8. j <= i
        BY <2>2, <2>4, <2>6, <2>7 DEF Covers, Sorted
    <2> QED
        BY <2>1, <2>8
<1>2. DInv /\ [Next]_systemVars => [LIFO]_systemVars
    BY <1>1
<1> HIDE DEF LIFO
<1>3. Spec => [][LIFO]_systemVars
    BY <1>2, RecoveryInvariant, PTL DEF Spec
<1> QED
    BY <1>3 DEF LIFO, RecoveryLIFO

\* Fail closed: while an IRREVERSIBLE effect stands, no daemon undoes anything of
\* the saga.
THEOREM FailsClosed ==
    Parallel = FALSE /\ Fallbacks = FALSE => (Spec => IrreversibleHandsOff)
<1> SUFFICES ASSUME Parallel = FALSE, Fallbacks = FALSE PROVE Spec => IrreversibleHandsOff
    OBVIOUS
<1> DEFINE HandsOff == \A d \in Daemons, i \in Steps : Calls(d, i) =>
          \A j \in Called :
              Standing(j) /\ stack[j].sem = "IRREVERSIBLE"
                  => stack[j].st = "COMPLETED_VIA_FALLBACK"
<1>1. DInv => HandsOff
    <2> SUFFICES ASSUME DInv, NEW d \in Daemons, NEW i \in Steps, Calls(d, i),
                        NEW j \in Called, Standing(j), stack[j].sem = "IRREVERSIBLE"
                 PROVE  FALSE
        OBVIOUS
    <2>1. at[d] = "working" /\ Worker(d)
        BY DEF Calls, DInv, Safe
    <2>2. j \in Pending(seen[d]) /\ j \in LoggedSteps(seen[d])
        BY <2>1, NoFallback, StandingIsPending DEF Durable
    <2>3. LoggedSem(seen[d], j) = "IRREVERSIBLE"
        BY <2>1, <2>2, TrueSight DEF DInv, Safe
    <2> QED
        BY <2>1, <2>2, <2>3 DEF Worker, AtWork
<1>2. DInv /\ [Next]_systemVars => [HandsOff]_systemVars
    BY <1>1
<1> HIDE DEF HandsOff
<1>3. Spec => [][HandsOff]_systemVars
    BY <1>2, RecoveryInvariant, PTL DEF Spec
<1> QED
    BY <1>3 DEF HandsOff, IrreversibleHandsOff

=============================================================================
