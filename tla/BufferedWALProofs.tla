------------------------- MODULE BufferedWALProofs -------------------------
(***************************************************************************)
(* Safety of BufferedWAL for any clients, buffer sizes, policies and       *)
(* number of records, with the sink failing and close() giving up at any   *)
(* point; and that it implements LogSink, which is all that a saga knows   *)
(* of its log.                                                             *)
(***************************************************************************)
EXTENDS WALRefinement, SequenceTheorems, TLAPS

-----------------------------------------------------------------------------
(* The records in a queue, in a file and in a part of a batch               *)

\* ToSet by positions.
LEMMA ToSetDef ==
    ASSUME NEW S, NEW s \in Seq(S)
    PROVE  ToSet(s) = {s[i] : i \in 1..Len(s)} /\ ToSet(s) \subseteq S
BY DEF ToSet

LEMMA ToSetEmpty == ToSet(<<>>) = {}
BY DEF ToSet

LEMMA ToSetAppend ==
    ASSUME NEW S, NEW s \in Seq(S), NEW e \in S
    PROVE  ToSet(Append(s, e)) = ToSet(s) \union {e}
<1> DEFINE t == Append(s, e)
<1>1. t \in Seq(S) /\ Len(t) = Len(s) + 1 /\ t[Len(s) + 1] = e
      /\ \A i \in 1..Len(s) : t[i] = s[i]
    BY AppendProperties
<1>2. ToSet(t) = {t[i] : i \in 1..Len(t)} /\ ToSet(s) = {s[i] : i \in 1..Len(s)}
    BY <1>1, ToSetDef
<1>3. \A x : x \in ToSet(t) <=> x \in ToSet(s) \/ x = e
    BY <1>1, <1>2
<1> QED
    BY <1>3

LEMMA ToSetConcat ==
    ASSUME NEW S, NEW s \in Seq(S), NEW t \in Seq(S)
    PROVE  ToSet(s \o t) = ToSet(s) \union ToSet(t)
<1> DEFINE u == s \o t
<1>1. u \in Seq(S) /\ Len(u) = Len(s) + Len(t)
      /\ \A i \in 1..(Len(s) + Len(t)) :
            u[i] = IF i <= Len(s) THEN s[i] ELSE t[i - Len(s)]
    BY ConcatProperties
<1>2. /\ ToSet(u) = {u[i] : i \in 1..Len(u)}
      /\ ToSet(s) = {s[i] : i \in 1..Len(s)}
      /\ ToSet(t) = {t[i] : i \in 1..Len(t)}
    BY <1>1, ToSetDef
<1>3. ASSUME NEW x \in ToSet(u) PROVE x \in ToSet(s) \union ToSet(t)
    <2>1. PICK i \in 1..Len(u) : x = u[i]
        BY <1>2
    <2>2. CASE i <= Len(s)
        BY <1>1, <1>2, <2>1, <2>2
    <2>3. CASE i > Len(s)
        <3>1. i - Len(s) \in 1..Len(t) /\ x = t[i - Len(s)]
            BY <1>1, <2>1, <2>3
        <3> QED
            BY <1>2, <3>1
    <2> QED
        BY <2>2, <2>3
<1>4. ASSUME NEW x \in ToSet(s) PROVE x \in ToSet(u)
    <2>1. PICK i \in 1..Len(s) : x = s[i]
        BY <1>2
    <2>2. i \in 1..Len(u) /\ u[i] = x
        BY <1>1, <2>1
    <2> QED
        BY <1>2, <2>2
<1>5. ASSUME NEW x \in ToSet(t) PROVE x \in ToSet(u)
    <2>1. PICK i \in 1..Len(t) : x = t[i]
        BY <1>2
    <2>2. i + Len(s) \in 1..Len(u) /\ u[i + Len(s)] = x
        BY <1>1, <2>1
    <2> QED
        BY <1>2, <2>2
<1> QED
    BY <1>3, <1>4, <1>5

\* A batch torn by a failed write is a prefix of the batch.
LEMMA PrefixProperties ==
    ASSUME NEW S, NEW s \in Seq(S), NEW k \in 0..Len(s)
    PROVE  /\ SubSeq(s, 1, k) \in Seq(S)
           /\ Len(SubSeq(s, 1, k)) = k
           /\ \A i \in 1..k : SubSeq(s, 1, k)[i] = s[i]
           /\ ToSet(SubSeq(s, 1, k)) \subseteq ToSet(s)
<1> DEFINE p == SubSeq(s, 1, k)
<1>1. p \in Seq(S) /\ Len(p) = k /\ \A i \in 1..k : p[i] = s[i]
    <2>1. \A i \in 1..k : s[i] \in S
        OBVIOUS
    <2>2. /\ p \in Seq(S)
          /\ Len(p) = IF 1 <= k THEN k - 1 + 1 ELSE 0
          /\ \A i \in 1..(k - 1 + 1) : p[i] = s[1 + i - 1]
        BY <2>1, SubSeqProperties
    <2> QED
        BY <2>2
<1>2. ToSet(p) = {p[i] : i \in 1..k} /\ ToSet(s) = {s[i] : i \in 1..Len(s)}
    BY <1>1, ToSetDef
<1>3. ToSet(p) \subseteq ToSet(s)
    BY <1>1, <1>2
<1> QED
    BY <1>1, <1>3

-----------------------------------------------------------------------------
(* Sequences of record numbers                                              *)

\* Strictly increasing, as append() numbers the records.
Increasing(s) == \A i, j \in 1..Len(s) : i < j => s[i] < s[j]

\* Every record of s was numbered before every record of t.
Before(s, t) == \A a \in ToSet(s), b \in ToSet(t) : a < b

LEMMA IncreasingAppend ==
    ASSUME NEW s \in Seq(Nat), NEW e \in Nat, Increasing(s),
           \A a \in ToSet(s) : a < e
    PROVE  Increasing(Append(s, e))
<1> DEFINE t == Append(s, e)
<1>1. t \in Seq(Nat) /\ Len(t) = Len(s) + 1 /\ t[Len(s) + 1] = e
      /\ \A i \in 1..Len(s) : t[i] = s[i]
    BY AppendProperties
<1>2. \A i \in 1..Len(s) : s[i] < e
    BY ToSetDef
<1> SUFFICES ASSUME NEW i \in 1..Len(t), NEW j \in 1..Len(t), i < j
             PROVE  t[i] < t[j]
    BY DEF Increasing
<1>3. CASE j = Len(s) + 1
    BY <1>1, <1>2, <1>3
<1>4. CASE j # Len(s) + 1
    <2>1. i \in 1..Len(s) /\ j \in 1..Len(s)
        BY <1>1, <1>4
    <2> QED
        BY <1>1, <2>1 DEF Increasing
<1> QED
    BY <1>3, <1>4

LEMMA IncreasingConcat ==
    ASSUME NEW s \in Seq(Nat), NEW t \in Seq(Nat),
           Increasing(s), Increasing(t), Before(s, t)
    PROVE  Increasing(s \o t)
<1> DEFINE u == s \o t
<1>1. u \in Seq(Nat) /\ Len(u) = Len(s) + Len(t)
      /\ \A i \in 1..(Len(s) + Len(t)) :
            u[i] = IF i <= Len(s) THEN s[i] ELSE t[i - Len(s)]
    BY ConcatProperties
<1>2. \A i \in 1..Len(s), j \in 1..Len(t) : s[i] < t[j]
    <2>1. /\ ToSet(s) = {s[i] : i \in 1..Len(s)}
          /\ ToSet(t) = {t[i] : i \in 1..Len(t)}
        BY ToSetDef
    <2> QED
        BY <2>1 DEF Before
<1> SUFFICES ASSUME NEW i \in 1..Len(u), NEW j \in 1..Len(u), i < j
             PROVE  u[i] < u[j]
    BY DEF Increasing
<1>3. CASE j <= Len(s)
    BY <1>1, <1>3 DEF Increasing
<1>4. CASE i <= Len(s) /\ Len(s) < j
    <2>1. j - Len(s) \in 1..Len(t) /\ u[j] = t[j - Len(s)] /\ u[i] = s[i]
        BY <1>1, <1>4
    <2> QED
        BY <1>2, <1>4, <2>1
<1>5. CASE Len(s) < i
    <2>1. /\ i - Len(s) \in 1..Len(t) /\ u[i] = t[i - Len(s)]
          /\ j - Len(s) \in 1..Len(t) /\ u[j] = t[j - Len(s)]
          /\ i - Len(s) < j - Len(s)
        BY <1>1, <1>5
    <2> QED
        BY <2>1 DEF Increasing
<1> QED
    BY <1>1, <1>3, <1>4, <1>5

LEMMA IncreasingPrefix ==
    ASSUME NEW s \in Seq(Nat), NEW k \in 0..Len(s), Increasing(s)
    PROVE  Increasing(SubSeq(s, 1, k))
BY PrefixProperties DEF Increasing

LEMMA LastType ==
    ASSUME NEW s \in Seq(Nat), s # <<>>
    PROVE  Last(s) \in Nat
BY EmptySeq DEF Last

\* The last record of a batch bounds the batch.
LEMMA LastIsGreatest ==
    ASSUME NEW s \in Seq(Nat), s # <<>>, Increasing(s)
    PROVE  Last(s) \in ToSet(s) /\ \A a \in ToSet(s) : a <= Last(s)
<1>1. Len(s) \in Nat \ {0}
    BY EmptySeq
<1>2. ToSet(s) = {s[i] : i \in 1..Len(s)}
    BY ToSetDef
<1>3. Last(s) = s[Len(s)] /\ Last(s) \in ToSet(s)
    BY <1>1, <1>2 DEF Last
<1>4. \A i \in 1..Len(s) : s[i] <= s[Len(s)]
    BY <1>1 DEF Increasing
<1> QED
    BY <1>2, <1>3, <1>4

-----------------------------------------------------------------------------
(* The inductive invariant                                                  *)

\* Where the flush task stands and what it holds.  A cancelled task leaves its
\* batch in flight until close() has joined the worker.
Places ==
    /\ flusher = "sleeping" => batch = <<>>
    /\ flusher \in {"writing", "draining"} => batch # <<>>
    /\ closer \in {"joining", "closed"} => flusher = "done"
    /\ flusher = "done" /\ closer # "joining" => batch = <<>>

\* The file, the batch and the buffer hold ever younger records.
Ordered ==
    /\ Increasing(disk) /\ Increasing(batch) /\ Increasing(buf)
    /\ Before(disk, batch) /\ Before(disk, buf) /\ Before(batch, buf)

\* Every record is somewhere, and what is still queued is beyond the durable
\* sequence number.
Covered ==
    /\ 1..seq = ToSet(disk) \union ToSet(batch) \union ToSet(buf) \union rejected
    /\ durableSeq \in 0..seq
    /\ \A s \in ToSet(batch) \union ToSet(buf) : s > durableSeq

\* A waiter is a waiting client, and until the log is closed a client waiting
\* on its own record finds that record queued.
Waiting ==
    /\ \A w \in waiters : pc[w.client] = "waiting" /\ w.target = target[w.client]
    /\ \A c \in Clients : pc[c] = "waiting" => \E w \in waiters : w.client = c
    /\ \A c \in Clients :
          pc[c] = "waiting" /\ own[c] /\ closer # "closed"
              => target[c] \in ToSet(batch) \union ToSet(buf)

\* What a granted fence is worth.
Promises ==
    /\ FenceHonest
    /\ \A c \in Clients : pc[c] = "released" => target[c] <= durableSeq

IInv == TypeOK /\ Places /\ Ordered /\ Covered /\ Waiting /\ Promises

-----------------------------------------------------------------------------
(* Type correctness                                                         *)

\* Tell, Resolve and FailWaiters keep the types of what they change.
ClientType ==
    /\ pc \in [Clients -> {"idle", "waiting", "released", "refused"}]
    /\ target \in [Clients -> Nat \union {-1}]
    /\ own \in [Clients -> BOOLEAN]

LEMMA TellType ==
    ASSUME TypeOK, NEW c \in Clients,
           NEW what \in {"idle", "waiting", "released", "refused"},
           NEW t \in Nat \union {-1}, NEW mine \in BOOLEAN, Tell(c, what, t, mine)
    PROVE  ClientType'
BY DEF TypeOK, Tell, ClientType

LEMMA ResolveType ==
    ASSUME TypeOK, NEW d, Resolve(d)
    PROVE  waiters' \subseteq [client : Clients, target : Nat] /\ ClientType'
BY DEF TypeOK, Resolve, ClientType

LEMMA FailWaitersType ==
    ASSUME TypeOK, FailWaiters
    PROVE  waiters' \subseteq [client : Clients, target : Nat] /\ ClientType'
BY DEF TypeOK, FailWaiters, ClientType

\* So does every operation of a client.
LEMMA ClientStepType ==
    ASSUME TypeOK, NEW c \in Clients, ClientStep(c)
    PROVE  TypeOK'
<1>1. CASE AppendRecord(c)
    BY <1>1 DEF AppendRecord, Push, TypeOK, config, flush, storage, client
<1>2. CASE FencedAppend(c)
    <2>1. seq + 1 \in Nat \union {-1} /\ seq' \in Nat /\ buf' \in Seq(Nat)
          /\ wake' = TRUE /\ UNCHANGED dropped
        BY <1>2 DEF FencedAppend, Push, TypeOK
    <2>2. CASE closer = "closed"
        <3>1. Tell(c, "refused", seq + 1, TRUE) /\ UNCHANGED waiters
            BY <1>2, <2>2 DEF FencedAppend
        <3>2. ClientType'
            BY <2>1, <3>1, TellType, Zenon
        <3> QED
            BY <1>2, <2>1, <3>1, <3>2
            DEF FencedAppend, TypeOK, ClientType, config, flush, storage
    <2>3. CASE closer # "closed"
        <3>1. Tell(c, "waiting", seq + 1, TRUE)
              /\ waiters' = waiters \union {[client |-> c, target |-> seq + 1]}
            BY <1>2, <2>3 DEF FencedAppend
        <3>2. ClientType'
            BY <2>1, <3>1, TellType, Zenon
        <3> QED
            BY <1>2, <2>1, <3>1, <3>2
            DEF FencedAppend, TypeOK, ClientType, config, flush, storage
    <2> QED
        BY <2>2, <2>3
<1>3. CASE Backpressure(c)
    <2>1. ClientType'
        BY <1>3, TellType DEF Backpressure
    <2> QED
        BY <1>3, <2>1
        DEF Backpressure, TypeOK, ClientType, config, memory, flush, storage
<1>4. CASE DropRecord(c)
    <2>1. ClientType'
        BY <1>4, TellType DEF DropRecord
    <2> QED
        BY <1>4, <2>1 DEF DropRecord, TypeOK, ClientType, config, flush, storage
<1>5. CASE \E t \in 1..seq : Fence(c, t)
    <2>1. PICK t \in 1..seq : Fence(c, t)
        BY <1>5
    <2>2. t \in Nat
        BY DEF TypeOK
    <2>3. \E what \in {"released", "refused", "waiting"} : Tell(c, what, t, FALSE)
        BY <2>1 DEF Fence
    <2>4. ClientType'
        BY <2>2, <2>3, TellType
    <2>5. waiters' \subseteq [client : Clients, target : Nat] /\ wake' \in BOOLEAN
        <3>1. waiters' = waiters \/ waiters' = waiters \union {[client |-> c, target |-> t]}
            BY <2>1 DEF Fence
        <3>2. wake' = wake \/ wake' = TRUE
            BY <2>1 DEF Fence
        <3>3. [client |-> c, target |-> t] \in [client : Clients, target : Nat]
            BY <2>2
        <3> QED
            BY <3>1, <3>2, <3>3 DEF TypeOK
    <2> QED
        BY <2>1, <2>4, <2>5 DEF Fence, TypeOK, ClientType, config, flush, storage
<1>6. CASE FenceTimeout(c)
    BY <1>6 DEF FenceTimeout, TypeOK, config, memory, flush, storage
<1>7. CASE Resume(c)
    <2>1. ClientType'
        BY <1>7, TellType DEF Resume
    <2> QED
        BY <1>7, <2>1
        DEF Resume, TypeOK, ClientType, config, memory, flush, storage
<1> QED
    BY <1>1, <1>2, <1>3, <1>4, <1>5, <1>6, <1>7 DEF ClientStep

LEMMA TypeStep ==
    ASSUME TypeOK, Places, [Next]_vars
    PROVE  TypeOK'
<1>1. ASSUME NEW c \in Clients, ClientStep(c) PROVE TypeOK'
    BY <1>1, ClientStepType
<1>2. CASE FlushTake
    <2>1. buf' \in Seq(Nat) /\ batch' \in Seq(Nat) /\ wake' \in BOOLEAN
          /\ flusher' \in {"sleeping", "writing", "draining", "done"}
        <3>1. buf' = <<>> /\ batch' = buf /\ wake' = FALSE
              /\ flusher' \in {"sleeping", "writing", "done"}
            BY <1>2 DEF FlushTake
        <3>2. buf \in Seq(Nat) /\ <<>> \in Seq(Nat)
            BY EmptySeq DEF TypeOK
        <3> QED
            BY <3>1, <3>2
    <2>2. waiters' \subseteq [client : Clients, target : Nat] /\ ClientType'
        <3>1. CASE buf = <<>>
            BY <1>2, <3>1, ResolveType DEF FlushTake
        <3>2. CASE buf # <<>>
            BY <1>2, <3>2 DEF FlushTake, TypeOK, ClientType, client
        <3> QED
            BY <3>1, <3>2
    <2> QED
        BY <1>2, <2>1, <2>2 DEF FlushTake, TypeOK, ClientType, config, storage
<1>3. ASSUME AfterFlush
      PROVE  /\ buf' \in Seq(Nat) /\ batch' \in Seq(Nat)
             /\ flusher' \in {"sleeping", "writing", "draining", "done"}
    <2>1. /\ buf' = buf \/ buf' = <<>>
          /\ batch' = buf \/ batch' = <<>>
          /\ flusher' \in {"sleeping", "draining", "done"}
        BY <1>3 DEF AfterFlush
    <2>2. buf \in Seq(Nat) /\ <<>> \in Seq(Nat)
        BY EmptySeq DEF TypeOK
    <2> QED
        BY <2>1, <2>2
<1>4. CASE FlushOk
    <2>1. waiters' \subseteq [client : Clients, target : Nat] /\ ClientType'
        BY <1>4, ResolveType DEF FlushOk
    <2>2. disk' \in Seq(Nat) /\ durableSeq' \in Nat
        <3>1. batch # <<>>
            BY <1>4 DEF FlushOk, Places
        <3> QED
            BY <1>4, <3>1, EmptySeq, LastType DEF FlushOk, TypeOK
    <2>3. AfterFlush
        BY <1>4 DEF FlushOk
    <2> QED
        BY <1>3, <1>4, <2>1, <2>2, <2>3 DEF FlushOk, TypeOK, ClientType, config
<1>5. ASSUME NEW k \in 0..Len(batch), FlushFail(k) PROVE TypeOK'
    <2>1. waiters' \subseteq [client : Clients, target : Nat] /\ ClientType'
        BY <1>5, FailWaitersType DEF FlushFail
    <2>2. disk' \in Seq(Nat) /\ rejected' \subseteq Nat
        <3>1. ToSet(batch) \subseteq Nat /\ SubSeq(batch, 1, k) \in Seq(Nat)
            BY <1>5, PrefixProperties, ToSetDef DEF TypeOK
        <3>2. disk' \in Seq(Nat)
            BY <1>5, <3>1, ConcatProperties DEF FlushFail, TypeOK
        <3>3. rejected' \subseteq Nat
            BY <1>5, <3>1 DEF FlushFail, TypeOK
        <3> QED
            BY <3>2, <3>3
    <2>3. AfterFlush
        BY <1>5 DEF FlushFail
    <2> QED
        BY <1>3, <1>5, <2>1, <2>2, <2>3 DEF FlushFail, TypeOK, ClientType, config
<1>6. CASE CloseBegin \/ CloseEnd \/ CloseCancel
    BY <1>6 DEF CloseBegin, CloseEnd, CloseCancel, TypeOK, config, memory,
                storage, client
<1>7. CASE JoinFlushed
    <2>1. waiters' \subseteq [client : Clients, target : Nat] /\ ClientType'
        BY <1>7, ResolveType DEF JoinFlushed
    <2>2. disk' \in Seq(Nat) /\ durableSeq' \in Nat
        BY <1>7, LastType DEF JoinFlushed, TypeOK
    <2> QED
        BY <1>7, <2>1, <2>2 DEF JoinFlushed, TypeOK, ClientType, config
<1>8. ASSUME NEW k \in 0..Len(batch \o buf), JoinUnflushed(k) PROVE TypeOK'
    <2>1. batch \o buf \in Seq(Nat)
        BY DEF TypeOK
    <2>2. disk' \in Seq(Nat) /\ rejected' \subseteq Nat
        <3>1. /\ ToSet(batch \o buf) \subseteq Nat
              /\ SubSeq(batch \o buf, 1, k) \in Seq(Nat)
            BY <1>8, <2>1, PrefixProperties, ToSetDef
        <3>2. disk' \in Seq(Nat)
            BY <1>8, <3>1, ConcatProperties DEF JoinUnflushed, TypeOK
        <3>3. rejected' \subseteq Nat
            BY <1>8, <3>1 DEF JoinUnflushed, TypeOK
        <3> QED
            BY <3>2, <3>3
    <2> QED
        BY <1>8, <2>2 DEF JoinUnflushed, TypeOK, config, client
<1>9. CASE UNCHANGED vars
    BY <1>9 DEF vars, config, memory, flush, storage, client, TypeOK
<1> QED
    BY <1>1, <1>2, <1>4, <1>5, <1>6, <1>7, <1>8, <1>9
    DEF Next, FlushAnswer, Join

-----------------------------------------------------------------------------
(* What the actions do to the queue                                         *)

\* A client at most appends the next record to the buffer.
LEMMA ClientMoves ==
    ASSUME NEW c \in Clients, ClientStep(c)
    PROVE  /\ UNCHANGED <<policy, flusher, batch, closer, durableSeq, disk, rejected>>
           /\ closer # "joining"
           /\ \/ UNCHANGED <<buf, seq>>
              \/ buf' = Append(buf, seq + 1) /\ seq' = seq + 1
BY DEF ClientStep, AppendRecord, FencedAppend, Backpressure, DropRecord, Fence,
       FenceTimeout, Resume, Push, config, memory, flush, storage

\* After a write the batch is gone, and the buffer stays or becomes the batch.
LEMMA AfterFlushMoves ==
    ASSUME AfterFlush
    PROVE  \/ batch' = <<>> /\ buf' = buf
           \/ batch' = buf /\ buf' = <<>>
BY DEF AfterFlush

LEMMA PlacesStep ==
    ASSUME Places, [Next]_vars
    PROVE  Places'
<1>1. ASSUME NEW c \in Clients, ClientStep(c) PROVE Places'
    BY <1>1, ClientMoves DEF Places
<1>2. CASE FlushTake
    BY <1>2 DEF FlushTake, Places
<1>3. ASSUME AfterFlush, UNCHANGED closer, flusher \in {"writing", "draining"}
      PROVE  Places'
    BY <1>3 DEF AfterFlush, Places
<1>4. CASE FlushOk
    BY <1>3, <1>4 DEF FlushOk
<1>5. ASSUME NEW k \in 0..Len(batch), FlushFail(k) PROVE Places'
    BY <1>3, <1>5 DEF FlushFail
<1>6. CASE CloseBegin
    BY <1>6 DEF CloseBegin, Places
<1>7. CASE CloseEnd
    BY <1>7 DEF CloseEnd, Places
<1>8. CASE CloseCancel
    BY <1>8 DEF CloseCancel, Places
<1>9. CASE JoinFlushed
    BY <1>9 DEF JoinFlushed, Places
<1>10. ASSUME NEW k \in 0..Len(batch \o buf), JoinUnflushed(k) PROVE Places'
    BY <1>10 DEF JoinUnflushed, Places
<1>11. CASE UNCHANGED vars
    BY <1>11 DEF vars, flush, Places
<1> QED
    BY <1>1, <1>2, <1>4, <1>5, <1>6, <1>7, <1>8, <1>9, <1>10, <1>11
    DEF Next, FlushAnswer, Join

-----------------------------------------------------------------------------
(* Order                                                                    *)

LEMMA BeforeNone ==
    ASSUME NEW s
    PROVE  Before(s, <<>>) /\ Before(<<>>, s) /\ Increasing(<<>>)
BY ToSetEmpty DEF Before, Increasing

\* Writing some of the batch in order, whatever becomes of the buffer.
LEMMA WriteKeepsOrder ==
    ASSUME TypeOK, Ordered, NEW p \in Seq(Nat), Increasing(p),
           ToSet(p) \subseteq ToSet(batch), disk' = disk \o p,
           \/ batch' = <<>> /\ buf' = buf
           \/ batch' = buf /\ buf' = <<>>
    PROVE  Ordered'
<1>1. ToSet(disk') = ToSet(disk) \union ToSet(p)
    BY ToSetConcat DEF TypeOK
<1>2. Increasing(disk')
    <2>1. Before(disk, p)
        BY DEF Ordered, Before
    <2> QED
        BY <2>1, IncreasingConcat DEF Ordered, TypeOK
<1>3. Before(disk', buf)
    BY <1>1 DEF Ordered, Before
<1>4. Increasing(buf) /\ Increasing(<<>>) /\ Before(disk', <<>>)
      /\ Before(buf, <<>>) /\ Before(<<>>, buf)
    BY BeforeNone DEF Ordered
<1>5. CASE batch' = <<>> /\ buf' = buf
    BY <1>2, <1>3, <1>4, <1>5 DEF Ordered
<1>6. CASE batch' = buf /\ buf' = <<>>
    BY <1>2, <1>3, <1>4, <1>6 DEF Ordered
<1> QED
    BY <1>5, <1>6

\* The in-flight and the buffered records make one increasing sequence.
LEMMA QueueOrder ==
    ASSUME TypeOK, Ordered
    PROVE  /\ batch \o buf \in Seq(Nat)
           /\ Increasing(batch \o buf)
           /\ ToSet(batch \o buf) = ToSet(batch) \union ToSet(buf)
           /\ Before(disk, batch \o buf)
<1>1. batch \o buf \in Seq(Nat)
    BY DEF TypeOK
<1>2. Increasing(batch \o buf)
    BY IncreasingConcat DEF TypeOK, Ordered
<1>3. ToSet(batch \o buf) = ToSet(batch) \union ToSet(buf)
    BY ToSetConcat DEF TypeOK
<1>4. Before(disk, batch \o buf)
    BY <1>3 DEF Before, Ordered
<1> QED
    BY <1>1, <1>2, <1>3, <1>4

LEMMA OrderedStep ==
    ASSUME TypeOK, Places, Ordered, Covered, [Next]_vars
    PROVE  Ordered'
<1>1. ASSUME NEW c \in Clients, ClientStep(c) PROVE Ordered'
    <2>1. UNCHANGED <<disk, batch>>
        BY <1>1, ClientMoves
    <2>2. CASE UNCHANGED buf
        BY <2>1, <2>2 DEF Ordered
    <2>3. CASE buf' = Append(buf, seq + 1)
        <3>1. ToSet(buf') = ToSet(buf) \union {seq + 1}
            <4>1. buf \in Seq(Nat) /\ seq + 1 \in Nat
                BY DEF TypeOK
            <4> QED
                BY <2>3, <4>1, ToSetAppend
        <3>2. \A a \in ToSet(disk) \union ToSet(batch) \union ToSet(buf) : a < seq + 1
            BY DEF Covered, TypeOK
        <3>3. Increasing(buf')
            BY <2>3, <3>2, IncreasingAppend DEF Ordered, TypeOK
        <3>4. Before(disk, buf') /\ Before(batch, buf')
            BY <3>1, <3>2 DEF Ordered, Before
        <3> QED
            BY <2>1, <3>3, <3>4 DEF Ordered
    <2> QED
        BY <1>1, <2>2, <2>3, ClientMoves
<1>2. CASE FlushTake
    BY <1>2, BeforeNone DEF FlushTake, storage, Ordered
<1>3. CASE FlushOk
    BY <1>3, AfterFlushMoves, WriteKeepsOrder DEF FlushOk, TypeOK, Ordered
<1>4. ASSUME NEW k \in 0..Len(batch), FlushFail(k) PROVE Ordered'
    <2> DEFINE p == SubSeq(batch, 1, k)
    <2>1. p \in Seq(Nat) /\ Increasing(p) /\ ToSet(p) \subseteq ToSet(batch)
        BY PrefixProperties, IncreasingPrefix DEF TypeOK, Ordered
    <2>2. disk' = disk \o p /\ AfterFlush
        BY <1>4 DEF FlushFail
    <2> HIDE DEF p
    <2> QED
        BY <2>1, <2>2, AfterFlushMoves, WriteKeepsOrder
<1>5. CASE CloseBegin \/ CloseEnd \/ CloseCancel
    BY <1>5 DEF CloseBegin, CloseEnd, CloseCancel, memory, storage, Ordered
<1>6. CASE JoinFlushed
    <2>1. disk' = (disk \o batch) \o buf /\ batch' = <<>> /\ buf' = <<>>
        BY <1>6 DEF JoinFlushed
    <2>2. disk \o batch \in Seq(Nat) /\ Increasing(disk \o batch)
        BY IncreasingConcat DEF TypeOK, Ordered
    <2>3. Before(disk \o batch, buf)
        <3>1. ToSet(disk \o batch) = ToSet(disk) \union ToSet(batch)
            BY ToSetConcat DEF TypeOK
        <3> QED
            BY <3>1 DEF Ordered, Before
    <2>4. Increasing(disk')
        BY <2>1, <2>2, <2>3, IncreasingConcat DEF TypeOK, Ordered
    <2> QED
        BY <2>1, <2>4, BeforeNone DEF Ordered
<1>7. ASSUME NEW k \in 0..Len(batch \o buf), JoinUnflushed(k) PROVE Ordered'
    <2> DEFINE p == SubSeq(batch \o buf, 1, k)
    <2>1. p \in Seq(Nat) /\ Increasing(p) /\ ToSet(p) \subseteq ToSet(batch \o buf)
        BY QueueOrder, PrefixProperties, IncreasingPrefix
    <2>2. disk' = disk \o p /\ batch' = <<>> /\ buf' = <<>>
        BY <1>7 DEF JoinUnflushed
    <2> HIDE DEF p
    <2>3. Before(disk, p)
        BY <2>1, QueueOrder DEF Before
    <2>4. Increasing(disk')
        BY <2>1, <2>2, <2>3, IncreasingConcat DEF TypeOK, Ordered
    <2> QED
        BY <2>2, <2>4, BeforeNone DEF Ordered
<1>8. CASE UNCHANGED vars
    BY <1>8 DEF vars, memory, flush, storage, Ordered
<1> QED
    BY <1>1, <1>2, <1>3, <1>4, <1>5, <1>6, <1>7, <1>8 DEF Next, FlushAnswer, Join

-----------------------------------------------------------------------------
(* Coverage                                                                 *)

\* Writing a batch with some result: what was in flight is on disk or among
\* the rejected, and the rest is still queued.
LEMMA WriteKeepsCover ==
    ASSUME TypeOK, Ordered, Covered, UNCHANGED seq,
           ToSet(disk') \union rejected'
               = ToSet(disk) \union rejected \union ToSet(batch),
           \/ batch' = <<>> /\ buf' = buf
           \/ batch' = buf /\ buf' = <<>>,
           \/ durableSeq' = durableSeq
           \/ batch # <<>> /\ durableSeq' = Last(batch)
    PROVE  Covered'
<1>1. ToSet(batch') \union ToSet(buf') = ToSet(buf)
    BY ToSetEmpty
<1>2. 1..seq' = ToSet(disk') \union ToSet(batch') \union ToSet(buf') \union rejected'
    BY <1>1 DEF Covered
<1>3. durableSeq' \in 0..seq' /\ \A s \in ToSet(buf) : s > durableSeq'
    <2>1. CASE durableSeq' = durableSeq
        BY <2>1 DEF Covered
    <2>2. CASE batch # <<>> /\ durableSeq' = Last(batch)
        <3>1. Last(batch) \in ToSet(batch)
            BY <2>2, LastIsGreatest DEF TypeOK, Ordered
        <3>2. Last(batch) \in 0..seq
            BY <3>1 DEF Covered, TypeOK
        <3>3. \A s \in ToSet(buf) : s > Last(batch)
            BY <3>1, <3>2, ToSetDef DEF Ordered, Before, TypeOK
        <3> QED
            BY <2>2, <3>2, <3>3
    <2> QED
        BY <2>1, <2>2
<1> QED
    BY <1>1, <1>2, <1>3 DEF Covered

LEMMA CoveredStep ==
    ASSUME TypeOK, Places, Ordered, Covered, [Next]_vars
    PROVE  Covered'
<1>1. ASSUME NEW c \in Clients, ClientStep(c) PROVE Covered'
    <2>1. UNCHANGED <<disk, batch, rejected, durableSeq>>
        BY <1>1, ClientMoves
    <2>2. CASE UNCHANGED <<buf, seq>>
        BY <2>1, <2>2 DEF Covered
    <2>3. CASE buf' = Append(buf, seq + 1) /\ seq' = seq + 1
        <3>1. buf \in Seq(Nat) /\ seq \in Nat /\ seq + 1 \in Nat
            BY DEF TypeOK
        <3>2. ToSet(buf') = ToSet(buf) \union {seq + 1}
            BY <2>3, <3>1, ToSetAppend
        <3>3. 1..seq' = 1..seq \union {seq + 1}
            BY <2>3, <3>1
        <3>4. durableSeq \in 0..seq' /\ seq + 1 > durableSeq
            BY <2>3, <3>1 DEF Covered
        <3> QED
            BY <2>1, <3>2, <3>3, <3>4 DEF Covered
    <2> QED
        BY <1>1, <2>2, <2>3, ClientMoves
<1>2. CASE FlushTake
    <2>1. batch = <<>> /\ batch' = buf /\ buf' = <<>>
          /\ UNCHANGED <<seq, durableSeq, disk, rejected>>
        BY <1>2 DEF FlushTake, Places, storage
    <2> QED
        BY <2>1, ToSetEmpty DEF Covered
<1>3. CASE FlushOk
    <2>1. batch # <<>> /\ durableSeq' = Last(batch) /\ UNCHANGED <<seq, rejected>>
          /\ AfterFlush
        BY <1>3 DEF FlushOk, Places
    <2>2. ToSet(disk') = ToSet(disk) \union ToSet(batch)
        BY <1>3, ToSetConcat DEF FlushOk, TypeOK
    <2> QED
        BY <2>1, <2>2, AfterFlushMoves, WriteKeepsCover
<1>4. ASSUME NEW k \in 0..Len(batch), FlushFail(k) PROVE Covered'
    <2> DEFINE p == SubSeq(batch, 1, k)
    <2>1. UNCHANGED <<seq, durableSeq>> /\ AfterFlush /\ disk' = disk \o p
          /\ rejected' = rejected \union ToSet(batch)
        BY <1>4 DEF FlushFail
    <2>2. p \in Seq(Nat) /\ ToSet(p) \subseteq ToSet(batch)
        BY PrefixProperties DEF TypeOK
    <2> HIDE DEF p
    <2>3. ToSet(disk') = ToSet(disk) \union ToSet(p)
        BY <2>1, <2>2, ToSetConcat DEF TypeOK
    <2> QED
        BY <2>1, <2>2, <2>3, AfterFlushMoves, WriteKeepsCover
<1>5. CASE CloseBegin \/ CloseEnd \/ CloseCancel
    BY <1>5 DEF CloseBegin, CloseEnd, CloseCancel, memory, storage, Covered
<1>6. CASE JoinFlushed
    <2>1. /\ disk' = (disk \o batch) \o buf
          /\ batch' = <<>> /\ buf' = <<>> /\ buf # <<>>
          /\ durableSeq' = Last(buf) /\ UNCHANGED <<seq, rejected>>
        BY <1>6 DEF JoinFlushed
    <2>2. ToSet(disk') = ToSet(disk) \union ToSet(batch) \union ToSet(buf)
        <3> DEFINE u == disk \o batch
        <3>1. u \in Seq(Nat) /\ ToSet(u) = ToSet(disk) \union ToSet(batch)
            BY ToSetConcat DEF TypeOK
        <3>2. disk' = u \o buf
            BY <2>1
        <3> HIDE DEF u
        <3>3. ToSet(disk') = ToSet(u) \union ToSet(buf)
            BY <3>1, <3>2, ToSetConcat DEF TypeOK
        <3> QED
            BY <3>1, <3>3
    <2>3. Last(buf) \in ToSet(buf)
        BY <2>1, LastIsGreatest DEF TypeOK, Ordered
    <2>4. Last(buf) \in 0..seq
        BY <2>3 DEF Covered, TypeOK
    <2> QED
        BY <2>1, <2>2, <2>4, ToSetEmpty DEF Covered
<1>7. ASSUME NEW k \in 0..Len(batch \o buf), JoinUnflushed(k) PROVE Covered'
    <2> DEFINE p == SubSeq(batch \o buf, 1, k)
    <2>1. p \in Seq(Nat) /\ ToSet(p) \subseteq ToSet(batch) \union ToSet(buf)
        BY QueueOrder, PrefixProperties
    <2>2. /\ disk' = disk \o p /\ batch' = <<>> /\ buf' = <<>>
          /\ rejected' = rejected \union ToSet(batch) \union ToSet(buf)
          /\ UNCHANGED <<seq, durableSeq>>
        BY <1>7, QueueOrder DEF JoinUnflushed
    <2> HIDE DEF p
    <2>3. ToSet(disk') = ToSet(disk) \union ToSet(p)
        BY <2>1, <2>2, ToSetConcat DEF TypeOK
    <2> QED
        BY <2>1, <2>2, <2>3, ToSetEmpty DEF Covered
<1>8. CASE UNCHANGED vars
    BY <1>8 DEF vars, memory, flush, storage, Covered
<1> QED
    BY <1>1, <1>2, <1>3, <1>4, <1>5, <1>6, <1>7, <1>8 DEF Next, FlushAnswer, Join

-----------------------------------------------------------------------------
(* Fences                                                                   *)

\* Resolving at d answers exactly the fences for records up to d.
LEMMA ResolveAnswers ==
    ASSUME TypeOK, Waiting, NEW d \in Nat, Resolve(d)
    PROVE  /\ \A w \in waiters' : pc'[w.client] = "waiting"
                                  /\ w.target = target'[w.client]
           /\ \A c \in Clients : pc'[c] = "waiting" =>
                  /\ \E w \in waiters' : w.client = c
                  /\ pc[c] = "waiting" /\ target[c] > d
           /\ \A c \in Clients : pc'[c] = "released" =>
                  \/ pc[c] = "released"
                  \/ pc[c] = "waiting" /\ target[c] <= d
           /\ UNCHANGED <<target, own>>
<1>1. /\ waiters' = {w \in waiters : w.target > d}
      /\ pc' = [c \in Clients |->
                   IF \E w \in waiters : w.client = c /\ w.target <= d
                   THEN "released" ELSE pc[c]]
      /\ UNCHANGED <<target, own>>
    BY DEF Resolve
<1>2. \A w \in waiters : w.client \in Clients /\ w.target \in Nat
                         /\ pc[w.client] = "waiting" /\ w.target = target[w.client]
    BY DEF TypeOK, Waiting
<1>3. ASSUME NEW w \in waiters'
      PROVE  pc'[w.client] = "waiting" /\ w.target = target'[w.client]
    BY <1>1, <1>2
<1>4. ASSUME NEW c \in Clients, pc'[c] = "waiting"
      PROVE  /\ \E w \in waiters' : w.client = c
             /\ pc[c] = "waiting" /\ target[c] > d
    <2>1. pc[c] = "waiting" /\ ~\E w \in waiters : w.client = c /\ w.target <= d
        BY <1>1, <1>4
    <2>2. PICK w \in waiters : w.client = c
        BY <2>1 DEF Waiting
    <2> QED
        BY <1>1, <1>2, <2>1, <2>2
<1>5. ASSUME NEW c \in Clients, pc'[c] = "released"
      PROVE  \/ pc[c] = "released"
             \/ pc[c] = "waiting" /\ target[c] <= d
    BY <1>1, <1>2, <1>5
<1> QED
    BY <1>1, <1>3, <1>4, <1>5
\* What a client operation does to the fences.
LEMMA ClientWaiting ==
    ASSUME TypeOK, Waiting, NEW c \in Clients, ClientStep(c)
    PROVE  Waiting'
<1>1. UNCHANGED <<batch, closer>>
      /\ ToSet(batch') \union ToSet(buf) \subseteq ToSet(batch') \union ToSet(buf')
    <2>1. CASE UNCHANGED buf
        BY <2>1, ClientMoves
    <2>2. CASE buf' = Append(buf, seq + 1)
        <3>1. buf \in Seq(Nat) /\ seq + 1 \in Nat
            BY DEF TypeOK
        <3> QED
            BY <2>2, <3>1, ToSetAppend, ClientMoves
    <2> QED
        BY <2>1, <2>2, ClientMoves
<1> DEFINE Queued == ToSet(batch) \union ToSet(buf)
<1>2. Queued \subseteq Queued'
    BY <1>1
<1>3. \A w \in waiters : w.client \in Clients
    BY DEF TypeOK
<1> HIDE DEF Queued
<1>4. Waiting <=>
        /\ \A w \in waiters : pc[w.client] = "waiting" /\ w.target = target[w.client]
        /\ \A d \in Clients : pc[d] = "waiting" => \E w \in waiters : w.client = d
        /\ \A d \in Clients :
              pc[d] = "waiting" /\ own[d] /\ closer # "closed" => target[d] \in Queued
    BY Zenon DEF Waiting, Queued
<1>5. Waiting' <=>
        /\ \A w \in waiters' : pc'[w.client] = "waiting" /\ w.target = target'[w.client]
        /\ \A d \in Clients : pc'[d] = "waiting" => \E w \in waiters' : w.client = d
        /\ \A d \in Clients :
              pc'[d] = "waiting" /\ own'[d] /\ closer' # "closed" => target'[d] \in Queued'
    BY Zenon DEF Waiting, Queued
\* The client itself begins to wait, with a fresh waiter ...
<1>6. ASSUME NEW t, NEW mine \in BOOLEAN, pc[c] = "idle", Tell(c, "waiting", t, mine),
             waiters' = waiters \union {[client |-> c, target |-> t]},
             mine /\ closer # "closed" => t \in Queued'
      PROVE  Waiting'
    <2>1. /\ pc'[c] = "waiting" /\ target'[c] = t /\ own'[c] = mine
          /\ \A d \in Clients \ {c} : pc'[d] = pc[d] /\ target'[d] = target[d]
                                      /\ own'[d] = own[d]
        BY <1>6 DEF Tell, TypeOK
    <2>2. \A w \in waiters : w.client # c
        BY <1>4, <1>6
    <2> QED
        <3>1. ASSUME NEW w \in waiters'
              PROVE  pc'[w.client] = "waiting" /\ w.target = target'[w.client]
            BY <1>3, <1>4, <1>6, <2>1, <2>2
        <3>2. ASSUME NEW d \in Clients, pc'[d] = "waiting"
              PROVE  \E w \in waiters' : w.client = d
            <4>1. CASE d = c
                <5>1. [client |-> c, target |-> t] \in waiters'
                    BY <1>6
                <5>2. [client |-> c, target |-> t].client = d
                    BY <4>1
                <5> QED
                    BY <5>1, <5>2
            <4>2. CASE d # c
                <5>1. PICK w \in waiters : w.client = d
                    BY <1>4, <2>1, <3>2, <4>2
                <5> QED
                    BY <1>6, <5>1
            <4> QED
                BY <4>1, <4>2
        <3>3. ASSUME NEW d \in Clients, pc'[d] = "waiting", own'[d], closer' # "closed"
              PROVE  target'[d] \in Queued'
            <4>1. CASE d = c
                BY <1>1, <1>6, <2>1, <3>3, <4>1
            <4>2. CASE d # c
                BY <1>1, <1>2, <1>4, <2>1, <3>3, <4>2
            <4> QED
                BY <4>1, <4>2
        <3> QED
            BY <1>5, <3>1, <3>2, <3>3
\* ... or does not wait and leaves none.
<1>7. ASSUME waiters' = {w \in waiters : w.client # c}, pc'[c] # "waiting",
             \A d \in Clients \ {c} : pc'[d] = pc[d] /\ target'[d] = target[d]
                                      /\ own'[d] = own[d]
      PROVE  Waiting'
    BY <1>1, <1>2, <1>3, <1>4, <1>5, <1>7
<1>8. ASSUME NEW what \in {"idle", "released", "refused"}, NEW t, NEW mine,
             pc[c] # "waiting", Tell(c, what, t, mine), UNCHANGED waiters
      PROVE  Waiting'
    <2>1. /\ pc'[c] # "waiting"
          /\ \A d \in Clients \ {c} : pc'[d] = pc[d] /\ target'[d] = target[d]
                                      /\ own'[d] = own[d]
        BY <1>8 DEF Tell, TypeOK
    <2>2. waiters' = {w \in waiters : w.client # c}
        BY <1>4, <1>8
    <2> QED
        BY <1>7, <2>1, <2>2
<1>9. CASE AppendRecord(c)
    BY <1>1, <1>2, <1>4, <1>5, <1>9 DEF AppendRecord, client
<1>10. CASE FencedAppend(c)
    <2>1. CASE closer = "closed"
        BY <1>8, <1>10, <2>1 DEF FencedAppend
    <2>2. CASE closer # "closed"
        <3>1. seq + 1 \in Queued'
            <4>1. buf \in Seq(Nat) /\ seq + 1 \in Nat /\ buf' = Append(buf, seq + 1)
                BY <1>10 DEF FencedAppend, Push, TypeOK
            <4>2. seq + 1 \in ToSet(buf')
                BY <4>1, ToSetAppend
            <4> QED
                BY <4>2 DEF Queued
        <3> QED
            BY <1>6, <1>10, <2>2, <3>1 DEF FencedAppend
    <2> QED
        BY <2>1, <2>2
<1>11. CASE Backpressure(c)
    BY <1>8, <1>11 DEF Backpressure
<1>12. CASE DropRecord(c)
    BY <1>8, <1>12 DEF DropRecord
<1>13. CASE \E t \in 1..seq : Fence(c, t)
    <2>1. PICK t \in 1..seq : Fence(c, t)
        BY <1>13
    <2>2. pc[c] = "idle"
        BY <2>1 DEF Fence
    <2>3. \/ Tell(c, "waiting", t, FALSE)
             /\ waiters' = waiters \union {[client |-> c, target |-> t]}
          \/ Tell(c, "released", t, FALSE) /\ UNCHANGED waiters
          \/ Tell(c, "refused", t, FALSE) /\ UNCHANGED waiters
        BY <2>1 DEF Fence
    <2> QED
        BY <1>6, <1>8, <2>2, <2>3
<1>14. CASE FenceTimeout(c)
    <2>1. /\ pc'[c] # "waiting"
          /\ \A d \in Clients \ {c} : pc'[d] = pc[d] /\ target'[d] = target[d]
                                      /\ own'[d] = own[d]
        BY <1>14 DEF FenceTimeout, TypeOK
    <2> QED
        BY <1>7, <1>14, <2>1 DEF FenceTimeout
<1>15. CASE Resume(c)
    BY <1>8, <1>15 DEF Resume
<1> QED
    BY <1>9, <1>10, <1>11, <1>12, <1>13, <1>14, <1>15 DEF ClientStep

\* FlushOk and JoinFlushed resolve at the last record written: what still
\* waits, waits for a record still queued.
LEMMA WaitingStep ==
    ASSUME TypeOK, Places, Ordered, Waiting, [Next]_vars
    PROVE  Waiting'
<1>1. ASSUME NEW c \in Clients, ClientStep(c) PROVE Waiting'
    BY <1>1, ClientWaiting
<1>2. CASE FlushTake
    <2>1. ToSet(batch') \union ToSet(buf') = ToSet(batch) \union ToSet(buf)
          /\ UNCHANGED closer
        BY <1>2, ToSetEmpty DEF FlushTake, Places
    <2>2. CASE buf = <<>>
        <3>1. Resolve(durableSeq) /\ durableSeq \in Nat
            BY <1>2, <2>2 DEF FlushTake, TypeOK
        <3> QED
            BY <2>1, <3>1, ResolveAnswers DEF Waiting
    <2>3. CASE buf # <<>>
        BY <1>2, <2>1, <2>3 DEF FlushTake, client, Waiting
    <2> QED
        BY <2>2, <2>3
<1>3. CASE FlushOk
    <2>1. batch # <<>> /\ Resolve(Last(batch)) /\ AfterFlush /\ UNCHANGED closer
        BY <1>3 DEF FlushOk, Places
    <2>2. Last(batch) \in Nat /\ \A a \in ToSet(batch) : ~(a > Last(batch))
        BY <2>1, LastIsGreatest, LastType, ToSetDef DEF TypeOK, Ordered
    <2>3. ToSet(batch') \union ToSet(buf') = ToSet(buf)
        BY <2>1, AfterFlushMoves, ToSetEmpty
    <2> QED
        BY <2>1, <2>2, <2>3, ResolveAnswers DEF Waiting
<1>4. ASSUME NEW k \in 0..Len(batch), FlushFail(k) PROVE Waiting'
    <2>1. waiters' = {} /\ \A c \in Clients : pc'[c] # "waiting"
        BY <1>4 DEF FlushFail, FailWaiters, Waiting
    <2> QED
        BY <2>1 DEF Waiting
<1>5. CASE CloseBegin \/ CloseEnd \/ CloseCancel
    BY <1>5 DEF CloseBegin, CloseEnd, CloseCancel, memory, client, Waiting
<1>6. CASE JoinFlushed
    <2>1. buf # <<>> /\ Resolve(Last(buf)) /\ closer' = "closed"
        BY <1>6 DEF JoinFlushed
    <2>2. Last(buf) \in Nat
        BY <2>1, LastType DEF TypeOK
    <2> QED
        BY <2>1, <2>2, ResolveAnswers DEF Waiting
<1>7. ASSUME NEW k \in 0..Len(batch \o buf), JoinUnflushed(k) PROVE Waiting'
    BY <1>7 DEF JoinUnflushed, client, Waiting
<1>8. CASE UNCHANGED vars
    BY <1>8 DEF vars, memory, flush, client, Waiting
<1> QED
    BY <1>1, <1>2, <1>3, <1>4, <1>5, <1>6, <1>7, <1>8 DEF Next, FlushAnswer, Join
-----------------------------------------------------------------------------
(* What a granted fence is worth                                            *)

\* Whoever a resolve releases had its own record in flight or queued; if that
\* record reached the disk with this step, the promise holds.
LEMMA ResolveKeepsPromises ==
    ASSUME TypeOK, Waiting, Promises, NEW d \in Nat, Resolve(d),
           UNCHANGED policy, ToSet(disk) \subseteq ToSet(disk'), closer # "closed",
           durableSeq' = d, durableSeq <= d,
           \A a \in ToSet(batch) \union ToSet(buf) : a <= d => a \in ToSet(disk')
    PROVE  Promises'
<1>1. /\ \A c \in Clients : pc'[c] = "released" =>
             \/ pc[c] = "released"
             \/ pc[c] = "waiting" /\ target[c] <= d
      /\ UNCHANGED <<target, own>>
    BY ResolveAnswers
<1>2. ASSUME NEW c \in Clients, pc'[c] = "released"
      PROVE  target'[c] <= durableSeq'
    <2>1. target[c] \in Nat \union {-1} /\ durableSeq \in Nat
        BY DEF TypeOK
    <2> QED
        BY <1>1, <1>2, <2>1 DEF Promises
<1>3. ASSUME NEW c \in Clients,
             policy' # "DROP_SILENT", pc'[c] = "released", own'[c]
      PROVE  target'[c] \in ToSet(disk')
    <2>1. CASE pc[c] = "released"
        BY <1>1, <1>3, <2>1 DEF Promises, FenceHonest
    <2>2. CASE pc[c] = "waiting" /\ target[c] <= d
        <3>1. target[c] \in ToSet(batch) \union ToSet(buf)
            BY <1>1, <1>3, <2>2 DEF Waiting
        <3> QED
            BY <1>1, <2>2, <3>1
    <2> QED
        BY <1>1, <1>3, <2>1, <2>2
<1> QED
    BY <1>2, <1>3 DEF Promises, FenceHonest

\* Nobody is newly released, and the disk and the durable sequence number only
\* grow.
LEMMA QuietKeepsPromises ==
    ASSUME TypeOK, Promises, UNCHANGED <<policy, durableSeq>>,
           ToSet(disk) \subseteq ToSet(disk'),
           \A c \in Clients : pc'[c] = "released" =>
               /\ pc[c] = "released"
               /\ target'[c] = target[c] /\ own'[c] = own[c]
    PROVE  Promises'
BY DEF Promises, FenceHonest

LEMMA ClientPromises ==
    ASSUME TypeOK, Promises, NEW c \in Clients, ClientStep(c)
    PROVE  Promises'
<1>1. UNCHANGED <<policy, durableSeq, disk>>
    BY ClientMoves
<1>2. ASSUME NEW what, NEW t, NEW mine, Tell(c, what, t, mine),
             what = "released" =>
                 t <= durableSeq /\ (mine => policy = "DROP_SILENT")
      PROVE  Promises'
    <2>1. /\ pc'[c] = what /\ target'[c] = t /\ own'[c] = mine
          /\ \A d \in Clients \ {c} : pc'[d] = pc[d] /\ target'[d] = target[d]
                                      /\ own'[d] = own[d]
        BY <1>2 DEF Tell, TypeOK
    <2>2. ASSUME NEW d \in Clients, pc'[d] = "released"
          PROVE  /\ target'[d] <= durableSeq'
                 /\ policy' # "DROP_SILENT" /\ own'[d] => target'[d] \in ToSet(disk')
        BY <1>1, <1>2, <2>1, <2>2 DEF Promises, FenceHonest
    <2> QED
        BY <2>2 DEF Promises, FenceHonest
<1>3. CASE AppendRecord(c)
    BY <1>1, <1>3, QuietKeepsPromises DEF AppendRecord, client
<1>4. CASE FencedAppend(c)
    <2>1. \E what \in {"refused", "waiting"} : Tell(c, what, seq + 1, TRUE)
        BY <1>4 DEF FencedAppend
    <2> QED
        BY <1>2, <2>1
<1>5. CASE Backpressure(c)
    BY <1>2, <1>5 DEF Backpressure
<1>6. CASE DropRecord(c)
    <2>1. -1 <= durableSeq
        BY DEF TypeOK
    <2> QED
        BY <1>2, <1>6, <2>1 DEF DropRecord
<1>7. CASE \E t \in 1..seq : Fence(c, t)
    <2>1. PICK t \in 1..seq : Fence(c, t)
        BY <1>7
    <2>2. \/ durableSeq >= t /\ Tell(c, "released", t, FALSE)
          \/ Tell(c, "refused", t, FALSE)
          \/ Tell(c, "waiting", t, FALSE)
        BY <2>1 DEF Fence
    <2>3. durableSeq >= t => t <= durableSeq
        BY DEF TypeOK
    <2> QED
        BY <1>2, <2>2, <2>3
<1>8. CASE FenceTimeout(c)
    <2>1. /\ UNCHANGED <<target, own>>
          /\ \A d \in Clients : pc'[d] = "released" => pc[d] = "released"
        BY <1>8 DEF FenceTimeout, TypeOK
    <2> QED
        BY <1>1, <2>1, QuietKeepsPromises
<1>9. CASE Resume(c)
    BY <1>2, <1>9 DEF Resume
<1> QED
    BY <1>3, <1>4, <1>5, <1>6, <1>7, <1>8, <1>9 DEF ClientStep

LEMMA PromisesStep ==
    ASSUME TypeOK, Places, Ordered, Covered, Waiting, Promises, [Next]_vars
    PROVE  Promises'
<1>1. ASSUME NEW c \in Clients, ClientStep(c) PROVE Promises'
    BY <1>1, ClientPromises
<1>2. CASE FlushTake
    <2>1. UNCHANGED <<policy, durableSeq, disk>> /\ closer # "closed" /\ batch = <<>>
        BY <1>2 DEF FlushTake, Places, config, storage
    <2>2. CASE buf = <<>>
        <3>1. Resolve(durableSeq) /\ durableSeq \in Nat /\ durableSeq <= durableSeq
            BY <1>2, <2>2 DEF FlushTake, TypeOK
        <3>2. ToSet(batch) \union ToSet(buf) = {}
            BY <2>1, <2>2, ToSetEmpty
        <3> QED
            BY <2>1, <3>1, <3>2, ResolveKeepsPromises
    <2>3. CASE buf # <<>>
        BY <1>2, <2>1, <2>3, QuietKeepsPromises DEF FlushTake, client
    <2> QED
        BY <2>2, <2>3
<1>3. CASE FlushOk
    <2>1. /\ batch # <<>> /\ closer # "closed" /\ UNCHANGED policy
          /\ durableSeq' = Last(batch) /\ Resolve(Last(batch))
        BY <1>3 DEF FlushOk, Places, config
    <2>2. ToSet(disk') = ToSet(disk) \union ToSet(batch)
        BY <1>3, ToSetConcat DEF FlushOk, TypeOK
    <2>3. Last(batch) \in Nat /\ Last(batch) \in ToSet(batch)
        BY <2>1, LastType, LastIsGreatest DEF TypeOK, Ordered
    <2>4. durableSeq <= Last(batch)
        BY <2>3 DEF Covered, TypeOK
    <2>5. \A a \in ToSet(buf) : ~(a <= Last(batch))
        <3>1. ToSet(buf) \subseteq Nat
            BY ToSetDef DEF TypeOK
        <3> QED
            BY <2>3, <3>1 DEF Ordered, Before
    <2> QED
        BY <2>1, <2>2, <2>3, <2>4, <2>5, ResolveKeepsPromises
<1>4. ASSUME NEW k \in 0..Len(batch), FlushFail(k) PROVE Promises'
    <2> DEFINE p == SubSeq(batch, 1, k)
    <2>1. p \in Seq(Nat)
        BY PrefixProperties DEF TypeOK
    <2>2. disk' = disk \o p /\ UNCHANGED <<policy, durableSeq>> /\ FailWaiters
        BY <1>4 DEF FlushFail, config
    <2> HIDE DEF p
    <2>3. ToSet(disk) \subseteq ToSet(disk')
        BY <2>1, <2>2, ToSetConcat DEF TypeOK
    <2>4. /\ UNCHANGED <<target, own>>
          /\ \A c \in Clients : pc'[c] = "released" => pc[c] = "released"
        BY <2>2 DEF FailWaiters
    <2> QED
        BY <2>2, <2>3, <2>4, QuietKeepsPromises
<1>5. CASE CloseBegin \/ CloseEnd \/ CloseCancel
    BY <1>5, QuietKeepsPromises
    DEF CloseBegin, CloseEnd, CloseCancel, config, storage, client
<1>6. CASE JoinFlushed
    <2>1. /\ disk' = (disk \o batch) \o buf
          /\ buf # <<>> /\ closer # "closed" /\ UNCHANGED policy
          /\ durableSeq' = Last(buf) /\ Resolve(Last(buf))
        BY <1>6 DEF JoinFlushed, config
    <2>2. ToSet(disk') = ToSet(disk) \union ToSet(batch) \union ToSet(buf)
        <3> DEFINE u == disk \o batch
        <3>1. u \in Seq(Nat) /\ ToSet(u) = ToSet(disk) \union ToSet(batch)
            BY ToSetConcat DEF TypeOK
        <3>2. disk' = u \o buf
            BY <2>1
        <3> HIDE DEF u
        <3>3. ToSet(disk') = ToSet(u) \union ToSet(buf)
            BY <3>1, <3>2, ToSetConcat DEF TypeOK
        <3> QED
            BY <3>1, <3>3
    <2>3. Last(buf) \in Nat /\ Last(buf) \in ToSet(buf)
        BY <2>1, LastType, LastIsGreatest DEF TypeOK, Ordered
    <2>4. durableSeq <= Last(buf)
        BY <2>3 DEF Covered, TypeOK
    <2> QED
        BY <2>1, <2>2, <2>3, <2>4, ResolveKeepsPromises
<1>7. ASSUME NEW k \in 0..Len(batch \o buf), JoinUnflushed(k) PROVE Promises'
    <2> DEFINE p == SubSeq(batch \o buf, 1, k)
    <2>1. p \in Seq(Nat)
        BY QueueOrder, PrefixProperties
    <2>2. disk' = disk \o p /\ UNCHANGED <<policy, durableSeq, pc, target, own>>
        BY <1>7 DEF JoinUnflushed, config, client
    <2> HIDE DEF p
    <2>3. ToSet(disk) \subseteq ToSet(disk')
        BY <2>1, <2>2, ToSetConcat DEF TypeOK
    <2> QED
        BY <2>2, <2>3, QuietKeepsPromises
<1>8. CASE UNCHANGED vars
    BY <1>8, QuietKeepsPromises DEF vars, config, storage, client
<1> QED
    BY <1>1, <1>2, <1>3, <1>4, <1>5, <1>6, <1>7, <1>8 DEF Next, FlushAnswer, Join

-----------------------------------------------------------------------------
(* The theorems                                                             *)

LEMMA InitIInv ==
    ASSUME Init
    PROVE  IInv
<1>1. TypeOK
    BY EmptySeq, WALAssumption DEF Init, TypeOK
<1>2. Places /\ Waiting /\ Promises
    BY DEF Init, Places, Waiting, Promises, FenceHonest
<1>3. Ordered
    BY BeforeNone DEF Init, Ordered
<1>4. Covered
    BY ToSetEmpty DEF Init, Covered
<1> QED
    BY <1>1, <1>2, <1>3, <1>4 DEF IInv

LEMMA IInvStep == IInv /\ [Next]_vars => IInv'
BY TypeStep, PlacesStep, OrderedStep, CoveredStep, WaitingStep, PromisesStep DEF IInv

\* Whatever the sink does and whenever close() gives up, the conjunction above
\* holds in every reachable state.
THEOREM Invariant == Spec => []IInv
BY InitIInv, IInvStep, PTL DEF Spec

\* Every variable keeps its type: in particular the durable sequence number is
\* never taken from an empty batch.
THEOREM TypeCorrect == Spec => []TypeOK
<1>1. IInv => TypeOK
    BY DEF IInv
<1> QED
    BY <1>1, Invariant, PTL

\* Every record append() accepted is on disk, in flight, buffered or in a
\* rejected batch, and the durable sequence number covers none undecided.
THEOREM NothingVanishes == Spec => []NoRecordVanishes
<1>1. IInv => NoRecordVanishes
    <2> SUFFICES ASSUME IInv PROVE NoRecordVanishes
        OBVIOUS
    <2>1. \A s \in ToSet(batch) \union ToSet(buf) : s \notin ToSet(disk)
        <3>1. ToSet(disk) \subseteq Nat
            BY ToSetDef DEF IInv, TypeOK
        <3>2. \A a \in ToSet(disk) : ~(a < a)
            BY <3>1
        <3> QED
            BY <3>2 DEF IInv, Ordered, Before
    <2> QED
        BY <2>1 DEF IInv, Covered, NoRecordVanishes
<1> QED
    BY <1>1, Invariant, PTL

\* A fence raised in the same breath as its append is granted only once the
\* record is on disk, unless the log drops records by policy.
THEOREM FencesAreHonest == Spec => []FenceHonest
<1>1. IInv => FenceHonest
    BY DEF IInv, Promises
<1> QED
    BY <1>1, Invariant, PTL

\* Below any granted fence only rejected records are missing from disk.
THEOREM OnlyTheRejectedAreMissing == Spec => []OnlyRejectedMissing
<1>1. IInv => OnlyRejectedMissing
    <2> SUFFICES ASSUME IInv, NEW c \in Clients, pc[c] = "released",
                        NEW s \in 1..target[c]
                 PROVE  s \in ToSet(disk) \union rejected
        BY DEF OnlyRejectedMissing
    <2>1. /\ target[c] \in Nat \union {-1} /\ durableSeq \in Nat /\ seq \in Nat
          /\ target[c] <= durableSeq /\ durableSeq <= seq
        BY DEF IInv, TypeOK, Promises, Covered
    <2>2. s \in 1..seq /\ ~(s > durableSeq)
        BY <2>1
    <2> QED
        BY <2>2 DEF IInv, Covered
<1> QED
    BY <1>1, Invariant, PTL

\* The file holds the records in the order append() numbered them, each once.
THEOREM DiskIsOrdered == Spec => []DiskInOrder
<1>1. IInv => DiskInOrder
    BY DEF IInv, Ordered, Increasing, DiskInOrder
<1> QED
    BY <1>1, Invariant, PTL

-----------------------------------------------------------------------------
(* BufferedWAL implements LogSink for any clients, buffer sizes, policies   *)
(* and number of records: what a saga may assume of its log holds of the    *)
(* flush loop, the waiters, the failing sink and the close that gives up.   *)
(*                                                                          *)
(* The mapping                                                              *)

\* A client with no fence of its own pending shows none to the saga.
Unfenced == \A c \in Clients : pc[c] = "idle" => ~own[c]

RefInv == IInv /\ Unfenced

\* The instance brings a ToSet of its own.
LEMMA SameToSet == ASSUME NEW s PROVE Log!ToSet(s) = ToSet(s)
BY DEF Log!ToSet, ToSet

LEMMA AnswerIs ==
    /\ Answer["idle"] = "none" /\ Answer["waiting"] = "waiting"
    /\ Answer["released"] = "granted" /\ Answer["refused"] = "refused"
BY DEF Answer

\* What the mapping makes of one client.
LEMMA FenceOf ==
    ASSUME TypeOK, NEW c \in Clients
    PROVE  /\ Fences[c] = IF own[c] THEN Answer[pc[c]] ELSE "none"
           /\ Wants[c] = IF own[c] THEN <<target[c]>> ELSE <<>>
           /\ Fences[c] = "waiting" <=> own[c] /\ pc[c] = "waiting"
           /\ Fences[c] = "none" <=> ~own[c] \/ pc[c] = "idle"
<1>1. /\ Fences[c] = IF own[c] THEN Answer[pc[c]] ELSE "none"
      /\ Wants[c] = IF own[c] THEN <<target[c]>> ELSE <<>>
    BY DEF Fences, Wants
<1>2. pc[c] \in {"idle", "waiting", "released", "refused"}
    BY DEF TypeOK
<1> QED
    BY <1>1, <1>2, AnswerIs

\* Two functions on the clients that agree everywhere are one.
LEMMA SameFences ==
    /\ (\A c \in Clients : Fences'[c] = Fences[c]) => UNCHANGED Fences
    /\ (\A c \in Clients : Wants'[c] = Wants[c]) => UNCHANGED Wants
BY DEF Fences, Wants

\* A client's Tell changes what the saga sees of that client, and of no other.
LEMMA TellFences ==
    ASSUME TypeOK, NEW c \in Clients,
           NEW what \in {"idle", "waiting", "released", "refused"}, NEW t,
           NEW mine \in BOOLEAN, Tell(c, what, t, mine)
    PROVE  /\ Fences' = [Fences EXCEPT ![c] = IF mine THEN Answer[what] ELSE "none"]
           /\ Wants' = [Wants EXCEPT ![c] = IF mine THEN <<t>> ELSE <<>>]
<1>1. /\ pc'[c] = what /\ target'[c] = t /\ own'[c] = mine
      /\ \A d \in Clients \ {c} : pc'[d] = pc[d] /\ target'[d] = target[d]
                                  /\ own'[d] = own[d]
    BY DEF Tell, TypeOK
<1> QED
    BY <1>1 DEF Fences, Wants

-----------------------------------------------------------------------------
(* The queue                                                                *)

\* Appending to the buffer appends to the queue.
LEMMA QueueAppend ==
    ASSUME TypeOK, NEW r \in Nat, buf' = Append(buf, r), UNCHANGED batch
    PROVE  Queue' = Append(Queue, r)
BY DEF Queue, TypeOK

\* The batch is the front of the queue, the buffer the rest.
LEMMA QueueParts ==
    ASSUME TypeOK
    PROVE  /\ Queue \in Seq(Nat) /\ Len(batch) \in 0..Len(Queue)
           /\ Len(Queue) = Len(batch) + Len(buf)
           /\ SubSeq(Queue, 1, Len(batch)) = batch
           /\ SubSeq(Queue, Len(batch) + 1, Len(Queue)) = buf
           /\ \A k \in 0..Len(batch) : SubSeq(Queue, 1, k) = SubSeq(batch, 1, k)
BY DEF Queue, TypeOK

\* All of the queue, and nothing behind it.
LEMMA QueueWhole ==
    ASSUME TypeOK
    PROVE  /\ SubSeq(Queue, 1, Len(Queue)) = Queue
           /\ SubSeq(Queue, Len(Queue) + 1, Len(Queue)) = <<>>
           /\ (disk \o batch) \o buf = disk \o Queue
BY DEF Queue, TypeOK

LEMMA QueueRest ==
    ASSUME TypeOK
    PROVE  /\ batch' = <<>> /\ buf' = buf => Queue' = buf
           /\ batch' = buf /\ buf' = <<>> => Queue' = buf
           /\ batch' = <<>> /\ buf' = <<>> => Queue' = <<>>
           /\ batch = <<>> => Queue = buf
<1>1. buf \in Seq(Nat) /\ <<>> \o buf = buf /\ buf \o <<>> = buf
      /\ <<>> \o <<>> = <<>>
    BY ConcatEmptySeq, EmptySeq DEF TypeOK
<1> QED
    BY <1>1 DEF Queue

-----------------------------------------------------------------------------
(* Fences answered by the flush task                                        *)

\* Resolving at the last record of the batch grants the fences whose record
\* is in the batch.
LEMMA ResolveGrants ==
    ASSUME TypeOK, Waiting, closer # "closed", NEW s \in Seq(Nat), NEW d \in Nat,
           \A a \in ToSet(batch) \union ToSet(buf) : a <= d <=> a \in ToSet(s),
           Resolve(d)
    PROVE  /\ Fences' = [c \in Clients |->
                  IF Fences[c] = "waiting" /\ ToSet(Wants[c]) \subseteq ToSet(s)
                  THEN "granted" ELSE Fences[c]]
           /\ UNCHANGED Wants
<1>1. /\ pc' = [c \in Clients |->
                   IF \E w \in waiters : w.client = c /\ w.target <= d
                   THEN "released" ELSE pc[c]]
      /\ UNCHANGED <<target, own>>
    BY DEF Resolve
<1>2. UNCHANGED Wants
    BY <1>1 DEF Wants
<1>3. ASSUME NEW c \in Clients
      PROVE  Fences'[c] =
                  IF Fences[c] = "waiting" /\ ToSet(Wants[c]) \subseteq ToSet(s)
                  THEN "granted" ELSE Fences[c]
    <2>1. Fences'[c] = IF own[c] THEN Answer[pc'[c]] ELSE "none"
        BY <1>1 DEF Fences
    <2>2. CASE ~own[c]
        BY <2>1, <2>2, FenceOf
    <2>3. CASE own[c] /\ pc[c] # "waiting"
        <3>1. ~\E w \in waiters : w.client = c
            BY <2>3 DEF Waiting
        <3>2. pc'[c] = pc[c]
            BY <1>1, <3>1
        <3> QED
            BY <2>1, <2>3, <3>2, FenceOf
    <2>4. CASE own[c] /\ pc[c] = "waiting"
        <3>1. Fences[c] = "waiting" /\ Wants[c] = <<target[c]>>
            BY <2>4, FenceOf
        <3>2. target[c] \in ToSet(batch) \union ToSet(buf)
            BY <2>4 DEF Waiting
        <3>3. ToSet(Wants[c]) = {target[c]}
            BY <3>1 DEF ToSet
        <3>4. (\E w \in waiters : w.client = c /\ w.target <= d) <=> target[c] <= d
            BY <2>4 DEF Waiting
        <3>5. CASE target[c] <= d
            <4>1. pc'[c] = "released"
                BY <1>1, <3>4, <3>5
            <4> QED
                BY <2>1, <2>4, <3>1, <3>2, <3>3, <3>5, <4>1, AnswerIs
        <3>6. CASE ~(target[c] <= d)
            <4>1. pc'[c] = "waiting"
                BY <1>1, <2>4, <3>4, <3>6
            <4> QED
                BY <2>1, <2>4, <3>1, <3>2, <3>3, <3>6, <4>1, AnswerIs
        <3> QED
            BY <3>5, <3>6
    <2> QED
        BY <2>2, <2>3, <2>4
<1>4. Fences' = [c \in Clients |-> Fences'[c]]
    BY DEF Fences
<1> QED
    BY <1>2, <1>3, <1>4, Zenon

\* A failed batch refuses every fence that waits.
LEMMA FailRefuses ==
    ASSUME TypeOK, Waiting, FailWaiters
    PROVE  /\ Fences' = [c \in Clients |->
                  IF Fences[c] = "waiting" THEN "refused" ELSE Fences[c]]
           /\ UNCHANGED Wants
<1>1. /\ pc' = [c \in Clients |->
                   IF \E w \in waiters : w.client = c THEN "refused" ELSE pc[c]]
      /\ UNCHANGED <<target, own>>
    BY DEF FailWaiters
<1>2. UNCHANGED Wants
    BY <1>1 DEF Wants
<1>3. ASSUME NEW c \in Clients
      PROVE  Fences'[c] = IF Fences[c] = "waiting" THEN "refused" ELSE Fences[c]
    <2>1. Fences'[c] = IF own[c] THEN Answer[pc'[c]] ELSE "none"
        BY <1>1 DEF Fences
    <2>2. (\E w \in waiters : w.client = c) <=> pc[c] = "waiting"
        BY DEF Waiting
    <2>3. pc'[c] = IF pc[c] = "waiting" THEN "refused" ELSE pc[c]
        BY <1>1, <2>2
    <2> QED
        BY <2>1, <2>3, FenceOf, AnswerIs
<1>4. Fences' = [c \in Clients |-> Fences'[c]]
    BY DEF Fences
<1> QED
    BY <1>2, <1>3, <1>4, Zenon

-----------------------------------------------------------------------------
(* The steps                                                                *)

\* What a saga sees of a client that goes on, by what the client does.
LEMMA ClientImplements ==
    ASSUME TypeOK, Unfenced, NEW c \in Clients, ClientStep(c)
    PROVE  \/ policy = "DROP_SILENT"
           \/ Log!LogNext(Clients, 1..MaxSeq)
           \/ UNCHANGED Log!log
<1>1. UNCHANGED <<disk, batch>>
    BY ClientMoves
<1>2. ASSUME Push PROVE Queue' = Append(Queue, seq + 1) /\ seq + 1 \in 1..MaxSeq
    BY <1>1, <1>2, QueueAppend, WALAssumption DEF Push, TypeOK
<1>3. ASSUME UNCHANGED buf PROVE UNCHANGED Queue
    BY <1>1, <1>3 DEF Queue
<1>4. pc[c] = "idle" => Fences[c] = "none" /\ Wants[c] = <<>>
    BY FenceOf DEF Unfenced
<1>5. /\ Fences = [Fences EXCEPT ![c] = Fences[c]]
      /\ Wants = [Wants EXCEPT ![c] = Wants[c]]
    BY DEF Fences, Wants
<1>6. CASE AppendRecord(c)
    <2>1. UNCHANGED <<Fences, Wants>>
        BY <1>6 DEF AppendRecord, client, Fences, Wants
    <2>2. Log!Enqueue(seq + 1)
        BY <1>1, <1>2, <1>6, <2>1 DEF AppendRecord, Log!Enqueue
    <2> QED
        BY <1>2, <1>6, <2>2 DEF AppendRecord, Log!LogNext
<1>7. CASE FencedAppend(c)
    <2>1. Push /\ pc[c] = "idle" /\ seq + 1 \in 1..MaxSeq
        BY <1>2, <1>7 DEF FencedAppend
    <2>2. CASE closer = "closed"
        <3>1. Tell(c, "refused", seq + 1, TRUE)
            BY <1>7, <2>2 DEF FencedAppend
        <3>2. /\ Fences' = [Fences EXCEPT ![c] = "refused"]
              /\ Wants' = [Wants EXCEPT ![c] = <<seq + 1>>]
            BY <3>1, TellFences, AnswerIs
        <3>3. Log!EnqueueRefused(c, seq + 1)
            BY <1>1, <1>2, <2>1, <3>2 DEF Log!EnqueueRefused
        <3> QED
            BY <1>4, <2>1, <3>3 DEF Log!LogNext
    <2>3. CASE closer # "closed"
        <3>1. Tell(c, "waiting", seq + 1, TRUE)
            BY <1>7, <2>3 DEF FencedAppend
        <3>2. /\ Fences' = [Fences EXCEPT ![c] = "waiting"]
              /\ Wants' = [Wants EXCEPT ![c] = <<seq + 1>>]
            BY <3>1, TellFences, AnswerIs
        <3>3. Log!EnqueueFenced(c, seq + 1)
            BY <1>1, <1>2, <2>1, <3>2 DEF Log!EnqueueFenced
        <3> QED
            BY <1>4, <2>1, <3>3 DEF Log!LogNext
    <2> QED
        BY <2>2, <2>3
<1>8. CASE Backpressure(c)
    <2>1. Tell(c, "refused", 0, FALSE) /\ pc[c] = "idle" /\ UNCHANGED buf
        BY <1>8 DEF Backpressure, memory
    <2>2. /\ Fences' = [Fences EXCEPT ![c] = "none"]
          /\ Wants' = [Wants EXCEPT ![c] = <<>>]
        BY <2>1, TellFences
    <2>3. UNCHANGED <<Fences, Wants>>
        BY <1>4, <1>5, <2>1, <2>2
    <2> QED
        BY <1>1, <1>3, <2>1, <2>3 DEF Log!log
<1>9. CASE DropRecord(c)
    BY <1>9 DEF DropRecord
<1>10. CASE \E t \in 1..seq : Fence(c, t)
    <2>1. PICK t \in 1..seq : Fence(c, t)
        BY <1>10
    <2>2. pc[c] = "idle" /\ UNCHANGED buf
          /\ \E what \in {"released", "refused", "waiting"} : Tell(c, what, t, FALSE)
        BY <2>1 DEF Fence
    <2>3. /\ Fences' = [Fences EXCEPT ![c] = "none"]
          /\ Wants' = [Wants EXCEPT ![c] = <<>>]
        <3>1. PICK what \in {"released", "refused", "waiting"} : Tell(c, what, t, FALSE)
            BY <2>2
        <3>2. what \in {"idle", "waiting", "released", "refused"}
            BY <3>1
        <3> QED
            BY <3>1, <3>2, TellFences
    <2>4. UNCHANGED <<Fences, Wants>>
        BY <1>4, <1>5, <2>2, <2>3
    <2> QED
        BY <1>1, <1>3, <2>2, <2>4 DEF Log!log
<1>11. CASE FenceTimeout(c)
    <2>1. /\ pc[c] = "waiting" /\ pc' = [pc EXCEPT ![c] = "refused"]
          /\ UNCHANGED <<buf, target, own>>
        BY <1>11 DEF FenceTimeout, memory
    <2>2. UNCHANGED <<Queue, Wants>>
        BY <1>3, <2>1 DEF Wants
    <2>3. Fences' = [Fences EXCEPT ![c] = IF own[c] THEN "refused" ELSE "none"]
        BY <2>1, AnswerIs DEF Fences, TypeOK
    <2>4. CASE own[c]
        <3>1. Log!Stall(c)
            BY <1>1, <2>1, <2>2, <2>3, <2>4, FenceOf DEF Log!Stall
        <3> QED
            BY <3>1 DEF Log!LogNext
    <2>5. CASE ~own[c]
        <3>1. UNCHANGED Fences
            BY <1>5, <2>3, <2>5, FenceOf
        <3> QED
            BY <1>1, <2>2, <3>1 DEF Log!log
    <2> QED
        BY <2>4, <2>5
<1>12. CASE Resume(c)
    <2>1. pc[c] \in {"released", "refused"} /\ Tell(c, "idle", 0, FALSE) /\ UNCHANGED buf
        BY <1>12 DEF Resume, memory
    <2>2. /\ Fences' = [Fences EXCEPT ![c] = "none"]
          /\ Wants' = [Wants EXCEPT ![c] = <<>>]
        BY <2>1, TellFences
    <2>3. CASE own[c]
        <3>1. PICK answer \in {"granted", "refused"} : Fences[c] = answer
            BY <2>1, <2>3, FenceOf, AnswerIs
        <3>2. Log!Answered(c, answer)
            BY <1>1, <1>3, <2>1, <2>2, <3>1 DEF Log!Answered
        <3> QED
            BY <3>1, <3>2 DEF Log!LogNext
    <2>4. CASE ~own[c]
        <3>1. UNCHANGED <<Fences, Wants>>
            BY <1>5, <2>2, <2>4, FenceOf
        <3> QED
            BY <1>1, <1>3, <2>1, <3>1 DEF Log!log
    <2> QED
        BY <2>3, <2>4
<1> QED
    BY <1>6, <1>7, <1>8, <1>9, <1>10, <1>11, <1>12 DEF ClientStep

\* An acknowledged batch is a Persist of the front of the queue, a rejected one
\* a Reject.
LEMMA FlushImplements ==
    ASSUME IInv, FlushAnswer
    PROVE  Log!LogNext(Clients, 1..MaxSeq)
<1>1. TypeOK /\ Places /\ Ordered /\ Waiting
    BY DEF IInv
<1>2. flusher \in {"writing", "draining"} /\ AfterFlush
    BY DEF FlushAnswer, FlushOk, FlushFail
<1>3. batch # <<>> /\ closer # "closed" /\ batch \in Seq(Nat) /\ buf \in Seq(Nat)
    BY <1>1, <1>2 DEF Places, TypeOK
<1>4. Queue' = SubSeq(Queue, Len(batch) + 1, Len(Queue))
    BY <1>1, <1>2, AfterFlushMoves, QueueRest, QueueParts
<1>5. Len(batch) \in 1..Len(Queue) /\ SubSeq(Queue, 1, Len(batch)) = batch
    BY <1>1, <1>3, QueueParts, EmptySeq
<1>6. CASE FlushOk
    <2>1. disk' = disk \o batch /\ Resolve(Last(batch))
        BY <1>6 DEF FlushOk
    <2>2. Last(batch) \in Nat
        BY <1>3, LastType
    <2>3. \A a \in ToSet(batch) \union ToSet(buf) : a <= Last(batch) <=> a \in ToSet(batch)
        <3>1. Last(batch) \in ToSet(batch) /\ \A a \in ToSet(batch) : a <= Last(batch)
            BY <1>1, <1>3, LastIsGreatest DEF Ordered
        <3>2. \A a \in ToSet(buf) : a \in Nat /\ Last(batch) < a
            BY <1>1, <1>3, <3>1, ToSetDef DEF Ordered, Before
        <3> QED
            BY <2>2, <3>1, <3>2
    <2>4. /\ Fences' = [c \in Clients |->
                  IF Fences[c] = "waiting" /\ ToSet(Wants[c]) \subseteq ToSet(batch)
                  THEN "granted" ELSE Fences[c]]
          /\ UNCHANGED Wants
        BY <1>1, <1>3, <2>1, <2>2, <2>3, ResolveGrants
    <2>5. DOMAIN Fences = Clients
        BY DEF Fences
    <2>6. Log!Persist(Len(batch))
        BY <1>4, <1>5, <2>1, <2>4, <2>5, SameToSet DEF Log!Persist
    <2> QED
        BY <1>5, <2>6 DEF Log!LogNext
<1>7. ASSUME NEW k \in 0..Len(batch), FlushFail(k)
      PROVE  Log!LogNext(Clients, 1..MaxSeq)
    <2>1. disk' = disk \o SubSeq(batch, 1, k) /\ FailWaiters
        BY <1>7 DEF FlushFail
    <2>2. SubSeq(batch, 1, k) = SubSeq(Queue, 1, k)
        BY <1>1, QueueParts
    <2>3. DOMAIN Fences = Clients
        BY DEF Fences
    <2>4. Log!Reject(Len(batch), k)
        BY <1>1, <1>4, <2>1, <2>2, <2>3, FailRefuses DEF Log!Reject
    <2> QED
        BY <1>5, <2>4 DEF Log!LogNext
<1> QED
    BY <1>6, <1>7 DEF FlushAnswer

\* The synchronous flush of a cancelled close persists all that was queued, or
\* abandons it.
LEMMA JoinImplements ==
    ASSUME IInv, Join
    PROVE  Log!LogNext(Clients, 1..MaxSeq)
<1>1. TypeOK /\ Places /\ Ordered /\ Waiting
    BY DEF IInv
<1>2. closer = "joining" /\ batch' = <<>> /\ buf' = <<>>
    BY DEF Join, JoinFlushed, JoinUnflushed
<1>3. batch \in Seq(Nat) /\ buf \in Seq(Nat) /\ Queue \in Seq(Nat) /\ Queue' = <<>>
    BY <1>1, <1>2, QueueRest, QueueParts DEF TypeOK
<1>4. ToSet(Queue) = ToSet(batch) \union ToSet(buf) /\ Increasing(Queue)
    BY <1>1, QueueOrder DEF Queue
<1>5. CASE JoinFlushed
    <2>1. disk' = (disk \o batch) \o buf /\ Resolve(Last(buf)) /\ buf # <<>>
        BY <1>5 DEF JoinFlushed
    <2>2. Last(buf) \in Nat
        BY <1>3, <2>1, LastType
    <2>3. \A a \in ToSet(batch) \union ToSet(buf) : a <= Last(buf) <=> a \in ToSet(Queue)
        <3>1. Last(buf) \in ToSet(buf) /\ \A a \in ToSet(buf) : a <= Last(buf)
            BY <1>1, <1>3, <2>1, LastIsGreatest DEF Ordered
        <3>2. \A a \in ToSet(batch) : a \in Nat /\ a < Last(buf)
            BY <1>1, <1>3, <3>1, ToSetDef DEF Ordered, Before
        <3> QED
            BY <1>4, <2>2, <3>1, <3>2
    <2>4. /\ Fences' = [c \in Clients |->
                  IF Fences[c] = "waiting" /\ ToSet(Wants[c]) \subseteq ToSet(Queue)
                  THEN "granted" ELSE Fences[c]]
          /\ UNCHANGED Wants
        BY <1>1, <1>2, <1>3, <2>1, <2>2, <2>3, ResolveGrants
    <2>5. DOMAIN Fences = Clients
        BY DEF Fences
    <2>6. Len(Queue) \in 1..Len(Queue)
        BY <1>1, <1>3, <2>1, QueueParts, EmptySeq
    <2>7. Log!Persist(Len(Queue))
        <3>1. disk' = disk \o Queue
            BY <1>1, <2>1, QueueWhole
        <3> QED
            BY <1>1, <1>3, <2>4, <2>5, <3>1, QueueWhole, SameToSet DEF Log!Persist
    <2> QED
        BY <2>6, <2>7 DEF Log!LogNext
<1>6. ASSUME NEW k \in 0..Len(batch \o buf), JoinUnflushed(k)
      PROVE  Log!LogNext(Clients, 1..MaxSeq)
    <2>1. k \in 0..Len(Queue) /\ disk' = disk \o SubSeq(Queue, 1, k)
        BY <1>6 DEF JoinUnflushed, Queue
    <2>2. UNCHANGED <<Fences, Wants>>
        BY <1>6 DEF JoinUnflushed, client, Fences, Wants
    <2>3. Log!Abandon(k)
        BY <1>3, <2>1, <2>2 DEF Log!Abandon
    <2> QED
        BY <2>1, <2>3 DEF Log!LogNext
<1> QED
    BY <1>5, <1>6 DEF Join

\* Taking the buffer leaves the queue as it is; an empty take answers nobody's
\* own fence.
LEMMA TakeStutters ==
    ASSUME IInv, FlushTake
    PROVE  UNCHANGED Log!log
<1>1. TypeOK /\ Places /\ Waiting
    BY DEF IInv
<1>2. /\ flusher = "sleeping" /\ batch = <<>> /\ closer # "closed"
      /\ batch' = buf /\ buf' = <<>> /\ UNCHANGED disk
    BY <1>1 DEF FlushTake, Places, storage
<1>3. UNCHANGED Queue
    BY <1>1, <1>2, QueueRest
<1>4. CASE buf = <<>>
    <2>1. Resolve(durableSeq) /\ durableSeq \in Nat
        BY <1>1, <1>4 DEF FlushTake, TypeOK
    <2>2. ToSet(batch) \union ToSet(buf) = {} /\ <<>> \in Seq(Nat)
        BY <1>2, <1>4, ToSetEmpty, EmptySeq
    <2>3. /\ Fences' = [c \in Clients |->
                  IF Fences[c] = "waiting" /\ ToSet(Wants[c]) \subseteq ToSet(<<>>)
                  THEN "granted" ELSE Fences[c]]
          /\ UNCHANGED Wants
        BY <1>1, <1>2, <2>1, <2>2, ResolveGrants
    <2>4. \A c \in Clients : Fences[c] # "waiting"
        BY <1>1, <1>2, <2>2, FenceOf DEF Waiting
    <2>5. \A c \in Clients : Fences'[c] = Fences[c]
        BY <2>3, <2>4
    <2> QED
        BY <1>2, <1>3, <2>3, <2>5, SameFences DEF Log!log
<1>5. CASE buf # <<>>
    <2>1. UNCHANGED <<pc, target, own>>
        BY <1>5 DEF FlushTake, client
    <2> QED
        BY <1>2, <1>3, <2>1 DEF Log!log, Fences, Wants
<1> QED
    BY <1>4, <1>5

\* Every step of the machinery is a step of the log a saga sees, or none.
LEMMA StepImplements ==
    ASSUME RefInv, [Next]_vars
    PROVE  [policy = "DROP_SILENT" \/ Log!LogNext(Clients, 1..MaxSeq)]_(Log!log)
<1>1. TypeOK /\ IInv /\ Unfenced
    BY DEF RefInv, IInv
<1>2. ASSUME NEW c \in Clients, ClientStep(c)
      PROVE  \/ policy = "DROP_SILENT"
             \/ Log!LogNext(Clients, 1..MaxSeq)
             \/ UNCHANGED Log!log
    BY <1>1, <1>2, ClientImplements
<1>3. CASE FlushTake
    BY <1>1, <1>3, TakeStutters
<1>4. CASE FlushAnswer
    BY <1>1, <1>4, FlushImplements
<1>5. CASE Join
    BY <1>1, <1>5, JoinImplements
<1>6. CASE CloseBegin \/ CloseEnd \/ CloseCancel \/ UNCHANGED vars
    <2>1. UNCHANGED <<buf, batch, disk, pc, target, own>>
        BY <1>6 DEF CloseBegin, CloseEnd, CloseCancel, vars, memory, flush,
                    storage, client
    <2> QED
        BY <2>1 DEF Log!log, Queue, Fences, Wants
<1> QED
    BY <1>2, <1>3, <1>4, <1>5, <1>6 DEF Next

\* A client that goes on is told to be idle, and owns no fence.
LEMMA UnfencedStep ==
    ASSUME TypeOK, Unfenced, [Next]_vars
    PROVE  Unfenced'
<1>1. ASSUME NEW c \in Clients, NEW what, NEW t, NEW mine, Tell(c, what, t, mine),
             what = "idle" => mine = FALSE
      PROVE  Unfenced'
    BY <1>1 DEF Tell, TypeOK, Unfenced
<1>2. ASSUME \A c \in Clients : pc'[c] = "idle" => pc[c] = "idle", UNCHANGED own
      PROVE  Unfenced'
    BY <1>2 DEF Unfenced
<1>3. ASSUME NEW c \in Clients, ClientStep(c) PROVE Unfenced'
    <2>1. CASE AppendRecord(c)
        BY <1>2, <2>1 DEF AppendRecord, client
    <2>2. CASE FencedAppend(c)
        BY <1>1, <2>2 DEF FencedAppend
    <2>3. CASE Backpressure(c) \/ DropRecord(c) \/ Resume(c)
        BY <1>1, <2>3 DEF Backpressure, DropRecord, Resume
    <2>4. ASSUME NEW t \in 1..seq, Fence(c, t) PROVE Unfenced'
        BY <1>1, <2>4 DEF Fence
    <2>5. CASE FenceTimeout(c)
        BY <1>2, <2>5 DEF FenceTimeout, TypeOK
    <2> QED
        BY <1>3, <2>1, <2>2, <2>3, <2>4, <2>5 DEF ClientStep
<1>4. ASSUME NEW d, Resolve(d) PROVE Unfenced'
    BY <1>2, <1>4 DEF Resolve
<1>5. CASE FlushTake
    BY <1>2, <1>4, <1>5 DEF FlushTake, client
<1>6. CASE FlushAnswer
    <2>1. ASSUME FailWaiters PROVE Unfenced'
        BY <1>2, <2>1 DEF FailWaiters
    <2> QED
        BY <1>4, <1>6, <2>1 DEF FlushAnswer, FlushOk, FlushFail
<1>7. CASE Join
    BY <1>2, <1>4, <1>7 DEF Join, JoinFlushed, JoinUnflushed, client
<1>8. CASE CloseBegin \/ CloseEnd \/ CloseCancel \/ UNCHANGED vars
    BY <1>2, <1>8 DEF CloseBegin, CloseEnd, CloseCancel, vars, client
<1> QED
    BY <1>3, <1>5, <1>6, <1>7, <1>8 DEF Next

-----------------------------------------------------------------------------
(* The theorem                                                              *)

\* The log of wal/base.py keeps the promises its sagas are checked against:
\* records leave the queue from the front and in one piece, a fence of one's own
\* is granted exactly with the batch that holds its record, a rejected batch
\* refuses every fence that waits.
THEOREM LogImplemented == Spec => ImplementsLogSink
<1>1. Init => RefInv /\ Log!LogInit(Clients)
    <2> SUFFICES ASSUME Init PROVE RefInv /\ Log!LogInit(Clients)
        OBVIOUS
    <2>1. IInv /\ Unfenced
        BY InitIInv DEF Init, Unfenced
    <2>2. Queue = <<>> /\ disk = <<>>
        BY <2>1, QueueRest DEF Init, IInv
    <2>3. /\ Fences = [c \in Clients |-> "none"]
          /\ Wants = [c \in Clients |-> <<>>]
        BY DEF Init, Fences, Wants
    <2> QED
        BY <2>1, <2>2, <2>3 DEF RefInv, Log!LogInit
<1>2. RefInv /\ [Next]_vars => RefInv'
    <2> SUFFICES ASSUME RefInv, [Next]_vars PROVE RefInv'
        OBVIOUS
    <2>1. IInv'
        BY IInvStep DEF RefInv
    <2>2. Unfenced'
        BY UnfencedStep DEF RefInv, IInv
    <2> QED
        BY <2>1, <2>2 DEF RefInv
<1>3. RefInv /\ [Next]_vars
          => [policy = "DROP_SILENT" \/ Log!LogNext(Clients, 1..MaxSeq)]_(Log!log)
    BY StepImplements
<1> QED
    BY <1>1, <1>2, <1>3, PTL DEF Spec, ImplementsLogSink
=============================================================================
