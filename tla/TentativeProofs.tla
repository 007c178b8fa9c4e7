--------------------------- MODULE TentativeProofs ---------------------------
(***************************************************************************)
(* What becomes of tentative resources, for any number of them and any way *)
(* of reverting them: whatever the log rejects, whichever callback raises  *)
(* and whenever the process dies.                                          *)
(***************************************************************************)
EXTENDS Tentative, SequenceTheorems, TLAPS

-----------------------------------------------------------------------------
(* The records of a log, and of a part of a batch                           *)

\* ToSet by positions.
LEMMA ToSetDef ==
    ASSUME NEW S, NEW s \in Seq(S)
    PROVE  ToSet(s) = {s[i] : i \in 1..Len(s)} /\ ToSet(s) \subseteq S
BY DEF ToSet

LEMMA ToSetEmpty == ToSet(<<>>) = {}
BY DEF ToSet

LEMMA ToSetAppend ==
    ASSUME NEW S, NEW s \in Seq(S), NEW e \in S
    PROVE  ToSet(Append(s, e)) = ToSet(s) \union {e}
<1> DEFINE t == Append(s, e)
<1>1. t \in Seq(S) /\ Len(t) = Len(s) + 1 /\ t[Len(s) + 1] = e
      /\ \A i \in 1..Len(s) : t[i] = s[i]
    BY AppendProperties
<1>2. ToSet(t) = {t[i] : i \in 1..Len(t)} /\ ToSet(s) = {s[i] : i \in 1..Len(s)}
    BY <1>1, ToSetDef
<1>3. \A x : x \in ToSet(t) <=> x \in ToSet(s) \/ x = e
    BY <1>1, <1>2
<1> QED
    BY <1>3

LEMMA ToSetConcat ==
    ASSUME NEW S, NEW s \in Seq(S), NEW t \in Seq(S)
    PROVE  ToSet(s \o t) = ToSet(s) \union ToSet(t)
<1> DEFINE u == s \o t
<1>1. u \in Seq(S) /\ Len(u) = Len(s) + Len(t)
      /\ \A i \in 1..(Len(s) + Len(t)) :
            u[i] = IF i <= Len(s) THEN s[i] ELSE t[i - Len(s)]
    BY ConcatProperties
<1>2. /\ ToSet(u) = {u[i] : i \in 1..Len(u)}
      /\ ToSet(s) = {s[i] : i \in 1..Len(s)}
      /\ ToSet(t) = {t[i] : i \in 1..Len(t)}
    BY <1>1, ToSetDef
<1>3. ASSUME NEW x \in ToSet(u) PROVE x \in ToSet(s) \union ToSet(t)
    <2>1. PICK i \in 1..Len(u) : x = u[i]
        BY <1>2
    <2>2. CASE i <= Len(s)
        BY <1>1, <1>2, <2>1, <2>2
    <2>3. CASE i > Len(s)
        <3>1. i - Len(s) \in 1..Len(t) /\ x = t[i - Len(s)]
            BY <1>1, <2>1, <2>3
        <3> QED
            BY <1>2, <3>1
    <2> QED
        BY <2>2, <2>3
<1>4. ASSUME NEW x \in ToSet(s) PROVE x \in ToSet(u)
    <2>1. PICK i \in 1..Len(s) : x = s[i]
        BY <1>2
    <2>2. i \in 1..Len(u) /\ u[i] = x
        BY <1>1, <2>1
    <2> QED
        BY <1>2, <2>2
<1>5. ASSUME NEW x \in ToSet(t) PROVE x \in ToSet(u)
    <2>1. PICK i \in 1..Len(t) : x = t[i]
        BY <1>2
    <2>2. i + Len(s) \in 1..Len(u) /\ u[i + Len(s)] = x
        BY <1>1, <2>1
    <2> QED
        BY <1>2, <2>2
<1> QED
    BY <1>3, <1>4, <1>5

\* A batch torn by a failed write is a prefix of the batch.
LEMMA PrefixProperties ==
    ASSUME NEW S, NEW s \in Seq(S), NEW k \in 0..Len(s)
    PROVE  /\ SubSeq(s, 1, k) \in Seq(S)
           /\ Len(SubSeq(s, 1, k)) = k
           /\ \A i \in 1..k : SubSeq(s, 1, k)[i] = s[i]
           /\ ToSet(SubSeq(s, 1, k)) \subseteq ToSet(s)
<1> DEFINE p == SubSeq(s, 1, k)
<1>1. p \in Seq(S) /\ Len(p) = k /\ \A i \in 1..k : p[i] = s[i]
    <2>1. \A i \in 1..k : s[i] \in S
        OBVIOUS
    <2>2. /\ p \in Seq(S)
          /\ Len(p) = IF 1 <= k THEN k - 1 + 1 ELSE 0
          /\ \A i \in 1..(k - 1 + 1) : p[i] = s[1 + i - 1]
        BY <2>1, SubSeqProperties
    <2> QED
        BY <2>2
<1>2. ToSet(p) = {p[i] : i \in 1..k} /\ ToSet(s) = {s[i] : i \in 1..Len(s)}
    BY <1>1, ToSetDef
<1>3. ToSet(p) \subseteq ToSet(s)
    BY <1>1, <1>2
<1> QED
    BY <1>1, <1>3

\* What a flush takes from the front of the queue, and what it leaves there.
LEMMA SuffixProperties ==
    ASSUME NEW S, NEW s \in Seq(S), NEW k \in 0..Len(s)
    PROVE  /\ SubSeq(s, k + 1, Len(s)) \in Seq(S)
           /\ Len(SubSeq(s, k + 1, Len(s))) = Len(s) - k
           /\ \A i \in 1..(Len(s) - k) : SubSeq(s, k + 1, Len(s))[i] = s[k + i]
<1>1. \A i \in (k + 1)..Len(s) : s[i] \in S
    OBVIOUS
<1>2. k + 1 \in Int /\ Len(s) \in Int
    OBVIOUS
<1> QED
    BY <1>1, <1>2, SubSeqProperties

-----------------------------------------------------------------------------
(* The inductive invariant                                                  *)

Events == {"SAGA_START", "TENTATIVE_REGISTERED", "TENTATIVE_RESOLVED",
           "TENTATIVE_UNRESOLVED", "ROLLBACK_START", "ROLLBACK_END",
           "SAGA_COMPLETE", "SAGA_ABORTED"}

Records == [ev : Events, res : {<<>>} \union {<<r>> : r \in Resources}]

Places == {"new", "beginning", "unbegun", "body", "registering", "confirm", "revert",
           "recheck", "confirming", "reverting", "rolledback", "completing", "aborting",
           "completed", "aborted", "escaped", "unfinished", "dead"}

Statuses == {"none", "PENDING", "COMMITTED", "ROLLED_BACK"}

Counts == [commit : Nat, rollback : Nat, daemon : Nat]

LogTypeOK ==
    /\ buf \in Seq(Records) /\ disk \in Seq(Records)
    /\ fence \in [{0} -> FenceStates]
    /\ want \in [{0} -> {<<>>} \union {<<x>> : x \in Records}]

SagaTypeOK ==
    /\ pc \in Places /\ heartbeat \in BOOLEAN
    /\ tentatives \in Seq(Resources) /\ next \in Nat \ {0}
    /\ status \in [Resources -> Statuses]
    /\ calls \in [Resources -> Counts]
    /\ failed \subseteq Resources /\ spoiled \in BOOLEAN
    /\ at \in {"idle", "working", "calling", "journalling"}

TypeOK == LogTypeOK /\ SagaTypeOK

\* The record that closes the saga, and where its boundary waits for it.
Closing == [completing |-> Rec("SAGA_COMPLETE"), aborting |-> Rec("SAGA_ABORTED"),
            rolledback |-> Rec("ROLLBACK_END")]

\* A granted fence means that the record it waits for is on disk, and the boundary
\* waits for the record that closes the saga.
FenceHonest ==
    /\ fence[0] = "granted" => ToSet(want[0]) \subseteq ToSet(disk)
    /\ \A p \in DOMAIN Closing : pc = p => want[0] = <<Closing[p]>>

\* What the agent was told is on disk.
ToldOnDisk ==
    /\ pc = "completed" => "SAGA_COMPLETE" \in Ended
    /\ pc = "aborted" => "SAGA_ABORTED" \in Ended
    /\ pc \in {"recheck", "aborting", "aborted"} => "ROLLBACK_END" \in Ended

\* The records that tell the outcome, and where the saga stands once they are queued.
Final == [completing |-> "SAGA_COMPLETE", aborting |-> "SAGA_ABORTED"]

Over == {"unfinished", "dead"}

\* The record that tells the outcome is queued once, behind everything else.
QueuedLast ==
    /\ \A p \in DOMAIN Final : pc \notin {p, Told[p]} \union Over =>
          Rec(Final[p]) \notin ToSet(buf)
    /\ pc \in DOMAIN Final /\ fence[0] = "waiting" =>
          /\ buf # <<>> /\ buf[Len(buf)] = Rec(Final[pc])
          /\ \A i \in 1..(Len(buf) - 1) : buf[i] # Rec(Final[pc])

Unresolvable(r) == ResRec("TENTATIVE_UNRESOLVED", r)

\* A callback that raised is queued or on disk, and on disk once the record behind
\* it is.
OnRecord ==
    ~spoiled /\ pc \notin {"escaped"} \union Over => \A r \in failed :
        /\ Unresolvable(r) \in ToSet(buf) \union ToSet(disk)
        /\ pc \in {"completed", "aborted"}
             \/ (pc \in DOMAIN Final /\ fence[0] = "granted") =>
                Unresolvable(r) \in ToSet(disk)

LogInv == FenceHonest /\ ToldOnDisk /\ QueuedLast /\ OnRecord

\* No boundary has both confirmed and reverted, up to where it cannot go on.
Confirming == {"confirm", "confirming", "completing", "completed"}
Reverting == {"revert", "reverting", "rolledback", "recheck", "aborting", "aborted"}
Before == {"new", "beginning", "unbegun", "body", "registering"}

\* One callback of a resource runs, and it is the one its status names.
CalledOnce(r) ==
    /\ status[r] \in {"none", "PENDING"} => calls[r].commit = 0 /\ calls[r].rollback = 0
    /\ status[r] = "COMMITTED" => calls[r].rollback = 0
    /\ status[r] = "ROLLED_BACK" => calls[r].commit = 0
    /\ calls[r].commit <= 1 /\ calls[r].rollback <= 1
    /\ pc \in Before \union Confirming => status[r] # "ROLLED_BACK"
    /\ pc \in Before \union Reverting => status[r] # "COMMITTED"

Callbacks ==
    /\ \A r \in Resources : CalledOnce(r)
    /\ pc \in {"confirming", "reverting"} =>
          /\ next <= Len(tentatives)
          /\ status[Considered] = IF pc = "confirming" THEN "COMMITTED" ELSE "ROLLED_BACK"
          /\ calls[Considered].commit = 0 /\ calls[Considered].rollback = 0

IInv == TypeOK /\ LogInv /\ Callbacks

\* While the saga is alive, and after the agent was told, no daemon touches it.
Untouched ==
    pc \notin Over => at = "idle" /\ \A r \in Resources : calls[r].daemon = 0

-----------------------------------------------------------------------------
(* The log                                                                  *)

LEMMA RecordTypes ==
    /\ \A ev \in Events : Rec(ev) \in Records /\ Rec(ev).ev = ev
    /\ \A ev \in Events, r \in Resources : ResRec(ev, r) \in Records /\ ResRec(ev, r).ev = ev
    /\ \A ev, ev2 \in Events : ev # ev2 => Rec(ev) # Rec(ev2)
    /\ \A ev, ev2 \in Events, r \in Resources : ev # ev2 => ResRec(ev, r) # Rec(ev2)
<1>1. \A ev \in Events : Rec(ev) \in Records /\ Rec(ev).ev = ev
    BY DEF Rec, Records
<1>2. \A ev \in Events, r \in Resources : ResRec(ev, r) \in Records /\ ResRec(ev, r).ev = ev
    BY DEF ResRec, Records
<1> QED
    BY <1>1, <1>2

LEMMA ToSetOne == \A x : ToSet(<<x>>) = {x}
BY DEF ToSet

\* append() puts a record behind the others.
LEMMA Queues ==
    ASSUME TypeOK, NEW r \in Records, buf' = Append(buf, r)
    PROVE  /\ buf' \in Seq(Records) /\ ToSet(buf') = ToSet(buf) \union {r}
           /\ Len(buf') = Len(buf) + 1 /\ buf'[Len(buf) + 1] = r
           /\ \A i \in 1..Len(buf) : buf'[i] = buf[i] /\ buf[i] \in ToSet(buf)
<1>1. buf \in Seq(Records)
    BY DEF TypeOK, LogTypeOK, SagaTypeOK
<1>2. ToSet(Append(buf, r)) = ToSet(buf) \union {r}
    BY <1>1, ToSetAppend
<1>3. /\ Append(buf, r) \in Seq(Records) /\ Len(Append(buf, r)) = Len(buf) + 1
      /\ Append(buf, r)[Len(buf) + 1] = r
      /\ \A i \in 1..Len(buf) : Append(buf, r)[i] = buf[i]
    BY <1>1, AppendProperties
<1>4. \A i \in 1..Len(buf) : buf[i] \in ToSet(buf)
    BY <1>1, ToSetDef
<1> QED
    BY <1>2, <1>3, <1>4

\* What reaches the file stays in it.
LEMMA DiskGrows ==
    ASSUME TypeOK, NEW j \in 0..Len(buf), disk' = disk \o SubSeq(buf, 1, j)
    PROVE  /\ disk' \in Seq(Records) /\ ToSet(disk) \subseteq ToSet(disk')
           /\ ToSet(disk') = ToSet(disk) \union ToSet(SubSeq(buf, 1, j))
           /\ Ended \subseteq Ended'
<1>1. buf \in Seq(Records) /\ disk \in Seq(Records)
    BY DEF TypeOK, LogTypeOK, SagaTypeOK
<1>2. SubSeq(buf, 1, j) \in Seq(Records)
    BY <1>1, PrefixProperties
<1>3. ToSet(disk \o SubSeq(buf, 1, j)) = ToSet(disk) \union ToSet(SubSeq(buf, 1, j))
    BY <1>1, <1>2, ToSetConcat
<1>4. disk \o SubSeq(buf, 1, j) \in Seq(Records)
    BY <1>1, <1>2, ConcatProperties
<1>5. ToSet(disk) \subseteq ToSet(disk')
    BY <1>3
<1>6. Ended \subseteq Ended'
    BY <1>5 DEF Ended
<1> QED
    BY <1>3, <1>4, <1>5, <1>6

\* A batch is the front of the queue, and what is behind it stays.
LEMMA BatchSplits ==
    ASSUME TypeOK, NEW k \in 0..Len(buf), buf' = SubSeq(buf, k + 1, Len(buf))
    PROVE  /\ buf' \in Seq(Records) /\ Len(buf') = Len(buf) - k
           /\ \A i \in 1..(Len(buf) - k) : buf'[i] = buf[k + i]
           /\ ToSet(buf') \subseteq ToSet(buf)
           /\ ToSet(buf) \subseteq ToSet(SubSeq(buf, 1, k)) \union ToSet(buf')
           /\ \A x \in ToSet(SubSeq(buf, 1, k)) : \E i \in 1..k : x = buf[i]
<1>1. buf \in Seq(Records)
    BY DEF TypeOK, LogTypeOK, SagaTypeOK
<1>2. /\ buf' \in Seq(Records) /\ Len(buf') = Len(buf) - k
      /\ \A i \in 1..(Len(buf) - k) : buf'[i] = buf[k + i]
    BY <1>1, SuffixProperties
<1>3. /\ SubSeq(buf, 1, k) \in Seq(Records) /\ Len(SubSeq(buf, 1, k)) = k
      /\ \A i \in 1..k : SubSeq(buf, 1, k)[i] = buf[i]
    BY <1>1, PrefixProperties
<1>4. /\ ToSet(buf) = {buf[i] : i \in 1..Len(buf)}
      /\ ToSet(buf') = {buf'[i] : i \in 1..Len(buf')}
      /\ ToSet(SubSeq(buf, 1, k)) = {SubSeq(buf, 1, k)[i] : i \in 1..k}
    <2>1. ToSet(buf) = {buf[i] : i \in 1..Len(buf)}
        BY <1>1, ToSetDef
    <2>2. PICK u \in Seq(Records) : u = buf'
        BY <1>2
    <2>6. ToSet(u) = {u[i] : i \in 1..Len(u)}
        BY ToSetDef
    <2>3. PICK t \in Seq(Records) : t = SubSeq(buf, 1, k)
        BY <1>3
    <2>4. ToSet(t) = {t[i] : i \in 1..Len(t)}
        BY ToSetDef
    <2>5. ToSet(t) = {t[i] : i \in 1..k}
        BY <1>3, <2>3, <2>4
    <2> QED
        BY <2>1, <2>2, <2>6, <2>3, <2>5
<1>5. ASSUME NEW x \in ToSet(buf') PROVE x \in ToSet(buf)
    <2>1. PICK i \in 1..(Len(buf) - k) : x = buf[k + i]
        BY <1>2, <1>4
    <2>2. k + i \in 1..Len(buf)
        BY <1>1, <2>1
    <2> QED
        BY <1>4, <2>1, <2>2
<1>6. ASSUME NEW x \in ToSet(buf) PROVE x \in ToSet(SubSeq(buf, 1, k)) \union ToSet(buf')
    <2>1. PICK i \in 1..Len(buf) : x = buf[i]
        BY <1>4
    <2>2. CASE i <= k
        BY <1>3, <1>4, <2>1, <2>2
    <2>3. CASE i > k
        <3>1. i - k \in 1..(Len(buf) - k) /\ k + (i - k) = i
            BY <1>1, <2>3
        <3>2. buf'[i - k] = x
            BY <1>2, <2>1, <3>1
        <3> QED
            BY <1>2, <1>4, <3>1, <3>2
    <2> QED
        BY <1>1, <2>2, <2>3
<1> QED
    BY <1>2, <1>3, <1>4, <1>5, <1>6

-----------------------------------------------------------------------------
(* The saga                                                                 *)

\* Where the boundary stands, and what it waits for, while the log is left alone.
LEMMA QuietLog ==
    ASSUME IInv, UNCHANGED log, UNCHANGED <<failed, spoiled>>, pc' \in Places,
           \A p \in DOMAIN Closing \union {"completed", "aborted", "recheck"} : pc' = p => pc = p,
           pc' \in {"escaped"} \union Over \/ pc \notin {"escaped"} \union Over,
           pc \in Over => pc' \in Over,
           pc \in {"completed", "aborted"} => pc' \in {pc} \union Over,
           pc \in DOMAIN Final => pc' \in {pc} \union Over
    PROVE  LogInv'
<1> USE DEF IInv, log, Closing, Final, Over, Told, Ended
<1>1. FenceHonest'
    BY DEF LogInv, FenceHonest
<1>2. ToldOnDisk'
    BY DEF LogInv, ToldOnDisk
<1>3. QueuedLast'
    BY DEF LogInv, QueuedLast
<1>4. OnRecord'
    BY DEF LogInv, OnRecord
<1> QED
    BY <1>1, <1>2, <1>3, <1>4 DEF LogInv

\* A record queued without a fence: by a registration, or at a callback that ended.
LEMMA EnqueueLog ==
    ASSUME IInv, NEW r \in Records, Enqueue(r), r.ev \notin {"SAGA_COMPLETE", "SAGA_ABORTED"},
           pc \in {"body", "confirming", "reverting"}, pc' \in {"body", "confirm", "revert"},
           spoiled' = spoiled,
           \A x \in failed' : x \in failed \/ r = Unresolvable(x)
    PROVE  LogInv'
<1>0. TypeOK /\ FenceHonest /\ ToldOnDisk /\ QueuedLast /\ OnRecord
    BY DEF IInv, LogInv
<1>1. ToSet(buf') = ToSet(buf) \union {r} /\ disk' = disk /\ fence' = fence /\ want' = want
    BY <1>0, Queues DEF Enqueue
<1>2. FenceHonest'
    BY <1>0, <1>1 DEF FenceHonest, Closing
<1>3. ToldOnDisk'
    BY DEF ToldOnDisk
<1>4. QueuedLast'
    <2>1. r # Rec("SAGA_COMPLETE") /\ r # Rec("SAGA_ABORTED")
        BY DEF Rec
    <2> QED
        BY <1>0, <1>1, <2>1 DEF QueuedLast, Final, Told, Over
<1>5. OnRecord'
    BY <1>0, <1>1 DEF OnRecord, Over, Final
<1> QED
    BY <1>2, <1>3, <1>4, <1>5 DEF LogInv

Fenced == [new |-> "beginning", body |-> "registering", confirm |-> "completing",
           revert |-> "rolledback", recheck |-> "aborting"]

\* A record queued with a fence: none but the last of the saga is queued behind it.
LEMMA FencedLog ==
    ASSUME IInv, NEW r \in Records, EnqueueFenced(0, r),
           pc \in DOMAIN Fenced, pc' = Fenced[pc], UNCHANGED <<spoiled, failed>>,
           \A p \in DOMAIN Closing : pc' = p => r = Closing[p],
           pc' \notin DOMAIN Closing => r.ev \notin {"SAGA_COMPLETE", "SAGA_ABORTED"}
    PROVE  LogInv'
<1>0. TypeOK /\ FenceHonest /\ ToldOnDisk /\ QueuedLast /\ OnRecord
    BY DEF IInv, LogInv
<1>1. /\ buf' \in Seq(Records) /\ ToSet(buf') = ToSet(buf) \union {r}
      /\ Len(buf') = Len(buf) + 1 /\ buf'[Len(buf) + 1] = r
      /\ \A i \in 1..Len(buf) : buf'[i] = buf[i] /\ buf[i] \in ToSet(buf)
    BY <1>0, Queues DEF EnqueueFenced
<1>2. disk' = disk /\ fence'[0] = "waiting" /\ want'[0] = <<r>>
    BY <1>0 DEF EnqueueFenced, TypeOK, LogTypeOK, SagaTypeOK
<1>3. FenceHonest'
    BY <1>0, <1>1, <1>2 DEF FenceHonest
<1>4. ToldOnDisk'
    BY <1>0, <1>2 DEF ToldOnDisk, Fenced, Ended
<1>5. QueuedLast'
    <2>1. /\ pc' # "completing" => r # Rec("SAGA_COMPLETE")
          /\ pc' # "aborting" => r # Rec("SAGA_ABORTED")
        BY DEF Closing, Rec, Fenced
    <2>2. \A p \in DOMAIN Final : pc' \notin {p, Told[p]} \union Over =>
              Rec(Final[p]) \notin ToSet(buf')
        BY <1>0, <1>1, <2>1 DEF QueuedLast, Final, Told, Over, Fenced
    <2>3. ASSUME pc' \in DOMAIN Final
          PROVE  /\ buf' # <<>> /\ buf'[Len(buf')] = Rec(Final[pc'])
                 /\ \A i \in 1..(Len(buf') - 1) : buf'[i] # Rec(Final[pc'])
        <3>1. r = Rec(Final[pc'])
            BY <2>3 DEF Final, Closing
        <3>2. Rec(Final[pc']) \notin ToSet(buf)
            BY <1>0, <2>3 DEF QueuedLast, Final, Told, Over, Fenced
        <3>3. Len(buf) \in Nat
            BY <1>0 DEF TypeOK, LogTypeOK, SagaTypeOK
        <3> QED
            BY <1>1, <3>1, <3>2, <3>3
    <2> QED
        BY <2>2, <2>3 DEF QueuedLast
<1>6. OnRecord'
    BY <1>0, <1>1, <1>2 DEF OnRecord, Over, Final, Fenced
<1> QED
    BY <1>3, <1>4, <1>5, <1>6 DEF LogInv

\* A fence answers: what the agent is told then is on disk.
LEMMA AnsweredLog ==
    ASSUME IInv, NEW answer, Answered(0, answer), UNCHANGED <<spoiled, failed>>,
           \/ pc = "beginning" /\ pc' \in {"body", "unbegun"}
           \/ pc = "registering" /\ pc' = "body"
           \/ pc = "rolledback" /\ answer = "granted" /\ pc' = "recheck"
           \/ pc = "rolledback" /\ pc' = "escaped"
           \/ pc \in DOMAIN Told /\ answer = "granted" /\ pc' = Told[pc]
           \/ pc \in DOMAIN Told /\ pc' = "unfinished"
    PROVE  LogInv'
<1>0. TypeOK /\ FenceHonest /\ ToldOnDisk /\ QueuedLast /\ OnRecord
    BY DEF IInv, LogInv
<1>1. /\ buf' = buf /\ disk' = disk /\ fence[0] = answer
      /\ fence'[0] = "none" /\ want'[0] = <<>>
    BY <1>0 DEF Answered, TypeOK, LogTypeOK, SagaTypeOK
<1>2. FenceHonest'
    BY <1>0, <1>1 DEF FenceHonest, Closing, Told
<1>3. ToldOnDisk'
    <2>1. ASSUME NEW p \in DOMAIN Closing, pc = p, answer = "granted"
          PROVE  Closing[p].ev \in Ended
        <3>1. want[0] = <<Closing[p]>> /\ ToSet(want[0]) \subseteq ToSet(disk)
            BY <1>0, <1>1, <2>1 DEF FenceHonest
        <3>2. Closing[p] \in ToSet(disk)
            BY <3>1, ToSetOne
        <3> QED
            BY <3>2 DEF Ended
    <2>2. /\ pc = "completing" /\ answer = "granted" => "SAGA_COMPLETE" \in Ended
          /\ pc = "aborting" /\ answer = "granted" => "SAGA_ABORTED" \in Ended
          /\ pc = "rolledback" /\ answer = "granted" => "ROLLBACK_END" \in Ended
        BY <2>1 DEF Closing, Rec
    <2> QED
        BY <1>0, <1>1, <2>2 DEF ToldOnDisk, Told, Ended
<1>4. QueuedLast'
    BY <1>0, <1>1 DEF QueuedLast, Final, Told, Over
<1>5. OnRecord'
    BY <1>0, <1>1 DEF OnRecord, Over, Final, Told
<1> QED
    BY <1>2, <1>3, <1>4, <1>5 DEF LogInv

\* The flush loop, what it is refused and a fence that times out.
LEMMA LogWorksKeeps ==
    ASSUME IInv, LogWorks
    PROVE  IInv'
<1>0. TypeOK /\ FenceHonest /\ ToldOnDisk /\ QueuedLast /\ OnRecord /\ Callbacks
    BY DEF IInv, LogInv
<1>1. /\ UNCHANGED <<saga, calls, failed, daemon>>
      /\ UNCHANGED pc /\ UNCHANGED want
    BY DEF LogWorks, saga, Persist, Reject, Stall
<1>2. Callbacks'
    BY <1>0, <1>1 DEF Callbacks, CalledOnce, Considered, saga
<1> SUFFICES TypeOK' /\ LogInv'
    BY <1>2 DEF IInv
<1>3. ASSUME NEW k \in 1..Len(buf), Persist(k), UNCHANGED spoiled
      PROVE  TypeOK' /\ LogInv'
    <2> DEFINE batch == SubSeq(buf, 1, k)
    <2>1. /\ disk' = disk \o batch /\ buf' = SubSeq(buf, k + 1, Len(buf))
          /\ fence' = [f \in DOMAIN fence |->
                          IF fence[f] = "waiting" /\ ToSet(want[f]) \subseteq ToSet(batch)
                          THEN "granted" ELSE fence[f]]
        BY <1>3 DEF Persist
    <2>2. k \in 0..Len(buf) /\ Len(buf) \in Nat
        BY <1>0 DEF TypeOK, LogTypeOK, SagaTypeOK
    <2>3. /\ disk' \in Seq(Records) /\ ToSet(disk) \subseteq ToSet(disk')
          /\ ToSet(disk') = ToSet(disk) \union ToSet(batch)
          /\ Ended \subseteq Ended'
        BY <1>0, <2>1, <2>2, DiskGrows
    <2>4. /\ buf' \in Seq(Records) /\ Len(buf') = Len(buf) - k
          /\ \A i \in 1..(Len(buf) - k) : buf'[i] = buf[k + i]
          /\ ToSet(buf') \subseteq ToSet(buf)
          /\ ToSet(buf) \subseteq ToSet(batch) \union ToSet(buf')
          /\ \A x \in ToSet(batch) : \E i \in 1..k : x = buf[i]
        BY <1>0, <2>1, <2>2, BatchSplits
    <2> HIDE DEF batch
    <2>5. /\ fence'[0] = IF fence[0] = "waiting" /\ ToSet(want[0]) \subseteq ToSet(batch)
                         THEN "granted" ELSE fence[0]
          /\ fence' \in [{0} -> FenceStates]
        BY <1>0, <2>1 DEF TypeOK, LogTypeOK, SagaTypeOK, FenceStates
    <2>6. TypeOK'
        BY <1>0, <1>1, <1>3, <2>3, <2>4, <2>5 DEF TypeOK, LogTypeOK, SagaTypeOK, saga, daemon
    <2>7. FenceHonest'
        BY <1>0, <1>1, <2>3, <2>5 DEF FenceHonest
    <2>8. ToldOnDisk'
        BY <1>0, <1>1, <2>3 DEF ToldOnDisk
    \* The last record of the queue is in the batch only if all of it is.
    <2>9. ASSUME pc \in DOMAIN Final, fence[0] = "waiting"
          PROVE  /\ ToSet(want[0]) \subseteq ToSet(batch) => k = Len(buf)
                 /\ k = Len(buf) => ToSet(want[0]) \subseteq ToSet(batch)
        <3>1. /\ buf # <<>> /\ buf[Len(buf)] = Rec(Final[pc])
              /\ \A i \in 1..(Len(buf) - 1) : buf[i] # Rec(Final[pc])
            BY <1>0, <2>9 DEF QueuedLast
        <3>2. ToSet(want[0]) = {Rec(Final[pc])}
            <4>1. want[0] = <<Rec(Final[pc])>>
                BY <1>0, <2>9 DEF FenceHonest, Closing, Final
            <4> QED
                BY <4>1, ToSetOne
        <3>3. ASSUME Rec(Final[pc]) \in ToSet(batch) PROVE k = Len(buf)
            <4>1. PICK i \in 1..k : Rec(Final[pc]) = buf[i]
                BY <2>4, <3>3
            <4> QED
                BY <2>2, <3>1, <4>1
        <3>4. ASSUME k = Len(buf) PROVE Rec(Final[pc]) \in ToSet(batch)
            <4>1. batch = buf
                <5>1. buf \in Seq(Records)
                    BY <1>0 DEF TypeOK, LogTypeOK, SagaTypeOK
                <5>2. /\ batch \in Seq(Records) /\ Len(batch) = k
                      /\ \A i \in 1..k : batch[i] = buf[i]
                    BY <2>2, <5>1, PrefixProperties DEF batch
                <5> QED
                    BY <3>4, <5>1, <5>2
            <4>2. buf \in Seq(Records) /\ Len(buf) \in 1..Len(buf)
                BY <1>0, <2>2 DEF TypeOK, LogTypeOK, SagaTypeOK
            <4>3. ToSet(buf) = {buf[i] : i \in 1..Len(buf)}
                BY <4>2, ToSetDef
            <4> QED
                BY <3>1, <4>1, <4>2, <4>3
        <3> QED
            BY <3>2, <3>3, <3>4
    <2>10. QueuedLast'
        <3>1. \A p \in DOMAIN Final : pc' \notin {p, Told[p]} \union Over =>
                  Rec(Final[p]) \notin ToSet(buf')
            BY <1>0, <1>1, <2>4 DEF QueuedLast
        <3>2. ASSUME pc' \in DOMAIN Final, fence'[0] = "waiting"
              PROVE  /\ buf' # <<>> /\ buf'[Len(buf')] = Rec(Final[pc'])
                     /\ \A i \in 1..(Len(buf') - 1) : buf'[i] # Rec(Final[pc'])
            <4>1. pc \in DOMAIN Final /\ fence[0] = "waiting" /\ k # Len(buf) /\ pc' = pc
                BY <1>1, <2>5, <2>9, <3>2
            <4>2. /\ buf # <<>> /\ buf[Len(buf)] = Rec(Final[pc])
                  /\ \A i \in 1..(Len(buf) - 1) : buf[i] # Rec(Final[pc])
                BY <1>0, <4>1 DEF QueuedLast
            <4>3. Len(buf') \in 1..(Len(buf) - k) /\ k + Len(buf') = Len(buf)
                BY <2>2, <2>4, <4>1
            <4>4. buf' # <<>> /\ buf'[Len(buf')] = Rec(Final[pc])
                BY <2>4, <4>2, <4>3
            <4>5. ASSUME NEW i \in 1..(Len(buf') - 1) PROVE buf'[i] # Rec(Final[pc])
                <5>1. i \in 1..(Len(buf) - k) /\ k + i \in 1..(Len(buf) - 1)
                    BY <2>2, <2>4, <4>3
                <5> QED
                    BY <2>4, <4>2, <5>1
            <4> QED
                BY <4>1, <4>4, <4>5
        <3> QED
            BY <3>1, <3>2 DEF QueuedLast
    <2>11. OnRecord'
        <3>1. SUFFICES ASSUME ~spoiled', pc' \notin {"escaped"} \union Over, NEW r \in failed'
                       PROVE  /\ Unresolvable(r) \in ToSet(buf') \union ToSet(disk')
                              /\ pc' \in {"completed", "aborted"}
                                   \/ (pc' \in DOMAIN Final /\ fence'[0] = "granted") =>
                                      Unresolvable(r) \in ToSet(disk')
            BY DEF OnRecord
        <3>2. /\ Unresolvable(r) \in ToSet(buf) \union ToSet(disk)
              /\ pc \in {"completed", "aborted"}
                   \/ (pc \in DOMAIN Final /\ fence[0] = "granted") =>
                      Unresolvable(r) \in ToSet(disk)
            BY <1>0, <1>1, <1>3, <3>1 DEF OnRecord
        <3>3. ASSUME pc \in DOMAIN Final, fence[0] = "waiting", k = Len(buf)
              PROVE  Unresolvable(r) \in ToSet(disk')
            <4>1. Len(buf') = 0 /\ buf' \in Seq(Records)
                BY <2>2, <2>4, <3>3
            <4>2. ToSet(buf') = {}
                <5>1. buf' = <<>>
                    BY <4>1
                <5> QED
                    BY <5>1, ToSetEmpty
            <4> QED
                BY <2>3, <2>4, <3>2, <4>2
        <3> QED
            BY <1>1, <2>3, <2>4, <2>5, <2>9, <3>2, <3>3
    <2> QED
        BY <2>6, <2>7, <2>8, <2>10, <2>11 DEF LogInv
<1>4. ASSUME NEW k \in 1..Len(buf), NEW j \in 0..k, Reject(k, j), spoiled' = TRUE
      PROVE  TypeOK' /\ LogInv'
    <2>1. /\ disk' = disk \o SubSeq(buf, 1, j) /\ buf' = SubSeq(buf, k + 1, Len(buf))
          /\ fence' = [f \in DOMAIN fence |->
                          IF fence[f] = "waiting" THEN "refused" ELSE fence[f]]
        BY <1>4 DEF Reject
    <2>2. k \in 0..Len(buf) /\ j \in 0..Len(buf)
        BY <1>0, <1>4 DEF TypeOK, LogTypeOK, SagaTypeOK
    <2>3. /\ disk' \in Seq(Records) /\ ToSet(disk) \subseteq ToSet(disk')
          /\ Ended \subseteq Ended'
        BY <1>0, <2>1, <2>2, DiskGrows
    <2>4. buf' \in Seq(Records) /\ ToSet(buf') \subseteq ToSet(buf)
        BY <1>0, <2>1, <2>2, BatchSplits
    <2>5. /\ fence'[0] = IF fence[0] = "waiting" THEN "refused" ELSE fence[0]
          /\ fence' \in [{0} -> FenceStates]
        BY <1>0, <2>1 DEF TypeOK, LogTypeOK, SagaTypeOK, FenceStates
    <2>6. TypeOK'
        BY <1>0, <1>1, <1>4, <2>3, <2>4, <2>5 DEF TypeOK, LogTypeOK, SagaTypeOK, saga, daemon
    <2>7. FenceHonest' /\ ToldOnDisk'
        BY <1>0, <1>1, <2>3, <2>5 DEF FenceHonest, ToldOnDisk
    <2>8. QueuedLast'
        BY <1>0, <1>1, <2>4, <2>5 DEF QueuedLast
    <2> QED
        BY <1>4, <2>6, <2>7, <2>8 DEF LogInv, OnRecord
<1>5. ASSUME Stall(0), UNCHANGED spoiled
      PROVE  TypeOK' /\ LogInv'
    <2>1. /\ buf' = buf /\ disk' = disk /\ fence'[0] = "refused"
          /\ fence' \in [{0} -> FenceStates]
        BY <1>0, <1>5 DEF Stall, TypeOK, LogTypeOK, SagaTypeOK, FenceStates
    <2>2. TypeOK'
        BY <1>0, <1>1, <1>5, <2>1 DEF TypeOK, LogTypeOK, SagaTypeOK, saga, daemon
    <2>3. FenceHonest' /\ ToldOnDisk' /\ QueuedLast'
        BY <1>0, <1>1, <2>1 DEF FenceHonest, ToldOnDisk, QueuedLast, Ended
    <2>4. OnRecord'
        BY <1>0, <1>1, <1>5, <2>1 DEF OnRecord
    <2> QED
        BY <2>2, <2>3, <2>4 DEF LogInv
<1> QED
    BY <1>3, <1>4, <1>5 DEF LogWorks

-----------------------------------------------------------------------------
(* One step per action                                                      *)

\* What a saga's step leaves alone, but for the log and its own place.
LEMMA LogTypes ==
    ASSUME TypeOK, NEW r \in Records,
           Enqueue(r) \/ EnqueueFenced(0, r) \/ Answered(0, "granted")
           \/ Answered(0, "refused") \/ UNCHANGED log
    PROVE  LogTypeOK'
<1>1. CASE Enqueue(r)
    BY <1>1, Queues DEF TypeOK, LogTypeOK, Enqueue
<1>2. CASE EnqueueFenced(0, r)
    BY <1>2, Queues DEF TypeOK, LogTypeOK, EnqueueFenced, FenceStates
<1>3. CASE Answered(0, "granted") \/ Answered(0, "refused") \/ UNCHANGED log
    BY <1>3 DEF TypeOK, LogTypeOK, Answered, FenceStates, log
<1> QED
    BY <1>1, <1>2, <1>3

LEMMA OwnRecords ==
    /\ Rec("SAGA_START") \in Records /\ Rec("ROLLBACK_START") \in Records
    /\ Rec("ROLLBACK_END") \in Records /\ Rec("SAGA_COMPLETE") \in Records
    /\ Rec("SAGA_ABORTED") \in Records
    /\ \A r \in Resources : /\ ResRec("TENTATIVE_REGISTERED", r) \in Records
                            /\ ResRec("TENTATIVE_RESOLVED", r) \in Records
                            /\ ResRec("TENTATIVE_UNRESOLVED", r) \in Records
BY RecordTypes DEF Events

\* The steps that call nothing and settle nothing.
LEMMA CallbacksStay ==
    ASSUME IInv, UNCHANGED <<status, calls, tentatives>>,
           pc' \notin {"confirming", "reverting"},
           \/ pc' \notin Before \union Confirming \union Reverting
           \/ pc \in Before /\ pc' \in Before \union Confirming \union Reverting
           \/ pc \in Confirming /\ pc' \in Confirming
           \/ pc \in Reverting /\ pc' \in Reverting
    PROVE  Callbacks'
BY DEF IInv, Callbacks, CalledOnce, Before, Confirming, Reverting

LEMMA BeginKeeps == ASSUME IInv, Begin PROVE IInv'
<1>1. TypeOK'
    <2>1. LogTypeOK'
        BY OwnRecords, LogTypes DEF IInv, Begin
    <2>2. SagaTypeOK'
        BY DEF IInv, TypeOK, SagaTypeOK, daemon, Begin, Places
    <2> QED
        BY <2>1, <2>2 DEF TypeOK
<1>2. Callbacks'
    BY CallbacksStay DEF Begin, Before, Confirming, Reverting
<1>3. LogInv'
    <2>1. /\ EnqueueFenced(0, Rec("SAGA_START")) /\ pc \in DOMAIN Fenced
          /\ pc' = Fenced[pc] /\ UNCHANGED <<spoiled, failed>>
          /\ pc' \notin DOMAIN Closing
          /\ Rec("SAGA_START").ev \notin {"SAGA_COMPLETE", "SAGA_ABORTED"}
        BY DEF Begin, Fenced, Closing, Rec
    <2>2. \A p \in DOMAIN Closing : pc' = p => Rec("SAGA_START") = Closing[p]
        BY <2>1
    <2> QED
        BY <2>1, <2>2, OwnRecords, FencedLog
<1> QED
    BY <1>1, <1>2, <1>3 DEF IInv

LEMMA BegunKeeps == ASSUME IInv, Begun PROVE IInv'
<1>1. TypeOK'
    <2>1. LogTypeOK'
        BY OwnRecords, LogTypes DEF IInv, Begun
    <2>2. SagaTypeOK'
        BY DEF IInv, TypeOK, SagaTypeOK, daemon, Begun, Places
    <2> QED
        BY <2>1, <2>2 DEF TypeOK
<1>2. Callbacks'
    BY CallbacksStay DEF Begun, Before, Confirming, Reverting
<1>3. LogInv'
    BY AnsweredLog DEF Begun
<1> QED
    BY <1>1, <1>2, <1>3 DEF IInv

LEMMA RegisteredKeeps == ASSUME IInv, Registered PROVE IInv'
<1>1. TypeOK'
    <2>1. LogTypeOK'
        BY OwnRecords, LogTypes DEF IInv, Registered
    <2>2. SagaTypeOK'
        BY DEF IInv, TypeOK, SagaTypeOK, daemon, Registered, Places
    <2> QED
        BY <2>1, <2>2 DEF TypeOK
<1>2. Callbacks'
    BY CallbacksStay DEF Registered, Before, Confirming, Reverting
<1>3. LogInv'
    BY AnsweredLog DEF Registered
<1> QED
    BY <1>1, <1>2, <1>3 DEF IInv

LEMMA FinishedKeeps == ASSUME IInv, Finished PROVE IInv'
<1>1. TypeOK'
    <2>1. LogTypeOK'
        BY OwnRecords, LogTypes DEF IInv, Finished
    <2>2. SagaTypeOK'
        BY DEF IInv, TypeOK, SagaTypeOK, daemon, Finished, Told, Places
    <2> QED
        BY <2>1, <2>2 DEF TypeOK
<1>2. Callbacks'
    BY CallbacksStay DEF Finished, Told, Before, Confirming, Reverting
<1>3. LogInv'
    BY AnsweredLog DEF Finished
<1> QED
    BY <1>1, <1>2, <1>3 DEF IInv

LEMMA FinishAbortedKeeps == ASSUME IInv, FinishAborted PROVE IInv'
<1>1. TypeOK'
    <2>1. LogTypeOK'
        BY OwnRecords, LogTypes DEF IInv, FinishAborted
    <2>2. /\ heartbeat' \in BOOLEAN
          /\ pc' \in Places
          /\ next' \in Nat \ {0}
        <3>1. heartbeat' \in BOOLEAN
            BY DEF IInv, TypeOK, SagaTypeOK, FinishAborted
        <3>2. pc' \in Places
            BY DEF FinishAborted, Places
        <3>3. next' = 1
            BY DEF FinishAborted
        <3> QED
            BY <3>1, <3>2, <3>3
    <2>3. SagaTypeOK'
        BY <2>2 DEF IInv, TypeOK, SagaTypeOK, daemon, FinishAborted
    <2> QED
        BY <2>1, <2>3 DEF TypeOK
<1>2. Callbacks'
    BY CallbacksStay DEF FinishAborted, Before, Confirming, Reverting
<1>3. LogInv'
    BY AnsweredLog DEF FinishAborted
<1> QED
    BY <1>1, <1>2, <1>3 DEF IInv

LEMMA RegisterKeeps ==
    ASSUME IInv, NEW r \in Resources, NEW durable \in BOOLEAN, Register(r, durable)
    PROVE  IInv'
<1> DEFINE x == ResRec("TENTATIVE_REGISTERED", r)
<1>0. /\ x \in Records /\ x.ev \notin {"SAGA_COMPLETE", "SAGA_ABORTED"}
      /\ pc = "body" /\ status[r] = "none"
    BY OwnRecords DEF ResRec, Register
<1>1. /\ Enqueue(x) \/ EnqueueFenced(0, x) \/ UNCHANGED log
      /\ pc' \in {"body", "registering"}
    BY <1>0 DEF Register, Record, Thrown
<1>2. TypeOK'
    <2>1. LogTypeOK'
        BY <1>0, <1>1, LogTypes DEF IInv
    <2>2. Append(tentatives, r) \in Seq(Resources)
        BY AppendProperties DEF IInv, TypeOK, SagaTypeOK
    <2>3. SagaTypeOK'
        BY <1>1, <2>2 DEF IInv, TypeOK, SagaTypeOK, daemon, Register, Places, Statuses
    <2> QED
        BY <2>1, <2>3 DEF TypeOK
<1>3. Callbacks'
    BY <1>0, <1>1 DEF IInv, TypeOK, SagaTypeOK, Callbacks, CalledOnce, Register, Before, Confirming, Reverting
<1>4. LogInv'
    <2>0. UNCHANGED <<spoiled, failed>>
        BY DEF Register
    <2>1. CASE Enqueue(x) /\ pc' = "body"
        BY <1>0, <2>0, <2>1, EnqueueLog
    <2>2. CASE EnqueueFenced(0, x) /\ pc' = "registering"
        BY <1>0, <2>0, <2>2, FencedLog DEF Fenced, Closing
    <2>3. CASE UNCHANGED log /\ pc' = "body"
        BY <1>0, <2>0, <2>3, QuietLog DEF Closing, Over, Final, Places
    <2> QED
        BY <1>0, <2>1, <2>2, <2>3 DEF Register, Record, Thrown
<1> QED
    BY <1>2, <1>3, <1>4 DEF IInv

LEMMA FinishKeeps == ASSUME IInv, Finish PROVE IInv'
<1>1. TypeOK'
    <2>1. LogTypeOK'
        BY OwnRecords, LogTypes DEF IInv, Finish
    <2>2. SagaTypeOK'
        BY DEF IInv, TypeOK, SagaTypeOK, daemon, Finish, Places
    <2> QED
        BY <2>1, <2>2 DEF TypeOK
<1>2. Callbacks'
    BY CallbacksStay DEF Finish, Before, Confirming, Reverting
<1>3. LogInv'
    BY QuietLog DEF Finish, Closing, Over, Final, Places
<1> QED
    BY <1>1, <1>2, <1>3 DEF IInv

LEMMA AbortKeeps == ASSUME IInv, Abort PROVE IInv'
<1>1. TypeOK'
    <2>1. Enqueue(Rec("ROLLBACK_START")) \/ UNCHANGED log
        BY DEF Abort, Thrown
    <2>2. LogTypeOK'
        BY <2>1, OwnRecords, LogTypes DEF IInv
    <2>3. SagaTypeOK'
        BY DEF IInv, TypeOK, SagaTypeOK, daemon, Abort, Thrown, Places
    <2> QED
        BY <2>2, <2>3 DEF TypeOK
<1>2. Callbacks'
    BY CallbacksStay DEF Abort, Thrown, Before, Confirming, Reverting
<1>3. LogInv'
    <2>1. CASE Enqueue(Rec("ROLLBACK_START")) /\ pc' = "revert"
        <3>1. Rec("ROLLBACK_START").ev \notin {"SAGA_COMPLETE", "SAGA_ABORTED"}
            BY DEF Rec
        <3>2. pc = "body" /\ UNCHANGED <<spoiled, failed>>
            BY DEF Abort
        <3> QED
            BY <2>1, <3>1, <3>2, OwnRecords, EnqueueLog
    <2>2. CASE Thrown("escaped")
        BY <2>2, QuietLog DEF Abort, Thrown, Closing, Over, Final, Places
    <2> QED
        BY <2>1, <2>2 DEF Abort
<1> QED
    BY <1>1, <1>2, <1>3 DEF IInv

LEMMA SkipKeeps == ASSUME IInv, Skip PROVE IInv'
<1>1. TypeOK'
    <2>1. LogTypeOK'
        BY DEF IInv, TypeOK, LogTypeOK, Skip, log
    <2>2. SagaTypeOK'
        BY DEF IInv, TypeOK, SagaTypeOK, Skip, daemon
    <2> QED
        BY <2>1, <2>2 DEF TypeOK
<1>2. Callbacks'
    <2>1. pc' = pc /\ pc \in Settling /\ UNCHANGED <<status, calls, tentatives>>
        BY DEF Skip
    <2> QED
        BY <2>1, CallbacksStay DEF Settling, Before, Confirming, Reverting
<1>3. LogInv'
    BY QuietLog DEF Skip, Settling, Closing, Over, Final, Places
<1> QED
    BY <1>1, <1>2, <1>3 DEF IInv

\* The status moves before the callback is awaited: it runs for the first time.
LEMMA SettleKeeps == ASSUME IInv, Settle PROVE IInv'
<1>0. /\ Considered \in Resources /\ status[Considered] = "PENDING" /\ next <= Len(tentatives)
      /\ pc \in Settling /\ status' = [status EXCEPT ![Considered] = Target]
      /\ UNCHANGED <<calls, next, tentatives>>
    BY DEF IInv, TypeOK, SagaTypeOK, Settle, Considered, IsPending
<1>1. TypeOK'
    <2>1. LogTypeOK'
        BY DEF IInv, TypeOK, LogTypeOK, Settle, log
    <2>2. status' \in [Resources -> Statuses]
        BY <1>0 DEF IInv, TypeOK, SagaTypeOK, Statuses, Target
    <2>3. pc' \in Places
        BY <1>0 DEF Settle, Calling, Settling, Places
    <2>4. SagaTypeOK'
        BY <2>2, <2>3 DEF IInv, TypeOK, SagaTypeOK, Settle, daemon
    <2> QED
        BY <2>1, <2>4 DEF TypeOK
<1>2. Callbacks'
    <2>1. pc' = IF pc = "confirm" THEN "confirming" ELSE "reverting"
        BY <1>0 DEF Settle, Calling, Settling
    <2>2. \A r \in Resources : CalledOnce(r)
        BY DEF IInv, Callbacks
    <2>3. ASSUME NEW r \in Resources PROVE CalledOnce(r)'
        <3>1. CASE r = Considered
            <4>1. status'[r] = Target /\ calls'[r].commit = 0 /\ calls'[r].rollback = 0
                BY <1>0, <2>2, <3>1 DEF IInv, TypeOK, SagaTypeOK, CalledOnce
            <4> QED
                BY <1>0, <2>1, <4>1 DEF CalledOnce, Target, Settling, Before, Confirming, Reverting
        <3>2. CASE r # Considered
            <4>1. status'[r] = status[r] /\ calls' = calls /\ CalledOnce(r)
                BY <1>0, <2>2, <3>2 DEF IInv, TypeOK, SagaTypeOK
            <4> QED
                BY <1>0, <2>1, <4>1 DEF CalledOnce, Settling, Before, Confirming, Reverting
        <3> QED
            BY <3>1, <3>2
    <2>4. /\ next' <= Len(tentatives') /\ Considered' = Considered
          /\ status'[Considered] = Target /\ calls' = calls
          /\ calls[Considered].commit = 0 /\ calls[Considered].rollback = 0
        BY <1>0, <2>2 DEF IInv, TypeOK, SagaTypeOK, CalledOnce, Considered
    <2> QED
        BY <1>0, <2>1, <2>3, <2>4 DEF Callbacks, Target, Settling
<1>3. LogInv'
    BY QuietLog DEF Settle, Calling, Settling, Closing, Over, Final, Places
<1> QED
    BY <1>1, <1>2, <1>3 DEF IInv

\* The callback of the resource that is considered took effect, or it did not.
LEMMA AppliedCalls ==
    ASSUME IInv, pc \in {"confirming", "reverting"}, Applied(Considered) \/ UNCHANGED calls,
           UNCHANGED <<status, tentatives>>,
           \/ pc' \notin Before \union Confirming \union Reverting
           \/ pc = "confirming" /\ pc' = "confirm"
           \/ pc = "reverting" /\ pc' = "revert"
    PROVE  /\ calls' \in [Resources -> Counts] /\ Callbacks'
           /\ \A r \in Resources : calls'[r].daemon = calls[r].daemon
<1>0. /\ Considered \in Resources /\ calls \in [Resources -> Counts]
      /\ status[Considered] = IF pc = "confirming" THEN "COMMITTED" ELSE "ROLLED_BACK"
      /\ calls[Considered].commit = 0 /\ calls[Considered].rollback = 0
      /\ \A r \in Resources : CalledOnce(r)
    BY DEF IInv, TypeOK, SagaTypeOK, Callbacks, Considered
<1>1. ASSUME NEW r \in Resources
      PROVE  /\ calls'[r] \in Counts /\ calls'[r].daemon = calls[r].daemon
             /\ r # Considered => calls'[r] = calls[r]
             /\ calls'[Considered].commit = 0 \/ (pc = "confirming" /\ calls'[Considered].commit = 1)
             /\ calls'[Considered].rollback = 0 \/ (pc = "reverting" /\ calls'[Considered].rollback = 1)
    <2>1. CASE Applied(Considered)
        BY <1>0, <2>1 DEF Applied, Counts
    <2>2. CASE UNCHANGED calls
        BY <1>0, <2>2
    <2> QED
        BY <2>1, <2>2
<1>2. calls' \in [Resources -> Counts]
    <2>1. CASE Applied(Considered)
        BY <1>0, <2>1 DEF Applied, Counts
    <2>2. CASE UNCHANGED calls
        BY <1>0, <2>2
    <2> QED
        BY <2>1, <2>2
<1>3. ASSUME NEW r \in Resources PROVE CalledOnce(r)'
    <2>1. CASE r = Considered
        BY <1>0, <1>1, <2>1 DEF CalledOnce, Before, Confirming, Reverting
    <2>2. CASE r # Considered
        <3>1. calls'[r] = calls[r] /\ status'[r] = status[r] /\ CalledOnce(r)
            BY <1>0, <1>1, <2>2
        <3> QED
            BY <3>1 DEF CalledOnce, Before, Confirming, Reverting
    <2> QED
        BY <2>1, <2>2
<1>4. Callbacks'
    BY <1>3 DEF Callbacks, Before, Confirming, Reverting
<1> QED
    BY <1>1, <1>2, <1>4

LEMMA CallbackReturnsKeeps == ASSUME IInv, CallbackReturns PROVE IInv'
<1> DEFINE x == Considered
<1>0. /\ x \in Resources /\ pc \in {"confirming", "reverting"} /\ Applied(x)
      /\ UNCHANGED <<heartbeat, tentatives, status, failed, spoiled, at>>
      /\ next \in Nat \ {0}
    BY DEF IInv, TypeOK, SagaTypeOK, Callbacks, Considered, CallbackReturns, daemon
<1>1. \/ \E r \in {ResRec("TENTATIVE_RESOLVED", x), Unresolvable(x)} :
            Enqueue(r) /\ pc' = Back[pc] /\ next' = next + 1
      \/ UNCHANGED log /\ pc' = Escaping /\ next' = next
    BY DEF CallbackReturns, Unresolved, Unresolvable, Thrown
<1>2. /\ pc' \in {"confirm", "revert", "escaped", "unfinished"} /\ pc' \in Places
      /\ \/ pc = "confirming" /\ pc' = "confirm"
         \/ pc = "reverting" /\ pc' = "revert"
         \/ pc' \in {"escaped", "unfinished"}
    BY <1>0, <1>1 DEF Back, Escaping, Places
<1>3. calls' \in [Resources -> Counts] /\ Callbacks'
    BY <1>0, <1>2, AppliedCalls DEF Before, Confirming, Reverting
<1>4. \A r \in {ResRec("TENTATIVE_RESOLVED", x), Unresolvable(x)} :
          r \in Records /\ r.ev \notin {"SAGA_COMPLETE", "SAGA_ABORTED"}
    <2>1. /\ ResRec("TENTATIVE_RESOLVED", x) \in Records
          /\ Unresolvable(x) \in Records
        BY <1>0, OwnRecords DEF Unresolvable
    <2>2. /\ ResRec("TENTATIVE_RESOLVED", x).ev = "TENTATIVE_RESOLVED"
          /\ Unresolvable(x).ev = "TENTATIVE_UNRESOLVED"
        BY DEF Unresolvable, ResRec
    <2> QED
        BY <2>1, <2>2
<1>5. TypeOK'
    <2>1. LogTypeOK'
        <3>1. CASE UNCHANGED log
            BY <3>1 DEF IInv, TypeOK, LogTypeOK, log
        <3>2. ASSUME NEW r \in {ResRec("TENTATIVE_RESOLVED", x), Unresolvable(x)}, Enqueue(r)
              PROVE  LogTypeOK'
            <4>1. r \in Records
                BY <1>4
            <4> QED
                BY <3>2, <4>1, LogTypes DEF IInv
        <3> QED
            BY <1>1, <3>1, <3>2
    <2>2. next' \in Nat \ {0}
        BY <1>0, <1>1
    <2>3. SagaTypeOK'
        BY <1>0, <1>2, <1>3, <2>2 DEF IInv, TypeOK, SagaTypeOK
    <2> QED
        BY <2>1, <2>3 DEF TypeOK
<1>6. LogInv'
    <2>1. CASE UNCHANGED log /\ pc' = Escaping
        BY <1>0, <1>2, <2>1, QuietLog DEF Escaping, Closing, Over, Final
    <2>2. ASSUME NEW r \in {ResRec("TENTATIVE_RESOLVED", x), Unresolvable(x)},
                 Enqueue(r), pc' = Back[pc]
          PROVE  LogInv'
        <3>1. /\ r \in Records /\ r.ev \notin {"SAGA_COMPLETE", "SAGA_ABORTED"}
              /\ pc' \in {"body", "confirm", "revert"}
              /\ pc \in {"body", "confirming", "reverting"}
              /\ spoiled' = spoiled /\ failed' = failed
            BY <1>0, <1>4, <2>2 DEF Back
        <3> QED
            BY <2>2, <3>1, EnqueueLog
    <2> QED
        BY <1>1, <2>1, <2>2
<1> QED
    BY <1>3, <1>5, <1>6 DEF IInv

LEMMA CallbackRaisesKeeps == ASSUME IInv, CallbackRaises PROVE IInv'
<1> DEFINE x == Considered
<1>0. /\ x \in Resources /\ pc \in {"confirming", "reverting"}
      /\ Applied(x) \/ UNCHANGED calls
      /\ failed' = failed \union {x}
      /\ UNCHANGED <<heartbeat, tentatives, status, spoiled, at>>
      /\ next \in Nat \ {0} /\ Unresolvable(x) \in Records
      /\ Unresolvable(x).ev \notin {"SAGA_COMPLETE", "SAGA_ABORTED"}
    <2>1. /\ x \in Resources /\ pc \in {"confirming", "reverting"}
          /\ failed' = failed \union {x} /\ next \in Nat \ {0}
          /\ UNCHANGED <<heartbeat, tentatives, status, spoiled, at>>
        BY DEF IInv, TypeOK, SagaTypeOK, Callbacks, Considered, CallbackRaises, daemon
    <2>2. Applied(x) \/ UNCHANGED calls
        BY DEF CallbackRaises
    <2>3. Unresolvable(x) \in Records /\ Unresolvable(x).ev = "TENTATIVE_UNRESOLVED"
        BY <2>1, OwnRecords DEF Unresolvable, ResRec
    <2> QED
        BY <2>1, <2>2, <2>3
<1>1. \/ Enqueue(Unresolvable(x)) /\ pc' = Back[pc] /\ next' = next + 1
      \/ UNCHANGED log /\ pc' = Escaping /\ next' = next
    BY DEF CallbackRaises, Unresolved, Unresolvable
<1>2. /\ pc' \in {"confirm", "revert", "escaped", "unfinished"} /\ pc' \in Places
      /\ \/ pc = "confirming" /\ pc' = "confirm"
         \/ pc = "reverting" /\ pc' = "revert"
         \/ pc' \in {"escaped", "unfinished"}
    BY <1>0, <1>1 DEF Back, Escaping, Places
<1>3. calls' \in [Resources -> Counts] /\ Callbacks'
    BY <1>0, <1>2, AppliedCalls DEF Before, Confirming, Reverting
<1>4. TypeOK'
    <2>1. LogTypeOK'
        <3>1. CASE UNCHANGED log
            BY <3>1 DEF IInv, TypeOK, LogTypeOK, log
        <3>2. CASE Enqueue(Unresolvable(x))
            BY <1>0, <3>2, LogTypes DEF IInv
        <3> QED
            BY <1>1, <3>1, <3>2
    <2>2. next' \in Nat \ {0}
        BY <1>0, <1>1
    <2>3. SagaTypeOK'
        BY <1>0, <1>2, <1>3, <2>2 DEF IInv, TypeOK, SagaTypeOK
    <2> QED
        BY <2>1, <2>3 DEF TypeOK
<1>5. LogInv'
    <2>1. CASE UNCHANGED log /\ pc' = Escaping
        <3>1. FenceHonest' /\ ToldOnDisk' /\ QueuedLast'
            <4>1. pc' \in {"escaped", "unfinished"}
                BY <2>1 DEF Escaping
            <4> QED
                BY <1>0, <2>1, <4>1
                DEF IInv, LogInv, FenceHonest, ToldOnDisk, QueuedLast, Closing, Final, Over, Told, log
        <3>2. OnRecord'
            BY <2>1 DEF OnRecord, Escaping, Over
        <3> QED
            BY <3>1, <3>2 DEF LogInv
    <2>2. CASE Enqueue(Unresolvable(x)) /\ pc' = Back[pc]
        <3>1. pc' \in {"body", "confirm", "revert"} /\ pc \in {"body", "confirming", "reverting"}
            BY <1>0, <2>2 DEF Back
        <3> QED
            BY <1>0, <2>2, <3>1, EnqueueLog
    <2> QED
        BY <1>1, <2>1, <2>2
<1> QED
    BY <1>3, <1>4, <1>5 DEF IInv

\* What closes the saga, with the place it is closed from.
LEMMA CloseKeeps == ASSUME IInv, Close PROVE IInv'
<1> DEFINE r == Rec(IF pc = "confirm" THEN "SAGA_COMPLETE" ELSE "ROLLBACK_END")
<1>1. /\ pc \in {"confirm", "revert"}
      /\ \/ EnqueueFenced(0, r) /\ pc' = (IF pc = "confirm" THEN "completing" ELSE "rolledback")
         \/ UNCHANGED log /\ pc' = Escaping
      /\ UNCHANGED <<heartbeat, tentatives, status, next, calls, failed, spoiled, at>>
    BY DEF Close, Thrown, daemon
<1>2. r \in Records /\ pc' \in {"completing", "rolledback", "escaped", "unfinished"} /\ pc' \in Places
    BY <1>1, OwnRecords DEF Escaping, Places
<1>3. TypeOK'
    <2>1. LogTypeOK'
        BY <1>1, <1>2, LogTypes DEF IInv
    <2>2. SagaTypeOK'
        BY <1>1, <1>2 DEF IInv, TypeOK, SagaTypeOK
    <2> QED
        BY <2>1, <2>2 DEF TypeOK
<1>4. Callbacks'
    BY <1>1, CallbacksStay DEF Escaping, Before, Confirming, Reverting
<1>5. LogInv'
    <2>1. CASE UNCHANGED log /\ pc' = Escaping
        BY <1>1, <1>2, <2>1, QuietLog DEF Escaping, Closing, Over, Final
    <2>2. CASE EnqueueFenced(0, r) /\ pc' = (IF pc = "confirm" THEN "completing" ELSE "rolledback")
        <3>1. /\ pc \in DOMAIN Fenced /\ pc' = Fenced[pc] /\ pc' \in DOMAIN Closing
              /\ \A p \in DOMAIN Closing : pc' = p => r = Closing[p]
            BY <1>1, <2>2 DEF Fenced, Closing
        <3> QED
            BY <1>1, <1>2, <2>2, <3>1, FencedLog
    <2> QED
        BY <1>1, <2>1, <2>2
<1> QED
    BY <1>3, <1>4, <1>5 DEF IInv

LEMMA CloseAbortedKeeps == ASSUME IInv, CloseAborted PROVE IInv'
<1> DEFINE r == Rec("SAGA_ABORTED")
<1>1. /\ pc = "recheck"
      /\ \/ EnqueueFenced(0, r) /\ pc' = "aborting"
         \/ UNCHANGED log /\ pc' = "unfinished"
      /\ UNCHANGED <<heartbeat, tentatives, status, next, calls, failed, spoiled, at>>
    BY DEF CloseAborted, Thrown, daemon
<1>2. r \in Records /\ pc' \in Places
    BY <1>1, OwnRecords DEF Places
<1>3. TypeOK'
    <2>1. LogTypeOK'
        BY <1>1, <1>2, LogTypes DEF IInv
    <2>2. SagaTypeOK'
        BY <1>1, <1>2 DEF IInv, TypeOK, SagaTypeOK
    <2> QED
        BY <2>1, <2>2 DEF TypeOK
<1>4. Callbacks'
    BY <1>1, CallbacksStay DEF Before, Confirming, Reverting
<1>5. LogInv'
    <2>1. CASE UNCHANGED log /\ pc' = "unfinished"
        BY <1>1, <1>2, <2>1, QuietLog DEF Closing, Over, Final
    <2>2. CASE EnqueueFenced(0, r) /\ pc' = "aborting"
        <3>1. /\ pc \in DOMAIN Fenced /\ pc' = Fenced[pc] /\ pc' \in DOMAIN Closing
              /\ \A p \in DOMAIN Closing : pc' = p => r = Closing[p]
            BY <1>1, <2>2 DEF Fenced, Closing
        <3> QED
            BY <1>1, <1>2, <2>2, <3>1, FencedLog
    <2> QED
        BY <1>1, <2>1, <2>2
<1> QED
    BY <1>3, <1>4, <1>5 DEF IInv

\* The process dies: nobody is told anything any more.
LEMMA CrashKeeps == ASSUME IInv, Crash PROVE IInv'
<1>0. /\ pc' = "dead" /\ heartbeat' = FALSE
      /\ UNCHANGED <<tentatives, status, next, failed, spoiled, at>>
    BY DEF Crash, daemon
<1>1. PICK k \in 0..Len(buf) : LogCrash(k)
    BY DEF Crash
<1>2. /\ disk' \in Seq(Records) /\ buf' = <<>>
      /\ fence' = [f \in {0} |-> "none"] /\ want' = [f \in {0} |-> <<>>]
      /\ ToSet(disk) \subseteq ToSet(disk') /\ Ended \subseteq Ended'
    BY <1>1, DiskGrows DEF LogCrash, IInv, TypeOK, LogTypeOK
<1>3. calls' \in [Resources -> Counts] /\ Callbacks'
    <2>1. CASE pc \in {"confirming", "reverting"} /\ Applied(Considered)
        BY <1>0, <2>1, AppliedCalls DEF Before, Confirming, Reverting
    <2>2. CASE UNCHANGED calls
        <3>1. calls' \in [Resources -> Counts]
            BY <2>2 DEF IInv, TypeOK, SagaTypeOK
        <3>2. Callbacks'
            BY <1>0, <2>2, CallbacksStay DEF Before, Confirming, Reverting
        <3> QED
            BY <3>1, <3>2
    <2> QED
        BY <2>1, <2>2 DEF Crash
<1>4. TypeOK'
    <2>1. LogTypeOK'
        BY <1>2 DEF LogTypeOK, FenceStates
    <2>2. SagaTypeOK'
        BY <1>0, <1>3 DEF IInv, TypeOK, SagaTypeOK, Places
    <2> QED
        BY <2>1, <2>2 DEF TypeOK
<1>5. FenceHonest' /\ ToldOnDisk' /\ OnRecord'
    BY <1>0, <1>2 DEF FenceHonest, Closing, ToldOnDisk, OnRecord, Over
<1>6. QueuedLast'
    BY <1>0 DEF QueuedLast, Over, Final
<1> QED
    BY <1>3, <1>4, <1>5, <1>6 DEF IInv, LogInv

\* A daemon's sweep, which shares the callbacks' counts with the saga.
LEMMA DaemonKeeps == ASSUME IInv, DaemonStep \/ DaemonDies PROVE IInv'
<1>1. /\ UNCHANGED <<log, saga, failed, spoiled>>
      /\ at' \in {"idle", "working", "calling", "journalling"}
    BY DEF DaemonStep, DaemonDies, Sweep, Escalate, Attempt, HandlerReturns, HandlerRaises,
           Journal, Recovered, Idle
<1>2. calls' = calls \/ \E r \in {Head(found)} : calls' = [calls EXCEPT ![r].daemon = @ + 1]
    BY DEF DaemonStep, DaemonDies, Sweep, Escalate, Attempt, HandlerReturns, HandlerRaises,
           Journal, Recovered, RevertRemote
<1>3. /\ calls' \in [Resources -> Counts]
      /\ \A r \in Resources : /\ calls'[r].commit = calls[r].commit
                              /\ calls'[r].rollback = calls[r].rollback
    <2>1. calls \in [Resources -> Counts]
        BY DEF IInv, TypeOK, SagaTypeOK
    <2>2. CASE calls' = calls
        BY <2>1, <2>2
    <2>3. ASSUME NEW r, calls' = [calls EXCEPT ![r].daemon = @ + 1]
          PROVE  /\ calls' \in [Resources -> Counts]
                 /\ \A q \in Resources : /\ calls'[q].commit = calls[q].commit
                                         /\ calls'[q].rollback = calls[q].rollback
        <3>1. DOMAIN calls' = Resources
            BY <2>1, <2>3
        <3>2. ASSUME NEW q \in Resources
              PROVE  /\ calls'[q] \in Counts /\ calls'[q].commit = calls[q].commit
                     /\ calls'[q].rollback = calls[q].rollback
            <4>1. CASE q = r
                <5>1. calls[q] \in Counts /\ calls'[q] = [calls[q] EXCEPT !.daemon = @ + 1]
                    BY <2>1, <2>3, <4>1
                <5> QED
                    BY <5>1 DEF Counts
            <4>2. CASE q # r
                <5>1. calls[q] \in Counts /\ calls'[q] = calls[q]
                    BY <2>1, <2>3, <4>2
                <5> QED
                    BY <5>1
            <4> QED
                BY <4>1, <4>2
        <3>3. calls' = [q \in Resources |-> calls'[q]]
            BY <2>1, <2>3
        <3> QED
            BY <3>2, <3>3
    <2> QED
        BY <1>2, <2>2, <2>3
<1>4. TypeOK'
    BY <1>1, <1>3 DEF IInv, TypeOK, LogTypeOK, SagaTypeOK, log, saga
<1>5. Callbacks'
    <2>1. Considered' = Considered /\ (pc \in {"confirming", "reverting"} => Considered \in Resources)
        BY <1>1 DEF IInv, TypeOK, SagaTypeOK, Callbacks, Considered, saga
    <2> QED
        BY <1>1, <1>3, <2>1 DEF IInv, Callbacks, CalledOnce, saga
<1>6. LogInv'
    BY <1>1 DEF IInv, LogInv, FenceHonest, ToldOnDisk, QueuedLast, OnRecord, Ended, log, saga
<1> QED
    BY <1>4, <1>5, <1>6 DEF IInv

LEMMA InitIInv == Init => IInv
<1> SUFFICES ASSUME Init PROVE IInv
    OBVIOUS
<1>1. LogTypeOK
    BY DEF Init, LogInit, LogTypeOK, FenceStates
<1>2. SagaTypeOK
    <2>1. calls \in [Resources -> Counts] /\ status \in [Resources -> Statuses]
        BY DEF Init, Statuses, Counts
    <2>2. tentatives \in Seq(Resources) /\ next \in Nat \ {0}
        BY DEF Init
    <2> QED
        BY <2>1, <2>2 DEF Init, SagaTypeOK, Places
<1>3. FenceHonest /\ ToldOnDisk
    BY DEF Init, LogInit, FenceHonest, Closing, ToldOnDisk
<1>4. QueuedLast
    BY ToSetEmpty DEF Init, LogInit, QueuedLast, Final
<1>5. OnRecord
    BY DEF Init, OnRecord
<1>6. Callbacks
    BY DEF Init, Callbacks, CalledOnce
<1> QED
    BY <1>1, <1>2, <1>3, <1>4, <1>5, <1>6 DEF IInv, TypeOK, LogInv

LEMMA IInvStep == IInv /\ [Next]_vars => IInv'
<1> SUFFICES ASSUME IInv, [Next]_vars PROVE IInv'
    OBVIOUS
<1>1. CASE UNCHANGED vars
    BY <1>1 DEF vars, log, saga, daemon, IInv, TypeOK, LogTypeOK, SagaTypeOK, LogInv, FenceHonest,
                ToldOnDisk, Ended, QueuedLast, OnRecord, Callbacks, CalledOnce, Considered
<1>2. CASE SagaStep
    <2>1. ASSUME NEW r \in Resources, NEW durable \in BOOLEAN, Register(r, durable) PROVE IInv'
        BY <2>1, RegisterKeeps
    <2> QED
        BY <1>2, <2>1, BeginKeeps, BegunKeeps, RegisteredKeeps, FinishKeeps, AbortKeeps, SkipKeeps,
           SettleKeeps, CallbackReturnsKeeps, CallbackRaisesKeeps, CloseKeeps,
           FinishAbortedKeeps, CloseAbortedKeeps, FinishedKeeps DEF SagaStep
<1>3. CASE LogWorks
    BY <1>3, LogWorksKeeps
<1>4. CASE Crash
    BY <1>4, CrashKeeps
<1>5. CASE DaemonStep \/ DaemonDies
    BY <1>5, DaemonKeeps
<1> QED
    BY <1>1, <1>2, <1>3, <1>4, <1>5 DEF Next

\* The log, the boundary and the callbacks agree in every reachable state: fences are
\* honest, the record that closes the saga is queued behind all others, and a
\* resource's callback runs once, the one its status names (_resolve_tentatives()).
THEOREM Invariant == Spec => []IInv
<1> QED
    BY InitIInv, IInvStep, PTL DEF Spec

\* A callback that raised is on record by the time the agent learns the outcome,
\* unless the log lost a batch: TENTATIVE_UNRESOLVED is queued before the fence of the
\* closing record (_resolve_tentatives(), finish()).
THEOREM FailuresAreOnRecord == Spec => []FailureOnRecord
<1>1. IInv => FailureOnRecord
    <2> SUFFICES ASSUME IInv, NEW r \in failed, pc \in {"completed", "aborted"}, ~spoiled
                 PROVE  OnDisk("TENTATIVE_UNRESOLVED", r)
        BY DEF FailureOnRecord
    <2>1. Unresolvable(r) \in ToSet(disk)
        BY DEF IInv, LogInv, OnRecord, Over
    <2>2. /\ Unresolvable(r).ev = "TENTATIVE_UNRESOLVED"
          /\ Unresolvable(r).res = <<r>>
        BY DEF Unresolvable, ResRec
    <2> QED
        BY <2>1, <2>2 DEF OnDisk
<1> QED
    BY <1>1, Invariant, PTL

-----------------------------------------------------------------------------
(* The daemon keeps away from a saga that is alive or has told its outcome, *)
(* as long as no callback outlasts the lease.                               *)

\* Nothing goes on once the saga is over.
LEMMA SagaAlive ==
    ASSUME IInv, SagaStep \/ LogWorks \/ Crash, pc' \notin Over
    PROVE  /\ pc \notin Over /\ at' = at
           /\ \A r \in Resources : calls'[r].daemon = calls[r].daemon
<1>1. CASE LogWorks
    BY <1>1 DEF LogWorks, saga, daemon
<1>2. CASE Crash
    BY <1>2 DEF Crash, Over
<1>3. CASE SagaStep
    <2>1. pc \notin Over /\ at' = at
        BY <1>3 DEF SagaStep, Begin, Begun, Registered, Finish, Abort, Register, Skip, Settle,
                    CallbackReturns, CallbackRaises, Close, FinishAborted, CloseAborted, Finished,
                    Told, Settling, Over, daemon
    <2>2. calls' = calls \/ (pc \in {"confirming", "reverting"} /\ (Applied(Considered) \/ UNCHANGED calls))
        BY <1>3 DEF SagaStep, Begin, Begun, Registered, Finish, Abort, Register, Skip, Settle,
                    CallbackReturns, CallbackRaises, Close, FinishAborted, CloseAborted, Finished
    <2>3. calls \in [Resources -> Counts]
        BY DEF IInv, TypeOK, SagaTypeOK
    <2>4. \A r \in Resources : calls'[r].daemon = calls[r].daemon
        BY <2>2, <2>3 DEF Applied, Counts
    <2> QED
        BY <2>1, <2>4
<1> QED
    BY <1>1, <1>2, <1>3

\* A sweep that finds the lease expired and the saga unresolved finds it over.
LEMMA SweepOfTheDead ==
    ASSUME SlowCallbacks = FALSE, IInv, Sweep
    PROVE  pc \in Over
BY DEF Sweep, LeaseExpired, Resolved, IInv, LogInv, ToldOnDisk, Over

LEMMA UntouchedStep ==
    ASSUME SlowCallbacks = FALSE, IInv, Untouched, [Next]_vars
    PROVE  Untouched'
<1>1. CASE UNCHANGED vars
    BY <1>1 DEF vars, saga, daemon, Untouched
<1>2. CASE SagaStep \/ LogWorks \/ Crash
    BY <1>2, SagaAlive DEF Untouched
<1>3. CASE DaemonStep \/ DaemonDies
    <2>1. pc' = pc
        BY <1>3 DEF DaemonStep, DaemonDies, Sweep, Escalate, Attempt, HandlerReturns,
                    HandlerRaises, Journal, Recovered, saga
    <2>2. pc \in Over
        BY <1>3, SweepOfTheDead
           DEF Untouched, DaemonStep, DaemonDies, Escalate, Attempt, HandlerReturns,
               HandlerRaises, Journal, Recovered
    <2> QED
        BY <2>1, <2>2 DEF Untouched
<1> QED
    BY <1>1, <1>2, <1>3 DEF Next

\* What the agent was told is what became of its resources, for any number of them
\* and whatever the daemon does, while no on_commit outlasts the grace of the lease:
\* the confirmation runs after finish() has stopped renewing it (context.py).
THEOREM ToldIsTrue == SlowCallbacks = FALSE => (Spec => []OutcomeAgrees)
<1> SUFFICES ASSUME SlowCallbacks = FALSE PROVE Spec => []OutcomeAgrees
    OBVIOUS
<1>1. Init => Untouched
    BY DEF Init, Untouched
<1>2. IInv /\ Untouched /\ [Next]_vars => Untouched'
    BY UntouchedStep
<1>3. IInv /\ Untouched => OutcomeAgrees
    <2> SUFFICES ASSUME IInv, Untouched, NEW r \in Resources
                 PROVE  /\ pc = "completed" => calls[r].rollback = 0 /\ calls[r].daemon = 0
                        /\ pc = "aborted" => calls[r].commit = 0 /\ calls[r].daemon = 0
                        /\ calls[r].commit + calls[r].rollback <= 1
        BY DEF OutcomeAgrees
    <2>1. CalledOnce(r) /\ calls[r] \in Counts /\ status[r] \in Statuses
        BY DEF IInv, Callbacks, TypeOK, SagaTypeOK
    <2>2. pc \in {"completed", "aborted"} => calls[r].daemon = 0
        BY DEF Untouched, Over
    <2> QED
        BY <2>1, <2>2 DEF CalledOnce, Statuses, Counts, Confirming, Reverting
<1> QED
    BY <1>1, <1>2, <1>3, Invariant, PTL DEF Spec
=============================================================================
