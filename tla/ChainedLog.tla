---------------------------- MODULE ChainedLog ----------------------------
(***************************************************************************)
(* The file the log is kept in (agent_saga/wal/file_wal.py) over several   *)
(* lives of its process: the hash chain its flusher builds and verify()    *)
(* reads back (agent_saga/integrity.py), and the compaction that rewrites  *)
(* it (RecoveryDaemon.compact()).  Fences are BufferedWAL's subject: here  *)
(* a record is acknowledged when the write of its batch returned.          *)
(***************************************************************************)
EXTENDS Integers, SequencesExt

CONSTANTS
    Sagas,
    Housekeepers,  \* who compacts: see HousekeeperKinds
    Beside,        \* may a daemon with a path compact beside a live writer?
    MaxLives,      \* bound: lives of the writing process
    MaxCompactions,
    MaxFaults      \* bound: crashes, rejected batches, deaths of the daemon

\* A daemon that shares the writer's log object, one that was given a path.
HousekeeperKinds == {"shared", "path"}

ASSUME ChainAssumption ==
    /\ Housekeepers \subseteq HousekeeperKinds /\ Beside \in BOOLEAN
    /\ {MaxLives, MaxCompactions, MaxFaults} \subseteq Nat

GAP_EVENT == "WAL_CHAIN_GAP"
GENESIS == 0

VARIABLES
    file,      \* the lines records() can parse
    torn,      \* does the file end in a partial line?
    lives,     \* lives of the writer so far
    up,        \* is it running?
    seq,       \* self._seq
    buf,       \* self._buf
    batch, pc, \* the flusher: what it took, and "idle", "stamped" or "writing"
    head,      \* self._chain_head
    detached,  \* does the writer's handle name a file that was replaced?
    status,    \* what each saga is: "new", "open", "settled"
    at,        \* the housekeeper: "idle", "waiting", "granted", "kept", "attesting"
    read, keep, \* the records and the keep set RecoveryDaemon.compact() computed
    attest,    \* the attestation of a daemon with its own log object
    stamps,    \* hashes given out: a hash is a number nobody else got
    acked,     \* history: records whose batch the sink acknowledged
    dropped,   \* history: records a compaction removed
    glued,     \* history: records that continued a partial line
    cause,     \* history: what may make verify() complain
    compactions, faults

logVars == <<file, torn>>
writer == <<lives, up, seq, buf, batch, pc, head, detached>>
keeper == <<at, read, keep, attest, compactions>>
history == <<acked, dropped, glued, cause>>
vars == <<logVars, writer, status, keeper, stamps, history, faults>>

Causes == {"rejected", "partial line", "attestation lost", "other writer", "file swapped"}

Init ==
    /\ file = <<>> /\ torn = FALSE
    /\ lives = 1 /\ up = TRUE /\ seq = 0 /\ buf = <<>> /\ batch = <<>> /\ pc = "idle"
    /\ head = GENESIS /\ detached = FALSE
    /\ status = [s \in Sagas |-> "new"]
    /\ at = "idle" /\ read = <<>> /\ keep = {} /\ attest = <<>> /\ compactions = 0
    /\ stamps = 0 /\ acked = {} /\ dropped = {} /\ glued = {} /\ cause = {} /\ faults = 0

Fault == faults < MaxFaults /\ faults' = faults + 1

-----------------------------------------------------------------------------
(* Records, and what verify() makes of a list of them.                      *)

\* The records of one saga, and the attestation of what a compaction removed.
\* "life" is the process that wrote it, which the format does not know.
Rec(s, ev) == [seq |-> seq + 1, ev |-> ev, saga |-> {s}, gone |-> {}, life |-> lives]
Attestation(n, gone, life) ==
    [seq |-> n, ev |-> GAP_EVENT, saga |-> {}, gone |-> {r.seq : r \in gone}, life |-> life]

\* record_hash(): the n-th hash from now is nobody else's.
RecordHash(n) == stamps + n

\* stamp(): the record, its predecessor's hash and its own.
Stamped(r, prev, this) ==
    [seq |-> r.seq, ev |-> r.ev, saga |-> r.saga, gone |-> r.gone, life |-> r.life,
     prev |-> prev, hash |-> this]

\* stamp_batch()
StampBatch(b, from) ==
    [i \in DOMAIN b |-> Stamped(b[i], IF i = 1 THEN from ELSE RecordHash(i - 1), RecordHash(i))]

LastHash(F) == IF F = <<>> THEN GENESIS ELSE Last(F).hash

\* attested_seqs()
Attested(F) == UNION {r.gone : r \in ToSet(F)}

\* The sequence numbers missing before the i-th record: only a jump forward is a gap.
Missing(F, i) ==
    LET expected == IF i = 1 THEN 1 ELSE F[i - 1].seq + 1 IN expected..(F[i].seq - 1)

Forgiven(F, i) == Missing(F, i) # {} /\ Missing(F, i) \subseteq Attested(F)

Linked(F, i) == F[i].prev = IF i = 1 THEN GENESIS ELSE F[i - 1].hash

\* verify().intact
Intact(F) ==
    \A i \in DOMAIN F :
        /\ Missing(F, i) \subseteq Attested(F)
        /\ Linked(F, i) \/ Forgiven(F, i)

-----------------------------------------------------------------------------
(* The writing process.                                                     *)

Append1(r) == buf' = Append(buf, r) /\ seq' = seq + 1

\* append() of a saga's first and of its last record.
Write(s) ==
    /\ up
    /\ \/ status[s] = "new" /\ status' = [status EXCEPT ![s] = "open"] /\ Append1(Rec(s, "STEP_INTENT"))
       \/ /\ status[s] = "open" /\ status' = [status EXCEPT ![s] = "settled"]
          /\ Append1(Rec(s, "SAGA_COMPLETE"))
    /\ UNCHANGED <<logVars, lives, up, batch, pc, head, detached, keeper, stamps, history, faults>>

\* _flush_once(): take everything queued and chain it, before the write is tried.
Take ==
    /\ up /\ pc = "idle" /\ buf # <<>>
    /\ batch' = StampBatch(buf, head) /\ head' = stamps + Len(buf)
    /\ stamps' = stamps + Len(buf) /\ buf' = <<>> /\ pc' = "stamped"
    /\ UNCHANGED <<logVars, lives, up, seq, detached, status, keeper, history, faults>>

\* The io lock is free, and nobody has waited for it longer.
Begin ==
    /\ pc = "stamped" /\ at # "waiting" /\ pc' = "writing"
    /\ UNCHANGED <<logVars, lives, up, seq, buf, batch, head, detached, status, keeper, stamps, history, faults>>

\* Lines appended to the file: the first of them continues a partial line.
Landed(b) ==
    /\ file' = file \o (IF torn THEN Tail(b) ELSE b)
    /\ glued' = IF torn THEN glued \union {Head(b)} ELSE glued

Flushed == batch' = <<>> /\ pc' = "idle"
Idle == at' = "idle" /\ read' = <<>> /\ keep' = {}

\* _write_batch() returned.  A handle on the replaced file takes the lines along.
WriteReturns ==
    /\ pc = "writing" /\ Flushed
    /\ acked' = acked \union ToSet(batch)
    /\ \/ ~detached /\ Landed(batch) /\ torn' = FALSE
          /\ cause' = IF torn THEN cause \union {"partial line"} ELSE cause
       \/ detached /\ cause' = cause \union {"file swapped"} /\ UNCHANGED <<logVars, glued>>
    /\ UNCHANGED <<lives, up, seq, buf, head, detached, status, keeper, stamps, dropped, faults>>

\* It raised, on a record that cannot be encoded or after the lines were out:
\* nothing is retried and the chain goes on from the rejected batch.
WriteRaises ==
    /\ pc = "writing" /\ Fault /\ Flushed
    /\ \/ UNCHANGED <<logVars, glued>>
       \/ ~detached /\ Landed(batch) /\ torn' = FALSE
    /\ cause' = cause \union {"rejected"}
    /\ UNCHANGED <<lives, up, seq, buf, head, detached, status, keeper, stamps, acked, dropped>>

\* A process ends: an attestation it had not written goes with it.
Lost(queue) ==
    IF \E r \in ToSet(queue) : r.ev = GAP_EVENT THEN {"attestation lost"} ELSE {}

Gone ==
    /\ up' = FALSE /\ buf' = <<>> /\ detached' = FALSE /\ Flushed
    /\ IF at = "waiting" THEN Idle ELSE UNCHANGED <<at, read, keep>>

\* The process dies; the first j records of a batch on its way are in the file,
\* and perhaps a part of the next.
Crash ==
    /\ up /\ Fault /\ Gone
    /\ \/ pc # "writing" /\ UNCHANGED <<logVars, glued>>
       \/ /\ pc = "writing" /\ ~detached
          /\ \E j \in 0..Len(batch) :
              /\ IF j = 0 THEN UNCHANGED <<file, glued>> ELSE Landed(SubSeq(batch, 1, j))
              /\ torn' \in IF j < Len(batch) THEN {torn /\ j = 0, TRUE} ELSE {FALSE}
       \/ pc = "writing" /\ detached /\ UNCHANGED <<logVars, glued>>
    /\ cause' = cause \union Lost(batch \o buf) \union
                (IF file' # file /\ torn THEN {"partial line"} ELSE {})
    /\ UNCHANGED <<lives, seq, head, status, attest, compactions, stamps, acked, dropped>>

\* close() of a log that has nothing queued.
Stop ==
    /\ up /\ pc = "idle" /\ buf = <<>> /\ Gone
    /\ UNCHANGED <<logVars, lives, seq, head, status, attest, compactions, stamps, history, faults>>

\* Mutant: a restart begins a chain of its own.
ResumeChainNot == GENESIS

\* _resume_chain()
ResumeChain == LastHash(file)

\* start(): the numbers begin again, the chain goes on.
Start ==
    /\ ~up /\ lives < MaxLives /\ (at = "idle" \/ Beside)
    /\ up' = TRUE /\ lives' = lives + 1 /\ seq' = 0 /\ head' = ResumeChain
    /\ UNCHANGED <<logVars, buf, batch, pc, detached, status, keeper, stamps, history, faults>>

-----------------------------------------------------------------------------
(* The housekeeper.                                                         *)

InFile(F) == UNION {r.saga : r \in ToSet(F)}
Settled(F) == UNION {r.saga : r \in {x \in ToSet(F) : x.ev = "SAGA_COMPLETE"}}

\* Mutant: only what was written lately is kept.
KeepRecent(recent) == recent

\* The unresolved sagas of the log, and those settled within the grace period.
KeepSet(recent) == (InFile(file) \ Settled(file)) \union recent

Read(at_) ==
    /\ at = "idle" /\ compactions < MaxCompactions
    /\ compactions' = compactions + 1
    /\ at' = at_ /\ read' = file
    /\ \E recent \in SUBSET Settled(file) : keep' = KeepSet(recent)
    /\ UNCHANGED <<logVars, writer, status, attest, stamps, history, faults>>

\* RecoveryDaemon.compact() reads the log; its wal.compact() finds the io lock of
\* the writer free, which CompactShared then has at once, or waits for it.
ReadShared ==
    /\ "shared" \in Housekeepers /\ up
    /\ Read(IF pc = "writing" THEN "waiting" ELSE "granted")

ReadByPath == "path" \in Housekeepers /\ (~up \/ Beside) /\ Read("kept")

\* Mutant: the file is rewritten from what the daemon had read.
RecordsStale == read

\* records(), of the moment the file is rewritten
Records == file

Survives(r) == r.saga \cap keep # {} \/ r.ev = GAP_EVENT
Survivors == SelectSeq(Records, Survives)
Removed == ToSet(file) \ ToSet(Survivors)

\* os.replace(): all or nothing, and a partial line does not survive it.
Replace ==
    /\ file' = Survivors /\ torn' = FALSE
    /\ dropped' = dropped \union {r \in Removed : r \in ToSet(Records)}

OtherLives(life) == IF \A r \in ToSet(file) : r.life = life THEN {} ELSE {"other writer"}

\* _compact_locked(): append() of the attestation comes first, no fence follows.
Attest == buf' = Append(buf, Attestation(seq + 1, Removed, lives)) /\ seq' = seq + 1

\* FileWAL.compact() of the live writer's log object, in one piece.
CompactShared ==
    /\ at = "granted" \/ (at = "waiting" /\ pc # "writing")
    /\ Idle
    /\ IF Removed = {} THEN UNCHANGED <<logVars, seq, buf, dropped, cause>>
       ELSE Replace /\ Attest /\ cause' = cause \union OtherLives(lives)
    /\ UNCHANGED <<lives, up, batch, pc, head, detached, status, attest, compactions, stamps, acked, glued, faults>>

\* The same by a daemon with a path: it opens the log as a writer of its own.
CompactByPath ==
    /\ at = "kept"
    /\ IF Removed = {} THEN Idle /\ UNCHANGED <<logVars, detached, attest, stamps, dropped, cause>>
       ELSE /\ Replace /\ at' = "attesting" /\ UNCHANGED <<read, keep>>
            /\ attest' = <<Stamped(Attestation(1, Removed, -compactions), LastHash(file), RecordHash(1))>>
            /\ stamps' = stamps + 1 /\ detached' = up
            /\ cause' = cause \union OtherLives(-compactions)
    /\ UNCHANGED <<lives, up, seq, buf, batch, pc, head, status, compactions, acked, glued, faults>>

\* close() of that log writes the attestation.
CloseByPath ==
    /\ at = "attesting" /\ Idle /\ attest' = <<>>
    /\ Landed(attest) /\ torn' = FALSE
    /\ UNCHANGED <<writer, status, compactions, stamps, acked, dropped, cause, faults>>

DaemonDies ==
    /\ at \in {"kept", "attesting"} /\ Fault /\ Idle /\ attest' = <<>>
    /\ cause' = cause \union Lost(attest)
    /\ UNCHANGED <<logVars, writer, status, compactions, stamps, acked, dropped, glued>>

-----------------------------------------------------------------------------
Work ==
    \/ \E s \in Sagas : Write(s)
    \/ Take \/ Begin \/ WriteReturns \/ WriteRaises \/ Crash \/ Stop \/ Start
    \/ ReadShared \/ ReadByPath \/ CompactByPath \/ CloseByPath \/ DaemonDies

\* Nothing comes between reading the log and a lock that is free.
Next == CompactShared \/ (at # "granted" /\ Work)

Spec == Init /\ [][Next]_vars

-----------------------------------------------------------------------------
(* Properties                                                               *)

Queued == IF attest # <<>> THEN attest ELSE batch \o buf

\* verify() complains of a log nobody touched only for a reason: a batch was
\* rejected, an attestation is still on its way or was lost, a partial line took
\* a record along, or a compaction met records of another process
\* (integrity.py:180, base.py:327, file_wal.py:223).
BrokenForAReason ==
    Intact(file) \/ cause # {} \/ Lost(Queued) # {}

\* An acknowledged record leaves the file by a compaction that settled its saga, or
\* as the continuation of a partial line; nothing else loses it: not the swap of the
\* file, not the flush on its way meanwhile (file_wal.py:170).
AckedStays ==
    "file swapped" \in cause \/ acked \subseteq ToSet(file) \union dropped \union glued

\* A compaction drops nothing of a saga it saw unresolved, nor of one it did not see
\* at all unless that one began while it waited for the lock (recovery.py:567).
UnresolvedKept ==
    [][\A r \in dropped' \ dropped :
          r.saga \subseteq InFile(read) => r.saga \subseteq Settled(file)]_vars

\* "A chain that treats every gap as tampering would fail on a healthy log"
\* (integrity.py:12): a log without a fault verifies once the attestation is in it.
HonestLogVerifies == faults > 0 \/ Lost(Queued) # {} \/ Intact(file)

\* "keeping only unresolved sagas" (README.md:494): no record of an unresolved saga
\* is dropped.
CompactionKeepsUnresolved ==
    \A r \in dropped : \E s \in r.saga : status[s] = "settled"

\* barrier(): "Return only once every record up to `seq` is durable" (base.py:92).
AckedReadable == acked \subseteq ToSet(file) \union dropped
=============================================================================
