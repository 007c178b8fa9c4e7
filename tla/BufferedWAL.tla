---------------------------- MODULE BufferedWAL ----------------------------
(***************************************************************************)
(* The write-ahead log's shared machinery (agent_saga/wal/base.py) over    *)
(* the file sink (agent_saga/wal/file_wal.py): the synchronous append, the *)
(* backpressure policy, the flush loop with its group commit, the          *)
(* durability fence `barrier()`, and a close that never waits for ever.    *)
(*                                                                         *)
(* A record is its sequence number; payloads, encryption and the hash      *)
(* chain are abstracted.  Every piece of code between two awaits is one    *)
(* action.  A crash needs no action here: it keeps `disk` and forgets the  *)
(* rest, and every property below speaks of `disk` in every state.         *)
(***************************************************************************)
EXTENDS Integers, SequencesExt

CONSTANTS
    Clients,        \* tasks that append and fence
    Policies,       \* the backpressure policies a log may be built with
    MaxBuffer,      \* max_buffer
    BarrierTimeout, \* FALSE models barrier_timeout=None: fences wait for ever
    MaxSeq,         \* bound: records ever accepted
    MaxDropped      \* bound: records ever shed

ASSUME WALAssumption ==
    /\ Policies \subseteq {"RAISE", "BLOCK", "DROP_SILENT"}
    /\ MaxBuffer \in Nat \ {0}
    /\ BarrierTimeout \in BOOLEAN
    /\ MaxSeq \in Nat
    /\ MaxDropped \in Nat

VARIABLES
    policy,     \* self.backpressure, fixed at construction
    buf,        \* self._buf
    seq,        \* self._seq
    durableSeq, \* self._durable_seq
    waiters,    \* self._waiters: [client, target]
    wake,       \* self._wake
    dropped,    \* self.dropped
    flusher,    \* where the flush task stands
    batch,      \* what the flush task has taken and is writing
    closer,     \* where close() stands; # "open" is self._closing
    disk,       \* what a reader of the file finds
    rejected,   \* history: records of batches the sink did not acknowledge
    pc,         \* what each client was last told
    target,     \* the sequence number of each client's last fence
    own         \* was that fence raised in the same breath as its append?

config  == <<policy>>
memory  == <<buf, seq, wake, dropped>>
flush   == <<flusher, batch, closer>>
storage == <<durableSeq, disk, rejected>>
client  == <<pc, target, own>>
vars    == <<config, memory, flush, storage, waiters, client>>

Init ==
    /\ policy \in Policies
    /\ buf = <<>> /\ seq = 0 /\ wake = FALSE /\ dropped = 0
    /\ flusher = "sleeping" /\ batch = <<>> /\ closer = "open"
    /\ durableSeq = 0 /\ disk = <<>> /\ rejected = {}
    /\ waiters = {}
    /\ pc = [c \in Clients |-> "idle"]
    /\ target = [c \in Clients |-> 0]
    /\ own = [c \in Clients |-> FALSE]

-----------------------------------------------------------------------------
(* The hot path: append and barrier.                                        *)

Full == Len(buf) >= MaxBuffer

\* What append() does once the policy has let the record in.
Push ==
    /\ seq < MaxSeq
    /\ seq' = seq + 1
    /\ buf' = Append(buf, seq + 1)
    /\ wake' = TRUE
    /\ UNCHANGED dropped

Tell(c, what, t, mine) ==
    /\ pc' = [pc EXCEPT ![c] = what]
    /\ target' = [target EXCEPT ![c] = t]
    /\ own' = [own EXCEPT ![c] = mine]

\* append() alone, as for STEP_COMMITTED, COMPENSATED or LEASE_RENEW.
AppendRecord(c) ==
    /\ pc[c] = "idle"
    /\ ~Full \/ policy = "BLOCK"
    /\ Push
    /\ UNCHANGED <<config, flush, storage, waiters, client>>

\* append() and barrier() with no await between them, as every fenced record
\* of the engine is written.  Under BLOCK ensure_capacity() polls first, until
\* there is room or there is no flush task.
FencedAppend(c) ==
    /\ pc[c] = "idle"
    /\ ~Full \/ (policy = "BLOCK" /\ closer = "closed")
    /\ Push
    /\ IF closer = "closed"
       THEN /\ Tell(c, "refused", seq + 1, TRUE)
            /\ UNCHANGED waiters
       ELSE /\ Tell(c, "waiting", seq + 1, TRUE)
            /\ waiters' = waiters \union {[client |-> c, target |-> seq + 1]}
    /\ UNCHANGED <<config, flush, storage>>

\* A full buffer under RAISE: WALBackpressure, and nothing was recorded.
Backpressure(c) ==
    /\ pc[c] = "idle"
    /\ Full /\ policy = "RAISE"
    /\ Tell(c, "refused", 0, FALSE)
    /\ UNCHANGED <<config, memory, flush, storage, waiters>>

\* A full buffer under DROP_SILENT: append() returns -1, and barrier(-1) finds
\* it below the durable sequence number and returns at once.
DropRecord(c) ==
    /\ pc[c] = "idle"
    /\ Full /\ policy = "DROP_SILENT" /\ dropped < MaxDropped
    /\ dropped' = dropped + 1
    /\ Tell(c, "released", -1, TRUE)
    /\ UNCHANGED <<config, buf, seq, wake, flush, storage, waiters>>

\* barrier(t) for a record appended earlier, by this client or another.
Fence(c, t) ==
    /\ pc[c] = "idle"
    /\ IF durableSeq >= t
       THEN /\ Tell(c, "released", t, FALSE)
            /\ UNCHANGED <<waiters, wake>>
       ELSE IF closer = "closed"
       THEN /\ Tell(c, "refused", t, FALSE)
            /\ UNCHANGED <<waiters, wake>>
       ELSE /\ Tell(c, "waiting", t, FALSE)
            /\ waiters' = waiters \union {[client |-> c, target |-> t]}
            /\ wake' = TRUE
    /\ UNCHANGED <<config, buf, seq, dropped, flush, storage>>

\* Mutant: the timeout is swallowed and barrier() returns.
FenceTimeoutSwallowed(c) ==
    /\ BarrierTimeout
    /\ pc[c] = "waiting"
    /\ waiters' = {w \in waiters : w.client # c}
    /\ pc' = [pc EXCEPT ![c] = "released"]
    /\ UNCHANGED <<config, memory, flush, storage, target, own>>

\* Mutant: the waiter is dropped but its future is never answered.
FenceTimeoutSilent(c) ==
    /\ BarrierTimeout
    /\ pc[c] = "waiting"
    /\ waiters' = {w \in waiters : w.client # c}
    /\ UNCHANGED <<config, memory, flush, storage, client>>

\* The fence waited barrier_timeout: the waiter is removed, WALStalled raised.
FenceTimeout(c) ==
    /\ BarrierTimeout
    /\ pc[c] = "waiting"
    /\ waiters' = {w \in waiters : w.client # c}
    /\ pc' = [pc EXCEPT ![c] = "refused"]
    /\ UNCHANGED <<config, memory, flush, storage, target, own>>

\* The client goes on with what its fence, or append(), told it.
Resume(c) ==
    /\ pc[c] \in {"released", "refused"}
    /\ Tell(c, "idle", 0, FALSE)
    /\ UNCHANGED <<config, memory, flush, storage, waiters>>

-----------------------------------------------------------------------------
(* The flush loop.                                                          *)

\* Mutant: off by one, the fence of the last record is left waiting.
ResolveStrict(d) ==
    /\ waiters' = {w \in waiters : w.target >= d}
    /\ pc' = [c \in Clients |->
                 IF \E w \in waiters : w.client = c /\ w.target < d
                 THEN "released" ELSE pc[c]]
    /\ UNCHANGED <<target, own>>

\* _resolve_waiters() at durable sequence number d.
Resolve(d) ==
    /\ waiters' = {w \in waiters : w.target > d}
    /\ pc' = [c \in Clients |->
                 IF \E w \in waiters : w.client = c /\ w.target <= d
                 THEN "released" ELSE pc[c]]
    /\ UNCHANGED <<target, own>>

\* _fail_waiters(): every pending fence learns of the failure, whatever
\* record it waits for.
FailWaiters ==
    /\ waiters' = {}
    /\ pc' = [c \in Clients |->
                 IF \E w \in waiters : w.client = c THEN "refused" ELSE pc[c]]
    /\ UNCHANGED <<target, own>>

\* Mutant: _take() returns one record and clears the deque.
FlushTakeOne ==
    /\ flusher = "sleeping" /\ wake /\ buf # <<>>
    /\ wake' = FALSE
    /\ batch' = SubSeq(buf, 1, 1) /\ buf' = <<>>
    /\ flusher' = "writing"
    /\ UNCHANGED <<config, seq, dropped, closer, storage, waiters, client>>

\* wake.wait() returned: clear it and take all that is queued.  An empty take
\* resolves what it can and, when closing, ends the task.
FlushTake ==
    /\ flusher = "sleeping" /\ wake
    /\ wake' = FALSE
    /\ batch' = buf /\ buf' = <<>>
    /\ IF buf = <<>>
       THEN /\ flusher' = IF closer = "open" THEN "sleeping" ELSE "done"
            /\ Resolve(durableSeq)
       ELSE /\ flusher' = "writing"
            /\ UNCHANGED <<waiters, client>>
    /\ UNCHANGED <<config, seq, dropped, closer, storage>>

\* What the task does when _flush_once() returns: sleep again or, when
\* closing, flush once more and end.
AfterFlush ==
    \/ /\ flusher = "writing" /\ closer = "open"
       /\ flusher' = "sleeping" /\ batch' = <<>>
       /\ UNCHANGED buf
    \/ /\ flusher = "writing" /\ closer # "open" /\ buf # <<>>
       /\ flusher' = "draining" /\ batch' = buf /\ buf' = <<>>
    \/ /\ flusher = "draining" \/ (closer # "open" /\ buf = <<>>)
       /\ flusher' = "done" /\ batch' = <<>>
       /\ UNCHANGED buf

\* Mutant: the wakeup is cleared after the write instead of before the take.
FlushOkClears ==
    /\ flusher \in {"writing", "draining"}
    /\ disk' = disk \o batch
    /\ durableSeq' = Last(batch)
    /\ Resolve(Last(batch))
    /\ AfterFlush
    /\ wake' = FALSE
    /\ UNCHANGED <<config, seq, dropped, closer, rejected>>

\* The sink acknowledged the batch: the fence moves to its last record.
FlushOk ==
    /\ flusher \in {"writing", "draining"}
    /\ disk' = disk \o batch
    /\ durableSeq' = Last(batch)
    /\ Resolve(Last(batch))
    /\ AfterFlush
    /\ UNCHANGED <<config, seq, wake, dropped, closer, rejected>>

\* Mutant: the durable sequence number moves in a `finally`.
FlushFailFinally(k) ==
    /\ flusher \in {"writing", "draining"}
    /\ disk' = disk \o SubSeq(batch, 1, k)
    /\ rejected' = rejected \union ToSet(batch)
    /\ durableSeq' = Last(batch)
    /\ Resolve(Last(batch))
    /\ AfterFlush
    /\ UNCHANGED <<config, seq, wake, dropped, closer>>

\* The sink answered with an error, having written the first k records.  The
\* batch is not put back.
FlushFail(k) ==
    /\ flusher \in {"writing", "draining"}
    /\ disk' = disk \o SubSeq(batch, 1, k)
    /\ rejected' = rejected \union ToSet(batch)
    /\ FailWaiters
    /\ AfterFlush
    /\ UNCHANGED <<config, seq, wake, dropped, closer, durableSeq>>

-----------------------------------------------------------------------------
(* close()                                                                  *)

CloseBegin ==
    /\ closer = "open"
    /\ closer' = "closing"
    /\ wake' = TRUE
    /\ UNCHANGED <<config, buf, seq, dropped, flusher, batch, storage, waiters,
                   client>>

CloseEnd ==
    /\ closer = "closing" /\ flusher = "done"
    /\ closer' = "closed"
    /\ UNCHANGED <<config, memory, flusher, batch, storage, waiters, client>>

\* The grace period ran out on a write still in flight: the task is cancelled.
\* What follows runs on the event loop's own thread without an await: the
\* synchronous flush of the buffer, then _close_sink(), which joins the worker
\* still in the in-flight write.  Until both return the whole loop is blocked.
CloseCancel ==
    /\ closer = "closing" /\ flusher \in {"writing", "draining"}
    /\ closer' = "joining" /\ flusher' = "done"
    /\ UNCHANGED <<config, memory, batch, storage, waiters, client>>

\* Mutant: the worker is joined after the synchronous flush has written.
JoinFlushedFirst ==
    /\ closer = "joining" /\ buf # <<>>
    /\ disk' = disk \o buf \o batch
    /\ durableSeq' = Last(buf)
    /\ Resolve(Last(buf))
    /\ closer' = "closed" /\ batch' = <<>> /\ buf' = <<>>
    /\ UNCHANGED <<config, seq, wake, dropped, flusher, rejected>>

\* The buffer was flushed.  An fsync that succeeds covers the in-flight batch
\* too: same file, written before.
JoinFlushed ==
    /\ closer = "joining" /\ buf # <<>>
    /\ disk' = disk \o batch \o buf
    /\ durableSeq' = Last(buf)
    /\ Resolve(Last(buf))
    /\ closer' = "closed" /\ batch' = <<>> /\ buf' = <<>>
    /\ UNCHANGED <<config, seq, wake, dropped, flusher, rejected>>

\* Nothing was buffered, or the synchronous write failed: the first k of the
\* in-flight and buffered records were written, and nobody is told.
JoinUnflushed(k) ==
    /\ closer = "joining"
    /\ disk' = disk \o SubSeq(batch \o buf, 1, k)
    /\ rejected' = rejected \union ToSet(batch \o buf)
    /\ closer' = "closed" /\ batch' = <<>> /\ buf' = <<>>
    /\ UNCHANGED <<config, seq, wake, dropped, flusher, durableSeq, waiters,
                   client>>

-----------------------------------------------------------------------------
FlushAnswer ==
    \/ FlushOk
    \/ \E k \in 0..Len(batch) : FlushFail(k)

Join ==
    \/ JoinFlushed
    \/ \E k \in 0..Len(batch \o buf) : JoinUnflushed(k)

\* A client runs on the event loop, so not while close() blocks it.
ClientStep(c) ==
    /\ closer # "joining"
    /\ \/ AppendRecord(c)
       \/ FencedAppend(c)
       \/ Backpressure(c)
       \/ DropRecord(c)
       \/ \E t \in 1..seq : Fence(c, t)
       \/ FenceTimeout(c)
       \/ Resume(c)

Next ==
    \/ \E c \in Clients : ClientStep(c)
    \/ FlushTake
    \/ FlushAnswer
    \/ CloseBegin
    \/ CloseEnd
    \/ CloseCancel
    \/ Join

Spec == Init /\ [][Next]_vars

\* The event loop runs the flush task and a close() in progress, whose grace
\* period ends.  Nothing is assumed of the sink.
FairSpec ==
    /\ Spec
    /\ WF_vars(FlushTake)
    /\ WF_vars(CloseEnd)
    /\ WF_vars(CloseCancel)

\* The sink answers every write.
SinkAnswers == WF_vars(FlushAnswer)

\* barrier_timeout is set, and the timers of the event loop go off.
TimersRun == \A c \in Clients : WF_vars(closer # "joining" /\ FenceTimeout(c))

-----------------------------------------------------------------------------
(* Properties                                                               *)

TypeOK ==
    /\ policy \in Policies
    /\ buf \in Seq(Nat) /\ batch \in Seq(Nat) /\ disk \in Seq(Nat)
    /\ seq \in Nat /\ durableSeq \in Nat /\ dropped \in Nat
    /\ wake \in BOOLEAN
    /\ flusher \in {"sleeping", "writing", "draining", "done"}
    /\ closer \in {"open", "closing", "joining", "closed"}
    /\ rejected \subseteq Nat
    /\ waiters \subseteq [client : Clients, target : Nat]
    /\ pc \in [Clients -> {"idle", "waiting", "released", "refused"}]
    /\ target \in [Clients -> Nat \union {-1}]
    /\ own \in [Clients -> BOOLEAN]

\* A record append() accepted is on disk, in flight, buffered, or part of a
\* batch the sink did not acknowledge; and the durable sequence number covers
\* no record whose write is still undecided.  _take() empties the deque before
\* the write, so a record dropped between the two would be in no place at all.
NoRecordVanishes ==
    /\ 1..seq = ToSet(disk) \union ToSet(batch) \union ToSet(buf) \union rejected
    /\ \A s \in ToSet(batch) \union ToSet(buf) : s > durableSeq /\ s \notin ToSet(disk)

\* A client released from the fence it raised with its own append finds its
\* record on disk: "intent is durable before the side effect".  DROP_SILENT
\* gives this up by design.
FenceHonest ==
    \A c \in Clients :
        policy # "DROP_SILENT" /\ pc[c] = "released" /\ own[c]
            => target[c] \in ToSet(disk)

\* What any fence is worth, raised at any time for any record: below a granted
\* one the only records missing from disk were in a batch the sink rejected.
OnlyRejectedMissing ==
    \A c \in Clients :
        pc[c] = "released" => 1..target[c] \subseteq ToSet(disk) \union rejected

\* The contract BaseWAL.barrier() states: "Return only once every record up to
\* `seq` is durable."  A rejected batch is not retried, and the next batch
\* moves the durable sequence number past it.
BarrierContract ==
    \A c \in Clients :
        pc[c] = "released" => 1..target[c] \subseteq ToSet(disk)

\* Records reach the file in the order append() numbered them, each once, also
\* across failed batches and the synchronous flush of a cancelled close.
DiskInOrder ==
    \A i, j \in 1..Len(disk) : i < j => disk[i] < disk[j]

\* No lost wakeup: with a sink that answers, a fence raised while the log is
\* open is answered, or close() has begun.  The exception is a fence for a
\* record whose batch was rejected: with no later append nothing ever moves the
\* durable sequence number past it.
NoLostWakeup ==
    SinkAnswers => \A c \in Clients :
        pc[c] = "waiting" /\ closer = "open" /\ target[c] \notin rejected
            ~> pc[c] # "waiting" \/ closer # "open"

\* A sink that never answers hangs no fence while the log is open.
FenceAnswered ==
    TimersRun => \A c \in Clients :
        pc[c] = "waiting" /\ closer = "open"
            ~> pc[c] # "waiting" \/ closer # "open"

\* close() comes back even when the sink never answers: "After the grace period
\* we cancel and release the sink regardless."
CloseReturns == closer = "closing" ~> closer = "closed"

=============================================================================
