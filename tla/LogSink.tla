------------------------------ MODULE LogSink ------------------------------
(***************************************************************************)
(* The write-ahead log as the sagas see it: records are queued in memory,  *)
(* become durable a batch at a time or are rejected with their batch, and  *)
(* each coroutine's fence waits for the record it appended last.           *)
(* BufferedWAL is the detailed machinery behind these few steps.           *)
(***************************************************************************)
EXTENDS Integers, SequencesExt

VARIABLES
    buf,    \* records accepted and not yet written (self._buf and the batch)
    disk,   \* what a reader of the log finds
    fence,  \* per coroutine, its barrier(): none, waiting, granted, refused
    want    \* per coroutine, <<the record that fence is about>>, or <<>>

log == <<buf, disk, fence, want>>

FenceStates == {"none", "waiting", "granted", "refused"}

\* append()
Enqueue(r) ==
    /\ buf' = Append(buf, r)
    /\ UNCHANGED <<disk, fence, want>>

\* append() and barrier() with no await between them, by coroutine f.
EnqueueFenced(f, r) ==
    /\ buf' = Append(buf, r)
    /\ fence' = [fence EXCEPT ![f] = "waiting"]
    /\ want' = [want EXCEPT ![f] = <<r>>]
    /\ UNCHANGED disk

\* The flush loop wrote the k oldest records and the sink acknowledged them.
Persist(k) ==
    LET batch == SubSeq(buf, 1, k) IN
    /\ disk' = disk \o batch
    /\ buf' = SubSeq(buf, k + 1, Len(buf))
    /\ fence' = [f \in DOMAIN fence |->
                    IF fence[f] = "waiting" /\ ToSet(want[f]) \subseteq ToSet(batch)
                    THEN "granted" ELSE fence[f]]
    /\ UNCHANGED want

\* The sink rejected the k oldest records, the first j of which it had written:
\* none of them is retried, and every pending fence fails, whatever it waits for.
Reject(k, j) ==
    /\ disk' = disk \o SubSeq(buf, 1, j)
    /\ buf' = SubSeq(buf, k + 1, Len(buf))
    /\ fence' = [f \in DOMAIN fence |->
                    IF fence[f] = "waiting" THEN "refused" ELSE fence[f]]
    /\ UNCHANGED want

\* WALStalled: the fence timed out; its record is still on its way.
Stall(f) ==
    /\ fence[f] = "waiting"
    /\ fence' = [fence EXCEPT ![f] = "refused"]
    /\ UNCHANGED <<buf, disk, want>>

\* The awaiting coroutine takes the fence's answer.
Answered(f, answer) ==
    /\ fence[f] = answer
    /\ fence' = [fence EXCEPT ![f] = "none"]
    /\ want' = [want EXCEPT ![f] = <<>>]
    /\ UNCHANGED <<buf, disk>>

\* The process dies: the first k queued records reached the file.
LogCrash(k) ==
    /\ disk' = disk \o SubSeq(buf, 1, k)
    /\ buf' = <<>>
    /\ fence' = [f \in DOMAIN fence |-> "none"]
    /\ want' = [f \in DOMAIN want |-> <<>>]

-----------------------------------------------------------------------------
(* The same steps as a specification of their own, for a log used by the    *)
(* coroutines F with records of R: what BufferedWAL has to implement.  A    *)
(* close() adds two steps no saga in progress meets.                        *)

\* close() gave up on the sink: what was queued is lost but for its first j
\* records, and nobody is told.
Abandon(j) ==
    /\ disk' = disk \o SubSeq(buf, 1, j)
    /\ buf' = <<>>
    /\ UNCHANGED <<fence, want>>

\* append() and barrier() on a log that is closed: the record stays in memory.
EnqueueRefused(f, r) ==
    /\ buf' = Append(buf, r)
    /\ fence' = [fence EXCEPT ![f] = "refused"]
    /\ want' = [want EXCEPT ![f] = <<r>>]
    /\ UNCHANGED disk

LogInit(F) ==
    /\ buf = <<>> /\ disk = <<>>
    /\ fence = [f \in F |-> "none"]
    /\ want = [f \in F |-> <<>>]

LogNext(F, R) ==
    \/ \E r \in R : Enqueue(r)
    \/ \E f \in F, r \in R :
        fence[f] = "none" /\ (EnqueueFenced(f, r) \/ EnqueueRefused(f, r))
    \/ \E f \in F : Stall(f) \/ Answered(f, "granted") \/ Answered(f, "refused")
    \/ \E k \in 1..Len(buf) : Persist(k) \/ \E j \in 0..k : Reject(k, j)
    \/ \E j \in 0..Len(buf) : Abandon(j)
=============================================================================
