--------------------------- MODULE WALRefinement ---------------------------
(***************************************************************************)
(* BufferedWAL implements LogSink: the flush task, its batches, waiters,   *)
(* wakeups and close() behind the few steps a saga relies on.  Fences for  *)
(* somebody else's record are invisible at that level, and a log built     *)
(* with DROP_SILENT promises less: it grants fences for records it shed.   *)
(***************************************************************************)
EXTENDS BufferedWAL

Answer == [idle |-> "none", waiting |-> "waiting",
           released |-> "granted", refused |-> "refused"]

Queue  == batch \o buf
Fences == [c \in Clients |-> IF own[c] THEN Answer[pc[c]] ELSE "none"]
Wants  == [c \in Clients |-> IF own[c] THEN <<target[c]>> ELSE <<>>]

Log == INSTANCE LogSink WITH buf <- Queue, disk <- disk,
                             fence <- Fences, want <- Wants

\* Every step of the machinery is a step of the log the sagas rely on, or none:
\* records leave the queue from the front and in one piece, a fence of one's own
\* is granted exactly when its record is written with an acknowledged batch, and
\* a rejected batch answers every fence that waits.
ImplementsLogSink ==
    /\ Log!LogInit(Clients)
    /\ [][policy = "DROP_SILENT" \/ Log!LogNext(Clients, 1..MaxSeq)]_(Log!log)
=============================================================================
