----------------------------- MODULE RedisLog -----------------------------
(***************************************************************************)
(* The log several nodes share in one Redis list                           *)
(* (agent_saga/wal/redis_wal.py): each node's flusher reserves global      *)
(* sequence numbers, pushes its batch and WAITs for one replica; recovery   *)
(* daemons read the list in pages and trim its head                        *)
(* (RecoveryDaemon.compact()).  Buffers and fences are BufferedWAL's       *)
(* subject: here a batch is acknowledged when _flush_batch() returns.      *)
(***************************************************************************)
EXTENDS Integers, SequencesExt

CONSTANTS
    Nodes,        \* each runs one saga, which is named by its node
    Daemons,      \* each sweeps the list
    Keepers,      \* those that compact it, too
    Size,         \* how many records each has: the last one is SAGA_COMPLETE
    Chunk,        \* the page size of read_all() and of compact()
    MaxTrouble,   \* bound: failovers and connection errors
    MaxPasses     \* bound: sweeps and compactions of the daemons

ASSUME RedisAssumption ==
    /\ Keepers \subseteq Daemons
    /\ Chunk \in Nat \ {0} /\ Size \in [Nodes -> Nat \ {0}]
    /\ {MaxTrouble, MaxPasses} \subseteq Nat

VARIABLES
    list, counter, \* the keys self.key and self.seq_key on the master
    replica,       \* {} while the replica follows; then the last it will have
    batch,         \* node: the batch taken last
    base,          \* node: "start" of the range reserved for it; 0 when written
    acked,         \* history: records of batches that were acknowledged
    at,            \* daemon: "idle", "reading", "read", "scanning", "trimming"
    start,         \* daemon: where its next page begins
    raw,           \* daemon: the records read_all() has collected
    keep,          \* daemon: keep_saga_ids
    watermark,     \* daemon: where compact() will cut
    finished,      \* history: sagas that were complete when the reading began
    disturbed,     \* history: was the list cut or replaced under the daemon?
    expendable,    \* history: records cut by a daemon that knew no reason not to
    undone,        \* history: nodes whose reservation a failover took back
    failovers, errors, passes

keys == <<list, counter>>
node == <<batch, base, acked, errors>>
reader == <<at, start, raw, keep, watermark, finished>>
cuts == <<disturbed, expendable, passes>>
vars == <<keys, replica, node, reader, cuts, undone, failovers>>

Init ==
    /\ list = <<>> /\ counter = 0 /\ replica = {}
    /\ batch = [n \in Nodes |-> <<>>]
    /\ base = [n \in Nodes |-> 0]
    /\ acked = {} /\ expendable = {} /\ undone = {}
    /\ at = [d \in Daemons |-> "idle"] /\ start = [d \in Daemons |-> 0]
    /\ raw = [d \in Daemons |-> {}] /\ keep = [d \in Daemons |-> {}]
    /\ watermark = [d \in Daemons |-> 0] /\ finished = [d \in Daemons |-> {}]
    /\ disturbed = [d \in Daemons |-> FALSE]
    /\ failovers = 0 /\ errors = 0 /\ passes = 0

\* A record, and the line that holds it.
Rec(n, k) == [saga |-> n, seq |-> k]
Id(line) == Rec(line.saga, line.seq)
Ids(lines) == {Id(lines[i]) : i \in DOMAIN lines}
Complete(records) == {n \in Nodes : Rec(n, Size[n]) \in records}

-----------------------------------------------------------------------------
(* A node: append() and _flush_batch().                                     *)

\* How far n's flusher has come: it takes everything appended since, once.
Taken(n) == IF batch[n] = <<>> THEN 0 ELSE batch[n][Len(batch[n])]

FirstIsEnd(end, len) == end
First(end, len) == end - len + 1

\* The flusher takes what was appended; INCRBY gives it one range of the counter.
Reserve(n) ==
    /\ base[n] = 0
    /\ \E seq \in Taken(n) + 1..Size[n] :
           LET new == [i \in 1..(seq - Taken(n)) |-> Taken(n) + i]
           IN  /\ batch' = [batch EXCEPT ![n] = new]
               /\ counter' = counter + Len(new)
               /\ base' = [base EXCEPT ![n] = First(counter', Len(new))]
    /\ UNCHANGED <<list, acked, errors>>

Lines(n) == [i \in DOMAIN batch[n] |->
    [saga |-> n, seq |-> batch[n][i], gseq |-> base[n] + i - 1]]
Batch(n) == {Rec(n, k) : k \in Range(batch[n])}

\* What WAIT can find: has the replica that will take over got this push?
EnoughAnyway == TRUE
Enough == replica = {}

\* RPUSH, and WAIT on the same connection.  WAIT may find too few replicas, or
\* its reply or RPUSH's is lost: the batch is in the list, not acknowledged.
Push(n) ==
    /\ base[n] # 0 /\ base' = [base EXCEPT ![n] = 0]
    /\ list' = list \o Lines(n)
    /\ \/ Enough /\ acked' = acked \cup Batch(n)
       \/ UNCHANGED acked
    /\ UNCHANGED <<counter, batch, errors>>

\* The connection fails before RPUSH reaches the server.
PushFails(n) ==
    /\ base[n] # 0 /\ base' = [base EXCEPT ![n] = 0]
    /\ failovers + errors < MaxTrouble /\ errors' = errors + 1
    /\ UNCHANGED <<keys, batch, acked>>

NodeStep == \E n \in Nodes :
    Reserve(n) \/ Push(n) \/ PushFails(n)

-----------------------------------------------------------------------------
(* The servers.                                                             *)

\* The last moment the replica that takes over knows of.
CutOff ==
    /\ replica = {}
    /\ failovers + errors < MaxTrouble /\ failovers' = failovers + 1
    /\ replica' = {[list |-> list, counter |-> counter]}
    /\ UNCHANGED <<keys, node, reader, cuts, undone>>

\* It is promoted: what it does not have is gone, the numbers handed out
\* included.  A node about to push connects to the new master.
Failover == \E known \in replica :
    /\ list' = known.list /\ counter' = known.counter /\ replica' = {}
    /\ undone' = undone \cup {n \in Nodes : base[n] # 0}
    /\ disturbed' = [d \in Daemons |-> at[d] # "idle"]
    /\ UNCHANGED <<node, reader, expendable, passes, failovers>>

-----------------------------------------------------------------------------
(* A daemon: read_all(), RecoveryDaemon.compact() and RedisWAL.compact().   *)

Page(d) == SubSeq(list, start[d] + 1, Min({start[d] + Chunk, Len(list)}))
IsLastIfFull(page) == Len(page) <= Chunk
IsLast(page) == Len(page) < Chunk

StartReading(d) ==
    /\ at[d] = "idle" /\ passes < MaxPasses /\ passes' = passes + 1
    /\ at' = [at EXCEPT ![d] = "reading"]
    /\ start' = [start EXCEPT ![d] = 0] /\ raw' = [raw EXCEPT ![d] = {}]
    /\ finished' = [finished EXCEPT ![d] = Complete(Ids(list))]
    /\ disturbed' = [disturbed EXCEPT ![d] = FALSE]
    /\ UNCHANGED <<list, keep, watermark, expendable>>

ReadPage(d) ==
    /\ at[d] = "reading"
    /\ raw' = [raw EXCEPT ![d] = @ \cup Ids(Page(d))]
    /\ IF IsLast(Page(d))
       THEN at' = [at EXCEPT ![d] = "read"] /\ start' = [start EXCEPT ![d] = 0]
       ELSE start' = [start EXCEPT ![d] = @ + Chunk] /\ UNCHANGED at
    /\ UNCHANGED <<list, keep, watermark, finished, disturbed, expendable, passes>>

\* What parse_wal() makes of the records: every saga, and those without an end.
Seen(d) == {r.saga : r \in raw[d]}
Dangling(d) == Seen(d) \ Complete(raw[d])

\* A sweep reads and does not compact.
Swept(d) ==
    /\ at[d] = "read"
    /\ at' = [at EXCEPT ![d] = "idle"] /\ raw' = [raw EXCEPT ![d] = {}]
    /\ finished' = [finished EXCEPT ![d] = {}] /\ disturbed' = [disturbed EXCEPT ![d] = FALSE]
    /\ UNCHANGED <<list, start, keep, watermark, expendable, passes>>

\* Kept: what is unresolved, and what was written within the grace period.
KeptRecent(d, recent) == recent
Kept(d, recent) == Dangling(d) \cup recent

StartCompaction(d) ==
    /\ at[d] = "read" /\ d \in Keepers
    /\ \E recent \in SUBSET Seen(d) : keep' = [keep EXCEPT ![d] = Kept(d, recent)]
    /\ at' = [at EXCEPT ![d] = "scanning"]
    /\ finished' = [finished EXCEPT ![d] = {}] /\ disturbed' = [disturbed EXCEPT ![d] = FALSE]
    /\ UNCHANGED <<list, start, raw, watermark, expendable, passes>>

\* One page of the search for the first record that is kept.
CutsAt(d) == {i \in DOMAIN Page(d) : Page(d)[i].saga \in keep[d]}
Before(d) == start[d] + (IF CutsAt(d) = {} THEN Len(Page(d)) ELSE Min(CutsAt(d)) - 1)

ScanPage(d) ==
    /\ at[d] = "scanning"
    /\ IF CutsAt(d) # {} \/ IsLast(Page(d))
       THEN /\ at' = [at EXCEPT ![d] = "trimming"] /\ start' = [start EXCEPT ![d] = 0]
            /\ watermark' = [watermark EXCEPT ![d] = Before(d)]
       ELSE start' = [start EXCEPT ![d] = Before(d)] /\ UNCHANGED <<at, watermark>>
    /\ UNCHANGED <<list, raw, keep, finished, disturbed, expendable, passes>>

\* LTRIM, by position: whatever stands before the watermark now is gone.
Cut(d) == SubSeq(list, 1, Min({watermark[d], Len(list)}))

Trim(d) ==
    /\ at[d] = "trimming"
    /\ list' = SubSeq(list, watermark[d] + 1, Len(list))
    /\ expendable' = expendable \cup
           {r \in Ids(Cut(d)) : r.saga \notin Dangling(d) \/ disturbed[d]}
    /\ disturbed' = [e \in Daemons |-> e # d /\ (disturbed[e] \/ (at[e] # "idle" /\ Cut(d) # <<>>))]
    /\ at' = [at EXCEPT ![d] = "idle"]
    /\ raw' = [raw EXCEPT ![d] = {}] /\ keep' = [keep EXCEPT ![d] = {}]
    /\ watermark' = [watermark EXCEPT ![d] = 0]
    /\ UNCHANGED <<start, finished, passes>>

DaemonStep == \E d \in Daemons :
    \/ StartReading(d) \/ ReadPage(d) \/ Swept(d)
    \/ StartCompaction(d) \/ ScanPage(d) \/ Trim(d)

Next ==
    \/ NodeStep /\ UNCHANGED <<replica, reader, cuts, undone, failovers>>
    \/ CutOff
    \/ Failover
    \/ DaemonStep /\ UNCHANGED <<counter, replica, node, undone, failovers>>

Spec == Init /\ [][Next]_vars

-----------------------------------------------------------------------------
(* What a fleet relies on.                                                  *)

\* A record whose batch was acknowledged after the replica had it stays in the
\* list, across a failover, until a compaction cuts it that had not read its
\* saga as unresolved (or whose positions another cut or a failover moved).
AckedSurvives == acked \subseteq Ids(list) \cup expendable

\* A node's records are numbered in the order it appended them, which is the
\* order parse_wal() sorts them into and rollback reverses, and no number is
\* given twice - unless a failover took a reservation back.
GlobalOrder ==
    \A i, j \in DOMAIN list : i < j =>
        /\ undone = {} => list[i].gseq # list[j].gseq
        /\ list[i].saga = list[j].saga /\ list[i].saga \notin undone =>
               list[i].seq < list[j].seq /\ list[i].gseq < list[j].gseq

\* A saga that was complete in the list when a daemon began to read does not
\* look dangling to it, whatever is pushed between two pages: it would be
\* compensated - unless the list was cut or replaced between them.
FinishedLooksFinished ==
    \A d \in Daemons : at[d] = "read" /\ ~disturbed[d] => finished[d] \cap Dangling(d) = {}

-----------------------------------------------------------------------------
(* What does not hold: see the README.                                      *)

\* redis_wal.py, compact(): "it can never remove a record an unresolved saga
\* still needs".
NeverNeeded == [][list' # list /\ replica' = replica =>
    \A r \in Ids(list) \ Ids(list') : r.saga \in Complete(Ids(list))]_vars

\* The same without the exception: a list cut between two pages of a read.
NeverResurrected ==
    \A d \in Daemons : at[d] = "read" /\ failovers = 0 => finished[d] \cap Dangling(d) = {}

\* redis_wal.py, _flush_batch(): cross-saga order and unique ids.
NumbersUnique == \A i, j \in DOMAIN list : i < j => list[i].gseq # list[j].gseq
=============================================================================
