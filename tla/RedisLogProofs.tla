----------------------------- MODULE RedisLogProofs -----------------------------
(***************************************************************************)
(* Proofs about the log that nodes share in one Redis list, for any nodes, *)
(* daemons, lengths, pages and bounds: what was acknowledged survives a    *)
(* failover, the numbers order every saga, and a finished saga looks       *)
(* finished to whoever reads the list page by page.                        *)
(***************************************************************************)
EXTENDS RedisLog, SequenceTheorems, WellFoundedInduction, TLAPS

-----------------------------------------------------------------------------
(* Parts of the list, and its first position with a property                *)

\* ToSet by positions.
LEMMA ToSetDef ==
    ASSUME NEW S, NEW s \in Seq(S)
    PROVE  ToSet(s) = {s[i] : i \in 1..Len(s)} /\ ToSet(s) \subseteq S
BY DEF ToSet

\* A page of the list from its head.
LEMMA PrefixProperties ==
    ASSUME NEW S, NEW s \in Seq(S), NEW k \in 0..Len(s)
    PROVE  /\ SubSeq(s, 1, k) \in Seq(S)
           /\ Len(SubSeq(s, 1, k)) = k
           /\ \A i \in 1..k : SubSeq(s, 1, k)[i] = s[i]
           /\ ToSet(SubSeq(s, 1, k)) \subseteq ToSet(s)
<1> DEFINE p == SubSeq(s, 1, k)
<1>1. p \in Seq(S) /\ Len(p) = k /\ \A i \in 1..k : p[i] = s[i]
    <2>1. \A i \in 1..k : s[i] \in S
        OBVIOUS
    <2>2. /\ p \in Seq(S)
          /\ Len(p) = IF 1 <= k THEN k - 1 + 1 ELSE 0
          /\ \A i \in 1..(k - 1 + 1) : p[i] = s[1 + i - 1]
        BY <2>1, SubSeqProperties
    <2> QED
        BY <2>2
<1>2. ToSet(p) = {p[i] : i \in 1..k} /\ ToSet(s) = {s[i] : i \in 1..Len(s)}
    BY <1>1, ToSetDef
<1>3. ToSet(p) \subseteq ToSet(s)
    BY <1>1, <1>2
<1> QED
    BY <1>1, <1>3

\* The first of a set of positions.
LEMMA MinExists ==
    ASSUME NEW T, T \subseteq Nat, T # {}
    PROVE  Min(T) \in T /\ \A y \in T : Min(T) <= y
<1> DEFINE R == {ss \in Nat \X Nat : ss[1] < ss[2]}
<1>1. IsWellFoundedOn(R, Nat)
    BY NatLessThanWellFounded DEF OpToRel
<1>2. \A x, y \in Nat : y < x => <<y, x>> \in R
    OBVIOUS
<1>3. PICK x \in T : \A y \in T : ~(<<y, x>> \in R)
    <2> HIDE DEF R
    <2> QED
        BY <1>1, WFMin
<1>4. \A y \in T : x <= y
    <2> SUFFICES ASSUME NEW y \in T PROVE x <= y
        OBVIOUS
    <2>1. x \in Nat /\ y \in Nat /\ ~(y < x)
        <3> HIDE DEF R
        <3> QED
            BY <1>2, <1>3
    <2> QED
        BY <2>1
<1> QED
    BY <1>4 DEF Min

-----------------------------------------------------------------------------
(* The inductive invariant.                                                 *)

Line == [saga : Nodes, seq : Nat, gseq : Nat]
Record == [saga : Nodes, seq : Nat]

ListType ==
    /\ list \in Seq(Line) /\ counter \in Nat
    /\ \A known \in replica :
           known.list \in Seq(Line) /\ known.counter \in Nat /\ known.counter <= counter

NodeType ==
    /\ DOMAIN batch = Nodes /\ \A n \in Nodes : batch[n] \in Seq(Nat)
    /\ base \in [Nodes -> Nat]

DaemonType ==
    /\ at \in [Daemons -> {"idle", "reading", "read", "scanning", "trimming"}]
    /\ start \in [Daemons -> Nat] /\ watermark \in [Daemons -> Nat]
    /\ raw \in [Daemons -> SUBSET Record] /\ keep \in [Daemons -> SUBSET Nodes]
    /\ finished \in [Daemons -> SUBSET Nodes] /\ disturbed \in [Daemons -> BOOLEAN]

\* A batch is in append order; a reservation covers it, unless a failover took
\* the reservation back.
Batches ==
    \A n \in Nodes :
        /\ \A i, j \in 1..Len(batch[n]) : i < j => batch[n][i] < batch[n][j]
        /\ base[n] # 0 => Len(batch[n]) > 0
        /\ base[n] # 0 /\ n \notin undone => base[n] + Len(batch[n]) - 1 <= counter

\* The lines of a list whose counter stands at k: each was taken by its flusher
\* before anything that is still to be pushed, and has a number from the counter.
Numbered(L, k) ==
    \A i \in 1..Len(L) :
        /\ L[i].seq <= Taken(L[i].saga) /\ L[i].gseq > 0
        /\ base[L[i].saga] # 0 => L[i].seq < batch[L[i].saga][1]
        /\ L[i].saga \notin undone => L[i].gseq <= k

InOrder(L) ==
    \A i, j \in 1..Len(L) :
        i < j /\ L[i].saga = L[j].saga /\ L[i].saga \notin undone =>
            L[i].seq < L[j].seq /\ L[i].gseq < L[j].gseq

Distinct(L) ==
    undone = {} => \A i, j \in 1..Len(L) : i < j => L[i].gseq # L[j].gseq

\* Both servers' lists are in order, so that either may go on.
Lists ==
    /\ Numbered(list, counter) /\ InOrder(list) /\ Distinct(list)
    /\ \A known \in replica :
           Numbered(known.list, known.counter) /\ InOrder(known.list) /\ Distinct(known.list)

\* The numbers handed out and not used yet.
Busy == {n \in Nodes : base[n] # 0}
Numbers(n) == base[n]..(base[n] + Len(batch[n]) - 1)

Pending ==
    /\ \A n \in Busy \ undone : \A i \in 1..Len(list) :
           list[i].saga = n => list[i].gseq < base[n]
    /\ undone = {} => \A n \in Busy :
           /\ \A i \in 1..Len(list) : list[i].gseq \notin Numbers(n)
           /\ \A m \in Busy : m # n => Numbers(n) \intersect Numbers(m) = {}

\* Both lists have what was acknowledged.
Survives ==
    /\ acked \subseteq Ids(list) \union expendable
    /\ \A known \in replica : acked \subseteq Ids(known.list) \union expendable

\* What a daemon is about to cut, if nothing moved under it, it need not keep.
Clear(d, k) == \A i \in 1..k : i \in 1..Len(list) /\ list[i].saga \notin keep[d]

Scans(d) ==
    /\ at[d] = "read" => start[d] = 0
    /\ at[d] \in {"scanning", "trimming"} => Dangling(d) \subseteq keep[d]
    /\ at[d] = "scanning" /\ ~disturbed[d] => Clear(d, start[d])
    /\ at[d] = "trimming" /\ ~disturbed[d] => Clear(d, watermark[d])

\* The end of a saga that was finished is read, or lies ahead of the reader.
Ahead(d, r) == \E i \in 1..Len(list) : i > start[d] /\ Id(list[i]) = r

Reads(d) ==
    ~disturbed[d] =>
        /\ at[d] = "reading" => \A n \in finished[d] :
               Rec(n, Size[n]) \in raw[d] \/ Ahead(d, Rec(n, Size[n]))
        /\ at[d] = "read" => \A n \in finished[d] : Rec(n, Size[n]) \in raw[d]

Passes == \A d \in Daemons : Scans(d) /\ Reads(d)

IInv ==
    /\ ListType /\ NodeType /\ DaemonType
    /\ Batches /\ Lists /\ Pending
    /\ Survives /\ Passes

-----------------------------------------------------------------------------
(* Segments of a list.                                                      *)

LEMMA MinOfTwo ==
    ASSUME NEW a \in Nat, NEW b \in Nat
    PROVE  /\ Min({a, b}) \in Nat
           /\ Min({a, b}) = IF a <= b THEN a ELSE b
<1>1. {a, b} \subseteq Nat /\ {a, b} # {}
    OBVIOUS
<1>2. Min({a, b}) \in {a, b} /\ \A y \in {a, b} : Min({a, b}) <= y
    BY <1>1, MinExists
<1> QED
    BY <1>2

LEMMA Segment ==
    ASSUME NEW S, NEW s \in Seq(S), NEW m \in Nat, m > 0, NEW b \in Nat, b <= Len(s)
    PROVE  /\ SubSeq(s, m, b) \in Seq(S)
           /\ Len(SubSeq(s, m, b)) = IF m <= b THEN b - m + 1 ELSE 0
           /\ \A i \in 1..Len(SubSeq(s, m, b)) :
                  m + i - 1 \in m..b /\ SubSeq(s, m, b)[i] = s[m + i - 1]
<1>1. \A i \in m..b : s[i] \in S
    OBVIOUS
<1>2. /\ SubSeq(s, m, b) \in Seq(S)
      /\ Len(SubSeq(s, m, b)) = IF m <= b THEN b - m + 1 ELSE 0
      /\ \A i \in 1..(b - m + 1) : SubSeq(s, m, b)[i] = s[m + i - 1]
    BY <1>1, SubSeqProperties
<1> QED
    BY <1>2

\* M is L without its first k lines.
Without(L, k, M) ==
    /\ M \in Seq(Line) /\ k \in Nat
    /\ \A i \in 1..Len(M) : i + k \in 1..Len(L) /\ M[i] = L[i + k]

LEMMA TrimmedList ==
    ASSUME ListType, NEW k \in Nat
    PROVE  /\ Without(list, k, SubSeq(list, k + 1, Len(list)))
           /\ \A i \in 1..Len(list) : i > k =>
                  i - k \in 1..Len(SubSeq(list, k + 1, Len(list)))
<1> DEFINE M == SubSeq(list, k + 1, Len(list))
<1>1. list \in Seq(Line) /\ Len(list) \in Nat
    BY DEF ListType
<1>2. /\ M \in Seq(Line)
      /\ Len(M) = IF k + 1 <= Len(list) THEN Len(list) - (k + 1) + 1 ELSE 0
      /\ \A i \in 1..Len(M) : k + 1 + i - 1 \in (k + 1)..Len(list) /\ M[i] = list[k + 1 + i - 1]
    <2>1. k + 1 \in Nat /\ k + 1 > 0 /\ Len(list) <= Len(list)
        BY <1>1
    <2> QED
        BY <1>1, <2>1, Segment
<1> HIDE DEF M
<1>3. \A i \in 1..Len(M) : i + k \in 1..Len(list) /\ M[i] = list[i + k]
    <2>1. \A i \in 1..Len(M) : k + 1 + i - 1 = i + k
        BY <1>2
    <2> QED
        BY <1>1, <1>2, <2>1
<1>4. \A i \in 1..Len(list) : i > k => i - k \in 1..Len(M)
    BY <1>1, <1>2
<1>5. Without(list, k, M)
    BY <1>2, <1>3 DEF Without
<1> QED
    BY <1>4, <1>5 DEF M

LEMMA IdsAre ==
    ASSUME NEW L \in Seq(Line)
    PROVE  /\ Ids(L) = {Id(L[i]) : i \in 1..Len(L)}
           /\ Ids(L) \subseteq Record
<1>1. DOMAIN L = 1..Len(L) /\ \A i \in 1..Len(L) : L[i] \in Line
    OBVIOUS
<1>2. \A i \in 1..Len(L) : Id(L[i]) \in Record
    BY <1>1 DEF Id, Rec, Line, Record
<1> QED
    BY <1>1, <1>2 DEF Ids

\* A page: at most Chunk lines; a short one is the last.
LEMMA PageFacts ==
    ASSUME ListType, DaemonType, NEW d \in Daemons
    PROVE  /\ Page(d) \in Seq(Line)
           /\ \A i \in 1..Len(Page(d)) :
                  start[d] + i \in 1..Len(list) /\ Page(d)[i] = list[start[d] + i]
           /\ Len(Page(d)) <= Chunk
           /\ \A i \in 1..Len(list) : i > start[d] /\ i <= start[d] + Chunk =>
                  i - start[d] \in 1..Len(Page(d))
           /\ IsLast(Page(d)) => \A i \in 1..Len(list) : i <= start[d] + Chunk
<1> DEFINE s == start[d]
<1> DEFINE b == Min({s + Chunk, Len(list)})
<1>1. /\ list \in Seq(Line) /\ Len(list) \in Nat /\ s \in Nat
      /\ Chunk \in Nat /\ Chunk > 0
    BY RedisAssumption DEF ListType, DaemonType
<1> DEFINE P == SubSeq(list, s + 1, b)
<1>4. Page(d) = P
    BY DEF Page
<1> HIDE DEF s
<1>2. b \in Nat /\ b = IF s + Chunk <= Len(list) THEN s + Chunk ELSE Len(list)
    <2>1. s + Chunk \in Nat
        BY <1>1
    <2> QED
        BY <1>1, <2>1, MinOfTwo
<1> HIDE DEF b
<1>3. /\ P \in Seq(Line)
      /\ Len(P) = IF s + 1 <= b THEN b - (s + 1) + 1 ELSE 0
      /\ \A i \in 1..Len(P) : s + 1 + i - 1 \in (s + 1)..b /\ P[i] = list[s + 1 + i - 1]
    <2>1. s + 1 \in Nat /\ s + 1 > 0 /\ b <= Len(list) /\ b \in Nat
        BY <1>1, <1>2
    <2> QED
        BY <1>1, <2>1, Segment
<1> HIDE DEF P
<1>5. /\ Len(P) \in Nat /\ Len(P) = IF s + 1 <= b THEN b - s ELSE 0
    BY <1>1, <1>2, <1>3
<1>6. ASSUME NEW i \in 1..Len(P)
      PROVE  s + i \in 1..Len(list) /\ P[i] = list[s + i]
    <2>1. s + 1 + i - 1 = s + i
        BY <1>1, <1>5
    <2>2. s + i \in (s + 1)..b /\ P[i] = list[s + i]
        BY <1>3, <2>1
    <2> QED
        BY <1>1, <1>2, <2>2
<1>7. Len(P) <= Chunk
    BY <1>1, <1>2, <1>5
<1>8. \A i \in 1..Len(list) : i > s /\ i <= s + Chunk => i - s \in 1..Len(P)
    BY <1>1, <1>2, <1>5
<1>9. IsLast(P) => \A i \in 1..Len(list) : i <= s + Chunk
    BY <1>1, <1>2, <1>5 DEF IsLast
<1> QED
    BY <1>3, <1>4, <1>6, <1>7, <1>8, <1>9 DEF s

-----------------------------------------------------------------------------
(* The numbers.                                                             *)

OrderInv == ListType /\ NodeType /\ Batches /\ Lists /\ Pending

LEMMA NodeFacts ==
    ASSUME NodeType, Batches, NEW n \in Nodes
    PROVE  /\ batch[n] \in Seq(Nat) /\ Len(batch[n]) \in Nat /\ base[n] \in Nat
           /\ Taken(n) \in Nat
           /\ \A i \in 1..Len(batch[n]) : batch[n][i] \in Nat /\ batch[n][i] <= Taken(n)
           /\ \A i \in 1..Len(batch[n]) : batch[n][1] <= batch[n][i]
<1>1. batch[n] \in Seq(Nat) /\ Len(batch[n]) \in Nat /\ base[n] \in Nat
    BY DEF NodeType
<1>2. \A i \in 1..Len(batch[n]) : batch[n][i] \in Nat
    BY <1>1
<1>3. \A i, j \in 1..Len(batch[n]) : i < j => batch[n][i] < batch[n][j]
    BY DEF Batches
<1>4. Taken(n) \in Nat
    BY <1>1, <1>2 DEF Taken
<1>5. ASSUME NEW i \in 1..Len(batch[n])
      PROVE  batch[n][i] <= Taken(n) /\ batch[n][1] <= batch[n][i]
    <2>1. batch[n] # <<>> /\ Taken(n) = batch[n][Len(batch[n])]
        BY <1>1 DEF Taken
    <2>2. 1 \in 1..Len(batch[n]) /\ Len(batch[n]) \in 1..Len(batch[n])
        BY <1>1
    <2>3. i = Len(batch[n]) \/ i < Len(batch[n])
        BY <1>1
    <2>4. i = 1 \/ 1 < i
        BY <1>1
    <2>5. batch[n][i] \in Nat /\ batch[n][1] \in Nat /\ batch[n][Len(batch[n])] \in Nat
        BY <1>2, <2>2
    <2>6. batch[n][i] <= batch[n][Len(batch[n])]
        BY <1>3, <2>2, <2>3, <2>5
    <2>7. batch[n][1] <= batch[n][i]
        BY <1>3, <2>2, <2>4, <2>5
    <2> QED
        BY <2>1, <2>6, <2>7
<1> QED
    BY <1>1, <1>2, <1>4, <1>5

LEMMA LineFacts ==
    ASSUME NEW L \in Seq(Line), NEW i \in 1..Len(L)
    PROVE  L[i] \in Line /\ L[i].saga \in Nodes /\ L[i].seq \in Nat /\ L[i].gseq \in Nat
<1>1. L[i] \in Line
    OBVIOUS
<1> QED
    BY <1>1 DEF Line

\* What a step does to the flusher's state of n, and to nobody else's.
LEMMA ReserveFacts ==
    ASSUME OrderInv, NEW n \in Nodes, Reserve(n)
    PROVE  /\ base[n] = 0 /\ base'[n] = counter + 1
           /\ batch'[n] \in Seq(Nat) /\ Len(batch'[n]) \in Nat /\ Len(batch'[n]) > 0
           /\ \A i \in 1..Len(batch'[n]) : batch'[n][i] = Taken(n) + i
           /\ counter' = counter + Len(batch'[n])
           /\ DOMAIN batch' = Nodes /\ base' \in [Nodes -> Nat]
           /\ \A m \in Nodes \ {n} : base'[m] = base[m] /\ batch'[m] = batch[m]
<1>1. PICK seq \in Taken(n) + 1..Size[n] :
          LET new == [i \in 1..(seq - Taken(n)) |-> Taken(n) + i]
          IN  /\ batch' = [batch EXCEPT ![n] = new]
              /\ counter' = counter + Len(new)
              /\ base' = [base EXCEPT ![n] = First(counter', Len(new))]
    BY DEF Reserve
<1> DEFINE new == [i \in 1..(seq - Taken(n)) |-> Taken(n) + i]
<1>2. Taken(n) \in Nat /\ Size[n] \in Nat /\ counter \in Nat
      /\ DOMAIN batch = Nodes /\ base \in [Nodes -> Nat]
    BY NodeFacts, RedisAssumption DEF OrderInv, ListType, NodeType
<1>3. seq \in Nat /\ seq - Taken(n) \in Nat /\ seq - Taken(n) > 0
    BY <1>1, <1>2
<1>4. new \in Seq(Nat) /\ Len(new) = seq - Taken(n)
      /\ \A i \in 1..Len(new) : new[i] = Taken(n) + i
    BY <1>2, <1>3
<1>5. /\ batch' = [batch EXCEPT ![n] = new]
      /\ counter' = counter + Len(new)
      /\ base' = [base EXCEPT ![n] = First(counter', Len(new))]
    BY <1>1
<1> HIDE DEF new
<1>6. First(counter', Len(new)) = counter + 1
    BY <1>2, <1>3, <1>4, <1>5 DEF First
<1>7. batch'[n] = new /\ base'[n] = counter + 1
      /\ DOMAIN batch' = Nodes /\ base' \in [Nodes -> Nat]
      /\ \A m \in Nodes \ {n} : base'[m] = base[m] /\ batch'[m] = batch[m]
    BY <1>2, <1>5, <1>6
<1> QED
    BY <1>2, <1>3, <1>4, <1>5, <1>7 DEF Reserve

LEMMA ReservedAreNew ==
    ASSUME OrderInv, NEW n \in Nodes, Reserve(n), UNCHANGED <<undone, replica>>
    PROVE  OrderInv'
<1>1. /\ base[n] = 0 /\ base'[n] = counter + 1
      /\ batch'[n] \in Seq(Nat) /\ Len(batch'[n]) \in Nat /\ Len(batch'[n]) > 0
      /\ \A i \in 1..Len(batch'[n]) : batch'[n][i] = Taken(n) + i
      /\ counter' = counter + Len(batch'[n])
      /\ DOMAIN batch' = Nodes /\ base' \in [Nodes -> Nat]
      /\ \A m \in Nodes \ {n} : base'[m] = base[m] /\ batch'[m] = batch[m]
    BY ReserveFacts
<1>2. list' = list /\ undone' = undone /\ replica' = replica
    BY DEF Reserve
<1>3. counter \in Nat /\ Taken(n) \in Nat /\ list \in Seq(Line) /\ Len(list) \in Nat
    BY NodeFacts DEF OrderInv, ListType
<1>4. counter' \in Nat /\ counter <= counter' /\ counter' = base'[n] + Len(batch'[n]) - 1
    BY <1>1, <1>3
<1>5. ListType'
    BY <1>2, <1>3, <1>4 DEF OrderInv, ListType
<1>6. NodeType'
    BY <1>1 DEF OrderInv, NodeType
<1>7. batch'[n][1] = Taken(n) + 1 /\ Taken(n)' >= Taken(n) /\ Taken(n)' \in Nat
    <2>1. 1 \in 1..Len(batch'[n]) /\ Len(batch'[n]) \in 1..Len(batch'[n]) /\ batch'[n] # <<>>
        BY <1>1
    <2>2. Taken(n)' = batch'[n][Len(batch'[n])]
        BY <2>1 DEF Taken
    <2>3. batch'[n][1] = Taken(n) + 1 /\ batch'[n][Len(batch'[n])] = Taken(n) + Len(batch'[n])
        BY <1>1, <2>1
    <2>4. Taken(n) + Len(batch'[n]) \in Nat /\ Taken(n) + Len(batch'[n]) >= Taken(n)
        BY <1>1, <1>3
    <2> QED
        BY <2>2, <2>3, <2>4
<1>8. \A m \in Nodes \ {n} : Taken(m)' = Taken(m)
    BY <1>1 DEF Taken
<1>9. Batches'
    <2> SUFFICES ASSUME NEW m \in Nodes
                 PROVE  /\ \A i, j \in 1..Len(batch'[m]) : i < j => batch'[m][i] < batch'[m][j]
                        /\ base'[m] # 0 => Len(batch'[m]) > 0
                        /\ base'[m] # 0 /\ m \notin undone' =>
                               base'[m] + Len(batch'[m]) - 1 <= counter'
        BY DEF Batches
    <2>1. CASE m = n
        BY <1>1, <1>3, <1>4, <2>1
    <2>2. CASE m # n
        <3>1. /\ \A i, j \in 1..Len(batch[m]) : i < j => batch[m][i] < batch[m][j]
              /\ base[m] # 0 => Len(batch[m]) > 0
              /\ base[m] # 0 /\ m \notin undone => base[m] + Len(batch[m]) - 1 <= counter
            BY DEF OrderInv, Batches
        <3>2. base'[m] = base[m] /\ batch'[m] = batch[m]
              /\ base[m] \in Nat /\ Len(batch[m]) \in Nat
            BY <1>1, <2>2, NodeFacts DEF OrderInv
        <3> QED
            BY <1>2, <1>3, <1>4, <3>1, <3>2
    <2> QED
        BY <2>1, <2>2
<1>10. ASSUME NEW L \in Seq(Line), NEW k \in Nat, NEW l \in Nat, k <= l, Numbered(L, k)
       PROVE  \A i \in 1..Len(L) :
                  /\ L[i].seq <= Taken(L[i].saga)' /\ L[i].gseq > 0
                  /\ base'[L[i].saga] # 0 => L[i].seq < batch'[L[i].saga][1]
                  /\ L[i].saga \notin undone' => L[i].gseq <= l
    <2> TAKE i \in 1..Len(L)
    <2>1. L[i].saga \in Nodes /\ L[i].seq \in Nat /\ L[i].gseq \in Nat
        BY LineFacts
    <2>2. /\ L[i].seq <= Taken(L[i].saga) /\ L[i].gseq > 0
          /\ base[L[i].saga] # 0 => L[i].seq < batch[L[i].saga][1]
          /\ L[i].saga \notin undone => L[i].gseq <= k
        BY <1>10 DEF Numbered
    <2>3. L[i].saga \notin undone' => L[i].gseq <= l
        BY <1>2, <1>10, <2>1, <2>2
    <2>4. CASE L[i].saga = n
        <3>1. L[i].seq <= Taken(n) /\ L[i].seq \in Nat
            BY <2>1, <2>2, <2>4
        <3>2. L[i].seq <= Taken(n)' /\ L[i].seq < batch'[n][1]
            BY <1>3, <1>7, <3>1
        <3> QED
            BY <2>2, <2>3, <2>4, <3>2
    <2>5. CASE L[i].saga # n
        <3>1. Taken(L[i].saga)' = Taken(L[i].saga)
            BY <1>8, <2>1, <2>5
        <3>2. base'[L[i].saga] = base[L[i].saga] /\ batch'[L[i].saga] = batch[L[i].saga]
            BY <1>1, <2>1, <2>5
        <3> QED
            BY <2>2, <2>3, <3>1, <3>2
    <2> QED
        BY <2>4, <2>5
<1>11. Lists'
    <2>1. Numbered(list, counter)'
        <3>1. Numbered(list, counter)
            BY DEF OrderInv, Lists
        <3>2. PICK L : L = list
            OBVIOUS
        <3>3. PICK k : k = counter
            OBVIOUS
        <3>4. PICK l : l = counter'
            OBVIOUS
        <3>5. L \in Seq(Line) /\ k \in Nat /\ l \in Nat /\ k <= l
            BY <1>3, <1>4, <3>2, <3>3, <3>4
        <3>6. Numbered(L, k)
            BY <3>1, <3>2, <3>3 DEF Numbered
        <3>7. \A i \in 1..Len(L) :
                  /\ L[i].seq <= Taken(L[i].saga)' /\ L[i].gseq > 0
                  /\ base'[L[i].saga] # 0 => L[i].seq < batch'[L[i].saga][1]
                  /\ L[i].saga \notin undone' => L[i].gseq <= l
            BY <1>10, <3>5, <3>6
        <3> QED
            BY <1>2, <3>2, <3>4, <3>7 DEF Numbered, Taken
    <2>2. InOrder(list)' /\ Distinct(list)'
        BY <1>2 DEF OrderInv, Lists, InOrder, Distinct
    <2>3. ASSUME NEW known \in replica
          PROVE  (Numbered(known.list, known.counter) /\ InOrder(known.list) /\ Distinct(known.list))'
        <3>1. known.list \in Seq(Line) /\ known.counter \in Nat
              /\ Numbered(known.list, known.counter)
              /\ InOrder(known.list) /\ Distinct(known.list)
            BY DEF OrderInv, Lists, ListType
        <3>2. \A i \in 1..Len(known.list) :
                  /\ known.list[i].seq <= Taken(known.list[i].saga)' /\ known.list[i].gseq > 0
                  /\ base'[known.list[i].saga] # 0 =>
                         known.list[i].seq < batch'[known.list[i].saga][1]
                  /\ known.list[i].saga \notin undone' => known.list[i].gseq <= known.counter
            BY <1>10, <3>1
        <3>4. Numbered(known.list, known.counter)'
            BY <3>2 DEF Numbered, Taken
        <3>3. InOrder(known.list)' /\ Distinct(known.list)'
            BY <1>2, <3>1 DEF InOrder, Distinct
        <3> QED
            BY <3>3, <3>4
    <2> QED
        BY <1>2, <2>1, <2>2, <2>3 DEF Lists
<1>12. Pending'
    <2>1. ASSUME NEW m \in (Busy \ undone)', NEW i \in 1..Len(list'), list'[i].saga = m
          PROVE  list'[i].gseq < base'[m]
        <3>1. list[i].saga = m /\ i \in 1..Len(list) /\ m \notin undone /\ m \in Nodes
            BY <1>2, <2>1 DEF Busy
        <3>2. list[i].gseq \in Nat
            BY <1>3, <3>1, LineFacts
        <3>3. CASE m = n
            <4>1. list[i].gseq <= counter
                BY <3>1 DEF OrderInv, Lists, Numbered
            <4> QED
                BY <1>1, <1>2, <1>3, <3>2, <3>3, <4>1
        <3>4. CASE m # n
            <4>1. m \in Busy
                BY <1>1, <2>1, <3>1, <3>4 DEF Busy
            <4>2. list[i].gseq < base[m]
                BY <3>1, <4>1 DEF OrderInv, Pending
            <4> QED
                BY <1>1, <1>2, <3>1, <3>4, <4>2
        <3> QED
            BY <3>3, <3>4
    <2>2. ASSUME undone' = {}, NEW m \in Busy'
          PROVE  \A i \in 1..Len(list') : list'[i].gseq \notin Numbers(m)'
        <3>1. m \in Nodes /\ undone = {} /\ base'[m] # 0
            BY <1>2, <2>2 DEF Busy
        <3>2. ASSUME NEW i \in 1..Len(list) PROVE list[i].gseq \notin Numbers(m)'
            <4>1. list[i].gseq \in Nat /\ list[i].gseq <= counter
                BY <1>3, <3>1, LineFacts DEF OrderInv, Lists, Numbered
            <4>2. CASE m = n
                BY <1>1, <1>3, <4>1, <4>2 DEF Numbers
            <4>3. CASE m # n
                <5>1. m \in Busy /\ Numbers(m)' = Numbers(m)
                    BY <1>1, <3>1, <4>3 DEF Busy, Numbers
                <5> QED
                    BY <3>1, <5>1 DEF OrderInv, Pending
            <4> QED
                BY <4>2, <4>3
        <3> QED
            BY <1>2, <3>2
    <2>3. ASSUME undone' = {}, NEW l \in Busy', NEW m \in Busy', m # l
          PROVE  Numbers(l)' \intersect Numbers(m)' = {}
        <3>1. l \in Nodes /\ m \in Nodes /\ undone = {} /\ base'[l] # 0 /\ base'[m] # 0
            BY <1>2, <2>3 DEF Busy
        <3>2. ASSUME NEW o \in Nodes, o # n, base'[o] # 0
              PROVE  \A x \in Numbers(o)' : x \in Int /\ x <= counter
            <4>1. base[o] \in Nat /\ Len(batch[o]) \in Nat
                BY NodeFacts DEF OrderInv
            <4>2. base[o] # 0 /\ base[o] + Len(batch[o]) - 1 <= counter
                BY <1>1, <3>1, <3>2 DEF OrderInv, Batches
            <4>3. Numbers(o)' = base[o]..(base[o] + Len(batch[o]) - 1)
                BY <1>1, <3>2 DEF Numbers
            <4> QED
                BY <1>3, <4>1, <4>2, <4>3
        <3>3. \A x \in Numbers(n)' : x \in Int /\ x > counter
            BY <1>1, <1>3 DEF Numbers
        <3>4. CASE l = n
            BY <1>3, <2>3, <3>1, <3>2, <3>3, <3>4
        <3>5. CASE m = n
            BY <1>3, <2>3, <3>1, <3>2, <3>3, <3>5
        <3>6. CASE l # n /\ m # n
            <4>1. l \in Busy /\ m \in Busy /\ Numbers(l)' = Numbers(l) /\ Numbers(m)' = Numbers(m)
                BY <1>1, <3>1, <3>6 DEF Busy, Numbers
            <4> QED
                BY <2>3, <3>1, <4>1 DEF OrderInv, Pending
        <3> QED
            BY <3>4, <3>5, <3>6
    <2> QED
        BY <2>1, <2>2, <2>3 DEF Pending
<1> QED
    BY <1>5, <1>6, <1>9, <1>11, <1>12 DEF OrderInv

\* Whoever lets go of its reservation relaxes what is asked of every list.
LEMMA ReleasedFacts ==
    ASSUME OrderInv, NEW n \in Nodes, base' = [base EXCEPT ![n] = 0],
           UNCHANGED <<counter, batch, undone, replica>>
    PROVE  /\ base'[n] = 0 /\ \A m \in Nodes \ {n} : base'[m] = base[m]
           /\ NodeType' /\ Batches'
           /\ Busy' = Busy \ {n} /\ \A m \in Nodes \ {n} : Numbers(m)' = Numbers(m)
           /\ \A L \in Seq(Line) : \A k \in Nat : Numbered(L, k) => Numbered(L, k)'
           /\ \A L \in Seq(Line) : InOrder(L) => InOrder(L)'
           /\ \A L \in Seq(Line) : Distinct(L) => Distinct(L)'
<1>1. base \in [Nodes -> Nat]
    BY DEF OrderInv, NodeType
<1>2. base'[n] = 0 /\ base' \in [Nodes -> Nat] /\ \A m \in Nodes \ {n} : base'[m] = base[m]
    BY <1>1
<1>3. batch' = batch /\ undone' = undone /\ counter' = counter
    OBVIOUS
<1>4. NodeType'
    BY <1>2, <1>3 DEF OrderInv, NodeType
<1>5. \A m \in Nodes : base'[m] # 0 => base'[m] = base[m]
    BY <1>2
<1>6. Batches'
    BY <1>3, <1>5 DEF OrderInv, Batches
<1>7. Busy' = Busy \ {n} /\ \A m \in Nodes \ {n} : Numbers(m)' = Numbers(m)
    BY <1>2, <1>3 DEF Busy, Numbers
<1>8. ASSUME NEW L \in Seq(Line), NEW k \in Nat, Numbered(L, k) PROVE Numbered(L, k)'
    <2>1. ASSUME NEW i \in 1..Len(L)
          PROVE  /\ L[i].seq <= Taken(L[i].saga)' /\ L[i].gseq > 0
                 /\ base'[L[i].saga] # 0 => L[i].seq < batch'[L[i].saga][1]
                 /\ L[i].saga \notin undone' => L[i].gseq <= k
        <3>1. L[i].saga \in Nodes
            BY LineFacts
        <3>2. /\ L[i].seq <= Taken(L[i].saga) /\ L[i].gseq > 0
              /\ base[L[i].saga] # 0 => L[i].seq < batch[L[i].saga][1]
              /\ L[i].saga \notin undone => L[i].gseq <= k
            BY <1>8 DEF Numbered
        <3>3. Taken(L[i].saga)' = Taken(L[i].saga)
            BY <1>3 DEF Taken
        <3> QED
            BY <1>3, <1>5, <3>1, <3>2, <3>3
    <2> QED
        BY <2>1 DEF Numbered
<1>9. ASSUME NEW L \in Seq(Line), InOrder(L) PROVE InOrder(L)'
    BY <1>3, <1>9 DEF InOrder
<1>10. ASSUME NEW L \in Seq(Line), Distinct(L) PROVE Distinct(L)'
    BY <1>3, <1>10 DEF Distinct
<1> QED
    BY <1>2, <1>4, <1>6, <1>7, <1>8, <1>9, <1>10

LEMMA ReplicaStays ==
    ASSUME OrderInv, replica' = replica,
           \A L \in Seq(Line) : \A k \in Nat : Numbered(L, k) => Numbered(L, k)',
           \A L \in Seq(Line) : InOrder(L) => InOrder(L)',
           \A L \in Seq(Line) : Distinct(L) => Distinct(L)'
    PROVE  (\A known \in replica :
               Numbered(known.list, known.counter) /\ InOrder(known.list) /\ Distinct(known.list))'
<1>1. ASSUME NEW known \in replica
      PROVE  (Numbered(known.list, known.counter) /\ InOrder(known.list) /\ Distinct(known.list))'
    <2>1. known.list \in Seq(Line) /\ known.counter \in Nat
          /\ Numbered(known.list, known.counter) /\ InOrder(known.list) /\ Distinct(known.list)
        BY DEF OrderInv, Lists, ListType
    <2>2. PICK L \in Seq(Line) : L = known.list
        BY <2>1
    <2>3. PICK k \in Nat : k = known.counter
        BY <2>1
    <2>4. Numbered(L, k) /\ InOrder(L) /\ Distinct(L)
        BY <2>1, <2>2, <2>3
    <2>5. Numbered(L, k)' /\ InOrder(L)' /\ Distinct(L)'
        BY <2>4
    <2> QED
        BY <2>2, <2>3, <2>5
<1> QED
    BY <1>1

LEMMA PushFailsKeepsOrder ==
    ASSUME OrderInv, NEW n \in Nodes, PushFails(n), UNCHANGED <<undone, replica>>
    PROVE  OrderInv'
<1>1. base' = [base EXCEPT ![n] = 0] /\ UNCHANGED <<counter, batch, undone, replica, list>>
    BY DEF PushFails, keys
<1>2. /\ base'[n] = 0 /\ \A m \in Nodes \ {n} : base'[m] = base[m]
      /\ NodeType' /\ Batches'
      /\ Busy' = Busy \ {n} /\ \A m \in Nodes \ {n} : Numbers(m)' = Numbers(m)
      /\ \A L \in Seq(Line) : \A k \in Nat : Numbered(L, k) => Numbered(L, k)'
      /\ \A L \in Seq(Line) : InOrder(L) => InOrder(L)'
      /\ \A L \in Seq(Line) : Distinct(L) => Distinct(L)'
    BY <1>1, ReleasedFacts
<1>3. ListType'
    BY <1>1 DEF OrderInv, ListType
<1>4. Lists'
    <2>1. (\A known \in replica :
             Numbered(known.list, known.counter) /\ InOrder(known.list) /\ Distinct(known.list))'
        BY <1>1, <1>2, ReplicaStays
    <2>2. PICK L : L = list
        OBVIOUS
    <2>3. PICK k : k = counter
        OBVIOUS
    <2>4. L \in Seq(Line) /\ k \in Nat
        BY <2>2, <2>3 DEF OrderInv, ListType
    <2>5. Numbered(L, k) /\ InOrder(L) /\ Distinct(L)
        BY <2>2, <2>3 DEF OrderInv, Lists
    <2>6. Numbered(L, k)' /\ InOrder(L)' /\ Distinct(L)'
        BY <1>2, <2>4, <2>5
    <2>7. list' = L /\ counter' = k
        BY <1>1, <2>2, <2>3
    <2> QED
        BY <2>1, <2>6, <2>7 DEF Lists
<1>5. Pending'
    <2>1. \A m \in (Busy \ undone)' : m \in Busy \ undone /\ base'[m] = base[m]
        BY <1>1, <1>2 DEF Busy
    <2>2. \A m \in Busy' : m \in Busy /\ Numbers(m)' = Numbers(m)
        BY <1>2 DEF Busy
    <2>3. list' = list /\ undone' = undone
        BY <1>1
    <2> QED
        BY <2>1, <2>2, <2>3 DEF OrderInv, Pending
<1> QED
    BY <1>2, <1>3, <1>4, <1>5 DEF OrderInv

LEMMA FunctionIsSeq ==
    ASSUME NEW S, NEW N \in Nat, NEW f \in [1..N -> S]
    PROVE  f \in Seq(S) /\ Len(f) = N
<1>1. f \in Seq(S)
    BY SeqDef
<1>2. Len(f) \in Nat /\ DOMAIN f = 1..Len(f) /\ DOMAIN f = 1..N
    BY <1>1, LenProperties
<1> QED
    BY <1>1, <1>2

\* The lines of a batch, and the list they are appended to.
LEMMA PushedFacts ==
    ASSUME OrderInv, NEW n \in Nodes, base[n] # 0, list' = list \o Lines(n)
    PROVE  /\ list' \in Seq(Line) /\ Len(list') = Len(list) + Len(batch[n])
           /\ \A i \in 1..Len(list) : i \in 1..Len(list') /\ list'[i] = list[i]
           /\ \A i \in 1..Len(list') : i > Len(list) =>
                  /\ i - Len(list) \in 1..Len(batch[n])
                  /\ list'[i].saga = n
                  /\ list'[i].seq = batch[n][i - Len(list)]
                  /\ list'[i].gseq = base[n] + (i - Len(list)) - 1
<1>1. batch[n] \in Seq(Nat) /\ Len(batch[n]) \in Nat /\ base[n] \in Nat /\ list \in Seq(Line)
      /\ Len(list) \in Nat
    BY NodeFacts DEF OrderInv, ListType
<1>2. /\ Lines(n) \in Seq(Line) /\ Len(Lines(n)) = Len(batch[n])
      /\ \A i \in 1..Len(batch[n]) :
             /\ Lines(n)[i].saga = n /\ Lines(n)[i].seq = batch[n][i]
             /\ Lines(n)[i].gseq = base[n] + i - 1
    <2>1. DOMAIN batch[n] = 1..Len(batch[n])
        BY <1>1
    <2>2. Lines(n) = [i \in 1..Len(batch[n]) |->
                        [saga |-> n, seq |-> batch[n][i], gseq |-> base[n] + i - 1]]
        BY <2>1 DEF Lines
    <2>3. \A i \in 1..Len(batch[n]) : batch[n][i] \in Nat /\ base[n] + i - 1 \in Nat
        BY <1>1
    <2>4. \A i \in 1..Len(batch[n]) :
              [saga |-> n, seq |-> batch[n][i], gseq |-> base[n] + i - 1] \in Line
        BY <2>3 DEF Line
    <2>5. Lines(n) \in [1..Len(batch[n]) -> Line]
        BY <2>2, <2>4
    <2>6. Lines(n) \in Seq(Line) /\ Len(Lines(n)) = Len(batch[n])
        BY <1>1, <2>5, FunctionIsSeq
    <2>7. ASSUME NEW i \in 1..Len(batch[n])
          PROVE  /\ Lines(n)[i].saga = n /\ Lines(n)[i].seq = batch[n][i]
                 /\ Lines(n)[i].gseq = base[n] + i - 1
        <3>1. Lines(n)[i] = [saga |-> n, seq |-> batch[n][i], gseq |-> base[n] + i - 1]
            BY <2>2
        <3> QED
            BY <3>1
    <2> QED
        BY <2>6, <2>7
<1> DEFINE t == Lines(n)
<1> HIDE DEF t
<1>3. /\ list \o t \in Seq(Line) /\ Len(list \o t) = Len(list) + Len(t)
      /\ \A i \in 1..(Len(list) + Len(t)) :
            (list \o t)[i] = IF i <= Len(list) THEN list[i] ELSE t[i - Len(list)]
    <2>1. t \in Seq(Line)
        BY <1>2 DEF t
    <2> QED
        BY <1>1, <2>1, ConcatProperties
<1>4. list' = list \o t /\ Len(t) = Len(batch[n])
    BY <1>2 DEF t
<1>5. \A i \in 1..Len(list) : i \in 1..Len(list') /\ list'[i] = list[i]
    BY <1>1, <1>3, <1>4
<1>6. ASSUME NEW i \in 1..Len(list'), i > Len(list)
      PROVE  /\ i - Len(list) \in 1..Len(batch[n])
             /\ list'[i] = t[i - Len(list)]
    BY <1>1, <1>3, <1>4, <1>6
<1> QED
    BY <1>2, <1>3, <1>4, <1>5, <1>6 DEF t

LEMMA PushKeepsOrder ==
    ASSUME OrderInv, NEW n \in Nodes, Push(n), UNCHANGED <<undone, replica>>
    PROVE  OrderInv'
<1>0. base[n] # 0 /\ base' = [base EXCEPT ![n] = 0] /\ list' = list \o Lines(n)
      /\ UNCHANGED <<counter, batch, undone, replica>>
    BY DEF Push
<1>1. /\ base'[n] = 0 /\ \A m \in Nodes \ {n} : base'[m] = base[m]
      /\ NodeType' /\ Batches'
      /\ Busy' = Busy \ {n} /\ \A m \in Nodes \ {n} : Numbers(m)' = Numbers(m)
      /\ \A L \in Seq(Line) : \A k \in Nat : Numbered(L, k) => Numbered(L, k)'
      /\ \A L \in Seq(Line) : InOrder(L) => InOrder(L)'
      /\ \A L \in Seq(Line) : Distinct(L) => Distinct(L)'
    BY <1>0, ReleasedFacts
<1>2. /\ list' \in Seq(Line) /\ Len(list') = Len(list) + Len(batch[n])
      /\ \A i \in 1..Len(list) : i \in 1..Len(list') /\ list'[i] = list[i]
      /\ \A i \in 1..Len(list') : i > Len(list) =>
             /\ i - Len(list) \in 1..Len(batch[n])
             /\ list'[i].saga = n
             /\ list'[i].seq = batch[n][i - Len(list)]
             /\ list'[i].gseq = base[n] + (i - Len(list)) - 1
    BY <1>0, PushedFacts
<1>3. /\ list \in Seq(Line) /\ Len(list) \in Nat /\ counter \in Nat /\ Len(list') \in Nat
      /\ undone' = undone /\ counter' = counter /\ batch' = batch
    BY <1>0, <1>2 DEF OrderInv, ListType
<1>4. /\ base[n] \in Nat /\ Len(batch[n]) \in Nat /\ Taken(n) \in Nat
      /\ \A i \in 1..Len(batch[n]) :
             batch[n][i] \in Nat /\ batch[n][1] <= batch[n][i] /\ batch[n][i] <= Taken(n)
      /\ \A i, j \in 1..Len(batch[n]) : i < j => batch[n][i] < batch[n][j]
      /\ n \notin undone => base[n] + Len(batch[n]) - 1 <= counter
      /\ Len(batch[n]) > 0 /\ batch[n][1] \in Nat
    BY <1>0, NodeFacts DEF OrderInv, Batches
<1>5. ListType'
    BY <1>0, <1>2 DEF OrderInv, ListType
<1>6. \A m \in Nodes : Taken(m)' = Taken(m)
    BY <1>3 DEF Taken
<1>7. \A i \in 1..Len(list') : i <= Len(list) => i \in 1..Len(list) /\ list'[i] = list[i]
    BY <1>2, <1>3
<1>8. Numbered(list, counter)'
    <2>0. PICK L : L = list'
        OBVIOUS
    <2> SUFFICES ASSUME NEW i \in 1..Len(L)
                 PROVE  /\ L[i].seq <= Taken(L[i].saga)' /\ L[i].gseq > 0
                        /\ base'[L[i].saga] # 0 => L[i].seq < batch'[L[i].saga][1]
                        /\ L[i].saga \notin undone' => L[i].gseq <= counter'
        BY <2>0 DEF Numbered, Taken
    <2>1. CASE i <= Len(list)
        <3>1. i \in 1..Len(list) /\ L[i] = list[i] /\ list[i].saga \in Nodes
            BY <1>3, <1>7, <2>0, <2>1, LineFacts
        <3>2. /\ L[i].seq <= Taken(L[i].saga) /\ L[i].gseq > 0
              /\ base[L[i].saga] # 0 => L[i].seq < batch[L[i].saga][1]
              /\ L[i].saga \notin undone => L[i].gseq <= counter
            <4>1. Numbered(list, counter)
                BY DEF OrderInv, Lists
            <4>2. /\ list[i].seq <= Taken(list[i].saga) /\ list[i].gseq > 0
                  /\ base[list[i].saga] # 0 => list[i].seq < batch[list[i].saga][1]
                  /\ list[i].saga \notin undone => list[i].gseq <= counter
                BY <3>1, <4>1 DEF Numbered
            <4> QED
                BY <3>1, <4>2 DEF Taken
        <3>3. base'[L[i].saga] # 0 => base'[L[i].saga] = base[L[i].saga]
            BY <1>1, <3>1
        <3>4. Taken(L[i].saga)' = Taken(L[i].saga)
            BY <1>6, <3>1
        <3> QED
            BY <1>3, <3>2, <3>3, <3>4
    <2>2. CASE i > Len(list)
        <3>1. PICK j \in 1..Len(batch[n]) : j = i - Len(list)
            BY <1>2, <2>0, <2>2
        <3>2. L[i].saga = n /\ L[i].seq = batch[n][j] /\ L[i].gseq = base[n] + j - 1
            BY <1>2, <2>0, <2>2, <3>1
        <3>3. Taken(L[i].saga)' = Taken(n)
            BY <1>3, <3>2 DEF Taken
        <3>4. batch[n][j] <= Taken(n)
            BY <1>4, <3>1
        <3>5. base[n] + j - 1 > 0
            BY <1>0, <1>4, <3>1
        <3>6. n \notin undone => base[n] + j - 1 <= counter
            <4>1. base[n] + j - 1 <= base[n] + Len(batch[n]) - 1
                BY <1>4, <3>1
            <4>2. base[n] + j - 1 \in Int /\ base[n] + Len(batch[n]) - 1 \in Int
                BY <1>4, <3>1
            <4> QED
                BY <1>3, <1>4, <4>1, <4>2
        <3> QED
            BY <1>1, <1>3, <3>2, <3>3, <3>4, <3>5, <3>6
    <2> QED
        BY <1>2, <1>3, <2>0, <2>1, <2>2
<1>9. ASSUME NEW i \in 1..Len(list'), NEW j \in 1..Len(list'), i < j,
             list'[i].saga = list'[j].saga, list'[i].saga \notin undone'
      PROVE  list'[i].seq < list'[j].seq /\ list'[i].gseq < list'[j].gseq
    <2>1. CASE j <= Len(list)
        <3>1. /\ i \in 1..Len(list) /\ list'[i] = list[i]
              /\ j \in 1..Len(list) /\ list'[j] = list[j]
            BY <1>3, <1>7, <1>9, <2>1
        <3>2. InOrder(list)
            BY DEF OrderInv, Lists
        <3>3. list[i].saga = list[j].saga /\ list[i].saga \notin undone
            BY <1>3, <1>9, <3>1
        <3> QED
            BY <1>9, <3>1, <3>2, <3>3 DEF InOrder
    <2>2. CASE i <= Len(list) /\ j > Len(list)
        <3>1. PICK k \in 1..Len(batch[n]) : k = j - Len(list)
            BY <1>2, <2>2
        <3>2. list'[j].saga = n /\ list'[j].seq = batch[n][k] /\ list'[j].gseq = base[n] + k - 1
            BY <1>2, <2>2, <3>1
        <3>3. i \in 1..Len(list) /\ list'[i] = list[i] /\ list[i].saga = n /\ n \notin undone
            BY <1>3, <1>7, <1>9, <2>2, <3>2
        <3>4. list[i].seq \in Nat /\ list[i].gseq \in Nat
            BY <1>3, <3>3, LineFacts
        <3>5. list[i].seq < batch[n][1]
            BY <1>0, <3>3 DEF OrderInv, Lists, Numbered
        <3>6. n \in Busy \ undone
            BY <1>0, <3>3 DEF Busy
        <3>7. list[i].gseq < base[n]
            BY <3>3, <3>6 DEF OrderInv, Pending
        <3>8. batch[n][1] <= batch[n][k] /\ batch[n][k] \in Nat /\ batch[n][1] \in Nat
            BY <1>4, <3>1
        <3>9. base[n] \in Nat /\ base[n] <= base[n] + k - 1 /\ base[n] + k - 1 \in Nat
            BY <1>4, <3>1
        <3>10. list[i].seq < batch[n][k]
            BY <3>4, <3>5, <3>8
        <3>11. list[i].gseq < base[n] + k - 1
            BY <3>4, <3>7, <3>9
        <3> QED
            BY <3>2, <3>3, <3>10, <3>11
    <2>3. CASE i > Len(list)
        <3>1. PICK l \in 1..Len(batch[n]) : l = i - Len(list)
            BY <1>2, <2>3
        <3>0. j > Len(list)
            BY <1>3, <1>9, <2>3
        <3>2. PICK k \in 1..Len(batch[n]) : k = j - Len(list)
            BY <1>2, <3>0
        <3>3. l < k
            BY <1>3, <1>9, <3>1, <3>2
        <3>4. /\ list'[i].seq = batch[n][l] /\ list'[i].gseq = base[n] + l - 1
              /\ list'[j].seq = batch[n][k] /\ list'[j].gseq = base[n] + k - 1
            BY <1>2, <1>3, <1>9, <2>3, <3>1, <3>2
        <3>5. batch[n][l] < batch[n][k]
            BY <1>4, <3>3
        <3>6. base[n] + l - 1 < base[n] + k - 1
            BY <1>4, <3>3
        <3> QED
            BY <3>4, <3>5, <3>6
    <2> QED
        BY <1>3, <2>1, <2>2, <2>3
<1>10. ASSUME undone' = {}, NEW i \in 1..Len(list'), NEW j \in 1..Len(list'), i < j
       PROVE  list'[i].gseq # list'[j].gseq
    <2>0. undone = {}
        BY <1>3, <1>10
    <2>1. CASE j <= Len(list)
        <3>1. /\ i \in 1..Len(list) /\ list'[i] = list[i]
              /\ j \in 1..Len(list) /\ list'[j] = list[j]
            BY <1>3, <1>7, <1>10, <2>1
        <3>2. Distinct(list)
            BY DEF OrderInv, Lists
        <3> QED
            BY <1>10, <2>0, <3>1, <3>2 DEF Distinct
    <2>2. CASE i <= Len(list) /\ j > Len(list)
        <3>1. PICK k \in 1..Len(batch[n]) : k = j - Len(list)
            BY <1>2, <2>2
        <3>2. list'[j].gseq = base[n] + k - 1
            BY <1>2, <2>2, <3>1
        <3>3. i \in 1..Len(list) /\ list'[i] = list[i]
            BY <1>3, <1>7, <1>10, <2>2
        <3>4. n \in Busy
            BY <1>0 DEF Busy
        <3>5. list[i].gseq \notin Numbers(n)
            BY <2>0, <3>3, <3>4 DEF OrderInv, Pending
        <3>6. base[n] + k - 1 \in Numbers(n)
            BY <1>4, <3>1 DEF Numbers
        <3> QED
            BY <3>2, <3>3, <3>5, <3>6
    <2>3. CASE i > Len(list)
        <3>1. PICK l \in 1..Len(batch[n]) : l = i - Len(list)
            BY <1>2, <2>3
        <3>2. PICK k \in 1..Len(batch[n]) : k = j - Len(list)
            BY <1>2, <1>3, <1>10, <2>3
        <3>3. l < k
            BY <1>3, <1>10, <3>1, <3>2
        <3>4. list'[i].gseq = base[n] + l - 1 /\ list'[j].gseq = base[n] + k - 1
            BY <1>2, <1>3, <1>10, <2>3, <3>1, <3>2
        <3> QED
            BY <1>4, <3>3, <3>4
    <2> QED
        BY <1>3, <2>1, <2>2, <2>3
<1>11. Lists'
    <2>1. (\A known \in replica :
             Numbered(known.list, known.counter) /\ InOrder(known.list) /\ Distinct(known.list))'
        BY <1>0, <1>1, ReplicaStays
    <2>2. InOrder(list)'
        BY <1>9 DEF InOrder
    <2>3. Distinct(list)'
        BY <1>10 DEF Distinct
    <2> QED
        BY <1>8, <2>1, <2>2, <2>3 DEF Lists
<1>12. Pending'
    <2>1. ASSUME NEW m \in (Busy \ undone)', NEW i \in 1..Len(list'), list'[i].saga = m
          PROVE  list'[i].gseq < base'[m]
        <3>1. m \in Busy \ undone /\ m \in Nodes /\ m # n /\ base'[m] = base[m]
            BY <1>1, <1>3, <2>1 DEF Busy
        <3>2. i \in 1..Len(list) /\ list'[i] = list[i]
            <4>1. ~(i > Len(list))
                BY <1>2, <2>1, <3>1
            <4> QED
                BY <1>3, <1>7, <2>1, <4>1
        <3>3. list[i].gseq < base[m]
            BY <2>1, <3>1, <3>2 DEF OrderInv, Pending
        <3> QED
            BY <3>1, <3>2, <3>3
    <2>2. ASSUME undone' = {}, NEW m \in Busy', NEW i \in 1..Len(list')
          PROVE  list'[i].gseq \notin Numbers(m)'
        <3>1. m \in Busy /\ m \in Nodes /\ m # n /\ Numbers(m)' = Numbers(m) /\ undone = {}
            BY <1>1, <1>3, <2>2 DEF Busy
        <3>2. CASE i <= Len(list)
            <4>1. i \in 1..Len(list) /\ list'[i] = list[i]
                BY <1>3, <1>7, <2>2, <3>2
            <4>2. list[i].gseq \notin Numbers(m)
                BY <3>1, <4>1 DEF OrderInv, Pending
            <4> QED
                BY <3>1, <4>1, <4>2
        <3>3. CASE i > Len(list)
            <4>1. PICK k \in 1..Len(batch[n]) : k = i - Len(list)
                BY <1>2, <3>3
            <4>2. list'[i].gseq = base[n] + k - 1
                BY <1>2, <3>3, <4>1
            <4>3. list'[i].gseq \in Numbers(n)
                BY <1>4, <4>1, <4>2 DEF Numbers
            <4>4. n \in Busy
                BY <1>0 DEF Busy
            <4>5. Numbers(n) \intersect Numbers(m) = {}
                BY <3>1, <4>4 DEF OrderInv, Pending
            <4> QED
                BY <3>1, <4>3, <4>5
        <3> QED
            BY <1>3, <3>2, <3>3
    <2>3. ASSUME undone' = {}, NEW l \in Busy', NEW m \in Busy', m # l
          PROVE  Numbers(l)' \intersect Numbers(m)' = {}
        <3>1. /\ m \in Busy /\ Numbers(m)' = Numbers(m) /\ undone = {}
              /\ l \in Busy /\ Numbers(l)' = Numbers(l)
            BY <1>1, <1>3, <2>3 DEF Busy
        <3> QED
            BY <2>3, <3>1 DEF OrderInv, Pending
    <2> QED
        BY <2>1, <2>2, <2>3 DEF Pending
<1> QED
    BY <1>1, <1>5, <1>11, <1>12 DEF OrderInv

LEMMA CutOffKeepsOrder ==
    ASSUME OrderInv, CutOff
    PROVE  OrderInv'
<1>1. /\ UNCHANGED <<list, counter, batch, base, undone>>
      /\ replica' = {[list |-> list, counter |-> counter]}
    BY DEF CutOff, keys, node
<1>2. \A known \in replica' : known.list = list /\ known.counter = counter
    BY <1>1
<1>3. ListType'
    BY <1>1, <1>2 DEF OrderInv, ListType
<1>4. NodeType' /\ Batches'
    BY <1>1 DEF OrderInv, NodeType, Batches
<1>5. Lists'
    <2>1. (Numbered(list, counter) /\ InOrder(list) /\ Distinct(list))'
        <3>1. Numbered(list, counter) /\ InOrder(list) /\ Distinct(list)
            BY DEF OrderInv, Lists
        <3> QED
            BY <1>1, <3>1 DEF Numbered, Taken, InOrder, Distinct
    <2>2. ASSUME NEW known \in replica'
          PROVE  (Numbered(known.list, known.counter) /\ InOrder(known.list) /\ Distinct(known.list))'
        <3>1. known.list = list' /\ known.counter = counter'
            BY <1>1, <1>2
        <3> QED
            BY <2>1, <3>1 DEF Numbered, Taken, InOrder, Distinct
    <2> QED
        BY <2>1, <2>2 DEF Lists
<1>6. Pending'
    BY <1>1 DEF OrderInv, Pending, Busy, Numbers
<1> QED
    BY <1>3, <1>4, <1>5, <1>6 DEF OrderInv

LEMMA FailoverFacts ==
    ASSUME OrderInv, Failover
    PROVE  \E known \in replica :
               /\ known.list \in Seq(Line) /\ known.counter \in Nat
               /\ list' = known.list /\ counter' = known.counter /\ replica' = {}
               /\ undone' = undone \union Busy
               /\ UNCHANGED <<batch, base, acked, reader, expendable>>
               /\ \A d \in Daemons : disturbed'[d] = (at[d] # "idle")
               /\ disturbed' \in [Daemons -> BOOLEAN]
<1>1. PICK known \in replica :
          /\ list' = known.list /\ counter' = known.counter /\ replica' = {}
          /\ undone' = undone \cup {n \in Nodes : base[n] # 0}
          /\ disturbed' = [d \in Daemons |-> at[d] # "idle"]
          /\ UNCHANGED <<node, reader, expendable, passes, failovers>>
    BY DEF Failover
<1>2. known.list \in Seq(Line) /\ known.counter \in Nat
    BY DEF OrderInv, ListType
<1>3. undone' = undone \union Busy
    BY <1>1 DEF Busy
<1>4. /\ \A d \in Daemons : disturbed'[d] = (at[d] # "idle")
      /\ disturbed' \in [Daemons -> BOOLEAN]
    BY <1>1
<1>5. UNCHANGED <<batch, base, acked, reader, expendable>>
    BY <1>1 DEF node
<1> QED
    BY <1>1, <1>2, <1>3, <1>4, <1>5

LEMMA FailoverKeepsOrder ==
    ASSUME OrderInv, Failover
    PROVE  OrderInv'
<1>1. PICK known \in replica :
          /\ known.list \in Seq(Line) /\ known.counter \in Nat
          /\ list' = known.list /\ counter' = known.counter /\ replica' = {}
          /\ undone' = undone \union Busy
          /\ UNCHANGED <<batch, base, acked, reader, expendable>>
    BY FailoverFacts
<1>2. ListType' /\ NodeType'
    BY <1>1 DEF OrderInv, ListType, NodeType
<1>3. \A n \in Nodes : base'[n] # 0 => n \in undone'
    BY <1>1 DEF Busy
<1>4. Batches'
    <2>1. batch' = batch /\ base' = base
        BY <1>1
    <2> QED
        BY <1>3, <2>1 DEF OrderInv, Batches
<1>5. Lists'
    <2>1. PICK L : L = known.list
        OBVIOUS
    <2>2. PICK k : k = known.counter
        OBVIOUS
    <2>3. Numbered(L, k) /\ InOrder(L) /\ Distinct(L)
        BY <2>1, <2>2 DEF OrderInv, Lists
    <2>4. undone \subseteq undone' /\ batch' = batch /\ base' = base
        BY <1>1
    <2>5. Numbered(L, k)' /\ InOrder(L)'
        BY <2>3, <2>4 DEF Numbered, Taken, InOrder
    <2>6. Distinct(L)'
        <3>1. undone' = {} => undone = {}
            BY <2>4
        <3> QED
            BY <2>3, <3>1 DEF Distinct
    <2>7. list' = L /\ counter' = k /\ replica' = {}
        BY <1>1, <2>1, <2>2
    <2> QED
        BY <2>5, <2>6, <2>7 DEF Lists
<1>6. Pending'
    <2>1. Busy' \subseteq undone'
        BY <1>3 DEF Busy
    <2> QED
        BY <2>1 DEF Pending
<1> QED
    BY <1>2, <1>4, <1>5, <1>6 DEF OrderInv

\* What is cut off the head leaves the rest as it was.
LEMMA TrimKeepsOrder ==
    ASSUME OrderInv, NEW k \in Nat, Without(list, k, list'),
           UNCHANGED <<counter, batch, base, undone, replica>>
    PROVE  OrderInv'
<1>1. /\ list' \in Seq(Line) /\ Len(list') \in Nat
      /\ \A i \in 1..Len(list') : i + k \in 1..Len(list) /\ list'[i] = list[i + k]
    BY DEF Without
<1>2. \A i, j \in 1..Len(list') : i < j => i + k < j + k
    BY <1>1
<1>3. ListType' /\ NodeType' /\ Batches'
    BY <1>1 DEF OrderInv, ListType, NodeType, Batches
<1>4. Numbered(list, counter) /\ InOrder(list) /\ Distinct(list)
    BY DEF OrderInv, Lists
<1>5. Numbered(list, counter)'
    <2>1. \A i \in 1..Len(list) :
             /\ list[i].seq <= Taken(list[i].saga) /\ list[i].gseq > 0
             /\ base[list[i].saga] # 0 => list[i].seq < batch[list[i].saga][1]
             /\ list[i].saga \notin undone => list[i].gseq <= counter
        BY <1>4 DEF Numbered
    <2> QED
        BY <1>1, <2>1 DEF Numbered, Taken
<1>6. InOrder(list)'
    BY <1>1, <1>2, <1>4 DEF InOrder
<1>7. Distinct(list)'
    <2>1. ASSUME undone' = {}, NEW i \in 1..Len(list'), NEW j \in 1..Len(list'), i < j
          PROVE  list'[i].gseq # list'[j].gseq
        <3>1. i + k \in 1..Len(list) /\ j + k \in 1..Len(list) /\ i + k < j + k
            BY <1>1, <1>2, <2>1
        <3>2. list'[i] = list[i + k] /\ list'[j] = list[j + k]
            BY <1>1
        <3>3. list[i + k].gseq # list[j + k].gseq
            BY <1>4, <2>1, <3>1 DEF Distinct
        <3> QED
            BY <3>2, <3>3
    <2> QED
        BY <2>1 DEF Distinct
<1>8. Lists'
    <2>1. ASSUME NEW known \in replica
          PROVE  (Numbered(known.list, known.counter) /\ InOrder(known.list) /\ Distinct(known.list))'
        <3>1. Numbered(known.list, known.counter) /\ InOrder(known.list) /\ Distinct(known.list)
            BY DEF OrderInv, Lists
        <3> QED
            BY <3>1 DEF Numbered, Taken, InOrder, Distinct
    <2> QED
        BY <1>5, <1>6, <1>7, <2>1 DEF Lists
<1>9. Pending'
    <2>1. Busy' = Busy /\ \A n \in Nodes : Numbers(n)' = Numbers(n)
        BY DEF Busy, Numbers
    <2> QED
        BY <1>1, <2>1 DEF OrderInv, Pending, Busy
<1> QED
    BY <1>3, <1>8, <1>9 DEF OrderInv

LEMMA OrderStays ==
    ASSUME OrderInv, UNCHANGED <<list, counter, batch, base, undone, replica>>
    PROVE  OrderInv'
<1>1. ListType' /\ NodeType' /\ Batches'
    BY DEF OrderInv, ListType, NodeType, Batches
<1>2. Lists'
    BY DEF OrderInv, Lists, Numbered, Taken, InOrder, Distinct
<1>3. Pending'
    BY DEF OrderInv, Pending, Busy, Numbers
<1> QED
    BY <1>1, <1>2, <1>3 DEF OrderInv

-----------------------------------------------------------------------------
(* What was acknowledged, and the daemons.                                  *)

KeepInv == DaemonType /\ Survives /\ Passes

\* A daemon nothing happened to.
LEMMA DaemonStays ==
    ASSUME NEW d \in Daemons, Scans(d), Reads(d),
           \A i \in 1..Len(list) : i \in 1..Len(list') /\ list'[i] = list[i],
           at'[d] = at[d], start'[d] = start[d], raw'[d] = raw[d], keep'[d] = keep[d],
           watermark'[d] = watermark[d], finished'[d] = finished[d],
           disturbed'[d] = disturbed[d]
    PROVE  Scans(d)' /\ Reads(d)'
<1>1. Dangling(d)' = Dangling(d)
    BY DEF Dangling, Seen
<1>2. ASSUME NEW k, Clear(d, k) PROVE Clear(d, k)'
    BY <1>2 DEF Clear
<1>3. PICK k : k = start[d]
    OBVIOUS
<1>4. PICK w : w = watermark[d]
    OBVIOUS
<1>5. (Clear(d, k) => Clear(d, k)') /\ (Clear(d, w) => Clear(d, w)')
    BY <1>2
<1>6. /\ Clear(d, start[d]) => Clear(d, start[d])'
      /\ Clear(d, watermark[d]) => Clear(d, watermark[d])'
    BY <1>3, <1>4, <1>5 DEF Clear
<1>7. Scans(d)'
    BY <1>1, <1>6 DEF Scans
<1>8. ASSUME NEW r, Ahead(d, r) PROVE Ahead(d, r)'
    BY <1>8 DEF Ahead
<1>9. Reads(d)'
    <2>1. ASSUME at[d] = "reading", ~disturbed[d], NEW n \in finished[d]
          PROVE  (Rec(n, Size[n]) \in raw[d] \/ Ahead(d, Rec(n, Size[n])))'
        <3>1. PICK r : r = Rec(n, Size[n])
            OBVIOUS
        <3>2. r \in raw[d] \/ Ahead(d, r)
            BY <2>1, <3>1 DEF Reads
        <3>3. r \in raw'[d] \/ Ahead(d, r)'
            BY <1>8, <3>2
        <3> QED
            BY <3>1, <3>3
    <2>2. ASSUME at[d] = "read", ~disturbed[d], NEW n \in finished[d]
          PROVE  (Rec(n, Size[n]) \in raw[d])'
        BY <2>2 DEF Reads
    <2> QED
        BY <2>1, <2>2 DEF Reads
<1> QED
    BY <1>7, <1>9

\* A list that only grows.
LEMMA GrowthKeepsPasses ==
    ASSUME KeepInv, UNCHANGED <<reader, disturbed>>,
           \A i \in 1..Len(list) : i \in 1..Len(list') /\ list'[i] = list[i]
    PROVE  DaemonType' /\ Passes'
<1>1. DaemonType'
    BY DEF KeepInv, DaemonType, reader
<1>2. ASSUME NEW d \in Daemons PROVE Scans(d)' /\ Reads(d)'
    <2>1. Scans(d) /\ Reads(d)
        BY DEF KeepInv, Passes
    <2>2. /\ at'[d] = at[d] /\ start'[d] = start[d] /\ raw'[d] = raw[d]
          /\ keep'[d] = keep[d] /\ watermark'[d] = watermark[d]
          /\ finished'[d] = finished[d] /\ disturbed'[d] = disturbed[d]
        BY DEF reader
    <2> QED
        BY <2>1, <2>2, DaemonStays
<1> QED
    BY <1>1, <1>2 DEF Passes

LEMMA QuietKeeps ==
    ASSUME KeepInv, UNCHANGED <<list, replica, acked, reader, disturbed, expendable>>
    PROVE  KeepInv'
<1>1. DaemonType' /\ Passes'
    BY GrowthKeepsPasses
<1>2. Survives'
    BY DEF KeepInv, Survives, Ids
<1> QED
    BY <1>1, <1>2 DEF KeepInv

LEMMA CutOffKeeps ==
    ASSUME KeepInv, CutOff
    PROVE  KeepInv'
<1>1. /\ UNCHANGED <<list, acked, reader, disturbed, expendable>>
      /\ replica' = {[list |-> list, counter |-> counter]}
    BY DEF CutOff, keys, node, cuts
<1>2. DaemonType' /\ Passes'
    BY <1>1, GrowthKeepsPasses
<1>3. \A known \in replica' : known.list = list
    BY <1>1
<1>4. Survives'
    BY <1>1, <1>3 DEF KeepInv, Survives, Ids
<1> QED
    BY <1>2, <1>4 DEF KeepInv

LEMMA PushKeeps ==
    ASSUME OrderInv, KeepInv, NEW n \in Nodes, Push(n),
           UNCHANGED <<replica, reader, disturbed, expendable>>
    PROVE  KeepInv'
<1>1. base[n] # 0 /\ list' = list \o Lines(n)
      /\ (acked' = acked \/ (replica = {} /\ acked' = acked \union Batch(n)))
    BY DEF Push, Enough
<1>2. /\ list' \in Seq(Line) /\ Len(list') = Len(list) + Len(batch[n])
      /\ \A i \in 1..Len(list) : i \in 1..Len(list') /\ list'[i] = list[i]
      /\ \A i \in 1..Len(list') : i > Len(list) =>
             /\ i - Len(list) \in 1..Len(batch[n])
             /\ list'[i].saga = n
             /\ list'[i].seq = batch[n][i - Len(list)]
    BY <1>1, PushedFacts
<1>3. DaemonType' /\ Passes'
    BY <1>2, GrowthKeepsPasses
<1>4. list \in Seq(Line) /\ Len(list) \in Nat /\ Len(batch[n]) \in Nat /\ batch[n] \in Seq(Nat)
    BY NodeFacts DEF OrderInv, ListType
<1>5. Ids(list) \subseteq Ids(list')
    BY <1>2, <1>4, IdsAre
<1>6. Batch(n) \subseteq Ids(list')
    <2> SUFFICES ASSUME NEW r \in Batch(n) PROVE r \in Ids(list')
        OBVIOUS
    <2>0. PICK k \in Range(batch[n]) : r = Rec(n, k)
        BY DEF Batch
    <2>1. PICK j \in 1..Len(batch[n]) : r = Rec(n, batch[n][j])
        <3>1. DOMAIN batch[n] = 1..Len(batch[n])
            BY <1>4
        <3> QED
            BY <2>0, <3>1 DEF Range
    <2> DEFINE i == Len(list) + j
    <2>2. i \in 1..Len(list') /\ i > Len(list) /\ i - Len(list) = j
        BY <1>2, <1>4
    <2> HIDE DEF i
    <2>3. list'[i].saga = n /\ list'[i].seq = batch[n][j]
        BY <1>2, <2>2
    <2>4. Id(list'[i]) = r
        BY <2>1, <2>3 DEF Id
    <2> QED
        BY <1>2, <2>2, <2>4, IdsAre
<1>7. Survives'
    BY <1>1, <1>5, <1>6 DEF KeepInv, Survives
<1> QED
    BY <1>3, <1>7 DEF KeepInv

LEMMA FailoverKeeps ==
    ASSUME OrderInv, KeepInv, Failover
    PROVE  KeepInv'
<1>1. PICK known \in replica :
          /\ known.list \in Seq(Line)
          /\ list' = known.list /\ replica' = {}
          /\ UNCHANGED <<batch, base, acked, reader, expendable>>
          /\ \A d \in Daemons : disturbed'[d] = (at[d] # "idle")
          /\ disturbed' \in [Daemons -> BOOLEAN]
    BY FailoverFacts
<1>2. DaemonType'
    BY <1>1 DEF KeepInv, DaemonType, reader
<1>3. Survives'
    BY <1>1 DEF KeepInv, Survives
<1>4. ASSUME NEW d \in Daemons PROVE Scans(d)' /\ Reads(d)'
    <2>1. /\ at'[d] = at[d] /\ start'[d] = start[d] /\ raw'[d] = raw[d] /\ keep'[d] = keep[d]
          /\ disturbed'[d] = (at'[d] # "idle")
        BY <1>1 DEF reader
    <2>2. Dangling(d)' = Dangling(d)
        BY <2>1 DEF Dangling, Seen
    <2>3. Scans(d)
        BY DEF KeepInv, Passes
    <2>4. Scans(d)'
        BY <2>1, <2>2, <2>3 DEF Scans
    <2>5. Reads(d)'
        BY <2>1 DEF Reads
    <2> QED
        BY <2>4, <2>5
<1> QED
    BY <1>2, <1>3, <1>4 DEF KeepInv, Passes

\* A step of one daemon that leaves the list: the others see nothing of it.
LEMMA DaemonStepKeeps ==
    ASSUME KeepInv, NEW d \in Daemons, UNCHANGED <<list, replica, acked, expendable>>,
           DaemonType', Scans(d)', Reads(d)',
           \A e \in Daemons \ {d} :
               /\ at'[e] = at[e] /\ start'[e] = start[e] /\ raw'[e] = raw[e]
               /\ keep'[e] = keep[e] /\ watermark'[e] = watermark[e]
               /\ finished'[e] = finished[e] /\ disturbed'[e] = disturbed[e]
    PROVE  KeepInv'
<1>1. Survives'
    BY DEF KeepInv, Survives, Ids
<1>2. \A i \in 1..Len(list) : i \in 1..Len(list') /\ list'[i] = list[i]
    OBVIOUS
<1>3. ASSUME NEW e \in Daemons PROVE Scans(e)' /\ Reads(e)'
    <2>1. CASE e = d
        BY <2>1 DEF Scans, Reads, Clear, Ahead, Dangling, Seen
    <2>2. CASE e # d
        <3>1. Scans(e) /\ Reads(e)
            BY DEF KeepInv, Passes
        <3>2. /\ at'[e] = at[e] /\ start'[e] = start[e] /\ raw'[e] = raw[e]
              /\ keep'[e] = keep[e] /\ watermark'[e] = watermark[e]
              /\ finished'[e] = finished[e] /\ disturbed'[e] = disturbed[e]
            BY <2>2
        <3> QED
            BY <1>2, <3>1, <3>2, DaemonStays
    <2> QED
        BY <2>1, <2>2
<1> QED
    BY <1>1, <1>3 DEF KeepInv, Passes

LEMMA CompleteType ==
    ASSUME NEW records
    PROVE  Complete(records) \in SUBSET Nodes
           /\ \A n \in Complete(records) : Rec(n, Size[n]) \in records
BY DEF Complete

LEMMA StartReadingKeeps ==
    ASSUME OrderInv, KeepInv, NEW d \in Daemons, StartReading(d), UNCHANGED <<replica, acked>>
    PROVE  KeepInv'
<1>1. /\ at' = [at EXCEPT ![d] = "reading"] /\ start' = [start EXCEPT ![d] = 0]
      /\ raw' = [raw EXCEPT ![d] = {}]
      /\ finished' = [finished EXCEPT ![d] = Complete(Ids(list))]
      /\ disturbed' = [disturbed EXCEPT ![d] = FALSE]
      /\ UNCHANGED <<list, keep, watermark, expendable>>
    BY DEF StartReading
<1> DEFINE F == Complete(Ids(list))
<1>2. F \in SUBSET Nodes /\ \A n \in F : Rec(n, Size[n]) \in Ids(list)
    BY CompleteType
<1> HIDE DEF F
<1>3. finished' = [finished EXCEPT ![d] = F]
    BY <1>1 DEF F
<1>4. DaemonType'
    BY <1>1, <1>2, <1>3 DEF KeepInv, DaemonType
<1>5. /\ at'[d] = "reading" /\ start'[d] = 0 /\ finished'[d] = F /\ disturbed'[d] = FALSE
      /\ \A e \in Daemons \ {d} :
             /\ at'[e] = at[e] /\ start'[e] = start[e] /\ raw'[e] = raw[e]
             /\ keep'[e] = keep[e] /\ watermark'[e] = watermark[e]
             /\ finished'[e] = finished[e] /\ disturbed'[e] = disturbed[e]
    BY <1>1, <1>3 DEF KeepInv, DaemonType
<1>6. Scans(d)'
    BY <1>5 DEF Scans
<1>7. Reads(d)'
    <2>1. ASSUME NEW n \in finished'[d] PROVE Ahead(d, Rec(n, Size[n]))'
        <3>1. Rec(n, Size[n]) \in Ids(list) /\ list \in Seq(Line)
            BY <1>2, <1>5, <2>1 DEF OrderInv, ListType
        <3>2. PICK i \in 1..Len(list) : Id(list[i]) = Rec(n, Size[n])
            BY <3>1, IdsAre
        <3>3. list' = list /\ i > start'[d]
            BY <1>1, <1>5, <3>1, <3>2
        <3> QED
            BY <3>2, <3>3 DEF Ahead, Id, Rec
    <2> QED
        BY <1>5, <2>1 DEF Reads
<1> QED
    BY <1>1, <1>4, <1>5, <1>6, <1>7, DaemonStepKeeps

LEMMA ReadPageKeeps ==
    ASSUME OrderInv, KeepInv, NEW d \in Daemons, ReadPage(d), UNCHANGED <<replica, acked>>
    PROVE  KeepInv'
<1> DEFINE P == Page(d)
<1> DEFINE I == Ids(P)
<1>1. /\ at[d] = "reading" /\ raw' = [raw EXCEPT ![d] = @ \cup I]
      /\ IF IsLast(P)
         THEN at' = [at EXCEPT ![d] = "read"] /\ start' = [start EXCEPT ![d] = 0]
         ELSE start' = [start EXCEPT ![d] = @ + Chunk] /\ at' = at
      /\ UNCHANGED <<list, keep, watermark, finished, disturbed, expendable>>
    BY DEF ReadPage
<1>2. /\ P \in Seq(Line)
      /\ \A i \in 1..Len(P) : start[d] + i \in 1..Len(list) /\ P[i] = list[start[d] + i]
      /\ \A i \in 1..Len(list) : i > start[d] /\ i <= start[d] + Chunk => i - start[d] \in 1..Len(P)
      /\ IsLast(P) => \A i \in 1..Len(list) : i <= start[d] + Chunk
    BY PageFacts DEF OrderInv, KeepInv
<1> HIDE DEF P
<1>3. I = {Id(P[i]) : i \in 1..Len(P)} /\ I \subseteq Record
    BY <1>2, IdsAre
<1> HIDE DEF I
<1>4. Chunk \in Nat /\ start[d] \in Nat /\ list \in Seq(Line) /\ Len(list) \in Nat
    BY RedisAssumption DEF KeepInv, DaemonType, OrderInv, ListType
<1>5. DaemonType'
    <2>1. raw' \in [Daemons -> SUBSET Record]
        BY <1>1, <1>3 DEF KeepInv, DaemonType
    <2>2. CASE IsLast(P)
        BY <1>1, <2>1, <2>2 DEF KeepInv, DaemonType
    <2>3. CASE ~IsLast(P)
        <3>1. start' = [start EXCEPT ![d] = start[d] + Chunk] /\ start[d] + Chunk \in Nat
            BY <1>1, <1>4, <2>3
        <3> QED
            BY <1>1, <2>1, <2>3, <3>1 DEF KeepInv, DaemonType
    <2> QED
        BY <2>2, <2>3
<1>6. /\ raw'[d] = raw[d] \union I /\ finished'[d] = finished[d] /\ disturbed'[d] = disturbed[d]
      /\ IsLast(P) => at'[d] = "read" /\ start'[d] = 0
      /\ ~IsLast(P) => at'[d] = "reading" /\ start'[d] = start[d] + Chunk
      /\ \A e \in Daemons \ {d} :
             /\ at'[e] = at[e] /\ start'[e] = start[e] /\ raw'[e] = raw[e]
             /\ keep'[e] = keep[e] /\ watermark'[e] = watermark[e]
             /\ finished'[e] = finished[e] /\ disturbed'[e] = disturbed[e]
    BY <1>1 DEF KeepInv, DaemonType
<1>7. Scans(d)'
    BY <1>6 DEF Scans
<1>8. ASSUME ~disturbed[d], NEW n \in finished[d], Rec(n, Size[n]) \notin raw'[d]
      PROVE  ~IsLast(P) /\ Ahead(d, Rec(n, Size[n]))'
    <2>1. PICK i \in 1..Len(list) : i > start[d] /\ Id(list[i]) = Rec(n, Size[n])
        <3>1. Rec(n, Size[n]) \notin raw[d]
            BY <1>6, <1>8
        <3>2. Reads(d)
            BY DEF KeepInv, Passes
        <3>3. Ahead(d, Rec(n, Size[n]))
            BY <1>1, <1>8, <3>1, <3>2 DEF Reads
        <3> QED
            BY <3>3 DEF Ahead
    <2>2. i > start[d] + Chunk
        <3>1. SUFFICES ASSUME i <= start[d] + Chunk PROVE FALSE
            BY <1>4
        <3>2. i - start[d] \in 1..Len(P)
            BY <1>2, <2>1, <3>1
        <3>3. P[i - start[d]] = list[start[d] + (i - start[d])] /\ start[d] + (i - start[d]) = i
            BY <1>2, <1>4, <3>2
        <3>4. Id(list[i]) \in I
            BY <1>3, <3>2, <3>3
        <3> QED
            BY <1>6, <1>8, <2>1, <3>4
    <2>3. ~IsLast(P)
        BY <1>2, <1>4, <2>2
    <2>4. i > start'[d] /\ list' = list
        BY <1>1, <1>6, <2>2, <2>3
    <2> QED
        BY <2>1, <2>3, <2>4 DEF Ahead, Id, Rec
<1>9. Reads(d)'
    BY <1>6, <1>8 DEF Reads, Rec
<1> QED
    BY <1>1, <1>5, <1>6, <1>7, <1>9, DaemonStepKeeps

LEMMA SweptKeeps ==
    ASSUME KeepInv, NEW d \in Daemons, Swept(d), UNCHANGED <<replica, acked>>
    PROVE  KeepInv'
<1>1. /\ at' = [at EXCEPT ![d] = "idle"] /\ raw' = [raw EXCEPT ![d] = {}]
      /\ finished' = [finished EXCEPT ![d] = {}] /\ disturbed' = [disturbed EXCEPT ![d] = FALSE]
      /\ UNCHANGED <<list, start, keep, watermark, expendable>>
    BY DEF Swept
<1>2. DaemonType'
    BY <1>1 DEF KeepInv, DaemonType
<1>3. /\ at'[d] = "idle"
      /\ \A e \in Daemons \ {d} :
             /\ at'[e] = at[e] /\ start'[e] = start[e] /\ raw'[e] = raw[e]
             /\ keep'[e] = keep[e] /\ watermark'[e] = watermark[e]
             /\ finished'[e] = finished[e] /\ disturbed'[e] = disturbed[e]
    BY <1>1 DEF KeepInv, DaemonType
<1>4. Scans(d)' /\ Reads(d)'
    BY <1>3 DEF Scans, Reads
<1> QED
    BY <1>1, <1>2, <1>3, <1>4, DaemonStepKeeps

LEMMA StartCompactionKeeps ==
    ASSUME KeepInv, NEW d \in Daemons, StartCompaction(d), UNCHANGED <<replica, acked>>
    PROVE  KeepInv'
<1>1. PICK recent \in SUBSET Seen(d) : keep' = [keep EXCEPT ![d] = Kept(d, recent)]
    BY DEF StartCompaction
<1>2. /\ at[d] = "read" /\ at' = [at EXCEPT ![d] = "scanning"]
      /\ finished' = [finished EXCEPT ![d] = {}] /\ disturbed' = [disturbed EXCEPT ![d] = FALSE]
      /\ UNCHANGED <<list, start, raw, watermark, expendable>>
    BY DEF StartCompaction
<1> DEFINE K == Kept(d, recent)
<1>3. K \in SUBSET Nodes /\ Dangling(d) \subseteq K
    <2>1. raw[d] \subseteq Record
        BY DEF KeepInv, DaemonType
    <2>2. \A r \in raw[d] : r.saga \in Nodes
        BY <2>1 DEF Record
    <2>3. Seen(d) \subseteq Nodes /\ Dangling(d) \subseteq Nodes
        BY <2>2 DEF Seen, Dangling
    <2> QED
        BY <1>1, <2>3 DEF Kept
<1>4. keep' = [keep EXCEPT ![d] = K]
    BY <1>1
<1> HIDE DEF K
<1>5. DaemonType'
    BY <1>2, <1>3, <1>4 DEF KeepInv, DaemonType
<1>6. /\ at'[d] = "scanning" /\ keep'[d] = K /\ start'[d] = 0 /\ raw'[d] = raw[d]
      /\ \A e \in Daemons \ {d} :
             /\ at'[e] = at[e] /\ start'[e] = start[e] /\ raw'[e] = raw[e]
             /\ keep'[e] = keep[e] /\ watermark'[e] = watermark[e]
             /\ finished'[e] = finished[e] /\ disturbed'[e] = disturbed[e]
    BY <1>2, <1>4 DEF KeepInv, DaemonType, Passes, Scans
<1>7. Scans(d)'
    <2>1. Dangling(d)' = Dangling(d)
        BY <1>6 DEF Dangling, Seen
    <2>2. Clear(d, start[d])'
        BY <1>6 DEF Clear
    <2> QED
        BY <1>3, <1>6, <2>1, <2>2 DEF Scans
<1>8. Reads(d)'
    BY <1>6 DEF Reads
<1> QED
    BY <1>2, <1>5, <1>6, <1>7, <1>8, DaemonStepKeeps

\* Nothing before the watermark is kept, as far as the page shows.
LEMMA BeforeFacts ==
    ASSUME OrderInv, KeepInv, NEW d \in Daemons
    PROVE  /\ Before(d) \in Nat
           /\ Clear(d, start[d]) => Clear(d, Before(d))
<1> DEFINE P == Page(d)
<1> DEFINE T == CutsAt(d)
<1>1. /\ P \in Seq(Line) /\ Len(P) \in Nat
      /\ \A i \in 1..Len(P) : start[d] + i \in 1..Len(list) /\ P[i] = list[start[d] + i]
    BY PageFacts DEF OrderInv, KeepInv
<1>2. start[d] \in Nat
    BY DEF KeepInv, DaemonType
<1>3. T = {i \in 1..Len(P) : P[i].saga \in keep[d]}
    BY <1>1 DEF CutsAt
<1>4. Before(d) = start[d] + (IF T = {} THEN Len(P) ELSE Min(T) - 1)
    BY DEF Before
<1> HIDE DEF P, T
<1>5. T # {} => Min(T) \in T /\ \A y \in T : Min(T) <= y
    <2>1. T \subseteq Nat
        BY <1>3
    <2> QED
        BY <2>1, MinExists
<1>6. PICK b \in 0..Len(P) : /\ Before(d) = start[d] + b
                             /\ \A i \in 1..b : i \in 1..Len(P) /\ P[i].saga \notin keep[d]
    <2>1. CASE T = {}
        <3>1. Before(d) = start[d] + Len(P) /\ Len(P) \in 0..Len(P)
            BY <1>1, <1>4, <2>1
        <3>2. \A i \in 1..Len(P) : i \in 1..Len(P) /\ P[i].saga \notin keep[d]
            BY <1>3, <2>1
        <3> QED
            BY <3>1, <3>2
    <2>2. CASE T # {}
        <3>1. Min(T) \in 1..Len(P) /\ \A y \in T : Min(T) <= y
            BY <1>3, <1>5, <2>2
        <3>2. Before(d) = start[d] + (Min(T) - 1) /\ Min(T) - 1 \in 0..Len(P)
            BY <1>1, <1>4, <2>2, <3>1
        <3>3. \A i \in 1..(Min(T) - 1) : i \in 1..Len(P) /\ i \notin T
            BY <1>1, <3>1
        <3>4. \A i \in 1..(Min(T) - 1) : i \in 1..Len(P) /\ P[i].saga \notin keep[d]
            BY <1>3, <3>3
        <3> QED
            BY <3>2, <3>4
    <2> QED
        BY <2>1, <2>2
<1>7. Before(d) \in Nat
    BY <1>1, <1>2, <1>6
<1>8. ASSUME Clear(d, start[d]), NEW i \in 1..Before(d)
      PROVE  i \in 1..Len(list) /\ list[i].saga \notin keep[d]
    <2>1. CASE i <= start[d]
        <3>1. i \in 1..start[d]
            BY <1>2, <1>7, <2>1
        <3> QED
            BY <1>8, <3>1 DEF Clear
    <2>2. CASE i > start[d]
        <3>1. PICK j \in 1..b : j = i - start[d]
            BY <1>1, <1>2, <1>6, <2>2
        <3>2. j \in 1..Len(P) /\ P[j].saga \notin keep[d]
            BY <1>6
        <3>3. start[d] + j = i
            BY <1>2, <3>1
        <3> QED
            BY <1>1, <3>2, <3>3
    <2> QED
        BY <1>2, <1>7, <2>1, <2>2
<1> QED
    BY <1>7, <1>8 DEF Clear

LEMMA ScanPageKeeps ==
    ASSUME OrderInv, KeepInv, NEW d \in Daemons, ScanPage(d), UNCHANGED <<replica, acked>>
    PROVE  KeepInv'
<1> DEFINE B == Before(d)
<1>1. /\ at[d] = "scanning"
      /\ \/ /\ at' = [at EXCEPT ![d] = "trimming"] /\ start' = [start EXCEPT ![d] = 0]
            /\ watermark' = [watermark EXCEPT ![d] = B]
         \/ start' = [start EXCEPT ![d] = B] /\ at' = at /\ watermark' = watermark
      /\ UNCHANGED <<list, raw, keep, finished, disturbed, expendable>>
    BY DEF ScanPage
<1>2. B \in Nat /\ (Clear(d, start[d]) => Clear(d, B))
    BY BeforeFacts
<1>3. PICK b \in Nat : b = B
    BY <1>2
<1>4. Clear(d, start[d]) => Clear(d, b)
    BY <1>2, <1>3
<1> HIDE DEF B
<1>5. /\ Dangling(d) \subseteq keep[d] /\ at[d] = "scanning"
      /\ ~disturbed[d] => Clear(d, start[d])
    BY <1>1 DEF KeepInv, Passes, Scans
<1>6. Dangling(d)' = Dangling(d)
    BY <1>1 DEF Dangling, Seen
<1>7. \A e \in Daemons \ {d} :
          /\ at'[e] = at[e] /\ start'[e] = start[e] /\ raw'[e] = raw[e]
          /\ keep'[e] = keep[e] /\ watermark'[e] = watermark[e]
          /\ finished'[e] = finished[e] /\ disturbed'[e] = disturbed[e]
    BY <1>1 DEF KeepInv, DaemonType
<1>8. ASSUME ~disturbed[d] PROVE Clear(d, b)'
    <2>1. Clear(d, b)
        BY <1>4, <1>5, <1>8
    <2> QED
        BY <1>1, <2>1 DEF Clear
<1>9. CASE /\ at' = [at EXCEPT ![d] = "trimming"] /\ start' = [start EXCEPT ![d] = 0]
           /\ watermark' = [watermark EXCEPT ![d] = B]
    <2>1. DaemonType'
        BY <1>1, <1>2, <1>9 DEF KeepInv, DaemonType
    <2>2. at'[d] = "trimming" /\ watermark'[d] = b
        BY <1>3, <1>9 DEF KeepInv, DaemonType
    <2>3. ~disturbed[d] => Clear(d, watermark[d])'
        BY <1>8, <2>2 DEF Clear
    <2>4. Scans(d)' /\ Reads(d)'
        BY <1>1, <1>5, <1>6, <2>2, <2>3 DEF Scans, Reads
    <2> QED
        BY <1>1, <1>7, <2>1, <2>4, DaemonStepKeeps
<1>10. CASE start' = [start EXCEPT ![d] = B] /\ at' = at /\ watermark' = watermark
    <2>1. DaemonType'
        BY <1>1, <1>2, <1>10 DEF KeepInv, DaemonType
    <2>2. at'[d] = "scanning" /\ start'[d] = b
        BY <1>3, <1>5, <1>10 DEF KeepInv, DaemonType
    <2>3. ~disturbed[d] => Clear(d, start[d])'
        BY <1>8, <2>2 DEF Clear
    <2>4. Scans(d)' /\ Reads(d)'
        BY <1>1, <1>5, <1>6, <2>2, <2>3 DEF Scans, Reads
    <2> QED
        BY <1>1, <1>7, <2>1, <2>4, DaemonStepKeeps
<1> QED
    BY <1>1, <1>9, <1>10

LEMMA TrimFacts ==
    ASSUME OrderInv, KeepInv, NEW d \in Daemons, Trim(d)
    PROVE  /\ watermark[d] \in Nat /\ Without(list, watermark[d], list')
           /\ \A i \in 1..Len(list) : i > watermark[d] => Id(list[i]) \in Ids(list')
           /\ \A i \in 1..Len(list) : i <= watermark[d] => Id(list[i]) \in Ids(Cut(d))
           /\ Cut(d) = <<>> => list' = list
<1> DEFINE w == watermark[d]
<1> DEFINE b == Min({w, Len(list)})
<1> DEFINE C == SubSeq(list, 1, b)
<1>1. w \in Nat /\ list \in Seq(Line) /\ Len(list) \in Nat
    BY DEF KeepInv, DaemonType, OrderInv, ListType
<1>2. list' = SubSeq(list, w + 1, Len(list)) /\ Cut(d) = C
    BY DEF Trim, Cut
<1> HIDE DEF w
<1>3. /\ Without(list, w, list')
      /\ \A i \in 1..Len(list) : i > w => i - w \in 1..Len(list')
    BY <1>1, <1>2, TrimmedList DEF OrderInv
<1>4. list' \in Seq(Line) /\ \A i \in 1..Len(list') : i + w \in 1..Len(list) /\ list'[i] = list[i + w]
    BY <1>3 DEF Without
<1>5. ASSUME NEW i \in 1..Len(list), i > w PROVE Id(list[i]) \in Ids(list')
    <2>1. PICK j \in 1..Len(list') : j = i - w
        BY <1>3, <1>5
    <2>2. j + w = i
        BY <1>1, <2>1
    <2>3. list'[j] = list[i]
        BY <1>4, <2>2
    <2> QED
        BY <1>4, <2>3, IdsAre
<1>6. b \in Nat /\ b = IF w <= Len(list) THEN w ELSE Len(list)
    BY <1>1, MinOfTwo
<1> HIDE DEF b
<1>7. /\ C \in Seq(Line) /\ Len(C) = b
      /\ \A i \in 1..b : C[i] = list[i]
    <2>1. b \in 0..Len(list)
        BY <1>1, <1>6
    <2> QED
        BY <1>1, <2>1, PrefixProperties
<1> HIDE DEF C
<1>8. ASSUME NEW i \in 1..Len(list), i <= w PROVE Id(list[i]) \in Ids(C)
    <2>1. i \in 1..Len(C) /\ C[i] = list[i]
        BY <1>1, <1>6, <1>7, <1>8
    <2> QED
        BY <1>7, <2>1, IdsAre
<1>9. ASSUME C = <<>> PROVE list' = list
    <2>1. b = 0
        BY <1>7, <1>9
    <2>2. CASE w = 0
        <3>1. Len(list') = Len(list)
            <4>1. \A i \in 1..Len(list) : i \in 1..Len(list')
                BY <1>1, <1>3, <2>2
            <4>2. \A i \in 1..Len(list') : i \in 1..Len(list)
                BY <1>1, <1>4, <2>2
            <4>3. Len(list) \in 1..Len(list) \/ Len(list) = 0
                BY <1>1
            <4>4. Len(list') \in Nat /\ (Len(list') \in 1..Len(list') \/ Len(list') = 0)
                BY <1>4
            <4> QED
                BY <1>1, <4>1, <4>2, <4>3, <4>4
        <3>2. \A i \in 1..Len(list') : list'[i] = list[i]
            BY <1>4, <2>2
        <3> QED
            BY <1>1, <1>4, <3>1, <3>2, SeqEqual
    <2>3. CASE Len(list) = 0
        <3>1. Len(list') = 0
            <4>1. ~(1 \in 1..Len(list'))
                BY <1>1, <1>4, <2>3
            <4> QED
                BY <1>4, <4>1
        <3> QED
            BY <1>1, <1>4, <2>3, <3>1, SeqEqual
    <2> QED
        BY <1>6, <2>1, <2>2, <2>3
<1> QED
    BY <1>1, <1>2, <1>3, <1>5, <1>8, <1>9 DEF w

LEMMA TrimKeeps ==
    ASSUME OrderInv, KeepInv, NEW d \in Daemons, Trim(d), UNCHANGED <<replica, acked>>
    PROVE  KeepInv'
<1>1. /\ watermark[d] \in Nat /\ Without(list, watermark[d], list')
      /\ \A i \in 1..Len(list) : i > watermark[d] => Id(list[i]) \in Ids(list')
      /\ \A i \in 1..Len(list) : i <= watermark[d] => Id(list[i]) \in Ids(Cut(d))
      /\ Cut(d) = <<>> => list' = list
    BY TrimFacts
<1>2. /\ at[d] = "trimming" /\ at' = [at EXCEPT ![d] = "idle"]
      /\ raw' = [raw EXCEPT ![d] = {}] /\ keep' = [keep EXCEPT ![d] = {}]
      /\ watermark' = [watermark EXCEPT ![d] = 0]
      /\ UNCHANGED <<start, finished>>
      /\ expendable' = expendable \cup
             {r \in Ids(Cut(d)) : r.saga \notin Dangling(d) \/ disturbed[d]}
      /\ disturbed' = [e \in Daemons |->
             e # d /\ (disturbed[e] \/ (at[e] # "idle" /\ Cut(d) # <<>>))]
    BY DEF Trim
<1>3. DaemonType'
    BY <1>2 DEF KeepInv, DaemonType
<1>4. /\ at'[d] = "idle"
      /\ \A e \in Daemons \ {d} :
             /\ at'[e] = at[e] /\ start'[e] = start[e] /\ raw'[e] = raw[e]
             /\ keep'[e] = keep[e] /\ watermark'[e] = watermark[e]
             /\ finished'[e] = finished[e]
             /\ disturbed'[e] = (disturbed[e] \/ (at[e] # "idle" /\ Cut(d) # <<>>))
    BY <1>2 DEF KeepInv, DaemonType
<1>5. list \in Seq(Line)
    BY DEF OrderInv, ListType
<1>6. Ids(list) \subseteq Ids(list') \union expendable'
    <2> SUFFICES ASSUME NEW r \in Ids(list), r \notin Ids(list') PROVE r \in expendable'
        OBVIOUS
    <2>1. PICK i \in 1..Len(list) : r = Id(list[i])
        BY <1>5, IdsAre
    <2>2. i <= watermark[d]
        BY <1>1, <2>1
    <2>3. r \in Ids(Cut(d))
        BY <1>1, <2>1, <2>2
    <2>4. r.saga \notin Dangling(d) \/ disturbed[d]
        <3>1. SUFFICES ASSUME ~disturbed[d] PROVE r.saga \notin Dangling(d)
            OBVIOUS
        <3>2. Clear(d, watermark[d]) /\ Dangling(d) \subseteq keep[d]
            BY <1>2, <3>1 DEF KeepInv, Passes, Scans
        <3>3. i \in 1..watermark[d]
            BY <1>1, <2>2
        <3>4. list[i].saga \notin keep[d]
            BY <3>2, <3>3 DEF Clear
        <3>5. r.saga = list[i].saga
            BY <2>1 DEF Id, Rec
        <3> QED
            BY <3>2, <3>4, <3>5
    <2> QED
        BY <1>2, <2>3, <2>4
<1>7. Survives'
    <2>1. expendable \subseteq expendable'
        BY <1>2
    <2>2. acked \subseteq Ids(list') \union expendable'
        BY <1>6, <2>1 DEF KeepInv, Survives
    <2>3. \A known \in replica : acked \subseteq Ids(known.list) \union expendable'
        BY <2>1 DEF KeepInv, Survives
    <2>4. replica' = replica /\ acked' = acked
        OBVIOUS
    <2> QED
        BY <2>2, <2>3, <2>4 DEF Survives, Ids
<1>8. ASSUME NEW e \in Daemons PROVE Scans(e)' /\ Reads(e)'
    <2>1. CASE e = d
        <3>1. at'[e] = "idle"
            BY <1>4, <2>1
        <3> QED
            BY <3>1 DEF Scans, Reads
    <2>2. CASE e # d
        <3>0. e \in Daemons \ {d}
            BY <2>2
        <3>1. Scans(e) /\ Reads(e)
            BY DEF KeepInv, Passes
        <3>2. /\ at'[e] = at[e] /\ start'[e] = start[e] /\ raw'[e] = raw[e]
              /\ keep'[e] = keep[e] /\ watermark'[e] = watermark[e]
              /\ finished'[e] = finished[e]
              /\ disturbed'[e] = (disturbed[e] \/ (at[e] # "idle" /\ Cut(d) # <<>>))
            BY <1>4, <3>0
        <3>3. Dangling(e)' = Dangling(e)
            BY <3>2 DEF Dangling, Seen
        <3>4. CASE at[e] = "idle"
            BY <3>2, <3>4 DEF Scans, Reads
        <3>5. CASE at[e] # "idle" /\ Cut(d) # <<>>
            <4>1. disturbed'[e]
                BY <3>2, <3>5
            <4> QED
                BY <3>1, <3>2, <3>3, <4>1 DEF Scans, Reads
        <3>6. CASE Cut(d) = <<>>
            <4>1. list' = list
                BY <1>1, <3>6
            <4>2. disturbed'[e] = disturbed[e]
                BY <3>2, <3>6 DEF KeepInv, DaemonType
            <4>3. \A i \in 1..Len(list) : i \in 1..Len(list') /\ list'[i] = list[i]
                BY <4>1
            <4> QED
                BY <3>1, <3>2, <4>2, <4>3, DaemonStays
        <3> QED
            BY <3>4, <3>5, <3>6
    <2> QED
        BY <2>1, <2>2
<1> QED
    BY <1>3, <1>7, <1>8 DEF KeepInv, Passes

-----------------------------------------------------------------------------
(* The invariant is inductive.                                              *)

LEMMA InvSplits == IInv <=> OrderInv /\ KeepInv
BY DEF IInv, OrderInv, KeepInv

LEMMA InitIInv == Init => IInv
<1> SUFFICES ASSUME Init PROVE IInv
    OBVIOUS
<1>1. /\ list = <<>> /\ counter = 0 /\ replica = {} /\ acked = {}
      /\ batch = [n \in Nodes |-> <<>>] /\ base = [n \in Nodes |-> 0]
      /\ at = [d \in Daemons |-> "idle"] /\ start = [d \in Daemons |-> 0]
      /\ raw = [d \in Daemons |-> {}] /\ keep = [d \in Daemons |-> {}]
      /\ watermark = [d \in Daemons |-> 0] /\ finished = [d \in Daemons |-> {}]
      /\ disturbed = [d \in Daemons |-> FALSE]
    BY DEF Init
<1>2. list \in Seq(Line) /\ Len(list) = 0
    BY <1>1
<1>3. ListType /\ NodeType /\ DaemonType
    BY <1>1, <1>2 DEF ListType, NodeType, DaemonType
<1>4. \A n \in Nodes : base[n] = 0 /\ Len(batch[n]) = 0
    BY <1>1
<1>5. Batches
    BY <1>4 DEF Batches
<1>6. Lists
    BY <1>1, <1>2 DEF Lists, Numbered, InOrder, Distinct
<1>7. Pending
    <2>1. Busy = {}
        BY <1>4 DEF Busy
    <2> QED
        BY <2>1 DEF Pending
<1>8. Survives
    BY <1>1 DEF Survives
<1>9. Passes
    BY <1>1 DEF Passes, Scans, Reads
<1> QED
    BY <1>3, <1>5, <1>6, <1>7, <1>8, <1>9 DEF IInv

LEMMA NodeStepKeeps ==
    ASSUME IInv, NodeStep, UNCHANGED <<replica, reader, cuts, undone, failovers>>
    PROVE  IInv'
<1>1. OrderInv /\ KeepInv
    BY InvSplits
<1>2. UNCHANGED <<replica, reader, undone, disturbed, expendable>>
    BY DEF cuts
<1>3. PICK n \in Nodes : Reserve(n) \/ Push(n) \/ PushFails(n)
    BY DEF NodeStep
<1>4. CASE Reserve(n)
    <2>1. OrderInv'
        BY <1>1, <1>2, <1>4, ReservedAreNew
    <2>2. KeepInv'
        BY <1>1, <1>2, <1>4, QuietKeeps DEF Reserve
    <2> QED
        BY <2>1, <2>2 DEF IInv, OrderInv, KeepInv
<1>5. CASE Push(n)
    <2>1. OrderInv'
        BY <1>1, <1>2, <1>5, PushKeepsOrder
    <2>2. KeepInv'
        BY <1>1, <1>2, <1>5, PushKeeps
    <2> QED
        BY <2>1, <2>2 DEF IInv, OrderInv, KeepInv
<1>6. CASE PushFails(n)
    <2>1. OrderInv'
        BY <1>1, <1>2, <1>6, PushFailsKeepsOrder
    <2>2. KeepInv'
        BY <1>1, <1>2, <1>6, QuietKeeps DEF PushFails, keys
    <2> QED
        BY <2>1, <2>2 DEF IInv, OrderInv, KeepInv
<1> QED
    BY <1>3, <1>4, <1>5, <1>6

LEMMA DaemonStepKeepsAll ==
    ASSUME IInv, DaemonStep, UNCHANGED <<counter, replica, node, undone, failovers>>
    PROVE  IInv'
<1>1. OrderInv /\ KeepInv
    BY InvSplits
<1>2. UNCHANGED <<counter, replica, batch, base, acked, undone>>
    BY DEF node
<1>3. PICK d \in Daemons :
          \/ StartReading(d) \/ ReadPage(d) \/ Swept(d)
          \/ StartCompaction(d) \/ ScanPage(d) \/ Trim(d)
    BY DEF DaemonStep
<1>4. ASSUME list' = list PROVE OrderInv'
    BY <1>1, <1>2, <1>4, OrderStays
<1>5. CASE StartReading(d)
    <2>1. list' = list
        BY <1>5 DEF StartReading
    <2>2. KeepInv'
        BY <1>1, <1>2, <1>5, StartReadingKeeps
    <2> QED
        BY <1>4, <2>1, <2>2 DEF IInv, OrderInv, KeepInv
<1>6. CASE ReadPage(d)
    <2>1. list' = list
        BY <1>6 DEF ReadPage
    <2>2. KeepInv'
        BY <1>1, <1>2, <1>6, ReadPageKeeps
    <2> QED
        BY <1>4, <2>1, <2>2 DEF IInv, OrderInv, KeepInv
<1>7. CASE Swept(d)
    <2>1. list' = list
        BY <1>7 DEF Swept
    <2>2. KeepInv'
        BY <1>1, <1>2, <1>7, SweptKeeps
    <2> QED
        BY <1>4, <2>1, <2>2 DEF IInv, OrderInv, KeepInv
<1>8. CASE StartCompaction(d)
    <2>1. list' = list
        BY <1>8 DEF StartCompaction
    <2>2. KeepInv'
        BY <1>1, <1>2, <1>8, StartCompactionKeeps
    <2> QED
        BY <1>4, <2>1, <2>2 DEF IInv, OrderInv, KeepInv
<1>9. CASE ScanPage(d)
    <2>1. list' = list
        BY <1>9 DEF ScanPage
    <2>2. KeepInv'
        BY <1>1, <1>2, <1>9, ScanPageKeeps
    <2> QED
        BY <1>4, <2>1, <2>2 DEF IInv, OrderInv, KeepInv
<1>10. CASE Trim(d)
    <2>1. watermark[d] \in Nat /\ Without(list, watermark[d], list')
        BY <1>1, <1>10, TrimFacts
    <2>2. PICK k \in Nat : k = watermark[d]
        BY <2>1
    <2>3. OrderInv'
        BY <1>1, <1>2, <2>1, <2>2, TrimKeepsOrder
    <2>4. KeepInv'
        BY <1>1, <1>2, <1>10, TrimKeeps
    <2> QED
        BY <2>3, <2>4 DEF IInv, OrderInv, KeepInv
<1> QED
    BY <1>3, <1>5, <1>6, <1>7, <1>8, <1>9, <1>10

LEMMA NextIInv ==
    ASSUME IInv, [Next]_vars
    PROVE  IInv'
<1>1. OrderInv /\ KeepInv
    BY InvSplits
<1>2. CASE NodeStep /\ UNCHANGED <<replica, reader, cuts, undone, failovers>>
    BY <1>2, NodeStepKeeps
<1>3. CASE CutOff
    <2>1. OrderInv' /\ KeepInv'
        BY <1>1, <1>3, CutOffKeepsOrder, CutOffKeeps
    <2> QED
        BY <2>1 DEF IInv, OrderInv, KeepInv
<1>4. CASE Failover
    <2>1. OrderInv' /\ KeepInv'
        BY <1>1, <1>4, FailoverKeepsOrder, FailoverKeeps
    <2> QED
        BY <2>1 DEF IInv, OrderInv, KeepInv
<1>5. CASE DaemonStep /\ UNCHANGED <<counter, replica, node, undone, failovers>>
    BY <1>5, DaemonStepKeepsAll
<1>6. CASE UNCHANGED vars
    <2>1. OrderInv'
        BY <1>1, <1>6, OrderStays DEF vars, keys, node
    <2>2. KeepInv'
        BY <1>1, <1>6, QuietKeeps DEF vars, keys, node, reader, cuts
    <2> QED
        BY <2>1, <2>2 DEF IInv, OrderInv, KeepInv
<1> QED
    BY <1>2, <1>3, <1>4, <1>5, <1>6 DEF Next

\* The inductive invariant holds in every reachable state of the list, of its
\* replica, of the nodes that push and of the daemons that read and trim.
THEOREM Invariant == Spec => []IInv
<1>1. Init => IInv
    BY InitIInv
<1>2. IInv /\ [Next]_vars => IInv'
    BY NextIInv
<1> QED
    BY <1>1, <1>2, PTL DEF Spec

-----------------------------------------------------------------------------
(* The theorems.                                                            *)

Typed == ListType /\ NodeType /\ DaemonType

\* The list holds records of the nodes, a batch is a sequence of sequence
\* numbers, and a daemon is where read_all() and compact() can be.
THEOREM TypeCorrect == Spec => []Typed
<1>1. IInv => Typed
    BY DEF IInv, Typed
<1> QED
    BY <1>1, Invariant, PTL

\* What RedisWAL acknowledged after WAIT stays in the list, across a failover,
\* until a compaction cuts it that had no reason to keep it or whose positions
\* had moved.
THEOREM AcknowledgedSurvives == Spec => []AckedSurvives
<1>1. IInv => AckedSurvives
    BY DEF IInv, Survives, AckedSurvives
<1> QED
    BY <1>1, Invariant, PTL

\* INCRBY's numbers order the records of each saga as it appended them, and none
\* is given twice, unless a failover took a reservation back.
THEOREM NumbersOrder == Spec => []GlobalOrder
<1>1. IInv => GlobalOrder
    <2> SUFFICES ASSUME IInv PROVE GlobalOrder
        OBVIOUS
    <2>1. list \in Seq(Line) /\ InOrder(list) /\ Distinct(list)
        BY DEF IInv, ListType, Lists
    <2>2. DOMAIN list = 1..Len(list)
        BY <2>1
    <2> QED
        BY <2>1, <2>2 DEF GlobalOrder, InOrder, Distinct
<1> QED
    BY <1>1, Invariant, PTL

\* A saga whose end stood in the list when read_all() began is not taken for a
\* dangling one, wherever the pages fall and whatever is pushed between them.
THEOREM FinishedIsFinished == Spec => []FinishedLooksFinished
<1>1. IInv => FinishedLooksFinished
    <2> SUFFICES ASSUME IInv, NEW d \in Daemons, at[d] = "read", ~disturbed[d]
                 PROVE  finished[d] \cap Dangling(d) = {}
        BY DEF FinishedLooksFinished
    <2>1. finished[d] \subseteq Nodes
        BY DEF IInv, DaemonType
    <2>2. \A n \in finished[d] : Rec(n, Size[n]) \in raw[d]
        BY DEF IInv, Passes, Reads
    <2>3. finished[d] \subseteq Complete(raw[d])
        BY <2>1, <2>2 DEF Complete
    <2> QED
        BY <2>3 DEF Dangling
<1> QED
    BY <1>1, Invariant, PTL
=============================================================================
