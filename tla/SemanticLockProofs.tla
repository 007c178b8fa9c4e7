------------------------- MODULE SemanticLockProofs -------------------------
(***************************************************************************)
(* Proof that the semantic locks keep what they grant, for any sagas,      *)
(* nodes, resources, placements, time to live and number of faults: a saga *)
(* that is alive owns its claims, in one process and on Redis, as long as  *)
(* its renewal was not cut short.                                          *)
(***************************************************************************)
EXTENDS SemanticLock, TLAPS

-----------------------------------------------------------------------------
(* The inductive invariant.                                                 *)

Trying == {"run", "wait", "probing"}
Beat == [saga : Sagas \union {NoSaga}, due : 0..Half]

\* One process: its sagas share the dict, which holds claims of the living only,
\* each with its expiry, until the lifespan ends.
InProcess ==
    manager = "process" =>
        /\ \A s, t \in Sagas : home[s] = home[t]
        /\ cut = {}
        /\ \A s \in Sagas : pc[s] \notin {"probing", "releasing", "freed"}
        /\ \A r \in Resources :
               /\ owner[r] # NoSaga => r \in claims[owner[r]]
               /\ owner[r] = NoSaga /\ (\A s \in Sagas : home[s] \notin closed) =>
                      left[r] = Forever

\* A heartbeat renews for a saga of its own node.
Beats ==
    \A n \in Nodes : \A r \in Resources :
        beat[n][r] # NoBeat => beat[n][r].saga \in Sagas /\ home[beat[n][r].saga] = n

\* The next renewal comes before the claim ends.
Renewed(s, r) ==
    \/ left[r] = Forever
    \/ beat[home[s]][r].saga = s /\ beat[home[s]][r].due < left[r]

KeptAt(s, r) ==
    pc[s] \in Trying /\ home[s] \notin closed /\ r \in claims[s] =>
        <<s, r>> \in cut \/ (owner[r] = s /\ Renewed(s, r))

Kept == \A s \in Sagas : \A r \in Resources : KeptAt(s, r)

IInv == TypeOK /\ InProcess /\ Beats /\ Kept

-----------------------------------------------------------------------------
(* The types of what the actions write.                                     *)

LEMMA HalfFacts == Half \in Nat /\ Half < Ttl /\ Ttl \in Nat /\ Ttl > 0
BY LockAssumption DEF Half

LEMMA ConstantFacts ==
    /\ NoSaga \notin Sagas /\ Patience \in Nat /\ MaxFaults \in Nat
    /\ Ttl \in Forever..Ttl /\ Forever \in Forever..Ttl /\ 0 \in Forever..Ttl
    /\ NoBeat \in Beat /\ NoBeat.saga = NoSaga /\ NoBeat.due = 0
    /\ \A s \in Sagas : [saga |-> s, due |-> Half] \in Beat
BY LockAssumption, HalfFacts DEF Forever, NoBeat, Beat

LEMMA TypeFacts ==
    ASSUME TypeOK
    PROVE  /\ manager \in {"process", "redis"} /\ home \in [Sagas -> Nodes]
           /\ owner \in [Resources -> Sagas \union {NoSaga}]
           /\ left \in [Resources -> Forever..Ttl]
           /\ held \in [Nodes -> [Resources -> Sagas \union {NoSaga}]]
           /\ beat \in [Nodes -> [Resources -> Beat]]
           /\ claims \in [Sagas -> SUBSET Resources] /\ todo \in [Sagas -> SUBSET Resources]
           /\ pc \in [Sagas -> Live \union {"done", "escaped", "dead"}]
           /\ want \in [Sagas -> Resources] /\ patience \in [Sagas -> 0..Patience]
           /\ cut \subseteq Sagas \X Resources /\ closed \subseteq Nodes
           /\ faults \in 0..MaxFaults
BY LockAssumption DEF TypeOK, Beat

\* A saga that moves on.
LEMMA GoesFacts ==
    ASSUME TypeOK, NEW s \in Sagas, NEW at \in Live \union {"done", "escaped", "dead"}, Goes(s, at)
    PROVE  /\ pc' \in [Sagas -> Live \union {"done", "escaped", "dead"}]
           /\ pc'[s] = at /\ \A t \in Sagas \ {s} : pc'[t] = pc[t]
BY TypeFacts DEF Goes

LEMMA FaultFacts ==
    ASSUME TypeOK, Fault
    PROVE  faults' \in 0..MaxFaults
<1>1. faults \in Nat /\ MaxFaults \in Nat /\ faults < MaxFaults /\ faults' = faults + 1
    BY TypeFacts, ConstantFacts DEF Fault
<1> QED
    BY <1>1

\* One heartbeat is replaced.
LEMMA BeatFacts ==
    ASSUME TypeOK, NEW n \in Nodes, NEW r \in Resources, NEW b \in Beat,
           beat' = [beat EXCEPT ![n][r] = b]
    PROVE  /\ beat' \in [Nodes -> [Resources -> Beat]]
           /\ beat'[n][r] = b
           /\ \A m \in Nodes : \A q \in Resources : m # n \/ q # r => beat'[m][q] = beat[m][q]
BY TypeFacts

LEMMA NoBeatFacts ==
    ASSUME TypeOK, NEW n \in Nodes, NEW r \in Resources, beat' = [beat EXCEPT ![n][r] = NoBeat]
    PROVE  /\ beat' \in [Nodes -> [Resources -> Beat]]
           /\ beat'[n][r] = NoBeat
           /\ \A m \in Nodes : \A q \in Resources : m # n \/ q # r => beat'[m][q] = beat[m][q]
<1>1. beat \in [Nodes -> [Resources -> Beat]] /\ NoBeat \in Beat
    BY TypeFacts, ConstantFacts
<1> QED
    BY <1>1

\* Nothing changes but where the sagas stand in their calls.
LEMMA CallsKeep ==
    ASSUME IInv, TypeOK', UNCHANGED <<manager, home, claim, claims, cut, closed>>,
           \A t \in Sagas : pc'[t] \in Trying => pc[t] \in Trying,
           manager = "process" =>
               \A t \in Sagas : pc'[t] \notin {"probing", "releasing", "freed"}
    PROVE  IInv'
<1>1. UNCHANGED <<owner, left, held, beat>>
    BY DEF claim
<1>2. InProcess'
    BY <1>1 DEF IInv, InProcess
<1>3. Beats'
    BY <1>1 DEF IInv, Beats
<1>4. ASSUME NEW s \in Sagas, NEW r \in Resources PROVE KeptAt(s, r)'
    <2>1. KeptAt(s, r)
        BY DEF IInv, Kept
    <2> QED
        BY <1>1, <2>1 DEF KeptAt, Renewed
<1> QED
    BY <1>2, <1>3, <1>4 DEF IInv, Kept

\* A claim that a step does not touch.
LEMMA ClaimStays ==
    ASSUME NEW s \in Sagas, NEW r \in Resources, KeptAt(s, r),
           pc'[s] \in Trying => pc[s] \in Trying,
           home' = home, closed \subseteq closed',
           r \in claims'[s] => r \in claims[s],
           home[s] \notin closed' =>
               \/ <<s, r>> \in cut'
               \/ /\ <<s, r>> \notin cut
                  /\ owner'[r] = owner[r] /\ left'[r] = left[r]
                  /\ beat'[home[s]][r] = beat[home[s]][r]
    PROVE  KeptAt(s, r)'
BY DEF KeptAt, Renewed

-----------------------------------------------------------------------------
(* In process.                                                              *)

LEMMA GrantedKeeps ==
    ASSUME IInv, NEW s \in Sagas, NEW r \in Resources, NEW timed \in BOOLEAN,
           manager = "process", pc[s] \in Trying, Granted(s, r, timed)
    PROVE  IInv'
<1> DEFINE b == IF timed THEN [saga |-> s, due |-> Half]
                ELSE IF Swept(r) THEN NoBeat ELSE beat[home[s]][r]
<1> DEFINE l == IF timed THEN Ttl ELSE IF Swept(r) THEN Forever ELSE left[r]
<1>1. /\ manager' = manager /\ home' = home /\ held' = held /\ patience' = patience
      /\ todo' = todo /\ closed' = closed /\ faults' = faults
      /\ owner' = [owner EXCEPT ![r] = s] /\ left' = [left EXCEPT ![r] = l]
      /\ claims' = [claims EXCEPT ![s] = claims[s] \union {r}]
      /\ cut' = cut \ {<<s, r>>} /\ Goes(s, "run") /\ want' = [want EXCEPT ![s] = r]
      /\ OwnerNow(r) \in {NoSaga, s}
    <2>1. [left EXCEPT ![r] = IF timed THEN Ttl ELSE IF Swept(r) THEN Forever ELSE @] =
          [left EXCEPT ![r] = l]
        OBVIOUS
    <2> QED
        BY <2>1 DEF Granted, Free
<1>2. /\ manager \in {"process", "redis"} /\ home \in [Sagas -> Nodes]
      /\ owner \in [Resources -> Sagas \union {NoSaga}]
      /\ left \in [Resources -> Forever..Ttl]
      /\ beat \in [Nodes -> [Resources -> Beat]]
      /\ claims \in [Sagas -> SUBSET Resources] /\ want \in [Sagas -> Resources]
      /\ home[s] \in Nodes /\ beat[home[s]][r] \in Beat
    BY TypeFacts DEF IInv
<1>3. beat' = [beat EXCEPT ![home[s]][r] = b]
    <2>1. beat' = IF timed THEN Start(s, r)
                  ELSE IF Swept(r) THEN [beat EXCEPT ![home[s]][r] = NoBeat] ELSE beat
        BY DEF Granted
    <2>2. beat = [beat EXCEPT ![home[s]][r] = beat[home[s]][r]]
        BY <1>2
    <2> QED
        BY <2>1, <2>2 DEF Start
<1>4. b \in Beat /\ l \in Forever..Ttl
    BY <1>2, ConstantFacts
<1> HIDE DEF b, l
<1>5. /\ beat' \in [Nodes -> [Resources -> Beat]]
      /\ beat'[home[s]][r] = b
      /\ \A m \in Nodes : \A q \in Resources : m # home[s] \/ q # r => beat'[m][q] = beat[m][q]
    BY <1>2, <1>3, <1>4, BeatFacts DEF IInv
<1>6. /\ pc' \in [Sagas -> Live \union {"done", "escaped", "dead"}]
      /\ pc'[s] = "run" /\ \A t \in Sagas \ {s} : pc'[t] = pc[t]
    BY <1>1, GoesFacts DEF Live, IInv
<1>7. TypeOK'
    BY <1>1, <1>2, <1>4, <1>5, <1>6 DEF IInv, TypeOK, Beat
<1>8. /\ owner'[r] = s /\ left'[r] = l /\ claims'[s] = claims[s] \union {r}
      /\ \A q \in Resources \ {r} : owner'[q] = owner[q] /\ left'[q] = left[q]
      /\ \A t \in Sagas \ {s} : claims'[t] = claims[t]
    BY <1>1, <1>2
<1>9. /\ \A x, y \in Sagas : home[x] = home[y]
      /\ cut = {} /\ \A t \in Sagas : pc[t] \notin {"probing", "releasing", "freed"}
      /\ \A q \in Resources :
             /\ owner[q] # NoSaga => q \in claims[owner[q]]
             /\ owner[q] = NoSaga /\ (\A t \in Sagas : home[t] \notin closed) =>
                    left[q] = Forever
    BY DEF IInv, InProcess
<1>10. InProcess'
    <2>1. \A t \in Sagas : pc'[t] \notin {"probing", "releasing", "freed"}
        BY <1>6, <1>9
    <2>2. ASSUME NEW q \in Resources
          PROVE  /\ owner'[q] # NoSaga => q \in claims'[owner'[q]]
                 /\ owner'[q] = NoSaga /\ (\A t \in Sagas : home'[t] \notin closed') =>
                        left'[q] = Forever
        <3>1. CASE q = r
            BY <1>8, <3>1, ConstantFacts
        <3>2. CASE q # r
            <4>1. owner'[q] = owner[q] /\ left'[q] = left[q] /\ owner[q] \in Sagas \union {NoSaga}
                BY <1>2, <1>8, <3>2
            <4>2. owner[q] \in Sagas => claims[owner[q]] \subseteq claims'[owner[q]]
                BY <1>8
            <4> QED
                BY <1>1, <1>9, <4>1, <4>2
        <3> QED
            BY <3>1, <3>2
    <2>3. cut' = {}
        BY <1>1, <1>9
    <2> QED
        BY <1>1, <1>9, <2>1, <2>2, <2>3 DEF InProcess
<1>11. Beats'
    <2> SUFFICES ASSUME NEW m \in Nodes, NEW q \in Resources, beat'[m][q] # NoBeat
                 PROVE  beat'[m][q].saga \in Sagas /\ home'[beat'[m][q].saga] = m
        BY DEF Beats
    <2>1. CASE m # home[s] \/ q # r
        BY <1>1, <1>5, <2>1 DEF IInv, Beats
    <2>2. CASE m = home[s] /\ q = r
        <3>1. b # NoBeat
            BY <1>5, <2>2
        <3>2. b = [saga |-> s, due |-> Half] \/ b = beat[home[s]][r]
            BY <3>1 DEF b
        <3> QED
            BY <1>1, <1>2, <1>5, <2>2, <3>1, <3>2 DEF IInv, Beats
    <2> QED
        BY <2>1, <2>2
<1>12. ASSUME NEW t \in Sagas, NEW q \in Resources PROVE KeptAt(t, q)'
    <2>0. KeptAt(t, q)
        BY DEF IInv, Kept
    <2>1. CASE q # r
        <3>1. owner'[q] = owner[q] /\ left'[q] = left[q] /\ home[t] \in Nodes
              /\ beat'[home[t]][q] = beat[home[t]][q] /\ <<t, q>> \notin cut
            BY <1>2, <1>5, <1>8, <1>9, <2>1
        <3>2. q \in claims'[t] => q \in claims[t]
            BY <1>8, <2>1
        <3>3. pc'[t] \in Trying => pc[t] \in Trying
            BY <1>6
        <3> QED
            BY <1>1, <2>0, <3>1, <3>2, <3>3, ClaimStays
    <2>2. CASE q = r /\ t = s
        <3>1. CASE timed
            <4>1. b = [saga |-> s, due |-> Half] /\ l = Ttl
                BY <3>1 DEF b, l
            <4> QED
                BY <1>1, <1>5, <1>8, <2>2, <4>1, HalfFacts DEF KeptAt, Renewed
        <3>2. CASE ~timed /\ Swept(r)
            <4>1. l = Forever
                BY <3>2 DEF l
            <4> QED
                BY <1>8, <2>2, <4>1 DEF KeptAt, Renewed
        <3>3. CASE ~timed /\ ~Swept(r)
            <4>1. l = left[r] /\ b = beat[home[s]][r] /\ owner[r] \in {NoSaga, s}
                BY <1>1, <3>3 DEF l, b, OwnerNow
            <4>2. CASE owner[r] = s
                <5>1. r \in claims[s] /\ cut = {}
                    BY <1>9, <4>2, ConstantFacts
                <5>2. home[s] \notin closed => Renewed(s, r)
                    BY <2>0, <2>2, <5>1 DEF KeptAt
                <5> QED
                    BY <1>1, <1>5, <1>8, <2>2, <4>1, <5>2 DEF KeptAt, Renewed
            <4>3. CASE owner[r] = NoSaga
                <5>1. home[s] \notin closed => left[r] = Forever
                    BY <1>9, <4>3
                <5> QED
                    BY <1>1, <1>8, <2>2, <4>1, <5>1 DEF KeptAt, Renewed
            <4> QED
                BY <4>1, <4>2, <4>3
        <3> QED
            BY <3>1, <3>2, <3>3
    <2>3. CASE q = r /\ t # s
        <3>1. claims'[t] = claims[t] /\ pc'[t] = pc[t] /\ cut = {}
            BY <1>6, <1>8, <1>9, <2>3
        <3>2. ~(pc[t] \in Trying /\ home[t] \notin closed /\ r \in claims[t])
            <4> SUFFICES ASSUME pc[t] \in Trying, home[t] \notin closed, r \in claims[t]
                         PROVE  FALSE
                OBVIOUS
            <4>1. owner[r] = t /\ Renewed(t, r)
                BY <2>0, <2>3, <3>1 DEF KeptAt
            <4>2. Swept(r)
                BY <1>1, <2>3, <4>1, ConstantFacts DEF OwnerNow
            <4>3. left[r] = 0 /\ beat[home[t]][r] \in Beat
                BY <1>2, <4>2 DEF Swept
            <4>4. beat[home[t]][r].due \in Nat
                BY <4>3, HalfFacts DEF Beat
            <4> QED
                BY <4>1, <4>3, <4>4 DEF Renewed, Forever
        <3> QED
            BY <1>1, <2>3, <3>1, <3>2 DEF KeptAt
    <2> QED
        BY <2>1, <2>2, <2>3
<1> QED
    BY <1>7, <1>10, <1>11, <1>12 DEF IInv, Kept

LEMMA LookKeeps ==
    ASSUME IInv, NEW r \in Resources, Look(r)
    PROVE  IInv'
<1>1. /\ manager = "process" /\ left[r] = 0
      /\ owner' = [owner EXCEPT ![r] = NoSaga] /\ left' = [left EXCEPT ![r] = Forever]
      /\ beat' = [n \in Nodes |-> [beat[n] EXCEPT ![r] = NoBeat]]
      /\ UNCHANGED <<manager, home, held, claims, pc, want, patience, todo, cut, closed, faults>>
    BY DEF Look, Swept, run
<1>2. /\ owner \in [Resources -> Sagas \union {NoSaga}]
      /\ left \in [Resources -> Forever..Ttl] /\ home \in [Sagas -> Nodes]
      /\ beat \in [Nodes -> [Resources -> Beat]]
    BY TypeFacts DEF IInv
<1>3. /\ owner' \in [Resources -> Sagas \union {NoSaga}]
      /\ left' \in [Resources -> Forever..Ttl]
      /\ beat' \in [Nodes -> [Resources -> Beat]]
    BY <1>1, <1>2, ConstantFacts
<1>4. /\ owner'[r] = NoSaga /\ left'[r] = Forever
      /\ \A q \in Resources \ {r} : owner'[q] = owner[q] /\ left'[q] = left[q]
      /\ \A n \in Nodes : beat'[n][r] = NoBeat
      /\ \A n \in Nodes : \A q \in Resources \ {r} : beat'[n][q] = beat[n][q]
    BY <1>1, <1>2
<1>5. TypeOK'
    BY <1>1, <1>3 DEF IInv, TypeOK, Beat
<1>6. InProcess'
    <2>1. ASSUME NEW q \in Resources
          PROVE  /\ owner'[q] # NoSaga => q \in claims'[owner'[q]]
                 /\ owner'[q] = NoSaga /\ (\A t \in Sagas : home'[t] \notin closed') =>
                        left'[q] = Forever
        <3>1. CASE q = r
            BY <1>4, <3>1
        <3>2. CASE q # r
            <4>1. owner'[q] = owner[q] /\ left'[q] = left[q]
                BY <1>4, <3>2
            <4> QED
                BY <1>1, <4>1 DEF IInv, InProcess
        <3> QED
            BY <3>1, <3>2
    <2> QED
        BY <1>1, <2>1 DEF IInv, InProcess
<1>7. Beats'
    <2>1. \A n \in Nodes : \A q \in Resources : beat'[n][q] = NoBeat \/ beat'[n][q] = beat[n][q]
        BY <1>4
    <2> QED
        BY <1>1, <2>1 DEF IInv, Beats
<1>8. ASSUME NEW t \in Sagas, NEW q \in Resources PROVE KeptAt(t, q)'
    <2>0. KeptAt(t, q)
        BY DEF IInv, Kept
    <2>1. CASE q # r
        <3>1. owner'[q] = owner[q] /\ left'[q] = left[q] /\ beat'[home[t]][q] = beat[home[t]][q]
            BY <1>2, <1>4, <2>1
        <3> QED
            BY <1>1, <2>0, <3>1 DEF KeptAt, Renewed
    <2>2. CASE q = r
        <3>1. ~Renewed(t, r)
            <4>1. beat[home[t]][r] \in Beat
                BY <1>2
            <4>2. beat[home[t]][r].due \in Nat
                BY <4>1, HalfFacts DEF Beat
            <4> QED
                BY <1>1, <4>2 DEF Renewed, Forever
        <3> QED
            BY <1>1, <2>0, <2>2, <3>1 DEF KeptAt
    <2> QED
        BY <2>1, <2>2
<1> QED
    BY <1>5, <1>6, <1>7, <1>8 DEF IInv, Kept

\* The calls that only move on: a wait, a time-out, a probe, an exception.
LEMMA WaitsKeep ==
    ASSUME IInv, NEW s \in Sagas, NEW r \in Resources,
           \/ WaitLocal(s, r) \/ TimesOut(s) \/ SleepsOrRaises(s) \/ FinishRedis(s) \/ Escapes(s)
           \/ pc[s] \in {"run", "wait"} /\ NotSet(s, r)
    PROVE  IInv'
<1>0. /\ manager \in {"process", "redis"}
      /\ want \in [Sagas -> Resources] /\ patience \in [Sagas -> 0..Patience]
      /\ todo \in [Sagas -> SUBSET Resources] /\ Patience \in 0..Patience
      /\ TypeOK
    BY TypeFacts, ConstantFacts DEF IInv
<1>1. PICK at \in {"run", "wait", "probing", "releasing", "escaped"} :
          /\ Goes(s, at) /\ pc[s] \in Trying
          /\ manager = "process" => at \in {"run", "wait", "escaped"}
    <2>1. CASE WaitLocal(s, r)
        BY <2>1 DEF WaitLocal, Trying
    <2>2. CASE TimesOut(s)
        BY <2>2 DEF TimesOut, Trying
    <2>3. CASE SleepsOrRaises(s)
        BY <2>3 DEF SleepsOrRaises, GivesUp, Trying
    <2>4. CASE FinishRedis(s)
        BY <2>4 DEF FinishRedis, Trying
    <2>5. CASE Escapes(s)
        BY <2>5 DEF Escapes, Trying
    <2>6. CASE pc[s] \in {"run", "wait"} /\ NotSet(s, r)
        BY <2>6 DEF NotSet, Asks, Trying
    <2> QED
        BY <2>1, <2>2, <2>3, <2>4, <2>5, <2>6
<1>2. /\ UNCHANGED <<manager, home, claim, claims, cut, closed, faults>>
      /\ want' \in [Sagas -> Resources] /\ patience' \in [Sagas -> 0..Patience]
      /\ todo' \in [Sagas -> SUBSET Resources]
    <2>1. CASE WaitLocal(s, r)
        BY <1>0, <2>1 DEF WaitLocal
    <2>2. CASE TimesOut(s)
        BY <1>0, <2>2 DEF TimesOut
    <2>3. CASE SleepsOrRaises(s)
        BY <1>0, <2>3 DEF SleepsOrRaises
    <2>4. CASE FinishRedis(s)
        BY <1>0, <2>4 DEF FinishRedis
    <2>5. CASE Escapes(s)
        BY <1>0, <2>5 DEF Escapes
    <2>6. CASE pc[s] \in {"run", "wait"} /\ NotSet(s, r)
        BY <1>0, <2>6 DEF NotSet, Asks
    <2> QED
        BY <2>1, <2>2, <2>3, <2>4, <2>5, <2>6
<1>3. /\ pc' \in [Sagas -> Live \union {"done", "escaped", "dead"}]
      /\ pc'[s] = at /\ \A t \in Sagas \ {s} : pc'[t] = pc[t]
    <2>1. at \in Live \union {"done", "escaped", "dead"}
        BY DEF Live
    <2> QED
        BY <1>0, <1>1, <2>1, GoesFacts
<1>4. TypeOK'
    BY <1>0, <1>2, <1>3 DEF TypeOK, claim
<1>5. \A t \in Sagas : pc'[t] \in Trying => pc[t] \in Trying
    BY <1>1, <1>3
<1>6. manager = "process" =>
          \A t \in Sagas : pc'[t] \notin {"probing", "releasing", "freed"}
    BY <1>1, <1>3 DEF IInv, InProcess
<1> QED
    BY <1>2, <1>4, <1>5, <1>6, CallsKeep

-----------------------------------------------------------------------------
(* On Redis.                                                                *)

LEMMA OnRedis ==
    ASSUME IInv, NEW s \in Sagas, pc[s] \in {"probing", "releasing", "freed"}
    PROVE  manager = "redis"
BY TypeFacts DEF IInv, InProcess

LEMMA NotInProcess ==
    ASSUME manager = "redis", manager' = manager
    PROVE  InProcess'
BY DEF InProcess

LEMMA RecordsFacts ==
    ASSUME TypeOK, NEW s \in Sagas, NEW r \in Resources, Records(s, r)
    PROVE  /\ held' \in [Nodes -> [Resources -> Sagas \union {NoSaga}]]
           /\ beat' \in [Nodes -> [Resources -> Beat]]
           /\ beat'[home[s]][r] = [saga |-> s, due |-> Half]
           /\ \A m \in Nodes : \A q \in Resources : m # home[s] \/ q # r => beat'[m][q] = beat[m][q]
           /\ claims' \in [Sagas -> SUBSET Resources]
           /\ claims'[s] = claims[s] \union {r} /\ \A t \in Sagas \ {s} : claims'[t] = claims[t]
           /\ pc' \in [Sagas -> Live \union {"done", "escaped", "dead"}]
           /\ pc'[s] = "run" /\ \A t \in Sagas \ {s} : pc'[t] = pc[t]
<1>1. /\ held' = [held EXCEPT ![home[s]][r] = s]
      /\ beat' = [beat EXCEPT ![home[s]][r] = [saga |-> s, due |-> Half]]
      /\ claims' = [claims EXCEPT ![s] = claims[s] \union {r}] /\ Goes(s, "run")
    BY DEF Records, Start
<1>2. /\ held \in [Nodes -> [Resources -> Sagas \union {NoSaga}]]
      /\ claims \in [Sagas -> SUBSET Resources] /\ home[s] \in Nodes
    BY TypeFacts
<1>3. held' \in [Nodes -> [Resources -> Sagas \union {NoSaga}]]
    BY <1>1, <1>2
<1>4. /\ claims' \in [Sagas -> SUBSET Resources]
      /\ claims'[s] = claims[s] \union {r} /\ \A t \in Sagas \ {s} : claims'[t] = claims[t]
    BY <1>1, <1>2
<1>5. [saga |-> s, due |-> Half] \in Beat
    BY ConstantFacts
<1>6. /\ beat' \in [Nodes -> [Resources -> Beat]]
      /\ beat'[home[s]][r] = [saga |-> s, due |-> Half]
      /\ \A m \in Nodes : \A q \in Resources : m # home[s] \/ q # r => beat'[m][q] = beat[m][q]
    <2>1. beat \in [Nodes -> [Resources -> Beat]]
        BY TypeFacts
    <2> QED
        BY <1>1, <1>2, <1>5, <2>1
<1>7. /\ pc' \in [Sagas -> Live \union {"done", "escaped", "dead"}]
      /\ pc'[s] = "run" /\ \A t \in Sagas \ {s} : pc'[t] = pc[t]
    BY <1>1, GoesFacts DEF Live
<1> QED
    BY <1>3, <1>4, <1>6, <1>7

\* The key is set: nobody owned it.
LEMMA SetsKeyFacts ==
    ASSUME TypeOK, NEW s \in Sagas, NEW r \in Resources, SetsKey(s, r)
    PROVE  /\ owner' \in [Resources -> Sagas \union {NoSaga}] /\ left' \in [Resources -> Forever..Ttl]
           /\ owner[r] = NoSaga /\ owner'[r] = s /\ left'[r] = Ttl
           /\ \A q \in Resources \ {r} : owner'[q] = owner[q] /\ left'[q] = left[q]
BY TypeFacts, ConstantFacts DEF SetsKey

LEMMA AsksFacts ==
    ASSUME TypeOK, NEW s \in Sagas, NEW r \in Resources, Asks(s, r)
    PROVE  /\ manager = "redis" /\ pc[s] \in {"run", "wait"}
           /\ want' \in [Sagas -> Resources] /\ patience' \in [Sagas -> 0..Patience]
<1>1. Patience \in 0..Patience
    BY ConstantFacts
<1> QED
    BY <1>1, TypeFacts DEF Asks

LEMMA TakeRedisKeeps ==
    ASSUME IInv, NEW s \in Sagas, NEW r \in Resources, TakeRedis(s, r)
    PROVE  IInv'
<1>0. TypeOK
    BY DEF IInv
<1>1. /\ Asks(s, r) /\ SetsKey(s, r) /\ Records(s, r) /\ cut' = cut \ {<<s, r>>}
      /\ UNCHANGED <<manager, home, todo, closed, faults>>
    BY DEF TakeRedis
<1>2. /\ manager = "redis" /\ pc[s] \in {"run", "wait"}
      /\ want' \in [Sagas -> Resources] /\ patience' \in [Sagas -> 0..Patience]
    BY <1>0, <1>1, AsksFacts
<1>3. /\ owner' \in [Resources -> Sagas \union {NoSaga}] /\ left' \in [Resources -> Forever..Ttl]
      /\ owner[r] = NoSaga /\ owner'[r] = s /\ left'[r] = Ttl
      /\ \A q \in Resources \ {r} : owner'[q] = owner[q] /\ left'[q] = left[q]
    BY <1>0, <1>1, SetsKeyFacts
<1>4. /\ held' \in [Nodes -> [Resources -> Sagas \union {NoSaga}]]
      /\ beat' \in [Nodes -> [Resources -> Beat]]
      /\ beat'[home[s]][r] = [saga |-> s, due |-> Half]
      /\ \A m \in Nodes : \A q \in Resources : m # home[s] \/ q # r => beat'[m][q] = beat[m][q]
      /\ claims' \in [Sagas -> SUBSET Resources]
      /\ claims'[s] = claims[s] \union {r} /\ \A t \in Sagas \ {s} : claims'[t] = claims[t]
      /\ pc' \in [Sagas -> Live \union {"done", "escaped", "dead"}]
      /\ pc'[s] = "run" /\ \A t \in Sagas \ {s} : pc'[t] = pc[t]
    BY <1>0, <1>1, RecordsFacts
<1>5. TypeOK'
    BY <1>0, <1>1, <1>2, <1>3, <1>4 DEF TypeOK, Beat
<1>6. InProcess'
    BY <1>1, <1>2, NotInProcess
<1>7. home[s] \in Nodes /\ \A t \in Sagas : home[t] \in Nodes
    BY <1>0, TypeFacts
<1>8. Beats'
    <2> SUFFICES ASSUME NEW m \in Nodes, NEW q \in Resources, beat'[m][q] # NoBeat
                 PROVE  beat'[m][q].saga \in Sagas /\ home'[beat'[m][q].saga] = m
        BY DEF Beats
    <2>1. CASE m # home[s] \/ q # r
        BY <1>1, <1>4, <2>1 DEF IInv, Beats
    <2>2. CASE m = home[s] /\ q = r
        BY <1>1, <1>4, <2>2
    <2> QED
        BY <2>1, <2>2
<1>9. ASSUME NEW t \in Sagas, NEW q \in Resources PROVE KeptAt(t, q)'
    <2>0. KeptAt(t, q)
        BY DEF IInv, Kept
    <2>1. CASE q # r
        <3>1. owner'[q] = owner[q] /\ left'[q] = left[q] /\ beat'[home[t]][q] = beat[home[t]][q]
              /\ (<<t, q>> \in cut => <<t, q>> \in cut')
            BY <1>1, <1>3, <1>4, <1>7, <2>1
        <3>2. q \in claims'[t] => q \in claims[t]
            BY <1>4, <2>1
        <3>3. pc'[t] \in Trying => pc[t] \in Trying
            BY <1>2, <1>4 DEF Trying
        <3> QED
            BY <1>1, <2>0, <3>1, <3>2, <3>3, ClaimStays
    <2>2. CASE q = r /\ t = s
        BY <1>1, <1>3, <1>4, <2>2, HalfFacts DEF KeptAt, Renewed
    <2>3. CASE q = r /\ t # s
        <3>1. claims'[t] = claims[t] /\ pc'[t] = pc[t] /\ (<<t, r>> \in cut => <<t, r>> \in cut')
            BY <1>1, <1>4, <2>3
        <3>2. owner[r] # t
            BY <1>3, ConstantFacts
        <3> QED
            BY <1>1, <2>0, <2>3, <3>1, <3>2 DEF KeptAt
    <2> QED
        BY <2>1, <2>2, <2>3
<1> QED
    BY <1>5, <1>6, <1>8, <1>9 DEF IInv, Kept

LEMMA ReentersKeeps ==
    ASSUME IInv, NEW s \in Sagas, Reenters(s)
    PROVE  IInv'
<1>0. TypeOK /\ pc[s] = "probing" /\ manager = "redis" /\ want[s] \in Resources
      /\ home[s] \in Nodes /\ \A t \in Sagas : home[t] \in Nodes
    BY OnRedis, TypeFacts DEF IInv, Reenters
<1>1. PICK r \in Resources : r = want[s]
    BY <1>0
<1>2. /\ owner[r] = s /\ Records(s, r) /\ cut' = cut \union {<<s, r>>}
      /\ UNCHANGED <<manager, home, owner, left, want, patience, todo, closed, faults>>
    BY <1>1 DEF Reenters
<1>3. /\ held' \in [Nodes -> [Resources -> Sagas \union {NoSaga}]]
      /\ beat' \in [Nodes -> [Resources -> Beat]]
      /\ beat'[home[s]][r] = [saga |-> s, due |-> Half]
      /\ \A m \in Nodes : \A q \in Resources : m # home[s] \/ q # r => beat'[m][q] = beat[m][q]
      /\ claims' \in [Sagas -> SUBSET Resources]
      /\ claims'[s] = claims[s] \union {r} /\ \A t \in Sagas \ {s} : claims'[t] = claims[t]
      /\ pc' \in [Sagas -> Live \union {"done", "escaped", "dead"}]
      /\ pc'[s] = "run" /\ \A t \in Sagas \ {s} : pc'[t] = pc[t]
    BY <1>0, <1>2, RecordsFacts
<1>4. TypeOK'
    BY <1>0, <1>2, <1>3 DEF TypeOK, Beat
<1>5. InProcess'
    BY <1>0, <1>2, NotInProcess
<1>6. Beats'
    <2> SUFFICES ASSUME NEW m \in Nodes, NEW q \in Resources, beat'[m][q] # NoBeat
                 PROVE  beat'[m][q].saga \in Sagas /\ home'[beat'[m][q].saga] = m
        BY DEF Beats
    <2>1. CASE m # home[s] \/ q # r
        BY <1>2, <1>3, <2>1 DEF IInv, Beats
    <2>2. CASE m = home[s] /\ q = r
        BY <1>2, <1>3, <2>2
    <2> QED
        BY <2>1, <2>2
<1>7. ASSUME NEW t \in Sagas, NEW q \in Resources PROVE KeptAt(t, q)'
    <2>0. KeptAt(t, q)
        BY DEF IInv, Kept
    <2>1. CASE q # r
        <3>1. beat'[home[t]][q] = beat[home[t]][q] /\ (q \in claims'[t] => q \in claims[t])
              /\ (pc'[t] \in Trying => pc[t] \in Trying)
            BY <1>0, <1>3, <2>1 DEF Trying
        <3> QED
            BY <1>2, <2>0, <3>1, ClaimStays
    <2>2. CASE q = r /\ t = s
        BY <1>2, <2>2 DEF KeptAt
    <2>3. CASE q = r /\ t # s
        <3>1. claims'[t] = claims[t] /\ pc'[t] = pc[t] /\ (<<t, r>> \in cut => <<t, r>> \in cut')
            BY <1>2, <1>3, <2>3
        <3>2. owner[r] # t
            BY <1>2, <2>3
        <3> QED
            BY <1>2, <2>0, <2>3, <3>1, <3>2 DEF KeptAt
    <2> QED
        BY <2>1, <2>2, <2>3
<1> QED
    BY <1>4, <1>5, <1>6, <1>7 DEF IInv, Kept

LEMMA AcquireFailsKeeps ==
    ASSUME IInv, NEW s \in Sagas, NEW r \in Resources, AcquireFails(s, r)
    PROVE  IInv'
<1>0. TypeOK
    BY DEF IInv
<1>1. /\ Fault /\ Goes(s, "run")
      /\ UNCHANGED <<manager, home, held, beat, claims, todo, cut, closed>>
    BY DEF AcquireFails
<1>2. /\ pc' \in [Sagas -> Live \union {"done", "escaped", "dead"}]
      /\ pc'[s] = "run" /\ \A t \in Sagas \ {s} : pc'[t] = pc[t]
    BY <1>0, <1>1, GoesFacts DEF Live
<1>3. faults' \in 0..MaxFaults
    BY <1>0, <1>1, FaultFacts
<1>4. /\ manager = "redis" /\ pc[s] \in Trying
      /\ want' \in [Sagas -> Resources] /\ patience' \in [Sagas -> 0..Patience]
      /\ (UNCHANGED <<owner, left>>) \/ SetsKey(s, r)
    <2>1. CASE pc[s] = "probing" /\ r = want[s] /\ UNCHANGED <<owner, left, want, patience>>
        BY <1>0, <2>1, OnRedis, TypeFacts DEF Trying
    <2>2. CASE Asks(s, r) /\ ((UNCHANGED <<owner, left>>) \/ SetsKey(s, r))
        BY <1>0, <2>2, AsksFacts DEF Trying
    <2> QED
        BY <2>1, <2>2 DEF AcquireFails
<1>5. \A t \in Sagas : pc'[t] \in Trying => pc[t] \in Trying
    BY <1>2, <1>4
<1>6. CASE UNCHANGED <<owner, left>>
    <2>1. TypeOK'
        BY <1>0, <1>1, <1>2, <1>3, <1>4, <1>6 DEF TypeOK
    <2>2. UNCHANGED <<manager, home, claim, claims, cut, closed>>
        BY <1>1, <1>6 DEF claim
    <2> QED
        BY <1>4, <1>5, <2>1, <2>2, CallsKeep
<1>7. CASE SetsKey(s, r)
    <2>1. /\ owner' \in [Resources -> Sagas \union {NoSaga}] /\ left' \in [Resources -> Forever..Ttl]
          /\ owner[r] = NoSaga /\ owner'[r] = s /\ left'[r] = Ttl
          /\ \A q \in Resources \ {r} : owner'[q] = owner[q] /\ left'[q] = left[q]
        BY <1>0, <1>7, SetsKeyFacts
    <2>2. TypeOK'
        BY <1>0, <1>1, <1>2, <1>3, <1>4, <2>1 DEF TypeOK
    <2>3. InProcess'
        BY <1>1, <1>4, NotInProcess
    <2>4. Beats'
        BY <1>1 DEF IInv, Beats
    <2>5. ASSUME NEW t \in Sagas, NEW q \in Resources PROVE KeptAt(t, q)'
        <3>0. KeptAt(t, q)
            BY DEF IInv, Kept
        <3>1. CASE q # r
            BY <1>1, <1>5, <2>1, <3>0, <3>1 DEF KeptAt, Renewed
        <3>2. CASE q = r
            <4>1. owner[r] # t
                BY <2>1, ConstantFacts
            <4> QED
                BY <1>1, <1>5, <3>0, <3>2, <4>1 DEF KeptAt
        <3> QED
            BY <3>1, <3>2
    <2> QED
        BY <2>2, <2>3, <2>4, <2>5 DEF IInv, Kept
<1> QED
    BY <1>4, <1>6, <1>7

-----------------------------------------------------------------------------
(* Renewals.                                                                *)

LEMMA HeartbeatKeeps ==
    ASSUME IInv, NEW n \in Nodes, NEW r \in Resources, Heartbeat(n, r)
    PROVE  IInv'
<1> DEFINE b == beat[n][r]
<1>0. TypeOK
    BY DEF IInv
<1>1. /\ b # NoBeat /\ b.due = 0
      /\ \/ /\ owner[r] = b.saga /\ left' = [left EXCEPT ![r] = Ttl]
            /\ beat' = [beat EXCEPT ![n][r].due = Half] /\ cut' = cut \ {<<b.saga, r>>}
         \/ /\ owner[r] # b.saga /\ beat' = [beat EXCEPT ![n][r] = NoBeat]
            /\ left' = left /\ cut' = cut
      /\ UNCHANGED <<manager, home, owner, held, claims, pc, want, patience, todo, closed, faults>>
    BY DEF Heartbeat, Renewable, run
<1>2. /\ beat \in [Nodes -> [Resources -> Beat]] /\ left \in [Resources -> Forever..Ttl]
      /\ b \in Beat /\ cut \subseteq Sagas \X Resources /\ \A t \in Sagas : home[t] \in Nodes
    BY <1>0, TypeFacts
<1>3. b.saga \in Sagas /\ home[b.saga] = n
    BY <1>1 DEF IInv, Beats
<1> HIDE DEF b
<1>4. CASE /\ owner[r] = b.saga /\ left' = [left EXCEPT ![r] = Ttl]
           /\ beat' = [beat EXCEPT ![n][r].due = Half] /\ cut' = cut \ {<<b.saga, r>>}
    <2>1. PICK c \in Beat : c.saga = b.saga /\ c.due = Half /\ c = [saga |-> b.saga, due |-> Half]
        BY <1>3, ConstantFacts
    <2>2. beat' = [beat EXCEPT ![n][r] = c]
        <3>1. [beat[n][r] EXCEPT !.due = Half] = c
            BY <1>2, <2>1 DEF b, Beat
        <3>2. beat' = [beat EXCEPT ![n] = [beat[n] EXCEPT ![r] = [beat[n][r] EXCEPT !.due = Half]]]
            BY <1>4
        <3> QED
            BY <3>1, <3>2
    <2>3. /\ beat' \in [Nodes -> [Resources -> Beat]] /\ beat'[n][r] = c
          /\ \A m \in Nodes : \A q \in Resources : m # n \/ q # r => beat'[m][q] = beat[m][q]
        BY <1>0, <2>2, BeatFacts
    <2>4. left' \in [Resources -> Forever..Ttl] /\ left'[r] = Ttl
          /\ \A q \in Resources \ {r} : left'[q] = left[q]
        BY <1>2, <1>4, ConstantFacts
    <2>5. TypeOK'
        BY <1>0, <1>1, <1>4, <2>3, <2>4 DEF TypeOK, Beat
    <2>6. InProcess'
        <3>1. ASSUME NEW q \in Resources, owner[q] = NoSaga PROVE left'[q] = left[q]
            BY <1>3, <1>4, <2>4, <3>1, ConstantFacts
        <3>2. cut = {} => cut' = {}
            BY <1>4
        <3> QED
            BY <1>1, <3>1, <3>2 DEF IInv, InProcess
    <2>7. Beats'
        <3> SUFFICES ASSUME NEW m \in Nodes, NEW q \in Resources, beat'[m][q] # NoBeat
                     PROVE  beat'[m][q].saga \in Sagas /\ home'[beat'[m][q].saga] = m
            BY DEF Beats
        <3>1. CASE m # n \/ q # r
            BY <1>1, <2>3, <3>1 DEF IInv, Beats
        <3>2. CASE m = n /\ q = r
            BY <1>1, <1>3, <2>1, <2>3, <3>2
        <3> QED
            BY <3>1, <3>2
    <2>8. ASSUME NEW t \in Sagas, NEW q \in Resources PROVE KeptAt(t, q)'
        <3>0. KeptAt(t, q)
            BY DEF IInv, Kept
        <3>1. CASE q # r
            <4>1. left'[q] = left[q] /\ beat'[home[t]][q] = beat[home[t]][q]
                  /\ (<<t, q>> \in cut => <<t, q>> \in cut')
                BY <1>2, <1>4, <2>3, <2>4, <3>1
            <4> QED
                BY <1>1, <3>0, <4>1 DEF KeptAt, Renewed
        <3>2. CASE q = r /\ t = b.saga
            BY <1>1, <1>3, <1>4, <2>1, <2>3, <2>4, <3>2, HalfFacts DEF KeptAt, Renewed
        <3>3. CASE q = r /\ t # b.saga
            <4>1. <<t, q>> \in cut => <<t, q>> \in cut'
                BY <1>4, <3>3
            <4>2. owner[r] # t
                BY <1>4, <3>3
            <4> QED
                BY <1>1, <3>0, <3>3, <4>1, <4>2 DEF KeptAt
        <3> QED
            BY <3>1, <3>2, <3>3
    <2> QED
        BY <2>5, <2>6, <2>7, <2>8 DEF IInv, Kept
<1>5. CASE /\ owner[r] # b.saga /\ beat' = [beat EXCEPT ![n][r] = NoBeat]
           /\ left' = left /\ cut' = cut
    <2>1. /\ beat' \in [Nodes -> [Resources -> Beat]] /\ beat'[n][r] = NoBeat
          /\ \A m \in Nodes : \A q \in Resources : m # n \/ q # r => beat'[m][q] = beat[m][q]
        BY <1>0, <1>5, NoBeatFacts
    <2>2. TypeOK'
        BY <1>0, <1>1, <1>5, <2>1 DEF TypeOK, Beat
    <2>3. InProcess'
        BY <1>1, <1>5 DEF IInv, InProcess
    <2>4. Beats'
        <3>1. \A m \in Nodes : \A q \in Resources :
                  beat'[m][q] = NoBeat \/ beat'[m][q] = beat[m][q]
            BY <2>1
        <3> QED
            BY <1>1, <3>1 DEF IInv, Beats
    <2>5. ASSUME NEW t \in Sagas, NEW q \in Resources PROVE KeptAt(t, q)'
        <3>0. KeptAt(t, q)
            BY DEF IInv, Kept
        <3>1. CASE home[t] # n \/ q # r
            <4>1. beat'[home[t]][q] = beat[home[t]][q]
                BY <1>2, <2>1, <3>1
            <4> QED
                BY <1>1, <1>5, <3>0, <4>1 DEF KeptAt, Renewed
        <3>2. CASE home[t] = n /\ q = r
            <4>1. owner[r] = t => beat[home[t]][r].saga # t
                BY <1>5, <3>2 DEF b
            <4> QED
                BY <1>1, <1>5, <3>0, <3>2, <4>1 DEF KeptAt, Renewed
        <3> QED
            BY <3>1, <3>2
    <2> QED
        BY <2>2, <2>3, <2>4, <2>5 DEF IInv, Kept
<1> QED
    BY <1>1, <1>4, <1>5

LEMMA HeartbeatFailsKeeps ==
    ASSUME IInv, NEW n \in Nodes, NEW r \in Resources, HeartbeatFails(n, r)
    PROVE  IInv'
<1>0. TypeOK
    BY DEF IInv
<1>1. /\ manager = "redis" /\ Fault /\ beat[n][r] # NoBeat
      /\ beat' = [beat EXCEPT ![n][r] = NoBeat] /\ cut' = cut \union {<<beat[n][r].saga, r>>}
      /\ UNCHANGED <<manager, home, owner, left, held, claims, pc, want, patience, todo, closed>>
    BY DEF HeartbeatFails, run
<1>2. beat[n][r].saga \in Sagas /\ cut \subseteq Sagas \X Resources
      /\ \A t \in Sagas : home[t] \in Nodes
    BY <1>0, <1>1, TypeFacts DEF IInv, Beats
<1>3. /\ beat' \in [Nodes -> [Resources -> Beat]] /\ beat'[n][r] = NoBeat
      /\ \A m \in Nodes : \A q \in Resources : m # n \/ q # r => beat'[m][q] = beat[m][q]
    BY <1>0, <1>1, NoBeatFacts
<1>4. faults' \in 0..MaxFaults
    BY <1>0, <1>1, FaultFacts
<1>5. TypeOK'
    BY <1>0, <1>1, <1>2, <1>3, <1>4 DEF TypeOK, Beat
<1>6. InProcess'
    BY <1>1, NotInProcess
<1>7. Beats'
    <2>1. \A m \in Nodes : \A q \in Resources :
              beat'[m][q] = NoBeat \/ beat'[m][q] = beat[m][q]
        BY <1>3
    <2> QED
        BY <1>1, <2>1 DEF IInv, Beats
<1>8. ASSUME NEW t \in Sagas, NEW q \in Resources PROVE KeptAt(t, q)'
    <2>0. KeptAt(t, q)
        BY DEF IInv, Kept
    <2>1. CASE home[t] # n \/ q # r
        <3>1. beat'[home[t]][q] = beat[home[t]][q]
            BY <1>2, <1>3, <2>1
        <3> QED
            BY <1>1, <2>0, <3>1 DEF KeptAt, Renewed
    <2>2. CASE home[t] = n /\ q = r
        <3>1. beat[home[t]][r].saga = t => <<t, r>> \in cut'
            BY <1>1, <2>2
        <3> QED
            BY <1>1, <2>0, <2>2, <3>1 DEF KeptAt, Renewed
    <2> QED
        BY <2>1, <2>2
<1> QED
    BY <1>5, <1>6, <1>7, <1>8 DEF IInv, Kept

LEMMA TickKeeps ==
    ASSUME IInv, Tick
    PROVE  IInv'
<1> DEFINE less(k) == IF k > 0 THEN k - 1 ELSE k
<1> DEFINE gone == {r \in Resources : manager = "redis" /\ left[r] = 1}
<1>0. TypeOK
    BY DEF IInv
<1>1. /\ \A n \in Nodes, r \in Resources : beat[n][r] # NoBeat => beat[n][r].due > 0
      /\ owner' = [r \in Resources |-> IF r \in gone THEN NoSaga ELSE owner[r]]
      /\ left' = [r \in Resources |-> IF r \in gone THEN Forever ELSE less(left[r])]
      /\ beat' = [n \in Nodes |-> [r \in Resources |->
                     [beat[n][r] EXCEPT !.due = less(beat[n][r].due)]]]
      /\ patience' = [s \in Sagas |-> less(patience[s])]
      /\ UNCHANGED <<manager, home, held, claims, pc, want, todo, cut, closed, faults>>
    BY DEF Tick
<1>2. /\ owner \in [Resources -> Sagas \union {NoSaga}] /\ left \in [Resources -> Forever..Ttl]
      /\ beat \in [Nodes -> [Resources -> Beat]] /\ patience \in [Sagas -> 0..Patience]
      /\ \A t \in Sagas : home[t] \in Nodes
    BY <1>0, TypeFacts
<1>3. owner' \in [Resources -> Sagas \union {NoSaga}]
    BY <1>1, <1>2
<1>4. left' \in [Resources -> Forever..Ttl]
    <2>1. ASSUME NEW r \in Resources PROVE less(left[r]) \in Forever..Ttl
        <3>1. left[r] \in Forever..Ttl
            BY <1>2
        <3> QED
            BY <3>1, HalfFacts DEF Forever
    <2> QED
        BY <1>1, <2>1, ConstantFacts
<1>5. patience' \in [Sagas -> 0..Patience]
    <2>1. ASSUME NEW s \in Sagas PROVE less(patience[s]) \in 0..Patience
        <3>1. patience[s] \in 0..Patience
            BY <1>2
        <3> QED
            BY <3>1, ConstantFacts
    <2> QED
        BY <1>1, <2>1
<1>6. ASSUME NEW n \in Nodes, NEW r \in Resources
      PROVE  /\ beat'[n][r] \in Beat /\ beat'[n][r].saga = beat[n][r].saga
             /\ beat'[n][r].due = less(beat[n][r].due) /\ beat[n][r].due \in 0..Half
    <2>1. beat[n][r] \in Beat /\ beat[n][r].due \in 0..Half
          /\ beat[n][r].saga \in Sagas \union {NoSaga}
        BY <1>2 DEF Beat
    <2>2. less(beat[n][r].due) \in 0..Half
        BY <2>1, HalfFacts
    <2>3. beat'[n][r] = [beat[n][r] EXCEPT !.due = less(beat[n][r].due)]
        BY <1>1
    <2>4. beat'[n][r] = [saga |-> beat[n][r].saga, due |-> less(beat[n][r].due)]
        BY <2>1, <2>3 DEF Beat
    <2> QED
        BY <2>1, <2>2, <2>4 DEF Beat
<1>7. beat' \in [Nodes -> [Resources -> Beat]]
    <2>1. \A n \in Nodes : \A r \in Resources :
              [beat[n][r] EXCEPT !.due = less(beat[n][r].due)] \in Beat
        <3> SUFFICES ASSUME NEW n \in Nodes, NEW r \in Resources
                     PROVE  [beat[n][r] EXCEPT !.due = less(beat[n][r].due)] \in Beat
            OBVIOUS
        <3>1. beat'[n][r] = [beat[n][r] EXCEPT !.due = less(beat[n][r].due)]
            BY <1>1
        <3> QED
            BY <1>6, <3>1
    <2> QED
        BY <1>1, <2>1
<1>8. TypeOK'
    BY <1>0, <1>1, <1>3, <1>4, <1>5, <1>7 DEF TypeOK, Beat
<1>9. InProcess'
    <2> SUFFICES ASSUME manager = "process" PROVE InProcess'
        BY <1>1 DEF InProcess
    <2>1. \A r \in Resources : owner'[r] = owner[r] /\ left'[r] = less(left[r])
        BY <1>1
    <2>2. \A r \in Resources : left[r] = Forever => left'[r] = Forever
        BY <2>1 DEF Forever
    <2> QED
        BY <1>1, <2>1, <2>2 DEF IInv, InProcess
<1>10. Beats'
    <2> SUFFICES ASSUME NEW n \in Nodes, NEW r \in Resources, beat'[n][r] # NoBeat
                 PROVE  beat'[n][r].saga \in Sagas /\ home'[beat'[n][r].saga] = n
        BY DEF Beats
    <2>1. beat[n][r] # NoBeat
        <3> SUFFICES ASSUME beat[n][r] = NoBeat PROVE FALSE
            OBVIOUS
        <3>1. beat'[n][r] = [beat[n][r] EXCEPT !.due = less(beat[n][r].due)]
            BY <1>1
        <3>2. less(0) = 0
            OBVIOUS
        <3>3. beat'[n][r] = [NoBeat EXCEPT !.due = 0]
            BY <3>1, <3>2, ConstantFacts
        <3> QED
            BY <3>3 DEF NoBeat
    <2> QED
        BY <1>1, <1>6, <2>1 DEF IInv, Beats
<1>11. ASSUME NEW t \in Sagas, NEW q \in Resources PROVE KeptAt(t, q)'
    <2> SUFFICES ASSUME pc[t] \in Trying, home[t] \notin closed, q \in claims[t],
                        <<t, q>> \notin cut
                 PROVE  owner'[q] = t /\ Renewed(t, q)'
        BY <1>1 DEF KeptAt
    <2>0. KeptAt(t, q)
        BY DEF IInv, Kept
    <2>1. owner[q] = t /\ Renewed(t, q)
        BY <2>0 DEF KeptAt
    <2>2. CASE left[q] = Forever
        <3>1. q \notin gone /\ less(left[q]) = Forever
            BY <2>2 DEF Forever
        <3>2. owner'[q] = t /\ left'[q] = Forever
            BY <1>1, <2>1, <3>1
        <3> QED
            BY <3>2 DEF Renewed
    <2>3. CASE beat[home[t]][q].saga = t /\ beat[home[t]][q].due < left[q]
        <3>1. beat[home[t]][q].due > 0
            BY <1>1, <1>2, <2>3, ConstantFacts
        <3>2. /\ beat'[home[t]][q].saga = t
              /\ beat'[home[t]][q].due = less(beat[home[t]][q].due)
              /\ beat[home[t]][q].due \in Nat
            BY <1>2, <1>6, <2>3, HalfFacts
        <3>3. left[q] \in Int /\ left[q] > 1
            BY <1>2, <2>3, <3>1, <3>2, HalfFacts DEF Forever
        <3>4. q \notin gone
            BY <3>3
        <3>5. owner'[q] = t /\ left'[q] = left[q] - 1
            BY <1>1, <2>1, <3>3, <3>4
        <3>6. beat'[home[t]][q].due = beat[home[t]][q].due - 1
            BY <3>1, <3>2
        <3>7. beat'[home[t]][q].due < left'[q]
            BY <2>3, <3>2, <3>3, <3>5, <3>6
        <3> QED
            BY <1>1, <3>2, <3>5, <3>7 DEF Renewed
    <2> QED
        BY <2>1, <2>2, <2>3 DEF Renewed
<1> QED
    BY <1>8, <1>9, <1>10, <1>11 DEF IInv, Kept

-----------------------------------------------------------------------------
(* finish(), and the ways around it.                                        *)

LEMMA FinishLocalKeeps ==
    ASSUME IInv, NEW s \in Sagas, FinishLocal(s)
    PROVE  IInv'
<1> DEFINE mine == {r \in Resources : owner[r] = s}
<1>0. TypeOK /\ home[s] \in Nodes /\ \A t \in Sagas : home[t] \in Nodes
    BY TypeFacts DEF IInv
<1>1. /\ manager = "process" \/ claims[s] = {}
      /\ claims' = [claims EXCEPT ![s] = {}] /\ cut' = {c \in cut : c[1] # s}
      /\ Goes(s, "done")
      /\ UNCHANGED <<manager, home, held, want, patience, todo, closed, faults>>
    BY DEF FinishLocal, claim
<1>2. /\ pc' \in [Sagas -> Live \union {"done", "escaped", "dead"}]
      /\ pc'[s] = "done" /\ \A t \in Sagas \ {s} : pc'[t] = pc[t]
    BY <1>0, <1>1, GoesFacts
<1>3. /\ claims' \in [Sagas -> SUBSET Resources]
      /\ \A t \in Sagas \ {s} : claims'[t] = claims[t]
    BY <1>0, <1>1, TypeFacts
<1>4. /\ cut' \subseteq cut
      /\ \A t \in Sagas \ {s} : \A r \in Resources : <<t, r>> \in cut => <<t, r>> \in cut'
    BY <1>1
<1>5. /\ owner' \in [Resources -> Sagas \union {NoSaga}] /\ left' \in [Resources -> Forever..Ttl]
      /\ beat' \in [Nodes -> [Resources -> Beat]]
      /\ \A r \in Resources :
             \/ owner'[r] = owner[r] /\ left'[r] = left[r]
                /\ (\A m \in Nodes : beat'[m][r] = beat[m][r]) /\ (owner[r] = s => claims[s] = {})
             \/ owner[r] = s /\ owner'[r] = NoSaga /\ left'[r] = Forever
                /\ (\A m \in Nodes : beat'[m][r] \in {beat[m][r], NoBeat})
    <2>0. /\ owner \in [Resources -> Sagas \union {NoSaga}]
          /\ left \in [Resources -> Forever..Ttl] /\ beat \in [Nodes -> [Resources -> Beat]]
        BY <1>0, TypeFacts
    <2>1. CASE claims[s] = {}
        BY <2>0, <2>1 DEF FinishLocal, claim
    <2>2. CASE claims[s] # {}
        <3>1. /\ owner' = [r \in Resources |-> IF r \in mine THEN NoSaga ELSE owner[r]]
              /\ left' = [r \in Resources |-> IF r \in mine THEN Forever ELSE left[r]]
              /\ beat' = [beat EXCEPT ![home[s]] =
                             [r \in Resources |-> IF r \in mine THEN NoBeat ELSE beat[home[s]][r]]]
            BY <2>2 DEF FinishLocal
        <3>2. [r \in Resources |-> IF r \in mine THEN NoBeat ELSE beat[home[s]][r]]
                  \in [Resources -> Beat]
            BY <1>0, <2>0, ConstantFacts
        <3>3. /\ owner' \in [Resources -> Sagas \union {NoSaga}]
              /\ left' \in [Resources -> Forever..Ttl] /\ beat' \in [Nodes -> [Resources -> Beat]]
            BY <2>0, <3>1, <3>2, ConstantFacts
        <3>4. ASSUME NEW r \in Resources, r \notin mine, NEW m \in Nodes
              PROVE  beat'[m][r] = beat[m][r]
            BY <1>0, <2>0, <3>1, <3>4
        <3>5. ASSUME NEW r \in Resources, r \in mine, NEW m \in Nodes
              PROVE  beat'[m][r] \in {beat[m][r], NoBeat}
            BY <1>0, <2>0, <3>1, <3>5
        <3> QED
            BY <3>1, <3>3, <3>4, <3>5
    <2> QED
        BY <2>1, <2>2
<1>6. TypeOK'
    BY <1>0, <1>1, <1>2, <1>3, <1>4, <1>5 DEF TypeOK, Beat
<1>7. InProcess'
    <2> SUFFICES ASSUME manager = "process" PROVE InProcess'
        BY <1>1 DEF InProcess
    <2>1. /\ \A x, y \in Sagas : home[x] = home[y]
          /\ cut = {} /\ \A t \in Sagas : pc[t] \notin {"probing", "releasing", "freed"}
          /\ \A q \in Resources :
                 /\ owner[q] # NoSaga => q \in claims[owner[q]]
                 /\ owner[q] = NoSaga /\ (\A t \in Sagas : home[t] \notin closed) =>
                        left[q] = Forever
        BY DEF IInv, InProcess
    <2>2. \A t \in Sagas : pc'[t] \notin {"probing", "releasing", "freed"}
        BY <1>2, <2>1
    <2>3. ASSUME NEW q \in Resources
          PROVE  /\ owner'[q] # NoSaga => q \in claims'[owner'[q]]
                 /\ owner'[q] = NoSaga /\ (\A t \in Sagas : home'[t] \notin closed') =>
                        left'[q] = Forever
        <3>1. CASE owner'[q] = NoSaga /\ left'[q] = Forever
            BY <3>1
        <3>2. CASE owner'[q] = owner[q] /\ left'[q] = left[q] /\ (owner[q] = s => claims[s] = {})
            <4>1. owner[q] # NoSaga => owner[q] \in Sagas \ {s}
                BY <1>0, <2>1, <3>2, TypeFacts
            <4> QED
                BY <1>1, <1>3, <2>1, <3>2, <4>1
        <3> QED
            BY <1>5, <3>1, <3>2
    <2>4. cut' = {}
        BY <1>4, <2>1
    <2> QED
        BY <1>1, <2>1, <2>2, <2>3, <2>4 DEF InProcess
<1>8. Beats'
    <2>1. \A m \in Nodes : \A q \in Resources : beat'[m][q] = NoBeat \/ beat'[m][q] = beat[m][q]
        BY <1>5
    <2> QED
        BY <1>1, <2>1 DEF IInv, Beats
<1>9. ASSUME NEW t \in Sagas, NEW q \in Resources PROVE KeptAt(t, q)'
    <2>0. KeptAt(t, q)
        BY DEF IInv, Kept
    <2>1. CASE t = s
        BY <1>2, <2>1 DEF KeptAt, Trying
    <2>2. CASE t # s /\ owner[q] # t
        BY <1>1, <1>2, <1>3, <1>4, <2>0, <2>2 DEF KeptAt
    <2>3. CASE t # s /\ owner[q] = t
        <3>1. owner'[q] = owner[q] /\ left'[q] = left[q] /\ beat'[home[t]][q] = beat[home[t]][q]
            BY <1>0, <1>5, <2>3
        <3> QED
            BY <1>1, <1>2, <1>3, <1>4, <2>0, <2>3, <3>1 DEF KeptAt, Renewed
    <2> QED
        BY <2>1, <2>2, <2>3
<1> QED
    BY <1>6, <1>7, <1>8, <1>9 DEF IInv, Kept

\* The compare-and-delete takes a claim from nobody but its caller.
LEMMA DeletesFacts ==
    ASSUME TypeOK, NEW s \in Sagas, NEW r \in Resources,
           Deletes(s, r) \/ UNCHANGED <<owner, left>>
    PROVE  /\ owner' \in [Resources -> Sagas \union {NoSaga}] /\ left' \in [Resources -> Forever..Ttl]
           /\ \A q \in Resources : owner[q] # s => owner'[q] = owner[q] /\ left'[q] = left[q]
<1>1. owner \in [Resources -> Sagas \union {NoSaga}] /\ left \in [Resources -> Forever..Ttl]
    BY TypeFacts
<1>2. CASE UNCHANGED <<owner, left>>
    BY <1>1, <1>2
<1>3. CASE owner[r] = s /\ Deletes(s, r)
    <2>1. owner' = [owner EXCEPT ![r] = NoSaga] /\ left' = [left EXCEPT ![r] = Forever]
        BY <1>3 DEF Deletes, MayDelete
    <2> QED
        BY <1>1, <1>3, <2>1, ConstantFacts
<1>4. CASE owner[r] # s /\ Deletes(s, r)
    BY <1>1, <1>4 DEF Deletes, MayDelete
<1> QED
    BY <1>2, <1>3, <1>4

LEMMA ReleasesKeep ==
    ASSUME IInv, NEW s \in Sagas, NEW r \in Resources, ReleaseCall(s, r) \/ ReleaseFails(s, r)
    PROVE  IInv'
<1>0. TypeOK /\ manager = "redis" /\ pc[s] = "releasing"
    BY OnRedis DEF IInv, ReleaseCall, ReleaseFails
<1>1. PICK at \in {"freed", "escaped"} : Goes(s, at)
    BY DEF ReleaseCall, ReleaseFails
<1>2. /\ pc' \in [Sagas -> Live \union {"done", "escaped", "dead"}]
      /\ pc'[s] = at /\ \A t \in Sagas \ {s} : pc'[t] = pc[t]
    <2>1. at \in Live \union {"done", "escaped", "dead"}
        BY DEF Live
    <2> QED
        BY <1>0, <1>1, <2>1, GoesFacts
<1>3. /\ Deletes(s, r) \/ UNCHANGED <<owner, left>>
      /\ want' \in [Sagas -> Resources] /\ faults' \in 0..MaxFaults
      /\ UNCHANGED <<manager, home, held, beat, claims, patience, todo, cut, closed>>
    <2>1. CASE ReleaseCall(s, r)
        BY <1>0, <2>1, TypeFacts DEF ReleaseCall
    <2>2. CASE ReleaseFails(s, r)
        BY <1>0, <2>2, TypeFacts, FaultFacts DEF ReleaseFails
    <2> QED
        BY <2>1, <2>2
<1>4. /\ owner' \in [Resources -> Sagas \union {NoSaga}] /\ left' \in [Resources -> Forever..Ttl]
      /\ \A q \in Resources : owner[q] # s => owner'[q] = owner[q] /\ left'[q] = left[q]
    BY <1>0, <1>3, DeletesFacts
<1>5. TypeOK'
    BY <1>0, <1>2, <1>3, <1>4 DEF TypeOK
<1>6. InProcess'
    BY <1>0, <1>3, NotInProcess
<1>7. Beats'
    BY <1>3 DEF IInv, Beats
<1>8. ASSUME NEW t \in Sagas, NEW q \in Resources PROVE KeptAt(t, q)'
    <2>0. KeptAt(t, q)
        BY DEF IInv, Kept
    <2>1. CASE t = s
        BY <1>2, <2>1 DEF KeptAt, Trying
    <2>2. CASE t # s /\ owner[q] # t
        BY <1>2, <1>3, <2>0, <2>2 DEF KeptAt
    <2>3. CASE t # s /\ owner[q] = t
        <3>1. owner'[q] = owner[q] /\ left'[q] = left[q]
            BY <1>4, <2>3
        <3> QED
            BY <1>2, <1>3, <2>0, <2>3, <3>1 DEF KeptAt, Renewed
    <2> QED
        BY <2>1, <2>2, <2>3
<1> QED
    BY <1>5, <1>6, <1>7, <1>8 DEF IInv, Kept

\* A release stops the heartbeat of its key on its node: the claim of an heir is cut.
LEMMA ReleaseAnsweredKeeps ==
    ASSUME IInv, NEW s \in Sagas, ReleaseAnswered(s)
    PROVE  IInv'
<1>0. /\ TypeOK /\ pc[s] = "freed" /\ manager = "redis" /\ want[s] \in Resources
      /\ home[s] \in Nodes /\ \A t \in Sagas : home[t] \in Nodes
    BY OnRedis, TypeFacts DEF IInv, ReleaseAnswered
<1>1. PICK r \in Resources : r = want[s]
    BY <1>0
<1>2. PICK n \in Nodes : n = home[s]
    BY <1>0
<1>3. /\ held' = [held EXCEPT ![n][r] = NoSaga] /\ beat' = [beat EXCEPT ![n][r] = NoBeat]
      /\ cut' = IF beat[n][r].saga \in Sagas \ {s} THEN cut \union {<<beat[n][r].saga, r>>} ELSE cut
      /\ todo' = [todo EXCEPT ![s] = todo[s] \ {r}] /\ Goes(s, "releasing")
      /\ UNCHANGED <<manager, home, owner, left, claims, want, patience, closed, faults>>
    BY <1>1, <1>2 DEF ReleaseAnswered
<1>4. /\ pc' \in [Sagas -> Live \union {"done", "escaped", "dead"}]
      /\ pc'[s] = "releasing" /\ \A t \in Sagas \ {s} : pc'[t] = pc[t]
    <2>1. "releasing" \in Live \union {"done", "escaped", "dead"}
        BY DEF Live
    <2> QED
        BY <1>0, <1>3, <2>1, GoesFacts
<1>5. /\ beat' \in [Nodes -> [Resources -> Beat]] /\ beat'[n][r] = NoBeat
      /\ \A m \in Nodes : \A q \in Resources : m # n \/ q # r => beat'[m][q] = beat[m][q]
    <2>1. TypeOK /\ beat' = [beat EXCEPT ![n][r] = NoBeat]
        BY <1>0, <1>3
    <2> QED
        BY <2>1, NoBeatFacts
<1>6. TypeOK'
    <2>1. /\ held' \in [Nodes -> [Resources -> Sagas \union {NoSaga}]]
          /\ todo' \in [Sagas -> SUBSET Resources] /\ cut' \subseteq Sagas \X Resources
        BY <1>0, <1>3, TypeFacts
    <2> QED
        BY <1>0, <1>3, <1>4, <1>5, <2>1 DEF TypeOK, Beat
<1>7. InProcess'
    BY <1>0, <1>3, NotInProcess
<1>8. Beats'
    <2>1. \A m \in Nodes : \A q \in Resources : beat'[m][q] = NoBeat \/ beat'[m][q] = beat[m][q]
        BY <1>5
    <2> QED
        BY <1>3, <2>1 DEF IInv, Beats
<1>9. ASSUME NEW t \in Sagas, NEW q \in Resources PROVE KeptAt(t, q)'
    <2>0. KeptAt(t, q)
        BY DEF IInv, Kept
    <2>1. CASE t = s
        BY <1>4, <2>1 DEF KeptAt, Trying
    <2>2. CASE t # s /\ (home[t] # n \/ q # r)
        <3>1. beat'[home[t]][q] = beat[home[t]][q] /\ (<<t, q>> \in cut => <<t, q>> \in cut')
            BY <1>0, <1>3, <1>5, <2>2
        <3> QED
            BY <1>3, <1>4, <2>0, <2>2, <3>1 DEF KeptAt, Renewed
    <2>3. CASE t # s /\ home[t] = n /\ q = r
        <3>1. /\ beat[home[t]][r].saga = t => <<t, r>> \in cut'
              /\ <<t, r>> \in cut => <<t, r>> \in cut'
            BY <1>3, <2>3
        <3> QED
            BY <1>3, <1>4, <2>0, <2>3, <3>1 DEF KeptAt, Renewed
    <2> QED
        BY <2>1, <2>2, <2>3
<1> QED
    BY <1>6, <1>7, <1>8, <1>9 DEF IInv, Kept

LEMMA ReleasedKeeps ==
    ASSUME IInv, NEW s \in Sagas, Released(s)
    PROVE  IInv'
<1>0. TypeOK /\ manager = "redis"
    BY OnRedis DEF IInv, Released
<1>1. /\ claims' = [claims EXCEPT ![s] = {}] /\ cut' = {c \in cut : c[1] # s} /\ Goes(s, "done")
      /\ UNCHANGED <<manager, home, owner, left, held, beat, want, patience, todo, closed, faults>>
    BY DEF Released, claim
<1>2. /\ pc' \in [Sagas -> Live \union {"done", "escaped", "dead"}]
      /\ pc'[s] = "done" /\ \A t \in Sagas \ {s} : pc'[t] = pc[t]
    BY <1>0, <1>1, GoesFacts
<1>3. /\ claims' \in [Sagas -> SUBSET Resources] /\ \A t \in Sagas \ {s} : claims'[t] = claims[t]
    BY <1>0, <1>1, TypeFacts
<1>4. TypeOK'
    BY <1>0, <1>1, <1>2, <1>3 DEF TypeOK
<1>5. InProcess'
    BY <1>0, <1>1, NotInProcess
<1>6. Beats'
    BY <1>1 DEF IInv, Beats
<1>7. ASSUME NEW t \in Sagas, NEW q \in Resources PROVE KeptAt(t, q)'
    <2>0. KeptAt(t, q)
        BY DEF IInv, Kept
    <2>1. CASE t = s
        BY <1>2, <2>1 DEF KeptAt, Trying
    <2>2. CASE t # s
        <3>1. <<t, q>> \in cut => <<t, q>> \in cut'
            BY <1>1, <2>2
        <3> QED
            BY <1>1, <1>2, <1>3, <2>0, <2>2, <3>1 DEF KeptAt, Renewed
    <2> QED
        BY <2>1, <2>2
<1> QED
    BY <1>4, <1>5, <1>6, <1>7 DEF IInv, Kept

LEMMA CrashKeeps ==
    ASSUME IInv, NEW n \in Nodes, Crash(n)
    PROVE  IInv'
<1> DEFINE here == {s \in Sagas : home[s] = n}
<1> DEFINE lost == {r \in Resources : manager = "process" /\ owner[r] \in here}
<1>0. /\ TypeOK /\ manager \in {"process", "redis"} /\ \A t \in Sagas : home[t] \in Nodes
      /\ owner \in [Resources -> Sagas \union {NoSaga}] /\ left \in [Resources -> Forever..Ttl]
      /\ beat \in [Nodes -> [Resources -> Beat]]
    BY TypeFacts DEF IInv
<1>1. /\ \E s \in Sagas : home[s] = n
      /\ pc' = [s \in Sagas |-> IF s \in here THEN "dead" ELSE pc[s]]
      /\ held' = [held EXCEPT ![n] = [r \in Resources |-> NoSaga]]
      /\ beat' = [beat EXCEPT ![n] = [r \in Resources |-> NoBeat]]
      /\ owner' = [r \in Resources |-> IF r \in lost THEN NoSaga ELSE owner[r]]
      /\ left' = IF manager = "process" THEN [r \in Resources |-> Forever] ELSE left
      /\ claims' = [s \in Sagas |-> IF s \in here THEN {} ELSE claims[s]]
      /\ todo' = [s \in Sagas |-> IF s \in here THEN {} ELSE todo[s]]
      /\ patience' = [s \in Sagas |-> IF s \in here THEN 0 ELSE patience[s]]
      /\ cut' = {c \in cut : c[1] \notin here}
      /\ UNCHANGED <<manager, home, want, closed, faults>>
    BY DEF Crash
<1>2. /\ \A r \in Resources : beat'[n][r] = NoBeat
      /\ \A m \in Nodes : m # n => beat'[m] = beat[m]
      /\ beat' \in [Nodes -> [Resources -> Beat]]
    BY <1>0, <1>1, ConstantFacts
<1>3. TypeOK'
    <2>1. pc' \in [Sagas -> Live \union {"done", "escaped", "dead"}]
        BY <1>0, <1>1, TypeFacts
    <2>2. held' \in [Nodes -> [Resources -> Sagas \union {NoSaga}]]
        BY <1>0, <1>1, TypeFacts
    <2>3. owner' \in [Resources -> Sagas \union {NoSaga}] /\ left' \in [Resources -> Forever..Ttl]
        BY <1>0, <1>1, ConstantFacts
    <2>4. /\ claims' \in [Sagas -> SUBSET Resources] /\ todo' \in [Sagas -> SUBSET Resources]
          /\ cut' \subseteq Sagas \X Resources
        BY <1>0, <1>1, TypeFacts
    <2>5. patience' \in [Sagas -> 0..Patience]
        <3>1. 0 \in 0..Patience /\ patience \in [Sagas -> 0..Patience]
            BY <1>0, TypeFacts, ConstantFacts
        <3> QED
            BY <1>1, <3>1
    <2> QED
        BY <1>0, <1>1, <1>2, <2>1, <2>2, <2>3, <2>4, <2>5 DEF TypeOK, Beat
<1>4. InProcess'
    <2> SUFFICES ASSUME manager = "process" PROVE InProcess'
        BY <1>1 DEF InProcess
    <2>1. \A x, y \in Sagas : home[x] = home[y]
        BY DEF IInv, InProcess
    <2>2. here = Sagas
        BY <1>1, <2>1
    <2>3. cut' = {}
        BY <1>0, <1>1, <2>2 DEF IInv, InProcess
    <2>4. \A t \in Sagas : pc'[t] = "dead"
        BY <1>1, <2>2
    <2>5. \A r \in Resources : owner'[r] = NoSaga /\ left'[r] = Forever
        BY <1>0, <1>1, <2>2
    <2> QED
        BY <1>1, <2>1, <2>3, <2>4, <2>5 DEF InProcess
<1>5. Beats'
    <2>1. \A m \in Nodes : \A q \in Resources : beat'[m][q] = NoBeat \/ beat'[m][q] = beat[m][q]
        BY <1>2
    <2> QED
        BY <1>1, <2>1 DEF IInv, Beats
<1>6. ASSUME NEW t \in Sagas, NEW q \in Resources PROVE KeptAt(t, q)'
    <2>0. KeptAt(t, q)
        BY DEF IInv, Kept
    <2>1. CASE t \in here
        <3>1. pc'[t] = "dead"
            BY <1>1, <2>1
        <3> QED
            BY <3>1 DEF KeptAt, Trying
    <2>2. CASE t \notin here
        <3>1. manager = "redis"
            BY <1>0, <1>1, <2>2 DEF IInv, InProcess
        <3>2. owner'[q] = owner[q] /\ left'[q] = left[q] /\ beat'[home[t]][q] = beat[home[t]][q]
            BY <1>0, <1>1, <1>2, <2>2, <3>1
        <3>3. pc'[t] = pc[t] /\ claims'[t] = claims[t] /\ (<<t, q>> \in cut => <<t, q>> \in cut')
            BY <1>1, <2>2
        <3> QED
            BY <1>1, <2>0, <3>2, <3>3 DEF KeptAt, Renewed
    <2> QED
        BY <2>1, <2>2
<1> QED
    BY <1>3, <1>4, <1>5, <1>6 DEF IInv, Kept

LEMMA ShutdownKeeps ==
    ASSUME IInv, NEW n \in Nodes, Shutdown(n)
    PROVE  IInv'
<1>0. /\ TypeOK /\ manager \in {"process", "redis"} /\ \A t \in Sagas : home[t] \in Nodes
      /\ beat \in [Nodes -> [Resources -> Beat]]
    BY TypeFacts DEF IInv
<1>1. /\ closed' = closed \union {n} /\ \E s \in Sagas : home[s] = n
      /\ UNCHANGED <<manager, home, left, held, claims, pc, want, patience, todo, cut, faults>>
    BY DEF Shutdown, run
<1>2. CASE manager = "process"
    <2>1. owner' = [r \in Resources |-> NoSaga] /\ beat' = beat
        BY <1>2 DEF Shutdown
    <2>2. \A t \in Sagas : home[t] = n
        BY <1>1, <1>2 DEF IInv, InProcess
    <2>3. TypeOK'
        BY <1>0, <1>1, <2>1 DEF TypeOK
    <2>4. InProcess'
        BY <1>1, <1>2, <2>1, <2>2 DEF IInv, InProcess
    <2>5. Beats'
        BY <1>1, <2>1 DEF IInv, Beats
    <2>6. ASSUME NEW t \in Sagas, NEW q \in Resources PROVE KeptAt(t, q)'
        BY <1>1, <2>2 DEF KeptAt
    <2> QED
        BY <2>3, <2>4, <2>5, <2>6 DEF IInv, Kept
<1>3. CASE manager = "redis"
    <2>1. beat' = [beat EXCEPT ![n] = [r \in Resources |-> NoBeat]] /\ owner' = owner
        BY <1>3 DEF Shutdown
    <2>2. /\ \A r \in Resources : beat'[n][r] = NoBeat
          /\ \A m \in Nodes : m # n => beat'[m] = beat[m]
          /\ beat' \in [Nodes -> [Resources -> Beat]]
        BY <1>0, <2>1, ConstantFacts
    <2>3. TypeOK'
        BY <1>0, <1>1, <2>1, <2>2 DEF TypeOK, Beat
    <2>4. InProcess'
        BY <1>1, <1>3, NotInProcess
    <2>5. Beats'
        <3>1. \A m \in Nodes : \A q \in Resources : beat'[m][q] = NoBeat \/ beat'[m][q] = beat[m][q]
            BY <2>2
        <3> QED
            BY <1>1, <3>1 DEF IInv, Beats
    <2>6. ASSUME NEW t \in Sagas, NEW q \in Resources PROVE KeptAt(t, q)'
        <3>0. KeptAt(t, q)
            BY DEF IInv, Kept
        <3>1. CASE home[t] = n
            BY <1>1, <3>1 DEF KeptAt
        <3>2. CASE home[t] # n
            <4>1. beat'[home[t]][q] = beat[home[t]][q]
                BY <1>0, <2>2, <3>2
            <4> QED
                BY <1>1, <2>1, <3>0, <4>1 DEF KeptAt, Renewed
        <3> QED
            BY <3>1, <3>2
    <2> QED
        BY <2>3, <2>4, <2>5, <2>6 DEF IInv, Kept
<1> QED
    BY <1>0, <1>2, <1>3

-----------------------------------------------------------------------------
(* The theorems.                                                            *)

LEMMA InitIInv == Init => IInv
<1> SUFFICES ASSUME Init PROVE IInv
    OBVIOUS
<1>1. PICK r0 \in Resources : r0 = CHOOSE r \in Resources : TRUE
    BY LockAssumption
<1>2. want \in [Sagas -> Resources]
    BY <1>1 DEF Init
<1>3. home \in [Sagas -> Nodes] /\ 0 \in 0..Half /\ 0 \in 0..Patience /\ 0 \in 0..MaxFaults
    BY LockAssumption, HalfFacts DEF Init
<1>4. TypeOK
    <2>1. beat \in [Nodes -> [Resources -> Beat]]
        BY ConstantFacts DEF Init
    <2>2. left \in [Resources -> Forever..Ttl]
        BY ConstantFacts DEF Init
    <2>3. pc \in [Sagas -> Live \union {"done", "escaped", "dead"}]
        BY DEF Init, Live
    <2> QED
        BY <1>2, <1>3, <2>1, <2>2, <2>3 DEF Init, TypeOK, Beat
<1>5. InProcess
    BY DEF Init, InProcess
<1>6. Beats
    BY DEF Init, Beats
<1>7. Kept
    BY DEF Init, Kept, KeptAt
<1> QED
    BY <1>4, <1>5, <1>6, <1>7 DEF IInv

LEMMA SagaStepKeeps ==
    ASSUME IInv, NEW s \in Sagas, SagaStep(s)
    PROVE  IInv'
<1>1. ASSUME NEW r \in Resources, TakeTentative(s, r) \/ WaitLocal(s, r) PROVE IInv'
    <2>1. CASE TakeTentative(s, r)
        <3>1. /\ manager = "process" /\ pc[s] \in Trying /\ Granted(s, r, FALSE)
            BY <2>1 DEF TakeTentative, TakeLocal, Trying
        <3> QED
            BY <3>1, GrantedKeeps
    <2>2. CASE WaitLocal(s, r)
        BY <2>2, WaitsKeep
    <2> QED
        BY <1>1, <2>1, <2>2
<1>2. ASSUME NEW r \in Resources, NEW timed \in BOOLEAN, TakeLocal(s, r, timed) PROVE IInv'
    <2>1. manager = "process" /\ pc[s] \in Trying /\ Granted(s, r, timed)
        BY <1>2 DEF TakeLocal, Trying
    <2> QED
        BY <2>1, GrantedKeeps
<1>3. ASSUME NEW r \in Resources, pc[s] = "run" /\ (TakeRedis(s, r) \/ NotSet(s, r)) PROVE IInv'
    BY <1>3, TakeRedisKeeps, WaitsKeep
<1>4. ASSUME NEW r \in Resources, AcquireFails(s, r) \/ ReleaseFails(s, r) PROVE IInv'
    BY <1>4, AcquireFailsKeeps, ReleasesKeep
<1>5. CASE FinishLocal(s)
    BY <1>5, FinishLocalKeeps
<1>6. CASE FinishRedis(s) \/ Escapes(s)
    <2>1. PICK r \in Resources : TRUE
        BY LockAssumption
    <2> QED
        BY <1>6, <2>1, WaitsKeep
<1> QED
    BY <1>1, <1>2, <1>3, <1>4, <1>5, <1>6 DEF SagaStep

LEMMA CallStepKeeps ==
    ASSUME IInv, NEW s \in Sagas, CallStep(s)
    PROVE  IInv'
<1>0. want[s] \in Resources
    BY TypeFacts DEF IInv
<1>1. PICK r0 \in Resources : r0 = want[s]
    BY <1>0
<1>2. ASSUME NEW timed \in BOOLEAN, PollLocal(s, timed) PROVE IInv'
    <2>1. manager = "process" /\ pc[s] \in Trying /\ Granted(s, r0, timed)
        BY <1>1, <1>2 DEF PollLocal, Trying
    <2> QED
        BY <2>1, GrantedKeeps
<1>3. CASE TimesOut(s) \/ SleepsOrRaises(s)
    BY <1>1, <1>3, WaitsKeep
<1>4. CASE Reenters(s)
    BY <1>4, ReentersKeeps
<1>5. CASE pc[s] = "wait" /\ (TakeRedis(s, want[s]) \/ NotSet(s, want[s]))
    <2>1. TakeRedis(s, r0) \/ (pc[s] \in {"run", "wait"} /\ NotSet(s, r0))
        BY <1>1, <1>5
    <2> QED
        BY <2>1, TakeRedisKeeps, WaitsKeep
<1>6. ASSUME NEW r \in Resources, ReleaseCall(s, r) PROVE IInv'
    BY <1>6, ReleasesKeep
<1>7. CASE ReleaseAnswered(s)
    BY <1>7, ReleaseAnsweredKeeps
<1>8. CASE Released(s)
    BY <1>8, ReleasedKeeps
<1> QED
    BY <1>2, <1>3, <1>4, <1>5, <1>6, <1>7, <1>8 DEF CallStep

LEMMA StepIInv == IInv /\ [Next]_vars => IInv'
<1> SUFFICES ASSUME IInv, [Next]_vars PROVE IInv'
    OBVIOUS
<1>1. ASSUME NEW s \in Sagas, SagaStep(s) \/ CallStep(s) PROVE IInv'
    BY <1>1, SagaStepKeeps, CallStepKeeps
<1>2. ASSUME NEW n \in Nodes, Crash(n) \/ Shutdown(n) PROVE IInv'
    BY <1>2, CrashKeeps, ShutdownKeeps
<1>3. ASSUME NEW n \in Nodes, NEW r \in Resources, Heartbeat(n, r) \/ HeartbeatFails(n, r)
      PROVE  IInv'
    BY <1>3, HeartbeatKeeps, HeartbeatFailsKeeps
<1>4. ASSUME NEW r \in Resources, Look(r) PROVE IInv'
    BY <1>4, LookKeeps
<1>5. CASE Tick
    BY <1>5, TickKeeps
<1>6. CASE UNCHANGED vars
    <2>1. /\ UNCHANGED <<manager, home, claim, claims, cut, closed, pc>>
          /\ UNCHANGED <<owner, left, held, beat, want, patience, todo, faults>>
        BY <1>6 DEF vars, claim, run
    <2>2. TypeOK'
        BY <2>1 DEF IInv, TypeOK
    <2>3. /\ \A t \in Sagas : pc'[t] \in Trying => pc[t] \in Trying
          /\ manager = "process" => \A t \in Sagas : pc'[t] \notin {"probing", "releasing", "freed"}
        BY <2>1 DEF IInv, InProcess
    <2> QED
        BY <2>1, <2>2, <2>3, CallsKeep
<1> QED
    BY <1>1, <1>2, <1>3, <1>4, <1>5, <1>6 DEF Next

\* Every reachable state satisfies the inductive invariant: what the saga was
\* granted it owns, with a renewal due before the claim ends.
THEOREM Invariant == Spec => []IInv
<1> QED
    BY InitIInv, StepIInv, PTL DEF Spec

\* The state of the managers, of their heartbeats and of the sagas' calls keeps
\* its types: countdowns never leave their ranges (locks.py).
THEOREM TypeCorrect == Spec => []TypeOK
<1>1. IInv => TypeOK
    BY DEF IInv
<1> QED
    BY <1>1, Invariant, PTL

\* KeptUnlessCut: a live saga owns what acquire() granted it, unless its renewal
\* was cut, for every time to live and however many sagas share a node (locks.py:294).
THEOREM ClaimsAreKept == Spec => []KeptUnlessCut
<1>1. IInv => KeptUnlessCut
    <2> SUFFICES ASSUME IInv, NEW s \in Sagas, pc[s] \in Live \ {"releasing", "freed"},
                        home[s] \notin closed, NEW r \in claims[s]
                 PROVE  owner[r] = s \/ <<s, r>> \in cut
        BY DEF KeptUnlessCut
    <2>1. r \in Resources /\ pc[s] \in Trying
        BY TypeFacts DEF IInv, Live, Trying
    <2>2. KeptAt(s, r)
        BY <2>1 DEF IInv, Kept
    <2> QED
        BY <2>1, <2>2 DEF KeptAt
<1> QED
    BY <1>1, Invariant, PTL

=============================================================================
