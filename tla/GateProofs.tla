------------------------------ MODULE GateProofs ------------------------------
(***************************************************************************)
(* Proofs about the gate, for any saga, limits, rules, amounts, stores and *)
(* bounds: what was let through stays within the caps of the windows       *)
(* (BudgetHolds), and nothing that needs a human went through without a    *)
(* human's yes (HumanInTheLoop).  On the way: what the sum of a finite set *)
(* of debits is, which the library defines by a recursive function.        *)
(***************************************************************************)
EXTENDS Gate, SequenceTheorems, FiniteSetTheorems, WellFoundedInduction, TLAPS

-----------------------------------------------------------------------------
(* The first of a set of instants                                           *)

LEMMA MinExists ==
    ASSUME NEW T, T \subseteq Nat, T # {}
    PROVE  Min(T) \in T /\ \A y \in T : Min(T) <= y
<1> DEFINE R == {ss \in Nat \X Nat : ss[1] < ss[2]}
<1>1. IsWellFoundedOn(R, Nat)
    BY NatLessThanWellFounded DEF OpToRel
<1>2. \A x, y \in Nat : y < x => <<y, x>> \in R
    OBVIOUS
<1>3. PICK x \in T : \A y \in T : ~(<<y, x>> \in R)
    <2> HIDE DEF R
    <2> QED
        BY <1>1, WFMin
<1>4. \A y \in T : x <= y
    <2> SUFFICES ASSUME NEW y \in T PROVE x <= y
        OBVIOUS
    <2>1. x \in Nat /\ y \in Nat /\ ~(y < x)
        <3> HIDE DEF R
        <3> QED
            BY <1>2, <1>3
    <2> QED
        BY <2>1
<1> QED
    BY <1>4 DEF Min

-----------------------------------------------------------------------------
(* Sums.  Total() is a fold, that is the value of a recursive function that *)
(* the library chooses.  By the sizes of finite sets of entries: there is   *)
(* one such function, and its value does not depend on the order in which   *)
(* it takes the entries.                                                    *)

Pick(s) == CHOOSE x \in s : TRUE
Rest(s) == s \ {Pick(s)}
Step(f, s) == IF s = {} THEN 0 ELSE Pick(s).amount + f[Rest(s)]
Sums(S, f) == f = [s \in SUBSET S |-> Step(f, s)]
Fold(S) == CHOOSE f : Sums(S, f)

LEMMA TotalIsFold == ASSUME NEW S PROVE Total(S) = Fold(S)[S]
BY DEF Total, MapThenSumSet, MapThenFoldSet, Fold, Sums, Step, Rest, Pick

LEMMA RestSmaller ==
    ASSUME NEW S, S # {}
    PROVE  Pick(S) \in S /\ Rest(S) \subseteq S /\ Rest(S) # S
BY DEF Pick, Rest

LEMMA SmallerSet ==
    ASSUME NEW S, IsFiniteSet(S), NEW T, T \subseteq S, T # S
    PROVE  IsFiniteSet(T) /\ Cardinality(T) \in Nat /\ Cardinality(T) < Cardinality(S)
<1>1. /\ IsFiniteSet(T) /\ Cardinality(T) <= Cardinality(S)
      /\ Cardinality(T) # Cardinality(S)
    BY FS_Subset
<1>2. Cardinality(S) \in Nat /\ Cardinality(T) \in Nat
    BY <1>1, FS_CardinalityType
<1> QED
    BY <1>1, <1>2

Unique(S) == \E f : Sums(S, f) /\ \A g : Sums(S, g) => g = f

\* The part of such a function that concerns a subset is the function of that.
LEMMA Restricts ==
    ASSUME NEW S, NEW f, Sums(S, f), NEW T, T \subseteq S
    PROVE  Sums(T, [s \in SUBSET T |-> f[s]])
<1> DEFINE g == [s \in SUBSET T |-> f[s]]
<1>1. ASSUME NEW s \in SUBSET T PROVE g[s] = Step(g, s)
    <2>1. s \in SUBSET S /\ f[s] = Step(f, s)
        BY DEF Sums
    <2>2. CASE s = {}
        BY <2>1, <2>2 DEF Step
    <2>3. CASE s # {}
        <3>1. Rest(s) \in SUBSET T
            BY <2>3, RestSmaller
        <3> QED
            BY <2>1, <2>3, <3>1 DEF Step
    <2> QED
        BY <2>2, <2>3
<1>2. g = [s \in SUBSET T |-> Step(g, s)]
    <2>1. g = [s \in SUBSET T |-> g[s]]
        OBVIOUS
    <2> HIDE DEF g
    <2> QED
        BY <1>1, <2>1
<1> QED
    BY <1>2 DEF Sums

LEMMA OneFunction == ASSUME NEW S0, IsFiniteSet(S0) PROVE Unique(S0)
<1> DEFINE Bad == {n \in Nat : \E S : IsFiniteSet(S) /\ Cardinality(S) = n /\ ~Unique(S)}
<1> SUFFICES ASSUME ~Unique(S0) PROVE FALSE
    OBVIOUS
<1>1. Cardinality(S0) \in Bad
    BY FS_CardinalityType
<1>2. PICK n \in Bad : \A m \in Bad : n <= m
    <2>1. Bad \subseteq Nat /\ Bad # {}
        BY <1>1
    <2> HIDE DEF Bad
    <2> QED
        BY <2>1, MinExists
<1>3. PICK S : IsFiniteSet(S) /\ Cardinality(S) = n /\ ~Unique(S)
    BY <1>2
<1>4. ASSUME NEW T, T \subseteq S, T # S PROVE Unique(T)
    <2>1. IsFiniteSet(T) /\ Cardinality(T) \in Nat /\ Cardinality(T) < n
        BY <1>3, <1>4, SmallerSet
    <2>2. Cardinality(T) \notin Bad
        <3>1. n \in Nat
            BY <1>2
        <3> HIDE DEF Bad
        <3> QED
            BY <1>2, <2>1, <3>1
    <2> QED
        BY <2>1, <2>2
<1> HIDE DEF Bad
<1>5. ASSUME NEW T, T \subseteq S, T # S
      PROVE  Sums(T, Fold(T)) /\ \A g : Sums(T, g) => g = Fold(T)
    BY <1>4, <1>5 DEF Unique, Fold
<1>6. ASSUME NEW T, T \subseteq S, T # S, NEW f, Sums(T, f), NEW s, s \subseteq T
      PROVE  f[s] = Fold(s)[s]
    <2>1. Sums(s, [r \in SUBSET s |-> f[r]])
        BY <1>6, Restricts
    <2>2. s \subseteq S /\ s # S
        BY <1>6
    <2>3. [r \in SUBSET s |-> f[r]] = Fold(s)
        BY <1>5, <2>1, <2>2
    <2> QED
        BY <2>3
<1> DEFINE Top == IF S = {} THEN 0 ELSE Pick(S).amount + Fold(Rest(S))[Rest(S)]
           g == [s \in SUBSET S |-> IF s = S THEN Top ELSE Fold(s)[s]]
<1>7. Sums(S, g)
    <2>1. g[S] = Step(g, S)
        <3>1. CASE S = {}
            BY <3>1 DEF Step
        <3>2. CASE S # {}
            BY <3>2, RestSmaller DEF Step
        <3> QED
            BY <3>1, <3>2
    <2>2. ASSUME NEW s \in SUBSET S, s # S PROVE g[s] = Step(g, s)
        <3>1. Sums(s, Fold(s)) /\ s \in SUBSET s
            BY <1>5, <2>2
        <3>2. Fold(s)[s] = Step(Fold(s), s)
            BY <3>1 DEF Sums
        <3>3. CASE s = {}
            BY <2>2, <3>2, <3>3 DEF Step
        <3>4. CASE s # {}
            <4>1. Rest(s) \subseteq s /\ Rest(s) # S /\ Rest(s) \in SUBSET S
                BY <2>2, <3>4, RestSmaller
            <4>2. Fold(s)[Rest(s)] = Fold(Rest(s))[Rest(s)]
                BY <1>6, <2>2, <3>1, <4>1
            <4>3. g[Rest(s)] = Fold(Rest(s))[Rest(s)] /\ g[s] = Fold(s)[s]
                BY <2>2, <4>1
            <4> QED
                BY <3>2, <3>4, <4>2, <4>3 DEF Step
        <3> QED
            BY <3>3, <3>4
    <2>3. g = [s \in SUBSET S |-> g[s]]
        OBVIOUS
    <2> HIDE DEF g
    <2> QED
        BY <2>1, <2>2, <2>3 DEF Sums
<1>8. ASSUME NEW f, Sums(S, f) PROVE f = g
    <2>1. ASSUME NEW s \in SUBSET S, s # S PROVE f[s] = g[s]
        <3>1. Sums(s, [r \in SUBSET s |-> f[r]])
            BY <1>8, Restricts
        <3>2. [r \in SUBSET s |-> f[r]] = Fold(s)
            BY <1>5, <2>1, <3>1
        <3> QED
            BY <2>1, <3>2
    <2>2. f[S] = g[S]
        <3>1. f[S] = Step(f, S) /\ g[S] = Step(g, S)
            <4> HIDE DEF g
            <4> QED
                BY <1>7, <1>8 DEF Sums
        <3>2. CASE S = {}
            BY <3>1, <3>2 DEF Step
        <3>3. CASE S # {}
            <4>1. Rest(S) \in SUBSET S /\ Rest(S) # S
                BY <3>3, RestSmaller
            <4>2. f[Rest(S)] = g[Rest(S)]
                BY <2>1, <4>1
            <4> HIDE DEF g
            <4> QED
                BY <3>1, <3>3, <4>2 DEF Step
        <3> QED
            BY <3>2, <3>3
    <2>3. f = [s \in SUBSET S |-> f[s]] /\ g = [s \in SUBSET S |-> g[s]]
        <3>1. f = [s \in SUBSET S |-> Step(f, s)]
            BY <1>8 DEF Sums
        <3> QED
            BY <3>1
    <2> HIDE DEF g
    <2> QED
        BY <2>1, <2>2, <2>3
<1> QED
    <2> HIDE DEF g
    <2> QED
        BY <1>3, <1>7, <1>8 DEF Unique

\* What the fold computes.
LEMMA TotalRec ==
    ASSUME NEW S, IsFiniteSet(S)
    PROVE  /\ S = {} => Total(S) = 0
           /\ S # {} => Total(S) = Pick(S).amount + Total(Rest(S))
<1>1. ASSUME NEW T, IsFiniteSet(T)
      PROVE  Sums(T, Fold(T)) /\ \A g : Sums(T, g) => g = Fold(T)
    BY <1>1, OneFunction DEF Unique, Fold
<1>2. Total(S) = Step(Fold(S), S)
    BY <1>1, TotalIsFold DEF Sums
<1>3. CASE S = {}
    BY <1>2, <1>3 DEF Step
<1>4. CASE S # {}
    <2>1. Rest(S) \subseteq S /\ IsFiniteSet(Rest(S))
        BY <1>4, RestSmaller, FS_Subset
    <2>2. Sums(Rest(S), [r \in SUBSET Rest(S) |-> Fold(S)[r]])
        BY <1>1, <2>1, Restricts
    <2>3. [r \in SUBSET Rest(S) |-> Fold(S)[r]] = Fold(Rest(S))
        BY <1>1, <2>1, <2>2
    <2>4. Fold(S)[Rest(S)] = Total(Rest(S))
        BY <2>3, TotalIsFold
    <2> QED
        BY <1>2, <1>4, <2>4 DEF Step
<1> QED
    BY <1>3, <1>4

Priced(S) == \A e \in S : e.amount \in Nat

LEMMA TotalType ==
    ASSUME NEW S0, IsFiniteSet(S0), Priced(S0) PROVE Total(S0) \in Nat
<1> DEFINE Fails(S) == IsFiniteSet(S) /\ Priced(S) /\ Total(S) \notin Nat
           Bad == {n \in Nat : \E S : Fails(S) /\ Cardinality(S) = n}
<1> SUFFICES ASSUME Total(S0) \notin Nat PROVE FALSE
    OBVIOUS
<1>1. Bad # {} /\ Bad \subseteq Nat
    <2>1. Cardinality(S0) \in Bad
        BY FS_CardinalityType
    <2> QED
        BY <2>1
<1>2. PICK n \in Bad : \A m \in Bad : n <= m
    <2> HIDE DEF Bad
    <2> QED
        BY <1>1, MinExists
<1>3. PICK S : Fails(S) /\ Cardinality(S) = n
    BY <1>2
<1>4. S # {}
    <2>1. 0 \in Nat
        OBVIOUS
    <2> QED
        BY <1>3, <2>1, TotalRec
<1>5. Pick(S) \in S /\ Rest(S) \subseteq S /\ Rest(S) # S
    BY <1>4, RestSmaller
<1>6. IsFiniteSet(Rest(S)) /\ Cardinality(Rest(S)) \in Nat /\ Cardinality(Rest(S)) < n
    BY <1>3, <1>5, SmallerSet
<1>7. Cardinality(Rest(S)) \notin Bad
    <2>1. n \in Nat
        BY <1>2
    <2> HIDE DEF Bad
    <2> QED
        BY <1>2, <1>6, <2>1
<1>8. Total(Rest(S)) \in Nat
    <2>1. Priced(Rest(S))
        BY <1>3, <1>5 DEF Priced
    <2> QED
        BY <1>6, <1>7, <2>1
<1>9. Total(S) = Pick(S).amount + Total(Rest(S)) /\ Pick(S).amount \in Nat
    BY <1>3, <1>4, <1>5, TotalRec DEF Priced
<1> QED
    BY <1>3, <1>8, <1>9

\* An entry counts its amount, whichever it is.
LEMMA TotalTake ==
    ASSUME NEW S0, IsFiniteSet(S0), Priced(S0), NEW x0 \in S0
    PROVE  Total(S0) = x0.amount + Total(S0 \ {x0})
<1> DEFINE Fails(S, x) == /\ IsFiniteSet(S) /\ Priced(S) /\ x \in S
                          /\ Total(S) # x.amount + Total(S \ {x})
           Bad == {n \in Nat : \E S : Cardinality(S) = n /\ \E x : Fails(S, x)}
<1> SUFFICES ASSUME Total(S0) # x0.amount + Total(S0 \ {x0}) PROVE FALSE
    OBVIOUS
<1>1. Bad # {} /\ Bad \subseteq Nat
    <2>1. Cardinality(S0) \in Bad
        <3>1. Fails(S0, x0)
            OBVIOUS
        <3> HIDE DEF Fails
        <3> QED
            BY <3>1, FS_CardinalityType
    <2> QED
        BY <2>1
<1>2. PICK n \in Bad : \A m \in Bad : n <= m
    <2> HIDE DEF Bad
    <2> QED
        BY <1>1, MinExists
<1>3. PICK S : Cardinality(S) = n /\ \E x : Fails(S, x)
    BY <1>2
<1>4. PICK x : Fails(S, x)
    BY <1>3
<1>5. ASSUME NEW T, T \subseteq S, T # S, NEW y \in T
      PROVE  Total(T) = y.amount + Total(T \ {y})
    <2>1. IsFiniteSet(T) /\ Cardinality(T) \in Nat /\ Cardinality(T) < n
        BY <1>3, <1>4, <1>5, SmallerSet
    <2>2. Cardinality(T) \notin Bad
        <3>1. n \in Nat
            BY <1>2
        <3> HIDE DEF Bad
        <3> QED
            BY <1>2, <2>1, <3>1
    <2>3. Priced(T)
        BY <1>4, <1>5 DEF Priced
    <2>4. ~Fails(T, y)
        <3> HIDE DEF Fails
        <3> QED
            BY <2>1, <2>2
    <2> QED
        BY <1>5, <2>1, <2>3, <2>4
<1> HIDE DEF Bad
<1> DEFINE p == Pick(S)
<1>6. p \in S /\ Rest(S) = S \ {p} /\ Total(S) = p.amount + Total(Rest(S))
    BY <1>4, RestSmaller, TotalRec DEF Rest
<1>7. p # x
    BY <1>4, <1>6
<1>8. Total(S \ {p}) = x.amount + Total((S \ {p}) \ {x})
    <2>1. S \ {p} \subseteq S /\ S \ {p} # S /\ x \in S \ {p}
        BY <1>4, <1>6, <1>7
    <2> HIDE DEF p, Fails
    <2> QED
        BY <1>5, <2>1
<1>9. Total(S \ {x}) = p.amount + Total((S \ {x}) \ {p})
    <2>1. S \ {x} \subseteq S /\ S \ {x} # S /\ p \in S \ {x}
        BY <1>4, <1>6, <1>7
    <2> HIDE DEF p, Fails
    <2> QED
        BY <1>5, <2>1
<1>10. (S \ {x}) \ {p} = (S \ {p}) \ {x}
    OBVIOUS
<1>11. Total((S \ {p}) \ {x}) \in Nat /\ x.amount \in Nat /\ p.amount \in Nat
    <2>1. IsFiniteSet((S \ {p}) \ {x}) /\ Priced((S \ {p}) \ {x})
        BY <1>4, FS_Subset DEF Priced
    <2> QED
        BY <1>4, <1>6, <2>1, TotalType DEF Priced
<1>12. Total(S) = p.amount + (x.amount + Total((S \ {p}) \ {x}))
    BY <1>6, <1>8
<1>13. x.amount + Total(S \ {x}) = x.amount + (p.amount + Total((S \ {p}) \ {x}))
    BY <1>9, <1>10
<1> HIDE DEF p
<1>14. Total(S) = x.amount + Total(S \ {x})
    BY <1>11, <1>12, <1>13
<1> QED
    BY <1>4, <1>14

\* Fewer entries do not add up to more.
LEMMA TotalMonotone ==
    ASSUME NEW S0, IsFiniteSet(S0), Priced(S0), NEW T0, T0 \subseteq S0
    PROVE  Total(T0) <= Total(S0)
<1> DEFINE Fails(S, T) == /\ IsFiniteSet(S) /\ Priced(S) /\ T \subseteq S
                          /\ ~(Total(T) <= Total(S))
           Bad == {n \in Nat : \E S : Cardinality(S) = n /\ \E T : Fails(S, T)}
<1> SUFFICES ASSUME ~(Total(T0) <= Total(S0)) PROVE FALSE
    OBVIOUS
<1>1. Bad # {} /\ Bad \subseteq Nat
    <2>1. Cardinality(S0) \in Bad
        <3>1. Fails(S0, T0)
            OBVIOUS
        <3> HIDE DEF Fails
        <3> QED
            BY <3>1, FS_CardinalityType
    <2> QED
        BY <2>1
<1>2. PICK n \in Bad : \A m \in Bad : n <= m
    <2> HIDE DEF Bad
    <2> QED
        BY <1>1, MinExists
<1>3. PICK S : Cardinality(S) = n /\ \E T : Fails(S, T)
    BY <1>2
<1>4. PICK T : Fails(S, T)
    BY <1>3
<1>5. Total(S) \in Nat
    BY <1>4, TotalType
<1>6. PICK x \in S : x \notin T
    <2>1. T # S
        BY <1>4, <1>5
    <2> QED
        BY <1>4, <2>1
<1>7. Total(S) = x.amount + Total(S \ {x})
    BY <1>4, TotalTake
<1>8. Total(T) <= Total(S \ {x})
    <2>1. /\ IsFiniteSet(S \ {x}) /\ Cardinality(S \ {x}) \in Nat
          /\ Cardinality(S \ {x}) < n
        BY <1>3, <1>4, SmallerSet
    <2>2. Cardinality(S \ {x}) \notin Bad
        <3>1. n \in Nat
            BY <1>2
        <3> HIDE DEF Bad
        <3> QED
            BY <1>2, <2>1, <3>1
    <2>3. Priced(S \ {x}) /\ T \subseteq S \ {x}
        BY <1>4, <1>6 DEF Priced
    <2>4. ~Fails(S \ {x}, T)
        <3> HIDE DEF Fails
        <3> QED
            BY <2>1, <2>2
    <2> QED
        BY <2>1, <2>3, <2>4
<1>9. x.amount \in Nat /\ Total(S \ {x}) \in Nat /\ Total(T) \in Nat
    <2>1. IsFiniteSet(S \ {x}) /\ Priced(S \ {x}) /\ IsFiniteSet(T) /\ Priced(T)
        BY <1>4, FS_Subset DEF Priced
    <2> QED
        BY <1>4, <2>1, TotalType DEF Priced
<1>10. Total(T) <= Total(S)
    BY <1>7, <1>8, <1>9
<1> QED
    BY <1>4, <1>10
-----------------------------------------------------------------------------
(* The inductive invariant.                                                 *)

Asking == {"asking", "waiting", "expiring", "denying"}

Entry(e) ==
    /\ e.key[1] \in DOMAIN Limits
    /\ e.amount \in Nat /\ e.at \in 0..now /\ e.no \in 1..counter

StoreType ==
    /\ now \in Nat /\ counter \in Nat
    /\ IsFiniteSet(meter) /\ \A e \in meter : Entry(e)

ApprovalType ==
    /\ record \in [Requests -> {"none", "PENDING", "GRANTED", "DENIED"}]
    /\ cli \in [Requests -> {"none", "GRANTED", "DENIED"}]
    /\ yes \in [Requests -> Nat]

CallType ==
    /\ pc \in [Calls -> Places]
    /\ DOMAIN tool = Calls /\ DOMAIN amount = Calls /\ DOMAIN held = Calls
    /\ rule \in [Calls -> 0..Len(Limits)]
    /\ approved \in [Calls -> SUBSET (0..Len(Limits))]
    /\ \A c \in Calls : pc[c] # "idle" => tool[c] \in Tools
    /\ \A c \in Calls : \A e \in held[c] : Entry(e)

\* What a call asks a budget for is not negative.
Prices ==
    \A c \in Calls : pc[c] # "refused" =>
        \A i \in Policing(tool[c]) :
            Limits[i].kind = "rate" \/ (amount[c] \in Int /\ amount[c] >= 0)

\* A call about to reserve, and one whose limit a human may lift, hold nothing.
Unheld ==
    \A c \in Calls :
        /\ pc[c] \in {"idle", "reserving"} => held[c] = {}
        /\ pc[c] \in Asking /\ rule[c] # 0 => held[c] = {}

\* A human's yes stands behind every grant on record, every lifted limit, and
\* every call let through that needed one.
Grants ==
    /\ \A id \in Requests : record[id] = "GRANTED" => yes[id] > 0
    /\ \A c \in Calls : pc[c] = "idle" => approved[c] = {}
    /\ \A c \in Calls : \A r \in approved[c] : yes[<<tool[c], r>>] > 0
    /\ \A c \in Calls : pc[c] = "allowed" /\ Verdict[tool[c]] = "REQUIRE_APPROVAL" =>
           yes[<<tool[c], 0>>] > 0

\* On Redis nobody writes over a decision.
OneScript ==
    kind = "redis" =>
        /\ \A id \in Requests :
               cli[id] = "none" /\ yes[id] <= 1 /\ (~Decided(id) => yes[id] = 0)
        /\ \A c \in Calls : pc[c] # "denying"

\* What calls hold or were let through with, and what is left of it by refusals.
AllHeld == UNION {held[c] : c \in Calls}
InForce == UNION {held[c] : c \in {d \in Calls : pc[d] # "refused"}}

\* A reservation belongs to one call, and has one entry per key.
Separate ==
    /\ IsFiniteSet(AllHeld)
    /\ \A c, d \in Calls : \A e \in held[c], f \in held[d] : e.no = f.no => c = d
    /\ \A c \in Calls : \A e, f \in held[c] : e.key = f.key => e = f

\* Nobody else's refusal, pruning or release takes a debit before its time.
Standing == \A e \in InForce : e.at > now - Window(e.key) => e \in meter

\* What counted against the limit of e when e was debited.
Counted(e) == {f \in InForce : /\ f.key = e.key /\ f.no <= e.no
                               /\ f.at > e.at - Window(e.key)}

Within ==
    \A c \in Calls : pc[c] # "refused" =>
        \A e \in held[c] : e.key[1] \notin approved[c] => Total(Counted(e)) <= Cap(e.key)

IInv ==
    /\ StoreType /\ ApprovalType /\ CallType
    /\ Prices /\ Unheld /\ Grants /\ OneScript
    /\ Separate /\ Standing /\ Within

-----------------------------------------------------------------------------
(* Requests and their entries.                                              *)

LEMMA LimitsList == Len(Limits) \in Nat /\ DOMAIN Limits = 1..Len(Limits)
BY LimitAssumption

LEMMA WindowPositive ==
    ASSUME NEW key, key[1] \in DOMAIN Limits
    PROVE  Window(key) \in Nat /\ Window(key) > 0 /\ Cap(key) \in Nat
BY LimitAssumption DEF Window, Cap

\* A call has one request for each limit that polices its tool.
LEMMA PlannedFacts ==
    ASSUME NEW c \in Calls, Prices, pc[c] # "refused"
    PROVE  /\ IsFiniteSet(Planned(c))
           /\ \A r \in Planned(c) :
                  /\ r.key[1] \in DOMAIN Limits /\ r.amount \in Nat
                  /\ r = Request(c, r.key[1])
                  /\ r.capped = (r.key[1] \notin approved[c])
<1> DEFINE P == Policing(tool[c])
           f == [i \in P |-> Request(c, i)]
<1>1. P \subseteq 1..Len(Limits) /\ IsFiniteSet(P)
    <2>1. P \subseteq 1..Len(Limits) /\ 1 \in Int /\ Len(Limits) \in Int
        BY LimitsList DEF Policing
    <2>2. IsFiniteSet(1..Len(Limits))
        BY <2>1, FS_Interval
    <2> QED
        BY <2>1, <2>2, FS_Subset
<1>2. IsFiniteSet(Planned(c))
    <2>1. f \in Surjection(P, Planned(c))
        BY DEF Planned, Surjection
    <2> HIDE DEF f, P
    <2> QED
        BY <1>1, <2>1, FS_Surjection
<1>3. ASSUME NEW i \in P
      PROVE  LET r == Request(c, i) IN
             /\ r.key[1] = i /\ r.amount \in Nat
             /\ r.capped = (i \notin approved[c])
    <2>1. Limits[i].kind \in {"budget", "rate"}
        BY <1>1, LimitAssumption, LimitsList
    <2>2. Limits[i].kind = "rate" \/ (amount[c] \in Int /\ amount[c] >= 0)
        BY DEF Prices
    <2>3. Request(c, i).key[1] = i
        BY DEF Request
    <2>4. Request(c, i).amount \in Nat
        BY <2>1, <2>2 DEF Request
    <2>5. Request(c, i).capped = (i \notin approved[c])
        BY DEF Request
    <2> QED
        BY <2>3, <2>4, <2>5
<1>4. \A i \in P : i \in DOMAIN Limits
    BY <1>1, LimitsList
<1>5. ASSUME NEW r \in Planned(c)
      PROVE  /\ r.key[1] \in DOMAIN Limits /\ r.amount \in Nat
             /\ r = Request(c, r.key[1])
             /\ r.capped = (r.key[1] \notin approved[c])
    <2>1. PICK i \in P : r = Request(c, i)
        BY DEF Planned
    <2> HIDE DEF P
    <2> QED
        BY <1>3, <1>4, <2>1
<1> QED
    BY <1>2, <1>5

\* The debits of a reservation.
LEMMA EntriesFacts ==
    ASSUME NEW c \in Calls, StoreType, Prices, pc[c] # "refused"
    PROVE  /\ IsFiniteSet(Entries(Planned(c)))
           /\ \A e \in Entries(Planned(c)) :
                  /\ e.key[1] \in DOMAIN Limits /\ e.amount \in Nat
                  /\ e.at = now /\ e.no = counter + 1
                  /\ \E r \in Planned(c) : r.key = e.key /\ r.amount = e.amount
           /\ \A e, f \in Entries(Planned(c)) : e.key = f.key => e = f
<1> DEFINE Of(r) == [key |-> r.key, at |-> now, amount |-> r.amount, no |-> counter + 1]
           g == [r \in Planned(c) |-> Of(r)]
<1>1. /\ IsFiniteSet(Planned(c))
      /\ \A r \in Planned(c) :
             r.key[1] \in DOMAIN Limits /\ r.amount \in Nat /\ r = Request(c, r.key[1])
    BY PlannedFacts
<1>2. Entries(Planned(c)) = {Of(r) : r \in Planned(c)}
    BY DEF Entries
<1>3. IsFiniteSet(Entries(Planned(c)))
    <2>1. g \in Surjection(Planned(c), Entries(Planned(c)))
        BY <1>2 DEF Surjection
    <2> HIDE DEF g
    <2> QED
        BY <1>1, <2>1, FS_Surjection
<1>4. ASSUME NEW e \in Entries(Planned(c))
      PROVE  \E r \in Planned(c) : e = Of(r)
    BY <1>2
<1>5. ASSUME NEW e \in Entries(Planned(c)), NEW f \in Entries(Planned(c)), e.key = f.key
      PROVE  e = f
    <2>1. PICK r \in Planned(c) : e = Of(r)
        BY <1>4
    <2>2. PICK q \in Planned(c) : f = Of(q)
        BY <1>4
    <2>3. r.key = q.key
        BY <1>5, <2>1, <2>2
    <2>4. r = q
        BY <1>1, <2>3
    <2> QED
        BY <2>1, <2>2, <2>4
<1>6. ASSUME NEW e \in Entries(Planned(c))
      PROVE  /\ e.key[1] \in DOMAIN Limits /\ e.amount \in Nat
             /\ e.at = now /\ e.no = counter + 1
             /\ \E r \in Planned(c) : r.key = e.key /\ r.amount = e.amount
    <2>1. PICK r \in Planned(c) : e = Of(r)
        BY <1>4
    <2> QED
        BY <1>1, <2>1
<1> QED
    BY <1>3, <1>5, <1>6

-----------------------------------------------------------------------------
(* Types.                                                                   *)

LEMMA Initially == Init => IInv
<1> SUFFICES ASSUME Init PROVE IInv
    OBVIOUS
<1>1. /\ now = 0 /\ counter = 0 /\ meter = {}
      /\ record = [id \in Requests |-> "none"] /\ cli = [id \in Requests |-> "none"]
      /\ yes = [id \in Requests |-> 0]
      /\ pc = [c \in Calls |-> "idle"] /\ rule = [c \in Calls |-> 0]
      /\ amount = [c \in Calls |-> 0]
      /\ held = [c \in Calls |-> {}] /\ approved = [c \in Calls |-> {}]
      /\ DOMAIN tool = Calls
    BY DEF Init, StoreInit, ApprovalsInit
<1>2. StoreType
    BY <1>1, FS_EmptySet DEF StoreType
<1>3. ApprovalType
    BY <1>1 DEF ApprovalType
<1>4. CallType
    BY <1>1, LimitsList DEF CallType, Places
<1>5. Prices /\ Unheld /\ Grants
    BY <1>1 DEF Prices, Unheld, Grants, Asking
<1>6. OneScript
    BY <1>1 DEF OneScript
<1>7. AllHeld = {} /\ InForce = {} /\ \A c \in Calls : held[c] = {}
    BY <1>1 DEF AllHeld, InForce
<1>8. Separate /\ Standing /\ Within
    BY <1>7, FS_EmptySet DEF Separate, Standing, Within
<1> QED
    BY <1>2, <1>3, <1>4, <1>5, <1>6, <1>8 DEF IInv

\* Which store call a step makes.
LEMMA StoreCalls ==
    ASSUME [Next]_gateVars
    PROVE  \/ UNCHANGED store
           \/ \E c \in Calls : Reserved(c) /\ Debit(Planned(c))
           \/ \E c \in Calls : ReserveFails(c) /\ Debit(Planned(c))
           \/ \E c \in Calls : OverLimit(c) /\ \E r : Exceeded(Planned(c), r)
           \/ \E c \in Calls : Release(c) /\ HandBack(held[c])
           \/ Watch \/ Tick
<1>1. ASSUME NEW c \in Calls, CallStep(c)
      PROVE  \/ UNCHANGED store
             \/ Reserved(c) /\ Debit(Planned(c))
             \/ ReserveFails(c) /\ Debit(Planned(c))
             \/ OverLimit(c) /\ \E r : Exceeded(Planned(c), r)
             \/ Release(c) /\ HandBack(held[c])
    <2>1. CASE Reserved(c)
        BY <2>1 DEF Reserved
    <2>2. CASE OverLimit(c)
        BY <2>2 DEF OverLimit
    <2>3. CASE ReserveFails(c)
        BY <2>3 DEF ReserveFails
    <2>4. CASE Judge(c) \/ ReleaseFails(c)
        BY <2>4 DEF Judge, ReleaseFails
    <2>5. CASE Release(c)
        BY <2>5 DEF Release
    <2>6. CASE Ask(c) \/ Poll(c) \/ Deadline(c) \/ Expire(c) \/ Deny(c) \/ GatewayFails(c)
        BY <2>6 DEF Ask, Poll, Deadline, Expire, Deny, GatewayFails, asideVars
    <2> QED
        BY <1>1, <2>1, <2>2, <2>3, <2>4, <2>5, <2>6 DEF CallStep
<1>2. CASE \E c \in Calls, t \in Tools, a \in Amounts : Evaluate(c, t, a)
    BY <1>2 DEF Evaluate
<1>3. CASE \E c \in Calls : CallStep(c)
    BY <1>1, <1>3
<1>4. CASE Operator /\ UNCHANGED <<store, callVars, leaked, faults>>
    BY <1>4
<1>5. CASE UNCHANGED gateVars
    BY <1>5 DEF gateVars
<1> QED
    BY <1>2, <1>3, <1>4, <1>5 DEF Next

LEMMA StoreStep ==
    ASSUME StoreType, Prices, [Next]_gateVars
    PROVE  /\ StoreType' /\ now' >= now /\ counter' >= counter
           /\ now' = now \/ (Tick /\ UNCHANGED <<meter, counter>>)
           /\ counter' = counter \/ \E c \in Calls : pc[c] = "reserving" /\ Debit(Planned(c))
<1> DEFINE Goal == /\ StoreType' /\ now' >= now /\ counter' >= counter
                   /\ now' = now \/ (Tick /\ UNCHANGED <<meter, counter>>)
                   /\ \/ counter' = counter
                      \/ \E c \in Calls : pc[c] = "reserving" /\ Debit(Planned(c))
<1> SUFFICES Goal
    OBVIOUS
<1>1. ASSUME UNCHANGED <<counter, now>>, meter' \subseteq meter PROVE Goal
    <2>1. IsFiniteSet(meter')
        BY <1>1, FS_Subset DEF StoreType
    <2>2. \A e \in meter' : Entry(e)'
        BY <1>1 DEF StoreType, Entry
    <2> QED
        BY <1>1, <2>1, <2>2 DEF StoreType
<1>2. ASSUME NEW c \in Calls, pc[c] = "reserving", Debit(Planned(c)) PROVE Goal
    <2>1. /\ meter' = (meter \ Pruned(Planned(c))) \union Entries(Planned(c))
          /\ counter' = counter + 1 /\ now' = now
        BY <1>2 DEF Debit
    <2>2. /\ IsFiniteSet(Entries(Planned(c)))
          /\ \A e \in Entries(Planned(c)) :
                 /\ e.key[1] \in DOMAIN Limits /\ e.amount \in Nat
                 /\ e.at = now /\ e.no = counter + 1
        BY <1>2, EntriesFacts
    <2>3. IsFiniteSet(meter')
        <3>1. IsFiniteSet(meter \ Pruned(Planned(c)))
            BY FS_Subset DEF StoreType
        <3> QED
            BY <2>1, <2>2, <3>1, FS_Union
    <2>4. ASSUME NEW e \in meter' PROVE Entry(e)'
        <3>1. CASE e \in meter
            BY <2>1, <3>1 DEF StoreType, Entry
        <3>2. CASE e \in Entries(Planned(c))
            BY <2>1, <2>2, <3>2 DEF StoreType, Entry
        <3> QED
            BY <2>1, <3>1, <3>2
    <2>5. StoreType'
        BY <2>1, <2>3, <2>4 DEF StoreType
    <2> QED
        BY <1>2, <2>1, <2>5 DEF StoreType
<1>3. CASE UNCHANGED store
    BY <1>1, <1>3 DEF store
<1>4. CASE \E c \in Calls : Reserved(c) /\ Debit(Planned(c))
    BY <1>2, <1>4 DEF Reserved
<1>5. CASE \E c \in Calls : ReserveFails(c) /\ Debit(Planned(c))
    BY <1>2, <1>5 DEF ReserveFails
<1>6. CASE \E c \in Calls : OverLimit(c) /\ \E r : Exceeded(Planned(c), r)
    BY <1>1, <1>6 DEF Exceeded
<1>7. CASE \E c \in Calls : Release(c) /\ HandBack(held[c])
    BY <1>1, <1>7 DEF HandBack
<1>8. CASE Watch
    BY <1>1, <1>8 DEF Watch, Observe
<1>9. CASE Tick
    <2>1. now' = now + 1 /\ UNCHANGED <<meter, counter>>
        BY <1>9 DEF Tick
    <2>2. StoreType'
        BY <2>1 DEF StoreType, Entry
    <2> QED
        BY <1>9, <2>1, <2>2 DEF StoreType
<1>10. \/ UNCHANGED store
       \/ \E c \in Calls : Reserved(c) /\ Debit(Planned(c))
       \/ \E c \in Calls : ReserveFails(c) /\ Debit(Planned(c))
       \/ \E c \in Calls : OverLimit(c) /\ \E r : Exceeded(Planned(c), r)
       \/ \E c \in Calls : Release(c) /\ HandBack(held[c])
       \/ Watch \/ Tick
    BY StoreCalls
<1> HIDE DEF Goal
<1> QED
    BY <1>3, <1>4, <1>5, <1>6, <1>7, <1>8, <1>9, <1>10

\* The answer of the approval provider.
LEMMA Answers ==
    ASSUME CallType, NEW c \in Calls, NEW granted \in BOOLEAN, Answer(c, granted)
    PROVE  /\ pc' = [pc EXCEPT ![c] = pc'[c]]
           /\ pc'[c] \in {"allowed", "releasing", "reserving", "refused"}
           /\ pc'[c] = "allowed" => rule[c] = 0 /\ granted
           /\ pc'[c] = "releasing" => rule[c] = 0
           /\ pc'[c] = "reserving" => rule[c] # 0
           /\ approved' = [approved EXCEPT ![c] = approved'[c]]
           /\ approved[c] \subseteq approved'[c]
           /\ approved'[c] \subseteq approved[c] \union (IF granted THEN {rule[c]} ELSE {})
<1>1. c \in DOMAIN pc /\ c \in DOMAIN approved /\ DOMAIN pc = Calls /\ DOMAIN approved = Calls
    BY DEF CallType
<1>2. /\ pc' = [pc EXCEPT ![c] = pc'[c]]
      /\ pc'[c] \in {"allowed", "releasing", "reserving", "refused"}
    BY <1>1 DEF Answer, Goto
<1>3. /\ pc'[c] = "allowed" => rule[c] = 0 /\ granted
      /\ pc'[c] = "releasing" => rule[c] = 0
      /\ pc'[c] = "reserving" => rule[c] # 0
    BY <1>1 DEF Answer, Goto
<1>4. /\ approved' = [approved EXCEPT ![c] = approved'[c]]
      /\ approved[c] \subseteq approved'[c]
      /\ approved'[c] \subseteq approved[c] \union (IF granted THEN {rule[c]} ELSE {})
    <2>1. CASE granted
        BY <1>1, <2>1 DEF Answer
    <2>2. CASE ~granted
        <3>1. approved' = approved
            BY <2>2 DEF Answer
        <3>2. approved = [approved EXCEPT ![c] = approved[c]]
            BY DEF CallType
        <3> QED
            BY <3>1, <3>2
    <2> QED
        BY <2>1, <2>2
<1> QED
    BY <1>2, <1>3, <1>4

-----------------------------------------------------------------------------
(* What a step does to the calls.                                           *)

\* Call c goes on, with what it holds: what the steps of evaluate() between the
\* reservation and the end have in common.
Moves(c) ==
    /\ UNCHANGED <<tool, amount, held>>
    /\ pc' \in [Calls -> Places] /\ rule' \in [Calls -> 0..Len(Limits)]
    /\ approved' \in [Calls -> SUBSET (0..Len(Limits))]
    /\ \A d \in Calls \ {c} :
           pc'[d] = pc[d] /\ rule'[d] = rule[d] /\ approved'[d] = approved[d]
    /\ pc[c] \notin {"idle", "refused"} /\ pc'[c] # "idle"
    /\ pc'[c] = "reserving" => held[c] = {}
    /\ pc'[c] \in Asking /\ rule'[c] # 0 => held[c] = {}
    /\ approved[c] \subseteq approved'[c]
    /\ \A r \in approved'[c] \ approved[c] : yes[<<tool[c], r>>] > 0
    /\ pc'[c] = "allowed" /\ Verdict[tool[c]] = "REQUIRE_APPROVAL" =>
           yes[<<tool[c], 0>>] > 0
    /\ pc'[c] = "denying" => kind = "file"

\* A step that only takes the call to another place.
LEMMA GoesOn ==
    ASSUME CallType, NEW c \in Calls, NEW place \in Places \ {"idle", "allowed"},
           UNCHANGED <<tool, amount, held, rule, approved>>, Goto(c, place),
           pc[c] \notin {"idle", "refused"},
           place = "reserving" => held[c] = {},
           place \in Asking /\ rule[c] # 0 => held[c] = {},
           place = "denying" => kind = "file"
    PROVE  Moves(c)
<1>1. /\ pc' \in [Calls -> Places] /\ pc'[c] = place
      /\ \A d \in Calls \ {c} : pc'[d] = pc[d]
    BY DEF CallType, Goto
<1> QED
    BY <1>1 DEF Moves, CallType

\* A step that ends with the answer of the approval provider.
LEMMA AnswerMoves ==
    ASSUME CallType, Unheld, Grants, NEW c \in Calls, NEW granted \in BOOLEAN,
           UNCHANGED <<tool, amount, held, rule>>, Answer(c, granted), pc[c] \in Asking,
           granted => record[Id(c)] = "GRANTED"
    PROVE  Moves(c)
<1>1. tool[c] \in Tools /\ rule[c] \in 0..Len(Limits) /\ Id(c) \in Requests
    BY GateAssumption DEF CallType, Asking, Id
<1>2. granted => yes[<<tool[c], rule[c]>>] > 0
    BY <1>1 DEF Grants, Id
<1>3. /\ pc' = [pc EXCEPT ![c] = pc'[c]]
      /\ pc'[c] \in {"allowed", "releasing", "reserving", "refused"}
      /\ pc'[c] = "allowed" => rule[c] = 0 /\ granted
      /\ pc'[c] = "reserving" => rule[c] # 0
    BY Answers
<1>4. /\ approved' = [approved EXCEPT ![c] = approved'[c]]
      /\ approved[c] \subseteq approved'[c]
      /\ approved'[c] \subseteq approved[c] \union (IF granted THEN {rule[c]} ELSE {})
    BY Answers
<1>5. pc' \in [Calls -> Places] /\ \A d \in Calls \ {c} : pc'[d] = pc[d]
    BY <1>3 DEF CallType, Places
<1>6. approved'[c] \subseteq 0..Len(Limits)
    BY <1>1, <1>4 DEF CallType
<1>7. /\ approved' \in [Calls -> SUBSET (0..Len(Limits))]
      /\ \A d \in Calls \ {c} : approved'[d] = approved[d]
    BY <1>4, <1>6 DEF CallType
<1>8. \A r \in approved'[c] \ approved[c] : yes[<<tool[c], r>>] > 0
    BY <1>2, <1>4
<1>9. pc'[c] = "allowed" => yes[<<tool[c], 0>>] > 0
    BY <1>2, <1>3
<1>10. /\ pc'[c] = "reserving" => held[c] = {}
       /\ pc'[c] \notin Asking /\ pc'[c] \notin {"idle", "denying"} /\ pc[c] \notin {"idle", "refused"}
    BY <1>3 DEF Unheld, Asking
<1>11. rule' \in [Calls -> 0..Len(Limits)] /\ \A d \in Calls \ {c} : rule'[d] = rule[d]
    BY DEF CallType
<1> QED
    BY <1>4, <1>5, <1>7, <1>8, <1>9, <1>10, <1>11 DEF Moves

LEMMA CallMoves ==
    ASSUME CallType, Prices, Unheld, Grants, NEW c \in Calls, CallStep(c), ~Reserved(c)
    PROVE  Moves(c)
<1>1. CASE OverLimit(c)
    <2>1. PICK r \in Planned(c) :
              /\ rule' = [rule EXCEPT ![c] = r.key[1]]
              /\ Goto(c, IF Limits[r.key[1]].escalate THEN "asking" ELSE "refused")
        BY <1>1 DEF OverLimit
    <2>2. pc[c] = "reserving" /\ UNCHANGED <<tool, amount, held, approved>>
        BY <1>1 DEF OverLimit
    <2>3. r.key[1] \in 0..Len(Limits)
        BY <2>2, PlannedFacts, LimitsList
    <2>4. /\ rule' \in [Calls -> 0..Len(Limits)]
          /\ \A d \in Calls \ {c} : rule'[d] = rule[d]
        BY <2>1, <2>3 DEF CallType
    <2>5. /\ pc' \in [Calls -> Places] /\ pc'[c] \in {"asking", "refused"}
          /\ \A d \in Calls \ {c} : pc'[d] = pc[d]
        BY <2>1 DEF CallType, Goto, Places
    <2>6. held[c] = {}
        BY <2>2 DEF Unheld
    <2> QED
        BY <2>2, <2>4, <2>5, <2>6 DEF Moves, CallType
<1>2. CASE ReserveFails(c)
    <2>1. "refused" \in Places \ {"idle", "allowed"} /\ "refused" \notin Asking
        BY DEF Places, Asking
    <2> QED
        BY <1>2, <2>1, GoesOn DEF ReserveFails
<1>3. CASE Judge(c)
    <2>1. /\ pc[c] = "rules" /\ UNCHANGED <<tool, amount, held, approved>>
          /\ rule' = [rule EXCEPT ![c] = 0]
          /\ Goto(c, CASE Verdict[tool[c]] = "ALLOW" -> "allowed"
                       [] Verdict[tool[c]] = "BLOCK" -> "releasing"
                       [] OTHER                      -> "asking")
        BY <1>3 DEF Judge
    <2>2. /\ rule' \in [Calls -> 0..Len(Limits)] /\ rule'[c] = 0
          /\ \A d \in Calls \ {c} : rule'[d] = rule[d]
        BY <2>1, LimitsList DEF CallType
    <2>3. c \in DOMAIN pc /\ DOMAIN pc = Calls
        BY DEF CallType
    <2>4. /\ pc'[c] \in {"allowed", "releasing", "asking"}
          /\ pc'[c] = "allowed" => Verdict[tool[c]] = "ALLOW"
        <3>1. CASE Verdict[tool[c]] = "ALLOW"
            BY <2>1, <2>3, <3>1 DEF Goto
        <3>2. CASE Verdict[tool[c]] = "BLOCK"
            BY <2>1, <2>3, <3>2 DEF Goto
        <3>3. CASE Verdict[tool[c]] \notin {"ALLOW", "BLOCK"}
            BY <2>1, <2>3, <3>3 DEF Goto
        <3> QED
            BY <3>1, <3>2, <3>3
    <2>5. pc' = [pc EXCEPT ![c] = pc'[c]]
        BY <2>1, <2>3 DEF Goto
    <2>6. pc' \in [Calls -> Places] /\ \A d \in Calls \ {c} : pc'[d] = pc[d]
        BY <2>4, <2>5 DEF CallType, Places
    <2> QED
        BY <2>1, <2>2, <2>4, <2>6 DEF Moves, CallType
<1>4. CASE Release(c) \/ ReleaseFails(c)
    <2>1. "refused" \in Places \ {"idle", "allowed"} /\ "refused" \notin Asking
        BY DEF Places, Asking
    <2> QED
        BY <1>4, <2>1, GoesOn DEF Release, ReleaseFails
<1>5. CASE Ask(c)
    <2>1. pc[c] = "asking" /\ UNCHANGED <<tool, amount, held, rule>>
        BY <1>5 DEF Ask, asideVars
    <2>2. pc[c] \in Asking /\ {"waiting", "expiring"} \subseteq Asking
          /\ {"waiting", "expiring"} \subseteq Places \ {"idle", "allowed"}
        BY <2>1 DEF Asking, Places
    <2>3. rule[c] # 0 => held[c] = {}
        BY <2>2 DEF Unheld
    <2>4. CASE Answer(c, record[Id(c)] = "GRANTED")
        BY <2>1, <2>2, <2>4, AnswerMoves
    <2>5. CASE Goto(c, "waiting") /\ UNCHANGED approved
        BY <2>1, <2>2, <2>3, <2>5, GoesOn
    <2>6. CASE Goto(c, "expiring") /\ UNCHANGED approved
        BY <2>1, <2>2, <2>3, <2>6, GoesOn
    <2> QED
        BY <1>5, <2>4, <2>5, <2>6 DEF Ask
<1>6. CASE Poll(c)
    <2>1. pc[c] \in Asking
        BY <1>6 DEF Poll, Asking
    <2> QED
        BY <1>6, <2>1, AnswerMoves DEF Poll, asideVars
<1>7. CASE Deadline(c)
    <2>1. pc[c] \in Asking /\ "expiring" \in Places \ {"idle", "allowed"}
        BY <1>7 DEF Deadline, Asking, Places
    <2>2. rule[c] # 0 => held[c] = {}
        BY <2>1 DEF Unheld
    <2> QED
        BY <1>7, <2>1, <2>2, GoesOn DEF Deadline, asideVars
<1>8. CASE Expire(c)
    <2>1. pc[c] = "expiring" /\ UNCHANGED <<tool, amount, held, rule>>
        BY <1>8 DEF Expire, asideVars
    <2>2. pc[c] \in Asking /\ "denying" \in Places \ {"idle", "allowed"}
        BY <2>1 DEF Asking, Places
    <2>3. rule[c] # 0 => held[c] = {}
        BY <2>2 DEF Unheld
    <2>4. CASE kind = "file" /\ Goto(c, "denying") /\ UNCHANGED approved
        BY <2>1, <2>2, <2>3, <2>4, GoesOn
    <2>5. CASE Answer(c, FALSE)
        BY <2>1, <2>2, <2>5, AnswerMoves
    <2> QED
        BY <1>8, <2>4, <2>5 DEF Expire
<1>9. CASE Deny(c) \/ GatewayFails(c)
    <2>1. pc[c] \in Asking /\ Answer(c, FALSE) /\ UNCHANGED <<tool, amount, held, rule>>
        BY <1>9 DEF Deny, GatewayFails, asideVars, Asking
    <2> QED
        BY <2>1, AnswerMoves
<1> QED
    BY <1>1, <1>2, <1>3, <1>4, <1>5, <1>6, <1>7, <1>8, <1>9 DEF CallStep

\* The four kinds of step, as far as the calls are concerned.
LEMMA StepKinds ==
    ASSUME CallType, Prices, Unheld, Grants, [Next]_gateVars
    PROVE  \/ UNCHANGED callVars
           \/ \E c \in Calls, t \in Tools, a \in Amounts : Evaluate(c, t, a)
           \/ \E c \in Calls : Reserved(c)
           \/ \E c \in Calls : CallStep(c) /\ Moves(c)
<1>1. CASE \E c \in Calls : CallStep(c)
    BY <1>1, CallMoves
<1>2. CASE Operator /\ UNCHANGED <<store, callVars, leaked, faults>>
    BY <1>2
<1>3. CASE Watch /\ UNCHANGED <<approvals, callVars, leaked, faults>>
    BY <1>3
<1>4. CASE Tick /\ UNCHANGED <<approvals, callVars, leaked, faults>>
    BY <1>4
<1>5. CASE UNCHANGED gateVars
    BY <1>5 DEF gateVars
<1> QED
    BY <1>1, <1>2, <1>3, <1>4, <1>5 DEF Next

-----------------------------------------------------------------------------
(* The calls and the approvals.                                             *)

\* evaluate(), in the order in which the proofs need it.
LEMMA Evaluates ==
    ASSUME CallType, NEW c \in Calls, NEW t \in Tools, NEW a \in Amounts, Evaluate(c, t, a)
    PROVE  /\ pc[c] = "idle" /\ UNCHANGED <<store, approvals, rule, held, approved>>
           /\ DOMAIN tool' = Calls /\ DOMAIN amount' = Calls
           /\ tool'[c] = t /\ amount'[c] = a /\ a \in Int
           /\ pc' \in [Calls -> Places] /\ pc'[c] \in {"refused", "rules", "reserving"}
           /\ pc'[c] # "refused" =>
                  a >= 0 \/ \A i \in Policing(t) : Limits[i].kind # "budget"
           /\ \A d \in Calls \ {c} :
                  pc'[d] = pc[d] /\ tool'[d] = tool[d] /\ amount'[d] = amount[d]
<1>1. /\ pc[c] = "idle" /\ UNCHANGED <<store, approvals, rule, held, approved>>
      /\ tool' = [tool EXCEPT ![c] = t] /\ amount' = [amount EXCEPT ![c] = a]
      /\ DOMAIN tool = Calls /\ DOMAIN amount = Calls
    BY DEF Evaluate, CallType
<1>2. /\ pc' \in [Calls -> Places] /\ pc'[c] \in {"refused", "rules", "reserving"}
      /\ \A d \in Calls \ {c} : pc'[d] = pc[d]
    BY DEF Evaluate, CallType, Goto, Places
<1>3. pc'[c] # "refused" => ~(a < 0 /\ \E i \in Policing(t) : Limits[i].kind = "budget")
    BY DEF Evaluate, CallType, Goto
<1>4. a \in Int
    BY GateAssumption
<1> QED
    BY <1>1, <1>2, <1>3, <1>4

LEMMA Reserves ==
    ASSUME CallType, NEW c \in Calls, Reserved(c)
    PROVE  /\ pc[c] = "reserving" /\ Debit(Planned(c))
           /\ UNCHANGED <<approvals, tool, amount, rule, approved>>
           /\ DOMAIN held' = Calls /\ held'[c] = Entries(Planned(c))
           /\ pc' \in [Calls -> Places] /\ pc'[c] = "rules"
           /\ \A d \in Calls \ {c} : pc'[d] = pc[d] /\ held'[d] = held[d]
<1>1. /\ pc[c] = "reserving" /\ Debit(Planned(c))
      /\ UNCHANGED <<approvals, tool, amount, rule, approved>>
      /\ held' = [held EXCEPT ![c] = Entries(Planned(c))]
      /\ pc' = [pc EXCEPT ![c] = "rules"] /\ DOMAIN held = Calls
    BY DEF Reserved, CallType, Goto
<1>2. pc' \in [Calls -> Places] /\ pc'[c] = "rules" /\ \A d \in Calls \ {c} : pc'[d] = pc[d]
    BY <1>1 DEF CallType, Places
<1> QED
    BY <1>1, <1>2

LEMMA CallTypeStep ==
    ASSUME StoreType, CallType, Prices, Unheld, Grants, [Next]_gateVars
    PROVE  CallType'
<1>1. now' \in Nat /\ counter' \in Nat /\ now' >= now /\ counter' >= counter
    BY StoreStep DEF StoreType
<1>2. \A e : Entry(e) => Entry(e)'
    BY <1>1 DEF Entry, StoreType
<1>3. CASE UNCHANGED callVars
    BY <1>2, <1>3 DEF callVars, CallType
<1>4. CASE \E c \in Calls, t \in Tools, a \in Amounts : Evaluate(c, t, a)
    <2>1. PICK c \in Calls, t \in Tools, a \in Amounts : Evaluate(c, t, a)
        BY <1>4
    <2>2. /\ pc[c] = "idle" /\ UNCHANGED <<rule, held, approved>>
          /\ DOMAIN tool' = Calls /\ DOMAIN amount' = Calls
          /\ tool'[c] = t /\ pc' \in [Calls -> Places]
          /\ \A d \in Calls \ {c} : pc'[d] = pc[d] /\ tool'[d] = tool[d]
        BY <2>1, Evaluates
    <2> QED
        BY <1>2, <2>2 DEF CallType
<1>5. CASE \E c \in Calls : Reserved(c)
    <2>1. PICK c \in Calls : Reserved(c)
        BY <1>5
    <2>2. /\ pc[c] = "reserving" /\ Debit(Planned(c))
          /\ UNCHANGED <<tool, amount, rule, approved>>
          /\ DOMAIN held' = Calls /\ held'[c] = Entries(Planned(c))
          /\ pc' \in [Calls -> Places]
          /\ \A d \in Calls \ {c} : pc'[d] = pc[d] /\ held'[d] = held[d]
        BY <2>1, Reserves
    <2>3. ASSUME NEW e \in held'[c] PROVE Entry(e)'
        <3>1. /\ e.key[1] \in DOMAIN Limits /\ e.amount \in Nat
              /\ e.at = now /\ e.no = counter + 1
            BY <2>2, EntriesFacts
        <3>2. now' = now /\ counter' = counter + 1
            BY <2>2 DEF Debit
        <3> QED
            BY <1>1, <3>1, <3>2 DEF Entry, StoreType
    <2>4. \A d \in Calls : \A e \in held'[d] : Entry(e)'
        BY <1>2, <2>2, <2>3 DEF CallType
    <2>5. \A d \in Calls : pc'[d] # "idle" => tool'[d] \in Tools
        BY <2>2 DEF CallType
    <2> QED
        BY <2>2, <2>4, <2>5 DEF CallType
<1>6. CASE \E c \in Calls : CallStep(c) /\ Moves(c)
    <2>1. PICK c \in Calls : Moves(c)
        BY <1>6
    <2> QED
        BY <1>2, <2>1 DEF Moves, CallType
<1> QED
    BY <1>3, <1>4, <1>5, <1>6, StepKinds

LEMMA PricesStep ==
    ASSUME CallType, Prices, Unheld, Grants, [Next]_gateVars
    PROVE  Prices'
<1>1. CASE UNCHANGED callVars
    BY <1>1 DEF callVars, Prices, Policing
<1>2. CASE \E c \in Calls, t \in Tools, a \in Amounts : Evaluate(c, t, a)
    <2>1. PICK c \in Calls, t \in Tools, a \in Amounts : Evaluate(c, t, a)
        BY <1>2
    <2>2. /\ tool'[c] = t /\ amount'[c] = a /\ a \in Int
          /\ pc'[c] # "refused" =>
                 a >= 0 \/ \A i \in Policing(t) : Limits[i].kind # "budget"
          /\ \A d \in Calls \ {c} :
                 pc'[d] = pc[d] /\ tool'[d] = tool[d] /\ amount'[d] = amount[d]
        BY <2>1, Evaluates
    <2>3. \A i \in Policing(t) : Limits[i].kind \in {"budget", "rate"}
        BY LimitAssumption DEF Policing
    <2>4. ASSUME NEW d \in Calls, pc'[d] # "refused", NEW i \in Policing(tool'[d])
          PROVE  Limits[i].kind = "rate" \/ (amount'[d] \in Int /\ amount'[d] >= 0)
        <3>1. CASE d = c
            BY <2>2, <2>3, <2>4, <3>1
        <3>2. CASE d # c
            BY <2>2, <2>4, <3>2 DEF Prices
        <3> QED
            BY <3>1, <3>2
    <2> QED
        BY <2>4 DEF Prices, Policing
<1>3. CASE \E c \in Calls : Reserved(c)
    <2>1. PICK c \in Calls : Reserved(c)
        BY <1>3
    <2>2. /\ pc[c] = "reserving" /\ UNCHANGED <<tool, amount>>
          /\ \A d \in Calls \ {c} : pc'[d] = pc[d]
        BY <2>1, Reserves
    <2> QED
        BY <2>2 DEF Prices, Policing
<1>4. CASE \E c \in Calls : CallStep(c) /\ Moves(c)
    <2>1. PICK c \in Calls : Moves(c)
        BY <1>4
    <2> QED
        BY <2>1 DEF Moves, Prices, Policing
<1> QED
    BY <1>1, <1>2, <1>3, <1>4, StepKinds

LEMMA UnheldStep ==
    ASSUME CallType, Prices, Unheld, Grants, [Next]_gateVars
    PROVE  Unheld'
<1>1. CASE UNCHANGED callVars
    BY <1>1 DEF callVars, Unheld
<1>2. CASE \E c \in Calls, t \in Tools, a \in Amounts : Evaluate(c, t, a)
    <2>1. PICK c \in Calls, t \in Tools, a \in Amounts : Evaluate(c, t, a)
        BY <1>2
    <2>2. /\ pc[c] = "idle" /\ UNCHANGED <<rule, held>>
          /\ pc'[c] \in {"refused", "rules", "reserving"}
          /\ \A d \in Calls \ {c} : pc'[d] = pc[d]
        BY <2>1, Evaluates
    <2> QED
        BY <2>2 DEF Unheld, Asking
<1>3. CASE \E c \in Calls : Reserved(c)
    <2>1. PICK c \in Calls : Reserved(c)
        BY <1>3
    <2>2. /\ UNCHANGED rule /\ pc'[c] = "rules"
          /\ \A d \in Calls \ {c} : pc'[d] = pc[d] /\ held'[d] = held[d]
        BY <2>1, Reserves
    <2> QED
        BY <2>2 DEF Unheld, Asking
<1>4. CASE \E c \in Calls : CallStep(c) /\ Moves(c)
    <2>1. PICK c \in Calls : Moves(c)
        BY <1>4
    <2> QED
        BY <2>1 DEF Moves, Unheld
<1> QED
    BY <1>1, <1>2, <1>3, <1>4, StepKinds

\* Every yes stays counted, and a grant on record is one.
LEMMA ApprovalStep ==
    ASSUME ApprovalType, CallType, Grants, [Next]_gateVars
    PROVE  /\ ApprovalType'
           /\ \A id \in Requests : yes'[id] >= yes[id]
           /\ \A id \in Requests : record'[id] = "GRANTED" => yes'[id] > 0
<1> DEFINE Goal == /\ ApprovalType'
                   /\ \A id \in Requests : yes'[id] >= yes[id]
                   /\ \A id \in Requests : record'[id] = "GRANTED" => yes'[id] > 0
<1> SUFFICES Goal
    OBVIOUS
<1>1. ASSUME UNCHANGED approvals PROVE Goal
    BY <1>1 DEF approvals, ApprovalType, Grants
<1>2. ASSUME NEW id \in Requests, Create(id) PROVE Goal
    BY <1>2 DEF Create, Set, ApprovalType, Grants
<1>3. ASSUME NEW id \in Requests, NEW answer \in {"GRANTED", "DENIED"},
             Set(id, answer), CountYes(id, answer),
             cli' \in [Requests -> {"none", "GRANTED", "DENIED"}]
      PROVE  Goal
    <2>1. /\ record' = [record EXCEPT ![id] = answer]
          /\ record' \in [Requests -> {"none", "PENDING", "GRANTED", "DENIED"}]
        BY <1>3 DEF Set, ApprovalType
    <2>2. CASE answer = "GRANTED"
        BY <1>3, <2>1, <2>2 DEF CountYes, ApprovalType, Grants
    <2>3. CASE answer = "DENIED"
        <3>1. yes' = yes
            BY <1>3, <2>3 DEF CountYes
        <3> QED
            BY <1>3, <2>1, <2>3, <3>1 DEF ApprovalType, Grants
    <2> QED
        BY <2>2, <2>3
<1>4. ASSUME NEW id \in Requests, NEW answer \in {"GRANTED", "DENIED"}, Decide(id, answer)
      PROVE  Goal
    BY <1>3, <1>4 DEF Decide, ApprovalType
<1>5. CASE Operator /\ UNCHANGED <<store, callVars, leaked, faults>>
    <2>1. PICK id \in Requests :
              \/ \E answer \in {"GRANTED", "DENIED"} : Decide(id, answer) \/ CliReads(id, answer)
              \/ CliWrites(id)
        BY <1>5 DEF Operator
    <2>2. CASE \E answer \in {"GRANTED", "DENIED"} : Decide(id, answer)
        BY <1>4, <2>2
    <2>3. CASE \E answer \in {"GRANTED", "DENIED"} : CliReads(id, answer)
        BY <2>3 DEF CliReads, ApprovalType, Grants
    <2>4. CASE CliWrites(id)
        <3>1. cli[id] \in {"GRANTED", "DENIED"}
            BY <2>4 DEF CliWrites, ApprovalType
        <3>2. cli' \in [Requests -> {"none", "GRANTED", "DENIED"}]
            BY <2>4 DEF CliWrites, ApprovalType
        <3> QED
            BY <1>3, <2>4, <3>1, <3>2 DEF CliWrites
    <2> QED
        BY <2>1, <2>2, <2>3, <2>4
<1>6. ASSUME NEW c \in Calls, CallStep(c) PROVE Goal
    <2>1. pc[c] \in Asking => Id(c) \in Requests
        BY GateAssumption DEF CallType, Asking, Id
    <2>2. CASE Reserved(c) \/ OverLimit(c) \/ ReserveFails(c)
        BY <1>1, <2>2 DEF Reserved, OverLimit, ReserveFails
    <2>3. CASE Judge(c) \/ Release(c) \/ ReleaseFails(c)
        BY <1>1, <2>3 DEF Judge, Release, ReleaseFails
    <2>4. CASE Ask(c)
        BY <1>2, <2>1, <2>4 DEF Ask, Asking
    <2>5. CASE Poll(c) \/ Deadline(c) \/ GatewayFails(c)
        BY <1>1, <2>5 DEF Poll, Deadline, GatewayFails
    <2>6. CASE Expire(c)
        BY <1>1, <1>4, <2>1, <2>6 DEF Expire, Asking
    <2>7. CASE Deny(c)
        <3>1. Id(c) \in Requests /\ Set(Id(c), "DENIED") /\ UNCHANGED <<kind, cli, yes>>
            BY <2>1, <2>7 DEF Deny, Asking
        <3> QED
            BY <3>1 DEF Set, ApprovalType, Grants
    <2> QED
        BY <1>6, <2>2, <2>3, <2>4, <2>5, <2>6, <2>7 DEF CallStep
<1>7. CASE \E c \in Calls, t \in Tools, a \in Amounts : Evaluate(c, t, a)
    BY <1>1, <1>7 DEF Evaluate
<1>8. CASE \E c \in Calls : CallStep(c)
    BY <1>6, <1>8
<1>9. CASE UNCHANGED gateVars
    BY <1>1, <1>9 DEF gateVars
<1> HIDE DEF Goal
<1> QED
    BY <1>1, <1>5, <1>7, <1>8, <1>9 DEF Next

LEMMA GrantsStep ==
    ASSUME ApprovalType, CallType, Prices, Unheld, Grants, [Next]_gateVars
    PROVE  Grants'
<1>1. /\ \A id \in Requests : yes[id] \in Nat /\ yes'[id] \in Nat /\ yes'[id] >= yes[id]
      /\ \A id \in Requests : record'[id] = "GRANTED" => yes'[id] > 0
    BY ApprovalStep DEF ApprovalType
<1>2. \A t \in Tools, r \in 0..Len(Limits) :
          yes[<<t, r>>] > 0 => yes'[<<t, r>>] > 0
    BY <1>1, GateAssumption
<1>3. \A c \in Calls : \A r \in approved[c] : tool[c] \in Tools /\ r \in 0..Len(Limits)
    BY DEF Grants, CallType
<1>4. \A c \in Calls : pc[c] = "allowed" => tool[c] \in Tools /\ 0 \in 0..Len(Limits)
    BY LimitsList DEF CallType
<1>5. \A c \in Calls : \A r \in approved[c] : yes'[<<tool[c], r>>] > 0
    BY <1>2, <1>3 DEF Grants
<1>6. \A c \in Calls : pc[c] = "allowed" /\ Verdict[tool[c]] = "REQUIRE_APPROVAL" =>
          yes'[<<tool[c], 0>>] > 0
    BY <1>2, <1>4 DEF Grants
<1>7. CASE UNCHANGED callVars
    BY <1>1, <1>5, <1>6, <1>7 DEF callVars, Grants
<1>8. CASE \E c \in Calls, t \in Tools, a \in Amounts : Evaluate(c, t, a)
    <2>1. PICK c \in Calls, t \in Tools, a \in Amounts : Evaluate(c, t, a)
        BY <1>8
    <2>2. /\ pc[c] = "idle" /\ UNCHANGED approved
          /\ pc'[c] \in {"refused", "rules", "reserving"}
          /\ \A d \in Calls \ {c} : pc'[d] = pc[d] /\ tool'[d] = tool[d]
        BY <2>1, Evaluates
    <2>3. approved[c] = {}
        BY <2>2 DEF Grants
    <2>4. \A d \in Calls : pc'[d] = "idle" => approved'[d] = {}
        BY <2>2 DEF Grants
    <2>5. \A d \in Calls : \A r \in approved'[d] : yes'[<<tool'[d], r>>] > 0
        BY <1>5, <2>2, <2>3
    <2>6. \A d \in Calls : pc'[d] = "allowed" /\ Verdict[tool'[d]] = "REQUIRE_APPROVAL" =>
              yes'[<<tool'[d], 0>>] > 0
        BY <1>6, <2>2
    <2> QED
        BY <1>1, <2>4, <2>5, <2>6 DEF Grants
<1>9. CASE \E c \in Calls : Reserved(c)
    <2>1. PICK c \in Calls : Reserved(c)
        BY <1>9
    <2>2. /\ UNCHANGED <<tool, approved>> /\ pc'[c] = "rules"
          /\ \A d \in Calls \ {c} : pc'[d] = pc[d]
        BY <2>1, Reserves
    <2> QED
        BY <1>1, <1>5, <1>6, <2>2 DEF Grants
<1>10. CASE \E c \in Calls : CallStep(c) /\ Moves(c)
    <2>1. PICK c \in Calls : Moves(c)
        BY <1>10
    <2>2. /\ UNCHANGED tool /\ pc'[c] # "idle" /\ pc[c] # "idle"
          /\ \A d \in Calls \ {c} : pc'[d] = pc[d] /\ approved'[d] = approved[d]
        BY <2>1 DEF Moves
    <2>3. tool[c] \in Tools /\ approved'[c] \subseteq 0..Len(Limits) /\ 0 \in 0..Len(Limits)
        BY <2>1, <2>2, LimitsList DEF Moves, CallType
    <2>4. \A r \in approved'[c] : yes'[<<tool[c], r>>] > 0
        BY <1>2, <1>5, <2>1, <2>3 DEF Moves
    <2>5. pc'[c] = "allowed" /\ Verdict[tool[c]] = "REQUIRE_APPROVAL" => yes'[<<tool[c], 0>>] > 0
        BY <1>2, <2>1, <2>3 DEF Moves
    <2>6. \A d \in Calls : \A r \in approved'[d] : yes'[<<tool'[d], r>>] > 0
        BY <1>5, <2>2, <2>4
    <2>7. \A d \in Calls : pc'[d] = "allowed" /\ Verdict[tool'[d]] = "REQUIRE_APPROVAL" =>
              yes'[<<tool'[d], 0>>] > 0
        BY <1>6, <2>2, <2>5
    <2>8. \A d \in Calls : pc'[d] = "idle" => approved'[d] = {}
        BY <2>2 DEF Grants
    <2> QED
        BY <1>1, <2>6, <2>7, <2>8 DEF Grants
<1> QED
    BY <1>7, <1>8, <1>9, <1>10, StepKinds

LEMMA OneScriptStep ==
    ASSUME ApprovalType, CallType, Prices, Unheld, Grants, OneScript, [Next]_gateVars
    PROVE  OneScript'
<1>1. kind' = kind
    <2>1. ASSUME NEW id, NEW answer PROVE /\ Decide(id, answer) => kind' = kind
                                          /\ CliReads(id, answer) => kind' = kind
                                          /\ CliWrites(id) => kind' = kind
                                          /\ Create(id) => kind' = kind
        BY DEF Decide, CliReads, CliWrites, Create
    <2>2. ASSUME NEW c \in Calls, CallStep(c) PROVE kind' = kind
        <3>1. CASE Reserved(c) \/ OverLimit(c) \/ ReserveFails(c)
            BY <3>1 DEF Reserved, OverLimit, ReserveFails, approvals
        <3>2. CASE Judge(c) \/ Release(c) \/ ReleaseFails(c)
            BY <3>2 DEF Judge, Release, ReleaseFails, approvals
        <3>3. CASE Ask(c) \/ Expire(c) \/ Deny(c)
            BY <2>1, <3>3 DEF Ask, Expire, Deny, approvals
        <3>4. CASE Poll(c) \/ Deadline(c) \/ GatewayFails(c)
            BY <3>4 DEF Poll, Deadline, GatewayFails, approvals
        <3> QED
            BY <2>2, <3>1, <3>2, <3>3, <3>4 DEF CallStep
    <2>3. CASE Operator
        BY <2>1, <2>3 DEF Operator
    <2>4. CASE \E c \in Calls, t \in Tools, a \in Amounts : Evaluate(c, t, a)
        BY <2>4 DEF Evaluate, approvals
    <2> QED
        BY <2>2, <2>3, <2>4 DEF Next, gateVars, approvals
<1> SUFFICES ASSUME kind = "redis" PROVE OneScript'
    BY <1>1 DEF OneScript
<1> DEFINE Scripts == \A id \in Requests :
               cli'[id] = "none" /\ yes'[id] <= 1 /\ (~Decided(id)' => yes'[id] = 0)
<1>2. \A id \in Requests : cli[id] = "none" /\ yes[id] <= 1 /\ (~Decided(id) => yes[id] = 0)
    BY DEF OneScript
<1>3. Scripts
    <2>1. ASSUME UNCHANGED approvals PROVE Scripts
        BY <1>2, <2>1 DEF approvals, Decided
    <2>2. ASSUME NEW id \in Requests, Create(id) PROVE Scripts
        BY <1>2, <2>2 DEF Create, Set, Decided, ApprovalType
    <2>3. ASSUME NEW id \in Requests, NEW answer \in {"GRANTED", "DENIED"}, Decide(id, answer)
          PROVE  Scripts
        <3>1. /\ record[id] = "PENDING" /\ cli' = cli
              /\ record' = [record EXCEPT ![id] = answer]
              /\ yes' = IF answer = "GRANTED" THEN [yes EXCEPT ![id] = @ + 1] ELSE yes
            BY <2>3 DEF Decide, Set, CountYes
        <3>2. yes[id] = 0
            BY <1>2, <3>1 DEF Decided
        <3>3. /\ Decided(id)' /\ yes'[id] <= 1
              /\ \A other \in Requests \ {id} : record'[other] = record[other]
                                                /\ yes'[other] = yes[other]
            <4>1. CASE answer = "GRANTED"
                BY <3>1, <3>2, <4>1 DEF Decided, ApprovalType
            <4>2. CASE answer = "DENIED"
                BY <3>1, <3>2, <4>2 DEF Decided, ApprovalType
            <4> QED
                BY <4>1, <4>2
        <3> QED
            BY <1>2, <3>1, <3>3 DEF Decided
    <2>4. ASSUME NEW c \in Calls, CallStep(c) PROVE Scripts
        <3>1. pc[c] \in Asking => Id(c) \in Requests
            BY GateAssumption DEF CallType, Asking, Id
        <3>2. CASE Reserved(c) \/ OverLimit(c) \/ ReserveFails(c)
            BY <2>1, <3>2 DEF Reserved, OverLimit, ReserveFails
        <3>3. CASE Judge(c) \/ Release(c) \/ ReleaseFails(c)
            BY <2>1, <3>3 DEF Judge, Release, ReleaseFails
        <3>4. CASE Ask(c)
            BY <2>2, <3>1, <3>4 DEF Ask, Asking
        <3>5. CASE Poll(c) \/ Deadline(c) \/ GatewayFails(c)
            BY <2>1, <3>5 DEF Poll, Deadline, GatewayFails
        <3>6. CASE Expire(c)
            BY <2>1, <2>3, <3>1, <3>6 DEF Expire, Asking
        <3>7. ~Deny(c)
            BY DEF Deny, OneScript
        <3> QED
            BY <2>4, <3>2, <3>3, <3>4, <3>5, <3>6, <3>7 DEF CallStep
    <2>5. CASE Operator
        BY <1>2, <2>3, <2>5 DEF Operator, CliReads, CliWrites
    <2>6. CASE \E c \in Calls, t \in Tools, a \in Amounts : Evaluate(c, t, a)
        BY <2>1, <2>6 DEF Evaluate
    <2>7. CASE UNCHANGED gateVars
        BY <2>1, <2>7 DEF gateVars
    <2> HIDE DEF Scripts
    <2> QED
        BY <2>1, <2>4, <2>5, <2>6, <2>7 DEF Next
<1>4. \A c \in Calls : pc'[c] # "denying"
    <2>1. CASE UNCHANGED callVars
        BY <2>1 DEF callVars, OneScript
    <2>2. CASE \E c \in Calls, t \in Tools, a \in Amounts : Evaluate(c, t, a)
        <3>1. PICK c \in Calls, t \in Tools, a \in Amounts : Evaluate(c, t, a)
            BY <2>2
        <3> QED
            BY <3>1, Evaluates DEF OneScript
    <2>3. CASE \E c \in Calls : Reserved(c)
        <3>1. PICK c \in Calls : Reserved(c)
            BY <2>3
        <3> QED
            BY <3>1, Reserves DEF OneScript
    <2>4. CASE \E c \in Calls : CallStep(c) /\ Moves(c)
        BY <2>4 DEF Moves, OneScript
    <2> QED
        BY <2>1, <2>2, <2>3, <2>4, StepKinds
<1> QED
    BY <1>3, <1>4 DEF OneScript

-----------------------------------------------------------------------------
(* The budget.                                                              *)

LEMMA InForceFacts ==
    ASSUME CallType, Separate
    PROVE  /\ InForce \subseteq AllHeld /\ IsFiniteSet(InForce) /\ Priced(AllHeld)
           /\ \A e \in InForce : Entry(e)
           /\ \A e : IsFiniteSet(Counted(e)) /\ Priced(Counted(e))
<1>1. InForce \subseteq AllHeld
    BY DEF InForce, AllHeld
<1>2. \A e \in AllHeld : Entry(e)
    BY DEF AllHeld, CallType
<1>3. IsFiniteSet(InForce) /\ Priced(AllHeld)
    BY <1>1, <1>2, FS_Subset DEF Separate, Priced, Entry
<1>4. ASSUME NEW e PROVE IsFiniteSet(Counted(e)) /\ Priced(Counted(e))
    <2>1. Counted(e) \subseteq InForce
        BY DEF Counted
    <2> QED
        BY <1>1, <1>3, <2>1, FS_Subset DEF Priced
<1> QED
    BY <1>1, <1>2, <1>3, <1>4

\* A step that reserves nothing and lets nobody back in: what counted counts no
\* more than before.
LEMMA Quiet ==
    ASSUME StoreType, CallType, Separate, Standing, Within,
           UNCHANGED held,
           \A c \in Calls : pc'[c] # "refused" => pc[c] # "refused",
           \A c \in Calls : pc[c] # "idle" => approved[c] \subseteq approved'[c],
           Unheld,
           now' \in Nat, now' >= now,
           \A e \in InForce' : e \in meter /\ e.at > now' - Window(e.key) => e \in meter'
    PROVE  Separate' /\ Standing' /\ Within'
<1>1. InForce' \subseteq InForce /\ AllHeld' = AllHeld
    BY DEF InForce, AllHeld
<1>2. Separate'
    BY <1>1 DEF Separate
<1>3. Standing'
    <2> SUFFICES ASSUME NEW e \in InForce', e.at > now' - Window(e.key)' PROVE e \in meter'
        BY DEF Standing
    <2>1. e \in InForce /\ Window(e.key)' = Window(e.key)
        BY <1>1 DEF Window
    <2>2. Entry(e)
        BY <2>1, InForceFacts
    <2>3. Window(e.key) \in Nat /\ e.at \in Nat /\ now \in Nat
        BY <2>2, WindowPositive DEF Entry, StoreType
    <2>4. e.at > now - Window(e.key)
        BY <2>1, <2>3
    <2> QED
        BY <2>1, <2>4 DEF Standing
<1>4. Within'
    <2> SUFFICES ASSUME NEW c \in Calls, pc'[c] # "refused", NEW e \in held'[c],
                        e.key[1] \notin approved'[c]
                 PROVE  Total(Counted(e)') <= Cap(e.key)
        BY DEF Within
    <2>1. e \in held[c] /\ pc[c] # "refused" /\ pc[c] # "idle"
        BY DEF Unheld
    <2>2. Total(Counted(e)) <= Cap(e.key)
        BY <2>1 DEF Within
    <2>3. Counted(e)' \subseteq Counted(e)
        BY <1>1 DEF Counted, Window
    <2>4. IsFiniteSet(Counted(e)) /\ Priced(Counted(e))
        BY InForceFacts
    <2>5. IsFiniteSet(Counted(e)') /\ Priced(Counted(e)')
        BY <2>3, <2>4, FS_Subset DEF Priced
    <2>6. Total(Counted(e)') <= Total(Counted(e))
        BY <2>3, <2>4, TotalMonotone
    <2>7. Total(Counted(e)) \in Nat /\ Total(Counted(e)') \in Nat
        BY <2>4, <2>5, TotalType
    <2>8. Cap(e.key) \in Nat
        <3>1. Entry(e)
            BY <2>1 DEF CallType
        <3> QED
            BY <3>1, WindowPositive DEF Entry
    <2> QED
        BY <2>2, <2>6, <2>7, <2>8
<1> QED
    BY <1>2, <1>3, <1>4

\* Pruning takes only what has left its window.
LEMMA PrunedIsOld ==
    ASSUME StoreType, NEW reqs, NEW e \in Pruned(reqs), Entry(e)
    PROVE  ~(e.at > now - Window(e.key))
<1>1. PICK r \in reqs : e \in Stale(r.key, Window(r.key))
    BY DEF Pruned
<1>2. e.key = r.key /\ e.at <= now - Window(r.key)
    BY <1>1 DEF Stale
<1>3. Window(e.key) \in Nat /\ e.at \in Nat /\ now \in Nat
    BY WindowPositive DEF Entry, StoreType
<1> QED
    BY <1>2, <1>3

LEMMA MeterKeeps ==
    ASSUME StoreType, CallType, Prices, Unheld, Grants, Separate, [Next]_gateVars,
           ~\E c \in Calls : Reserved(c),
           UNCHANGED held,
           \A c \in Calls : pc'[c] # "refused" => pc[c] # "refused",
           NEW e \in InForce', e \in meter, e.at > now' - Window(e.key)
    PROVE  e \in meter'
<1>1. e \in InForce
    BY DEF InForce
<1>2. Entry(e)
    BY <1>1, InForceFacts
<1>3. CASE UNCHANGED store
    BY <1>3 DEF store
<1>4. CASE \E c \in Calls : ReserveFails(c) /\ Debit(Planned(c))
    <2>1. PICK c \in Calls : Debit(Planned(c))
        BY <1>4
    <2>2. now' = now /\ meter' = (meter \ Pruned(Planned(c))) \union Entries(Planned(c))
        BY <2>1 DEF Debit
    <2> QED
        BY <1>2, <2>2, PrunedIsOld
<1>5. CASE \E c \in Calls : OverLimit(c) /\ \E r : Exceeded(Planned(c), r)
    <2>1. PICK reqs : now' = now /\ meter' = meter \ Pruned(reqs)
        BY <1>5 DEF Exceeded
    <2> QED
        BY <1>2, <2>1, PrunedIsOld
<1>6. CASE \E c \in Calls : Release(c) /\ HandBack(held[c])
    <2>1. PICK c \in Calls : Release(c) /\ HandBack(held[c])
        BY <1>6
    <2>2. pc'[c] = "refused"
        BY <2>1 DEF Release, Goto, CallType
    <2>3. PICK d \in Calls : e \in held[d] /\ d # c
        BY <2>2 DEF InForce
    <2>4. e \notin held[c]
        BY <2>3 DEF Separate
    <2> QED
        BY <2>1, <2>4 DEF HandBack, Found
<1>7. CASE Watch
    <2>1. PICK m \in meter : Observe(m.key)
        BY <1>7 DEF Watch
    <2>2. now' = now /\ meter' = meter \ Stale(m.key, Window(m.key))
        BY <2>1 DEF Observe
    <2>3. Window(e.key) \in Nat /\ e.at \in Nat /\ now \in Nat
        BY <1>2, WindowPositive DEF Entry, StoreType
    <2> QED
        BY <2>2, <2>3 DEF Stale
<1>8. CASE Tick
    BY <1>8 DEF Tick
<1> QED
    BY <1>3, <1>4, <1>5, <1>6, <1>7, <1>8, StoreCalls

LEMMA ReservedWithin ==
    ASSUME StoreType, CallType, Prices, Unheld, Separate, Standing, Within,
           NEW c \in Calls, Reserved(c)
    PROVE  Separate' /\ Standing' /\ Within'
<1> DEFINE N == Entries(Planned(c))
<1>1. /\ pc[c] = "reserving" /\ Debit(Planned(c)) /\ UNCHANGED approved
      /\ held'[c] = N /\ pc'[c] = "rules"
      /\ \A d \in Calls \ {c} : pc'[d] = pc[d] /\ held'[d] = held[d]
    BY Reserves
<1>2. /\ now' = now /\ counter' = counter + 1
      /\ meter' = (meter \ Pruned(Planned(c))) \union N
      /\ ~\E r \in Planned(c) : Exceeds(r)
    BY <1>1 DEF Debit
<1>3. /\ IsFiniteSet(N)
      /\ \A e \in N :
             /\ e.key[1] \in DOMAIN Limits /\ e.amount \in Nat
             /\ e.at = now /\ e.no = counter + 1
             /\ \E r \in Planned(c) : r.key = e.key /\ r.amount = e.amount
      /\ \A e, f \in N : e.key = f.key => e = f
    BY <1>1, EntriesFacts
<1>4. now \in Nat /\ counter \in Nat /\ held[c] = {}
    BY <1>1 DEF StoreType, Unheld
<1>5. AllHeld' = AllHeld \union N /\ InForce' = InForce \union N
    <2> HIDE DEF N
    <2> QED
        BY <1>1, <1>4 DEF AllHeld, InForce
<1>6. \A d \in Calls : \A e \in held[d] : Entry(e) /\ e.no < counter + 1
    BY <1>4 DEF CallType, Entry
<1>7. \A e \in InForce : Entry(e) /\ e.no < counter + 1
    BY <1>6 DEF InForce
<1> HIDE DEF N
<1>8. Separate'
    <2>1. IsFiniteSet(AllHeld')
        BY <1>3, <1>5, FS_Union DEF Separate
    <2>2. ASSUME NEW a \in Calls, NEW b \in Calls, NEW e \in held'[a], NEW f \in held'[b],
                 e.no = f.no
          PROVE  a = b
        BY <1>1, <1>3, <1>4, <1>6, <2>2 DEF Separate
    <2>3. \A d \in Calls : \A e, f \in held'[d] : e.key = f.key => e = f
        BY <1>1, <1>3 DEF Separate
    <2> QED
        BY <2>1, <2>2, <2>3 DEF Separate
<1>9. Standing'
    <2> SUFFICES ASSUME NEW e \in InForce', e.at > now - Window(e.key) PROVE e \in meter'
        BY <1>2 DEF Standing, Window
    <2>1. CASE e \in N
        BY <1>2, <2>1
    <2>2. CASE e \in InForce
        BY <1>2, <1>7, <2>2, PrunedIsOld DEF Standing
    <2> QED
        BY <1>5, <2>1, <2>2
<1>10. ASSUME NEW d \in Calls, d # c, pc[d] # "refused", NEW e \in held[d],
              e.key[1] \notin approved[d]
       PROVE  Total(Counted(e)') <= Cap(e.key)
    <2>1. e.no \in Nat /\ e.no < counter + 1
        BY <1>6, <1>10 DEF Entry
    <2>2. ASSUME NEW f \in N PROVE ~(f.no <= e.no)
        BY <1>3, <1>4, <2>1
    <2>3. Counted(e)' = Counted(e)
        BY <1>5, <2>2 DEF Counted, Window
    <2>4. Total(Counted(e)) <= Cap(e.key)
        BY <1>10 DEF Within
    <2> QED
        BY <2>3, <2>4
<1>11. ASSUME NEW e \in N, e.key[1] \notin approved[c]
       PROVE  Total(Counted(e)') <= Cap(e.key)
    <2> DEFINE U == {m \in meter : m.key = e.key /\ m.at > now - Window(e.key)}
    <2>1. PICK r \in Planned(c) : r.key = e.key /\ r.amount = e.amount
        BY <1>3
    <2>2. r.capped
        BY <1>1, <1>11, <2>1, PlannedFacts
    <2>3. ~(Used(e.key) + e.amount > Cap(e.key))
        BY <1>2, <2>1, <2>2 DEF Exceeds
    <2>4. IsFiniteSet(U) /\ Priced(U)
        BY FS_Subset DEF StoreType, Priced, Entry
    <2>5. Used(e.key) = Total(U)
        BY DEF Used
    <2>6. ASSUME NEW f \in Counted(e)', f # e PROVE f \in U
        <3>1. f \in InForce'
            BY DEF Counted
        <3>2. f.key = e.key /\ f.at > now - Window(e.key)
            BY <1>3 DEF Counted, Window
        <3>3. f \in InForce
            BY <1>3, <1>5, <2>6, <3>1, <3>2
        <3> QED
            BY <3>2, <3>3 DEF Standing
    <2> DEFINE C == Counted(e)'
    <2>7. e \in C /\ C \ {e} \subseteq U
        <3>1. Window(e.key) \in Nat /\ Window(e.key) > 0 /\ e.no \in Nat /\ e.at = now
            BY <1>3, <1>4, WindowPositive
        <3>2. e \in C
            BY <1>4, <1>5, <3>1 DEF Counted, Window
        <3> QED
            BY <2>6, <3>2
    <2>8. IsFiniteSet(C) /\ Priced(C)
        <3>1. C \subseteq InForce \union N
            BY <1>5 DEF Counted
        <3>2. IsFiniteSet(InForce \union N)
            BY <1>3, InForceFacts, FS_Union
        <3>3. Priced(InForce \union N)
            BY <1>3, <1>7 DEF Priced, Entry
        <3> HIDE DEF C
        <3> QED
            BY <3>1, <3>2, <3>3, FS_Subset DEF Priced
    <2> HIDE DEF C, U
    <2>9. Total(C) = e.amount + Total(C \ {e}) /\ Total(C \ {e}) <= Total(U)
        BY <2>4, <2>7, <2>8, TotalTake, TotalMonotone
    <2>10. /\ e.amount \in Nat /\ Total(U) \in Nat /\ Total(C \ {e}) \in Nat
           /\ Cap(e.key) \in Nat
        <3>1. IsFiniteSet(C \ {e}) /\ Priced(C \ {e})
            BY <2>8, FS_Subset DEF Priced
        <3> QED
            BY <1>3, <2>4, <3>1, TotalType, WindowPositive
    <2>11. Total(C) <= Cap(e.key)
        BY <2>3, <2>5, <2>9, <2>10
    <2> QED
        BY <2>11 DEF C
<1>12. Within'
    <2> SUFFICES ASSUME NEW d \in Calls, pc'[d] # "refused", NEW e \in held'[d],
                        e.key[1] \notin approved'[d]
                 PROVE  Total(Counted(e)') <= Cap(e.key)
        BY DEF Within
    <2>1. CASE d = c
        BY <1>1, <1>11, <2>1
    <2>2. CASE d # c
        BY <1>1, <1>10, <2>2
    <2> QED
        BY <2>1, <2>2
<1> QED
    BY <1>8, <1>9, <1>12

LEMMA BudgetStep ==
    ASSUME StoreType, CallType, Prices, Unheld, Grants,
           Separate, Standing, Within, [Next]_gateVars
    PROVE  Separate' /\ Standing' /\ Within'
<1>1. CASE \E c \in Calls : Reserved(c)
    BY <1>1, ReservedWithin
<1>2. CASE ~\E c \in Calls : Reserved(c)
    <2>1. /\ UNCHANGED held
          /\ \A c \in Calls : pc'[c] # "refused" => pc[c] # "refused"
          /\ \A c \in Calls : pc[c] # "idle" => approved[c] \subseteq approved'[c]
        <3>1. CASE UNCHANGED callVars
            BY <3>1 DEF callVars
        <3>2. CASE \E c \in Calls, t \in Tools, a \in Amounts : Evaluate(c, t, a)
            <4>1. PICK c \in Calls, t \in Tools, a \in Amounts : Evaluate(c, t, a)
                BY <3>2
            <4>2. /\ pc[c] = "idle" /\ UNCHANGED <<held, approved>>
                  /\ \A d \in Calls \ {c} : pc'[d] = pc[d]
                BY <4>1, Evaluates
            <4> QED
                BY <4>2
        <3>3. CASE \E c \in Calls : CallStep(c) /\ Moves(c)
            BY <3>3 DEF Moves
        <3> QED
            BY <1>2, <3>1, <3>2, <3>3, StepKinds
    <2>2. now' \in Nat /\ now' >= now
        BY StoreStep DEF StoreType
    <2>3. \A e \in InForce' : e \in meter /\ e.at > now' - Window(e.key) => e \in meter'
        BY <1>2, <2>1, MeterKeeps
    <2> QED
        BY <2>1, <2>2, <2>3, Quiet
<1> QED
    BY <1>1, <1>2

-----------------------------------------------------------------------------
(* The theorems.                                                            *)

LEMMA InvariantStep == IInv /\ [Next]_gateVars => IInv'
<1> SUFFICES ASSUME IInv, [Next]_gateVars PROVE IInv'
    OBVIOUS
<1> USE DEF IInv
<1>1. StoreType'
    BY StoreStep
<1>2. ApprovalType' /\ Grants' /\ OneScript'
    BY ApprovalStep, GrantsStep, OneScriptStep
<1>3. CallType' /\ Prices' /\ Unheld'
    BY CallTypeStep, PricesStep, UnheldStep
<1>4. Separate' /\ Standing' /\ Within'
    BY BudgetStep
<1> QED
    BY <1>1, <1>2, <1>3, <1>4

\* The inductive invariant of the gate: types, what a call may hold at each place,
\* who stands behind a grant, whose a debit is, how long it stands, what it counts.
THEOREM Invariant == Spec => []IInv
<1>1. IInv /\ [Next]_gateVars => IInv'
    BY InvariantStep
<1> QED
    BY Initially, <1>1, PTL DEF Spec

\* Every variable of the gate, of its limiter and of its approvals keeps its type.
THEOREM TypeCorrect == Spec => []TypeOK
<1>1. IInv => TypeOK
    <2> SUFFICES ASSUME IInv PROVE TypeOK
        OBVIOUS
    <2>1. \A e \in meter : e.amount \in Nat /\ e.at \in 0..now /\ e.no \in 1..counter
        BY DEF IInv, StoreType, Entry
    <2>2. \A c \in Calls : pc[c] \in {"reserving", "asking"} /\ rule[c] # 0 => held[c] = {}
        BY DEF IInv, Unheld, Asking
    <2> QED
        BY <2>1, <2>2 DEF IInv, TypeOK, ApprovalType, CallType, OneScript
<1> QED
    BY <1>1, Invariant, PTL

\* Whatever interleaves with a call - other calls, refusals that hand their debits
\* back, humans who lift a limit for somebody else, pruning readers, a Redis that
\* fails after it debited - what was let through in the window that ends with it
\* is within the cap (limits.py, reserve()).
THEOREM CapsHold == Spec => []BudgetHolds
<1>1. IInv => BudgetHolds
    <2> SUFFICES ASSUME IInv, NEW c \in Allowed, NEW e \in held[c],
                        e.key[1] \notin approved[c]
                 PROVE  Total({f \in Authorised : /\ f.key = e.key /\ f.no <= e.no
                                                  /\ f.at > e.at - Window(e.key)})
                            <= Cap(e.key)
        BY DEF BudgetHolds
    <2> DEFINE A == {f \in Authorised : /\ f.key = e.key /\ f.no <= e.no
                                        /\ f.at > e.at - Window(e.key)}
    <2>1. c \in Calls /\ pc[c] # "refused"
        BY DEF Allowed
    <2>2. Total(Counted(e)) <= Cap(e.key)
        BY <2>1 DEF IInv, Within
    <2>3. A \subseteq Counted(e)
        BY DEF Authorised, Allowed, Counted, InForce
    <2>4. IsFiniteSet(Counted(e)) /\ Priced(Counted(e))
        BY InForceFacts DEF IInv
    <2>5. Cap(e.key) \in Nat
        <3>1. Entry(e)
            BY <2>1 DEF IInv, CallType
        <3> QED
            BY <3>1, WindowPositive DEF Entry
    <2> HIDE DEF A
    <2>6. IsFiniteSet(A) /\ Priced(A)
        BY <2>3, <2>4, FS_Subset DEF Priced
    <2>7. Total(A) <= Total(Counted(e)) /\ Total(A) \in Nat /\ Total(Counted(e)) \in Nat
        BY <2>3, <2>4, <2>6, TotalMonotone, TotalType
    <2>8. Total(A) <= Cap(e.key)
        BY <2>2, <2>5, <2>7
    <2> QED
        BY <2>8 DEF A
<1> QED
    BY <1>1, Invariant, PTL

\* A debit that stands for a call which went through counts until its window has
\* passed, whoever refuses, hands back or prunes meanwhile.
THEOREM DebitsStand == Spec => []DebitStands
<1>1. IInv => DebitStands
    BY DEF IInv, Standing, DebitStands, Authorised, Allowed, InForce
<1> QED
    BY <1>1, Invariant, PTL

\* A call that a rule or an exceeded limit put to a human went through only after
\* an operator said yes to its request (gate.py, approvals.py).
THEOREM HumansDecide == Spec => []HumanInTheLoop
<1>1. IInv => HumanInTheLoop
    <2> SUFFICES ASSUME IInv PROVE HumanInTheLoop
        OBVIOUS
    <2>1. \A c \in Allowed : c \in Calls /\ pc[c] = "allowed"
        BY DEF Allowed
    <2> QED
        BY <2>1 DEF IInv, Grants, HumanInTheLoop
<1> QED
    BY <1>1, Invariant, PTL

\* On Redis no decision is ever overwritten, neither by a second operator nor by
\* the expiry of the request (approvals.py, decide()).
THEOREM DecisionsStand == Spec => FirstDecisionWins
<1> DEFINE Wins == \A id \in Requests :
               kind = "redis" /\ Decided(id) => record'[id] = record[id]
<1>1. ASSUME IInv, [Next]_gateVars PROVE [Wins]_gateVars
    <2> SUFFICES ASSUME kind = "redis", NEW id \in Requests, Decided(id)
                 PROVE  record'[id] = record[id]
        OBVIOUS
    <2>1. DOMAIN record = Requests /\ record[id] \in {"GRANTED", "DENIED"} /\ cli[id] = "none"
        BY <1>1 DEF IInv, ApprovalType, OneScript, Decided
    <2>2. ASSUME NEW other, NEW answer, Decide(other, answer) PROVE record'[id] = record[id]
        BY <2>1, <2>2 DEF Decide, Set
    <2>3. ASSUME NEW other, Create(other) PROVE record'[id] = record[id]
        BY <2>1, <2>3 DEF Create, Set
    <2>4. ASSUME NEW c \in Calls, CallStep(c) PROVE record'[id] = record[id]
        <3>1. CASE Reserved(c) \/ OverLimit(c) \/ ReserveFails(c)
            BY <3>1 DEF Reserved, OverLimit, ReserveFails, approvals
        <3>2. CASE Judge(c) \/ Release(c) \/ ReleaseFails(c)
            BY <3>2 DEF Judge, Release, ReleaseFails, approvals
        <3>3. CASE Ask(c)
            BY <2>3, <3>3 DEF Ask
        <3>4. CASE Poll(c) \/ Deadline(c) \/ GatewayFails(c)
            BY <3>4 DEF Poll, Deadline, GatewayFails, approvals
        <3>5. CASE Expire(c)
            BY <2>2, <3>5 DEF Expire, approvals
        <3>6. ~Deny(c)
            BY <1>1 DEF Deny, IInv, OneScript
        <3> QED
            BY <2>4, <3>1, <3>2, <3>3, <3>4, <3>5, <3>6 DEF CallStep
    <2>5. CASE Operator
        <3>1. PICK other \in Requests :
                  \/ \E answer \in {"GRANTED", "DENIED"} :
                         Decide(other, answer) \/ CliReads(other, answer)
                  \/ CliWrites(other)
            BY <2>5 DEF Operator
        <3>2. ~CliWrites(other) /\ \A answer : ~CliReads(other, answer)
            BY <1>1 DEF CliWrites, CliReads, IInv, OneScript
        <3> QED
            BY <2>2, <3>1, <3>2
    <2>6. CASE \E c \in Calls, t \in Tools, a \in Amounts : Evaluate(c, t, a)
        BY <2>6 DEF Evaluate, approvals
    <2> QED
        BY <1>1, <2>4, <2>5, <2>6 DEF Next, gateVars, approvals
<1>2. IInv /\ [Next]_gateVars => [Wins]_gateVars
    BY <1>1
<1> QED
    BY Invariant, <1>2, PTL DEF Spec, FirstDecisionWins, Wins
=============================================================================
