----------------------------- MODULE LimitStore -----------------------------
(***************************************************************************)
(* The sliding-window limiter of agent_saga/limits.py.  InProcessLimitStore*)
(* holds a mutex and RedisLimitStore runs one Lua script, so a store call  *)
(* is one step: every request of a call is checked before any is debited.  *)
(* A limit draws from the bucket <<index of the limit, scope of the call>>.*)
(* Amounts are in halves: 2 is the number 1, and 1 is the fraction 0.5.    *)
(***************************************************************************)
EXTENDS Integers, Sequences, FiniteSetsExt

CONSTANTS
    Limits,      \* the gate's limits, in order
    LimitStores, \* subset of {"process", "redis"}
    MaxTime      \* bound: how far the clock runs

ASSUME LimitAssumption ==
    /\ Limits \in Seq({Limits[i] : i \in DOMAIN Limits})
    /\ \A i \in DOMAIN Limits :
        /\ Limits[i].cap \in Nat \ {0} /\ Limits[i].window \in Nat \ {0}
        /\ {Limits[i].escalate, Limits[i].byTool} \subseteq BOOLEAN
        /\ Limits[i].kind \in {"budget", "rate"}
    /\ LimitStores \subseteq {"process", "redis"} /\ MaxTime \in Nat

VARIABLES
    backend,   \* get_limit_store()
    meter,     \* self._log: the debits, [key, at, amount, no]
    counter,   \* self._counter: numbers the reservations
    now        \* time.time()

store == <<backend, meter, counter, now>>

StoreInit == backend \in LimitStores /\ meter = {} /\ counter = 0 /\ now = 0

Cap(key) == Limits[key[1]].cap
Window(key) == Limits[key[1]].window

Total(entries) == MapThenSumSet(LAMBDA e : e.amount, entries)

Stale(key, window) == {e \in meter : e.key = key /\ e.at <= now - window}

Used(key) == Total({e \in meter : e.key = key /\ e.at > now - Window(key)})

\* Mutant: the amount asked for is left out of the comparison.
ExceedsAfterwards(r) == r.capped /\ Used(r.key) > Cap(r.key)

\* An authorised overage is asked for with an infinite cap.
Exceeds(r) == r.capped /\ Used(r.key) + r.amount > Cap(r.key)

Pruned(reqs) == UNION {Stale(r.key, Window(r.key)) : r \in reqs}

Entries(reqs) ==
    {[key |-> r.key, at |-> now, amount |-> r.amount, no |-> counter + 1] : r \in reqs}

\* reserve(), when all the requests fit.
Debit(reqs) ==
    /\ ~\E r \in reqs : Exceeds(r)
    /\ meter' = (meter \ Pruned(reqs)) \union Entries(reqs)
    /\ counter' = counter + 1
    /\ UNCHANGED <<backend, now>>

\* reserve(), when `r` is the first that does not: nothing is debited.
Exceeded(reqs, r) ==
    LET earlier == {q \in reqs : q.key[1] < r.key[1]} IN
    /\ r \in reqs /\ Exceeds(r) /\ ~\E q \in earlier : Exceeds(q)
    /\ meter' = meter \ Pruned(earlier \union {r})
    /\ UNCHANGED <<backend, counter, now>>

\* The members that ZREM finds.  The script stored Lua's rendering of the amount
\* ("50|..."), and the reservation holds Python's ("50.0|..."): they agree on
\* fractions only.
Found(entries) ==
    IF backend = "process" THEN entries ELSE {e \in entries : e.amount % 2 = 1}

\* release()
HandBack(entries) == meter' = meter \ Found(entries) /\ UNCHANGED <<backend, counter, now>>

\* usage(), read by whoever watches a limit over that limit's window.
Observe(key) == meter' = meter \ Stale(key, Window(key)) /\ UNCHANGED <<backend, counter, now>>

Tick == now < MaxTime /\ now' = now + 1 /\ UNCHANGED <<backend, meter, counter>>
=============================================================================
