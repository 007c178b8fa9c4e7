---------------------------- MODULE SemanticLock ----------------------------
(***************************************************************************)
(* The semantic locks of agent_saga/locks.py, from the saga's first claim  *)
(* to the finish() of context.py that lets go, or the end of its process:  *)
(* SemanticLockManager (one dict per process) and RedisSemanticLocks (a key*)
(* with a TTL, renewed by a heartbeat of the holder's node).  Times are    *)
(* countdowns, so the clock needs no bound.                                *)
(***************************************************************************)
EXTENDS Integers

CONSTANTS
    Sagas, Nodes, Resources,
    Homes,       \* the ways sagas may be placed: functions from Sagas to Nodes
    Managers,    \* subset of {"process", "redis"}
    Reach,       \* bound: the resources that the sagas claim from each manager
    NoSaga,
    Ttl,         \* ticks a claim lasts unrenewed
    Patience,    \* ticks acquire() waits: its timeout
    MaxFaults    \* bound: Redis calls that raise

Half == Ttl \div 2

ASSUME LockAssumption ==
    /\ Managers \subseteq {"process", "redis"} /\ NoSaga \notin Sagas
    /\ Homes \subseteq [Sagas -> Nodes]
    /\ Reach \in [{"process", "redis"} -> SUBSET Resources] /\ Resources # {}
    /\ Ttl \in Nat \ {0, 1} /\ {Patience, MaxFaults} \subseteq Nat

VARIABLES
    manager,   \* get_semantic_locks()
    home,      \* the node of a saga
    owner,     \* _owners, or the value of the Redis key
    left,      \* _expirations, or the TTL of the key, as what is left of it
    held,      \* _held of each node: what its release_all() will find
    beat,      \* _heartbeats of each node: who renews, and when next
    claims,    \* ctx._semantic_locks
    pc,        \* where the saga's coroutine stands
    want,      \* the resource of the call it is in
    patience,  \* what is left of the call's timeout
    todo,      \* claims that release_all() has yet to release
    cut,       \* history: claims whose renewal was cut short or restarted
    closed,    \* nodes whose FastAPI lifespan has ended
    faults

claim == <<owner, left, held, beat>>
run == <<claims, pc, want, patience, todo>>
vars == <<manager, home, claim, run, cut, closed, faults>>

Forever == -1
NoBeat == [saga |-> NoSaga, due |-> 0]
Live == {"run", "wait", "probing", "releasing", "freed"}

TypeOK ==
    /\ manager \in Managers /\ home \in [Sagas -> Nodes]
    /\ owner \in [Resources -> Sagas \union {NoSaga}]
    /\ left \in [Resources -> Forever..Ttl]
    /\ held \in [Nodes -> [Resources -> Sagas \union {NoSaga}]]
    /\ beat \in [Nodes -> [Resources -> [saga : Sagas \union {NoSaga}, due : 0..Half]]]
    /\ claims \in [Sagas -> SUBSET Resources] /\ todo \in [Sagas -> SUBSET Resources]
    /\ pc \in [Sagas -> Live \union {"done", "escaped", "dead"}]
    /\ want \in [Sagas -> Resources] /\ patience \in [Sagas -> 0..Patience]
    /\ cut \subseteq Sagas \X Resources /\ closed \subseteq Nodes
    /\ faults \in 0..MaxFaults

\* The in-process manager is one per process: it serves sagas of one node.
Init ==
    /\ manager \in Managers
    /\ home \in Homes
    /\ manager = "process" => \A s, t \in Sagas : home[s] = home[t]
    /\ owner = [r \in Resources |-> NoSaga] /\ left = [r \in Resources |-> Forever]
    /\ held = [n \in Nodes |-> [r \in Resources |-> NoSaga]]
    /\ beat = [n \in Nodes |-> [r \in Resources |-> NoBeat]]
    /\ claims = [s \in Sagas |-> {}] /\ todo = [s \in Sagas |-> {}]
    /\ pc = [s \in Sagas |-> "run"] /\ patience = [s \in Sagas |-> 0]
    /\ want \in [Sagas -> {CHOOSE r \in Resources : TRUE}]
    /\ cut = {} /\ closed = {} /\ faults = 0

Goes(s, at) == pc' = [pc EXCEPT ![s] = at]

Fault == faults < MaxFaults /\ faults' = faults + 1

\* _start_heartbeat(): the old task is cancelled, the new one sleeps first.
Start(s, r) == [beat EXCEPT ![home[s]][r] = [saga |-> s, due |-> Half]]

-----------------------------------------------------------------------------
(* In process: every call of the manager is one step under its mutex.       *)

Swept(r) == left[r] = 0

OwnerNow(r) == IF Swept(r) THEN NoSaga ELSE owner[r]

Free(s, r) == OwnerNow(r) \in {NoSaga, s}

\* try_acquire(), granted; acquire() with a ttl starts the heartbeat too.
Granted(s, r, timed) ==
    /\ Free(s, r)
    /\ owner' = [owner EXCEPT ![r] = s]
    /\ left' = [left EXCEPT ![r] = IF timed THEN Ttl ELSE IF Swept(r) THEN Forever ELSE @]
    /\ beat' = IF timed THEN Start(s, r)
               ELSE IF Swept(r) THEN [beat EXCEPT ![home[s]][r] = NoBeat] ELSE beat
    /\ claims' = [claims EXCEPT ![s] = @ \union {r}]
    /\ cut' = cut \ {<<s, r>>}
    /\ Goes(s, "run") /\ want' = [want EXCEPT ![s] = r]
    /\ UNCHANGED <<manager, home, held, patience, todo, closed, faults>>

\* acquire(): the first try.
TakeLocal(s, r, timed) ==
    manager = "process" /\ r \in Reach[manager] /\ pc[s] = "run" /\ Granted(s, r, timed)

\* register_tentative(lock=True): a refusal raises, as does a distributed manager.
TakeTentative(s, r) == TakeLocal(s, r, FALSE)

WaitLocal(s, r) ==
    /\ manager = "process" /\ r \in Reach[manager] /\ pc[s] = "run" /\ ~Free(s, r)
    /\ Goes(s, "wait")
    /\ want' = [want EXCEPT ![s] = r] /\ patience' = [patience EXCEPT ![s] = Patience]
    /\ UNCHANGED <<manager, home, claim, claims, todo, cut, closed, faults>>

PollLocal(s, timed) == manager = "process" /\ pc[s] = "wait" /\ Granted(s, want[s], timed)

\* LockAcquisitionTimeoutError: the agent's code may catch it and go on.
TimesOut(s) ==
    /\ manager = "process" /\ pc[s] = "wait" /\ patience[s] = 0
    /\ Goes(s, "run")
    /\ UNCHANGED <<manager, home, claim, claims, want, patience, todo, cut, closed, faults>>

\* owner() and held() sweep what has expired.
Look(r) ==
    /\ manager = "process" /\ Swept(r)
    /\ owner' = [owner EXCEPT ![r] = NoSaga] /\ left' = [left EXCEPT ![r] = Forever]
    /\ beat' = [n \in Nodes |-> [beat[n] EXCEPT ![r] = NoBeat]]
    /\ UNCHANGED <<manager, home, held, run, cut, closed, faults>>

-----------------------------------------------------------------------------
(* On Redis: SET NX PX, and when that fails GET, each a round trip.         *)

Records(s, r) ==
    /\ held' = [held EXCEPT ![home[s]][r] = s]
    /\ beat' = Start(s, r)
    /\ claims' = [claims EXCEPT ![s] = @ \union {r}]
    /\ Goes(s, "run")

Asks(s, r) ==
    /\ manager = "redis" /\ r \in Reach[manager] /\ want' = [want EXCEPT ![s] = r]
    /\ \/ /\ pc[s] = "run" /\ patience' = [patience EXCEPT ![s] = Patience]
       \/ /\ pc[s] = "wait" /\ r = want[s] /\ UNCHANGED patience

\* Mutant: the key is set without an expiry.
SetsKeyForever(s, r) ==
    /\ owner[r] = NoSaga
    /\ owner' = [owner EXCEPT ![r] = s] /\ left' = [left EXCEPT ![r] = Forever]

SetsKey(s, r) ==
    /\ owner[r] = NoSaga
    /\ owner' = [owner EXCEPT ![r] = s] /\ left' = [left EXCEPT ![r] = Ttl]

TakeRedis(s, r) ==
    /\ Asks(s, r) /\ SetsKey(s, r) /\ Records(s, r)
    /\ cut' = cut \ {<<s, r>>}
    /\ UNCHANGED <<manager, home, todo, closed, faults>>

NotSet(s, r) ==
    /\ Asks(s, r) /\ owner[r] # NoSaga /\ Goes(s, "probing")
    /\ UNCHANGED <<manager, home, claim, claims, todo, cut, closed, faults>>

\* GET finds the saga itself: re-entrant.  The TTL is not extended, and the
\* heartbeat starts over.
Reenters(s) ==
    /\ pc[s] = "probing" /\ owner[want[s]] = s /\ Records(s, want[s])
    /\ cut' = cut \union {<<s, want[s]>>}
    /\ UNCHANGED <<manager, home, owner, left, want, patience, todo, closed, faults>>

GivesUp(s) == IF patience[s] = 0 THEN "run" ELSE "wait"

SleepsOrRaises(s) ==
    /\ pc[s] = "probing" /\ owner[want[s]] # s
    /\ Goes(s, GivesUp(s))
    /\ UNCHANGED <<manager, home, claim, claims, want, patience, todo, cut, closed, faults>>

\* A call raises into the saga, before or after the server carried it out.
AcquireFails(s, r) ==
    /\ Fault /\ Goes(s, "run")
    /\ \/ pc[s] = "probing" /\ r = want[s] /\ UNCHANGED <<owner, left, want, patience>>
       \/ Asks(s, r) /\ UNCHANGED <<owner, left>>
       \/ Asks(s, r) /\ SetsKey(s, r)
    /\ UNCHANGED <<manager, home, held, beat, claims, todo, cut, closed>>

\* renew(), or its script at the server: only the claim of the saga itself.
Renewable(b, r) == owner[r] = b.saga

\* One turn of _heartbeat_loop().
Heartbeat(n, r) ==
    LET b == beat[n][r] IN
    /\ b # NoBeat /\ b.due = 0
    /\ IF Renewable(b, r)
       THEN /\ left' = [left EXCEPT ![r] = Ttl]
            /\ beat' = [beat EXCEPT ![n][r].due = Half]
            /\ cut' = cut \ {<<b.saga, r>>}
       ELSE beat' = [beat EXCEPT ![n][r] = NoBeat] /\ UNCHANGED <<left, cut>>
    /\ UNCHANGED <<manager, home, owner, held, run, closed, faults>>

\* "except Exception: pass": the heartbeat ends and nobody is told.
HeartbeatFails(n, r) ==
    /\ manager = "redis" /\ beat[n][r] # NoBeat /\ beat[n][r].due = 0 /\ Fault
    /\ beat' = [beat EXCEPT ![n][r] = NoBeat]
    /\ cut' = cut \union {<<beat[n][r].saga, r>>}
    /\ UNCHANGED <<manager, home, owner, left, held, run, closed>>

-----------------------------------------------------------------------------
(* finish(), and the ways around it.                                        *)

\* _release_semantic_locks(), in process; or nothing to release.
FinishLocal(s) ==
    LET mine == {r \in Resources : owner[r] = s} IN
    /\ pc[s] = "run" /\ (manager = "process" \/ claims[s] = {})
    /\ IF claims[s] = {} THEN UNCHANGED claim
       ELSE /\ owner' = [r \in Resources |-> IF r \in mine THEN NoSaga ELSE owner[r]]
            /\ left' = [r \in Resources |-> IF r \in mine THEN Forever ELSE left[r]]
            /\ beat' = [beat EXCEPT ![home[s]] =
                           [r \in Resources |-> IF r \in mine THEN NoBeat ELSE @[r]]]
            /\ UNCHANGED held
    /\ claims' = [claims EXCEPT ![s] = {}] /\ cut' = {c \in cut : c[1] # s}
    /\ Goes(s, "done")
    /\ UNCHANGED <<manager, home, want, patience, todo, closed, faults>>

\* release_all() on Redis goes by what this node remembers of the saga.
FinishRedis(s) ==
    /\ manager = "redis" /\ pc[s] = "run" /\ claims[s] # {}
    /\ todo' = [todo EXCEPT ![s] = {r \in Resources : held[home[s]][r] = s}]
    /\ Goes(s, "releasing")
    /\ UNCHANGED <<manager, home, claim, claims, want, patience, cut, closed, faults>>

\* Mutant: a bare DEL.
MayDeleteAny(s, r) == TRUE

MayDelete(s, r) == owner[r] = s

\* The compare-and-delete script, at the server.
Deletes(s, r) ==
    IF MayDelete(s, r)
    THEN owner' = [owner EXCEPT ![r] = NoSaga] /\ left' = [left EXCEPT ![r] = Forever]
    ELSE UNCHANGED <<owner, left>>

ReleaseCall(s, r) ==
    /\ pc[s] = "releasing" /\ r \in todo[s] /\ Deletes(s, r)
    /\ want' = [want EXCEPT ![s] = r] /\ Goes(s, "freed")
    /\ UNCHANGED <<manager, home, held, beat, claims, patience, todo, cut, closed, faults>>

\* Its answer arrives: the node's entry and heartbeat go, whoever they serve by now.
ReleaseAnswered(s) ==
    LET n == home[s]
        r == want[s]
        heir == beat[n][r].saga IN
    /\ pc[s] = "freed"
    /\ held' = [held EXCEPT ![n][r] = NoSaga] /\ beat' = [beat EXCEPT ![n][r] = NoBeat]
    /\ cut' = IF heir \in Sagas \ {s} THEN cut \union {<<heir, r>>} ELSE cut
    /\ todo' = [todo EXCEPT ![s] = @ \ {r}]
    /\ Goes(s, "releasing")
    /\ UNCHANGED <<manager, home, owner, left, claims, want, patience, closed, faults>>

Released(s) ==
    /\ pc[s] = "releasing" /\ todo[s] = {}
    /\ claims' = [claims EXCEPT ![s] = {}] /\ cut' = {c \in cut : c[1] # s}
    /\ Goes(s, "done")
    /\ UNCHANGED <<manager, home, claim, want, patience, todo, closed, faults>>

\* Redis raises into finish(): the rest is not released, nor is the saga ended.
ReleaseFails(s, r) ==
    /\ pc[s] = "releasing" /\ r \in todo[s] /\ Fault
    /\ Deletes(s, r) \/ UNCHANGED <<owner, left>>
    /\ Goes(s, "escaped")
    /\ UNCHANGED <<manager, home, held, beat, claims, want, patience, todo, cut, closed>>

\* The log raises on the way to _release_semantic_locks().
Escapes(s) ==
    /\ pc[s] = "run" /\ Goes(s, "escaped")
    /\ UNCHANGED <<manager, home, claim, claims, want, patience, todo, cut, closed, faults>>

\* A process dies: Redis keeps its keys, a dict is gone.
Crash(n) ==
    LET here == {s \in Sagas : home[s] = n}
        lost == {r \in Resources : manager = "process" /\ owner[r] \in here} IN
    /\ \E s \in here : pc[s] \notin {"done", "dead"}
    /\ pc' = [s \in Sagas |-> IF s \in here THEN "dead" ELSE pc[s]]
    /\ held' = [held EXCEPT ![n] = [r \in Resources |-> NoSaga]]
    /\ beat' = [beat EXCEPT ![n] = [r \in Resources |-> NoBeat]]
    /\ owner' = [r \in Resources |-> IF r \in lost THEN NoSaga ELSE owner[r]]
    /\ left' = IF manager = "process" THEN [r \in Resources |-> Forever] ELSE left
    /\ claims' = [s \in Sagas |-> IF s \in here THEN {} ELSE claims[s]]
    /\ todo' = [s \in Sagas |-> IF s \in here THEN {} ELSE todo[s]]
    /\ patience' = [s \in Sagas |-> IF s \in here THEN 0 ELSE patience[s]]
    /\ cut' = {c \in cut : c[1] \notin here}
    /\ UNCHANGED <<manager, home, want, closed, faults>>

\* The end of the FastAPI lifespan, which waits 10 s at most for the active sagas:
\* the owners are cleared, or the heartbeats of the node cancelled.
Shutdown(n) ==
    /\ n \notin closed /\ closed' = closed \union {n}
    /\ \E s \in Sagas : home[s] = n /\ pc[s] \notin {"done", "dead"}
    /\ IF manager = "process"
       THEN owner' = [r \in Resources |-> NoSaga] /\ UNCHANGED beat
       ELSE beat' = [beat EXCEPT ![n] = [r \in Resources |-> NoBeat]] /\ UNCHANGED owner
    /\ UNCHANGED <<manager, home, left, held, run, cut, faults>>

\* A tick.  Heartbeats are in time: a tick waits for those that are due.
Tick ==
    LET less(k) == IF k > 0 THEN k - 1 ELSE k
        gone == {r \in Resources : manager = "redis" /\ left[r] = 1} IN
    /\ \A n \in Nodes, r \in Resources : beat[n][r] # NoBeat => beat[n][r].due > 0
    /\ owner' = [r \in Resources |-> IF r \in gone THEN NoSaga ELSE owner[r]]
    /\ left' = [r \in Resources |-> IF r \in gone THEN Forever ELSE less(left[r])]
    /\ beat' = [n \in Nodes |-> [r \in Resources |-> [beat[n][r] EXCEPT !.due = less(@)]]]
    /\ patience' = [s \in Sagas |-> less(patience[s])]
    /\ UNCHANGED <<manager, home, held, claims, pc, want, todo, cut, closed, faults>>

-----------------------------------------------------------------------------
SagaStep(s) ==
    \/ \E r \in Resources : TakeTentative(s, r) \/ WaitLocal(s, r)
    \/ \E r \in Resources, timed \in BOOLEAN : TakeLocal(s, r, timed)
    \/ \E r \in Resources : pc[s] = "run" /\ (TakeRedis(s, r) \/ NotSet(s, r))
    \/ \E r \in Resources : AcquireFails(s, r) \/ ReleaseFails(s, r)
    \/ FinishLocal(s) \/ FinishRedis(s) \/ Escapes(s)

\* What the event loop carries on by itself once the saga has called.
CallStep(s) ==
    \/ \E timed \in BOOLEAN : PollLocal(s, timed)
    \/ TimesOut(s) \/ Reenters(s) \/ SleepsOrRaises(s)
    \/ pc[s] = "wait" /\ (TakeRedis(s, want[s]) \/ NotSet(s, want[s]))
    \/ \E r \in Resources : ReleaseCall(s, r)
    \/ ReleaseAnswered(s) \/ Released(s)

Next ==
    \/ \E s \in Sagas : SagaStep(s) \/ CallStep(s)
    \/ \E n \in Nodes : Crash(n) \/ Shutdown(n)
    \/ \E n \in Nodes, r \in Resources : Heartbeat(n, r) \/ HeartbeatFails(n, r)
    \/ \E r \in Resources : Look(r)
    \/ Tick

\* Time passes, heartbeats run, and the loop goes on with a call it is in.
Fairness ==
    /\ WF_vars(Tick)
    /\ \A s \in Sagas : WF_vars(CallStep(s))
    /\ WF_vars(\E n \in Nodes, r \in Resources : Heartbeat(n, r))

Spec == Init /\ [][Next]_vars /\ Fairness

-----------------------------------------------------------------------------
\* A saga that is alive still owns what it was granted, unless its renewal was
\* cut: Redis failed under the heartbeat, the claim was re-entered since the last
\* renewal, another saga's release stopped it, or the lifespan ended (locks.py:294).
KeptUnlessCut ==
    \A s \in Sagas : pc[s] \in Live \ {"releasing", "freed"} /\ home[s] \notin closed =>
        \A r \in claims[s] : owner[r] = s \/ <<s, r>> \in cut

\* Once a saga has finished, or its process has died, its claims end, whatever
\* became of Redis, of its node's memory and of its heartbeats (locks.py:242, 288).
ClaimsEnd ==
    \A s \in Sagas : pc[s] \in {"done", "dead"} ~> \A r \in Resources : owner[r] # s

\* acquire() returns or raises, also when two sagas wait for each other
\* (locks.py:172, decorator.py:72).
WaitsEnd ==
    \A s \in Sagas : pc[s] \in {"wait", "probing"} ~> pc[s] \notin {"wait", "probing"}

\* RENEWAL "extends the TTL while the saga is alive, so a long-running agent does
\* not lose a lock mid-transaction" (locks.py:294-296).
LiveHolderKeeps ==
    \A s \in Sagas : pc[s] \in {"run", "wait", "probing"} /\ home[s] \notin closed =>
        \A r \in claims[s] : owner[r] = s
=============================================================================
