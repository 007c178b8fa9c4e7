-------------------------------- MODULE Gate --------------------------------
(***************************************************************************)
(* The pre-flight gate (agent_saga/gate.py) of one saga, with the limiter  *)
(* and the approval gateway behind it.  A call is debited, judged by the   *)
(* rules, perhaps put to a human, and let through or refused; a refusal    *)
(* hands the debit back.  Calls of one saga run concurrently, and each     *)
(* store call and each await is a point where they interleave.             *)
(*                                                                         *)
(* request_id() hashes saga, step, tool and rule, but no step exists when  *)
(* the gate asks: execute() creates it afterwards, and the step is always  *)
(* "unknown".  What is left to tell requests apart is the tool and the rule*)
(***************************************************************************)
EXTENDS LimitStore, Approvals

CONSTANTS
    Calls,        \* the saga's calls of execute()
    Verdict,      \* per tool, what the first matching rule says
    Amounts,      \* the amounts an agent may pass
    MaxFaults     \* bound: failing store calls

Tools == DOMAIN Verdict

ASSUME GateAssumption ==
    /\ Verdict \in [Tools -> {"ALLOW", "BLOCK", "REQUIRE_APPROVAL"}]
    /\ Amounts \subseteq Int
    /\ MaxFaults \in Nat
    /\ Requests = Tools \X (0..Len(Limits))

VARIABLES
    pc,        \* where each call's evaluate() stands
    tool, amount,
    rule,      \* what a human is asked about: a limit's index, or 0 for a rule
    held,      \* `reservation`; after ALLOW the history of what was debited
    approved,  \* limits a human has lifted for this call
    leaked,    \* history: debits a failing Redis left without an owner
    faults

callVars == <<pc, tool, amount, rule, held, approved>>
gateVars == <<store, approvals, callVars, leaked, faults>>

Init ==
    /\ StoreInit /\ ApprovalsInit
    /\ pc = [c \in Calls |-> "idle"]
    /\ tool = [c \in Calls |-> CHOOSE t \in Tools : TRUE]
    /\ amount = [c \in Calls |-> 0]
    /\ rule = [c \in Calls |-> 0]
    /\ held = [c \in Calls |-> {}] /\ approved = [c \in Calls |-> {}]
    /\ leaked = {} /\ faults = 0

Goto(c, place) == pc' = [pc EXCEPT ![c] = place]

Fault == faults < MaxFaults /\ faults' = faults + 1

-----------------------------------------------------------------------------
(* plan() and _reserve()                                                    *)

Policing(t) == {i \in DOMAIN Limits : t \in Limits[i].tools}

Request(c, i) ==
    [key |-> <<i, IF Limits[i].byTool THEN tool[c] ELSE "*">>,
     amount |-> IF Limits[i].kind = "rate" THEN 2 ELSE amount[c],
     capped |-> i \notin approved[c]]

Planned(c) == {Request(c, i) : i \in Policing(tool[c])}

\* A negative amount cannot be priced: LimitMisconfigured, and a BLOCK.
Evaluate(c, t, a) ==
    /\ pc[c] = "idle"
    /\ tool' = [tool EXCEPT ![c] = t] /\ amount' = [amount EXCEPT ![c] = a]
    /\ Goto(c, IF a < 0 /\ \E i \in Policing(t) : Limits[i].kind = "budget" THEN "refused"
               ELSE IF Policing(t) = {} THEN "rules" ELSE "reserving")
    /\ UNCHANGED <<store, approvals, rule, held, approved, leaked, faults>>

Reserved(c) ==
    /\ pc[c] = "reserving"
    /\ Debit(Planned(c))
    /\ held' = [held EXCEPT ![c] = Entries(Planned(c))]
    /\ Goto(c, "rules")
    /\ UNCHANGED <<approvals, tool, amount, rule, approved, leaked, faults>>

\* One limit is exceeded: refused, or put to a human when the limit says so.
OverLimit(c) ==
    /\ pc[c] = "reserving"
    /\ \E r \in Planned(c) :
        /\ Exceeded(Planned(c), r)
        /\ rule' = [rule EXCEPT ![c] = r.key[1]]
        /\ Goto(c, IF Limits[r.key[1]].escalate THEN "asking" ELSE "refused")
    /\ UNCHANGED <<approvals, tool, amount, held, approved, leaked, faults>>

\* Redis does not answer, or the call is cancelled while it waits: refused, and
\* whatever the script debited stays.
ReserveFails(c) ==
    /\ pc[c] = "reserving" /\ backend = "redis" /\ Fault
    /\ \/ Debit(Planned(c)) /\ leaked' = leaked \union Entries(Planned(c))
       \/ UNCHANGED <<store, leaked>>
    /\ Goto(c, "refused")
    /\ UNCHANGED <<approvals, tool, amount, rule, held, approved>>

-----------------------------------------------------------------------------
(* _evaluate_rules()                                                        *)

Judge(c) ==
    /\ pc[c] = "rules"
    /\ rule' = [rule EXCEPT ![c] = 0]
    /\ Goto(c, CASE Verdict[tool[c]] = "ALLOW" -> "allowed"
                 [] Verdict[tool[c]] = "BLOCK" -> "releasing"
                 [] OTHER                      -> "asking")
    /\ UNCHANGED <<store, approvals, tool, amount, held, approved, leaked, faults>>

\* What evaluate() makes of the approval provider's answer, or of an exception
\* out of it: for a limit nothing is debited yet.
Answer(c, granted) ==
    /\ approved' = IF granted THEN [approved EXCEPT ![c] = @ \union {rule[c]}] ELSE approved
    /\ Goto(c, IF rule[c] = 0 THEN (IF granted THEN "allowed" ELSE "releasing")
               ELSE IF granted THEN "reserving" ELSE "refused")

Release(c) ==
    /\ pc[c] = "releasing"
    /\ HandBack(held[c])
    /\ Goto(c, "refused")
    /\ UNCHANGED <<approvals, tool, amount, rule, held, approved, leaked, faults>>

\* Logged, not raised: the window is over-counted.
ReleaseFails(c) ==
    /\ pc[c] = "releasing" /\ backend = "redis" /\ Fault
    /\ leaked' = leaked \union held[c]
    /\ Goto(c, "refused")
    /\ UNCHANGED <<store, approvals, tool, amount, rule, held, approved>>

-----------------------------------------------------------------------------
(* ApprovalGateway                                                          *)

Id(c) == <<tool[c], rule[c]>>

asideVars == <<store, tool, amount, rule, held, leaked>>

\* Mutant: any decision found in the store lets the call through.
AskDecided(c) ==
    /\ pc[c] = "asking"
    /\ Create(Id(c))
    /\ \/ Decided(Id(c)) /\ Answer(c, TRUE)
       \/ ~Decided(Id(c)) /\ Goto(c, "waiting") /\ UNCHANGED approved
       \/ record[Id(c)] = "PENDING" /\ Goto(c, "expiring") /\ UNCHANGED approved
    /\ UNCHANGED <<asideVars, faults>>

\* A request already decided is not asked again; one another call has opened
\* is joined, with the deadline it was opened with.
Ask(c) ==
    /\ pc[c] = "asking"
    /\ Create(Id(c))
    /\ \/ Decided(Id(c)) /\ Answer(c, record[Id(c)] = "GRANTED")
       \/ ~Decided(Id(c)) /\ Goto(c, "waiting") /\ UNCHANGED approved
       \/ record[Id(c)] = "PENDING" /\ Goto(c, "expiring") /\ UNCHANGED approved
    /\ UNCHANGED <<asideVars, faults>>

Poll(c) ==
    /\ pc[c] = "waiting" /\ Decided(Id(c))
    /\ Answer(c, record[Id(c)] = "GRANTED")
    /\ UNCHANGED <<asideVars, approvals, faults>>

\* Mutant: a deadline that passes is followed by another poll.
DeadlineIgnored(c) ==
    /\ pc[c] = "waiting" /\ ~Decided(Id(c))
    /\ UNCHANGED gateVars

\* The last poll found no decision and the deadline has passed.
Deadline(c) ==
    /\ pc[c] = "waiting" /\ ~Decided(Id(c))
    /\ Goto(c, "expiring")
    /\ UNCHANGED <<asideVars, approvals, approved, faults>>

\* Expiry denies, whatever decide() finds; on files it writes in a second step.
Expire(c) ==
    /\ pc[c] = "expiring"
    /\ \/ kind = "file" /\ ~Decided(Id(c)) /\ Goto(c, "denying")
          /\ UNCHANGED <<approvals, approved>>
       \/ kind = "redis" /\ Decide(Id(c), "DENIED") /\ Answer(c, FALSE)
       \/ Decided(Id(c)) /\ Answer(c, FALSE) /\ UNCHANGED approvals
    /\ UNCHANGED <<asideVars, faults>>

Deny(c) ==
    /\ pc[c] = "denying"
    /\ Set(Id(c), "DENIED") /\ UNCHANGED <<kind, cli, yes>>
    /\ Answer(c, FALSE)
    /\ UNCHANGED <<asideVars, faults>>

\* The store raises, or the waiting call is cancelled: denied.
GatewayFails(c) ==
    /\ pc[c] \in {"asking", "waiting", "expiring"} /\ Fault
    /\ Answer(c, FALSE)
    /\ UNCHANGED <<asideVars, approvals>>

-----------------------------------------------------------------------------
CallStep(c) ==
    \/ Reserved(c) \/ OverLimit(c) \/ ReserveFails(c)
    \/ Judge(c) \/ Release(c) \/ ReleaseFails(c)
    \/ Ask(c) \/ Poll(c) \/ Deadline(c) \/ Expire(c) \/ Deny(c) \/ GatewayFails(c)

Watch == \E e \in meter : Observe(e.key)

Next ==
    \/ \E c \in Calls, t \in Tools, a \in Amounts : Evaluate(c, t, a)
    \/ \E c \in Calls : CallStep(c)
    \/ Operator /\ UNCHANGED <<store, callVars, leaked, faults>>
    \/ Watch /\ UNCHANGED <<approvals, callVars, leaked, faults>>
    \/ Tick /\ UNCHANGED <<approvals, callVars, leaked, faults>>

\* The event loop runs a call that is being evaluated; its poll loop has a deadline.
Spec == Init /\ [][Next]_gateVars /\ \A c \in Calls : WF_gateVars(CallStep(c))

-----------------------------------------------------------------------------
(* Properties                                                               *)

Places == {"idle", "reserving", "rules", "asking", "waiting", "expiring", "denying",
           "releasing", "allowed", "refused"}

TypeOK ==
    /\ pc \in [Calls -> Places]
    /\ \A e \in meter : e.amount \in Nat /\ e.at \in 0..now /\ e.no \in 1..counter
    /\ record \in [Requests -> {"none", "PENDING", "GRANTED", "DENIED"}]
    /\ cli \in [Requests -> {"none", "GRANTED", "DENIED"}]
    /\ \A c \in Calls : pc[c] \in {"reserving", "asking"} /\ rule[c] # 0 => held[c] = {}
    /\ kind = "redis" => \A id \in Requests : cli[id] = "none" /\ yes[id] <= 1

Allowed == {c \in Calls : pc[c] = "allowed"}
Authorised == UNION {held[c] : c \in Allowed}

\* The cap means what it says, however calls, refusals and waiting humans
\* interleave: whenever a call went through without a human lifting a limit, what
\* had been let through in the window that ends with it is within that limit.
BudgetHolds ==
    \A c \in Allowed : \A e \in held[c] :
        e.key[1] \notin approved[c] =>
            Total({f \in Authorised : /\ f.key = e.key /\ f.no <= e.no
                                      /\ f.at > e.at - Window(e.key)}) <= Cap(e.key)

\* "Gross authorized outflow": the debit of a call that went through counts
\* until its window has passed, whoever refuses, hands back or prunes meanwhile.
DebitStands ==
    \A e \in Authorised : e.at > now - Window(e.key) => e \in meter

\* Debits whose call has been refused and that no failure of Redis explains.
Unowned == meter \ (leaked \union UNION {held[c] : c \in {d \in Calls : pc[d] # "refused"}})

\* "A refusal hands the budget back", whatever the store.
RefusalHandsBack == Unowned = {}

\* The same of what release() can find: in process every debit of a refused call
\* is handed back, whoever was asked or cancelled in between; on Redis every
\* debit of a fraction.
OvercountIsWhole == Unowned \intersect Found(Unowned) = {}

\* What needs a human has one: a grant by an operator stands behind every call
\* that a rule or an exceeded limit put to a human; expiry, errors and retries
\* give none.
HumanInTheLoop ==
    \A c \in Allowed :
        \A r \in approved[c] \union (IF Verdict[tool[c]] = "REQUIRE_APPROVAL" THEN {0} ELSE {}) :
            yes[<<tool[c], r>>] > 0

\* "First decision wins; a second is ignored": on Redis, where expiry and the
\* operator race in one script.
FirstDecisionWins ==
    [][\A id \in Requests : kind = "redis" /\ Decided(id) => record'[id] = record[id]]_gateVars

\* No evaluation hangs or spins: every prompt has a deadline, and a lifted limit
\* is not exceeded again.
EvaluationEnds == \A c \in Calls : pc[c] # "idle" ~> pc[c] \in {"allowed", "refused"}

\* A human's yes is a yes to one call: "a retried step must find its existing
\* decision", and another step must not.
OneYesOneCall ==
    \A t \in Tools :
        Verdict[t] = "REQUIRE_APPROVAL" =>
            Cardinality({c \in Allowed : tool[c] = t}) <= yes[<<t, 0>>]
=============================================================================
