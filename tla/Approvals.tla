------------------------------ MODULE Approvals ------------------------------
(***************************************************************************)
(* The queue of human approvals (agent_saga/approvals.py): the store, and  *)
(* the operator who answers from another process (`agent-saga approvals`   *)
(* in agent_saga/cli.py).  The file store reads, checks and replaces a     *)
(* file in separate steps; the Redis store decides in one script.          *)
(***************************************************************************)
EXTENDS Integers

CONSTANTS
    Requests,        \* what request_id() tells apart, within one saga
    ApprovalStores   \* subset of {"file", "redis"}

ASSUME ApprovalAssumption == ApprovalStores \subseteq {"file", "redis"}

VARIABLES
    kind,     \* which store the gateway was built with
    record,   \* status of each request; "none" until it is created
    cli,      \* file store: the answer an operator's process is about to write
    yes       \* history: how often a human granted each request

approvals == <<kind, record, cli, yes>>

ApprovalsInit ==
    /\ kind \in ApprovalStores
    /\ record = [id \in Requests |-> "none"]
    /\ cli = [id \in Requests |-> "none"]
    /\ yes = [id \in Requests |-> 0]

Decided(id) == record[id] \in {"GRANTED", "DENIED"}

Set(id, status) == record' = [record EXCEPT ![id] = status]

\* create(): an existing request is returned unchanged.
Create(id) ==
    /\ IF record[id] = "none" THEN Set(id, "PENDING") ELSE UNCHANGED record
    /\ UNCHANGED <<kind, cli, yes>>

CountYes(id, answer) ==
    yes' = IF answer = "GRANTED" THEN [yes EXCEPT ![id] = @ + 1] ELSE yes

\* decide() on Redis: "first decision wins" inside the script.
Decide(id, answer) ==
    /\ kind = "redis" /\ record[id] = "PENDING"
    /\ Set(id, answer) /\ CountYes(id, answer)
    /\ UNCHANGED <<kind, cli>>

\* decide() on files: the operator's process has read a pending request ...
CliReads(id, answer) ==
    /\ kind = "file" /\ record[id] = "PENDING" /\ cli[id] = "none"
    /\ cli' = [cli EXCEPT ![id] = answer]
    /\ UNCHANGED <<kind, record, yes>>

\* ... and replaces the file, whatever it holds by now.
CliWrites(id) ==
    /\ cli[id] # "none"
    /\ Set(id, cli[id]) /\ CountYes(id, cli[id])
    /\ cli' = [cli EXCEPT ![id] = "none"]
    /\ UNCHANGED kind

Operator ==
    \E id \in Requests :
        \/ \E answer \in {"GRANTED", "DENIED"} : Decide(id, answer) \/ CliReads(id, answer)
        \/ CliWrites(id)
=============================================================================
