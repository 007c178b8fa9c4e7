----------------------------- MODULE McpProxy -----------------------------
(***************************************************************************)
(* The saga proxy in front of an MCP server: the relay loop and the        *)
(* upstream connection (agent_saga/mcp/stdio.py) around SagaMCPProxy       *)
(* (agent_saga/mcp/proxy.py).  The loop handles one message at a time; what*)
(* interleaves with it is the server, its reader and the end of the        *)
(* session.  A fence of the log answers at once or fails: what that does   *)
(* to the records is SagaContext's subject.                                *)
(***************************************************************************)
EXTENDS Integers, SequencesExt

CONSTANTS
    Boundaries,   \* subset of {"session", "explicit"}; "none" opens no saga
    MaxCalls,     \* bound: tool calls and control calls of the client
    MaxFaults,    \* bound: log errors
    ServerFaults  \* what may befall the server: subset of {"dead", "mute"}

ASSUME ProxyAssumption ==
    /\ Boundaries \subseteq {"session", "explicit"} /\ ServerFaults \subseteq {"dead", "mute"}
    /\ {MaxCalls, MaxFaults} \subseteq Nat

VARIABLES
    boundary,
    pc,        \* where serve_stdio() awaits
    sagas,     \* the contexts so far, each with its stack and what the client was told
    open,      \* self._ctx is not None: it is the last of sagas
    failed,    \* serve_stdio(): a call was refused or failed
    gone,      \* has serve_stdio() reached its finally?
    cut,       \* history: the loop was left by an exception
    server,    \* "up", "dead", or "mute": alive, but its reader task has ended
    request,   \* UpstreamServer.request(): "none", "pending", "result", "error"
    cursor, clean, halted, \* rollback(): the step it is at, and its report
    calls, faults

connection == <<server, request>>
report == <<cursor, clean, halted>>
ends == <<gone, cut>>
vars == <<boundary, pc, sagas, open, failed, ends, connection, report, calls, faults>>

Init ==
    /\ boundary \in Boundaries
    /\ pc = "serving" /\ sagas = <<>> /\ open = FALSE /\ failed = FALSE /\ gone = FALSE /\ cut = FALSE
    /\ server = "up" /\ request = "none"
    /\ cursor = 0 /\ clean = TRUE /\ halted = FALSE
    /\ calls = 0 /\ faults = 0

NewSaga == [begun |-> FALSE, rolled |-> FALSE, steps |-> <<>>, told |-> "nothing"]
NewStep == [state |-> "INTENT_LOGGED", inverse |-> FALSE, effect |-> FALSE, undone |-> FALSE]

Now == Len(sagas)
Stack == sagas[Now].steps
StepAt(i, r) == sagas' = [sagas EXCEPT ![Now].steps[i] = r]

LogFault == faults < MaxFaults /\ faults' = faults + 1
Client == pc = "serving" /\ calls < MaxCalls /\ calls' = calls + 1

\* A refusal or an error goes back to the client, and the loop goes on.
ReplyError == pc' = "serving" /\ failed' = TRUE
Reply == pc' = "serving" /\ UNCHANGED failed

\* The loop is left; close() is next.
Leave == pc' = "closing" /\ gone' = TRUE

\* request() to a server that has exited raises; to one nobody reads it waits.
Send == request' = (IF server = "dead" THEN "error" ELSE "pending") /\ UNCHANGED server
Take == request \in {"result", "error"} /\ request' = "none" /\ UNCHANGED server

-----------------------------------------------------------------------------
(* A call of a tool that has an effect.                                     *)

\* _context(): the context is kept before its SAGA_START is durable.
Call ==
    /\ Client
    /\ \/ open /\ pc' = "gate" /\ UNCHANGED <<sagas, open, failed, faults>>
       \/ /\ ~open /\ open' = TRUE
          /\ \/ sagas' = Append(sagas, [NewSaga EXCEPT !.begun = TRUE])
                /\ pc' = "gate" /\ UNCHANGED <<failed, faults>>
             \/ LogFault /\ sagas' = Append(sagas, NewSaga) /\ ReplyError
    /\ UNCHANGED <<boundary, ends, connection, report>>

\* Undeclared, or refused by the gate: no step is on the stack yet.
Refuse ==
    /\ pc = "gate" /\ ReplyError
    /\ UNCHANGED <<boundary, sagas, open, ends, connection, report, calls, faults>>

\* execute(): the step, its intent, the call to the server.
Execute ==
    /\ pc = "gate"
    /\ sagas' = [sagas EXCEPT ![Now].steps = Append(@, NewStep)]
    /\ \/ Send /\ pc' = "calling" /\ UNCHANGED <<failed, faults>>
       \/ LogFault /\ ReplyError /\ UNCHANGED connection
    /\ UNCHANGED <<boundary, open, ends, report, calls>>

Top == Len(Stack)

\* The outcome is on the stack before it is recorded; the inverse may come out
\* null, most of all when there is no result to build it from.
Conclude ==
    /\ pc = "calling" /\ Take
    /\ \E inverse \in BOOLEAN :
        StepAt(Top, [Stack[Top] EXCEPT !.inverse = inverse,
                        !.state = IF request = "result" THEN "COMMITTED" ELSE "UNKNOWN"])
    /\ \/ UNCHANGED faults /\ (IF request = "result" THEN Reply ELSE ReplyError)
       \/ LogFault /\ ReplyError
    /\ UNCHANGED <<boundary, open, ends, report, calls>>

\* A read is gated and forwarded outside any saga.
Read ==
    /\ Client /\ Send /\ pc' = "reading"
    /\ UNCHANGED <<boundary, sagas, open, failed, ends, report, faults>>

ReadReturns ==
    /\ pc = "reading" /\ Take
    /\ IF request = "result" THEN Reply ELSE ReplyError
    /\ UNCHANGED <<boundary, sagas, open, ends, report, calls, faults>>

\* tools/list and notifications: an error of the upstream leaves the loop.
ListTools ==
    /\ Client /\ Send /\ pc' = "listing"
    /\ UNCHANGED <<boundary, sagas, open, failed, ends, report, faults>>

Listed ==
    /\ pc = "listing" /\ Take /\ UNCHANGED failed
    /\ IF request = "result" THEN pc' = "serving" /\ UNCHANGED ends ELSE Leave /\ cut' = TRUE
    /\ UNCHANGED <<boundary, sagas, open, report, calls, faults>>

\* The process is interrupted: the await raises CancelledError out of the loop.
Interrupt ==
    /\ pc \in {"serving", "calling"} /\ cut' = TRUE /\ Leave
    /\ request' = "none" /\ UNCHANGED server
    /\ IF pc = "serving" THEN UNCHANGED sagas
       ELSE \E inverse \in BOOLEAN, applied \in {Stack[Top].effect, server = "up"} :
                StepAt(Top, [Stack[Top] EXCEPT !.inverse = inverse, !.state = "UNKNOWN",
                                !.effect = applied])
    /\ UNCHANGED <<boundary, open, failed, report, calls, faults>>

-----------------------------------------------------------------------------
(* The server: it answers, it exits, or its reader task ends (a line longer *)
(* than the stream's limit, a message that is not an object).               *)

\* What the server does to the step the request is about.
Works(applied) ==
    IF applied /\ pc = "calling" THEN StepAt(Top, [Stack[Top] EXCEPT !.effect = TRUE])
    ELSE IF applied /\ pc = "undoing" THEN StepAt(cursor, [Stack[cursor] EXCEPT !.undone = TRUE])
    ELSE UNCHANGED sagas

Answer ==
    /\ server = "up" /\ request = "pending" /\ UNCHANGED server
    /\ \/ request' = "result" /\ Works(TRUE)
       \/ request' = "error" /\ \E applied \in BOOLEAN : Works(applied)
    /\ UNCHANGED <<boundary, pc, open, failed, ends, report, calls, faults>>

\* Mutant: the requests in flight are left behind.
FailPendingNot == UNCHANGED request

\* The finally of _read_loop(): every request in flight fails.
FailPending == request' = IF request = "pending" THEN "error" ELSE request

ReaderEnds(fault) ==
    /\ server = "up" /\ fault \in ServerFaults /\ server' = fault
    /\ FailPending
    /\ IF request = "pending" THEN \E applied \in BOOLEAN : Works(applied) ELSE UNCHANGED sagas
    /\ UNCHANGED <<boundary, pc, open, failed, ends, report, calls, faults>>

-----------------------------------------------------------------------------
(* commit(), rollback(), and close() when the client has gone.              *)

\* They answer a control call, or they are the last thing serve_stdio() does.
Return == IF gone THEN pc' = "ended" /\ UNCHANGED failed ELSE Reply
Raise == IF gone THEN pc' = "ended" /\ UNCHANGED failed ELSE ReplyError

\* commit(): the context is forgotten once finish() returned.
Commit ==
    /\ UNCHANGED <<connection, report>>
    /\ \/ ~open /\ Return /\ UNCHANGED <<sagas, open, faults>>
       \/ open /\ open' = FALSE /\ sagas' = [sagas EXCEPT ![Now].told = IF gone THEN "kept" ELSE "committed"]
          /\ Return /\ UNCHANGED faults
       \/ open /\ LogFault /\ Raise /\ UNCHANGED <<sagas, open>>

\* rollback(): a context is rolled back once; what it raises leaves it open.
Rollback ==
    /\ UNCHANGED <<connection, open>>
    /\ \/ ~open /\ Return /\ UNCHANGED <<sagas, report, faults>>
       \/ open /\ sagas[Now].rolled /\ Raise /\ UNCHANGED <<sagas, report, faults>>
       \/ /\ open /\ ~sagas[Now].rolled
          /\ \/ sagas' = [sagas EXCEPT ![Now].rolled = TRUE] /\ pc' = "undoing"
                /\ cursor' = Len(Stack) /\ clean' = TRUE /\ halted' = FALSE
                /\ UNCHANGED <<failed, faults>>
             \/ /\ LogFault /\ Raise /\ UNCHANGED report
                /\ \E rolled \in BOOLEAN : sagas' = [sagas EXCEPT ![Now].rolled = rolled]

Control ==
    /\ boundary = "explicit" /\ Client /\ (Commit \/ Rollback)
    /\ UNCHANGED <<boundary, ends>>

\* The client disconnects.
Disconnect ==
    /\ pc = "serving" /\ Leave
    /\ UNCHANGED <<boundary, sagas, open, failed, cut, connection, report, calls, faults>>

\* Mutant: what is left open is kept, whoever declares the boundary.
RollsBackIfFailed == failed

RollsBack == failed \/ boundary = "explicit"

\* close(failed=failed)
Close ==
    /\ pc = "closing"
    /\ IF open /\ RollsBack THEN Rollback ELSE Commit
    /\ UNCHANGED <<boundary, ends, calls>>

-----------------------------------------------------------------------------
(* rollback(), over the stack from its top.                                 *)

AtStep == pc = "undoing" /\ cursor > 0 /\ request = "none"
Down == cursor' = cursor - 1

\* UNRESOLVED behind a failure; nothing to undo behind an intent.
Pass ==
    /\ AtStep /\ (halted \/ Stack[cursor].state = "INTENT_LOGGED") /\ Down
    /\ clean' = (clean /\ ~halted)
    /\ UNCHANGED <<boundary, pc, sagas, open, failed, ends, connection, halted, calls, faults>>

\* Mutant: a step without an inverse is passed over in silence.
OrphanedSilently == UNCHANGED clean

Orphaned == clean' = FALSE

Orphan ==
    /\ AtStep /\ ~halted /\ Stack[cursor].state # "INTENT_LOGGED" /\ ~Stack[cursor].inverse
    /\ Orphaned /\ Down
    /\ UNCHANGED <<boundary, pc, sagas, open, failed, ends, connection, halted, calls, faults>>

\* _compensate_now(): a call like any other, over the same connection.
Compensate ==
    /\ AtStep /\ ~halted /\ Stack[cursor].state # "INTENT_LOGGED" /\ Stack[cursor].inverse
    /\ Send
    /\ UNCHANGED <<boundary, pc, sagas, open, failed, gone, cut, report, calls, faults>>

\* It failed: the rest stays undone.  It worked, or the log refuses to hear of it,
\* which ends the rollback where it stands.
Compensated ==
    /\ pc = "undoing" /\ Take
    /\ \/ request = "error" /\ clean' = FALSE /\ halted' = TRUE /\ Down
          /\ UNCHANGED <<pc, failed, faults>>
       \/ request = "result" /\ Down /\ UNCHANGED <<clean, halted, pc, failed, faults>>
       \/ LogFault /\ Raise /\ UNCHANGED report
    /\ UNCHANGED <<boundary, sagas, open, ends, calls>>

\* ROLLBACK_END, then finish(aborted=True).
RolledBack ==
    /\ pc = "undoing" /\ cursor = 0
    /\ \/ /\ sagas' = [sagas EXCEPT ![Now].told = IF clean THEN "rolled back" ELSE "not clean"]
          /\ open' = FALSE /\ Return /\ UNCHANGED faults
       \/ LogFault /\ Raise /\ UNCHANGED <<sagas, open>>
    /\ UNCHANGED <<boundary, gone, ends, connection, report, calls>>

-----------------------------------------------------------------------------
Proxy ==
    \/ Refuse \/ Execute \/ Conclude \/ ReadReturns \/ Listed
    \/ Close \/ Pass \/ Orphan \/ Compensate \/ Compensated \/ RolledBack

Next ==
    \/ Proxy \/ Call \/ Read \/ ListTools \/ Control \/ Disconnect \/ Interrupt
    \/ Answer \/ \E fault \in {"dead", "mute"} : ReaderEnds(fault)

Spec == Init /\ [][Next]_vars

\* The loop goes on whenever it can, and a server that is up and read answers.
LiveSpec == Spec /\ WF_vars(Proxy) /\ WF_vars(Answer)

-----------------------------------------------------------------------------
(* Properties                                                               *)

Steps(k) == ToSet(sagas[k].steps)

\* A client that is told "clean" has no effect of that saga left standing, whatever
\* the server, the log and the policy's paths did (proxy.py:137, policy.py:217).
CleanMeansUndone ==
    \A k \in DOMAIN sagas : sagas[k].told = "rolled back" =>
        \A s \in Steps(k) : s.effect => s.undone

\* What the end of a session keeps without being asked is a session's saga all of
\* whose calls succeeded, unless the loop ended by itself (proxy.py:157, stdio.py:189).
NotKeptUnasked ==
    \A k \in DOMAIN sagas : sagas[k].told = "kept" =>
        cut \/ (boundary = "session" /\ \A s \in Steps(k) : s.state = "COMMITTED")

\* Whoever has disconnected, the session comes to an end, also over a server that
\* died with the rollback's call in flight; a server whose reader ended while it
\* runs on is the exception (stdio.py:62, proxy.py:154).
SessionEnds == pc = "closing" ~> pc = "ended" \/ server = "mute"

\* "A clean disconnect commits; a failed one rolls back" (proxy.py:157): a session
\* that ended by an exception of the loop is not committed.
FailedSessionRollsBack ==
    cut => \A k \in DOMAIN sagas : sagas[k].told # "kept"
=============================================================================
