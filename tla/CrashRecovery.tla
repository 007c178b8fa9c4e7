--------------------------- MODULE CrashRecovery ---------------------------
(***************************************************************************)
(* One saga and the recovery daemons that read its log.  They share the    *)
(* log file, the remote systems the compensations act on, and the lease:   *)
(* nothing else tells a daemon whether the saga's process is alive.        *)
(*                                                                         *)
(* Timing assumed here: leases reach the log in time, a sweep checks a     *)
(* lease soon after it read the log, and the terminal record becomes       *)
(* durable within the lease's grace.                                       *)
(***************************************************************************)
EXTENDS SagaContext, RecoveryDaemon

systemVars == <<sagaVars, daemonVars>>

\* lease_expired(): nobody has renewed the lease for twice its time to live.
LeaseExpired ==
    ~heartbeat /\ pc \notin {"new", "beginning", "completing", "aborting"}

SweepStep(d) == LeaseExpired /\ Sweep(d) /\ UNCHANGED sagaVars

BookkeepingStep(d) == Bookkeeping(d) /\ UNCHANGED sagaVars

HandlerStep(d) ==
    HandlerCall(d) /\ UNCHANGED <<log, scope, call, stack, effect, faults>>

DaemonCrashStep(d) ==
    DaemonCrash(d) /\ UNCHANGED <<log, scope, call, stack, effect, faults>>

Init == SagaInit /\ DaemonInit

Next ==
    \/ SagaNext /\ UNCHANGED daemonVars
    \/ \E d \in Daemons :
        \/ SweepStep(d) \/ BookkeepingStep(d) \/ HandlerStep(d) \/ DaemonCrashStep(d)
    \/ OperatorUnclaim /\ UNCHANGED sagaVars

Spec == Init /\ [][Next]_systemVars

\* A watch() loop sweeps for ever, and a daemon gets on with its sweep.
WatchedSpec ==
    /\ Spec
    /\ \A d \in Daemons :
        /\ WF_systemVars(SweepStep(d))
        /\ WF_systemVars(BookkeepingStep(d))
        /\ WF_systemVars(HandlerStep(d))

\* An operator attends to the claims dead daemons leave behind: no daemon does.
ClaimsCleared == WF_systemVars(OperatorUnclaim /\ UNCHANGED sagaVars)

-----------------------------------------------------------------------------
(* Properties                                                               *)

DaemonTypeOK ==
    /\ at \in [Daemons -> {"idle", "swept", "working", "calling", "journalling"}]
    /\ seen \in [Daemons -> Seq(Records)]
    /\ {ledger, escalated} \subseteq SUBSET Steps
    /\ done \in [Daemons -> SUBSET Steps] /\ todo \in [Daemons -> SUBSET Steps]
    /\ claim \in Daemons \union {Nobody}
    /\ trouble \in 0..MaxTrouble

\* "A live process is never touched", and neither is a saga whose outcome its
\* agent has been told: until the scope has failed to record its outcome or the
\* process is dead, no daemon applies an inverse.
OwnedUntouched ==
    pc \notin {"dead", "escaped", "unfinished"} =>
        \A i \in Steps : undone[i].daemon = 0

\* The same for the saga's own rollback: what the log says was compensated, no
\* daemon compensates again.
DurableUndoFinal ==
    \A i \in Steps : OnDisk("COMPENSATED", i) => undone[i].daemon = 0

Calls(d, i) == at[d] = "working" /\ at'[d] = "calling" /\ IsTop(d, i)

\* An effect that is still there as far as anybody can know.
Standing(i) == effect[i] = "landed" /\ ~Undone(i)

\* Fail closed: while an IRREVERSIBLE effect stands, no daemon undoes anything
\* of the saga.  A step that its fallback completed is not known to be there.
IrreversibleHandsOff ==
    [][\A d \in Daemons, i \in Steps : Calls(d, i) =>
          \A j \in Called :
              Standing(j) /\ stack[j].sem = "IRREVERSIBLE"
                  => stack[j].st = "COMPLETED_VIA_FALLBACK"]_systemVars

\* Recovery is LIFO across the crash: a daemon undoes a step only when every
\* later durable effect is undone, whoever did it.
RecoveryLIFO ==
    [][\A d \in Daemons, i \in Steps : Calls(d, i) =>
          \A j \in (i + 1)..Len(stack) :
              Standing(j) /\ Durable(j) => stack[j].st = "COMPLETED_VIA_FALLBACK"]_systemVars

\* RECOVERED is the truth: when a daemon reports it, no durable effect stands.
RecoveredMeansUndone ==
    \A d \in Daemons :
        at[d] = "working" /\ todo[d] = {} =>
            \A i \in Called :
                Standing(i) /\ Durable(i) => stack[i].st = "COMPLETED_VIA_FALLBACK"

\* The ledger makes a retry a no-op: what it lists is never called again, also
\* for "remotes that have no idempotency support at all".
LedgerFinal ==
    [][\A d \in Daemons, i \in Steps : Calls(d, i) => i \notin ledger]_systemVars

\* A keyed handler that daemons race, retry or die over takes effect once: the
\* key comes from the descriptor, so every daemon sends the same one.
DaemonsApplyOnce ==
    \A i \in Called : stack[i].comp = "keyed" => undone[i].daemon <= 1

\* Nothing is abandoned, also when daemons crash at work and handlers fail:
\* unless the log holds the saga's own verdict, every durable effect of a dead
\* process is undone in the end or a human is told.
CrashResolved ==
    ClaimsCleared => \A i \in Steps :
        (/\ pc = "dead" /\ ~ResolvedInProcess(disk)
         /\ i \in Called /\ Standing(i) /\ Durable(i)
         /\ stack[i].st # "COMPLETED_VIA_FALLBACK")
            ~> (Undone(i) \/ escalated # {})
=============================================================================
