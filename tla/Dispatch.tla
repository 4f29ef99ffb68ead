------------------------------ MODULE Dispatch ------------------------------
(***************************************************************************)
(* ResidentScheduler (control_plane/runtime.py) over the durable store:    *)
(* scheduler processes that share one SQLite file reserve deliveries under *)
(* work claims, execute them on worker threads, renew the claims, and      *)
(* acknowledge, release, dead-letter or cancel the work.                   *)
(*                                                                         *)
(* Actors: per process one dispatcher (the holder of _condition while it   *)
(* scans), one renewer, one reconciler, and one thread per reservation.    *)
(* Every action is one store transaction or one critical section.          *)
(***************************************************************************)
EXTENDS WorkClaims, Sequences

CONSTANTS
    Runs,         \* run ids
    RunOfAgent,   \* the run an agent run belongs to
    WorkerSeq,    \* registration order of the workers (round robin)
    MaxWorkers,   \* max_workers: reservations of one process
    MaxFailures,  \* MAX_DELIVERY_FAILURES
    MayDo,        \* what the handler of each delivery may write or raise
    MayDie,       \* processes that may die
    Renewing,     \* processes whose renewer may reject or give up a claim
    CancelRuns,   \* runs an operator may ask to cancel
    Ckpts,        \* create_checkpoint requests
    CkptRun,      \* the run each of them is for
    MaxFaults,    \* bound: late renewals and injected crashes in a behaviour
    MaxDispatch   \* bound: times one delivery is claimed in a behaviour

Outcomes == {"fact", "run.failure.requested", "command", "run.succeeded",
             "exception"}

ASSUME DispatchConstants ==
    /\ RunOfAgent \in [AgentRuns -> Runs]
    /\ WorkerSeq \in Seq(Workers) /\ WorkerSeq # <<>>
    /\ MaxWorkers \in Nat \ {0}
    /\ MaxFailures \in Nat \ {0}
    /\ MayDo \in [Deliveries -> SUBSET Outcomes]
    /\ MayDie \subseteq Procs
    /\ Renewing \subseteq Procs
    /\ CancelRuns \subseteq Runs
    /\ CkptRun \in [Ckpts -> Runs]
    /\ MaxFaults \in Nat
    /\ MaxDispatch \in Nat
    /\ None \notin Deliveries
    /\ None \notin Ckpts
    /\ None \notin Runs

VARIABLES
    \* facts in the event log and its projections
    sentAt,        \* position of mailbox.delivery.sent in the log, 0: not sent
    acked,         \* deliveries with a mailbox.delivery.acked fact
    dispatched,    \* number of runtime.delivery.dispatched facts
    failures,      \* number of unexpected_exception crash facts
    deadLettered,  \* deliveries with a mailbox.delivery.dead_lettered fact
    runStatus,     \* status in the run projection
    failReq,       \* runs with a run.failure.requested fact
    barrier,       \* checkpoint_barrier_id in the run projection while its
                   \* checkpoint_barrier_expires_at is ahead, or None
    \* memory of the processes
    up,            \* the process runs
    scan,          \* the dispatcher's scan of the mailboxes
    denied,        \* _cancelled_runs
    routed,        \* failure requests behind _route_cursor
    sweep,         \* the cancellation or failure in progress
    renewing,      \* the renewer's copy of the reservations
    \* memory of the reservations (threads)
    pc, held, ctx, lost, attempt,
    ckpt,          \* progress of the create_checkpoint requests
    \* history
    lastWrite,     \* agent-run token of the latest fenced write
    faults

factVars == <<sentAt, acked, dispatched, failures, deadLettered, runStatus,
              failReq>>
ckptVars == <<barrier, ckpt>>
procVars == <<up, scan, denied, routed, sweep, renewing>>
thrVars  == <<pc, held, ctx, lost, attempt>>
histVars == <<lastWrite, faults>>
vars == <<claim, factVars, ckptVars, procVars, thrVars, histVars>>

RunOf(d) == RunOfAgent[AgentRunOf[d]]

Terminal == {"succeeded", "failed", "cancelled"}
RunStates == Terminal \cup {"running", "cancelling"}

PCs == {"none", "reserved", "dispatching", "dead", "handling", "committing",
        "escalating", "buried", "acking", "ackingCancelled", "releasing",
        "popping"}

(* Reservations whose thread has entered _finalizing.                      *)
Finalizing == {"acking", "ackingCancelled", "releasing", "popping"}

IdleScan(c) == [cursor |-> c, off |-> 0, view |-> {}, slot |-> 0]

IdleSweep == [mode |-> "none", api |-> FALSE, run |-> None, at |-> 0,
              todo |-> {}, fenced |-> FALSE]

SweepModes == {"none", "request", "denyCancel", "denyFail", "cancel", "fail",
               "closeCancelled", "closeFailed"}

NoSnapshot == [d \in Deliveries |-> NoClaims]

Init ==
    /\ ClaimInit
    /\ sentAt = [d \in Deliveries |-> 0]
    /\ acked = {}
    /\ dispatched = [d \in Deliveries |-> 0]
    /\ failures = [d \in Deliveries |-> 0]
    /\ deadLettered = {}
    /\ runStatus = [r \in Runs |-> "running"]
    /\ failReq = {}
    /\ barrier = [r \in Runs |-> None]
    /\ up = [p \in Procs |-> TRUE]
    /\ scan = [p \in Procs |-> IdleScan(0)]
    /\ denied = [p \in Procs |-> {}]
    /\ routed = [p \in Procs |-> {}]
    /\ sweep = [p \in Procs |-> IdleSweep]
    /\ renewing = [p \in Procs |-> NoSnapshot]
    /\ pc = [p \in Procs |-> [d \in Deliveries |-> "none"]]
    /\ held = [p \in Procs |-> [d \in Deliveries |-> NoClaims]]
    /\ ctx = [p \in Procs |-> [d \in Deliveries |-> "none"]]
    /\ lost = [p \in Procs |-> [d \in Deliveries |-> FALSE]]
    /\ attempt = [p \in Procs |-> [d \in Deliveries |-> 0]]
    /\ ckpt = [c \in Ckpts |-> "idle"]
    /\ lastWrite = [a \in AgentRuns |-> 0]
    /\ faults = 0

(* _project_event on the run projection: terminal states absorb, and a run *)
(* being cancelled can only become cancelled.                              *)
ProjectRun(s, e) ==
    IF s \in Terminal THEN s
    ELSE CASE e = "run.cancel.requested" -> "cancelling"
           [] e = "run.cancelled"        -> "cancelled"
           [] e = "run.succeeded" /\ s # "cancelling" -> "succeeded"
           [] e = "run.failed"    /\ s # "cancelling" -> "failed"
           [] OTHER -> s

-----------------------------------------------------------------------------
(* Mailbox.                                                                *)

Pending == { d \in Deliveries : sentAt[d] > 0 /\ d \notin acked }

(* DurableMailbox.send: one fact per delivery id, however often it is sent. *)
Send(d) ==
    /\ sentAt[d] = 0
    /\ sentAt' = [sentAt EXCEPT ![d] =
                    1 + Cardinality({ e \in Deliveries : sentAt[e] > 0 })]
    /\ UNCHANGED <<claim, acked, dispatched, failures, deadLettered, runStatus,
                   failReq, ckptVars, procVars, thrVars, histVars>>

-----------------------------------------------------------------------------
(* The dispatcher: _reserve_next_locked.                                   *)

InFlight(p) == { d \in Deliveries : pc[p][d] # "none" }

WorkerAt(p, i) == WorkerSeq[1 + ((scan[p].cursor + i) % Len(WorkerSeq))]

HasRoom(p, w) ==
    Cardinality({ d \in InFlight(p) : WorkerOf[d] = w }) < Capacity[w]

Mail(w) == { d \in Pending : WorkerOf[d] = w }

(* The dispatcher holds _condition from its first look to its last.        *)
Unlocked(p) == scan[p].off = 0 /\ scan[p].view = {}

Worth(p, i) == HasRoom(p, WorkerAt(p, i)) /\ Mail(WorkerAt(p, i)) # {}

(* Go on to the next worker, in round robin order, that has room and mail, *)
(* and read its mailbox.  The serving thread dispatches and reconciles in  *)
(* turn; a cancellation requested through the API runs beside it.          *)
Visit(p) ==
    /\ up[p]
    /\ scan[p].view = {}
    /\ sweep[p].mode = "none" \/ sweep[p].api
    /\ Cardinality(InFlight(p)) < MaxWorkers
    /\ \E i \in scan[p].off .. Len(WorkerSeq) - 1 :
          /\ Worth(p, i)
          /\ \A j \in scan[p].off .. i - 1 : ~Worth(p, j)
          /\ scan' = [scan EXCEPT ![p] = [cursor |-> @.cursor, off |-> i,
                                          view |-> Mail(WorkerAt(p, i)),
                                          slot |-> 0]]
    /\ UNCHANGED <<claim, factVars, ckptVars, up, denied, routed, sweep,
                   renewing, thrVars, histVars>>

(* No worker is left to visit.                                             *)
EndScan(p) ==
    /\ up[p]
    /\ scan[p].view = {} /\ scan[p].off > 0
    /\ \A i \in scan[p].off .. Len(WorkerSeq) - 1 : ~Worth(p, i)
    /\ scan' = [scan EXCEPT ![p] = IdleScan(@.cursor)]
    /\ UNCHANGED <<claim, factVars, ckptVars, up, denied, routed, sweep,
                   renewing, thrVars, histVars>>

(* d is the first of the copy of a mailbox that a thread works through.    *)
Oldest(d, view) == d \in view /\ \A e \in view : sentAt[d] <= sentAt[e]

Eligible(p, d) == RunOf(d) \notin denied[p] /\ pc[p][d] = "none"

(* Mutant: claim_work without the checkpoint barrier.                      *)
AdmittedInCapture(d, s) ==
    /\ s \in Slots(d)
    /\ Claimable(d, s)
    /\ claim[DeliveryKey(d)].token < MaxDispatch

(* claim_work would grant slot s (up to the bound MaxDispatch).            *)
Admitted(d, s) ==
    /\ s \in Slots(d)
    /\ barrier[RunOf(d)] = None
    /\ Claimable(d, s)
    /\ claim[DeliveryKey(d)].token < MaxDispatch

NextOff(p) == IF scan[p].off + 1 < Len(WorkerSeq) THEN scan[p].off + 1 ELSE 0

(* Give up on the oldest delivery: its run is denied, it is in flight here, *)
(* or no slot of its worker could be claimed.                              *)
SkipDelivery(p) ==
    /\ up[p]
    /\ \E d \in Deliveries :
          /\ Oldest(d, scan[p].view)
          /\ Eligible(p, d) =>
                /\ ~Admitted(d, scan[p].slot)
                /\ scan[p].slot + 1 \notin Slots(d)
          /\ scan' = [scan EXCEPT ![p] =
                        [cursor |-> @.cursor,
                         off    |-> IF @.view = {d} THEN NextOff(p) ELSE @.off,
                         view   |-> @.view \ {d},
                         slot   |-> 0]]
    /\ UNCHANGED <<claim, factVars, ckptVars, up, denied, routed, sweep,
                   renewing, thrVars, histVars>>

NextSlot(p) ==
    /\ up[p]
    /\ \E d \in Deliveries : /\ Oldest(d, scan[p].view)
                             /\ Eligible(p, d)
                             /\ ~Admitted(d, scan[p].slot)
                             /\ scan[p].slot + 1 \in Slots(d)
    /\ scan' = [scan EXCEPT ![p].slot = @ + 1]
    /\ UNCHANGED <<claim, factVars, ckptVars, up, denied, routed, sweep,
                   renewing, thrVars, histVars>>

(* claim_work succeeds and the reservation is recorded.  The delivery is   *)
(* taken from the dispatcher's copy: whether it is still pending is not    *)
(* read again.                                                             *)
Reserve(p, d) ==
    /\ up[p]
    /\ Oldest(d, scan[p].view)
    /\ Eligible(p, d)
    /\ Admitted(d, scan[p].slot)
    /\ Claim(p, d, scan[p].slot)
    /\ held' = [held EXCEPT ![p][d] = NextTokens(d, scan[p].slot)]
    /\ pc' = [pc EXCEPT ![p][d] = "reserved"]
    /\ ctx' = [ctx EXCEPT ![p][d] = "none"]
    /\ scan' = [scan EXCEPT ![p] =
                  IdleScan((@.cursor + @.off + 1) % Len(WorkerSeq))]
    /\ UNCHANGED <<factVars, ckptVars, up, denied, routed, sweep, renewing, lost,
                   attempt, histVars>>

-----------------------------------------------------------------------------
(* A worker thread: _execute_reserved.                                     *)

Goto(p, d, l) == pc' = [pc EXCEPT ![p][d] = l]

Holds(p, d) == Current(p, held[p][d])

(* store.append under the dispatch context: what makes it succeed.         *)
Writable(p, d) ==
    /\ ctx[p][d] = "none"
    /\ Holds(p, d)
    /\ runStatus[RunOf(d)] \in {"running", "succeeded"}

(* Count the earlier dispatches of this delivery.                          *)
ReadAttempt(p, d) ==
    /\ up[p] /\ Unlocked(p)
    /\ pc[p][d] = "reserved"
    /\ attempt' = [attempt EXCEPT ![p][d] = dispatched[d] + 1]
    /\ Goto(p, d, "dispatching")
    /\ UNCHANGED <<claim, factVars, ckptVars, procVars, held, ctx, lost,
                   histVars>>

(* Record the dispatch under an id made from the attempt number, which     *)
(* fails when another owner recorded the same attempt with other tokens.   *)
RecordDispatch(p, d) ==
    /\ up[p]
    /\ pc[p][d] = "dispatching"
    /\ IF attempt[p][d] > dispatched[d]
       THEN /\ dispatched' = [dispatched EXCEPT ![d] = attempt[p][d]]
            /\ Goto(p, d, IF d \in deadLettered THEN "dead" ELSE "handling")
       ELSE /\ Goto(p, d, "releasing")
            /\ UNCHANGED dispatched
    /\ attempt' = [attempt EXCEPT ![p][d] = 0]
    /\ UNCHANGED <<claim, sentAt, acked, failures, deadLettered, runStatus,
                   failReq, ckptVars, procVars, held, ctx, lost, histVars>>

(* Mutant: a redelivered dead letter is acknowledged and nothing else.     *)
CloseDeadLetterOnly(p, d) ==
    /\ up[p] /\ Unlocked(p)
    /\ pc[p][d] = "dead"
    /\ Goto(p, d, "acking")
    /\ UNCHANGED <<claim, factVars, ckptVars, procVars, held, ctx, lost,
                   attempt, histVars>>

(* A redelivered dead letter: fail a run that still runs, then acknowledge. *)
CloseDeadLetter(p, d) ==
    /\ up[p] /\ Unlocked(p)
    /\ pc[p][d] = "dead"
    /\ runStatus' = [runStatus EXCEPT ![RunOf(d)] =
                        IF @ = "running" THEN ProjectRun(@, "run.failed") ELSE @]
    /\ Goto(p, d, "acking")
    /\ UNCHANGED <<claim, sentAt, acked, dispatched, failures, deadLettered,
                   failReq, ckptVars, procVars, held, ctx, lost, attempt,
                   histVars>>

(* The handler appends a fact or asks for the failure of the run.          *)
HandlerWrite(p, d, e) ==
    /\ up[p]
    /\ e \in MayDo[d] \cap {"fact", "run.failure.requested"}
    /\ pc[p][d] = "handling"
    /\ Writable(p, d)
    /\ lastWrite' = [lastWrite EXCEPT ![AgentRunOf[d]] =
                        held[p][d][AgentRunKey(d)]]
    /\ failReq' = IF e = "run.failure.requested"
                     /\ runStatus[RunOf(d)] \notin Terminal
                  THEN failReq \cup {RunOf(d)} ELSE failReq
    /\ UNCHANGED <<claim, sentAt, acked, dispatched, failures, deadLettered,
                   runStatus, ckptVars, procVars, thrVars, faults>>

(* ControlKernel.submit persists the candidate with a fenced append before *)
(* it validates it; the transaction of commit_command comes later. The     *)
(* commands are the ones whose validation reads no lease (PLAN_PATCH,      *)
(* COMPLETE, MEMORY, EVOLUTION).                                           *)
BeginCommit(p, d) ==
    /\ up[p]
    /\ MayDo[d] \cap {"command", "run.succeeded"} # {}
    /\ pc[p][d] = "handling"
    /\ Writable(p, d)
    /\ lastWrite' = [lastWrite EXCEPT ![AgentRunOf[d]] =
                        held[p][d][AgentRunKey(d)]]
    /\ Goto(p, d, "committing")
    /\ UNCHANGED <<claim, factVars, ckptVars, procVars, held, ctx, lost,
                   attempt, faults>>

Committable(p, d) ==
    /\ Holds(p, d)
    /\ runStatus[RunOf(d)] \notin {"cancelling", "cancelled"}

(* commit_command appends the formal facts of an accepted candidate.       *)
Commit(p, d, e) ==
    /\ up[p]
    /\ e \in MayDo[d] \cap {"command", "run.succeeded"}
    /\ pc[p][d] = "committing"
    /\ Committable(p, d)
    /\ lastWrite' = [lastWrite EXCEPT ![AgentRunOf[d]] =
                        held[p][d][AgentRunKey(d)]]
    /\ runStatus' = [runStatus EXCEPT ![RunOf(d)] = ProjectRun(@, e)]
    /\ Goto(p, d, "handling")
    /\ UNCHANGED <<claim, sentAt, acked, dispatched, failures, deadLettered,
                   failReq, ckptVars, procVars, held, ctx, lost, attempt,
                   faults>>

(* A write of the handler is rejected: WorkClaimLost, no acknowledgement.  *)
HandlerFenced(p, d) ==
    /\ up[p] /\ Unlocked(p)
    /\ \/ pc[p][d] = "handling" /\ ~Writable(p, d)
       \/ pc[p][d] = "committing" /\ ~Committable(p, d)
    /\ Goto(p, d, "releasing")
    /\ UNCHANGED <<claim, factVars, ckptVars, procVars, held, ctx, lost,
                   attempt, histVars>>

(* The handler returns, or notices the cancellation of its context: submit *)
(* looks at the token once more when it enters commit_command.             *)
HandlerReturn(p, d) ==
    /\ up[p] /\ Unlocked(p)
    /\ \/ pc[p][d] = "handling"
       \/ pc[p][d] = "committing" /\ ctx[p][d] # "none"
    /\ Goto(p, d, CASE ctx[p][d] = "none"    -> "acking"
                    [] ctx[p][d] = "renewal" -> "releasing"
                    [] ctx[p][d] = "run"     -> "ackingCancelled")
    /\ UNCHANGED <<claim, factVars, ckptVars, procVars, held, ctx, lost,
                   attempt, histVars>>

(* An injected crash of the handler: the delivery stays in the mailbox.    *)
HandlerInjectedCrash(p, d) ==
    /\ up[p] /\ Unlocked(p)
    /\ pc[p][d] = "handling"
    /\ faults < MaxFaults
    /\ faults' = faults + 1
    /\ Goto(p, d, "releasing")
    /\ UNCHANGED <<claim, factVars, ckptVars, procVars, held, ctx, lost,
                   attempt, lastWrite>>

(* An unexpected exception: the failure is counted in a fenced fact, and   *)
(* the last one permitted goes on to the dead letter.                      *)
HandlerFails(p, d) ==
    /\ up[p]
    /\ "exception" \in MayDo[d]
    /\ pc[p][d] = "handling"
    /\ Writable(p, d)
    /\ failures' = [failures EXCEPT ![d] = @ + 1]
    /\ Goto(p, d, IF failures[d] + 1 < MaxFailures THEN "releasing"
                                                   ELSE "escalating")
    /\ UNCHANGED <<claim, sentAt, acked, dispatched, deadLettered, runStatus,
                   failReq, ckptVars, procVars, held, ctx, lost, attempt,
                   histVars>>

DeadLetter(p, d) ==
    /\ up[p]
    /\ pc[p][d] = "escalating"
    /\ IF Writable(p, d)
       THEN deadLettered' = deadLettered \cup {d} /\ Goto(p, d, "buried")
       ELSE UNCHANGED deadLettered /\ Goto(p, d, "releasing")
    /\ UNCHANGED <<claim, sentAt, acked, dispatched, failures, runStatus,
                   failReq, ckptVars, procVars, held, ctx, lost, attempt,
                   histVars>>

(* Degrade the agent and fail the run, all in fenced facts.                *)
FailRunForDeadLetter(p, d) ==
    /\ up[p] /\ Unlocked(p)
    /\ pc[p][d] = "buried"
    /\ IF Writable(p, d)
       THEN /\ runStatus' = [runStatus EXCEPT ![RunOf(d)] =
                                ProjectRun(@, "run.failed")]
            /\ Goto(p, d, "acking")
       ELSE UNCHANGED runStatus /\ Goto(p, d, "releasing")
    /\ UNCHANGED <<claim, sentAt, acked, dispatched, failures, deadLettered,
                   failReq, ckptVars, procVars, held, ctx, lost, attempt,
                   histVars>>

(* _finish_claims_with_ack: acknowledge and complete the claims, or fall   *)
(* through to the release of whatever is still held.                       *)
Ack(p, d) ==
    /\ up[p]
    /\ pc[p][d] \in {"acking", "ackingCancelled"}
    /\ LET runOpen == \/ pc[p][d] = "ackingCancelled"
                      \/ runStatus[RunOf(d)] \notin {"cancelling", "cancelled"}
       IN  IF Holds(p, d) /\ runOpen
           THEN /\ acked' = acked \cup {d}
                /\ Finish(held[p][d], "completed")
                /\ Goto(p, d, "popping")
           ELSE /\ Goto(p, d, "releasing")
                /\ UNCHANGED <<claim, acked>>
    /\ UNCHANGED <<sentAt, dispatched, failures, deadLettered, runStatus,
                   failReq, ckptVars, procVars, held, ctx, lost, attempt,
                   histVars>>

(* Mutant: the finally clause forgets the claims.                          *)
ReleaseNothing(p, d) ==
    /\ up[p]
    /\ pc[p][d] = "releasing"
    /\ Goto(p, d, "popping")
    /\ UNCHANGED <<claim, factVars, ckptVars, procVars, held, ctx, lost,
                   attempt, histVars>>

(* The finally clause: release claims that were not finished.              *)
Release(p, d) ==
    /\ up[p]
    /\ pc[p][d] = "releasing"
    /\ IF Holds(p, d) THEN Finish(held[p][d], "released") ELSE UNCHANGED claim
    /\ Goto(p, d, "popping")
    /\ UNCHANGED <<factVars, ckptVars, procVars, held, ctx, lost, attempt,
                   histVars>>

(* _release_reservation_locked.                                            *)
PopReservation(p, d) ==
    /\ up[p] /\ Unlocked(p)
    /\ pc[p][d] = "popping"
    /\ Goto(p, d, "none")
    /\ held' = [held EXCEPT ![p][d] = NoClaims]
    /\ ctx' = [ctx EXCEPT ![p][d] = "none"]
    /\ lost' = [lost EXCEPT ![p][d] = FALSE]
    /\ UNCHANGED <<claim, factVars, ckptVars, procVars, attempt, histVars>>

-----------------------------------------------------------------------------
(* The renewer: _renew_claims_loop.                                        *)

(* Copy the reservations that are neither finalizing nor lost.             *)
RenewSnapshot(p) ==
    /\ up[p] /\ Unlocked(p) /\ p \in Renewing
    /\ renewing[p] = NoSnapshot
    /\ renewing' = [renewing EXCEPT ![p] =
          [d \in Deliveries |->
             IF pc[p][d] \in Finalizing \/ lost[p][d] THEN NoClaims
                                                     ELSE held[p][d]]]
    /\ renewing' # renewing
    /\ UNCHANGED <<claim, factVars, ckptVars, up, scan, denied, routed, sweep,
                   thrVars, histVars>>

(* Mark the reservation that has this delivery id as lost and cancel the   *)
(* context of the copy, which may be that of an earlier reservation.       *)
Lose(p, d) ==
    /\ lost' = [lost EXCEPT ![p][d] = TRUE]
    /\ ctx' = [ctx EXCEPT ![p][d] =
                 IF held[p][d] = renewing[p][d] /\ @ = "none"
                 THEN "renewal" ELSE @]

Renewed(p, d) == renewing' = [renewing EXCEPT ![p][d] = NoClaims]

(* renew_work_claims extends the deadline of a current bundle or rejects.  *)
Renew(p, d) ==
    /\ up[p] /\ Unlocked(p)
    /\ renewing[p][d] # NoClaims
    /\ IF \/ Current(p, renewing[p][d])
          \/ pc[p][d] \in Finalizing \cup {"none"}
          \/ lost[p][d]
       THEN UNCHANGED <<lost, ctx>>
       ELSE Lose(p, d)
    /\ Renewed(p, d)
    /\ UNCHANGED <<claim, factVars, ckptVars, up, scan, denied, routed, sweep,
                   pc, held, attempt, histVars>>

(* The store cannot be reached and the next attempt would come too late.   *)
RenewUnconfirmed(p, d) ==
    /\ up[p] /\ Unlocked(p)
    /\ renewing[p][d] # NoClaims
    /\ faults < MaxFaults
    /\ faults' = faults + 1
    /\ IF pc[p][d] = "none" THEN UNCHANGED <<lost, ctx>> ELSE Lose(p, d)
    /\ Renewed(p, d)
    /\ UNCHANGED <<claim, factVars, ckptVars, up, scan, denied, routed, sweep,
                   pc, held, attempt, lastWrite>>

(* A deadline passes: nobody renews the claims of a dead process or of a   *)
(* lost reservation; those of any other are renewed late at most MaxFaults *)
(* times.                                                                  *)
Abandoned(d) ==
    LET p == claim[DeliveryKey(d)].owner IN
    Taken(DeliveryKey(d)) /\ (~up[p] \/ lost[p][d])

Expire(d) ==
    /\ Taken(DeliveryKey(d))
    /\ \/ Abandoned(d) /\ UNCHANGED faults
       \/ ~Abandoned(d) /\ faults < MaxFaults /\ faults' = faults + 1
    /\ ExpireBundle(d)
    /\ UNCHANGED <<factVars, ckptVars, procVars, thrVars, lastWrite>>

(* A process dies.  Another one goes on with the work.                     *)
Crash(p) ==
    /\ up[p] /\ p \in MayDie
    /\ \E q \in Procs \ {p} : up[q]
    /\ up' = [up EXCEPT ![p] = FALSE]
    /\ scan' = [scan EXCEPT ![p] = IdleScan(0)]
    /\ denied' = [denied EXCEPT ![p] = {}]
    /\ routed' = [routed EXCEPT ![p] = {}]
    /\ sweep' = [sweep EXCEPT ![p] = IdleSweep]
    /\ renewing' = [renewing EXCEPT ![p] = NoSnapshot]
    /\ pc' = [pc EXCEPT ![p] = [d \in Deliveries |-> "none"]]
    /\ held' = [held EXCEPT ![p] = [d \in Deliveries |-> NoClaims]]
    /\ ctx' = [ctx EXCEPT ![p] = [d \in Deliveries |-> "none"]]
    /\ lost' = [lost EXCEPT ![p] = [d \in Deliveries |-> FALSE]]
    /\ attempt' = [attempt EXCEPT ![p] = [d \in Deliveries |-> 0]]
    /\ UNCHANGED <<claim, factVars, ckptVars, histVars>>

-----------------------------------------------------------------------------
(* Cancelling and failing runs.  A sweep denies the run to the local       *)
(* dispatcher, goes through the mailboxes and closes the run.              *)

sweepFrame == <<up, scan, denied, routed, renewing, thrVars, ckptVars, histVars>>

(* cancel_run, on the API thread, sees a run that is not terminal.         *)
RequestCancel(p, r) ==
    /\ up[p]
    /\ sweep[p].mode = "none"
    /\ r \in CancelRuns
    /\ runStatus[r] = "running"
    /\ sweep' = [sweep EXCEPT ![p] = [IdleSweep EXCEPT !.mode = "request",
                                     !.api = TRUE, !.run = r]]
    /\ UNCHANGED <<claim, factVars, sweepFrame>>

(* By now it may be: the projection of a terminal run ignores the request. *)
RecordCancel(p) ==
    /\ up[p]
    /\ sweep[p].mode = "request"
    /\ runStatus' = [runStatus EXCEPT ![sweep[p].run] =
                        ProjectRun(@, "run.cancel.requested")]
    /\ sweep' = [sweep EXCEPT ![p].mode = "denyCancel"]
    /\ UNCHANGED <<claim, sentAt, acked, dispatched, failures, deadLettered,
                   failReq, sweepFrame>>

PendingOf(r) == { d \in Pending : RunOf(d) = r }

(* _reconcile_cancellations and _reconcile_failed_runs on a run that gives *)
(* them something to do.                                                   *)
Reconcile(p, r) ==
    /\ up[p] /\ Unlocked(p)
    /\ sweep[p].mode = "none"
    /\ runStatus[r] \in {"cancelling", "cancelled", "failed"}
    /\ \/ r \notin denied[p]
       \/ PendingOf(r) # {}
       \/ runStatus[r] = "cancelling"
    /\ sweep' = [sweep EXCEPT ![p] = [IdleSweep EXCEPT !.run = r, !.mode =
                    IF runStatus[r] = "failed" THEN "denyFail"
                                               ELSE "denyCancel"]]
    /\ UNCHANGED <<claim, factVars, sweepFrame>>

(* _route_event on run.failure.requested: _finalize_failed_run begins.     *)
RouteFailure(p, r) ==
    /\ up[p] /\ Unlocked(p)
    /\ sweep[p].mode = "none"
    /\ r \in failReq \ routed[p]
    /\ routed' = [routed EXCEPT ![p] = @ \cup {r}]
    /\ sweep' = IF runStatus[r] \in {"succeeded", "cancelled"} THEN sweep
                ELSE [sweep EXCEPT ![p] = [IdleSweep EXCEPT !.run = r,
                                             !.mode = "denyFail"]]
    /\ UNCHANGED <<claim, factVars, up, scan, denied, renewing, thrVars, ckptVars,
                   histVars>>

(* ResidentScheduler.cancel_run: no new reservation of the run in this     *)
(* process, and its contexts are cancelled.                                *)
DenyRun(p) ==
    /\ up[p] /\ Unlocked(p)
    /\ sweep[p].mode \in {"denyCancel", "denyFail"}
    /\ denied' = [denied EXCEPT ![p] = @ \cup {sweep[p].run}]
    /\ ctx' = [ctx EXCEPT ![p] =
                 [d \in Deliveries |->
                    IF pc[p][d] # "none" /\ RunOf(d) = sweep[p].run /\ @[d] = "none"
                    THEN "run" ELSE @[d]]]
    /\ sweep' = [sweep EXCEPT ![p].mode =
                    IF @ = "denyFail" THEN "fail" ELSE "cancel"]
    /\ UNCHANGED <<claim, factVars, up, scan, routed, renewing, pc, held, lost,
                   attempt, ckptVars, histVars>>

RunMail(p, i) == Mail(WorkerSeq[i]) \cap PendingOf(sweep[p].run)

(* Read the next mailbox that has mail of the run.                         *)
SweepMailbox(p) ==
    /\ up[p]
    /\ sweep[p].mode \in {"cancel", "fail"}
    /\ sweep[p].todo = {}
    /\ \E i \in sweep[p].at + 1 .. Len(WorkerSeq) :
          /\ RunMail(p, i) # {}
          /\ \A j \in sweep[p].at + 1 .. i - 1 : RunMail(p, j) = {}
          /\ sweep' = [sweep EXCEPT ![p].at = i, ![p].todo = RunMail(p, i)]
    /\ UNCHANGED <<claim, factVars, sweepFrame>>

(* Mutant: claims that have expired protect a delivery like live ones.     *)
UnfencedAckNever(d) ==
    acked' = IF claim[DeliveryKey(d)].state # "active" THEN acked \cup {d}
                                                       ELSE acked

(* store.append of an acknowledgement that no claim accompanies.           *)
UnfencedAck(d) ==
    acked' = IF \/ claim[DeliveryKey(d)].state # "active"
                \/ /\ ~claim[DeliveryKey(d)].live
                   /\ runStatus[RunOf(d)] \in {"cancelling", "cancelled", "failed"}
             THEN acked \cup {d} ELSE acked

(* _cancel_queued_deliveries: claimed deliveries are left to their owner.  *)
CancelDelivery(p) ==
    /\ up[p]
    /\ sweep[p].mode = "cancel"
    /\ \E d \in Deliveries :
          /\ Oldest(d, sweep[p].todo)
          /\ UnfencedAck(d)
          /\ sweep' = [sweep EXCEPT ![p].todo = @ \ {d}]
    /\ UNCHANGED <<claim, sentAt, dispatched, failures, deadLettered, runStatus,
                   failReq, sweepFrame>>

(* _fail_queued_deliveries: take the claims away, ...                      *)
FenceDelivery(p) ==
    /\ up[p]
    /\ sweep[p].mode = "fail"
    /\ ~sweep[p].fenced
    /\ \E d \in Deliveries :
          /\ Oldest(d, sweep[p].todo)
          /\ IF claim[DeliveryKey(d)].state = "active" THEN FailBundle(d)
                                                       ELSE UNCHANGED claim
    /\ sweep' = [sweep EXCEPT ![p].fenced = TRUE]
    /\ UNCHANGED <<factVars, sweepFrame>>

(* ... then acknowledge, unless someone claimed it again in between.       *)
DropDelivery(p) ==
    /\ up[p]
    /\ sweep[p].mode = "fail"
    /\ sweep[p].fenced
    /\ \E d \in Deliveries :
          /\ Oldest(d, sweep[p].todo)
          /\ UnfencedAck(d)
          /\ sweep' = [sweep EXCEPT ![p].todo = @ \ {d}, ![p].fenced = FALSE]
    /\ UNCHANGED <<claim, sentAt, dispatched, failures, deadLettered, runStatus,
                   failReq, sweepFrame>>

Swept(p) ==
    /\ sweep[p].todo = {}
    /\ \A i \in sweep[p].at + 1 .. Len(WorkerSeq) : RunMail(p, i) = {}

(* The guards of _finalize_cancelled_run.                                  *)
Drained(p) ==
    LET r == sweep[p].run IN
    PendingOf(r) = {} /\ ~\E d \in InFlight(p) : RunOf(d) = r

(* Mutant: the failure of a run waits for its deliveries once, then is     *)
(* given up, as a cancellation is.                                         *)
EndSweepDrained(p) ==
    /\ up[p] /\ Unlocked(p)
    /\ sweep[p].mode \in {"cancel", "fail"}
    /\ Swept(p)
    /\ sweep' = [sweep EXCEPT ![p] =
                    IF ~Drained(p) THEN IdleSweep
                    ELSE [@ EXCEPT !.mode = IF sweep[p].mode = "fail"
                                            THEN "closeFailed"
                                            ELSE "closeCancelled"]]
    /\ UNCHANGED <<claim, factVars, sweepFrame>>

EndSweep(p) ==
    /\ up[p] /\ Unlocked(p)
    /\ sweep[p].mode \in {"cancel", "fail"}
    /\ Swept(p)
    /\ \/ /\ sweep[p].mode = "fail"
          /\ sweep' = [sweep EXCEPT ![p].mode = "closeFailed"]
       \/ /\ sweep[p].mode = "cancel" /\ Drained(p)
          /\ sweep' = [sweep EXCEPT ![p].mode = "closeCancelled"]
       \/ /\ sweep[p].mode = "cancel" /\ ~Drained(p)
          /\ sweep' = [sweep EXCEPT ![p] = IdleSweep]
    /\ UNCHANGED <<claim, factVars, sweepFrame>>

CloseRun(p) ==
    /\ up[p]
    /\ sweep[p].mode \in {"closeFailed", "closeCancelled"}
    /\ runStatus' = [runStatus EXCEPT ![sweep[p].run] =
                        ProjectRun(@, IF sweep[p].mode = "closeFailed"
                                      THEN "run.failed" ELSE "run.cancelled")]
    /\ sweep' = [sweep EXCEPT ![p] = IdleSweep]
    /\ UNCHANGED <<claim, sentAt, acked, dispatched, failures, deadLettered,
                   failReq, sweepFrame>>

-----------------------------------------------------------------------------
(* Checkpoints: create_checkpoint.  The barrier is one field of the run:   *)
(* the request that writes it last replaces the barrier of any other.      *)

ckptFrame == <<claim, factVars, procVars, thrVars, histVars>>

AcquireBarrier(c) ==
    /\ ckpt[c] = "idle"
    /\ ckpt' = [ckpt EXCEPT ![c] = "waiting"]
    /\ barrier' = [barrier EXCEPT ![CkptRun[c]] = c]
    /\ UNCHANGED ckptFrame

(* _wait_for_checkpoint_quiescence finds no live agent-run claim.          *)
Quiesce(c) ==
    /\ ckpt[c] = "waiting"
    /\ \A d \in Deliveries : RunOf(d) = CkptRun[c] => ~Taken(AgentRunKey(d))
    /\ ckpt' = [ckpt EXCEPT ![c] = "capturing"]
    /\ UNCHANGED <<barrier, ckptFrame>>

(* The finally clause, after the capture or after a timeout.               *)
ReleaseBarrier(c) ==
    /\ ckpt[c] \in {"waiting", "capturing"}
    /\ ckpt' = [ckpt EXCEPT ![c] = "done"]
    /\ barrier' = [barrier EXCEPT ![CkptRun[c]] = IF @ = c THEN None ELSE @]
    /\ UNCHANGED ckptFrame

(* The Runtime of the request dies: the finally clause does not run.       *)
LoseRequest(c) ==
    /\ ckpt[c] \in {"waiting", "capturing"}
    /\ ckpt' = [ckpt EXCEPT ![c] = "done"]
    /\ UNCHANGED <<barrier, ckptFrame>>

(* Five minutes have passed since the barrier was acquired, whether its    *)
(* request is gone or is still waiting or capturing: claim_work lets work  *)
(* in again.                                                               *)
ExpireBarrier(c) ==
    /\ barrier[CkptRun[c]] = c
    /\ barrier' = [barrier EXCEPT ![CkptRun[c]] = None]
    /\ UNCHANGED <<ckpt, ckptFrame>>

-----------------------------------------------------------------------------
Dispatcher(p) ==
    \/ Visit(p) \/ EndScan(p) \/ SkipDelivery(p) \/ NextSlot(p)
    \/ \E d \in Deliveries : Reserve(p, d)

(* The steps a thread takes by itself; the others are the handler's choice. *)
ThreadStep(p, d) ==
    \/ ReadAttempt(p, d) \/ RecordDispatch(p, d) \/ CloseDeadLetter(p, d)
    \/ \E e \in Outcomes : Commit(p, d, e)
    \/ HandlerFenced(p, d) \/ HandlerReturn(p, d)
    \/ DeadLetter(p, d) \/ FailRunForDeadLetter(p, d)
    \/ Ack(p, d) \/ Release(p, d) \/ PopReservation(p, d)

HandlerChoice(p, d) ==
    \/ \E e \in Outcomes : HandlerWrite(p, d, e)
    \/ BeginCommit(p, d) \/ HandlerInjectedCrash(p, d) \/ HandlerFails(p, d)

Renewer(p) ==
    \/ RenewSnapshot(p)
    \/ \E d \in Deliveries : Renew(p, d) \/ RenewUnconfirmed(p, d)

Sweeper(p) ==
    \/ \E r \in Runs : Reconcile(p, r) \/ RouteFailure(p, r)
    \/ RecordCancel(p) \/ DenyRun(p) \/ SweepMailbox(p) \/ CancelDelivery(p)
    \/ FenceDelivery(p) \/ DropDelivery(p) \/ EndSweep(p) \/ CloseRun(p)

Checkpoint(c) ==
    \/ AcquireBarrier(c) \/ Quiesce(c) \/ ReleaseBarrier(c)
    \/ LoseRequest(c) \/ ExpireBarrier(c)

Next ==
    \/ \E d \in Deliveries : Send(d) \/ Expire(d)
    \/ \E p \in Procs :
          \/ Dispatcher(p) \/ Renewer(p) \/ Sweeper(p) \/ Crash(p)
          \/ \E r \in Runs : RequestCancel(p, r)
          \/ \E d \in Deliveries : ThreadStep(p, d) \/ HandlerChoice(p, d)
    \/ \E c \in Ckpts : Checkpoint(c)

Spec == Init /\ [][Next]_vars

(* The serving thread keeps going round its loop and releases _condition   *)
(* between two scans, so that everybody who waits for it gets it (SF);     *)
(* handlers return; the deadlines of claims nobody renews and of barriers  *)
(* pass.  Handlers' writes, faults, crashes, requests and the renewer are  *)
(* not assumed to happen.                                                  *)
Fairness ==
    /\ \A p \in Procs : WF_vars(Dispatcher(p)) /\ SF_vars(Sweeper(p))
    /\ \A p \in Procs, d \in Deliveries : SF_vars(ThreadStep(p, d))
    /\ \A d \in Deliveries : WF_vars(Abandoned(d) /\ Expire(d))
    /\ \A c \in Ckpts : WF_vars(ExpireBarrier(c))

FairSpec == Spec /\ Fairness

-----------------------------------------------------------------------------
(* The shape of the state, in the parts the actions change together.       *)
ClaimType == claim \in [Keys -> Rows]

FactType ==
    /\ sentAt \in [Deliveries -> Nat]
    /\ acked \subseteq Deliveries
    /\ dispatched \in [Deliveries -> Nat]
    /\ failures \in [Deliveries -> Nat]
    /\ deadLettered \subseteq Deliveries
    /\ runStatus \in [Runs -> RunStates]
    /\ failReq \subseteq Runs

CkptType ==
    /\ barrier \in [Runs -> Ckpts \cup {None}]
    /\ ckpt \in [Ckpts -> {"idle", "waiting", "capturing", "done"}]

Scans == [cursor : Nat, off : Nat, view : SUBSET Deliveries, slot : Nat]

Sweeps == [mode : SweepModes, api : BOOLEAN, run : Runs \cup {None}, at : Nat,
           todo : SUBSET Deliveries, fenced : BOOLEAN]

ProcType ==
    /\ up \in [Procs -> BOOLEAN]
    /\ scan \in [Procs -> Scans]
    /\ denied \in [Procs -> SUBSET Runs]
    /\ routed \in [Procs -> SUBSET Runs]
    /\ sweep \in [Procs -> Sweeps]
    /\ \A p \in Procs : sweep[p].mode # "none" => sweep[p].run \in Runs

RenewType ==
    /\ renewing = [p \in Procs |-> renewing[p]]
    /\ \A p \in Procs :
          /\ renewing[p] = [d \in Deliveries |-> renewing[p][d]]
          /\ \A d \in Deliveries : IsBundle(renewing[p][d], d)

HeldType ==
    /\ held = [p \in Procs |-> held[p]]
    /\ \A p \in Procs : held[p] = [d \in Deliveries |-> held[p][d]]
    /\ \A p \in Procs, d \in Deliveries : IsBundle(held[p][d], d)

ThreadType ==
    /\ pc \in [Procs -> [Deliveries -> PCs]]
    /\ ctx \in [Procs -> [Deliveries -> {"none", "run", "renewal"}]]
    /\ lost \in [Procs -> [Deliveries -> BOOLEAN]]
    /\ attempt \in [Procs -> [Deliveries -> Nat]]

HistType ==
    /\ lastWrite \in [AgentRuns -> Nat]
    /\ faults \in 0 .. MaxFaults

(* Type invariant: every variable, the claim table and the memory of each  *)
(* process and thread included, keeps its shape; a sweep names a run.      *)
TypeOK ==
    /\ ClaimType /\ FactType /\ CkptType /\ ProcType /\ RenewType
    /\ HeldType /\ ThreadType /\ HistType

(* Two reservations, of one process or of two, never both hold claims that *)
(* are current on a common key: no delivery is executed twice at a time,   *)
(* no agent run is entered twice and no worker slot is used twice, however *)
(* claims expire and processes die (claim_work, _work_claims_are_current). *)
MutualExclusion ==
    \A p, q \in Procs, d, e \in Deliveries :
        (Holds(p, d) /\ Holds(q, e) /\ <<p, d>> # <<q, e>>) =>
            DOMAIN held[p][d] \cap DOMAIN held[q][e] = {}

(* max_concurrency of a worker bounds its current executions over all the  *)
(* processes together (the worker-slot keys of _claim_keys).               *)
WorkerCapacity ==
    \A w \in Workers :
        Cardinality({ x \in Procs \X Deliveries :
                        WorkerOf[x[2]] = w /\ Holds(x[1], x[2]) }) <= Capacity[w]

(* A live claim has a reservation behind it that will finish it, or an     *)
(* owner that is gone: no exit of _execute_reserved leaves a claim to time *)
(* out while its process goes on.                                          *)
NoLeakedClaim ==
    \A k \in Keys : Taken(k) =>
        LET p == claim[k].owner IN
        \/ ~up[p]
        \/ \E d \in Deliveries : /\ pc[p][d] # "none"
                                 /\ k \in DOMAIN held[p][d]
                                 /\ held[p][d][k] = claim[k].token

(* What makes fencing work.  No reservation holds a token that claim_work  *)
(* has not given out for the key, ...                                      *)
TokensIssued ==
    \A p \in Procs, d \in Deliveries : \A k \in DOMAIN held[p][d] :
        held[p][d][k] <= claim[k].token

(* ... no two reservations ever hold the same token of a key, ...          *)
TokensDistinct ==
    \A p, q \in Procs, d, e \in Deliveries : <<p, d>> # <<q, e>> =>
        \A k \in DOMAIN held[p][d] \cap DOMAIN held[q][e] :
            held[p][d][k] # held[q][e][k]

(* ... and no write carries a token newer than the newest given out.       *)
WritesIssued ==
    \A d \in Deliveries : lastWrite[AgentRunOf[d]] <= claim[AgentRunKey(d)].token

(* The inductive invariant of the fencing tokens (claim_work increments,   *)
(* no other statement touches fencing_token).                              *)
FenceInv == TokensIssued /\ TokensDistinct /\ WritesIssued

(* Fencing: the writes accepted into an agent run carry tokens that never  *)
(* go back, so an owner that lost its claim cannot write after the owner   *)
(* that took over (append, commit_command).                                *)
WritesInTokenOrder ==
    [][\A a \in AgentRuns : lastWrite'[a] >= lastWrite[a]]_lastWrite

(* While a checkpoint is captured behind its own barrier, which neither a  *)
(* later request replaced nor the deadline lifted, no reservation of its   *)
(* run holds current claims: the barrier and the quiescence check together *)
(* exclude every fenced write (claim_work, _wait_for_checkpoint_quiescence).*)
CaptureIsQuiet ==
    \A c \in Ckpts, p \in Procs, d \in Deliveries :
        ckpt[c] = "capturing" /\ barrier[CkptRun[c]] = c /\ RunOf(d) = CkptRun[c] =>
            ~Holds(p, d)

(* The checkpoint design says it of every capture: while one is taken the  *)
(* run has no worker that is executing and no delivery claim.              *)
EveryCaptureIsQuiet ==
    \A c \in Ckpts, p \in Procs, d \in Deliveries :
        ckpt[c] = "capturing" /\ RunOf(d) = CkptRun[c] => ~Holds(p, d)

(* Every delivery that is sent is acknowledged in the end, through crashes *)
(* of processes, lost claims and failing handlers.                         *)
EveryDeliveryEnds == \A d \in Deliveries : sentAt[d] > 0 ~> d \in acked

(* An unacknowledged dead letter ends its run, also when the process dies  *)
(* between the two facts.                                                  *)
DeadLetterEndsRun ==
    \A d \in Deliveries : d \in deadLettered \ acked
                            ~> runStatus[RunOf(d)] \in Terminal

(* A run that is being cancelled becomes cancelled, whoever holds claims   *)
(* on its deliveries and whichever process dies.                           *)
CancellationEnds ==
    \A r \in Runs : runStatus[r] = "cancelling" ~> runStatus[r] = "cancelled"

(* A requested failure of a run is carried out.                            *)
RequestedFailureEnds == \A r \in Runs : r \in failReq ~> runStatus[r] \in Terminal

-----------------------------------------------------------------------------
(* The scheduler implements FencedWork: a key is owned while its row is    *)
(* active and its deadline ahead, and its epoch is its fencing token.      *)
OwnerOf(k) == IF Taken(k) THEN claim[k].owner ELSE None

Fenced == INSTANCE FencedWork WITH
    Owners    <- Procs,
    Nobody    <- None,
    WorkKeys  <- Keys,
    Agents    <- AgentRuns,
    AgentKey  <- [a \in AgentRuns |-> <<"agent-run", a, 0>>],
    owner     <- [k \in Keys |-> OwnerOf(k)],
    epoch     <- [k \in Keys |-> claim[k].token]

(* Refinement: whatever expires, crashes, is swept or renewed late, keys   *)
(* are granted whole bundles at a time to one owner, and a fenced write    *)
(* (append, commit_command) is a write of the present owner of the agent   *)
(* run's key.                                                              *)
ImplementsFencedWork == Fenced!FencedSpec

=============================================================================
