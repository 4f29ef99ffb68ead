---------------------------- MODULE Checkpoints ----------------------------
(***************************************************************************)
(* Composite checkpoints: create_checkpoint and restore_checkpoint of      *)
(* ResidentRuntime, CheckpointService (control_plane/checkpoints.py) and   *)
(* WorkspaceSnapshotStore (core/checkpoints/workspace.py), beside the run  *)
(* they capture and the fork they start.                                   *)
(*                                                                         *)
(* The source run is a single agent: each turn asks the model and runs one *)
(* tool (module AgentLoop in detail); its facts are fenced by the work     *)
(* claim of the agent run, its effects on the workspace and on the outside *)
(* world are not.  A content stands for the bytes of a whole workspace and *)
(* for the digest of these bytes.  The checkpoint.* facts are kept apart   *)
(* from the other facts of the run, in barrier, contract and committed.    *)
(***************************************************************************)
EXTENDS Integers, Sequences, FiniteSets

CONSTANTS
    Workers,    \* handler threads of the source run
    Creators,   \* HTTP threads that create checkpoints
    Restorers,  \* HTTP threads that restore them
    Requests,   \* checkpoint request ids; each is restored under one restore id
    Contents,   \* contents of a workspace
    Fixture,    \* the one a run starts with
    Levels,     \* side_effect_level of the tools the model may call
    Garbage,    \* what a damaged object holds
    None,
    MaxTurns,   \* bound: turns of the source run
    MaxFaults   \* bound: crashes, claims and barriers that run out under a
                \* running call, corrupted objects

Callers == Creators \cup Restorers

ASSUME CheckpointConstants ==
    /\ Fixture \in Contents
    /\ {None, Garbage} \cap (Contents \cup Workers \cup Callers) = {}
    /\ Workers \cap Callers = {} /\ "nobody" \notin Workers
    /\ {MaxTurns, MaxFaults} \subseteq Nat

VARIABLES
    log,        \* the facts of the source run
    ledger,     \* operation ledger: state and result of each turn's operation
    ws,         \* the workspace of the source run
    world,      \* turns whose tool took effect outside the workspace
    worker,     \* what each handler thread does, in which turn
    holder,     \* the claim of the agent run: a worker, "nobody" or None
    barrier,    \* checkpoint_barrier_id of the run, or None
    objects,    \* checkpoint_objects: what each object holds, or None
    contract,   \* the contract in checkpoint.requested of each request
    committed,  \* requests with checkpoint.committed
    quiet,      \* history: the contract was captured behind its own barrier
    job,        \* the call each HTTP thread is in; kept: history, as above
    fork,       \* the run each restore creates
    faults      \* faults so far

source == <<log, ledger, ws, world, worker, holder>>
capture == <<barrier, contract, committed, quiet>>
vars == <<source, capture, objects, job, fork, faults>>

Turns == 1 .. MaxTurns
OperationEnds == {"operation.completed", "operation.failed", "operation.unknown"}
Results == {"operation.completed", "operation.failed"}
LocalEffects == {"workspace_write", "local_process"}
ReadOnly == {"none", "browser_read"}

Fact(type, t, data) == [type |-> type, turn |-> t, data |-> data]
NoOperation == [state |-> "none", result |-> None]
Resting == [at |-> "idle", turn |-> 0, out |-> None]
NoContract == [count |-> 0, object |-> None, blockers |-> {}]
NoFork == [ws |-> None, facts |-> {}, delivered |-> FALSE, began |-> None]
NoCall == [at |-> "idle", q |-> None, count |-> 0, object |-> None,
           kept |-> FALSE]

Init ==
    /\ log = <<Fact("run.created", 0, None)>>
    /\ ledger = [t \in Turns |-> NoOperation]
    /\ ws = Fixture
    /\ world = {}
    /\ worker = [w \in Workers |-> Resting]
    /\ holder = None
    /\ barrier = None
    /\ objects = [id \in Contents |-> None]
    /\ contract = [q \in Requests |-> NoContract]
    /\ committed = {}
    /\ quiet = [q \in Requests |-> FALSE]
    /\ job = [c \in Callers |-> NoCall]
    /\ fork = [q \in Requests |-> NoFork]
    /\ faults = 0

Fault == faults < MaxFaults /\ faults' = faults + 1

-----------------------------------------------------------------------------
(* Reading a log.                                                          *)
TurnsWith(l, types) == { l[i].turn : i \in { j \in DOMAIN l : l[j].type \in types } }
DataOf(l, type, t) ==
    l[CHOOSE i \in DOMAIN l : l[i].type = type /\ l[i].turn = t].data
ResultOf(l, t) ==
    l[CHOOSE i \in DOMAIN l : l[i].type \in Results /\ l[i].turn = t].data
OpenOperations(l) == TurnsWith(l, {"operation.started"}) \ TurnsWith(l, OperationEnds)
Unknown(l) == TurnsWith(l, {"operation.unknown"})

(* The workspace a log tells of: what the last write left, completed or    *)
(* failed; a command that fails may have changed files all the same.       *)
ContentOf(l) ==
    LET writes == { t \in TurnsWith(l, Results) :
                       DataOf(l, "operation.started", t) \in LocalEffects }
    IN  IF writes = {} THEN Fixture
        ELSE ResultOf(l, CHOOSE t \in writes : \A u \in writes : u <= t)

-----------------------------------------------------------------------------
(* The source run.  claim_work admits no handler while a barrier is in     *)
(* force.                                                                  *)
Goto(w, next) == worker' = [worker EXCEPT ![w].at = next]
Is(w, at) == worker[w].at = at
Has(w, type) == worker[w].turn \in TurnsWith(log, {type})

others == <<capture, objects, job, fork, faults>>

Turn == Cardinality(TurnsWith(log, OperationEnds)) + 1
Pending == Turn <= MaxTurns /\ Unknown(log) = {}

Admitted == holder = None /\ Pending /\ barrier = None

ClaimTurn(w) ==
    /\ Is(w, "idle") /\ Admitted
    /\ holder' = w
    /\ worker' = [worker EXCEPT ![w] = [Resting EXCEPT !.at = "turn", !.turn = Turn]]
    /\ UNCHANGED <<log, ledger, ws, world, others>>

(* A fact of a handler is written under its claim; a handler that lost the *)
(* claim stops.                                                            *)
Write(w, type, data, next) ==
    \/ /\ holder = w
       /\ log' = Append(log, Fact(type, worker[w].turn, data))
       /\ worker' = [worker EXCEPT ![w] = IF next = "idle" THEN Resting
                                          ELSE [@ EXCEPT !.at = next]]
       /\ holder' = IF next = "idle" THEN None ELSE holder
    \/ /\ holder # w
       /\ worker' = [worker EXCEPT ![w] = Resting]
       /\ UNCHANGED <<log, holder>>

AskModel(w) ==
    /\ Is(w, "turn") /\ ~Has(w, "model.requested")
    /\ Write(w, "model.requested", None, "asked")
    /\ UNCHANGED <<ledger, ws, world, others>>

(* A turn that was interrupted goes on where its log ends.                 *)
ResumeTurn(w) ==
    /\ Is(w, "turn") /\ Has(w, "model.requested") /\ ~Has(w, "operation.started")
    /\ Goto(w, IF Has(w, "model.completed") THEN "act" ELSE "asked")
    /\ UNCHANGED <<log, ledger, ws, world, holder, others>>

ModelAnswers(w) ==
    /\ Is(w, "asked")
    /\ \E level \in Levels : Write(w, "model.completed", level, "act")
    /\ UNCHANGED <<ledger, ws, world, others>>

(* on_started: the ledger row exists, then operation.started and           *)
(* tool.requested are recorded, each in a transaction of its own.  A row   *)
(* somebody else started is not started again: its end is unknown.         *)
StartOperation(w) ==
    LET t == worker[w].turn IN
    /\ Is(w, "act")
    /\ \/ /\ ledger[t] = NoOperation
          /\ ledger' = [ledger EXCEPT ![t].state = "started"]
          /\ Write(w, "operation.started", DataOf(log, "model.completed", t), "started")
       \/ /\ ledger[t] # NoOperation
          /\ Write(w, "operation.unknown", None, "idle")
          /\ UNCHANGED ledger
    /\ UNCHANGED <<ws, world, others>>

RequestTool(w) ==
    /\ Is(w, "started")
    /\ Write(w, "tool.requested", None, "run")
    /\ UNCHANGED <<ledger, ws, world, others>>

(* The tool runs, whoever holds the claim by now.  It succeeds, reports a  *)
(* failure or ends in OperationOutcomeUnknown.  A failure is any exception *)
(* and any status but ok, a lost connection to an outside tool included:   *)
(* it tells nothing of what the tool did before.                           *)
RunTool(w, outcome) ==
    LET t == worker[w].turn
        level == DataOf(log, "operation.started", t)
    IN
    /\ Is(w, "run")
    /\ \E o \in IF level \in LocalEffects THEN Contents ELSE {ws} :
          /\ ws' = o
          /\ worker' = [worker EXCEPT ![w].at = outcome, ![w].out = o]
    /\ \/ level \notin LocalEffects \cup ReadOnly /\ world' = world \cup {t}
       \/ /\ outcome # "succeeded" \/ level \in LocalEffects \cup ReadOnly
          /\ UNCHANGED world
    /\ UNCHANGED <<log, ledger, holder, others>>

(* The ledger keeps the end of an operation it has not been told before.   *)
SettleLedger(w) ==
    LET t == worker[w].turn IN
    /\ worker[w].at \in {"succeeded", "failed", "unsure"}
    /\ ledger' = [ledger EXCEPT ![t] = [state |-> worker[w].at, result |-> worker[w].out]]
    /\ Goto(w, CASE Is(w, "succeeded") -> "result"
                 [] Is(w, "failed") -> "refused"
                 [] Is(w, "unsure") -> "doubt")
    /\ UNCHANGED <<log, ws, world, holder, others>>

RecordResult(w) ==
    LET t == worker[w].turn IN
    /\ \/ Is(w, "result") /\ Write(w, "tool.completed", None, "close")
       \/ Is(w, "close") /\ Write(w, "operation.completed", ledger[t].result, "idle")
       \/ Is(w, "refused") /\ Write(w, "tool.failed", None, "closeFailed")
       \/ Is(w, "closeFailed") /\ Write(w, "operation.failed", ledger[t].result, "idle")
       \/ Is(w, "doubt") /\ Write(w, "operation.unknown", None, "idle")
    /\ UNCHANGED <<ledger, ws, world, others>>

(* _recover_pipeline_operation: the ledger tells how the operation ended.  *)
RecoverOperation(w) ==
    LET t == worker[w].turn IN
    /\ Is(w, "turn") /\ t \in OpenOperations(log)
    /\ \/ ledger[t].state = "succeeded" /\ Write(w, "tool.completed", None, "close")
       \/ /\ ledger[t].state = "failed"
          /\ Write(w, "operation.failed", ledger[t].result, "idle")
       \/ /\ ledger[t].state \notin {"succeeded", "failed"}
          /\ Write(w, "operation.unknown", None, "idle")
    /\ UNCHANGED <<ledger, ws, world, others>>

WorkerCrash(w) ==
    /\ ~Is(w, "idle") /\ Fault
    /\ worker' = [worker EXCEPT ![w] = Resting]
    /\ holder' = IF holder = w THEN "nobody" ELSE holder
    /\ UNCHANGED <<log, ledger, ws, world, capture, objects, job, fork>>

(* A claim runs out: nobody renews it, or its renewal failed.              *)
LapseOrphan ==
    /\ holder = "nobody" /\ holder' = None
    /\ UNCHANGED <<log, ledger, ws, world, worker, others>>

LapseClaim ==
    /\ holder \in Workers /\ Fault /\ holder' = None
    /\ UNCHANGED <<log, ledger, ws, world, worker, capture, objects, job, fork>>

-----------------------------------------------------------------------------
(* create_checkpoint: a barrier, the wait for the claims of the run, the   *)
(* capture, and the finally clause.  The barrier is one field of the run:  *)
(* a later one overwrites it, and only its own release clears it.          *)
Calling(c, at) == job[c].at = at
Continue(c, at) == job' = [job EXCEPT ![c].at = at]

AcquireBarrier(c, q) ==
    /\ Calling(c, "idle")
    /\ barrier' = c
    /\ job' = [job EXCEPT ![c] = [NoCall EXCEPT !.at = "wait", !.q = q]]
    /\ UNCHANGED <<source, contract, committed, quiet, objects, fork, faults>>

Quiesce(c) ==
    /\ Calling(c, "wait")
    /\ Continue(c, IF holder = None THEN "create" ELSE "leave")
    /\ UNCHANGED <<source, capture, objects, fork, faults>>

(* Mutant: open tool requests do not matter.                               *)
SafeButForTools(l) ==
    /\ OpenOperations(l) = {}
    /\ TurnsWith(l, {"model.requested"}) \subseteq TurnsWith(l, {"model.completed"})

(* _assert_safe.                                                           *)
Safe(l) ==
    /\ OpenOperations(l) = {}
    /\ TurnsWith(l, {"tool.requested"}) \subseteq TurnsWith(l, {"tool.completed", "tool.failed"})
    /\ TurnsWith(l, {"model.requested"}) \subseteq TurnsWith(l, {"model.completed"})

(* A request that is on record is only committed again; otherwise the log  *)
(* is read and must be at a safe boundary.                                 *)
ReadBoundary(c) ==
    /\ Calling(c, "create")
    /\ \/ contract[job[c].q] # NoContract /\ Continue(c, "commit")
       \/ /\ contract[job[c].q] = NoContract /\ Safe(log)
          /\ job' = [job EXCEPT ![c].at = "scan", ![c].count = Len(log)]
       \/ contract[job[c].q] = NoContract /\ ~Safe(log) /\ Continue(c, "leave")
    /\ UNCHANGED <<source, capture, objects, fork, faults>>

(* Mutant: the digest covers the paths and not the bytes.                  *)
DigestOfPaths(content) == Fixture

(* _workspace_digest tells any two workspaces apart.                       *)
Digest(content) == content

(* WorkspaceSnapshotStore.verify: what the object holds has its id.        *)
Verified(id) == objects[id] # None /\ Digest(objects[id]) = id

(* WorkspaceSnapshotStore.create: an object that exists is verified, a new *)
(* one is published whole, by a rename.                                    *)
Publish(content) ==
    objects' = [objects EXCEPT ![Digest(content)] = IF @ = None THEN content ELSE @]
Publishable(content) == objects[Digest(content)] = None \/ Verified(Digest(content))

Scan(c) ==
    /\ Calling(c, "scan")
    /\ Publish(ws)
    /\ job' = [job EXCEPT ![c].object = Digest(ws), ![c].kept = (barrier = c),
                          ![c].at = IF Publishable(ws) THEN "request" ELSE "leave"]
    /\ UNCHANGED <<source, capture, fork, faults>>

(* Mutant: only an operation whose end is unknown blocks.                  *)
UnknownBlocksOnly(level, end) ==
    IF end = "operation.unknown" THEN "unknown" ELSE "no_effect"

(* _effect_boundary: what became of an operation, and whether a fork may   *)
(* pass over it.                                                           *)
Disposition(level, end) ==
    CASE end = "operation.failed"   -> "no_effect"
      [] end = "operation.unknown"  -> "unknown"
      [] OTHER -> CASE level \in ReadOnly      -> "read_only"
                    [] level \in LocalEffects  -> "workspace_restored"
                    [] level = "irreversible"  -> "irreversible"
                    [] level \in {"idempotent_external", "compensatable"}
                                               -> "requires_reconciliation"
                    [] OTHER                   -> "unknown"

Blockers(l) ==
    { t \in TurnsWith(l, {"operation.started"}) :
         \E end \in OperationEnds :
            /\ t \in TurnsWith(l, {end})
            /\ Disposition(DataOf(l, "operation.started", t), end)
                 \in {"unknown", "irreversible", "requires_reconciliation"} }

(* _build_contract: the prefix of events that was read, the snapshot, and  *)
(* what became of every operation in the prefix.                           *)
BuildContract(count, object) ==
    [count |-> count, object |-> object, blockers |-> Blockers(SubSeq(log, 1, count))]

(* checkpoint.requested has one id per request: another contract under it  *)
(* is refused.                                                             *)
RecordRequest(c) ==
    LET q == job[c].q
        new == BuildContract(job[c].count, job[c].object)
    IN
    /\ Calling(c, "request")
    /\ contract' = [contract EXCEPT ![q] = IF @ = NoContract THEN new ELSE @]
    /\ quiet' = [quiet EXCEPT ![q] = IF contract[q] = NoContract THEN job[c].kept ELSE @]
    /\ Continue(c, IF contract[q] \in {NoContract, new} THEN "commit" ELSE "leave")
    /\ UNCHANGED <<source, barrier, committed, objects, fork, faults>>

CommitCheckpoint(c) ==
    LET q == job[c].q IN
    /\ Calling(c, "commit")
    /\ committed' = IF Verified(contract[q].object) THEN committed \cup {q} ELSE committed
    /\ Continue(c, "leave")
    /\ UNCHANGED <<source, barrier, contract, quiet, objects, fork, faults>>

ReleaseBarrier(c) ==
    /\ Calling(c, "leave")
    /\ barrier' = IF barrier = c THEN None ELSE barrier
    /\ job' = [job EXCEPT ![c] = NoCall]
    /\ UNCHANGED <<source, contract, committed, quiet, objects, fork, faults>>

(* expires_at: the barrier of a call that is gone, or of a call that takes *)
(* longer than its five minutes.                                           *)
Creating == {"wait", "create", "scan", "request", "commit", "leave"}
Abandoned == barrier # None /\ job[barrier].at \notin Creating

(* Mutant: a barrier has no deadline.                                      *)
BarrierForEver == FALSE /\ UNCHANGED vars

ExpireBarrier ==
    /\ Abandoned /\ barrier' = None
    /\ UNCHANGED <<source, contract, committed, quiet, objects, job, fork, faults>>

ExpireUnderCall ==
    /\ barrier # None /\ ~Abandoned /\ Fault /\ barrier' = None
    /\ UNCHANGED <<source, contract, committed, quiet, objects, job, fork>>

-----------------------------------------------------------------------------
(* restore_checkpoint.  The ids of the fork follow from the checkpoint and *)
(* the restore request, so a repeated request takes up the same run.       *)

(* validate_restore.                                                       *)
Restorable(q) ==
    /\ q \in committed
    /\ Verified(contract[q].object)
    /\ contract[q].blockers = {}

Validate(c, q) ==
    /\ Calling(c, "idle") /\ Restorable(q)
    /\ job' = [job EXCEPT ![c] = [NoCall EXCEPT !.at = "workspace", !.q = q]]
    /\ UNCHANGED <<source, capture, objects, fork, faults>>

HangUp(c) == job' = [job EXCEPT ![c] = NoCall]

(* Mutant: a workspace that exists is somebody else's.                     *)
FindNoWorkspace(c) ==
    /\ Calling(c, "workspace")
    /\ IF fork[job[c].q].ws = None THEN Continue(c, "restore") ELSE HangUp(c)
    /\ UNCHANGED <<source, capture, objects, fork, faults>>

(* A workspace that exists is snapshotted, which publishes its object, and *)
(* must be the checkpoint's.                                               *)
FindWorkspace(c) ==
    LET q == job[c].q IN
    /\ Calling(c, "workspace")
    /\ \/ /\ fork[q].ws = None
          /\ Continue(c, "restore")
          /\ UNCHANGED objects
       \/ /\ fork[q].ws # None
          /\ Publish(fork[q].ws)
          /\ IF Publishable(fork[q].ws) /\ Digest(fork[q].ws) = contract[q].object
             THEN Continue(c, "prepare") ELSE HangUp(c)
    /\ UNCHANGED <<source, capture, fork, faults>>

(* WorkspaceSnapshotStore.restore: verified, unpacked aside, verified      *)
(* again, moved to a target that must not exist.                           *)
RestoreWorkspace(c) ==
    LET q == job[c].q
        good == Verified(contract[q].object) /\ fork[q].ws = None
    IN
    /\ Calling(c, "restore")
    /\ \/ /\ good
          /\ fork' = [fork EXCEPT ![q].ws = objects[contract[q].object]]
          /\ Continue(c, "prepare")
       \/ /\ ~good
          /\ HangUp(c)
          /\ UNCHANGED fork
    /\ UNCHANGED <<source, capture, objects, faults>>

RecordFork(c, fact, next) ==
    /\ fork' = [fork EXCEPT ![job[c].q].facts = @ \cup {fact}]
    /\ Continue(c, next)
    /\ UNCHANGED <<source, capture, objects, faults>>

(* _prepare_single_task with a restore contract: the workspace is compared *)
(* once more, then run.created and assignment.created are appended.        *)
PrepareFork(c) ==
    /\ Calling(c, "prepare")
    /\ \/ /\ Digest(fork[job[c].q].ws) = contract[job[c].q].object
          /\ RecordFork(c, "run.created", "assign")
       \/ /\ Digest(fork[job[c].q].ws) # contract[job[c].q].object
          /\ HangUp(c)
          /\ UNCHANGED <<source, capture, objects, fork, faults>>

AssignFork(c) ==
    /\ Calling(c, "assign")
    /\ RecordFork(c, "assignment.created", "record")

CommitRestore(c) ==
    /\ Calling(c, "record")
    /\ RecordFork(c, "checkpoint.restore.committed", "deliver")

Deliver(q) == fork' = [fork EXCEPT ![q].delivered = TRUE]

DeliverFork(c) ==
    /\ Calling(c, "deliver")
    /\ Deliver(job[c].q)
    /\ HangUp(c)
    /\ UNCHANGED <<source, capture, objects, faults>>

(* _reconcile_routes puts every assignment.created into its mailbox, under *)
(* the same delivery id; the assignment of a fork is not held back.        *)
RouteFork(q) ==
    /\ "assignment.created" \in fork[q].facts /\ ~fork[q].delivered
    /\ Deliver(q)
    /\ UNCHANGED <<source, capture, objects, job, faults>>

(* A turn of the fork; the first one notes what it found.                  *)
ForkTurn(q) ==
    /\ fork[q].delivered
    /\ \E o \in Contents :
          fork' = [fork EXCEPT ![q].ws = o, ![q].began = IF @ = None THEN fork[q].ws ELSE @]
    /\ UNCHANGED <<source, capture, objects, job, faults>>

CallerCrash(c) ==
    /\ ~Calling(c, "idle") /\ Fault
    /\ HangUp(c)
    /\ UNCHANGED <<source, capture, objects, fork>>

CorruptObject(id) ==
    /\ objects[id] \in Contents /\ Fault
    /\ objects' = [objects EXCEPT ![id] = Garbage]
    /\ UNCHANGED <<source, capture, job, fork>>

-----------------------------------------------------------------------------
Handler(w) ==
    \/ AskModel(w) \/ ResumeTurn(w) \/ ModelAnswers(w)
    \/ StartOperation(w) \/ RequestTool(w)
    \/ \E outcome \in {"succeeded", "failed", "unsure"} : RunTool(w, outcome)
    \/ SettleLedger(w) \/ RecordResult(w) \/ RecoverOperation(w)

Call(c) ==
    \/ Quiesce(c) \/ ReadBoundary(c) \/ Scan(c) \/ RecordRequest(c)
    \/ CommitCheckpoint(c) \/ ReleaseBarrier(c)
    \/ FindWorkspace(c) \/ RestoreWorkspace(c) \/ PrepareFork(c)
    \/ AssignFork(c) \/ CommitRestore(c) \/ DeliverFork(c)

Next ==
    \/ \E w \in Workers : ClaimTurn(w) \/ Handler(w) \/ WorkerCrash(w)
    \/ LapseOrphan \/ LapseClaim
    \/ \E c \in Callers : \/ Call(c) \/ CallerCrash(c)
    \/ \E c \in Creators, q \in Requests : AcquireBarrier(c, q)
    \/ \E c \in Restorers, q \in Requests : Validate(c, q)
    \/ ExpireBarrier \/ ExpireUnderCall
    \/ \E q \in Requests : RouteFork(q) \/ ForkTurn(q)
    \/ \E id \in Contents : CorruptObject(id)

Spec == Init /\ [][Next]_vars

(* Threads go on, claims and barriers nobody holds run out, the resident   *)
(* loop routes and dispatches in every round, and a client whose restore   *)
(* was cut off repeats it.                                                 *)
FairSpec ==
    /\ Spec
    /\ \A w \in Workers : WF_vars(Handler(w))
    /\ SF_vars(\E w \in Workers : ClaimTurn(w))
    /\ \A c \in Callers : WF_vars(Call(c))
    /\ WF_vars(LapseOrphan) /\ WF_vars(ExpireBarrier)
    /\ \A q \in Requests : /\ WF_vars(RouteFork(q))
                           /\ SF_vars(\E c \in Restorers : Validate(c, q))

-----------------------------------------------------------------------------
(* A contract names the workspace its own event prefix tells of, although  *)
(* the log is read before the files are and a handler that lost its claim  *)
(* may still be running a tool, unless the capture outlived its barrier    *)
(* (create, _assert_safe, checkpoints.py; claim_work, store.py).           *)
SnapshotAtBoundary ==
    \A q \in Requests : contract[q] # NoContract /\ quiet[q] =>
        contract[q].object = Digest(ContentOf(SubSeq(log, 1, contract[q].count)))

(* The first turn of a fork finds, byte for byte, the workspace its source *)
(* had at the boundary, through crashes, repeated requests and damaged     *)
(* objects, and although the router may deliver the assignment before the  *)
(* restore is committed (restore_checkpoint, runtime.py).                  *)
ForkBeginsAtBoundary ==
    \A q \in Requests : fork[q].began # None /\ quiet[q] =>
        fork[q].began = ContentOf(SubSeq(log, 1, contract[q].count))

(* No fork starts behind an effect that left the workspace: a tool that    *)
(* reached the outside world, with a result, in doubt or under a handler   *)
(* that had lost its claim, was not begun before the boundary, unless the  *)
(* tool itself reported a failure there, which counts as no effect         *)
(* (_effect_boundary, validate_restore, checkpoints.py).                   *)
NoForkPastEffect ==
    \A q \in Requests : "run.created" \in fork[q].facts =>
        LET prefix == SubSeq(log, 1, contract[q].count) IN
        world \cap (TurnsWith(prefix, {"operation.started"})
                      \ TurnsWith(prefix, {"operation.failed"})) = {}

(* What the design asks for: an outside call whose outcome is not known    *)
(* bars every fork behind it, whatever the tool reported.  The code takes  *)
(* each report of a failure for no effect (_effect_boundary).              *)
NoForkPastAnyEffect ==
    \A q \in Requests : "run.created" \in fork[q].facts =>
        world \cap TurnsWith(SubSeq(log, 1, contract[q].count), {"operation.started"}) = {}

(* A checkpoint does not freeze its run: a barrier left behind by a crash  *)
(* runs out, and the run finishes or stops at an operation in doubt        *)
(* (create_checkpoint, runtime.py).                                        *)
SourceGoesOn == <>(~Pending)

(* A restore that has brought a workspace back goes through: the fork is   *)
(* delivered in the end, by a repeated request or by the router, unless    *)
(* the object was corrupted meanwhile (restore_checkpoint, runtime.py).    *)
RestoreGoesThrough ==
    \A q \in Requests : fork[q].ws # None
        ~> fork[q].delivered \/ ~Restorable(q)
=============================================================================
