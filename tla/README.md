# Verification of crazy_harness

TLA+ models of the control plane of crazy_harness: the durable scheduler that
hands work to agents, the claims and fencing tokens that protect it, the
cancellation, failure and checkpoint protocols around it, the ledger that pays
for model calls, the agent loop with its tool ledger, the supervisor that plans
the stages of a team and the leases it gives out, the kernel's checks on what
agents submit, and the paired evaluations and campaigns built on top. Small
instances are checked with TLC, and nearly all of the safety properties, from the
scheduler to the campaigns, are proved with TLAPS for every value of the
constants.

## The system

crazy_harness runs teams of LLM agents against one SQLite file. Everything that
must survive is an event in an append-only log or a row of a table in the same
file; processes keep only caches and threads. Several processes may serve the
same file.

| Component | State | Operations | Hard part |
|---|---|---|---|
| event store and projections (`control_plane/store.py`) | event log, projections (run, lease, mailbox, memory, ...) | `append`, `commit_command`, `_project_event`, `rebuild_projections` | a late writer must be rejected inside the transaction |
| work claims (`store.py`, `core/dispatch.py`) | table `work_claims`: owner, fencing token, state, deadline per key | `claim_work`, `renew_work_claims`, `finish_work_claims`, `fail_work_claim_bundle` | expiry, takeover, several keys at once |
| durable mailbox (`core/runtime/mailbox.py`) | sent and acknowledged deliveries | `send`, `pending`, `ack` | at-least-once delivery |
| resident scheduler (`control_plane/runtime.py`) | reservations, executor threads, denied runs, cursors, renewer copy | `_reserve_next_locked`, `_execute_reserved`, renewal, release, dead letter | processes and threads interleave; a process may die anywhere |
| cancellation and failure sweeps (`runtime.py`) | status of the run, sweep in progress | `cancel_run`, `_reconcile_cancellations`, `_reconcile_failed_runs`, `_finalize_*` | must finish although claims belong to others, or to the dead |
| checkpoints and restore (`runtime.py`, `checkpoints.py`, `core/checkpoints/`) | barrier of a run, contracts, content-addressed workspace objects, forks | acquire, wait for quiescence, capture, commit, validate, restore, release | log prefix and files must belong together; a fork must not repeat an outside effect; a crash between any two steps |
| control kernel (`kernel.py`) | command ledger, candidates | `submit`, validation of plans, results, peer messages and of the causes they name, commit | state read in validation, used at commit; recovery writes logs no straight run has |
| supervisor, planning, leases (`runtime.py`, `core/a2a/orchestration.py`) | plan revisions, assignments, leases, capacity waiters | propose, submit, wait, complete, grant, renew, expire, route, reconcile | runs compete for agents; lost wake-ups; late completions |
| team workers (`team_workers.py`) | private logs of assignments and peers | turn, peer request and response, promotion, failure | two threads that wait for each other through the store |
| model-call ledger and governance (`store.py`, `model_governance.py`) | table `model_calls` | reserve, start, fail, recover, reconcile | crash between sending and recording; shared budget |
| agent loop (`core/agents/loop.py`) | the turn, rebuilt from the log at every entry | `run_once`, recovery of a turn | crash between any two facts |
| tool pipeline (`core/tools/pipeline.py`) | operation ledger | authorize, execute, record, recover | an effect that happened but was not recorded |
| paired evaluations (`paired_evals.py`, `core/evals/paired.py`) | facts of a pair and its two arms, claims, reports | create, recover, release, cancel, score | many transactions under a claim that may lapse; several builds over one store |
| campaigns (`eval_campaigns.py`, `core/evals/campaign.py`) | facts of trials, scope, ends | create, advance, observe, cancel, finalize, decide | effects outside the fenced fact; parallel limit counted from facts |
| cooperative scheduler, a2a, memory, skills, context, task packs, API, CLI | see `PROJECT.json` | | mostly sequential |

The parts interact through the store alone. A delivery in a mailbox wakes an
agent run; the scheduler claims three keys for it (the delivery, the agent run,
a slot of the worker), runs the handler in a thread under a dispatch context
that carries the claims, and every `append` inside the handler checks in its
transaction that the claims are still current. The handler is an agent loop or a
supervisor step; it asks the model through the governance layer, submits
commands to the kernel and sends further deliveries. In parallel a renewer
extends the claims, a sweeper carries out cancellations and requested failures,
and a checkpoint request stops the admission of new work.

A team run is driven by its supervisor: it proposes a plan from projections, the
kernel admits it in a transaction that reads the leases again, the facts are
routed into mailboxes, and every end of a lease wakes the supervisor. An
evaluation creates two runs of one task, one with a single agent and one with a
team, and a campaign creates several such pairs; both only call the runtime and
append facts of their own.

What makes the parts correct: one owner at a time per delivery, agent run and
worker slot; no write by a former owner; no claim that outlives its reservation
in a live process; every delivery, cancellation and requested failure ends; a
capture sees no writer; no model call is repeated blindly or given back while it
may be billed; the budgets are never exceeded; a tool runs once, the log says of
its effect what it reported, and an interrupted turn is taken up or stops; an
agent has one lease at a time, a stage one result, and a run that is not over has
somebody who will wake it; what the kernel accepts rests on work that was done,
and honest work is accepted; the arms of a pair start together or not at all and
are judged by the build that made them; a campaign that has ended starts nothing
more, and one that has not ends; a checkpoint is a point of the run's own history
and a fork starts exactly there. Where the code keeps less than this, the exceptions
are named in the properties and listed under Disagreements.

## Modules

| Module | Models | Depends on |
|---|---|---|
| `FencedWork` | the promise: exclusive keys with epochs, and writes only by the present owner | - |
| `WorkClaims` | the `work_claims` table and its transactions | - |
| `Dispatch` | scheduler, mailbox, sweeps, checkpoint barrier, run projection | `WorkClaims`; implements `FencedWork` |
| `DispatchProofs` | theorems about `Dispatch` | `Dispatch` |
| `ModelCalls` | model-call ledger, governance, the asking part of the agent loop | uses the fencing `Dispatch` establishes |
| `ModelCallsProofs` | theorems about `ModelCalls` | `ModelCalls` |
| `AgentLoop` | a single-agent run: turn state machine, tool pipeline and operation ledger, handler | uses the fencing `Dispatch` establishes and the outcomes of `ModelCalls` |
| `AgentLoopProofs` | theorems about `AgentLoop` | `AgentLoop` |
| `StageBoard` | the promise of a team: stages handed to free agents in order, finished or given up, runs closed | - |
| `Team` | supervisor, planning policy, plan validation, leases, team workers' steps, routing, capacity waiters | uses `Dispatch`'s claims (one supervisor step per run, one step per assignment); implements `StageBoard` |
| `TeamProofs` | theorems about `Team` | `Team`, `StageBoard` |
| `Provenance` | an assignment and its peer: private logs with causes, peer exchange, the kernel's checks on both | uses the turns of `AgentLoop` and the leases of `Team` |
| `ProvenanceProofs` | theorems about `Provenance`: what a log may hold, what acceptances rest on | `Provenance` |
| `WakeUpProofs` | theorems about `Provenance`: who still has a wake-up to come, and what the kernel finds in an honest log | `ProvenanceProofs` |
| `PairedEvals` | creation, release, cancellation and scoring of pairs | uses the claims of `WorkClaims` |
| `EvalCampaign` | campaigns of pairs, and the composition with them | `PairedEvals` |
| `EvalProofs` | theorems about pairs and campaigns | `EvalCampaign` |
| `Checkpoints` | checkpoint and restore beside the run they capture and the fork they start | uses the turns of `AgentLoop` |
| `CheckpointsProofs` | theorems about `Checkpoints` | `Checkpoints` |
| `MCDispatch`, `MCModelCalls`, `MCAgentLoop`, `MCTeam`, `MCProvenance`, `MCEvals`, `MCCheckpoints` | instances for TLC | |

### WorkClaims and Dispatch

Each action is one SQLite transaction or one critical section of the process's
`_condition`. Time is reduced to what the code reads of it: whether the deadline
of a claim lies ahead (`live`); `Expire` lets it pass at any moment for the
whole bundle claimed together. `claimed_at`, which identifies a bundle, becomes
the delivery and the token of its key.

* `scan` is the walk of `_reserve_next_locked` over the workers: `Visit` reads a
  mailbox, `SkipDelivery`, `NextSlot` and `Reserve` work through the copy. The
  copy may be stale, as in the code.
* `pc`, `held`, `ctx`, `lost`, `attempt` are the reservation and the local
  variables of `_execute_reserved`: `ReadAttempt`, `RecordDispatch`, the
  handler's writes, `Commit`, `DeadLetter`, `FailRunForDeadLetter`, `Ack`,
  `Release`, `PopReservation`. The handler itself is a choice from `MayDo`
  (append a fact, request the failure of the run, submit a command, succeed,
  raise).
* `renewing` is the renewer's copy; `Renew` and `RenewUnconfirmed` act on the copy
  and may therefore hit a younger reservation of the same delivery.
* `sweep` is the cancellation or failure in progress; `denied` is
  `_cancelled_runs`; `routed` what lies behind `_route_cursor`.
* `AcquireBarrier`, `Quiesce`, `ReleaseBarrier` are `create_checkpoint`. The barrier
  is one field of the run: a second request replaces it, only the request it
  names clears it. `ExpireBarrier` is its deadline of five minutes, which may pass
  at any moment, also under a capture; `LoseRequest` is a request whose process
  died and whose `finally` clause does not run.
* `Crash` ends a process; its rows stay as they are.

`AgentRunOf` is a parameter: the agent-run id that `_claim_keys` computes from
the delivery. Assignment ids contain the id of their run, so the quiescence test
by substring selects exactly the claims of the run. The commands of `BeginCommit`
and `Commit` are the ones whose validation reads no lease (plan patches,
completions, memory and evolution proposals).

### ModelCalls

A thread is an agent and a generation; the generation is the fencing token of
the agent run, and `Appends` is what `append` checks: the newest generation, in a
run that has not failed or been cancelled. That this is all a former owner can
be is the theorem `WritesFenced` about `Dispatch`. Updates of the `model_calls`
table are not fenced in the code and are not in the model. `row` and `attempts`
are the columns of the table, `asked`, `answered`, `usage` and `finished` the
facts, `sent` the history of the transport. A process that dies is a thread that
takes no further step. `Normalize` is `_normalize_usage` field by field; a
negative number stands for every value the code refuses. Prices are integers
over `PriceScale` and costs are rounded up as in the code.

A thread may begin to read the log after its claim is gone (`Enter` has no guard,
as `loop.py:102` has none). It may then take the reservation of its successor for
an abandoned one and give it back, and the successor sends the call all the same;
`freedLate` remembers the calls that a thread which no longer owned the agent run
gave back. `Ends` are the ways a provider call ends, sorted by `_classify_error`
into `Retryable` and `Uncertain`: among them "garbled", an answer that was billed
and cannot be parsed, which is neither, so that the call is a certain failure
without a quota. `Excused` names these two ways to lose the quota of a billed call;
`BilledKeepsQuota` and `WithinBudget` say that there is no third.

### AgentLoop

One run with one agent, as `_single_agent_step` drives it. Every action is one
append to the event log, one record of the operation ledger or one external
call, together with the decisions up to the next one; `pc` names the write a
step is about to make, so a crash may fall between any two. Facts no decision
reads are left out, and two appends of which only the second is read are one
action (`record_started`, `_finish_single_run`).

* The log: `facts` holds turn and type, `phase` the last `loop.phase.changed` of a
  turn, `command` the content of `model.completed` by what the loop tells apart,
  `starts` the number of `operation.started`. The predicates `Terminal`,
  `Unknown`, `ActiveWait`, `Unresolved`, `Unfinished`, `NextTurn` are the queries
  of `run_once`. `quiet` says that `agent.waiting` is the newest event, all that
  the tests of a plain wait read; dispatch, renewal, pause and release write
  to the same log.
* The ledger: `disk` is the newest record of a turn's operation in the file, `mem`
  the ledger each process keeps in its loop from delivery to delivery. `Load` is
  a process that opens the file, which marks what is started as unknown, also
  what a live process has started. The file is not fenced; the event log is:
  `Writable` stands for the claim test of `append`, with `owner` for the process
  whose claim is current.
* Deliveries: `queue` and `sent` are the deliveries by number, which `Ready` names
  by the turns answered so far.
* Losses: `Crash` (a process without its loop), `Injected` (`FaultController`: the
  loop survives) and a `Dispatch` that takes over from a running step. A step that
  was taken over goes on with its unfenced work until its next append
  (`Abandon`).
* History: `calls` and `result` are what really happened at the tool.

The completion gate is reduced to its first finding, evidence to whether a tool
has completed. In `EnterRequest` and `Answer` the model-call ledger is a choice
between its outcomes (answered, to be asked anew, raised).

### Team and StageBoard

One process with a supervisor thread per run (the claim `supervisor:<run>` admits
one), a worker thread per assignment and the service loop. Every action is one
transaction with the reads it depends on.

* Facts: `status`, `asg` (assignment and lease together, with the agent, the
  deadline `due` and the status), `agent`, `recorded`, `revision`, `waits`,
  `resumed`; `ProjectAssignment`, `ProjectLease` and `ProjectRun` are the
  projections with their guards against late facts.
* The plan: `Propose` is `CapabilitySupervisorPolicy.propose`, stage by stage in
  the order of ids with the load each selection adds; a stage view keeps what
  the kernel compares. `ValidatePlanPatch` is `_validate_plan_patch`, with the
  first refusal as its reason. `SupPropose`, `SupCommit`, `SupResume`, `SupWait`,
  `SupPause`, `SupComplete`, `SupAck` are the writes of `_supervisor_step`;
  `cmds` is the command ledger by idempotency key, so a repeated step finds its
  earlier decision, and one with another content raises (`SupRaise`, `SupBury`,
  `SupFailRun` are the scheduler's answer).
* Leases: `WorkBegin`, `WorkTurn`, `WorkCommit`, `WorkRoute` and `WorkFail`,
  `WorkRelease`, `WorkNudge` are the worker's step; `Deadline` lets a deadline
  pass; `ExpireSnapshot`, `ExpireAssignment`, `ExpireLease`, `ExpireDeliver` are
  `expire_due_leases` with its snapshot.
* Wake-ups: `sent` and `acked` are deliveries by name, and `Handle` gives a pending
  one to the supervisor of its run or the worker of its assignment. `Reconcile`
  routes the facts that no handler has routed (`dirty`), `Replayed` is what the
  next process routes when it starts, and `CapacityNudges` wakes the runs that
  wait for agents.

How the turn of an agent ends is the parameter `Outcomes`. `Board` maps `asg` and
`status` to `StageBoard`: completed stages, stages held by agents, closed runs.

### Provenance

The log of an agent run is a sequence of events with a type, a turn and the
position of the causing event, since `_causal_chain_reaches_seed` and its
companions walk exactly these. `NewTurn`, `Decide`, `Submit`, `Authorize` say which
events a turn writes and which cause each names; `ValidateResult` and
`ValidatePeerResponse` are the kernel's checks on them. Only the thread that
handles a delivery writes the log of its agent run, so its appends between two
outside effects are one step, of which `Interrupt` keeps any prefix. What the
kernel has committed is delivered by `Route` (`route_decision`, after which the
asking turn records its wait) or by `RouteFacts` (`_reconcile_routes`), which may
come first and makes up for a handler that was interrupted in between.

### PairedEvals and EvalCampaign

A thread of a runtime is in one call at a time (`job`): a client's create or
cancel, the recovery at the start of a runtime (`todo`), the scoring round, a step
of a campaign. Each fact is one action; `holder` is the claim of a key, `Lapse`
lets a claim run out under its holder (the heartbeat of the code failed) and
`Restart` ends a runtime, which comes back with any build and recovers what is
pending. A build stands
for scorer, fixture and harness version: what the attestations compare. A run
of an arm is its status and the build that created it. It is "open" until it is
over; `RunArm` may end it, in either way, once it was delivered, and nothing says
that it does: runs are paused and stranded (`StrandedOnlyBy`). `CancelArms` is
`cancel_run` of each arm: a run with a handler in flight (`Busy`) stays "cancelling",
as `_finalize_cancelled_run` returns without writing the end, and `ArmCancelled`
is the sweep that writes it later. `LinkArms` has the two links of a contract,
which are two appends of which no decision reads the first, in one step.

The campaign writes one fact at a time under its advance claim (`Choose`), but
creates and releases pairs outside of it, as the code does. `Decide` is
`CampaignRecommendationPolicy.decide` over the counts and the regressions of success;
what quality, cost, duration and the bootstrap say is a free choice
(`pointGates`, `boundGates`), and "succeeded" in a report is: the run succeeded and
the scorer passed it.

### Checkpoints

The source run is a single agent whose turn asks the model and runs one tool, in
the order of `AgentLoop`: `StartOperation` and `RequestTool` record, `RunTool` has the
effect, on the workspace or on `world`, `SettleLedger` and `RecordResult` follow,
and `RecoverOperation` takes an operation up from the ledger. A content stands for the bytes of a
workspace and their digest, `objects` is the store of snapshots. `ReadBoundary`
reads the log prefix, `Scan` the files, which it publishes as an object, `Blockers` is
`_effect_boundary`, `RecordRequest` and `CommitCheckpoint` the facts; `FindWorkspace`,
`RestoreWorkspace`, `PrepareFork`, `AssignFork`, `CommitRestore`, `DeliverFork` are
the steps of a restore, and `RouteFork` the router that may deliver first.
The five-minute deadline of the barrier passes when its creator is dead
(`ExpireBarrier`), or under a creator that is too slow (`ExpireUnderCall`).

A tool may have had its effect however it ends: the pipeline writes
`operation.failed` for every exception and every status but ok
(`core/tools/pipeline.py:420`), a lost connection of the MCP adapter and a command
that changed files before it failed among them. So `RunTool` may change the
workspace or `world` with each outcome, and `operation.failed` tells what the
workspace was left with. `OperationOutcomeUnknown`, the outcome in doubt, is handled
by the pipeline and raised by no tool of the package; it stays in the model for
the recovery that has the same end.

## Runs

All instances have `CHECK_DEADLOCK FALSE`: a system without mail, or one whose
bound is used up, may stop.

| Run | Instance | Shows |
|---|---|---|
| `claims` | 2 processes that may both die, renewers, 2 deliveries of 2 agent runs, 1 worker with 1 slot, 2 claims per delivery, 1 late renewal | `MutualExclusion`, `NoLeakedClaim`, `WorkerCapacity`, `WritesInTokenOrder`, `ImplementsFencedWork` |
| `capture` | 1 process, 2 workers of which one has 2 slots, a failing member and a committing coordinator, 2 checkpoint requests of one run, 1 claim per delivery, 1 fault | `CaptureIsQuiet` |
| `cancel` | 2 processes, one may die, a raising handler, an operator who cancels | `CancellationEnds`, `DeadLetterEndsRun` |
| `failure` | 2 processes, one may die, a handler that requests the failure of its run | `RequestedFailureEnds`, `EveryDeliveryEnds` |
| `model_calls` | an agent run with 2 turns and 2 owners and a second agent, budget for fewer calls than they want, 1 retry | `BilledKeepsQuota`, `AccountedBeforeUsed`, `WithinBudget`, `NoBlindResample` |
| `agent_loop` | 2 processes, 1 loss, 2 turns, 1 tool call, 1 nudge per kind, all fourteen answers | `ToolRunsOnce`, `LogTellsTruth`, `TurnsWithinBudget`, `UnknownBlocks`, `ComesToRest` |
| `team` | 2 runs (a chain of two stages, a single stage), 2 agents, 1 attempt of 2 turns | `AgentLoad`, `CompletionPassesGate`, `EveryRunRests` |
| `team_faults` | 2 independent stages, 2 agents, 2 attempts, 1 missed deadline, 1 crash or exception | `RedoneOnlyAfterExpiryRace`, `StrandedOnlyBy`, `BoardSpec` |
| `provenance` | an assignment and its peer, 3 turns, 1 nudge, 1 interruption, a deadline | `HonestWorkAccepted`, `ResultRestsOnWork`, `OnePeerExchange`, `NoLostWakeUp` |
| `pairs` | 2 threads, 2 builds; a client's pair with 2 faults, or a campaign of 2 trials with 1 fault and an operator who cancels | `ArmsStartTogether`, `EndMeansQuiet`, `ParallelBound`, `VerdictRestsOnTrials`, `FailureIsFinal` |
| `campaign` | 2 threads, 1 build, 2 trials, 1 fault, no operator | `CampaignEnds` |
| `checkpoints` | 2 handlers, 1 creator, 1 restorer, 1 turn, 2 contents, a local and an irreversible tool, 1 fault | `SnapshotAtBoundary`, `ForkBeginsAtBoundary`, `NoForkPastEffect`, `SourceGoesOn`, `RestoreGoesThrough` |

Four more configurations are kept beside the runs. Each states what a document of
the repository says, and TLC answers it with a counterexample; see Disagreements.

| Configuration | Instance | Refutes |
|---|---|---|
| `DispatchOverlap.cfg` | that of `capture` | `EveryCaptureIsQuiet` |
| `ModelCallsLate.cfg` | that of `model_calls` | `FailedIsCertain` |
| `PairsCancel.cfg` | that of `pairs` | `CancelFindsEveryRun` |
| `CheckpointsFailed.cfg` | that of `checkpoints` | `NoForkPastAnyEffect` |

Bounds. `MaxDispatch` bounds the claims of a delivery: two suffice for one
takeover, which is where a former and a present owner meet; more repeat the
situation with higher tokens. In `capture` each of two deliveries is claimed once,
before, during or after either of two requests, which is what a barrier that is
replaced, cleared or overrun lets in. `MaxFaults` bounds late renewals and injected
crashes, `MaxFailures` stands for the three attempts of the code. Two deliveries
on one slot are the smallest competition, and one slot too many is visible with
them. In `model_calls`, one owner change and one competitor produce every
interleaving of a recovery with its former owner and with a reservation of
somebody else; 16 tokens hold two full reservations of 6 and one small answer.
In `agent_loop` one loss puts a recovery behind every step, also by a process
with an old memory of the ledger; two turns and a tool budget of one make the
budget bite. `MaxTurns` leaves room for every turn a behaviour with that many
losses can open, so it cuts nothing off.

In `team` three stages for two agents, of which one stage has a single capable
agent, make plans collide and runs wait, and a second turn lets an agent go on or
use up its budget. `team_faults` has a second attempt, which is where a late
result meets its successor, and a second stage, which can hold the only agent the
first one could go to when its lease has expired: then the supervisor raises with
a lease of its own run active. Its constraint `FirstLate` lets only leases of the
first stage miss their deadline; without it the run passes as well (1.8 million
states), but takes longer. Three turns in
`provenance` are what an honest assignment needs (ask the peer, inspect, submit).
The constraint `Apart` of `pairs` keeps the two cases of its row from happening in
one behaviour: the service of a client's pair and a campaign share nothing but the
code. Two faults reach a creator that lost its claim and a recovery that is
itself interrupted; one fault in a campaign reaches an advancer that is late.
One turn in `checkpoints` has an effect, a capture before, during and after it,
and a fork.

Symmetry (permutations of the processes, in `capture` of the two requests) is used
only in `claims`, `capture` and `pairs`, which check no liveness.

Fairness. In `cancel` and `failure` the dispatcher runs again whenever it can (its
loop does nothing else); sweeper and threads are strongly fair, as they wait for
`_condition`, which the dispatcher gives up between two scans; a handler returns
in the end; the deadlines of a claim nobody renews and of a barrier pass. Nothing is assumed about the handler's choices,
faults, crashes, operators and the renewer. `agent_loop` assumes weak fairness of
each process's steps and of its dispatcher, which are threads that do nothing
else; answers, outcomes and losses are free. `team` assumes only that some step
of a supervisor, a worker or the service loop is taken while one is possible.
`campaign` assumes that a call goes on, that claims of nobody run out, and strong fairness
of the three rounds the resident loop makes for ever (score, advance, finalize):
they compete for claims and each is tried again in every round. That a released
run ends is not assumed: `CampaignEnds` says that the campaign ends or one of its
released runs stays open for ever. `checkpoints`
assumes the same of its threads, deadlines and router, and a client that repeats
a restore that failed. Crashes, lapses, exceptions, clients that cancel or create
are never forced.

### Disagreements with the repository's own words

Behaviours of the code that the models have, met while stating the properties,
and that a document, comment or test describes otherwise. The properties of the
passing runs are stated so that they hold of the code as it is; the first four
disagreements have a configuration that shows them.

* `DispatchOverlap.cfg`: the barrier is one field of the run with a deadline of
  five minutes. A second request replaces it and clears it at its end, and the
  deadline lifts it under a capture that is slow; the capture checks neither
  (`store.py:1122`, `:474`; `docs/COMPOSITE_CHECKPOINT_DESIGN.md:81` demands a
  quiescent boundary). `CaptureIsQuiet` is about captures whose own barrier stands.
* `ModelCallsLate.cfg`: an owner that lost its claim before reading the log finds its
  successor's reservation and frees it while the successor's request is under way;
  `fail_model_call` is not fenced (`model_governance.py:114`;
  `docs/ONLINE_TEAM_MODEL_GOVERNANCE_WALKTHROUGH.md:115` has `failed` on evidence
  only).
* `PairsCancel.cfg`: an advancer whose claim ran out prepares a run after the
  sweep of the cancelled campaign; nothing cancels it and it stays queued
  (`eval_campaigns.py:831`; `docs/PAIRED_EVAL_CAMPAIGN_DESIGN.md:106`, `:184`). Arms
  of a trial whose creation failed stay queued as well. The campaign's end is
  written although a cancelled run may still have a handler in flight: the run is
  then "cancelling" (`EndMeansQuiet`).
* `CheckpointsFailed.cfg`: a tool that reached the outside and then reported a failure
  counts as `no_effect`, and a fork starts behind it (`checkpoints.py:332`;
  `docs/COMPOSITE_CHECKPOINT_DESIGN.md:113` has an outcome that is not known block
  the fork).
* `commit_command` rejects cancelled but not failed runs (`store.py:937`): a
  candidate persisted before `run.failed` commits after it, while `append` rejects
  all three (`tests/control_plane/test_controlled_concurrency.py:744`).
* A process dies right after `loop.phase.changed`; the redelivered step enters the
  phase again, `_phase` raises, and the run fails instead of going on from the
  persisted response (`core/agents/loop.py:517`;
  `docs/HARNESS_16H_ACTUAL_CODE_LEARNING_GUIDE.md:196`).
* A renewal of the claim is written behind `agent.waiting`; the wait is then no
  longer the newest event, the run is not paused, and the model is asked again
  (`loop.py:1033`, against the comment at `loop.py:106`).
* A run with two ready stages of which one finds its agent busy is failed: `propose`
  lists waiting stages without a reason, which `PlanPatch` refuses, so the
  supervisor raises until the delivery is a dead letter
  (`core/a2a/orchestration.py:258`, `:295`, `:141`; `docs/DEVELOPMENT_JOURNAL.md:214`).
  The shipped contracts are chains, which cannot reach it.
* A repeated request for a committed pair whose contract can no longer be built
  writes `eval.pair.failed` on it (`docs/SINGLE_VS_TEAM_EVAL_DESIGN.md:60`, `:114`);
  a pair may thus be both failed and completed.
* Three scorer failures under one version leave a pair, and its campaign, running
  until another version is deployed; with one fault `campaign` does not reach it.
* `_reconcile_routes` may deliver the assignment of a fork before
  `checkpoint.restore.committed` (`docs/COMPOSITE_CHECKPOINT_DESIGN.md`, section 9,
  has the opposite order), and a repeated restore raises once the fork has changed
  its workspace, where section 9.1 returns the same run. An operation that ends
  `unknown`, or failed by recovery from the ledger, never gets its `tool.failed`,
  so its run can never be checkpointed.

Smaller observations: with a second process a delivery may be executed again
after its acknowledgement, by a process that read the mailbox before. A recovery
that read `in_flight` overwrites a `failed` row with `unknown`, taking the freed
reservation again: committed tokens can then exceed the limit, although what may
be billed, the excused calls apart, cannot (`WithinBudget`). A plan refused because its agent was degraded
is not routed back, a run that waits for agents that are all degraded is woken by
nobody, and a crash between the end of a lease and the nudge loses it; these are
the three cases of `StrandedOnlyBy`. `COMPLETE` has one key per run, so its gate
must be open the first time (`CompletionPassesGate`). `loop.phase.changed` names
no cause, so that after an interruption between it and `model.requested` the
kernel refuses all later submissions of that agent run (the one exception of
`HonestWorkAccepted`).

## Proofs

Every proof is by an inductive invariant that TLC checked on a small instance
first. A theorem needs no more than the assumptions named in the modules it is
about: parameters have their types, the sets the code enumerates are finite, and
a model value such as `None` or `"nobody"` is nothing else.

`DispatchProofs` (`ClaimConstants`, `DispatchConstants`):

* `TypeCorrect`. The state is split into parts that actions change together;
  frame lemmas handle the parts an action leaves alone.
* `FencingTokens`. `FenceInv` is inductive: tokens held were issued, no two
  reservations hold the same token of a key, and no write is newer than the
  newest token. `StepKinds` classifies every step as an end of claims, a fenced
  write or a reservation; only a reservation changes a token, and it raises it.
* `ClaimsExclude`. Current claims carry the token of the row; equal tokens of two
  reservations contradict `FenceInv`.
* `WritesFenced`. A write carries a current token, hence the newest.
* `Refinement`. Under the mapping owner = live active row, epoch = token, the
  same three kinds of steps are `Revoke`, `Write` and `Grant`, or stutter.
* `WorkerCapacityHolds`. By `ClaimsExclude` the reservations of a worker whose
  claims are current map one to one into its slots, for any capacity.
* `NoLeakedClaimHolds`. The claims of a reservation are a bundle: they are granted,
  expire, fail and finish together, so a live row always has its reservation.
* `CaptureIsQuietHolds`, for any number of requests. While a barrier stands no claim
  of its run is granted, and once it was replaced, cleared or lifted it does not
  come back to a request that is capturing (`UnclaimedKept`).

`ModelCallsProofs` needs `CallConstants`. Its invariant `LedgerInv` says who can
still send a call: a call has one asker (`OneAsker`), it is counted before it is
sent (`Counted`), and a call that is *silent* (never sent, and its asker has lost
the claim which the audit fact of an attempt requires) stays silent. All turns
but the latest are answered or silent (`PastSettled`), and so is the latest before
its owner asks again (`MayAsk`).

* `LedgerTypes`, `NeverResamples` follow from `LedgerInv`, with late readers too.
* `QuotaKept`. An owner that recovers a call came after its asker (`AfterAsker`), so
  it frees only silent calls (`FreeIsSilent`); what a former owner frees is in
  `freedLate`, and a call about to leave holds its quota or is one of these
  (`Covered`).
* `BudgetKept`, on top of it. `StakeFits` is inductive: the calls *at
  stake* (those that may be billed and those whose reservation is active) fit into
  the budget together; only a reservation adds a call, and it has just compared
  the sum of the active ones with the limits. An answer replaces a reservation by
  a cost that is no higher (`Answers`, from `NormalizeSound` and `HonestFits`). The
  sum over a finite set is the function `Total`; that it changes by one summand
  when one call changes is proved from a smallest counterexample among subsets,
  which replaces the induction the provers lack. This is the one theorem that
  needs `Agents` finite.
* `UsedIsAccounted`: a completed row is final, and a turn is finished from
  reconciliation only.
* `NormalizeSound`, `HonestFits`: usage normalization, for every report.

`AgentLoopProofs` needs `LoopConstants`. `Locals`, `Fenced` and `Comes` say once
for all actions that a process changes only its own locals, that the log of an
owner's turn is changed by the owner alone, and where a control point is
entered from; the invariants are then argued at the few actions they hang on.

* `TypeCorrect`, with what typing needs: a process inside a turn has one
  (`InTurn`), what is settled has an outcome, a nudge has a finding.
* `RunsOnce`. Phases never go back to the early ones (`PhaseStep`), and only one
  legal step leads into `action_executing`; so an owner before `operation.started`
  finds none (`OwnerAlone`), and at most one process stands before the call
  (`AtCall`).
* `StartsPlanned`. No ledger has a record of a turn in an early phase
  (`NoRecordYet`); the record a step starts is the one it planned. The replay
  answers of `_execute_one` are therefore dead behind the loop, among them the
  one that turns a failed operation with a result into a completed one.
* `TruthfulLog`. Neither file, memory nor the outcome in hand claims more than the
  tool reported (`LedgerTruth`, `OutcomeTruth`), and a result, once there, stays.
* `UnknownStops`. A turn that can still be taken up is the newest (`TakenUp`), and
  an owner that opens a turn has seen no unknown before it (`OwnerNewest`).
* `ToolBudgetHolds`. What the owner counted on entry is still the count when it
  announces the call (`BudgetInv`).
* `TurnBudgetHolds`. Answers and deliveries are paid for together (`PaidFor`): an
  answer by the delivery in the owner's hand, which is acknowledged before the
  owner can be answered again, or by a loss; a delivery by its number, of which
  there are no more than the budget.

`TeamProofs` (`TeamConstants`):

* `TypeCorrect`, `LeasesCorrect`, `AgentLoadHolds`. A plan made from stale
  projections is checked again in the transaction that grants its leases; so an
  agent has one active lease and a stage one, and a stage that is done has none
  (`LeaseInv`), whatever runs compete.
* `CompletionPassesGateHolds`. A plan that calls a run complete was made when all
  stages were recorded, and facts stay (`PlanInv`).
* `RedoneOnlyAfterExpiryRaceHolds`. A stage has at most one result, and has it only
  when it is complete and gets no further lease, unless one of its attempts was
  marked expired behind a result that had released its lease (`RecordInv`); an
  attempt declared failed has no result to come (`WorkerInv`).
* `BoardRefinement`. Under the mapping `DoneStages`, `HeldStages`, `status` every step
  of supervisors, workers, expiry, crash and redelivery is a step of `StageBoard`
  or a stutter.
* `FirstEndWinsHolds`, an action property: the first end recorded of an attempt is
  not overwritten by a late one.
* `WakeUpsKept`, `StrandedOnlyByHolds`. `StrandInv`, on top of `TypeInv` and `LeaseInv`:
  a supervisor that goes idle leaves a call pending, an end it was not told of, a
  refused plan or a wait (`SupervisorOK`); a result is routed, in the worker's hand
  or `dirty`, and any other end has a thread that reports it, unless there was a
  fault (`EndOK`); a run has one wait per revision, and agents that are free for it
  are offered or will be (`WaitOK`); an offer is used up before it is acknowledged
  (`TakenOK`); a plan refused for busy agents has its `Replan` pending, which nobody
  acknowledges untried (`CommandOK`); deliveries name facts there are (`PostOK`,
  `ToldOK`, `StagesOK`). The supervisor may rely on the plan it commits because the
  policy always leaves something to do: `ProposeUseful` shows that a plan assigns,
  waits, blocks, completes or has an active stage, since the contract is acyclic
  and by looking at the first turn of `Select` that would fail. At rest no call is
  pending, so one of the other three holds, which are the three cases.

`ProvenanceProofs` (`ProvenanceConstants`). `Interrupt` keeps any prefix of the events
of a step, so every statement about a log must hold of its prefixes (`LogInv`):
phases behind the execution never go back to early ones, a response is settled
before a later turn begins and belongs to the newest turn, and one answer of the
peer is mirrored. `RunOK` adds the operation ledger: a row belongs to a turn that
executed, and a turn before its tool has none, so no success is overwritten.
`WorkOK` says that each acceptance rests on an operation that succeeded.

* `ProvenanceCorrect`, `ResultRestsOnWorkHolds`, `OnePeerExchangeHolds`. The attempt to
  prove them showed that the model had no step behind the kernel's commit for
  the handler that was not interrupted; `Route` is that step.

`WakeUpProofs` (`ProvenanceConstants`). `WakeInv` is inductive on top of `ProvInv`. A
handler works for a delivery of its own that is not acknowledged (`MailOK`); the
delivery of a turn follows its event in the log and is a new one (`ReadyOK`);
nobody waits for a peer, and no peer works, before one was asked (`AskOK`); a turn
that asked is behind its early phases, so no recovery asks for it again
(`PastOK`); the answer is mirrored before its delivery is acknowledged, and behind
every wait (`AnswerOK`); and whoever goes to acknowledge, or is idle, has a reason
to stop or another delivery of its own (`RestOK`).

* `WakeUpsCorrect`, `NoLostWakeUpHolds`. With nothing pending, an assignment that
  holds its lease waits for its peer; the peer was asked, its request was routed,
  so it answered; the answer was routed and mirrored behind the wait, which is
  then no longer active: a contradiction, unless an operation ended unknown.

`HonestInv`, in the same module, is inductive on top of both. It says of each log,
with the appends its handler is about to make, what the kernel will look for
(`Honest`: `Sound` at every position, and the seed at the first): every event but a
phase, a seed and a mirrored response names an earlier one, and only the first of
a turn may name a phase (`Caused`); a command is the response to a request of its
turn, a tool or a submission is what its command says, the latter behind its gate
(`Chained`); turns follow each other, their operations ended, each tool result is
followed by its `op.completed`, and nothing of a turn follows the end of the run
(`Ordered`); an operation is started once in its turn, right behind its execution
phase, and its result comes when it was announced and has not ended (`Operated`).
Each of these looks back only, so an interruption, which keeps a prefix, keeps
them. `Standing` says what the log ends with at each place of the handler, `Chosen`
that its responses are those its model may give (which is why a peer never comes
to ask), and a ledger row that succeeded belongs to an operation the log
announces, so that recovery may write its result.

* `LogsHonest`, `HonestWorkAcceptedHolds`. When a result comes, `HonestReaches` traces
  any event but a phase back to the seed or the mirrored response: the first
  event for which `_causal_chain_reaches_seed` said no would name an earlier one
  for which it says yes, unless that one is a phase, and then a turn was
  interrupted before its request. `CommandsValid`, `ToolsValid` and `SubmissionValid`
  then go through the checks of the kernel one by one.

`EvalProofs` (`PairConstants`, `CampaignConstants`). A pair only grows (`Mono`), so what
a call has read stays true and only what it has *not* found may be outdated; for
that, under the claim nobody else wrote, and a writer whose claim has lapsed is
fenced. `CampaignCorrect` is the whole invariant; `ArmsStartTogetherHolds`,
`EndMeansQuietHolds` (behind its own end a released run is over or being cancelled),
`ParallelBoundHolds`, `VerdictRestsOnTrialsHolds` and the action
property `FailureIsFinalHolds` follow.

`CheckpointsProofs` (`CheckpointConstants`). Turns follow each other and only the
holder of the claim appends; a worker that lost it may still run its tool, but
one operation is run by at most one. The workspace is what the log tells of,
except for a tool that may have run since; a log whose boundary is safe leaves
no such tool. Behind its own barrier nobody holds the claim, so the prefix is
still the whole log when the files are scanned. A contract is written once, on a
prefix that stays; a fork has its contract's object until its first turn.

* `CheckpointsCorrect`, `SnapshotAtBoundaryHolds`, `ForkBeginsAtBoundaryHolds`,
  `NoForkPastEffectHolds`: an effect on the outside belongs to an operation that
  ended inside the prefix in a way that blocks the restore, or with the tool's own
  report of a failure.

Only model-checked:

* liveness: `CancellationEnds`, `DeadLetterEndsRun`, `RequestedFailureEnds`,
  `EveryDeliveryEnds`, `ComesToRest`, `EveryRunRests`, `CampaignEnds`, `SourceGoesOn`,
  `RestoreGoesThrough`. Fairness and `ENABLED` are beyond the prover.

Every other property of the runs, invariant, action property or refinement, has
its theorem.

`TypeOK`, `FenceInv` and `WithinToolBudget` are proved and no longer run.

## Not modelled

Pause, shutdown and the drain of chosen runs; `run.paused` outside `AgentLoop` and
`Team`; a failing `executor.submit`; waits that name a correlation; batches of tool
calls; `operation.reconciled`, which nothing writes; a store that fails for other
reasons than a lost claim; supervisor policies other than
`CapabilitySupervisorPolicy`; agents that register while runs are under way; the
memory and evolution commands of the kernel with their projections, and
`rebuild_projections`; trace aggregation, bootstrap intervals, budget envelopes and
the scripted tier of evaluations; torn scans of a workspace, payload drift and the
artifact tree of a checkpoint. The cooperative scheduler and the in-memory
coordinator serve single-threaded worlds beside the resident runtime. Prompts,
skills, memory text, HTTP, views, command line and task content are
text, input and output. `PROJECT.json` lists every component with its reason.

## Plan

Done: claims and scheduler, model-call ledger, agent loop with the tool ledger,
team with leases and planning, kernel provenance, paired evaluations and
campaigns, checkpoints and restore. Next, in this order:

1. The kernel's memory and evolution commands, if their projections grow state
   that several actors change.
