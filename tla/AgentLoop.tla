----------------------------- MODULE AgentLoop ------------------------------
(***************************************************************************)
(* One single-agent run: AgentLoop.run_once and _execute                   *)
(* (core/agents/loop.py), ToolPipeline and OperationLedger                 *)
(* (core/tools/pipeline.py), and the resident handler around them,         *)
(* ResidentRuntime._single_agent_step (control_plane/runtime.py).          *)
(*                                                                         *)
(* Every action is one durable write (a fact of the event log or a record  *)
(* of the ledger file) or one external call, with the decisions that       *)
(* follow it up to the next one, so that a crash may fall between any two. *)
(* A process keeps its loop, and the ledger in memory, from delivery to    *)
(* delivery; the event log takes an append only from the present owner of  *)
(* the agent run (modules WorkClaims and Dispatch), the ledger file takes  *)
(* a record from everybody.  Facts that no decision reads (manifests,      *)
(* tool.requested, operation audit fields) are left out.                   *)
(***************************************************************************)
EXTENDS Integers, FiniteSets, FiniteSetsExt

CONSTANTS
    Procs,         \* runtime processes over one data directory
    None,          \* no process
    Commands,      \* what the model may answer
    TurnLimit,     \* budgets.turns
    ToolLimit,     \* budgets.tool_calls
    NudgeLimit,    \* NudgeBudget, per kind
    MaxLosses      \* bound: crashes and claims that expire under a running step

AllCommands ==
    { "incomplete",      \* a finish_reason other than stop and tool_calls
      "malformed",       \* no AgentAction
      "unknown_tool", "hidden_tool",
      "refused_tool",    \* arguments, hook or policy refuse it in the pipeline
      "tool",
      "stop", "submit", "submit_bad", "blocked",
      "wait", "artifact", "message", "continue" }

ASSUME LoopConstants ==
    /\ None \notin Procs
    /\ Commands \subseteq AllCommands /\ Commands # {}
    /\ TurnLimit \in Nat \ {0}
    /\ ToolLimit \in Nat /\ NudgeLimit \in Nat /\ MaxLosses \in Nat

(* Every loss costs at most one turn beyond the budget (TurnsWithinBudget) *)
(* and one turn that was never answered, so no behaviour meets this bound. *)
MaxTurns == TurnLimit + 2 * MaxLosses
Turns == 1 .. MaxTurns

VARIABLES
    \* the event log of the task
    facts,      \* {<<turn, type>>}; turn 0 for facts of the whole assignment
    phase,      \* the last loop.phase.changed of a turn
    command,    \* content of model.completed of a turn
    starts,     \* how many operation.started facts a turn has
    quiet,      \* the newest event of the task is agent.waiting
    run,        \* status of the run
    queue,      \* numbers of the deliveries that are not acked
    sent,       \* the newest delivery that was ever enqueued
    owner,      \* the process whose claim on the agent run is current
    \* the ledger file
    disk,       \* the newest record of a turn's operation
    \* processes
    pc, turn,
    job,        \* the delivery in hand
    used,       \* operation.started facts when run_once read the log
    outcome,    \* what the pipeline or the ledger reported
    loaded, mem,    \* the ledger in memory
    \* history
    result,     \* what the tool really did: none, ok, error, unsure
    calls,      \* how often the tool ran
    losses

logVars == <<facts, phase, command, starts, quiet, run>>
ledgerVars == <<disk, mem, loaded>>
toolVars == <<result, calls>>
procVars == <<turn, job, used, outcome>>
mailVars == <<queue, sent>>
vars == <<logVars, mailVars, owner, ledgerVars, pc, procVars, toolVars, losses>>

LoopPhases == {"context_building", "model_calling", "decision_validating",
               "action_authorizing", "action_executing", "result_recording",
               "waiting", "submitted", "failed"}

AllowedTransitions ==
    [ context_building    |-> {"model_calling"},
      model_calling       |-> {"decision_validating", "failed"},
      decision_validating |-> {"action_authorizing", "failed"},
      action_authorizing  |-> {"action_executing", "result_recording", "failed"},
      action_executing    |-> {"result_recording", "failed"},
      result_recording    |-> {"waiting", "submitted", "failed"},
      waiting             |-> {"context_building", "failed"},
      submitted           |-> {},
      failed              |-> {} ]

OperationStates == {"absent", "planned", "started", "succeeded", "failed",
                    "unknown"}
Outcomes == {"none", "ok", "error", "unsure"}
NudgeKinds == {"schema", "evidence", "pending_operation"}

NudgeFact == [ schema            |-> "agent.nudged:schema",
               evidence          |-> "agent.nudged:evidence",
               pending_operation |-> "agent.nudged:pending_operation" ]

(* _TURN_COMPLETED_EVENTS                                                  *)
TurnCompleted ==
    {"model.validation_failed", "agent.action.denied", "tool.completed",
     "tool.failed", "agent.stopped", "agent.submitted", "agent.waiting",
     "agent.continued", "a2a.message.sent", "artifact.created",
     "operation.unknown"} \cup {NudgeFact[k] : k \in NudgeKinds}

OperationEnds == {"operation.completed", "operation.failed", "operation.unknown"}

FactTypes == TurnCompleted \cup OperationEnds \cup
    {"model.requested", "model.response.reused", "agent.command.validated",
     "agent.command.reused", "completion.gate.passed", "completion.gate.failed",
     "agent.failed"}

PCs == {"idle", "load", "enter", "begin", "calling", "request", "answer",
        "reuse", "reuse_command", "validate", "parse", "authorize", "execute",
        "prepare", "start", "announce", "call", "settle", "recover", "record",
        "result", "close", "act", "gate", "nudge", "submit", "waiting",
        "rejecting", "reject", "illegal", "error", "after", "finish", "ack"}

Init ==
    /\ facts = {}
    /\ phase = [t \in Turns |-> "none"]
    /\ command = [t \in Turns |-> "none"]
    /\ starts = [t \in Turns |-> 0]
    /\ quiet = FALSE
    /\ run = "running"
    /\ queue = {1}
    /\ sent = 1
    /\ owner = None
    /\ disk = [t \in Turns |-> "absent"]
    /\ pc = [p \in Procs |-> "idle"]
    /\ turn = [p \in Procs |-> 0]
    /\ job = [p \in Procs |-> 0]
    /\ used = [p \in Procs |-> 0]
    /\ outcome = [p \in Procs |-> "none"]
    /\ loaded = [p \in Procs |-> FALSE]
    /\ mem = [p \in Procs |-> [t \in Turns |-> "absent"]]
    /\ result = [t \in Turns |-> "none"]
    /\ calls = [t \in Turns |-> 0]
    /\ losses = 0

-----------------------------------------------------------------------------
(* What the log says.                                                      *)

Has(t, e) == <<t, e>> \in facts

Answered == {t \in Turns : command[t] # "none"}

(* _is_terminal                                                            *)
Terminal ==
    \/ Has(0, "agent.failed")
    \/ \E t \in Turns : Has(t, "agent.stopped") \/ Has(t, "agent.submitted")

(* _has_unresolved_unknown; nothing in the repository writes               *)
(* operation.reconciled.                                                   *)
Unknown == \E t \in Turns : Has(t, "operation.unknown")

(* _has_active_wait, for a wait that names no correlation                  *)
ActiveWait == quiet

(* _unresolved_operation                                                   *)
Unresolved ==
    {t \in Turns : starts[t] > 0 /\ \A e \in OperationEnds : ~Has(t, e)}

(* _recoverable_turn                                                       *)
Unfinished ==
    {t \in Turns : /\ Has(t, "model.requested")
                   /\ \A e \in TurnCompleted : ~Has(t, e)}

(* _next_turn_id                                                           *)
NextTurn == 1 + Max({0} \cup {t \in Turns : phase[t] # "none"})

Started == {t \in Turns : starts[t] > 0}

Evidence == \E t \in Turns : Has(t, "tool.completed")

NudgesUsed(kind) == Cardinality({t \in Turns : Has(t, NudgeFact[kind])})

(* CompletionGate.evaluate: the first finding, which picks the nudge.      *)
(* stop submits {}, which lacks the required fields of every contract in   *)
(* the repository.                                                         *)
FirstFinding(c) ==
    IF c \in {"stop", "submit_bad"} THEN "schema"
    ELSE IF ~Evidence THEN "evidence"
    ELSE IF Unresolved # {} THEN "pending_operation"
    ELSE "none"

-----------------------------------------------------------------------------
(* One step of a process.                                                  *)

Goto(p, l) == pc' = [pc EXCEPT ![p] = l]

(* The step is over and its locals are gone.                               *)
Leave(p) ==
    /\ Goto(p, "idle")
    /\ turn' = [turn EXCEPT ![p] = 0]
    /\ job' = [job EXCEPT ![p] = 0]
    /\ used' = [used EXCEPT ![p] = 0]
    /\ outcome' = [outcome EXCEPT ![p] = "none"]

(* EventStore.append under a dispatch context                              *)
Writable(p) == owner = p /\ run # "failed"

(* AgentLoop._append and _append_deterministic                             *)
Append(p, t, e) ==
    /\ Writable(p)
    /\ facts' = facts \cup {<<t, e>>}
    /\ quiet' = (e = "agent.waiting")

(* AgentLoop._phase: an illegal transition raises before anything is       *)
(* written.                                                                *)
Phase(p, ph, next) ==
    LET t == turn[p]
        legal == phase[t] = "none" \/ ph \in AllowedTransitions[phase[t]]
    IN  /\ Writable(p) \/ ~legal
        /\ phase' = IF legal THEN [phase EXCEPT ![t] = ph] ELSE phase
        /\ quiet' = (quiet /\ ~legal)
        /\ Goto(p, IF legal THEN next ELSE "illegal")
        /\ UNCHANGED <<facts, command, starts, run>>

(* OperationLedger._store: memory and file.                                *)
Store(p, t, s) ==
    /\ mem' = [mem EXCEPT ![p][t] = s]
    /\ disk' = [disk EXCEPT ![t] = s]
    /\ UNCHANGED loaded

(* An append that changes nothing but the facts.                           *)
Record(p, e, next) ==
    /\ Append(p, turn[p], e)
    /\ Goto(p, next)
    /\ UNCHANGED <<phase, command, starts, run, mailVars, owner, ledgerVars,
                   procVars, toolVars, losses>>

Turned(p, ph, next) ==
    /\ Phase(p, ph, next)
    /\ UNCHANGED <<mailVars, owner, ledgerVars, procVars, toolVars, losses>>

-----------------------------------------------------------------------------
(* The scheduler hands a delivery to the handler.                          *)

(* The claim of a dead process runs out, that of a stalled one may; the    *)
(* dispatch itself is written to the task's log.  Deliveries of a failed   *)
(* run are acked by the sweep (module Dispatch).                           *)
Dispatch(p) ==
    /\ pc[p] = "idle"
    /\ queue # {} /\ run # "failed"
    /\ IF owner = None \/ pc[owner] = "idle"
          THEN losses' = losses
          ELSE losses < MaxLosses /\ losses' = losses + 1
    /\ owner' = p
    /\ job' = [job EXCEPT ![p] = Min(queue)]
    /\ quiet' = FALSE
    /\ Goto(p, IF loaded[p] THEN "enter" ELSE "load")
    /\ UNCHANGED <<facts, phase, command, starts, run, mailVars, ledgerVars, turn,
                   used, outcome, toolVars>>

(* OperationLedger.__init__ in build_loop: _load and recover_incomplete.   *)
Load(p) ==
    LET seen == [t \in Turns |->
                    IF disk[t] = "started" THEN "unknown" ELSE disk[t]]
    IN  /\ pc[p] = "load"
        /\ mem' = [mem EXCEPT ![p] = seen]
        /\ disk' = seen
        /\ loaded' = [loaded EXCEPT ![p] = TRUE]
        /\ Goto(p, "enter")
        /\ UNCHANGED <<logVars, mailVars, owner, procVars, toolVars, losses>>

(* A renewal of the claim is written to the task's log.                    *)
Heartbeat(p) ==
    /\ pc[p] # "idle" /\ owner = p /\ quiet
    /\ quiet' = FALSE
    /\ UNCHANGED <<facts, phase, command, starts, run, mailVars, owner, ledgerVars,
                   pc, procVars, toolVars, losses>>

(* WorkClaimLost, from the first append after the claim is gone, or        *)
(* DispatchCancelled, once the renewer has noticed.                        *)
Abandon(p) ==
    /\ pc[p] # "idle" /\ owner # p
    /\ Leave(p)
    /\ UNCHANGED <<logVars, mailVars, owner, ledgerVars, toolVars, losses>>

(* The process dies; the next one starts without a loop in memory.         *)
Crash(p) ==
    /\ pc[p] # "idle" /\ losses < MaxLosses
    /\ losses' = losses + 1
    /\ loaded' = [loaded EXCEPT ![p] = FALSE]
    /\ mem' = [mem EXCEPT ![p] = [t \in Turns |-> "absent"]]
    /\ Leave(p)
    /\ UNCHANGED <<logVars, mailVars, owner, disk, toolVars>>

(* FaultController.trip: the step ends without an ack, the process lives.  *)
(* (The code does not trip for an incomplete response that is recovered;   *)
(* here it may.)                                                           *)
AtFaultPoint(p) ==
    \/ pc[p] = "validate" /\ ~Has(turn[p], "model.response.reused")
    \/ pc[p] = "rejecting" /\ command[turn[p]] = "incomplete"
    \/ pc[p] = "authorize" /\ ~Has(turn[p], "agent.command.reused")
    \/ pc[p] = "record" /\ command[turn[p]] = "tool"
    \/ pc[p] = "ack"

Injected(p) ==
    /\ AtFaultPoint(p) /\ owner = p /\ losses < MaxLosses
    /\ losses' = losses + 1
    /\ owner' = None
    /\ quiet' = FALSE
    /\ Leave(p)
    /\ UNCHANGED <<facts, phase, command, starts, run, mailVars, ledgerVars,
                   toolVars>>

-----------------------------------------------------------------------------
(* AgentLoop.run_once, up to a persisted response.                         *)

Local(p, t, next) ==
    /\ turn' = [turn EXCEPT ![p] = t]
    /\ used' = [used EXCEPT ![p] = Cardinality(Started)]
    /\ Goto(p, next)
    /\ UNCHANGED <<logVars, mailVars, owner, ledgerVars, job, toolVars, losses>>

(* Mutant: an operation with an unknown outcome stops nothing.             *)
HaltedByEnd == Terminal \/ ActiveWait

(* Nothing is started: the first test of run_once.                         *)
Halted == Terminal \/ Unknown \/ ActiveWait

EnterHalted(p) ==
    /\ pc[p] = "enter" /\ Halted
    /\ Local(p, turn[p], "after")
    /\ UNCHANGED outcome

(* Mutant: what has not succeeded has failed.                              *)
RememberedFailed(p, t) == IF mem[p][t] = "succeeded" THEN "ok" ELSE "error"

(* _recover_pipeline_operation: what this process's ledger knows.  A       *)
(* record it has never seen counts as unknown.                             *)
Remembered(p, t) ==
    IF mem[p][t] = "succeeded" THEN "ok"
    ELSE IF mem[p][t] = "failed" THEN "error" ELSE "unsure"

EnterUnresolved(p) ==
    /\ pc[p] = "enter" /\ ~Halted /\ Unresolved # {}
    /\ LET t == Max(Unresolved)
       IN  /\ Local(p, t, "recover")
           /\ outcome' = [outcome EXCEPT ![p] = Remembered(p, t)]

Resumable(p) ==
    pc[p] = "enter" /\ ~Halted /\ Unresolved = {} /\ Unfinished # {}

AfterReuse(t) ==
    IF Has(t, "agent.command.validated")
      THEN IF Has(t, "agent.command.reused") THEN "authorize" ELSE "reuse_command"
      ELSE "validate"

AfterAnswer(t) ==
    IF command[t] = "incomplete" THEN "rejecting"
    ELSE IF Has(t, "model.response.reused") THEN AfterReuse(t)
    ELSE "reuse"

(* The response of the newest unfinished turn is used again.               *)
EnterResponse(p) ==
    /\ Resumable(p)
    /\ Max(Unfinished) \in Answered
    /\ Local(p, Max(Unfinished), AfterAnswer(Max(Unfinished)))
    /\ UNCHANGED outcome

(* recover_unresolved (module ModelCalls) lets a call that was never sent  *)
(* be asked anew, or raises.                                               *)
EnterRequest(p) ==
    /\ Resumable(p)
    /\ Max(Unfinished) \notin Answered
    /\ \/ NextTurn \in Turns /\ Local(p, NextTurn, "begin")
       \/ Local(p, turn[p], "error")
    /\ UNCHANGED outcome

EnterFresh(p) ==
    /\ pc[p] = "enter" /\ ~Halted /\ Unresolved = {} /\ Unfinished = {}
    /\ NextTurn \in Turns
    /\ Local(p, NextTurn, "begin")
    /\ UNCHANGED outcome

Begin(p) == pc[p] = "begin" /\ Turned(p, "context_building", "calling")

Calling(p) == pc[p] = "calling" /\ Turned(p, "model_calling", "request")

Request(p) == pc[p] = "request" /\ Record(p, "model.requested", "answer")

(* The call and model.completed; the call may fail (module ModelCalls).    *)
Answer(p) ==
    /\ pc[p] = "answer"
    /\ \/ /\ Writable(p)
          /\ \E c \in Commands :
                /\ command' = [command EXCEPT ![turn[p]] = c]
                /\ Goto(p, IF c = "incomplete" THEN "rejecting" ELSE "validate")
          /\ quiet' = FALSE
       \/ Goto(p, "error") /\ UNCHANGED <<command, quiet>>
    /\ UNCHANGED <<facts, phase, starts, run, mailVars, owner, ledgerVars, procVars,
                   toolVars, losses>>

Reuse(p) ==
    pc[p] = "reuse" /\ Record(p, "model.response.reused", AfterReuse(turn[p]))

ReuseCommand(p) ==
    pc[p] = "reuse_command" /\ Record(p, "agent.command.reused", "authorize")

Validate(p) == pc[p] = "validate" /\ Turned(p, "decision_validating", "parse")

(* AgentAction.model_validate_json                                         *)
Parse(p) ==
    /\ pc[p] = "parse"
    /\ IF command[turn[p]] = "malformed"
          THEN /\ Goto(p, "rejecting")
               /\ UNCHANGED <<logVars, mailVars, owner, ledgerVars, procVars,
                              toolVars, losses>>
          ELSE Record(p, "agent.command.validated", "authorize")

(* Registry, disclosure and the budget as the log stood on entry.          *)
Denied(p) ==
    \/ command[turn[p]] \in {"unknown_tool", "hidden_tool"}
    \/ command[turn[p]] \in {"tool", "refused_tool"} /\ used[p] >= ToolLimit

Authorize(p) ==
    /\ pc[p] = "authorize"
    /\ Turned(p, "action_authorizing",
              IF Denied(p) THEN "rejecting"
              ELSE IF command[turn[p]] \in {"tool", "refused_tool"} THEN "execute"
              ELSE "record")

Rejecting(p) == pc[p] = "rejecting" /\ Turned(p, "failed", "reject")

Reject(p) ==
    /\ pc[p] = "reject"
    /\ Record(p, IF command[turn[p]] \in {"incomplete", "malformed"}
                    THEN "model.validation_failed" ELSE "agent.action.denied",
              "after")

-----------------------------------------------------------------------------
(* _execute_via_pipeline.                                                  *)

Execute(p) == pc[p] = "execute" /\ Turned(p, "action_executing", "prepare")

(* ToolPipeline.prepare, and OperationLedger.plan by the idempotency key   *)
(* of the turn.                                                            *)
Prepare(p) ==
    /\ pc[p] = "prepare"
    /\ IF command[turn[p]] = "refused_tool"
          THEN Goto(p, "rejecting") /\ UNCHANGED ledgerVars
          ELSE /\ Goto(p, "start")
               /\ IF mem[p][turn[p]] = "absent"
                    THEN Store(p, turn[p], "planned")
                    ELSE UNCHANGED ledgerVars
    /\ UNCHANGED <<logVars, mailVars, owner, procVars, toolVars, losses>>

(* Mutant: the effect does not wait for its fact.                          *)
StartUnrecorded(p) ==
    /\ pc[p] = "start"
    /\ Store(p, turn[p], "started")
    /\ Goto(p, "call")
    /\ UNCHANGED <<logVars, mailVars, owner, procVars, toolVars, losses>>

(* _existing_result: an operation that failed comes back as cached, and    *)
(* the loop takes a cached one that kept its result for completed.         *)
Existing(p, t) ==
    IF mem[p][t] = "failed" THEN {"ok", "error"} ELSE {Remembered(p, t)}

(* _execute_one: only a planned operation is started; for any other the    *)
(* ledger answers.  Behind the phases of the loop the operation is always  *)
(* a planned one (theorem StartsPlanned).                                  *)
Start(p) ==
    LET t == turn[p]
    IN  /\ pc[p] = "start"
        /\ IF mem[p][t] = "planned"
              THEN /\ Store(p, t, "started")
                   /\ Goto(p, "announce")
                   /\ UNCHANGED outcome
              ELSE /\ IF mem[p][t] = "started"
                        THEN Store(p, t, "unknown") ELSE UNCHANGED ledgerVars
                   /\ \E o \in Existing(p, t) : outcome' = [outcome EXCEPT ![p] = o]
                   /\ Goto(p, "record")
        /\ UNCHANGED <<logVars, mailVars, owner, turn, job, used, toolVars, losses>>

(* record_started: the fact comes before the effect.                       *)
Announce(p) ==
    LET t == turn[p]
    IN  /\ pc[p] = "announce"
        /\ Writable(p)
        /\ starts' = [starts EXCEPT ![t] = @ + 1]
        /\ quiet' = FALSE
        /\ Goto(p, "call")
        /\ UNCHANGED <<facts, phase, command, run, mailVars, owner, ledgerVars,
                       procVars, toolVars, losses>>

(* ToolRegistry.call: a result, an exception or a status other than        *)
(* success, or OperationOutcomeUnknown.                                    *)
Call(p) ==
    /\ pc[p] = "call"
    /\ \E r \in {"ok", "error", "unsure"} :
          /\ result' = [result EXCEPT ![turn[p]] = r]
          /\ outcome' = [outcome EXCEPT ![p] = r]
    /\ calls' = [calls EXCEPT ![turn[p]] = @ + 1]
    /\ Goto(p, "settle")
    /\ UNCHANGED <<logVars, mailVars, owner, ledgerVars, turn, job, used, losses>>

LedgerState == [ok |-> "succeeded", error |-> "failed", unsure |-> "unknown"]

(* succeed, fail or mark_unknown                                           *)
Settle(p) ==
    /\ pc[p] = "settle"
    /\ Store(p, turn[p], LedgerState[outcome[p]])
    /\ Goto(p, "record")
    /\ UNCHANGED <<logVars, mailVars, owner, procVars, toolVars, losses>>

(* Recovery writes the result phase as well; for an operation the ledger   *)
(* knows to have failed it adds operation.failed and no tool.failed.       *)
Recover(p) ==
    /\ pc[p] = "recover"
    /\ Turned(p, "result_recording",
              IF outcome[p] = "error" THEN "close" ELSE "result")

RecordResult(p) ==
    /\ pc[p] = "record"
    /\ Turned(p, "result_recording",
              IF command[turn[p]] = "tool" THEN "result"
              ELSE IF command[turn[p]] \in {"stop", "submit", "submit_bad"}
                THEN "gate" ELSE "act")

Result(p) ==
    /\ pc[p] = "result"
    /\ \/ outcome[p] = "ok" /\ Record(p, "tool.completed", "close")
       \/ outcome[p] = "error" /\ Record(p, "tool.failed", "close")
       \/ outcome[p] = "unsure" /\ Record(p, "operation.unknown", "after")

Close(p) ==
    /\ pc[p] = "close"
    /\ Record(p, IF outcome[p] = "ok" THEN "operation.completed"
                 ELSE "operation.failed", "after")

-----------------------------------------------------------------------------
(* _execute, for an action that is no tool call.                           *)

(* _completion_allows                                                      *)
Gate(p) ==
    LET c == command[turn[p]]
        passed == FirstFinding(c) = "none"
    IN  /\ pc[p] = "gate"
        /\ Record(p, IF passed THEN "completion.gate.passed"
                     ELSE "completion.gate.failed",
                  IF ~passed THEN "nudge" ELSE IF c = "submit" THEN "submit"
                  ELSE "act")

Nudge(p) ==
    LET kind == FirstFinding(command[turn[p]])
    IN  /\ pc[p] = "nudge"
        /\ Record(p, IF NudgesUsed(kind) < NudgeLimit THEN NudgeFact[kind]
                     ELSE "agent.stopped", "after")

Submit(p) == pc[p] = "submit" /\ Turned(p, "submitted", "act")

(* The fact that ends the turn; a wait moves to its own phase first.       *)
Act(p) ==
    LET c == command[turn[p]]
    IN  /\ pc[p] = "act"
        /\ \/ c \in {"stop", "blocked"} /\ Record(p, "agent.stopped", "after")
           \/ /\ c \in {"submit", "submit_bad"}
              /\ Record(p, "agent.submitted", "after")
           \/ c = "wait" /\ Turned(p, "waiting", "waiting")
           \/ c = "artifact" /\ Record(p, "artifact.created", "after")
           \/ c = "message" /\ Record(p, "a2a.message.sent", "after")
           \/ c = "continue" /\ Record(p, "agent.continued", "after")

Waiting(p) == pc[p] = "waiting" /\ Record(p, "agent.waiting", "after")

-----------------------------------------------------------------------------
(* _single_agent_step, around run_once.                                    *)

Outer(p, e, next) ==
    /\ Append(p, 0, e)
    /\ Goto(p, next)
    /\ UNCHANGED <<phase, command, starts, run, mailVars, owner, ledgerVars,
                   procVars, toolVars, losses>>

(* Every exception of run_once ends the assignment.                        *)
StepFailed(p) ==
    pc[p] \in {"error", "illegal"} /\ Outer(p, "agent.failed", "finish")

AfterTerminal(p) ==
    /\ pc[p] = "after" /\ Terminal
    /\ Goto(p, "finish")
    /\ UNCHANGED <<logVars, mailVars, owner, ledgerVars, procVars, toolVars, losses>>

(* _finish_single_run: a run that has ended keeps its status.              *)
Finish(p) ==
    LET submitted == ~Has(0, "agent.failed")
                       /\ \E t \in Turns : Has(t, "agent.submitted")
    IN  /\ pc[p] = "finish"
        /\ Writable(p)
        /\ run' = IF run \in {"succeeded", "failed"} THEN run
                  ELSE IF submitted THEN "succeeded" ELSE "failed"
        /\ quiet' = FALSE
        /\ Goto(p, "ack")
        /\ UNCHANGED <<facts, phase, command, starts, mailVars, owner, ledgerVars,
                       procVars, toolVars, losses>>

Pause(p) ==
    /\ pc[p] = "after" /\ ~Terminal
    /\ Unknown \/ quiet
    /\ Writable(p)
    /\ run' = IF run = "running" THEN "paused" ELSE run
    /\ quiet' = FALSE
    /\ Goto(p, "ack")
    /\ UNCHANGED <<facts, phase, command, starts, mailVars, owner, ledgerVars,
                   procVars, toolVars, losses>>

Exhaust(p) ==
    /\ pc[p] = "after" /\ ~Terminal /\ ~Unknown /\ ~quiet
    /\ Cardinality(Answered) >= TurnLimit
    /\ Outer(p, "agent.failed", "finish")

(* Mutant: the turn that exhausts the budget is followed by another.       *)
ReadyLate(p) ==
    LET next == Cardinality(Answered) + 1
    IN  /\ pc[p] = "after" /\ ~Terminal /\ ~Unknown /\ ~quiet
        /\ Cardinality(Answered) <= TurnLimit
        /\ Writable(p)
        /\ queue' = IF next > sent THEN queue \cup {next} ELSE queue
        /\ sent' = IF next > sent THEN next ELSE sent
        /\ quiet' = FALSE
        /\ Goto(p, "ack")
        /\ UNCHANGED <<facts, phase, command, starts, run, owner, ledgerVars,
                       procVars, toolVars, losses>>

(* Mutant: the delivery is named by the turn that has just ended.          *)
ReadySame(p) ==
    LET next == Cardinality(Answered)
    IN  /\ pc[p] = "after" /\ ~Terminal /\ ~Unknown /\ ~quiet
        /\ Cardinality(Answered) < TurnLimit
        /\ Writable(p)
        /\ queue' = IF next > sent THEN queue \cup {next} ELSE queue
        /\ sent' = IF next > sent THEN next ELSE sent
        /\ quiet' = FALSE
        /\ Goto(p, "ack")
        /\ UNCHANGED <<facts, phase, command, starts, run, owner, ledgerVars,
                       procVars, toolVars, losses>>

(* runtime.turn.ready and the next delivery, named by the turns answered   *)
(* so far; a delivery that was enqueued before is not enqueued again.      *)
Ready(p) ==
    LET next == Cardinality(Answered) + 1
    IN  /\ pc[p] = "after" /\ ~Terminal /\ ~Unknown /\ ~quiet
        /\ Cardinality(Answered) < TurnLimit
        /\ Writable(p)
        /\ queue' = IF next > sent THEN queue \cup {next} ELSE queue
        /\ sent' = IF next > sent THEN next ELSE sent
        /\ quiet' = FALSE
        /\ Goto(p, "ack")
        /\ UNCHANGED <<facts, phase, command, starts, run, owner, ledgerVars,
                       procVars, toolVars, losses>>

(* finish_work_claims with the ack                                         *)
Ack(p) ==
    /\ pc[p] = "ack" /\ owner = p
    /\ queue' = queue \ {job[p]}
    /\ UNCHANGED sent
    /\ owner' = None
    /\ Leave(p)
    /\ quiet' = FALSE
    /\ UNCHANGED <<facts, phase, command, starts, run, ledgerVars, toolVars, losses>>

-----------------------------------------------------------------------------
Step(p) ==
    \/ Load(p) \/ EnterHalted(p) \/ EnterUnresolved(p) \/ EnterResponse(p)
    \/ EnterRequest(p) \/ EnterFresh(p)
    \/ Begin(p) \/ Calling(p) \/ Request(p) \/ Answer(p)
    \/ Reuse(p) \/ ReuseCommand(p) \/ Validate(p) \/ Parse(p) \/ Authorize(p)
    \/ Rejecting(p) \/ Reject(p)
    \/ Execute(p) \/ Prepare(p) \/ Start(p) \/ Announce(p) \/ Call(p)
    \/ Settle(p) \/ Recover(p) \/ RecordResult(p) \/ Result(p) \/ Close(p)
    \/ Gate(p) \/ Nudge(p) \/ Submit(p) \/ Act(p) \/ Waiting(p)
    \/ StepFailed(p) \/ AfterTerminal(p) \/ Finish(p) \/ Pause(p) \/ Exhaust(p)
    \/ Ready(p) \/ Ack(p) \/ Abandon(p)

Next ==
    \E p \in Procs :
        Step(p) \/ Dispatch(p) \/ Heartbeat(p) \/ Crash(p) \/ Injected(p)

Spec == Init /\ [][Next]_vars

(* The scheduler thread keeps dispatching and a running step keeps going.  *)
FairSpec ==
    Spec /\ \A p \in Procs : WF_vars(Step(p)) /\ WF_vars(Dispatch(p))

-----------------------------------------------------------------------------
(* Types of all variables.                                                 *)
TypeOK ==
    /\ facts \subseteq (0 .. MaxTurns) \X FactTypes
    /\ phase \in [Turns -> LoopPhases \cup {"none"}]
    /\ command \in [Turns -> Commands \cup {"none"}]
    /\ starts \in [Turns -> Nat]
    /\ quiet \in BOOLEAN
    /\ run \in {"running", "paused", "succeeded", "failed"}
    /\ queue \in SUBSET Nat /\ sent \in Nat
    /\ owner \in Procs \cup {None}
    /\ disk \in [Turns -> OperationStates]
    /\ pc \in [Procs -> PCs]
    /\ turn \in [Procs -> 0 .. MaxTurns]
    /\ job \in [Procs -> Nat]
    /\ used \in [Procs -> Nat]
    /\ outcome \in [Procs -> Outcomes]
    /\ loaded \in [Procs -> BOOLEAN]
    /\ mem \in [Procs -> [Turns -> OperationStates]]
    /\ result \in [Turns -> Outcomes]
    /\ calls \in [Turns -> Nat]
    /\ losses \in 0 .. MaxLosses

(* A tool runs at most once in a turn, and never without its durable       *)
(* operation.started, whatever crashes and whoever takes over.             *)
ToolRunsOnce == \A t \in Turns : calls[t] <= starts[t] /\ starts[t] <= 1

(* The log tells the truth about the effect: a result is recorded, or      *)
(* recovered from a ledger, only if the tool returned it, and an operation *)
(* is said to have failed only if it did.                                  *)
LogTellsTruth ==
    \A t \in Turns :
        /\ Has(t, "tool.completed") => result[t] = "ok"
        /\ Has(t, "tool.failed") \/ Has(t, "operation.failed")
              => result[t] = "error"

(* budgets.tool_calls counts every call that was started, over restarts.   *)
WithinToolBudget == Cardinality({t \in Turns : calls[t] > 0}) <= ToolLimit

(* budgets.turns: a redelivered step may open one turn more.               *)
TurnsWithinBudget == Cardinality(Answered) <= TurnLimit + losses

(* Behind an operation whose outcome is unknown no model is asked.         *)
UnknownBlocks ==
    \A t, u \in Turns :
        Has(t, "operation.unknown") /\ u > t => ~Has(u, "model.requested")

(* Every run comes to rest: it ends, or it pauses with nothing to deliver. *)
ComesToRest == <>[](run \in {"succeeded", "failed"} \/ (run = "paused" /\ queue = {}))
=============================================================================
