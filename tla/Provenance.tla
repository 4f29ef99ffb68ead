----------------------------- MODULE Provenance -----------------------------
(***************************************************************************)
(* One assignment of a resident team that may consult a peer: the private  *)
(* logs of the two agent runs with the causes of their events, the peer    *)
(* request and its response through the control kernel, and the checks the *)
(* kernel makes on those logs before a result becomes a fact.              *)
(* (control_plane/team_workers.py, kernel.py; core/agents/loop.py for what *)
(* a turn writes and which cause each event names.)                        *)
(*                                                                         *)
(* Only the thread that handles a delivery of an agent run writes its log, *)
(* so a handler's appends between two outside effects are one step, and an *)
(* interrupted handler (a process that died, a lost work claim) leaves a   *)
(* prefix of them.  Run, task, source and agent identities of the events   *)
(* agree by construction of the logs and are left out of the checks.       *)
(***************************************************************************)
EXTENDS Integers, Sequences, FiniteSets

CONSTANTS
    None,
    NeedsPeer,   \* the assignment's tool inspects the peer's response
    MaxTurns,    \* budgets.turns of both contracts
    MaxNudges,   \* NudgeBudget for missing evidence
    Choices,     \* what a model may answer, per agent run
    MaxCuts,     \* bound: interrupted handlers
    MayExpire    \* bound: the lease's deadline may pass

AgentRuns == {"asg", "peer"}

ASSUME ProvenanceConstants ==
    /\ NeedsPeer \in BOOLEAN /\ MayExpire \in BOOLEAN
    /\ MaxTurns \in Nat \ {0} /\ MaxNudges \in Nat /\ MaxCuts \in Nat
    /\ Choices \in [AgentRuns ->
                      SUBSET {"tool", "send", "submit", "blocked", "invalid"}]
    \* the peer's loop is built without a message handler
    /\ "send" \notin Choices["peer"]

VARIABLES
    log,       \* the private log of each agent run
    ledger,    \* operation ledger: the operation of each turn
    lease,     \* lease projection of the assignment
    due,       \* its deadline has passed
    asked,     \* turns whose peer request the kernel accepted
    answer,    \* decision on the peer response
    verdict,   \* decision on the assignment's result
    failed,    \* reason of the assignment.failed fact
    over,      \* the run failed: a handler raised, or a model call did
    sent, acked,
    thread,    \* the handler of each agent run
    cuts

vars == <<log, ledger, lease, due, asked, answer, verdict, failed, over,
          sent, acked, thread, cuts>>

-----------------------------------------------------------------------------
(* Events.  cause: the position of the causing event in the same log, 0    *)
(* for no causation_id, Outside for an event of the root task.             *)

Outside == -1
Ev(type, cause, turn, data) ==
    [type |-> type, cause |-> cause, turn |-> turn, data |-> data]

Phase(t, p) == Ev("phase", 0, t, p)

Where(l, P(_)) == { k \in 1 .. Len(l) : P(l[k]) }
LastOf(S) == IF S = {} THEN 0 ELSE CHOOSE k \in S : \A j \in S : j <= k
FirstOf(S) == IF S = {} THEN 0 ELSE CHOOSE k \in S : \A j \in S : j >= k
OfType(l, T) == Where(l, LAMBDA e : e.type \in T)
OfTurn(l, t, T) == Where(l, LAMBDA e : e.type \in T /\ e.turn = t)

(* Deliveries: the wake-ups of the two agent runs.                         *)
Created   == [to |-> "asg", kind |-> "created", n |-> 0]
Responded == [to |-> "asg", kind |-> "responded", n |-> 0]
Requested == [to |-> "peer", kind |-> "requested", n |-> 0]
Ready(w, n) == [to |-> w, kind |-> "ready", n |-> n]

Pending == sent \ acked
Idle == [pc |-> "idle", msg |-> None, todo |-> <<>>]

Init ==
    /\ log = [w \in AgentRuns |-> <<>>]
    /\ ledger = [w \in AgentRuns |-> <<>>]
    /\ lease = "active" /\ due = FALSE
    /\ asked = {} /\ answer = "none" /\ verdict = "none" /\ failed = None
    /\ over = FALSE
    /\ sent = {Created} /\ acked = {}
    /\ thread = [w \in AgentRuns |-> Idle]
    /\ cuts = 0

-----------------------------------------------------------------------------
(* AgentLoop over the private log.                                         *)

Turns(l) == { l[k].turn : k \in DOMAIN l }
CompletedTurns(l) == Cardinality(OfType(l, {"completed"}))
IsTerminal(l) == OfType(l, {"stopped", "submitted"}) # {}
HasUnknown(l) == OfType(l, {"op.unknown"}) # {}

HasActiveWait(l) ==
    LET k == LastOf(OfType(l, {"waiting"}))
    IN k # 0 /\ \A j \in k + 1 .. Len(l) : l[j].type # "responded"

Unresolved(l) ==
    LastOf(Where(l, LAMBDA e : e.type = "op.started"
             /\ OfTurn(l, e.turn, {"op.completed", "op.failed", "op.unknown"}) = {}))

TurnCompleted == {"invalid", "tool.completed", "tool.failed", "stopped",
                  "submitted", "waiting", "nudged", "message.sent",
                  "message.denied", "op.unknown"}

RecoverableTurn(l) ==
    LET open == { t \in Turns(l) : OfTurn(l, t, {"request", "completed"}) # {}
                                   /\ OfTurn(l, t, TurnCompleted) = {} }
    IN LastOf(open)

AllowedTransitions ==
    [context |-> {"calling"}, calling |-> {"validating", "failed"},
     validating |-> {"authorizing", "failed"},
     authorizing |-> {"executing", "recording", "failed"},
     executing |-> {"recording", "failed"},
     recording |-> {"waiting", "submitted", "failed"},
     waiting |-> {"context", "failed"}, submitted |-> {}, failed |-> {}]

(* _phase raises on a transition the table does not have.                  *)
PhaseAllowed(l, t, p) ==
    LET k == LastOf(OfTurn(l, t, {"phase"}))
    IN k = 0 \/ p \in AllowedTransitions[l[k].data]

(* What a step of the loop is about to write, and what comes after it.     *)
Then(pc, todo) == [pc |-> pc, todo |-> todo]

(* Mutant: the request names no cause, as loop.phase.changed does.         *)
NewTurnUncaused(l) ==
    LET t == 1 + LastOf(Turns(l))
        n == Len(l)
    IN Then("model", << Phase(t, "context"), Ev("capability", 0, t, None),
                        Ev("context", n + 2, t, None), Phase(t, "calling"),
                        Ev("request", n + 3, t, None) >>)

(* A new turn: the trigger is the last event the loop read.                *)
NewTurn(l) ==
    LET t == 1 + LastOf(Turns(l))
        n == Len(l)
    IN Then("model", << Phase(t, "context"), Ev("capability", n, t, None),
                        Ev("context", n + 2, t, None), Phase(t, "calling"),
                        Ev("request", n + 3, t, None) >>)

(* _completion_allows, then what the submission writes.  c: the command.   *)
Submit(l, t, c) ==
    LET rec == << Phase(t, "recording") >>
    IN IF OfType(l, {"tool.completed"}) # {}
       THEN Then("advance", rec \o << Ev("gate.passed", c, t, None),
                                      Phase(t, "submitted"),
                                      Ev("submitted", c, t, None) >>)
       ELSE IF Cardinality(OfType(l, {"nudged"})) < MaxNudges
       THEN Then("advance", rec \o << Ev("gate.failed", c, t, None),
                                      Ev("nudged", c, t, None) >>)
       ELSE Then("advance", rec \o << Ev("gate.failed", c, t, None),
                                      Ev("stopped", c, t, None) >>)

(* From the authorisation of the command at c to the first outside effect. *)
Authorize(l, t, c, a) ==
    LET auth == << Phase(t, "authorizing") >>
        rest == CASE a = "tool" -> Then("tool", << Phase(t, "executing") >>)
                  [] a = "send" -> Then("ask", << Phase(t, "recording") >>)
                  [] a = "submit" -> Submit(l, t, c)
                  [] a = "blocked" -> Then("advance",
                        << Phase(t, "recording"), Ev("stopped", c, t, None) >>)
    IN Then(rest.pc, auth \o rest.todo)

(* The response at r is parsed.  The artifact of a command is its choice.  *)
Decide(l, t, r, a) ==
    LET rest == Authorize(l, t, Len(l) + 2, a)
    IN IF a = "invalid"
       THEN Then("advance", << Phase(t, "validating"), Phase(t, "failed"),
                               Ev("invalid", r, t, None) >>)
       ELSE Then(rest.pc, << Phase(t, "validating"), Ev("command", r, t, a) >>
                          \o rest.todo)

(* _recover_pipeline_operation for the operation.started at k.             *)
RecoverOperation(w, l, k) ==
    LET t == l[k].turn
        n == Len(l)
        state == IF t \in DOMAIN ledger[w] THEN ledger[w][t] ELSE "missing"
        rec == << Phase(t, "recording") >>
    IN IF ~PhaseAllowed(l, t, "recording") THEN Then("raise", <<>>)
       ELSE CASE state = "succeeded" -> Then("advance", rec \o
                   << Ev("tool.completed", k, t, None),
                      Ev("op.completed", n + 2, t, n + 2) >>)
              [] state = "failed" -> Then("advance", rec \o
                   << Ev("op.failed", k, t, None) >>)
              [] OTHER -> Then("advance", rec \o << Ev("op.unknown", k, t, None) >>)

(* An interrupted turn with its response: neither response nor command is  *)
(* asked for again.                                                        *)
ResumeTurn(l, t) ==
    LET r == LastOf(OfTurn(l, t, {"completed"}))
        c == LastOf(OfTurn(l, t, {"command"}))
        again == IF OfTurn(l, t, {"reused"}) # {} THEN <<>>
                 ELSE << Ev("reused", r, t, None) >>
        kept == again \o (IF c = 0 \/ OfTurn(l, t, {"command.reused"}) # {}
                          THEN <<>> ELSE << Ev("command.reused", c, t, None) >>)
        rest == IF c = 0
                THEN IF PhaseAllowed(l, t, "validating")
                     THEN Decide(l \o kept, t, r, l[r].data)
                     ELSE Then("raise", <<>>)
                ELSE IF PhaseAllowed(l, t, "authorizing")
                     THEN Authorize(l \o kept, t, c, l[c].data)
                     ELSE Then("raise", <<>>)
    IN Then(rest.pc, kept \o rest.todo)

(* run_once on the log l.                                                  *)
RunOnce(w, l) ==
    LET t == RecoverableTurn(l)
    IN IF IsTerminal(l) \/ HasUnknown(l) \/ HasActiveWait(l)
       THEN { Then("advance", <<>>) }
       ELSE IF Unresolved(l) # 0
       THEN { RecoverOperation(w, l, Unresolved(l)) }
       ELSE IF t # 0 /\ OfTurn(l, t, {"completed"}) # {}
       THEN { ResumeTurn(l, t) }
       \* recover_unresolved: no attempt began, or its outcome is unknown
       ELSE IF t # 0 /\ l[Len(l)].type = "request"
       THEN { NewTurn(l), Then("raise", <<>>) }
       ELSE { NewTurn(l) }

-----------------------------------------------------------------------------
(* The handler of a delivery.                                              *)

Running(w, pc) ==
    /\ thread[w].pc = pc
    /\ ~over

Goto(w, next) ==
    thread' = [thread EXCEPT ![w].pc = next.pc, ![w].todo = next.todo]

LogAfter(w) == log[w] \o thread[w].todo

(* _begin_leased_step.  A stale delivery only leaves a fact behind.        *)
LeaseHeld == lease = "active" /\ ~due

(* What the handler writes before the loop runs: heartbeat and renewal of  *)
(* a turn.ready live in the agent run's own log, the response of the peer  *)
(* is mirrored once, and the first delivery writes the seed.               *)
Prelude(w, m) ==
    LET n == Len(log[w])
        here == LastOf(Where(log[w], LAMBDA e : e.type = "ready" /\ e.data = m.n))
        beat == IF w = "asg" /\ m.kind = "ready"
                   /\ Where(log[w], LAMBDA e : e.type = "renewed" /\ e.data = m.n) = {}
                THEN << Ev("heartbeat", here, 0, m.n), Ev("renewed", here, 0, m.n) >>
                ELSE <<>>
        mirror == IF m.kind = "responded" /\ OfType(log[w], {"responded"}) = {}
                  THEN << Ev("responded", Outside, 0, None) >> ELSE <<>>
        seed == IF log[w] = <<>> THEN << Ev("seed", Outside, 0, None) >> ELSE <<>>
    IN beat \o mirror \o seed

Begin(w, m) ==
    /\ Running(w, "idle")
    /\ m \in Pending /\ m.to = w
    /\ IF w = "asg" /\ ~LeaseHeld
       THEN /\ acked' = acked \cup {m}
            /\ UNCHANGED thread
       ELSE /\ \E next \in RunOnce(w, log[w] \o Prelude(w, m)) :
                 thread' = [thread EXCEPT ![w] =
                              [pc |-> next.pc, msg |-> m,
                               todo |-> Prelude(w, m) \o next.todo]]
            /\ UNCHANGED acked
    /\ UNCHANGED <<log, ledger, lease, due, asked, answer, verdict, failed,
                   over, sent, cuts>>

(* The pending appends of the handler; every later step needs them done.   *)
Write(w) ==
    /\ ~over /\ thread[w].todo # <<>>
    /\ log' = [log EXCEPT ![w] = LogAfter(w)]
    /\ thread' = [thread EXCEPT ![w].todo = <<>>]
    /\ UNCHANGED <<ledger, lease, due, asked, answer, verdict, failed, over,
                   sent, acked, cuts>>

At(w, pc) == Running(w, pc) /\ thread[w].todo = <<>>
CurrentTurn(w) == LastOf(Turns(log[w]))
CurrentCommand(w) == LastOf(OfTurn(log[w], CurrentTurn(w), {"command"}))

(* model.complete and the durable response.                                *)
CallModel(w) ==
    /\ At(w, "model")
    /\ \E a \in Choices[w] :
         LET t == CurrentTurn(w)
             done == Ev("completed", Len(log[w]), t, a)
             next == Decide(Append(log[w], done), t, Len(log[w]) + 1, a)
         IN Goto(w, Then(next.pc, << done >> \o next.todo))
    /\ UNCHANGED <<log, ledger, lease, due, asked, answer, verdict, failed,
                   over, sent, acked, cuts>>

(* ToolPipeline: the ledger record, then on_started.                       *)
StartTool(w) ==
    /\ At(w, "tool")
    /\ LET t == CurrentTurn(w)
           n == Len(log[w])
       IN /\ ledger' = [ledger EXCEPT ![w] =
                          [u \in DOMAIN @ \cup {t} |-> IF u = t THEN "started" ELSE @[u]]]
          /\ Goto(w, Then("effect", << Ev("op.started", CurrentCommand(w), t, None),
                                       Ev("tool.requested", n + 1, t, None) >>))
    /\ UNCHANGED <<log, lease, due, asked, answer, verdict, failed, over, sent,
                   acked, cuts>>

(* Mutant: the tool does not look for the peer's response.                 *)
InspectAnything(w) == TRUE

(* inspect: the artifact stage reads the response of its own assignment,   *)
(* the peer reads the request it answers.                                  *)
Inspect(w) ==
    IF w = "asg" THEN NeedsPeer => answer = "accepted" ELSE asked # {}

RunTool(w) ==
    /\ At(w, "effect")
    /\ LET t == CurrentTurn(w)
           n == Len(log[w])
           op == LastOf(OfTurn(log[w], t, {"op.started"}))
       IN IF Inspect(w)
          THEN /\ ledger' = [ledger EXCEPT ![w][t] = "succeeded"]
               /\ Goto(w, Then("advance",
                     << Phase(t, "recording"), Ev("tool.completed", op, t, None),
                        Ev("op.completed", n + 2, t, n + 2) >>))
          ELSE /\ ledger' = [ledger EXCEPT ![w][t] = "failed"]
               /\ Goto(w, Then("advance",
                     << Phase(t, "recording"),
                        Ev("tool.failed", CurrentCommand(w), t, None),
                        Ev("op.failed", n + 2, t, None) >>))
    /\ UNCHANGED <<log, lease, due, asked, answer, verdict, failed, over, sent,
                   acked, cuts>>

-----------------------------------------------------------------------------
(* The kernel on the private logs.                                         *)

(* _causal_chain_reaches_seed, _is_trusted_agent_run_observation.          *)
ReachesSeed(l, p) ==
    LET f[k \in 0 .. Len(l)] ==
          IF k = 0 THEN FALSE
          ELSE \/ l[k].type \in {"seed", "responded"}
               \/ l[k].cause \in 1 .. k - 1 /\ f[l[k].cause]
    IN f[p]

(* _has_valid_model_command_chain.                                         *)
HasValidModelChain(l, c) ==
    LET resp == l[c].cause
        req == l[resp].cause
        trigger == l[req].cause
    IN /\ l[c].type = "command"
       /\ resp \in 1 .. c - 1 /\ l[resp].type = "completed"
       /\ req \in 1 .. resp - 1 /\ l[req].type = "request"
       /\ l[resp].turn = l[c].turn /\ l[req].turn = l[c].turn
       /\ trigger \in 1 .. req - 1 /\ ReachesSeed(l, trigger)

(* _validate_agent_run_tool_evidence for the tool.completed at k and a     *)
(* submission at s.                                                        *)
HasValidToolChain(l, k, s) ==
    LET t == l[k].turn
        op == FirstOf(OfTurn(l, t, {"op.started"}))
        req == FirstOf(Where(l, LAMBDA e : e.type = "tool.requested"
                                           /\ e.turn = t /\ e.cause = op))
        done == FirstOf(Where(l, LAMBDA e : e.type = "op.completed"
                                            /\ e.turn = t /\ e.cause = k /\ e.data = k))
        c == l[op].cause
    IN /\ op # 0 /\ req # 0 /\ done # 0
       /\ c \in 1 .. op - 1 /\ l[c].data = "tool"
       /\ op < req /\ req < k /\ k < done /\ done < s
       /\ HasValidModelChain(l, c)

(* _validated_submission_artifact: the submission, its command, the gate   *)
(* between them and every tool result it refers to.                        *)
ValidatedSubmission(l) ==
    LET s == LastOf(OfType(l, {"submitted"}))
        c == l[s].cause
        gate == FirstOf(Where(l, LAMBDA e : e.type = "gate.passed"
                                  /\ e.cause = c /\ e.turn = l[s].turn))
    IN IF ~(gate # 0 /\ c < gate /\ gate < s /\ l[c].data = "submit")
       THEN "chain_invalid"
       ELSE IF ~HasValidModelChain(l, c) THEN "model_chain_invalid"
       ELSE IF \E k \in OfType(l, {"tool.completed"}) : ~HasValidToolChain(l, k, s)
       THEN "tool_chain_invalid"
       ELSE "accepted"

(* _validate_assignment_agent_run, _validate_peer_agent_run: the seed, with *)
(* the assignment or the request as its cause, then the submission.         *)
ValidateAgentRun(l) ==
    IF ~(l[1].type = "seed" /\ l[1].cause = Outside) THEN "provenance_not_found"
    ELSE ValidatedSubmission(l)

(* _validate_evidence_references: a result needs tool evidence of its run. *)
ToolEvidence(l) == OfType(l, {"tool.completed"}) # {}

(* _validate for a result, and for a response.  Both need the lease of the *)
(* assignment; a result has its references looked at first, a response     *)
(* last.                                                                   *)
ValidateResult(l) ==
    IF ~LeaseHeld THEN "lease_not_active"
    ELSE IF ~ToolEvidence(l) THEN "evidence_required"
    ELSE ValidateAgentRun(l)

ValidatePeerResponse(l) ==
    IF ~LeaseHeld THEN "lease_not_active"
    ELSE IF ValidateAgentRun(l) # "accepted" THEN ValidateAgentRun(l)
    ELSE IF ~ToolEvidence(l) THEN "evidence_required" ELSE "accepted"

(* Mutant: the budget of one request per assignment is not looked at.      *)
PeerRequestUnbounded(t) == LeaseHeld

(* _validate for a peer request of turn t; its receiver is another agent   *)
(* that can answer, its depth, scope and budget are the ones allowed.      *)
PeerRequestAllowed(t) == LeaseHeld /\ asked = {}

-----------------------------------------------------------------------------
(* Effects of the handler outside its log.                                 *)

(* _handle_peer_action: a known key gets its old decision.                 *)
AskPeer(w) ==
    /\ At(w, "ask")
    /\ LET t == CurrentTurn(w)
       IN IF t \in asked \/ PeerRequestAllowed(t)
          THEN /\ asked' = asked \cup {t}
               /\ Goto(w, Then("route", <<>>))
          ELSE /\ Goto(w, Then("advance",
                     << Ev("message.denied", CurrentCommand(w), t, None) >>))
               /\ UNCHANGED asked
    /\ UNCHANGED <<log, ledger, lease, due, answer, verdict, failed, over, sent,
                   acked, cuts>>

(* The deliveries the kernel's facts call for.                             *)
Routable == (IF asked = {} THEN {} ELSE {Requested})
            \cup (IF answer = "accepted" THEN {Responded} ELSE {})

(* route_decision, after which the asking turn records its wait and the    *)
(* answering run its decision.                                             *)
Route(w) ==
    /\ At(w, "route")
    /\ sent' = sent \cup Routable
    /\ LET t == CurrentTurn(w)
           c == CurrentCommand(w)
       IN Goto(w, IF w = "asg"
                  THEN Then("advance",
                     << Ev("message.sent", c, t, None), Phase(t, "waiting"),
                        Ev("waiting", c, t, None) >>)
                  ELSE Then(IF answer = "accepted" THEN "ack" ELSE "fail",
                     << Ev("promoted", Len(log[w]), 0, answer) >>))
    /\ UNCHANGED <<log, ledger, lease, due, asked, answer, verdict, failed,
                   over, acked, cuts>>

(* _reconcile_routes of the service loop, which may come first and makes   *)
(* up for a handler that was interrupted.                                  *)
RouteFacts ==
    /\ ~over /\ ~(Routable \subseteq sent)
    /\ sent' = sent \cup Routable
    /\ UNCHANGED <<log, ledger, lease, due, asked, answer, verdict, failed,
                   over, acked, thread, cuts>>

(* _advance_assignment, _advance_peer.                                     *)
Advance(w) ==
    /\ At(w, "advance")
    /\ LET l == log[w]
           last == LastOf(OfType(l, {"stopped", "submitted"}))
           n == CompletedTurns(l) + 1
       IN IF last # 0
          THEN Goto(w, Then(IF l[last].type = "submitted" THEN "promote"
                            ELSE "fail", <<>>))
          ELSE IF HasActiveWait(l) \/ HasUnknown(l)
          THEN Goto(w, Then("ack", <<>>))
          ELSE IF CompletedTurns(l) >= MaxTurns
          THEN Goto(w, Then("fail", <<>>))
          \* the id of a turn.ready is its number: another cause conflicts
          ELSE IF Where(l, LAMBDA e : e.type = "ready" /\ e.data = n) # {}
          THEN Goto(w, Then("raise", <<>>))
          ELSE Goto(w, Then("deliver", << Ev("ready", Len(l), 0, n) >>))
    /\ UNCHANGED <<log, ledger, lease, due, asked, answer, verdict, failed,
                   over, sent, acked, cuts>>

Deliver(w) ==
    /\ At(w, "deliver")
    /\ sent' = sent \cup {Ready(w, CompletedTurns(log[w]) + 1)}
    /\ Goto(w, Then("ack", <<>>))
    /\ UNCHANGED <<log, ledger, lease, due, asked, answer, verdict, failed,
                   over, acked, cuts>>

(* _promote_assignment_result.  The decision of a known key stands.        *)
PromoteResult ==
    /\ At("asg", "promote")
    /\ verdict' = IF verdict # "none" THEN verdict
                  ELSE ValidateResult(log["asg"])
    \* the accepted result releases the lease in the same transaction
    /\ lease' = IF verdict = "none" /\ verdict' = "accepted" THEN "released" ELSE lease
    /\ Goto("asg", Then(IF verdict' = "accepted" THEN "ack" ELSE "fail",
                        << Ev("promoted", Len(log["asg"]), 0, verdict') >>))
    /\ UNCHANGED <<log, ledger, due, asked, answer, failed, over, sent, acked,
                   cuts>>

(* _promote_peer_response: the request's assignment must hold its lease.   *)
PromoteResponse ==
    /\ At("peer", "promote")
    /\ answer' = IF answer # "none" THEN answer
                 ELSE ValidatePeerResponse(log["peer"])
    /\ Goto("peer", Then("route", <<>>))
    /\ UNCHANGED <<log, ledger, lease, due, asked, verdict, failed, over, sent,
                   acked, cuts>>

FailReason(w) ==
    IF OfType(log[w], {"submitted"}) # {}
    THEN <<w, "rejected", IF w = "asg" THEN verdict ELSE answer>>
    ELSE IF OfType(log[w], {"stopped"}) # {} THEN <<w, "stopped", "none">>
    ELSE <<w, "turns", CompletedTurns(log[w])>>

(* Mutant: a peer that ends without an answer is not told to the requester. *)
FailOwnAssignment(w) ==
    /\ At(w, "fail")
    /\ failed' = IF w = "asg" THEN FailReason(w) ELSE failed
    /\ Goto(w, Then(IF w = "asg" THEN "release" ELSE "ack", <<>>))
    /\ UNCHANGED <<log, ledger, lease, due, asked, answer, verdict, over, sent,
                   acked, cuts>>

(* _fail_assignment, of the assignment itself or of the one that asked:    *)
(* the fact has one id, so a second reason conflicts with the first.       *)
FailAssignment(w) ==
    /\ At(w, "fail")
    /\ IF failed \in {None, FailReason(w)}
       THEN /\ failed' = FailReason(w)
            /\ Goto(w, Then("release", <<>>))
       ELSE /\ Goto(w, Then("raise", <<>>))
            /\ UNCHANGED failed
    /\ UNCHANGED <<log, ledger, lease, due, asked, answer, verdict, over, sent,
                   acked, cuts>>

ReleaseLease(w) ==
    /\ At(w, "release")
    /\ lease' = IF lease = "active" THEN "released" ELSE lease
    /\ Goto(w, Then("ack", <<>>))
    /\ UNCHANGED <<log, ledger, due, asked, answer, verdict, failed, over, sent,
                   acked, cuts>>

Ack(w) ==
    /\ At(w, "ack")
    /\ acked' = acked \cup {thread[w].msg}
    /\ thread' = [thread EXCEPT ![w] = Idle]
    /\ UNCHANGED <<log, ledger, lease, due, asked, answer, verdict, failed,
                   over, sent, cuts>>

(* An exception of the handler ends the run (Dispatch), and so does a      *)
(* model call whose outcome is unknown (ModelCalls).                       *)
Raise(w) ==
    /\ At(w, "raise")
    /\ over' = TRUE
    /\ thread' = [thread EXCEPT ![w] = Idle]
    /\ UNCHANGED <<log, ledger, lease, due, asked, answer, verdict, failed,
                   sent, acked, cuts>>

(* The process dies, or the claims of the delivery are lost: a prefix of   *)
(* the appends is in the log and the delivery is pending again.            *)
Interrupt(w) ==
    /\ cuts < MaxCuts /\ ~over
    /\ thread[w].pc # "idle"
    /\ \E k \in 0 .. Len(thread[w].todo) :
         log' = [log EXCEPT ![w] = @ \o SubSeq(thread[w].todo, 1, k)]
    /\ thread' = [thread EXCEPT ![w] = Idle]
    /\ cuts' = cuts + 1
    /\ UNCHANGED <<ledger, lease, due, asked, answer, verdict, failed, over,
                   sent, acked>>

DeadlinePasses ==
    /\ MayExpire /\ lease = "active" /\ ~due /\ ~over
    /\ due' = TRUE
    /\ UNCHANGED <<log, ledger, lease, asked, answer, verdict, failed, over,
                   sent, acked, thread, cuts>>

(* expire_due_leases; what the supervisor does next is in Team.            *)
Expire ==
    /\ lease = "active" /\ due /\ ~over
    /\ lease' = "expired"
    /\ UNCHANGED <<log, ledger, due, asked, answer, verdict, failed, over, sent,
                   acked, thread, cuts>>

Step(w) ==
    \/ \E m \in sent : Begin(w, m)
    \/ Write(w) \/ CallModel(w) \/ StartTool(w) \/ RunTool(w) \/ AskPeer(w)
    \/ Route(w) \/ Advance(w) \/ Deliver(w) \/ FailAssignment(w) \/ ReleaseLease(w)
    \/ Ack(w) \/ Raise(w) \/ Interrupt(w)

Next ==
    \/ \E w \in AgentRuns : Step(w)
    \/ PromoteResult \/ PromoteResponse
    \/ RouteFacts \/ DeadlinePasses \/ Expire

Spec == Init /\ [][Next]_vars

-----------------------------------------------------------------------------
(* Properties.                                                             *)

(* The kernel refuses a submission for its provenance only when the log    *)
(* shows a turn that was interrupted before its request: the next turn     *)
(* then names the phase event as its cause, and that event has none.       *)
(* Everything else recovery writes (reused responses and commands, tool    *)
(* results taken from the ledger, mirrored responses) passes the checks.   *)
InterruptedStart(l) ==
    \E k \in OfType(l, {"capability"}) :
        l[k].cause > 0 /\ l[l[k].cause].type = "phase"

HonestWorkAccepted ==
    /\ verdict \notin {"none", "accepted", "lease_not_active"}
         => InterruptedStart(log["asg"])
    /\ answer \notin {"none", "accepted", "lease_not_active"}
         => InterruptedStart(log["peer"])

(* An accepted result stands on work that was done: a tool of the agent    *)
(* run that succeeded and, when the tool reads a peer's response, a peer   *)
(* whose own tool succeeded before its response was accepted.              *)
Succeeded(w) == \E t \in DOMAIN ledger[w] : ledger[w][t] = "succeeded"
ResultRestsOnWork ==
    verdict = "accepted" =>
        /\ Succeeded("asg")
        /\ NeedsPeer => answer = "accepted" /\ Succeeded("peer")

(* An assignment asks a peer at most once and hears the answer at most     *)
(* once, however often its turns are interrupted and delivered again.      *)
OnePeerExchange ==
    /\ Cardinality(asked) <= 1
    /\ Cardinality(OfType(log["asg"], {"responded"})) <= 1

(* No lost wake-up: when nothing is being handled and nothing is pending,  *)
(* an assignment that still holds its lease is one whose run, or whose     *)
(* peer's run, has an operation of unknown outcome to be reconciled.       *)
Quiet == /\ \A w \in AgentRuns : thread[w].pc = "idle"
         /\ Pending = {} /\ Routable \subseteq sent /\ ~over
NoLostWakeUp ==
    Quiet /\ LeaseHeld => \E w \in AgentRuns : HasUnknown(log[w])

=============================================================================
