------------------------------- MODULE Team -------------------------------
(***************************************************************************)
(* A resident team: the supervisor that plans the stages of a run, the     *)
(* control kernel that admits plans and results, the leases of the         *)
(* assignments with their deadlines, the team workers, the routing of      *)
(* facts to mailboxes and the runs that wait for capacity.                 *)
(* (control_plane/runtime.py, kernel.py, team_workers.py, store.py and     *)
(* core/a2a/orchestration.py.)                                             *)
(*                                                                         *)
(* Actors of the one process: a supervisor thread per run (single flight   *)
(* on the claim supervisor:<run>), a worker thread per assignment, the     *)
(* service loop that expires leases and reconciles routes.  Every action   *)
(* is one store transaction with the reads it depends on.                  *)
(***************************************************************************)
EXTENDS Integers, FiniteSets, Sequences, Functions

CONSTANTS
    Runs, Agents, None,
    StageSeq,     \* the stages, in the order of their ids
    StagesOf,     \* the stages of each run's persisted team contract
    DependsOn,    \* depends_on of a stage
    Capable,      \* agents whose card covers required_capabilities
    Rank,         \* _select_card's tie break: surplus capabilities, then id
    MaxParallel,  \* max_parallel_assignments of the contract
    MaxAttempts,  \* max_stage_attempts of the contract
    MaxTurns,     \* budgets.turns of the assignment contract
    Outcomes,     \* how the turns of a run's agents may end: "submitted",
                  \* "stopped" without a result, or "more" turns wanted
    MaxLate,      \* bound: lease deadlines that pass in a behaviour
    MaxFaults     \* bound: process crashes and handler exceptions

Stages == Range(StageSeq)

(* What TeamContract.validate_graph lets through: at least one stage, no   *)
(* stage twice, known dependencies, no cycle.                              *)
ValidGraph ==
    /\ StageSeq \in Seq(Stages) /\ Len(StageSeq) = Cardinality(Stages)
    /\ StagesOf \in [Runs -> SUBSET Stages \ {{}}]
    /\ DependsOn \in [Stages -> SUBSET Stages]
    /\ \A r \in Runs : \A s \in StagesOf[r] : DependsOn[s] \subseteq StagesOf[r]
    /\ \A S \in SUBSET Stages \ {{}} : \E s \in S : DependsOn[s] \cap S = {}

ASSUME TeamConstants ==
    /\ ValidGraph
    /\ Capable \in [Stages -> SUBSET Agents]
    /\ Rank \in [Stages -> [Agents -> Nat]]
    /\ MaxParallel \in Nat \ {0}
    /\ MaxAttempts \in Nat \ {0}
    /\ MaxTurns \in Nat \ {0}
    /\ Outcomes \in [Runs -> SUBSET {"submitted", "stopped", "more"}]
    /\ MaxLate \in Nat /\ MaxFaults \in Nat
    /\ None \notin Runs \cup Stages \cup Agents

MaxConcurrency == 1     \* of every agent card _register_agents writes

(* An assignment id is run, stage and attempt.                             *)
Ids == { i \in Runs \X Stages \X (1 .. MaxAttempts) : i[2] \in StagesOf[i[1]] }

VARIABLES
    \* facts in the event log and its projections
    status,    \* run projection
    revision,  \* highest revision of an orchestration.plan.patched
    asg,       \* assignment and lease projections
    agent,     \* agent projection: "up" (idle or busy) or "degraded"
    recorded,  \* formal results recorded for a stage
    cmds,      \* plan commands begun or rejected, by idempotency key
    refused,   \* plans refused for agent_concurrency_exceeded, per run
    waits,     \* orchestration.capacity.waiting facts, per run
    resumed,   \* revisions of the waits with a capacity.resumed fact
    sent, acked,
    turns,     \* model.completed facts of the agent run
    ended,     \* terminal fact of the agent run
    verdict,   \* decision on the result command of an assignment
    \* memory of the process
    sup, wk, exp, waiter, dirty,
    \* bounds
    late, faults

factVars == <<status, revision, asg, agent, recorded>>
planVars == <<cmds, refused, waits, resumed>>
runVars  == <<turns, ended, verdict>>
mailVars == <<sent, acked>>
memVars  == <<sup, wk, exp, waiter, dirty>>
vars == <<factVars, planVars, runVars, mailVars, memVars, late, faults>>

-----------------------------------------------------------------------------
(* Deliveries.                                                             *)

Msg(kind, r, s, k, n) ==
    [kind |-> kind, run |-> r, stage |-> s, attempt |-> k, n |-> n]

External(r)    == Msg("external", r, None, 0, 0)
Submitted(i)   == Msg("result", i[1], i[2], i[3], 0)
LeaseGone(i)   == Msg("expired", i[1], i[2], i[3], 0)
FailNudge(i)   == Msg("failed", i[1], i[2], i[3], 0)
Replan(r, n)   == Msg("replan", r, None, 0, n)
Capacity(r, w) == Msg("capacity", r, None, 0, w)
GateNudge(r)   == Msg("evidence", r, None, 0, 0)
Turn(i, n)     == Msg("turn", i[1], i[2], i[3], n)   \* n = 1: assignment.created

IdOf(m) == <<m.run, m.stage, m.attempt>>
Pending == sent \ acked
Open(r) == status[r] \in {"running", "paused"}

NoAssignment == [agent |-> None, status |-> "none", lease |-> "none",
                 due |-> FALSE]
NoPatch == [rev |-> 0, assign |-> {}, waiting |-> {}, blocked |-> FALSE,
            complete |-> FALSE, view |-> <<>>]
IdleSup == [pc |-> "idle", msg |-> None, patch |-> NoPatch, ok |-> FALSE,
            bury |-> {}]
IdleWk  == [pc |-> "idle", msg |-> None]
IdleExp == [pc |-> "idle", todo |-> {}, cur |-> None]

Init ==
    /\ status = [r \in Runs |-> "running"]
    /\ revision = [r \in Runs |-> 0]
    /\ asg = [i \in Ids |-> NoAssignment]
    /\ agent = [a \in Agents |-> "up"]
    /\ recorded = [r \in Runs |-> [s \in Stages |-> 0]]
    /\ cmds = {}
    /\ refused = [r \in Runs |-> 0]
    /\ waits = [r \in Runs |-> {}]
    /\ resumed = [r \in Runs |-> {}]
    /\ sent = { External(r) : r \in Runs }
    /\ acked = {}
    /\ turns = [i \in Ids |-> 0]
    /\ ended = [i \in Ids |-> "none"]
    /\ verdict = [i \in Ids |-> "none"]
    /\ sup = [r \in Runs |-> IdleSup]
    /\ wk = [i \in Ids |-> IdleWk]
    /\ exp = IdleExp
    /\ waiter = [r \in Runs |-> 0]
    /\ dirty = FALSE
    /\ late = 0
    /\ faults = 0

-----------------------------------------------------------------------------
(* Projections (_project_event, _project_lease, _project_agent_runtime).   *)

(* Mutant: a late fact overrides the end of the assignment.                *)
ProjectAssignmentAny(a, s) ==
    IF a.status = "none" THEN a ELSE [a EXCEPT !.status = s]

ProjectAssignment(a, s) ==
    IF a.status = "running" THEN [a EXCEPT !.status = s] ELSE a

ProjectLease(a, s) ==
    IF a.lease # "active" THEN a
    ELSE IF s = "renewed" THEN [a EXCEPT !.due = FALSE]
    ELSE [a EXCEPT !.lease = s, !.due = FALSE]

ProjectRun(s, e) == IF s \in {"running", "paused"} THEN e ELSE s

Active(i) == asg[i].lease = "active"
IdsOf(r, s) == {r} \X {s} \X (1 .. MaxAttempts)

(* Mutant: an attempt that is over is a stage that is complete.            *)
CompletedOrOver(r) ==
    { s \in StagesOf[r] : \E i \in IdsOf(r, s) :
        asg[i].status \notin {"none", "running"} }

Completed(r) ==
    { s \in StagesOf[r] : \E i \in IdsOf(r, s) : asg[i].status = "succeeded" }

ActiveLeasesOf(r) == { i \in Ids : i[1] = r /\ Active(i) }

ActiveStages(r) == { s \in StagesOf[r] : \E i \in IdsOf(r, s) : Active(i) }

(* The number of the last attempt at a stage.                              *)
Attempts(r, s) ==
    LET made == { i \in IdsOf(r, s) : asg[i].status # "none" }
    IN IF made = {} THEN 0
       ELSE CHOOSE k \in 1 .. MaxAttempts :
              (\E i \in made : i[3] = k) /\ (\A i \in made : i[3] <= k)

ActiveLoad(a) == Cardinality({ i \in Ids : Active(i) /\ asg[i].agent = a })

-----------------------------------------------------------------------------
(* CapabilitySupervisorPolicy.propose on the context of the moment.        *)

ReadyStages(r, done, active) ==
    { s \in StagesOf[r] \ (done \cup active) : DependsOn[s] \subseteq done }

Exhausted(r, candidates) == { s \in candidates : Attempts(r, s) >= MaxAttempts }

(* _select_card: the eligible agent that comes first, or None.  taken: the *)
(* agents this patch already gave a stage.                                 *)
SelectCard(s, taken) ==
    LET eligible == { a \in Capable[s] \ taken :
                        agent[a] = "up" /\ ActiveLoad(a) < MaxConcurrency }
    IN IF eligible = {} THEN None
       ELSE CHOOSE a \in eligible : \A b \in eligible : Rank[s][a] <= Rank[s][b]

HasTransientlyUnavailableCard(s) == \E a \in Capable[s] : agent[a] = "up"

(* One turn of the loop over the ready stages.                             *)
Consider(r, acc, s, room) ==
    LET card == SelectCard(s, { p.agent : p \in acc.assign })
    IN IF Cardinality(acc.assign) >= room THEN acc
       ELSE IF card # None
       THEN [acc EXCEPT !.assign = @ \cup
                {[stage |-> s, attempt |-> Attempts(r, s) + 1, agent |-> card]}]
       ELSE IF HasTransientlyUnavailableCard(s)
       THEN [acc EXCEPT !.waiting = @ \cup {s}]
       ELSE [acc EXCEPT !.unavailable = @ \cup {s}]

Select(r, ready, room) ==
    LET choice[n \in 0 .. Len(StageSeq)] ==
          IF n = 0 THEN [assign |-> {}, waiting |-> {}, unavailable |-> {}]
          ELSE IF StageSeq[n] \in ready
          THEN Consider(r, choice[n - 1], StageSeq[n], room)
          ELSE choice[n - 1]
    IN choice[Len(StageSeq)]

StageView(s, done, active, blocked, ready) ==
    IF s \in done THEN "completed"
    ELSE IF s \in active THEN "active"
    ELSE IF s \in blocked THEN "blocked"
    ELSE IF s \in ready THEN "ready"
    ELSE "pending"

Propose(r) ==
    LET done      == Completed(r)
        active    == ActiveStages(r)
        known     == ReadyStages(r, done, active)
        exhausted == Exhausted(r, known)
        ready     == known \ exhausted
        choice    == Select(r, ready, MaxParallel - Cardinality(active))
        given     == { p.stage : p \in choice.assign }
        idle      == choice.assign = {} /\ active = {}
        blocked   == idle /\ (exhausted # {} \/ choice.unavailable # {})
        shown     == exhausted \cup (IF blocked THEN choice.unavailable ELSE {})
    IN [rev      |-> revision[r] + 1,
        assign   |-> choice.assign,
        waiting  |-> choice.waiting,
        blocked  |-> done # StagesOf[r] /\ blocked,
        complete |-> done = StagesOf[r],
        view     |-> [s \in StagesOf[r] |->
                        StageView(s, done, active \cup given, shown, ready)]]

-----------------------------------------------------------------------------
(* ControlKernel._validate_plan_patch: "ok", "concurrency" (the refusal    *)
(* that is routed back to the supervisor) or "refused".                    *)

(* The order of the proposals of a patch: that of the stage ids.           *)
Pos(s) == CHOOSE n \in DOMAIN StageSeq : s \in Stages => StageSeq[n] = s

(* Mutant: the leases of the agent are not counted again.                  *)
ProposalVerdictUncounted(r, patch, p) ==
    IF \/ p.stage \in Completed(r) \cup ActiveStages(r)
       \/ p.attempt # Attempts(r, p.stage) + 1
       \/ agent[p.agent] = "degraded"
    THEN "refused" ELSE "ok"

(* planned_loads: the proposals before p in the patch for the same agent.  *)
PlannedBefore(patch, p) ==
    { q \in patch.assign : q.agent = p.agent /\ Pos(q.stage) < Pos(p.stage) }

ProposalVerdict(r, patch, p) ==
    IF \/ p.stage \notin StagesOf[r]
       \/ p.stage \in Completed(r) \cup ActiveStages(r)
       \/ ~(DependsOn[p.stage] \subseteq Completed(r))
       \/ p.attempt # Attempts(r, p.stage) + 1
       \/ patch.view[p.stage] # "active"
       \/ agent[p.agent] = "degraded"
       \/ p.agent \notin Capable[p.stage]
    THEN "refused"
    ELSE IF ActiveLoad(p.agent) + Cardinality(PlannedBefore(patch, p)) + 1
              > MaxConcurrency
    THEN "concurrency"
    ELSE "ok"

ViewHolds(given, s, done, active) ==
    IF s \in done THEN given = "completed"
    ELSE IF s \in active THEN given = "active"
    ELSE IF ~(DependsOn[s] \subseteq done) THEN given = "pending"
    ELSE given \in {"ready", "blocked"}

(* The first proposal of the patch, in its order, that is not admitted.    *)
FirstRefusal(r, patch) ==
    LET bad == { p \in patch.assign : ProposalVerdict(r, patch, p) # "ok" }
    IN IF bad = {} THEN "ok"
       ELSE ProposalVerdict(r, patch,
              CHOOSE p \in bad : \A q \in bad : Pos(p.stage) <= Pos(q.stage))

ValidatePlanPatch(r, patch) ==
    LET done   == Completed(r)
        active == ActiveStages(r) \cup { p.stage : p \in patch.assign }
        first  == FirstRefusal(r, patch)
    IN IF \/ patch.rev # revision[r] + 1
          \/ \E p, q \in patch.assign : p # q /\ p.stage = q.stage
          \/ patch.complete /\ patch.assign # {}
          \/ patch.complete /\ done # StagesOf[r]
          \/ Cardinality(ActiveLeasesOf(r)) + Cardinality(patch.assign) > MaxParallel
       THEN "refused"
       ELSE IF first # "ok" THEN first
       ELSE IF \E s \in StagesOf[r] : ~ViewHolds(patch.view[s], s, done, active)
       THEN "refused"
       ELSE "ok"

-----------------------------------------------------------------------------
(* Capacity waiters.                                                       *)

(* Some agent that is up has room for one of the waiting stages.           *)
Available(stages) ==
    \E a \in Agents, s \in stages :
        agent[a] = "up" /\ ActiveLoad(a) < MaxConcurrency /\ a \in Capable[s]

WaitOf(r, w) == CHOOSE x \in waits[r] : x.rev = w

(* _route_capacity_waiters over the waiters of the process, in the state   *)
(* after the step: the nudges it delivers.                                 *)
CapacityNudges ==
    { Capacity(r, waiter[r]) :
        r \in { q \in Runs : /\ waiter[q] # 0
                             /\ status[q] = "running"
                             /\ Available(WaitOf(q, waiter[q]).stages) } }

-----------------------------------------------------------------------------
(* The supervisor.                                                         *)

Key(r, m, rev) == [run |-> r, msg |-> m, rev |-> rev]
CmdOf(k) == { c \in cmds : c.key = k }

(* The deliveries _supervisor_step answers: one at a time per run.         *)
SupTakes(r, m) == m.kind # "turn" /\ sup[r].pc = "idle" /\ Open(r)

(* PlanPatch's validators on what the policy built: stages that wait for   *)
(* capacity need a waiting reason, and the policy gives one only to a patch*)
(* that assigns nothing, of a run with nothing active and nothing blocked. *)
WellFormed(r, patch) ==
    patch.waiting # {} =>
        patch.assign = {} /\ ActiveStages(r) = {} /\ ~patch.blocked

(* submit's comparison with the candidate already on record under the key. *)
Resumable(r, m, patch) ==
    \A c \in CmdOf(Key(r, m, patch.rev)) : c.state = "begun" => c.patch = patch

(* _supervisor_step up to kernel.submit's begin_command: the plan is       *)
(* computed from the durable status; a command already on record under the *)
(* same key is resumed, or its refusal reused.                             *)
SupPropose(r, m) ==
    /\ SupTakes(r, m)
    /\ LET patch == Propose(r)
           old == CmdOf(Key(r, m, patch.rev))
       IN /\ WellFormed(r, patch) /\ Resumable(r, m, patch)
          /\ cmds' = IF old # {} THEN cmds
                     ELSE cmds \cup {[key |-> Key(r, m, patch.rev),
                                      patch |-> patch, state |-> "begun"]}
          /\ sup' = [sup EXCEPT ![r] =
                [pc |-> IF \A c \in old : c.state = "begun" THEN "commit"
                        ELSE IF m.kind = "capacity" THEN "resume" ELSE "ack",
                 msg |-> m, patch |-> patch, ok |-> FALSE, bury |-> {}]]
    /\ UNCHANGED <<factVars, refused, waits, resumed, runVars, mailVars, wk,
                   exp, waiter, dirty, late, faults>>

(* The handler raises, for an ill-formed patch or "candidate changed while *)
(* recovering an idempotent command".  A retry finds the same state; after *)
(* the last one the delivery is dead-lettered.                             *)
SupRaise(r, m) ==
    /\ SupTakes(r, m)
    /\ LET patch == Propose(r)
       IN ~WellFormed(r, patch) \/ ~Resumable(r, m, patch)
    /\ sup' = [sup EXCEPT ![r] = [IdleSup EXCEPT !.pc = "bury", !.msg = m,
                !.bury = IF status[r] = "running" THEN ActiveLeasesOf(r) ELSE {}]]
    /\ UNCHANGED <<factVars, planVars, runVars, mailVars, wk, exp, waiter,
                   dirty, late, faults>>

(* _fail_running_run_for_dead_letter: assignment and lease of each active  *)
(* lease of the snapshot, then the run, then the acknowledgement.          *)
SupBury(r, i) ==
    /\ sup[r].pc = "bury"
    /\ asg' = [asg EXCEPT ![i] =
                  ProjectLease(ProjectAssignment(@, "failed"), "released")]
    /\ sup' = [sup EXCEPT ![r].bury = @ \ {i}]
    /\ dirty' = TRUE
    /\ UNCHANGED <<status, revision, agent, recorded, planVars, runVars,
                   mailVars, wk, exp, waiter, late, faults>>

SupFailRun(r) ==
    /\ sup[r].pc = "bury" /\ sup[r].bury = {}
    /\ status' = [status EXCEPT ![r] = IF @ = "running" THEN "failed" ELSE @]
    /\ waiter' = [waiter EXCEPT ![r] = IF status[r] = "running" THEN 0 ELSE @]
    /\ sup' = [sup EXCEPT ![r].pc = "ack"]
    /\ UNCHANGED <<revision, asg, agent, recorded, planVars, runVars, mailVars,
                   wk, exp, dirty, late, faults>>

(* The record of the command is closed.  An accepted plan raises the       *)
(* revision, so its key is never looked up again and is dropped.           *)
Decide(r, v) ==
    LET k == Key(r, sup[r].msg, sup[r].patch.rev)
    IN cmds' = { c \in cmds : c.key # k } \cup
               (IF v = "ok" THEN {}
                ELSE {[key |-> k, patch |-> NoPatch, state |-> v]})

(* What the supervisor still has to do once the decision is routed.        *)
AfterPlan(r, ok) ==
    IF ok /\ (sup[r].patch.waiting # {} \/ sup[r].patch.blocked
               \/ sup[r].patch.complete)
    THEN "follow" ELSE "ack"

(* commit_command with the precondition re-evaluated in its transaction:   *)
(* the plan, its assignments and their leases, or the refusal.  Then       *)
(* _route_decision: assignments to their agents, a concurrency refusal back*)
(* to the supervisor as a nudge.  A crash in between is made up for by the *)
(* next process, which replays the routes.                                 *)
SupCommit(r) ==
    /\ sup[r].pc = "commit"
    /\ LET patch == sup[r].patch
           v == ValidatePlanPatch(r, patch)
           Granted(i) == { p \in patch.assign : i = <<r, p.stage, p.attempt>> }
       IN /\ Decide(r, v)
          /\ sup' = [sup EXCEPT ![r].ok = (v = "ok"), ![r].pc =
                IF sup[r].msg.kind = "capacity" THEN "resume"
                ELSE AfterPlan(r, v = "ok")]
          /\ IF v = "ok"
             THEN /\ revision' = [revision EXCEPT ![r] = patch.rev]
                  /\ asg' = [i \in Ids |->
                        IF Granted(i) = {} THEN asg[i]
                        ELSE [agent |-> (CHOOSE p \in Granted(i) : TRUE).agent,
                              status |-> "running", lease |-> "active",
                              due |-> FALSE]]
                  /\ sent' = sent \cup
                        { Turn(<<r, p.stage, p.attempt>>, 1) : p \in patch.assign }
                  /\ UNCHANGED refused
             ELSE /\ refused' = [refused EXCEPT
                        ![r] = IF v = "concurrency" THEN @ + 1 ELSE @]
                  /\ sent' = IF v = "concurrency" /\ status[r] = "running"
                             THEN sent \cup {Replan(r, refused'[r])} ELSE sent
                  /\ UNCHANGED <<revision, asg>>
    /\ UNCHANGED <<status, agent, recorded, waits, resumed, runVars, acked,
                   wk, exp, waiter, dirty, late, faults>>

(* The wait that the nudge answered is consumed, whatever the decision.    *)
SupResume(r) ==
    /\ sup[r].pc = "resume"
    /\ resumed' = [resumed EXCEPT ![r] = @ \cup {sup[r].msg.n}]
    /\ dirty' = TRUE
    /\ sup' = [sup EXCEPT ![r].pc = AfterPlan(r, sup[r].ok)]
    /\ UNCHANGED <<factVars, cmds, refused, waits, runVars, mailVars, wk, exp,
                   waiter, late, faults>>

(* Mutant: a new wait is left for the next release of a lease.             *)
SupWaitLater(r) ==
    /\ sup[r].pc = "follow" /\ sup[r].patch.waiting # {}
    /\ LET w == [rev |-> sup[r].patch.rev, stages |-> sup[r].patch.waiting]
       IN /\ waits' = [waits EXCEPT ![r] = @ \cup {w}]
          /\ waiter' = [waiter EXCEPT ![r] = w.rev]
    /\ sup' = [sup EXCEPT ![r].pc = "ack"]
    /\ UNCHANGED <<factVars, cmds, refused, resumed, runVars, mailVars, wk, exp,
                   dirty, late, faults>>

(* capacity_waiting: the wait is recorded and, under the route lock, routed*)
(* at once: registered, and nudged when capacity is there already.         *)
SupWait(r) ==
    /\ sup[r].pc = "follow" /\ sup[r].patch.waiting # {}
    /\ LET w == [rev |-> sup[r].patch.rev, stages |-> sup[r].patch.waiting]
       IN /\ waits' = [waits EXCEPT ![r] = @ \cup {w}]
          /\ IF status[r] = "running"
             THEN /\ waiter' = [waiter EXCEPT ![r] = w.rev]
                  /\ sent' = IF Available(w.stages)
                             THEN sent \cup {Capacity(r, w.rev)} ELSE sent
             ELSE /\ waiter' = [waiter EXCEPT ![r] = 0]
                  /\ UNCHANGED sent
    /\ sup' = [sup EXCEPT ![r].pc = "ack"]
    /\ UNCHANGED <<factVars, cmds, refused, resumed, runVars, acked, wk, exp,
                   dirty, late, faults>>

(* blocked_reason: run.paused.                                             *)
SupPause(r) ==
    /\ sup[r].pc = "follow" /\ sup[r].patch.waiting = {} /\ sup[r].patch.blocked
    /\ status' = [status EXCEPT ![r] = ProjectRun(@, "paused")]
    /\ sup' = [sup EXCEPT ![r].pc = "ack"]
    /\ UNCHANGED <<revision, asg, agent, recorded, planVars, runVars, mailVars,
                   wk, exp, waiter, dirty, late, faults>>

(* completion_ready: the COMPLETE command.  Its gate asks for a formal     *)
(* result of every stage's kind.  It is decided once per run: a closed gate*)
(* nudges the supervisor, and that decision is reused ever after.          *)
GateOpen(r) == \A s \in StagesOf[r] : recorded[r][s] > 0

SupComplete(r) ==
    /\ sup[r].pc = "follow" /\ sup[r].patch.waiting = {} /\ sup[r].patch.complete
    /\ LET passes == GateOpen(r) /\ GateNudge(r) \notin sent
       IN /\ status' = [status EXCEPT ![r] =
                          IF passes THEN ProjectRun(@, "succeeded") ELSE @]
          /\ waiter' = [waiter EXCEPT ![r] = IF passes THEN 0 ELSE @]
          /\ sent' = IF passes THEN sent ELSE sent \cup {GateNudge(r)}
    /\ sup' = [sup EXCEPT ![r].pc = "ack"]
    /\ UNCHANGED <<revision, asg, agent, recorded, planVars, runVars, acked,
                   wk, exp, dirty, late, faults>>

SupAck(r) ==
    /\ sup[r].pc = "ack"
    /\ acked' = acked \cup {sup[r].msg}
    /\ sup' = [sup EXCEPT ![r] = IdleSup]
    /\ UNCHANGED <<factVars, planVars, runVars, sent, wk, exp, waiter, dirty,
                   late, faults>>

-----------------------------------------------------------------------------
(* The team workers.                                                       *)

Busy == { i \in Ids : wk[i].pc # "idle" }

WkStep(i, pc) == wk' = [wk EXCEPT ![i].pc = pc]

(* handle up to _begin_leased_step's check of the lease: held and not past *)
(* its deadline, or the delivery is stale.  One delivery at a time for an  *)
(* agent (worker slots), and none of a run that is over.                   *)
WorkBegin(i, m) ==
    /\ m.kind = "turn" /\ Open(i[1])
    /\ \A j \in Busy : asg[j].agent # asg[i].agent
    /\ IF Active(i) /\ ~asg[i].due
       THEN /\ wk' = [wk EXCEPT ![i] = [pc |-> "turn", msg |-> m]]
            /\ UNCHANGED acked
       ELSE /\ acked' = acked \cup {m}
            /\ UNCHANGED wk
    /\ UNCHANGED <<factVars, planVars, runVars, sent, sup, exp, waiter, dirty,
                   late, faults>>

(* assignment.lease.renewed, in a transaction of its own after the check;  *)
(* then loop.run_once and _advance_assignment: the agent submits, stops, or*)
(* wants another turn, which its budget may refuse.  (What the turn writes *)
(* belongs to the agent run alone until the result is promoted.)           *)
WorkTurn(i) ==
    /\ wk[i].pc = "turn"
    /\ asg' = [asg EXCEPT ![i] = ProjectLease(@, "renewed")]
    /\ IF ended[i] # "none"
       THEN WkStep(i, ended[i]) /\ UNCHANGED <<turns, ended, sent>>
       ELSE \E o \in Outcomes[i[1]] :
            /\ turns' = [turns EXCEPT ![i] = @ + 1]
            /\ IF o = "more" /\ turns'[i] < MaxTurns
               THEN /\ sent' = sent \cup {Turn(i, turns'[i] + 1)}
                    /\ WkStep(i, "ack")
                    /\ UNCHANGED ended
               ELSE /\ ended' = [ended EXCEPT ![i] =
                           IF o = "submitted" THEN "submitted" ELSE "stopped"]
                    /\ WkStep(i, ended'[i])
                    /\ UNCHANGED sent
    /\ UNCHANGED <<status, revision, agent, recorded, planVars, verdict, acked,
                   sup, exp, waiter, dirty, late, faults>>

(* Mutant: the result of an expired lease is taken.                        *)
ResultAdmittedLate(i) == asg[i].lease \in {"active", "expired"}

(* _validate_leased_result, in the transaction of the commit.              *)
ResultAdmitted(i) == Active(i) /\ ~asg[i].due

(* _promote_assignment_result's command: the formal result, the success of *)
(* the assignment and the release of its lease in one transaction, or a    *)
(* refusal.  A decision on record is reused.                               *)
WorkCommit(i) ==
    /\ wk[i].pc = "submitted"
    /\ WkStep(i, "route")
    /\ IF verdict[i] # "none"
       THEN UNCHANGED <<asg, recorded, verdict>>
       ELSE IF ResultAdmitted(i)
       THEN /\ verdict' = [verdict EXCEPT ![i] = "accepted"]
            /\ recorded' = [recorded EXCEPT ![i[1]][i[2]] = @ + 1]
            /\ asg' = [asg EXCEPT ![i] =
                  ProjectLease(ProjectAssignment(@, "succeeded"), "released")]
       ELSE /\ verdict' = [verdict EXCEPT ![i] = "rejected"]
            /\ UNCHANGED <<asg, recorded>>
    /\ UNCHANGED <<status, revision, agent, planVars, turns, ended, mailVars,
                   sup, exp, waiter, dirty, late, faults>>

(* route_decision: the result to the coordinator, the freed capacity to the*)
(* waiting runs; a refused result fails the assignment.                    *)
WorkRoute(i) ==
    /\ wk[i].pc = "route"
    /\ IF verdict[i] = "accepted"
       THEN /\ sent' = sent \cup {Submitted(i)} \cup CapacityNudges
            /\ WkStep(i, "ack")
       ELSE /\ WkStep(i, "stopped")
            /\ UNCHANGED sent
    /\ UNCHANGED <<factVars, planVars, runVars, acked, sup, exp, waiter, dirty,
                   late, faults>>

(* _fail_assignment: the lease is read, assignment.failed is appended, an  *)
(* active lease is released, and the coordinator is nudged: three          *)
(* transactions.                                                           *)
WorkFail(i) ==
    /\ wk[i].pc = "stopped"
    /\ asg' = [asg EXCEPT ![i] = ProjectAssignment(@, "failed")]
    /\ WkStep(i, IF Active(i) THEN "release" ELSE "nudge")
    /\ UNCHANGED <<status, revision, agent, recorded, planVars, runVars,
                   mailVars, sup, exp, waiter, dirty, late, faults>>

WorkRelease(i) ==
    /\ wk[i].pc = "release"
    /\ asg' = [asg EXCEPT ![i] = ProjectLease(@, "released")]
    /\ dirty' = TRUE
    /\ WkStep(i, "nudge")
    /\ UNCHANGED <<status, revision, agent, recorded, planVars, runVars,
                   mailVars, sup, exp, waiter, late, faults>>

WorkNudge(i) ==
    /\ wk[i].pc = "nudge"
    /\ sent' = sent \cup {FailNudge(i)}
    /\ WkStep(i, "ack")
    /\ UNCHANGED <<factVars, planVars, runVars, acked, sup, exp, waiter, dirty,
                   late, faults>>

WorkAck(i) ==
    /\ wk[i].pc = "ack"
    /\ acked' = acked \cup {wk[i].msg}
    /\ wk' = [wk EXCEPT ![i] = IdleWk]
    /\ UNCHANGED <<factVars, planVars, runVars, sent, sup, exp, waiter, dirty,
                   late, faults>>

(* An exception of the handler: runtime.agent.crashed degrades the agent,  *)
(* for good, and the delivery is tried again.                              *)
WorkRaise(i) ==
    /\ faults < MaxFaults
    /\ agent' = [agent EXCEPT ![asg[i].agent] = "degraded"]
    /\ wk' = [wk EXCEPT ![i] = IdleWk]
    /\ dirty' = (dirty \/ wk[i].pc = "route")
    /\ faults' = faults + 1
    /\ UNCHANGED <<status, revision, asg, recorded, planVars, runVars,
                   mailVars, sup, exp, waiter, late>>

-----------------------------------------------------------------------------
(* The service loop: expire_due_leases, _reconcile_routes.                 *)

(* The clock passes the deadline of a lease.                               *)
Deadline(i) ==
    /\ Active(i) /\ ~asg[i].due /\ late < MaxLate
    /\ asg' = [asg EXCEPT ![i].due = TRUE]
    /\ late' = late + 1
    /\ UNCHANGED <<status, revision, agent, recorded, planVars, runVars,
                   mailVars, memVars, faults>>

ExpireSnapshot ==
    /\ exp.pc = "idle"
    /\ \E i \in Ids : Active(i) /\ asg[i].due
    /\ exp' = [pc |-> "next", todo |-> { i \in Ids : Active(i) /\ asg[i].due },
               cur |-> None]
    /\ UNCHANGED <<factVars, planVars, runVars, mailVars, sup, wk, waiter,
                   dirty, late, faults>>

ExpireAssignment(i) ==
    /\ exp.pc = "next"
    /\ asg' = [asg EXCEPT ![i] = ProjectAssignment(@, "expired")]
    /\ exp' = [pc |-> "lease", todo |-> exp.todo \ {i}, cur |-> i]
    /\ UNCHANGED <<status, revision, agent, recorded, planVars, runVars,
                   mailVars, sup, wk, waiter, dirty, late, faults>>

ExpireLease ==
    /\ exp.pc = "lease"
    /\ agent' = [agent EXCEPT ![asg[exp.cur].agent] = "degraded"]
    /\ asg' = [asg EXCEPT ![exp.cur] = ProjectLease(@, "expired")]
    /\ exp' = [exp EXCEPT !.pc = "deliver"]
    /\ UNCHANGED <<status, revision, recorded, planVars, runVars, mailVars,
                   sup, wk, waiter, dirty, late, faults>>

ExpireDeliver ==
    /\ exp.pc = "deliver"
    /\ sent' = sent \cup {LeaseGone(exp.cur)}
    /\ exp' = IF exp.todo = {} THEN IdleExp
              ELSE [exp EXCEPT !.pc = "next", !.cur = None]
    /\ UNCHANGED <<factVars, planVars, runVars, acked, sup, wk, waiter, dirty,
                   late, faults>>

(* _reconcile_routes on what no handler has routed: consumed waits, leases *)
(* released by a failure, results whose handler raised.                    *)
Reconcile ==
    /\ dirty
    /\ dirty' = FALSE
    /\ waiter' = [r \in Runs |-> IF waiter[r] \in resumed[r] THEN 0 ELSE waiter[r]]
    /\ sent' = sent \cup CapacityNudges \cup
                { Submitted(i) : i \in { j \in Ids : verdict[j] = "accepted" } }
    /\ UNCHANGED <<factVars, planVars, runVars, acked, sup, wk, exp, late,
                   faults>>

(* Mutant: the next process starts routing at the end of the log.          *)
ReplayedNothing == {}

(* The process dies; the next one replays the routes of the whole log      *)
(* before it takes up the pending deliveries again.                        *)
Replayed ==
    { Turn(i, 1) : i \in { j \in Ids : asg[j].status # "none" } } \cup
    { Submitted(i) : i \in { j \in Ids : verdict[j] = "accepted" } } \cup
    UNION { { Replan(r, n) : n \in 1 .. refused[r] } \cup
            { Capacity(r, w.rev) :
                w \in { x \in waits[r] : Available(x.stages) } } :
            r \in { q \in Runs : status[q] = "running" } }

LastWait(r) ==
    IF waits[r] = {} THEN 0
    ELSE CHOOSE n \in { w.rev : w \in waits[r] } :
            \A w \in waits[r] : w.rev <= n

Crash ==
    /\ faults < MaxFaults
    /\ faults' = faults + 1
    /\ sup' = [r \in Runs |-> IdleSup]
    /\ wk' = [i \in Ids |-> IdleWk]
    /\ exp' = IdleExp
    /\ dirty' = FALSE
    /\ waiter' = [r \in Runs |->
          IF status[r] # "running" \/ LastWait(r) \in resumed[r] THEN 0
          ELSE LastWait(r)]
    /\ sent' = sent \cup Replayed
    /\ UNCHANGED <<factVars, planVars, runVars, acked, late>>

-----------------------------------------------------------------------------

(* A pending delivery goes to the supervisor of its run, or to the worker  *)
(* of its assignment.                                                      *)
Handle(m) ==
    \/ SupPropose(m.run, m)
    \/ SupRaise(m.run, m)
    \/ WorkBegin(IdOf(m), m)

SupStep(r) ==
    \/ \E i \in sup[r].bury : SupBury(r, i)
    \/ SupFailRun(r) \/ SupCommit(r) \/ SupResume(r)
    \/ SupWait(r) \/ SupPause(r) \/ SupComplete(r) \/ SupAck(r)

WorkStep(i) ==
    \/ WorkTurn(i) \/ WorkCommit(i) \/ WorkRoute(i)
    \/ WorkFail(i) \/ WorkRelease(i) \/ WorkNudge(i) \/ WorkAck(i)

ServiceStep ==
    \/ ExpireSnapshot
    \/ \E i \in exp.todo : ExpireAssignment(i)
    \/ ExpireLease \/ ExpireDeliver \/ Reconcile

Next ==
    \/ \E m \in Pending : Handle(m)
    \/ \E r \in Runs : SupStep(r)
    \/ \E i \in Busy : WorkStep(i) \/ WorkRaise(i)
    \/ \E i \in Ids : Deadline(i)
    \/ ServiceStep
    \/ Crash

Spec == Init /\ [][Next]_vars

-----------------------------------------------------------------------------
TypeOK ==
    /\ status \in [Runs -> {"running", "paused", "succeeded", "failed"}]
    /\ revision \in [Runs -> Nat]
    /\ asg \in [Ids -> [agent : Agents \cup {None},
                        status : {"none", "running", "succeeded", "failed", "expired"},
                        lease : {"none", "active", "released", "expired"},
                        due : BOOLEAN]]
    /\ agent \in [Agents -> {"up", "degraded"}]
    /\ recorded \in [Runs -> [Stages -> Nat]]
    /\ refused \in [Runs -> Nat]
    /\ turns \in [Ids -> 0 .. MaxTurns]
    /\ ended \in [Ids -> {"none", "submitted", "stopped"}]
    /\ verdict \in [Ids -> {"none", "accepted", "rejected"}]
    /\ acked \subseteq sent
    /\ \A r \in Runs : sup[r].pc \in {"idle", "bury", "commit", "resume", "follow",
                                      "ack"}
    /\ \A i \in Ids : wk[i].pc \in {"idle", "turn", "submitted", "route",
                                    "stopped", "release", "nudge", "ack"}
    /\ exp.pc \in {"idle", "next", "lease", "deliver"}
    /\ waiter \in [Runs -> Nat]
    /\ dirty \in BOOLEAN

-----------------------------------------------------------------------------
(* Properties.                                                             *)

(* No agent ever holds more active leases than its card's max_concurrency, *)
(* though runs plan concurrently on projections that the others change     *)
(* between the proposal and the commit (_validate_plan_patch counts the    *)
(* leases again in the commit's transaction).                              *)
AgentLoad == \A a \in Agents : ActiveLoad(a) <= MaxConcurrency

(* The COMPLETE command of a run is decided once and for all (its key has  *)
(* no revision): a plan accepted as completion_ready must find the gate    *)
(* open, or the run can never complete.                                    *)
CompletionPassesGate ==
    \A r \in Runs :
        sup[r].pc = "follow" /\ sup[r].patch.complete => GateOpen(r)

(* A stage gets a second formal result only after the one race the expiry  *)
(* leaves open: an attempt declared expired whose result was nevertheless  *)
(* committed, which released its lease, before the lease was expired too.  *)
RedoneOnlyAfterExpiryRace ==
    \A r \in Runs, s \in Stages :
        recorded[r][s] > 1 =>
            \E i \in IdsOf(r, s) :
                asg[i].status = "expired" /\ asg[i].lease = "released"

(* Nothing is under way for a running run, and nothing will wake it.       *)
Stranded(r) ==
    /\ status[r] = "running" /\ sup[r].pc = "idle" /\ ~dirty
    /\ \A m \in Pending : m.run # r
    /\ \A i \in Ids : i[1] = r => ~Active(i) /\ wk[i].pc = "idle" /\ exp.cur # i
    /\ \A i \in Ids : wk[i].pc # "route"
    /\ waiter[r] # 0 =>
          ~ \E a \in Agents, s \in WaitOf(r, waiter[r]).stages :
                a \in Capable[s] /\ agent[a] = "up" /\ ActiveLoad(a) > 0

(* A running run is left without a wake-up only in the ways the code leaves*)
(* open: the process or the handler failed after the lease of an unfinished*)
(* assignment was expired or released and before the supervisor was told;  *)
(* a plan was refused for a reason that is not routed back (its agent was  *)
(* degraded in the meantime); or it waits for agents that are all degraded.*)
StrandedOnlyBy ==
    \A r \in Runs : Stranded(r) =>
        \/ /\ faults > 0
           /\ \E i \in Ids : /\ i[1] = r /\ asg[i].status \in {"failed", "expired"}
                             /\ {LeaseGone(i), FailNudge(i)} \cap sent = {}
        \/ \E c \in cmds : /\ c.key.run = r /\ c.state = "refused"
                           /\ c.key.rev = revision[r] + 1
        \/ waiter[r] # 0 /\ \A s \in WaitOf(r, waiter[r]).stages :
                                \A a \in Capable[s] : agent[a] = "degraded"

(* What a team promises, whatever its supervisor and workers do.           *)
DoneStages == [r \in Runs |-> Completed(r)]
LeasedIds == { i \in Ids : Active(i) }
HeldStages == { [run |-> i[1], stage |-> i[2], agent |-> asg[i].agent] :
                  i \in LeasedIds }

Board == INSTANCE StageBoard WITH
    done <- DoneStages, held <- HeldStages, over <- status

(* The detailed team implements the board: stages are granted to free      *)
(* agents in dependency order and at most once at a time, completed stages *)
(* stay completed, and a run succeeds only with all of them complete.      *)
BoardSpec == Board!Spec

(* The process keeps going: as long as some supervisor, worker or service  *)
(* step is possible, one is taken (the scheduler's poll loop and its       *)
(* thread pool).  Deadlines, exceptions and crashes are never forced.      *)
FairSpec ==
    /\ Spec
    /\ WF_vars(\/ \E m \in Pending : Handle(m)
               \/ \E r \in Runs : SupStep(r)
               \/ \E i \in Busy : WorkStep(i)
               \/ ServiceStep)

(* Every run comes to rest: it succeeds, fails, or pauses for an operator, *)
(* however the runs compete for the agents.                                *)
EveryRunRests == <>(\A r \in Runs : status[r] # "running")

=============================================================================
