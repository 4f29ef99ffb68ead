---------------------------- MODULE PairedEvals ----------------------------
(***************************************************************************)
(* PairedEvalService (control_plane/paired_evals.py) and the parts of      *)
(* ResidentRuntime it calls: one experiment runs the same task once with a *)
(* single agent and once with a team.  A pair is created under a claim     *)
(* (plan, prepare and record each arm, write the contract, link the arms,  *)
(* commit), released arm by arm, and scored once both runs have ended.     *)
(*                                                                         *)
(* The callers are control threads of one or more Runtimes over one store: *)
(* clients that may repeat a request, the recovery at the start of a       *)
(* Runtime, and the campaign of module EvalCampaign.  A step is one store  *)
(* transaction, or one effect on the runs, with the reads before it.       *)
(*                                                                         *)
(* A call claims under an owner id of its own, so the row of a claim needs *)
(* no token here: holder says whose call holds the live claim of a key.    *)
(***************************************************************************)
EXTENDS Integers, FiniteSets

CONSTANTS
    Procs,      \* control threads
    Trials,     \* pairs a campaign plans, by trial index
    Solo,       \* pairs a client requests with release_policy "immediate"
    Builds,     \* deployed versions: scorer, fixture and harness behaviour
    None,
    MaxFaults   \* bound: exceptions inside a call, claims that expire under a
                \* call still running, crashes of a Runtime (and restarts)

Pairs == Trials \cup Solo
Modes == {"single", "team"}

ASSUME PairConstants ==
    /\ Trials = 1 .. Cardinality(Trials)
    /\ Trials \cap Solo = {} /\ IsFiniteSet(Pairs)
    /\ None \notin Procs \cup Pairs \cup Builds
    /\ "nobody" \notin Procs
    /\ Builds # {} /\ Procs # {}
    /\ MaxFaults \in Nat

(* _TERMINAL, and the cap on finalization failures of finalize_ready.      *)
Terminal == {"succeeded", "failed", "cancelled"}
MaxFinalizations == 3

VARIABLES
    facts,      \* the eval.pair.* facts of each eval: "requested", "failed",
                \* "created", "committed"
    arms,       \* its eval.arm.* facts: "planned", "prepared" (created), "released"
    contract,   \* the build named by the contract of eval.pair.created
    report,     \* the report of eval.pair.completed
    unscored,   \* eval.pair.finalization.failed facts, per scorer version
    run,        \* run projection of each arm: status and the build in run.created;
                \* "open" is every status that is neither an end nor "cancelling":
                \* queued, running or paused
    linked,     \* arms with eval.arm.linked
    delivered,  \* arms whose release trigger was put into a mailbox
    parent,     \* trials with eval.campaign.trial.linked in the campaign's log
    holder,     \* the work claims
    job,        \* the call each thread is in
    todo,       \* requests a starting Runtime still has to recover
    build,      \* the build a thread runs
    faults      \* how many faults happened

durable == <<facts, arms, contract, report, unscored, run, linked, delivered, parent>>

NoRun == [status |-> "none", build |-> None]
NoReport == [valid |-> FALSE, by |-> None, single |-> "none", team |-> "none"]

Idle == [at |-> "idle", e |-> None, m |-> "single", by |-> None,
         fresh |-> FALSE, err |-> "none", ids |-> {}, rest |-> {}, n |-> 0]

CreateKey(e) == <<"create", e>>
ScoreKey(e)  == <<"score", e>>
PairKeys == { CreateKey(e) : e \in Pairs } \cup { ScoreKey(e) : e \in Pairs }

PairInit(keys) ==
    /\ facts = [e \in Pairs |-> {}]
    /\ arms = [e \in Pairs |-> {}]
    /\ contract = [e \in Pairs |-> None]
    /\ report = [e \in Pairs |-> NoReport]
    /\ unscored = [e \in Pairs |-> [b \in Builds |-> 0]]
    /\ run = [e \in Pairs |-> [m \in Modes |-> NoRun]]
    /\ linked = [e \in Pairs |-> {}]
    /\ delivered = [e \in Pairs |-> {}]
    /\ parent = {}
    /\ holder = [k \in keys |-> None]
    /\ job = [p \in Procs |-> Idle]
    /\ todo = [p \in Procs |-> {}]
    /\ build = [p \in Procs |-> CHOOSE b \in Builds : TRUE]
    /\ faults = 0

-----------------------------------------------------------------------------
(* Claims.  A claim is held by a running call, by "nobody" after a crash   *)
(* (its row stays active until it expires), or is free.                    *)
Free(k) == holder[k] = None
Holds(p, K) == \A k \in K : holder[k] = p
HolderAfter(p, K) == [k \in DOMAIN holder |-> IF k \in K /\ holder[k] = p
                                              THEN None ELSE holder[k]]
Take(p, K) == /\ \A k \in K : Free(k)
              /\ holder' = [k \in DOMAIN holder |-> IF k \in K THEN p ELSE holder[k]]
Drop(p, K) == holder' = HolderAfter(p, K)

Goto(p, at) == job' = [job EXCEPT ![p].at = at]
Become(p, j) == job' = [job EXCEPT ![p] = j]
Raise(p, err) == job' = [job EXCEPT ![p].at = "broken", ![p].err = err]
Record(e, fact) == facts' = [facts EXCEPT ![e] = @ \cup {fact}]
RecordOf(e, fact, m) == arms' = [arms EXCEPT ![e] = @ \cup {<<fact, m>>}]

Fault == faults < MaxFaults /\ faults' = faults + 1

HasReport(e) == report[e] # NoReport

(* ensure_current: the heartbeat thread has noticed that a renewal failed. *)
(* It may notice late, so a call whose claim is gone may also go on.       *)
Stopped(p) ==
    /\ ~Holds(p, {CreateKey(job[p].e)})
    /\ Raise(p, "temporary")
    /\ UNCHANGED <<durable, holder, todo, build, faults>>

-----------------------------------------------------------------------------
(* create: a client repeats a request as often as it likes, with the same  *)
(* request id.                                                             *)
ClientCreate(p, e) ==
    /\ job[p].at = "idle" /\ todo[p] = {} /\ e \in Solo
    /\ Become(p, [Idle EXCEPT !.at = "acquire", !.e = e, !.by = "client", !.fresh = TRUE])
    /\ UNCHANGED <<durable, holder, todo, build, faults>>

Acquire(p) ==
    /\ job[p].at = "acquire"
    /\ Take(p, {CreateKey(job[p].e)})
    /\ Goto(p, "request")
    /\ UNCHANGED <<durable, todo, build, faults>>

(* The wait for the claim is longer than the time to live of a claim, so   *)
(* only a call that keeps renewing makes it time out.                      *)
AcquireTimeout(p) ==
    /\ job[p].at = "acquire"
    /\ holder[CreateKey(job[p].e)] \in Procs
    /\ job' = [job EXCEPT ![p].at = "raised", ![p].err = "temporary"]
    /\ UNCHANGED <<durable, holder, todo, build, faults>>

(* The request is persisted once.  A request that failed is refused for    *)
(* good; one whose contract exists goes straight to the commit.            *)
Request(p) ==
    LET e == job[p].e IN
    /\ job[p].at = "request"
    /\ Record(e, "requested")
    /\ \/ /\ "failed" \in facts[e]
          /\ job' = [job EXCEPT ![p].at = "raised", ![p].err = "permanent"]
          /\ Drop(p, {CreateKey(e)})
       \/ /\ "failed" \notin facts[e]
          /\ Goto(p, IF "created" \in facts[e] THEN "link" ELSE "plan")
          /\ UNCHANGED holder
    /\ UNCHANGED <<arms, contract, report, unscored, run, linked, delivered, parent,
                   todo, build, faults>>

NextArm(p, done) ==
    job' = [job EXCEPT ![p].m = "team",
                       ![p].at = IF job[p].m = "single" THEN "plan" ELSE done]

Plan(p) ==
    LET e == job[p].e
        m == job[p].m
        next == IF <<"prepared", m>> \notin arms[e] THEN "prepare"
                ELSE IF m = "single" THEN "plan" ELSE "contract"
    IN
    /\ job[p].at = "plan"
    /\ RecordOf(e, "planned", m)
    /\ job' = [job EXCEPT ![p].ids = @ \cup {m}, ![p].at = next,
                          ![p].m = IF next = "prepare" THEN m ELSE "team"]
    /\ UNCHANGED <<facts, contract, report, unscored, run, linked, delivered, parent,
                   holder, todo, build, faults>>

(* prepare_arm: the run gets a deterministic id, so preparing it again is  *)
(* idempotent, unless another build wrote its run.created.  The two facts  *)
(* of a prepared run are one step here.                                    *)
Prepare(p, m) ==
    LET e == job[p].e IN
    /\ job[p].at = "prepare" /\ job[p].m = m
    /\ \/ Stopped(p)
       \/ /\ run[e][m].build \in {None, build[p]}
          /\ run' = IF run[e][m] = NoRun
                    THEN [run EXCEPT ![e][m] = [status |-> "open", build |-> build[p]]]
                    ELSE run
          /\ Goto(p, "record")
          /\ UNCHANGED <<facts, arms, contract, report, unscored, linked, delivered, parent,
                         holder, todo, build, faults>>
       \/ /\ run[e][m].build \notin {None, build[p]}
          /\ Raise(p, "permanent")
          /\ UNCHANGED <<durable, holder, todo, build, faults>>

PrepareSingle(p) == Prepare(p, "single")
PrepareTeam(p)   == Prepare(p, "team")

RecordArm(p) ==
    /\ job[p].at = "record"
    /\ \/ Stopped(p)
       \/ /\ RecordOf(job[p].e, "prepared", job[p].m)
          /\ NextArm(p, "contract")
          /\ UNCHANGED <<facts, contract, report, unscored, run, linked, delivered, parent,
                         holder, todo, build, faults>>

(* Mutant: the two runs are not compared.                                  *)
ComparableAlways(p, e) == TRUE

(* _build_contract: the two runs name the same case, fixture, input, model *)
(* profile and budget, and the scorer version that is active.              *)
Comparable(p, e) == \A m \in Modes : run[e][m].build = build[p]

WriteContract(p) ==
    LET e == job[p].e IN
    /\ job[p].at = "contract"
    /\ \/ Stopped(p)
       \/ /\ Comparable(p, e)
          /\ Record(e, "created")
          /\ contract' = [contract EXCEPT ![e] = run[e]["single"].build]
          /\ Goto(p, "confirm")
          /\ UNCHANGED <<arms, report, unscored, run, linked, delivered, parent,
                         holder, todo, build, faults>>
       \/ /\ ~Comparable(p, e)
          /\ Raise(p, "permanent")
          /\ UNCHANGED <<durable, holder, todo, build, faults>>

Confirm(p) ==
    /\ job[p].at = "confirm"
    /\ \/ Stopped(p)
       \/ /\ Goto(p, "link")
          /\ UNCHANGED <<durable, holder, todo, build, faults>>

LinkArms(p) ==
    /\ job[p].at = "link"
    /\ linked' = [linked EXCEPT ![job[p].e] = Modes]
    /\ Goto(p, "commit")
    /\ UNCHANGED <<facts, arms, contract, report, unscored, run, delivered, parent,
                   holder, todo, build, faults>>

(* Mutant: the commit is not fenced.                                       *)
CommitUnfenced(p) ==
    LET e == job[p].e IN
    /\ job[p].at = "commit"
    /\ Record(e, "committed")
    /\ Drop(p, {CreateKey(e)})
    /\ job' = [job EXCEPT ![p].m = "single",
                          ![p].at = IF e \in Solo THEN "release" ELSE "returned"]
    /\ UNCHANGED <<arms, contract, report, unscored, run, linked, delivered, parent,
                   todo, build, faults>>

(* eval.pair.committed and the end of the claim are one fenced transaction.*)
Commit(p) ==
    LET e == job[p].e IN
    /\ job[p].at = "commit"
    /\ \/ /\ Holds(p, {CreateKey(e)})
          /\ Record(e, "committed")
          /\ Drop(p, {CreateKey(e)})
          /\ job' = [job EXCEPT ![p].m = "single",
                                ![p].at = IF e \in Solo THEN "release" ELSE "returned"]
          /\ UNCHANGED <<arms, contract, report, unscored, run, linked, delivered, parent,
                         todo, build, faults>>
       \/ /\ ~Holds(p, {CreateKey(e)})
          /\ Raise(p, "permanent")
          /\ UNCHANGED <<durable, holder, todo, build, faults>>

(* An exception inside create: a busy database or a timeout is temporary,  *)
(* anything else permanent.  Before the request is persisted no failure is *)
(* recorded.                                                               *)
CreationSteps == {"request", "plan", "prepare", "record", "contract", "confirm",
                  "link", "commit"}

CreationError(p, err) ==
    /\ job[p].at \in CreationSteps /\ Fault
    /\ job' = [job EXCEPT ![p].at = "broken", ![p].err = err,
                          ![p].fresh = @ /\ job[p].at # "request"]
    /\ UNCHANGED <<durable, holder, todo, build>>

(* The except and finally clauses of create.  Only a first creation that   *)
(* fails for good ends the pair, and only if it still holds the claim.     *)
CreationBroken(p) ==
    LET e == job[p].e
        final == job[p].fresh /\ job[p].err = "permanent"
    IN
    /\ job[p].at = "broken"
    /\ \/ /\ final /\ Holds(p, {CreateKey(e)})
          /\ Record(e, "failed")
          /\ Goto(p, "cleanup")
       \/ /\ ~final \/ ~Holds(p, {CreateKey(e)})
          /\ Goto(p, "raised")
          /\ UNCHANGED facts
    /\ Drop(p, {CreateKey(e)})
    /\ UNCHANGED <<arms, contract, report, unscored, run, linked, delivered, parent,
                   todo, build, faults>>

(* cancel_run of each arm.  After the request no success or failure of the *)
(* run counts; it is cancelled at once unless a handler of it is in flight *)
(* (Busy), which only a released arm can have.  A run that does not exist  *)
(* is a cleanup failure, recorded and passed over.                         *)
CancelArms(e, M) ==
    \E Busy \in SUBSET delivered[e] :
       run' = [run EXCEPT ![e] = [m \in Modes |->
                 IF m \in M /\ @[m].status \in {"open", "cancelling"}
                 THEN [@[m] EXCEPT !.status = IF m \in Busy THEN "cancelling"
                                                            ELSE "cancelled"]
                 ELSE @[m]]]

Cleanup(p) ==
    /\ job[p].at = "cleanup"
    /\ CancelArms(job[p].e, job[p].ids)
    /\ Goto(p, "raised")
    /\ UNCHANGED <<facts, arms, contract, report, unscored, linked, delivered, parent,
                   holder, todo, build, faults>>

-----------------------------------------------------------------------------
(* release and _release_contract.                                          *)

(* Only a committed pair is released, and one that belongs to a campaign   *)
(* only with the link in its parent's log.                                 *)
Releasable(e) == /\ {"requested", "created", "committed"} \subseteq facts[e]
                 /\ e \in Trials => e \in parent

Authorize(p) ==
    /\ job[p].at = "authorize"
    /\ job' = [job EXCEPT ![p].m = "single",
                          ![p].at = IF Releasable(job[p].e) THEN "release" ELSE "failed"]
    /\ UNCHANGED <<durable, holder, todo, build, faults>>

(* _release_prepared_task: the delivery id is deterministic.               *)
DeliverArm(p) ==
    LET e == job[p].e
        m == job[p].m
    IN
    /\ job[p].at = "release"
    /\ \/ /\ <<"released", m>> \in arms[e]
          /\ job' = [job EXCEPT ![p].m = "team",
                                ![p].at = IF m = "single" THEN "release" ELSE "returned"]
          /\ UNCHANGED delivered
       \/ /\ <<"released", m>> \notin arms[e]
          /\ delivered' = [delivered EXCEPT ![e] = @ \cup {m}]
          /\ Goto(p, "released")
    /\ UNCHANGED <<facts, arms, contract, report, unscored, run, linked, parent,
                   holder, todo, build, faults>>

RecordRelease(p) ==
    /\ job[p].at = "released"
    /\ RecordOf(job[p].e, "released", job[p].m)
    /\ job' = [job EXCEPT ![p].m = "team",
                          ![p].at = IF job[p].m = "single" THEN "release" ELSE "returned"]
    /\ UNCHANGED <<facts, contract, report, unscored, run, linked, delivered, parent,
                   holder, todo, build, faults>>

ReleaseError(p) ==
    /\ job[p].at \in {"release", "released"} /\ Fault
    /\ Goto(p, IF job[p].by = "advance" THEN "failed" ELSE "raised")
    /\ UNCHANGED <<durable, holder, todo, build>>

(* The routing of a held assignment.created: _paired_assignment_is_committed. *)
RouteHeld(e) ==
    /\ run[e]["single"] # NoRun
    /\ "single" \in linked[e]
    /\ "committed" \in facts[e] /\ <<"released", "single">> \in arms[e]
    /\ delivered' = [delivered EXCEPT ![e] = @ \cup {"single"}]
    /\ UNCHANGED <<facts, arms, contract, report, unscored, run, linked, parent,
                   holder, job, todo, build, faults>>

(* create returned or raised, to a client or to recover_pending.           *)
PairCallEnds(p) ==
    /\ job[p].at \in {"returned", "raised"} /\ job[p].by \in {"client", "recover"}
    /\ todo' = [todo EXCEPT ![p] = @ \ {job[p].e}]
    /\ Become(p, Idle)
    /\ UNCHANGED <<durable, holder, build, faults>>

-----------------------------------------------------------------------------
(* A released run executes and ends on its own, if it ends (modules        *)
(* AgentLoop, Dispatch and Team): it may also stay paused or stranded.     *)
RunArm(e, m, status) ==
    /\ m \in delivered[e] /\ run[e][m].status = "open"
    /\ status \in {"succeeded", "failed"}
    /\ run' = [run EXCEPT ![e][m].status = status]
    /\ UNCHANGED <<facts, arms, contract, report, unscored, linked, delivered, parent,
                   holder, job, todo, build, faults>>

(* _reconcile_cancellations: the handler has returned, its delivery is     *)
(* acknowledged, and _finalize_cancelled_run writes run.cancelled.         *)
ArmCancelled(e, m) ==
    /\ run[e][m].status = "cancelling"
    /\ run' = [run EXCEPT ![e][m].status = "cancelled"]
    /\ UNCHANGED <<facts, arms, contract, report, unscored, linked, delivered, parent,
                   holder, job, todo, build, faults>>

(* finalize: both runs have ended and the scoring claim is ours.  The      *)
(* resident loop ("ready") gives up after three failures under one scorer  *)
(* version, an explicit drain of the campaign does not count.              *)
ClaimScore(p, e, by) ==
    /\ job[p].at = "idle" /\ todo[p] = {}
    /\ "created" \in facts[e] /\ ~HasReport(e)
    /\ by = "ready" => unscored[e][build[p]] < MaxFinalizations
    /\ \A m \in Modes : run[e][m].status \in Terminal
    /\ Take(p, {ScoreKey(e)})
    /\ Become(p, [Idle EXCEPT !.at = "score", !.e = e, !.by = by,
                              !.n = unscored[e][build[p]]])
    /\ UNCHANGED <<durable, todo, build, faults>>

(* The report of a scorer whose version is not the contract's is invalid.  *)
Score(p, e) ==
    [valid |-> build[p] = contract[e], by |-> build[p],
     single |-> run[e]["single"].status, team |-> run[e]["team"].status]

(* finalize_ready numbers its failures after those it read before.         *)
NotScored(p) ==
    unscored' = IF job[p].by = "ready"
                THEN [unscored EXCEPT ![job[p].e][build[p]] = job[p].n + 1]
                ELSE unscored

(* The report is persisted once, with the end of the claim.  A claim that  *)
(* was lost, or another report under the same event id, is a failure.      *)
Finalize(p) ==
    LET e == job[p].e
        kept == Holds(p, {ScoreKey(e)}) /\ report[e] \in {NoReport, Score(p, e)}
    IN
    /\ job[p].at = "score"
    /\ report' = IF kept THEN [report EXCEPT ![e] = Score(p, e)] ELSE report
    /\ IF kept THEN UNCHANGED unscored ELSE NotScored(p)
    /\ Drop(p, {ScoreKey(e)})
    /\ Become(p, Idle)
    /\ UNCHANGED <<facts, arms, contract, run, linked, delivered, parent, todo, build, faults>>

FinalizeError(p) ==
    /\ job[p].at = "score" /\ Fault
    /\ NotScored(p)
    /\ Drop(p, {ScoreKey(job[p].e)})
    /\ Become(p, Idle)
    /\ UNCHANGED <<facts, arms, contract, report, run, linked, delivered, parent,
                   todo, build>>

-----------------------------------------------------------------------------
(* A Runtime crashes and starts again, perhaps with another build: its     *)
(* calls are gone, their claims run out, and recover_pending takes up each *)
(* request that neither failed nor is released on both arms.               *)
Pending(e) ==
    /\ "requested" \in facts[e] /\ "failed" \notin facts[e]
    /\ "created" \in facts[e] => ~({"released"} \X Modes \subseteq arms[e])

Restart(p) ==
    /\ Fault
    /\ holder' = [k \in DOMAIN holder |-> IF holder[k] = p THEN "nobody" ELSE holder[k]]
    /\ Become(p, Idle)
    /\ todo' = [todo EXCEPT ![p] = { e \in Pairs : Pending(e) }]
    /\ \E b \in Builds : build' = [build EXCEPT ![p] = b]
    /\ UNCHANGED durable

RecoverPending(p) ==
    /\ job[p].at = "idle"
    /\ \E e \in todo[p] :
          \/ /\ Pending(e)
             /\ Become(p, [Idle EXCEPT !.at = "acquire", !.e = e, !.by = "recover"])
             /\ UNCHANGED todo
          \/ /\ ~Pending(e)
             /\ todo' = [todo EXCEPT ![p] = @ \ {e}]
             /\ UNCHANGED job
    /\ UNCHANGED <<durable, holder, build, faults>>

(* A claim runs out: after a crash, or under a call that is still running  *)
(* (a renewal that failed, a thread that slept).                           *)
LapseOrphan(k) ==
    /\ holder[k] = "nobody"
    /\ holder' = [holder EXCEPT ![k] = None]
    /\ UNCHANGED <<durable, job, todo, build, faults>>

Lapse(k) ==
    /\ holder[k] \in Procs /\ Fault
    /\ holder' = [holder EXCEPT ![k] = None]
    /\ UNCHANGED <<durable, job, todo, build>>

=============================================================================
