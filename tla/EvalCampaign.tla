---------------------------- MODULE EvalCampaign ----------------------------
(***************************************************************************)
(* EvalCampaignService (control_plane/eval_campaigns.py): an experiment of *)
(* several pre-registered trials, each one pair of module PairedEvals.     *)
(* One fact at a time is written under the advance claim: a trial is       *)
(* started, its pair created and linked, released, observed; a second      *)
(* claim guards the end, completion or cancellation.  The recommendation   *)
(* is CampaignRecommendationPolicy of core/evals/campaign.py.              *)
(*                                                                         *)
(* The effects of an advance step on the pair (create, release) are not    *)
(* fenced by the advance claim, only the fact that records them is.        *)
(***************************************************************************)
EXTENDS PairedEvals

CONSTANTS
    MaxParallel,   \* max_parallel_pairs of the contract
    MinLiveTrials, \* minimum_live_trials of the policy
    Cancels        \* may an operator cancel?

ASSUME CampaignConstants ==
    /\ MaxParallel \in 1 .. Cardinality(Trials) \cup {1}
    /\ MinLiveTrials \in Nat /\ MinLiveTrials >= 2
    /\ Cancels \in BOOLEAN
    /\ None \notin {"insufficient_live_evidence", "keep_single", "recommend_team"}

MaxPairCreationAttempts == 3

VARIABLES
    stage,    \* eval.campaign.requested and .created
    trial,    \* the facts of each trial
    retries,  \* creation_retryable_failed facts of each trial
    scope,    \* the build of eval.campaign.scope.bound
    ends,     \* terminal facts of the campaign
    verdict   \* the recommendation of its completed report

campaign == <<stage, trial, retries, scope, ends, verdict>>
vars == <<durable, holder, job, todo, build, faults, campaign>>

CampaignKey == <<"campaign", "create">>
AdvanceKey  == <<"campaign", "advance">>
TerminalKey == <<"campaign", "terminal">>
Keys == PairKeys \cup {CampaignKey, AdvanceKey, TerminalKey}

Init ==
    /\ PairInit(Keys)
    /\ stage = "none"
    /\ trial = [t \in Trials |-> {}]
    /\ retries = [t \in Trials |-> 0]
    /\ scope = None
    /\ ends = {}
    /\ verdict = None

With(fact) == { t \in Trials : fact \in trial[t] }
First(S) == { t \in S : \A u \in S : t <= u }
Running == stage = "created" /\ ends = {}
Counted == With("observed") \cup With("failed")

Write(t, fact) == trial' = [trial EXCEPT ![t] = @ \cup {fact}]

Ready(p) == job[p].at = "idle" /\ todo[p] = {}

-----------------------------------------------------------------------------
(* create: the request is persisted, then the contract with the end of the *)
(* claim.                                                                  *)
ClaimCampaign(p) ==
    /\ Ready(p) /\ Trials # {} /\ stage # "created"
    /\ Take(p, {CampaignKey})
    /\ Become(p, [Idle EXCEPT !.at = "register"])
    /\ UNCHANGED <<durable, todo, build, faults, campaign>>

RequestCampaign(p) ==
    /\ job[p].at = "register"
    /\ stage' = IF stage = "none" THEN "requested" ELSE stage
    /\ Goto(p, "found")
    /\ UNCHANGED <<durable, holder, todo, build, faults,
                   trial, retries, scope, ends, verdict>>

FoundCampaign(p) ==
    /\ job[p].at = "found"
    /\ stage' = IF Holds(p, {CampaignKey}) THEN "created" ELSE stage
    /\ Drop(p, {CampaignKey})
    /\ Become(p, Idle)
    /\ UNCHANGED <<durable, todo, build, faults, trial, retries, scope, ends, verdict>>

-----------------------------------------------------------------------------
(* advance_one: one claim, one reading of the log, one boundary.           *)
ClaimAdvance(p) ==
    /\ Ready(p) /\ Running
    /\ Take(p, {AdvanceKey})
    /\ Become(p, [Idle EXCEPT !.at = "choose", !.by = "advance"])
    /\ UNCHANGED <<durable, todo, build, faults, campaign>>

ToRelease == With("linked") \ With("released")
ToObserve == { t \in With("linked") \ With("observed") : HasReport(t) }
ToCreate  == (With("started") \ With("linked")) \ With("failed")

(* Mutant: a trial counts only until it is linked.                         *)
ActiveUnlinked == (With("started") \ With("linked")) \ With("failed")

(* Mutant: a trial whose pair could not be created keeps its place.        *)
ActiveForEver == (With("started") \cup With("linked")) \ With("observed")

Active == ((With("started") \cup With("linked")) \ With("observed")) \ With("failed")

ToStart   == IF Cardinality(Active) >= MaxParallel THEN {}
             ELSE ((Trials \ With("started")) \ With("linked")) \ With("failed")

(* _create_campaign_pair: a request on record is recovered, not new.       *)
Recovering(t) == "requested" \in facts[t]

(* The first kind of work that is due, on the first trial it is due for.   *)
Choose(p) ==
    LET do(S, at) == \E t \in First(S) : job' = [job EXCEPT ![p].at = at, ![p].e = t]
        nothing == ends # {} \/ ToRelease \cup ToObserve \cup ToCreate \cup ToStart = {}
    IN
    /\ job[p].at = "choose"
    /\ \/ /\ nothing
          /\ Drop(p, {AdvanceKey}) /\ Become(p, Idle)
       \/ /\ ~nothing
          /\ UNCHANGED holder
          /\ \/ do(ToRelease, "authorize")
             \/ ToRelease = {} /\ do(ToObserve, "observe")
             \/ ToRelease \cup ToObserve = {} /\ \E t \in First(ToCreate) :
                   job' = [job EXCEPT ![p].at = "acquire", ![p].e = t,
                                      ![p].fresh = ~Recovering(t)]
             \/ ToRelease \cup ToObserve \cup ToCreate = {} /\ do(ToStart, "start")
    /\ UNCHANGED <<durable, todo, build, faults, campaign>>

(* The fact that ends an advance step, fenced by its claim; a step that    *)
(* lost the claim writes nothing.                                          *)
AdvanceFact(p, fact) ==
    /\ IF Holds(p, {AdvanceKey})
       THEN /\ Write(job[p].e, fact)
            /\ parent' = IF fact = "linked" THEN parent \cup {job[p].e} ELSE parent
       ELSE UNCHANGED <<trial, parent>>
    /\ Drop(p, {AdvanceKey}) /\ Become(p, Idle)

StartTrial(p) ==
    /\ job[p].at = "start"
    /\ AdvanceFact(p, "started")
    /\ UNCHANGED <<facts, arms, contract, report, unscored, run, linked, delivered,
                   todo, build, faults, stage, retries, scope, ends, verdict>>

ObserveTrial(p) ==
    /\ job[p].at = "observe"
    /\ AdvanceFact(p, "observed")
    /\ UNCHANGED <<facts, arms, contract, report, unscored, run, linked, delivered,
                   todo, build, faults, stage, retries, scope, ends, verdict>>

ReleaseTrial(p) ==
    /\ job[p].at = "returned" /\ job[p].by = "advance" /\ job[p].e \in With("linked")
    /\ AdvanceFact(p, "released")
    /\ UNCHANGED <<facts, arms, contract, report, unscored, run, linked, delivered,
                   todo, build, faults, stage, retries, scope, ends, verdict>>

(* release_pair raised: the claim is given back and the step tried again.  *)
ReleaseFailed(p) ==
    /\ job[p].at = "failed"
    /\ Drop(p, {AdvanceKey}) /\ Become(p, Idle)
    /\ UNCHANGED <<durable, todo, build, faults, campaign>>

(* create_pair returned: the pair is committed, and its contract agrees    *)
(* with the scope the first pair bound.                                    *)
Agrees(e) == "committed" \in facts[e] /\ scope \in {None, contract[e]}

BindScope(p) ==
    LET e == job[p].e IN
    /\ job[p].at = "returned" /\ job[p].by = "advance" /\ e \notin With("linked")
    /\ scope' = IF Agrees(e) THEN contract[e] ELSE scope
    /\ job' = IF Agrees(e) THEN [job EXCEPT ![p].at = "bound"]
              ELSE [job EXCEPT ![p].at = "raised", ![p].err = "permanent"]
    /\ UNCHANGED <<durable, holder, todo, build, faults,
                   stage, trial, retries, ends, verdict>>

LinkTrial(p) ==
    /\ job[p].at = "bound"
    /\ AdvanceFact(p, "linked")
    /\ UNCHANGED <<facts, arms, contract, report, unscored, run, linked, delivered,
                   todo, build, faults, stage, retries, scope, ends, verdict>>

(* A temporary error is worth another attempt while any is left.           *)
TryAgain(p) == /\ job[p].err = "temporary"
               /\ retries[job[p].e] + 1 < MaxPairCreationAttempts

CreationFailed(p) ==
    LET e == job[p].e IN
    /\ job[p].at = "raised" /\ job[p].by = "advance"
    /\ \/ /\ TryAgain(p)
          /\ retries' = IF Holds(p, {AdvanceKey}) THEN [retries EXCEPT ![e] = @ + 1]
                        ELSE retries
          /\ Drop(p, {AdvanceKey}) /\ Become(p, Idle)
          /\ UNCHANGED <<trial, parent>>
       \/ /\ ~TryAgain(p)
          /\ AdvanceFact(p, "failed")
          /\ UNCHANGED retries
    /\ UNCHANGED <<facts, arms, contract, report, unscored, run, linked, delivered,
                   todo, build, faults, stage, scope, ends, verdict>>

-----------------------------------------------------------------------------
(* What a trial contributes, and what the policy makes of all of them.     *)

(* _observation_event: the sample is valid when the pair's evidence is and *)
(* its contract is in the bound scope.  An arm that "succeeded" ended so   *)
(* and passed the scorer; regressions in the trace are among the gates.    *)
Valid(t) == report[t].valid /\ contract[t] = scope
Regressed(t) == report[t].single = "succeeded" /\ report[t].team # "succeeded"

Successes(m) == Cardinality({ t \in With("observed") : report[t][m] = "succeeded" })

(* The success rates are counted here; the gates on quality, cost and      *)
(* duration, and the bounds of the bootstrap, depend on data the model     *)
(* leaves out.                                                             *)
PointsPass(gates) == gates /\ Successes("team") >= Successes("single")

(* finalize: an aggregate exists for a whole plan of valid samples.        *)
Evidence == With("observed") = Trials /\ \A t \in Trials : Valid(t)

(* Mutant: trials whose pair could not be created are passed over.         *)
DecideOnObserved(pointGates, boundGates) ==
    IF /\ pointGates /\ boundGates /\ With("observed") # {}
       /\ \A t \in With("observed") : Valid(t) /\ ~Regressed(t)
    THEN "recommend_team" ELSE "insufficient_live_evidence"

(* CampaignRecommendationPolicy.decide on live trials.                     *)
Decide(pointGates, boundGates) ==
    CASE ~Evidence -> "insufficient_live_evidence"
      [] Evidence /\ (\/ \E t \in Trials : Regressed(t)
                      \/ ~PointsPass(pointGates)) -> "keep_single"
      [] OTHER -> IF Cardinality(Trials) < MinLiveTrials \/ ~boundGates
                  THEN "insufficient_live_evidence" ELSE "recommend_team"

(* finalize: every planned trial is observed or failed.                    *)
ClaimTerminal(p) ==
    /\ Ready(p) /\ Running /\ Counted = Trials
    /\ Take(p, {TerminalKey})
    /\ Become(p, [Idle EXCEPT !.at = "finish"])
    /\ UNCHANGED <<durable, todo, build, faults, campaign>>

FinishCampaign(p) ==
    /\ job[p].at = "finish"
    /\ \/ /\ Running /\ Holds(p, {TerminalKey})
          /\ ends' = ends \cup {"completed"}
          /\ \E point, bound \in BOOLEAN : verdict' = Decide(point, bound)
       \/ /\ ~Running \/ ~Holds(p, {TerminalKey})
          /\ UNCHANGED <<ends, verdict>>
    /\ Drop(p, {TerminalKey}) /\ Become(p, Idle)
    /\ UNCHANGED <<durable, todo, build, faults, stage, trial, retries, scope>>

(* cancel: both claims are needed, so that no trial advances meanwhile.    *)
(* Mutant: the advance claim is not taken.                                 *)
TerminalOnly == {TerminalKey}
CancelKeys == {AdvanceKey, TerminalKey}

ClaimCancel(p) ==
    /\ Ready(p) /\ Running /\ Cancels
    /\ Take(p, CancelKeys)
    /\ Become(p, [Idle EXCEPT !.at = "cancel"])
    /\ UNCHANGED <<durable, todo, build, faults, campaign>>

ReadStarted(p) ==
    /\ job[p].at = "cancel"
    /\ \/ /\ Running
          /\ job' = [job EXCEPT ![p].at = "cancelling", ![p].rest = With("started")]
          /\ UNCHANGED holder
       \/ /\ ~Running
          /\ Drop(p, CancelKeys) /\ Become(p, Idle)
    /\ UNCHANGED <<durable, todo, build, faults, campaign>>

(* prepared_run_ids: the runs that exist now.                              *)
CancelPair(p) ==
    /\ job[p].at = "cancelling"
    /\ \E t \in First(job[p].rest) :
          /\ CancelArms(t, Modes)
          /\ job' = [job EXCEPT ![p].rest = @ \ {t}]
    /\ UNCHANGED <<facts, arms, contract, report, unscored, linked, delivered, parent,
                   holder, todo, build, faults, campaign>>

CancelCampaign(p) ==
    /\ job[p].at = "cancelling" /\ job[p].rest = {}
    /\ ends' = IF Holds(p, CancelKeys) THEN ends \cup {"cancelled"} ELSE ends
    /\ Drop(p, CancelKeys) /\ Become(p, Idle)
    /\ UNCHANGED <<durable, todo, build, faults, stage, trial, retries, scope, verdict>>

-----------------------------------------------------------------------------
AdvanceStep(p) ==
    \/ RequestCampaign(p) \/ FoundCampaign(p)
    \/ Choose(p) \/ StartTrial(p) \/ ObserveTrial(p) \/ ReleaseTrial(p)
    \/ ReleaseFailed(p) \/ BindScope(p) \/ LinkTrial(p) \/ CreationFailed(p)
    \/ FinishCampaign(p) \/ ReadStarted(p) \/ CancelPair(p) \/ CancelCampaign(p)

(* A step of the pair service leaves the campaign alone.                   *)
Aside(A) == A /\ UNCHANGED campaign

PairStep(p) ==
    \/ Aside(Acquire(p)) \/ Aside(AcquireTimeout(p)) \/ Aside(Request(p))
    \/ Aside(Plan(p)) \/ Aside(PrepareSingle(p)) \/ Aside(PrepareTeam(p)) \/ Aside(RecordArm(p))
    \/ Aside(WriteContract(p)) \/ Aside(Confirm(p)) \/ Aside(LinkArms(p))
    \/ Aside(Commit(p)) \/ Aside(CreationBroken(p)) \/ Aside(Cleanup(p))
    \/ Aside(Authorize(p)) \/ Aside(DeliverArm(p)) \/ Aside(RecordRelease(p))
    \/ Aside(PairCallEnds(p)) \/ Aside(Finalize(p)) \/ Aside(RecoverPending(p))

Faulty(p) ==
    \/ \E err \in {"temporary", "permanent"} : Aside(CreationError(p, err))
    \/ Aside(ReleaseError(p)) \/ Aside(FinalizeError(p)) \/ Aside(Restart(p))

CallStep(p) == AdvanceStep(p) \/ PairStep(p)

(* run_eval_campaign_until_idle: a synchronous caller drains one campaign. *)
(* It takes the same steps as the resident loop; only its attempts to      *)
(* score a pair are not limited.                                           *)
Drain(p) == \E e \in Trials : Aside(ClaimScore(p, e, "drain"))

Next ==
    \/ \E p \in Procs : \/ CallStep(p) \/ Faulty(p)
                        \/ ClaimCampaign(p) \/ ClaimAdvance(p)
                        \/ ClaimTerminal(p) \/ ClaimCancel(p)
                        \/ \E e \in Pairs : \/ Aside(ClientCreate(p, e))
                                            \/ Aside(ClaimScore(p, e, "ready"))
                        \/ Drain(p)
    \/ \E e \in Pairs : \/ Aside(RouteHeld(e))
                        \/ \E m \in Modes, s \in {"succeeded", "failed"} : Aside(RunArm(e, m, s))
                        \/ \E m \in Modes : Aside(ArmCancelled(e, m))
    \/ \E k \in Keys : Aside(Lapse(k)) \/ Aside(LapseOrphan(k))

Spec == Init /\ [][Next]_vars

(* A call goes on, a claim nobody holds runs out.  A resident loop tries   *)
(* finalize_ready, advance_ready and the finalizer in each round, so none  *)
(* of them is passed over for ever.  Nothing is assumed of the runs.       *)
FairSpec ==
    /\ Spec
    /\ \A p \in Procs : WF_vars(CallStep(p))
    /\ WF_vars(\E k \in Keys : Aside(LapseOrphan(k)))
    /\ SF_vars(\E p \in Procs, e \in Pairs : Aside(ClaimScore(p, e, "ready")))
    /\ SF_vars(\E p \in Procs : ClaimAdvance(p))
    /\ SF_vars(\E p \in Procs : ClaimTerminal(p))

-----------------------------------------------------------------------------
(* A pair whose creation was rejected is dead: no creator that was already *)
(* under way, no retry and no recovery commits it or releases an arm of it *)
(* afterwards.  (create, paired_evals.py.)                                 *)
FailureIsFinal ==
    [][\A e \in Pairs : "failed" \in facts[e] /\ "committed" \notin facts[e] =>
          "committed" \notin facts'[e] /\ delivered'[e] = {}]_vars

(* No arm of a pair enters a mailbox before both are prepared by the same  *)
(* build, linked and committed, and, in a campaign, before the parent has  *)
(* recorded the link, through any crash, lapse or upgrade.                 *)
ArmsStartTogether ==
    \A e \in Pairs : delivered[e] # {} =>
        /\ "committed" \in facts[e] /\ linked[e] = Modes
        /\ \A m \in Modes : run[e][m].build = contract[e]
        /\ e \in Trials => "linked" \in trial[e]

(* A campaign has one end, and once it has ended no released arm of it is  *)
(* left at work, not even one an advancer releases after the end it has    *)
(* not seen: behind a completion every released run is over, behind a      *)
(* cancellation it is over or being cancelled, while a handler still in    *)
(* flight returns, and no success or failure of it counts any more.        *)
(* (cancel, finalize and advance_one, eval_campaigns.py; cancel_run,       *)
(* runtime.py.)                                                            *)
EndMeansQuiet ==
    ends # {} =>
        /\ Cardinality(ends) = 1
        /\ \A t \in Trials : \A m \in delivered[t] :
              \/ run[t][m].status \in Terminal
              \/ "cancelled" \in ends /\ run[t][m].status = "cancelling"

(* The recovery table of the campaign design: when a campaign is cancelled *)
(* before a pair has its contract, the runs already prepared are found by  *)
(* their ids and cancelled one by one; none is left open.                  *)
CancelFindsEveryRun ==
    "cancelled" \in ends =>
        \A t \in Trials : \A m \in Modes : run[t][m].status # "open"

(* At most max_parallel_pairs pairs of a campaign execute at a time.       *)
ParallelBound ==
    Cardinality({ t \in Trials : \E m \in delivered[t] : run[t][m].status \notin Terminal })
        <= MaxParallel

(* A campaign recommends the team only on its whole plan: every trial ran  *)
(* both arms of one and the same build, was scored by that build, and in   *)
(* none the single agent succeeded where the team did not.                 *)
VerdictRestsOnTrials ==
    verdict = "recommend_team" =>
        /\ ends = {"completed"}
        /\ \E b \in Builds : \A t \in Trials :
              /\ report[t].by = b
              /\ \A m \in Modes : /\ run[t][m].build = b
                                    /\ run[t][m].status = report[t][m]
              /\ run[t]["single"].status = "succeeded" => run[t]["team"].status = "succeeded"

(* A released run of a trial that is not over.                             *)
Held == \E t \in Trials : \E m \in delivered[t] : run[t][m].status \notin Terminal

(* A campaign comes to an end unless one of its released runs never does   *)
(* (it stays paused, say), however often a thread crashes or loses a       *)
(* claim, and however its pairs fail, as long as the scorer does not fail  *)
(* three times in a row.                                                   *)
CampaignEnds == <>[]Held \/ (stage = "created" ~> ends # {})
=============================================================================
