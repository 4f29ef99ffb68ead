----------------------------- MODULE EvalProofs -----------------------------
(***************************************************************************)
(* Proofs about EvalCampaign, and with it about PairedEvals: for any       *)
(* number of control threads, trials, single pairs and builds, and for any *)
(* number of faults.                                                       *)
(*                                                                         *)
(* The argument has three layers.  A pair only grows: its facts, its links *)
(* and its reports stay, a run keeps its build and its end (Mono).  What a *)
(* thread read before a claim was lost is either of that kind, and still   *)
(* true (CallInv), or is used under the claim, and then nobody else wrote  *)
(* it (CreateInv, AdvanceInv; Fenced says what only a holder writes).  The *)
(* campaign's own promises follow from both (EndInv, VerdictInv).          *)
(***************************************************************************)
EXTENDS EvalCampaign, FiniteSetTheorems, TLAPS

(* The places of a call: outside any pair, creating one, or at one.        *)
Outside == {"idle", "register", "found", "choose", "finish", "cancel", "cancelling"}
Creating == {"acquire", "request", "plan", "prepare", "record", "contract", "confirm",
             "link", "commit", "broken", "cleanup", "raised", "bound"}
AtPair == Creating \cup {"authorize", "release", "released", "returned", "failed",
                         "score", "start", "observe"}

Statuses == {"succeeded", "failed", "cancelled", "none", "open", "cancelling"}

(* A run that does no recorded work any more.                              *)
Closed == Terminal \cup {"cancelling"}
Holders == Procs \cup {None, "nobody"}
Jobs == [at : Outside \cup AtPair, e : Pairs \cup {None}, m : Modes,
         by : {None, "advance", "client", "recover", "ready", "drain"},
         fresh : BOOLEAN, err : {"none", "temporary", "permanent"},
         ids : SUBSET Modes, rest : SUBSET Trials, n : Nat]

(* The type invariant.                                                     *)
PairTypes ==
    /\ facts \in [Pairs -> SUBSET {"requested", "failed", "created", "committed"}]
    /\ arms \in [Pairs -> SUBSET ({"planned", "prepared", "released"} \X Modes)]
    /\ contract \in [Pairs -> Builds \cup {None}]
    /\ report \in [Pairs -> [valid : BOOLEAN, by : Builds \cup {None},
                             single : Statuses, team : Statuses]]
    /\ unscored \in [Pairs -> [Builds -> Nat]]
    /\ run \in [Pairs -> [Modes -> [status : Statuses, build : Builds \cup {None}]]]
    /\ linked \in [Pairs -> SUBSET Modes]
    /\ delivered \in [Pairs -> SUBSET Modes]
    /\ parent \subseteq Trials

CallTypes ==
    /\ todo \in [Procs -> SUBSET Pairs]
    /\ build \in [Procs -> Builds]
    /\ faults \in 0 .. MaxFaults

CampaignTypes ==
    /\ stage \in {"none", "requested", "created"}
    /\ trial \in [Trials -> SUBSET {"started", "linked", "released", "observed", "failed"}]
    /\ retries \in [Trials -> Nat]
    /\ scope \in Builds \cup {None}
    /\ ends \subseteq {"completed", "cancelled"}
    /\ verdict \in {None, "insufficient_live_evidence", "keep_single", "recommend_team"}

TypeInv ==
    /\ PairTypes /\ CallTypes /\ CampaignTypes
    /\ holder \in [Keys -> Holders]
    /\ job \in [Procs -> Jobs]

(* A pair: a run has a build once it exists; the contract names the build  *)
(* of both runs; a committed pair is linked; what is delivered or recorded *)
(* as released was releasable; a report is about two ended runs.           *)
PairOK(e) ==
    /\ \A m \in Modes : run[e][m].status = "none" <=> run[e][m].build = None
    /\ "created" \in facts[e] => /\ contract[e] \in Builds
                                 /\ \A m \in Modes : run[e][m].build = contract[e]
    /\ "committed" \in facts[e] => /\ {"requested", "created"} \subseteq facts[e]
                                   /\ linked[e] = Modes
    /\ delivered[e] # {} => Releasable(e)
    /\ \A m \in Modes : <<"released", m>> \in arms[e] => Releasable(e)
    /\ HasReport(e) => /\ "created" \in facts[e]
                       /\ \A m \in Modes : run[e][m].status \in Terminal
                       /\ report[e].single = run[e]["single"].status
                       /\ report[e].team = run[e]["team"].status
                       /\ report[e].valid => report[e].by = contract[e]

(* A trial: its link is in the parent's log, it was started, its pair has  *)
(* a contract and it did not fail; an observed trial has a report.         *)
TrialOK(t) ==
    /\ t \in parent => "linked" \in trial[t]
    /\ "linked" \in trial[t] => /\ "started" \in trial[t] /\ "failed" \notin trial[t]
                                /\ "created" \in facts[t]
    /\ "observed" \in trial[t] => "linked" \in trial[t] /\ HasReport(t)

(* What a call knows from what it read: facts that nobody takes back.      *)
CallInv(p) ==
    LET e == job[p].e
        at == job[p].at IN
    /\ at \in AtPair => e \in Pairs
    /\ at \in AtPair /\ job[p].by = "advance" => e \in Trials
    /\ at \in {"choose", "start", "observe", "authorize", "failed", "bound"} => job[p].by = "advance"
    /\ at \in CreationSteps \ {"request"} => "requested" \in facts[e]
    /\ at \in {"confirm", "link", "commit", "score", "bound"} => "created" \in facts[e]
    /\ at = "commit" => linked[e] = Modes
    /\ at \in {"release", "released"} => Releasable(e)
    /\ at = "score" => \A m \in Modes : run[e][m].status \in Terminal
    /\ at = "observe" => "linked" \in trial[e] /\ HasReport(e)
    /\ at \in Creating \cup {"returned"} /\ job[p].by = "advance" => "started" \in trial[e]
    /\ at = "finish" => Counted = Trials

(* The holder of a creation claim is creating that pair, which has not     *)
(* been rejected since the holder looked.                                  *)
CreateInv(p) ==
    \A x \in Pairs : holder[CreateKey(x)] = p =>
        /\ job[p].e = x /\ job[p].at \in CreationSteps \cup {"broken"}
        /\ job[p].at \in CreationSteps \ {"request"} => "failed" \notin facts[x]

(* What the holder of the advance or the terminal claim read is still so:  *)
(* the trial to start is new and there is room for it, the pair to create  *)
(* is neither linked nor given up, every linked trial the canceller has    *)
(* passed is closed, and the campaign has not ended.                       *)
AdvanceInv(p) ==
    LET e == job[p].e
        at == job[p].at IN
    /\ holder[AdvanceKey] = p /\ at = "start" =>
          /\ trial[e] \cap {"started", "linked", "failed"} = {}
          /\ Cardinality(Active) < MaxParallel
    /\ holder[AdvanceKey] = p /\ at \in Creating /\ job[p].by = "advance" =>
          "linked" \notin trial[e]
    /\ holder[AdvanceKey] = p /\ at \in Creating \cup {"returned"} /\ job[p].by = "advance" =>
          "failed" \notin trial[e]
    /\ holder[AdvanceKey] = p /\ at = "cancelling" =>
          \A t \in With("linked") \ job[p].rest : \A m \in Modes : run[t][m].status \in Closed
    /\ holder[TerminalKey] = p /\ at = "cancelling" => ends = {}

(* The campaign: one end; a completed one has counted every trial, after a *)
(* cancellation nobody advances, and every run of a linked trial is closed.*)
(* The trials that are under way fit the bound.                            *)
EndInv ==
    /\ ends \in {{}, {"completed"}, {"cancelled"}}
    /\ "completed" \in ends => Counted = Trials
    /\ "cancelled" \in ends => holder[AdvanceKey] \notin Procs
    /\ ends # {} => \A t \in With("linked") : \A m \in Modes : run[t][m].status \in Closed
    /\ Cardinality(Active) <= MaxParallel

(* A recommendation rests on reports that do not change any more.          *)
VerdictInv ==
    verdict = "recommend_team" =>
        /\ ends = {"completed"}
        /\ \E b \in Builds : \A t \in Trials :
              /\ HasReport(t) /\ report[t].by = b /\ ~Regressed(t)
              /\ \A m \in Modes : run[t][m].build = b

IInv ==
    /\ TypeInv
    /\ \A e \in Pairs : PairOK(e)
    /\ \A t \in Trials : TrialOK(t)
    /\ \A p \in Procs : CallInv(p) /\ CreateInv(p) /\ AdvanceInv(p)
    /\ EndInv /\ VerdictInv

-----------------------------------------------------------------------------
(* What no step ever undoes.                                               *)
Mono ==
    /\ \A e \in Pairs :
          /\ facts[e] \subseteq facts'[e]
          /\ linked[e] = Modes => linked'[e] = Modes
          /\ HasReport(e) => report'[e] = report[e]
          /\ \A m \in Modes :
                /\ run[e][m].build # None => run'[e][m].build = run[e][m].build
                /\ run[e][m].status \in Terminal => run'[e][m].status = run[e][m].status
                /\ run[e][m].status \in Closed => run'[e][m].status \in Closed
    /\ parent \subseteq parent'
    /\ \A t \in Trials : trial[t] \subseteq trial'[t]

(* What only the holder of a claim may do.                                 *)
Fenced(p) ==
    /\ trial' = trial \/ holder[AdvanceKey] = p
    /\ \A e \in Pairs : "failed" \in facts'[e] =>
          "failed" \in facts[e] \/ holder[CreateKey(e)] = p
    /\ ends' = ends \/ holder[TerminalKey] = p

(* The calls of other threads, and their claims, are as before; the claim  *)
(* of one of them may be gone.                                             *)
JobStep(p) == /\ job' \in [Procs -> Jobs]
              /\ \A q \in Procs \ {p} : job'[q] = job[q]

ClaimStep(p) == /\ holder' \in [Keys -> Holders]
                /\ \A q \in Procs \ {p}, k \in Keys : holder'[k] = q => holder[k] = q

(* The claims have different keys.                                         *)
LEMMA KeyFacts ==
    /\ AdvanceKey \in Keys /\ TerminalKey \in Keys /\ CampaignKey \in Keys
    /\ AdvanceKey # TerminalKey /\ AdvanceKey # CampaignKey /\ TerminalKey # CampaignKey
    /\ \A x \in Pairs :
          /\ CreateKey(x) \in Keys /\ ScoreKey(x) \in Keys
          /\ CreateKey(x) # AdvanceKey /\ CreateKey(x) # TerminalKey /\ CreateKey(x) # CampaignKey
          /\ ScoreKey(x) # AdvanceKey /\ ScoreKey(x) # TerminalKey /\ ScoreKey(x) # CampaignKey
    /\ \A x, y \in Pairs : /\ CreateKey(x) # ScoreKey(y)
                           /\ CreateKey(x) = CreateKey(y) => x = y
  BY DEF Keys, PairKeys, AdvanceKey, TerminalKey, CampaignKey, CreateKey, ScoreKey

(* The trials are pairs, and no name of an unset field is a pair, a build or a thread. *)
LEMMA PairSets == Trials \subseteq Pairs /\ None \notin Pairs /\ None \notin Builds /\ None \notin Procs
                  /\ "nobody" \notin Procs /\ \A e \in Solo : e \in Pairs /\ e \notin Trials
  BY PairConstants DEF Pairs

(* Taking claims: nobody held them before, and nobody else's claims change. *)
LEMMA TakeStep ==
    ASSUME TypeInv, NEW p \in Procs, NEW K, Take(p, K)
    PROVE  /\ ClaimStep(p)
           /\ \A k \in Keys : holder'[k] = IF k \in K THEN p ELSE holder[k]
           /\ \A k \in K : holder[k] = None
  BY PairSets DEF TypeInv, Take, Free, ClaimStep, Holders

(* Dropping claims: only the caller's own among them are freed.            *)
LEMMA DropStep ==
    ASSUME TypeInv, NEW p \in Procs, NEW K, Drop(p, K)
    PROVE  /\ ClaimStep(p)
           /\ \A k \in Keys : holder'[k] = IF k \in K /\ holder[k] = p THEN None ELSE holder[k]
  BY PairSets DEF TypeInv, Drop, HolderAfter, ClaimStep, Holders

(* A step that leaves every claim alone is a claim step of anyone.         *)
LEMMA SameClaims ==
    ASSUME TypeInv, NEW p, holder' = holder
    PROVE  ClaimStep(p)
  BY DEF TypeInv, ClaimStep

(* A call that moves on changes its place and nothing else of its job.     *)
LEMMA GotoStep ==
    ASSUME TypeInv, NEW p \in Procs, NEW at \in Outside \cup AtPair, Goto(p, at)
    PROVE  JobStep(p) /\ job'[p] = [job[p] EXCEPT !.at = at]
  BY DEF TypeInv, Goto, JobStep, Jobs

(* A call that takes up a new job changes its own job only.                *)
LEMMA BecomeStep ==
    ASSUME TypeInv, NEW p \in Procs, NEW j \in Jobs, Become(p, j)
    PROVE  JobStep(p) /\ job'[p] = j
  BY DEF TypeInv, Become, JobStep

(* A thread between two calls has a job of the right type.                 *)
LEMMA IdleJob == Idle \in Jobs
  BY DEF Idle, Jobs, Outside, Modes

(* A step that writes nothing durable loses nothing and fences nobody out. *)
LEMMA MonoHolds ==
    ASSUME UNCHANGED durable, UNCHANGED campaign
    PROVE  Mono /\ \A p : Fenced(p)
  BY DEF Mono, Fenced, durable, campaign

(* A call of another thread.                                               *)
LEMMA OtherCall ==
    ASSUME IInv, TypeInv', Mono, NEW q \in Procs, job'[q] = job[q]
    PROVE  CallInv(q)'
<1> DEFINE e == job[q].e
           at == job[q].at
<1>1. CallInv(q) /\ TypeInv /\ TypeInv'
  BY DEF IInv
<1>2. at \in AtPair => e \in Pairs
  BY <1>1 DEF CallInv
<1>2a. \A x \in Pairs : Releasable(x) => Releasable(x)'
  BY <1>1, PairSets DEF Mono, Releasable, TypeInv, PairTypes
<1>2b. \A x \in Pairs : HasReport(x) => HasReport(x)'
  BY <1>1, PairSets DEF Mono, HasReport
<1>2c. Counted = Trials => Counted' = Trials
  BY DEF Counted, With, Mono
<1>3. at \in AtPair => CallInv(q)'
  BY <1>1, <1>2, <1>2a, <1>2b, PairSets
  DEF CallInv, Mono, AtPair, Creating, CreationSteps, Outside
<1>4. at \in Outside => CallInv(q)'
  BY <1>1, <1>2c DEF CallInv, AtPair, Creating, CreationSteps, Outside
<1> QED BY <1>1, <1>3, <1>4 DEF TypeInv, Jobs

(* A creation in another thread keeps what its claim guarantees.           *)
LEMMA OtherCreate ==
    ASSUME IInv, NEW p \in Procs \cup {None}, NEW q \in Procs \ {p}, job'[q] = job[q],
           ClaimStep(p), Fenced(p)
    PROVE  CreateInv(q)'
  BY KeyFacts DEF IInv, CreateInv, ClaimStep, Fenced

(* An advance in another thread keeps what its claim guarantees.           *)
LEMMA OtherAdvance ==
    ASSUME IInv, NEW p \in Procs \cup {None}, NEW q \in Procs \ {p}, job'[q] = job[q],
           ClaimStep(p), Fenced(p), Mono
    PROVE  AdvanceInv(q)'
<1>1. AdvanceInv(q)
  BY DEF IInv
<1>2. holder'[AdvanceKey] = q => holder[AdvanceKey] = q /\ trial' = trial
  BY KeyFacts DEF ClaimStep, Fenced
<1>3. holder'[TerminalKey] = q => holder[TerminalKey] = q /\ ends' = ends
  BY KeyFacts DEF ClaimStep, Fenced
<1>4. trial' = trial => Active' = Active /\ With("linked")' = With("linked")
  BY DEF Active, With
<1>5. \A t \in With("linked") : t \in Pairs
  BY PairSets DEF With
<1> QED BY <1>1, <1>2, <1>3, <1>4, <1>5 DEF AdvanceInv, Mono

(* A pair none of whose records changed is as well formed as before.       *)
LEMMA PairFrame ==
    ASSUME NEW e \in Pairs, PairOK(e), parent \subseteq parent',
           facts'[e] = facts[e], contract'[e] = contract[e], report'[e] = report[e],
           run'[e] = run[e], linked'[e] = linked[e], delivered'[e] = delivered[e],
           arms'[e] = arms[e]
    PROVE  PairOK(e)'
  BY DEF PairOK, Releasable, HasReport

(* A trial whose facts did not change stays justified: its pair only grew. *)
LEMMA TrialFrame ==
    ASSUME NEW t \in Trials, TrialOK(t), trial'[t] = trial[t], Mono,
           t \in parent' => t \in parent
    PROVE  TrialOK(t)'
  BY PairSets DEF TrialOK, Mono, HasReport

(* A recommendation keeps the evidence it rests on: reports are never replaced. *)
LEMMA VerdictFrame ==
    ASSUME VerdictInv, Mono, verdict' = verdict, ends = {"completed"} => ends' = ends
    PROVE  VerdictInv'
<1> SUFFICES ASSUME verdict = "recommend_team" PROVE VerdictInv'
  BY DEF VerdictInv
<1>1. PICK b \in Builds : \A t \in Trials :
              /\ HasReport(t) /\ report[t].by = b /\ ~Regressed(t)
              /\ \A m \in Modes : run[t][m].build = b
  BY DEF VerdictInv
<1>2. \A t \in Trials : (HasReport(t) /\ report[t].by = b /\ ~Regressed(t))'
  BY <1>1, PairSets DEF Mono, HasReport, Regressed
<1>3. \A t \in Trials : \A m \in Modes : run'[t][m].build = b
  BY <1>1, PairSets DEF Mono
<1> QED BY <1>2, <1>3 DEF VerdictInv

(* An ended campaign stays quiet while its trials and its advance claim do. *)
LEMMA EndFrame ==
    ASSUME EndInv, Mono, trial' = trial, ends' = ends,
           holder'[AdvanceKey] \in Procs => holder[AdvanceKey] \in Procs \/ ends = {}
    PROVE  EndInv'
<1>1. Active' = Active /\ With("linked")' = With("linked") /\ Counted' = Counted
  BY DEF Active, With, Counted
<1>2. \A t \in With("linked") : t \in Pairs
  BY PairSets DEF With
<1> QED BY <1>1, <1>2 DEF EndInv, Mono

(* A step of a call that writes nothing.                                   *)
LEMMA QuietStep ==
    ASSUME IInv, UNCHANGED durable, UNCHANGED campaign,
           NEW p \in Procs \cup {None}, JobStep(p), ClaimStep(p), CallTypes',
           p \in Procs => CallInv(p)' /\ CreateInv(p)' /\ AdvanceInv(p)',
           holder'[AdvanceKey] \in Procs => holder[AdvanceKey] \in Procs \/ ends = {}
    PROVE  IInv'
<1>1. TypeInv'
  BY DEF IInv, TypeInv, PairTypes, CampaignTypes, JobStep, ClaimStep, durable, campaign
<1>2. Mono /\ Fenced(p)
  BY MonoHolds
<1>3. \A e \in Pairs : PairOK(e)'
  BY PairFrame DEF IInv, durable
<1>4. \A t \in Trials : TrialOK(t)'
  BY <1>2, TrialFrame DEF IInv, durable, campaign
<1>5. VerdictInv' /\ EndInv'
  BY <1>2, VerdictFrame, EndFrame DEF IInv, campaign
<1>6. \A q \in Procs : CallInv(q)' /\ CreateInv(q)' /\ AdvanceInv(q)'
  BY <1>1, <1>2, OtherCall, OtherCreate, OtherAdvance DEF JobStep
<1> QED BY <1>1, <1>3, <1>4, <1>5, <1>6 DEF IInv

-----------------------------------------------------------------------------
(* Where the thread that moves comes to.                                   *)
LEMMA NoCreateClaim ==
    ASSUME IInv, NEW p \in Procs, job[p].at \notin CreationSteps \cup {"broken"}
    PROVE  \A x \in Pairs : holder[CreateKey(x)] # p
  BY DEF IInv, CreateInv

(* A thread without a creation claim has nothing to guarantee for one.     *)
LEMMA NoCreateInv ==
    ASSUME NEW p \in Procs, \A x \in Pairs : holder'[CreateKey(x)] # p
    PROVE  CreateInv(p)'
  BY DEF CreateInv

(* A call that has left its pair owes nothing about it.                    *)
LEMMA Landing ==
    ASSUME NEW p \in Procs, job'[p].at \in Outside \ {"cancelling"},
           job'[p].at = "finish" => Counted' = Trials,
           job'[p].at = "choose" => job'[p].by = "advance"
    PROVE  CallInv(p)' /\ AdvanceInv(p)'
<1>1. CallInv(p)'
  BY DEF CallInv, Outside, AtPair, Creating, CreationSteps
<1>2. AdvanceInv(p)'
  BY DEF AdvanceInv, Outside, AtPair, Creating, CreationSteps
<1> QED BY <1>1, <1>2

(* A call that moves on at its pair keeps what it knows of it.             *)
LEMMA SameCall ==
    ASSUME IInv, NEW p \in Procs, trial' = trial, Mono,
           job'[p].e = job[p].e, job'[p].by = job[p].by, job'[p].at \in AtPair \ {"start"},
           holder'[AdvanceKey] = p => holder[AdvanceKey] = p,
           job[p].at \in AtPair,
           job'[p].at \in Creating => job[p].at \in Creating,
           job'[p].at = "returned" => job[p].at \in Creating \cup {"release", "released"}
    PROVE  AdvanceInv(p)'
<1> DEFINE e == job[p].e
<1>1. CallInv(p) /\ AdvanceInv(p)
  BY DEF IInv
<1>2. job[p].by = "advance" => e \in Trials
  BY <1>1 DEF CallInv
<1>3. job[p].at \in {"release", "released"} /\ job[p].by = "advance" => "failed" \notin trial[e]
  BY <1>1, <1>2 DEF CallInv, Releasable, IInv, TrialOK
<1> QED BY <1>1, <1>3 DEF AdvanceInv, Creating, AtPair

(* Claims of keys other than the advance claim.                            *)
LEMMA DropCreate ==
    ASSUME IInv, NEW p \in Procs, job[p].e \in Pairs, Drop(p, {CreateKey(job[p].e)})
    PROVE  /\ ClaimStep(p)
           /\ holder'[AdvanceKey] = holder[AdvanceKey]
           /\ \A x \in Pairs : holder'[CreateKey(x)] # p
<1>1. TypeInv /\ CreateInv(p)
  BY DEF IInv
<1> DEFINE K == {CreateKey(job[p].e)}
<1>2. ClaimStep(p) /\ \A k \in Keys : holder'[k] = IF k \in K /\ holder[k] = p THEN None ELSE holder[k]
  BY <1>1, DropStep
<1>3. \A x \in Pairs : holder[CreateKey(x)] = p => CreateKey(x) \in K
  BY <1>1 DEF CreateInv
<1> QED BY <1>2, <1>3, KeyFacts, PairSets

(* A call that is not creating a pair frees claims other than a creation's. *)
LEMMA DropOther ==
    ASSUME IInv, NEW p \in Procs, NEW K \in SUBSET Keys, Drop(p, K),
           job[p].at \notin CreationSteps \cup {"broken"}
    PROVE  /\ ClaimStep(p)
           /\ holder'[AdvanceKey] \in {None, holder[AdvanceKey]}
           /\ \A x \in Pairs : holder'[CreateKey(x)] # p
           /\ AdvanceKey \in K => holder'[AdvanceKey] # p
<1>1. TypeInv
  BY DEF IInv
<1>2. ClaimStep(p) /\ \A k \in Keys : holder'[k] = IF k \in K /\ holder[k] = p THEN None ELSE holder[k]
  BY <1>1, DropStep
<1> QED BY <1>2, NoCreateClaim, KeyFacts, PairSets

(* A call that starts with a claim other than a creation's.                *)
LEMMA TakeOther ==
    ASSUME IInv, NEW p \in Procs, NEW K \in SUBSET Keys, Take(p, K), job[p].at = "idle",
           \A x \in Pairs : CreateKey(x) \notin K
    PROVE  /\ ClaimStep(p)
           /\ AdvanceKey \notin K => holder'[AdvanceKey] = holder[AdvanceKey]
           /\ \A x \in Pairs : holder'[CreateKey(x)] # p
<1>1. TypeInv
  BY DEF IInv
<1>2. ClaimStep(p) /\ \A k \in Keys : holder'[k] = IF k \in K THEN p ELSE holder[k]
  BY <1>1, TakeStep
<1>3. \A x \in Pairs : holder[CreateKey(x)] # p
  BY NoCreateClaim DEF CreationSteps
<1> QED BY <1>2, <1>3, KeyFacts

(* The end of a call: it keeps no claim that matters and starts afresh.    *)
LEMMA QuietLanding ==
    ASSUME IInv, UNCHANGED durable, UNCHANGED campaign, CallTypes',
           NEW p \in Procs, NEW j \in Jobs, Become(p, j), j.at \in Outside \ {"cancelling"},
           j.at = "finish" => Counted = Trials, ClaimStep(p),
           j.at = "choose" => j.by = "advance",
           \A x \in Pairs : holder'[CreateKey(x)] # p,
           holder'[AdvanceKey] \in Procs => holder[AdvanceKey] \in Procs \/ ends = {}
    PROVE  IInv'
<1>1. JobStep(p) /\ job'[p] = j
  BY BecomeStep DEF IInv
<1>2. Counted' = Counted
  BY DEF Counted, With, campaign
<1>3. CallInv(p)' /\ AdvanceInv(p)'
  BY <1>1, <1>2, Landing
<1> QED BY <1>1, <1>3, NoCreateInv, QuietStep

-----------------------------------------------------------------------------
(* The steps of the campaign that only claim, choose or give up.           *)
LEMMA ClaimCampaignKeeps ==
    ASSUME IInv, NEW p \in Procs, ClaimCampaign(p)
    PROVE  IInv'
<1> DEFINE j == [Idle EXCEPT !.at = "register"]
<1>1. j \in Jobs /\ j.at = "register"
  BY IdleJob DEF Jobs, Outside, Idle
<1>2. ClaimStep(p) /\ holder'[AdvanceKey] = holder[AdvanceKey] /\ \A x \in Pairs : holder'[CreateKey(x)] # p
  BY TakeOther, KeyFacts DEF ClaimCampaign, Ready
<1>3. CallTypes'
  BY DEF IInv, TypeInv, CallTypes, ClaimCampaign
<1> HIDE DEF j
<1> QED BY <1>1, <1>2, <1>3, QuietLanding DEF ClaimCampaign, j, Outside

(* Taking the advance claim, refused once the campaign has ended.          *)
LEMMA ClaimAdvanceKeeps ==
    ASSUME IInv, NEW p \in Procs, ClaimAdvance(p)
    PROVE  IInv'
<1> DEFINE j == [Idle EXCEPT !.at = "choose", !.by = "advance"]
<1>1. j \in Jobs /\ j.at = "choose" /\ j.by = "advance"
  BY IdleJob DEF Jobs, Outside, Idle
<1>2. ClaimStep(p) /\ \A x \in Pairs : holder'[CreateKey(x)] # p
  BY TakeOther, KeyFacts DEF ClaimAdvance, Ready
<1>3. CallTypes' /\ ends = {}
  BY DEF IInv, TypeInv, CallTypes, ClaimAdvance, Running
<1> HIDE DEF j
<1> QED BY <1>1, <1>2, <1>3, QuietLanding DEF ClaimAdvance, j, Outside

(* Taking the terminal claim, once every trial is counted.                 *)
LEMMA ClaimTerminalKeeps ==
    ASSUME IInv, NEW p \in Procs, ClaimTerminal(p)
    PROVE  IInv'
<1> DEFINE j == [Idle EXCEPT !.at = "finish"]
<1>1. j \in Jobs /\ j.at = "finish"
  BY IdleJob DEF Jobs, Outside, Idle
<1>2. ClaimStep(p) /\ \A x \in Pairs : holder'[CreateKey(x)] # p
  BY TakeOther, KeyFacts DEF ClaimTerminal, Ready
<1>3. CallTypes' /\ ends = {} /\ Counted = Trials
  BY DEF IInv, TypeInv, CallTypes, ClaimTerminal, Running
<1> HIDE DEF j
<1> QED BY <1>1, <1>2, <1>3, QuietLanding DEF ClaimTerminal, j, Outside

(* Taking all the claims a cancellation needs.                             *)
LEMMA ClaimCancelKeeps ==
    ASSUME IInv, NEW p \in Procs, ClaimCancel(p)
    PROVE  IInv'
<1> DEFINE j == [Idle EXCEPT !.at = "cancel"]
<1>1. j \in Jobs /\ j.at = "cancel"
  BY IdleJob DEF Jobs, Outside, Idle
<1>2. ClaimStep(p) /\ \A x \in Pairs : holder'[CreateKey(x)] # p
  BY TakeOther, KeyFacts DEF ClaimCancel, CancelKeys, Ready
<1>3. CallTypes' /\ ends = {}
  BY DEF IInv, TypeInv, CallTypes, ClaimCancel, Running
<1> HIDE DEF j
<1> QED BY <1>1, <1>2, <1>3, QuietLanding DEF ClaimCancel, j, Outside

(* A failed release leaves the advance and its claim.                      *)
LEMMA ReleaseFailedKeeps ==
    ASSUME IInv, NEW p \in Procs, ReleaseFailed(p)
    PROVE  IInv'
<1>1. ClaimStep(p) /\ holder'[AdvanceKey] \in {None, holder[AdvanceKey]}
      /\ \A x \in Pairs : holder'[CreateKey(x)] # p
  BY DropOther, KeyFacts DEF ReleaseFailed, CreationSteps
<1>2. CallTypes'
  BY DEF IInv, TypeInv, CallTypes, ReleaseFailed
<1> QED BY <1>1, <1>2, QuietLanding, IdleJob, PairSets DEF ReleaseFailed, Outside, Idle

(* The bound on parallel trials is a natural number.                       *)
LEMMA MaxParallelNat == MaxParallel \in Nat
<1>1. IsFiniteSet(Trials)
  BY PairConstants, FS_Subset DEF Pairs
<1> QED BY <1>1, FS_CardinalityType, CampaignConstants

(* The first of a set is in it.                                            *)
LEMMA FirstIn == ASSUME NEW S PROVE First(S) \subseteq S
  BY DEF First

(* Choosing the next trial to release, observe, create or start.           *)
LEMMA ChooseKeeps ==
    ASSUME IInv, NEW p \in Procs, Choose(p)
    PROVE  IInv'
<1> DEFINE nothing == ends # {} \/ ToRelease \cup ToObserve \cup ToCreate \cup ToStart = {}
<1>1. CallTypes' /\ TypeInv /\ job[p].at = "choose" /\ UNCHANGED <<durable, campaign>>
  BY DEF IInv, TypeInv, CallTypes, Choose
<1>2. CASE Drop(p, {AdvanceKey}) /\ Become(p, Idle)
  <2>1. ClaimStep(p) /\ holder'[AdvanceKey] \in {None, holder[AdvanceKey]}
        /\ \A x \in Pairs : holder'[CreateKey(x)] # p
    BY <1>1, <1>2, DropOther, KeyFacts DEF CreationSteps
  <2> QED BY <1>1, <1>2, <2>1, QuietLanding, IdleJob, PairSets DEF Outside, Idle
<1>3. ASSUME holder' = holder, NEW t \in Trials, NEW at \in AtPair,
             JobStep(p), job'[p].at = at, job'[p].e = t, job'[p].by = job[p].by,
             \/ at = "authorize"
             \/ at = "observe" /\ t \in ToObserve
             \/ at = "acquire" /\ t \in ToCreate
             \/ at = "start" /\ t \in ToStart
      PROVE  IInv'
  <2>1. job[p].by = "advance" /\ t \in Pairs
    BY <1>1, PairSets DEF IInv, CallInv
  <2>2. CallInv(p)'
    <3>1. UNCHANGED <<durable, campaign>>
      BY <1>1
    <3>2. at = "observe" => "linked" \in trial'[t] /\ HasReport(t)'
      BY <1>3, <3>1 DEF ToObserve, With, HasReport, durable, campaign
    <3>3. at = "acquire" => "started" \in trial'[t]
      BY <1>3, <3>1 DEF ToCreate, With, campaign
    <3> QED BY <1>3, <2>1, <3>2, <3>3 DEF CallInv, AtPair, Creating, CreationSteps
  <2>3. AdvanceInv(p)'
    <3>1. trial' = trial
      BY <1>1 DEF campaign
    <3>2. at = "acquire" => trial[t] \cap {"linked", "failed"} = {}
      BY <1>3 DEF ToCreate, With
    <3>3. at = "start" => /\ trial[t] \cap {"started", "linked", "failed"} = {}
                          /\ ~(Cardinality(Active) >= MaxParallel)
      BY <1>3 DEF ToStart, With
    <3>4. EndInv
      BY DEF IInv
    <3>5. Cardinality(Active) \in Nat
      <4>1. IsFiniteSet(Trials)
        BY PairConstants, FS_Subset DEF Pairs
      <4>2. Active \subseteq Trials
        BY DEF Active, With
      <4> QED BY <4>1, <4>2, FS_Subset, FS_CardinalityType
    <3>6. Active' = Active
      BY <3>1 DEF Active, With
    <3> QED BY <1>3, <3>1, <3>2, <3>3, <3>5, <3>6, MaxParallelNat DEF AdvanceInv, Creating
  <2>4. CreateInv(p)'
    BY <1>1, <1>3, NoCreateClaim, NoCreateInv DEF CreationSteps
  <2> QED BY <1>1, <1>3, <2>2, <2>3, <2>4, QuietStep, SameClaims
<1>4. ASSUME NEW S, NEW at \in AtPair, NEW t \in First(S), S \subseteq Trials,
             job' = [job EXCEPT ![p].at = at, ![p].e = t]
      PROVE  t \in S /\ JobStep(p) /\ job'[p].at = at /\ job'[p].e = t /\ job'[p].by = job[p].by
  <2>1. t \in S /\ t \in Pairs
    BY <1>4, FirstIn, PairSets
  <2>2. job' = [job EXCEPT ![p] = [job[p] EXCEPT !.at = at, !.e = t]]
    BY <1>1, <1>4 DEF TypeInv
  <2>3. job[p] \in Jobs
    BY <1>1 DEF TypeInv
  <2>4. [job[p] EXCEPT !.at = at, !.e = t] \in Jobs
    BY <2>1, <2>3 DEF Jobs
  <2>5. JobStep(p) /\ job'[p] = [job[p] EXCEPT !.at = at, !.e = t]
    BY <1>1, <2>2, <2>4, BecomeStep DEF Become
  <2> QED BY <2>1, <2>3, <2>5 DEF Jobs
<1>5. ToRelease \subseteq Trials /\ ToObserve \subseteq Trials /\ ToCreate \subseteq Trials /\ ToStart \subseteq Trials
  BY DEF ToRelease, ToObserve, ToCreate, ToStart, With
<1>6. CASE \E t \in First(ToRelease) :
             job' = [job EXCEPT ![p].at = "authorize", ![p].e = t] /\ holder' = holder
  <2>1. PICK t \in First(ToRelease) :
             job' = [job EXCEPT ![p].at = "authorize", ![p].e = t] /\ holder' = holder
    BY <1>6
  <2>2. "authorize" \in AtPair
    BY DEF AtPair
  <2>3. t \in Trials /\ JobStep(p) /\ job'[p].at = "authorize" /\ job'[p].e = t /\ job'[p].by = job[p].by
    BY <1>4, <1>5, <2>1, <2>2
  <2> QED BY <1>3, <2>1, <2>2, <2>3
<1>7. CASE \E t \in First(ToObserve) :
             job' = [job EXCEPT ![p].at = "observe", ![p].e = t] /\ holder' = holder
  BY <1>3, <1>4, <1>5, <1>7 DEF AtPair
<1>8. CASE \E t \in First(ToStart) :
             job' = [job EXCEPT ![p].at = "start", ![p].e = t] /\ holder' = holder
  BY <1>3, <1>4, <1>5, <1>8 DEF AtPair
<1>9. CASE \E t \in First(ToCreate) : holder' = holder /\
             job' = [job EXCEPT ![p].at = "acquire", ![p].e = t, ![p].fresh = ~Recovering(t)]
  <2>1. PICK t \in First(ToCreate) : holder' = holder /\
             job' = [job EXCEPT ![p].at = "acquire", ![p].e = t, ![p].fresh = ~Recovering(t)]
    BY <1>9
  <2>2. t \in ToCreate /\ t \in Trials /\ t \in Pairs
    BY <1>5, FirstIn, PairSets
  <2>3. (~Recovering(t)) \in BOOLEAN
    BY DEF Recovering
  <2>4. JobStep(p) /\ job'[p].at = "acquire" /\ job'[p].e = t /\ job'[p].by = job[p].by
    <3> DEFINE f == ~Recovering(t)
               j == [job[p] EXCEPT !.at = "acquire", !.e = t, !.fresh = f]
    <3>1. job' = [job EXCEPT ![p] = j]
      BY <1>1, <2>1 DEF TypeInv
    <3>2. job[p] \in Jobs /\ f \in BOOLEAN
      BY <1>1, <2>3 DEF TypeInv
    <3> HIDE DEF f
    <3>3. j \in Jobs
      BY <2>2, <3>2 DEF Jobs, AtPair, Creating
    <3>4. JobStep(p) /\ job'[p] = j
      BY <1>1, <3>1, <3>3, BecomeStep DEF Become
    <3> QED BY <3>2, <3>4 DEF Jobs
  <2> QED BY <2>1, <2>2, <2>4, <1>3 DEF AtPair, Creating
<1> QED
  BY <1>2, <1>6, <1>7, <1>8, <1>9 DEF Choose

(* A cancellation reads which trials have started.                         *)
LEMMA ReadStartedKeeps ==
    ASSUME IInv, NEW p \in Procs, ReadStarted(p)
    PROVE  IInv'
<1>1. CallTypes' /\ TypeInv /\ job[p].at = "cancel" /\ UNCHANGED durable /\ UNCHANGED campaign
  BY DEF IInv, TypeInv, CallTypes, ReadStarted
<1>2. CASE Running /\ holder' = holder
           /\ job' = [job EXCEPT ![p].at = "cancelling", ![p].rest = With("started")]
  <2> DEFINE S == With("started")
             j == [job[p] EXCEPT !.at = "cancelling", !.rest = S]
  <2>1. job' = [job EXCEPT ![p] = j]
    BY <1>1, <1>2 DEF TypeInv
  <2>2. job[p] \in Jobs /\ S \in SUBSET Trials
    BY <1>1 DEF TypeInv, With
  <2> HIDE DEF S
  <2>3. j \in Jobs /\ j.at = "cancelling" /\ j.rest = S
    BY <2>2 DEF Jobs, Outside
  <2>4. JobStep(p) /\ job'[p] = j
    BY <1>1, <2>1, <2>3, BecomeStep DEF Become
  <2>5. CallInv(p)'
    BY <2>3, <2>4 DEF CallInv, AtPair, Creating, CreationSteps
  <2>6. AdvanceInv(p)'
    <3>1. With("linked") \subseteq S
      BY DEF With, S, IInv, TrialOK
    <3>2. With("linked")' = With("linked")
      BY <1>1 DEF With, campaign
    <3>3. ends' = {}
      BY <1>1, <1>2 DEF Running, campaign
    <3> QED BY <2>3, <2>4, <3>1, <3>2, <3>3 DEF AdvanceInv, Creating
  <2>7. CreateInv(p)'
    BY <1>1, <1>2, NoCreateClaim, NoCreateInv DEF CreationSteps
  <2> QED BY <1>1, <1>2, <2>4, <2>5, <2>6, <2>7, QuietStep, SameClaims
<1>3. CASE Drop(p, CancelKeys) /\ Become(p, Idle)
  <2>1. ClaimStep(p) /\ holder'[AdvanceKey] \in {None, holder[AdvanceKey]}
        /\ \A x \in Pairs : holder'[CreateKey(x)] # p
    BY <1>1, <1>3, DropOther, KeyFacts DEF CreationSteps, CancelKeys
  <2> QED BY <1>1, <1>3, <2>1, QuietLanding, IdleJob, PairSets DEF Outside, Idle
<1> QED
  BY <1>2, <1>3 DEF ReadStarted

-----------------------------------------------------------------------------
(* The steps of the pair service that write nothing.                       *)
LEMMA QuietCall ==
    ASSUME IInv, UNCHANGED durable, UNCHANGED campaign, CallTypes', NEW p \in Procs,
           JobStep(p), ClaimStep(p), holder'[AdvanceKey] = holder[AdvanceKey],
           job[p].at \in AtPair, job'[p].at \in AtPair \ {"start"},
           job'[p].e = job[p].e, job'[p].by = job[p].by,
           job'[p].at \in Creating => job[p].at \in Creating,
           job'[p].at = "returned" => job[p].at \in Creating \cup {"release", "released"},
           CallInv(p)', CreateInv(p)'
    PROVE  IInv'
<1>1. trial' = trial /\ Mono
  BY MonoHolds DEF campaign
<1>2. AdvanceInv(p)'
  BY <1>1, SameCall
<1> QED BY <1>2, QuietStep

(* A call that enters a pair and has written nothing yet.                  *)
LEMMA QuietEntry ==
    ASSUME IInv, UNCHANGED durable, UNCHANGED campaign, CallTypes', NEW p \in Procs,
           NEW j \in Jobs, Become(p, j), ClaimStep(p), holder'[AdvanceKey] = holder[AdvanceKey],
           \A x \in Pairs : holder'[CreateKey(x)] # p,
           j.at \in {"acquire", "score"}, j.by # "advance", j.e \in Pairs,
           j.at = "score" => /\ "created" \in facts[j.e]
                             /\ \A m \in Modes : run[j.e][m].status \in Terminal
    PROVE  IInv'
<1>1. JobStep(p) /\ job'[p] = j
  BY BecomeStep DEF IInv
<1>2. CallInv(p)'
  BY <1>1 DEF CallInv, AtPair, Creating, CreationSteps, durable
<1>3. AdvanceInv(p)'
  BY <1>1 DEF AdvanceInv, Creating
<1> QED BY <1>1, <1>2, <1>3, NoCreateInv, QuietStep

(* A client's request to create a pair.                                    *)
LEMMA ClientCreateKeeps ==
    ASSUME IInv, NEW p \in Procs, NEW e \in Pairs, Aside(ClientCreate(p, e))
    PROVE  IInv'
<1> DEFINE j == [Idle EXCEPT !.at = "acquire", !.e = e, !.by = "client", !.fresh = TRUE]
<1>1. j \in Jobs /\ j.at = "acquire" /\ j.by # "advance" /\ j.e \in Pairs
  BY IdleJob DEF Jobs, Outside, Idle, AtPair, Creating
<1>2. ClaimStep(p) /\ holder' = holder /\ \A x \in Pairs : holder'[CreateKey(x)] # p
  BY NoCreateClaim, SameClaims DEF Aside, ClientCreate, IInv, CreationSteps
<1>3. CallTypes' /\ Become(p, j) /\ UNCHANGED durable /\ UNCHANGED campaign
  BY DEF IInv, TypeInv, CallTypes, Aside, ClientCreate
<1> HIDE DEF j
<1> QED BY <1>1, <1>2, <1>3, QuietEntry

(* A pending pair taken up after a restart, or struck off the list.        *)
LEMMA RecoverPendingKeeps ==
    ASSUME IInv, NEW p \in Procs, Aside(RecoverPending(p))
    PROVE  IInv'
<1>1. PICK e \in todo[p] :
          \/ /\ Become(p, [Idle EXCEPT !.at = "acquire", !.e = e, !.by = "recover"])
             /\ UNCHANGED todo
          \/ /\ todo' = [todo EXCEPT ![p] = @ \ {e}]
             /\ UNCHANGED job
  BY DEF Aside, RecoverPending
<1>2. TypeInv /\ CallTypes' /\ UNCHANGED durable /\ UNCHANGED campaign /\ e \in Pairs
  BY <1>1 DEF IInv, TypeInv, CallTypes, Aside, RecoverPending
<1>3. ClaimStep(p) /\ holder' = holder /\ \A x \in Pairs : holder'[CreateKey(x)] # p
  BY NoCreateClaim, SameClaims DEF Aside, RecoverPending, IInv, CreationSteps
<1>4. CASE Become(p, [Idle EXCEPT !.at = "acquire", !.e = e, !.by = "recover"])
  <2> DEFINE j == [Idle EXCEPT !.at = "acquire", !.e = e, !.by = "recover"]
  <2>1. j \in Jobs /\ j.at = "acquire" /\ j.by # "advance" /\ j.e \in Pairs
    BY <1>2, IdleJob DEF Jobs, Outside, Idle, AtPair, Creating
  <2>2. Become(p, j)
    BY <1>4
  <2> HIDE DEF j
  <2> QED BY <1>2, <1>3, <2>1, <2>2, QuietEntry
<1>5. CASE job' = job
  <2>1. JobStep(None) /\ ClaimStep(None)
    BY <1>2, <1>3, <1>5, SameClaims DEF JobStep, TypeInv
  <2> QED BY <1>2, <1>3, <2>1, QuietStep, PairSets
<1> QED BY <1>1, <1>4, <1>5

(* Taking the scoring claim of a pair whose arms have ended.               *)
LEMMA ClaimScoreKeeps ==
    ASSUME IInv, NEW p \in Procs, NEW e \in Pairs, NEW by \in {"ready", "drain"},
           Aside(ClaimScore(p, e, by))
    PROVE  IInv'
<1> DEFINE n == unscored[e][build[p]]
           j == [Idle EXCEPT !.at = "score", !.e = e, !.by = by, !.n = n]
<1>1. n \in Nat
  BY DEF IInv, TypeInv, PairTypes, CallTypes
<1>2. CallTypes' /\ Become(p, j) /\ UNCHANGED durable /\ UNCHANGED campaign
  BY DEF IInv, TypeInv, CallTypes, Aside, ClaimScore
<1> HIDE DEF n
<1>3. j \in Jobs /\ j.at = "score" /\ j.by # "advance" /\ j.e = e
  BY <1>1, IdleJob DEF Jobs, Outside, Idle, AtPair, Creating
<1>4. ClaimStep(p) /\ holder'[AdvanceKey] = holder[AdvanceKey] /\ \A x \in Pairs : holder'[CreateKey(x)] # p
  <2>1. {ScoreKey(e)} \in SUBSET Keys /\ AdvanceKey \notin {ScoreKey(e)}
        /\ \A x \in Pairs : CreateKey(x) \notin {ScoreKey(e)}
    BY KeyFacts
  <2>2. Take(p, {ScoreKey(e)}) /\ job[p].at = "idle"
    BY DEF Aside, ClaimScore
  <2> QED BY <2>1, <2>2, TakeOther
<1>5. "created" \in facts[e] /\ \A m \in Modes : run[e][m].status \in Terminal
  BY DEF Aside, ClaimScore
<1> HIDE DEF j
<1> QED BY <1>2, <1>3, <1>4, <1>5, QuietEntry

(* Acquiring the creation claim of a pair.                                 *)
LEMMA AcquireKeeps ==
    ASSUME IInv, NEW p \in Procs, Aside(Acquire(p))
    PROVE  IInv'
<1> DEFINE e == job[p].e
<1>1. TypeInv /\ CallTypes' /\ UNCHANGED durable /\ UNCHANGED campaign
      /\ job[p].at = "acquire" /\ Take(p, {CreateKey(e)}) /\ Goto(p, "request")
      /\ CallInv(p)
  BY DEF IInv, TypeInv, CallTypes, Aside, Acquire
<1>2. e \in Pairs
  BY <1>1 DEF CallInv, AtPair, Creating
<1>3. JobStep(p) /\ job'[p].at = "request" /\ job'[p].e = e /\ job'[p].by = job[p].by
  <2>1. JobStep(p) /\ job'[p] = [job[p] EXCEPT !.at = "request"]
    BY <1>1, GotoStep DEF AtPair, Creating
  <2>2. job[p] \in Jobs
    BY <1>1 DEF TypeInv
  <2> QED BY <2>1, <2>2 DEF Jobs
<1>4. ClaimStep(p) /\ \A k \in Keys : holder'[k] = IF k \in {CreateKey(e)} THEN p ELSE holder[k]
  BY <1>1, TakeStep
<1>5. CallInv(p)'
  BY <1>1, <1>2, <1>3 DEF CallInv, AtPair, Creating, CreationSteps, campaign
<1>6. CreateInv(p)'
  <2>1. \A x \in Pairs : holder[CreateKey(x)] # p
    BY <1>1, NoCreateClaim DEF CreationSteps
  <2> QED BY <1>2, <1>3, <1>4, <2>1, KeyFacts DEF CreateInv, CreationSteps
<1> QED BY <1>1, <1>2, <1>3, <1>4, <1>5, <1>6, KeyFacts, QuietCall DEF AtPair, Creating

(* A call that comes to its except clause, or gives up its wait.           *)
LEMMA BrokenCall ==
    ASSUME IInv, UNCHANGED durable, UNCHANGED campaign, CallTypes', NEW p \in Procs,
           holder' = holder, JobStep(p), job'[p].e = job[p].e, job'[p].by = job[p].by,
           \/ job[p].at \in CreationSteps /\ job'[p].at = "broken"
           \/ job[p].at = "acquire" /\ job'[p].at = "raised"
    PROVE  IInv'
<1>1. CallInv(p) /\ CreateInv(p) /\ TypeInv
  BY DEF IInv
<1>2. CallInv(p)'
  BY <1>1 DEF CallInv, AtPair, Creating, CreationSteps, campaign
<1>3. CreateInv(p)'
  BY <1>1 DEF CreateInv, CreationSteps
<1> QED BY <1>1, <1>2, <1>3, SameClaims, QuietCall DEF AtPair, Creating, CreationSteps

(* A call that raises changes its place and its error only.                *)
LEMMA RaiseStep ==
    ASSUME TypeInv, NEW p \in Procs, NEW at \in {"broken", "raised"},
           NEW err \in {"temporary", "permanent"},
           job' = [job EXCEPT ![p].at = at, ![p].err = err]
    PROVE  JobStep(p) /\ job'[p].at = at /\ job'[p].e = job[p].e /\ job'[p].by = job[p].by
           /\ job'[p].rest = job[p].rest
<1> DEFINE j == [job[p] EXCEPT !.at = at, !.err = err]
<1>1. job' = [job EXCEPT ![p] = j] /\ job[p] \in Jobs
  BY DEF TypeInv
<1>2. j \in Jobs
  BY <1>1 DEF Jobs, AtPair, Creating
<1>3. JobStep(p) /\ job'[p] = j
  BY <1>1, <1>2, BecomeStep DEF Become
<1> QED BY <1>1, <1>3 DEF Jobs

(* Giving up on the creation claim.                                        *)
LEMMA AcquireTimeoutKeeps ==
    ASSUME IInv, NEW p \in Procs, Aside(AcquireTimeout(p))
    PROVE  IInv'
<1>1. TypeInv /\ CallTypes' /\ UNCHANGED durable /\ UNCHANGED campaign /\ holder' = holder
      /\ job[p].at = "acquire" /\ job' = [job EXCEPT ![p].at = "raised", ![p].err = "temporary"]
  BY DEF IInv, TypeInv, CallTypes, Aside, AcquireTimeout
<1>2. JobStep(p) /\ job'[p].at = "raised" /\ job'[p].e = job[p].e /\ job'[p].by = job[p].by
  BY <1>1, RaiseStep
<1> QED BY <1>1, <1>2, BrokenCall

(* An error inside a creation.                                             *)
LEMMA RaiseKeeps ==
    ASSUME IInv, NEW p \in Procs, job[p].at \in CreationSteps, NEW err \in {"temporary", "permanent"},
           Raise(p, err), UNCHANGED <<durable, holder, todo, build, faults>>, UNCHANGED campaign
    PROVE  IInv'
<1>1. TypeInv /\ CallTypes' /\ UNCHANGED durable /\ holder' = holder
  BY DEF IInv, TypeInv, CallTypes
<1>2. JobStep(p) /\ job'[p].at = "broken" /\ job'[p].e = job[p].e /\ job'[p].by = job[p].by
  BY <1>1, RaiseStep DEF Raise
<1> QED BY <1>1, <1>2, BrokenCall

(* A creation that finds its pair failed stops.                            *)
LEMMA StoppedKeeps ==
    ASSUME IInv, NEW p \in Procs, job[p].at \in CreationSteps, Stopped(p), UNCHANGED campaign
    PROVE  IInv'
  BY RaiseKeeps DEF Stopped

(* An error of a creation step, temporary or permanent.                    *)
LEMMA CreationErrorKeeps ==
    ASSUME IInv, NEW p \in Procs, NEW err \in {"temporary", "permanent"},
           Aside(CreationError(p, err))
    PROVE  IInv'
<1> DEFINE f == job[p].fresh /\ job[p].at # "request"
           j == [job[p] EXCEPT !.at = "broken", !.err = err, !.fresh = f]
<1>1. TypeInv /\ UNCHANGED durable /\ UNCHANGED campaign /\ holder' = holder
      /\ job[p].at \in CreationSteps
  BY DEF IInv, Aside, CreationError
<1>2. CallTypes'
  BY PairConstants DEF IInv, TypeInv, CallTypes, Aside, CreationError, Fault
<1>3. job' = [job EXCEPT ![p] = j]
  BY <1>1 DEF TypeInv, Aside, CreationError
<1>4. job[p] \in Jobs /\ f \in BOOLEAN
  BY <1>1 DEF TypeInv
<1> HIDE DEF f
<1>5. j \in Jobs
  BY <1>4 DEF Jobs, AtPair, Creating
<1>6. JobStep(p) /\ job'[p] = j
  BY <1>1, <1>3, <1>5, BecomeStep DEF Become
<1>7. j.at = "broken" /\ j.e = job[p].e /\ j.by = job[p].by
  BY <1>4 DEF Jobs
<1> QED BY <1>1, <1>2, <1>6, <1>7, BrokenCall

(* A call that moves on keeps its pair and its caller.                     *)
LEMMA MoveStep ==
    ASSUME TypeInv, NEW p \in Procs, NEW at \in AtPair, Goto(p, at)
    PROVE  JobStep(p) /\ job'[p].at = at /\ job'[p].e = job[p].e /\ job'[p].by = job[p].by
<1>1. JobStep(p) /\ job'[p] = [job[p] EXCEPT !.at = at]
  BY GotoStep
<1>2. job[p] \in Jobs
  BY DEF TypeInv
<1> QED BY <1>1, <1>2 DEF Jobs

(* A call that moves on to an arm keeps its pair and its caller.           *)
LEMMA ModeStep ==
    ASSUME TypeInv, NEW p \in Procs, NEW at \in AtPair, NEW m \in Modes,
           job' = [job EXCEPT ![p].m = m, ![p].at = at]
    PROVE  JobStep(p) /\ job'[p].at = at /\ job'[p].e = job[p].e /\ job'[p].by = job[p].by
<1> DEFINE j == [job[p] EXCEPT !.m = m, !.at = at]
<1>1. job' = [job EXCEPT ![p] = j] /\ job[p] \in Jobs
  BY DEF TypeInv
<1>2. j \in Jobs
  BY <1>1 DEF Jobs
<1>3. JobStep(p) /\ job'[p] = j
  BY <1>1, <1>2, BecomeStep DEF Become
<1> QED BY <1>1, <1>3 DEF Jobs

(* Confirming that a new arm is on its run.                                *)
LEMMA ConfirmKeeps ==
    ASSUME IInv, NEW p \in Procs, Aside(Confirm(p))
    PROVE  IInv'
<1>1. TypeInv /\ CallInv(p) /\ CreateInv(p) /\ job[p].at = "confirm" /\ UNCHANGED campaign
  BY DEF IInv, Aside, Confirm
<1>2. CASE Stopped(p)
  BY <1>1, <1>2, StoppedKeeps DEF CreationSteps
<1>3. CASE Goto(p, "link") /\ UNCHANGED <<durable, holder, todo, build, faults>>
  <2>1. JobStep(p) /\ job'[p].at = "link" /\ job'[p].e = job[p].e /\ job'[p].by = job[p].by
    BY <1>1, <1>3, MoveStep DEF AtPair, Creating
  <2>2. CallInv(p)'
    BY <1>1, <1>3, <2>1 DEF CallInv, AtPair, Creating, CreationSteps, durable, campaign
  <2>3. CreateInv(p)'
    BY <1>1, <1>3, <2>1 DEF CreateInv, CreationSteps, durable
  <2>4. CallTypes'
    BY <1>1, <1>3 DEF TypeInv, CallTypes
  <2> QED BY <1>1, <1>3, <2>1, <2>2, <2>3, <2>4, SameClaims, QuietCall DEF AtPair, Creating
<1> QED BY <1>2, <1>3 DEF Aside, Confirm

(* Deciding whether a created pair may be released.                        *)
LEMMA AuthorizeKeeps ==
    ASSUME IInv, NEW p \in Procs, Aside(Authorize(p))
    PROVE  IInv'
<1> DEFINE e == job[p].e
           at == IF Releasable(e) THEN "release" ELSE "failed"
<1>1. TypeInv /\ CallInv(p) /\ job[p].at = "authorize" /\ UNCHANGED campaign
      /\ UNCHANGED durable /\ holder' = holder /\ CallTypes'
      /\ job' = [job EXCEPT ![p].m = "single", ![p].at = at]
  BY DEF IInv, TypeInv, CallTypes, Aside, Authorize
<1>2. at \in AtPair \ {"start", "returned"} /\ at \notin Creating
  BY DEF AtPair, Creating
<1>3. JobStep(p) /\ job'[p].at = at /\ job'[p].e = e /\ job'[p].by = job[p].by
  <2> HIDE DEF at
  <2> QED BY <1>1, <1>2, ModeStep DEF Modes
<1>4. CallInv(p)'
  <2>1. \A x : Releasable(x) => Releasable(x)'
    BY <1>1 DEF Releasable, durable
  <2> QED BY <1>1, <1>3, <2>1 DEF CallInv, AtPair, Creating, CreationSteps
<1>5. CreateInv(p)'
  BY <1>1, NoCreateClaim, NoCreateInv DEF CreationSteps
<1> HIDE DEF at
<1> QED BY <1>1, <1>2, <1>3, <1>4, <1>5, SameClaims, QuietCall DEF AtPair

(* An error of a release.                                                  *)
LEMMA ReleaseErrorKeeps ==
    ASSUME IInv, NEW p \in Procs, Aside(ReleaseError(p))
    PROVE  IInv'
<1> DEFINE e == job[p].e
           at == IF job[p].by = "advance" THEN "failed" ELSE "raised"
<1>1. TypeInv /\ CallInv(p) /\ job[p].at \in {"release", "released"} /\ UNCHANGED campaign
      /\ UNCHANGED durable /\ holder' = holder /\ Goto(p, at)
  BY DEF IInv, Aside, ReleaseError
<1>2. CallTypes'
  BY PairConstants DEF IInv, TypeInv, CallTypes, Aside, ReleaseError, Fault
<1>3. JobStep(p) /\ job'[p].at = at /\ job'[p].e = e /\ job'[p].by = job[p].by
  <2>1. at \in AtPair
    BY DEF AtPair, Creating
  <2> HIDE DEF at
  <2> QED BY <1>1, <2>1, MoveStep
<1>4. CallInv(p)'
  BY <1>1, <1>3 DEF CallInv, AtPair, Creating, CreationSteps
<1>5. AdvanceInv(p)'
  BY <1>3 DEF AdvanceInv, Creating
<1>6. CreateInv(p)'
  BY <1>1, NoCreateClaim, NoCreateInv DEF CreationSteps
<1> QED BY <1>1, <1>2, <1>3, <1>4, <1>5, <1>6, SameClaims, QuietStep

(* A call of a client, of recovery or of the drain ends.                   *)
LEMMA PairCallEndsKeeps ==
    ASSUME IInv, NEW p \in Procs, Aside(PairCallEnds(p))
    PROVE  IInv'
<1>1. TypeInv /\ job[p].at \in {"returned", "raised"} /\ UNCHANGED campaign
      /\ UNCHANGED durable /\ holder' = holder /\ Become(p, Idle)
  BY DEF IInv, Aside, PairCallEnds
<1>2. CallTypes'
  BY DEF IInv, TypeInv, CallTypes, Aside, PairCallEnds
<1>3. \A x \in Pairs : holder'[CreateKey(x)] # p
  BY <1>1, NoCreateClaim DEF CreationSteps
<1> QED BY <1>1, <1>2, <1>3, IdleJob, SameClaims, QuietLanding DEF Outside, Idle

(* A restart of the process: its claims are left behind, held by nobody.   *)
LEMMA RestartKeeps ==
    ASSUME IInv, NEW p \in Procs, Aside(Restart(p))
    PROVE  IInv'
<1>1. TypeInv /\ UNCHANGED campaign /\ UNCHANGED durable /\ Become(p, Idle)
      /\ holder' = [k \in DOMAIN holder |-> IF holder[k] = p THEN "nobody" ELSE holder[k]]
  BY DEF IInv, Aside, Restart
<1>2. CallTypes'
  <2>1. PICK b \in Builds : build' = [build EXCEPT ![p] = b]
    BY DEF Aside, Restart
  <2>2. build' \in [Procs -> Builds]
    BY <1>1, <2>1 DEF TypeInv, CallTypes
  <2>3. todo' \in [Procs -> SUBSET Pairs]
    BY <1>1 DEF TypeInv, CallTypes, Aside, Restart
  <2>4. faults' \in 0 .. MaxFaults
    BY <1>1, PairConstants DEF TypeInv, CallTypes, Aside, Restart, Fault
  <2> QED BY <2>2, <2>3, <2>4 DEF CallTypes
<1>3. ClaimStep(p) /\ \A k \in Keys : holder'[k] \in {"nobody", holder[k]} /\ holder'[k] # p
  BY <1>1, PairSets DEF TypeInv, ClaimStep, Holders
<1> QED BY <1>1, <1>2, <1>3, KeyFacts, PairSets, IdleJob, QuietLanding DEF Outside, Idle

(* A claim left behind by a restart expires.                               *)
LEMMA LapseOrphanKeeps ==
    ASSUME IInv, NEW k \in Keys, Aside(LapseOrphan(k))
    PROVE  IInv'
<1>1. TypeInv /\ UNCHANGED campaign /\ UNCHANGED durable /\ job' = job /\ CallTypes'
      /\ holder' = [holder EXCEPT ![k] = None]
  BY DEF IInv, TypeInv, CallTypes, Aside, LapseOrphan
<1>2. JobStep(None) /\ ClaimStep(None) /\ holder'[AdvanceKey] \in {None, holder[AdvanceKey]}
  BY <1>1, KeyFacts, PairSets DEF JobStep, ClaimStep, TypeInv, Holders
<1> QED BY <1>1, <1>2, PairSets, QuietStep

(* A claim expires under the call that holds it.                           *)
LEMMA LapseKeeps ==
    ASSUME IInv, NEW k \in Keys, Aside(Lapse(k))
    PROVE  IInv'
<1>1. TypeInv /\ UNCHANGED campaign /\ UNCHANGED durable /\ job' = job
      /\ holder' = [holder EXCEPT ![k] = None]
  BY DEF IInv, Aside, Lapse
<1>2. CallTypes'
  BY PairConstants DEF IInv, TypeInv, CallTypes, Aside, Lapse, Fault
<1>3. JobStep(None) /\ ClaimStep(None) /\ holder'[AdvanceKey] \in {None, holder[AdvanceKey]}
  BY <1>1, KeyFacts, PairSets DEF JobStep, ClaimStep, TypeInv, Holders
<1> QED BY <1>1, <1>2, <1>3, PairSets, QuietStep

-----------------------------------------------------------------------------
(* A step of the pair service that writes to one pair.                     *)
Elsewhere(e) ==
    \A x \in Pairs \ {e} :
        /\ facts'[x] = facts[x] /\ contract'[x] = contract[x] /\ report'[x] = report[x]
        /\ run'[x] = run[x] /\ linked'[x] = linked[x] /\ delivered'[x] = delivered[x]
        /\ arms'[x] = arms[x]

Grows(e) ==
    /\ facts[e] \subseteq facts'[e]
    /\ linked[e] = Modes => linked'[e] = Modes
    /\ HasReport(e) => report'[e] = report[e]
    /\ \A m \in Modes :
          /\ run[e][m].build # None => run'[e][m].build = run[e][m].build
          /\ run[e][m].status \in Terminal => run'[e][m].status = run[e][m].status
          /\ run[e][m].status \in Closed => run'[e][m].status \in Closed

(* A step that writes one pair, growing it, and keeps it well formed.      *)
LEMMA PairWrite ==
    ASSUME IInv, UNCHANGED <<campaign, parent>>, PairTypes', CallTypes',
           NEW p \in Procs \cup {None}, NEW e \in Pairs, JobStep(p), ClaimStep(p),
           holder'[AdvanceKey] = holder[AdvanceKey],
           Elsewhere(e), Grows(e), PairOK(e)',
           "failed" \in facts'[e] => "failed" \in facts[e] \/ holder[CreateKey(e)] = p,
           p \in Procs => CallInv(p)' /\ CreateInv(p)' /\ AdvanceInv(p)'
    PROVE  IInv' /\ Mono
<1>1. TypeInv'
  BY DEF IInv, TypeInv, CampaignTypes, JobStep, ClaimStep, campaign
<1>2. Mono
  BY DEF Mono, Elsewhere, Grows, campaign
<1>2a. Fenced(p)
  BY DEF Fenced, Elsewhere, campaign
<1>3. \A x \in Pairs : PairOK(x)'
  BY PairFrame DEF IInv, Elsewhere
<1>4. \A t \in Trials : TrialOK(t)'
  BY <1>2, TrialFrame DEF IInv, campaign
<1>5. VerdictInv' /\ EndInv'
  BY <1>2, VerdictFrame, EndFrame DEF IInv, campaign
<1>6. \A q \in Procs : CallInv(q)' /\ CreateInv(q)' /\ AdvanceInv(q)'
  BY <1>1, <1>2, <1>2a, OtherCall, OtherCreate, OtherAdvance DEF JobStep
<1> QED BY <1>1, <1>2, <1>3, <1>4, <1>5, <1>6 DEF IInv

(* The same by a call that stays at its pair.                              *)
LEMMA PairCallWrite ==
    ASSUME IInv, UNCHANGED <<campaign, parent>>, PairTypes', CallTypes',
           NEW p \in Procs, NEW e \in Pairs, JobStep(p), ClaimStep(p),
           holder'[AdvanceKey] = holder[AdvanceKey],
           Elsewhere(e), Grows(e), PairOK(e)',
           "failed" \in facts'[e] => "failed" \in facts[e] \/ holder[CreateKey(e)] = p,
           CallInv(p)', CreateInv(p)',
           job[p].at \in AtPair, job'[p].at \in AtPair \ {"start"},
           job'[p].e = job[p].e, job'[p].by = job[p].by,
           job'[p].at \in Creating => job[p].at \in Creating,
           job'[p].at = "returned" => job[p].at \in Creating \cup {"release", "released"}
    PROVE  IInv'
<1>1. trial' = trial /\ Mono
  BY DEF Mono, Elsewhere, Grows, campaign
<1>2. AdvanceInv(p)'
  BY <1>1, SameCall
<1> QED BY <1>2, PairWrite

(* Recording the request of a pair.                                        *)
LEMMA RequestKeeps ==
    ASSUME IInv, NEW p \in Procs, Aside(Request(p))
    PROVE  IInv'
<1> DEFINE e == job[p].e
<1>1. TypeInv /\ CallInv(p) /\ CreateInv(p) /\ job[p].at = "request"
      /\ UNCHANGED <<arms, contract, report, unscored, run, linked, delivered, parent,
                     todo, build, faults, campaign>>
      /\ facts' = [facts EXCEPT ![e] = @ \cup {"requested"}]
  BY DEF IInv, Aside, Request, Record
<1>2. e \in Pairs /\ PairOK(e)
  BY <1>1 DEF IInv, CallInv, AtPair, Creating
<1>3. PairTypes' /\ CallTypes'
  BY <1>1, <1>2 DEF TypeInv, PairTypes, CallTypes
<1>4. /\ \A x \in Pairs \ {e} : facts'[x] = facts[x]
      /\ facts'[e] = facts[e] \cup {"requested"}
  BY <1>1, <1>2 DEF TypeInv, PairTypes
<1>5. ASSUME NEW x, x = e PROVE Elsewhere(x) /\ Grows(x) /\ PairOK(x)'
  BY <1>1, <1>2, <1>4, <1>5 DEF Elsewhere, Grows, PairOK, Releasable, HasReport
<1>6. CASE "failed" \in facts[e] /\ Drop(p, {CreateKey(e)})
           /\ job' = [job EXCEPT ![p].at = "raised", ![p].err = "permanent"]
  <2>1. JobStep(p) /\ job'[p].at = "raised" /\ job'[p].e = e /\ job'[p].by = job[p].by
    BY <1>1, <1>6, RaiseStep
  <2>2. ClaimStep(p) /\ holder'[AdvanceKey] = holder[AdvanceKey] /\ CreateInv(p)'
    BY <1>2, <1>6, DropCreate, NoCreateInv
  <2>3. CallInv(p)'
    BY <1>1, <2>1 DEF CallInv, AtPair, Creating, CreationSteps, campaign
  <2> QED BY <1>1, <1>2, <1>3, <1>4, <1>5, <2>1, <2>2, <2>3, PairCallWrite DEF AtPair, Creating
<1>7. CASE "failed" \notin facts[e] /\ holder' = holder
           /\ Goto(p, IF "created" \in facts[e] THEN "link" ELSE "plan")
  <2> DEFINE at == IF "created" \in facts[e] THEN "link" ELSE "plan"
  <2>1. at \in {"link", "plan"} /\ (at = "link" => "created" \in facts[e])
    OBVIOUS
  <2>2. Goto(p, at)
    BY <1>7
  <2> HIDE DEF at
  <2>3. JobStep(p) /\ job'[p].at = at /\ job'[p].e = e /\ job'[p].by = job[p].by
    BY <1>1, <2>1, <2>2, MoveStep DEF AtPair, Creating
  <2>4. CallInv(p)'
    BY <1>1, <1>2, <1>4, <2>1, <2>3 DEF CallInv, AtPair, Creating, CreationSteps, campaign
  <2>5. CreateInv(p)'
    BY <1>1, <1>2, <1>4, <1>7, <2>1, <2>3 DEF CreateInv, CreationSteps
  <2> QED BY <1>1, <1>2, <1>3, <1>4, <1>5, <1>7, <2>1, <2>3, <2>4, <2>5, SameClaims, PairCallWrite
          DEF AtPair, Creating
<1> QED BY <1>6, <1>7 DEF Aside, Request

(* A step that only changes arm facts other than a release.                *)
LEMMA ArmFact ==
    ASSUME IInv, NEW p \in Procs, NEW e \in Pairs, NEW fact \in {"planned", "prepared", "released"},
           NEW m \in Modes, RecordOf(e, fact, m), fact = "released" => Releasable(e),
           UNCHANGED <<facts, contract, report, unscored, run, linked, delivered, parent,
                       holder, todo, build, faults, campaign>>
    PROVE  /\ PairTypes' /\ CallTypes' /\ PairOK(e)' /\ Elsewhere(e) /\ Grows(e) /\ ClaimStep(p)
<1>1. TypeInv /\ PairOK(e)
  BY DEF IInv
<1>2. PairTypes' /\ CallTypes'
  <2>1. arms' \in [Pairs -> SUBSET ({"planned", "prepared", "released"} \X Modes)]
    BY <1>1 DEF TypeInv, PairTypes, RecordOf
  <2> QED BY <1>1, <2>1 DEF TypeInv, PairTypes, CallTypes
<1>3. /\ \A x \in Pairs \ {e} : arms'[x] = arms[x]
      /\ arms'[e] = arms[e] \cup {<<fact, m>>}
  BY <1>1 DEF TypeInv, PairTypes, RecordOf
<1>4. Elsewhere(e) /\ Grows(e)
  BY <1>3 DEF Elsewhere, Grows
<1>5. PairOK(e)'
  <2>1. \A n \in Modes : <<"released", n>> \in arms'[e] => Releasable(e)
    BY <1>1, <1>3 DEF PairOK
  <2>2. Releasable(e) => Releasable(e)'
    BY DEF Releasable
  <2> QED BY <1>1, <2>1, <2>2 DEF PairOK, HasReport
<1> QED BY <1>1, <1>2, <1>4, <1>5, SameClaims

(* Planning an arm.                                                        *)
LEMMA PlanKeeps ==
    ASSUME IInv, NEW p \in Procs, Aside(Plan(p))
    PROVE  IInv'
<1> DEFINE e == job[p].e
           m == job[p].m
           next == IF <<"prepared", m>> \notin arms[e] THEN "prepare"
                   ELSE IF m = "single" THEN "plan" ELSE "contract"
           mm == IF next = "prepare" THEN m ELSE "team"
           i == job[p].ids \cup {m}
           j == [job[p] EXCEPT !.ids = i, !.at = next, !.m = mm]
<1>1. TypeInv /\ CallInv(p) /\ CreateInv(p) /\ job[p].at = "plan" /\ job[p] \in Jobs
      /\ UNCHANGED <<facts, contract, report, unscored, run, linked, delivered, parent,
                     holder, todo, build, faults, campaign>>
      /\ RecordOf(e, "planned", m)
  BY DEF IInv, TypeInv, Aside, Plan
<1>2. e \in Pairs /\ m \in Modes
  BY <1>1 DEF CallInv, AtPair, Creating, Jobs
<1>3. PairTypes' /\ CallTypes' /\ ClaimStep(p)
  BY <1>1, <1>2, ArmFact
<1>4. ASSUME NEW x, x = e PROVE PairOK(x)' /\ Elsewhere(x) /\ Grows(x)
  BY <1>1, <1>2, <1>4, ArmFact
<1>5. job' = [job EXCEPT ![p] = j]
  BY <1>1 DEF TypeInv, Aside, Plan
<1>6. next \in {"prepare", "plan", "contract"} /\ mm \in Modes /\ i \in SUBSET Modes
  BY <1>1, <1>2 DEF Modes, Jobs
<1> HIDE DEF next, mm, i
<1>7. j \in Jobs /\ j.at = next /\ j.e = e /\ j.by = job[p].by
  BY <1>1, <1>6 DEF Jobs, AtPair, Creating
<1>8. JobStep(p) /\ job'[p] = j
  BY <1>1, <1>5, <1>7, BecomeStep DEF Become
<1>9. CallInv(p)'
  BY <1>1, <1>6, <1>7, <1>8 DEF CallInv, AtPair, Creating, CreationSteps, campaign
<1>10. CreateInv(p)'
  BY <1>1, <1>6, <1>7, <1>8 DEF CreateInv, CreationSteps
<1> QED BY <1>1, <1>2, <1>3, <1>4, <1>6, <1>7, <1>8, <1>9, <1>10, PairCallWrite DEF AtPair, Creating

(* Recording a prepared arm.                                               *)
LEMMA RecordArmKeeps ==
    ASSUME IInv, NEW p \in Procs, Aside(RecordArm(p))
    PROVE  IInv'
<1> DEFINE e == job[p].e
           at == IF job[p].m = "single" THEN "plan" ELSE "contract"
<1>1. TypeInv /\ CallInv(p) /\ CreateInv(p) /\ job[p].at = "record" /\ job[p] \in Jobs
      /\ UNCHANGED campaign
  BY DEF IInv, TypeInv, Aside, RecordArm
<1>2. CASE Stopped(p)
  BY <1>1, <1>2, StoppedKeeps DEF CreationSteps
<1>3. CASE /\ RecordOf(e, "prepared", job[p].m) /\ NextArm(p, "contract")
           /\ UNCHANGED <<facts, contract, report, unscored, run, linked, delivered, parent,
                          holder, todo, build, faults>>
  <2>1. e \in Pairs /\ job[p].m \in Modes
    BY <1>1 DEF CallInv, AtPair, Creating, Jobs
  <2>2. PairTypes' /\ CallTypes' /\ ClaimStep(p)
    BY <1>1, <1>3, <2>1, ArmFact
  <2>3. ASSUME NEW x, x = e PROVE PairOK(x)' /\ Elsewhere(x) /\ Grows(x)
    BY <1>1, <1>3, <2>1, <2>3, ArmFact
  <2>4. at \in {"plan", "contract"} /\ job' = [job EXCEPT ![p].m = "team", ![p].at = at]
    BY <1>3 DEF NextArm
  <2> HIDE DEF at
  <2>5. JobStep(p) /\ job'[p].at = at /\ job'[p].e = e /\ job'[p].by = job[p].by
    BY <1>1, <2>4, ModeStep DEF AtPair, Creating, Modes
  <2>6. CallInv(p)'
    BY <1>1, <1>3, <2>4, <2>5 DEF CallInv, AtPair, Creating, CreationSteps, campaign
  <2>7. CreateInv(p)'
    BY <1>1, <1>3, <2>4, <2>5 DEF CreateInv, CreationSteps
  <2> QED BY <1>1, <1>3, <2>1, <2>2, <2>3, <2>4, <2>5, <2>6, <2>7, PairCallWrite DEF AtPair, Creating
<1> QED BY <1>2, <1>3 DEF Aside, RecordArm

(* Recording the release of an arm.                                        *)
LEMMA RecordReleaseKeeps ==
    ASSUME IInv, NEW p \in Procs, Aside(RecordRelease(p))
    PROVE  IInv'
<1> DEFINE e == job[p].e
           at == IF job[p].m = "single" THEN "release" ELSE "returned"
<1>1. TypeInv /\ CallInv(p) /\ CreateInv(p) /\ job[p].at = "released" /\ job[p] \in Jobs
      /\ RecordOf(e, "released", job[p].m)
      /\ UNCHANGED <<facts, contract, report, unscored, run, linked, delivered, parent,
                          holder, todo, build, faults, campaign>>
      /\ job' = [job EXCEPT ![p].m = "team", ![p].at = at]
  BY DEF IInv, TypeInv, Aside, RecordRelease
<1>2. e \in Pairs /\ job[p].m \in Modes /\ Releasable(e)
  BY <1>1 DEF CallInv, AtPair, Creating, Jobs
<1>3. PairTypes' /\ CallTypes' /\ ClaimStep(p)
  BY <1>1, <1>2, ArmFact
<1>4. ASSUME NEW x, x = e PROVE PairOK(x)' /\ Elsewhere(x) /\ Grows(x)
  BY <1>1, <1>2, <1>4, ArmFact
<1>5. at \in {"release", "returned"}
  OBVIOUS
<1> HIDE DEF at
<1>6. JobStep(p) /\ job'[p].at = at /\ job'[p].e = e /\ job'[p].by = job[p].by
  BY <1>1, <1>5, ModeStep DEF AtPair, Creating, Modes
<1>7. CallInv(p)'
  <2>1. \A x : Releasable(x) => Releasable(x)'
    BY <1>1 DEF Releasable
  <2>2. job[p].by = "advance" => e \in Trials /\ "started" \in trial[e]
    BY <1>1, <1>2 DEF CallInv, AtPair, Releasable, IInv, TrialOK
  <2> QED BY <1>1, <1>2, <1>5, <1>6, <2>1, <2>2 DEF CallInv, AtPair, Creating, CreationSteps, campaign
<1>8. CreateInv(p)'
  BY <1>1, NoCreateClaim, NoCreateInv DEF CreationSteps
<1> QED BY <1>1, <1>2, <1>3, <1>4, <1>5, <1>6, <1>7, <1>8, PairCallWrite DEF AtPair, Creating

(* A step that only changes the runs of a pair, towards their end.         *)
LEMMA RunWrite ==
    ASSUME IInv, NEW e \in Pairs, NEW r \in [Modes -> [status : Statuses, build : Builds \cup {None}]],
           run' = [run EXCEPT ![e] = r],
           \A m \in Modes :
              /\ r[m].status = "none" <=> r[m].build = None
              /\ run[e][m].build # None => r[m].build = run[e][m].build
              /\ run[e][m].status \in Terminal => r[m].status = run[e][m].status
              /\ run[e][m].status \in Closed => r[m].status \in Closed,
           UNCHANGED <<facts, arms, contract, report, unscored, linked, delivered, parent,
                       todo, build, faults, campaign>>
    PROVE  /\ PairTypes' /\ CallTypes' /\ PairOK(e)' /\ Elsewhere(e) /\ Grows(e)
<1>1. TypeInv /\ PairOK(e)
  BY DEF IInv
<1>2. PairTypes' /\ CallTypes'
  <2>1. run' \in [Pairs -> [Modes -> [status : Statuses, build : Builds \cup {None}]]]
    BY <1>1 DEF TypeInv, PairTypes
  <2> QED BY <1>1, <2>1 DEF TypeInv, PairTypes, CallTypes
<1>3. /\ \A x \in Pairs \ {e} : run'[x] = run[x]
      /\ run'[e] = r
  BY <1>1 DEF TypeInv, PairTypes
<1>4. Elsewhere(e) /\ Grows(e)
  BY <1>3 DEF Elsewhere, Grows
<1>5. PairOK(e)'
  BY <1>1, <1>3, PairSets DEF PairOK, Releasable, HasReport, Modes
<1> QED BY <1>1, <1>2, <1>4, <1>5

(* A step that writes nothing durable of a pair.                           *)
LEMMA SameRuns ==
    ASSUME IInv, NEW e \in Pairs,
           UNCHANGED <<facts, arms, contract, report, unscored, run, linked, delivered, parent,
                       todo, build, faults, campaign>>
    PROVE  /\ PairTypes' /\ CallTypes' /\ PairOK(e)' /\ Elsewhere(e) /\ Grows(e)
<1>1. TypeInv /\ PairOK(e)
  BY DEF IInv
<1>2. PairTypes' /\ CallTypes'
  BY <1>1 DEF TypeInv, PairTypes, CallTypes
<1>3. Elsewhere(e) /\ Grows(e)
  BY DEF Elsewhere, Grows
<1>4. PairOK(e)'
  BY <1>1, PairFrame
<1> QED BY <1>2, <1>3, <1>4

(* Preparing the run of an arm.                                            *)
LEMMA PrepareKeeps ==
    ASSUME IInv, NEW p \in Procs, NEW m \in Modes, Aside(Prepare(p, m))
    PROVE  IInv'
<1> DEFINE e == job[p].e
<1>1. TypeInv /\ CallInv(p) /\ CreateInv(p) /\ job[p].at = "prepare" /\ job[p] \in Jobs
      /\ UNCHANGED campaign
  BY DEF IInv, TypeInv, Aside, Prepare
<1>2. CASE Stopped(p)
  BY <1>1, <1>2, StoppedKeeps DEF CreationSteps
<1>3. CASE Raise(p, "permanent") /\ UNCHANGED <<durable, holder, todo, build, faults>>
  BY <1>1, <1>3, RaiseKeeps DEF CreationSteps
<1>4. CASE /\ run' = IF run[e][m] = NoRun
                     THEN [run EXCEPT ![e][m] = [status |-> "open", build |-> build[p]]]
                     ELSE run
           /\ Goto(p, "record")
           /\ UNCHANGED <<facts, arms, contract, report, unscored, linked, delivered, parent,
                          holder, todo, build, faults>>
  <2>1. e \in Pairs /\ PairOK(e)
    BY <1>1 DEF IInv, CallInv, AtPair, Creating
  <2>2. JobStep(p) /\ job'[p].at = "record" /\ job'[p].e = job[p].e /\ job'[p].by = job[p].by
    BY <1>1, <1>4, MoveStep DEF AtPair, Creating
  <2>3. ASSUME NEW x, x = e PROVE PairTypes' /\ CallTypes' /\ PairOK(x)' /\ Elsewhere(x) /\ Grows(x)
    <3>1. CASE run[e][m] = NoRun
      <4> DEFINE a == [status |-> "open", build |-> build[p]]
                 r == [run[e] EXCEPT ![m] = a]
      <4>0. build[p] \in Builds
        BY <1>1 DEF TypeInv, CallTypes
      <4>1. a \in [status : Statuses, build : Builds \cup {None}] /\ a.status # "none" /\ a.build # None
        BY <4>0, PairSets DEF Statuses
      <4>2. run[e] \in [Modes -> [status : Statuses, build : Builds \cup {None}]]
        BY <1>1, <2>1 DEF TypeInv, PairTypes
      <4>3. run' = [run EXCEPT ![e] = r]
        BY <1>1, <1>4, <2>1, <3>1 DEF TypeInv, PairTypes
      <4> HIDE DEF a
      <4>4. r \in [Modes -> [status : Statuses, build : Builds \cup {None}]]
        BY <4>1, <4>2
      <4>5. \A n \in Modes : r[n] = IF n = m THEN a ELSE run[e][n]
        BY <4>2
      <4>6. run[e][m].build = None /\ run[e][m].status = "none"
        BY <3>1 DEF NoRun
      <4> HIDE DEF r
      <4>7. \A n \in Modes :
              /\ r[n].status = "none" <=> r[n].build = None
              /\ run[e][n].build # None => r[n].build = run[e][n].build
              /\ run[e][n].status \in Terminal => r[n].status = run[e][n].status
              /\ run[e][n].status \in Closed => r[n].status \in Closed
        BY <2>1, <4>1, <4>5, <4>6 DEF PairOK, Terminal, Closed
      <4> QED BY <1>1, <1>4, <2>1, <2>3, <4>3, <4>4, <4>7, RunWrite
    <3>2. CASE run[e][m] # NoRun
      BY <1>1, <1>4, <2>1, <2>3, <3>2, SameRuns
    <3> QED BY <3>1, <3>2
  <2>4. CallInv(p)'
    BY <1>1, <1>4, <2>2 DEF CallInv, AtPair, Creating, CreationSteps, campaign
  <2>5. CreateInv(p)'
    BY <1>1, <1>4, <2>2 DEF CreateInv, CreationSteps
  <2> QED BY <1>1, <1>4, <2>1, <2>2, <2>3, <2>4, <2>5, SameClaims, PairCallWrite DEF AtPair, Creating
<1> QED BY <1>2, <1>3, <1>4 DEF Aside, Prepare

(* Cancelling arms closes the runs that had not ended and touches no other.*)
LEMMA CancelRuns ==
    ASSUME IInv, NEW e \in Pairs, NEW M, CancelArms(e, M),
           UNCHANGED <<facts, arms, contract, report, unscored, linked, delivered, parent,
                       todo, build, faults, campaign>>
    PROVE  /\ PairTypes' /\ CallTypes' /\ PairOK(e)' /\ Elsewhere(e) /\ Grows(e)
           /\ \A m \in Modes : m \in M /\ run[e][m].status # "none" => run'[e][m].status \in Closed
<1>1. TypeInv /\ PairOK(e) /\ run \in [Pairs -> [Modes -> [status : Statuses, build : Builds \cup {None}]]]
  BY DEF IInv, TypeInv, PairTypes
<1>2. PICK Busy \in SUBSET delivered[e] :
         run' = [run EXCEPT ![e] = [m \in Modes |->
                   IF m \in M /\ @[m].status \in {"open", "cancelling"}
                   THEN [@[m] EXCEPT !.status = IF m \in Busy THEN "cancelling"
                                                              ELSE "cancelled"]
                   ELSE @[m]]]
  BY DEF CancelArms
<1> DEFINE s(m) == IF m \in Busy THEN "cancelling" ELSE "cancelled"
           r == [m \in Modes |-> IF m \in M /\ run[e][m].status \in {"open", "cancelling"}
                                 THEN [run[e][m] EXCEPT !.status = s(m)] ELSE run[e][m]]
<1>3. run' = [run EXCEPT ![e] = r]
  BY <1>1, <1>2
<1>4. \A m \in Modes : s(m) \in {"cancelling", "cancelled"}
  OBVIOUS
<1> HIDE DEF s
<1>5. r \in [Modes -> [status : Statuses, build : Builds \cup {None}]]
  <2>1. ASSUME NEW m \in Modes
        PROVE  r[m] \in [status : Statuses, build : Builds \cup {None}]
    <3>1. run[e][m] \in [status : Statuses, build : Builds \cup {None}]
      BY <1>1
    <3>2. s(m) \in Statuses
      BY <1>4 DEF Statuses
    <3>3. [run[e][m] EXCEPT !.status = s(m)] \in [status : Statuses, build : Builds \cup {None}]
      BY <3>1, <3>2
    <3> QED BY <3>1, <3>3
  <2> QED BY <2>1
<1>6. \A m \in Modes :
              /\ r[m].status = "none" <=> r[m].build = None
              /\ run[e][m].build # None => r[m].build = run[e][m].build
              /\ run[e][m].status \in Terminal => r[m].status = run[e][m].status
              /\ run[e][m].status \in Closed => r[m].status \in Closed
              /\ m \in M /\ run[e][m].status # "none" => r[m].status \in Closed
  <2> TAKE m \in Modes
  <2>1. run[e][m].status \in Statuses
        /\ (run[e][m].status = "none" <=> run[e][m].build = None)
    BY <1>1 DEF PairOK
  <2>2. CASE m \in M /\ run[e][m].status \in {"open", "cancelling"}
    <3>1. r[m].status = s(m) /\ r[m].build = run[e][m].build
      BY <1>1, <2>2
    <3> QED BY <1>4, <2>1, <2>2, <3>1 DEF Terminal, Closed
  <2>3. CASE ~(m \in M /\ run[e][m].status \in {"open", "cancelling"})
    <3>1. r[m] = run[e][m]
      BY <2>3
    <3> QED BY <2>1, <2>3, <3>1 DEF Terminal, Closed, Statuses
  <2> QED BY <2>2, <2>3
<1> HIDE DEF r
<1>7. run'[e] = r
  BY <1>1, <1>3
<1>8. PairTypes' /\ CallTypes' /\ PairOK(e)' /\ Elsewhere(e) /\ Grows(e)
  BY <1>3, <1>5, <1>6, RunWrite
<1> QED BY <1>6, <1>7, <1>8

(* Cancelling the runs of a creation that failed.                          *)
LEMMA CleanupKeeps ==
    ASSUME IInv, NEW p \in Procs, Aside(Cleanup(p))
    PROVE  IInv'
<1> DEFINE e == job[p].e
<1>1. TypeInv /\ CallInv(p) /\ job[p].at = "cleanup" /\ CancelArms(e, job[p].ids) /\ Goto(p, "raised")
      /\ UNCHANGED <<facts, arms, contract, report, unscored, linked, delivered, parent,
                   holder, todo, build, faults, campaign>>
  BY DEF IInv, TypeInv, Aside, Cleanup
<1>2. e \in Pairs
  BY <1>1 DEF IInv, CallInv, AtPair, Creating
<1>3. JobStep(p) /\ job'[p].at = "raised" /\ job'[p].e = job[p].e /\ job'[p].by = job[p].by
  BY <1>1, MoveStep DEF AtPair, Creating
<1>4. ASSUME NEW x, x = e PROVE PairTypes' /\ CallTypes' /\ PairOK(x)' /\ Elsewhere(x) /\ Grows(x)
  BY <1>1, <1>2, <1>4, CancelRuns
<1>5. CallInv(p)'
  BY <1>1, <1>3 DEF CallInv, AtPair, Creating, CreationSteps, campaign
<1>6. CreateInv(p)'
  BY <1>1, NoCreateClaim, NoCreateInv DEF CreationSteps
<1> QED BY <1>1, <1>2, <1>3, <1>4, <1>5, <1>6, SameClaims, PairCallWrite DEF AtPair, Creating

(* The run of an arm ends: it succeeds or fails, or its cancellation does. *)
LEMMA ArmEndKeeps ==
    ASSUME IInv, NEW e \in Pairs, NEW m \in Modes, NEW s \in Terminal,
           run[e][m].status \in {"open", "cancelling"},
           run' = [run EXCEPT ![e][m].status = s],
           UNCHANGED <<facts, arms, contract, report, unscored, linked, delivered, parent,
                       holder, job, todo, build, faults, campaign>>
    PROVE  IInv'
<1> DEFINE a == [run[e][m] EXCEPT !.status = s]
           r == [run[e] EXCEPT ![m] = a]
<1>1. TypeInv /\ PairOK(e) /\ run \in [Pairs -> [Modes -> [status : Statuses, build : Builds \cup {None}]]]
      /\ run[e][m].status \in {"open", "cancelling"} /\ holder' = holder /\ job' = job
  BY DEF IInv, TypeInv, PairTypes
<1>2. run' = [run EXCEPT ![e] = r]
  BY <1>1
<1>3. a \in [status : Statuses, build : Builds \cup {None}] /\ a.status = s /\ a.build = run[e][m].build
  BY <1>1 DEF Statuses, Terminal
<1> HIDE DEF a
<1>4. /\ r \in [Modes -> [status : Statuses, build : Builds \cup {None}]]
      /\ \A n \in Modes : r[n] = IF n = m THEN a ELSE run[e][n]
  BY <1>1, <1>3
<1> HIDE DEF r
<1>5. \A n \in Modes :
              /\ r[n].status = "none" <=> r[n].build = None
              /\ run[e][n].build # None => r[n].build = run[e][n].build
              /\ run[e][n].status \in Terminal => r[n].status = run[e][n].status
              /\ run[e][n].status \in Closed => r[n].status \in Closed
  BY <1>1, <1>3, <1>4 DEF PairOK, Terminal, Closed
<1>6. PairTypes' /\ CallTypes' /\ PairOK(e)' /\ Elsewhere(e) /\ Grows(e)
  BY <1>1, <1>2, <1>4, <1>5, RunWrite
<1>7. JobStep(None) /\ ClaimStep(None)
  BY <1>1, SameClaims DEF JobStep, TypeInv
<1> QED BY <1>1, <1>6, <1>7, PairSets, PairWrite

(* A released run succeeds or fails.                                       *)
LEMMA RunArmKeeps ==
    ASSUME IInv, NEW e \in Pairs, NEW m \in Modes, NEW s \in {"succeeded", "failed"},
           Aside(RunArm(e, m, s))
    PROVE  IInv'
  BY ArmEndKeeps DEF Aside, RunArm, Terminal

(* The cancellation of a run comes to its end.                             *)
LEMMA ArmCancelledKeeps ==
    ASSUME IInv, NEW e \in Pairs, NEW m \in Modes, Aside(ArmCancelled(e, m))
    PROVE  IInv'
  BY ArmEndKeeps DEF Aside, ArmCancelled, Terminal

(* Writing the contract of a pair.                                         *)
LEMMA WriteContractKeeps ==
    ASSUME IInv, NEW p \in Procs, Aside(WriteContract(p))
    PROVE  IInv'
<1> DEFINE e == job[p].e
<1>1. TypeInv /\ CallInv(p) /\ CreateInv(p) /\ job[p].at = "contract" /\ UNCHANGED campaign
  BY DEF IInv, Aside, WriteContract
<1>2. CASE Stopped(p)
  BY <1>1, <1>2, StoppedKeeps DEF CreationSteps
<1>3. CASE Raise(p, "permanent") /\ UNCHANGED <<durable, holder, todo, build, faults>>
  BY <1>1, <1>3, RaiseKeeps DEF CreationSteps
<1>4. CASE /\ Comparable(p, e)
           /\ Record(e, "created")
           /\ contract' = [contract EXCEPT ![e] = run[e]["single"].build]
           /\ Goto(p, "confirm")
           /\ UNCHANGED <<arms, report, unscored, run, linked, delivered, parent,
                          holder, todo, build, faults>>
  <2>1. e \in Pairs /\ PairOK(e)
    BY <1>1 DEF IInv, CallInv, AtPair, Creating
  <2>2. JobStep(p) /\ job'[p].at = "confirm" /\ job'[p].e = e /\ job'[p].by = job[p].by
    BY <1>1, <1>4, MoveStep DEF AtPair, Creating
  <2>3. build[p] \in Builds /\ \A m \in Modes : run[e][m].build = build[p]
    BY <1>1, <1>4 DEF TypeInv, CallTypes, Comparable
  <2>4. contract' = [contract EXCEPT ![e] = build[p]]
    BY <1>4, <2>3 DEF Modes
  <2>5. PairTypes' /\ CallTypes'
    BY <1>1, <1>4, <2>1, <2>3, <2>4 DEF TypeInv, PairTypes, CallTypes, Record
  <2>6. /\ \A x \in Pairs \ {e} : facts'[x] = facts[x] /\ contract'[x] = contract[x]
        /\ facts'[e] = facts[e] \cup {"created"} /\ contract'[e] = build[p]
    BY <1>1, <1>4, <2>1, <2>4 DEF TypeInv, PairTypes, Record
  <2>7. ASSUME NEW x, x = e PROVE Elsewhere(x) /\ Grows(x)
    BY <1>4, <2>6, <2>7 DEF Elsewhere, Grows
  <2>8. ASSUME NEW x, x = e PROVE PairOK(x)'
    <3>1. HasReport(x) => contract[x] = build[p]
      BY <2>1, <2>3, <2>8 DEF PairOK, Modes
    <3>2. Releasable(x) => Releasable(x)'
      BY <1>4, <2>1, <2>6, <2>8 DEF Releasable
    <3> QED BY <1>4, <2>1, <2>3, <2>6, <2>8, <3>1, <3>2 DEF PairOK, HasReport
  <2>9. CallInv(p)'
    BY <1>1, <1>4, <2>1, <2>2, <2>6 DEF CallInv, AtPair, Creating, CreationSteps, campaign
  <2>10. CreateInv(p)'
    BY <1>1, <1>4, <2>1, <2>2, <2>6 DEF CreateInv, CreationSteps
  <2> QED BY <1>1, <1>4, <2>1, <2>2, <2>5, <2>6, <2>7, <2>8, <2>9, <2>10, SameClaims, PairCallWrite
          DEF AtPair, Creating
<1> QED BY <1>2, <1>3, <1>4 DEF Aside, WriteContract

(* Linking the arms of a pair to its contract.                             *)
LEMMA LinkArmsKeeps ==
    ASSUME IInv, NEW p \in Procs, Aside(LinkArms(p))
    PROVE  IInv'
<1> DEFINE e == job[p].e
<1>1. TypeInv /\ CallInv(p) /\ CreateInv(p) /\ job[p].at = "link"
      /\ linked' = [linked EXCEPT ![e] = Modes] /\ Goto(p, "commit")
      /\ UNCHANGED <<facts, arms, contract, report, unscored, run, delivered, parent,
                     holder, todo, build, faults, campaign>>
  BY DEF IInv, Aside, LinkArms
<1>2. e \in Pairs /\ PairOK(e)
  BY <1>1 DEF IInv, CallInv, AtPair, Creating
<1>3. JobStep(p) /\ job'[p].at = "commit" /\ job'[p].e = e /\ job'[p].by = job[p].by
  BY <1>1, MoveStep DEF AtPair, Creating
<1>4. PairTypes' /\ CallTypes'
  BY <1>1, <1>2 DEF TypeInv, PairTypes, CallTypes
<1>5. (\A x \in Pairs \ {e} : linked'[x] = linked[x]) /\ linked'[e] = Modes
  BY <1>1, <1>2 DEF TypeInv, PairTypes
<1>6. ASSUME NEW x, x = e PROVE Elsewhere(x) /\ Grows(x) /\ PairOK(x)'
  BY <1>1, <1>2, <1>5, <1>6 DEF Elsewhere, Grows, PairOK, Releasable, HasReport
<1>7. CallInv(p)'
  BY <1>1, <1>2, <1>3, <1>5 DEF CallInv, AtPair, Creating, CreationSteps, campaign
<1>8. CreateInv(p)'
  BY <1>1, <1>3 DEF CreateInv, CreationSteps
<1> QED BY <1>1, <1>2, <1>3, <1>4, <1>6, <1>7, <1>8, SameClaims, PairCallWrite DEF AtPair, Creating

(* Committing a created pair.                                              *)
LEMMA CommitKeeps ==
    ASSUME IInv, NEW p \in Procs, Aside(Commit(p))
    PROVE  IInv'
<1> DEFINE e == job[p].e
           at == IF e \in Solo THEN "release" ELSE "returned"
<1>1. TypeInv /\ CallInv(p) /\ CreateInv(p) /\ job[p].at = "commit" /\ UNCHANGED campaign
  BY DEF IInv, Aside, Commit
<1>2. CASE Raise(p, "permanent") /\ UNCHANGED <<durable, holder, todo, build, faults>>
  BY <1>1, <1>2, RaiseKeeps DEF CreationSteps
<1>3. CASE /\ Record(e, "committed") /\ Drop(p, {CreateKey(e)})
           /\ job' = [job EXCEPT ![p].m = "single", ![p].at = at]
           /\ UNCHANGED <<arms, contract, report, unscored, run, linked, delivered, parent,
                          todo, build, faults>>
  <2>1. e \in Pairs /\ PairOK(e) /\ linked[e] = Modes /\ {"requested", "created"} \subseteq facts[e]
    BY <1>1 DEF IInv, CallInv, AtPair, Creating, CreationSteps
  <2>2. at \in {"release", "returned"} /\ (at = "release" => e \in Solo)
    OBVIOUS
  <2>3. job' = [job EXCEPT ![p].m = "single", ![p].at = at]
    BY <1>3
  <2> HIDE DEF at
  <2>4. JobStep(p) /\ job'[p].at = at /\ job'[p].e = e /\ job'[p].by = job[p].by
    BY <1>1, <2>2, <2>3, ModeStep DEF AtPair, Creating, Modes
  <2>5. ClaimStep(p) /\ holder'[AdvanceKey] = holder[AdvanceKey] /\ CreateInv(p)'
    BY <1>3, <2>1, DropCreate, NoCreateInv
  <2>6. PairTypes' /\ CallTypes'
    BY <1>1, <1>3, <2>1 DEF TypeInv, PairTypes, CallTypes, Record
  <2>7. /\ \A x \in Pairs \ {e} : facts'[x] = facts[x]
        /\ facts'[e] = facts[e] \cup {"committed"}
    BY <1>1, <1>3, <2>1 DEF TypeInv, PairTypes, Record
  <2>8. ASSUME NEW x, x = e PROVE Elsewhere(x) /\ Grows(x) /\ PairOK(x)'
    BY <1>3, <2>1, <2>7, <2>8 DEF Elsewhere, Grows, PairOK, Releasable, HasReport
  <2>9. CallInv(p)'
    <3>1. e \in Solo => \A x : x = e => Releasable(x)'
      BY <2>1, <2>7, PairSets DEF Releasable
    <3> QED BY <1>1, <2>1, <2>2, <2>4, <3>1 DEF CallInv, AtPair, Creating, CreationSteps, campaign
  <2> QED BY <1>1, <1>3, <2>1, <2>2, <2>4, <2>5, <2>6, <2>7, <2>8, <2>9, PairCallWrite
          DEF AtPair, Creating
<1> QED BY <1>2, <1>3 DEF Aside, Commit

(* A broken creation records the failure of its pair under its claim.      *)
LEMMA CreationBrokenKeeps ==
    ASSUME IInv, NEW p \in Procs, Aside(CreationBroken(p))
    PROVE  IInv'
<1> DEFINE e == job[p].e
<1>1. TypeInv /\ CallInv(p) /\ CreateInv(p) /\ job[p].at = "broken" /\ Drop(p, {CreateKey(e)})
      /\ UNCHANGED <<arms, contract, report, unscored, run, linked, delivered, parent,
                     todo, build, faults, campaign>>
  BY DEF IInv, Aside, CreationBroken
<1>2. e \in Pairs /\ PairOK(e)
  BY <1>1 DEF IInv, CallInv, AtPair, Creating
<1>3. ClaimStep(p) /\ holder'[AdvanceKey] = holder[AdvanceKey] /\ CreateInv(p)'
  BY <1>1, <1>2, DropCreate, NoCreateInv
<1>4. CASE Holds(p, {CreateKey(e)}) /\ Record(e, "failed") /\ Goto(p, "cleanup")
  <2>1. JobStep(p) /\ job'[p].at = "cleanup" /\ job'[p].e = e /\ job'[p].by = job[p].by
    BY <1>1, <1>4, MoveStep DEF AtPair, Creating
  <2>2. PairTypes' /\ CallTypes'
    BY <1>1, <1>2, <1>4 DEF TypeInv, PairTypes, CallTypes, Record
  <2>3. /\ \A x \in Pairs \ {e} : facts'[x] = facts[x]
        /\ facts'[e] = facts[e] \cup {"failed"}
    BY <1>1, <1>2, <1>4 DEF TypeInv, PairTypes, Record
  <2>4. ASSUME NEW x, x = e PROVE Elsewhere(x) /\ Grows(x) /\ PairOK(x)'
    BY <1>1, <1>2, <2>3, <2>4 DEF Elsewhere, Grows, PairOK, Releasable, HasReport
  <2>5. CallInv(p)'
    BY <1>1, <2>1 DEF CallInv, AtPair, Creating, CreationSteps, campaign
  <2>6. holder[CreateKey(e)] = p
    BY <1>4 DEF Holds
  <2> QED BY <1>1, <1>2, <1>3, <2>1, <2>2, <2>4, <2>5, <2>6, PairCallWrite DEF AtPair, Creating
<1>5. CASE facts' = facts /\ Goto(p, "raised")
  <2>1. JobStep(p) /\ job'[p].at = "raised" /\ job'[p].e = e /\ job'[p].by = job[p].by
    BY <1>1, <1>5, MoveStep DEF AtPair, Creating
  <2>2. CallInv(p)'
    BY <1>1, <2>1 DEF CallInv, AtPair, Creating, CreationSteps, campaign
  <2>3. ASSUME NEW x, x = e PROVE PairTypes' /\ CallTypes' /\ PairOK(x)' /\ Elsewhere(x) /\ Grows(x)
    BY <1>1, <1>2, <1>5, <2>3, SameRuns
  <2> QED BY <1>1, <1>2, <1>3, <1>5, <2>1, <2>2, <2>3, PairCallWrite DEF AtPair, Creating
<1> QED BY <1>4, <1>5 DEF Aside, CreationBroken

(* Delivering an arm of a releasable pair.                                 *)
LEMMA Delivery ==
    ASSUME IInv, NEW e \in Pairs, NEW m \in Modes, Releasable(e),
           delivered' = [delivered EXCEPT ![e] = @ \cup {m}],
           UNCHANGED <<facts, arms, contract, report, unscored, run, linked, parent,
                       todo, build, faults, campaign>>
    PROVE  /\ PairTypes' /\ CallTypes' /\ PairOK(e)' /\ Elsewhere(e) /\ Grows(e)
<1>1. TypeInv /\ PairOK(e)
  BY DEF IInv
<1>2. PairTypes' /\ CallTypes'
  BY <1>1 DEF TypeInv, PairTypes, CallTypes
<1>3. \A x \in Pairs \ {e} : delivered'[x] = delivered[x]
  BY <1>1 DEF TypeInv, PairTypes
<1>4. Elsewhere(e) /\ Grows(e)
  BY <1>3 DEF Elsewhere, Grows
<1>5. PairOK(e)'
  BY <1>1 DEF PairOK, Releasable, HasReport
<1> QED BY <1>2, <1>4, <1>5

(* Delivering the arm a release has reached.                               *)
LEMMA DeliverArmKeeps ==
    ASSUME IInv, NEW p \in Procs, Aside(DeliverArm(p))
    PROVE  IInv'
<1> DEFINE e == job[p].e
           m == job[p].m
           at == IF m = "single" THEN "release" ELSE "returned"
<1>1. TypeInv /\ CallInv(p) /\ job[p].at = "release" /\ job[p] \in Jobs
      /\ UNCHANGED <<facts, arms, contract, report, unscored, run, linked, parent,
                     holder, todo, build, faults, campaign>>
  BY DEF IInv, TypeInv, Aside, DeliverArm
<1>2. e \in Pairs /\ m \in Modes /\ Releasable(e)
  BY <1>1 DEF CallInv, AtPair, Creating, Jobs
<1>3. \A x : Releasable(x) => Releasable(x)'
  BY <1>1 DEF Releasable
<1>4. CreateInv(p)'
  BY <1>1, NoCreateClaim, NoCreateInv DEF CreationSteps
<1>5. job[p].by = "advance" => e \in Trials /\ "started" \in trial[e]
  BY <1>1, <1>2 DEF CallInv, AtPair, Releasable, IInv, TrialOK
<1>6. CASE delivered' = delivered /\ job' = [job EXCEPT ![p].m = "team", ![p].at = at]
  <2>1. at \in {"release", "returned"}
    OBVIOUS
  <2>2. job' = [job EXCEPT ![p].m = "team", ![p].at = at]
    BY <1>6
  <2> HIDE DEF at
  <2>3. JobStep(p) /\ job'[p].at = at /\ job'[p].e = e /\ job'[p].by = job[p].by
    BY <1>1, <2>1, <2>2, ModeStep DEF AtPair, Creating, Modes
  <2>4. CallInv(p)'
    BY <1>1, <1>2, <1>3, <1>5, <2>1, <2>3 DEF CallInv, AtPair, Creating, CreationSteps, campaign
  <2>5. ASSUME NEW x, x = e PROVE PairTypes' /\ CallTypes' /\ PairOK(x)' /\ Elsewhere(x) /\ Grows(x)
    BY <1>1, <1>2, <1>6, <2>5, SameRuns
  <2> QED BY <1>1, <1>2, <1>4, <2>1, <2>3, <2>4, <2>5, SameClaims, PairCallWrite DEF AtPair, Creating
<1>7. CASE delivered' = [delivered EXCEPT ![e] = @ \cup {m}] /\ Goto(p, "released")
  <2>1. JobStep(p) /\ job'[p].at = "released" /\ job'[p].e = e /\ job'[p].by = job[p].by
    BY <1>1, <1>7, MoveStep DEF AtPair, Creating
  <2>2. CallInv(p)'
    BY <1>1, <1>2, <1>3, <1>5, <2>1 DEF CallInv, AtPair, Creating, CreationSteps, campaign
  <2>3. ASSUME NEW x, x = e PROVE PairTypes' /\ CallTypes' /\ PairOK(x)' /\ Elsewhere(x) /\ Grows(x)
    BY <1>1, <1>2, <1>7, <2>3, Delivery
  <2> QED BY <1>1, <1>2, <1>4, <2>1, <2>2, <2>3, SameClaims, PairCallWrite DEF AtPair, Creating
<1> QED BY <1>6, <1>7 DEF Aside, DeliverArm

(* Delivering an arm again that recovery finds released and held.          *)
LEMMA RouteHeldKeeps ==
    ASSUME IInv, NEW e \in Pairs, Aside(RouteHeld(e))
    PROVE  IInv'
<1>1. TypeInv /\ PairOK(e) /\ holder' = holder /\ job' = job /\ <<"released", "single">> \in arms[e]
      /\ delivered' = [delivered EXCEPT ![e] = @ \cup {"single"}]
      /\ UNCHANGED <<facts, arms, contract, report, unscored, run, linked, parent,
                     todo, build, faults, campaign>>
  BY DEF IInv, Aside, RouteHeld
<1>2. Releasable(e) /\ "single" \in Modes
  BY <1>1 DEF PairOK, Modes
<1>3. PairTypes' /\ CallTypes' /\ PairOK(e)' /\ Elsewhere(e) /\ Grows(e)
  BY <1>1, <1>2, Delivery
<1>4. JobStep(None) /\ ClaimStep(None)
  BY <1>1, SameClaims DEF JobStep, TypeInv
<1> QED BY <1>1, <1>3, <1>4, PairSets, PairWrite

(* The end of a scoring call: the thread is idle, the pair has a report or *)
(* one failure more.                                                       *)
LEMMA ScoreEnds ==
    ASSUME IInv, NEW p \in Procs, job[p].at = "score", Drop(p, {ScoreKey(job[p].e)}),
           Become(p, Idle), job[p].e \in Pairs
    PROVE  /\ JobStep(p) /\ ClaimStep(p) /\ holder'[AdvanceKey] = holder[AdvanceKey]
           /\ CallInv(p)' /\ CreateInv(p)' /\ AdvanceInv(p)'
<1> DEFINE K == {ScoreKey(job[p].e)}
<1>1. TypeInv
  BY DEF IInv
<1>2. JobStep(p) /\ job'[p] = Idle
  BY <1>1, BecomeStep, IdleJob
<1>3. CallInv(p)' /\ AdvanceInv(p)'
  BY <1>2, Landing DEF Idle, Outside
<1>4. ClaimStep(p) /\ \A k \in Keys : holder'[k] = IF k \in K /\ holder[k] = p THEN None ELSE holder[k]
  BY <1>1, DropStep
<1>5. holder'[AdvanceKey] = holder[AdvanceKey]
  BY <1>4, KeyFacts
<1>6. \A x \in Pairs : holder'[CreateKey(x)] # p
  BY <1>4, KeyFacts, NoCreateClaim DEF CreationSteps
<1> QED BY <1>2, <1>3, <1>4, <1>5, <1>6, NoCreateInv

(* A failed scoring is counted within the type of the counters.            *)
LEMMA NotScoredTypes ==
    ASSUME TypeInv, NEW p \in Procs, job[p].e \in Pairs, NotScored(p)
    PROVE  unscored' \in [Pairs -> [Builds -> Nat]]
<1> DEFINE n == job[p].n + 1
           e == job[p].e
           b == build[p]
<1>1. n \in Nat /\ b \in Builds /\ unscored \in [Pairs -> [Builds -> Nat]]
  BY DEF TypeInv, Jobs, CallTypes, PairTypes
<1>2. unscored' = unscored \/ unscored' = [unscored EXCEPT ![e][b] = n]
  BY DEF NotScored
<1> HIDE DEF n, b, e
<1>3. [unscored EXCEPT ![e][b] = n] \in [Pairs -> [Builds -> Nat]]
  BY <1>1
<1> QED BY <1>1, <1>2, <1>3

(* Scoring a pair.                                                         *)
LEMMA FinalizeKeeps ==
    ASSUME IInv, NEW p \in Procs, Aside(Finalize(p))
    PROVE  IInv'
<1> DEFINE e == job[p].e
           s == Score(p, e)
<1>1. TypeInv /\ CallInv(p) /\ job[p].at = "score" /\ Drop(p, {ScoreKey(e)}) /\ Become(p, Idle)
      /\ UNCHANGED <<facts, arms, contract, run, linked, delivered, parent, todo, build, faults, campaign>>
  BY DEF IInv, Aside, Finalize
<1>1a. \/ report' = [report EXCEPT ![e] = s] /\ report[e] \in {NoReport, s} /\ unscored' = unscored
       \/ report' = report /\ NotScored(p)
  BY DEF Aside, Finalize
<1>2. /\ e \in Pairs /\ PairOK(e) /\ "created" \in facts[e]
      /\ \A m \in Modes : run[e][m].status \in Terminal
  BY <1>1 DEF IInv, CallInv, AtPair
<1>3. /\ JobStep(p) /\ ClaimStep(p) /\ holder'[AdvanceKey] = holder[AdvanceKey]
      /\ CallInv(p)' /\ CreateInv(p)' /\ AdvanceInv(p)'
  BY <1>1, <1>2, ScoreEnds
<1>4. unscored' \in [Pairs -> [Builds -> Nat]]
  BY <1>1, <1>1a, <1>2, NotScoredTypes DEF TypeInv, PairTypes
<1>5. /\ s \in [valid : BOOLEAN, by : Builds \cup {None}, single : Statuses, team : Statuses]
      /\ s.single = run[e]["single"].status /\ s.team = run[e]["team"].status
      /\ s.valid => s.by = contract[e]
  <2>1. build[p] \in Builds /\ run[e] \in [Modes -> [status : Statuses, build : Builds \cup {None}]]
    BY <1>1, <1>2 DEF TypeInv, PairTypes, CallTypes
  <2> QED BY <2>1 DEF Score, Modes
<1>6. /\ \A x \in Pairs \ {e} : report'[x] = report[x]
      /\ report'[e] \in {report[e], s}
      /\ HasReport(e) => report'[e] = report[e]
      /\ report' \in [Pairs -> [valid : BOOLEAN, by : Builds \cup {None}, single : Statuses, team : Statuses]]
  <2> HIDE DEF s
  <2>1. report \in [Pairs -> [valid : BOOLEAN, by : Builds \cup {None}, single : Statuses, team : Statuses]]
    BY <1>1 DEF TypeInv, PairTypes
  <2> QED BY <1>1a, <1>2, <1>5, <2>1 DEF HasReport
<1>7. PairTypes' /\ CallTypes'
  BY <1>1, <1>4, <1>6 DEF TypeInv, PairTypes, CallTypes
<1> HIDE DEF s
<1>8. ASSUME NEW x, x = e PROVE Elsewhere(x) /\ Grows(x)
  BY <1>1, <1>6, <1>8 DEF Elsewhere, Grows
<1>9. ASSUME NEW x, x = e PROVE PairOK(x)'
  <2>1. Releasable(x) => Releasable(x)'
    BY <1>1 DEF Releasable
  <2> QED BY <1>1, <1>2, <1>5, <1>6, <1>9, <2>1 DEF PairOK, HasReport
<1> QED BY <1>1, <1>2, <1>3, <1>7, <1>8, <1>9, PairWrite

(* A scoring that fails is counted.                                        *)
LEMMA FinalizeErrorKeeps ==
    ASSUME IInv, NEW p \in Procs, Aside(FinalizeError(p))
    PROVE  IInv'
<1> DEFINE e == job[p].e
<1>1. TypeInv /\ CallInv(p) /\ job[p].at = "score" /\ Drop(p, {ScoreKey(e)}) /\ Become(p, Idle)
      /\ UNCHANGED <<facts, arms, contract, report, run, linked, delivered, parent, todo, build, campaign>>
      /\ NotScored(p) /\ faults < MaxFaults /\ faults' = faults + 1
  BY DEF IInv, Aside, FinalizeError, Fault
<1>2. e \in Pairs /\ PairOK(e)
  BY <1>1 DEF IInv, CallInv, AtPair
<1>3. /\ JobStep(p) /\ ClaimStep(p) /\ holder'[AdvanceKey] = holder[AdvanceKey]
      /\ CallInv(p)' /\ CreateInv(p)' /\ AdvanceInv(p)'
  BY <1>1, <1>2, ScoreEnds
<1>4. unscored' \in [Pairs -> [Builds -> Nat]]
  BY <1>1, <1>2, NotScoredTypes DEF TypeInv, PairTypes
<1>5. PairTypes' /\ CallTypes'
  BY <1>1, <1>4, PairConstants DEF TypeInv, PairTypes, CallTypes
<1>6. ASSUME NEW x, x = e PROVE Elsewhere(x) /\ Grows(x) /\ PairOK(x)'
  BY <1>1, <1>2, <1>6, PairFrame DEF Elsewhere, Grows
<1> QED BY <1>1, <1>2, <1>3, <1>5, <1>6, PairWrite

-----------------------------------------------------------------------------
(* The steps of the campaign that write to its log.                        *)
LEMMA CampaignLanding ==
    ASSUME IInv, UNCHANGED <<durable, todo, build, faults, trial, ends, verdict>>, CampaignTypes',
           NEW p \in Procs, JobStep(p), ClaimStep(p),
           CallInv(p)', CreateInv(p)', AdvanceInv(p)',
           holder'[AdvanceKey] \in {None, holder[AdvanceKey]}
    PROVE  IInv'
<1>1. TypeInv'
  BY DEF IInv, TypeInv, PairTypes, CallTypes, JobStep, ClaimStep, durable
<1>2. Mono /\ Fenced(p)
  BY DEF Mono, Fenced, durable
<1>3. \A e \in Pairs : PairOK(e)'
  BY PairFrame DEF IInv, durable
<1>4. \A t \in Trials : TrialOK(t)'
  BY <1>2, TrialFrame DEF IInv, durable
<1>5. VerdictInv' /\ EndInv'
  BY <1>2, VerdictFrame, EndFrame, PairSets DEF IInv
<1>6. \A q \in Procs : CallInv(q)' /\ CreateInv(q)' /\ AdvanceInv(q)'
  BY <1>1, <1>2, OtherCall, OtherCreate, OtherAdvance DEF JobStep
<1> QED BY <1>1, <1>3, <1>4, <1>5, <1>6 DEF IInv

(* Recording the request of a campaign.                                    *)
LEMMA RequestCampaignKeeps ==
    ASSUME IInv, NEW p \in Procs, RequestCampaign(p)
    PROVE  IInv'
<1>1. TypeInv /\ job[p].at = "register" /\ Goto(p, "found") /\ holder' = holder
      /\ UNCHANGED <<durable, todo, build, faults, trial, ends, verdict>>
  BY DEF IInv, RequestCampaign
<1>2. CampaignTypes'
  BY DEF IInv, TypeInv, CampaignTypes, RequestCampaign
<1>3. JobStep(p) /\ job'[p] = [job[p] EXCEPT !.at = "found"] /\ job[p] \in Jobs
  BY <1>1, GotoStep DEF Outside, TypeInv
<1>4. job'[p].at = "found"
  BY <1>3 DEF Jobs
<1>5. CallInv(p)' /\ AdvanceInv(p)'
  BY <1>4, Landing DEF Outside
<1>6. CreateInv(p)'
  BY <1>1, NoCreateClaim, NoCreateInv DEF CreationSteps
<1> QED BY <1>1, <1>2, <1>3, <1>5, <1>6, SameClaims, CampaignLanding

(* A call outside a creation ends and frees its claims.                    *)
LEMMA IdleLanding ==
    ASSUME IInv, NEW p \in Procs, NEW K \in SUBSET Keys, Drop(p, K), Become(p, Idle),
           job[p].at \notin CreationSteps \cup {"broken"}
    PROVE  /\ JobStep(p) /\ ClaimStep(p) /\ holder'[AdvanceKey] \in {None, holder[AdvanceKey]}
           /\ CallInv(p)' /\ CreateInv(p)' /\ AdvanceInv(p)'
<1>1. TypeInv
  BY DEF IInv
<1>2. JobStep(p) /\ job'[p] = Idle
  BY <1>1, BecomeStep, IdleJob
<1>3. CallInv(p)' /\ AdvanceInv(p)'
  BY <1>2, Landing DEF Idle, Outside
<1> QED BY <1>2, <1>3, DropOther, NoCreateInv

(* Registering a campaign.                                                 *)
LEMMA FoundCampaignKeeps ==
    ASSUME IInv, NEW p \in Procs, FoundCampaign(p)
    PROVE  IInv'
<1>1. job[p].at = "found" /\ Drop(p, {CampaignKey}) /\ Become(p, Idle)
      /\ UNCHANGED <<durable, todo, build, faults, trial, ends, verdict>>
  BY DEF IInv, FoundCampaign
<1>2. CampaignTypes'
  BY DEF IInv, TypeInv, CampaignTypes, FoundCampaign
<1>3. /\ JobStep(p) /\ ClaimStep(p) /\ holder'[AdvanceKey] \in {None, holder[AdvanceKey]}
      /\ CallInv(p)' /\ CreateInv(p)' /\ AdvanceInv(p)'
  BY <1>1, IdleLanding, KeyFacts DEF CreationSteps
<1> QED BY <1>1, <1>2, <1>3, CampaignLanding

(* Binding the scope of a campaign to the first pair created.              *)
LEMMA BindScopeKeeps ==
    ASSUME IInv, NEW p \in Procs, BindScope(p)
    PROVE  IInv'
<1> DEFINE e == job[p].e
<1>1. TypeInv /\ CallInv(p) /\ job[p].at = "returned" /\ job[p].by = "advance"
      /\ e \notin With("linked") /\ holder' = holder
      /\ UNCHANGED <<durable, todo, build, faults, trial, ends, verdict>>
      /\ job' = IF Agrees(e) THEN [job EXCEPT ![p].at = "bound"]
                ELSE [job EXCEPT ![p].at = "raised", ![p].err = "permanent"]
  BY DEF IInv, BindScope
<1>2. e \in Trials /\ e \in Pairs /\ PairOK(e)
  BY <1>1, PairSets DEF CallInv, AtPair, IInv
<1>3. CampaignTypes'
  BY <1>1, <1>2 DEF TypeInv, PairTypes, CampaignTypes, BindScope
<1>4. JobStep(p) /\ job'[p].e = e /\ job'[p].by = "advance" /\ job'[p].at \in {"bound", "raised"}
      /\ (job'[p].at = "bound" => Agrees(e))
  <2>1. CASE Agrees(e)
    <3>1. Goto(p, "bound")
      BY <1>1, <2>1 DEF Goto
    <3> QED BY <1>1, <2>1, <3>1, MoveStep DEF AtPair, Creating
  <2>2. CASE ~Agrees(e)
    BY <1>1, <2>2, RaiseStep
  <2> QED BY <2>1, <2>2
<1>5. CallInv(p)'
  <2>1. Agrees(e) => "created" \in facts[e]
    BY <1>2 DEF Agrees, PairOK
  <2> QED BY <1>1, <1>2, <1>4, <2>1 DEF CallInv, AtPair, Creating, CreationSteps, durable
<1>6. AdvanceInv(p)'
  <2>1. "linked" \notin trial[e]
    BY <1>1, <1>2 DEF With
  <2>2. holder[AdvanceKey] = p => "failed" \notin trial[e]
    BY <1>1 DEF IInv, AdvanceInv
  <2> QED BY <1>1, <1>4, <2>1, <2>2 DEF AdvanceInv, Creating
<1>7. CreateInv(p)'
  BY <1>1, NoCreateClaim, NoCreateInv DEF CreationSteps
<1> QED BY <1>1, <1>3, <1>4, <1>5, <1>6, <1>7, SameClaims, CampaignLanding

(* A fact about a trial, written by the holder of the advance claim.       *)
LEMMA TrialWrite ==
    ASSUME IInv, NEW p \in Procs, NEW e \in Trials, holder[AdvanceKey] = p,
           NEW fact \in {"started", "linked", "released", "observed", "failed"},
           trial' = [trial EXCEPT ![e] = @ \cup {fact}],
           parent' = IF fact = "linked" THEN parent \cup {e} ELSE parent,
           UNCHANGED <<facts, arms, contract, report, unscored, run, linked, delivered,
                       todo, build, faults, stage, scope, ends, verdict>>,
           retries' = retries, JobStep(p), ClaimStep(p),
           holder'[AdvanceKey] \in {None, holder[AdvanceKey]},
           CallInv(p)', CreateInv(p)', AdvanceInv(p)',
           fact = "observed" => "linked" \in trial[e] /\ HasReport(e),
           fact = "failed" => "linked" \notin trial[e],
           fact = "linked" => /\ "started" \in trial[e] /\ "failed" \notin trial[e]
                              /\ "created" \in facts[e] /\ ends = {},
           fact # "started" => "started" \in trial[e],
           fact = "started" => Cardinality(Active) < MaxParallel
    PROVE  IInv'
<1>1. TypeInv /\ e \in Pairs /\ EndInv
  BY PairSets DEF IInv
<1>2. /\ \A t \in Trials \ {e} : trial'[t] = trial[t]
      /\ trial'[e] = trial[e] \cup {fact}
      /\ trial' \in [Trials -> SUBSET {"started", "linked", "released", "observed", "failed"}]
  BY <1>1 DEF TypeInv, CampaignTypes
<1>3. parent \subseteq parent' /\ parent' \subseteq Trials /\ \A t \in Trials \ {e} : t \in parent' => t \in parent
  BY <1>1 DEF TypeInv, PairTypes
<1>4. TypeInv'
  BY <1>1, <1>2, <1>3 DEF TypeInv, PairTypes, CallTypes, CampaignTypes, JobStep, ClaimStep
<1>5. Mono
  BY <1>2, <1>3 DEF Mono
<1>6. Fenced(p)
  BY DEF Fenced
<1>7. \A x \in Pairs : PairOK(x)'
  BY <1>3, PairFrame DEF IInv
<1>8. \A t \in Trials : TrialOK(t)'
  <2>1. \A t \in Trials \ {e} : TrialOK(t)'
    BY <1>2, <1>3, <1>5, TrialFrame DEF IInv
  <2>2. TrialOK(e)'
    <3>1. TrialOK(e)
      BY DEF IInv
    <3> QED BY <1>2, <3>1 DEF TrialOK, HasReport
  <2> QED BY <2>1, <2>2
<1>9. VerdictInv'
  BY <1>5, VerdictFrame DEF IInv
<1>10. EndInv'
  <2>1. Counted = Trials => Counted' = Trials
    BY <1>5 DEF Mono, Counted, With
  <2>2. ends' # {} => \A t \in With("linked")' : \A m \in Modes : run'[t][m].status \in Closed
    <3>1. ends' # {} => With("linked")' \subseteq With("linked")
      BY <1>2 DEF With
    <3> QED BY <1>1, <3>1 DEF EndInv
  <2>3. Cardinality(Active)' <= MaxParallel
    <3>1. IsFiniteSet(Active) /\ Cardinality(Active) \in Nat /\ MaxParallel \in Nat
      <4>1. IsFiniteSet(Trials)
        BY PairConstants, FS_Subset DEF Pairs
      <4>2. Active \subseteq Trials
        BY DEF Active, With
      <4> QED BY <4>1, <4>2, FS_Subset, FS_CardinalityType, MaxParallelNat
    <3>2. CASE fact = "started"
      <4>1. Active' \subseteq Active \cup {e}
        BY <1>2, <3>2 DEF Active, With
      <4>2. IsFiniteSet(Active \cup {e}) /\ Cardinality(Active \cup {e}) <= Cardinality(Active) + 1
            /\ Cardinality(Active \cup {e}) \in Nat
        <5>1. /\ IsFiniteSet(Active \cup {e})
              /\ Cardinality(Active \cup {e}) = IF e \in Active THEN Cardinality(Active)
                                                 ELSE Cardinality(Active) + 1
          BY <3>1, FS_AddElement
        <5> QED BY <3>1, <5>1, FS_CardinalityType
      <4>3. Cardinality(Active') <= Cardinality(Active \cup {e}) /\ Cardinality(Active') \in Nat
        BY <4>1, <4>2, FS_Subset, FS_CardinalityType
      <4>4. Cardinality(Active) < MaxParallel
        BY <3>2
      <4>5. Cardinality(Active') <= MaxParallel
        BY <3>1, <4>2, <4>3, <4>4
      <4> QED BY <4>5
    <3>3. CASE fact # "started"
      <4>1. Active' \subseteq Active
        BY <1>2, <3>3 DEF Active, With
      <4>2. Cardinality(Active') <= Cardinality(Active) /\ Cardinality(Active') \in Nat
        BY <3>1, <4>1, FS_Subset, FS_CardinalityType
      <4>3. Cardinality(Active) <= MaxParallel
        BY <1>1 DEF EndInv
      <4>4. Cardinality(Active') <= MaxParallel
        BY <3>1, <4>2, <4>3
      <4> QED BY <4>4
    <3> QED BY <3>2, <3>3
  <2>4. "cancelled" \in ends' => holder'[AdvanceKey] \notin Procs
    BY <1>1 DEF EndInv
  <2> QED BY <1>1, <2>1, <2>2, <2>3, <2>4 DEF EndInv
<1>11. \A q \in Procs : CallInv(q)' /\ CreateInv(q)' /\ AdvanceInv(q)'
  BY <1>4, <1>5, <1>6, OtherCall, OtherCreate, OtherAdvance DEF JobStep
<1> QED BY <1>4, <1>7, <1>8, <1>9, <1>10, <1>11 DEF IInv

(* An advance records a fact of its trial under its claim and ends.        *)
LEMMA AdvanceFactKeeps ==
    ASSUME IInv, NEW p \in Procs, job[p].e \in Trials,
           NEW fact \in {"started", "linked", "released", "observed", "failed"},
           AdvanceFact(p, fact),
           job[p].at \notin CreationSteps \cup {"broken"},
           UNCHANGED <<facts, arms, contract, report, unscored, run, linked, delivered,
                       todo, build, faults, stage, retries, scope, ends, verdict>>,
           fact = "observed" => "linked" \in trial[job[p].e] /\ HasReport(job[p].e),
           fact = "linked" => "created" \in facts[job[p].e],
           fact # "started" => "started" \in trial[job[p].e],
           holder[AdvanceKey] = p =>
              /\ fact = "failed" => "linked" \notin trial[job[p].e]
              /\ fact = "linked" => trial[job[p].e] \cap {"linked", "failed"} = {}
              /\ fact = "started" => Cardinality(Active) < MaxParallel
    PROVE  IInv'
<1> DEFINE e == job[p].e
<1>1. /\ JobStep(p) /\ ClaimStep(p) /\ holder'[AdvanceKey] \in {None, holder[AdvanceKey]}
      /\ CallInv(p)' /\ CreateInv(p)' /\ AdvanceInv(p)'
  BY IdleLanding, KeyFacts DEF AdvanceFact
<1>2. CASE holder[AdvanceKey] = p
  <2>1. /\ trial' = [trial EXCEPT ![e] = @ \cup {fact}]
        /\ parent' = IF fact = "linked" THEN parent \cup {e} ELSE parent
    BY <1>2 DEF AdvanceFact, Holds, Write
  <2>2. fact = "linked" => ends = {}
    <3> SUFFICES ASSUME fact = "linked", ends # {} PROVE FALSE
      OBVIOUS
    <3>1. EndInv /\ TrialOK(e)
      BY DEF IInv
    <3>2. CASE "cancelled" \in ends
      BY <1>2, <3>1, <3>2 DEF EndInv
    <3>3. CASE "completed" \in ends
      BY <1>2, <3>1, <3>3 DEF EndInv, Counted, With, TrialOK
    <3> QED BY <3>1, <3>2, <3>3 DEF EndInv
  <2>3. ASSUME NEW x \in Trials, x = e PROVE IInv'
    BY <1>1, <1>2, <2>1, <2>2, <2>3, TrialWrite
  <2> QED BY <2>3
<1>3. CASE holder[AdvanceKey] # p
  <2>1. trial' = trial /\ parent' = parent
    BY <1>3 DEF AdvanceFact, Holds
  <2>2. UNCHANGED durable /\ CampaignTypes'
    BY <2>1 DEF durable, IInv, TypeInv, CampaignTypes
  <2> QED BY <1>1, <2>1, <2>2, CampaignLanding
<1> QED BY <1>2, <1>3

(* Recording that a trial starts.                                          *)
LEMMA StartTrialKeeps ==
    ASSUME IInv, NEW p \in Procs, StartTrial(p)
    PROVE  IInv'
<1>1. CallInv(p) /\ AdvanceInv(p) /\ job[p].at = "start"
  BY DEF IInv, StartTrial
<1>2. job[p].e \in Trials
  BY <1>1 DEF CallInv, AtPair
<1>3. holder[AdvanceKey] = p => Cardinality(Active) < MaxParallel
  BY <1>1 DEF AdvanceInv
<1> QED BY <1>1, <1>2, <1>3, AdvanceFactKeeps DEF StartTrial, CreationSteps

(* Recording the observation of a scored trial.                            *)
LEMMA ObserveTrialKeeps ==
    ASSUME IInv, NEW p \in Procs, ObserveTrial(p)
    PROVE  IInv'
<1> DEFINE e == job[p].e
<1>1. CallInv(p) /\ job[p].at = "observe"
  BY DEF IInv, ObserveTrial
<1>2. e \in Trials /\ "linked" \in trial[e] /\ HasReport(e)
  BY <1>1 DEF CallInv, AtPair
<1>3. "started" \in trial[e]
  BY <1>2 DEF IInv, TrialOK
<1> QED BY <1>1, <1>2, <1>3, AdvanceFactKeeps DEF ObserveTrial, CreationSteps

(* Recording the release of a trial.                                       *)
LEMMA ReleaseTrialKeeps ==
    ASSUME IInv, NEW p \in Procs, ReleaseTrial(p)
    PROVE  IInv'
<1> DEFINE e == job[p].e
<1>1. CallInv(p) /\ job[p].at = "returned" /\ job[p].by = "advance"
  BY DEF IInv, ReleaseTrial
<1>2. e \in Trials /\ "started" \in trial[e]
  BY <1>1 DEF CallInv, AtPair
<1> QED BY <1>1, <1>2, AdvanceFactKeeps DEF ReleaseTrial, CreationSteps

(* Linking a trial to its pair.                                            *)
LEMMA LinkTrialKeeps ==
    ASSUME IInv, NEW p \in Procs, LinkTrial(p)
    PROVE  IInv'
<1> DEFINE e == job[p].e
<1>1. CallInv(p) /\ AdvanceInv(p) /\ job[p].at = "bound"
  BY DEF IInv, LinkTrial
<1>2. e \in Trials /\ "started" \in trial[e] /\ "created" \in facts[e] /\ job[p].by = "advance"
  BY <1>1 DEF CallInv, AtPair, Creating
<1>3. holder[AdvanceKey] = p => trial[e] \cap {"linked", "failed"} = {}
  BY <1>1, <1>2 DEF AdvanceInv, Creating
<1> QED BY <1>1, <1>2, <1>3, AdvanceFactKeeps DEF LinkTrial, CreationSteps

(* Recording that the pair of a trial failed, or a retry of it.            *)
LEMMA CreationFailedKeeps ==
    ASSUME IInv, NEW p \in Procs, CreationFailed(p)
    PROVE  IInv'
<1> DEFINE e == job[p].e
<1>1. TypeInv /\ CallInv(p) /\ AdvanceInv(p) /\ job[p].at = "raised" /\ job[p].by = "advance"
      /\ UNCHANGED <<facts, arms, contract, report, unscored, run, linked, delivered,
                     todo, build, faults, stage, scope, ends, verdict>>
  BY DEF IInv, CreationFailed
<1>2. e \in Trials /\ "started" \in trial[e]
  BY <1>1 DEF CallInv, AtPair, Creating
<1>3. CASE AdvanceFact(p, "failed") /\ UNCHANGED retries
  <2>1. holder[AdvanceKey] = p => "linked" \notin trial[e]
    BY <1>1, <1>2 DEF AdvanceInv, Creating
  <2> QED BY <1>1, <1>2, <1>3, <2>1, AdvanceFactKeeps DEF CreationSteps
<1>4. CASE /\ retries' = IF Holds(p, {AdvanceKey}) THEN [retries EXCEPT ![e] = @ + 1] ELSE retries
           /\ Drop(p, {AdvanceKey}) /\ Become(p, Idle) /\ UNCHANGED <<trial, parent>>
  <2>1. /\ JobStep(p) /\ ClaimStep(p) /\ holder'[AdvanceKey] \in {None, holder[AdvanceKey]}
        /\ CallInv(p)' /\ CreateInv(p)' /\ AdvanceInv(p)'
    BY <1>1, <1>4, IdleLanding, KeyFacts DEF CreationSteps
  <2>2. CampaignTypes'
    BY <1>1, <1>2, <1>4 DEF TypeInv, CampaignTypes
  <2> QED BY <1>1, <1>4, <2>1, <2>2, CampaignLanding DEF durable
<1> QED BY <1>3, <1>4 DEF CreationFailed

(* Ending a campaign with its verdict.                                     *)
LEMMA FinishCampaignKeeps ==
    ASSUME IInv, NEW p \in Procs, FinishCampaign(p)
    PROVE  IInv'
<1>1. TypeInv /\ CallInv(p) /\ job[p].at = "finish" /\ Drop(p, {TerminalKey}) /\ Become(p, Idle)
      /\ UNCHANGED <<durable, todo, build, faults, stage, trial, retries, scope>>
  BY DEF IInv, FinishCampaign
<1>2. /\ JobStep(p) /\ ClaimStep(p) /\ holder'[AdvanceKey] \in {None, holder[AdvanceKey]}
      /\ CallInv(p)' /\ CreateInv(p)' /\ AdvanceInv(p)'
  BY <1>1, IdleLanding, KeyFacts DEF CreationSteps
<1>3. CASE UNCHANGED <<ends, verdict>>
  <2>1. CampaignTypes'
    BY <1>1, <1>3 DEF TypeInv, CampaignTypes
  <2> QED BY <1>1, <1>2, <1>3, <2>1, CampaignLanding
<1>4. CASE /\ Running /\ Holds(p, {TerminalKey}) /\ ends' = ends \cup {"completed"}
           /\ \E point, bound \in BOOLEAN : verdict' = Decide(point, bound)
  <2>1. PICK point \in BOOLEAN, bound \in BOOLEAN : verdict' = Decide(point, bound)
    BY <1>4
  <2>2. ends = {} /\ ends' = {"completed"} /\ holder[TerminalKey] = p
    BY <1>4 DEF Running, Holds
  <2>3. Counted = Trials
    BY <1>1 DEF CallInv
  <2>4. verdict' \in {"insufficient_live_evidence", "keep_single", "recommend_team"}
    BY <2>1 DEF Decide
  <2>5. verdict' = "recommend_team" => Evidence /\ ~\E t \in Trials : Regressed(t)
    BY <2>1 DEF Decide
  <2>6. TypeInv'
    BY <1>1, <1>2, <2>2, <2>4 DEF TypeInv, PairTypes, CallTypes, CampaignTypes, JobStep, ClaimStep, durable
  <2>7. Mono /\ Fenced(p)
    BY <1>1, <2>2 DEF Mono, Fenced, durable
  <2>8. \A e \in Pairs : PairOK(e)'
    BY <1>1, PairFrame DEF IInv, durable
  <2>9. \A t \in Trials : TrialOK(t)'
    BY <1>1, <2>7, TrialFrame DEF IInv, durable
  <2>10. EndInv'
    <3>1. Active' = Active /\ Counted' = Trials /\ With("linked")' = With("linked") /\ run' = run
      BY <1>1, <2>3 DEF Active, Counted, With, durable
    <3>2. \A t \in With("linked") : \A m \in Modes : run[t][m].status \in Closed
      <4> SUFFICES ASSUME NEW t \in With("linked") PROVE \A m \in Modes : run[t][m].status \in Closed
        OBVIOUS
      <4>1. t \in Trials /\ t \in Pairs /\ "linked" \in trial[t] /\ t \in Counted
        BY <2>3, PairSets DEF With
      <4>2. TrialOK(t) /\ PairOK(t)
        BY <4>1 DEF IInv
      <4>3. "observed" \in trial[t]
        BY <4>1, <4>2 DEF Counted, With, TrialOK
      <4> QED BY <4>2, <4>3 DEF TrialOK, PairOK, Closed
    <3> QED BY <2>2, <3>1, <3>2 DEF EndInv, IInv
  <2>11. VerdictInv'
    <3> SUFFICES ASSUME verdict' = "recommend_team"
                 PROVE  VerdictInv'
      BY DEF VerdictInv
    <3>1. Evidence /\ \A t \in Trials : ~Regressed(t)
      BY <2>5
    <3>2. \A t \in Trials : /\ t \in Pairs /\ TrialOK(t) /\ PairOK(t) /\ "observed" \in trial[t]
                            /\ report[t].valid /\ contract[t] = scope
      BY <3>1, PairSets DEF Evidence, With, Valid, IInv
    <3>3. \A t \in Trials : /\ HasReport(t) /\ report[t].by = scope
                            /\ scope \in Builds /\ \A m \in Modes : run[t][m].build = scope
      BY <3>2 DEF TrialOK, PairOK
    <3>4. PICK b \in Builds : Trials # {} => b = scope
      BY <3>3, PairConstants
    <3>5. \A t \in Trials : /\ HasReport(t)' /\ report'[t].by = b /\ ~Regressed(t)'
                            /\ \A m \in Modes : run'[t][m].build = b
      BY <1>1, <3>1, <3>3, <3>4 DEF HasReport, Regressed, durable
    <3> QED BY <2>2, <3>5 DEF VerdictInv
  <2>12. \A q \in Procs : CallInv(q)' /\ CreateInv(q)' /\ AdvanceInv(q)'
    BY <1>2, <2>6, <2>7, OtherCall, OtherCreate, OtherAdvance DEF JobStep
  <2> QED BY <2>6, <2>8, <2>9, <2>10, <2>11, <2>12 DEF IInv
<1> QED BY <1>3, <1>4 DEF FinishCampaign

(* A cancellation closes the arms of one started trial.                    *)
LEMMA CancelPairKeeps ==
    ASSUME IInv, NEW p \in Procs, CancelPair(p)
    PROVE  IInv'
<1>1. PICK t \in First(job[p].rest) : /\ CancelArms(t, Modes)
                                      /\ job' = [job EXCEPT ![p].rest = @ \ {t}]
  BY DEF CancelPair
<1>2. TypeInv /\ AdvanceInv(p) /\ job[p] \in Jobs /\ job[p].at = "cancelling" /\ holder' = holder
      /\ UNCHANGED <<facts, arms, contract, report, unscored, linked, delivered, parent,
                     todo, build, faults, campaign>>
  BY DEF IInv, TypeInv, CancelPair
<1>3. t \in job[p].rest /\ t \in Trials /\ t \in Pairs
  BY <1>2, FirstIn, PairSets DEF Jobs
<1>4. PairTypes' /\ CallTypes' /\ PairOK(t)' /\ Elsewhere(t) /\ Grows(t)
      /\ \A m \in Modes : run[t][m].status # "none" => run'[t][m].status \in Closed
  BY <1>1, <1>2, <1>3, CancelRuns
<1>5. JobStep(p) /\ job'[p].at = "cancelling" /\ job'[p].rest = job[p].rest \ {t}
  <2> DEFINE R == job[p].rest \ {t}
             j == [job[p] EXCEPT !.rest = R]
  <2>1. job' = [job EXCEPT ![p] = j]
    BY <1>1, <1>2 DEF TypeInv
  <2>2. R \in SUBSET Trials
    BY <1>2 DEF Jobs
  <2> HIDE DEF R
  <2>3. j \in Jobs /\ j.at = "cancelling" /\ j.rest = R
    BY <1>2, <2>2 DEF Jobs
  <2>4. JobStep(p) /\ job'[p] = j
    BY <1>2, <2>1, <2>3, BecomeStep DEF Become
  <2> QED BY <2>3, <2>4 DEF R
<1>6. CallInv(p)'
  BY <1>5 DEF CallInv, AtPair, Creating, CreationSteps
<1>7. CreateInv(p)'
  BY <1>2, NoCreateClaim, NoCreateInv DEF CreationSteps
<1>8. AdvanceInv(p)'
  <2>1. trial' = trial /\ ends' = ends /\ With("linked")' = With("linked")
    BY <1>2 DEF With, campaign
  <2>2. holder[AdvanceKey] = p =>
          \A x \in With("linked") \ (job[p].rest \ {t}) : \A m \in Modes : run'[x][m].status \in Closed
    <3> SUFFICES ASSUME holder[AdvanceKey] = p,
                        NEW x \in With("linked") \ (job[p].rest \ {t}), NEW m \in Modes
                 PROVE  run'[x][m].status \in Closed
      OBVIOUS
    <3>1. CASE x = t
      <4>1. TrialOK(t) /\ PairOK(t) /\ "linked" \in trial[t]
        BY <1>3, <3>1 DEF IInv, With
      <4>2. run[t][m].status # "none"
        BY <4>1, PairSets DEF TrialOK, PairOK
      <4> QED BY <1>4, <3>1, <4>2
    <3>2. CASE x # t
      <4>1. run[x][m].status \in Closed
        BY <1>2, <3>2 DEF AdvanceInv
      <4>2. x \in Pairs
        BY PairSets DEF With
      <4> QED BY <1>4, <3>2, <4>1, <4>2 DEF Elsewhere
    <3> QED BY <3>1, <3>2
  <2> QED BY <1>2, <1>5, <2>1, <2>2 DEF AdvanceInv, Creating
<1> QED BY <1>2, <1>3, <1>4, <1>5, <1>6, <1>7, <1>8, SameClaims, PairWrite

(* A cancellation ends the campaign.                                       *)
LEMMA CancelCampaignKeeps ==
    ASSUME IInv, NEW p \in Procs, CancelCampaign(p)
    PROVE  IInv'
<1>1. TypeInv /\ AdvanceInv(p) /\ job[p].at = "cancelling" /\ job[p].rest = {}
      /\ Drop(p, CancelKeys) /\ Become(p, Idle)
      /\ UNCHANGED <<durable, todo, build, faults, stage, trial, retries, scope, verdict>>
  BY DEF IInv, CancelCampaign
<1>2. /\ JobStep(p) /\ ClaimStep(p) /\ holder'[AdvanceKey] \in {None, holder[AdvanceKey]}
      /\ CallInv(p)' /\ CreateInv(p)' /\ AdvanceInv(p)'
  BY <1>1, IdleLanding, KeyFacts DEF CreationSteps, CancelKeys
<1>3. CASE ends' = ends
  <2>1. CampaignTypes'
    BY <1>1, <1>3 DEF TypeInv, CampaignTypes
  <2> QED BY <1>1, <1>2, <1>3, <2>1, CampaignLanding
<1>4. CASE Holds(p, CancelKeys) /\ ends' = ends \cup {"cancelled"}
  <2>1. holder[AdvanceKey] = p /\ holder[TerminalKey] = p
    BY <1>4 DEF Holds, CancelKeys
  <2>2. ends = {} /\ ends' = {"cancelled"}
    BY <1>1, <1>4, <2>1 DEF AdvanceInv
  <2>3. holder'[AdvanceKey] = None
    <3>1. \A k \in Keys : holder'[k] = IF k \in CancelKeys /\ holder[k] = p THEN None ELSE holder[k]
      BY <1>1, DropStep
    <3> QED BY <2>1, <3>1, KeyFacts DEF CancelKeys
  <2>4. TypeInv'
    BY <1>1, <1>2, <2>2 DEF TypeInv, PairTypes, CallTypes, CampaignTypes, JobStep, ClaimStep, durable
  <2>5. Mono /\ Fenced(p)
    BY <1>1, <2>1, <2>2 DEF Mono, Fenced, durable
  <2>6. \A e \in Pairs : PairOK(e)'
    BY <1>1, PairFrame DEF IInv, durable
  <2>7. \A t \in Trials : TrialOK(t)'
    BY <1>1, <2>5, TrialFrame DEF IInv, durable
  <2>8. EndInv'
    <3>1. Active' = Active /\ With("linked")' = With("linked") /\ run' = run
      BY <1>1 DEF Active, With, durable
    <3>2. \A t \in With("linked") : \A m \in Modes : run[t][m].status \in Closed
      BY <1>1, <2>1 DEF AdvanceInv
    <3> QED BY <2>2, <2>3, <3>1, <3>2, PairSets DEF EndInv, IInv
  <2>9. VerdictInv'
    BY <1>1, <2>2, <2>5, VerdictFrame DEF IInv
  <2>10. \A q \in Procs : CallInv(q)' /\ CreateInv(q)' /\ AdvanceInv(q)'
    BY <1>2, <2>4, <2>5, OtherCall, OtherCreate, OtherAdvance DEF JobStep
  <2> QED BY <2>4, <2>6, <2>7, <2>8, <2>9, <2>10 DEF IInv
<1> QED BY <1>3, <1>4 DEF CancelCampaign

-----------------------------------------------------------------------------
(* The invariant holds before anything has been asked for.                 *)
LEMMA InitHolds == Init => IInv
<1> SUFFICES ASSUME Init PROVE IInv
  OBVIOUS
<1>1. (CHOOSE b \in Builds : TRUE) \in Builds
  BY PairConstants
<1>2. PairTypes
  BY DEF Init, PairInit, PairTypes, NoReport, NoRun, Statuses
<1>3. CallTypes /\ CampaignTypes
  BY <1>1, PairConstants DEF Init, PairInit, CallTypes, CampaignTypes
<1>4. TypeInv
  BY <1>2, <1>3, IdleJob DEF Init, PairInit, TypeInv, Holders
<1>5. \A e \in Pairs : PairOK(e)
  BY DEF Init, PairInit, PairOK, NoReport, NoRun, HasReport
<1>6. \A t \in Trials : TrialOK(t)
  BY DEF Init, PairInit, TrialOK
<1>7. \A p \in Procs : job[p].at = "idle" /\ \A x \in Pairs : holder[CreateKey(x)] # p
  BY KeyFacts, PairSets DEF Init, PairInit, Idle
<1>8. \A p \in Procs : CallInv(p) /\ CreateInv(p) /\ AdvanceInv(p)
  BY <1>7 DEF CallInv, CreateInv, AdvanceInv, AtPair, Creating, CreationSteps
<1>9. EndInv
  <2>1. Active = {}
    BY DEF Init, Active, With
  <2>2. Cardinality(Active) = 0
    BY <2>1, FS_EmptySet
  <2> QED BY <2>2, MaxParallelNat DEF Init, EndInv, With
<1>10. VerdictInv
  <2>1. verdict # "recommend_team"
    BY CampaignConstants DEF Init
  <2> QED BY <2>1 DEF VerdictInv
<1> QED BY <1>4, <1>5, <1>6, <1>8, <1>9, <1>10 DEF IInv

(* Every step of an advance, of a registration or of an end keeps the invariant. *)
LEMMA AdvanceStepKeeps ==
    ASSUME IInv, NEW p \in Procs, AdvanceStep(p)
    PROVE  IInv'
<1>1. CASE \/ RequestCampaign(p) \/ FoundCampaign(p) \/ Choose(p) \/ StartTrial(p)
           \/ ObserveTrial(p) \/ ReleaseTrial(p) \/ ReleaseFailed(p)
  BY <1>1, RequestCampaignKeeps, FoundCampaignKeeps, ChooseKeeps, StartTrialKeeps,
     ObserveTrialKeeps, ReleaseTrialKeeps, ReleaseFailedKeeps
<1>2. CASE \/ BindScope(p) \/ LinkTrial(p) \/ CreationFailed(p) \/ FinishCampaign(p)
           \/ ReadStarted(p) \/ CancelPair(p) \/ CancelCampaign(p)
  BY <1>2, BindScopeKeeps, LinkTrialKeeps, CreationFailedKeeps, FinishCampaignKeeps,
     ReadStartedKeeps, CancelPairKeeps, CancelCampaignKeeps
<1> QED BY <1>1, <1>2 DEF AdvanceStep

(* Every step of a call at its pair keeps the invariant.                   *)
LEMMA PairStepKeeps ==
    ASSUME IInv, NEW p \in Procs, PairStep(p)
    PROVE  IInv'
<1>1. CASE \/ Aside(Acquire(p)) \/ Aside(AcquireTimeout(p)) \/ Aside(Request(p))
           \/ Aside(Plan(p)) \/ Aside(PrepareSingle(p)) \/ Aside(PrepareTeam(p))
           \/ Aside(RecordArm(p)) \/ Aside(WriteContract(p)) \/ Aside(Confirm(p))
           \/ Aside(LinkArms(p))
  <2>1. CASE Aside(PrepareSingle(p)) \/ Aside(PrepareTeam(p))
    BY <2>1, PrepareKeeps DEF PrepareSingle, PrepareTeam, Modes, Aside
  <2> QED BY <1>1, <2>1, AcquireKeeps, AcquireTimeoutKeeps, RequestKeeps, PlanKeeps,
          RecordArmKeeps, WriteContractKeeps, ConfirmKeeps, LinkArmsKeeps
<1>2. CASE \/ Aside(Commit(p)) \/ Aside(CreationBroken(p)) \/ Aside(Cleanup(p))
           \/ Aside(Authorize(p)) \/ Aside(DeliverArm(p)) \/ Aside(RecordRelease(p))
           \/ Aside(PairCallEnds(p)) \/ Aside(Finalize(p)) \/ Aside(RecoverPending(p))
  BY <1>2, CommitKeeps, CreationBrokenKeeps, CleanupKeeps, AuthorizeKeeps, DeliverArmKeeps,
     RecordReleaseKeeps, PairCallEndsKeeps, FinalizeKeeps, RecoverPendingKeeps
<1> QED BY <1>1, <1>2 DEF PairStep

(* A step that changes nothing keeps the invariant.                        *)
LEMMA StutterKeeps == ASSUME IInv, UNCHANGED vars PROVE IInv'
<1>1. UNCHANGED durable /\ UNCHANGED campaign /\ holder' = holder /\ job' = job
      /\ UNCHANGED <<todo, build, faults>> /\ TypeInv
  BY DEF vars, IInv
<1>2. JobStep(None) /\ ClaimStep(None) /\ CallTypes'
  BY <1>1, SameClaims DEF JobStep, TypeInv, CallTypes
<1> QED BY <1>1, <1>2, PairSets, QuietStep

(* Every step keeps the invariant.                                         *)
LEMMA NextKeeps == IInv /\ [Next]_vars => IInv'
<1> SUFFICES ASSUME IInv, [Next]_vars PROVE IInv'
  OBVIOUS
<1>1. ASSUME NEW p \in Procs, CallStep(p) \/ Faulty(p) PROVE IInv'
  BY <1>1, AdvanceStepKeeps, PairStepKeeps, CreationErrorKeeps, ReleaseErrorKeeps,
     FinalizeErrorKeeps, RestartKeeps DEF CallStep, Faulty
<1>2. ASSUME NEW p \in Procs,
             \/ ClaimCampaign(p) \/ ClaimAdvance(p) \/ ClaimTerminal(p) \/ ClaimCancel(p)
             \/ \E e \in Pairs : Aside(ClientCreate(p, e)) \/ Aside(ClaimScore(p, e, "ready"))
             \/ Drain(p)
      PROVE  IInv'
  BY <1>2, ClaimCampaignKeeps, ClaimAdvanceKeeps, ClaimTerminalKeeps, ClaimCancelKeeps,
     ClientCreateKeeps, ClaimScoreKeeps, PairSets DEF Drain
<1>3. ASSUME NEW e \in Pairs,
             \/ Aside(RouteHeld(e))
             \/ \E m \in Modes, s \in {"succeeded", "failed"} : Aside(RunArm(e, m, s))
             \/ \E m \in Modes : Aside(ArmCancelled(e, m))
      PROVE  IInv'
  BY <1>3, RouteHeldKeeps, RunArmKeeps, ArmCancelledKeeps
<1>4. ASSUME NEW k \in Keys, Aside(Lapse(k)) \/ Aside(LapseOrphan(k)) PROVE IInv'
  BY <1>4, LapseKeeps, LapseOrphanKeeps
<1>5. CASE UNCHANGED vars
  BY <1>5, StutterKeeps
<1> QED BY <1>1, <1>2, <1>3, <1>4, <1>5 DEF Next

(* The campaign and the pair service keep their inductive invariant, type  *)
(* correctness included, in every behaviour: with threads that crash, lose *)
(* a claim without noticing, or come back with another build.              *)
THEOREM CampaignCorrect == Spec => []IInv
<1> QED BY InitHolds, NextKeeps, PTL DEF Spec

(* ArmsStartTogether: release and the routing of a held assignment deliver *)
(* an arm only of a pair that is committed, linked and of one build, and   *)
(* in a campaign only after the parent recorded the link.                  *)
THEOREM ArmsStartTogetherHolds == Spec => []ArmsStartTogether
<1>1. IInv => ArmsStartTogether
  <2> SUFFICES ASSUME IInv, NEW e \in Pairs, delivered[e] # {}
               PROVE  /\ "committed" \in facts[e] /\ linked[e] = Modes
                      /\ \A m \in Modes : run[e][m].build = contract[e]
                      /\ e \in Trials => "linked" \in trial[e]
    BY DEF ArmsStartTogether
  <2>1. PairOK(e) /\ (e \in Trials => TrialOK(e))
    BY DEF IInv
  <2>2. Releasable(e)
    BY <2>1 DEF PairOK
  <2> QED BY <2>1, <2>2 DEF PairOK, TrialOK, Releasable
<1> QED BY <1>1, CampaignCorrect, PTL

(* EndMeansQuiet: cancel and finalize give the campaign one end; behind a  *)
(* completion every released arm is over, behind a cancellation it is over *)
(* or being cancelled, also when advance_one goes on with a claim it has    *)
(* lost.                                                                   *)
THEOREM EndMeansQuietHolds == Spec => []EndMeansQuiet
<1>1. IInv => EndMeansQuiet
  <2> SUFFICES ASSUME IInv, ends # {}
               PROVE  /\ Cardinality(ends) = 1
                      /\ \A t \in Trials : \A m \in delivered[t] :
                            \/ run[t][m].status \in Terminal
                            \/ "cancelled" \in ends /\ run[t][m].status = "cancelling"
    BY DEF EndMeansQuiet
  <2>1. EndInv
    BY DEF IInv
  <2>2. Cardinality(ends) = 1
    <3>1. PICK x : ends = {x}
      BY <2>1 DEF EndInv
    <3> QED BY <3>1, FS_Singleton
  <2>3. ASSUME NEW t \in Trials, NEW m \in delivered[t]
        PROVE  \/ run[t][m].status \in Terminal
               \/ "cancelled" \in ends /\ run[t][m].status = "cancelling"
    <3>1. t \in Pairs /\ PairOK(t) /\ TrialOK(t)
      BY PairSets DEF IInv
    <3>2. t \in With("linked")
      BY <3>1 DEF PairOK, Releasable, TrialOK, With
    <3>3. m \in Modes
      BY <3>1 DEF IInv, TypeInv, PairTypes
    <3>4. CASE "completed" \in ends
      <4>1. "observed" \in trial[t]
        BY <2>1, <3>1, <3>2, <3>4 DEF EndInv, Counted, With, TrialOK
      <4> QED BY <3>1, <3>3, <4>1 DEF TrialOK, PairOK
    <3>5. CASE "cancelled" \in ends
      BY <2>1, <3>2, <3>3, <3>5 DEF EndInv, Closed
    <3> QED BY <2>1, <3>4, <3>5 DEF EndInv
  <2> QED BY <2>2, <2>3
<1> QED BY <1>1, CampaignCorrect, PTL

(* ParallelBound: advance_one never has more than max_parallel_pairs pairs *)
(* in execution, although the trial it starts was chosen before.           *)
THEOREM ParallelBoundHolds == Spec => []ParallelBound
<1>1. IInv => ParallelBound
  <2> SUFFICES ASSUME IInv PROVE ParallelBound
    OBVIOUS
  <2> DEFINE S == { t \in Trials : \E m \in delivered[t] : run[t][m].status \notin Terminal }
  <2>1. S \subseteq Active
    <3> SUFFICES ASSUME NEW t \in Trials, NEW m \in delivered[t], run[t][m].status \notin Terminal
                 PROVE  t \in Active
      OBVIOUS
    <3>1. t \in Pairs /\ PairOK(t) /\ TrialOK(t)
      BY PairSets DEF IInv
    <3>2. m \in Modes
      BY <3>1 DEF IInv, TypeInv, PairTypes
    <3>3. "linked" \in trial[t] /\ "failed" \notin trial[t]
      BY <3>1 DEF PairOK, Releasable, TrialOK
    <3>4. ~HasReport(t)
      BY <3>1, <3>2 DEF PairOK, Terminal
    <3> QED BY <3>1, <3>3, <3>4 DEF Active, With, TrialOK
  <2>2. IsFiniteSet(Active) /\ Cardinality(Active) \in Nat /\ MaxParallel \in Nat
    <3>1. IsFiniteSet(Trials) /\ Active \subseteq Trials
      BY PairConstants, FS_Subset DEF Pairs, Active, With
    <3> QED BY <3>1, FS_Subset, FS_CardinalityType, MaxParallelNat
  <2>3. Cardinality(S) <= Cardinality(Active) /\ Cardinality(S) \in Nat
    BY <2>1, <2>2, FS_Subset, FS_CardinalityType
  <2>4. Cardinality(Active) <= MaxParallel
    BY DEF IInv, EndInv
  <2>5. Cardinality(S) <= MaxParallel
    BY <2>2, <2>3, <2>4
  <2> QED BY <2>5 DEF ParallelBound
<1> QED BY <1>1, CampaignCorrect, PTL

(* VerdictRestsOnTrials: finalize recommends the team only on a whole plan *)
(* of trials that ran and were scored under one build without regression,  *)
(* and nothing that happens later takes the evidence away.                 *)
THEOREM VerdictRestsOnTrialsHolds == Spec => []VerdictRestsOnTrials
<1>1. IInv => VerdictRestsOnTrials
  <2> SUFFICES ASSUME IInv, verdict = "recommend_team" PROVE VerdictRestsOnTrials
    BY DEF VerdictRestsOnTrials
  <2>1. VerdictInv
    BY DEF IInv
  <2>2. PICK b \in Builds : \A t \in Trials :
              /\ HasReport(t) /\ report[t].by = b /\ ~Regressed(t)
              /\ \A m \in Modes : run[t][m].build = b
    BY <2>1 DEF VerdictInv
  <2>3. ASSUME NEW t \in Trials
        PROVE  /\ report[t].by = b
               /\ \A m \in Modes : run[t][m].build = b /\ run[t][m].status = report[t][m]
               /\ run[t]["single"].status = "succeeded" => run[t]["team"].status = "succeeded"
    <3>1. t \in Pairs /\ PairOK(t)
      BY PairSets DEF IInv
    <3>2. report[t].single = run[t]["single"].status /\ report[t].team = run[t]["team"].status
      BY <2>2, <3>1 DEF PairOK
    <3>3. report[t]["single"] = report[t].single /\ report[t]["team"] = report[t].team
      OBVIOUS
    <3> QED BY <2>2, <3>2, <3>3 DEF Regressed, Modes
  <2> QED BY <2>1, <2>3 DEF VerdictRestsOnTrials, VerdictInv
<1> QED BY <1>1, CampaignCorrect, PTL

(* Only the commit of a pair makes it committed, and only under the claim  *)
(* of its creation, which nobody who would reject the pair can hold too.   *)
LEMMA OnlyCommit ==
    ASSUME IInv, [Next]_vars, NEW e \in Pairs,
           "committed" \in facts'[e], "committed" \notin facts[e]
    PROVE  "failed" \notin facts[e]
<1>1. facts' # facts
  OBVIOUS
<1>2. ASSUME NEW p \in Procs, Faulty(p) PROVE FALSE
  BY <1>1, <1>2 DEF Faulty, Aside, CreationError, ReleaseError, FinalizeError, Restart, durable
<1>3. ASSUME NEW p \in Procs, AdvanceStep(p) PROVE FALSE
  <2>1. CASE StartTrial(p) \/ ObserveTrial(p) \/ ReleaseTrial(p) \/ LinkTrial(p)
             \/ CreationFailed(p) \/ CancelPair(p)
    BY <1>1, <2>1 DEF StartTrial, ObserveTrial, ReleaseTrial, LinkTrial, CreationFailed, CancelPair
  <2>2. CASE RequestCampaign(p) \/ FoundCampaign(p) \/ Choose(p) \/ ReleaseFailed(p) \/ BindScope(p)
             \/ FinishCampaign(p) \/ ReadStarted(p) \/ CancelCampaign(p)
    BY <1>1, <2>2 DEF RequestCampaign, FoundCampaign, Choose, ReleaseFailed, BindScope,
       FinishCampaign, ReadStarted, CancelCampaign, durable
  <2> QED BY <1>3, <2>1, <2>2 DEF AdvanceStep
<1>4. ASSUME NEW p \in Procs,
             \/ ClaimCampaign(p) \/ ClaimAdvance(p) \/ ClaimTerminal(p) \/ ClaimCancel(p)
             \/ \E x \in Pairs : Aside(ClientCreate(p, x)) \/ Aside(ClaimScore(p, x, "ready"))
             \/ Drain(p)
      PROVE  FALSE
  BY <1>1, <1>4 DEF ClaimCampaign, ClaimAdvance, ClaimTerminal, ClaimCancel, Aside, ClientCreate,
     ClaimScore, Drain, durable
<1>5. ASSUME NEW x \in Pairs,
             \/ Aside(RouteHeld(x))
             \/ \E m \in Modes, s \in {"succeeded", "failed"} : Aside(RunArm(x, m, s))
             \/ \E m \in Modes : Aside(ArmCancelled(x, m))
      PROVE  FALSE
  BY <1>1, <1>5 DEF Aside, RouteHeld, RunArm, ArmCancelled
<1>6. ASSUME NEW k \in Keys, Aside(Lapse(k)) \/ Aside(LapseOrphan(k)) PROVE FALSE
  BY <1>1, <1>6 DEF Aside, Lapse, LapseOrphan, durable
<1>7. ASSUME NEW p \in Procs, PairStep(p) PROVE "failed" \notin facts[e]
  <2>0. TypeInv /\ CallInv(p) /\ CreateInv(p)
    BY DEF IInv
  <2>1. CASE Aside(Request(p)) \/ Aside(WriteContract(p)) \/ Aside(CreationBroken(p))
    <3>1. ASSUME NEW fact \in {"requested", "created", "failed"}, NEW x, Record(x, fact) PROVE FALSE
      BY <2>0, <3>1 DEF Record, TypeInv, PairTypes
    <3> QED BY <1>1, <2>1, <3>1 DEF Aside, Request, WriteContract, CreationBroken, Stopped, durable
  <2>2. CASE Aside(Commit(p))
    <3>1. Record(job[p].e, "committed") /\ Holds(p, {CreateKey(job[p].e)}) /\ job[p].at = "commit"
      BY <1>1, <2>2 DEF Aside, Commit, durable
    <3>2. e = job[p].e
      BY <2>0, <3>1 DEF Record, TypeInv, PairTypes
    <3> QED BY <2>0, <3>1, <3>2 DEF CreateInv, Holds, CreationSteps
  <2>3. CASE \/ Aside(Acquire(p)) \/ Aside(AcquireTimeout(p)) \/ Aside(Plan(p))
             \/ Aside(PrepareSingle(p)) \/ Aside(PrepareTeam(p)) \/ Aside(RecordArm(p))
             \/ Aside(Confirm(p)) \/ Aside(LinkArms(p)) \/ Aside(Cleanup(p))
    BY <1>1, <2>3 DEF Aside, Acquire, AcquireTimeout, Plan, PrepareSingle, PrepareTeam, Prepare,
       RecordArm, Confirm, LinkArms, Cleanup, Stopped, durable
  <2>4. CASE \/ Aside(Authorize(p)) \/ Aside(DeliverArm(p)) \/ Aside(RecordRelease(p))
             \/ Aside(PairCallEnds(p)) \/ Aside(Finalize(p)) \/ Aside(RecoverPending(p))
    BY <1>1, <2>4 DEF Aside, Authorize, DeliverArm, RecordRelease, PairCallEnds, Finalize,
       RecoverPending, durable
  <2> QED BY <1>7, <2>1, <2>2, <2>3, <2>4 DEF PairStep
<1>8. ~UNCHANGED vars
  BY <1>1 DEF vars, durable
<1> QED BY <1>2, <1>3, <1>4, <1>5, <1>6, <1>7, <1>8 DEF Next, CallStep

(* FailureIsFinal: once create has rejected a pair, no creator under way,  *)
(* no retry and no recovery commits it or delivers an arm of it.           *)
THEOREM FailureIsFinalHolds == Spec => FailureIsFinal
<1> DEFINE Final == \A e \in Pairs : "failed" \in facts[e] /\ "committed" \notin facts[e] =>
                       "committed" \notin facts'[e] /\ delivered'[e] = {}
<1>1. IInv /\ [Next]_vars => [Final]_vars
  <2> SUFFICES ASSUME IInv, [Next]_vars, NEW e \in Pairs, "failed" \in facts[e], "committed" \notin facts[e]
               PROVE  "committed" \notin facts'[e] /\ delivered'[e] = {}
    OBVIOUS
  <2>1. "committed" \notin facts'[e]
    BY OnlyCommit
  <2>2. IInv'
    BY NextKeeps
  <2>3. delivered'[e] = {}
    BY <2>1, <2>2 DEF IInv, PairOK, Releasable
  <2> QED BY <2>1, <2>3
<1> QED BY <1>1, CampaignCorrect, PTL DEF Spec, FailureIsFinal
=============================================================================
