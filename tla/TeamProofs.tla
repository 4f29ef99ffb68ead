---------------------------- MODULE TeamProofs ----------------------------
(* Theorems about Team, for every set of runs, agents and stages, every    *)
(* contract and every number of attempts, late leases and faults.  Except  *)
(* for the wake-ups, which rest on what the policy leaves to be done, they *)
(* hold for whatever the policy proposes: of Propose only the revision is  *)
(* used.                                                                   *)
EXTENDS Team, FiniteSetTheorems, TLAPS

(* The rows of the assignment and lease projections.                       *)
Assignments == [agent  : Agents \cup {None},
                status : {"none", "running", "succeeded", "failed", "expired"},
                lease  : {"none", "active", "released", "expired"},
                due    : BOOLEAN]

(* Facts, projections and the counters of the process.                     *)
FactType ==
    /\ status \in [Runs -> {"running", "paused", "succeeded", "failed"}]
    /\ revision \in [Runs -> Nat]
    /\ asg \in [Ids -> Assignments]
    /\ agent \in [Agents -> {"up", "degraded"}]
    /\ recorded \in [Runs -> [Stages -> Nat]]
    /\ refused \in [Runs -> Nat]
    /\ waiter \in [Runs -> Nat]
    /\ dirty \in BOOLEAN

(* Agent runs: a run that has not ended has a turn left.                   *)
RunType ==
    /\ turns \in [Ids -> 0 .. MaxTurns]
    /\ ended \in [Ids -> {"none", "submitted", "stopped"}]
    /\ verdict \in [Ids -> {"none", "accepted", "rejected"}]
    /\ \A i \in Ids : ended[i] = "none" => turns[i] < MaxTurns

SupPcs == {"idle", "bury", "commit", "resume", "follow", "ack"}

(* Supervisors: a delivery in hand was sent, and an accepted plan has the  *)
(* number of a revision of its run.                                        *)
SupType ==
    /\ sup = [r \in Runs |-> sup[r]]
    /\ \A r \in Runs :
          /\ sup[r] \in [pc : SupPcs, msg : {sup[r].msg}, patch : {sup[r].patch},
                         ok : BOOLEAN, bury : SUBSET Ids]
          /\ sup[r].patch.rev \in Nat
          /\ sup[r].pc # "idle" => sup[r].msg \in sent
          /\ sup[r].ok => sup[r].patch.rev \in 1 .. revision[r]
          /\ sup[r].pc = "follow" => sup[r].ok

(* Waits are recorded under revisions that exist.                          *)
WaitType ==
    /\ waits = [r \in Runs |-> waits[r]]
    /\ \A r \in Runs : \A w \in waits[r] : w.rev \in 1 .. revision[r]

WkPcs == {"idle", "turn", "submitted", "route", "stopped", "release", "nudge", "ack"}

(* Workers: a delivery in hand was sent.                                   *)
WkType ==
    /\ wk = [i \in Ids |-> wk[i]]
    /\ \A i \in Ids :
          /\ wk[i] \in [pc : WkPcs, msg : {wk[i].msg}]
          /\ wk[i].pc # "idle" => wk[i].msg \in sent

(* The expiry: past its first fact it has a lease in hand.                 *)
ExpType ==
    /\ exp \in [pc : {"idle", "next", "lease", "deliver"}, todo : SUBSET Ids,
                cur : Ids \cup {None}]
    /\ exp.pc \in {"lease", "deliver"} => exp.cur \in Ids

(* TypeOK, with what its induction needs.                                  *)
TypeInv ==
    /\ FactType /\ RunType /\ SupType /\ WaitType /\ WkType /\ ExpType
    /\ acked \subseteq sent


(* An assignment id is a run, a stage of that run and an attempt.          *)
LEMMA IdParts ==
    ASSUME NEW i \in Ids
    PROVE  /\ i[1] \in Runs /\ i[2] \in Stages /\ i[2] \in StagesOf[i[1]]
           /\ i[3] \in 1 .. MaxAttempts /\ i = <<i[1], i[2], i[3]>>
  BY DEF Ids

(* Each part of TypeInv survives the steps that leave its variables alone. *)
LEMMA FactFrame ==
    ASSUME FactType, UNCHANGED <<factVars, refused, waiter, dirty>> PROVE FactType'
  BY DEF FactType, factVars

(* The same for the agent runs.                                            *)
LEMMA RunFrame == ASSUME RunType, UNCHANGED runVars PROVE RunType'
  BY DEF RunType, runVars

(* The same for the supervisors; deliveries are never unsent.              *)
LEMMA SupFrame ==
    ASSUME SupType, UNCHANGED <<sup, revision>>, sent \subseteq sent' PROVE SupType'
  BY DEF SupType

(* The same for the waits.                                                 *)
LEMMA WaitFrame ==
    ASSUME WaitType, UNCHANGED <<waits, revision>>
    PROVE  WaitType'
  BY DEF WaitType

(* The same for the workers.                                               *)
LEMMA WkFrame ==
    ASSUME WkType, UNCHANGED wk, sent \subseteq sent'
    PROVE  WkType'
  BY DEF WkType

(* The same for the expiry.                                                *)
LEMMA ExpFrame == ASSUME ExpType, UNCHANGED exp PROVE ExpType'
  BY DEF ExpType

(* _project_event and _project_lease keep a row a row.                     *)
LEMMA ProjectionType ==
    ASSUME NEW a \in Assignments,
           NEW s \in {"succeeded", "failed", "expired"},
           NEW e \in {"renewed", "released", "expired"}
    PROVE  /\ ProjectAssignment(a, s) \in Assignments
           /\ ProjectLease(a, e) \in Assignments
  <1>1. ProjectAssignment(a, s) \in Assignments
    BY DEF ProjectAssignment, Assignments
  <1>2. ProjectLease(a, e) \in Assignments
    BY DEF ProjectLease, Assignments
  <1> QED BY <1>1, <1>2

(* Whatever the policy proposes, it proposes it as the next revision.      *)
LEMMA ProposeRev ==
    ASSUME NEW r \in Runs, revision \in [Runs -> Nat]
    PROVE  Propose(r).rev = revision[r] + 1 /\ Propose(r).rev \in Nat
  <1>1. Propose(r).rev = revision[r] + 1
    BY DEF Propose
  <1> QED BY <1>1

(* The initial state has its type.                                         *)
LEMMA InitType == ASSUME Init PROVE TypeInv
  <1>1. FactType
    BY TeamConstants DEF Init, FactType, Assignments, NoAssignment
  <1>2. RunType /\ ExpType
    BY TeamConstants DEF Init, RunType, ExpType, IdleExp
  <1>3. SupType
    BY DEF Init, SupType, IdleSup, NoPatch, SupPcs
  <1>4. WaitType /\ WkType
    BY DEF Init, WaitType, WkType, IdleWk, WkPcs
  <1>5. acked \subseteq sent
    BY DEF Init
  <1> QED BY <1>1, <1>2, <1>3, <1>4, <1>5 DEF TypeInv

(* Types are kept by _supervisor_step up to begin_command.                 *)
LEMMA SupProposeType ==
    ASSUME TypeInv, NEW r \in Runs, NEW m \in sent, SupPropose(r, m)
    PROVE  TypeInv'
  <1> USE DEF TypeInv, SupPropose, factVars, planVars, runVars, mailVars, memVars
  <1>1. FactType' /\ RunType' /\ WaitType' /\ WkType' /\ ExpType'
    BY FactFrame, RunFrame, WaitFrame, WkFrame, ExpFrame
  <1>2. SupType'
    BY ProposeRev DEF FactType, SupType, SupPcs
  <1>3. (acked \subseteq sent)'
    OBVIOUS
  <1> QED BY <1>1, <1>2, <1>3

(* Types are kept by a supervisor that raises.                             *)
LEMMA SupRaiseType ==
    ASSUME TypeInv, NEW r \in Runs, NEW m \in sent, SupRaise(r, m)
    PROVE  TypeInv'
  <1> USE DEF TypeInv, SupRaise, factVars, planVars, runVars, mailVars, memVars
  <1>1. FactType' /\ RunType' /\ WaitType' /\ WkType' /\ ExpType'
    BY FactFrame, RunFrame, WaitFrame, WkFrame, ExpFrame
  <1>2. SupType'
    BY DEF SupType, SupPcs, IdleSup, NoPatch, ActiveLeasesOf
  <1>3. (acked \subseteq sent)'
    OBVIOUS
  <1> QED BY <1>1, <1>2, <1>3

(* Types are kept by the burial of a lease.                                *)
LEMMA SupBuryType ==
    ASSUME TypeInv, NEW r \in Runs, NEW i \in Ids, SupBury(r, i)
    PROVE  TypeInv'
  <1> USE DEF TypeInv, SupBury, factVars, planVars, runVars, mailVars, memVars
  <1>1. RunType' /\ WaitType' /\ WkType' /\ ExpType'
    BY RunFrame, WaitFrame, WkFrame, ExpFrame
  <1>2. FactType'
    BY ProjectionType DEF FactType
  <1>3. SupType'
    BY DEF SupType
  <1>4. (acked \subseteq sent)'
    OBVIOUS
  <1> QED BY <1>1, <1>2, <1>3, <1>4

(* Types are kept by the end of a dead-lettered run.                       *)
LEMMA SupFailRunType ==
    ASSUME TypeInv, NEW r \in Runs, SupFailRun(r)
    PROVE  TypeInv'
  <1> USE DEF TypeInv, SupFailRun, factVars, planVars, runVars, mailVars, memVars
  <1>1. RunType' /\ WaitType' /\ WkType' /\ ExpType'
    BY RunFrame, WaitFrame, WkFrame, ExpFrame
  <1>2. FactType'
    BY DEF FactType
  <1>3. SupType'
    BY DEF SupType, SupPcs
  <1>4. (acked \subseteq sent)'
    OBVIOUS
  <1> QED BY <1>1, <1>2, <1>3, <1>4

(* Types are kept by the consumption of a wait.                            *)
LEMMA SupResumeType ==
    ASSUME TypeInv, NEW r \in Runs, SupResume(r)
    PROVE  TypeInv'
  <1> USE DEF TypeInv, SupResume, factVars, planVars, runVars, mailVars, memVars
  <1>1. RunType' /\ WaitType' /\ WkType' /\ ExpType'
    BY RunFrame, WaitFrame, WkFrame, ExpFrame
  <1>2. FactType'
    BY DEF FactType
  <1>3. SupType'
    BY DEF SupType, SupPcs, AfterPlan
  <1>4. (acked \subseteq sent)'
    OBVIOUS
  <1> QED BY <1>1, <1>2, <1>3, <1>4

(* Types are kept by a recorded wait.                                      *)
LEMMA SupWaitType == ASSUME TypeInv, NEW r \in Runs, SupWait(r) PROVE TypeInv'
  <1> USE DEF TypeInv, SupWait, factVars, planVars, runVars, mailVars, memVars
  <1>1. RunType' /\ WkType' /\ ExpType'
    BY RunFrame, WkFrame, ExpFrame
  <1>2. FactType'
    BY DEF FactType, SupType
  <1>3. SupType'
    BY DEF SupType, SupPcs
  <1>4. WaitType'
    <2>1. sup[r].patch.rev \in 1 .. revision[r]
      BY DEF SupType
    <2> DEFINE w == [rev |-> sup[r].patch.rev, stages |-> sup[r].patch.waiting]
    <2>2. waits' = [waits EXCEPT ![r] = @ \cup {w}] /\ revision' = revision
      OBVIOUS
    <2>3. w.rev \in 1 .. revision[r]
      BY <2>1
    <2> HIDE DEF w
    <2>4. waits' = [q \in Runs |-> waits'[q]]
      BY <2>2 DEF WaitType
    <2>5. \A q \in Runs : waits'[q] = IF q = r THEN waits[r] \cup {w} ELSE waits[q]
      BY <2>2 DEF WaitType
    <2> QED BY <2>2, <2>3, <2>4, <2>5 DEF WaitType
  <1>5. (acked \subseteq sent)'
    OBVIOUS
  <1> QED BY <1>1, <1>2, <1>3, <1>4, <1>5

(* Types are kept by run.paused.                                           *)
LEMMA SupPauseType ==
    ASSUME TypeInv, NEW r \in Runs, SupPause(r)
    PROVE  TypeInv'
  <1> USE DEF TypeInv, SupPause, factVars, planVars, runVars, mailVars, memVars
  <1>1. RunType' /\ WaitType' /\ WkType' /\ ExpType'
    BY RunFrame, WaitFrame, WkFrame, ExpFrame
  <1>2. FactType'
    BY DEF FactType, ProjectRun
  <1>3. SupType'
    BY DEF SupType, SupPcs
  <1>4. (acked \subseteq sent)'
    OBVIOUS
  <1> QED BY <1>1, <1>2, <1>3, <1>4

(* Types are kept by the COMPLETE command.                                 *)
LEMMA SupCompleteType ==
    ASSUME TypeInv, NEW r \in Runs, SupComplete(r)
    PROVE  TypeInv'
  <1> USE DEF TypeInv, SupComplete, factVars, planVars, runVars, mailVars, memVars
  <1>1. RunType' /\ WaitType' /\ WkType' /\ ExpType'
    BY RunFrame, WaitFrame, WkFrame, ExpFrame
  <1>2. FactType'
    BY DEF FactType, ProjectRun
  <1>3. SupType'
    BY DEF SupType, SupPcs
  <1>4. (acked \subseteq sent)'
    OBVIOUS
  <1> QED BY <1>1, <1>2, <1>3, <1>4

(* Types are kept by the acknowledgement of a supervisor.                  *)
LEMMA SupAckType == ASSUME TypeInv, NEW r \in Runs, SupAck(r) PROVE TypeInv'
  <1> USE DEF TypeInv, SupAck, factVars, planVars, runVars, mailVars, memVars
  <1>1. FactType' /\ RunType' /\ WaitType' /\ WkType' /\ ExpType'
    BY FactFrame, RunFrame, WaitFrame, WkFrame, ExpFrame
  <1>2. SupType'
    BY DEF SupType, IdleSup, NoPatch, SupPcs
  <1>3. (acked \subseteq sent)'
    BY DEF SupType
  <1> QED BY <1>1, <1>2, <1>3

(* Types are kept by _begin_leased_step.                                   *)
LEMMA WorkBeginType ==
    ASSUME TypeInv, NEW m \in sent, NEW i, WorkBegin(i, m)
    PROVE  TypeInv'
  <1> USE DEF TypeInv, WorkBegin, factVars, planVars, runVars, mailVars, memVars
  <1>1. FactType' /\ RunType' /\ SupType' /\ WaitType' /\ ExpType'
    BY FactFrame, RunFrame, SupFrame, WaitFrame, ExpFrame
  <1>2. WkType'
    BY DEF WkType, WkPcs
  <1>3. (acked \subseteq sent)'
    OBVIOUS
  <1> QED BY <1>1, <1>2, <1>3

(* Types are kept by a turn of the agent, within its budget.               *)
LEMMA WorkTurnType ==
    ASSUME TypeInv, NEW i \in Ids, WorkTurn(i)
    PROVE  TypeInv'
  <1> USE DEF TypeInv, WorkTurn, factVars, planVars, runVars, mailVars, memVars
  <1>1. SupType' /\ WaitType' /\ ExpType'
    BY SupFrame, WaitFrame, ExpFrame
  <1>2. FactType'
    BY ProjectionType DEF FactType
  <1>3. RunType'
    <2>1. CASE ended[i] # "none"
      BY <2>1 DEF RunType
    <2>2. ASSUME ended[i] = "none", NEW o \in Outcomes[i[1]],
                 turns' = [turns EXCEPT ![i] = @ + 1],
                 IF o = "more" /\ turns'[i] < MaxTurns THEN UNCHANGED ended
                 ELSE ended' = [ended EXCEPT ![i] =
                           IF o = "submitted" THEN "submitted" ELSE "stopped"]
          PROVE  RunType'
      <3>1. turns[i] + 1 \in 0 .. MaxTurns /\ turns'[i] = turns[i] + 1
        BY <2>2, TeamConstants DEF RunType
      <3>2. turns' \in [Ids -> 0 .. MaxTurns]
        BY <2>2, <3>1 DEF RunType
      <3>3. \A j \in Ids : ended'[j] = "none" => turns'[j] < MaxTurns
        BY <2>2, <3>1 DEF RunType
      <3> QED BY <2>2, <3>2, <3>3 DEF RunType
    <2> QED BY <2>1, <2>2
  <1>4. WkType'
    BY DEF WkType, WkPcs, WkStep, RunType
  <1>5. (acked \subseteq sent)'
    OBVIOUS
  <1> QED BY <1>1, <1>2, <1>3, <1>4, <1>5

(* Types are kept by the commit of a result.                               *)
LEMMA WorkCommitType ==
    ASSUME TypeInv, NEW i \in Ids, WorkCommit(i)
    PROVE  TypeInv'
  <1> USE DEF TypeInv, WorkCommit, factVars, planVars, runVars, mailVars, memVars
  <1>1. SupType' /\ WaitType' /\ ExpType'
    BY SupFrame, WaitFrame, ExpFrame
  <1>2. FactType'
    <2>1. asg' \in [Ids -> Assignments]
      BY ProjectionType DEF FactType
    <2>2. recorded' \in [Runs -> [Stages -> Nat]]
      <3>1. i[1] \in Runs /\ i[2] \in Stages
        BY IdParts
      <3>2. recorded[i[1]][i[2]] + 1 \in Nat
        BY <3>1 DEF FactType
      <3>3. [recorded[i[1]] EXCEPT ![i[2]] = @ + 1] \in [Stages -> Nat]
        BY <3>1, <3>2 DEF FactType
      <3> QED BY <3>1, <3>3 DEF FactType
    <2> QED BY <2>1, <2>2 DEF FactType
  <1>3. RunType'
    BY DEF RunType
  <1>4. WkType'
    BY DEF WkType, WkPcs, WkStep
  <1>5. (acked \subseteq sent)'
    OBVIOUS
  <1> QED BY <1>1, <1>2, <1>3, <1>4, <1>5

(* Types are kept by the routing of a decision.                            *)
LEMMA WorkRouteType ==
    ASSUME TypeInv, NEW i \in Ids, WorkRoute(i)
    PROVE  TypeInv'
  <1> USE DEF TypeInv, WorkRoute, factVars, planVars, runVars, mailVars, memVars
  <1>1. FactType' /\ RunType' /\ SupType' /\ WaitType' /\ ExpType'
    BY FactFrame, RunFrame, SupFrame, WaitFrame, ExpFrame
  <1>2. WkType'
    BY DEF WkType, WkPcs, WkStep
  <1>3. (acked \subseteq sent)'
    OBVIOUS
  <1> QED BY <1>1, <1>2, <1>3

(* Types are kept by assignment.failed.                                    *)
LEMMA WorkFailType ==
    ASSUME TypeInv, NEW i \in Ids, WorkFail(i)
    PROVE  TypeInv'
  <1> USE DEF TypeInv, WorkFail, factVars, planVars, runVars, mailVars, memVars
  <1>1. RunType' /\ SupType' /\ WaitType' /\ ExpType'
    BY RunFrame, SupFrame, WaitFrame, ExpFrame
  <1>2. FactType'
    BY DEF FactType, Assignments, ProjectAssignment
  <1>3. WkType'
    BY DEF WkType, WkPcs, WkStep
  <1>4. (acked \subseteq sent)'
    OBVIOUS
  <1> QED BY <1>1, <1>2, <1>3, <1>4

(* Types are kept by the release of a lease.                               *)
LEMMA WorkReleaseType ==
    ASSUME TypeInv, NEW i \in Ids, WorkRelease(i)
    PROVE  TypeInv'
  <1> USE DEF TypeInv, WorkRelease, factVars, planVars, runVars, mailVars, memVars
  <1>1. RunType' /\ SupType' /\ WaitType' /\ ExpType'
    BY RunFrame, SupFrame, WaitFrame, ExpFrame
  <1>2. FactType'
    BY ProjectionType DEF FactType
  <1>3. WkType'
    BY DEF WkType, WkPcs, WkStep
  <1>4. (acked \subseteq sent)'
    OBVIOUS
  <1> QED BY <1>1, <1>2, <1>3, <1>4

(* Types are kept by the nudge after a failure.                            *)
LEMMA WorkNudgeType ==
    ASSUME TypeInv, NEW i \in Ids, WorkNudge(i)
    PROVE  TypeInv'
  <1> USE DEF TypeInv, WorkNudge, factVars, planVars, runVars, mailVars, memVars
  <1>1. FactType' /\ RunType' /\ SupType' /\ WaitType' /\ ExpType'
    BY FactFrame, RunFrame, SupFrame, WaitFrame, ExpFrame
  <1>2. WkType'
    BY DEF WkType, WkPcs, WkStep
  <1>3. (acked \subseteq sent)'
    OBVIOUS
  <1> QED BY <1>1, <1>2, <1>3

(* Types are kept by the acknowledgement of a worker.                      *)
LEMMA WorkAckType == ASSUME TypeInv, NEW i \in Ids, WorkAck(i) PROVE TypeInv'
  <1> USE DEF TypeInv, WorkAck, factVars, planVars, runVars, mailVars, memVars
  <1>1. FactType' /\ RunType' /\ SupType' /\ WaitType' /\ ExpType'
    BY FactFrame, RunFrame, SupFrame, WaitFrame, ExpFrame
  <1>2. WkType'
    BY DEF WkType, WkPcs, IdleWk
  <1>3. (acked \subseteq sent)'
    BY DEF WkType
  <1> QED BY <1>1, <1>2, <1>3

(* Types are kept by an exception of a worker.                             *)
LEMMA WorkRaiseType ==
    ASSUME TypeInv, NEW i \in Ids, WorkRaise(i)
    PROVE  TypeInv'
  <1> USE DEF TypeInv, WorkRaise, factVars, planVars, runVars, mailVars, memVars
  <1>1. RunType' /\ SupType' /\ WaitType' /\ ExpType'
    BY RunFrame, SupFrame, WaitFrame, ExpFrame
  <1>2. FactType'
    BY DEF FactType
  <1>3. WkType'
    BY DEF WkType, WkPcs, IdleWk
  <1>4. (acked \subseteq sent)'
    OBVIOUS
  <1> QED BY <1>1, <1>2, <1>3, <1>4

(* Types are kept by a deadline that passes.                               *)
LEMMA DeadlineType ==
    ASSUME TypeInv, NEW i \in Ids, Deadline(i)
    PROVE  TypeInv'
  <1> USE DEF TypeInv, Deadline, factVars, planVars, runVars, mailVars, memVars
  <1>1. RunType' /\ SupType' /\ WaitType' /\ WkType' /\ ExpType'
    BY RunFrame, SupFrame, WaitFrame, WkFrame, ExpFrame
  <1>2. FactType'
    BY DEF FactType, Assignments
  <1>3. (acked \subseteq sent)'
    OBVIOUS
  <1> QED BY <1>1, <1>2, <1>3

(* Types are kept by the snapshot of the expiry.                           *)
LEMMA ExpireSnapshotType == ASSUME TypeInv, ExpireSnapshot PROVE TypeInv'
  <1> USE DEF TypeInv, ExpireSnapshot, factVars, planVars, runVars, mailVars, memVars
  <1>1. FactType' /\ RunType' /\ SupType' /\ WaitType' /\ WkType'
    BY FactFrame, RunFrame, SupFrame, WaitFrame, WkFrame
  <1>2. ExpType'
    BY DEF ExpType
  <1>3. (acked \subseteq sent)'
    OBVIOUS
  <1> QED BY <1>1, <1>2, <1>3

(* Types are kept by assignment.expired.                                   *)
LEMMA ExpireAssignmentType ==
    ASSUME TypeInv, NEW i \in Ids, ExpireAssignment(i)
    PROVE  TypeInv'
  <1> USE DEF TypeInv, ExpireAssignment, factVars, planVars, runVars, mailVars, memVars
  <1>1. RunType' /\ SupType' /\ WaitType' /\ WkType'
    BY RunFrame, SupFrame, WaitFrame, WkFrame
  <1>2. FactType'
    BY DEF FactType, Assignments, ProjectAssignment
  <1>3. ExpType'
    BY DEF ExpType
  <1>4. (acked \subseteq sent)'
    OBVIOUS
  <1> QED BY <1>1, <1>2, <1>3, <1>4

(* Types are kept by assignment.lease.expired.                             *)
LEMMA ExpireLeaseType == ASSUME TypeInv, ExpireLease PROVE TypeInv'
  <1> USE DEF TypeInv, ExpireLease, factVars, planVars, runVars, mailVars, memVars
  <1>1. RunType' /\ SupType' /\ WaitType' /\ WkType'
    BY RunFrame, SupFrame, WaitFrame, WkFrame
  <1>2. FactType'
    BY ProjectionType DEF FactType, ExpType
  <1>3. ExpType'
    BY DEF ExpType
  <1>4. (acked \subseteq sent)'
    OBVIOUS
  <1> QED BY <1>1, <1>2, <1>3, <1>4

(* Types are kept by the delivery of an expiry.                            *)
LEMMA ExpireDeliverType == ASSUME TypeInv, ExpireDeliver PROVE TypeInv'
  <1> USE DEF TypeInv, ExpireDeliver, factVars, planVars, runVars, mailVars, memVars
  <1>1. FactType' /\ RunType' /\ SupType' /\ WaitType' /\ WkType'
    BY FactFrame, RunFrame, SupFrame, WaitFrame, WkFrame
  <1>2. ExpType'
    BY DEF ExpType, IdleExp
  <1>3. (acked \subseteq sent)'
    OBVIOUS
  <1> QED BY <1>1, <1>2, <1>3

(* Types are kept by _reconcile_routes.                                    *)
LEMMA ReconcileType == ASSUME TypeInv, Reconcile PROVE TypeInv'
  <1> USE DEF TypeInv, Reconcile, factVars, planVars, runVars, mailVars, memVars
  <1>1. RunType' /\ SupType' /\ WaitType' /\ WkType' /\ ExpType'
    BY RunFrame, SupFrame, WaitFrame, WkFrame, ExpFrame
  <1>2. FactType'
    BY DEF FactType
  <1>3. (acked \subseteq sent)'
    OBVIOUS
  <1> QED BY <1>1, <1>2, <1>3

(* The naturals are well ordered.                                          *)
LEMMA NatMin ==
    ASSUME NEW T, T \subseteq Nat, T # {}
    PROVE  \E x \in T : \A y \in T : x <= y
  <1> DEFINE R == OpToRel(<, Nat)
  <1>1. \A x, y \in Nat : y < x => <<y, x>> \in R
    BY DEF OpToRel
  <1>2. IsWellFoundedOn(R, Nat)
    BY NatLessThanWellFounded
  <1> HIDE DEF R
  <1>3. PICK x \in T : \A y \in T : ~ (<<y, x>> \in R)
    BY <1>2, WFMin
  <1>4. ASSUME NEW y \in T PROVE x <= y
    <2>1. x \in Nat /\ y \in Nat
      OBVIOUS
    <2>2. ~(y < x)
      BY <1>1, <1>3, <2>1
    <2> QED BY <2>1, <2>2
  <1> QED BY <1>4

(* A nonempty set of attempts or revisions has a last one.                 *)
LEMMA BoundedMax ==
    ASSUME NEW n \in Nat, NEW T, T \subseteq 1 .. n, T # {}
    PROVE  \E x \in T : \A y \in T : y <= x
  <1> DEFINE U == { n - y : y \in T }
  <1>1. U \subseteq Nat
    OBVIOUS
  <1>2. U # {}
    OBVIOUS
  <1> HIDE DEF U
  <1>3. PICK z \in U : \A u \in U : z <= u
    BY <1>1, <1>2, NatMin
  <1>4. PICK x \in T : z = n - x
    BY DEF U
  <1>5. \A y \in T : n - x <= n - y
    BY <1>3, <1>4 DEF U
  <1>6. \A y \in T : y <= x
    BY <1>5
  <1> QED BY <1>6

(* The wait a new process takes up is one of the run's, or none.           *)
LEMMA LastWaitType ==
    ASSUME TypeInv, NEW r \in Runs PROVE LastWait(r) \in Nat
  <1>1. CASE waits[r] = {}
    BY <1>1 DEF LastWait
  <1>2. CASE waits[r] # {}
    <2> DEFINE T == { w.rev : w \in waits[r] }
    <2>1. T # {} /\ T \subseteq 1 .. revision[r] /\ revision[r] \in Nat
      BY <1>2 DEF TypeInv, WaitType, FactType
    <2>2. PICK n \in T : \A y \in T : y <= n
      BY <2>1, BoundedMax
    <2>3. \A w \in waits[r] : w.rev <= n
      BY <2>2
    <2>4. LastWait(r) = CHOOSE k \in T : \A w \in waits[r] : w.rev <= k
      BY <1>2 DEF LastWait
    <2>5. LastWait(r) \in T
      BY <2>2, <2>3, <2>4
    <2> QED BY <2>1, <2>5
  <1> QED BY <1>1, <1>2

(* A process that dies leaves a state of the right type to the next.       *)
LEMMA CrashType == ASSUME TypeInv, Crash PROVE TypeInv'
  <1> USE DEF TypeInv, Crash, factVars, planVars, runVars
  <1>1. RunType' /\ WaitType'
    BY RunFrame, WaitFrame
  <1>2. FactType'
    <2>1. waiter' \in [Runs -> Nat]
      BY LastWaitType
    <2> QED BY <2>1 DEF FactType
  <1>3. SupType'
    BY DEF SupType, IdleSup, NoPatch, SupPcs
  <1>4. WkType' /\ ExpType'
    BY DEF WkType, WkPcs, IdleWk, ExpType, IdleExp
  <1>5. (acked \subseteq sent)'
    OBVIOUS
  <1> QED BY <1>1, <1>2, <1>3, <1>4, <1>5

-----------------------------------------------------------------------------
(* What the kernel has checked when it accepts a plan.                     *)

(* The stages are ordered by their ids.                                    *)
LEMMA PosOrder ==
    ASSUME NEW r \in Runs
    PROVE  /\ \A s : Pos(s) \in Nat
           /\ \A s, t \in Stages : Pos(s) = Pos(t) => s = t
  <1>1. DOMAIN StageSeq = 1 .. Len(StageSeq) /\ Len(StageSeq) \in Nat
    BY TeamConstants DEF ValidGraph
  <1>2. \A s \in Stages : \E n \in DOMAIN StageSeq : StageSeq[n] = s
    BY DEF Stages, Range
  <1>3. DOMAIN StageSeq # {}
    BY <1>2, TeamConstants DEF ValidGraph
  <1>4. \A s : \E n \in DOMAIN StageSeq : s \in Stages => StageSeq[n] = s
    BY <1>2, <1>3
  <1>5. \A s : Pos(s) \in DOMAIN StageSeq /\ (s \in Stages => StageSeq[Pos(s)] = s)
    BY <1>4 DEF Pos
  <1> QED BY <1>1, <1>5

(* The stages are finitely many.                                           *)
LEMMA StagesFinite == IsFiniteSet(Stages)
  <1>1. DOMAIN StageSeq = 1 .. Len(StageSeq) /\ Len(StageSeq) \in Nat
        /\ StageSeq \in [1 .. Len(StageSeq) -> Stages]
    BY TeamConstants DEF ValidGraph
  <1>2. StageSeq \in Surjection(1 .. Len(StageSeq), Stages)
    BY <1>1 DEF Surjection, Stages, Range
  <1>3. IsFiniteSet(1 .. Len(StageSeq))
    BY <1>1, FS_Interval
  <1> QED BY <1>2, <1>3, FS_Surjection

(* Attempts is the number of the last attempt: every id beyond it is free. *)
LEMMA AttemptsLast ==
    ASSUME FactType, NEW r \in Runs, NEW s \in StagesOf[r]
    PROVE  /\ Attempts(r, s) \in Nat
           /\ \A i \in IdsOf(r, s) : asg[i].status # "none" => i[3] <= Attempts(r, s)
  <1> DEFINE made == { i \in IdsOf(r, s) : asg[i].status # "none" }
             T == { i[3] : i \in made }
  <1>1. CASE made = {}
    BY <1>1 DEF Attempts
  <1>2. CASE made # {}
    <2>1. T # {} /\ T \subseteq 1 .. MaxAttempts /\ MaxAttempts \in Nat
      BY <1>2, TeamConstants DEF IdsOf
    <2>2. PICK n \in T : \A y \in T : y <= n
      BY <2>1, BoundedMax
    <2>3. n \in 1 .. MaxAttempts /\ (\E i \in made : i[3] = n) /\ (\A i \in made : i[3] <= n)
      BY <2>1, <2>2
    <2>4. Attempts(r, s) = CHOOSE k \in 1 .. MaxAttempts :
              (\E i \in made : i[3] = k) /\ (\A i \in made : i[3] <= k)
      BY <1>2 DEF Attempts
    <2> HIDE DEF made, T
    <2>5. Attempts(r, s) \in 1 .. MaxAttempts /\ \A i \in made : i[3] <= Attempts(r, s)
      BY <2>3, <2>4
    <2> QED BY <2>5, <2>1 DEF made
  <1> QED BY <1>1, <1>2


(* FirstRefusal finds a refused proposal whenever there is one.            *)
LEMMA NoRefusal ==
    ASSUME NEW r \in Runs, NEW patch, FirstRefusal(r, patch) = "ok"
    PROVE  \A p \in patch.assign : ProposalVerdict(r, patch, p) = "ok"
  <1> DEFINE bad == { p \in patch.assign : ProposalVerdict(r, patch, p) # "ok" }
             first == CHOOSE p \in bad : \A q \in bad : Pos(p.stage) <= Pos(q.stage)
  <1>1. SUFFICES ASSUME bad # {} PROVE FALSE
    OBVIOUS
  <1> DEFINE T == { Pos(p.stage) : p \in bad }
  <1>2. T \subseteq Nat /\ T # {}
    BY <1>1, PosOrder
  <1>3. PICK n \in T : \A y \in T : n <= y
    BY <1>2, NatMin
  <1>4. \E p \in bad : \A q \in bad : Pos(p.stage) <= Pos(q.stage)
    BY <1>3
  <1>5. first \in bad
    BY <1>4
  <1>6. FirstRefusal(r, patch) = ProposalVerdict(r, patch, first)
    BY <1>1 DEF FirstRefusal
  <1> QED BY <1>5, <1>6

(* _validate_plan_patch's checks of the whole patch.                       *)
LEMMA PlanAdmitted ==
    ASSUME NEW r \in Runs, NEW patch, ValidatePlanPatch(r, patch) = "ok"
    PROVE  /\ patch.rev = revision[r] + 1
           /\ \A p, q \in patch.assign : p.stage = q.stage => p = q
           /\ patch.complete => Completed(r) = StagesOf[r] /\ patch.assign = {}
           /\ ~(Cardinality(ActiveLeasesOf(r)) + Cardinality(patch.assign) > MaxParallel)
           /\ \A p \in patch.assign : ProposalVerdict(r, patch, p) = "ok"
  <1>1. FirstRefusal(r, patch) = "ok"
    BY DEF ValidatePlanPatch
  <1>2. \A p \in patch.assign : ProposalVerdict(r, patch, p) = "ok"
    BY <1>1, NoRefusal
  <1>3. /\ patch.rev = revision[r] + 1
        /\ \A p, q \in patch.assign : p.stage = q.stage => p = q
        /\ patch.complete => Completed(r) = StagesOf[r] /\ patch.assign = {}
        /\ ~(Cardinality(ActiveLeasesOf(r)) + Cardinality(patch.assign) > MaxParallel)
    BY DEF ValidatePlanPatch
  <1> QED BY <1>2, <1>3

(* The proposals of an accepted plan are finitely many: one for a stage.   *)
LEMMA AssignFinite ==
    ASSUME NEW r \in Runs, NEW patch, ValidatePlanPatch(r, patch) = "ok"
    PROVE  /\ IsFiniteSet(patch.assign)
           /\ \A p \in patch.assign : p.stage \in StagesOf[r] /\ p.stage \in Stages
  <1>1. \A p \in patch.assign : p.stage \in StagesOf[r] /\ p.stage \in Stages
    <2> SUFFICES ASSUME NEW p \in patch.assign PROVE p.stage \in StagesOf[r]
      BY TeamConstants DEF ValidGraph
    <2>1. ProposalVerdict(r, patch, p) = "ok"
      BY PlanAdmitted
    <2> QED BY <2>1 DEF ProposalVerdict
  <1> DEFINE f == [p \in patch.assign |-> p.stage]
  <1>2. f \in [patch.assign -> Stages]
    BY <1>1
  <1>3. \A p, q \in patch.assign : f[p] = f[q] => p = q
    BY PlanAdmitted
  <1>4. f \in Injection(patch.assign, Stages)
    BY <1>2, <1>3 DEF Injection, IsInjective
  <1>5. IsFiniteSet(patch.assign)
    BY <1>4, StagesFinite, FS_Injection
  <1> QED BY <1>1, <1>5

-----------------------------------------------------------------------------
(* Leases.                                                                 *)

(* A lease belongs to an attempt that exists and to a capable agent.       *)
LeasesHeld ==
    \A i \in Ids : Active(i) =>
        asg[i].status # "none" /\ asg[i].agent \in Capable[i[2]]

(* An agent works on one stage at a time, of whichever run.                *)
OneLeasePerAgent ==
    \A i, j \in Ids : Active(i) /\ Active(j) /\ asg[i].agent = asg[j].agent => i = j

(* A stage of a run is worked on by one agent at a time.                   *)
OneLeasePerStage ==
    \A i, j \in Ids : Active(i) /\ Active(j) /\ i[1] = j[1] /\ i[2] = j[2] => i = j

(* A completed stage is not worked on.                                     *)
DoneStagesFree ==
    \A i, j \in Ids :
        Active(i) /\ asg[j].status = "succeeded" => i[1] # j[1] \/ i[2] # j[2]

(* What the leases of a team keep true.                                    *)
LeaseInv == LeasesHeld /\ OneLeasePerAgent /\ OneLeasePerStage /\ DoneStagesFree

(* With one lease at most, the load of an agent is 0 or 1.                 *)
LEMMA LoadOfAgent ==
    ASSUME OneLeasePerAgent, NEW a
    PROVE  /\ ActiveLoad(a) \in {0, 1}
           /\ ActiveLoad(a) = 0 => \A i \in Ids : Active(i) => asg[i].agent # a
  <1> DEFINE S == { i \in Ids : Active(i) /\ asg[i].agent = a }
  <1>1. ActiveLoad(a) = Cardinality(S)
    BY DEF ActiveLoad
  <1>2. CASE S = {}
    BY <1>1, <1>2, FS_EmptySet
  <1>3. CASE S # {}
    <2>1. PICK i \in S : TRUE
      BY <1>3
    <2>2. S = {i}
      BY <2>1 DEF OneLeasePerAgent
    <2>3. Cardinality(S) = 1
      BY <2>2, FS_Singleton
    <2> QED BY <1>1, <2>3
  <1> QED BY <1>2, <1>3

(* ... and of each of its proposals, against what is held at the moment of *)
(* the commit and what the plan itself hands out.                          *)
LEMMA ProposalAdmitted ==
    ASSUME TypeInv, LeaseInv, NEW r \in Runs, NEW patch,
           ValidatePlanPatch(r, patch) = "ok", NEW p \in patch.assign
    PROVE  /\ p.stage \in StagesOf[r] \ (Completed(r) \cup ActiveStages(r))
           /\ DependsOn[p.stage] \subseteq Completed(r)
           /\ p.attempt = Attempts(r, p.stage) + 1
           /\ p.agent \in Capable[p.stage] /\ p.agent \in Agents
           /\ \A i \in Ids : Active(i) => asg[i].agent # p.agent
           /\ \A q \in patch.assign \ {p} : q.agent # p.agent /\ q.stage # p.stage
  <1>1. \A q \in patch.assign : ProposalVerdict(r, patch, q) = "ok"
    BY PlanAdmitted
  <1>2. /\ p.stage \in StagesOf[r] \ (Completed(r) \cup ActiveStages(r))
        /\ DependsOn[p.stage] \subseteq Completed(r)
        /\ p.attempt = Attempts(r, p.stage) + 1
        /\ p.agent \in Capable[p.stage]
    BY <1>1 DEF ProposalVerdict
  <1>3. p.agent \in Agents
    BY <1>2, TeamConstants DEF ValidGraph
  <1>4. ASSUME NEW q \in patch.assign
        PROVE  ActiveLoad(q.agent) = 0 /\ PlannedBefore(patch, q) = {}
    <2>1. ActiveLoad(q.agent) \in {0, 1}
      BY LoadOfAgent DEF LeaseInv
    <2>2. IsFiniteSet(PlannedBefore(patch, q))
      <3>1. PlannedBefore(patch, q) \in SUBSET patch.assign
        BY DEF PlannedBefore
      <3> QED BY <3>1, AssignFinite, FS_Subset
    <2>3. Cardinality(PlannedBefore(patch, q)) \in Nat
      BY <2>2, FS_CardinalityType
    <2>4. ~(ActiveLoad(q.agent) + Cardinality(PlannedBefore(patch, q)) + 1 > 1)
      BY <1>1 DEF ProposalVerdict, MaxConcurrency
    <2>5. ActiveLoad(q.agent) = 0 /\ Cardinality(PlannedBefore(patch, q)) = 0
      BY <2>1, <2>3, <2>4
    <2> QED BY <2>2, <2>5, FS_EmptySet
  <1>5. \A i \in Ids : Active(i) => asg[i].agent # p.agent
    BY <1>4, LoadOfAgent DEF LeaseInv
  <1>6. ASSUME NEW q \in patch.assign \ {p} PROVE q.agent # p.agent /\ q.stage # p.stage
    <2>1. q.stage # p.stage
      BY PlanAdmitted
    <2>2. /\ Pos(q.stage) \in Nat /\ Pos(p.stage) \in Nat
          /\ Pos(q.stage) # Pos(p.stage)
      BY <2>1, PosOrder, AssignFinite
    <2>3. Pos(q.stage) < Pos(p.stage) \/ Pos(p.stage) < Pos(q.stage)
      BY <2>2
    <2>4. q \notin PlannedBefore(patch, p) /\ p \notin PlannedBefore(patch, q)
      BY <1>4
    <2> QED BY <2>1, <2>3, <2>4 DEF PlannedBefore
  <1> QED BY <1>2, <1>3, <1>5, <1>6


(* The id of a proposal; an accepted plan creates the attempts it names.   *)
IdFor(r, p) == <<r, p.stage, p.attempt>>

(* The assignment an accepted proposal creates, with its lease.            *)
Leased(p) == [agent |-> p.agent, status |-> "running", lease |-> "active", due |-> FALSE]

(* An accepted plan leaves the attempts there are alone, and hands every   *)
(* new one to the agent of its proposal.                                   *)
LEMMA Granting ==
    ASSUME TypeInv, LeaseInv, NEW r \in Runs, SupCommit(r),
           ValidatePlanPatch(r, sup[r].patch) = "ok"
    PROVE  /\ asg' \in [Ids -> Assignments]
           /\ \A i \in Ids :
                 \/ asg'[i] = asg[i] /\ \A p \in sup[r].patch.assign : i # IdFor(r, p)
                 \/ \E p \in sup[r].patch.assign :
                      /\ i = IdFor(r, p)
                      /\ asg'[i] = Leased(p)
                      /\ asg[i].status = "none" /\ ~Active(i)
  <1> DEFINE patch == sup[r].patch
             granted(i) == { p \in patch.assign : i = IdFor(r, p) }
             given(i) == CHOOSE p \in granted(i) : TRUE
  <1>1. asg' = [i \in Ids |-> IF granted(i) = {} THEN asg[i] ELSE Leased(given(i))]
    BY DEF SupCommit, IdFor, Leased
  <1> HIDE DEF patch
  <1>2. ASSUME NEW i \in Ids, granted(i) # {}
        PROVE  /\ given(i) \in patch.assign /\ i = IdFor(r, given(i))
               /\ Leased(given(i)) \in Assignments
               /\ asg[i].status = "none" /\ ~Active(i)
    <2> DEFINE p == given(i)
    <2>1. p \in patch.assign /\ i = IdFor(r, p)
      BY <1>2
    <2> HIDE DEF p
    <2>2. /\ p.stage \in StagesOf[r] \ (Completed(r) \cup ActiveStages(r))
          /\ p.attempt = Attempts(r, p.stage) + 1
          /\ p.agent \in Agents
      BY <2>1, ProposalAdmitted DEF patch
    <2>3. i \in IdsOf(r, p.stage) /\ i[3] = Attempts(r, p.stage) + 1
      BY <2>1, <2>2, IdParts DEF IdFor, IdsOf
    <2>4. Attempts(r, p.stage) \in Nat /\ ~(i[3] <= Attempts(r, p.stage))
      BY <2>2, <2>3, AttemptsLast DEF TypeInv
    <2>5. asg[i].status = "none"
      BY <2>2, <2>3, <2>4, AttemptsLast DEF TypeInv
    <2>6. ~Active(i)
      BY <2>2, <2>3 DEF ActiveStages
    <2>7. Leased(p) \in Assignments
      BY <2>2 DEF Leased, Assignments
    <2> QED BY <2>1, <2>5, <2>6, <2>7 DEF p
  <1>3. asg' \in [Ids -> Assignments]
    <2>1. asg \in [Ids -> Assignments]
      BY DEF TypeInv, FactType
    <2> HIDE DEF granted, given
    <2> QED BY <1>1, <1>2, <2>1
  <1>4. ASSUME NEW i \in Ids
        PROVE  \/ asg'[i] = asg[i] /\ \A p \in patch.assign : i # IdFor(r, p)
               \/ \E p \in patch.assign :
                      /\ i = IdFor(r, p)
                      /\ asg'[i] = Leased(p)
                      /\ asg[i].status = "none" /\ ~Active(i)
    <2>1. CASE granted(i) = {}
      BY <1>1, <2>1
    <2>2. CASE granted(i) # {}
      <3>1. asg'[i] = Leased(given(i))
        BY <1>1, <2>2
      <3> HIDE DEF granted, given
      <3> QED BY <1>2, <2>2, <3>1
    <2> QED BY <2>1, <2>2
  <1> QED BY <1>3, <1>4 DEF patch

(* commit_command keeps the types: the rows it writes come from proposals  *)
(* the kernel has checked.                                                 *)
LEMMA SupCommitType ==
    ASSUME TypeInv, LeaseInv, NEW r \in Runs, SupCommit(r)
    PROVE  TypeInv'
  <1> DEFINE patch == sup[r].patch
             v == ValidatePlanPatch(r, patch)
  <1>0. /\ sup[r].pc = "commit" /\ sent \subseteq sent'
        /\ sup' = [sup EXCEPT ![r].ok = (v = "ok"), ![r].pc =
                IF sup[r].msg.kind = "capacity" THEN "resume"
                ELSE AfterPlan(r, v = "ok")]
        /\ v = "ok" => revision' = [revision EXCEPT ![r] = patch.rev]
        /\ v # "ok" => UNCHANGED <<revision, asg>>
        /\ v = "ok" => UNCHANGED refused
        /\ v # "ok" => refused' = [refused EXCEPT
                        ![r] = IF v = "concurrency" THEN @ + 1 ELSE @]
        /\ UNCHANGED <<status, agent, recorded, waits, resumed, runVars, acked,
                   wk, exp, waiter, dirty, late, faults>>
    BY DEF SupCommit
  <1>1. v = "ok" => patch.rev = revision[r] + 1
    BY PlanAdmitted
  <1>2. v = "ok" => asg' \in [Ids -> Assignments]
    BY Granting
  <1> HIDE DEF v
  <1>3. RunType' /\ WkType' /\ ExpType'
    BY <1>0, RunFrame, WkFrame, ExpFrame DEF TypeInv
  <1>4. revision' \in [Runs -> Nat] /\ \A q \in Runs : revision[q] <= revision'[q]
    <2>1. revision \in [Runs -> Nat]
      BY DEF TypeInv, FactType
    <2>2. CASE v = "ok"
      <3>1. revision' = [revision EXCEPT ![r] = revision[r] + 1]
        BY <1>0, <1>1, <2>2
      <3> QED BY <2>1, <3>1
    <2>3. CASE v # "ok"
      BY <1>0, <2>1, <2>3
    <2> QED BY <2>2, <2>3
  <1>5. FactType'
    <2>1. asg' \in [Ids -> Assignments]
      BY <1>0, <1>2 DEF TypeInv, FactType
    <2>2. refused' \in [Runs -> Nat]
      BY <1>0 DEF TypeInv, FactType
    <2> QED BY <1>0, <1>4, <2>1, <2>2 DEF TypeInv, FactType
  <1>6. WaitType'
    <2>1. revision \in [Runs -> Nat]
      BY DEF TypeInv, FactType
    <2>2. ASSUME NEW q \in Runs, NEW w \in waits[q] PROVE w.rev \in 1 .. revision'[q]
      <3>1. w.rev \in 1 .. revision[q]
        BY DEF TypeInv, WaitType
      <3> QED BY <1>4, <2>1, <3>1
    <2> QED BY <1>0, <2>2 DEF TypeInv, WaitType
  <1>7. SupType'
    <2>1. revision \in [Runs -> Nat] /\ sup = [q \in Runs |-> sup[q]]
      BY DEF TypeInv, FactType, SupType
    <2>2. ASSUME NEW q \in Runs, q # r
          PROVE  /\ sup'[q] = sup[q]
                 /\ sup[q].ok => sup[q].patch.rev \in 1 .. revision'[q]
      BY <1>0, <1>4, <2>1, <2>2 DEF TypeInv, SupType
    <2>3. /\ sup'[r] \in [pc : SupPcs, msg : {sup[r].msg}, patch : {sup[r].patch},
                         ok : BOOLEAN, bury : SUBSET Ids]
          /\ sup'[r].ok = (v = "ok") /\ (sup'[r].pc = "follow" => v = "ok")
      <3>1. sup[r] \in [pc : SupPcs, msg : {sup[r].msg}, patch : {sup[r].patch},
                         ok : BOOLEAN, bury : SUBSET Ids]
        BY DEF TypeInv, SupType
      <3> DEFINE next == IF sup[r].msg.kind = "capacity" THEN "resume"
                         ELSE AfterPlan(r, v = "ok")
      <3>2. next \in SupPcs /\ (next = "follow" => v = "ok")
        BY DEF AfterPlan, SupPcs
      <3>3. sup'[r] = [sup[r] EXCEPT !.ok = (v = "ok"), !.pc = next]
        BY <1>0, <2>1
      <3>4. (v = "ok") \in BOOLEAN
        OBVIOUS
      <3> HIDE DEF next
      <3> QED BY <3>1, <3>2, <3>3, <3>4
    <2>4. v = "ok" => patch.rev \in 1 .. revision'[r]
      BY <1>0, <1>1, <2>1, <1>4
    <2>5. sup' = [q \in Runs |-> sup'[q]]
      BY <1>0, <2>1
    <2> QED BY <1>0, <2>2, <2>3, <2>4, <2>5 DEF TypeInv, SupType
  <1>8. (acked \subseteq sent)'
    BY <1>0 DEF TypeInv
  <1> QED BY <1>3, <1>5, <1>6, <1>7, <1>8 DEF TypeInv


-----------------------------------------------------------------------------
(* What one step does to the assignments: nothing, a projection of one of  *)
(* them, a result, or a plan.                                              *)

(* The projection of a fact on an assignment and its lease: the first end  *)
(* wins, and only a result makes an attempt succeed.                       *)
Projects(i) ==
    /\ asg' = [asg EXCEPT ![i] = asg'[i]]
    /\ asg'[i].agent = asg[i].agent
    /\ asg'[i].status # asg[i].status =>
          asg[i].status = "running" /\ asg'[i].status \in {"failed", "expired"}
    /\ asg'[i].lease # asg[i].lease =>
          asg[i].lease = "active" /\ asg'[i].lease \in {"released", "expired"}

(* A step that moves no assignment may close a run.                        *)
Closes(r) == SupFailRun(r) \/ SupPause(r) \/ SupComplete(r)

(* The kinds of steps, as the assignments see them.                        *)
StepKind ==
    \/ UNCHANGED <<asg, recorded>> /\ (UNCHANGED status \/ \E r \in Runs : Closes(r))
    \/ UNCHANGED <<recorded, status>> /\ \E i \in Ids : Projects(i)
    \/ \E i \in Ids : WorkCommit(i)
    \/ \E r \in Runs : SupCommit(r)

(* The projections, field by field.                                        *)
LEMMA ProjectionFields ==
    ASSUME NEW a \in Assignments, NEW s
    PROVE  /\ ProjectAssignment(a, s).agent = a.agent
           /\ ProjectAssignment(a, s).lease = a.lease
           /\ ProjectAssignment(a, s).due = a.due
           /\ ProjectAssignment(a, s).status = IF a.status = "running" THEN s ELSE a.status
           /\ ProjectLease(a, s).agent = a.agent
           /\ ProjectLease(a, s).status = a.status
           /\ ProjectLease(a, s).lease =
                 IF a.lease = "active" /\ s # "renewed" THEN s ELSE a.lease
  BY DEF ProjectAssignment, ProjectLease, Assignments

(* A new row for one assignment that only moves it forward is a            *)
(* projection.                                                             *)
LEMMA ProjectsOf ==
    ASSUME TypeInv, NEW i \in Ids, NEW a,
           asg' = [asg EXCEPT ![i] = a],
           a.agent = asg[i].agent,
           a.status # asg[i].status =>
              asg[i].status = "running" /\ a.status \in {"failed", "expired"},
           a.lease # asg[i].lease =>
              asg[i].lease = "active" /\ a.lease \in {"released", "expired"}
    PROVE  Projects(i)
  <1>1. asg'[i] = a
    BY DEF TypeInv, FactType
  <1> QED BY <1>1 DEF Projects

(* The three ways in which the code projects on an assignment.             *)
LEMMA ProjectsStatus ==
    ASSUME TypeInv, NEW i \in Ids, NEW s \in {"failed", "expired"},
           asg' = [asg EXCEPT ![i] = ProjectAssignment(@, s)]
    PROVE  Projects(i)
  <1> DEFINE a == ProjectAssignment(asg[i], s)
  <1>1. asg[i] \in Assignments
    BY DEF TypeInv, FactType
  <1>2. /\ a.agent = asg[i].agent /\ a.lease = asg[i].lease
        /\ a.status = IF asg[i].status = "running" THEN s ELSE asg[i].status
    BY <1>1, ProjectionFields
  <1>3. asg' = [asg EXCEPT ![i] = a]
    OBVIOUS
  <1> HIDE DEF a
  <1> QED BY <1>2, <1>3, ProjectsOf

(* _project_lease on a renewal, a release or an expiry.                    *)
LEMMA ProjectsLease ==
    ASSUME TypeInv, NEW i \in Ids, NEW s \in {"renewed", "released", "expired"},
           asg' = [asg EXCEPT ![i] = ProjectLease(@, s)]
    PROVE  Projects(i)
  <1> DEFINE a == ProjectLease(asg[i], s)
  <1>1. asg[i] \in Assignments
    BY DEF TypeInv, FactType
  <1>2. /\ a.agent = asg[i].agent /\ a.status = asg[i].status
        /\ a.lease = IF asg[i].lease = "active" /\ s # "renewed" THEN s ELSE asg[i].lease
    BY <1>1, ProjectionFields
  <1>3. asg' = [asg EXCEPT ![i] = a]
    OBVIOUS
  <1> HIDE DEF a
  <1> QED BY <1>2, <1>3, ProjectsOf

(* _fail_running_run_for_dead_letter: both at once.                        *)
LEMMA ProjectsBurial ==
    ASSUME TypeInv, NEW i \in Ids,
           asg' = [asg EXCEPT ![i] =
                      ProjectLease(ProjectAssignment(@, "failed"), "released")]
    PROVE  Projects(i)
  <1> DEFINE b == ProjectAssignment(asg[i], "failed")
             a == ProjectLease(b, "released")
  <1>1. asg[i] \in Assignments
    BY DEF TypeInv, FactType
  <1>2. /\ b \in Assignments /\ b.agent = asg[i].agent /\ b.lease = asg[i].lease
        /\ b.status = IF asg[i].status = "running" THEN "failed" ELSE asg[i].status
    BY <1>1, ProjectionFields, ProjectionType
  <1>3. /\ a.agent = b.agent /\ a.status = b.status
        /\ a.lease = IF b.lease = "active" THEN "released" ELSE b.lease
    BY <1>2, ProjectionFields
  <1>4. asg' = [asg EXCEPT ![i] = a]
    OBVIOUS
  <1> HIDE DEF a, b
  <1> QED BY <1>2, <1>3, <1>4, ProjectsOf

(* Every step is of one of these kinds.                                    *)
LEMMA StepKinds == ASSUME TypeInv, [Next]_vars PROVE StepKind
  <1> USE DEF factVars, planVars, runVars, mailVars, memVars
  <1>0. asg \in [Ids -> Assignments] /\ \A i \in Ids : asg[i] \in Assignments
    BY DEF TypeInv, FactType
  <1>1. CASE UNCHANGED vars
    BY <1>1 DEF vars, StepKind
  <1>2. ASSUME NEW m \in Pending, Handle(m) PROVE StepKind
    BY <1>2 DEF Handle, SupPropose, SupRaise, WorkBegin, StepKind
  <1>3. ASSUME NEW r \in Runs, SupStep(r) PROVE StepKind
    <2>1. ASSUME NEW i \in sup[r].bury, SupBury(r, i) PROVE StepKind
      <3>1. i \in Ids
        BY DEF TypeInv, SupType
      <3>2. Projects(i)
        BY <2>1, <3>1, ProjectsBurial DEF SupBury
      <3> QED BY <2>1, <3>1, <3>2 DEF StepKind, SupBury
    <2>2. CASE Closes(r)
      BY <2>2 DEF StepKind, Closes, SupFailRun, SupPause, SupComplete
    <2>3. CASE SupCommit(r)
      BY <2>3 DEF StepKind
    <2>4. CASE SupResume(r) \/ SupWait(r) \/ SupAck(r)
      BY <2>4 DEF StepKind, SupResume, SupWait, SupAck
    <2> QED BY <1>3, <2>1, <2>2, <2>3, <2>4 DEF SupStep, Closes
  <1>4. ASSUME NEW i \in Ids, WorkStep(i) \/ WorkRaise(i) \/ Deadline(i) PROVE StepKind
    <2>1. CASE WorkTurn(i)
      <3>1. Projects(i)
        BY <2>1, ProjectsLease DEF WorkTurn
      <3> QED BY <2>1, <3>1 DEF StepKind, WorkTurn
    <2>2. CASE WorkFail(i)
      <3>1. Projects(i)
        BY <2>2, ProjectsStatus DEF WorkFail
      <3> QED BY <2>2, <3>1 DEF StepKind, WorkFail
    <2>3. CASE WorkRelease(i)
      <3>1. Projects(i)
        BY <2>3, ProjectsLease DEF WorkRelease
      <3> QED BY <2>3, <3>1 DEF StepKind, WorkRelease
    <2>4. CASE Deadline(i)
      <3>1. asg' = [asg EXCEPT ![i] = [asg[i] EXCEPT !.due = TRUE]]
        BY <2>4 DEF Deadline
      <3> DEFINE a == [asg[i] EXCEPT !.due = TRUE]
      <3>2. a.agent = asg[i].agent /\ a.status = asg[i].status /\ a.lease = asg[i].lease
        BY <1>0 DEF Assignments
      <3> HIDE DEF a
      <3>3. asg' = [asg EXCEPT ![i] = a]
        BY <3>1 DEF a
      <3>4. Projects(i)
        BY <3>2, <3>3, ProjectsOf
      <3> QED BY <2>4, <3>4 DEF StepKind, Deadline
    <2>5. CASE WorkCommit(i)
      BY <2>5 DEF StepKind
    <2>6. CASE WorkRoute(i) \/ WorkNudge(i) \/ WorkAck(i) \/ WorkRaise(i)
      BY <2>6 DEF StepKind, WorkRoute, WorkNudge, WorkAck, WorkRaise
    <2> QED BY <1>4, <2>1, <2>2, <2>3, <2>4, <2>5, <2>6 DEF WorkStep
  <1>5. CASE ServiceStep
    <2>1. ASSUME NEW i \in exp.todo, ExpireAssignment(i) PROVE StepKind
      <3>1. i \in Ids
        BY DEF TypeInv, ExpType
      <3>2. Projects(i)
        BY <2>1, <3>1, ProjectsStatus DEF ExpireAssignment
      <3> QED BY <2>1, <3>1, <3>2 DEF StepKind, ExpireAssignment
    <2>2. CASE ExpireLease
      <3>1. exp.cur \in Ids
        BY <2>2 DEF TypeInv, ExpType, ExpireLease
      <3>2. Projects(exp.cur)
        BY <2>2, <3>1, ProjectsLease DEF ExpireLease
      <3> QED BY <2>2, <3>1, <3>2 DEF StepKind, ExpireLease
    <2>3. CASE ExpireSnapshot \/ ExpireDeliver \/ Reconcile
      BY <2>3 DEF StepKind, ExpireSnapshot, ExpireDeliver, Reconcile
    <2> QED BY <1>5, <2>1, <2>2, <2>3 DEF ServiceStep
  <1>6. CASE Crash
    BY <1>6 DEF StepKind, Crash
  <1> QED BY <1>1, <1>2, <1>3, <1>4, <1>5, <1>6 DEF Next, Busy

(* A commit of a result: the first decision is kept; an accepted result    *)
(* releases the lease it was held under.                                   *)
LEMMA Committing ==
    ASSUME TypeInv, NEW i \in Ids, WorkCommit(i)
    PROVE  \/ UNCHANGED <<asg, recorded>>
           \/ /\ verdict[i] = "none" /\ Active(i)
              /\ asg' = [asg EXCEPT ![i] = asg'[i]]
              /\ asg'[i].agent = asg[i].agent /\ asg'[i].lease = "released"
              /\ asg'[i].status = IF asg[i].status = "running" THEN "succeeded"
                                  ELSE asg[i].status
              /\ recorded' = [recorded EXCEPT ![i[1]][i[2]] = @ + 1]
  <1> DEFINE b == ProjectAssignment(asg[i], "succeeded")
             c == ProjectLease(b, "released")
  <1>1. asg \in [Ids -> Assignments] /\ asg[i] \in Assignments
    BY DEF TypeInv, FactType
  <1>2. b \in Assignments
    BY <1>1, ProjectionType
  <1>3. /\ b.agent = asg[i].agent /\ b.lease = asg[i].lease
        /\ b.status = IF asg[i].status = "running" THEN "succeeded" ELSE asg[i].status
    BY <1>1, ProjectionFields
  <1>4. /\ c.agent = b.agent /\ c.status = b.status
        /\ c.lease = IF b.lease = "active" THEN "released" ELSE b.lease
    BY <1>2, ProjectionFields
  <1>5. CASE UNCHANGED <<asg, recorded>>
    BY <1>5
  <1>6. CASE ~ UNCHANGED <<asg, recorded>>
    <2>1. /\ verdict[i] = "none" /\ ResultAdmitted(i) /\ asg' = [asg EXCEPT ![i] = c]
          /\ recorded' = [recorded EXCEPT ![i[1]][i[2]] = @ + 1]
      BY <1>6 DEF WorkCommit
    <2> HIDE DEF b, c
    <2>2. asg'[i] = c /\ asg' = [asg EXCEPT ![i] = asg'[i]]
      BY <1>1, <2>1
    <2> QED BY <1>3, <1>4, <2>1, <2>2 DEF ResultAdmitted, Active
  <1> QED BY <1>5, <1>6


(* A projection neither creates nor moves a lease.                         *)
LEMMA LeaseByProjection ==
    ASSUME TypeInv, LeaseInv, NEW i \in Ids, Projects(i)
    PROVE  LeaseInv'
  <1>1. \A j \in Ids : j # i => asg'[j] = asg[j]
    BY DEF Projects, TypeInv, FactType
  <1>2. \A j \in Ids : /\ asg'[j].agent = asg[j].agent
                       /\ Active(j)' => Active(j)
                       /\ asg'[j].status = "succeeded" => asg[j].status = "succeeded"
                       /\ asg[j].status # "none" => asg'[j].status # "none"
    BY <1>1 DEF Projects, Active
  <1> QED BY <1>2 DEF LeaseInv, LeasesHeld, OneLeasePerAgent, OneLeasePerStage, DoneStagesFree

(* A result gives up the one lease on its stage as it completes it.        *)
LEMMA LeaseByResult ==
    ASSUME TypeInv, LeaseInv, NEW i \in Ids, WorkCommit(i)
    PROVE  LeaseInv'
  <1>1. CASE UNCHANGED asg
    BY <1>1 DEF LeaseInv, LeasesHeld, OneLeasePerAgent, OneLeasePerStage,
                DoneStagesFree, Active
  <1>2. CASE ~ UNCHANGED asg
    <2>1. /\ Active(i) /\ asg' = [asg EXCEPT ![i] = asg'[i]]
          /\ asg'[i].agent = asg[i].agent /\ asg'[i].lease = "released"
      BY <1>2, Committing
    <2>2. \A j \in Ids : j # i => asg'[j] = asg[j]
      BY <2>1 DEF TypeInv, FactType
    <2>3. \A j \in Ids : Active(j)' => j # i /\ Active(j)
      BY <2>1, <2>2 DEF Active
    <2>4. LeasesHeld' /\ OneLeasePerAgent' /\ OneLeasePerStage'
      BY <2>2, <2>3 DEF LeaseInv, LeasesHeld, OneLeasePerAgent, OneLeasePerStage
    <2>5. DoneStagesFree'
      BY <2>1, <2>2, <2>3 DEF LeaseInv, OneLeasePerStage, DoneStagesFree
    <2> QED BY <2>4, <2>5 DEF LeaseInv
  <1> QED BY <1>1, <1>2

(* A plan hands out stages that are free to agents that are free.          *)
LEMMA LeaseByPlan ==
    ASSUME TypeInv, LeaseInv, NEW r \in Runs, SupCommit(r)
    PROVE  LeaseInv'
  <1> DEFINE patch == sup[r].patch
  <1>1. CASE ValidatePlanPatch(r, patch) # "ok"
    <2>1. UNCHANGED asg
      BY <1>1 DEF SupCommit
    <2> QED BY <2>1 DEF LeaseInv, LeasesHeld, OneLeasePerAgent, OneLeasePerStage,
                        DoneStagesFree, Active
  <1>2. CASE ValidatePlanPatch(r, patch) = "ok"
    <2>1. \A i \in Ids :
             \/ asg'[i] = asg[i] /\ \A p \in patch.assign : i # IdFor(r, p)
             \/ \E p \in patch.assign : i = IdFor(r, p) /\ asg'[i] = Leased(p)
      BY <1>2, Granting
    <2>2. ASSUME NEW p \in patch.assign
          PROVE  /\ p.stage \in StagesOf[r] \ (Completed(r) \cup ActiveStages(r))
                 /\ p.agent \in Capable[p.stage]
                 /\ \A i \in Ids : Active(i) => asg[i].agent # p.agent
                 /\ \A q \in patch.assign \ {p} : q.agent # p.agent /\ q.stage # p.stage
      BY <1>2, ProposalAdmitted
    <2> HIDE DEF patch
    <2>3. ASSUME NEW p \in patch.assign, NEW j \in Ids, j[1] = r, j[2] = p.stage
          PROVE  ~Active(j) /\ asg[j].status # "succeeded"
      <3>1. j \in IdsOf(r, p.stage)
        BY <2>3, IdParts DEF IdsOf
      <3> QED BY <2>2, <3>1 DEF Completed, ActiveStages
    <2>4. \A p : /\ Leased(p).agent = p.agent /\ Leased(p).status = "running"
                 /\ Leased(p).lease = "active"
                 /\ IdFor(r, p)[1] = r /\ IdFor(r, p)[2] = p.stage
      BY DEF Leased, IdFor
    <2> DEFINE new(i) == \E p \in patch.assign : i = IdFor(r, p) /\ asg'[i] = Leased(p)
    <2>5. \A i \in Ids : Active(i)' => (Active(i) /\ asg'[i] = asg[i]) \/ new(i)
      BY <2>1 DEF Active
    <2>6. \A i \in Ids : asg'[i].status = "succeeded" =>
                            asg[i].status = "succeeded" /\ asg'[i] = asg[i]
      BY <2>1, <2>4
    <2>7. LeasesHeld'
      <3> SUFFICES ASSUME NEW i \in Ids, Active(i)'
                   PROVE  asg'[i].status # "none" /\ asg'[i].agent \in Capable[i[2]]
        BY DEF LeasesHeld
      <3>1. CASE Active(i) /\ asg'[i] = asg[i]
        BY <3>1 DEF LeaseInv, LeasesHeld
      <3>2. CASE new(i)
        BY <3>2, <2>2, <2>4
      <3> QED BY <2>5, <3>1, <3>2
    <2>8. ASSUME NEW i \in Ids, NEW j \in Ids, Active(i)', Active(j)',
                 asg'[i].agent = asg'[j].agent \/ (i[1] = j[1] /\ i[2] = j[2])
          PROVE  i = j
      <3>1. CASE Active(i) /\ asg'[i] = asg[i] /\ Active(j) /\ asg'[j] = asg[j]
        BY <2>8, <3>1 DEF LeaseInv, OneLeasePerAgent, OneLeasePerStage
      <3>2. CASE Active(i) /\ asg'[i] = asg[i] /\ new(j)
        BY <2>8, <3>2, <2>2, <2>3, <2>4
      <3>3. CASE new(i) /\ Active(j) /\ asg'[j] = asg[j]
        BY <2>8, <3>3, <2>2, <2>3, <2>4
      <3>4. CASE new(i) /\ new(j)
        <4>1. PICK p \in patch.assign : i = IdFor(r, p) /\ asg'[i] = Leased(p)
          BY <3>4
        <4>2. PICK q \in patch.assign : j = IdFor(r, q) /\ asg'[j] = Leased(q)
          BY <3>4
        <4>3. p = q
          BY <2>2, <2>4, <2>8, <4>1, <4>2
        <4> QED BY <4>1, <4>2, <4>3
      <3> QED BY <2>5, <2>8, <3>1, <3>2, <3>3, <3>4
    <2>9. DoneStagesFree'
      <3> SUFFICES ASSUME NEW i \in Ids, NEW j \in Ids, Active(i)',
                          asg'[j].status = "succeeded", i[1] = j[1], i[2] = j[2]
                   PROVE  FALSE
        BY DEF DoneStagesFree
      <3>1. asg[j].status = "succeeded"
        BY <2>6
      <3>2. CASE Active(i) /\ asg'[i] = asg[i]
        BY <3>1, <3>2 DEF LeaseInv, DoneStagesFree
      <3>3. CASE new(i)
        BY <2>3, <2>4, <3>1, <3>3
      <3> QED BY <2>5, <3>2, <3>3
    <2> QED BY <2>7, <2>8, <2>9 DEF LeaseInv, OneLeasePerAgent, OneLeasePerStage
  <1> QED BY <1>1, <1>2

(* Every step keeps the leases apart.                                      *)
LEMMA LeaseStep == ASSUME TypeInv, LeaseInv, [Next]_vars PROVE LeaseInv'
  <1>1. CASE UNCHANGED asg
    BY <1>1 DEF LeaseInv, LeasesHeld, OneLeasePerAgent, OneLeasePerStage,
                DoneStagesFree, Active
  <1>2. StepKind
    BY StepKinds
  <1> QED BY <1>1, <1>2, LeaseByProjection, LeaseByResult, LeaseByPlan DEF StepKind

(* An attempt that succeeded stays so, and so does the race of an expiry.  *)
LEMMA EndsKept ==
    ASSUME TypeInv, LeaseInv, [Next]_vars, NEW i \in Ids
    PROVE  /\ asg[i].status \in {"succeeded", "failed", "expired"} =>
                 asg'[i].status = asg[i].status
           /\ asg[i].status # "none" /\ asg[i].lease \in {"released", "expired"} =>
                 asg'[i].lease = asg[i].lease
  <1>1. StepKind
    BY StepKinds
  <1>2. CASE UNCHANGED asg
    BY <1>2
  <1>3. ASSUME NEW j \in Ids, Projects(j)
        PROVE  /\ asg[i].status \in {"succeeded", "failed", "expired"} =>
                     asg'[i].status = asg[i].status
               /\ asg[i].lease \in {"released", "expired"} =>
                     asg'[i].lease = asg[i].lease
    <2>1. CASE i = j
      BY <1>3, <2>1 DEF Projects
    <2>2. CASE i # j
      <3>1. asg'[i] = asg[i]
        BY <1>3, <2>2 DEF Projects, TypeInv, FactType
      <3> QED BY <3>1
    <2> QED BY <2>1, <2>2
  <1>4. ASSUME NEW j \in Ids, WorkCommit(j), ~ UNCHANGED asg
        PROVE  /\ asg[i].status \in {"succeeded", "failed", "expired"} =>
                     asg'[i].status = asg[i].status
               /\ asg[i].lease \in {"released", "expired"} =>
                     asg'[i].lease = asg[i].lease
    <2>1. /\ asg' = [asg EXCEPT ![j] = asg'[j]] /\ Active(j)
          /\ asg'[j].status = IF asg[j].status = "running" THEN "succeeded"
                              ELSE asg[j].status
      BY <1>4, Committing
    <2>2. CASE i = j
      BY <2>1, <2>2 DEF Active
    <2>3. CASE i # j
      <3>1. asg'[i] = asg[i]
        BY <2>1, <2>3 DEF TypeInv, FactType
      <3> QED BY <3>1
    <2> QED BY <2>2, <2>3
  <1>5. ASSUME NEW r \in Runs, SupCommit(r), ~ UNCHANGED asg
        PROVE  asg[i].status # "none" => asg'[i] = asg[i]
    <2>1. ValidatePlanPatch(r, sup[r].patch) = "ok"
      BY <1>5 DEF SupCommit
    <2> QED BY <1>5, <2>1, Granting
  <1> QED BY <1>1, <1>2, <1>3, <1>4, <1>5 DEF StepKind


(* A message of no run of the model would change nothing.                  *)
LEMMA SupElsewhere ==
    ASSUME TypeInv, NEW r, r \notin Runs, NEW m, SupPropose(r, m) \/ SupRaise(r, m)
    PROVE  TypeInv'
  <1>1. UNCHANGED sup
    BY DEF SupPropose, SupRaise, TypeInv, SupType
  <1>2. /\ UNCHANGED <<factVars, refused, waiter, dirty>> /\ UNCHANGED runVars
        /\ UNCHANGED <<waits, revision>>
        /\ UNCHANGED wk /\ UNCHANGED exp /\ UNCHANGED <<acked, sent>>
    BY DEF SupPropose, SupRaise, factVars, planVars, runVars, mailVars
  <1> QED BY <1>1, <1>2, FactFrame, RunFrame, SupFrame, WaitFrame, WkFrame, ExpFrame
          DEF TypeInv, factVars

-----------------------------------------------------------------------------
(* Type correctness.                                                       *)

(* Every step keeps the type invariant.                                    *)
LEMMA TypeStep == ASSUME TypeInv, LeaseInv, [Next]_vars PROVE TypeInv'
  <1>1. CASE UNCHANGED vars
    <2>1. /\ UNCHANGED <<factVars, refused, waiter, dirty>> /\ UNCHANGED runVars
          /\ UNCHANGED <<sup, revision>> /\ UNCHANGED <<waits, revision>>
          /\ UNCHANGED wk /\ UNCHANGED exp /\ UNCHANGED <<acked, sent>>
      BY <1>1 DEF vars, factVars, planVars, runVars, mailVars, memVars
    <2> QED BY <2>1, FactFrame, RunFrame, SupFrame, WaitFrame, WkFrame, ExpFrame
            DEF TypeInv
  <1>2. ASSUME NEW m \in Pending, Handle(m) PROVE TypeInv'
    <2>1. m \in sent
      BY DEF Pending
    <2>2. CASE SupPropose(m.run, m)
      <3>1. CASE m.run \in Runs
        BY <2>1, <2>2, <3>1, SupProposeType
      <3>2. CASE m.run \notin Runs
        BY <2>1, <2>2, <3>2, SupElsewhere
      <3> QED BY <3>1, <3>2
    <2>3. CASE SupRaise(m.run, m)
      <3>1. CASE m.run \in Runs
        BY <2>1, <2>3, <3>1, SupRaiseType
      <3>2. CASE m.run \notin Runs
        BY <2>1, <2>3, <3>2, SupElsewhere
      <3> QED BY <3>1, <3>2
    <2>4. CASE WorkBegin(IdOf(m), m)
      BY <2>1, <2>4, WorkBeginType
    <2> QED BY <1>2, <2>2, <2>3, <2>4 DEF Handle
  <1>3. ASSUME NEW r \in Runs, SupStep(r) PROVE TypeInv'
    <2>1. sup[r].bury \subseteq Ids
      BY DEF TypeInv, SupType
    <2> QED BY <1>3, <2>1, SupBuryType, SupFailRunType, SupCommitType, SupResumeType,
               SupWaitType, SupPauseType, SupCompleteType, SupAckType DEF SupStep
  <1>4. ASSUME NEW i \in Ids, WorkStep(i) \/ WorkRaise(i) \/ Deadline(i) PROVE TypeInv'
    BY <1>4, WorkTurnType, WorkCommitType, WorkRouteType, WorkFailType,
       WorkReleaseType, WorkNudgeType, WorkAckType, WorkRaiseType, DeadlineType
       DEF WorkStep
  <1>5. CASE ServiceStep
    <2>1. exp.todo \subseteq Ids
      BY DEF TypeInv, ExpType
    <2> QED BY <1>5, <2>1, ExpireSnapshotType, ExpireAssignmentType, ExpireLeaseType,
               ExpireDeliverType, ReconcileType DEF ServiceStep
  <1> QED BY <1>1, <1>2, <1>3, <1>4, <1>5, CrashType DEF Next, Busy

(* At the start no assignment exists.                                      *)
LEMMA InitLease == ASSUME Init PROVE LeaseInv
  BY DEF Init, LeaseInv, LeasesHeld, OneLeasePerAgent, OneLeasePerStage,
         DoneStagesFree, Active, NoAssignment

(* The leases and the shape of the state hold each other up: a plan writes *)
(* rows of the right type because the leases were counted, and the count   *)
(* is right because the rows have their type.                              *)
THEOREM LeasesCorrect == Spec => [](TypeInv /\ LeaseInv)
  <1>1. Init => TypeInv /\ LeaseInv
    BY InitType, InitLease
  <1>2. TypeInv /\ LeaseInv /\ [Next]_vars => (TypeInv /\ LeaseInv)'
    BY TypeStep, LeaseStep
  <1> QED BY <1>1, <1>2, PTL DEF Spec

(* Every variable keeps its type (TypeOK).                                 *)
THEOREM TypeCorrect == Spec => []TypeOK
  <1>1. TypeInv => TypeOK
    BY TeamConstants DEF TypeInv, FactType, RunType, SupType, WkType, ExpType, TypeOK,
           Assignments, SupPcs, WkPcs
  <1> QED BY <1>1, LeasesCorrect, PTL

(* No agent ever holds more leases than its card allows, however many runs *)
(* plan at the same time (AgentLoad).                                      *)
THEOREM AgentLoadHolds == Spec => []AgentLoad
  <1>1. LeaseInv => AgentLoad
    BY LoadOfAgent DEF LeaseInv, AgentLoad, MaxConcurrency
  <1> QED BY <1>1, LeasesCorrect, PTL


-----------------------------------------------------------------------------
(* Plans and results.                                                      *)

(* A stage with a successful attempt has a formal result.                  *)
ResultRecorded ==
    \A i \in Ids : asg[i].status = "succeeded" => recorded[i[1]][i[2]] > 0

(* A plan accepted as completion_ready still sees every stage complete.    *)
CompletionStands ==
    \A r \in Runs :
        sup[r].ok /\ sup[r].patch.complete => Completed(r) = StagesOf[r]

(* A run is open while its supervisor is about to commit a plan for it.    *)
PlansOpenRuns == \A r \in Runs : sup[r].pc = "commit" => Open(r)

(* What plans and results keep true.                                       *)
PlanInv == ResultRecorded /\ CompletionStands /\ PlansOpenRuns

(* Where a supervisor can come from: it holds an accepted plan only if it  *)
(* held it before or has just committed it, and it comes to a commit only  *)
(* with its run open.                                                      *)
LEMMA SupervisorSteps ==
    ASSUME TypeInv, [Next]_vars, NEW q \in Runs
    PROVE  /\ sup'[q].ok =>
                 /\ sup'[q].patch = sup[q].patch
                 /\ \/ sup[q].ok
                    \/ SupCommit(q) /\ ValidatePlanPatch(q, sup[q].patch) = "ok"
           /\ sup'[q].pc = "commit" =>
                 status'[q] = status[q] /\ (sup[q].pc = "commit" \/ Open(q))
  <1> USE DEF factVars, planVars, runVars, mailVars, memVars
  <1> DEFINE Goal ==
        /\ sup'[q].ok =>
              /\ sup'[q].patch = sup[q].patch
              /\ \/ sup[q].ok
                 \/ SupCommit(q) /\ ValidatePlanPatch(q, sup[q].patch) = "ok"
        /\ sup'[q].pc = "commit" =>
              status'[q] = status[q] /\ (sup[q].pc = "commit" \/ Open(q))
  <1>0. /\ sup = [r \in Runs |-> sup[r]]
        /\ \A r \in Runs : sup[r] \in [pc : SupPcs, msg : {sup[r].msg},
                              patch : {sup[r].patch}, ok : BOOLEAN, bury : SUBSET Ids]
    BY DEF TypeInv, SupType
  <1>1. CASE UNCHANGED <<sup, status>>
    BY <1>1
  <1>2. ASSUME NEW m \in Pending, Handle(m) PROVE Goal
    <2>1. CASE SupPropose(m.run, m)
      BY <1>0, <2>1 DEF SupPropose, SupTakes
    <2>2. CASE SupRaise(m.run, m)
      BY <1>0, <2>2 DEF SupRaise, IdleSup
    <2>3. CASE WorkBegin(IdOf(m), m)
      BY <1>1, <2>3 DEF WorkBegin
    <2> QED BY <1>2, <2>1, <2>2, <2>3 DEF Handle
  <1>3. ASSUME NEW r \in Runs, SupStep(r) PROVE Goal
    <2>1. ASSUME NEW i \in sup[r].bury, SupBury(r, i) PROVE Goal
      BY <1>0, <2>1 DEF SupBury
    <2>2. CASE SupFailRun(r)
      BY <1>0, <2>2 DEF SupFailRun, TypeInv, FactType
    <2>3. CASE SupResume(r)
      BY <1>0, <2>3 DEF SupResume, AfterPlan
    <2>4. CASE SupWait(r)
      BY <1>0, <2>4 DEF SupWait
    <2>5. CASE SupPause(r)
      BY <1>0, <2>5 DEF SupPause, TypeInv, FactType
    <2>6. CASE SupComplete(r)
      BY <1>0, <2>6 DEF SupComplete, TypeInv, FactType
    <2>7. CASE SupAck(r)
      BY <1>0, <2>7 DEF SupAck, IdleSup
    <2>8. CASE SupCommit(r)
      <3> DEFINE v == ValidatePlanPatch(r, sup[r].patch)
                 next == IF sup[r].msg.kind = "capacity" THEN "resume"
                         ELSE AfterPlan(r, v = "ok")
      <3>1. sup' = [sup EXCEPT ![r].ok = (v = "ok"), ![r].pc = next] /\ status' = status
        BY <2>8 DEF SupCommit
      <3>2. next # "commit"
        BY DEF AfterPlan
      <3> HIDE DEF next
      <3>3. /\ sup'[r].ok = (v = "ok") /\ sup'[r].patch = sup[r].patch
            /\ sup'[r].pc = next
            /\ q # r => sup'[q] = sup[q]
        <4> HIDE DEF v
        <4> QED BY <1>0, <3>1
      <3> QED BY <2>8, <3>1, <3>2, <3>3
    <2> QED BY <1>3, <2>1, <2>2, <2>3, <2>4, <2>5, <2>6, <2>7, <2>8 DEF SupStep
  <1>4. ASSUME NEW i \in Ids, WorkStep(i) \/ WorkRaise(i) \/ Deadline(i) PROVE Goal
    BY <1>1, <1>4 DEF WorkStep, WorkTurn, WorkCommit, WorkRoute, WorkFail,
                      WorkRelease, WorkNudge, WorkAck, WorkRaise, Deadline
  <1>5. CASE ServiceStep
    BY <1>1, <1>5 DEF ServiceStep, ExpireSnapshot, ExpireAssignment, ExpireLease,
                      ExpireDeliver, Reconcile
  <1>6. CASE Crash
    BY <1>6 DEF Crash, IdleSup
  <1>7. CASE UNCHANGED vars
    BY <1>1, <1>7 DEF vars
  <1> QED BY <1>2, <1>3, <1>4, <1>5, <1>6, <1>7 DEF Next, Busy

(* Completed stages stay completed.                                        *)
LEMMA CompletedGrows ==
    ASSUME TypeInv, LeaseInv, [Next]_vars, NEW r \in Runs
    PROVE  Completed(r) \subseteq Completed(r)'
  <1> SUFFICES ASSUME NEW s \in StagesOf[r], NEW i \in IdsOf(r, s),
                      asg[i].status = "succeeded"
               PROVE  asg'[i].status = "succeeded"
    BY DEF Completed
  <1>1. i \in Ids
    BY TeamConstants DEF ValidGraph, IdsOf, Ids
  <1> QED BY <1>1, EndsKept

(* Every step keeps it.                                                    *)
LEMMA PlanStep ==
    ASSUME TypeInv, LeaseInv, PlanInv, [Next]_vars
    PROVE  PlanInv'
  <1>1. ResultRecorded'
    <2>0. /\ asg \in [Ids -> Assignments] /\ recorded \in [Runs -> [Stages -> Nat]]
          /\ \A i \in Ids : i[1] \in Runs /\ i[2] \in Stages
      BY IdParts DEF TypeInv, FactType
    <2>1. CASE UNCHANGED <<asg, recorded>>
      BY <2>1 DEF PlanInv, ResultRecorded
    <2>2. ASSUME UNCHANGED recorded, NEW i \in Ids, Projects(i) PROVE ResultRecorded'
      <3>1. \A j \in Ids : asg'[j].status = "succeeded" => asg[j].status = "succeeded"
        BY <2>0, <2>2 DEF Projects
      <3> QED BY <2>2, <3>1 DEF PlanInv, ResultRecorded
    <2>3. ASSUME NEW i \in Ids, WorkCommit(i), ~ UNCHANGED <<asg, recorded>>
          PROVE  ResultRecorded'
      <3>1. /\ asg' = [asg EXCEPT ![i] = asg'[i]]
            /\ recorded' = [recorded EXCEPT ![i[1]][i[2]] = @ + 1]
        BY <2>3, Committing
      <3>2. \A j \in Ids : recorded'[j[1]][j[2]] =
              IF j[1] = i[1] /\ j[2] = i[2] THEN recorded[j[1]][j[2]] + 1
              ELSE recorded[j[1]][j[2]]
        BY <2>0, <3>1
      <3>3. \A j \in Ids : recorded[j[1]][j[2]] \in Nat
        BY <2>0
      <3>4. \A j \in Ids : j # i => asg'[j] = asg[j]
        BY <2>0, <3>1
      <3> SUFFICES ASSUME NEW j \in Ids, asg'[j].status = "succeeded"
                   PROVE  recorded'[j[1]][j[2]] > 0
        BY DEF ResultRecorded
      <3>5. CASE j = i
        BY <3>2, <3>3, <3>5
      <3>6. CASE j # i
        <4>1. recorded[j[1]][j[2]] > 0
          BY <3>4, <3>6 DEF PlanInv, ResultRecorded
        <4> QED BY <3>2, <3>3, <4>1
      <3> QED BY <3>5, <3>6
    <2>4. ASSUME NEW r \in Runs, SupCommit(r) PROVE ResultRecorded'
      <3>0. UNCHANGED recorded
        BY <2>4 DEF SupCommit
      <3>1. CASE ValidatePlanPatch(r, sup[r].patch) = "ok"
        <4>1. \A j \in Ids : asg'[j].status = "succeeded" => asg[j].status = "succeeded"
          <5>1. \A p : Leased(p).status = "running"
            BY DEF Leased
          <5>2. \A j \in Ids : asg'[j] = asg[j]
                                \/ \E p \in sup[r].patch.assign : asg'[j] = Leased(p)
            BY <2>4, <3>1, Granting
          <5> QED BY <5>1, <5>2
        <4> QED BY <3>0, <4>1 DEF PlanInv, ResultRecorded
      <3>2. CASE ValidatePlanPatch(r, sup[r].patch) # "ok"
        BY <2>1, <2>4, <3>0, <3>2 DEF SupCommit
      <3> QED BY <3>1, <3>2
    <2>5. StepKind
      BY StepKinds
    <2> QED BY <2>1, <2>2, <2>3, <2>4, <2>5 DEF StepKind
  <1>2. CompletionStands'
    <2> SUFFICES ASSUME NEW r \in Runs, sup'[r].ok, sup'[r].patch.complete
                 PROVE  Completed(r)' = StagesOf[r]
      BY DEF CompletionStands
    <2>1. sup'[r].patch = sup[r].patch
      BY SupervisorSteps
    <2>2. Completed(r) = StagesOf[r]
      <3>1. CASE sup[r].ok
        BY <2>1, <3>1 DEF PlanInv, CompletionStands
      <3>2. CASE ValidatePlanPatch(r, sup[r].patch) = "ok"
        BY <2>1, <3>2, PlanAdmitted
      <3> QED BY <3>1, <3>2, SupervisorSteps
    <2>3. Completed(r) \subseteq Completed(r)'
      BY CompletedGrows
    <2> QED BY <2>2, <2>3 DEF Completed
  <1>3. PlansOpenRuns'
    <2> SUFFICES ASSUME NEW r \in Runs, sup'[r].pc = "commit" PROVE Open(r)'
      BY DEF PlansOpenRuns
    <2>1. status'[r] = status[r] /\ (sup[r].pc = "commit" \/ Open(r))
      BY SupervisorSteps
    <2> QED BY <2>1 DEF PlanInv, PlansOpenRuns, Open
  <1> QED BY <1>1, <1>2, <1>3 DEF PlanInv

(* It holds before the first plan.                                         *)
LEMMA InitPlan == ASSUME Init PROVE PlanInv
  BY DEF Init, PlanInv, ResultRecorded, CompletionStands, PlansOpenRuns,
         NoAssignment, IdleSup

(* The invariant of plans and results holds in every reachable state.      *)
THEOREM PlansCorrect == Spec => [](TypeInv /\ LeaseInv /\ PlanInv)
  <1>1. Init => PlanInv
    BY InitPlan
  <1>2. TypeInv /\ LeaseInv /\ PlanInv /\ [Next]_vars => PlanInv'
    BY PlanStep
  <1> QED BY <1>1, <1>2, LeasesCorrect, PTL DEF Spec

(* A supervisor that follows up a completion_ready plan finds the gate     *)
(* open: the COMPLETE command, decided once per run, is never wasted       *)
(* (CompletionPassesGate).                                                 *)
THEOREM CompletionPassesGateHolds == Spec => []CompletionPassesGate
  <1>1. TypeInv /\ PlanInv => CompletionPassesGate
    <2> SUFFICES ASSUME TypeInv, PlanInv, NEW r \in Runs,
                        sup[r].pc = "follow", sup[r].patch.complete,
                        NEW s \in StagesOf[r]
                 PROVE  recorded[r][s] > 0
      BY DEF CompletionPassesGate, GateOpen
    <2>1. s \in Completed(r)
      BY DEF TypeInv, SupType, PlanInv, CompletionStands
    <2>2. PICK i \in IdsOf(r, s) : asg[i].status = "succeeded"
      BY <2>1 DEF Completed
    <2>3. i \in Ids /\ i[1] = r /\ i[2] = s
      BY TeamConstants DEF ValidGraph, IdsOf, Ids
    <2> QED BY <2>2, <2>3 DEF PlanInv, ResultRecorded
  <1> QED BY <1>1, PlansCorrect, PTL


-----------------------------------------------------------------------------
(* Results and the expiry of leases.                                       *)

(* What a worker is doing agrees with how its agent run ended, and an      *)
(* attempt declared failed under a lease has no result to come.            *)
WorkerInv ==
    \A i \in Ids :
        /\ wk[i].pc = "submitted" => ended[i] = "submitted"
        /\ wk[i].pc = "route" => verdict[i] # "none"
        /\ wk[i].pc = "stopped" => ended[i] = "stopped" \/ verdict[i] = "rejected"
        /\ asg[i].status = "failed" /\ Active(i) =>
              ended[i] = "stopped" \/ verdict[i] = "rejected"

(* A step that writes no decision and no end and moves no worker into one  *)
(* of those states keeps them in agreement.                                *)
LEMMA WorkerFrame ==
    ASSUME TypeInv, WorkerInv, UNCHANGED <<ended, verdict>>,
           \A i \in Ids : wk'[i].pc # wk[i].pc =>
              wk'[i].pc \notin {"submitted", "route", "stopped"},
           \A i \in Ids : asg'[i].status = "failed" /\ Active(i)' =>
              asg[i].status = "failed" /\ Active(i)
    PROVE  WorkerInv'
  BY DEF WorkerInv

(* Every step keeps workers and decisions in agreement, crashes and        *)
(* redeliveries included.                                                  *)
LEMMA WorkerStep ==
    ASSUME TypeInv, LeaseInv, WorkerInv, [Next]_vars
    PROVE  WorkerInv'
  <1> USE DEF factVars, planVars, runVars, mailVars, memVars
  <1>0. /\ asg \in [Ids -> Assignments] /\ \A i \in Ids : asg[i] \in Assignments
        /\ wk = [i \in Ids |-> wk[i]]
        /\ \A i \in Ids : wk[i] \in [pc : WkPcs, msg : {wk[i].msg}]
        /\ ended \in [Ids -> {"none", "submitted", "stopped"}]
        /\ verdict \in [Ids -> {"none", "accepted", "rejected"}]
    BY DEF TypeInv, FactType, WkType, RunType
  <1>a. ASSUME UNCHANGED <<ended, verdict, asg>>,
               \A i \in Ids : wk'[i].pc # wk[i].pc =>
                  wk'[i].pc \notin {"submitted", "route", "stopped"}
        PROVE  WorkerInv'
    BY <1>a, WorkerFrame DEF Active
  <1>b. ASSUME NEW i \in Ids, NEW pc \in {"idle", "turn", "release", "nudge", "ack"}, NEW msg,
               wk' = [wk EXCEPT ![i].pc = pc]
               \/ wk' = [wk EXCEPT ![i] = IdleWk]
               \/ wk' = [wk EXCEPT ![i] = [pc |-> "turn", msg |-> msg]]
        PROVE  \A j \in Ids : wk'[j].pc # wk[j].pc =>
                  wk'[j].pc \notin {"submitted", "route", "stopped"}
    BY <1>0, <1>b DEF IdleWk
  <1>1. CASE UNCHANGED <<ended, verdict, asg, wk>>
    BY <1>1, <1>a
  <1>2. ASSUME NEW m \in Pending, Handle(m) PROVE WorkerInv'
    <2>1. CASE SupPropose(m.run, m) \/ SupRaise(m.run, m)
      BY <1>1, <2>1 DEF SupPropose, SupRaise
    <2>2. CASE WorkBegin(IdOf(m), m)
      <3>1. UNCHANGED <<ended, verdict, asg>>
        BY <2>2 DEF WorkBegin
      <3>2. \A j \in Ids : wk'[j].pc # wk[j].pc =>
               wk'[j].pc \notin {"submitted", "route", "stopped"}
        BY <1>0, <2>2 DEF WorkBegin
      <3> QED BY <1>a, <3>1, <3>2
    <2> QED BY <1>2, <2>1, <2>2 DEF Handle
  <1>3. ASSUME NEW r \in Runs, SupStep(r) PROVE WorkerInv'
    <2>1. ASSUME NEW i \in sup[r].bury, SupBury(r, i) PROVE WorkerInv'
      <3>1. i \in Ids /\ UNCHANGED <<ended, verdict, wk>>
        BY <2>1 DEF TypeInv, SupType, SupBury
      <3> DEFINE b == ProjectAssignment(asg[i], "failed")
                 a == ProjectLease(b, "released")
      <3>2. b \in Assignments
        BY <1>0, <3>1, ProjectionType
      <3>3. a.lease # "active"
        BY <3>2, ProjectionFields
      <3>4. asg' = [asg EXCEPT ![i] = a]
        BY <2>1 DEF SupBury
      <3> HIDE DEF a, b
      <3>5. \A j \in Ids : asg'[j].status = "failed" /\ Active(j)' =>
               asg[j].status = "failed" /\ Active(j)
        BY <1>0, <3>3, <3>4 DEF Active
      <3> QED BY <3>1, <3>5, WorkerFrame
    <2>2. CASE SupCommit(r)
      <3>1. UNCHANGED <<ended, verdict, wk>>
        BY <2>2 DEF SupCommit
      <3>2. \A j \in Ids : asg'[j].status = "failed" /\ Active(j)' =>
               asg[j].status = "failed" /\ Active(j)
        <4>1. CASE ValidatePlanPatch(r, sup[r].patch) = "ok"
          <5>1. \A p : Leased(p).status = "running"
            BY DEF Leased
          <5>2. \A j \in Ids : asg'[j] = asg[j]
                                \/ \E p \in sup[r].patch.assign : asg'[j] = Leased(p)
            BY <2>2, <4>1, Granting
          <5> QED BY <5>1, <5>2 DEF Active
        <4>2. CASE ValidatePlanPatch(r, sup[r].patch) # "ok"
          BY <2>2, <4>2 DEF SupCommit, Active
        <4> QED BY <4>1, <4>2
      <3> QED BY <3>1, <3>2, WorkerFrame
    <2>3. CASE SupFailRun(r) \/ SupResume(r) \/ SupWait(r) \/ SupPause(r)
               \/ SupComplete(r) \/ SupAck(r)
      BY <1>1, <2>3 DEF SupFailRun, SupResume, SupWait, SupPause, SupComplete, SupAck
    <2> QED BY <1>3, <2>1, <2>2, <2>3 DEF SupStep
  <1>4. ASSUME NEW i \in Ids, WorkStep(i) \/ WorkRaise(i) \/ Deadline(i) PROVE WorkerInv'
    <2>1. CASE WorkTurn(i)
      <3>1. /\ UNCHANGED verdict
            /\ asg' = [asg EXCEPT ![i] = ProjectLease(@, "renewed")]
        BY <2>1 DEF WorkTurn
      <3>2. \A j \in Ids : asg'[j].status = asg[j].status /\ (Active(j)' <=> Active(j))
        BY <1>0, <3>1, ProjectionFields DEF Active
      <3>3. CASE ended[i] # "none"
        <4>1. UNCHANGED ended /\ wk' = [wk EXCEPT ![i].pc = ended[i]]
          BY <2>1, <3>3 DEF WorkTurn, WkStep
        <4>2. \A j \in Ids : wk'[j].pc = IF j = i THEN ended[i] ELSE wk[j].pc
          BY <1>0, <4>1
        <4> QED BY <1>0, <3>1, <3>2, <3>3, <4>1, <4>2 DEF WorkerInv
      <3>4. CASE ended[i] = "none"
        <4>1. \/ UNCHANGED ended /\ wk' = [wk EXCEPT ![i].pc = "ack"]
              \/ \E e \in {"submitted", "stopped"} :
                    ended' = [ended EXCEPT ![i] = e] /\ wk' = [wk EXCEPT ![i].pc = ended'[i]]
          BY <2>1, <3>4 DEF WorkTurn, WkStep
        <4>2. CASE UNCHANGED ended /\ wk' = [wk EXCEPT ![i].pc = "ack"]
          BY <1>b, <3>1, <3>2, <4>2, WorkerFrame
        <4>3. ASSUME NEW e \in {"submitted", "stopped"},
                     ended' = [ended EXCEPT ![i] = e], wk' = [wk EXCEPT ![i].pc = ended'[i]]
              PROVE  WorkerInv'
          <5>1. \A j \in Ids : /\ wk'[j].pc = IF j = i THEN e ELSE wk[j].pc
                               /\ ended'[j] = IF j = i THEN e ELSE ended[j]
            BY <1>0, <4>3
          <5>2. ~(asg[i].status = "failed" /\ Active(i)) \/ verdict[i] = "rejected"
            BY <3>4 DEF WorkerInv
          <5> QED BY <3>1, <3>2, <4>3, <5>1, <5>2 DEF WorkerInv
        <4> QED BY <4>1, <4>2, <4>3
      <3> QED BY <3>3, <3>4
    <2>2. CASE WorkCommit(i)
      <3>1. UNCHANGED ended /\ wk' = [wk EXCEPT ![i].pc = "route"]
        BY <2>2 DEF WorkCommit, WkStep
      <3>2. \A j \in Ids : wk'[j].pc = IF j = i THEN "route" ELSE wk[j].pc
        BY <1>0, <3>1
      <3>3. \A j \in Ids : /\ verdict[j] # "none" => verdict'[j] = verdict[j]
                           /\ j = i => verdict'[j] # "none"
        BY <1>0, <2>2 DEF WorkCommit
      <3>4. \A j \in Ids : asg'[j].status = "failed" /\ Active(j)' =>
               asg[j].status = "failed" /\ Active(j)
        <4>1. CASE UNCHANGED asg
          BY <4>1 DEF Active
        <4>2. CASE ~ UNCHANGED asg
          BY <1>0, <2>2, <4>2, Committing DEF Active
        <4> QED BY <4>1, <4>2
      <3> QED BY <3>1, <3>2, <3>3, <3>4 DEF WorkerInv
    <2>3. CASE WorkRoute(i)
      <3>1. UNCHANGED <<ended, verdict, asg>>
        BY <2>3 DEF WorkRoute
      <3>2. CASE verdict[i] = "accepted"
        <4>1. wk' = [wk EXCEPT ![i].pc = "ack"]
          BY <2>3, <3>2 DEF WorkRoute, WkStep
        <4> QED BY <1>a, <1>b, <3>1, <4>1
      <3>3. CASE verdict[i] # "accepted"
        <4>1. wk' = [wk EXCEPT ![i].pc = "stopped"] /\ wk[i].pc = "route"
          BY <2>3, <3>3 DEF WorkRoute, WkStep
        <4>2. verdict[i] = "rejected"
          BY <1>0, <3>3, <4>1 DEF WorkerInv
        <4>3. \A j \in Ids : wk'[j].pc = IF j = i THEN "stopped" ELSE wk[j].pc
          BY <1>0, <4>1
        <4> QED BY <3>1, <4>2, <4>3 DEF WorkerInv, Active
      <3> QED BY <3>2, <3>3
    <2>4. CASE WorkFail(i)
      <3>1. /\ UNCHANGED <<ended, verdict>> /\ wk[i].pc = "stopped"
            /\ asg' = [asg EXCEPT ![i] = ProjectAssignment(@, "failed")]
            /\ \E pc \in {"release", "nudge"} : wk' = [wk EXCEPT ![i].pc = pc]
        BY <2>4 DEF WorkFail, WkStep
      <3>2. \A j \in Ids : wk'[j].pc # wk[j].pc =>
                  wk'[j].pc \notin {"submitted", "route", "stopped"}
        BY <1>b, <3>1
      <3>3. ended[i] = "stopped" \/ verdict[i] = "rejected"
        BY <3>1 DEF WorkerInv
      <3>4. \A j \in Ids : j # i => asg'[j] = asg[j]
        BY <1>0, <3>1
      <3> QED BY <3>1, <3>2, <3>3, <3>4 DEF WorkerInv, Active
    <2>5. CASE WorkRelease(i)
      <3>1. /\ UNCHANGED <<ended, verdict>> /\ wk' = [wk EXCEPT ![i].pc = "nudge"]
            /\ asg' = [asg EXCEPT ![i] = ProjectLease(@, "released")]
        BY <2>5 DEF WorkRelease, WkStep
      <3>2. \A j \in Ids : asg'[j].status = asg[j].status /\ (Active(j)' => Active(j))
        BY <1>0, <3>1, ProjectionFields DEF Active
      <3> QED BY <1>b, <3>1, <3>2, WorkerFrame
    <2>6. CASE WorkNudge(i)
      <3>1. UNCHANGED <<ended, verdict, asg>> /\ wk' = [wk EXCEPT ![i].pc = "ack"]
        BY <2>6 DEF WorkNudge, WkStep
      <3> QED BY <1>a, <1>b, <3>1
    <2>7. CASE WorkAck(i) \/ WorkRaise(i)
      <3>1. UNCHANGED <<ended, verdict, asg>> /\ wk' = [wk EXCEPT ![i] = IdleWk]
        BY <2>7 DEF WorkAck, WorkRaise
      <3> QED BY <1>a, <1>b, <3>1
    <2>8. CASE Deadline(i)
      <3>1. UNCHANGED <<ended, verdict, wk>> /\ asg' = [asg EXCEPT ![i].due = TRUE]
        BY <2>8 DEF Deadline
      <3>2. \A j \in Ids : asg'[j].status = asg[j].status /\ (Active(j)' <=> Active(j))
        BY <1>0, <3>1 DEF Active, Assignments
      <3> QED BY <3>1, <3>2, WorkerFrame
    <2> QED BY <1>4, <2>1, <2>2, <2>3, <2>4, <2>5, <2>6, <2>7, <2>8 DEF WorkStep
  <1>5. CASE ServiceStep
    <2>1. ASSUME NEW i \in exp.todo, ExpireAssignment(i) PROVE WorkerInv'
      <3>1. /\ i \in Ids /\ UNCHANGED <<ended, verdict, wk>>
            /\ asg' = [asg EXCEPT ![i] = ProjectAssignment(@, "expired")]
        BY <2>1 DEF TypeInv, ExpType, ExpireAssignment
      <3>2. \A j \in Ids : asg'[j].status = "failed" /\ Active(j)' =>
               asg[j].status = "failed" /\ Active(j)
        BY <1>0, <3>1, ProjectionFields DEF Active
      <3> QED BY <3>1, <3>2, WorkerFrame
    <2>2. CASE ExpireLease
      <3>1. /\ exp.cur \in Ids /\ UNCHANGED <<ended, verdict, wk>>
            /\ asg' = [asg EXCEPT ![exp.cur] = ProjectLease(@, "expired")]
        BY <2>2 DEF TypeInv, ExpType, ExpireLease
      <3>2. \A j \in Ids : asg'[j].status = asg[j].status /\ (Active(j)' => Active(j))
        BY <1>0, <3>1, ProjectionFields DEF Active
      <3> QED BY <3>1, <3>2, WorkerFrame
    <2>3. CASE ExpireSnapshot \/ ExpireDeliver \/ Reconcile
      BY <1>1, <2>3 DEF ExpireSnapshot, ExpireDeliver, Reconcile
    <2> QED BY <1>5, <2>1, <2>2, <2>3 DEF ServiceStep
  <1>6. CASE Crash
    <2>1. UNCHANGED <<ended, verdict, asg>> /\ wk' = [i \in Ids |-> IdleWk]
      BY <1>6 DEF Crash
    <2> QED BY <1>a, <2>1 DEF IdleWk
  <1>7. CASE UNCHANGED vars
    BY <1>1, <1>7 DEF vars
  <1> QED BY <1>2, <1>3, <1>4, <1>5, <1>6, <1>7 DEF Next, Busy


(* The race the expiry leaves open, on some attempt at a stage.            *)
Raced(r, s) ==
    \E i \in IdsOf(r, s) : asg[i].status = "expired" /\ asg[i].lease = "released"

(* Without it, a stage has at most one formal result, and has it only when *)
(* it is complete.                                                         *)
RecordInv ==
    \A r \in Runs, s \in Stages :
        \/ recorded[r][s] = 0
        \/ s \in StagesOf[r] /\ (Raced(r, s) \/ (recorded[r][s] = 1 /\ s \in Completed(r)))

(* The ids of a stage of a run.                                            *)
LEMMA IdsOfStage ==
    ASSUME NEW r \in Runs, NEW s \in StagesOf[r], NEW i \in IdsOf(r, s)
    PROVE  i \in Ids /\ i[1] = r /\ i[2] = s
  BY TeamConstants DEF ValidGraph, IdsOf, Ids

(* An id is one of the ids of its stage.                                   *)
LEMMA IdsOfId == ASSUME NEW i \in Ids PROVE i \in IdsOf(i[1], i[2])
  BY IdParts DEF IdsOf

(* A race once run stays on record.                                        *)
LEMMA RacedKept ==
    ASSUME TypeInv, LeaseInv, [Next]_vars, NEW r \in Runs, NEW s \in StagesOf[r],
           Raced(r, s)
    PROVE  Raced(r, s)'
  <1>1. PICK i \in IdsOf(r, s) : asg[i].status = "expired" /\ asg[i].lease = "released"
    BY DEF Raced
  <1>2. i \in Ids
    BY IdsOfStage
  <1>3. asg'[i].status = "expired" /\ asg'[i].lease = "released"
    BY <1>1, <1>2, EndsKept
  <1> QED BY <1>3 DEF Raced

(* Every step keeps the count of the results.                              *)
LEMMA RecordStep ==
    ASSUME TypeInv, LeaseInv, WorkerInv, RecordInv, [Next]_vars PROVE RecordInv'
  <1>1. CASE UNCHANGED recorded
    BY <1>1, RacedKept, CompletedGrows DEF RecordInv
  <1>2. ASSUME NEW i \in Ids, WorkCommit(i), ~ UNCHANGED recorded PROVE RecordInv'
    <2>1. /\ verdict[i] = "none" /\ Active(i)
          /\ asg'[i].lease = "released"
          /\ asg'[i].status = IF asg[i].status = "running" THEN "succeeded"
                              ELSE asg[i].status
          /\ recorded' = [recorded EXCEPT ![i[1]][i[2]] = @ + 1]
      BY <1>2, Committing
    <2>2. /\ i[1] \in Runs /\ i[2] \in Stages /\ i[2] \in StagesOf[i[1]]
          /\ i \in IdsOf(i[1], i[2])
      BY IdParts, IdsOfId
    <2>3. recorded \in [Runs -> [Stages -> Nat]]
      BY DEF TypeInv, FactType
    <2>4. \A r \in Runs, s \in Stages : recorded'[r][s] =
              IF r = i[1] /\ s = i[2] THEN recorded[r][s] + 1 ELSE recorded[r][s]
      BY <2>1, <2>2, <2>3
    <2>5. i[2] \notin Completed(i[1])
      <3>1. \A j \in IdsOf(i[1], i[2]) : asg[j].status # "succeeded"
        BY <2>1, <2>2, IdsOfStage DEF LeaseInv, DoneStagesFree
      <3> QED BY <3>1 DEF Completed
    <2>6. asg[i].status \in {"running", "expired"}
      <3>1. asg[i].status # "none"
        BY <2>1 DEF LeaseInv, LeasesHeld
      <3>2. asg[i].status # "succeeded"
        BY <2>1 DEF LeaseInv, DoneStagesFree
      <3>3. wk[i].pc = "submitted"
        BY <1>2 DEF WorkCommit
      <3>4. asg[i].status # "failed"
        BY <2>1, <3>3 DEF WorkerInv
      <3>5. asg[i] \in Assignments
        BY DEF TypeInv, FactType
      <3> QED BY <3>1, <3>2, <3>4, <3>5 DEF Assignments
    <2>7. CASE asg[i].status = "expired"
      <3>1. Raced(i[1], i[2])'
        BY <2>1, <2>2, <2>7 DEF Raced
      <3> QED BY <2>2, <2>4, <3>1, RacedKept, CompletedGrows DEF RecordInv
    <2>8. CASE asg[i].status = "running"
      <3>1. i[2] \in Completed(i[1])'
        BY <2>1, <2>2, <2>8 DEF Completed
      <3>2. Raced(i[1], i[2]) \/ recorded[i[1]][i[2]] = 0
        BY <2>2, <2>5 DEF RecordInv
      <3> QED BY <2>2, <2>4, <3>1, <3>2, RacedKept, CompletedGrows DEF RecordInv
    <2> QED BY <2>6, <2>7, <2>8
  <1>3. ASSUME NEW r \in Runs, SupCommit(r) PROVE UNCHANGED recorded
    BY <1>3 DEF SupCommit
  <1>4. StepKind
    BY StepKinds
  <1> QED BY <1>1, <1>2, <1>3, <1>4 DEF StepKind

(* Nothing is recorded at the start.                                       *)
LEMMA InitRecord == ASSUME Init PROVE WorkerInv /\ RecordInv
  BY DEF Init, WorkerInv, RecordInv, IdleWk, NoAssignment

(* A second formal result of a stage is always the trace of the expiry     *)
(* race (RedoneOnlyAfterExpiryRace), for every number of runs, agents,     *)
(* attempts, late leases and faults.                                       *)
THEOREM RedoneOnlyAfterExpiryRaceHolds == Spec => []RedoneOnlyAfterExpiryRace
  <1>1. Init => WorkerInv /\ RecordInv
    BY InitRecord
  <1>2. TypeInv /\ LeaseInv /\ WorkerInv /\ RecordInv /\ [Next]_vars
            => (WorkerInv /\ RecordInv)'
    BY WorkerStep, RecordStep
  <1>3. TypeInv /\ RecordInv => RedoneOnlyAfterExpiryRace
    BY DEF RecordInv, RedoneOnlyAfterExpiryRace, Raced
  <1> QED BY <1>1, <1>2, <1>3, LeasesCorrect, PTL DEF Spec

-----------------------------------------------------------------------------
(* The refinement of the board.                                            *)

(* The entry of a lease on the board.                                      *)
Held(i) == [run |-> i[1], stage |-> i[2], agent |-> asg[i].agent]

(* The board shows the active leases and nothing else.                     *)
LEMMA HeldIs == \A h : h \in HeldStages <=> \E i \in Ids : Active(i) /\ h = Held(i)
  BY DEF HeldStages, LeasedIds, Held, Active

(* Different leases are different entries of the board.                    *)
LEMMA HeldDiffers ==
    ASSUME LeaseInv, NEW i \in Ids, NEW j \in Ids, Active(i), Active(j),
           Held(i) = Held(j)
    PROVE  i = j
  <1>1. asg[i].agent = asg[j].agent
    BY DEF Held
  <1> QED BY <1>1 DEF LeaseInv, OneLeasePerAgent

(* A step that gives up at most one lease and keeps the others.            *)
LEMMA HeldMinus ==
    ASSUME TypeInv, LeaseInv, NEW i \in Ids, asg' = [asg EXCEPT ![i] = asg'[i]],
           asg'[i].agent = asg[i].agent, Active(i)' => Active(i)
    PROVE  \/ Active(i) /\ HeldStages' = HeldStages \ {Held(i)}
           \/ UNCHANGED HeldStages
  <1>1. \A j \in Ids : j # i => asg'[j] = asg[j]
    BY DEF TypeInv, FactType
  <1>2. \A j \in Ids : Held(j)' = Held(j)
    BY <1>1 DEF Held
  <1>3. \A j \in Ids : j # i => (Active(j)' <=> Active(j))
    BY <1>1 DEF Active
  <1>4. \A h : h \in HeldStages' <=> \E j \in Ids : Active(j)' /\ h = Held(j)
    <2>1. \A h : h \in HeldStages' <=> \E j \in Ids : Active(j)' /\ h = Held(j)'
      BY DEF HeldStages, LeasedIds, Held, Active
    <2> QED BY <1>2, <2>1
  <1>5. CASE Active(i)' <=> Active(i)
    <2>1. \A j \in Ids : Active(j)' <=> Active(j)
      BY <1>3, <1>5
    <2> QED BY <1>4, <2>1, HeldIs
  <1>6. CASE Active(i) /\ ~ Active(i)'
    <2>1. \A j \in Ids : Active(j)' <=> Active(j) /\ j # i
      BY <1>3, <1>6
    <2>2. \A j \in Ids : Active(j) /\ j # i => Held(j) # Held(i)
      BY <1>6, HeldDiffers
    <2> QED BY <1>4, <1>6, <2>1, <2>2, HeldIs
  <1> QED BY <1>5, <1>6


(* The board without a change of the assignments.                          *)
LEMMA BoardFrame ==
    ASSUME UNCHANGED asg PROVE UNCHANGED <<DoneStages, HeldStages>>
  BY DEF DoneStages, Completed, HeldStages, LeasedIds, Active

(* Completed stages depend on the successful attempts only.                *)
LEMMA DoneFrame ==
    ASSUME \A j \in Ids : asg'[j].status = "succeeded" <=> asg[j].status = "succeeded"
    PROVE  UNCHANGED DoneStages
  <1>1. ASSUME NEW r \in Runs PROVE Completed(r)' = Completed(r)
    BY IdsOfStage DEF Completed
  <1> QED BY <1>1 DEF DoneStages, Completed

(* A closed run.                                                           *)
LEMMA BoardClose ==
    ASSUME TypeInv, LeaseInv, PlanInv, NEW r \in Runs, Closes(r), ~ UNCHANGED status
    PROVE  Board!Close(r)
  <1>0. /\ UNCHANGED asg /\ status \in [Runs -> {"running", "paused", "succeeded", "failed"}]
        /\ UNCHANGED <<DoneStages, HeldStages>>
    BY BoardFrame DEF Closes, SupFailRun, SupPause, SupComplete, TypeInv, FactType
  <1>1. CASE SupFailRun(r)
    <2>1. status[r] = "running" /\ status' = [status EXCEPT ![r] = "failed"]
      BY <1>0, <1>1 DEF SupFailRun
    <2> QED BY <1>0, <2>1 DEF Board!Close
  <1>2. CASE SupPause(r)
    <2>1. /\ status[r] \in {"running", "paused"}
          /\ status' = [status EXCEPT ![r] = "paused"]
      BY <1>0, <1>2 DEF SupPause, ProjectRun
    <2> QED BY <1>0, <2>1 DEF Board!Close
  <1>3. CASE SupComplete(r)
    <2>1. /\ status[r] \in {"running", "paused"}
          /\ status' = [status EXCEPT ![r] = "succeeded"]
      BY <1>0, <1>3 DEF SupComplete, ProjectRun
    <2>2. sup[r].ok /\ sup[r].patch.complete
      BY <1>3 DEF SupComplete, TypeInv, SupType
    <2>3. Completed(r) = StagesOf[r]
      BY <2>2 DEF PlanInv, CompletionStands
    <2>4. DoneStages[r] = StagesOf[r]
      BY <2>3 DEF DoneStages
    <2>5. ASSUME NEW i \in Ids, Active(i), i[1] = r PROVE FALSE
      <3>1. i[2] \in Completed(r)
        BY <2>3, <2>5, IdParts
      <3>2. PICK j \in IdsOf(r, i[2]) : asg[j].status = "succeeded"
        BY <3>1 DEF Completed
      <3>3. j \in Ids /\ j[1] = r /\ j[2] = i[2]
        BY <3>1, IdsOfStage DEF Completed
      <3> QED BY <2>5, <3>2, <3>3 DEF LeaseInv, DoneStagesFree
    <2>6. Board!HeldBy(r) = {}
      BY <2>5, HeldIs DEF Board!HeldBy, Held
    <2> QED BY <1>0, <2>1, <2>4, <2>6 DEF Board!Close
  <1> QED BY <1>1, <1>2, <1>3 DEF Closes

(* A lease given up, or nothing the board shows.                           *)
LEMMA BoardProjection ==
    ASSUME TypeInv, LeaseInv, UNCHANGED status, NEW i \in Ids, Projects(i)
    PROVE  (\E h \in HeldStages : Board!Finish(h)) \/ UNCHANGED Board!vars
  <1>1. UNCHANGED DoneStages
    <2>1. \A j \in Ids : asg'[j].status = "succeeded" <=> asg[j].status = "succeeded"
      BY DEF Projects, TypeInv, FactType
    <2> QED BY <2>1, DoneFrame
  <1>2. \/ Active(i) /\ HeldStages' = HeldStages \ {Held(i)}
        \/ UNCHANGED HeldStages
    BY HeldMinus DEF Projects, Active
  <1>3. CASE UNCHANGED HeldStages
    BY <1>1, <1>3 DEF Board!vars
  <1>4. CASE Active(i) /\ HeldStages' = HeldStages \ {Held(i)}
    <2>1. Held(i) \in HeldStages
      BY <1>4, HeldIs
    <2>2. Board!Finish(Held(i))
      BY <1>1, <1>4, <2>1 DEF Board!Finish
    <2> QED BY <2>1, <2>2
  <1> QED BY <1>2, <1>3, <1>4

(* A result completes the stage it was held for, or comes after the attempt*)
(* was declared over and only frees the agent.                             *)
LEMMA BoardResult ==
    ASSUME TypeInv, LeaseInv, NEW i \in Ids, WorkCommit(i)
    PROVE  (\E h \in HeldStages : Board!Finish(h)) \/ UNCHANGED Board!vars
  <1>0. UNCHANGED status
    BY DEF WorkCommit
  <1>1. CASE UNCHANGED asg
    BY <1>0, <1>1, BoardFrame DEF Board!vars
  <1>2. CASE ~ UNCHANGED asg
    <2>1. /\ Active(i) /\ asg' = [asg EXCEPT ![i] = asg'[i]]
          /\ asg'[i].agent = asg[i].agent /\ asg'[i].lease = "released"
          /\ asg'[i].status = IF asg[i].status = "running" THEN "succeeded"
                              ELSE asg[i].status
      BY <1>2, Committing
    <2>2. \A j \in Ids : j # i => asg'[j] = asg[j]
      BY <2>1 DEF TypeInv, FactType
    <2>3. HeldStages' = HeldStages \ {Held(i)}
      <3>1. \/ Active(i) /\ HeldStages' = HeldStages \ {Held(i)}
            \/ UNCHANGED HeldStages
        BY <2>1, HeldMinus DEF Active
      <3>2. Held(i) \notin HeldStages'
        <4>1. \A j \in Ids : Active(j)' => j # i /\ Active(j) /\ Held(j)' = Held(j)
          BY <2>1, <2>2 DEF Active, Held
        <4>2. \A h : h \in HeldStages' <=> \E j \in Ids : Active(j)' /\ h = Held(j)'
          BY DEF HeldStages, LeasedIds, Held, Active
        <4> QED BY <2>1, <4>1, <4>2, HeldDiffers
      <3>3. Held(i) \in HeldStages
        BY <2>1, HeldIs
      <3> QED BY <3>1, <3>2, <3>3
    <2>4. Held(i) \in HeldStages /\ Held(i).run = i[1] /\ Held(i).stage = i[2]
      BY <2>1, HeldIs DEF Held
    <2>5. CASE asg[i].status # "running"
      <3>1. UNCHANGED DoneStages
        BY <2>1, <2>2, <2>5, DoneFrame
      <3> QED BY <1>0, <2>3, <2>4, <3>1 DEF Board!Finish
    <2>6. CASE asg[i].status = "running"
      <3>1. i[1] \in Runs /\ i[2] \in StagesOf[i[1]] /\ i \in IdsOf(i[1], i[2])
        BY IdParts, IdsOfId
      <3>2. Completed(i[1])' = Completed(i[1]) \cup {i[2]}
        <4>1. i[2] \in Completed(i[1])'
          BY <2>1, <2>6, <3>1 DEF Completed
        <4>2. ASSUME NEW s \in StagesOf[i[1]], s # i[2]
              PROVE  s \in Completed(i[1])' <=> s \in Completed(i[1])
          BY <2>2, <3>1, <4>2, IdsOfStage DEF Completed
        <4> QED BY <3>1, <4>1, <4>2 DEF Completed
      <3>3. ASSUME NEW r \in Runs, r # i[1] PROVE Completed(r)' = Completed(r)
        BY <2>2, <3>3, IdsOfStage DEF Completed
      <3>4. DoneStages' = [DoneStages EXCEPT ![i[1]] = @ \cup {i[2]}]
        BY <3>1, <3>2, <3>3 DEF DoneStages, Completed
      <3> QED BY <1>0, <2>3, <2>4, <3>4 DEF Board!Finish
    <2> QED BY <2>5, <2>6
  <1> QED BY <1>1, <1>2


(* The leases of a run are finitely many, and the board shows no more      *)
(* entries for it.                                                         *)
LEMMA HeldCount ==
    ASSUME TypeInv, LeaseInv, NEW r \in Runs
    PROVE  /\ IsFiniteSet(ActiveLeasesOf(r)) /\ IsFiniteSet(Board!HeldBy(r))
           /\ Cardinality(Board!HeldBy(r)) <= Cardinality(ActiveLeasesOf(r))
  <1> DEFINE L == ActiveLeasesOf(r)
             f == [i \in L |-> i[2]]
             g == [i \in L |-> Held(i)]
  <1>1. \A i \in L : i \in Ids /\ i[1] = r /\ Active(i)
    BY DEF ActiveLeasesOf
  <1>2. f \in [L -> Stages]
    BY <1>1, IdParts
  <1>3. \A i, j \in L : f[i] = f[j] => i = j
    BY <1>1 DEF LeaseInv, OneLeasePerStage
  <1>4. f \in Injection(L, Stages)
    BY <1>2, <1>3 DEF Injection, IsInjective
  <1>5. IsFiniteSet(L)
    BY <1>4, StagesFinite, FS_Injection
  <1>6. \A h : h \in Board!HeldBy(r) <=> \E i \in L : h = Held(i)
    BY HeldIs DEF Board!HeldBy, Held, ActiveLeasesOf
  <1>7. g \in Surjection(L, Board!HeldBy(r))
    BY <1>6 DEF Surjection
  <1> HIDE DEF L, f, g
  <1>8. IsFiniteSet(Board!HeldBy(r)) /\ Cardinality(Board!HeldBy(r)) <= Cardinality(L)
    BY <1>5, <1>7, FS_Surjection
  <1> QED BY <1>5, <1>8 DEF L

(* The instance of the board counts as this module does.                   *)
LEMMA BoardCardinality ==
    ASSUME NEW S
    PROVE  Board!Cardinality(S) = Cardinality(S)
  BY DEF Board!Cardinality, Cardinality

(* An accepted plan is a grant of the stages it assigns.                   *)
LEMMA BoardGrant ==
    ASSUME TypeInv, LeaseInv, PlanInv, NEW r \in Runs, SupCommit(r)
    PROVE  Board!Grant(r, HeldStages' \ HeldStages) \/ UNCHANGED Board!vars
  <1> DEFINE patch == sup[r].patch
             new == HeldStages' \ HeldStages
             entry(p) == [run |-> r, stage |-> p.stage, agent |-> p.agent]
             E == { entry(p) : p \in patch.assign }
  <1>0. UNCHANGED status
    BY DEF SupCommit
  <1>1. CASE ValidatePlanPatch(r, patch) # "ok"
    <2>1. UNCHANGED asg
      BY <1>1 DEF SupCommit
    <2> QED BY <1>0, <2>1, BoardFrame DEF Board!vars
  <1>2. CASE ValidatePlanPatch(r, patch) = "ok"
    <2>1. \A i \in Ids :
             \/ asg'[i] = asg[i] /\ \A p \in patch.assign : i # IdFor(r, p)
             \/ \E p \in patch.assign : /\ i = IdFor(r, p) /\ asg'[i] = Leased(p)
                                        /\ asg[i].status = "none" /\ ~Active(i)
      BY <1>2, Granting
    <2>2. ASSUME NEW p \in patch.assign
          PROVE  /\ p.stage \in StagesOf[r] \ (Completed(r) \cup ActiveStages(r))
                 /\ DependsOn[p.stage] \subseteq Completed(r)
                 /\ p.agent \in Capable[p.stage]
                 /\ \A i \in Ids : Active(i) => asg[i].agent # p.agent
                 /\ \A q \in patch.assign \ {p} : q.agent # p.agent /\ q.stage # p.stage
      BY <1>2, ProposalAdmitted
    <2>3. ~(Cardinality(ActiveLeasesOf(r)) + Cardinality(patch.assign) > MaxParallel)
      BY <1>2, PlanAdmitted
    <2>4. IsFiniteSet(patch.assign)
      BY <1>2, AssignFinite
    <2> HIDE DEF patch
    <2>5. \A p : /\ Leased(p).agent = p.agent /\ Leased(p).status = "running"
                 /\ Leased(p).lease = "active"
                 /\ IdFor(r, p)[1] = r /\ IdFor(r, p)[2] = p.stage
      BY DEF Leased, IdFor
    <2>6. UNCHANGED DoneStages
      <3>1. \A j \in Ids : asg'[j].status = "succeeded" <=> asg[j].status = "succeeded"
        BY <2>1, <2>5
      <3> QED BY <3>1, DoneFrame
    <2>7. \A h : h \in HeldStages' <=> \E j \in Ids : Active(j)' /\ h = Held(j)'
      BY DEF HeldStages, LeasedIds, Held, Active
    <2>8. \A j \in Ids : Active(j) => Active(j)' /\ Held(j)' = Held(j)
      BY <2>1 DEF Active, Held
    <2>9. HeldStages \subseteq HeldStages'
      BY <2>7, <2>8, HeldIs
    <2>10. new \subseteq E
      <3> SUFFICES ASSUME NEW j \in Ids, Active(j)', Held(j)' \notin HeldStages
                   PROVE  Held(j)' \in E
        BY <2>7
      <3>1. CASE asg'[j] = asg[j]
        BY <3>1, HeldIs DEF Active, Held
      <3>2. ASSUME NEW p \in patch.assign, j = IdFor(r, p), asg'[j] = Leased(p)
            PROVE  Held(j)' \in E
        <4>1. Held(j)' = entry(p)
          BY <2>5, <3>2 DEF Held
        <4> QED BY <4>1
      <3> QED BY <2>1, <3>1, <3>2
    <2>11. \A h \in E : \E p \in patch.assign : h = entry(p)
      OBVIOUS
    <2>12. \A p : entry(p).run = r /\ entry(p).stage = p.stage /\ entry(p).agent = p.agent
      OBVIOUS
    <2> HIDE DEF new
    <2>13. ASSUME NEW h \in new
           PROVE  /\ h.run = r /\ h.stage \in StagesOf[r] \ DoneStages[r]
                  /\ h.agent \in Capable[h.stage]
                  /\ DependsOn[h.stage] \subseteq DoneStages[r]
                  /\ \A k \in HeldStages : k.agent # h.agent
                                           /\ <<k.run, k.stage>> # <<r, h.stage>>
                  /\ \A k \in new \ {h} : k.agent # h.agent /\ k.stage # h.stage
      <3>1. PICK p \in patch.assign : h = entry(p)
        BY <2>10, <2>11
      <3>2. DoneStages[r] = Completed(r)
        BY DEF DoneStages
      <3>3. /\ h.run = r /\ h.stage \in StagesOf[r] \ DoneStages[r]
            /\ h.agent \in Capable[h.stage]
            /\ DependsOn[h.stage] \subseteq DoneStages[r]
        BY <2>2, <2>12, <3>1, <3>2
      <3>4. ASSUME NEW k \in HeldStages
            PROVE  k.agent # h.agent /\ <<k.run, k.stage>> # <<r, h.stage>>
        <4>1. PICK j \in Ids : Active(j) /\ k = Held(j)
          BY HeldIs
        <4>2. k.agent = asg[j].agent /\ k.run = j[1] /\ k.stage = j[2]
          BY <4>1 DEF Held
        <4>3. k.agent # h.agent
          BY <2>2, <2>12, <3>1, <4>1, <4>2
        <4>4. ~(k.run = r /\ k.stage = h.stage)
          <5> SUFFICES ASSUME j[1] = r, j[2] = p.stage PROVE FALSE
            BY <2>12, <3>1, <4>2
          <5>1. j \in IdsOf(r, p.stage)
            BY IdsOfId
          <5> QED BY <2>2, <4>1, <5>1 DEF ActiveStages
        <4> QED BY <4>3, <4>4
      <3>5. ASSUME NEW k \in new \ {h} PROVE k.agent # h.agent /\ k.stage # h.stage
        <4>1. PICK q \in patch.assign : k = entry(q)
          BY <2>10, <2>11
        <4>2. q # p
          BY <3>1, <4>1
        <4> QED BY <2>2, <2>12, <3>1, <4>1, <4>2
      <3> QED BY <3>3, <3>4, <3>5
    <2>14. Cardinality(Board!HeldBy(r) \cup new) <= MaxParallel
      <3> DEFINE g == [p \in patch.assign |-> entry(p)]
                 B == Board!HeldBy(r)
                 L == ActiveLeasesOf(r)
      <3>1. g \in Surjection(patch.assign, E)
        BY DEF Surjection
      <3> HIDE DEF g, E
      <3>2. IsFiniteSet(E) /\ Cardinality(E) <= Cardinality(patch.assign)
        BY <2>4, <3>1, FS_Surjection
      <3>3. IsFiniteSet(L) /\ IsFiniteSet(B) /\ Cardinality(B) <= Cardinality(L)
        BY HeldCount
      <3> HIDE DEF B, L
      <3>4. /\ IsFiniteSet(B \cup E)
            /\ Cardinality(B \cup E) = Cardinality(B) + Cardinality(E) - Cardinality(B \cap E)
        BY <3>2, <3>3, FS_Union
      <3>5. IsFiniteSet(B \cap E)
        BY <3>3, FS_Intersection
      <3>6. Cardinality(B \cup new) <= Cardinality(B \cup E) /\ IsFiniteSet(B \cup new)
        <4>1. B \cup new \in SUBSET (B \cup E)
          BY <2>10
        <4> QED BY <3>4, <4>1, FS_Subset
      <3>7. /\ Cardinality(B) \in Nat /\ Cardinality(E) \in Nat /\ Cardinality(L) \in Nat
            /\ Cardinality(B \cap E) \in Nat /\ Cardinality(patch.assign) \in Nat
            /\ Cardinality(B \cup E) \in Nat /\ Cardinality(B \cup new) \in Nat
        BY <2>4, <3>2, <3>3, <3>4, <3>5, <3>6, FS_CardinalityType
      <3>8. Cardinality(L) + Cardinality(patch.assign) <= MaxParallel
        BY <2>3, <3>7, TeamConstants DEF L
      <3>9. Cardinality(B \cup new) <= MaxParallel
        BY <3>2, <3>3, <3>4, <3>6, <3>7, <3>8, TeamConstants
      <3> QED BY <3>9 DEF B
    <2>15. status[r] \in {"running", "paused"}
      BY DEF SupCommit, PlanInv, PlansOpenRuns, Open
    <2>16. HeldStages' = HeldStages \cup new
      BY <2>9 DEF new
    <2>17. CASE new = {}
      BY <1>0, <2>6, <2>16, <2>17 DEF Board!vars
    <2>18. CASE new # {}
      <3>1. Board!Grant(r, new)
        <4>1. UNCHANGED <<DoneStages, status>>
          BY <1>0, <2>6
        <4>2. Board!Cardinality(Board!HeldBy(r) \cup new) <= MaxParallel
          BY <2>14, BoardCardinality
        <4> HIDE DEF entry, E
        <4> QED BY <2>13, <2>15, <2>16, <2>18, <4>1, <4>2 DEF Board!Grant
      <3> QED BY <3>1 DEF new
    <2> QED BY <2>17, <2>18
  <1> QED BY <1>1, <1>2

(* Every step of the team is a step of the board, or leaves it alone.      *)
LEMMA BoardStep ==
    ASSUME TypeInv, LeaseInv, PlanInv, [Next]_vars
    PROVE  [Board!Next]_(Board!vars)
  <1>1. CASE UNCHANGED <<asg, status>>
    BY <1>1, BoardFrame DEF Board!vars
  <1>2. ASSUME NEW r \in Runs, Closes(r), ~ UNCHANGED status PROVE Board!Next
    BY <1>2, BoardClose DEF Board!Next
  <1>3. ASSUME NEW i \in Ids, Projects(i), UNCHANGED status
        PROVE  [Board!Next]_(Board!vars)
    BY <1>3, BoardProjection DEF Board!Next
  <1>4. ASSUME NEW i \in Ids, WorkCommit(i) PROVE [Board!Next]_(Board!vars)
    BY <1>4, BoardResult DEF Board!Next
  <1>5. ASSUME NEW r \in Runs, SupCommit(r) PROVE [Board!Next]_(Board!vars)
    BY <1>5, BoardGrant DEF Board!Next
  <1>6. StepKind
    BY StepKinds
  <1> QED BY <1>1, <1>2, <1>3, <1>4, <1>5, <1>6 DEF StepKind

(* The initial state of the team is that of an empty board.                *)
LEMMA BoardInit == ASSUME Init PROVE Board!Init
  <1>1. DoneStages = [r \in Runs |-> {}]
    BY IdsOfStage DEF Init, DoneStages, Completed, NoAssignment
  <1>2. HeldStages = {}
    BY DEF Init, HeldStages, LeasedIds, Active, NoAssignment
  <1> QED BY <1>1, <1>2 DEF Init, Board!Init

(* The team implements the board: whatever supervisors, workers, expiries, *)
(* crashes and redeliveries do, stages are granted in dependency order to  *)
(* free and capable agents, and a run succeeds only with every stage       *)
(* complete and nothing held (BoardSpec).                                  *)
THEOREM BoardRefinement == Spec => BoardSpec
  <1>1. Init => Board!Init
    BY BoardInit
  <1>2. TypeInv /\ LeaseInv /\ PlanInv /\ [Next]_vars => [Board!Next]_(Board!vars)
    BY BoardStep
  <1> QED BY <1>1, <1>2, PlansCorrect, PTL DEF Spec, BoardSpec, Board!Spec

(* The first end of an attempt and of its lease wins: once an assignment   *)
(* has succeeded, failed or expired, or its lease was released or expired, *)
(* no late, repeated or replayed fact changes it.                          *)
FirstEndWins ==
    \A i \in Ids :
        /\ asg[i].status \in {"succeeded", "failed", "expired"} =>
              asg'[i].status = asg[i].status
        /\ asg[i].status # "none" /\ asg[i].lease \in {"released", "expired"} =>
              asg'[i].lease = asg[i].lease

(* What the team records about an attempt is final (FirstEndWins).         *)
THEOREM FirstEndWinsHolds == Spec => [][FirstEndWins]_vars
  <1>1. TypeInv /\ LeaseInv /\ [Next]_vars => [FirstEndWins]_vars
    BY EndsKept DEF FirstEndWins
  <1> QED BY <1>1, LeasesCorrect, PTL DEF Spec

-----------------------------------------------------------------------------
(* Wake-ups: who still has to tell the supervisor of a run something.      *)

(* The supervisor was told of the end of an attempt.                       *)
Told(i) == Submitted(i) \in sent \/ LeaseGone(i) \in sent \/ FailNudge(i) \in sent

(* There is an attempt whose end the supervisor has not been told.         *)
Owed(r) == \E i \in Ids : i[1] = r /\ asg[i].status # "none" /\ ~Told(i)

(* The run waits for capacity whose offer it has not taken up.             *)
Awaits(r) == waiter[r] # 0 /\ waiter[r] \notin resumed[r]

(* The next plan was refused: for good, or for agents that were busy,      *)
(* which is routed back to the supervisor.                                 *)
Decided(r, v) ==
    \E c \in cmds : c.key.run = r /\ c.state = v /\ c.key.rev = revision[r] + 1
Refused(r) == Decided(r, "refused")
Crowded(r) == Decided(r, "concurrency")

(* Deliveries to the supervisor of a run, and those it has not in hand.    *)
Calls(r) == { m \in Pending : m.run = r /\ m.kind # "turn" }
OtherCall(r) == \E m \in Calls(r) : m # sup[r].msg

(* The run is over, or will be heard of, or its plan was refused.          *)
Settled(r) == status[r] # "running" \/ Owed(r) \/ Refused(r)

(* A plan with a consequence: a wait, a pause or the end, or work.         *)
Follows(p) == p.waiting # {} \/ p.blocked \/ p.complete
Useful(r, p) ==
    Follows(p) \/ p.assign # {} \/ \E s \in StagesOf[r] : p.view[s] = "active"

(* A delivery is one that somebody sends, for a fact there is.             *)
Known(m) ==
    /\ m.run \in Runs /\ m.kind # "evidence"
    /\ m.kind = "capacity" => /\ m = Capacity(m.run, m.n)
                              /\ \E w \in waits[m.run] : w.rev = m.n
    /\ m.kind = "replan" => m = Replan(m.run, m.n) /\ m.n \in 1 .. refused[m.run]
PostOK == \A m \in sent : Known(m)

(* What the supervisor was told of is over.                                *)
ToldOK == \A i \in Ids : Told(i) => asg[i].status # "none" /\ ~Active(i)

(* An offer of capacity that was acknowledged has used up its wait.        *)
TakenOK ==
    \A m \in acked :
        m.kind = "capacity" /\ status[m.run] = "running" => m.n \in resumed[m.run]

(* How far the end of an attempt has come: a result is routed or will be,  *)
(* and any other end has somebody who reports it, unless there was a fault.*)
EndsOf(i) ==
    /\ asg[i].status = "succeeded" => verdict[i] = "accepted"
    /\ asg[i].status = "running" => Active(i)
    /\ verdict[i] = "accepted" =>
          /\ asg[i].status # "none" /\ ~Active(i)
          /\ Submitted(i) \in sent \/ wk[i].pc = "route" \/ dirty
    /\ wk[i].pc # "idle" => asg[i].status # "none" /\ wk[i].msg.kind = "turn"
    /\ wk[i].pc \in {"release", "nudge"} => asg[i].status # "running"
    /\ wk[i].pc = "nudge" => ~Active(i)
    /\ exp.pc \in {"lease", "deliver"} /\ exp.cur = i =>
          asg[i].status # "none" /\ asg[i].status # "running"
    /\ i \in exp.todo => asg[i].status # "none"
    /\ exp.pc = "deliver" /\ exp.cur = i => ~Active(i)
    /\ asg[i].status # "none" /\ ~Active(i) /\ ~Told(i) /\ verdict[i] # "accepted" =>
          \/ wk[i].pc = "nudge" \/ (exp.pc = "deliver" /\ exp.cur = i)
          \/ status[i[1]] # "running" \/ sup[i[1]].pc = "bury"
          \/ faults > 0
EndOK ==
    /\ faults \in Nat /\ \A r \in Runs : \A i \in sup[r].bury : i[1] = r
    /\ \A i \in Ids : EndsOf(i)

(* Some worker is about to offer the capacity it has freed.                *)
Offering == dirty \/ \E i \in Ids : wk[i].pc = "route" /\ verdict[i] = "accepted"

(* A run has one wait per revision; the newest is the one the process      *)
(* knows, and agents that are free for it are offered or will be.          *)
WaitsOf(r) ==
    /\ \A x, y \in waits[r] : x.rev = y.rev => x = y
    /\ \A n \in resumed[r] : \E w \in waits[r] : w.rev = n
    /\ waiter[r] # 0 /\ status[r] = "running" =>
          /\ \E w \in waits[r] : w.rev = waiter[r]
          /\ \A w \in waits[r] : w.rev <= waiter[r]
          /\ Available(WaitOf(r, waiter[r]).stages) =>
                Capacity(r, waiter[r]) \in sent \/ Offering
WaitOK == resumed = [r \in Runs |-> resumed[r]] /\ \A r \in Runs : WaitsOf(r)

(* Commands on record are of this or an earlier revision.                  *)
CommandType ==
    \A c \in cmds :
        /\ c.state \in {"begun", "refused", "concurrency"}
        /\ c.key.run \in Runs /\ c.key.rev \in Nat /\ c.key.rev <= revision[c.key.run] + 1
        /\ c.state = "concurrency" /\ c.key.msg.kind = "replan" =>
              c.key.msg.n \in 1 .. refused[c.key.run] - 1

(* A refusal that is routed back is on its way, and nobody is about to     *)
(* acknowledge it without having tried again.                              *)
CommandsOf(r) ==
    status[r] = "running" /\ Crowded(r) /\ ~Refused(r) =>
        /\ Replan(r, refused[r]) \in Pending
        /\ sup[r].pc \in {"resume", "follow", "ack"} => sup[r].msg # Replan(r, refused[r])
CommandOK == CommandType /\ \A r \in Runs : CommandsOf(r)

(* A supervisor that is done has left somebody who will call it again.     *)
SupervisorOf(r) ==
    /\ sup[r].pc # "idle" => sup[r].msg \in Calls(r)
    /\ sup[r].pc = "commit" =>
          /\ sup[r].patch.rev = revision[r] + 1 /\ Useful(r, sup[r].patch)
          /\ \A p \in sup[r].patch.assign : p.attempt \in 1 .. MaxAttempts
    /\ sup[r].pc \in {"resume", "follow"} /\ sup[r].ok =>
          /\ sup[r].patch.rev = revision[r]
          /\ \A w \in waits[r] : w.rev # sup[r].patch.rev
    /\ sup[r].pc = "resume" =>
          /\ sup[r].msg.kind = "capacity"
          /\ (sup[r].ok /\ Follows(sup[r].patch)) \/ Settled(r) \/ OtherCall(r)
    /\ sup[r].pc \in {"follow", "ack"} /\ sup[r].msg.kind = "capacity"
          /\ status[r] = "running" => sup[r].msg.n \in resumed[r]
    /\ sup[r].pc = "ack" => Settled(r) \/ Awaits(r) \/ OtherCall(r)
    /\ sup[r].pc = "idle" => Settled(r) \/ Awaits(r) \/ Calls(r) # {}
SupervisorOK == \A r \in Runs : SupervisorOf(r)

(* Runs wait for agents of stages there are.                               *)
StagesOK ==
    \A r \in Runs : /\ sup[r].patch.waiting \subseteq Stages
                    /\ \A w \in waits[r] : w.stages \subseteq Stages

(* What the wake-ups of a team keep true.                                  *)
StrandInv ==
    /\ PostOK /\ ToldOK /\ TakenOK /\ EndOK /\ WaitOK /\ CommandOK /\ SupervisorOK
    /\ StagesOK

-----------------------------------------------------------------------------
(* What one step may do.                                                   *)

(* The fields of a delivery, which name the attempt it is about.           *)
LEMMA Posts ==
    /\ \A i, j \in Ids : /\ Submitted(i) = Submitted(j) => i = j
                         /\ LeaseGone(i) = LeaseGone(j) => i = j
                         /\ FailNudge(i) = FailNudge(j) => i = j
    /\ \A i : /\ Submitted(i).kind = "result" /\ Submitted(i).run = i[1]
              /\ LeaseGone(i).kind = "expired" /\ LeaseGone(i).run = i[1]
              /\ FailNudge(i).kind = "failed" /\ FailNudge(i).run = i[1]
    /\ \A i, n : Turn(i, n).kind = "turn" /\ Turn(i, n).run = i[1]
    /\ \A r, n : /\ Capacity(r, n).kind = "capacity" /\ Capacity(r, n).run = r
                 /\ Capacity(r, n).n = n
                 /\ Replan(r, n).kind = "replan" /\ Replan(r, n).run = r /\ Replan(r, n).n = n
    /\ \A r : /\ External(r).kind = "external" /\ External(r).run = r
              /\ GateNudge(r).kind = "evidence"
  <1>1. \A i, j \in Ids : /\ Submitted(i) = Submitted(j) => i = j
                          /\ LeaseGone(i) = LeaseGone(j) => i = j
                          /\ FailNudge(i) = FailNudge(j) => i = j
    <2> SUFFICES ASSUME NEW i \in Ids, NEW j \in Ids,
                        i[1] = j[1] /\ i[2] = j[2] /\ i[3] = j[3] PROVE i = j
      BY DEF Submitted, LeaseGone, FailNudge, Msg
    <2> QED BY IdParts
  <1> QED BY <1>1 DEF Submitted, LeaseGone, FailNudge, Turn, Capacity, Replan, External, GateNudge, Msg

(* Attempts only go forward, and begin under a lease.                      *)
LEMMA AttemptSteps ==
    ASSUME TypeInv, LeaseInv, [Next]_vars, NEW i \in Ids
    PROVE  /\ asg[i].status # "none" =>
                 /\ asg'[i].status # "none" /\ (Active(i)' => Active(i))
                 /\ asg[i].status # "running" => asg'[i].status = asg[i].status
           /\ asg[i].status = "none" /\ asg'[i].status # "none" =>
                 asg'[i].status = "running" /\ Active(i)' /\ \E r \in Runs : SupCommit(r)
           /\ \/ asg'[i].status = asg[i].status
              \/ asg'[i].status \in {"running", "succeeded", "failed", "expired"}
  <1>0. asg \in [Ids -> Assignments] /\ asg[i] \in Assignments
    BY DEF TypeInv, FactType
  <1>1. CASE asg' = asg
    BY <1>1 DEF Active
  <1>2. ASSUME NEW j \in Ids, Projects(j)
        PROVE  /\ asg'[i].status # asg[i].status =>
                     asg[i].status = "running" /\ asg'[i].status \in {"failed", "expired"}
               /\ Active(i)' => Active(i)
    <2>1. CASE i = j
      BY <1>2, <2>1 DEF Projects, Active
    <2>2. CASE i # j
      BY <1>0, <1>2, <2>2 DEF Projects, Active
    <2> QED BY <2>1, <2>2
  <1>3. ASSUME NEW j \in Ids, WorkCommit(j), asg' # asg
        PROVE  /\ asg'[i].status # asg[i].status =>
                     asg[i].status = "running" /\ asg'[i].status = "succeeded"
               /\ Active(i)' => Active(i)
    <2>1. /\ asg' = [asg EXCEPT ![j] = asg'[j]] /\ asg'[j].lease = "released"
          /\ asg'[j].status = IF asg[j].status = "running" THEN "succeeded"
                              ELSE asg[j].status
      BY <1>3, Committing
    <2> QED BY <1>0, <2>1 DEF Active
  <1>4. ASSUME NEW r \in Runs, SupCommit(r), asg' # asg
        PROVE  \/ asg'[i] = asg[i]
               \/ asg[i].status = "none" /\ asg'[i].status = "running" /\ Active(i)'
    <2>1. ValidatePlanPatch(r, sup[r].patch) = "ok"
      BY <1>4 DEF SupCommit
    <2>2. \/ asg'[i] = asg[i]
          \/ \E p \in sup[r].patch.assign : asg'[i] = Leased(p) /\ asg[i].status = "none"
      BY <1>4, <2>1, Granting
    <2>3. \A p : Leased(p).status = "running" /\ Leased(p).lease = "active"
      BY DEF Leased
    <2> QED BY <2>2, <2>3 DEF Active
  <1>5. CASE \E r \in Runs : SupCommit(r)
    BY <1>1, <1>4, <1>5 DEF Active
  <1>6. StepKind
    BY StepKinds
  <1> QED BY <1>1, <1>2, <1>3, <1>5, <1>6 DEF StepKind

(* The deliveries a step sends.                                            *)
NewPost(m) ==
    \/ m.kind = "turn" /\ m.run \in Runs
    \/ \E i \in Ids : m = Submitted(i) /\ verdict[i] = "accepted"
    \/ m = LeaseGone(exp.cur) /\ exp.pc = "deliver"
    \/ \E i \in Ids : m = FailNudge(i) /\ wk[i].pc = "nudge"
    \/ \E r \in Runs : \E w \in waits'[r] : m = Capacity(r, w.rev)
    \/ \E r \in Runs : \E n \in 1 .. refused'[r] : m = Replan(r, n)

(* Offers of capacity answer waits on record.                              *)
LEMMA Nudges ==
    ASSUME TypeInv, WaitOK, NEW m \in CapacityNudges
    PROVE  \E r \in Runs : \E w \in waits[r] : m = Capacity(r, w.rev)
  <1>1. PICK r \in Runs : waiter[r] # 0 /\ status[r] = "running" /\ m = Capacity(r, waiter[r])
    BY DEF CapacityNudges
  <1>2. PICK w \in waits[r] : w.rev = waiter[r]
    BY <1>1 DEF WaitOK, WaitsOf
  <1> QED BY <1>1, <1>2

(* A supervisor that finds its run complete closes it.                     *)
LEMMA GatePasses ==
    ASSUME TypeInv, PlanInv, PostOK, NEW r \in Runs, SupComplete(r)
    PROVE  GateOpen(r) /\ GateNudge(r) \notin sent
  <1>1. GateNudge(r) \notin sent
    BY Posts DEF PostOK, Known
  <1>2. sup[r].pc = "follow" /\ sup[r].patch.complete
    BY DEF SupComplete
  <1>3. ASSUME NEW s \in StagesOf[r] PROVE recorded[r][s] > 0
    <2>1. s \in Completed(r)
      BY <1>2 DEF TypeInv, SupType, PlanInv, CompletionStands
    <2>2. PICK i \in IdsOf(r, s) : asg[i].status = "succeeded"
      BY <2>1 DEF Completed
    <2>3. i \in Ids /\ i[1] = r /\ i[2] = s
      BY TeamConstants DEF ValidGraph, IdsOf, Ids
    <2> QED BY <2>2, <2>3 DEF PlanInv, ResultRecorded
  <1> QED BY <1>1, <1>3 DEF GateOpen

(* Every delivery of a step is one of these, and none is taken back.       *)
LEMMA SentSteps ==
    ASSUME TypeInv, LeaseInv, PlanInv, StrandInv, [Next]_vars
    PROVE  sent \subseteq sent' /\ \A m \in sent' : m \in sent \/ NewPost(m)
  <1> USE DEF factVars, planVars, runVars, mailVars, memVars
  <1> DEFINE Goal == sent \subseteq sent' /\ \A m \in sent' : m \in sent \/ NewPost(m)
  <1>0. \A i \in Ids : i[1] \in Runs
    BY IdParts
  <1>a. UNCHANGED waits => \A m \in CapacityNudges : NewPost(m)
    BY Nudges DEF NewPost, StrandInv
  <1>b. \A i \in Ids : verdict[i] = "accepted" => NewPost(Submitted(i))
    BY DEF NewPost
  <1>c. ASSUME NEW i, NEW n, i[1] \in Runs PROVE NewPost(Turn(i, n))
    <2> DEFINE m == Turn(i, n)
    <2>1. m.kind = "turn" /\ m.run = i[1]
      BY DEF Turn, Msg
    <2> HIDE DEF m
    <2>2. NewPost(m)
      BY <1>c, <2>1 DEF NewPost
    <2> QED BY <2>2 DEF m
  <1>1. CASE UNCHANGED sent
    BY <1>1
  <1>2. ASSUME NEW m \in Pending, Handle(m) PROVE Goal
    BY <1>1, <1>2 DEF Handle, SupPropose, SupRaise, WorkBegin
  <1>3. ASSUME NEW r \in Runs, SupStep(r) PROVE Goal
    <2>1. CASE SupCommit(r)
      <3>1. \A i, n : i[1] \in Runs => NewPost(Turn(i, n))
        BY <1>c
      <3>2. refused[r] \in Nat
        BY DEF TypeInv, FactType
      <3> DEFINE v == ValidatePlanPatch(r, sup[r].patch)
      <3>3. CASE v = "ok"
        <4>1. sent' = sent \cup { Turn(<<r, p.stage, p.attempt>>, 1) : p \in sup[r].patch.assign }
          BY <2>1, <3>3 DEF SupCommit
        <4>2. \A x, y : <<r, x, y>>[1] = r
          OBVIOUS
        <4> QED BY <3>1, <4>1, <4>2
      <3>4. CASE v = "concurrency"
        <4>1. refused' = [refused EXCEPT ![r] = @ + 1]
              /\ (sent' = sent \/ sent' = sent \cup {Replan(r, refused'[r])})
          BY <2>1, <3>4 DEF SupCommit
        <4>2. refused'[r] = refused[r] + 1
          BY <4>1 DEF TypeInv, FactType
        <4>3. NewPost(Replan(r, refused'[r]))
          BY <3>2, <4>2 DEF NewPost
        <4> QED BY <4>1, <4>3
      <3>5. CASE v # "ok" /\ v # "concurrency"
        BY <1>1, <2>1, <3>5 DEF SupCommit
      <3> QED BY <3>3, <3>4, <3>5
    <2>2. CASE SupWait(r)
      <3> DEFINE w == [rev |-> sup[r].patch.rev, stages |-> sup[r].patch.waiting]
      <3>1. /\ waits' = [waits EXCEPT ![r] = @ \cup {w}]
            /\ sent' = sent \/ sent' = sent \cup {Capacity(r, w.rev)}
        BY <2>2 DEF SupWait
      <3>2. w \in waits'[r]
        BY <3>1 DEF TypeInv, WaitType
      <3>3. NewPost(Capacity(r, w.rev))
        BY <3>2 DEF NewPost
      <3> QED BY <3>1, <3>3
    <2>3. CASE SupComplete(r)
      BY <1>1, <2>3, GatePasses DEF SupComplete, StrandInv
    <2> QED BY <1>1, <1>3, <2>1, <2>2, <2>3 DEF SupStep, SupBury, SupFailRun, SupResume, SupPause, SupAck
  <1>4. ASSUME NEW i \in Ids, WorkStep(i) \/ WorkRaise(i) \/ Deadline(i) PROVE Goal
    <2>1. CASE WorkTurn(i)
      <3>1. \A n : NewPost(Turn(i, n))
        BY <1>0, <1>c
      <3>2. sent' = sent \/ \E n : sent' = sent \cup {Turn(i, n)}
        BY <2>1 DEF WorkTurn
      <3> QED BY <3>1, <3>2
    <2>2. CASE WorkRoute(i)
      BY <1>a, <1>b, <2>2 DEF WorkRoute
    <2>3. CASE WorkNudge(i)
      <3>1. NewPost(FailNudge(i)) /\ sent' = sent \cup {FailNudge(i)}
        BY <2>3 DEF WorkNudge, NewPost
      <3> QED BY <3>1
    <2> QED BY <1>1, <1>4, <2>1, <2>2, <2>3 DEF WorkStep, WorkCommit, WorkFail, WorkRelease,
                WorkAck, WorkRaise, Deadline
  <1>5. CASE ServiceStep
    <2>1. CASE ExpireDeliver
      <3>1. NewPost(LeaseGone(exp.cur)) /\ sent' = sent \cup {LeaseGone(exp.cur)}
        BY <2>1 DEF ExpireDeliver, NewPost
      <3> QED BY <3>1
    <2>2. CASE Reconcile
      BY <1>a, <1>b, <2>2 DEF Reconcile
    <2> QED BY <1>1, <1>5, <2>1, <2>2 DEF ServiceStep, ExpireSnapshot, ExpireAssignment, ExpireLease
  <1>6. CASE Crash
    <2>1. sent' = sent \cup Replayed /\ UNCHANGED <<waits, refused>>
      BY <1>6 DEF Crash
    <2>2. ASSUME NEW m \in Replayed PROVE NewPost(m)
      <3>1. CASE \E i \in Ids : m = Turn(i, 1)
        BY <1>0, <1>c, <3>1
      <3>2. CASE \E i \in Ids : m = Submitted(i) /\ verdict[i] = "accepted"
        BY <3>2 DEF NewPost
      <3>3. CASE \E r \in Runs : \E n \in 1 .. refused[r] : m = Replan(r, n)
        BY <2>1, <3>3 DEF NewPost
      <3>4. CASE \E r \in Runs : \E w \in waits[r] : m = Capacity(r, w.rev)
        BY <2>1, <3>4 DEF NewPost
      <3> QED BY <3>1, <3>2, <3>3, <3>4 DEF Replayed
    <2> QED BY <2>1, <2>2
  <1>7. CASE UNCHANGED vars
    BY <1>1, <1>7 DEF vars
  <1> QED BY <1>2, <1>3, <1>4, <1>5, <1>6, <1>7 DEF Next, Busy

(* The acknowledgements of a step.                                         *)
LEMMA AckSteps ==
    ASSUME TypeInv, EndOK, [Next]_vars
    PROVE  /\ acked \subseteq acked'
           /\ \A m \in acked' : \/ m \in acked \/ m.kind = "turn"
                                \/ \E r \in Runs : SupAck(r) /\ m = sup[r].msg
  <1> USE DEF factVars, planVars, runVars, mailVars, memVars
  <1> DEFINE Goal == /\ acked \subseteq acked'
                     /\ \A m \in acked' : \/ m \in acked \/ m.kind = "turn"
                                          \/ \E r \in Runs : SupAck(r) /\ m = sup[r].msg
  <1>1. CASE UNCHANGED acked
    BY <1>1
  <1>2. ASSUME NEW m \in Pending, Handle(m) PROVE Goal
    BY <1>1, <1>2 DEF Handle, SupPropose, SupRaise, WorkBegin
  <1>3. ASSUME NEW r \in Runs, SupStep(r) PROVE Goal
    <2>1. CASE SupAck(r)
      <3>1. acked' = acked \cup {sup[r].msg}
        BY <2>1 DEF SupAck
      <3> QED BY <2>1, <3>1
    <2> QED BY <1>1, <1>3, <2>1 DEF SupStep, SupBury, SupFailRun, SupCommit, SupResume,
                                    SupWait, SupPause, SupComplete
  <1>4. ASSUME NEW i \in Ids, WorkStep(i) \/ WorkRaise(i) \/ Deadline(i) PROVE Goal
    <2>1. CASE WorkAck(i)
      <3>1. acked' = acked \cup {wk[i].msg} /\ wk[i].pc # "idle"
        BY <2>1 DEF WorkAck
      <3>2. wk[i].msg.kind = "turn"
        BY <3>1 DEF EndOK, EndsOf
      <3> QED BY <3>1, <3>2
    <2> QED BY <1>1, <1>4, <2>1 DEF WorkStep, WorkTurn, WorkCommit, WorkRoute, WorkFail,
                WorkRelease, WorkNudge, WorkRaise, Deadline
  <1>5. CASE ServiceStep
    BY <1>1, <1>5 DEF ServiceStep, ExpireSnapshot, ExpireAssignment, ExpireLease, ExpireDeliver, Reconcile
  <1>6. CASE Crash
    BY <1>1, <1>6 DEF Crash
  <1>7. CASE UNCHANGED vars
    BY <1>1, <1>7 DEF vars
  <1> QED BY <1>2, <1>3, <1>4, <1>5, <1>6, <1>7 DEF Next, Busy

(* The supervisor of a run takes a step.                                   *)
Acts(r) ==
    \/ \E m \in Pending : m.run = r /\ (SupPropose(r, m) \/ SupRaise(r, m))
    \/ SupStep(r)

(* A step of somebody else leaves a run as it is, except that its use-up   *)
(* wait may be forgotten.                                                  *)
Aside(r) ==
    /\ sup'[r] = sup[r] /\ revision'[r] = revision[r] /\ status'[r] = status[r]
    /\ waits'[r] = waits[r] /\ resumed'[r] = resumed[r] /\ refused'[r] = refused[r]
    /\ waiter'[r] = waiter[r] \/ (waiter[r] \in resumed[r] /\ waiter'[r] = 0)
    /\ \A c : c.key.run = r => (c \in cmds' <=> c \in cmds)
    /\ ~SupAck(r)

(* The commands of a run are its own.                                      *)
LEMMA OwnCommands ==
    ASSUME NEW q, NEW r, q # r, NEW m,
           SupPropose(q, m) \/ SupCommit(q)
    PROVE  \A c : c.key.run = r => (c \in cmds' <=> c \in cmds)
  <1>1. \A n, rev : Key(q, n, rev).run = q
    BY DEF Key
  <1>2. CASE SupPropose(q, m)
    <2> DEFINE patch == Propose(q)
               new == [key |-> Key(q, m, patch.rev), patch |-> patch, state |-> "begun"]
    <2>1. cmds' = cmds \/ cmds' = cmds \cup {new}
      BY <1>2 DEF SupPropose
    <2>2. new.key.run = q
      BY <1>1
    <2> HIDE DEF new
    <2> QED BY <2>1, <2>2
  <1>3. CASE SupCommit(q)
    <2> DEFINE k == Key(q, sup[q].msg, sup[q].patch.rev)
               v == ValidatePlanPatch(q, sup[q].patch)
               new == [key |-> k, patch |-> NoPatch, state |-> v]
    <2>1. \/ cmds' = { c \in cmds : c.key # k } \cup {}
          \/ cmds' = { c \in cmds : c.key # k } \cup {new}
      BY <1>3 DEF SupCommit, Decide
    <2>2. new.key.run = q /\ k.run = q
      BY <1>1
    <2> HIDE DEF new, k
    <2> QED BY <2>1, <2>2
  <1> QED BY <1>2, <1>3

(* Every step is the supervisor's own, somebody else's, or a crash.        *)
LEMMA StepsAside ==
    ASSUME TypeInv, PostOK, WaitOK, [Next]_vars, NEW r \in Runs
    PROVE  Aside(r) \/ Acts(r) \/ Crash
  <1> USE DEF factVars, planVars, runVars, mailVars, memVars
  <1>0. /\ sup = [q \in Runs |-> sup[q]] /\ waits = [q \in Runs |-> waits[q]]
        /\ revision \in [Runs -> Nat] /\ refused \in [Runs -> Nat] /\ waiter \in [Runs -> Nat]
        /\ status \in [Runs -> {"running", "paused", "succeeded", "failed"}]
        /\ resumed = [q \in Runs |-> resumed[q]]
    BY DEF TypeInv, SupType, WaitType, FactType, WaitOK
  <1> DEFINE Same == /\ UNCHANGED <<sup, revision, status, waits, resumed, refused, cmds>>
                     /\ waiter' = waiter
  <1>1. ASSUME Same, ~SupAck(r) PROVE Aside(r)
    BY <1>1 DEF Aside
  <1>2. ASSUME NEW m \in Pending, Handle(m) PROVE Aside(r) \/ Acts(r)
    <2>0. m.run \in Runs
      BY <1>2 DEF Pending, PostOK, Known
    <2>1. CASE m.run = r /\ (SupPropose(r, m) \/ SupRaise(r, m))
      BY <2>1 DEF Acts
    <2>2. CASE m.run # r /\ SupPropose(m.run, m)
      <3>1. /\ sup'[r] = sup[r]
            /\ UNCHANGED <<revision, status, waits, resumed, refused, waiter>>
        BY <1>0, <2>2 DEF SupPropose
      <3>2. ~SupAck(r)
        BY <1>0, <2>2 DEF SupAck, IdleSup, SupPropose, SupTakes
      <3>3. \A c : c.key.run = r => (c \in cmds' <=> c \in cmds)
        BY <2>2, OwnCommands
      <3> QED BY <3>1, <3>2, <3>3 DEF Aside
    <2>3. CASE m.run # r /\ SupRaise(m.run, m)
      <3>1. sup'[r] = sup[r] /\ UNCHANGED <<revision, status, waits, resumed, refused, waiter, cmds>>
        BY <1>0, <2>3 DEF SupRaise
      <3>2. ~SupAck(r)
        BY <1>0, <2>3, <3>1 DEF SupAck, IdleSup
      <3> QED BY <3>1, <3>2 DEF Aside
    <2>4. CASE WorkBegin(IdOf(m), m)
      <3>1. Same
        BY <2>4 DEF WorkBegin
      <3>2. ~SupAck(r)
        BY <1>0, <3>1 DEF SupAck, IdleSup
      <3> QED BY <1>1, <3>1, <3>2
    <2> QED BY <1>2, <2>1, <2>2, <2>3, <2>4 DEF Handle
  <1>3. ASSUME NEW q \in Runs, q # r, SupStep(q) PROVE Aside(r)
    <2>1. sup'[r] = sup[r]
      BY <1>0, <1>3 DEF SupStep, SupBury, SupFailRun, SupCommit, SupResume, SupWait, SupPause, SupComplete, SupAck
    <2>2. ~SupAck(r)
      BY <1>0, <2>1 DEF SupAck, IdleSup
    <2>3. CASE SupCommit(q)
      <3>1. /\ UNCHANGED <<status, waits, resumed, waiter>>
            /\ revision'[r] = revision[r] /\ refused'[r] = refused[r]
        BY <1>0, <1>3, <2>3 DEF SupCommit
      <3> QED BY <1>3, <2>1, <2>2, <2>3, <3>1, OwnCommands DEF Aside
    <2>4. CASE ~SupCommit(q)
      <3>1. UNCHANGED <<revision, refused, cmds>>
        BY <1>3, <2>4 DEF SupStep, SupBury, SupFailRun, SupResume, SupWait, SupPause, SupComplete, SupAck
      <3>2. status'[r] = status[r] /\ waits'[r] = waits[r] /\ waiter'[r] = waiter[r]
        BY <1>0, <1>3, <2>4 DEF SupStep, SupBury, SupFailRun, SupResume, SupWait, SupPause, SupComplete, SupAck
      <3>3. resumed'[r] = resumed[r]
        BY <1>0, <1>3, <2>4 DEF SupStep, SupBury, SupFailRun, SupResume, SupWait, SupPause, SupComplete, SupAck
      <3> QED BY <2>1, <2>2, <3>1, <3>2, <3>3 DEF Aside
    <2> QED BY <2>3, <2>4
  <1>4. ASSUME NEW i \in Ids, WorkStep(i) \/ WorkRaise(i) \/ Deadline(i) PROVE Aside(r)
    <2>1. Same
      BY <1>4 DEF WorkStep, WorkTurn, WorkCommit, WorkRoute, WorkFail,
                  WorkRelease, WorkNudge, WorkAck, WorkRaise, Deadline
    <2>2. ~SupAck(r)
      BY <1>0, <2>1 DEF SupAck, IdleSup
    <2> QED BY <1>1, <2>1, <2>2
  <1>5. CASE ServiceStep
    <2>0. UNCHANGED sup
      BY <1>5 DEF ServiceStep, ExpireSnapshot, ExpireAssignment, ExpireLease, ExpireDeliver, Reconcile
    <2>1. ~SupAck(r)
      BY <1>0, <2>0 DEF SupAck, IdleSup
    <2>2. CASE Reconcile
      <3>1. /\ UNCHANGED <<sup, revision, status, waits, resumed, refused, cmds>>
            /\ waiter' = [q \in Runs |-> IF waiter[q] \in resumed[q] THEN 0 ELSE waiter[q]]
        BY <2>2 DEF Reconcile
      <3> QED BY <2>1, <3>1 DEF Aside
    <2>3. CASE ~Reconcile
      <3>1. Same
        BY <1>5, <2>3 DEF ServiceStep, ExpireSnapshot, ExpireAssignment, ExpireLease, ExpireDeliver
      <3> QED BY <1>1, <2>1, <3>1
    <2> QED BY <2>2, <2>3
  <1>6. CASE UNCHANGED vars
    <2>1. Same
      BY <1>6 DEF vars
    <2>2. ~SupAck(r)
      BY <1>0, <2>1 DEF SupAck, IdleSup
    <2> QED BY <1>1, <2>1, <2>2
  <1> QED BY <1>2, <1>3, <1>4, <1>5, <1>6 DEF Next, Busy, Acts

(* What is on record stays, and a run that has stopped running stays so.   *)
LEMMA RecordsGrow ==
    ASSUME TypeInv, PostOK, WaitOK, [Next]_vars, NEW r \in Runs
    PROVE  /\ waits[r] \subseteq waits'[r] /\ resumed[r] \subseteq resumed'[r]
           /\ refused[r] <= refused'[r] /\ refused[r] \in Nat /\ refused'[r] \in Nat
           /\ status'[r] = "running" => status[r] = "running"
  <1> USE DEF factVars, planVars, runVars, mailVars, memVars
  <1>0. /\ refused \in [Runs -> Nat] /\ refused[r] \in Nat /\ waits = [q \in Runs |-> waits[q]]
        /\ status \in [Runs -> {"running", "paused", "succeeded", "failed"}]
        /\ resumed = [q \in Runs |-> resumed[q]]
    BY DEF TypeInv, FactType, WaitType, WaitOK
  <1>1. CASE Aside(r)
    BY <1>0, <1>1 DEF Aside
  <1>2. CASE Crash
    BY <1>0, <1>2 DEF Crash
  <1>3. CASE Acts(r)
    <2>1. CASE \E m : SupPropose(r, m) \/ SupRaise(r, m)
      BY <1>0, <2>1 DEF SupPropose, SupRaise
    <2>2. CASE SupCommit(r)
      <3>1. UNCHANGED <<waits, resumed, status>>
            /\ (refused' = refused \/ refused' = [refused EXCEPT ![r] = @ + 1]
                \/ refused' = [refused EXCEPT ![r] = @])
        BY <2>2 DEF SupCommit
      <3> QED BY <1>0, <3>1
    <2>3. CASE SupResume(r)
      BY <1>0, <2>3 DEF SupResume
    <2>4. CASE SupWait(r)
      BY <1>0, <2>4 DEF SupWait
    <2>5. CASE SupFailRun(r) \/ SupPause(r) \/ SupComplete(r)
      BY <1>0, <2>5 DEF SupFailRun, SupPause, SupComplete, ProjectRun
    <2>6. CASE SupAck(r) \/ \E i \in sup[r].bury : SupBury(r, i)
      BY <1>0, <2>6 DEF SupAck, SupBury
    <2> QED BY <1>3, <2>1, <2>2, <2>3, <2>4, <2>5, <2>6 DEF Acts, SupStep
  <1> QED BY <1>1, <1>2, <1>3, StepsAside

(* Every step keeps the deliveries known.                                  *)
LEMMA PostStep ==
    ASSUME TypeInv, LeaseInv, PlanInv, StrandInv, [Next]_vars PROVE PostOK'
  <1> SUFFICES ASSUME NEW m \in sent' PROVE Known(m)'
    BY DEF PostOK
  <1>0. PostOK /\ WaitOK
    BY DEF StrandInv
  <1>1. CASE m \in sent
    <2>1. Known(m)
      BY <1>0, <1>1 DEF PostOK
    <2>2. m.run \in Runs
      BY <2>1 DEF Known
    <2>3. /\ waits[m.run] \subseteq waits'[m.run]
          /\ refused[m.run] <= refused'[m.run] /\ refused[m.run] \in Nat /\ refused'[m.run] \in Nat
      BY <1>0, <2>2, RecordsGrow
    <2>4. m.n \in 1 .. refused[m.run] => m.n \in 1 .. refused'[m.run]
      BY <2>3
    <2> QED BY <2>1, <2>3, <2>4 DEF Known
  <1>2. CASE NewPost(m)
    <2>1. CASE m.kind = "turn" /\ m.run \in Runs
      BY <2>1 DEF Known
    <2>2. CASE \E i \in Ids : m \in {Submitted(i), LeaseGone(i), FailNudge(i)}
      <3>1. PICK i \in Ids : m \in {Submitted(i), LeaseGone(i), FailNudge(i)}
        BY <2>2
      <3>2. m.run = i[1] /\ m.kind \in {"result", "expired", "failed"}
        BY <3>1 DEF Submitted, LeaseGone, FailNudge, Msg
      <3> QED BY <3>2, IdParts DEF Known
    <2>3. ASSUME NEW r \in Runs, NEW w \in waits'[r], m = Capacity(r, w.rev) PROVE Known(m)'
      <3>1. m.kind = "capacity" /\ m.run = r /\ m.n = w.rev
        BY <2>3 DEF Capacity, Msg
      <3> QED BY <2>3, <3>1 DEF Known
    <2>4. ASSUME NEW r \in Runs, NEW n \in 1 .. refused'[r], m = Replan(r, n) PROVE Known(m)'
      <3>1. m.kind = "replan" /\ m.run = r /\ m.n = n
        BY <2>4 DEF Replan, Msg
      <3> QED BY <2>4, <3>1 DEF Known
    <2>5. exp.pc = "deliver" => exp.cur \in Ids
      BY DEF TypeInv, ExpType
    <2> QED BY <1>2, <2>1, <2>2, <2>3, <2>4, <2>5 DEF NewPost
  <1> QED BY <1>1, <1>2, SentSteps

(* Who has to be told of what.                                             *)
LEMMA NewlyTold ==
    ASSUME TypeInv, LeaseInv, PlanInv, StrandInv, [Next]_vars, NEW i \in Ids, Told(i)', ~Told(i)
    PROVE  /\ \/ verdict[i] = "accepted" \/ wk[i].pc = "nudge"
              \/ exp.pc = "deliver" /\ exp.cur = i
           /\ \E m \in sent' : m \notin sent /\ m.run = i[1] /\ m.kind # "turn"
  <1>1. PICK m \in {Submitted(i), LeaseGone(i), FailNudge(i)} : m \in sent'
    BY DEF Told
  <1>2. m \notin sent /\ NewPost(m)
    BY <1>1, SentSteps DEF Told
  <1>3. m.run = i[1] /\ m.kind \in {"result", "expired", "failed"}
    BY <1>1 DEF Submitted, LeaseGone, FailNudge, Msg
  <1>4. exp.pc = "deliver" => exp.cur \in Ids
    BY DEF TypeInv, ExpType
  <1>5. CASE \E j \in Ids : m = Submitted(j) /\ verdict[j] = "accepted"
    BY <1>1, <1>2, <1>3, <1>5, Posts
  <1>6. CASE m = LeaseGone(exp.cur) /\ exp.pc = "deliver"
    BY <1>1, <1>2, <1>3, <1>4, <1>6, Posts
  <1>7. CASE \E j \in Ids : m = FailNudge(j) /\ wk[j].pc = "nudge"
    BY <1>1, <1>2, <1>3, <1>7, Posts
  <1>8. \/ \E j \in Ids : m = Submitted(j) /\ verdict[j] = "accepted"
        \/ m = LeaseGone(exp.cur) /\ exp.pc = "deliver"
        \/ \E j \in Ids : m = FailNudge(j) /\ wk[j].pc = "nudge"
    <2>1. \A r, n : m # Capacity(r, n) /\ m # Replan(r, n)
      BY <1>3 DEF Capacity, Replan, Msg
    <2> QED BY <1>2, <1>3, <2>1 DEF NewPost
  <1> QED BY <1>5, <1>6, <1>7, <1>8

(* The supervisor is told of what is over.                                 *)
LEMMA ToldStep ==
    ASSUME TypeInv, LeaseInv, PlanInv, StrandInv, [Next]_vars PROVE ToldOK'
  <1> SUFFICES ASSUME NEW i \in Ids, Told(i)' PROVE asg'[i].status # "none" /\ ~Active(i)'
    BY DEF ToldOK
  <1>1. asg[i].status # "none" /\ ~Active(i)
    <2>1. CASE Told(i)
      BY <2>1 DEF StrandInv, ToldOK
    <2>2. CASE ~Told(i)
      <3>1. \/ verdict[i] = "accepted" \/ wk[i].pc = "nudge"
            \/ exp.pc = "deliver" /\ exp.cur = i
        BY <2>2, NewlyTold
      <3> QED BY <3>1 DEF StrandInv, EndOK, EndsOf
    <2> QED BY <2>1, <2>2
  <1> QED BY <1>1, AttemptSteps

(* An offer is acknowledged when its wait is used up.                      *)
LEMMA TakenStep ==
    ASSUME TypeInv, LeaseInv, PlanInv, StrandInv, [Next]_vars PROVE TakenOK'
  <1>0. PostOK /\ WaitOK /\ EndOK /\ SupervisorOK /\ TakenOK
    BY DEF StrandInv
  <1> SUFFICES ASSUME NEW m \in acked', m.kind = "capacity", status'[m.run] = "running"
               PROVE  m.n \in resumed'[m.run]
    BY DEF TakenOK
  <1>1. CASE m \in acked
    <2>1. m.run \in Runs
      BY <1>0, <1>1 DEF TypeInv, PostOK, Known
    <2>2. status[m.run] = "running" /\ resumed[m.run] \subseteq resumed'[m.run]
      BY <1>0, <2>1, RecordsGrow
    <2> QED BY <1>0, <1>1, <2>2 DEF TakenOK
  <1>2. ASSUME NEW r \in Runs, SupAck(r), m = sup[r].msg PROVE m.n \in resumed'[m.run]
    <2>1. sup[r].pc = "ack" /\ UNCHANGED <<resumed, status>>
      BY <1>2 DEF SupAck, factVars, planVars
    <2>2. m.run = r
      BY <1>0, <1>2, <2>1 DEF SupervisorOK, SupervisorOf, Calls
    <2> QED BY <1>0, <1>2, <2>1, <2>2 DEF SupervisorOK, SupervisorOf
  <1> QED BY <1>0, <1>1, <1>2, AckSteps

(* What no step undoes of the reasons why an end need not be reported.     *)
Onward(r) ==
    /\ sent \subseteq sent' /\ faults' \in Nat /\ faults <= faults'
    /\ status[r] # "running" => status'[r] # "running"
    /\ sup[r].pc = "bury" => \/ sup'[r].pc = "bury" \/ status'[r] # "running" \/ faults' > 0

(* The burial of a run goes on until it has failed, or the process.        *)
LEMMA OnwardSteps ==
    ASSUME TypeInv, LeaseInv, PlanInv, StrandInv, [Next]_vars, NEW r \in Runs PROVE Onward(r)
  <1> USE DEF factVars, planVars, runVars, mailVars, memVars
  <1>0. PostOK /\ WaitOK /\ faults \in Nat
    BY DEF StrandInv, EndOK
  <1>1. faults' \in Nat /\ faults <= faults' /\ (Crash => faults' > 0)
    <2>1. faults' = faults \/ faults' = faults + 1
      BY DEF vars, Next, Handle, SupPropose, SupRaise, WorkBegin, SupStep, SupBury, SupFailRun,
             SupCommit, SupResume, SupWait, SupPause, SupComplete, SupAck, WorkStep, WorkTurn,
             WorkCommit, WorkRoute, WorkFail, WorkRelease, WorkNudge, WorkAck, WorkRaise, Deadline,
             ServiceStep, ExpireSnapshot, ExpireAssignment, ExpireLease, ExpireDeliver, Reconcile, Crash
    <2>2. Crash => faults' = faults + 1
      BY DEF Crash
    <2> QED BY <1>0, <2>1, <2>2
  <1>2. status[r] # "running" => status'[r] # "running"
    BY <1>0, RecordsGrow
  <1>3. ASSUME sup[r].pc = "bury", ~Crash PROVE sup'[r].pc = "bury" \/ status'[r] # "running"
    <2>1. CASE Aside(r)
      BY <1>3, <2>1 DEF Aside
    <2>2. CASE Acts(r)
      <3>0. /\ sup = [q \in Runs |-> sup[q]]
            /\ status \in [Runs -> {"running", "paused", "succeeded", "failed"}]
            /\ sup[r] \in [pc : SupPcs, msg : {sup[r].msg}, patch : {sup[r].patch}, ok : BOOLEAN,
                           bury : SUBSET Ids]
        BY DEF TypeInv, SupType, FactType
      <3>1. SupFailRun(r) \/ \E i \in sup[r].bury : SupBury(r, i)
        BY <1>3, <2>2 DEF Acts, SupPropose, SupRaise, SupTakes, SupStep, SupCommit, SupResume, SupWait,
                          SupPause, SupComplete, SupAck
      <3>2. CASE SupFailRun(r)
        BY <3>0, <3>2 DEF SupFailRun
      <3>3. CASE \E i \in sup[r].bury : SupBury(r, i)
        BY <1>3, <3>0, <3>3 DEF SupBury
      <3> QED BY <3>1, <3>2, <3>3
    <2> QED BY <1>0, <1>3, <2>1, <2>2, StepsAside
  <1> QED BY <1>1, <1>2, <1>3, SentSteps DEF Onward

(* An attempt that a step leaves alone.                                    *)
LEMMA EndFrame ==
    ASSUME NEW i \in Ids, EndsOf(i), Onward(i[1]), faults \in Nat,
           asg'[i].status = asg[i].status, Active(i)' <=> Active(i),
           verdict'[i] = verdict[i], wk'[i] = wk[i], exp' = exp,
           dirty /\ verdict[i] = "accepted" => dirty' \/ Submitted(i) \in sent'
    PROVE  EndsOf(i)'
  <1>1. Told(i) => Told(i)'
    BY DEF Told, Onward
  <1>2. faults > 0 => faults' > 0
    BY DEF Onward
  <1>3. Submitted(i) \in sent => Submitted(i) \in sent'
    BY DEF Onward
  <1>4. /\ status[i[1]] # "running" => status'[i[1]] # "running"
        /\ sup[i[1]].pc = "bury" => \/ sup'[i[1]].pc = "bury" \/ status'[i[1]] # "running"
                                    \/ faults' > 0
    BY DEF Onward
  <1> QED BY <1>1, <1>2, <1>3, <1>4 DEF EndsOf

(* The lists of burials.                                                   *)
LEMMA BuryStep ==
    ASSUME TypeInv, LeaseInv, PlanInv, StrandInv, [Next]_vars, NEW r \in Runs
    PROVE  \A i \in sup'[r].bury : i[1] = r
  <1> USE DEF factVars, planVars, runVars, mailVars, memVars
  <1>0. /\ PostOK /\ WaitOK /\ \A i \in sup[r].bury : i[1] = r
        /\ sup = [q \in Runs |-> sup[q]]
        /\ sup[r] \in [pc : SupPcs, msg : {sup[r].msg}, patch : {sup[r].patch}, ok : BOOLEAN,
                       bury : SUBSET Ids]
    BY DEF TypeInv, SupType, StrandInv, EndOK
  <1>1. CASE Aside(r)
    BY <1>0, <1>1 DEF Aside
  <1>2. CASE Crash
    BY <1>0, <1>2 DEF Crash, IdleSup
  <1>3. ASSUME NEW m, SupPropose(r, m) PROVE sup'[r].bury = {}
    BY <1>0, <1>3 DEF SupPropose
  <1>4. ASSUME NEW m, SupRaise(r, m) PROVE \A i \in sup'[r].bury : i[1] = r
    BY <1>0, <1>4 DEF SupRaise, IdleSup, ActiveLeasesOf
  <1>5. CASE SupStep(r)
    <2>1. sup'[r].bury \subseteq sup[r].bury
      <3>1. CASE SupCommit(r)
        <4>1. PICK ok, pc : sup' = [sup EXCEPT ![r].ok = ok, ![r].pc = pc]
          BY <3>1 DEF SupCommit
        <4> QED BY <1>0, <4>1
      <3>2. CASE SupAck(r)
        BY <1>0, <3>2 DEF SupAck, IdleSup
      <3>3. CASE SupResume(r) \/ SupFailRun(r) \/ SupWait(r) \/ SupPause(r) \/ SupComplete(r)
        <4>1. PICK pc : sup' = [sup EXCEPT ![r].pc = pc]
          BY <3>3 DEF SupResume, SupFailRun, SupWait, SupPause, SupComplete
        <4> QED BY <1>0, <4>1
      <3>4. CASE \E i \in sup[r].bury : SupBury(r, i)
        BY <1>0, <3>4 DEF SupBury
      <3> QED BY <1>5, <3>1, <3>2, <3>3, <3>4 DEF SupStep
    <2> QED BY <1>0, <2>1
  <1> QED BY <1>0, <1>1, <1>2, <1>3, <1>4, <1>5, StepsAside DEF Acts

(* The rows and locals an attempt is described by.                         *)
LEMMA EndTypes ==
    ASSUME TypeInv
    PROVE  /\ asg \in [Ids -> Assignments] /\ \A i \in Ids : asg[i] \in Assignments
           /\ wk = [i \in Ids |-> wk[i]]
           /\ \A i \in Ids : wk[i] \in [pc : WkPcs, msg : {wk[i].msg}]
           /\ exp \in [pc : {"idle", "next", "lease", "deliver"}, todo : SUBSET Ids,
                       cur : Ids \cup {None}]
           /\ ended \in [Ids -> {"none", "submitted", "stopped"}]
           /\ verdict \in [Ids -> {"none", "accepted", "rejected"}]
           /\ dirty \in BOOLEAN
  BY DEF TypeInv, FactType, WkType, ExpType, RunType

(* Steps of supervisors.                                                   *)
LEMMA EndBySupervisor ==
    ASSUME TypeInv, LeaseInv, EndOK, \A q \in Runs : Onward(q), NEW r \in Runs, NEW i \in Ids,
           SupStep(r)
    PROVE  EndsOf(i)'
  <1> USE DEF factVars, planVars, runVars, mailVars, memVars
  <1>0. /\ EndsOf(i) /\ faults \in Nat /\ i[1] \in Runs /\ Onward(i[1])
        /\ asg \in [Ids -> Assignments] /\ asg[i] \in Assignments
    BY IdParts, EndTypes DEF EndOK
  <1>1. CASE SupFailRun(r) \/ SupResume(r) \/ SupWait(r) \/ SupPause(r) \/ SupComplete(r) \/ SupAck(r)
    <2>1. UNCHANGED <<asg, verdict, wk, exp>> /\ (dirty => dirty')
      BY <1>1 DEF SupFailRun, SupResume, SupWait, SupPause, SupComplete, SupAck
    <2> QED BY <1>0, <2>1, EndFrame DEF Active
  <1>2. ASSUME NEW j \in sup[r].bury, SupBury(r, j) PROVE EndsOf(i)'
    <2>0. /\ UNCHANGED <<verdict, wk, exp>> /\ dirty' /\ sup[r].pc = "bury" /\ j \in Ids /\ j[1] = r
          /\ asg' = [asg EXCEPT ![j] = ProjectLease(ProjectAssignment(@, "failed"), "released")]
          /\ sup' = [sup EXCEPT ![r].bury = @ \ {j}]
      BY <1>2 DEF SupBury, EndOK, TypeInv, SupType
    <2>1. CASE i # j
      <3>1. asg'[i] = asg[i]
        BY <1>0, <2>0, <2>1
      <3> QED BY <1>0, <2>0, <3>1, EndFrame DEF Active
    <2>2. CASE i = j
      <3> DEFINE b == ProjectAssignment(asg[i], "failed")
                 a == ProjectLease(b, "released")
      <3>1. b \in Assignments /\ b.lease = asg[i].lease
            /\ b.status = IF asg[i].status = "running" THEN "failed" ELSE asg[i].status
        BY <1>0, ProjectionType, ProjectionFields
      <3>2. a.status = b.status /\ a.lease = IF b.lease = "active" THEN "released" ELSE b.lease
        BY <3>1, ProjectionFields
      <3>3. asg'[i] = a
        BY <1>0, <2>0, <2>2
      <3> HIDE DEF a, b
      <3>4. ~Active(i)' /\ asg'[i].status # "running"
            /\ (asg[i].status # "running" => asg'[i].status = asg[i].status)
            /\ (asg[i].status = "running" => asg'[i].status = "failed")
        BY <3>1, <3>2, <3>3 DEF Active
      <3>5. sup'[i[1]].pc = "bury"
        BY <2>0, <2>2 DEF TypeInv, SupType
      <3> QED BY <1>0, <2>0, <3>4, <3>5 DEF EndsOf
    <2> QED BY <2>1, <2>2
  <1>3. CASE SupCommit(r)
    <2>0. UNCHANGED <<verdict, wk, exp, dirty>>
      BY <1>3 DEF SupCommit
    <2>1. CASE asg'[i] = asg[i]
      BY <1>0, <2>0, <2>1, EndFrame DEF Active
    <2>2. CASE asg'[i] # asg[i]
      <3>1. ValidatePlanPatch(r, sup[r].patch) = "ok"
        BY <1>3, <2>2 DEF SupCommit
      <3>2. asg[i].status = "none" /\ \E p \in sup[r].patch.assign : asg'[i] = Leased(p)
        BY <1>3, <2>2, <3>1, Granting
      <3>3. asg'[i].status = "running" /\ Active(i)'
        BY <3>2 DEF Leased, Active
      <3>4. /\ verdict[i] # "accepted" /\ wk[i].pc = "idle" /\ i \notin exp.todo
            /\ ~(exp.pc \in {"lease", "deliver"} /\ exp.cur = i)
        BY <1>0, <3>2 DEF EndsOf
      <3> QED BY <2>0, <3>3, <3>4 DEF EndsOf
    <2> QED BY <2>1, <2>2
  <1> QED BY <1>1, <1>2, <1>3 DEF SupStep

(* Deliveries that are taken up.                                           *)
LEMMA EndByHandle ==
    ASSUME TypeInv, LeaseInv, EndOK, \A q \in Runs : Onward(q), NEW m \in Pending, NEW i \in Ids,
           Handle(m)
    PROVE  EndsOf(i)'
  <1> USE DEF factVars, planVars, runVars, mailVars, memVars
  <1>0. /\ EndsOf(i) /\ faults \in Nat /\ i[1] \in Runs /\ Onward(i[1])
        /\ wk = [j \in Ids |-> wk[j]] /\ \A j \in Ids : wk[j] \in [pc : WkPcs, msg : {wk[j].msg}]
    BY IdParts, EndTypes DEF EndOK
  <1>1. UNCHANGED <<asg, verdict, exp, dirty>>
    BY DEF Handle, SupPropose, SupRaise, WorkBegin
  <1>2. CASE wk'[i] = wk[i]
    BY <1>0, <1>1, <1>2, EndFrame DEF Active
  <1>3. CASE wk'[i] # wk[i]
    <2>1. WorkBegin(IdOf(m), m)
      BY <1>3 DEF Handle, SupPropose, SupRaise
    <2>2. /\ Active(i) /\ wk'[i] = [pc |-> "turn", msg |-> m] /\ m.kind = "turn"
      BY <1>0, <1>3, <2>1 DEF WorkBegin
    <2>3. asg[i].status # "none"
      BY <2>2 DEF LeaseInv, LeasesHeld
    <2>4. wk'[i].pc = "turn" /\ wk'[i].msg.kind = "turn" /\ Active(i)'
      BY <1>1, <2>2 DEF Active
    <2>5. verdict[i] # "accepted"
      BY <1>0, <2>2 DEF EndsOf
    <2> QED BY <1>0, <1>1, <2>2, <2>3, <2>4, <2>5 DEF EndsOf
  <1> QED BY <1>2, <1>3

(* Steps of workers.                                                       *)
LEMMA EndByWorker ==
    ASSUME TypeInv, LeaseInv, EndOK, \A q \in Runs : Onward(q), NEW j \in Ids, NEW i \in Ids,
           j \in Busy, WorkStep(j) \/ WorkRaise(j)
    PROVE  EndsOf(i)'
  <1> USE DEF factVars, planVars, runVars, mailVars, memVars
  <1>0. /\ EndsOf(i) /\ faults \in Nat /\ i[1] \in Runs /\ Onward(i[1])
        /\ asg \in [Ids -> Assignments] /\ asg[i] \in Assignments
        /\ wk = [k \in Ids |-> wk[k]] /\ \A k \in Ids : wk[k] \in [pc : WkPcs, msg : {wk[k].msg}]
        /\ verdict \in [Ids -> {"none", "accepted", "rejected"}]
        /\ ended \in [Ids -> {"none", "submitted", "stopped"}]
    BY IdParts, EndTypes DEF EndOK
  <1>1. CASE i # j
    <2>1. asg'[i] = asg[i] /\ wk'[i] = wk[i] /\ verdict'[i] = verdict[i] /\ exp' = exp
      BY <1>0, <1>1 DEF WorkStep, WkStep, WorkTurn, WorkCommit, WorkRoute, WorkFail, WorkRelease,
                        WorkNudge, WorkAck, WorkRaise
    <2>2. dirty => dirty'
      BY DEF WorkStep, WorkTurn, WorkCommit, WorkRoute, WorkFail, WorkRelease,
             WorkNudge, WorkAck, WorkRaise
    <2> QED BY <1>0, <2>1, <2>2, EndFrame DEF Active
  <1>2. CASE i = j
    <2>0. /\ wk[i].pc # "idle" /\ asg[i].status # "none" /\ wk[i].msg.kind = "turn"
          /\ exp' = exp
      BY <1>0, <1>2 DEF Busy, EndsOf, WorkStep, WorkTurn, WorkCommit, WorkRoute, WorkFail,
                        WorkRelease, WorkNudge, WorkAck, WorkRaise
    <2>a. \A pc : wk' = [wk EXCEPT ![i].pc = pc] => wk'[i].pc = pc /\ wk'[i].msg = wk[i].msg
      BY <1>0
    <2>b. /\ Told(i) => Told(i)'
          /\ faults > 0 => faults' > 0
          /\ Submitted(i) \in sent => Submitted(i) \in sent'
          /\ status[i[1]] # "running" => status'[i[1]] # "running"
          /\ sup[i[1]].pc = "bury" => \/ sup'[i[1]].pc = "bury" \/ status'[i[1]] # "running"
                                      \/ faults' > 0
      BY <1>0 DEF Told, Onward
    <2>1. CASE WorkTurn(i)
      <3>1. /\ asg' = [asg EXCEPT ![i] = ProjectLease(@, "renewed")] /\ wk[i].pc = "turn"
            /\ UNCHANGED <<verdict, dirty>>
        BY <2>1 DEF WorkTurn
      <3>2. asg'[i].status = asg[i].status /\ (Active(i)' <=> Active(i))
        BY <1>0, <3>1, ProjectionFields DEF Active
      <3>3. \E pc \in {"ack", "submitted", "stopped"} : wk' = [wk EXCEPT ![i].pc = pc]
        <4>1. CASE ended[i] # "none"
          <5>1. wk' = [wk EXCEPT ![i].pc = ended[i]]
            BY <2>1, <4>1 DEF WorkTurn, WkStep
          <5> QED BY <1>0, <4>1, <5>1
        <4>2. CASE ended[i] = "none"
          <5>1. \/ wk' = [wk EXCEPT ![i].pc = "ack"]
                \/ \E e \in {"submitted", "stopped"} :
                      ended' = [ended EXCEPT ![i] = e] /\ wk' = [wk EXCEPT ![i].pc = ended'[i]]
            BY <2>1, <4>2 DEF WorkTurn, WkStep
          <5> QED BY <1>0, <5>1
        <4> QED BY <4>1, <4>2
      <3>4. PICK pc \in {"ack", "submitted", "stopped"} : wk'[i].pc = pc /\ wk'[i].msg = wk[i].msg
        BY <2>a, <3>3
      <3> QED BY <1>0, <2>0, <2>b, <3>1, <3>2, <3>4 DEF EndsOf
    <2>2. CASE WorkCommit(i)
      <3>1. wk' = [wk EXCEPT ![i].pc = "route"] /\ UNCHANGED dirty /\ wk[i].pc = "submitted"
        BY <2>2 DEF WorkCommit, WkStep
      <3>2. wk'[i].pc = "route" /\ wk'[i].msg = wk[i].msg
        BY <2>a, <3>1
      <3>3. CASE ResultAdmitted(i) /\ verdict[i] = "none"
        <4>1. verdict' = [verdict EXCEPT ![i] = "accepted"]
          BY <2>2, <3>3 DEF WorkCommit
        <4>2. verdict'[i] = "accepted"
          BY <1>0, <4>1
        <4>3. asg'[i].lease = "released"
              /\ asg'[i].status = (IF asg[i].status = "running" THEN "succeeded" ELSE asg[i].status)
          <5>1. recorded' = [recorded EXCEPT ![i[1]][i[2]] = @ + 1]
            BY <2>2, <3>3 DEF WorkCommit
          <5>2. asg' = [asg EXCEPT ![i] = ProjectLease(ProjectAssignment(@, "succeeded"), "released")]
            BY <2>2, <3>3 DEF WorkCommit
          <5> DEFINE b == ProjectAssignment(asg[i], "succeeded")
          <5>3. b \in Assignments /\ b.lease = asg[i].lease
                /\ b.status = (IF asg[i].status = "running" THEN "succeeded" ELSE asg[i].status)
            BY <1>0, ProjectionType, ProjectionFields
          <5>4. asg'[i] = ProjectLease(b, "released")
            BY <1>0, <5>2
          <5> HIDE DEF b
          <5>5. /\ ProjectLease(b, "released").status = b.status
                /\ ProjectLease(b, "released").lease =
                     IF b.lease = "active" THEN "released" ELSE b.lease
            BY <5>3, ProjectionFields
          <5> QED BY <3>3, <5>3, <5>4, <5>5 DEF ResultAdmitted, Active
        <4>4. ~Active(i)' /\ asg'[i].status # "none" /\ asg'[i].status # "running"
          BY <2>0, <4>3 DEF Active
        <4>5. exp.cur = i /\ exp.pc = "deliver" => ~Active(i)
          BY <1>0 DEF EndsOf
        <4> QED BY <2>0, <3>2, <4>2, <4>4 DEF EndsOf
      <3>4. CASE ~(ResultAdmitted(i) /\ verdict[i] = "none")
        <4>1. UNCHANGED asg
          BY <2>2, <3>4 DEF WorkCommit
        <4>2. CASE verdict[i] = "none"
          <5>1. verdict' = [verdict EXCEPT ![i] = "rejected"]
            BY <2>2, <3>4, <4>2 DEF WorkCommit
          <5>2. verdict'[i] = "rejected"
            BY <1>0, <5>1
          <5>3. asg[i].status # "succeeded"
            BY <1>0, <4>2 DEF EndsOf
          <5>4. Active(i)' <=> Active(i)
            BY <4>1 DEF Active
          <5> QED BY <1>0, <2>0, <2>b, <3>1, <3>2, <4>1, <4>2, <5>2, <5>3, <5>4 DEF EndsOf
        <4>3. CASE verdict[i] # "none"
          <5>1. UNCHANGED verdict
            BY <2>2, <4>3 DEF WorkCommit
          <5>4. Active(i)' <=> Active(i)
            BY <4>1 DEF Active
          <5> QED BY <1>0, <2>0, <2>b, <3>1, <3>2, <4>1, <5>1, <5>4 DEF EndsOf
        <4> QED BY <4>2, <4>3
      <3> QED BY <3>3, <3>4
    <2>3. CASE WorkRoute(i)
      <3>0. UNCHANGED <<asg, verdict, dirty>> /\ wk[i].pc = "route" /\ (Active(i)' <=> Active(i))
        BY <2>3 DEF WorkRoute, Active
      <3>1. CASE verdict[i] = "accepted"
        <4>1. Submitted(i) \in sent' /\ wk' = [wk EXCEPT ![i].pc = "ack"]
          BY <2>3, <3>1 DEF WorkRoute, WkStep
        <4>2. wk'[i].pc = "ack" /\ wk'[i].msg = wk[i].msg
          BY <2>a, <4>1
        <4> QED BY <1>0, <2>0, <2>b, <3>0, <3>1, <4>1, <4>2 DEF EndsOf
      <3>2. CASE verdict[i] # "accepted"
        <4>1. wk' = [wk EXCEPT ![i].pc = "stopped"]
          BY <2>3, <3>2 DEF WorkRoute, WkStep
        <4>2. wk'[i].pc = "stopped" /\ wk'[i].msg = wk[i].msg
          BY <2>a, <4>1
        <4> QED BY <1>0, <2>0, <2>b, <3>0, <3>2, <4>2 DEF EndsOf
      <3> QED BY <3>1, <3>2
    <2>4. CASE WorkFail(i)
      <3>0. /\ UNCHANGED <<verdict, dirty>> /\ wk[i].pc = "stopped"
            /\ asg' = [asg EXCEPT ![i] = ProjectAssignment(@, "failed")]
            /\ wk' = [wk EXCEPT ![i].pc = IF Active(i) THEN "release" ELSE "nudge"]
        BY <2>4 DEF WorkFail, WkStep
      <3>1. /\ Active(i)' <=> Active(i)
            /\ asg'[i].status = IF asg[i].status = "running" THEN "failed" ELSE asg[i].status
        BY <1>0, <3>0, ProjectionFields DEF Active
      <3>2. /\ wk'[i].pc = (IF Active(i) THEN "release" ELSE "nudge") /\ wk'[i].msg = wk[i].msg
        BY <2>a, <3>0
      <3> QED BY <1>0, <2>0, <2>b, <3>0, <3>1, <3>2 DEF EndsOf
    <2>5. CASE WorkRelease(i)
      <3>0. /\ UNCHANGED verdict /\ dirty' /\ wk[i].pc = "release"
            /\ asg' = [asg EXCEPT ![i] = ProjectLease(@, "released")]
            /\ wk' = [wk EXCEPT ![i].pc = "nudge"]
        BY <2>5 DEF WorkRelease, WkStep
      <3>1. ~Active(i)' /\ asg'[i].status = asg[i].status
        BY <1>0, <3>0, ProjectionFields DEF Active
      <3>2. wk'[i].pc = "nudge" /\ wk'[i].msg = wk[i].msg
        BY <2>a, <3>0
      <3> QED BY <1>0, <2>0, <2>b, <3>0, <3>1, <3>2 DEF EndsOf
    <2>6. CASE WorkNudge(i)
      <3>0. /\ UNCHANGED <<asg, verdict, dirty>> /\ wk[i].pc = "nudge"
            /\ wk' = [wk EXCEPT ![i].pc = "ack"] /\ FailNudge(i) \in sent'
        BY <2>6 DEF WorkNudge, WkStep
      <3>1. wk'[i].pc = "ack" /\ wk'[i].msg = wk[i].msg /\ Told(i)' /\ (Active(i)' <=> Active(i))
        BY <2>a, <3>0 DEF Told, Active
      <3> QED BY <1>0, <2>0, <2>b, <3>0, <3>1 DEF EndsOf
    <2>7. CASE WorkAck(i)
      <3>0. /\ UNCHANGED <<asg, verdict, dirty>> /\ wk[i].pc = "ack" /\ wk'[i] = IdleWk
        BY <1>0, <2>7 DEF WorkAck
      <3>1. wk'[i].pc = "idle" /\ (Active(i)' <=> Active(i))
        BY <3>0 DEF IdleWk, Active
      <3> QED BY <1>0, <2>0, <2>b, <3>0, <3>1 DEF EndsOf
    <2>8. CASE WorkRaise(i)
      <3>0. /\ UNCHANGED <<asg, verdict>> /\ dirty' = (dirty \/ wk[i].pc = "route")
            /\ wk'[i] = IdleWk /\ faults' = faults + 1
        BY <1>0, <2>8 DEF WorkRaise
      <3>1. wk'[i].pc = "idle" /\ (Active(i)' <=> Active(i)) /\ faults' > 0
        BY <1>0, <3>0 DEF IdleWk, Active
      <3> QED BY <1>0, <2>0, <2>b, <3>0, <3>1 DEF EndsOf
    <2> QED BY <1>2, <2>1, <2>2, <2>3, <2>4, <2>5, <2>6, <2>7, <2>8 DEF WorkStep
  <1> QED BY <1>1, <1>2

(* Deadlines, the service loop and a crash.                                *)
LEMMA EndByService ==
    ASSUME TypeInv, LeaseInv, EndOK, \A q \in Runs : Onward(q), NEW i \in Ids,
           ServiceStep \/ Crash \/ \E j \in Ids : Deadline(j)
    PROVE  EndsOf(i)'
  <1> USE DEF factVars, planVars, runVars, mailVars, memVars
  <1>0. /\ EndsOf(i) /\ faults \in Nat /\ i[1] \in Runs /\ Onward(i[1])
        /\ asg \in [Ids -> Assignments] /\ asg[i] \in Assignments
        /\ exp \in [pc : {"idle", "next", "lease", "deliver"}, todo : SUBSET Ids,
                    cur : Ids \cup {None}]
    BY IdParts, EndTypes DEF EndOK
  <1>b. /\ Told(i) => Told(i)'
        /\ faults > 0 => faults' > 0
        /\ Submitted(i) \in sent => Submitted(i) \in sent'
        /\ status[i[1]] # "running" => status'[i[1]] # "running"
        /\ sup[i[1]].pc = "bury" => \/ sup'[i[1]].pc = "bury" \/ status'[i[1]] # "running"
                                    \/ faults' > 0
    BY <1>0 DEF Told, Onward
  <1>1. ASSUME NEW j \in Ids, Deadline(j) PROVE EndsOf(i)'
    <2>1. /\ UNCHANGED <<verdict, wk, exp, dirty>> /\ asg' = [asg EXCEPT ![j].due = TRUE]
      BY <1>1 DEF Deadline
    <2>2. asg'[i].status = asg[i].status /\ (Active(i)' <=> Active(i))
      BY <1>0, <2>1 DEF Active, Assignments
    <2> QED BY <1>0, <2>1, <2>2, EndFrame
  <1>2. CASE ExpireSnapshot
    <2>1. /\ UNCHANGED <<asg, verdict, wk, dirty>> /\ exp.pc = "idle"
          /\ exp' = [pc |-> "next", todo |-> { j \in Ids : Active(j) /\ asg[j].due }, cur |-> None]
      BY <1>2 DEF ExpireSnapshot
    <2>2. exp'.pc = "next" /\ (i \in exp'.todo => Active(i)) /\ (Active(i)' <=> Active(i))
      BY <2>1 DEF Active
    <2>3. i \in exp'.todo => asg[i].status # "none"
      BY <2>2 DEF LeaseInv, LeasesHeld
    <2> QED BY <1>0, <1>b, <2>1, <2>2, <2>3 DEF EndsOf
  <1>3. ASSUME NEW j \in exp.todo, ExpireAssignment(j) PROVE EndsOf(i)'
    <2>1. /\ UNCHANGED <<verdict, wk, dirty>> /\ exp.pc = "next" /\ j \in Ids
          /\ exp' = [pc |-> "lease", todo |-> exp.todo \ {j}, cur |-> j]
          /\ asg' = [asg EXCEPT ![j] = ProjectAssignment(@, "expired")]
      BY <1>0, <1>3 DEF ExpireAssignment
    <2>2. asg[j] \in Assignments /\ asg[j].status # "none"
      BY <1>0, <1>3, <2>1 DEF EndOK, EndsOf
    <2>3. /\ Active(i)' <=> Active(i)
          /\ i # j => asg'[i].status = asg[i].status
          /\ i = j => asg'[i].status =
                        IF asg[i].status = "running" THEN "expired" ELSE asg[i].status
      BY <1>0, <2>1, ProjectionFields DEF Active
    <2>4. exp'.pc = "lease" /\ exp'.cur = j /\ (i \in exp'.todo => i \in exp.todo)
      BY <2>1
    <2> QED BY <1>0, <1>b, <2>1, <2>2, <2>3, <2>4 DEF EndsOf
  <1>4. CASE ExpireLease
    <2> DEFINE j == exp.cur
    <2>1. /\ UNCHANGED <<verdict, wk, dirty>> /\ exp.pc = "lease"
          /\ exp' = [exp EXCEPT !.pc = "deliver"]
          /\ asg' = [asg EXCEPT ![j] = ProjectLease(@, "expired")]
      BY <1>4 DEF ExpireLease
    <2>2. asg'[i].status = asg[i].status /\ (i = j => ~Active(i)') /\ (i # j => (Active(i)' <=> Active(i)))
      BY <1>0, <2>1, ProjectionFields DEF Active
    <2>3. exp'.pc = "deliver" /\ exp'.cur = exp.cur /\ exp'.todo = exp.todo
      BY <1>0, <2>1
    <2> QED BY <1>0, <1>b, <2>1, <2>2, <2>3 DEF EndsOf
  <1>5. CASE ExpireDeliver
    <2>1. /\ UNCHANGED <<asg, verdict, wk, dirty>> /\ exp.pc = "deliver"
          /\ LeaseGone(exp.cur) \in sent'
          /\ exp' = IF exp.todo = {} THEN IdleExp ELSE [exp EXCEPT !.pc = "next", !.cur = None]
      BY <1>5 DEF ExpireDeliver
    <2>2. exp'.pc \in {"idle", "next"} /\ exp'.todo = exp.todo
      BY <1>0, <2>1 DEF IdleExp
    <2>3. exp.cur = i => Told(i)'
      BY <2>1 DEF Told
    <2>4. Active(i)' <=> Active(i)
      BY <2>1 DEF Active
    <2> QED BY <1>0, <1>b, <2>1, <2>2, <2>3, <2>4 DEF EndsOf
  <1>6. CASE Reconcile
    <2>1. /\ UNCHANGED <<asg, verdict, wk, exp>>
          /\ verdict[i] = "accepted" => Submitted(i) \in sent'
      BY <1>6 DEF Reconcile
    <2> QED BY <1>0, <2>1, EndFrame DEF Active
  <1>7. CASE Crash
    <2>1. /\ UNCHANGED <<asg, verdict>> /\ wk'[i] = IdleWk /\ exp' = IdleExp /\ faults' = faults + 1
          /\ verdict[i] = "accepted" => Submitted(i) \in sent'
      BY <1>7 DEF Crash, Replayed
    <2>2. /\ wk'[i].pc = "idle" /\ exp'.pc = "idle" /\ exp'.todo = {} /\ faults' > 0
          /\ Active(i)' <=> Active(i)
      BY <1>0, <2>1 DEF IdleWk, IdleExp, Active
    <2> QED BY <1>0, <1>b, <2>1, <2>2 DEF EndsOf
  <1> QED BY <1>1, <1>2, <1>3, <1>4, <1>5, <1>6, <1>7 DEF ServiceStep

(* Every step keeps the ends of the attempts.                              *)
LEMMA EndStep ==
    ASSUME TypeInv, LeaseInv, PlanInv, StrandInv, [Next]_vars PROVE EndOK'
  <1>0. EndOK /\ \A r \in Runs : Onward(r)
    BY OnwardSteps DEF StrandInv
  <1>1. ASSUME NEW i \in Ids PROVE EndsOf(i)'
    <2>1. CASE UNCHANGED vars
      <3>1. UNCHANGED <<asg, verdict, wk, exp, dirty>>
        BY <2>1 DEF vars, factVars, runVars, memVars
      <3>2. EndsOf(i) /\ Onward(i[1]) /\ faults \in Nat
        BY <1>0, IdParts DEF EndOK
      <3> QED BY <3>1, <3>2, EndFrame DEF Active
    <2>2. CASE Next
      BY <1>0, <2>2, EndBySupervisor, EndByHandle, EndByWorker, EndByService DEF Next, Busy
    <2> QED BY <2>1, <2>2
  <1>2. faults' \in Nat
    <2>1. CASE Runs = {}
      <3>1. faults' = faults \/ faults' = faults + 1
        BY DEF vars, factVars, planVars, runVars, mailVars, memVars, Next, Handle, SupPropose, SupRaise,
             WorkBegin, SupStep, SupBury, SupFailRun,
             SupCommit, SupResume, SupWait, SupPause, SupComplete, SupAck, WorkStep, WorkTurn,
             WorkCommit, WorkRoute, WorkFail, WorkRelease, WorkNudge, WorkAck, WorkRaise, Deadline,
             ServiceStep, ExpireSnapshot, ExpireAssignment, ExpireLease, ExpireDeliver, Reconcile, Crash
      <3> QED BY <1>0, <3>1 DEF EndOK
    <2>2. CASE Runs # {}
      BY <1>0, <2>2 DEF Onward
    <2> QED BY <2>1, <2>2
  <1> QED BY <1>1, <1>2, BuryStep DEF EndOK

-----------------------------------------------------------------------------
(* Waits for capacity.                                                     *)

(* Agents that are up were up, and a lease ends with its agent degraded or *)
(* with somebody about to offer the agent.                                 *)
LEMMA LeaseEnds ==
    ASSUME TypeInv, LeaseInv, [Next]_vars, NEW i \in Ids, Active(i)
    PROVE  \/ Active(i)' /\ asg'[i].agent = asg[i].agent
           \/ Offering' \/ agent'[asg[i].agent] = "degraded"
  <1> USE DEF factVars, planVars, runVars, mailVars, memVars
  <1>0. /\ asg \in [Ids -> Assignments] /\ asg[i] \in Assignments
        /\ asg[i].agent \in Agents /\ asg[i].status # "none"
    <2>1. i[2] \in Stages
      BY IdParts
    <2> QED BY <2>1, EndTypes, TeamConstants DEF LeaseInv, LeasesHeld
  <1> DEFINE Kept == Active(i)' /\ asg'[i].agent = asg[i].agent
  <1>1. ASSUME UNCHANGED asg PROVE Kept
    BY <1>1 DEF Active
  <1>3. ASSUME NEW r \in Runs, SupStep(r) PROVE Kept \/ Offering'
    <2>1. CASE \E j \in sup[r].bury : SupBury(r, j)
      BY <2>1 DEF SupBury, Offering
    <2>2. CASE SupCommit(r)
      <3>1. CASE asg' = asg
        BY <1>1, <3>1
      <3>2. CASE asg' # asg
        <4>1. ValidatePlanPatch(r, sup[r].patch) = "ok"
          BY <2>2, <3>2 DEF SupCommit
        <4>2. asg'[i] = asg[i]
          BY <1>0, <2>2, <4>1, Granting
        <4> QED BY <4>2 DEF Active
      <3> QED BY <3>1, <3>2
    <2> QED BY <1>1, <1>3, <2>1, <2>2 DEF SupStep, SupFailRun, SupResume, SupWait, SupPause,
                                          SupComplete, SupAck
  <1>4. ASSUME NEW j \in Ids, WorkStep(j) \/ WorkRaise(j) \/ Deadline(j) PROVE Kept \/ Offering'
    <2>0. wk = [k \in Ids |-> wk[k]] /\ \A k \in Ids : wk[k] \in [pc : WkPcs, msg : {wk[k].msg}]
          /\ verdict \in [Ids -> {"none", "accepted", "rejected"}]
      BY EndTypes
    <2>1. CASE WorkTurn(j)
      <3>1. asg' = [asg EXCEPT ![j] = ProjectLease(@, "renewed")]
        BY <2>1 DEF WorkTurn
      <3> QED BY <1>0, <3>1, ProjectionFields DEF Active
    <2>2. CASE WorkFail(j)
      <3>1. asg' = [asg EXCEPT ![j] = ProjectAssignment(@, "failed")]
        BY <2>2 DEF WorkFail
      <3> QED BY <1>0, <3>1, ProjectionFields DEF Active
    <2>3. CASE Deadline(j)
      <3>1. asg' = [asg EXCEPT ![j].due = TRUE]
        BY <2>3 DEF Deadline
      <3> QED BY <1>0, <3>1 DEF Active, Assignments
    <2>4. CASE WorkRelease(j)
      BY <2>4 DEF WorkRelease, Offering
    <2>5. CASE WorkCommit(j)
      <3>1. CASE asg' = asg
        BY <1>1, <3>1
      <3>2. CASE asg' # asg
        <4>1. /\ verdict' = [verdict EXCEPT ![j] = "accepted"]
              /\ wk' = [wk EXCEPT ![j].pc = "route"]
          BY <2>5, <3>2 DEF WorkCommit, WkStep
        <4>2. verdict'[j] = "accepted" /\ wk'[j].pc = "route"
          BY <2>0, <4>1
        <4> QED BY <4>2 DEF Offering
      <3> QED BY <3>1, <3>2
    <2> QED BY <1>1, <1>4, <2>1, <2>2, <2>3, <2>4, <2>5 DEF WorkStep, WorkRoute, WorkNudge, WorkAck, WorkRaise
  <1>5. CASE ServiceStep
    <2>1. ASSUME NEW j \in exp.todo, ExpireAssignment(j) PROVE Kept
      <3>1. asg' = [asg EXCEPT ![j] = ProjectAssignment(@, "expired")]
        BY <2>1 DEF ExpireAssignment
      <3> QED BY <1>0, <3>1, ProjectionFields DEF Active
    <2>2. CASE ExpireLease
      <3>1. /\ asg' = [asg EXCEPT ![exp.cur] = ProjectLease(@, "expired")]
            /\ agent' = [agent EXCEPT ![asg[exp.cur].agent] = "degraded"]
        BY <2>2 DEF ExpireLease
      <3>2. agent \in [Agents -> {"up", "degraded"}]
        BY DEF TypeInv, FactType
      <3>3. CASE i = exp.cur
        BY <1>0, <3>1, <3>2, <3>3
      <3>4. CASE i # exp.cur
        BY <1>0, <3>1, <3>4 DEF Active
      <3> QED BY <3>3, <3>4
    <2> QED BY <1>1, <1>5, <2>1, <2>2 DEF ServiceStep, ExpireSnapshot, ExpireDeliver, Reconcile
  <1>6. CASE Crash
    BY <1>1, <1>6 DEF Crash
  <1>7. ASSUME NEW m \in Pending, Handle(m) PROVE Kept
    BY <1>1, <1>7 DEF Handle, SupPropose, SupRaise, WorkBegin
  <1>8. CASE UNCHANGED vars
    BY <1>1, <1>8 DEF vars
  <1> QED BY <1>3, <1>4, <1>5, <1>6, <1>7, <1>8 DEF Next, Busy

(* No agent recovers.                                                      *)
LEMMA AgentsFall ==
    ASSUME TypeInv, [Next]_vars, NEW a \in Agents, agent'[a] = "up" PROVE agent[a] = "up"
  <1> USE DEF factVars, planVars, runVars, mailVars, memVars
  <1>1. agent' = agent \/ \E b : agent' = [agent EXCEPT ![b] = "degraded"]
    <2>1. ASSUME NEW m \in Pending, Handle(m) PROVE agent' = agent
      BY <2>1 DEF Handle, SupPropose, SupRaise, WorkBegin
    <2>2. ASSUME NEW r \in Runs, SupStep(r) PROVE agent' = agent
      BY <2>2 DEF SupStep, SupBury, SupFailRun, SupCommit, SupResume, SupWait, SupPause, SupComplete, SupAck
    <2>3. ASSUME NEW i \in Ids, WorkStep(i) \/ Deadline(i) PROVE agent' = agent
      BY <2>3 DEF WorkStep, WorkTurn, WorkCommit, WorkRoute, WorkFail, WorkRelease, WorkNudge, WorkAck, Deadline
    <2>4. ASSUME NEW i \in Ids, WorkRaise(i) PROVE \E b : agent' = [agent EXCEPT ![b] = "degraded"]
      BY <2>4 DEF WorkRaise
    <2>5. CASE ExpireLease
      BY <2>5 DEF ExpireLease
    <2>6. ASSUME ServiceStep, ~ExpireLease PROVE agent' = agent
      BY <2>6 DEF ServiceStep, ExpireSnapshot, ExpireAssignment, ExpireDeliver, Reconcile
    <2>7. CASE Crash \/ UNCHANGED vars
      BY <2>7 DEF Crash, vars
    <2> QED BY <2>1, <2>2, <2>3, <2>4, <2>5, <2>6, <2>7 DEF Next, Busy
  <1> QED BY <1>1 DEF TypeInv, FactType

(* An agent with a load has a lease.                                       *)
LEMMA LoadHasLease ==
    ASSUME NEW a, \A i \in Ids : Active(i) => asg[i].agent # a PROVE ActiveLoad(a) = 0
  <1>1. { i \in Ids : Active(i) /\ asg[i].agent = a } = {}
    OBVIOUS
  <1> QED BY <1>1, FS_EmptySet DEF ActiveLoad

(* Capacity comes about by the release of a lease, which is offered.       *)
LEMMA CapacitySteps ==
    ASSUME TypeInv, LeaseInv, [Next]_vars, NEW S, Available(S)' PROVE Available(S) \/ Offering'
  <1>0. LeaseInv'
    BY LeaseStep
  <1>1. PICK a \in Agents, s \in S :
          agent'[a] = "up" /\ ActiveLoad(a)' < MaxConcurrency /\ a \in Capable[s]
    BY DEF Available
  <1>2. agent[a] = "up"
    BY <1>1, AgentsFall
  <1>3. CASE \A i \in Ids : Active(i) => asg[i].agent # a
    <2>1. ActiveLoad(a) < MaxConcurrency
      BY <1>3, LoadHasLease DEF MaxConcurrency
    <2> QED BY <1>1, <1>2, <2>1 DEF Available
  <1>4. CASE \E i \in Ids : Active(i) /\ asg[i].agent = a
    <2>1. PICK i \in Ids : Active(i) /\ asg[i].agent = a
      BY <1>4
    <2>2. ~(Active(i)' /\ asg'[i].agent = a)
      <3> SUFFICES ASSUME Active(i)', asg'[i].agent = a PROVE FALSE
        OBVIOUS
      <3> DEFINE T == { j \in Ids : Active(j)' /\ asg'[j].agent = a }
      <3>1. T = {i}
        BY <1>0 DEF LeaseInv, OneLeasePerAgent
      <3>2. ActiveLoad(a)' = Cardinality(T)
        BY DEF ActiveLoad
      <3>3. Cardinality(T) = 1
        BY <3>1, FS_Singleton
      <3> HIDE DEF T
      <3> QED BY <1>1, <3>2, <3>3 DEF MaxConcurrency
    <2> QED BY <1>1, <2>1, <2>2, LeaseEnds
  <1> QED BY <1>3, <1>4

(* What is about to be offered stays so until it is offered.               *)
LEMMA OfferSteps ==
    ASSUME TypeInv, EndOK, [Next]_vars, Offering
    PROVE  Offering' \/ CapacityNudges \subseteq sent' \/ Crash
  <1> USE DEF factVars, planVars, runVars, mailVars, memVars
  <1>0. /\ wk = [k \in Ids |-> wk[k]] /\ \A k \in Ids : wk[k] \in [pc : WkPcs, msg : {wk[k].msg}]
        /\ verdict \in [Ids -> {"none", "accepted", "rejected"}]
        /\ exp.pc = "idle" \/ exp.pc # "idle"
    BY EndTypes
  <1>1. CASE Reconcile
    BY <1>1 DEF Reconcile
  <1>2. CASE dirty /\ ~Reconcile
    <2>1. dirty' \/ Crash
      BY <1>2 DEF vars, Next, Handle, SupPropose, SupRaise, WorkBegin, SupStep, SupBury, SupFailRun,
             SupCommit, SupResume, SupWait, SupPause, SupComplete, SupAck, WorkStep, WorkTurn,
             WorkCommit, WorkRoute, WorkFail, WorkRelease, WorkNudge, WorkAck, WorkRaise, Deadline,
             ServiceStep, ExpireSnapshot, ExpireAssignment, ExpireLease, ExpireDeliver, Crash
    <2> QED BY <2>1 DEF Offering
  <1>3. ASSUME NEW i \in Ids, wk[i].pc = "route", verdict[i] = "accepted"
        PROVE  Offering' \/ CapacityNudges \subseteq sent' \/ Crash
    <2>1. CASE wk'[i] = wk[i] /\ verdict'[i] = verdict[i]
      BY <1>3, <2>1 DEF Offering
    <2>2. ASSUME NEW m \in Pending, Handle(m) PROVE wk'[i] = wk[i] /\ verdict'[i] = verdict[i]
      <3>1. CASE WorkBegin(IdOf(m), m)
        <4>1. UNCHANGED verdict /\ (wk' = wk \/ (Active(IdOf(m)) /\ ~asg[IdOf(m)].due
                 /\ wk' = [wk EXCEPT ![IdOf(m)] = [pc |-> "turn", msg |-> m]]))
          BY <3>1 DEF WorkBegin
        <4>2. Active(IdOf(m)) => IdOf(m) # i
          BY <1>3 DEF EndOK, EndsOf
        <4> QED BY <1>0, <4>1, <4>2
      <3> QED BY <2>2, <3>1 DEF Handle, SupPropose, SupRaise
    <2>3. ASSUME NEW r \in Runs, SupStep(r) PROVE wk'[i] = wk[i] /\ verdict'[i] = verdict[i]
      BY <2>3 DEF SupStep, SupBury, SupFailRun,
             SupCommit, SupResume, SupWait, SupPause, SupComplete, SupAck
    <2>4. ASSUME NEW j \in Ids, j # i, WorkStep(j) \/ WorkRaise(j)
          PROVE  wk'[i] = wk[i] /\ verdict'[i] = verdict[i]
      BY <1>0, <2>4 DEF WorkStep, WkStep, WorkTurn, WorkCommit, WorkRoute, WorkFail, WorkRelease,
                        WorkNudge, WorkAck, WorkRaise
    <2>5. CASE WorkStep(i)
      <3>1. WorkRoute(i)
        BY <1>3, <2>5 DEF WorkStep, WorkTurn, WorkCommit, WorkFail, WorkRelease, WorkNudge, WorkAck
      <3> QED BY <1>3, <3>1 DEF WorkRoute
    <2>6. CASE WorkRaise(i)
      BY <1>3, <2>6 DEF WorkRaise, Offering
    <2>7. ASSUME UNCHANGED vars \/ ServiceStep \/ \E j \in Ids : Deadline(j)
          PROVE  wk'[i] = wk[i] /\ verdict'[i] = verdict[i]
      BY <2>7 DEF vars, Deadline, ServiceStep, ExpireSnapshot, ExpireAssignment, ExpireLease,
                  ExpireDeliver, Reconcile
    <2> QED BY <2>1, <2>2, <2>3, <2>4, <2>5, <2>6, <2>7 DEF Next, Busy
  <1> QED BY <1>1, <1>2, <1>3 DEF Offering

(* The newest wait.                                                        *)
LEMMA LastWaitIs ==
    ASSUME TypeInv, NEW r \in Runs, LastWait(r) # 0
    PROVE  /\ \E w \in waits[r] : w.rev = LastWait(r)
           /\ \A w \in waits[r] : w.rev <= LastWait(r)
  <1> DEFINE T == { w.rev : w \in waits[r] }
  <1>1. waits[r] # {}
    BY DEF LastWait
  <1>2. T \subseteq 1 .. revision[r] /\ T # {} /\ revision[r] \in Nat
    BY <1>1 DEF TypeInv, WaitType, FactType
  <1>3. \E n \in T : \A m \in T : m <= n
    BY <1>2, BoundedMax
  <1>4. \E n \in T : \A w \in waits[r] : w.rev <= n
    BY <1>3
  <1>5. LastWait(r) = CHOOSE n \in T : \A w \in waits[r] : w.rev <= n
    BY <1>1 DEF LastWait
  <1>6. LastWait(r) \in T /\ \A w \in waits[r] : w.rev <= LastWait(r)
    BY <1>4, <1>5
  <1> QED BY <1>6

(* A wait on record is found by its revision.                              *)
LEMMA WaitFound ==
    ASSUME NEW r, NEW w \in waits[r], \A x, y \in waits[r] : x.rev = y.rev => x = y
    PROVE  WaitOf(r, w.rev) = w
  BY DEF WaitOf

(* A step that records no wait for a run keeps its capacity offered.       *)
LEMMA WaitFrameOf ==
    ASSUME TypeInv, LeaseInv, PlanInv, StrandInv, [Next]_vars, ~Crash, NEW r \in Runs,
           waits'[r] = waits[r], waiter'[r] = waiter[r] \/ waiter'[r] = 0,
           resumed'[r] = resumed[r] \/ SupResume(r)
    PROVE  WaitsOf(r)'
  <1>0. WaitsOf(r) /\ PostOK /\ WaitOK /\ EndOK /\ SupervisorOf(r)
    BY DEF StrandInv, WaitOK, SupervisorOK
  <1>1. \A n \in resumed'[r] : \E w \in waits'[r] : w.rev = n
    <2>1. CASE resumed'[r] = resumed[r]
      BY <1>0, <2>1 DEF WaitsOf
    <2>2. CASE SupResume(r)
      <3>1. resumed' = [resumed EXCEPT ![r] = @ \cup {sup[r].msg.n}] /\ sup[r].pc = "resume"
        BY <2>2 DEF SupResume
      <3>2. sup[r].msg \in sent /\ sup[r].msg.run = r /\ sup[r].msg.kind = "capacity"
        BY <1>0, <3>1 DEF SupervisorOf, Calls, Pending
      <3>3. \E w \in waits[r] : w.rev = sup[r].msg.n
        BY <1>0, <3>2 DEF PostOK, Known
      <3>4. resumed'[r] = resumed[r] \cup {sup[r].msg.n}
        BY <1>0, <3>1 DEF WaitOK
      <3> QED BY <1>0, <3>3, <3>4 DEF WaitsOf
    <2> QED BY <2>1, <2>2
  <1>2. ASSUME waiter'[r] # 0, status'[r] = "running"
        PROVE  /\ \E w \in waits'[r] : w.rev = waiter'[r]
               /\ \A w \in waits'[r] : w.rev <= waiter'[r]
               /\ Available(WaitOf(r, waiter[r]).stages)' =>
                     Capacity(r, waiter'[r]) \in sent' \/ Offering'
    <2>0. status[r] = "running" /\ waiter'[r] = waiter[r] /\ waiter[r] # 0
      BY <1>0, <1>2, RecordsGrow
    <2>1. (WaitOf(r, waiter[r]).stages)' = WaitOf(r, waiter[r]).stages
      BY <2>0 DEF WaitOf
    <2> DEFINE S == WaitOf(r, waiter[r]).stages
    <2>2. ASSUME Available(S)' PROVE Capacity(r, waiter'[r]) \in sent' \/ Offering'
      <3> DEFINE T == WaitOf(r, waiter[r]).stages
      <3>1. PICK a \in Agents, s \in T :
              agent'[a] = "up" /\ ActiveLoad(a)' < MaxConcurrency /\ a \in Capable[s]
        BY <2>1, <2>2 DEF Available
      <3>2. Available(T) \/ Offering'
        <4> HIDE DEF T
        <4> DEFINE U == {s}
        <4>1. Available({s})'
          BY <3>1 DEF Available
        <4>2. Available({s}) \/ Offering'
          BY <4>1, CapacitySteps
        <4> QED BY <3>1, <4>2 DEF Available
      <3>3. ASSUME Available(T) PROVE Capacity(r, waiter[r]) \in sent' \/ Offering'
        <4>1. Capacity(r, waiter[r]) \in sent \/ Offering
          BY <1>0, <2>0, <3>3 DEF WaitsOf
        <4>2. Capacity(r, waiter[r]) \in CapacityNudges
          BY <2>0, <3>3 DEF CapacityNudges
        <4> QED BY <1>0, <4>1, <4>2, OfferSteps, SentSteps
      <3> QED BY <2>0, <3>2, <3>3
    <2> QED BY <1>0, <2>0, <2>2 DEF WaitsOf
  <1> QED BY <1>0, <1>1, <1>2 DEF WaitsOf

(* Every step keeps the waits.                                             *)
LEMMA WaitStep ==
    ASSUME TypeInv, LeaseInv, PlanInv, StrandInv, [Next]_vars PROVE WaitOK'
  <1> USE DEF factVars, planVars, runVars, mailVars, memVars
  <1>0. /\ PostOK /\ WaitOK /\ EndOK /\ SupervisorOK
        /\ sup = [q \in Runs |-> sup[q]] /\ waits = [q \in Runs |-> waits[q]]
        /\ waiter \in [Runs -> Nat] /\ resumed = [q \in Runs |-> resumed[q]]
    BY DEF TypeInv, SupType, WaitType, FactType, WaitOK, StrandInv
  <1>1. resumed' = [q \in Runs |-> resumed'[q]]
    <2>1. resumed' = resumed \/ \E r \in Runs : \E x : resumed' = [resumed EXCEPT ![r] = x]
      <3>1. ASSUME NEW m \in Pending, Handle(m) PROVE resumed' = resumed
        BY <3>1 DEF Handle, SupPropose, SupRaise, WorkBegin
      <3>2. ASSUME NEW r \in Runs, SupStep(r)
            PROVE  resumed' = resumed \/ \E x : resumed' = [resumed EXCEPT ![r] = x]
        BY <3>2 DEF SupStep, SupBury, SupFailRun, SupCommit, SupResume, SupWait, SupPause, SupComplete, SupAck
      <3>3. ASSUME NEW i \in Ids, WorkStep(i) \/ WorkRaise(i) \/ Deadline(i) PROVE resumed' = resumed
        BY <3>3 DEF WorkStep, WorkTurn, WorkCommit, WorkRoute, WorkFail, WorkRelease, WorkNudge,
                    WorkAck, WorkRaise, Deadline
      <3>4. CASE ServiceStep \/ Crash \/ UNCHANGED vars
        BY <3>4 DEF ServiceStep, ExpireSnapshot, ExpireAssignment, ExpireLease, ExpireDeliver, Reconcile, Crash, vars
      <3> QED BY <3>1, <3>2, <3>3, <3>4 DEF Next, Busy
    <2> QED BY <1>0, <2>1
  <1> SUFFICES ASSUME NEW r \in Runs PROVE WaitsOf(r)'
    BY <1>1 DEF WaitOK
  <1>2. WaitsOf(r) /\ SupervisorOf(r)
    BY <1>0 DEF WaitOK, SupervisorOK
  <1>3. CASE Crash
    <2>1. /\ UNCHANGED <<waits, resumed, status, asg, agent>>
          /\ waiter'[r] = IF status[r] # "running" \/ LastWait(r) \in resumed[r] THEN 0 ELSE LastWait(r)
          /\ sent' = sent \cup Replayed
      BY <1>3 DEF Crash
    <2>2. ASSUME waiter'[r] # 0, status[r] = "running"
          PROVE  /\ waiter'[r] = LastWait(r) /\ \E w \in waits[r] : w.rev = waiter'[r]
                 /\ \A w \in waits[r] : w.rev <= waiter'[r]
      BY <2>1, <2>2, LastWaitIs
    <2>3. ASSUME waiter'[r] # 0, status[r] = "running", Available(WaitOf(r, waiter[r]).stages)'
          PROVE  Capacity(r, waiter'[r]) \in sent'
      <3>1. PICK w \in waits[r] : w.rev = waiter'[r]
        BY <2>2, <2>3
      <3>2. WaitOf(r, w.rev) = w
        BY <1>2, WaitFound DEF WaitsOf
      <3>3. WaitOf(r, waiter[r])' = w
        BY <2>1, <3>1, <3>2 DEF WaitOf
      <3>4. Available(w.stages)'
        BY <2>3, <3>3 DEF Available
      <3>5. Available(w.stages)
        BY <2>1, <3>4 DEF Available, ActiveLoad, Active
      <3>6. Capacity(r, w.rev) \in Replayed
        BY <2>3, <3>5 DEF Replayed
      <3> QED BY <2>1, <3>1, <3>6
    <2> QED BY <1>2, <2>1, <2>2, <2>3 DEF WaitsOf
  <1>4. CASE SupWait(r)
    <2>w. PICK w : w = [rev |-> sup[r].patch.rev, stages |-> sup[r].patch.waiting]
      OBVIOUS
    <2>0. /\ sup[r].patch.rev = revision[r] /\ \A x \in waits[r] : x.rev # sup[r].patch.rev
          /\ \A x \in waits[r] : x.rev \in 1 .. revision[r]
          /\ revision[r] \in Nat
      BY <1>2, <1>4 DEF SupWait, SupervisorOf, TypeInv, SupType, WaitType, FactType
    <2>1. /\ UNCHANGED <<status, asg, agent, resumed>>
          /\ waits' = [waits EXCEPT ![r] = @ \cup {w}]
      BY <1>4, <2>w DEF SupWait
    <2>2. waits'[r] = waits[r] \cup {w} /\ w.rev = revision[r] /\ w.stages = sup[r].patch.waiting
      BY <1>0, <2>w, <2>0, <2>1
    <2>3. status[r] # "running" => waiter'[r] = 0
      BY <1>0, <1>4 DEF SupWait
    <2>4. ASSUME status[r] = "running" PROVE waiter'[r] = w.rev /\ (Available(w.stages) => Capacity(r, w.rev) \in sent')
      BY <1>0, <1>4, <2>w, <2>4 DEF SupWait
    <2>5. \A x, y \in waits'[r] : x.rev = y.rev => x = y
      BY <1>2, <2>0, <2>2 DEF WaitsOf
    <2>6. \A x \in waits'[r] : x.rev <= w.rev
      BY <2>0, <2>2
    <2>7. ASSUME waiter'[r] # 0, status'[r] = "running", Available(WaitOf(r, waiter[r]).stages)'
          PROVE  Capacity(r, waiter'[r]) \in sent'
      <3>1. waiter'[r] = w.rev
        BY <2>1, <2>4, <2>7
      <3>2. WaitOf(r, waiter[r])' = w
        BY <2>2, <2>5, <3>1 DEF WaitOf
      <3>3. Available(w.stages)'
        BY <2>7, <3>2 DEF Available
      <3>4. Available(w.stages)
        BY <2>1, <3>3 DEF Available, ActiveLoad, Active
      <3> QED BY <2>1, <2>4, <2>7, <3>1, <3>4
    <2> QED BY <1>2, <2>1, <2>2, <2>3, <2>4, <2>5, <2>6, <2>7 DEF WaitsOf
  <1>5. CASE Aside(r) /\ ~Crash
    BY <1>5, WaitFrameOf DEF Aside
  <1>6. CASE Acts(r) /\ ~SupWait(r) /\ ~Crash
    <2>1. /\ waits'[r] = waits[r] /\ (waiter'[r] = waiter[r] \/ waiter'[r] = 0)
          /\ resumed'[r] = resumed[r] \/ SupResume(r)
      BY <1>0, <1>6 DEF Acts, SupPropose, SupRaise, SupStep, SupBury, SupFailRun, SupCommit, SupResume,
                        SupPause, SupComplete, SupAck
    <2> QED BY <1>6, <2>1, WaitFrameOf
  <1> QED BY <1>0, <1>3, <1>4, <1>5, <1>6, StepsAside

-----------------------------------------------------------------------------
(* Plan commands.                                                          *)

(* The kernel's verdict on a plan is one of three.                         *)
LEMMA Verdicts ==
    ASSUME NEW r, NEW patch PROVE ValidatePlanPatch(r, patch) \in {"ok", "refused", "concurrency"}
  <1>1. \A p : ProposalVerdict(r, patch, p) \in {"ok", "refused", "concurrency"}
    BY DEF ProposalVerdict
  <1>2. FirstRefusal(r, patch) \in {"ok", "refused", "concurrency"}
    <2> DEFINE bad == { p \in patch.assign : ProposalVerdict(r, patch, p) # "ok" }
               first == CHOOSE p \in bad : \A q \in bad : Pos(p.stage) <= Pos(q.stage)
    <2>1. FirstRefusal(r, patch) = "ok" \/ FirstRefusal(r, patch) = ProposalVerdict(r, patch, first)
      BY DEF FirstRefusal
    <2> HIDE DEF first
    <2> QED BY <1>1, <2>1
  <1> QED BY <1>2 DEF ValidatePlanPatch

(* The commit of a plan, by its verdict.                                   *)
LEMMA CommitEffects ==
    ASSUME TypeInv, StrandInv, NEW r \in Runs, SupCommit(r)
    PROVE  /\ UNCHANGED <<status, waits, resumed, waiter, acked, dirty, agent>>
           /\ sup'[r].msg = sup[r].msg /\ sup'[r].patch = sup[r].patch
           /\ sup'[r].ok = (ValidatePlanPatch(r, sup[r].patch) = "ok")
           /\ sup'[r].pc = IF sup[r].msg.kind = "capacity" THEN "resume"
                           ELSE IF sup'[r].ok /\ Follows(sup[r].patch) THEN "follow" ELSE "ack"
           /\ sup[r].patch.rev = revision[r] + 1
           /\ sup[r].msg \in Calls(r)
           /\ ValidatePlanPatch(r, sup[r].patch) = "ok" =>
                 revision'[r] = revision[r] + 1 /\ refused'[r] = refused[r]
           /\ ValidatePlanPatch(r, sup[r].patch) # "ok" => revision'[r] = revision[r] /\ asg' = asg
           /\ ValidatePlanPatch(r, sup[r].patch) = "refused" => refused'[r] = refused[r] /\ sent' = sent
           /\ ValidatePlanPatch(r, sup[r].patch) = "concurrency" =>
                 /\ refused'[r] = refused[r] + 1
                 /\ sent' = IF status[r] = "running" THEN sent \cup {Replan(r, refused'[r])} ELSE sent
  <1> DEFINE v == ValidatePlanPatch(r, sup[r].patch)
  <1>0. /\ sup = [q \in Runs |-> sup[q]] /\ revision \in [Runs -> Nat] /\ refused \in [Runs -> Nat]
        /\ sup[r] \in [pc : SupPcs, msg : {sup[r].msg}, patch : {sup[r].patch}, ok : BOOLEAN,
                       bury : SUBSET Ids]
        /\ sup[r].pc = "commit"
    BY DEF TypeInv, SupType, FactType, SupCommit
  <1>1. sup[r].patch.rev = revision[r] + 1 /\ sup[r].msg \in Calls(r)
    BY <1>0 DEF StrandInv, SupervisorOK, SupervisorOf
  <1>2. UNCHANGED <<status, waits, resumed, waiter, acked, dirty, agent>>
    BY DEF SupCommit
  <1>3. sup' = [sup EXCEPT ![r].ok = (v = "ok"), ![r].pc =
                IF sup[r].msg.kind = "capacity" THEN "resume" ELSE AfterPlan(r, v = "ok")]
    BY DEF SupCommit
  <1>4. /\ sup'[r].msg = sup[r].msg /\ sup'[r].patch = sup[r].patch
        /\ sup'[r].ok = (v = "ok")
        /\ sup'[r].pc = IF sup[r].msg.kind = "capacity" THEN "resume" ELSE AfterPlan(r, v = "ok")
    <2> HIDE DEF v
    <2> QED BY <1>0, <1>3
  <1>5. AfterPlan(r, v = "ok") = IF v = "ok" /\ Follows(sup[r].patch) THEN "follow" ELSE "ack"
    BY DEF AfterPlan, Follows
  <1>6. /\ v = "ok" => revision' = [revision EXCEPT ![r] = sup[r].patch.rev] /\ refused' = refused
        /\ v # "ok" => /\ revision' = revision /\ asg' = asg
                       /\ refused' = [refused EXCEPT ![r] = IF v = "concurrency" THEN @ + 1 ELSE @]
                       /\ sent' = IF v = "concurrency" /\ status[r] = "running"
                                  THEN sent \cup {Replan(r, refused'[r])} ELSE sent
    BY DEF SupCommit
  <1> HIDE DEF v
  <1>7. /\ v = "ok" => revision'[r] = revision[r] + 1 /\ refused'[r] = refused[r]
        /\ v # "ok" => revision'[r] = revision[r] /\ asg' = asg
        /\ v = "refused" => refused'[r] = refused[r] /\ sent' = sent
        /\ v = "concurrency" =>
              /\ refused'[r] = refused[r] + 1
              /\ sent' = IF status[r] = "running" THEN sent \cup {Replan(r, refused'[r])} ELSE sent
    BY <1>0, <1>1, <1>6
  <1> QED BY <1>1, <1>2, <1>4, <1>5, <1>7 DEF v

(* The records of commands a step writes.                                  *)
LEMMA CommandSteps ==
    ASSUME TypeInv, PostOK, WaitOK, [Next]_vars, NEW c \in cmds', c \notin cmds
    PROVE  \E r \in Runs :
              \/ \E m \in Pending : /\ SupPropose(r, m) /\ c.state = "begun"
                                    /\ c.key = Key(r, m, revision[r] + 1)
              \/ /\ SupCommit(r) /\ c.key = Key(r, sup[r].msg, sup[r].patch.rev)
                 /\ c.state = ValidatePlanPatch(r, sup[r].patch) /\ c.state # "ok"
  <1> USE DEF factVars, planVars, runVars, mailVars, memVars
  <1>1. ASSUME NEW r \in Runs, NEW m \in Pending, SupPropose(r, m)
        PROVE  c.state = "begun" /\ c.key = Key(r, m, revision[r] + 1)
    <2>1. c = [key |-> Key(r, m, Propose(r).rev), patch |-> Propose(r), state |-> "begun"]
      BY <1>1 DEF SupPropose
    <2>2. Propose(r).rev = revision[r] + 1
      BY ProposeRev DEF TypeInv, FactType
    <2> QED BY <2>1, <2>2
  <1>2. ASSUME NEW r \in Runs, SupCommit(r)
        PROVE  /\ c.key = Key(r, sup[r].msg, sup[r].patch.rev)
               /\ c.state = ValidatePlanPatch(r, sup[r].patch) /\ c.state # "ok"
    <2> DEFINE k == Key(r, sup[r].msg, sup[r].patch.rev)
               v == ValidatePlanPatch(r, sup[r].patch)
    <2>1. cmds' = { d \in cmds : d.key # k } \cup
                  (IF v = "ok" THEN {} ELSE {[key |-> k, patch |-> NoPatch, state |-> v]})
      BY <1>2 DEF SupCommit, Decide
    <2> HIDE DEF k, v
    <2>2. v # "ok" /\ c = [key |-> k, patch |-> NoPatch, state |-> v]
      BY <2>1
    <2> QED BY <2>2 DEF k, v
  <1>3. cmds' # cmds
    OBVIOUS
  <1>4. (\E m \in Pending : m.run \in Runs /\ SupPropose(m.run, m)) \/ \E r \in Runs : SupCommit(r)
    <2>1. ASSUME NEW m \in Pending, Handle(m) PROVE m.run \in Runs /\ SupPropose(m.run, m)
      <3>1. m.run \in Runs
        BY DEF Pending, PostOK, Known
      <3> QED BY <1>3, <2>1, <3>1 DEF Handle, SupRaise, WorkBegin
    <2>2. ASSUME NEW r \in Runs, SupStep(r) PROVE SupCommit(r)
      BY <1>3, <2>2 DEF SupStep, SupBury, SupFailRun, SupResume, SupWait, SupPause, SupComplete, SupAck
    <2>3. ASSUME NEW i \in Ids, WorkStep(i) \/ WorkRaise(i) \/ Deadline(i) PROVE FALSE
      BY <1>3, <2>3 DEF WorkStep, WorkTurn, WorkCommit, WorkRoute, WorkFail, WorkRelease, WorkNudge,
                        WorkAck, WorkRaise, Deadline
    <2>4. ASSUME ServiceStep \/ Crash \/ UNCHANGED vars PROVE FALSE
      BY <1>3, <2>4 DEF ServiceStep, ExpireSnapshot, ExpireAssignment, ExpireLease, ExpireDeliver,
                        Reconcile, Crash, vars
    <2> QED BY <2>1, <2>2, <2>3, <2>4 DEF Next, Busy
  <1> QED BY <1>1, <1>2, <1>4

(* Revisions only go up.                                                   *)
LEMMA RevisionGrows ==
    ASSUME TypeInv, LeaseInv, StrandInv, [Next]_vars, NEW r \in Runs
    PROVE  revision[r] <= revision'[r] /\ revision[r] \in Nat /\ revision'[r] \in Nat
  <1>0. PostOK /\ WaitOK /\ revision[r] \in Nat
    BY DEF StrandInv, TypeInv, FactType
  <1>1. CASE Aside(r)
    BY <1>0, <1>1 DEF Aside
  <1>2. CASE SupCommit(r)
    BY <1>0, <1>2, CommitEffects
  <1>3. CASE Crash \/ (Acts(r) /\ ~SupCommit(r))
    <2>1. revision' = revision
      BY <1>3 DEF factVars, Crash, Acts, SupPropose, SupRaise, SupStep, SupBury, SupFailRun, SupResume,
                  SupWait, SupPause, SupComplete, SupAck
    <2> QED BY <1>0, <2>1
  <1> QED BY <1>0, <1>1, <1>2, <1>3, StepsAside

(* Every step keeps the records of commands in their type.                 *)
LEMMA CommandTypeStep ==
    ASSUME TypeInv, LeaseInv, PlanInv, StrandInv, [Next]_vars PROVE CommandType'
  <1>0. PostOK /\ WaitOK /\ CommandType
    BY DEF StrandInv, CommandOK
  <1> SUFFICES ASSUME NEW c \in cmds'
               PROVE  /\ c.state \in {"begun", "refused", "concurrency"}
                      /\ c.key.run \in Runs /\ c.key.rev \in Nat
                      /\ c.key.rev <= revision'[c.key.run] + 1
                      /\ c.state = "concurrency" /\ c.key.msg.kind = "replan" =>
                            c.key.msg.n \in 1 .. refused'[c.key.run] - 1
    BY DEF CommandType
  <1>1. CASE c \in cmds
    <2>1. /\ c.state \in {"begun", "refused", "concurrency"}
          /\ c.key.run \in Runs /\ c.key.rev \in Nat /\ c.key.rev <= revision[c.key.run] + 1
          /\ c.state = "concurrency" /\ c.key.msg.kind = "replan" => c.key.msg.n \in 1 .. refused[c.key.run] - 1
      BY <1>0, <1>1 DEF CommandType
    <2> DEFINE r == c.key.run
    <2>2. /\ revision[r] <= revision'[r] /\ revision[r] \in Nat /\ revision'[r] \in Nat
          /\ refused[r] <= refused'[r] /\ refused[r] \in Nat /\ refused'[r] \in Nat
      BY <1>0, <2>1, RevisionGrows, RecordsGrow
    <2>3. c.key.rev <= revision'[r] + 1
      BY <2>1, <2>2
    <2>4. CASE refused'[r] = refused[r]
      BY <2>1, <2>3, <2>4
    <2>5. CASE refused'[r] # refused[r]
      <3>1. SupCommit(r)
        <4>1. ~Aside(r) /\ ~Crash
          BY <2>5 DEF Aside, Crash, planVars
        <4>2. Acts(r)
          BY <1>0, <2>1, <4>1, StepsAside
        <4> QED BY <2>5, <4>2 DEF planVars, Acts, SupPropose, SupRaise, SupStep, SupBury, SupFailRun, SupResume,
                  SupWait, SupPause, SupComplete, SupAck
      <3> HIDE DEF r
      <3>2. ASSUME c.state = "concurrency", c.key.msg.kind = "replan" PROVE c.key.msg.n \in 1 .. refused'[r] - 1
        <4>1. c.key.msg.n \in 1 .. refused[r] - 1
          BY <2>1, <3>2 DEF r
        <4>2. refused'[r] = refused[r] + 1
          BY <2>1, <2>5, <3>1, CommitEffects, Verdicts DEF r
        <4> QED BY <2>2, <4>1, <4>2 DEF r
      <3> QED BY <2>1, <2>3, <3>2 DEF r
    <2> QED BY <2>4, <2>5
  <1>2. ASSUME c \notin cmds, NEW r \in Runs, NEW m \in Pending, SupPropose(r, m),
               c.state = "begun", c.key = Key(r, m, revision[r] + 1)
        PROVE  /\ c.state \in {"begun", "refused", "concurrency"}
               /\ c.key.run \in Runs /\ c.key.rev \in Nat
               /\ c.key.rev <= revision'[c.key.run] + 1
               /\ c.state # "concurrency"
    <2>1. c.key.run = r /\ c.key.rev = revision[r] + 1
      BY <1>2 DEF Key
    <2>2. revision'[r] = revision[r] /\ revision[r] \in Nat
      BY <1>2 DEF SupPropose, factVars, TypeInv, FactType
    <2> QED BY <1>2, <2>1, <2>2
  <1>3. ASSUME c \notin cmds, NEW r \in Runs, SupCommit(r), c.key = Key(r, sup[r].msg, sup[r].patch.rev),
               c.state = ValidatePlanPatch(r, sup[r].patch), c.state # "ok"
        PROVE  /\ c.state \in {"begun", "refused", "concurrency"}
               /\ c.key.run \in Runs /\ c.key.rev \in Nat
               /\ c.key.rev <= revision'[c.key.run] + 1
               /\ c.state = "concurrency" /\ c.key.msg.kind = "replan" =>
                     c.key.msg.n \in 1 .. refused'[c.key.run] - 1
    <2>1. c.key.run = r /\ c.key.rev = sup[r].patch.rev /\ c.key.msg = sup[r].msg
      BY <1>3 DEF Key
    <2>2. /\ sup[r].patch.rev = revision[r] + 1 /\ revision'[r] = revision[r] /\ revision[r] \in Nat
          /\ sup[r].msg \in Calls(r) /\ refused[r] \in Nat
          /\ c.state = "concurrency" => refused'[r] = refused[r] + 1
      BY <1>3, CommitEffects DEF TypeInv, FactType
    <2>3. sup[r].msg.kind = "replan" => sup[r].msg.n \in 1 .. refused[r]
      BY <1>0, <2>2 DEF Calls, Pending, PostOK, Known
    <2>4. c.state \in {"refused", "concurrency"}
      BY <1>3, Verdicts
    <2>5. c.state = "concurrency" /\ sup[r].msg.kind = "replan" => sup[r].msg.n \in 1 .. refused'[r] - 1
      BY <2>2, <2>3
    <2> QED BY <2>1, <2>2, <2>4, <2>5
  <1> QED BY <1>0, <1>1, <1>2, <1>3, CommandSteps

(* A delivery to a supervisor that another one has not acknowledged.       *)
LEMMA StillPending ==
    ASSUME TypeInv, LeaseInv, PlanInv, StrandInv, [Next]_vars, NEW r \in Runs, NEW m,
           m \in Pending, m.run = r, m.kind # "turn", ~(SupAck(r) /\ m = sup[r].msg)
    PROVE  m \in Pending'
  <1>0. EndOK /\ SupervisorOK
    BY DEF StrandInv
  <1>1. m \in sent'
    BY SentSteps DEF Pending
  <1>2. ASSUME NEW q \in Runs, SupAck(q), m = sup[q].msg PROVE FALSE
    <2>1. sup[q].msg \in Calls(q)
      BY <1>0, <1>2 DEF SupAck, SupervisorOK, SupervisorOf
    <2>2. q = r
      BY <1>2, <2>1 DEF Calls
    <2> QED BY <1>2, <2>2
  <1>3. m \notin acked'
    BY <1>0, <1>2, AckSteps DEF Pending
  <1> QED BY <1>1, <1>3 DEF Pending

(* What a supervisor that raises has in hand.                              *)
LEMMA RaiseEffects ==
    ASSUME TypeInv, NEW r \in Runs, NEW m, SupRaise(r, m)
    PROVE  sup'[r].pc = "bury" /\ sup'[r].msg = m
  <1> DEFINE B == IF status[r] = "running" THEN ActiveLeasesOf(r) ELSE {}
             x == [IdleSup EXCEPT !.pc = "bury", !.msg = m, !.bury = B]
  <1>1. sup' = [sup EXCEPT ![r] = x] /\ sup = [q \in Runs |-> sup[q]]
    BY DEF SupRaise, TypeInv, SupType
  <1>2. x.pc = "bury" /\ x.msg = m
    BY DEF IdleSup
  <1> HIDE DEF x
  <1> QED BY <1>1, <1>2

(* Every step keeps refusals on their way back.                            *)
LEMMA CommandsStep ==
    ASSUME TypeInv, LeaseInv, PlanInv, StrandInv, [Next]_vars, NEW r \in Runs
    PROVE  CommandsOf(r)'
  <1> USE DEF factVars, planVars, runVars, mailVars, memVars
  <1>0. /\ PostOK /\ WaitOK /\ CommandType /\ CommandsOf(r) /\ SupervisorOf(r)
        /\ sup = [q \in Runs |-> sup[q]] /\ refused[r] \in Nat /\ revision[r] \in Nat
        /\ sup[r] \in [pc : SupPcs, msg : {sup[r].msg}, patch : {sup[r].patch}, ok : BOOLEAN,
                       bury : SUBSET Ids]
        /\ status \in [Runs -> {"running", "paused", "succeeded", "failed"}]
    BY DEF StrandInv, CommandOK, SupervisorOK, TypeInv, SupType, FactType
  <1>1. PICK m : m = Replan(r, refused[r])
    OBVIOUS
  <1>2. m.kind = "replan" /\ m.run = r /\ m.n = refused[r]
    BY <1>1 DEF Replan, Msg
  <1>3. ASSUME refused'[r] = refused[r], status[r] = "running", Crowded(r), ~Refused(r),
               ~SupAck(r) \/ m # sup[r].msg,
               sup'[r].pc \in {"resume", "follow", "ack"} => sup'[r].msg # m
        PROVE  CommandsOf(r)'
    <2>1. m \in Pending
      BY <1>0, <1>1, <1>3 DEF CommandsOf
    <2>2. m \in Pending'
      BY <1>2, <1>3, <2>1, StillPending
    <2>3. m = Replan(r, refused'[r])
      BY <1>1, <1>3
    <2> QED BY <1>3, <2>2, <2>3 DEF CommandsOf
  <1>4. status'[r] = "running" => status[r] = "running"
    BY <1>0, RecordsGrow
  <1>5. CASE Aside(r)
    <2>1. Crowded(r)' => Crowded(r)
      BY <1>5 DEF Aside, Crowded, Decided
    <2>2. Refused(r) => Refused(r)'
      BY <1>5 DEF Aside, Refused, Decided
    <2>3. status[r] = "running" /\ Crowded(r) /\ ~Refused(r) =>
            (sup[r].pc \in {"resume", "follow", "ack"} => sup[r].msg # m)
      BY <1>0, <1>1 DEF CommandsOf
    <2>4. sup'[r] = sup[r] /\ refused'[r] = refused[r] /\ ~SupAck(r)
      BY <1>5 DEF Aside
    <2>5. CASE status'[r] = "running" /\ Crowded(r)' /\ ~Refused(r)'
      BY <1>3, <1>4, <2>1, <2>2, <2>3, <2>4, <2>5
    <2> QED BY <2>5 DEF CommandsOf
  <1>6. CASE SupCommit(r)
    <2> DEFINE v == ValidatePlanPatch(r, sup[r].patch)
               k == Key(r, sup[r].msg, sup[r].patch.rev)
    <2>1. /\ UNCHANGED <<status, acked>> /\ sup'[r].msg = sup[r].msg
          /\ sup[r].patch.rev = revision[r] + 1 /\ sup[r].msg \in Calls(r)
          /\ v = "ok" => revision'[r] = revision[r] + 1
          /\ v # "ok" => revision'[r] = revision[r]
          /\ v = "concurrency" =>
                /\ refused'[r] = refused[r] + 1
                /\ sent' = IF status[r] = "running" THEN sent \cup {Replan(r, refused'[r])} ELSE sent
      BY <1>0, <1>6, CommitEffects DEF StrandInv
    <2>2. v \in {"ok", "refused", "concurrency"}
      BY Verdicts
    <2>3. cmds' = { d \in cmds : d.key # k } \cup
                  (IF v = "ok" THEN {} ELSE {[key |-> k, patch |-> NoPatch, state |-> v]})
      BY <1>6 DEF SupCommit, Decide
    <2>4. k.run = r /\ k.rev = revision[r] + 1
      BY <2>1 DEF Key
    <2> HIDE DEF v, k
    <2>5. CASE v = "ok"
      <3>1. cmds' \subseteq cmds
        BY <2>3, <2>5
      <3>2. ASSUME NEW c \in cmds, c.key.run = r PROVE c.key.rev # revision'[r] + 1
        <4>1. c.key.rev \in Nat /\ c.key.rev <= revision[r] + 1
          BY <1>0, <3>2 DEF CommandType
        <4> QED BY <1>0, <2>1, <2>5, <4>1
      <3>3. ~Crowded(r)'
        BY <3>1, <3>2 DEF Crowded, Decided
      <3> QED BY <3>3 DEF CommandsOf
    <2>6. CASE v = "refused"
      <3> DEFINE c == [key |-> k, patch |-> NoPatch, state |-> v]
      <3>1. c \in cmds' /\ c.key.run = r /\ c.key.rev = revision'[r] + 1 /\ c.state = "refused"
        BY <2>1, <2>3, <2>4, <2>6
      <3>2. Refused(r)'
        BY <3>1 DEF Refused, Decided
      <3> QED BY <3>2 DEF CommandsOf
    <2>7. CASE v = "concurrency"
      <3>1. PICK n : n = Replan(r, refused'[r])
        OBVIOUS
      <3>2. n.kind = "replan" /\ n.run = r /\ n.n = refused[r] + 1
        BY <2>1, <2>7, <3>1 DEF Replan, Msg
      <3>3. n \notin sent
        <4>1. n \in sent => n.n \in 1 .. refused[r]
          BY <1>0, <3>2 DEF PostOK, Known
        <4> QED BY <1>0, <3>2, <4>1
      <3>4. sup[r].msg # n /\ n \notin acked'
        BY <2>1, <3>3 DEF Calls, Pending, TypeInv
      <3>5. status'[r] = "running" => n \in Pending'
        BY <2>1, <2>7, <3>1, <3>4 DEF Pending
      <3> QED BY <2>1, <3>1, <3>4, <3>5 DEF CommandsOf
    <2> QED BY <2>2, <2>5, <2>6, <2>7
  <1>7. ASSUME NEW n \in Pending, SupPropose(r, n) PROVE CommandsOf(r)'
    <2> DEFINE patch == Propose(r)
               old == CmdOf(Key(r, n, patch.rev))
               new == [key |-> Key(r, n, patch.rev), patch |-> patch, state |-> "begun"]
    <2>0. patch.rev = revision[r] + 1
      BY <1>0, ProposeRev DEF TypeInv, FactType
    <2>1. /\ UNCHANGED <<revision, refused, status>>
          /\ cmds' = IF old # {} THEN cmds ELSE cmds \cup {new}
          /\ sup' = [sup EXCEPT ![r] =
                [pc |-> IF \A c \in old : c.state = "begun" THEN "commit"
                        ELSE IF n.kind = "capacity" THEN "resume" ELSE "ack",
                 msg |-> n, patch |-> patch, ok |-> FALSE, bury |-> {}]]
      BY <1>7 DEF SupPropose
    <2>a. new.state = "begun"
      OBVIOUS
    <2>b. \A c \in old : c \in cmds /\ c.key.run = r /\ c.key.rev = revision[r] + 1 /\ c.key.msg = n
      BY <2>0 DEF CmdOf, Key
    <2> HIDE DEF patch, old, new
    <2>2. Crowded(r)' => Crowded(r)
      BY <2>1, <2>a DEF Crowded, Decided
    <2>3. Refused(r) => Refused(r)'
      BY <2>1 DEF Refused, Decided
    <2>4. /\ sup'[r].msg = n
          /\ sup'[r].pc = IF \A c \in old : c.state = "begun" THEN "commit"
                          ELSE IF n.kind = "capacity" THEN "resume" ELSE "ack"
      BY <1>0, <2>1
    <2>5. ASSUME ~Refused(r), sup'[r].pc \in {"resume", "follow", "ack"} PROVE sup'[r].msg # m
      <3>1. PICK c \in old : c.state # "begun"
        BY <2>4, <2>5
      <3>2. c.state = "concurrency"
        BY <1>0, <2>5, <2>b, <3>1 DEF CommandType, Refused, Decided
      <3>3. n.kind = "replan" => n.n \in 1 .. refused[r] - 1
        BY <1>0, <2>b, <3>1, <3>2 DEF CommandType
      <3> QED BY <1>0, <1>2, <2>4, <3>3
    <2>6. ~SupAck(r)
      BY <1>7 DEF SupPropose, SupTakes, SupAck
    <2>7. CASE status'[r] = "running" /\ Crowded(r)' /\ ~Refused(r)'
      BY <1>3, <1>4, <2>1, <2>2, <2>3, <2>5, <2>6, <2>7
    <2> QED BY <2>7 DEF CommandsOf
  <1>8. ASSUME Crash \/ (Acts(r) /\ ~SupCommit(r) /\ ~ \E n \in Pending : SupPropose(r, n))
        PROVE  CommandsOf(r)'
    <2>1. UNCHANGED <<cmds, revision, refused>>
      BY <1>8 DEF Crash, Acts, SupRaise, SupStep, SupBury, SupFailRun, SupResume, SupWait, SupPause, SupComplete, SupAck
    <2>2. (Crowded(r)' <=> Crowded(r)) /\ (Refused(r)' <=> Refused(r))
      BY <2>1 DEF Crowded, Refused, Decided
    <2> SUFFICES ASSUME status'[r] = "running", Crowded(r), ~Refused(r) PROVE CommandsOf(r)'
      BY <2>2 DEF CommandsOf
    <2>3. sup[r].pc \in {"resume", "follow", "ack"} => sup[r].msg # m
      BY <1>0, <1>1, <1>4 DEF CommandsOf
    <2>4. sup'[r].pc \in {"resume", "follow", "ack"} => sup'[r].msg # m
      <3>1. CASE Crash \/ SupAck(r)
        BY <1>0, <3>1 DEF Crash, SupAck, IdleSup
      <3>2. ASSUME NEW n, SupRaise(r, n) PROVE sup'[r].pc = "bury"
        BY <3>2, RaiseEffects
      <3>3. CASE \E i \in sup[r].bury : SupBury(r, i)
        BY <1>0, <3>3 DEF SupBury
      <3>4. CASE SupFailRun(r)
        <4>1. status'[r] # "running"
          BY <1>0, <3>4 DEF SupFailRun
        <4> QED BY <4>1
      <3>5. CASE SupResume(r) \/ SupWait(r) \/ SupPause(r) \/ SupComplete(r)
        <4>1. sup[r].pc \in {"resume", "follow"} /\ \E pc : sup' = [sup EXCEPT ![r].pc = pc]
          BY <3>5 DEF SupResume, SupWait, SupPause, SupComplete
        <4>2. sup'[r].msg = sup[r].msg
          BY <1>0, <4>1
        <4> QED BY <2>3, <4>1, <4>2
      <3> QED BY <1>8, <3>1, <3>2, <3>3, <3>4, <3>5 DEF Acts, SupStep
    <2>5. ~SupAck(r) \/ m # sup[r].msg
      BY <2>3 DEF SupAck
    <2> QED BY <1>3, <1>4, <2>1, <2>4, <2>5
  <1> QED BY <1>0, <1>5, <1>6, <1>7, <1>8, StepsAside DEF Acts

-----------------------------------------------------------------------------
(* What the policy leaves to do.                                           *)

(* A choice of the policy's loop, and one that has come to something.      *)
Shaped(x) == x = [assign |-> x.assign, waiting |-> x.waiting, unavailable |-> x.unavailable]
Taken(x) == x.assign # {} \/ x.waiting # {} \/ x.unavailable # {}

(* An assignment was chosen before, or is the next attempt at a stage.     *)
NextTry(r, acc, s, p) == p \in acc.assign \/ (p.stage = s /\ p.attempt = Attempts(r, s) + 1)

(* One turn of the loop only adds, and something when there was nothing.   *)
Advances(r, acc, s, room, y) ==
    /\ Shaped(y)
    /\ Taken(acc) => Taken(y)
    /\ \A p \in y.assign : NextTry(r, acc, s, p)
    /\ y.waiting \subseteq acc.waiting \cup {s}
    /\ room > 0 => Taken(y)

(* A turn of the loop does that.                                           *)
LEMMA ConsiderAdds ==
    ASSUME NEW r, NEW acc, Shaped(acc), NEW s, NEW room \in Int
    PROVE  Advances(r, acc, s, room, Consider(r, acc, s, room))
  <1> DEFINE y == Consider(r, acc, s, room)
             card == SelectCard(s, { p.agent : p \in acc.assign })
             q == [stage |-> s, attempt |-> Attempts(r, s) + 1, agent |-> card]
  <1> SUFFICES /\ Shaped(y)
               /\ Taken(acc) => Taken(y)
               /\ \A p \in y.assign : NextTry(r, acc, s, p)
               /\ y.waiting \subseteq acc.waiting \cup {s}
               /\ room > 0 => Taken(y)
    BY DEF Advances
  <1>1. \/ y = acc /\ Cardinality(acc.assign) >= room
        \/ y = [acc EXCEPT !.assign = @ \cup {q}]
        \/ y = [acc EXCEPT !.waiting = @ \cup {s}]
        \/ y = [acc EXCEPT !.unavailable = @ \cup {s}]
    BY DEF Consider
  <1>2. q.stage = s /\ q.attempt = Attempts(r, s) + 1
    OBVIOUS
  <1> HIDE DEF y, q, card
  <1>3. CASE y = acc /\ Cardinality(acc.assign) >= room
    <2>1. room > 0 => acc.assign # {}
      BY <1>3, FS_EmptySet
    <2> QED BY <1>3, <2>1 DEF Taken, NextTry
  <1>4. CASE y = [acc EXCEPT !.assign = @ \cup {q}]
    <2>1. y = [assign |-> acc.assign \cup {q}, waiting |-> acc.waiting, unavailable |-> acc.unavailable]
      BY <1>4 DEF Shaped
    <2> QED BY <1>2, <2>1 DEF Shaped, Taken, NextTry
  <1>5. CASE y = [acc EXCEPT !.waiting = @ \cup {s}]
    <2>1. y = [assign |-> acc.assign, waiting |-> acc.waiting \cup {s}, unavailable |-> acc.unavailable]
      BY <1>5 DEF Shaped
    <2> QED BY <2>1 DEF Shaped, Taken, NextTry
  <1>6. CASE y = [acc EXCEPT !.unavailable = @ \cup {s}]
    <2>1. y = [assign |-> acc.assign, waiting |-> acc.waiting, unavailable |-> acc.unavailable \cup {s}]
      BY <1>6 DEF Shaped
    <2> QED BY <2>1 DEF Shaped, Taken, NextTry
  <1> QED BY <1>1, <1>3, <1>4, <1>5, <1>6

(* The table of the loop's turns, up to a stage.                           *)
IsChoice(f, r, ready, room, N) ==
    f = [n \in 0 .. N |->
          IF n = 0 THEN [assign |-> {}, waiting |-> {}, unavailable |-> {}]
          ELSE IF StageSeq[n] \in ready
          THEN Consider(r, f[n - 1], StageSeq[n], room)
          ELSE f[n - 1]]

(* There is one.                                                           *)
LEMMA ChoiceExists ==
    ASSUME NEW r, NEW ready, NEW room, NEW N \in Nat PROVE \E f : IsChoice(f, r, ready, room, N)
  <1> DEFINE T == { n \in Nat : ~ \E f : IsChoice(f, r, ready, room, n) }
             start == [assign |-> {}, waiting |-> {}, unavailable |-> {}]
  <1> SUFFICES ASSUME T # {} PROVE FALSE
    OBVIOUS
  <1>1. PICK n \in T : \A m \in T : n <= m
    <2>1. T \subseteq Nat
      OBVIOUS
    <2> HIDE DEF T
    <2> QED BY <2>1, NatMin
  <1>2. n # 0
    <2> DEFINE f == [k \in 0 .. 0 |-> start]
    <2>1. IsChoice(f, r, ready, room, 0)
      BY DEF IsChoice
    <2> QED BY <1>1, <2>1
  <1>3. PICK f : IsChoice(f, r, ready, room, n - 1)
    <2>1. n - 1 \in Nat /\ ~(n <= n - 1)
      BY <1>1, <1>2
    <2>2. n - 1 \notin T
      BY <1>1, <2>1
    <2> QED BY <2>1, <2>2
  <1> DEFINE Turned(x) == IF StageSeq[n] \in ready THEN Consider(r, x, StageSeq[n], room) ELSE x
             g == [k \in 0 .. n |-> IF k = n THEN Turned(f[n - 1]) ELSE f[k]]
  <1>4. n \in Nat /\ n > 0
    BY <1>1, <1>2
  <1>5. ASSUME NEW k \in 0 .. n
        PROVE  g[k] = IF k = 0 THEN start
                      ELSE IF StageSeq[k] \in ready
                      THEN Consider(r, g[k - 1], StageSeq[k], room)
                      ELSE g[k - 1]
    <2>1. CASE k = n
      <3>1. g[k] = Turned(f[n - 1]) /\ g[k - 1] = f[n - 1] /\ k # 0
        BY <1>4, <2>1
      <3> QED BY <2>1, <3>1
    <2>2. CASE k # n
      <3>1. k \in 0 .. n - 1 /\ g[k] = f[k] /\ (k # 0 => g[k - 1] = f[k - 1])
        BY <1>4, <2>2
      <3>2. f[k] = IF k = 0 THEN start
                   ELSE IF StageSeq[k] \in ready
                   THEN Consider(r, f[k - 1], StageSeq[k], room)
                   ELSE f[k - 1]
        BY <1>3, <3>1 DEF IsChoice
      <3> QED BY <3>1, <3>2
    <2> QED BY <2>1, <2>2
  <1>6. IsChoice(g, r, ready, room, n)
    <2>1. g = [k \in 0 .. n |-> g[k]]
      OBVIOUS
    <2> HIDE DEF g
    <2> QED BY <1>5, <2>1 DEF IsChoice
  <1> QED BY <1>1, <1>6

(* The policy's choice is the last entry of the table.                     *)
LEMMA SelectIsChoice ==
    ASSUME NEW r, NEW ready, NEW room, Len(StageSeq) \in Nat
    PROVE  \E f : IsChoice(f, r, ready, room, Len(StageSeq))
                  /\ Select(r, ready, room) = f[Len(StageSeq)]
  <1> DEFINE it == CHOOSE it : it = [n \in 0 .. Len(StageSeq) |->
          IF n = 0 THEN [assign |-> {}, waiting |-> {}, unavailable |-> {}]
          ELSE IF StageSeq[n] \in ready
          THEN Consider(r, it[n - 1], StageSeq[n], room)
          ELSE it[n - 1]]
  <1>1. \E f : f = [n \in 0 .. Len(StageSeq) |->
          IF n = 0 THEN [assign |-> {}, waiting |-> {}, unavailable |-> {}]
          ELSE IF StageSeq[n] \in ready
          THEN Consider(r, f[n - 1], StageSeq[n], room)
          ELSE f[n - 1]]
    <2>1. \E f : IsChoice(f, r, ready, room, Len(StageSeq))
      BY ChoiceExists
    <2> QED BY <2>1, Zenon DEF IsChoice
  <1>2. it = [n \in 0 .. Len(StageSeq) |->
          IF n = 0 THEN [assign |-> {}, waiting |-> {}, unavailable |-> {}]
          ELSE IF StageSeq[n] \in ready
          THEN Consider(r, it[n - 1], StageSeq[n], room)
          ELSE it[n - 1]]
    BY <1>1, Zenon
  <1>3. Select(r, ready, room) = it[Len(StageSeq)]
    BY Zenon DEF Select
  <1> HIDE DEF it
  <1>4. IsChoice(it, r, ready, room, Len(StageSeq))
    BY <1>2, Zenon DEF IsChoice
  <1> QED BY <1>3, <1>4

(* The policy numbers attempts one up, for stages that are ready, and a    *)
(* ready stage with room comes to an assignment, a wait or a block.        *)
LEMMA SelectOutcome ==
    ASSUME NEW r, NEW ready, NEW room \in Int, Len(StageSeq) \in Nat
    PROVE  LET x == Select(r, ready, room)
           IN /\ \A p \in x.assign : p.stage \in ready /\ p.attempt = Attempts(r, p.stage) + 1
              /\ x.waiting \subseteq ready
              /\ room > 0 /\ (\E n \in 1 .. Len(StageSeq) : StageSeq[n] \in ready) => Taken(x)
  <1> DEFINE N == Len(StageSeq)
  <1>1. PICK f : IsChoice(f, r, ready, room, N) /\ Select(r, ready, room) = f[N]
    BY SelectIsChoice
  <1>2. /\ f[0] = [assign |-> {}, waiting |-> {}, unavailable |-> {}]
        /\ \A n \in 1 .. N : f[n] = IF StageSeq[n] \in ready
                                    THEN Consider(r, f[n - 1], StageSeq[n], room) ELSE f[n - 1]
    <2>1. \A n \in 0 .. N :
            f[n] = IF n = 0 THEN [assign |-> {}, waiting |-> {}, unavailable |-> {}]
                   ELSE IF StageSeq[n] \in ready
                   THEN Consider(r, f[n - 1], StageSeq[n], room) ELSE f[n - 1]
      BY <1>1 DEF IsChoice
    <2>2. 0 \in 0 .. N /\ \A n \in 1 .. N : n \in 0 .. N /\ n # 0
      OBVIOUS
    <2>3. f[0] = [assign |-> {}, waiting |-> {}, unavailable |-> {}]
      BY <2>1, <2>2
    <2> QED BY <2>1, <2>2, <2>3
  <1> DEFINE Good(n) == /\ Shaped(f[n])
                        /\ \A p \in f[n].assign :
                              p.stage \in ready /\ p.attempt = Attempts(r, p.stage) + 1
                        /\ f[n].waiting \subseteq ready
                        /\ room > 0 /\ (\E k \in 1 .. n : StageSeq[k] \in ready) => Taken(f[n])
             T == { n \in 0 .. N : ~Good(n) }
  <1>3. T = {}
    <2> SUFFICES ASSUME T # {} PROVE FALSE
      OBVIOUS
    <2>1. PICK n \in T : \A m \in T : n <= m
      <3>1. T \subseteq Nat
        OBVIOUS
      <3> HIDE DEF T
      <3> QED BY <3>1, NatMin
    <2>2. Good(0)
      <3>1. Shaped(f[0]) /\ f[0].assign = {} /\ f[0].waiting = {}
        BY <1>2 DEF Shaped
      <3> QED BY <3>1
    <2>3. n \in 0 .. N /\ ~Good(n) /\ n # 0
      BY <2>1, <2>2
    <2>4. n \in 1 .. N /\ n - 1 \in 0 .. N /\ ~(n <= n - 1)
      BY <2>3
    <2>5. Good(n - 1)
      BY <2>1, <2>4
    <2> DEFINE acc == f[n - 1]
    <2>6. CASE StageSeq[n] \notin ready
      <3>1. f[n] = acc
        BY <1>2, <2>4, <2>6
      <3>2. ASSUME NEW k \in 1 .. n, StageSeq[k] \in ready PROVE k \in 1 .. n - 1
        BY <2>4, <2>6, <3>2
      <3>3. Good(n)
        BY <2>5, <3>1, <3>2
      <3> QED BY <2>3, <3>3
    <2>7. CASE StageSeq[n] \in ready
      <3> DEFINE s == StageSeq[n]
                 y == Consider(r, acc, s, room)
      <3>1. f[n] = y
        BY <1>2, <2>4, <2>7
      <3>2. Shaped(acc)
        BY <2>5
      <3>3. /\ Shaped(y)
            /\ \A p \in y.assign : NextTry(r, acc, s, p)
            /\ y.waiting \subseteq acc.waiting \cup {s}
            /\ room > 0 => Taken(y)
        <4>1. Advances(r, acc, s, room, y)
          BY <3>2, ConsiderAdds
        <4> HIDE DEF acc, s, y
        <4> QED BY <4>1 DEF Advances
      <3>4. \A p \in y.assign : p.stage \in ready /\ p.attempt = Attempts(r, p.stage) + 1
        <4> HIDE DEF y
        <4> QED BY <2>5, <2>7, <3>3 DEF NextTry
      <3>5. y.waiting \subseteq ready
        <4> HIDE DEF y
        <4> QED BY <2>5, <2>7, <3>3
      <3>6. Good(n)
        <4> HIDE DEF y
        <4> QED BY <3>1, <3>3, <3>4, <3>5
      <3> QED BY <2>3, <3>6
    <2> QED BY <2>6, <2>7
  <1>4. Good(N)
    BY <1>3
  <1> QED BY <1>1, <1>4

(* The policy waits for stages of the contract.                            *)
LEMMA ProposeWaits == ASSUME NEW r \in Runs PROVE Propose(r).waiting \subseteq Stages
  <1> DEFINE done   == Completed(r)
             active == ActiveStages(r)
             known  == ReadyStages(r, done, active)
             ready  == known \ Exhausted(r, known)
             room   == MaxParallel - Cardinality(active)
  <1>1. Propose(r).waiting = Select(r, ready, room).waiting
    BY DEF Propose
  <1>2. Len(StageSeq) \in Nat /\ MaxParallel \in Nat /\ StagesOf[r] \subseteq Stages
    BY TeamConstants DEF ValidGraph
  <1>3. Cardinality(active) \in Nat
    <2>1. active \subseteq Stages
      BY <1>2 DEF ActiveStages
    <2>2. IsFiniteSet(active)
      BY <2>1, StagesFinite, FS_Subset
    <2> QED BY <2>2, FS_CardinalityType
  <1>4. room \in Int
    BY <1>2, <1>3
  <1>5. ready \subseteq StagesOf[r]
    BY DEF ReadyStages
  <1> HIDE DEF ready, room
  <1>6. Select(r, ready, room).waiting \subseteq ready
    BY <1>2, <1>4, SelectOutcome
  <1> QED BY <1>1, <1>2, <1>5, <1>6

(* A plan of the policy has a consequence, and its attempts are numbered   *)
(* within the contract.                                                    *)
LEMMA ProposeUseful ==
    ASSUME TypeInv, LeaseInv, NEW r \in Runs
    PROVE  Useful(r, Propose(r)) /\ \A p \in Propose(r).assign : p.attempt \in 1 .. MaxAttempts
  <1> DEFINE done      == Completed(r)
             active    == ActiveStages(r)
             known     == ReadyStages(r, done, active)
             exhausted == Exhausted(r, known)
             ready     == known \ exhausted
             room      == MaxParallel - Cardinality(active)
             choice    == Select(r, ready, room)
             given     == { p.stage : p \in choice.assign }
             idle      == choice.assign = {} /\ active = {}
             blocked   == idle /\ (exhausted # {} \/ choice.unavailable # {})
             shown     == exhausted \cup (IF blocked THEN choice.unavailable ELSE {})
             patch     == Propose(r)
  <1>1. /\ patch.assign = choice.assign /\ patch.waiting = choice.waiting
        /\ patch.blocked = (done # StagesOf[r] /\ blocked)
        /\ patch.complete = (done = StagesOf[r])
        /\ patch.view = [s \in StagesOf[r] |-> StageView(s, done, active \cup given, shown, ready)]
    BY DEF Propose
  <1>2. /\ Len(StageSeq) \in Nat /\ MaxParallel \in Nat \ {0} /\ MaxAttempts \in Nat \ {0}
        /\ StagesOf[r] \subseteq Stages /\ StagesOf[r] # {}
        /\ \A s \in StagesOf[r] : DependsOn[s] \subseteq StagesOf[r]
        /\ \A S \in SUBSET Stages \ {{}} : \E s \in S : DependsOn[s] \cap S = {}
        /\ \A s \in Stages : \E n \in 1 .. Len(StageSeq) : StageSeq[n] = s
    BY TeamConstants DEF ValidGraph, Stages, Range
  <1>3. Cardinality(active) \in Nat
    <2>1. active \subseteq Stages
      BY <1>2 DEF ActiveStages
    <2>2. IsFiniteSet(active)
      BY <2>1, StagesFinite, FS_Subset
    <2> QED BY <2>2, FS_CardinalityType
  <1>4. room \in Int
    BY <1>2, <1>3
  <1>5. /\ \A p \in choice.assign : p.stage \in ready /\ p.attempt = Attempts(r, p.stage) + 1
        /\ room > 0 /\ (\E n \in 1 .. Len(StageSeq) : StageSeq[n] \in ready) => Taken(choice)
    <2> HIDE DEF ready, room
    <2> QED BY <1>2, <1>4, SelectOutcome
  <1>6. ready \subseteq known /\ known \subseteq StagesOf[r] /\ \A s \in ready : ~(Attempts(r, s) >= MaxAttempts)
    BY DEF ReadyStages, Exhausted
  <1>7. ASSUME NEW p \in patch.assign PROVE p.attempt \in 1 .. MaxAttempts
    <2>1. p.stage \in ready /\ p.attempt = Attempts(r, p.stage) + 1
      BY <1>1, <1>5, <1>7
    <2>2. Attempts(r, p.stage) \in Nat /\ ~(Attempts(r, p.stage) >= MaxAttempts)
      BY <1>6, <2>1, AttemptsLast DEF TypeInv
    <2> QED BY <1>2, <2>1, <2>2
  <1>8. CASE done = StagesOf[r]
    BY <1>1, <1>7, <1>8 DEF Useful, Follows
  <1>9. CASE active # {}
    <2>1. PICK s \in StagesOf[r] : s \in active
      BY <1>9 DEF ActiveStages
    <2>2. s \notin done
      <3>1. PICK i \in IdsOf(r, s) : Active(i)
        BY <2>1 DEF ActiveStages
      <3>2. i \in Ids /\ i[1] = r /\ i[2] = s
        BY <2>1, <3>1, IdsOfStage
      <3>3. ASSUME NEW j \in IdsOf(r, s), asg[j].status = "succeeded" PROVE FALSE
        <4>1. j \in Ids /\ j[1] = r /\ j[2] = s
          BY <2>1, <3>3, IdsOfStage
        <4> QED BY <3>1, <3>2, <3>3, <4>1 DEF LeaseInv, DoneStagesFree
      <3> QED BY <3>3 DEF Completed
    <2>3. patch.view[s] = "active"
      <3>1. patch.view[s] = StageView(s, done, active \cup given, shown, ready)
        BY <1>1, <2>1
      <3> HIDE DEF done, active, given, shown, ready, patch
      <3> QED BY <2>1, <2>2, <3>1 DEF StageView
    <2> HIDE DEF patch
    <2>4. Useful(r, patch)
      BY <2>1, <2>3 DEF Useful
    <2> QED BY <1>7, <2>4 DEF patch
  <1>10. CASE active = {} /\ done # StagesOf[r]
    <2> DEFINE S == StagesOf[r] \ done
    <2>1. done \subseteq StagesOf[r]
      BY DEF Completed
    <2>2. S \in SUBSET Stages \ {{}}
      BY <1>2, <1>10, <2>1
    <2>3. PICK s \in S : DependsOn[s] \cap S = {}
      BY <1>2, <2>2
    <2>4. s \in known
      <3>1. DependsOn[s] \subseteq done
        BY <1>2, <2>3
      <3> HIDE DEF done, active
      <3> QED BY <1>10, <2>3, <3>1 DEF ReadyStages
    <2>5. CASE s \in exhausted
      <3> HIDE DEF exhausted, active, choice, done, patch
      <3>1. patch.assign # {} \/ patch.blocked
        BY <1>1, <1>10, <2>5
      <3>2. Useful(r, patch)
        BY <3>1 DEF Useful, Follows
      <3> QED BY <1>7, <3>2 DEF patch
    <2>6. CASE s \notin exhausted
      <3>1. s \in ready
        BY <2>4, <2>6
      <3>2. \E n \in 1 .. Len(StageSeq) : StageSeq[n] \in ready
        <4> HIDE DEF ready
        <4> QED BY <1>2, <2>3, <3>1
      <3>3. room > 0
        <4>1. Cardinality(active) = 0
          <5> HIDE DEF active
          <5> QED BY <1>10, FS_EmptySet
        <4> HIDE DEF active
        <4> QED BY <1>2, <4>1
      <3>4. Taken(choice)
        BY <1>5, <3>2, <3>3
      <3> HIDE DEF exhausted, active, choice, done, patch
      <3>5. patch.assign # {} \/ patch.waiting # {} \/ patch.blocked
        BY <1>1, <1>10, <3>4 DEF Taken
      <3>6. Useful(r, patch)
        BY <3>5 DEF Useful, Follows
      <3> QED BY <1>7, <3>6 DEF patch
    <2> QED BY <2>5, <2>6
  <1> QED BY <1>8, <1>9, <1>10

-----------------------------------------------------------------------------
(* Supervisors.                                                            *)

(* Somebody has just called the supervisor of a run.                       *)
NewCall(r) == \E m \in Calls(r)' : m \notin sent

(* What the supervisor has to be told it is told, by a call.               *)
LEMMA OwedSteps ==
    ASSUME TypeInv, LeaseInv, PlanInv, StrandInv, [Next]_vars, NEW r \in Runs, Owed(r)
    PROVE  Owed(r)' \/ NewCall(r)
  <1>0. EndOK /\ SupervisorOK
    BY DEF StrandInv
  <1>1. PICK i \in Ids : i[1] = r /\ asg[i].status # "none" /\ ~Told(i)
    BY DEF Owed
  <1>2. asg'[i].status # "none"
    BY <1>1, AttemptSteps
  <1>3. CASE Told(i)'
    <2>1. PICK m \in sent' : m \notin sent /\ m.run = r /\ m.kind # "turn"
      BY <1>1, <1>3, NewlyTold
    <2>2. ASSUME NEW q \in Runs, SupAck(q), m = sup[q].msg PROVE FALSE
      <3>1. sup[q].msg \in Calls(q)
        BY <1>0, <2>2 DEF SupAck, SupervisorOK, SupervisorOf
      <3> QED BY <2>1, <2>2, <3>1 DEF Calls, Pending
    <2>3. m \notin acked'
      BY <1>0, <2>1, <2>2, AckSteps DEF TypeInv
    <2>4. m \in Calls(r)'
      BY <2>1, <2>3 DEF Calls, Pending
    <2> QED BY <2>1, <2>4 DEF NewCall
  <1> QED BY <1>1, <1>2, <1>3 DEF Owed

(* A plan that is accepted and asks for nothing more leaves work behind.   *)
LEMMA CommitOwes ==
    ASSUME TypeInv, LeaseInv, PlanInv, StrandInv, [Next]_vars, NEW r \in Runs, SupCommit(r),
           ValidatePlanPatch(r, sup[r].patch) = "ok", ~Follows(sup[r].patch)
    PROVE  Owed(r)'
  <1> DEFINE patch == sup[r].patch
  <1>0. /\ ToldOK' /\ sup[r].pc = "commit" /\ SupervisorOf(r)
    BY ToldStep DEF SupCommit, StrandInv, SupervisorOK
  <1>1. Useful(r, patch) /\ \A p \in patch.assign : p.attempt \in 1 .. MaxAttempts
    BY <1>0 DEF SupervisorOf
  <1>2. ASSUME NEW i \in Ids, i[1] = r, Active(i)', asg'[i].status # "none" PROVE Owed(r)'
    <2>1. ~Told(i)'
      BY <1>0, <1>2 DEF ToldOK
    <2> QED BY <1>2, <2>1 DEF Owed
  <1>3. ASSUME NEW p \in patch.assign PROVE Owed(r)'
    <2> DEFINE i == IdFor(r, p)
    <2>1. p.stage \in StagesOf[r] /\ p.stage \in Stages /\ p.attempt \in 1 .. MaxAttempts
      BY <1>1, <1>3, ProposalAdmitted, TeamConstants DEF ValidGraph
    <2>2. i \in Ids /\ i[1] = r
      BY <2>1 DEF IdFor, Ids
    <2>3. \E q \in patch.assign : asg'[i] = Leased(q)
      <3> HIDE DEF i
      <3>1. \/ asg'[i] = asg[i] /\ \A q \in patch.assign : i # IdFor(r, q)
            \/ \E q \in patch.assign : i = IdFor(r, q) /\ asg'[i] = Leased(q)
        BY <2>2, Granting
      <3> QED BY <1>3, <3>1 DEF i
    <2> HIDE DEF i
    <2>4. Active(i)' /\ asg'[i].status = "running"
      BY <2>3 DEF Leased, Active
    <2> QED BY <1>2, <2>2, <2>4
  <1>4. ASSUME patch.assign = {}, NEW s \in StagesOf[r], patch.view[s] = "active" PROVE Owed(r)'
    <2> DEFINE active == ActiveStages(r) \cup { p.stage : p \in patch.assign }
    <2>1. ViewHolds(patch.view[s], s, Completed(r), active)
      BY DEF ValidatePlanPatch
    <2>2. s \in active
      <3> HIDE DEF active
      <3> QED BY <1>4, <2>1 DEF ViewHolds
    <2>3. s \in ActiveStages(r)
      BY <1>4, <2>2
    <2>4. PICK i \in IdsOf(r, s) : Active(i)
      BY <2>3 DEF ActiveStages
    <2>5. i \in Ids /\ i[1] = r
      BY <2>4, IdsOfStage
    <2>6. asg[i].status # "none"
      BY <2>4, <2>5 DEF LeaseInv, LeasesHeld
    <2>7. asg'[i] = asg[i]
      BY <1>4, <2>5, Granting
    <2>8. Active(i)' /\ asg'[i].status # "none"
      BY <2>4, <2>6, <2>7 DEF Active
    <2> QED BY <1>2, <2>5, <2>8
  <1> QED BY <1>1, <1>3, <1>4 DEF Useful

(* A supervisor that others leave alone.                                   *)
LEMMA SupervisorAside ==
    ASSUME TypeInv, LeaseInv, PlanInv, StrandInv, [Next]_vars, NEW r \in Runs, Aside(r)
    PROVE  SupervisorOf(r)'
  <1>0. /\ SupervisorOf(r)
        /\ sup'[r] = sup[r] /\ revision'[r] = revision[r] /\ status'[r] = status[r]
        /\ waits'[r] = waits[r] /\ resumed'[r] = resumed[r]
        /\ ~SupAck(r)
    BY DEF Aside, StrandInv, SupervisorOK
  <1>1. Calls(r) \subseteq Calls(r)'
    <2> SUFFICES ASSUME NEW m \in Calls(r) PROVE m \in Calls(r)'
      OBVIOUS
    <2>1. m \in Pending /\ m.run = r /\ m.kind # "turn"
      BY DEF Calls
    <2>2. m \in Pending'
      BY <1>0, <2>1, StillPending
    <2> QED BY <2>1, <2>2 DEF Calls
  <1>2. OtherCall(r) => OtherCall(r)'
    BY <1>0, <1>1 DEF OtherCall
  <1>3. Settled(r) => Settled(r)' \/ NewCall(r)
    <2>1. Refused(r) => Refused(r)'
      BY <1>0 DEF Aside, Refused, Decided
    <2> QED BY <1>0, <2>1, OwedSteps DEF Settled
  <1>4. NewCall(r) /\ sup[r].pc # "idle" => OtherCall(r)'
    <2>1. sup[r].pc # "idle" => sup[r].msg \in sent
      BY <1>0 DEF SupervisorOf, Calls, Pending
    <2> QED BY <1>0, <2>1 DEF NewCall, OtherCall
  <1>5. Awaits(r) => Awaits(r)'
    BY <1>0 DEF Aside, Awaits
  <1>6. NewCall(r) \/ Calls(r) # {} => Calls(r)' # {}
    BY <1>1 DEF NewCall
  <1>7. sup'[r].pc # "idle" => sup'[r].msg \in Calls(r)'
    BY <1>0, <1>1 DEF SupervisorOf
  <1>8. sup'[r].pc = "resume" =>
          /\ sup'[r].msg.kind = "capacity"
          /\ (sup'[r].ok /\ Follows(sup'[r].patch)) \/ Settled(r)' \/ OtherCall(r)'
    BY <1>0, <1>2, <1>3, <1>4 DEF SupervisorOf
  <1>9. sup'[r].pc = "ack" => Settled(r)' \/ Awaits(r)' \/ OtherCall(r)'
    BY <1>0, <1>2, <1>3, <1>4, <1>5 DEF SupervisorOf
  <1>10. sup'[r].pc = "idle" => Settled(r)' \/ Awaits(r)' \/ Calls(r)' # {}
    BY <1>0, <1>3, <1>5, <1>6 DEF SupervisorOf
  <1> QED BY <1>0, <1>7, <1>8, <1>9, <1>10 DEF SupervisorOf

(* A process that comes back takes up what was pending and what waited.    *)
LEMMA SupervisorCrash ==
    ASSUME TypeInv, LeaseInv, PlanInv, StrandInv, [Next]_vars, NEW r \in Runs, Crash
    PROVE  SupervisorOf(r)'
  <1>0. /\ SupervisorOf(r) /\ WaitsOf(r) /\ faults \in Nat
        /\ sup'[r] = IdleSup /\ UNCHANGED <<status, revision, cmds, waits, resumed>>
        /\ waiter'[r] = IF status[r] # "running" \/ LastWait(r) \in resumed[r] THEN 0 ELSE LastWait(r)
        /\ faults' = faults + 1
    BY DEF Crash, factVars, planVars, StrandInv, SupervisorOK, WaitOK, EndOK
  <1>1. sup'[r].pc = "idle"
    BY <1>0 DEF IdleSup
  <1>2. ~SupAck(r)
    BY <1>0 DEF SupAck
  <1>3. Calls(r) \subseteq Calls(r)'
    <2> SUFFICES ASSUME NEW m \in Calls(r) PROVE m \in Calls(r)'
      OBVIOUS
    <2>1. m \in Pending /\ m.run = r /\ m.kind # "turn"
      BY DEF Calls
    <2>2. m \in Pending'
      BY <1>2, <2>1, StillPending
    <2> QED BY <2>1, <2>2 DEF Calls
  <1>4. CASE sup[r].pc # "idle"
    <2>1. Calls(r)' # {}
      BY <1>0, <1>3, <1>4 DEF SupervisorOf
    <2> QED BY <1>1, <2>1 DEF SupervisorOf
  <1>5. CASE sup[r].pc = "idle"
    <2>1. CASE Settled(r)
      <3>1. Refused(r) => Refused(r)'
        BY <1>0 DEF Refused, Decided
      <3>2. Settled(r)' \/ NewCall(r)
        BY <1>0, <2>1, <3>1, OwedSteps DEF Settled
      <3> QED BY <1>1, <3>2 DEF SupervisorOf, NewCall
    <2>2. CASE Calls(r) # {}
      BY <1>1, <1>3, <2>2 DEF SupervisorOf
    <2>3. CASE Awaits(r) /\ ~Settled(r)
      <3>0. /\ status[r] = "running" /\ waiter[r] # 0 /\ waiter[r] \notin resumed[r]
            /\ waiter[r] \in Nat
        BY <2>3 DEF Settled, Awaits, TypeInv, FactType
      <3>1. PICK w \in waits[r] : w.rev = waiter[r] /\ \A x \in waits[r] : x.rev <= waiter[r]
        BY <1>0, <3>0 DEF WaitsOf
      <3>2. LastWait(r) # 0
        <4>1. LastWait(r) \in { x.rev : x \in waits[r] }
          <5> DEFINE V == { x.rev : x \in waits[r] }
          <5>1. w.rev \in V /\ \A x \in waits[r] : x.rev <= w.rev
            BY <3>1
          <5>2. LastWait(r) = CHOOSE n \in V : \A x \in waits[r] : x.rev <= n
            BY DEF LastWait
          <5> QED BY <5>1, <5>2
        <4>2. \A x \in waits[r] : x.rev \in 1 .. revision[r]
          BY DEF TypeInv, WaitType
        <4> QED BY <4>1, <4>2 DEF TypeInv, FactType
      <3>3. PICK x \in waits[r] : x.rev = LastWait(r) /\ w.rev <= LastWait(r)
        BY <3>2, LastWaitIs
      <3>4. LastWait(r) \in Nat
        BY LastWaitType
      <3>5. x.rev <= waiter[r]
        BY <3>1, <3>3
      <3>6. LastWait(r) = waiter[r]
        BY <3>0, <3>1, <3>3, <3>4, <3>5
      <3>7. Awaits(r)'
        BY <1>0, <3>0, <3>6 DEF Awaits
      <3> QED BY <1>1, <3>7 DEF SupervisorOf
    <2> QED BY <1>0, <1>5, <2>1, <2>2, <2>3 DEF SupervisorOf
  <1> QED BY <1>4, <1>5

(* The supervisor takes up a delivery.                                     *)
LEMMA SupervisorProposes ==
    ASSUME TypeInv, LeaseInv, PlanInv, StrandInv, [Next]_vars, NEW r \in Runs,
           NEW m \in Pending, m.run = r, SupPropose(r, m)
    PROVE  SupervisorOf(r)'
  <1> DEFINE patch == Propose(r)
             old == CmdOf(Key(r, m, patch.rev))
             pc == IF \A c \in old : c.state = "begun" THEN "commit"
                   ELSE IF m.kind = "capacity" THEN "resume" ELSE "ack"
  <1>0. /\ CommandType /\ CommandsOf(r)' /\ sup = [q \in Runs |-> sup[q]]
        /\ m.kind # "turn" /\ UNCHANGED <<status, revision, sent, acked, refused, waits, resumed>>
        /\ cmds \subseteq cmds'
    BY CommandsStep DEF StrandInv, CommandOK, SupPropose, SupTakes, TypeInv, SupType, factVars, mailVars
  <1>1. sup' = [sup EXCEPT ![r] = [pc |-> pc, msg |-> m, patch |-> patch, ok |-> FALSE, bury |-> {}]]
    BY DEF SupPropose
  <1>2. patch.rev = revision[r] + 1
    BY ProposeRev DEF TypeInv, FactType
  <1>3. Useful(r, patch) /\ \A p \in patch.assign : p.attempt \in 1 .. MaxAttempts
    BY ProposeUseful
  <1>4. \A c \in old : c \in cmds /\ c.key.run = r /\ c.key.rev = revision[r] + 1
    BY <1>2 DEF CmdOf, Key
  <1>a. /\ pc \in {"commit", "resume", "ack"} /\ (pc = "resume" <=> pc # "commit" /\ m.kind = "capacity")
        /\ pc # "commit" => \E c \in old : c.state # "begun"
    OBVIOUS
  <1> HIDE DEF patch, old, pc
  <1>5. sup'[r].pc = pc /\ sup'[r].msg = m /\ sup'[r].patch = patch /\ sup'[r].ok = FALSE
    BY <1>0, <1>1
  <1>6. m \in Calls(r)'
    BY <1>0 DEF Calls, Pending
  <1>7. ASSUME pc # "commit" PROVE Settled(r)' \/ OtherCall(r)'
    <2>1. PICK c \in old : c.state # "begun"
      BY <1>a, <1>7
    <2>2. c.state \in {"refused", "concurrency"} /\ c \in cmds' /\ c.key.run = r
          /\ c.key.rev = revision'[r] + 1
      BY <1>0, <1>4, <2>1 DEF CommandType
    <2>3. Refused(r)' \/ Crowded(r)'
      BY <2>2 DEF Refused, Crowded, Decided
    <2>4. CASE status'[r] = "running" /\ ~Refused(r)'
      <3>1. PICK n : n = Replan(r, refused'[r])
        OBVIOUS
      <3>2. n.kind = "replan" /\ n.run = r
        BY <3>1 DEF Replan, Msg
      <3>3. n \in Pending' /\ sup'[r].msg # n
        BY <1>0, <1>5, <1>a, <1>7, <2>3, <2>4, <3>1 DEF CommandsOf
      <3>4. n \in Calls(r)'
        BY <3>2, <3>3 DEF Calls
      <3> QED BY <3>3, <3>4 DEF OtherCall
    <2> QED BY <2>4 DEF Settled
  <1>8. CASE pc = "commit"
    BY <1>0, <1>2, <1>3, <1>5, <1>6, <1>8 DEF SupervisorOf
  <1>9. CASE pc # "commit"
    BY <1>5, <1>6, <1>7, <1>9, <1>a DEF SupervisorOf
  <1> QED BY <1>8, <1>9

(* The kernel decides its plan.                                            *)
LEMMA SupervisorCommits ==
    ASSUME TypeInv, LeaseInv, PlanInv, StrandInv, [Next]_vars, NEW r \in Runs, SupCommit(r)
    PROVE  SupervisorOf(r)'
  <1> DEFINE v == ValidatePlanPatch(r, sup[r].patch)
             k == Key(r, sup[r].msg, sup[r].patch.rev)
  <1>0. /\ CommandsOf(r)' /\ sent \subseteq sent'
    BY CommandsStep, SentSteps
  <1>1. /\ UNCHANGED <<status, waits, resumed, waiter, acked>>
        /\ sup'[r].msg = sup[r].msg /\ sup'[r].patch = sup[r].patch
        /\ sup'[r].ok = (v = "ok")
        /\ sup'[r].pc = IF sup[r].msg.kind = "capacity" THEN "resume"
                        ELSE IF sup'[r].ok /\ Follows(sup[r].patch) THEN "follow" ELSE "ack"
        /\ sup[r].patch.rev = revision[r] + 1
        /\ sup[r].msg \in Calls(r)
        /\ v = "ok" => revision'[r] = revision[r] + 1
        /\ v # "ok" => revision'[r] = revision[r]
    BY CommitEffects
  <1>2. v \in {"ok", "refused", "concurrency"}
    BY Verdicts
  <1>3. v = "ok" /\ ~Follows(sup[r].patch) => Owed(r)'
    BY CommitOwes
  <1>4. cmds' = { d \in cmds : d.key # k } \cup
                (IF v = "ok" THEN {} ELSE {[key |-> k, patch |-> NoPatch, state |-> v]})
    BY DEF SupCommit, Decide
  <1>5. k.run = r /\ k.rev = revision[r] + 1
    BY <1>1 DEF Key
  <1> HIDE DEF v, k
  <1>6. ASSUME v # "ok" PROVE Settled(r)' \/ OtherCall(r)'
    <2> DEFINE c == [key |-> k, patch |-> NoPatch, state |-> v]
    <2>1. c \in cmds' /\ c.key.run = r /\ c.key.rev = revision'[r] + 1
          /\ c.state \in {"refused", "concurrency"}
      BY <1>1, <1>2, <1>4, <1>5, <1>6
    <2>2. Refused(r)' \/ Crowded(r)'
      BY <2>1 DEF Refused, Crowded, Decided
    <2>3. CASE status'[r] = "running" /\ ~Refused(r)'
      <3>1. PICK n : n = Replan(r, refused'[r])
        OBVIOUS
      <3>2. n.kind = "replan" /\ n.run = r
        BY <3>1 DEF Replan, Msg
      <3>a. sup'[r].pc \in {"resume", "follow", "ack"}
        BY <1>1
      <3>3. n \in Pending' /\ sup'[r].msg # n
        BY <1>0, <2>2, <2>3, <3>1, <3>a DEF CommandsOf
      <3>4. n \in Calls(r)'
        BY <3>2, <3>3 DEF Calls
      <3> QED BY <3>3, <3>4 DEF OtherCall
    <2> QED BY <2>3 DEF Settled
  <1>7. sup'[r].msg \in Calls(r)'
    BY <1>0, <1>1 DEF Calls, Pending
  <1>8. v = "ok" => /\ sup'[r].patch.rev = revision'[r]
                    /\ \A w \in waits'[r] : w.rev # sup'[r].patch.rev
    <2>1. \A w \in waits[r] : w.rev \in 1 .. revision[r]
      BY DEF TypeInv, WaitType
    <2>2. revision[r] \in Nat
      BY DEF TypeInv, FactType
    <2> QED BY <1>1, <2>1, <2>2
  <1>9. (sup'[r].ok /\ Follows(sup'[r].patch)) \/ Settled(r)' \/ OtherCall(r)'
    <2>1. CASE v = "ok"
      BY <1>1, <1>3, <2>1 DEF Settled
    <2> QED BY <1>6, <2>1
  <1>10. CASE sup[r].msg.kind = "capacity"
    <2>1. sup'[r].pc = "resume"
      BY <1>1, <1>10
    <2> QED BY <1>1, <1>7, <1>8, <1>9, <1>10, <2>1 DEF SupervisorOf
  <1>11. CASE sup[r].msg.kind # "capacity"
    <2>1. sup'[r].pc = IF sup'[r].ok /\ Follows(sup'[r].patch) THEN "follow" ELSE "ack"
      BY <1>1, <1>11
    <2> QED BY <1>1, <1>7, <1>8, <1>9, <1>11, <2>1 DEF SupervisorOf
  <1> QED BY <1>10, <1>11

(* It does what the plan leaves to do, and acknowledges the delivery.      *)
LEMMA SupervisorFollows ==
    ASSUME TypeInv, LeaseInv, PlanInv, StrandInv, [Next]_vars, NEW r \in Runs,
           SupFailRun(r) \/ SupResume(r) \/ SupWait(r) \/ SupPause(r) \/ SupComplete(r)
    PROVE  SupervisorOf(r)'
  <1> USE DEF factVars, planVars, runVars, mailVars, memVars
  <1>0. /\ SupervisorOf(r) /\ PostOK /\ WaitsOf(r) /\ sup = [q \in Runs |-> sup[q]]
        /\ sup[r] \in [pc : SupPcs, msg : {sup[r].msg}, patch : {sup[r].patch}, ok : BOOLEAN,
                       bury : SUBSET Ids]
        /\ status \in [Runs -> {"running", "paused", "succeeded", "failed"}]
        /\ resumed = [q \in Runs |-> resumed[q]] /\ waiter \in [Runs -> Nat]
        /\ sent \subseteq sent'
    BY SentSteps DEF TypeInv, SupType, FactType, StrandInv, SupervisorOK, WaitOK
  <1>1. UNCHANGED <<revision, asg, cmds, acked>>
    BY DEF SupFailRun, SupResume, SupWait, SupPause, SupComplete
  <1>2. PICK pc : /\ sup' = [sup EXCEPT ![r].pc = pc]
                  /\ pc = IF SupResume(r) THEN AfterPlan(r, sup[r].ok) ELSE "ack"
    <2>1. CASE SupResume(r)
      BY <2>1 DEF SupResume
    <2>2. CASE ~SupResume(r)
      BY <2>2 DEF SupFailRun, SupWait, SupPause, SupComplete
    <2> QED BY <2>1, <2>2
  <1>3. sup'[r].pc = pc /\ sup'[r].msg = sup[r].msg /\ sup'[r].patch = sup[r].patch
        /\ sup'[r].ok = sup[r].ok
    BY <1>0, <1>2
  <1>4. sup[r].pc \in {"bury", "resume", "follow"}
    BY DEF SupFailRun, SupResume, SupWait, SupPause, SupComplete
  <1>5. sup'[r].msg \in Calls(r)'
    <2>1. sup[r].msg \in Calls(r)
      BY <1>0, <1>4 DEF SupervisorOf
    <2> QED BY <1>0, <1>1, <1>3, <2>1 DEF Calls, Pending
  <1>6. CASE SupFailRun(r) \/ SupPause(r) \/ SupComplete(r)
    <2>1. status'[r] # "running"
      <3>1. CASE SupFailRun(r)
        BY <1>0, <3>1 DEF SupFailRun
      <3>2. CASE SupPause(r)
        BY <1>0, <3>2 DEF SupPause, ProjectRun
      <3>3. CASE SupComplete(r)
        <4>1. GateOpen(r) /\ GateNudge(r) \notin sent
          BY <1>0, <3>3, GatePasses
        <4> QED BY <1>0, <3>3, <4>1 DEF SupComplete, ProjectRun
      <3> QED BY <1>6, <3>1, <3>2, <3>3
    <2>2. sup'[r].pc = "ack"
      <3>1. ~SupResume(r)
        BY <1>0, <1>6, <2>1, <1>3 DEF SupFailRun, SupResume, SupPause, SupComplete
      <3> QED BY <1>2, <1>3, <3>1
    <2>3. Settled(r)'
      BY <2>1 DEF Settled
    <2> QED BY <1>5, <2>1, <2>2, <2>3 DEF SupervisorOf
  <1>7. CASE SupResume(r)
    <2>1. /\ UNCHANGED <<status, sent, waits, waiter>> /\ sup[r].pc = "resume"
          /\ resumed' = [resumed EXCEPT ![r] = @ \cup {sup[r].msg.n}]
      BY <1>7 DEF SupResume
    <2>2. sup[r].msg.n \in resumed'[r]
      BY <1>0, <2>1
    <2>3. pc = IF sup[r].ok /\ Follows(sup[r].patch) THEN "follow" ELSE "ack"
      BY <1>2, <1>7 DEF AfterPlan, Follows
    <2>4. /\ sup[r].ok => /\ sup[r].patch.rev = revision[r]
                          /\ \A w \in waits[r] : w.rev # sup[r].patch.rev
          /\ (sup[r].ok /\ Follows(sup[r].patch)) \/ Settled(r) \/ OtherCall(r)
      BY <1>0, <2>1 DEF SupervisorOf
    <2>5. Settled(r) => Settled(r)'
      BY <1>1, <2>1 DEF Settled, Owed, Told, Refused, Decided
    <2>6. OtherCall(r) => OtherCall(r)'
      BY <1>1, <1>3, <2>1 DEF OtherCall, Calls, Pending
    <2> QED BY <1>1, <1>3, <1>5, <2>1, <2>2, <2>3, <2>4, <2>5, <2>6 DEF SupervisorOf
  <1>8. CASE SupWait(r)
    <2>1. UNCHANGED <<status, resumed>> /\ sup[r].pc = "follow"
      BY <1>8 DEF SupWait
    <2>2. sup'[r].pc = "ack"
      BY <1>2, <1>3, <2>1 DEF SupResume
    <2>3. sup[r].ok /\ sup[r].patch.rev \in 1 .. revision[r] /\ revision[r] \in Nat
      BY <2>1 DEF TypeInv, SupType, FactType
    <2>4. \A w \in waits[r] : w.rev # sup[r].patch.rev
      BY <1>0, <2>1, <2>3 DEF SupervisorOf
    <2>5. sup[r].patch.rev \notin resumed[r]
      BY <1>0, <2>4 DEF WaitsOf
    <2>6. CASE status[r] = "running"
      <3>1. waiter' = [waiter EXCEPT ![r] = sup[r].patch.rev]
        BY <1>8, <2>6 DEF SupWait
      <3>2. waiter'[r] = sup[r].patch.rev
        BY <1>0, <3>1
      <3>3. Awaits(r)'
        BY <2>1, <2>3, <2>5, <3>2 DEF Awaits
      <3>4. sup'[r].msg.kind = "capacity" => sup'[r].msg.n \in resumed'[r]
        BY <1>0, <1>3, <2>1, <2>6 DEF SupervisorOf
      <3> QED BY <1>5, <2>2, <3>3, <3>4 DEF SupervisorOf
    <2>7. CASE status[r] # "running"
      <3>1. Settled(r)'
        BY <2>1, <2>7 DEF Settled
      <3> QED BY <1>5, <2>1, <2>2, <2>7, <3>1 DEF SupervisorOf
    <2> QED BY <2>6, <2>7
  <1> QED BY <1>6, <1>7, <1>8

(* Every step keeps the supervisors called.                                *)
LEMMA SupervisorStep ==
    ASSUME TypeInv, LeaseInv, PlanInv, StrandInv, [Next]_vars PROVE SupervisorOK'
  <1> USE DEF factVars, planVars, runVars, mailVars, memVars
  <1> SUFFICES ASSUME NEW r \in Runs PROVE SupervisorOf(r)'
    BY DEF SupervisorOK
  <1>0. /\ SupervisorOf(r) /\ PostOK /\ WaitOK /\ sup = [q \in Runs |-> sup[q]]
        /\ sup[r] \in [pc : SupPcs, msg : {sup[r].msg}, patch : {sup[r].patch}, ok : BOOLEAN,
                       bury : SUBSET Ids]
    BY DEF TypeInv, SupType, StrandInv, SupervisorOK
  <1>1. ASSUME NEW m \in Pending, m.run = r, SupRaise(r, m) PROVE SupervisorOf(r)'
    <2>1. sup'[r].pc = "bury" /\ sup'[r].msg = m
      BY <1>1, RaiseEffects
    <2>2. m \in Calls(r)'
      BY <1>1 DEF SupRaise, SupTakes, Calls, Pending
    <2> QED BY <2>1, <2>2 DEF SupervisorOf
  <1>2. ASSUME NEW i \in sup[r].bury, SupBury(r, i) PROVE SupervisorOf(r)'
    <2>1. sup' = [sup EXCEPT ![r].bury = @ \ {i}] /\ sup[r].pc = "bury" /\ UNCHANGED <<sent, acked>>
      BY <1>2 DEF SupBury
    <2>2. sup'[r].pc = "bury" /\ sup'[r].msg = sup[r].msg
      BY <1>0, <2>1
    <2>3. sup'[r].msg \in Calls(r)'
      BY <1>0, <2>1, <2>2 DEF SupervisorOf, Calls, Pending
    <2> QED BY <2>2, <2>3 DEF SupervisorOf
  <1>3. CASE SupAck(r)
    <2>1. /\ UNCHANGED <<asg, sent, cmds, revision, status, waiter, resumed>> /\ sup[r].pc = "ack"
          /\ acked' = acked \cup {sup[r].msg} /\ sup'[r] = IdleSup
      BY <1>0, <1>3 DEF SupAck
    <2>2. sup'[r].pc = "idle"
      BY <2>1 DEF IdleSup
    <2>3. Settled(r) => Settled(r)'
      BY <2>1 DEF Settled, Owed, Told, Refused, Decided
    <2>4. Awaits(r) => Awaits(r)'
      BY <2>1 DEF Awaits
    <2>5. OtherCall(r) => Calls(r)' # {}
      <3> SUFFICES ASSUME NEW m \in Calls(r), m # sup[r].msg PROVE m \in Calls(r)'
        BY DEF OtherCall
      <3> QED BY <2>1 DEF Calls, Pending
    <2>6. Settled(r)' \/ Awaits(r)' \/ Calls(r)' # {}
      BY <1>0, <2>1, <2>3, <2>4, <2>5 DEF SupervisorOf
    <2> QED BY <2>2, <2>6 DEF SupervisorOf
  <1>4. CASE Acts(r)
    BY <1>1, <1>2, <1>3, <1>4, SupervisorProposes, SupervisorCommits, SupervisorFollows DEF Acts, SupStep
  <1> QED BY <1>0, <1>4, StepsAside, SupervisorAside, SupervisorCrash

(* Every step keeps the stages waited for known.                           *)
LEMMA StagesStep ==
    ASSUME TypeInv, LeaseInv, PlanInv, StrandInv, [Next]_vars PROVE StagesOK'
  <1> USE DEF factVars, planVars, runVars, mailVars, memVars
  <1> SUFFICES ASSUME NEW r \in Runs
               PROVE  /\ sup'[r].patch.waiting \subseteq Stages
                      /\ \A w \in waits'[r] : w.stages \subseteq Stages
    BY DEF StagesOK
  <1>0. /\ sup[r].patch.waiting \subseteq Stages
        /\ \A w \in waits[r] : w.stages \subseteq Stages
        /\ PostOK /\ WaitOK /\ sup = [q \in Runs |-> sup[q]] /\ waits = [q \in Runs |-> waits[q]]
        /\ sup[r] \in [pc : SupPcs, msg : {sup[r].msg}, patch : {sup[r].patch}, ok : BOOLEAN,
                       bury : SUBSET Ids]
    BY DEF TypeInv, SupType, WaitType, StrandInv, StagesOK
  <1>1. CASE Aside(r)
    BY <1>0, <1>1 DEF Aside
  <1>2. CASE Crash \/ SupAck(r)
    <2>1. sup'[r] = IdleSup /\ waits' = waits
      BY <1>0, <1>2 DEF Crash, SupAck
    <2>2. IdleSup.patch.waiting = {}
      BY DEF IdleSup, NoPatch
    <2> QED BY <1>0, <2>1, <2>2
  <1>3. ASSUME NEW m, SupPropose(r, m)
        PROVE  sup'[r].patch.waiting \subseteq Stages /\ waits' = waits
    <2>1. sup'[r].patch = Propose(r) /\ waits' = waits
      BY <1>0, <1>3 DEF SupPropose
    <2> QED BY <2>1, ProposeWaits
  <1>4. ASSUME NEW m, SupRaise(r, m)
        PROVE  sup'[r].patch.waiting \subseteq Stages /\ waits' = waits
    <2> DEFINE B == IF status[r] = "running" THEN ActiveLeasesOf(r) ELSE {}
               x == [IdleSup EXCEPT !.pc = "bury", !.msg = m, !.bury = B]
    <2>1. sup' = [sup EXCEPT ![r] = x] /\ waits' = waits
      BY <1>4 DEF SupRaise
    <2>2. x.patch = NoPatch /\ NoPatch.waiting = {}
      BY DEF IdleSup, NoPatch
    <2> HIDE DEF x
    <2> QED BY <1>0, <2>1, <2>2
  <1>5. CASE SupCommit(r)
    BY <1>0, <1>5, CommitEffects
  <1>6. ASSUME NEW i \in sup[r].bury, SupBury(r, i)
        PROVE  sup'[r].patch = sup[r].patch /\ waits' = waits
    BY <1>0, <1>6 DEF SupBury
  <1>7. CASE SupFailRun(r) \/ SupResume(r) \/ SupWait(r) \/ SupPause(r) \/ SupComplete(r)
    <2>1. \E pc : sup' = [sup EXCEPT ![r].pc = pc]
      BY <1>7 DEF SupFailRun, SupResume, SupWait, SupPause, SupComplete
    <2>2. sup'[r].patch = sup[r].patch
      BY <1>0, <2>1
    <2>3. CASE SupWait(r)
      <3> DEFINE w == [rev |-> sup[r].patch.rev, stages |-> sup[r].patch.waiting]
      <3>1. waits' = [waits EXCEPT ![r] = @ \cup {w}] /\ w.stages = sup[r].patch.waiting
        BY <2>3 DEF SupWait
      <3> HIDE DEF w
      <3>2. waits'[r] = waits[r] \cup {w}
        BY <1>0, <3>1
      <3> QED BY <1>0, <2>2, <3>1, <3>2
    <2>4. CASE ~SupWait(r)
      <3>1. waits' = waits
        BY <1>7, <2>4 DEF SupFailRun, SupResume, SupPause, SupComplete
      <3> QED BY <1>0, <2>2, <3>1
    <2> QED BY <2>3, <2>4
  <1>8. CASE Acts(r)
    BY <1>0, <1>2, <1>3, <1>4, <1>5, <1>6, <1>7, <1>8 DEF Acts, SupStep
  <1> QED BY <1>0, <1>1, <1>2, <1>8, StepsAside

(* At first every run has its first delivery pending.                      *)
LEMMA InitStrand == ASSUME Init PROVE StrandInv
  <1>1. PostOK
    <2> SUFFICES ASSUME NEW r \in Runs, NEW m, m = External(r) PROVE Known(m)
      BY DEF Init, PostOK
    <2>1. m.kind = "external" /\ m.run = r
      BY DEF External, Msg
    <2> QED BY <2>1 DEF Known
  <1>2. \A i \in Ids : ~Told(i)
    <2> SUFFICES ASSUME NEW i \in Ids, NEW r \in Runs,
                        NEW m \in {Submitted(i), LeaseGone(i), FailNudge(i)}
                 PROVE  m # External(r)
      BY DEF Init, Told
    <2>1. m.kind \in {"result", "expired", "failed"} /\ External(r).kind = "external"
      BY DEF Submitted, LeaseGone, FailNudge, External, Msg
    <2> QED BY <2>1
  <1>3. ToldOK /\ TakenOK
    BY <1>2 DEF Init, ToldOK, TakenOK
  <1>4. EndOK
    <2>1. faults \in Nat /\ \A r \in Runs : sup[r].bury = {}
      BY DEF Init, IdleSup
    <2>2. ASSUME NEW i \in Ids PROVE EndsOf(i)
      <3>1. /\ asg[i].status = "none" /\ verdict[i] = "none" /\ wk[i].pc = "idle" /\ exp.pc = "idle"
            /\ exp.todo = {}
        BY DEF Init, NoAssignment, IdleWk, IdleExp
      <3> QED BY <3>1 DEF EndsOf
    <2> QED BY <2>1, <2>2 DEF EndOK
  <1>5. WaitOK /\ CommandOK
    BY DEF Init, WaitOK, WaitsOf, CommandOK, CommandType, CommandsOf, Crowded, Decided
  <1>6. SupervisorOK
    <2> SUFFICES ASSUME NEW r \in Runs PROVE SupervisorOf(r)
      BY DEF SupervisorOK
    <2>1. sup[r].pc = "idle"
      BY DEF Init, IdleSup
    <2>2. PICK m : m = External(r)
      OBVIOUS
    <2>3. m.kind = "external" /\ m.run = r
      BY <2>2 DEF External, Msg
    <2>4. m \in Calls(r)
      BY <2>2, <2>3 DEF Init, Calls, Pending
    <2> QED BY <2>1, <2>4 DEF SupervisorOf
  <1>7. StagesOK
    <2>1. IdleSup.patch.waiting = {}
      BY DEF IdleSup, NoPatch
    <2> QED BY <2>1 DEF Init, StagesOK
  <1> QED BY <1>1, <1>3, <1>4, <1>5, <1>6, <1>7 DEF StrandInv

(* In every reachable state, whoever still has to wake up a supervisor is  *)
(* there to do it (StrandInv).                                             *)
THEOREM WakeUpsKept == Spec => []StrandInv
  <1>1. Init => StrandInv
    BY InitStrand
  <1>2. TypeInv /\ LeaseInv /\ PlanInv /\ StrandInv /\ [Next]_vars => StrandInv'
    BY PostStep, ToldStep, TakenStep, EndStep, WaitStep, CommandTypeStep, CommandsStep,
       SupervisorStep, StagesStep DEF StrandInv, CommandOK
  <1> QED BY <1>1, <1>2, PlansCorrect, PTL DEF Spec

(* A running run is left without a wake-up only in the three ways the code *)
(* leaves open (StrandedOnlyBy), for every number of runs, stages, agents, *)
(* attempts, late leases and faults.                                       *)
THEOREM StrandedOnlyByHolds == Spec => []StrandedOnlyBy
  <1>1. TypeInv /\ LeaseInv /\ StrandInv => StrandedOnlyBy
    <2> SUFFICES ASSUME TypeInv, LeaseInv, StrandInv, NEW r \in Runs, Stranded(r)
                 PROVE  \/ /\ faults > 0
                           /\ \E i \in Ids : /\ i[1] = r /\ asg[i].status \in {"failed", "expired"}
                                             /\ {LeaseGone(i), FailNudge(i)} \cap sent = {}
                        \/ \E c \in cmds : /\ c.key.run = r /\ c.state = "refused"
                                           /\ c.key.rev = revision[r] + 1
                        \/ waiter[r] # 0 /\ \A s \in WaitOf(r, waiter[r]).stages :
                                                \A a \in Capable[s] : agent[a] = "degraded"
      BY DEF StrandedOnlyBy
    <2>0. /\ SupervisorOf(r) /\ EndOK /\ TakenOK /\ WaitsOf(r) /\ StagesOK
      BY DEF StrandInv, SupervisorOK, WaitOK
    <2>1. /\ status[r] = "running" /\ sup[r].pc = "idle" /\ ~dirty
          /\ \A m \in Pending : m.run # r
          /\ \A i \in Ids : i[1] = r => ~Active(i) /\ wk[i].pc = "idle" /\ exp.cur # i
          /\ \A i \in Ids : wk[i].pc # "route"
          /\ waiter[r] # 0 =>
                ~ \E a \in Agents, s \in WaitOf(r, waiter[r]).stages :
                      a \in Capable[s] /\ agent[a] = "up" /\ ActiveLoad(a) > 0
      BY DEF Stranded
    <2>2. Calls(r) = {}
      BY <2>1 DEF Calls
    <2>3. CASE Owed(r)
      <3>1. PICK i \in Ids : i[1] = r /\ asg[i].status # "none" /\ ~Told(i)
        BY <2>3 DEF Owed
      <3>2. ~Active(i) /\ wk[i].pc = "idle" /\ exp.cur # i /\ EndsOf(i) /\ ~Submitted(i) \in sent
        BY <2>0, <2>1, <3>1 DEF EndOK, Told
      <3>3. verdict[i] # "accepted"
        BY <2>1, <3>2 DEF EndsOf
      <3>4. faults > 0
        BY <2>1, <3>1, <3>2, <3>3 DEF EndsOf
      <3>5. asg[i].status # "running" /\ asg[i].status # "succeeded"
        BY <3>2, <3>3 DEF EndsOf
      <3>6. asg[i] \in Assignments
        BY EndTypes
      <3>7. asg[i].status \in {"failed", "expired"}
        BY <3>1, <3>5, <3>6 DEF Assignments
      <3>8. {LeaseGone(i), FailNudge(i)} \cap sent = {}
        BY <3>1 DEF Told
      <3> QED BY <3>1, <3>4, <3>7, <3>8
    <2>4. CASE Refused(r)
      BY <2>4 DEF Refused, Decided
    <2>5. CASE Awaits(r)
      <3> DEFINE S == WaitOf(r, waiter[r]).stages
      <3>0. waiter[r] # 0 /\ waiter[r] \notin resumed[r]
        BY <2>5 DEF Awaits
      <3>1. Capacity(r, waiter[r]) \notin sent
        <4>1. PICK m : m = Capacity(r, waiter[r])
          OBVIOUS
        <4>2. m.kind = "capacity" /\ m.run = r /\ m.n = waiter[r]
          BY <4>1 DEF Capacity, Msg
        <4>3. m \notin acked
          BY <2>0, <2>1, <3>0, <4>2 DEF TakenOK
        <4> QED BY <2>1, <4>1, <4>2, <4>3 DEF Pending
      <3>2. ~Available(S)
        BY <2>0, <2>1, <3>0, <3>1 DEF WaitsOf, Offering
      <3>3. S \subseteq Stages
        <4>1. PICK w \in waits[r] : w.rev = waiter[r]
          BY <2>0, <2>1, <3>0 DEF WaitsOf
        <4>2. WaitOf(r, waiter[r]) = w
          BY <2>0, <4>1, WaitFound DEF WaitsOf
        <4> QED BY <2>0, <4>1, <4>2 DEF StagesOK
      <3>4. ASSUME NEW s \in S, NEW a \in Capable[s] PROVE agent[a] = "degraded"
        <4>1. a \in Agents
          BY <3>3, <3>4, TeamConstants
        <4>2. CASE agent[a] = "up"
          <5>1. ~(ActiveLoad(a) > 0) /\ ~(ActiveLoad(a) < MaxConcurrency)
            BY <2>1, <3>0, <3>2, <3>4, <4>1, <4>2 DEF Available
          <5>2. ActiveLoad(a) \in {0, 1}
            BY LoadOfAgent DEF LeaseInv
          <5> QED BY <5>1, <5>2 DEF MaxConcurrency
        <4> QED BY <4>1, <4>2 DEF TypeInv, FactType
      <3> QED BY <3>0, <3>4
    <2> QED BY <2>0, <2>1, <2>2, <2>3, <2>4, <2>5 DEF SupervisorOf, Settled
  <1> QED BY <1>1, PlansCorrect, WakeUpsKept, PTL

===========================================================================
