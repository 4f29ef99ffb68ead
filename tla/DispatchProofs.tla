--------------------------- MODULE DispatchProofs ---------------------------
(* Theorems about Dispatch, for every set of processes, deliveries, agent  *)
(* runs, workers and runs, every capacity and every bound.                 *)
EXTENDS Dispatch, FiniteSetTheorems, TLAPS

-----------------------------------------------------------------------------
(* The claim table.                                                        *)

(* The keys of a dispatch are keys of the table.                           *)
LEMMA ClaimKeysInTable ==
    ASSUME NEW d \in Deliveries, NEW s \in Slots(d)
    PROVE  ClaimKeys(d, s) \subseteq Keys
  BY DEF Keys

(* Every delivery has a first slot, hence its own key and that of its      *)
(* agent run are in the table.                                             *)
LEMMA KeysOfDelivery ==
    ASSUME NEW d \in Deliveries
    PROVE  DeliveryKey(d) \in Keys /\ AgentRunKey(d) \in Keys
  <1>1. WorkerOf[d] \in Workers /\ Capacity[WorkerOf[d]] \in Nat \ {0}
    BY ClaimConstants
  <1>2. 0 \in Slots(d)
    BY <1>1 DEF Slots
  <1>3. ClaimKeys(d, 0) \subseteq Keys
    BY <1>2, ClaimKeysInTable
  <1> QED BY <1>3 DEF ClaimKeys

(* The empty row of the initial table.                                     *)
LEMMA NoRowIsRow == NoRow \in Rows
  BY DEF NoRow, Rows, RowStates

(* The updates of the table keep it a table of rows.                       *)
LEMMA ClaimIsTable ==
    ASSUME ClaimType, NEW p \in Procs, NEW d \in Deliveries,
           NEW s \in Slots(d), Claim(p, d, s)
    PROVE  ClaimType'
  <1>1. DeliveryKey(d) \in Keys
    BY KeysOfDelivery
  <1>2. claim[DeliveryKey(d)].token + 1 \in Nat
    BY <1>1 DEF ClaimType, Rows
  <1>3. \A k \in Keys : claim[k].token + 1 \in Nat
    BY DEF ClaimType, Rows
  <1>4. <<d, claim[DeliveryKey(d)].token + 1>> \in (Deliveries \cup {None}) \X Nat
    BY <1>2
  <1> DEFINE row(k) == [owner  |-> p,
                        token  |-> claim[k].token + 1,
                        state  |-> "active",
                        live   |-> TRUE,
                        bundle |-> <<d, claim[DeliveryKey(d)].token + 1>>]
  <1>5. \A k \in Keys : row(k) \in Rows
    BY <1>3, <1>4 DEF Rows, RowStates
  <1>6. claim' = [k \in Keys |-> IF k \in ClaimKeys(d, s) THEN row(k) ELSE claim[k]]
    BY DEF Claim
  <1> HIDE DEF row
  <1> QED BY <1>5, <1>6 DEF ClaimType

(* finish_work_claims keeps the table a table of rows.                     *)
LEMMA FinishIsTable ==
    ASSUME ClaimType, NEW claims, NEW state \in RowStates, Finish(claims, state)
    PROVE  ClaimType'
  BY DEF ClaimType, Finish, Rows

(* fail_work_claim_bundle keeps the table a table of rows.                 *)
LEMMA FailBundleIsTable ==
    ASSUME ClaimType, NEW d \in Deliveries, FailBundle(d)
    PROVE  ClaimType'
  BY DEF ClaimType, FailBundle, Rows, RowStates

(* A deadline that passes keeps the table a table of rows.                 *)
LEMMA ExpireBundleIsTable ==
    ASSUME ClaimType, NEW d \in Deliveries, ExpireBundle(d)
    PROVE  ClaimType'
  BY DEF ClaimType, ExpireBundle, Rows

(* Every delivery belongs to a run.                                        *)
LEMMA RunOfDelivery == ASSUME NEW d \in Deliveries PROVE RunOf(d) \in Runs
  BY ClaimConstants, DispatchConstants DEF RunOf

(* _project_event keeps the status of a run a status.                      *)
LEMMA ProjectRunType ==
    ASSUME NEW s \in RunStates, NEW e PROVE ProjectRun(s, e) \in RunStates
  BY DEF ProjectRun, RunStates, Terminal

(* A reservation whose claims are current holds the key of its agent run.  *)
LEMMA HoldsAgentRun ==
    ASSUME TypeOK, NEW p \in Procs, NEW d \in Deliveries, Holds(p, d)
    PROVE  /\ AgentRunKey(d) \in DOMAIN held[p][d]
           /\ held[p][d][AgentRunKey(d)] \in Nat
  <1>1. IsBundle(held[p][d], d) /\ DOMAIN held[p][d] # {}
    BY DEF TypeOK, HeldType, Holds, Current
  <1>2. PICK s \in Slots(d) : held[p][d] \in [ClaimKeys(d, s) -> Nat]
    BY <1>1 DEF IsBundle, NoClaims
  <1> QED BY <1>2 DEF ClaimKeys

-----------------------------------------------------------------------------
(* Type correctness.  Each part of TypeOK survives the steps that leave    *)
(* its variables alone, so the lemma of an action has one step for each    *)
(* part that the action changes.                                           *)

(* A step that does not write the claim table keeps its shape.             *)
LEMMA ClaimFrame == ASSUME ClaimType, UNCHANGED claim PROVE ClaimType'
  BY DEF ClaimType

(* A step that appends no fact keeps the shape of the facts.               *)
LEMMA FactFrame == ASSUME FactType, UNCHANGED factVars PROVE FactType'
  BY DEF FactType, factVars

(* A step outside create_checkpoint keeps the shape of its state.          *)
LEMMA CkptFrame == ASSUME CkptType, UNCHANGED ckptVars PROVE CkptType'
  BY DEF CkptType, ckptVars

(* A step of a thread keeps the shape of the memory of the processes.      *)
LEMMA ProcFrame ==
    ASSUME ProcType, UNCHANGED <<up, scan, denied, routed, sweep>> PROVE ProcType'
  BY DEF ProcType

(* Only the renewer changes its copy of the reservations.                  *)
LEMMA RenewFrame == ASSUME RenewType, UNCHANGED renewing PROVE RenewType'
  BY DEF RenewType

(* Claims are held and dropped only with their reservation.                *)
LEMMA HeldFrame == ASSUME HeldType, UNCHANGED held PROVE HeldType'
  BY DEF HeldType

(* A step outside _execute_reserved keeps the shape of the threads.        *)
LEMMA ThreadFrame ==
    ASSUME ThreadType, UNCHANGED <<pc, ctx, lost, attempt>> PROVE ThreadType'
  BY DEF ThreadType

(* A step without a fenced write or a fault keeps the history.             *)
LEMMA HistFrame == ASSUME HistType, UNCHANGED histVars PROVE HistType'
  BY DEF HistType, histVars

(* The sweep of a process that cancels and fails no run.                   *)
LEMMA IdleSweepType == IdleSweep \in Sweeps /\ IdleSweep.mode = "none"
  BY DEF IdleSweep, Sweeps, SweepModes

(* A new sweep that names its run keeps the shape of the processes.        *)
LEMMA SweepUpdate ==
    ASSUME ProcType, NEW p \in Procs, NEW s \in Sweeps,
           s.mode = "none" \/ s.run \in Runs,
           sweep' = [sweep EXCEPT ![p] = s],
           UNCHANGED <<up, scan, denied, routed>>
    PROVE  ProcType'
  <1>1. sweep' \in [Procs -> Sweeps]
    BY DEF ProcType
  <1>2. \A q \in Procs : sweep'[q].mode # "none" => sweep'[q].run \in Runs
    BY DEF ProcType
  <1> QED BY <1>1, <1>2 DEF ProcType

(* A thread that goes to a label is at a label.                            *)
LEMMA GotoPCs ==
    ASSUME ThreadType, NEW p \in Procs, NEW d \in Deliveries, NEW l \in PCs,
           Goto(p, d, l)
    PROVE  pc' \in [Procs -> [Deliveries -> PCs]]
  BY DEF ThreadType, Goto

(* The renewer giving up a reservation keeps the shape of the threads.     *)
LEMMA LoseType ==
    ASSUME ThreadType, NEW p \in Procs, NEW d \in Deliveries, Lose(p, d),
           UNCHANGED <<pc, attempt>>
    PROVE  ThreadType'
  <1>1. lost' \in [Procs -> [Deliveries -> BOOLEAN]]
    BY DEF ThreadType, Lose
  <1>2. ctx[p][d] \in {"none", "run", "renewal"}
    BY DEF ThreadType
  <1>3. ctx' \in [Procs -> [Deliveries -> {"none", "run", "renewal"}]]
    <2> DEFINE c == IF held[p][d] = renewing[p][d] /\ ctx[p][d] = "none"
                    THEN "renewal" ELSE ctx[p][d]
    <2>1. ctx' = [ctx EXCEPT ![p][d] = c]
      BY DEF Lose
    <2>2. c \in {"none", "run", "renewal"}
      BY <1>2
    <2> HIDE DEF c
    <2> QED BY <2>1, <2>2 DEF ThreadType
  <1> QED BY <1>1, <1>3 DEF ThreadType

(* The number of deliveries sent, from which send takes its position.      *)
LEMMA CardSent == Cardinality({ e \in Deliveries : sentAt[e] > 0 }) \in Nat
  <1>1. IsFiniteSet({ e \in Deliveries : sentAt[e] > 0 })
    BY ClaimConstants, FS_Subset
  <1> QED BY <1>1, FS_CardinalityType

(* The parts of TypeOK whose variables a step leaves alone.                *)
LEMMA Frame ==
    ASSUME TypeOK
    PROVE  /\ UNCHANGED claim => ClaimType'
           /\ UNCHANGED factVars => FactType'
           /\ UNCHANGED ckptVars => CkptType'
           /\ UNCHANGED <<up, scan, denied, routed, sweep>> => ProcType'
           /\ UNCHANGED renewing => RenewType'
           /\ UNCHANGED held => HeldType'
           /\ UNCHANGED <<pc, ctx, lost, attempt>> => ThreadType'
           /\ UNCHANGED histVars => HistType'
  BY ClaimFrame, FactFrame, CkptFrame, ProcFrame, RenewFrame, HeldFrame,
     ThreadFrame, HistFrame DEF TypeOK

USE DEF factVars, ckptVars, procVars, thrVars, histVars, sweepFrame, ckptFrame

(* Send keeps the type invariant.                                          *)
LEMMA SendKeepsType ==
    ASSUME TypeOK, NEW d \in Deliveries, Send(d)
    PROVE  TypeOK'
  <1> USE DEF TypeOK
  <1>1. FactType'
    BY CardSent DEF Send, FactType
  <1> QED BY <1>1, Frame DEF Send

(* Visit keeps the type invariant.                                         *)
LEMMA VisitKeepsType ==
    ASSUME TypeOK, NEW p \in Procs, Visit(p)
    PROVE  TypeOK'
  <1> USE DEF TypeOK
  <1>1. ProcType'
    BY DEF Visit, ProcType, Scans, Mail, Pending
  <1> QED BY <1>1, Frame DEF Visit

(* EndScan keeps the type invariant.                                       *)
LEMMA EndScanKeepsType ==
    ASSUME TypeOK, NEW p \in Procs, EndScan(p)
    PROVE  TypeOK'
  <1> USE DEF TypeOK
  <1>1. ProcType'
    BY DEF EndScan, ProcType, Scans, IdleScan
  <1> QED BY <1>1, Frame DEF EndScan

(* SkipDelivery keeps the type invariant.                                  *)
LEMMA SkipDeliveryKeepsType ==
    ASSUME TypeOK, NEW p \in Procs, SkipDelivery(p)
    PROVE  TypeOK'
  <1> USE DEF TypeOK
  <1>1. ProcType'
    BY DEF SkipDelivery, ProcType, Scans, NextOff
  <1> QED BY <1>1, Frame DEF SkipDelivery

(* NextSlot keeps the type invariant.                                      *)
LEMMA NextSlotKeepsType ==
    ASSUME TypeOK, NEW p \in Procs, NextSlot(p)
    PROVE  TypeOK'
  <1> USE DEF TypeOK
  <1>1. ProcType'
    BY DEF NextSlot, ProcType, Scans
  <1> QED BY <1>1, Frame DEF NextSlot

(* Reserve keeps the type invariant.                                       *)
LEMMA ReserveKeepsType ==
    ASSUME TypeOK, NEW p \in Procs, NEW d \in Deliveries, Reserve(p, d)
    PROVE  TypeOK'
  <1> USE DEF TypeOK
  <1>1. ClaimType'
    BY ClaimIsTable DEF Reserve, Admitted
  <1>2. ProcType'
    BY DispatchConstants DEF Reserve, ProcType, Scans, IdleScan
  <1>3. HeldType'
    <2>1. scan[p].slot \in Slots(d)
      BY DEF Reserve, Admitted
    <2>2. \A k \in ClaimKeys(d, scan[p].slot) : claim[k].token + 1 \in Nat
      BY <2>1, ClaimKeysInTable DEF ClaimType, Rows
    <2>3. NextTokens(d, scan[p].slot) \in [ClaimKeys(d, scan[p].slot) -> Nat]
      BY <2>2 DEF NextTokens
    <2>4. IsBundle(NextTokens(d, scan[p].slot), d)
      BY <2>1, <2>3 DEF IsBundle
    <2>5. held' = [held EXCEPT ![p][d] = NextTokens(d, scan[p].slot)]
      BY DEF Reserve
    <2> HIDE DEF TypeOK
    <2> QED BY <2>4, <2>5, TypeOK DEF HeldType, TypeOK
  <1>4. ThreadType'
    BY DEF Reserve, ThreadType, PCs
  <1> QED BY <1>1, <1>2, <1>3, <1>4, Frame DEF Reserve

(* ReadAttempt keeps the type invariant.                                   *)
LEMMA ReadAttemptKeepsType ==
    ASSUME TypeOK, NEW p \in Procs, NEW d \in Deliveries, ReadAttempt(p, d)
    PROVE  TypeOK'
  <1> USE DEF TypeOK
  <1>1. ThreadType'
    BY DEF ReadAttempt, Goto, ThreadType, PCs, FactType
  <1> QED BY <1>1, Frame DEF ReadAttempt

(* RecordDispatch keeps the type invariant.                                *)
LEMMA RecordDispatchKeepsType ==
    ASSUME TypeOK, NEW p \in Procs, NEW d \in Deliveries, RecordDispatch(p, d)
    PROVE  TypeOK'
  <1> USE DEF TypeOK
  <1>1. FactType'
    BY DEF RecordDispatch, FactType, ThreadType
  <1>2. ThreadType'
    <2>1. \E l \in PCs : Goto(p, d, l)
      BY DEF RecordDispatch, PCs
    <2>2. pc' \in [Procs -> [Deliveries -> PCs]]
      BY <2>1, GotoPCs
    <2> QED BY <2>2 DEF RecordDispatch, ThreadType
  <1> QED BY <1>1, <1>2, Frame DEF RecordDispatch

(* CloseDeadLetter keeps the type invariant.                               *)
LEMMA CloseDeadLetterKeepsType ==
    ASSUME TypeOK, NEW p \in Procs, NEW d \in Deliveries, CloseDeadLetter(p, d)
    PROVE  TypeOK'
  <1> USE DEF TypeOK
  <1>1. FactType'
    BY RunOfDelivery, ProjectRunType DEF CloseDeadLetter, FactType
  <1>2. ThreadType'
    BY DEF CloseDeadLetter, Goto, ThreadType, PCs
  <1> QED BY <1>1, <1>2, Frame DEF CloseDeadLetter

(* HandlerWrite keeps the type invariant.                                  *)
LEMMA HandlerWriteKeepsType ==
    ASSUME TypeOK, NEW p \in Procs, NEW d \in Deliveries, NEW e, HandlerWrite(p, d, e)
    PROVE  TypeOK'
  <1> USE DEF TypeOK
  <1>1. FactType'
    BY RunOfDelivery DEF HandlerWrite, FactType
  <1>2. HistType'
    BY HoldsAgentRun DEF HandlerWrite, HistType, Writable
  <1> QED BY <1>1, <1>2, Frame DEF HandlerWrite

(* BeginCommit keeps the type invariant.                                   *)
LEMMA BeginCommitKeepsType ==
    ASSUME TypeOK, NEW p \in Procs, NEW d \in Deliveries, BeginCommit(p, d)
    PROVE  TypeOK'
  <1> USE DEF TypeOK
  <1>1. ThreadType'
    BY DEF BeginCommit, Goto, ThreadType, PCs
  <1>2. HistType'
    BY HoldsAgentRun DEF BeginCommit, HistType, Writable
  <1> QED BY <1>1, <1>2, Frame DEF BeginCommit

(* Commit keeps the type invariant.                                        *)
LEMMA CommitKeepsType ==
    ASSUME TypeOK, NEW p \in Procs, NEW d \in Deliveries, NEW e, Commit(p, d, e)
    PROVE  TypeOK'
  <1> USE DEF TypeOK
  <1>1. FactType'
    BY RunOfDelivery, ProjectRunType DEF Commit, FactType
  <1>2. ThreadType'
    BY DEF Commit, Goto, ThreadType, PCs
  <1>3. HistType'
    BY HoldsAgentRun DEF Commit, HistType, Committable
  <1> QED BY <1>1, <1>2, <1>3, Frame DEF Commit

(* HandlerFenced keeps the type invariant.                                 *)
LEMMA HandlerFencedKeepsType ==
    ASSUME TypeOK, NEW p \in Procs, NEW d \in Deliveries, HandlerFenced(p, d)
    PROVE  TypeOK'
  <1> USE DEF TypeOK
  <1>1. ThreadType'
    BY DEF HandlerFenced, Goto, ThreadType, PCs
  <1> QED BY <1>1, Frame DEF HandlerFenced

(* HandlerReturn keeps the type invariant.                                 *)
LEMMA HandlerReturnKeepsType ==
    ASSUME TypeOK, NEW p \in Procs, NEW d \in Deliveries, HandlerReturn(p, d)
    PROVE  TypeOK'
  <1> USE DEF TypeOK
  <1>1. ThreadType'
    BY DEF HandlerReturn, Goto, ThreadType, PCs
  <1> QED BY <1>1, Frame DEF HandlerReturn

(* HandlerInjectedCrash keeps the type invariant.                          *)
LEMMA HandlerInjectedCrashKeepsType ==
    ASSUME TypeOK, NEW p \in Procs, NEW d \in Deliveries, HandlerInjectedCrash(p, d)
    PROVE  TypeOK'
  <1> USE DEF TypeOK
  <1>1. ThreadType'
    BY DEF HandlerInjectedCrash, Goto, ThreadType, PCs
  <1>2. HistType'
    BY DispatchConstants DEF HandlerInjectedCrash, HistType
  <1> QED BY <1>1, <1>2, Frame DEF HandlerInjectedCrash

(* HandlerFails keeps the type invariant.                                  *)
LEMMA HandlerFailsKeepsType ==
    ASSUME TypeOK, NEW p \in Procs, NEW d \in Deliveries, HandlerFails(p, d)
    PROVE  TypeOK'
  <1> USE DEF TypeOK
  <1>1. FactType'
    BY DEF HandlerFails, FactType
  <1>2. ThreadType'
    BY DEF HandlerFails, Goto, ThreadType, PCs
  <1> QED BY <1>1, <1>2, Frame DEF HandlerFails

(* DeadLetter keeps the type invariant.                                    *)
LEMMA DeadLetterKeepsType ==
    ASSUME TypeOK, NEW p \in Procs, NEW d \in Deliveries, DeadLetter(p, d)
    PROVE  TypeOK'
  <1> USE DEF TypeOK
  <1>1. FactType'
    BY DEF DeadLetter, FactType
  <1>2. ThreadType'
    <2>1. \E l \in PCs : Goto(p, d, l)
      BY DEF DeadLetter, PCs
    <2>2. pc' \in [Procs -> [Deliveries -> PCs]]
      BY <2>1, GotoPCs
    <2> QED BY <2>2 DEF DeadLetter, ThreadType
  <1> QED BY <1>1, <1>2, Frame DEF DeadLetter

(* FailRunForDeadLetter keeps the type invariant.                          *)
LEMMA FailRunForDeadLetterKeepsType ==
    ASSUME TypeOK, NEW p \in Procs, NEW d \in Deliveries, FailRunForDeadLetter(p, d)
    PROVE  TypeOK'
  <1> USE DEF TypeOK
  <1>1. FactType'
    BY RunOfDelivery, ProjectRunType DEF FailRunForDeadLetter, FactType
  <1>2. ThreadType'
    <2>1. \E l \in PCs : Goto(p, d, l)
      BY DEF FailRunForDeadLetter, PCs
    <2>2. pc' \in [Procs -> [Deliveries -> PCs]]
      BY <2>1, GotoPCs
    <2> QED BY <2>2 DEF FailRunForDeadLetter, ThreadType
  <1> QED BY <1>1, <1>2, Frame DEF FailRunForDeadLetter

(* Ack keeps the type invariant.                                           *)
LEMMA AckKeepsType ==
    ASSUME TypeOK, NEW p \in Procs, NEW d \in Deliveries, Ack(p, d)
    PROVE  TypeOK'
  <1> USE DEF TypeOK
  <1>1. ClaimType'
    BY FinishIsTable, ClaimFrame DEF Ack, RowStates
  <1>2. FactType'
    BY DEF Ack, FactType
  <1>3. ThreadType'
    <2>1. \E l \in PCs : Goto(p, d, l)
      BY DEF Ack, PCs
    <2>2. pc' \in [Procs -> [Deliveries -> PCs]]
      BY <2>1, GotoPCs
    <2> QED BY <2>2 DEF Ack, ThreadType
  <1> QED BY <1>1, <1>2, <1>3, Frame DEF Ack

(* Release keeps the type invariant.                                       *)
LEMMA ReleaseKeepsType ==
    ASSUME TypeOK, NEW p \in Procs, NEW d \in Deliveries, Release(p, d)
    PROVE  TypeOK'
  <1> USE DEF TypeOK
  <1>1. ClaimType'
    BY FinishIsTable, ClaimFrame DEF Release, RowStates
  <1>2. ThreadType'
    BY DEF Release, Goto, ThreadType, PCs
  <1> QED BY <1>1, <1>2, Frame DEF Release

(* PopReservation keeps the type invariant.                                *)
LEMMA PopReservationKeepsType ==
    ASSUME TypeOK, NEW p \in Procs, NEW d \in Deliveries, PopReservation(p, d)
    PROVE  TypeOK'
  <1> USE DEF TypeOK
  <1>1. HeldType'
    BY DEF PopReservation, HeldType, IsBundle
  <1>2. ThreadType'
    BY DEF PopReservation, Goto, ThreadType, PCs
  <1> QED BY <1>1, <1>2, Frame DEF PopReservation

(* RenewSnapshot keeps the type invariant.                                 *)
LEMMA RenewSnapshotKeepsType ==
    ASSUME TypeOK, NEW p \in Procs, RenewSnapshot(p)
    PROVE  TypeOK'
  <1> USE DEF TypeOK
  <1>1. RenewType'
    BY DEF RenewSnapshot, RenewType, HeldType, IsBundle
  <1> QED BY <1>1, Frame DEF RenewSnapshot

(* Renew keeps the type invariant.                                         *)
LEMMA RenewKeepsType ==
    ASSUME TypeOK, NEW p \in Procs, NEW d \in Deliveries, Renew(p, d)
    PROVE  TypeOK'
  <1> USE DEF TypeOK
  <1>1. RenewType'
    BY DEF Renew, Renewed, RenewType, IsBundle
  <1>2. ThreadType'
    BY LoseType, ThreadFrame DEF Renew
  <1> QED BY <1>1, <1>2, Frame DEF Renew

(* RenewUnconfirmed keeps the type invariant.                              *)
LEMMA RenewUnconfirmedKeepsType ==
    ASSUME TypeOK, NEW p \in Procs, NEW d \in Deliveries, RenewUnconfirmed(p, d)
    PROVE  TypeOK'
  <1> USE DEF TypeOK
  <1>1. RenewType'
    BY DEF RenewUnconfirmed, Renewed, RenewType, IsBundle
  <1>2. ThreadType'
    BY LoseType, ThreadFrame DEF RenewUnconfirmed
  <1>3. HistType'
    BY DispatchConstants DEF RenewUnconfirmed, HistType
  <1> QED BY <1>1, <1>2, <1>3, Frame DEF RenewUnconfirmed

(* Expire keeps the type invariant.                                        *)
LEMMA ExpireKeepsType ==
    ASSUME TypeOK, NEW d \in Deliveries, Expire(d)
    PROVE  TypeOK'
  <1> USE DEF TypeOK
  <1>1. ClaimType'
    BY ExpireBundleIsTable DEF Expire
  <1>2. HistType'
    BY DispatchConstants DEF Expire, HistType
  <1> QED BY <1>1, <1>2, Frame DEF Expire

(* Crash keeps the type invariant.                                         *)
LEMMA CrashKeepsType ==
    ASSUME TypeOK, NEW p \in Procs, Crash(p)
    PROVE  TypeOK'
  <1> USE DEF TypeOK
  <1>1. ProcType'
    BY DEF Crash, ProcType, Scans, IdleScan, Sweeps, IdleSweep, SweepModes
  <1>2. RenewType'
    BY DEF Crash, RenewType, NoSnapshot, IsBundle
  <1>3. HeldType'
    BY DEF Crash, HeldType, IsBundle
  <1>4. ThreadType'
    BY DEF Crash, ThreadType, PCs
  <1> QED BY <1>1, <1>2, <1>3, <1>4, Frame DEF Crash

(* RequestCancel keeps the type invariant.                                 *)
LEMMA RequestCancelKeepsType ==
    ASSUME TypeOK, NEW p \in Procs, NEW r \in Runs, RequestCancel(p, r)
    PROVE  TypeOK'
  <1> USE DEF TypeOK
  <1>1. ProcType'
    BY DEF RequestCancel, ProcType, Sweeps, IdleSweep, SweepModes, sweepFrame
  <1> QED BY <1>1, Frame DEF RequestCancel

(* RecordCancel keeps the type invariant.                                  *)
LEMMA RecordCancelKeepsType ==
    ASSUME TypeOK, NEW p \in Procs, RecordCancel(p)
    PROVE  TypeOK'
  <1> USE DEF TypeOK
  <1>1. FactType'
    BY ProjectRunType DEF RecordCancel, FactType, ProcType
  <1>2. ProcType'
    BY DEF RecordCancel, ProcType, Sweeps, SweepModes, sweepFrame
  <1> QED BY <1>1, <1>2, Frame DEF RecordCancel

(* Reconcile keeps the type invariant.                                     *)
LEMMA ReconcileKeepsType ==
    ASSUME TypeOK, NEW p \in Procs, NEW r \in Runs, Reconcile(p, r)
    PROVE  TypeOK'
  <1> USE DEF TypeOK
  <1>1. ProcType'
    BY DEF Reconcile, ProcType, Sweeps, IdleSweep, SweepModes, sweepFrame
  <1> QED BY <1>1, Frame DEF Reconcile

(* RouteFailure keeps the type invariant.                                  *)
LEMMA RouteFailureKeepsType ==
    ASSUME TypeOK, NEW p \in Procs, NEW r \in Runs, RouteFailure(p, r)
    PROVE  TypeOK'
  <1> USE DEF TypeOK
  <1>1. ProcType'
    BY DEF RouteFailure, ProcType, Sweeps, IdleSweep, SweepModes
  <1> QED BY <1>1, Frame DEF RouteFailure

(* DenyRun keeps the type invariant.                                       *)
LEMMA DenyRunKeepsType ==
    ASSUME TypeOK, NEW p \in Procs, DenyRun(p)
    PROVE  TypeOK'
  <1> USE DEF TypeOK
  <1>1. ProcType'
    BY DEF DenyRun, ProcType, Sweeps, SweepModes
  <1>2. ThreadType'
    BY DEF DenyRun, ThreadType
  <1> QED BY <1>1, <1>2, Frame DEF DenyRun

(* SweepMailbox keeps the type invariant.                                  *)
LEMMA SweepMailboxKeepsType ==
    ASSUME TypeOK, NEW p \in Procs, SweepMailbox(p)
    PROVE  TypeOK'
  <1> USE DEF TypeOK
  <1>1. ProcType'
    <2>1. PICK i \in sweep[p].at + 1 .. Len(WorkerSeq) :
               sweep' = [sweep EXCEPT ![p].at = i, ![p].todo = RunMail(p, i)]
      BY DEF SweepMailbox
    <2>2. i \in Nat /\ RunMail(p, i) \in SUBSET Deliveries
      BY DispatchConstants DEF ProcType, Sweeps, RunMail, Mail, Pending
    <2>3. /\ sweep[p] \in Sweeps /\ sweep[p].run \in Runs
          /\ UNCHANGED <<up, scan, denied, routed>>
      BY DEF SweepMailbox, ProcType, sweepFrame
    <2> DEFINE s == [sweep[p] EXCEPT !.at = i, !.todo = RunMail(p, i)]
    <2>4. s \in Sweeps /\ s.run \in Runs
      BY <2>2, <2>3 DEF Sweeps
    <2>5. sweep' = [sweep EXCEPT ![p] = s]
      BY <2>1
    <2> HIDE DEF s
    <2> QED BY <2>3, <2>4, <2>5, SweepUpdate
  <1> QED BY <1>1, Frame DEF SweepMailbox

(* CancelDelivery keeps the type invariant.                                *)
LEMMA CancelDeliveryKeepsType ==
    ASSUME TypeOK, NEW p \in Procs, CancelDelivery(p)
    PROVE  TypeOK'
  <1> USE DEF TypeOK
  <1>1. FactType'
    BY DEF CancelDelivery, FactType, UnfencedAck
  <1>2. ProcType'
    BY DEF CancelDelivery, ProcType, Sweeps, sweepFrame
  <1> QED BY <1>1, <1>2, Frame DEF CancelDelivery

(* FenceDelivery keeps the type invariant.                                 *)
LEMMA FenceDeliveryKeepsType ==
    ASSUME TypeOK, NEW p \in Procs, FenceDelivery(p)
    PROVE  TypeOK'
  <1> USE DEF TypeOK
  <1>1. ClaimType'
    BY FailBundleIsTable, ClaimFrame DEF FenceDelivery
  <1>2. ProcType'
    BY DEF FenceDelivery, ProcType, Sweeps, sweepFrame
  <1> QED BY <1>1, <1>2, Frame DEF FenceDelivery

(* DropDelivery keeps the type invariant.                                  *)
LEMMA DropDeliveryKeepsType ==
    ASSUME TypeOK, NEW p \in Procs, DropDelivery(p)
    PROVE  TypeOK'
  <1> USE DEF TypeOK
  <1>1. FactType'
    BY DEF DropDelivery, FactType, UnfencedAck
  <1>2. ProcType'
    BY DEF DropDelivery, ProcType, Sweeps, sweepFrame
  <1> QED BY <1>1, <1>2, Frame DEF DropDelivery

(* EndSweep keeps the type invariant.                                      *)
LEMMA EndSweepKeepsType ==
    ASSUME TypeOK, NEW p \in Procs, EndSweep(p)
    PROVE  TypeOK'
  <1> USE DEF TypeOK
  <1>1. ProcType'
    <2>1. /\ sweep[p] \in Sweeps /\ sweep[p].run \in Runs
          /\ UNCHANGED <<up, scan, denied, routed>>
      BY DEF EndSweep, ProcType, sweepFrame
    <2>2. CASE sweep' = [sweep EXCEPT ![p].mode = "closeFailed"]
      <3> DEFINE s == [sweep[p] EXCEPT !.mode = "closeFailed"]
      <3>1. s \in Sweeps /\ s.run \in Runs
        BY <2>1 DEF Sweeps, SweepModes
      <3>2. sweep' = [sweep EXCEPT ![p] = s]
        BY <2>2
      <3> HIDE DEF s
      <3> QED BY <2>1, <3>1, <3>2, SweepUpdate
    <2>3. CASE sweep' = [sweep EXCEPT ![p].mode = "closeCancelled"]
      <3> DEFINE s == [sweep[p] EXCEPT !.mode = "closeCancelled"]
      <3>1. s \in Sweeps /\ s.run \in Runs
        BY <2>1 DEF Sweeps, SweepModes
      <3>2. sweep' = [sweep EXCEPT ![p] = s]
        BY <2>3
      <3> HIDE DEF s
      <3> QED BY <2>1, <3>1, <3>2, SweepUpdate
    <2>4. CASE sweep' = [sweep EXCEPT ![p] = IdleSweep]
      BY <2>1, <2>4, IdleSweepType, SweepUpdate
    <2> QED BY <2>2, <2>3, <2>4 DEF EndSweep
  <1> QED BY <1>1, Frame DEF EndSweep

(* CloseRun keeps the type invariant.                                      *)
LEMMA CloseRunKeepsType ==
    ASSUME TypeOK, NEW p \in Procs, CloseRun(p)
    PROVE  TypeOK'
  <1> USE DEF TypeOK
  <1>1. FactType'
    BY ProjectRunType DEF CloseRun, FactType, ProcType
  <1>2. ProcType'
    BY DEF CloseRun, ProcType, Sweeps, IdleSweep, SweepModes, sweepFrame
  <1> QED BY <1>1, <1>2, Frame DEF CloseRun

(* AcquireBarrier keeps the type invariant.                                *)
LEMMA AcquireBarrierKeepsType ==
    ASSUME TypeOK, NEW c \in Ckpts, AcquireBarrier(c)
    PROVE  TypeOK'
  <1> USE DEF TypeOK
  <1>1. CkptType'
    BY DispatchConstants DEF AcquireBarrier, CkptType
  <1> QED BY <1>1, Frame DEF AcquireBarrier

(* Quiesce keeps the type invariant.                                       *)
LEMMA QuiesceKeepsType ==
    ASSUME TypeOK, NEW c \in Ckpts, Quiesce(c)
    PROVE  TypeOK'
  <1> USE DEF TypeOK
  <1>1. CkptType'
    BY DEF Quiesce, CkptType
  <1> QED BY <1>1, Frame DEF Quiesce

(* ReleaseBarrier keeps the type invariant.                                *)
LEMMA ReleaseBarrierKeepsType ==
    ASSUME TypeOK, NEW c \in Ckpts, ReleaseBarrier(c)
    PROVE  TypeOK'
  <1> USE DEF TypeOK
  <1>1. CkptType'
    BY DispatchConstants DEF ReleaseBarrier, CkptType
  <1> QED BY <1>1, Frame DEF ReleaseBarrier

(* The actions of Dispatcher, together.                                    *)
LEMMA DispatcherKeepsType ==
    ASSUME TypeOK, NEW p \in Procs, Dispatcher(p) PROVE TypeOK'
  BY VisitKeepsType, EndScanKeepsType, SkipDeliveryKeepsType,
     NextSlotKeepsType, ReserveKeepsType
     DEF Dispatcher

(* The actions of ThreadStep, together.                                    *)
LEMMA ThreadStepKeepsType ==
    ASSUME TypeOK, NEW p \in Procs, NEW d \in Deliveries, ThreadStep(p, d) PROVE TypeOK'
  BY ReadAttemptKeepsType, RecordDispatchKeepsType,
     CloseDeadLetterKeepsType, CommitKeepsType, HandlerFencedKeepsType,
     HandlerReturnKeepsType, DeadLetterKeepsType,
     FailRunForDeadLetterKeepsType, AckKeepsType, ReleaseKeepsType,
     PopReservationKeepsType
     DEF ThreadStep

(* The actions of HandlerChoice, together.                                 *)
LEMMA HandlerChoiceKeepsType ==
    ASSUME TypeOK, NEW p \in Procs, NEW d \in Deliveries, HandlerChoice(p, d) PROVE TypeOK'
  BY HandlerWriteKeepsType, BeginCommitKeepsType,
     HandlerInjectedCrashKeepsType, HandlerFailsKeepsType
     DEF HandlerChoice

(* The actions of Renewer, together.                                       *)
LEMMA RenewerKeepsType ==
    ASSUME TypeOK, NEW p \in Procs, Renewer(p) PROVE TypeOK'
  BY RenewSnapshotKeepsType, RenewKeepsType, RenewUnconfirmedKeepsType
     DEF Renewer

(* The actions of Sweeper, together.                                       *)
LEMMA SweeperKeepsType ==
    ASSUME TypeOK, NEW p \in Procs, Sweeper(p) PROVE TypeOK'
  BY ReconcileKeepsType, RouteFailureKeepsType, RecordCancelKeepsType,
     DenyRunKeepsType, SweepMailboxKeepsType, CancelDeliveryKeepsType,
     FenceDeliveryKeepsType, DropDeliveryKeepsType, EndSweepKeepsType,
     CloseRunKeepsType
     DEF Sweeper

(* LoseRequest keeps the type invariant.                                   *)
LEMMA LoseRequestKeepsType ==
    ASSUME TypeOK, NEW c \in Ckpts, LoseRequest(c)
    PROVE  TypeOK'
  <1> USE DEF TypeOK
  <1>1. CkptType'
    BY DEF LoseRequest, CkptType
  <1> QED BY <1>1, Frame DEF LoseRequest

(* ExpireBarrier keeps the type invariant.                                 *)
LEMMA ExpireBarrierKeepsType ==
    ASSUME TypeOK, NEW c \in Ckpts, ExpireBarrier(c)
    PROVE  TypeOK'
  <1> USE DEF TypeOK
  <1>1. CkptType'
    BY DispatchConstants DEF ExpireBarrier, CkptType
  <1> QED BY <1>1, Frame DEF ExpireBarrier

(* The actions of Checkpoint, together.                                    *)
LEMMA CheckpointKeepsType ==
    ASSUME TypeOK, NEW c \in Ckpts, Checkpoint(c) PROVE TypeOK'
  BY AcquireBarrierKeepsType, QuiesceKeepsType, ReleaseBarrierKeepsType,
     LoseRequestKeepsType, ExpireBarrierKeepsType
     DEF Checkpoint

(* No step of the scheduler leaves the shape of the state.                 *)
LEMMA NextKeepsType == ASSUME TypeOK, [Next]_vars PROVE TypeOK'
  <1>1. CASE UNCHANGED vars
    BY <1>1, Frame DEF vars, TypeOK
  <1>2. ASSUME NEW d \in Deliveries, Send(d) \/ Expire(d) PROVE TypeOK'
    BY <1>2, SendKeepsType, ExpireKeepsType
  <1>3. ASSUME NEW p \in Procs,
               Dispatcher(p) \/ Renewer(p) \/ Sweeper(p) \/ Crash(p)
        PROVE  TypeOK'
    BY <1>3, DispatcherKeepsType, RenewerKeepsType, SweeperKeepsType,
       CrashKeepsType
  <1>4. ASSUME NEW p \in Procs, NEW r \in Runs, RequestCancel(p, r) PROVE TypeOK'
    BY <1>4, RequestCancelKeepsType
  <1>5. ASSUME NEW p \in Procs, NEW d \in Deliveries,
               ThreadStep(p, d) \/ HandlerChoice(p, d)
        PROVE  TypeOK'
    BY <1>5, ThreadStepKeepsType, HandlerChoiceKeepsType
  <1>6. ASSUME NEW c \in Ckpts, Checkpoint(c) PROVE TypeOK'
    BY <1>6, CheckpointKeepsType
  <1> QED BY <1>1, <1>2, <1>3, <1>4, <1>5, <1>6 DEF Next

(* The initial state has the shape.                                        *)
LEMMA InitType == Init => TypeOK
  <1> SUFFICES ASSUME Init PROVE TypeOK
    OBVIOUS
  <1> USE DEF Init
  <1>1. ClaimType
    BY NoRowIsRow DEF ClaimInit, ClaimType
  <1>2. FactType
    BY DEF FactType, RunStates
  <1>3. CkptType
    BY DEF CkptType
  <1>4. ProcType
    BY IdleSweepType DEF ProcType, IdleScan, Scans
  <1>5. RenewType /\ HeldType
    BY DEF RenewType, HeldType, NoSnapshot, IsBundle
  <1>6. ThreadType
    BY DEF ThreadType, PCs
  <1>7. HistType
    BY DispatchConstants DEF HistType
  <1> QED BY <1>1, <1>2, <1>3, <1>4, <1>5, <1>6, <1>7 DEF TypeOK

(* Type correctness of ResidentScheduler and its store: whatever the       *)
(* number of processes, deliveries, workers and slots, and in whatever     *)
(* order threads, renewers, sweeps and crashes interleave, the claim table *)
(* and the memory of every process and thread keep their shape.            *)
THEOREM TypeCorrect == Spec => []TypeOK
  <1>1. Init => TypeOK
    BY InitType
  <1>2. TypeOK /\ [Next]_vars => TypeOK'
    BY NextKeepsType
  <1> QED BY <1>1, <1>2, PTL DEF Spec

-----------------------------------------------------------------------------
(* Fencing.  Tokens are given out by claim_work alone, upwards, and a      *)
(* reservation keeps the tokens it was given until it is dropped.          *)

(* Every key of a bundle is a key of the table.                            *)
LEMMA BundleKeys ==
    ASSUME TypeOK, NEW p \in Procs, NEW d \in Deliveries,
           NEW k \in DOMAIN held[p][d]
    PROVE  k \in Keys /\ held[p][d][k] \in Nat /\ claim[k].token \in Nat
  <1>1. IsBundle(held[p][d], d)
    BY DEF TypeOK, HeldType
  <1>2. PICK s \in Slots(d) : held[p][d] \in [ClaimKeys(d, s) -> Nat]
    BY <1>1 DEF IsBundle, NoClaims
  <1>3. k \in Keys /\ held[p][d][k] \in Nat
    BY <1>2, ClaimKeysInTable
  <1> QED BY <1>3 DEF TypeOK, ClaimType, Rows

(* The three kinds of steps, seen from the claims: Reserve grants; ...     *)

(* ... a fenced write changes neither claims nor reservations; ...         *)
FencedWrite(p, d) ==
    /\ Holds(p, d)
    /\ lastWrite' = [lastWrite EXCEPT ![AgentRunOf[d]] =
                        held[p][d][AgentRunKey(d)]]
    /\ UNCHANGED <<claim, held>>

(* ... and any other step ends claims and drops reservations at most.      *)
EndsClaims ==
    \/ UNCHANGED claim
    \/ \E claims : Finish(claims, "completed") \/ Finish(claims, "released")
    \/ \E d \in Deliveries : FailBundle(d) \/ ExpireBundle(d)

DropsHeld ==
    \A p \in Procs, d \in Deliveries :
        held'[p][d] = held[p][d] \/ held'[p][d] = NoClaims

Ending == EndsClaims /\ DropsHeld /\ UNCHANGED lastWrite

(* A step that touches neither claims nor reservations is of the last kind. *)
LEMMA IdleEnding == ASSUME UNCHANGED <<claim, held, lastWrite>> PROVE Ending
  BY DEF Ending, EndsClaims, DropsHeld

(* The dispatcher grants claims or touches none.                           *)
LEMMA DispatcherKind ==
    ASSUME NEW p \in Procs, Dispatcher(p)
    PROVE  Ending \/ \E d \in Deliveries : Reserve(p, d)
  BY IdleEnding DEF Dispatcher, Visit, EndScan, SkipDelivery, NextSlot

(* _release_reservation_locked drops the claims of one reservation, ...    *)
LEMMA PopKind ==
    ASSUME TypeOK, NEW p \in Procs, NEW d \in Deliveries, PopReservation(p, d)
    PROVE  Ending
  <1>1. held' = [held EXCEPT ![p][d] = NoClaims]
    BY DEF PopReservation
  <1>2. DropsHeld
    BY <1>1 DEF DropsHeld, TypeOK, HeldType
  <1> QED BY <1>2 DEF Ending, EndsClaims, PopReservation

(* ... the death of a process those of all its reservations.               *)
LEMMA CrashKind == ASSUME TypeOK, NEW p \in Procs, Crash(p) PROVE Ending
  <1>1. held' = [held EXCEPT ![p] = [d \in Deliveries |-> NoClaims]]
    BY DEF Crash
  <1>2. DropsHeld
    BY <1>1 DEF DropsHeld, TypeOK, HeldType
  <1> QED BY <1>2 DEF Ending, EndsClaims, Crash

(* A thread writes under its claims, ends them or touches none.            *)
LEMMA ThreadKind ==
    ASSUME TypeOK, NEW p \in Procs, NEW d \in Deliveries,
           ThreadStep(p, d) \/ HandlerChoice(p, d)
    PROVE  Ending \/ FencedWrite(p, d)
  <1>1. ASSUME NEW e \in Outcomes, Commit(p, d, e) PROVE FencedWrite(p, d)
    BY <1>1 DEF Commit, Committable, FencedWrite
  <1>2. ASSUME NEW e \in Outcomes, HandlerWrite(p, d, e) PROVE FencedWrite(p, d)
    BY <1>2 DEF HandlerWrite, Writable, FencedWrite
  <1>3. CASE PopReservation(p, d)
    BY <1>3, PopKind
  <1>4. CASE Ack(p, d) \/ Release(p, d)
    <2>1. UNCHANGED <<held, lastWrite>>
      BY <1>4 DEF Ack, Release
    <2>2. \/ UNCHANGED claim
          \/ Finish(held[p][d], "completed")
          \/ Finish(held[p][d], "released")
      BY <1>4 DEF Ack, Release
    <2> QED BY <2>1, <2>2 DEF Ending, EndsClaims, DropsHeld
  <1>5. CASE \/ ReadAttempt(p, d) \/ RecordDispatch(p, d)
             \/ CloseDeadLetter(p, d) \/ HandlerFenced(p, d)
             \/ HandlerReturn(p, d) \/ DeadLetter(p, d)
             \/ FailRunForDeadLetter(p, d)
    BY <1>5, IdleEnding
       DEF ReadAttempt, RecordDispatch, CloseDeadLetter, HandlerFenced,
           HandlerReturn, DeadLetter, FailRunForDeadLetter
  <1>6. CASE HandlerInjectedCrash(p, d) \/ HandlerFails(p, d)
    BY <1>6, IdleEnding DEF HandlerInjectedCrash, HandlerFails
  <1>7. CASE BeginCommit(p, d)
    BY <1>7 DEF BeginCommit, Writable, FencedWrite
  <1> QED BY <1>1, <1>2, <1>3, <1>4, <1>5, <1>6, <1>7 DEF ThreadStep, HandlerChoice

(* The renewer touches no claim: it moves deadlines, which only Expire ends. *)
LEMMA RenewerKind == ASSUME NEW p \in Procs, Renewer(p) PROVE Ending
  BY IdleEnding DEF Renewer, RenewSnapshot, Renew, RenewUnconfirmed

(* A sweep takes whole bundles away or touches none.                       *)
LEMMA SweeperKind ==
    ASSUME NEW p \in Procs,
           Sweeper(p) \/ \E r \in Runs : RequestCancel(p, r)
    PROVE  Ending
  <1>1. CASE FenceDelivery(p)
    BY <1>1 DEF FenceDelivery, Ending, EndsClaims, DropsHeld
  <1>2. ASSUME NEW r \in Runs,
               RequestCancel(p, r) \/ Reconcile(p, r) \/ RouteFailure(p, r)
        PROVE  Ending
    BY <1>2, IdleEnding DEF RequestCancel, Reconcile, RouteFailure
  <1>3. CASE \/ RecordCancel(p) \/ DenyRun(p) \/ SweepMailbox(p)
             \/ CancelDelivery(p) \/ DropDelivery(p) \/ EndSweep(p)
             \/ CloseRun(p)
    BY <1>3, IdleEnding DEF RecordCancel, DenyRun, SweepMailbox,
       CancelDelivery, DropDelivery, EndSweep, CloseRun
  <1> QED BY <1>1, <1>2, <1>3 DEF Sweeper

(* Every step of the scheduler is of one of the three kinds.               *)
LEMMA StepKinds ==
    ASSUME TypeOK, [Next]_vars
    PROVE  \/ Ending
           \/ \E p \in Procs, d \in Deliveries : FencedWrite(p, d)
           \/ \E p \in Procs, d \in Deliveries : Reserve(p, d)
  <1>1. CASE UNCHANGED vars
    BY <1>1, IdleEnding DEF vars
  <1>2. ASSUME NEW d \in Deliveries, Send(d) PROVE Ending
    BY <1>2, IdleEnding DEF Send
  <1>3. ASSUME NEW d \in Deliveries, Expire(d) PROVE Ending
    BY <1>3 DEF Expire, Ending, EndsClaims, DropsHeld
  <1>4. ASSUME NEW p \in Procs, Crash(p) PROVE Ending
    BY <1>4, CrashKind
  <1>5. ASSUME NEW c \in Ckpts, Checkpoint(c) PROVE Ending
    BY <1>5, IdleEnding
       DEF Checkpoint, AcquireBarrier, Quiesce, ReleaseBarrier, LoseRequest, ExpireBarrier
  <1> QED BY <1>1, <1>2, <1>3, <1>4, <1>5, DispatcherKind, ThreadKind,
             RenewerKind, SweeperKind DEF Next

(* The end of claims leaves their tokens alone.                            *)
LEMMA TokensStay ==
    ASSUME TypeOK, EndsClaims
    PROVE  \A k \in Keys : claim'[k].token = claim[k].token
  BY DEF TypeOK, ClaimType, Rows, EndsClaims, Finish, FailBundle, ExpireBundle

(* Claims that are current carry the newest token of each of their keys.   *)
LEMMA HoldsNewest ==
    ASSUME NEW p \in Procs, NEW d \in Deliveries, Holds(p, d),
           NEW k \in DOMAIN held[p][d]
    PROVE  held[p][d][k] = claim[k].token
  BY DEF Holds, Current

(* Ending claims and dropping reservations keeps the invariant.            *)
LEMMA EndingKeepsFence == ASSUME TypeOK, FenceInv, Ending PROVE FenceInv'
  <1>1. DOMAIN NoClaims = {}
    BY DEF NoClaims
  <1>2. \A k \in Keys : claim'[k].token = claim[k].token
    BY TokensStay DEF Ending
  <1>3. TokensIssued'
    <2> SUFFICES ASSUME NEW p \in Procs, NEW d \in Deliveries,
                        NEW k \in DOMAIN held'[p][d]
                 PROVE  held'[p][d][k] <= claim'[k].token
      BY DEF TokensIssued
    <2>1. held'[p][d] = held[p][d]
      BY <1>1 DEF Ending, DropsHeld
    <2>2. k \in Keys
      BY <2>1, BundleKeys
    <2> QED BY <1>2, <2>1, <2>2 DEF FenceInv, TokensIssued
  <1>4. TokensDistinct'
    <2> SUFFICES ASSUME NEW p \in Procs, NEW q \in Procs,
                        NEW d \in Deliveries, NEW e \in Deliveries,
                        <<p, d>> # <<q, e>>,
                        NEW k \in DOMAIN held'[p][d] \cap DOMAIN held'[q][e]
                 PROVE  held'[p][d][k] # held'[q][e][k]
      BY DEF TokensDistinct
    <2>1. held'[p][d] = held[p][d] /\ held'[q][e] = held[q][e]
      BY <1>1 DEF Ending, DropsHeld
    <2> QED BY <2>1 DEF FenceInv, TokensDistinct
  <1>5. WritesIssued'
    BY <1>2, KeysOfDelivery DEF Ending, FenceInv, WritesIssued
  <1> QED BY <1>3, <1>4, <1>5 DEF FenceInv

(* A fenced write carries the newest token of its agent run.               *)
LEMMA FencedWriteToken ==
    ASSUME TypeOK, NEW p \in Procs, NEW d \in Deliveries, FencedWrite(p, d)
    PROVE  /\ claim[AgentRunKey(d)].token \in Nat
           /\ lastWrite' = [lastWrite EXCEPT ![AgentRunOf[d]] =
                               claim[AgentRunKey(d)].token]
  <1>1. held[p][d][AgentRunKey(d)] = claim[AgentRunKey(d)].token
    BY HoldsAgentRun, HoldsNewest DEF FencedWrite
  <1>2. held[p][d][AgentRunKey(d)] \in Nat
    BY HoldsAgentRun DEF FencedWrite
  <1> QED BY <1>1, <1>2 DEF FencedWrite

(* A fenced write keeps the invariant.                                     *)
LEMMA WriteKeepsFence ==
    ASSUME TypeOK, FenceInv, NEW p \in Procs, NEW d \in Deliveries,
           FencedWrite(p, d)
    PROVE  FenceInv'
  <1>1. TokensIssued' /\ TokensDistinct'
    BY DEF FenceInv, TokensIssued, TokensDistinct, FencedWrite
  <1>2. WritesIssued'
    <2> SUFFICES ASSUME NEW e \in Deliveries
                 PROVE  lastWrite'[AgentRunOf[e]] <= claim[AgentRunKey(e)].token
      BY DEF WritesIssued, FencedWrite
    <2>1. AgentRunOf[d] \in AgentRuns /\ AgentRunOf[e] \in AgentRuns
      BY ClaimConstants
    <2>2. CASE AgentRunOf[e] = AgentRunOf[d]
      <3>1. AgentRunKey(e) = AgentRunKey(d)
        BY <2>2 DEF AgentRunKey
      <3> QED BY <2>1, <2>2, <3>1, FencedWriteToken DEF TypeOK, HistType
    <2>3. CASE AgentRunOf[e] # AgentRunOf[d]
      BY <2>1, <2>3, FencedWriteToken
         DEF TypeOK, HistType, FenceInv, WritesIssued
    <2> QED BY <2>2, <2>3
  <1> QED BY <1>1, <1>2 DEF FenceInv

(* A grant: the tokens are new, so no other reservation holds them.        *)
LEMMA ReserveKeepsFence ==
    ASSUME TypeOK, FenceInv, NEW p \in Procs, NEW d \in Deliveries,
           Reserve(p, d)
    PROVE  FenceInv'
  <1> DEFINE s == scan[p].slot
  <1>1. s \in Slots(d)
    BY DEF Reserve, Admitted
  <1>2. ClaimKeys(d, s) \subseteq Keys
    BY <1>1, ClaimKeysInTable
  <1>3. \A k \in Keys : claim[k].token \in Nat
    BY DEF TypeOK, ClaimType, Rows
  <1>4. \A k \in Keys : claim'[k].token = IF k \in ClaimKeys(d, s)
                                          THEN claim[k].token + 1
                                          ELSE claim[k].token
    BY DEF Reserve, Claim
  <1>5. \A k \in Keys : claim[k].token <= claim'[k].token
    BY <1>3, <1>4
  <1>6. \A q \in Procs, e \in Deliveries :
           held'[q][e] = IF q = p /\ e = d THEN NextTokens(d, s) ELSE held[q][e]
    BY DEF Reserve, TypeOK, HeldType
  <1>7. /\ DOMAIN NextTokens(d, s) = ClaimKeys(d, s)
        /\ \A k \in ClaimKeys(d, s) : NextTokens(d, s)[k] = claim[k].token + 1
    BY DEF NextTokens
  <1> HIDE DEF s
  <1>8. ASSUME NEW q \in Procs, NEW e \in Deliveries,
               NEW k \in DOMAIN held[q][e], k \in ClaimKeys(d, s)
        PROVE  held[q][e][k] # NextTokens(d, s)[k]
    <2>1. held[q][e][k] \in Nat /\ held[q][e][k] <= claim[k].token
      BY BundleKeys DEF FenceInv, TokensIssued
    <2> QED BY <1>2, <1>3, <1>7, <1>8, <2>1
  <1>9. TokensIssued'
    <2> SUFFICES ASSUME NEW q \in Procs, NEW e \in Deliveries,
                        NEW k \in DOMAIN held'[q][e]
                 PROVE  held'[q][e][k] <= claim'[k].token
      BY DEF TokensIssued
    <2>1. CASE q = p /\ e = d
      BY <1>2, <1>3, <1>4, <1>6, <1>7, <2>1
    <2>2. CASE ~(q = p /\ e = d)
      <3>1. held'[q][e] = held[q][e]
        BY <1>6, <2>2
      <3>2. k \in Keys /\ held[q][e][k] \in Nat /\ held[q][e][k] <= claim[k].token
        BY <3>1, BundleKeys DEF FenceInv, TokensIssued
      <3>3. claim[k].token <= claim'[k].token /\ claim[k].token \in Nat
            /\ claim'[k].token \in Nat
        BY <1>3, <1>4, <1>5, <3>2
      <3> QED BY <3>1, <3>2, <3>3
    <2> QED BY <2>1, <2>2
  <1>10. TokensDistinct'
    <2> SUFFICES ASSUME NEW q \in Procs, NEW r \in Procs,
                        NEW e \in Deliveries, NEW f \in Deliveries,
                        <<q, e>> # <<r, f>>,
                        NEW k \in DOMAIN held'[q][e] \cap DOMAIN held'[r][f]
                 PROVE  held'[q][e][k] # held'[r][f][k]
      BY DEF TokensDistinct
    <2>1. CASE q = p /\ e = d
      BY <1>6, <1>7, <1>8, <2>1
    <2>2. CASE r = p /\ f = d
      BY <1>6, <1>7, <1>8, <2>2
    <2>3. CASE ~(q = p /\ e = d) /\ ~(r = p /\ f = d)
      BY <1>6, <2>3 DEF FenceInv, TokensDistinct
    <2> QED BY <2>1, <2>2, <2>3
  <1>11. WritesIssued'
    <2> SUFFICES ASSUME NEW e \in Deliveries
                 PROVE  lastWrite[AgentRunOf[e]] <= claim'[AgentRunKey(e)].token
      BY DEF WritesIssued, Reserve
    <2>1. AgentRunKey(e) \in Keys /\ AgentRunOf[e] \in AgentRuns
      BY KeysOfDelivery, ClaimConstants
    <2>2. lastWrite[AgentRunOf[e]] \in Nat
      BY <2>1 DEF TypeOK, HistType
    <2>3. lastWrite[AgentRunOf[e]] <= claim[AgentRunKey(e)].token
      BY DEF FenceInv, WritesIssued
    <2> QED BY <1>3, <1>4, <2>1, <2>2, <2>3
  <1> QED BY <1>9, <1>10, <1>11 DEF FenceInv

(* The inductive step, over the three kinds.                               *)
LEMMA NextKeepsFence ==
    ASSUME TypeOK, FenceInv, [Next]_vars PROVE FenceInv'
  BY StepKinds, EndingKeepsFence, WriteKeepsFence, ReserveKeepsFence

(* Nobody holds a token in the beginning.                                  *)
LEMMA InitFence == Init => FenceInv
  <1> SUFFICES ASSUME Init PROVE FenceInv
    OBVIOUS
  <1>1. TokensIssued /\ TokensDistinct
    BY DEF Init, NoClaims, TokensIssued, TokensDistinct
  <1>2. WritesIssued
    BY KeysOfDelivery, ClaimConstants
       DEF Init, ClaimInit, NoRow, WritesIssued
  <1> QED BY <1>1, <1>2 DEF FenceInv

(* The invariant of the fencing tokens holds for every number of           *)
(* processes, deliveries and slots: no token is ever held twice, none is   *)
(* held or written before claim_work gave it out.                          *)
THEOREM FencingTokens == Spec => []FenceInv
  <1>1. Init => TypeOK /\ FenceInv
    BY InitType, InitFence
  <1>2. TypeOK /\ FenceInv /\ [Next]_vars => (TypeOK /\ FenceInv)'
    BY NextKeepsType, NextKeepsFence
  <1> QED BY <1>1, <1>2, PTL DEF Spec

(* Two claims that are current on one key would carry the same token.      *)
LEMMA FenceExcludes == FenceInv => MutualExclusion
  <1> SUFFICES ASSUME FenceInv,
                      NEW p \in Procs, NEW q \in Procs,
                      NEW d \in Deliveries, NEW e \in Deliveries,
                      Holds(p, d), Holds(q, e), <<p, d>> # <<q, e>>,
                      NEW k \in DOMAIN held[p][d] \cap DOMAIN held[q][e]
               PROVE  FALSE
    BY DEF MutualExclusion
  <1>1. held[p][d][k] = claim[k].token /\ held[q][e][k] = claim[k].token
    BY HoldsNewest
  <1> QED BY <1>1 DEF FenceInv, TokensDistinct

(* Mutual exclusion of the executions of ResidentScheduler: no two         *)
(* reservations, of one process or of several, hold current claims on a    *)
(* common delivery, agent run or worker slot.                              *)
THEOREM ClaimsExclude == Spec => []MutualExclusion
  BY FencingTokens, FenceExcludes, PTL

(* A write under current claims does not go back behind an earlier one.    *)
LEMMA WritesGoForward ==
    ASSUME TypeOK, FenceInv, [Next]_vars
    PROVE  \A a \in AgentRuns : lastWrite'[a] >= lastWrite[a]
  <1>0. \A a \in AgentRuns : lastWrite[a] \in Nat
    BY DEF TypeOK, HistType
  <1>1. CASE UNCHANGED lastWrite
    BY <1>0, <1>1
  <1>2. ASSUME NEW p \in Procs, NEW d \in Deliveries, FencedWrite(p, d)
        PROVE  \A a \in AgentRuns : lastWrite'[a] >= lastWrite[a]
    <2>1. lastWrite[AgentRunOf[d]] <= claim[AgentRunKey(d)].token
      BY DEF FenceInv, WritesIssued
    <2> QED BY <1>0, <1>2, <2>1, FencedWriteToken DEF TypeOK, HistType
  <1> QED BY <1>1, <1>2, StepKinds DEF Ending, Reserve

(* Fencing of late writers: the tokens of the writes accepted into an      *)
(* agent run (append, commit_command) never decrease, so no owner that     *)
(* lost its claim writes after the owner that took over.                   *)
THEOREM WritesFenced == Spec => WritesInTokenOrder
  <1>1. TypeOK /\ FenceInv /\ [Next]_vars =>
           [\A a \in AgentRuns : lastWrite'[a] >= lastWrite[a]]_lastWrite
    BY WritesGoForward
  <1> QED BY <1>1, TypeCorrect, FencingTokens, PTL DEF Spec, WritesInTokenOrder

-----------------------------------------------------------------------------
(* Refinement: a grant is a Grant, a fenced write is a Write, and any      *)
(* other step revokes the keys whose claims it ends.                       *)

(* Ending claims changes no owner and makes no row live again.             *)
LEMMA EndingRows ==
    ASSUME TypeOK, EndsClaims
    PROVE  \A k \in Keys : /\ claim'[k].owner = claim[k].owner
                           /\ claim'[k].token = claim[k].token
                           /\ claim'[k].state = "active" /\ claim'[k].live => Taken(k)
  BY DEF TypeOK, ClaimType, Rows, EndsClaims, Finish, FailBundle, ExpireBundle,
         Taken

(* Ending claims revokes keys.                                             *)
LEMMA EndingRevokes ==
    ASSUME TypeOK, Ending PROVE \E K \in SUBSET Keys : Fenced!Revoke(K)
  <1> DEFINE K == { k \in Keys : ~(claim'[k].state = "active" /\ claim'[k].live) }
  <1>1. \A k \in Keys : OwnerOf(k)' = IF k \in K THEN None ELSE OwnerOf(k)
    BY EndingRows DEF Ending, OwnerOf, Taken
  <1>2. \A k \in Keys : claim'[k].token = claim[k].token
    BY EndingRows DEF Ending
  <1>3. UNCHANGED lastWrite
    BY DEF Ending
  <1>4. K \in SUBSET Keys
    OBVIOUS
  <1> HIDE DEF K
  <1>5. Fenced!Revoke(K)
    BY <1>1, <1>2, <1>3, <1>4 DEF Fenced!Revoke
  <1> QED BY <1>4, <1>5

(* A fenced write is made by the owner of the key in its present epoch.    *)
LEMMA WriteWrites ==
    ASSUME TypeOK, NEW p \in Procs, NEW d \in Deliveries, FencedWrite(p, d)
    PROVE  Fenced!Write(p, AgentRunOf[d])
  <1>1. AgentRunOf[d] \in AgentRuns /\ AgentRunKey(d) \in Keys
    BY ClaimConstants, KeysOfDelivery
  <1>2. OwnerOf(AgentRunKey(d)) = p
    BY HoldsAgentRun DEF FencedWrite, Holds, Current, OwnerOf
  <1>3. lastWrite' = [lastWrite EXCEPT ![AgentRunOf[d]] =
                        claim[AgentRunKey(d)].token]
    BY FencedWriteToken
  <1>4. UNCHANGED claim
    BY DEF FencedWrite
  <1> QED BY <1>1, <1>2, <1>3, <1>4
          DEF Fenced!Write, AgentRunKey, OwnerOf, Taken

(* claim_work grants a whole bundle of keys that nobody owns.              *)
LEMMA ReserveGrants ==
    ASSUME TypeOK, NEW p \in Procs, NEW d \in Deliveries, Reserve(p, d)
    PROVE  \E K \in SUBSET Keys : Fenced!Grant(p, K)
  <1>0. PICK K : K = ClaimKeys(d, scan[p].slot)
    OBVIOUS
  <1>1. K \in SUBSET Keys
    BY <1>0, ClaimKeysInTable DEF Reserve, Admitted
  <1>2. \A k \in K : OwnerOf(k) = None
    BY <1>0 DEF Reserve, Admitted, Claimable, OwnerOf
  <1>3. \A k \in Keys : OwnerOf(k)' = IF k \in K THEN p ELSE OwnerOf(k)
    BY <1>0 DEF Reserve, Claim, OwnerOf, Taken
  <1>4. \A k \in Keys : claim'[k].token = IF k \in K THEN claim[k].token + 1
                                                     ELSE claim[k].token
    BY <1>0 DEF Reserve, Claim
  <1>5. UNCHANGED lastWrite
    BY DEF Reserve
  <1>6. Fenced!Grant(p, K)
    BY <1>1, <1>2, <1>3, <1>4, <1>5 DEF Fenced!Grant
  <1> QED BY <1>1, <1>6

(* Every step of the scheduler is a step of FencedWork.                    *)
LEMMA NextFenced ==
    ASSUME TypeOK, [Next]_vars PROVE Fenced!FencedNext
  <1>1. CASE Ending
    BY <1>1, EndingRevokes DEF Fenced!FencedNext
  <1>2. ASSUME NEW p \in Procs, NEW d \in Deliveries, FencedWrite(p, d)
        PROVE  Fenced!FencedNext
    BY <1>2, WriteWrites, ClaimConstants DEF Fenced!FencedNext
  <1>3. ASSUME NEW p \in Procs, NEW d \in Deliveries, Reserve(p, d)
        PROVE  Fenced!FencedNext
    BY <1>3, ReserveGrants DEF Fenced!FencedNext
  <1> QED BY <1>1, <1>2, <1>3, StepKinds

(* The scheduler begins where FencedWork does.                             *)
LEMMA InitFenced == Init => Fenced!FencedInit
  BY DEF Init, ClaimInit, NoRow, OwnerOf, Taken, Fenced!FencedInit

(* ResidentScheduler and its claim table implement FencedWork, for every   *)
(* number of processes, deliveries and slots and every interleaving of     *)
(* expiry, takeover, renewal, sweeps, checkpoints and crashes.             *)
THEOREM Refinement == Spec => ImplementsFencedWork
  <1>1. Init => Fenced!FencedInit
    BY InitFenced
  <1>2. TypeOK /\ [Next]_vars => [Fenced!FencedNext]_Fenced!fencedVars
    BY NextFenced
  <1> QED BY <1>1, <1>2, TypeCorrect, PTL
          DEF Spec, ImplementsFencedWork, Fenced!FencedSpec

-----------------------------------------------------------------------------
(* Capacity.  Reservations of a worker whose claims are current hold       *)
(* different slots of it.                                                  *)

(* A reservation whose claims are current holds a slot of its worker.      *)
LEMMA HoldsSlot ==
    ASSUME TypeOK, NEW p \in Procs, NEW d \in Deliveries, Holds(p, d)
    PROVE  \E s \in Slots(d) : SlotKey(d, s) \in DOMAIN held[p][d]
  <1>1. IsBundle(held[p][d], d) /\ DOMAIN held[p][d] # {}
    BY DEF TypeOK, HeldType, Holds, Current
  <1>2. PICK s \in Slots(d) : held[p][d] \in [ClaimKeys(d, s) -> Nat]
    BY <1>1 DEF IsBundle, NoClaims
  <1> QED BY <1>2 DEF ClaimKeys

(* There are as many slots as the capacity says.                           *)
LEMMA SlotsOfWorker ==
    ASSUME NEW w \in Workers
    PROVE  /\ IsFiniteSet(0 .. Capacity[w] - 1)
           /\ Cardinality(0 .. Capacity[w] - 1) = Capacity[w]
  <1>1. Capacity[w] \in Nat \ {0}
    BY ClaimConstants
  <1>2. 0 \in Int /\ Capacity[w] - 1 \in Int
    BY <1>1
  <1> DEFINE b == Capacity[w] - 1
  <1>3. /\ IsFiniteSet(0 .. b)
        /\ Cardinality(0 .. b) = IF 0 > b THEN 0 ELSE b - 0 + 1
    <2> HIDE DEF b
    <2> QED BY <1>2, FS_Interval DEF b
  <1> QED BY <1>1, <1>3

(* Exclusive slots bound the executions of a worker.                       *)
LEMMA SlotsBound == TypeOK /\ MutualExclusion => WorkerCapacity
  <1> SUFFICES ASSUME TypeOK, MutualExclusion, NEW w \in Workers
               PROVE  Cardinality({ x \in Procs \X Deliveries :
                          WorkerOf[x[2]] = w /\ Holds(x[1], x[2]) }) <= Capacity[w]
    BY DEF WorkerCapacity
  <1> DEFINE S == { x \in Procs \X Deliveries : WorkerOf[x[2]] = w /\ Holds(x[1], x[2]) }
             T == 0 .. Capacity[w] - 1
             Uses(x, s) == SlotKey(x[2], s) \in DOMAIN held[x[1]][x[2]]
             f == [x \in S |-> CHOOSE s \in T : Uses(x, s)]
  <1>1. \A x \in S : /\ x[1] \in Procs /\ x[2] \in Deliveries /\ x = <<x[1], x[2]>>
                     /\ WorkerOf[x[2]] = w /\ Holds(x[1], x[2])
    OBVIOUS
  <1>2. \A x \in S : \E s \in T : Uses(x, s)
    BY <1>1, HoldsSlot DEF Slots
  <1>3. \A x \in S : f[x] \in T /\ Uses(x, f[x])
    BY <1>2
  <1>4. ASSUME NEW x \in S, NEW y \in S, f[x] = f[y] PROVE x = y
    <2>1. SlotKey(x[2], f[x]) = SlotKey(y[2], f[y])
      BY <1>1, <1>4 DEF SlotKey
    <2>2. DOMAIN held[x[1]][x[2]] \cap DOMAIN held[y[1]][y[2]] # {}
      BY <1>3, <2>1
    <2> HIDE DEF S, f, Uses
    <2> QED BY <1>1, <2>2 DEF MutualExclusion
  <1>5. f \in [S -> T]
    BY <1>3
  <1>6. f \in Injection(S, T)
    BY <1>4, <1>5 DEF Injection, IsInjective
  <1>7. IsFiniteSet(T) /\ Cardinality(T) = Capacity[w]
    BY SlotsOfWorker
  <1>8. IsFiniteSet(S) /\ Cardinality(S) <= Cardinality(T)
    <2> HIDE DEF S, T, f
    <2> QED BY <1>6, <1>7, FS_Injection
  <1> QED BY <1>7, <1>8

(* max_concurrency bounds the current executions of a worker over all      *)
(* processes, however claims expire and are taken over (WorkerCapacity).   *)
THEOREM WorkerCapacityHolds == Spec => []WorkerCapacity
  BY TypeCorrect, ClaimsExclude, SlotsBound, PTL

-----------------------------------------------------------------------------
(* Checkpoints.  A request acquires its barrier once, before it looks at   *)
(* the claims, so a barrier that still stands has stood ever since; and    *)
(* while a barrier stands no key of its run is claimed.                    *)
Unclaimed ==
    \A c \in Ckpts, d \in Deliveries :
        ckpt[c] = "capturing" /\ barrier[CkptRun[c]] = c /\ RunOf(d) = CkptRun[c] =>
            ~Taken(AgentRunKey(d))

(* Ending claims takes no key.                                             *)
LEMMA EndingTakes ==
    ASSUME TypeOK, EndsClaims, NEW k \in Keys, ~Taken(k) PROVE ~Taken(k)'
  BY EndingRows DEF Taken

(* A reservation takes the keys of one run, and none of a barred one.      *)
LEMMA ReserveTakes ==
    ASSUME TypeOK, NEW p \in Procs, NEW d \in Deliveries, Reserve(p, d),
           NEW e \in Deliveries, ~Taken(AgentRunKey(e)), barrier[RunOf(e)] # None
    PROVE  ~Taken(AgentRunKey(e))'
  <1>1. RunOf(e) # RunOf(d)
    BY DEF Reserve, Admitted
  <1>2. AgentRunKey(e) # AgentRunKey(d)
    BY <1>1 DEF RunOf, AgentRunKey
  <1>3. AgentRunKey(e) \notin ClaimKeys(d, scan[p].slot)
    BY <1>2 DEF ClaimKeys, AgentRunKey, DeliveryKey, SlotKey
  <1>4. claim'[AgentRunKey(e)] = claim[AgentRunKey(e)]
    BY <1>3, KeysOfDelivery DEF Reserve, Claim
  <1> QED BY <1>4 DEF Taken

(* Only create_checkpoint touches barriers.                                *)
LEMMA BarrierSteps ==
    ASSUME [Next]_vars
    PROVE  UNCHANGED ckptVars \/ \E c \in Ckpts : Checkpoint(c)
  <1>1. ASSUME NEW d \in Deliveries, Send(d) \/ Expire(d) PROVE UNCHANGED ckptVars
    BY <1>1 DEF Send, Expire
  <1>2. ASSUME NEW p \in Procs, Dispatcher(p) PROVE UNCHANGED ckptVars
    BY <1>2 DEF Dispatcher, Visit, EndScan, SkipDelivery, NextSlot, Reserve
  <1>3. ASSUME NEW p \in Procs, Renewer(p) PROVE UNCHANGED ckptVars
    BY <1>3 DEF Renewer, RenewSnapshot, Renew, RenewUnconfirmed
  <1>4. ASSUME NEW p \in Procs, Sweeper(p) PROVE UNCHANGED ckptVars
    BY <1>4 DEF Sweeper, Reconcile, RouteFailure, RecordCancel, DenyRun, SweepMailbox,
       CancelDelivery, FenceDelivery, DropDelivery, EndSweep, CloseRun
  <1>5. ASSUME NEW p \in Procs, Crash(p) \/ \E r \in Runs : RequestCancel(p, r)
        PROVE UNCHANGED ckptVars
    BY <1>5 DEF Crash, RequestCancel
  <1>6. ASSUME NEW p \in Procs, NEW d \in Deliveries, ThreadStep(p, d) PROVE UNCHANGED ckptVars
    BY <1>6 DEF ThreadStep, ReadAttempt, RecordDispatch, CloseDeadLetter, Commit, HandlerFenced,
       HandlerReturn, DeadLetter, FailRunForDeadLetter, Ack, Release, PopReservation
  <1>7. ASSUME NEW p \in Procs, NEW d \in Deliveries, HandlerChoice(p, d) PROVE UNCHANGED ckptVars
    BY <1>7 DEF HandlerChoice, HandlerWrite, BeginCommit, HandlerInjectedCrash, HandlerFails
  <1>8. CASE UNCHANGED vars
    BY <1>8 DEF vars
  <1> QED BY <1>1, <1>2, <1>3, <1>4, <1>5, <1>6, <1>7, <1>8 DEF Next

(* While a run is captured behind its barrier no agent run of it is claimed.*)
LEMMA UnclaimedKept ==
    ASSUME TypeOK, Unclaimed, [Next]_vars PROVE Unclaimed'
  <1> SUFFICES ASSUME NEW c \in Ckpts, NEW d \in Deliveries, ckpt'[c] = "capturing",
                      barrier'[CkptRun[c]] = c, RunOf(d) = CkptRun[c]
               PROVE  ~Taken(AgentRunKey(d))'
    BY DEF Unclaimed
  <1>0. AgentRunKey(d) \in Keys
    BY KeysOfDelivery
  <1>1. CASE UNCHANGED ckptVars
    <2>1. ~Taken(AgentRunKey(d)) /\ barrier[RunOf(d)] = c /\ c # None
      BY <1>1, DispatchConstants DEF Unclaimed
    <2>2. CASE Ending
      BY <1>0, <2>1, <2>2, EndingTakes DEF Ending
    <2>3. ASSUME NEW p \in Procs, NEW e \in Deliveries, FencedWrite(p, e)
          PROVE  ~Taken(AgentRunKey(d))'
      BY <2>1, <2>3 DEF FencedWrite, Taken
    <2>4. ASSUME NEW p \in Procs, NEW e \in Deliveries, Reserve(p, e)
          PROVE  ~Taken(AgentRunKey(d))'
      BY <2>1, <2>4, ReserveTakes
    <2> QED BY <2>2, <2>3, <2>4, StepKinds
  <1>2. ASSUME NEW e \in Ckpts, Checkpoint(e) PROVE ~Taken(AgentRunKey(d))'
    <2> USE DEF TypeOK, CkptType
    <2>1. UNCHANGED claim
      BY <1>2 DEF Checkpoint, AcquireBarrier, Quiesce, ReleaseBarrier, LoseRequest, ExpireBarrier
    <2>2. CASE AcquireBarrier(e)
      <3>1. ckpt[c] = "capturing" /\ e # c
        BY <2>2 DEF AcquireBarrier
      <3>2. barrier[CkptRun[c]] = c
        BY <2>2, <3>1, DispatchConstants DEF AcquireBarrier
      <3> QED BY <2>1, <3>1, <3>2 DEF Unclaimed, Taken
    <2>3. CASE Quiesce(e)
      <3>1. CASE e = c
        BY <2>1, <2>3, <3>1 DEF Quiesce, Taken
      <3>2. CASE e # c
        BY <2>1, <2>3, <3>2 DEF Quiesce, Unclaimed, Taken
      <3> QED BY <3>1, <3>2
    <2>4. CASE ReleaseBarrier(e) \/ LoseRequest(e) \/ ExpireBarrier(e)
      <3>1. ckpt[c] = "capturing"
        BY <2>4 DEF ReleaseBarrier, LoseRequest, ExpireBarrier
      <3>2. barrier[CkptRun[c]] = c
        BY <2>4, DispatchConstants DEF ReleaseBarrier, LoseRequest, ExpireBarrier
      <3> QED BY <2>1, <3>1, <3>2 DEF Unclaimed, Taken
    <2> QED BY <1>2, <2>2, <2>3, <2>4 DEF Checkpoint
  <1> QED BY <1>1, <1>2, BarrierSteps

(* No reservation of a run holds current claims while the run is captured  *)
(* behind a barrier of its own, in any process and beside any number of    *)
(* requests, through expiries, takeovers and crashes (CaptureIsQuiet).     *)
THEOREM CaptureIsQuietHolds == Spec => []CaptureIsQuiet
  <1>1. Init => TypeOK /\ Unclaimed
    BY InitType DEF Init, Unclaimed
  <1>2. TypeOK /\ Unclaimed /\ [Next]_vars => (TypeOK /\ Unclaimed)'
    BY NextKeepsType, UnclaimedKept
  <1>3. TypeOK /\ Unclaimed => CaptureIsQuiet
    BY HoldsAgentRun DEF CaptureIsQuiet, Unclaimed, Holds, Current
  <1> QED BY <1>1, <1>2, <1>3, PTL DEF Spec

-----------------------------------------------------------------------------
(* No leaked claim.  The claims of a reservation are granted, expire, fail *)
(* and finish together, so that a reservation leaves nothing behind when   *)
(* it finds that its claims are not current.                               *)

(* The row of k is the one that the reservation of d in p was granted.     *)
Mine(p, d, k) == k \in DOMAIN held[p][d] /\ held[p][d][k] = claim[k].token

(* The rows of a reservation name its process and its delivery.            *)
Bundled ==
    \A p \in Procs, d \in Deliveries : \A k \in Keys : Mine(p, d, k) =>
        /\ claim[k].owner = p
        /\ claim[k].bundle = <<d, held[p][d][DeliveryKey(d)]>>

(* One live row of a reservation stands for all of them.                   *)
Together ==
    \A p \in Procs, d \in Deliveries : \A k \in Keys :
        Mine(p, d, k) /\ Taken(k) => Holds(p, d)

(* A thread that leaves holds nothing any more.                            *)
Popped ==
    \A p \in Procs, d \in Deliveries :
        /\ pc[p][d] = "none" => held[p][d] = NoClaims
        /\ pc[p][d] = "popping" => ~Holds(p, d)

(* A live row has an owner.                                                *)
Owned == \A k \in Keys : Taken(k) => claim[k].owner \in Procs

(* The inductive invariant.                                                *)
LeakInv == NoLeakedClaim /\ Bundled /\ Together /\ Popped /\ Owned

(* The kinds of steps: a thread works on, ...                              *)
WorksOn ==
    /\ UNCHANGED <<claim, held, up>>
    /\ \A p \in Procs, d \in Deliveries :
          \/ pc'[p][d] = pc[p][d]
          \/ pc[p][d] # "none" /\ pc'[p][d] \notin {"none", "popping"}

(* ... a thread ends its claims if it still holds them, ...                *)
EndsOwn(p, d) ==
    /\ pc[p][d] # "none"
    /\ pc' = [pc EXCEPT ![p][d] = "popping"]
    /\ UNCHANGED <<held, up>>
    /\ \/ /\ Holds(p, d)
          /\ Finish(held[p][d], "completed") \/ Finish(held[p][d], "released")
       \/ ~Holds(p, d) /\ UNCHANGED claim

(* ... or somebody else ends a whole bundle.                               *)
EndsBundle ==
    /\ UNCHANGED <<held, up, pc>>
    /\ \E d \in Deliveries : FailBundle(d) \/ ExpireBundle(d)

(* Only the thread that goes to a label changes its own.                   *)
LEMMA GotoOthers ==
    ASSUME ThreadType, NEW p \in Procs, NEW d \in Deliveries, NEW l, Goto(p, d, l)
    PROVE  \A q \in Procs, e \in Deliveries :
              pc'[q][e] = IF q = p /\ e = d THEN l ELSE pc[q][e]
  BY DEF Goto, ThreadType

(* A step that leaves reservations and their threads alone.                *)
LEMMA IdleWorks == ASSUME UNCHANGED <<claim, held, up, pc>> PROVE WorksOn
  BY DEF WorksOn

(* A thread that goes to a label that is not an exit.                      *)
LEMMA GotoWorks ==
    ASSUME ThreadType, NEW p \in Procs, NEW d \in Deliveries, NEW l, Goto(p, d, l),
           pc[p][d] # "none", l \notin {"none", "popping"}, UNCHANGED <<claim, held, up>>
    PROVE  WorksOn
  BY GotoOthers DEF WorksOn

(* The steps of a thread, seen from its reservation.                       *)
LEMMA ThreadLeak ==
    ASSUME TypeOK, NEW p \in Procs, NEW d \in Deliveries,
           ThreadStep(p, d) \/ HandlerChoice(p, d)
    PROVE  WorksOn \/ EndsOwn(p, d) \/ PopReservation(p, d)
  <1>0. ThreadType
    BY DEF TypeOK
  <1>1. ASSUME NEW e \in Outcomes, Commit(p, d, e) PROVE WorksOn
    BY <1>0, <1>1, GotoWorks DEF Commit
  <1>2. ASSUME NEW e \in Outcomes, HandlerWrite(p, d, e) PROVE WorksOn
    BY <1>2, IdleWorks DEF HandlerWrite
  <1>3. CASE Ack(p, d)
    <2>1. CASE Goto(p, d, "releasing") /\ UNCHANGED claim
      BY <1>0, <1>3, <2>1, GotoWorks DEF Ack
    <2>2. CASE Holds(p, d) /\ Finish(held[p][d], "completed") /\ Goto(p, d, "popping")
      BY <1>3, <2>2 DEF Ack, EndsOwn, Goto
    <2> QED BY <1>3, <2>1, <2>2 DEF Ack
  <1>4. CASE Release(p, d)
    BY <1>4 DEF Release, EndsOwn, Goto
  <1>5. CASE ReadAttempt(p, d) \/ CloseDeadLetter(p, d) \/ HandlerFenced(p, d)
    BY <1>0, <1>5, GotoWorks DEF ReadAttempt, CloseDeadLetter, HandlerFenced
  <1>6. CASE RecordDispatch(p, d)
    BY <1>0, <1>6, GotoWorks DEF RecordDispatch
  <1>7. CASE HandlerReturn(p, d)
    <2>1. ctx[p][d] \in {"none", "run", "renewal"}
      BY <1>0 DEF ThreadType
    <2>2. \E l \in {"acking", "releasing", "ackingCancelled"} : Goto(p, d, l)
      BY <1>7, <2>1 DEF HandlerReturn
    <2> QED BY <1>0, <1>7, <2>2, GotoWorks DEF HandlerReturn
  <1>8. CASE DeadLetter(p, d) \/ FailRunForDeadLetter(p, d)
    BY <1>0, <1>8, GotoWorks DEF DeadLetter, FailRunForDeadLetter
  <1>9. CASE HandlerInjectedCrash(p, d) \/ BeginCommit(p, d)
    BY <1>0, <1>9, GotoWorks DEF HandlerInjectedCrash, BeginCommit
  <1>10. CASE HandlerFails(p, d)
    BY <1>0, <1>10, GotoWorks DEF HandlerFails
  <1> QED BY <1>1, <1>2, <1>3, <1>4, <1>5, <1>6, <1>7, <1>8, <1>9, <1>10
          DEF ThreadStep, HandlerChoice

(* Every step of the scheduler is of one of these kinds.                   *)
LEMMA LeakKinds ==
    ASSUME TypeOK, [Next]_vars
    PROVE  \/ WorksOn \/ EndsBundle
           \/ \E p \in Procs : Crash(p)
           \/ \E p \in Procs, d \in Deliveries :
                 EndsOwn(p, d) \/ PopReservation(p, d) \/ Reserve(p, d)
  <1>1. CASE UNCHANGED vars
    BY <1>1, IdleWorks DEF vars
  <1>2. ASSUME NEW d \in Deliveries, Send(d) PROVE WorksOn
    BY <1>2, IdleWorks DEF Send
  <1>3. ASSUME NEW d \in Deliveries, Expire(d) PROVE EndsBundle
    BY <1>3 DEF Expire, EndsBundle
  <1>4. ASSUME NEW p \in Procs, Dispatcher(p)
        PROVE  WorksOn \/ \E d \in Deliveries : Reserve(p, d)
    BY <1>4, IdleWorks DEF Dispatcher, Visit, EndScan, SkipDelivery, NextSlot
  <1>5. ASSUME NEW p \in Procs, Renewer(p) PROVE WorksOn
    BY <1>5, IdleWorks DEF Renewer, RenewSnapshot, Renew, RenewUnconfirmed
  <1>6. ASSUME NEW p \in Procs, FenceDelivery(p) PROVE WorksOn \/ EndsBundle
    BY <1>6, IdleWorks DEF FenceDelivery, EndsBundle
  <1>7. ASSUME NEW p \in Procs, NEW r \in Runs,
               RequestCancel(p, r) \/ Reconcile(p, r) \/ RouteFailure(p, r)
        PROVE  WorksOn
    BY <1>7, IdleWorks DEF RequestCancel, Reconcile, RouteFailure
  <1>8. ASSUME NEW p \in Procs,
               \/ RecordCancel(p) \/ DenyRun(p) \/ SweepMailbox(p)
               \/ CancelDelivery(p) \/ DropDelivery(p) \/ EndSweep(p)
               \/ CloseRun(p)
        PROVE  WorksOn
    BY <1>8, IdleWorks DEF RecordCancel, DenyRun, SweepMailbox,
       CancelDelivery, DropDelivery, EndSweep, CloseRun
  <1>9. ASSUME NEW c \in Ckpts, Checkpoint(c) PROVE WorksOn
    BY <1>9, IdleWorks DEF Checkpoint, AcquireBarrier, Quiesce, ReleaseBarrier, LoseRequest,
       ExpireBarrier
  <1> QED BY <1>1, <1>2, <1>3, <1>4, <1>5, <1>6, <1>7, <1>8, <1>9, ThreadLeak
          DEF Next, Sweeper

(* Work that goes on leaves everything in place.                           *)
LEMMA WorksOnLeak == ASSUME TypeOK, LeakInv, WorksOn PROVE LeakInv'
  <1>1. UNCHANGED <<claim, held, up>>
    BY DEF WorksOn
  <1>2. Bundled' /\ Together' /\ Owned'
    BY <1>1 DEF LeakInv, Bundled, Together, Owned, Mine, Taken, Holds, Current
  <1>3. Popped'
    BY <1>1 DEF LeakInv, Popped, WorksOn, Holds, Current, Taken
  <1>4. NoLeakedClaim'
    <2> SUFFICES ASSUME NEW k \in Keys, Taken(k), up[claim[k].owner]
                 PROVE  \E d \in Deliveries :
                            /\ pc'[claim[k].owner][d] # "none"
                            /\ Mine(claim[k].owner, d, k)
      BY <1>1 DEF NoLeakedClaim, Taken, Mine
    <2>1. PICK d \in Deliveries : /\ pc[claim[k].owner][d] # "none"
                                  /\ Mine(claim[k].owner, d, k)
      BY DEF LeakInv, NoLeakedClaim, Mine
    <2>2. claim[k].owner \in Procs
      BY DEF LeakInv, Owned
    <2> QED BY <2>1, <2>2 DEF WorksOn
  <1> QED BY <1>2, <1>3, <1>4 DEF LeakInv

(* What the end of claims leaves in a row.                                 *)
LEMMA EndedRows ==
    ASSUME TypeOK, EndsClaims
    PROVE  \A k \in Keys : /\ claim'[k].owner = claim[k].owner
                           /\ claim'[k].token = claim[k].token
                           /\ claim'[k].bundle = claim[k].bundle
                           /\ Taken(k)' => Taken(k)
  BY DEF TypeOK, ClaimType, Rows, EndsClaims, Finish, FailBundle, ExpireBundle,
         Taken

(* Ending claims breaks at most that live rows of a reservation stand for  *)
(* all of them.                                                            *)
LEMMA EndingLeak ==
    ASSUME TypeOK, LeakInv, EndsClaims, UNCHANGED <<held, up>>
    PROVE  /\ Bundled' /\ Owned'
           /\ \A p \in Procs, d \in Deliveries : Holds(p, d)' => Holds(p, d)
           /\ \A p \in Procs, d \in Deliveries, k \in Keys : Mine(p, d, k)' = Mine(p, d, k)
  <1>1. \A p \in Procs, d \in Deliveries, k \in Keys : Mine(p, d, k)' = Mine(p, d, k)
    BY EndedRows DEF Mine
  <1>2. Bundled'
    BY <1>1, EndedRows DEF LeakInv, Bundled
  <1>3. Owned'
    BY EndedRows DEF LeakInv, Owned
  <1>4. \A p \in Procs, d \in Deliveries : Holds(p, d)' => Holds(p, d)
    BY EndedRows, BundleKeys DEF Holds, Current
  <1> QED BY <1>1, <1>2, <1>3, <1>4

(* A claim that stays live stays with its reservation.                     *)
LEMMA EndingUnleaked ==
    ASSUME TypeOK, LeakInv, EndsClaims, UNCHANGED <<held, up>>,
           \A p \in Procs, d \in Deliveries : pc[p][d] # "none" => pc'[p][d] # "none"
    PROVE  NoLeakedClaim'
  <1> SUFFICES ASSUME NEW k \in Keys, Taken(k)', NEW p \in Procs, p = claim'[k].owner, up'[p]
               PROVE  \E d \in Deliveries : pc'[p][d] # "none" /\ Mine(p, d, k)'
    BY EndingLeak DEF NoLeakedClaim, Owned, Mine
  <1>1. Taken(k) /\ p = claim[k].owner /\ up[p]
    BY EndedRows
  <1>2. PICK d \in Deliveries : pc[p][d] # "none" /\ Mine(p, d, k)
    BY <1>1 DEF LeakInv, NoLeakedClaim, Mine
  <1>3. Mine(p, d, k)'
    BY <1>2, EndingLeak
  <1> QED BY <1>2, <1>3

(* Rows of one reservation that are all live.                              *)
LEMMA HoldsRows ==
    ASSUME TypeOK, LeakInv, NEW p \in Procs, NEW d \in Deliveries, Holds(p, d),
           NEW k \in DOMAIN held[p][d]
    PROVE  /\ k \in Keys /\ Taken(k) /\ claim[k].owner = p
           /\ claim[k].bundle = <<d, held[p][d][DeliveryKey(d)]>>
  <1>1. k \in Keys
    BY BundleKeys
  <1>2. Mine(p, d, k) /\ Taken(k)
    BY DEF Mine, Holds, Current
  <1> QED BY <1>1, <1>2 DEF LeakInv, Bundled

(* A whole bundle ends.                                                    *)
LEMMA EndsBundleLeak == ASSUME TypeOK, LeakInv, EndsBundle PROVE LeakInv'
  <1>1. EndsClaims /\ UNCHANGED <<held, up, pc>>
    BY DEF EndsBundle, EndsClaims
  <1>2. NoLeakedClaim'
    BY <1>1, EndingUnleaked
  <1>3. Bundled' /\ Owned'
    BY <1>1, EndingLeak
  <1>4. Popped'
    BY <1>1, EndingLeak DEF LeakInv, Popped
  <1>5. Together'
    <2> SUFFICES ASSUME NEW p \in Procs, NEW d \in Deliveries, NEW k \in Keys,
                        Mine(p, d, k)', Taken(k)'
                 PROVE  Holds(p, d)'
      BY DEF Together
    <2>1. Mine(p, d, k) /\ Taken(k)
      BY <1>1, EndingLeak, EndedRows
    <2>2. Holds(p, d)
      BY <2>1 DEF LeakInv, Together
    <2>3. PICK e \in Deliveries : FailBundle(e) \/ ExpireBundle(e)
      BY DEF EndsBundle
    <2>4. ~SameBundle(e, k)
      BY <2>3 DEF FailBundle, ExpireBundle, Taken, TypeOK, ClaimType, Rows
    <2>5. k \in DOMAIN held[p][d]
      BY <2>1 DEF Mine
    <2>6. ASSUME NEW j \in DOMAIN held[p][d] PROVE claim'[j] = claim[j]
      <3>1. j \in Keys
        BY BundleKeys
      <3>2. ~SameBundle(e, j)
        BY <2>2, <2>4, <2>5, HoldsRows DEF SameBundle, Taken
      <3> QED BY <2>3, <3>1, <3>2 DEF FailBundle, ExpireBundle
    <2> QED BY <1>1, <2>2, <2>6 DEF Holds, Current, Taken
  <1> QED BY <1>2, <1>3, <1>4, <1>5 DEF LeakInv

(* A thread ends its own claims, which are current, or leaves none behind. *)
LEMMA EndsOwnLeak ==
    ASSUME TypeOK, MutualExclusion, LeakInv, NEW q \in Procs, NEW e \in Deliveries,
           EndsOwn(q, e)
    PROVE  LeakInv'
  <1>1. EndsClaims /\ UNCHANGED <<held, up>>
    BY DEF EndsOwn, EndsClaims
  <1>0. \A p \in Procs, d \in Deliveries :
            pc'[p][d] = IF p = q /\ d = e THEN "popping" ELSE pc[p][d]
    BY DEF EndsOwn, TypeOK, ThreadType
  <1>2. NoLeakedClaim'
    BY <1>0, <1>1, EndingUnleaked
  <1>3. Bundled' /\ Owned'
    BY <1>1, EndingLeak
  <1>4. CASE UNCHANGED claim /\ ~Holds(q, e)
    <2>1. Together'
      BY <1>1, <1>4 DEF LeakInv, Together, Mine, Taken, Holds, Current
    <2>2. Popped'
      BY <1>0, <1>1, <1>4 DEF LeakInv, Popped, Taken, Holds, Current
    <2> QED BY <1>2, <1>3, <2>1, <2>2 DEF LeakInv
  <1>5. CASE Holds(q, e) /\ (Finish(held[q][e], "completed") \/ Finish(held[q][e], "released"))
    <2>1. \A j \in DOMAIN held[q][e] : j \in Keys /\ ~Taken(j)'
      BY <1>5, BundleKeys DEF Finish, Taken, TypeOK, ClaimType, Rows
    <2>2. \A j \in Keys : j \notin DOMAIN held[q][e] => claim'[j] = claim[j]
      BY <1>5 DEF Finish
    <2>3. ~Holds(q, e)'
      BY <1>1, <1>5, <2>1 DEF Holds, Current
    <2>4. Popped'
      BY <1>0, <1>1, <2>3, EndingLeak DEF LeakInv, Popped
    <2>5. Together'
      <3> SUFFICES ASSUME NEW p \in Procs, NEW d \in Deliveries, NEW k \in Keys,
                          Mine(p, d, k)', Taken(k)'
                   PROVE  Holds(p, d)'
        BY DEF Together
      <3>1. Mine(p, d, k) /\ Taken(k)
        BY <1>1, EndingLeak, EndedRows
      <3>2. Holds(p, d)
        BY <3>1 DEF LeakInv, Together
      <3>3. k \notin DOMAIN held[q][e] /\ k \in DOMAIN held[p][d]
        BY <2>1, <3>1 DEF Mine
      <3>4. <<p, d>> # <<q, e>>
        BY <3>3
      <3>5. DOMAIN held[p][d] \cap DOMAIN held[q][e] = {}
        BY <1>5, <3>2, <3>4 DEF MutualExclusion
      <3>6. \A j \in DOMAIN held[p][d] : claim'[j] = claim[j]
        BY <2>2, <3>5, BundleKeys
      <3> QED BY <1>1, <3>2, <3>6 DEF Holds, Current, Taken
    <2> QED BY <1>2, <1>3, <2>4, <2>5 DEF LeakInv
  <1> QED BY <1>4, <1>5 DEF EndsOwn

(* The reservation that is popped holds nothing, so no claim is left.      *)
LEMMA PopLeak ==
    ASSUME TypeOK, LeakInv, NEW q \in Procs, NEW e \in Deliveries, PopReservation(q, e)
    PROVE  LeakInv'
  <1>1. UNCHANGED <<claim, up>> /\ ~Holds(q, e)
    BY DEF PopReservation, LeakInv, Popped
  <1>2. \A p \in Procs, d \in Deliveries :
            /\ pc'[p][d] = IF p = q /\ d = e THEN "none" ELSE pc[p][d]
            /\ held'[p][d] = IF p = q /\ d = e THEN NoClaims ELSE held[p][d]
    BY DEF PopReservation, Goto, TypeOK, ThreadType, HeldType
  <1>3. DOMAIN NoClaims = {}
    BY DEF NoClaims
  <1>4. \A p \in Procs, d \in Deliveries, k \in Keys :
            Mine(p, d, k)' <=> Mine(p, d, k) /\ <<p, d>> # <<q, e>>
    BY <1>1, <1>2, <1>3 DEF Mine
  <1>5. \A p \in Procs, d \in Deliveries :
            Holds(p, d)' <=> Holds(p, d) /\ <<p, d>> # <<q, e>>
    BY <1>1, <1>2, <1>3 DEF Holds, Current, Taken
  <1>6. Bundled'
    BY <1>1, <1>2, <1>4 DEF LeakInv, Bundled
  <1>7. Together' /\ Owned'
    BY <1>1, <1>4, <1>5 DEF LeakInv, Together, Owned, Taken
  <1>8. Popped'
    BY <1>2, <1>5 DEF LeakInv, Popped
  <1>9. NoLeakedClaim'
    <2> SUFFICES ASSUME NEW k \in Keys, Taken(k), NEW p \in Procs, p = claim[k].owner, up[p]
                 PROVE  \E d \in Deliveries : pc'[p][d] # "none" /\ Mine(p, d, k)'
      BY <1>1, <1>7 DEF NoLeakedClaim, Owned, Mine, Taken
    <2>1. PICK d \in Deliveries : pc[p][d] # "none" /\ Mine(p, d, k)
      BY DEF LeakInv, NoLeakedClaim, Mine
    <2>2. <<p, d>> # <<q, e>>
      BY <1>1, <2>1 DEF LeakInv, Together
    <2> QED BY <1>2, <1>4, <2>1, <2>2
  <1> QED BY <1>6, <1>7, <1>8, <1>9 DEF LeakInv

(* The claims of a dead process have an owner that is gone.                *)
LEMMA CrashLeak ==
    ASSUME TypeOK, LeakInv, NEW q \in Procs, Crash(q) PROVE LeakInv'
  <1>1. UNCHANGED claim /\ up' = [up EXCEPT ![q] = FALSE]
    BY DEF Crash
  <1>2. \A p \in Procs, d \in Deliveries :
            /\ pc'[p][d] = IF p = q THEN "none" ELSE pc[p][d]
            /\ held'[p][d] = IF p = q THEN NoClaims ELSE held[p][d]
    BY DEF Crash, TypeOK, ThreadType, HeldType
  <1>3. DOMAIN NoClaims = {}
    BY DEF NoClaims
  <1>4. \A p \in Procs, d \in Deliveries, k \in Keys :
            Mine(p, d, k)' <=> Mine(p, d, k) /\ p # q
    BY <1>1, <1>2, <1>3 DEF Mine
  <1>5. \A p \in Procs, d \in Deliveries : Holds(p, d)' <=> Holds(p, d) /\ p # q
    BY <1>1, <1>2, <1>3 DEF Holds, Current, Taken
  <1>6. Bundled'
    BY <1>1, <1>2, <1>4 DEF LeakInv, Bundled
  <1>7. Together' /\ Owned'
    BY <1>1, <1>4, <1>5 DEF LeakInv, Together, Owned, Taken
  <1>8. Popped'
    BY <1>2, <1>5 DEF LeakInv, Popped
  <1>9. NoLeakedClaim'
    <2> SUFFICES ASSUME NEW k \in Keys, Taken(k), NEW p \in Procs, p = claim[k].owner, up'[p]
                 PROVE  \E d \in Deliveries : pc'[p][d] # "none" /\ Mine(p, d, k)'
      BY <1>1, <1>7 DEF NoLeakedClaim, Owned, Mine, Taken
    <2>1. p # q /\ up[p]
      BY <1>1 DEF TypeOK, ProcType
    <2>2. PICK d \in Deliveries : pc[p][d] # "none" /\ Mine(p, d, k)
      BY <2>1 DEF LeakInv, NoLeakedClaim, Mine
    <2> QED BY <1>2, <1>4, <2>1, <2>2
  <1> QED BY <1>6, <1>7, <1>8, <1>9 DEF LeakInv

(* A reservation finds every key free and takes them all.                  *)
LEMMA ReserveLeak ==
    ASSUME TypeOK, FenceInv, LeakInv, NEW q \in Procs, NEW e \in Deliveries, Reserve(q, e)
    PROVE  LeakInv'
  <1> DEFINE s == scan[q].slot
             K == ClaimKeys(e, s)
             h == NextTokens(e, s)
             b == <<e, claim[DeliveryKey(e)].token + 1>>
  <1>1. /\ s \in Slots(e) /\ Claimable(e, s) /\ Claim(q, e, s) /\ up' = up
        /\ pc[q][e] = "none"
    BY DEF Reserve, Admitted, Eligible
  <1>2. K \subseteq Keys /\ DeliveryKey(e) \in K /\ K # {}
    BY <1>1, ClaimKeysInTable DEF ClaimKeys
  <1>3. \A p \in Procs, d \in Deliveries :
            /\ pc'[p][d] = IF p = q /\ d = e THEN "reserved" ELSE pc[p][d]
            /\ held'[p][d] = IF p = q /\ d = e THEN h ELSE held[p][d]
    BY DEF Reserve, TypeOK, ThreadType, HeldType
  <1>4. held[q][e] = NoClaims /\ DOMAIN held[q][e] = {}
    BY <1>1 DEF LeakInv, Popped, NoClaims
  <1>5. DOMAIN h = K /\ \A k \in K : h[k] = claim[k].token + 1
    BY DEF NextTokens
  <1>6. \A k \in K : /\ claim'[k].owner = q /\ claim'[k].token = claim[k].token + 1
                     /\ claim'[k].bundle = b /\ Taken(k)' /\ ~Taken(k)
    BY <1>1, <1>2 DEF Claim, Claimable, Taken
  <1>7. \A k \in Keys : k \notin K => claim'[k] = claim[k]
    BY <1>1 DEF Claim
  <1>8. \A p \in Procs, d \in Deliveries, k \in Keys :
            k \in K /\ k \in DOMAIN held[p][d] => held[p][d][k] # claim'[k].token
    BY <1>6, BundleKeys DEF FenceInv, TokensIssued
  <1> HIDE DEF s, K, h, b
  <1>9. \A k \in K : Mine(q, e, k)'
    BY <1>2, <1>3, <1>5, <1>6 DEF Mine
  <1>10. \A p \in Procs, d \in Deliveries, k \in Keys :
            <<p, d>> # <<q, e>> => (Mine(p, d, k)' <=> Mine(p, d, k) /\ k \notin K)
    BY <1>3, <1>7, <1>8 DEF Mine
  <1>11. \A p \in Procs, d \in Deliveries : <<p, d>> # <<q, e>> => (Holds(p, d)' <=> Holds(p, d))
    <2> SUFFICES ASSUME NEW p \in Procs, NEW d \in Deliveries, <<p, d>> # <<q, e>>
                 PROVE  Holds(p, d)' <=> Holds(p, d)
      OBVIOUS
    <2>1. held'[p][d] = held[p][d]
      BY <1>3
    <2>2. ASSUME Holds(p, d) PROVE Holds(p, d)'
      <3>1. \A k \in DOMAIN held[p][d] : k \in Keys /\ k \notin K
        BY <1>6, <2>2, BundleKeys DEF Holds, Current
      <3> QED BY <1>7, <2>1, <2>2, <3>1 DEF Holds, Current, Taken
    <2>3. ASSUME Holds(p, d)' PROVE Holds(p, d)
      <3>1. \A k \in DOMAIN held[p][d] : k \in Keys /\ k \notin K
        BY <1>8, <2>1, <2>3, BundleKeys DEF Holds, Current
      <3> QED BY <1>7, <2>1, <2>3, <3>1 DEF Holds, Current, Taken
    <2> QED BY <2>2, <2>3
  <1>12. Holds(q, e)'
    BY <1>2, <1>3, <1>5, <1>6 DEF Holds, Current
  <1>13. Mine(q, e, DeliveryKey(e))' /\ b = <<e, held'[q][e][DeliveryKey(e)]>>
    BY <1>2, <1>3, <1>5, <1>9 DEF b
  <1>14. \A k \in Keys : Mine(q, e, k)' => k \in K
    BY <1>3, <1>5 DEF Mine
  <1>15. Bundled'
    <2> SUFFICES ASSUME NEW p \in Procs, NEW d \in Deliveries, NEW k \in Keys, Mine(p, d, k)'
                 PROVE  /\ claim'[k].owner = p
                        /\ claim'[k].bundle = <<d, held'[p][d][DeliveryKey(d)]>>
      BY DEF Bundled
    <2>1. CASE p = q /\ d = e
      BY <1>6, <1>13, <1>14, <2>1
    <2>2. CASE <<p, d>> # <<q, e>>
      <3>1. Mine(p, d, k) /\ k \notin K
        BY <1>10, <2>2
      <3> QED BY <1>3, <1>7, <2>2, <3>1 DEF LeakInv, Bundled
    <2> QED BY <2>1, <2>2
  <1>16. Together'
    <2> SUFFICES ASSUME NEW p \in Procs, NEW d \in Deliveries, NEW k \in Keys, Mine(p, d, k)',
                        Taken(k)', <<p, d>> # <<q, e>>
                 PROVE  Holds(p, d)'
      BY <1>12 DEF Together
    <2>1. Mine(p, d, k) /\ Taken(k)
      BY <1>7, <1>10 DEF Taken
    <2> QED BY <1>11, <2>1 DEF LeakInv, Together
  <1>17. Popped'
    BY <1>3, <1>11 DEF LeakInv, Popped
  <1>18. Owned'
    <2> SUFFICES ASSUME NEW k \in Keys, Taken(k)' PROVE claim'[k].owner \in Procs
      BY DEF Owned
    <2> QED BY <1>6, <1>7 DEF LeakInv, Owned, Taken
  <1>19. NoLeakedClaim'
    <2> SUFFICES ASSUME NEW k \in Keys, Taken(k)', NEW p \in Procs, p = claim'[k].owner, up'[p]
                 PROVE  \E d \in Deliveries : pc'[p][d] # "none" /\ Mine(p, d, k)'
      BY <1>18 DEF NoLeakedClaim, Owned, Mine
    <2>1. CASE k \in K
      <3>1. p = q
        BY <1>6, <2>1
      <3> QED BY <1>3, <1>9, <2>1, <3>1
    <2>2. CASE k \notin K
      <3>1. Taken(k) /\ p = claim[k].owner /\ up[p]
        BY <1>1, <1>7, <2>2 DEF Taken
      <3>2. PICK d \in Deliveries : pc[p][d] # "none" /\ Mine(p, d, k)
        BY <3>1 DEF LeakInv, NoLeakedClaim, Mine
      <3>3. <<p, d>> # <<q, e>>
        BY <1>1, <3>2
      <3>4. pc'[p][d] # "none"
        BY <1>3, <3>2, <3>3
      <3>5. Mine(p, d, k)'
        BY <1>10, <2>2, <3>2, <3>3
      <3> QED BY <3>4, <3>5
    <2> QED BY <2>1, <2>2
  <1> QED BY <1>15, <1>16, <1>17, <1>18, <1>19 DEF LeakInv

(* At first nothing is claimed.                                            *)
LEMMA InitLeak == Init => LeakInv
  <1> SUFFICES ASSUME Init PROVE LeakInv
    OBVIOUS
  <1>1. \A k \in Keys : ~Taken(k)
    BY DEF Init, ClaimInit, NoRow, Taken
  <1>2. \A p \in Procs, d \in Deliveries : /\ held[p][d] = NoClaims /\ pc[p][d] = "none"
                                           /\ DOMAIN held[p][d] = {}
    BY DEF Init, NoClaims
  <1>3. Bundled /\ Together
    BY <1>1, <1>2 DEF Bundled, Together, Mine
  <1>4. Popped
    BY <1>2 DEF Popped
  <1>5. NoLeakedClaim /\ Owned
    BY <1>1 DEF NoLeakedClaim, Owned
  <1> QED BY <1>3, <1>4, <1>5 DEF LeakInv

(* Every step keeps the claims with their reservations.                    *)
LEMMA NextLeak ==
    ASSUME TypeOK, FenceInv, LeakInv, [Next]_vars PROVE LeakInv'
  BY LeakKinds, WorksOnLeak, EndsBundleLeak, EndsOwnLeak, PopLeak, CrashLeak, ReserveLeak,
     FenceExcludes

(* A live claim of a process that runs has a reservation that will end it: *)
(* no exit of _execute_reserved forgets a claim (NoLeakedClaim).           *)
THEOREM NoLeakedClaimHolds == Spec => []NoLeakedClaim
  <1>1. LeakInv => NoLeakedClaim
    BY DEF LeakInv
  <1> QED BY <1>1, InitLeak, NextLeak, TypeCorrect, FencingTokens, PTL DEF Spec

=============================================================================
