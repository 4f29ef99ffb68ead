-------------------------- MODULE AgentLoopProofs ---------------------------
(* Theorems about AgentLoop, for every number of processes, every set of   *)
(* answers, every budget and every bound on losses.                        *)
EXTENDS AgentLoop, FiniteSetTheorems, WellFoundedInduction, TLAPS

-----------------------------------------------------------------------------
(* The newest turn and the oldest delivery.                                *)

(* A set of natural numbers that is not empty has a least element.         *)
LEMMA LeastExists ==
    ASSUME NEW S \in SUBSET Nat, S # {}
    PROVE  \E x \in S : \A y \in S : x <= y
<1> DEFINE R == OpToRel(<, Nat)
<1>1. IsWellFoundedOn(R, Nat)
  BY NatLessThanWellFounded
<1>2. \E x \in S : \A y \in S : ~ (<<y, x>> \in R)
  <2> HIDE DEF R
  <2> QED  BY <1>1, WFMin
<1>3. \A x, y \in Nat : <<y, x>> \in R <=> y < x
  BY DEF OpToRel
<1> HIDE DEF R
<1>4. PICK x \in S : \A y \in S : ~ (<<y, x>> \in R)
  BY <1>2
<1>5. ASSUME NEW y \in S PROVE x <= y
  <2>1. x \in Nat /\ y \in Nat
    OBVIOUS
  <2>2. ~(y < x)
    BY <1>3, <1>4, <2>1
  <2> QED  BY <2>1, <2>2
<1> QED  BY <1>5

(* Min picks it (Dispatch).                                                *)
LEMMA MinIn == ASSUME NEW S \in SUBSET Nat, S # {} PROVE Min(S) \in S
  BY LeastExists DEF Min

(* Max of turn numbers (_recoverable_turn, _next_turn_id).                 *)
LEMMA MaxIn ==
    ASSUME NEW n \in Nat, NEW S \in SUBSET (0 .. n), S # {}
    PROVE  Max(S) \in S /\ \A y \in S : y <= Max(S)
<1> DEFINE T == {n - x : x \in S}
<1>0. \A x \in S : n - x \in Nat
  OBVIOUS
<1>1. T \in SUBSET Nat /\ T # {}
  BY <1>0
<1>2. PICK m \in T : \A k \in T : m <= k
  <2> HIDE DEF T
  <2> QED  BY <1>1, LeastExists
<1>3. PICK x \in S : m = n - x
  BY <1>2
<1>4. \A y \in S : x >= y
  BY <1>2, <1>3
<1> QED  BY <1>4 DEF Max

(* Every loss allows two turns more.                                       *)
LEMMA TurnNumbers ==
    /\ MaxTurns \in Nat
    /\ Turns \subseteq 0 .. MaxTurns
    /\ Turns \in SUBSET Nat
  BY LoopConstants DEF MaxTurns, Turns

(* Turns are finitely many, so the counts of turns are numbers.            *)
LEMMA TurnsCounted ==
    ASSUME NEW S \in SUBSET Turns PROVE IsFiniteSet(S) /\ Cardinality(S) \in Nat
<1>1. IsFiniteSet(Turns)
  BY FS_Interval, TurnNumbers DEF Turns
<1> QED  BY <1>1, FS_Subset, FS_CardinalityType

-----------------------------------------------------------------------------
(* Types.                                                                  *)

(* Where a process has no turn in hand.                                    *)
Outside == {"idle", "load", "enter", "error", "illegal", "after", "finish", "ack"}

InTurn == \A p \in Procs : pc[p] \notin Outside => turn[p] \in Turns

(* What the pipeline settles has an outcome.                               *)
SettleReady == \A p \in Procs : pc[p] = "settle" => outcome[p] # "none"

(* A nudge has a finding behind it: nobody but the owner changes the log.  *)
NudgeReady ==
    \A p \in Procs : owner = p /\ pc[p] = "nudge"
        => FirstFinding(command[turn[p]]) \in NudgeKinds

TypeInv == TypeOK /\ InTurn /\ SettleReady /\ NudgeReady

(* A nudge is a fact.                                                      *)
LEMMA NudgeFacts == \A k \in NudgeKinds : NudgeFact[k] \in FactTypes
  BY DEF NudgeKinds, NudgeFact, FactTypes, TurnCompleted

(* Appending a fact of the turn keeps the types.                           *)
LEMMA RecordType ==
    ASSUME TypeOK, NEW p \in Procs, NEW e \in FactTypes, NEW next \in PCs,
           Record(p, e, next)
    PROVE  TypeOK'
  BY TurnNumbers DEF TypeOK, Record, Append, Goto, mailVars, ledgerVars, procVars,
     toolVars

(* So does a fact of the assignment.                                       *)
LEMMA OuterType ==
    ASSUME TypeOK, NEW p \in Procs, NEW e \in FactTypes, NEW next \in PCs,
           Outer(p, e, next)
    PROVE  TypeOK'
  BY TurnNumbers DEF TypeOK, Outer, Append, Goto, mailVars, ledgerVars, procVars,
     toolVars

(* So does a change of phase, legal or not.                                *)
LEMMA TurnedType ==
    ASSUME TypeOK, NEW p \in Procs, NEW ph \in LoopPhases, NEW next \in PCs,
           Turned(p, ph, next)
    PROVE  TypeOK'
<1>1. "illegal" \in PCs
  BY DEF PCs
<1> QED
  BY <1>1 DEF TypeOK, Turned, Phase, Goto, mailVars, ledgerVars, procVars, toolVars

(* So does entering run_once.                                              *)
LEMMA LocalType ==
    ASSUME TypeOK, NEW p \in Procs, NEW t \in 0 .. MaxTurns, NEW next \in PCs,
           Local(p, t, next), outcome' \in [Procs -> Outcomes]
    PROVE  TypeOK'
<1>1. Cardinality(Started) \in Nat
  BY TurnsCounted DEF Started
<1> QED
  BY <1>1 DEF TypeOK, Local, Goto, logVars, mailVars, ledgerVars, toolVars

(* The facts, phases and places of the actions are of their types.         *)
LEMMA Names ==
    /\ {"begin", "calling", "request", "answer", "reuse", "reuse_command",
        "validate", "parse", "authorize", "execute", "prepare", "start",
        "announce", "call", "settle", "recover", "record", "result", "close",
        "act", "gate", "nudge", "submit", "waiting", "rejecting", "reject",
        "illegal", "error", "after", "finish", "ack", "idle", "load", "enter"}
           \subseteq PCs
    /\ {"model.requested", "model.response.reused", "agent.command.validated",
        "agent.command.reused", "completion.gate.passed",
        "completion.gate.failed", "agent.failed", "model.validation_failed",
        "agent.action.denied", "tool.completed", "tool.failed",
        "agent.stopped", "agent.submitted", "agent.waiting", "agent.continued",
        "a2a.message.sent", "artifact.created", "operation.unknown",
        "operation.completed", "operation.failed"} \subseteq FactTypes
    /\ {"context_building", "model_calling", "decision_validating",
        "action_authorizing", "action_executing", "result_recording",
        "waiting", "submitted", "failed"} \subseteq LoopPhases
<1>1. {"begin", "calling", "request", "answer", "reuse", "reuse_command",
       "validate", "parse", "authorize", "execute", "prepare", "start",
       "announce", "call", "settle", "recover", "record", "result", "close",
       "act", "gate", "nudge", "submit", "waiting", "rejecting", "reject",
       "illegal", "error", "after", "finish", "ack", "idle", "load", "enter"}
          \subseteq PCs
  BY DEF PCs
<1>2. {"context_building", "model_calling", "decision_validating",
       "action_authorizing", "action_executing", "result_recording",
       "waiting", "submitted", "failed"} \subseteq LoopPhases
  BY DEF LoopPhases
<1>3. {"model.requested", "model.response.reused", "agent.command.validated",
       "agent.command.reused", "completion.gate.passed",
       "completion.gate.failed", "agent.failed", "model.validation_failed",
       "agent.action.denied", "tool.completed", "tool.failed",
       "agent.stopped", "agent.submitted", "agent.waiting", "agent.continued",
       "a2a.message.sent", "artifact.created", "operation.unknown",
       "operation.completed", "operation.failed"} \subseteq FactTypes
  BY DEF FactTypes, TurnCompleted, OperationEnds
<1> QED  BY <1>1, <1>2, <1>3

(* The turns run_once takes up are turns.                                  *)
LEMMA TakesTurns ==
    ASSUME TypeOK
    PROVE  /\ Unresolved # {} => Max(Unresolved) \in Unresolved
           /\ Unfinished # {} => Max(Unfinished) \in Unfinished
           /\ \A u \in Unfinished : u <= Max(Unfinished)
           /\ Unresolved \subseteq Turns /\ Unfinished \subseteq Turns
<1>1. Unresolved \in SUBSET (0 .. MaxTurns) /\ Unfinished \in SUBSET (0 .. MaxTurns)
  BY TurnNumbers DEF Unresolved, Unfinished
<1>2. Unresolved \subseteq Turns /\ Unfinished \subseteq Turns
  BY DEF Unresolved, Unfinished
<1> QED  BY <1>1, <1>2, MaxIn, TurnNumbers

LedgerTyped ==
    /\ disk \in [Turns -> OperationStates]
    /\ loaded \in [Procs -> BOOLEAN]
    /\ mem \in [Procs -> [Turns -> OperationStates]]

(* A record of the ledger is a record.                                     *)
LEMMA StoreType ==
    ASSUME TypeOK, NEW p \in Procs, NEW t \in Turns, NEW s \in OperationStates,
           Store(p, t, s)
    PROVE  LedgerTyped'
  BY DEF Store, TypeOK, LedgerTyped

(* So is one that is left alone.                                           *)
LEMMA Unstored == ASSUME TypeOK, UNCHANGED ledgerVars PROVE LedgerTyped'
  BY DEF TypeOK, LedgerTyped, ledgerVars

(* Every step keeps the types.                                             *)
LEMMA TypeStep == TypeInv /\ [Next]_vars => TypeOK'
<1> SUFFICES ASSUME TypeInv, [Next]_vars PROVE TypeOK'
  OBVIOUS
<1> USE DEF TypeInv
<1>0. CASE UNCHANGED vars
  BY <1>0 DEF TypeOK, vars, logVars, mailVars, ledgerVars, procVars, toolVars
<1>1. ASSUME NEW p \in Procs, Load(p) PROVE TypeOK'
  BY <1>1, Names DEF TypeOK, Load, Goto, logVars, mailVars, procVars, toolVars,
     OperationStates
<1>2. ASSUME NEW p \in Procs, EnterHalted(p) PROVE TypeOK'
  BY <1>2, LocalType, Names DEF EnterHalted, TypeOK
<1>3. ASSUME NEW p \in Procs, EnterUnresolved(p) PROVE TypeOK'
  <2>1. Max(Unresolved) \in 0 .. MaxTurns
    BY <1>3, TakesTurns, TurnNumbers DEF EnterUnresolved
  <2>2. outcome' \in [Procs -> Outcomes]
    BY <1>3 DEF EnterUnresolved, Remembered, TypeOK, Outcomes
  <2> QED  BY <1>3, <2>1, <2>2, LocalType, Names DEF EnterUnresolved
<1>4. ASSUME NEW p \in Procs, EnterResponse(p) PROVE TypeOK'
  <2>1. Max(Unfinished) \in 0 .. MaxTurns
    BY <1>4, TakesTurns, TurnNumbers DEF EnterResponse, Resumable
  <2>2. AfterAnswer(Max(Unfinished)) \in PCs
    BY Names DEF AfterAnswer, AfterReuse
  <2> QED  BY <1>4, <2>1, <2>2, LocalType, Names DEF EnterResponse, TypeOK
<1>5. ASSUME NEW p \in Procs, EnterRequest(p) PROVE TypeOK'
  BY <1>5, LocalType, TurnNumbers, Names DEF EnterRequest, TypeOK
<1>6. ASSUME NEW p \in Procs, EnterFresh(p) PROVE TypeOK'
  BY <1>6, LocalType, TurnNumbers, Names DEF EnterFresh, TypeOK
<1>7. ASSUME NEW p \in Procs, Begin(p) PROVE TypeOK'
  BY <1>7, TurnedType, Names DEF Begin
<1>8. ASSUME NEW p \in Procs, Calling(p) PROVE TypeOK'
  BY <1>8, TurnedType, Names DEF Calling
<1>9. ASSUME NEW p \in Procs, Request(p) PROVE TypeOK'
  BY <1>9, RecordType, Names DEF Request
<1>10. ASSUME NEW p \in Procs, Answer(p) PROVE TypeOK'
  <2>1. turn[p] \in Turns
    BY <1>10 DEF Answer, InTurn, Outside
  <2>2. pc' \in [Procs -> PCs]
    BY <1>10, Names DEF Answer, TypeOK, Goto
  <2>3. command' \in [Turns -> Commands \cup {"none"}]
    BY <1>10, <2>1 DEF Answer, TypeOK
  <2> QED  BY <1>10, <2>2, <2>3 DEF TypeOK, Answer, mailVars, ledgerVars, procVars,
           toolVars
<1>11. ASSUME NEW p \in Procs, Reuse(p) PROVE TypeOK'
  BY <1>11, RecordType, Names DEF Reuse, AfterReuse
<1>12. ASSUME NEW p \in Procs, ReuseCommand(p) PROVE TypeOK'
  BY <1>12, RecordType, Names DEF ReuseCommand
<1>13. ASSUME NEW p \in Procs, Validate(p) PROVE TypeOK'
  BY <1>13, TurnedType, Names DEF Validate
<1>14. ASSUME NEW p \in Procs, Parse(p) PROVE TypeOK'
  <2>1. CASE command[turn[p]] = "malformed"
    BY <1>14, <2>1, Names DEF Parse, TypeOK, Goto, logVars, mailVars,
            ledgerVars, procVars, toolVars
  <2>2. CASE command[turn[p]] # "malformed"
    BY <1>14, <2>2, RecordType, Names DEF Parse
  <2> QED  BY <2>1, <2>2
<1>15. ASSUME NEW p \in Procs, Authorize(p) PROVE TypeOK'
  BY <1>15, TurnedType, Names DEF Authorize
<1>16. ASSUME NEW p \in Procs, Rejecting(p) PROVE TypeOK'
  BY <1>16, TurnedType, Names DEF Rejecting
<1>17. ASSUME NEW p \in Procs, Reject(p) PROVE TypeOK'
  BY <1>17, RecordType, Names DEF Reject
<1>18. ASSUME NEW p \in Procs, Execute(p) PROVE TypeOK'
  BY <1>18, TurnedType, Names DEF Execute
<1>19. ASSUME NEW p \in Procs, Prepare(p) PROVE TypeOK'
  <2>1. turn[p] \in Turns
    BY <1>19 DEF Prepare, InTurn, Outside
  <2>2. LedgerTyped'
    BY <1>19, <2>1, StoreType, Unstored DEF Prepare, OperationStates
  <2>3. pc' \in [Procs -> PCs]
    BY <1>19, Names DEF Prepare, TypeOK, Goto
  <2> QED  BY <1>19, <2>2, <2>3 DEF TypeOK, LedgerTyped, Prepare, logVars, mailVars,
           procVars, toolVars
<1>20. ASSUME NEW p \in Procs, Start(p) PROVE TypeOK'
  <2>1. turn[p] \in Turns
    BY <1>20 DEF Start, InTurn, Outside
  <2>2. LedgerTyped'
    BY <1>20, <2>1, StoreType, Unstored DEF Start, OperationStates
  <2>4. Existing(p, turn[p]) \subseteq Outcomes
    BY DEF Existing, Remembered, Outcomes
  <2>3. pc' \in [Procs -> PCs] /\ outcome' \in [Procs -> Outcomes]
    <3>1. pc' \in [Procs -> PCs]
      BY <1>20, Names DEF Start, TypeOK, Goto
    <3>2. outcome' \in [Procs -> Outcomes]
      BY <1>20, <2>4 DEF Start, TypeOK
    <3> QED  BY <3>1, <3>2
  <2> QED  BY <1>20, <2>2, <2>3 DEF TypeOK, LedgerTyped, Start, logVars, mailVars,
           toolVars
<1>21. ASSUME NEW p \in Procs, Announce(p) PROVE TypeOK'
  <2>3. turn[p] \in Turns
    BY <1>21 DEF Announce, InTurn, Outside
  <2>1. pc' \in [Procs -> PCs] /\ starts' \in [Turns -> Nat]
    BY <1>21, Names, <2>3 DEF Announce, TypeOK, Goto
  <2> QED  BY <1>21, <2>1 DEF TypeOK, Announce, logVars, mailVars,
            ledgerVars, procVars, toolVars
<1>22. ASSUME NEW p \in Procs, Call(p) PROVE TypeOK'
  <2>3. turn[p] \in Turns
    BY <1>22 DEF Call, InTurn, Outside
  <2>2. result' \in [Turns -> Outcomes] /\ calls' \in [Turns -> Nat]
    BY <1>22, <2>3 DEF Call, TypeOK, Outcomes
  <2>1. pc' \in [Procs -> PCs] /\ outcome' \in [Procs -> Outcomes]
    BY <1>22, Names DEF Call, TypeOK, Goto, Outcomes
  <2> QED  BY <1>22, <2>1, <2>2 DEF TypeOK, Call, logVars, mailVars,
            ledgerVars, procVars, toolVars
<1>23. ASSUME NEW p \in Procs, Settle(p) PROVE TypeOK'
  <2>1. LedgerState[outcome[p]] \in OperationStates
    BY <1>23 DEF Settle, SettleReady, TypeOK, Outcomes, LedgerState, OperationStates
  <2> QED  BY <1>23, <2>1, Names DEF TypeOK, Settle, Store, Goto, logVars, mailVars,
            ledgerVars, procVars, toolVars
<1>24. ASSUME NEW p \in Procs, Recover(p) PROVE TypeOK'
  BY <1>24, TurnedType, Names DEF Recover
<1>25. ASSUME NEW p \in Procs, RecordResult(p) PROVE TypeOK'
  BY <1>25, TurnedType, Names DEF RecordResult
<1>26. ASSUME NEW p \in Procs, Result(p) PROVE TypeOK'
  BY <1>26, RecordType, Names DEF Result
<1>27. ASSUME NEW p \in Procs, Close(p) PROVE TypeOK'
  BY <1>27, RecordType, Names DEF Close
<1>28. ASSUME NEW p \in Procs, Gate(p) PROVE TypeOK'
  BY <1>28, RecordType, Names DEF Gate
<1>29. ASSUME NEW p \in Procs, Nudge(p) PROVE TypeOK'
  <2> DEFINE kind == FirstFinding(command[turn[p]])
  <2>1. kind \in NudgeKinds
    BY <1>29 DEF Nudge, Record, Append, Writable, NudgeReady
  <2> HIDE DEF kind
  <2>2. NudgeFact[kind] \in FactTypes
    BY <2>1, NudgeFacts
  <2> QED  BY <1>29, <2>2, RecordType, Names DEF Nudge, kind
<1>30. ASSUME NEW p \in Procs, Submit(p) PROVE TypeOK'
  BY <1>30, TurnedType, Names DEF Submit
<1>31. ASSUME NEW p \in Procs, Act(p) PROVE TypeOK'
  <2>1. PICK e \in FactTypes : Record(p, e, "after") \/ Turned(p, "waiting", "waiting")
    BY <1>31, Names DEF Act
  <2> QED  BY <2>1, RecordType, TurnedType, Names
<1>32. ASSUME NEW p \in Procs, Waiting(p) PROVE TypeOK'
  BY <1>32, RecordType, Names DEF Waiting
<1>33. ASSUME NEW p \in Procs, StepFailed(p) PROVE TypeOK'
  BY <1>33, OuterType, Names DEF StepFailed
<1>34. ASSUME NEW p \in Procs, AfterTerminal(p) PROVE TypeOK'
  BY <1>34, Names DEF TypeOK, AfterTerminal, Goto, logVars, mailVars, ledgerVars,
     procVars, toolVars
<1>35. ASSUME NEW p \in Procs, Finish(p) PROVE TypeOK'
  BY <1>35, Names DEF TypeOK, Finish, Goto, mailVars, ledgerVars, procVars, toolVars
<1>36. ASSUME NEW p \in Procs, Pause(p) PROVE TypeOK'
  BY <1>36, Names DEF TypeOK, Pause, Goto, mailVars, ledgerVars, procVars, toolVars
<1>37. ASSUME NEW p \in Procs, Exhaust(p) PROVE TypeOK'
  BY <1>37, OuterType, Names DEF Exhaust
<1>38. ASSUME NEW p \in Procs, Ready(p) PROVE TypeOK'
  <2>1. Cardinality(Answered) \in Nat
    BY TurnsCounted DEF Answered
  <2>2. pc' \in [Procs -> PCs]
    BY <1>38, Names DEF Ready, TypeOK, Goto
  <2> DEFINE next == Cardinality(Answered) + 1
  <2>4. /\ queue' = IF next > sent THEN queue \cup {next} ELSE queue
        /\ sent' = IF next > sent THEN next ELSE sent
    BY <1>38 DEF Ready
  <2>5. next \in Nat
    BY <2>1
  <2> HIDE DEF next
  <2>3. queue' \in SUBSET Nat /\ sent' \in Nat
    BY <2>4, <2>5 DEF TypeOK
  <2> QED  BY <1>38, <2>2, <2>3 DEF TypeOK, Ready, ledgerVars, procVars, toolVars
<1>39. ASSUME NEW p \in Procs, Ack(p) PROVE TypeOK'
  <2>1. pc' \in [Procs -> PCs] /\ turn' \in [Procs -> 0 .. MaxTurns]
    BY <1>39, Names, TurnNumbers DEF Ack, TypeOK, Goto, Leave
  <2> QED  BY <1>39, <2>1 DEF TypeOK, Ack, Leave, Outcomes, logVars, mailVars,
            ledgerVars, procVars, toolVars
<1>40. ASSUME NEW p \in Procs, Abandon(p) PROVE TypeOK'
  BY <1>40, Names, TurnNumbers DEF TypeOK, Abandon, Leave, Goto, logVars, mailVars,
     ledgerVars, toolVars, Outcomes
<1>41. ASSUME NEW p \in Procs, Dispatch(p) PROVE TypeOK'
  <2>2. Min(queue) \in Nat
    BY <1>41, MinIn DEF Dispatch, TypeOK
  <2>1. pc' \in [Procs -> PCs] /\ losses' \in 0 .. MaxLosses
    BY <1>41, Names, LoopConstants DEF Dispatch, TypeOK, Goto
  <2> QED  BY <1>41, <2>1, <2>2 DEF TypeOK, Dispatch, logVars, mailVars,
            ledgerVars, procVars, toolVars
<1>42. ASSUME NEW p \in Procs, Heartbeat(p) PROVE TypeOK'
  BY <1>42 DEF TypeOK, Heartbeat, mailVars, ledgerVars, procVars, toolVars
<1>43. ASSUME NEW p \in Procs, Crash(p) PROVE TypeOK'
  BY <1>43, Names, TurnNumbers, LoopConstants DEF TypeOK, Crash, Leave, Goto,
     logVars, mailVars, toolVars, Outcomes, OperationStates
<1>44. ASSUME NEW p \in Procs, Injected(p) PROVE TypeOK'
  <2>1. pc' \in [Procs -> PCs] /\ turn' \in [Procs -> 0 .. MaxTurns] /\ losses' \in 0 .. MaxLosses
    BY <1>44, Names, TurnNumbers, LoopConstants DEF Injected, TypeOK, Goto, Leave
  <2> QED  BY <1>44, <2>1 DEF TypeOK, Injected, Leave, Outcomes, logVars, mailVars,
            ledgerVars, procVars, toolVars
<1> QED
  BY <1>0, <1>1, <1>2, <1>3, <1>4, <1>5, <1>6, <1>7, <1>8, <1>9, <1>10, <1>11,
     <1>12, <1>13, <1>14, <1>15, <1>16, <1>17, <1>18, <1>19, <1>20, <1>21, <1>22,
     <1>23, <1>24, <1>25, <1>26, <1>27, <1>28, <1>29, <1>30, <1>31, <1>32, <1>33,
     <1>34, <1>35, <1>36, <1>37, <1>38, <1>39, <1>40, <1>41, <1>42, <1>43, <1>44 DEF
     Next, Step

-----------------------------------------------------------------------------
(* Who may change what.                                                    *)

Does(p) == Step(p) \/ Dispatch(p) \/ Heartbeat(p) \/ Crash(p) \/ Injected(p)

(* Actions that append one fact of the turn.                               *)
Recording(p) ==
    \/ Request(p) \/ Reuse(p) \/ ReuseCommand(p) \/ Reject(p) \/ Result(p)
    \/ Close(p) \/ Gate(p) \/ Nudge(p) \/ Waiting(p)

(* Actions that change the phase of the turn.                              *)
Turning(p) ==
    \/ Begin(p) \/ Calling(p) \/ Validate(p) \/ Authorize(p) \/ Rejecting(p)
    \/ Execute(p) \/ Recover(p) \/ RecordResult(p) \/ Submit(p)

(* Actions that read the log and pick a turn.                              *)
Entering(p) ==
    \/ EnterHalted(p) \/ EnterUnresolved(p) \/ EnterResponse(p)
    \/ EnterRequest(p) \/ EnterFresh(p)

(* The locals of a process are its own.                                    *)
LEMMA Locals ==
    ASSUME TypeOK, NEW p \in Procs, Does(p), NEW q \in Procs, q # p
    PROVE  /\ pc'[q] = pc[q] /\ turn'[q] = turn[q] /\ outcome'[q] = outcome[q]
           /\ used'[q] = used[q]
<1> DEFINE Own == /\ pc'[q] = pc[q] /\ turn'[q] = turn[q]
                  /\ outcome'[q] = outcome[q] /\ used'[q] = used[q]
<1>1. \A e, next : Record(p, e, next) => Own
  BY DEF Record, Goto, procVars, TypeOK
<1>2. \A ph, next : Turned(p, ph, next) => Own
  BY DEF Turned, Phase, Goto, procVars, TypeOK
<1>3. \A e, next : Outer(p, e, next) => Own
  BY DEF Outer, Goto, procVars, TypeOK
<1>4. Leave(p) => Own
  BY DEF Leave, Goto, TypeOK
<1> SUFFICES Own  OBVIOUS
<1> HIDE DEF Own
<1>5. CASE Recording(p)
  BY <1>1, <1>5 DEF Recording, Request, Reuse, ReuseCommand, Reject, Result,
     Close, Gate, Nudge, Waiting
<1>6. CASE Turning(p)
  BY <1>2, <1>6 DEF Turning, Begin, Calling, Validate, Authorize, Rejecting,
     Execute, Recover, RecordResult, Submit
<1>7. CASE Act(p) \/ StepFailed(p) \/ Exhaust(p)
  BY <1>1, <1>2, <1>3, <1>7 DEF Act, StepFailed, Exhaust
<1>8. CASE Ack(p) \/ Abandon(p) \/ Crash(p) \/ Injected(p)
  BY <1>4, <1>8 DEF Ack, Abandon, Crash, Injected
<1>9. CASE Entering(p)
  BY <1>9 DEF Entering, EnterHalted, EnterUnresolved, EnterResponse, EnterRequest,
     EnterFresh, Local, Goto, TypeOK, Own
<1>10. CASE Parse(p)
  <2>1. CASE command[turn[p]] = "malformed"
    BY <1>10, <2>1 DEF Parse, Goto, procVars, TypeOK, Own
  <2>2. CASE command[turn[p]] # "malformed"
    BY <1>1, <1>10, <2>2 DEF Parse
  <2> QED  BY <2>1, <2>2
<1>11. CASE Load(p) \/ Answer(p) \/ Prepare(p) \/ Announce(p)
  BY <1>11 DEF Load, Answer, Prepare, Announce, Goto, procVars, TypeOK, Own
<1>12. CASE Start(p)
  BY <1>12 DEF Start, Goto, TypeOK, Own
<1>13. CASE Call(p)
  BY <1>13 DEF Call, Goto, TypeOK, Own
<1>14. CASE Settle(p) \/ AfterTerminal(p) \/ Finish(p) \/ Pause(p)
  BY <1>14 DEF Settle, AfterTerminal, Finish, Pause, Goto, procVars, TypeOK, Own
<1>15. CASE Ready(p) \/ Heartbeat(p)
  BY <1>15 DEF Ready, Heartbeat, Goto, procVars, TypeOK, Own
<1>16. CASE Dispatch(p)
  BY <1>16 DEF Dispatch, Goto, TypeOK, Own
<1> QED
  BY <1>5, <1>6, <1>7, <1>8, <1>9, <1>10, <1>11, <1>12, <1>13, <1>14, <1>15, <1>16
     DEF Does, Step, Recording, Turning, Entering

(* The fence: behind an owner's back nobody writes its log, and nobody     *)
(* but a process itself makes it the owner.                                *)
LEMMA Fenced ==
    ASSUME TypeOK, NEW p \in Procs, Does(p), NEW q \in Procs, q # p, owner' = q
    PROVE  owner = q /\ UNCHANGED <<facts, phase, command, starts>>
<1> DEFINE Kept == owner = q /\ UNCHANGED <<facts, phase, command, starts>>
<1>0. None # q
  BY LoopConstants
<1>1. \A e, next : Record(p, e, next) => Kept
  BY DEF Record, Append, Writable
<1>2. \A ph, next : Turned(p, ph, next) => Kept
  BY DEF Turned, Phase, Writable
<1>3. \A e, next : Outer(p, e, next) => Kept
  BY DEF Outer, Append, Writable
<1> SUFFICES Kept  OBVIOUS
<1> HIDE DEF Kept
<1>5. CASE Recording(p)
  BY <1>1, <1>5 DEF Recording, Request, Reuse, ReuseCommand, Reject, Result,
     Close, Gate, Nudge, Waiting
<1>6. CASE Turning(p)
  BY <1>2, <1>6 DEF Turning, Begin, Calling, Validate, Authorize, Rejecting,
     Execute, Recover, RecordResult, Submit
<1>7. CASE Act(p) \/ StepFailed(p) \/ Exhaust(p)
  BY <1>1, <1>2, <1>3, <1>7 DEF Act, StepFailed, Exhaust
<1>8. CASE Ack(p) \/ Abandon(p) \/ Crash(p) \/ Injected(p)
  BY <1>0, <1>8 DEF Ack, Abandon, Crash, Injected, logVars, Kept
<1>9. CASE Entering(p)
  BY <1>9 DEF Entering, EnterHalted, EnterUnresolved, EnterResponse, EnterRequest,
     EnterFresh, Local, logVars, Kept
<1>10. CASE Parse(p)
  <2>1. CASE command[turn[p]] = "malformed"
    BY <1>10, <2>1 DEF Parse, logVars, Kept
  <2>2. CASE command[turn[p]] # "malformed"
    BY <1>1, <1>10, <2>2 DEF Parse
  <2> QED  BY <2>1, <2>2
<1>11. CASE Load(p) \/ Answer(p) \/ Prepare(p) \/ Announce(p)
  BY <1>11 DEF Load, Answer, Prepare, Announce, Writable, logVars, Kept
<1>12. CASE Start(p) \/ Call(p) \/ Settle(p)
  BY <1>12 DEF Start, Call, Settle, logVars, Kept
<1>14. CASE AfterTerminal(p) \/ Finish(p) \/ Pause(p)
  BY <1>14 DEF AfterTerminal, Finish, Pause, logVars, Kept
<1>15. CASE Ready(p) \/ Heartbeat(p) \/ Dispatch(p)
  BY <1>15 DEF Ready, Heartbeat, Dispatch, Kept
<1> QED
  BY <1>5, <1>6, <1>7, <1>8, <1>9, <1>10, <1>11, <1>12, <1>14, <1>15
     DEF Does, Step, Recording, Turning, Entering

(* A process that works on a turn has one.                                 *)
LEMMA InTurnStep == ASSUME TypeInv, NEW p \in Procs, Does(p) PROVE InTurn'
<1> USE DEF TypeInv
<1> DEFINE Held == pc'[p] \notin Outside => turn'[p] \in Turns
<1> SUFFICES Held
  BY Locals DEF InTurn
<1>0. pc[p] \notin Outside => turn[p] \in Turns
  BY DEF InTurn
<1>1. ASSUME turn' = turn, pc[p] \notin Outside PROVE Held
  BY <1>0, <1>1
<1>2. ASSUME pc'[p] \in Outside PROVE Held
  BY <1>2
<1>3. \A e, next : Record(p, e, next) => turn' = turn
  BY DEF Record, procVars
<1>4. \A ph, next : Turned(p, ph, next) => turn' = turn
  BY DEF Turned, procVars
<1> HIDE DEF Held
<1>5. CASE Recording(p)
  <2>1. pc[p] \notin Outside
    BY <1>5 DEF Outside, Recording, Request, Reuse, ReuseCommand, Reject, Result,
       Close, Gate, Nudge, Waiting
  <2>2. turn' = turn
    BY <1>3, <1>5 DEF Recording, Request, Reuse, ReuseCommand, Reject, Result,
       Close, Gate, Nudge, Waiting
  <2> QED  BY <1>1, <2>1, <2>2
<1>6. CASE Turning(p)
  <2>1. pc[p] \notin Outside
    BY <1>6 DEF Outside, Turning, Begin, Calling, Validate, Authorize, Rejecting,
       Execute, Recover, RecordResult, Submit
  <2>2. turn' = turn
    BY <1>4, <1>6 DEF Turning, Begin, Calling, Validate, Authorize, Rejecting,
       Execute, Recover, RecordResult, Submit
  <2> QED  BY <1>1, <2>1, <2>2
<1>7. CASE Act(p)
  <2>1. pc[p] \notin Outside /\ turn' = turn
    BY <1>3, <1>4, <1>7 DEF Act, Outside
  <2> QED  BY <1>1, <2>1
<1>8. CASE Ack(p) \/ Abandon(p) \/ Crash(p) \/ Injected(p)
  BY <1>2, <1>8 DEF Ack, Abandon, Crash, Injected, Leave, Goto, Outside, TypeOK
<1>9. CASE Entering(p)
  <2>1. CASE EnterHalted(p)
    BY <1>2, <2>1 DEF EnterHalted, Local, Goto, Outside, TypeOK
  <2>2. CASE EnterUnresolved(p)
    BY <2>2, TakesTurns DEF EnterUnresolved, Local, TypeOK, Held
  <2>3. CASE EnterResponse(p)
    BY <2>3, TakesTurns DEF EnterResponse, Resumable, Local, TypeOK, Held
  <2>4. CASE EnterRequest(p) \/ EnterFresh(p)
    BY <2>4 DEF EnterRequest, EnterFresh, Local, Goto, Outside, TypeOK, Held
  <2> QED  BY <1>9, <2>1, <2>2, <2>3, <2>4 DEF Entering
<1>10. CASE Parse(p)
  <2>1. pc[p] \notin Outside
    BY <1>10 DEF Parse, Outside
  <2>2. turn' = turn
    BY <1>3, <1>10 DEF Parse, procVars
  <2> QED  BY <1>1, <2>1, <2>2
<1>11. CASE Answer(p) \/ Prepare(p) \/ Announce(p)
  BY <1>1, <1>11 DEF Answer, Prepare, Announce, Outside, procVars
<1>12. CASE Start(p) \/ Call(p) \/ Settle(p)
  BY <1>1, <1>12 DEF Start, Call, Settle, Outside, procVars
<1>13. CASE Load(p) \/ Dispatch(p)
  BY <1>2, <1>13 DEF Load, Dispatch, Goto, Outside, TypeOK
<1>14. CASE AfterTerminal(p) \/ Finish(p) \/ Pause(p) \/ Ready(p)
  BY <1>2, <1>14 DEF AfterTerminal, Finish, Pause, Ready, Goto, Outside, TypeOK
<1>15. CASE StepFailed(p) \/ Exhaust(p)
  BY <1>2, <1>15 DEF StepFailed, Exhaust, Outer, Goto, Outside, TypeOK
<1>16. CASE Heartbeat(p)
  BY <1>0, <1>16 DEF Heartbeat, procVars, Held
<1> QED
  BY <1>5, <1>6, <1>7, <1>8, <1>9, <1>10, <1>11, <1>12, <1>13, <1>14, <1>15, <1>16
     DEF Does, Step, Recording, Turning, Entering

(* Where a process comes from, for the places the invariants hang on.      *)
LEMMA Comes ==
    ASSUME TypeOK, NEW p \in Procs, Does(p), ~Heartbeat(p)
    PROVE  /\ pc'[p] = "begin" => EnterRequest(p) \/ EnterFresh(p)
           /\ pc'[p] = "prepare" => Execute(p)
           /\ pc'[p] = "start" => Prepare(p)
           /\ pc'[p] = "announce" => Start(p)
           /\ pc'[p] = "call" => Announce(p)
           /\ pc'[p] = "settle" => Call(p)
           /\ pc'[p] = "close" => Result(p) \/ Recover(p)
           /\ pc'[p] = "nudge" => Gate(p)
           /\ pc'[p] = "calling" => Begin(p)
           /\ pc'[p] = "request" => Calling(p)
           /\ pc'[p] = "answer" => Request(p)
           /\ pc'[p] = "load" => Dispatch(p)
           /\ pc'[p] = "enter" => Dispatch(p) \/ Load(p)
           /\ pc'[p] = "idle" => Leave(p)
<1> DEFINE Places == {"begin", "prepare", "start", "announce", "call", "settle",
                      "close", "nudge", "calling", "request", "answer", "load",
                      "enter", "idle"}
<1>1. \A e, next : Record(p, e, next) => pc'[p] = next
  BY DEF Record, Goto, TypeOK
<1>2. \A ph, next : Turned(p, ph, next) => pc'[p] = next \/ pc'[p] = "illegal"
  BY DEF Turned, Phase, Goto, TypeOK
<1>3. \A next : Goto(p, next) => pc'[p] = next
  BY DEF Goto, TypeOK
<1>4. /\ Execute(p) => pc'[p] \in {"prepare", "illegal"}
      /\ Prepare(p) => pc'[p] \in {"start", "rejecting"}
      /\ Start(p) => pc'[p] \in {"announce", "record"}
      /\ Announce(p) => pc'[p] = "call"
      /\ Call(p) => pc'[p] = "settle"
      /\ Result(p) => pc'[p] \in {"close", "after"}
      /\ Recover(p) => pc'[p] \in {"close", "result", "illegal"}
      /\ Gate(p) => pc'[p] \in {"nudge", "submit", "act"}
      /\ Begin(p) => pc'[p] \in {"calling", "illegal"}
      /\ Calling(p) => pc'[p] \in {"request", "illegal"}
      /\ Request(p) => pc'[p] = "answer"
      /\ EnterRequest(p) => pc'[p] \in {"begin", "error"}
      /\ EnterFresh(p) => pc'[p] = "begin"
      /\ Dispatch(p) => pc'[p] \in {"load", "enter"}
      /\ Load(p) => pc'[p] = "enter"
      /\ Leave(p) => pc'[p] = "idle"
  BY <1>1, <1>2, <1>3 DEF Execute, Prepare, Start, Announce, Call, Result, Recover,
     Gate, Begin, Calling, Request, EnterRequest, EnterFresh, Local, Dispatch, Load,
     Leave
<1>5. CASE Reuse(p) \/ ReuseCommand(p) \/ Reject(p) \/ Close(p) \/ Nudge(p)
           \/ Waiting(p)
  <2>1. pc'[p] \notin Places
    BY <1>1, <1>5 DEF Reuse, ReuseCommand, Reject, Close, Nudge, Waiting, AfterReuse
  <2> QED  BY <2>1
<1>6. CASE Validate(p) \/ Authorize(p) \/ Rejecting(p) \/ RecordResult(p) \/ Submit(p)
  <2>1. pc'[p] \notin Places
    BY <1>2, <1>6 DEF Validate, Authorize, Rejecting, RecordResult, Submit
  <2> QED  BY <2>1
<1>7. CASE Act(p) \/ Parse(p) \/ StepFailed(p) \/ Exhaust(p)
  <2>1. pc'[p] \notin Places
    BY <1>1, <1>2, <1>3, <1>7 DEF Act, Parse, StepFailed, Exhaust, Outer
  <2> QED  BY <2>1
<1>8. Ack(p) \/ Abandon(p) \/ Crash(p) \/ Injected(p) => Leave(p)
  BY DEF Ack, Abandon, Crash, Injected
<1>9. CASE EnterHalted(p) \/ EnterUnresolved(p) \/ EnterResponse(p)
  <2>1. pc'[p] \notin Places
    BY <1>3, <1>9 DEF EnterHalted, EnterUnresolved, EnterResponse, Local,
       AfterAnswer, AfterReuse
  <2> QED  BY <2>1
<1>10. CASE Answer(p) \/ Settle(p)
  <2>1. pc'[p] \notin Places
    BY <1>3, <1>10 DEF Answer, Settle
  <2> QED  BY <2>1
<1>11. CASE AfterTerminal(p) \/ Finish(p) \/ Pause(p) \/ Ready(p)
  <2>1. pc'[p] \notin Places
    BY <1>3, <1>11 DEF AfterTerminal, Finish, Pause, Ready
  <2> QED  BY <2>1
<1> HIDE DEF Places
<1> QED
  BY <1>4, <1>5, <1>6, <1>7, <1>8, <1>9, <1>10, <1>11 DEF Does, Step

(* A heartbeat changes nothing that an invariant below speaks of.          *)
LEMMA Beats ==
    ASSUME NEW p \in Procs, Heartbeat(p)
    PROVE  UNCHANGED <<facts, phase, command, starts, run, owner, ledgerVars, pc,
                       procVars, toolVars>>
  BY DEF Heartbeat

(* What is settled has an outcome, and a nudge has a finding.              *)
LEMMA ReadyStep ==
    ASSUME TypeInv, NEW p \in Procs, Does(p) PROVE SettleReady' /\ NudgeReady'
<1> USE DEF TypeInv
<1>1. pc'[p] = "settle" => outcome'[p] # "none"
  <2>1. Call(p) => outcome'[p] # "none"
    BY DEF Call, TypeOK
  <2>2. Heartbeat(p) => pc'[p] = pc[p] /\ outcome'[p] = outcome[p]
    BY DEF Heartbeat, procVars
  <2> QED  BY <2>1, <2>2, Comes, Beats DEF SettleReady
<1>2. SettleReady'
  BY <1>1, Locals DEF SettleReady
<1>3. ASSUME UNCHANGED <<facts, command, starts>>
      PROVE  \A c : FirstFinding(c)' = FirstFinding(c)
  BY <1>3 DEF FirstFinding, Evidence, Unresolved, Has
<1>4. ASSUME NEW q \in Procs, q # p, owner' = q, pc'[q] = "nudge"
      PROVE  FirstFinding(command[turn[q]])' \in NudgeKinds
  <2>1. owner = q /\ UNCHANGED <<facts, command, starts>> /\ pc[q] = "nudge"
          /\ turn'[q] = turn[q]
    BY <1>4, Fenced, Locals
  <2>2. FirstFinding(command[turn[q]])' = FirstFinding(command[turn[q]])
    BY <2>1, <1>3 DEF FirstFinding, Evidence, Unresolved, Has
  <2> QED  BY <2>1, <2>2 DEF NudgeReady
<1>5. ASSUME owner' = p, pc'[p] = "nudge"
      PROVE  FirstFinding(command[turn[p]])' \in NudgeKinds
  <2>1. CASE Heartbeat(p)
    BY <1>5, <2>1 DEF Heartbeat, NudgeReady, procVars, FirstFinding, Evidence,
       Unresolved, Has
  <2>2. CASE Gate(p)
    <3> DEFINE c == command[turn[p]]
    <3>1. FirstFinding(c) # "none"
      BY <1>5, <2>2 DEF Gate, Record, Goto, TypeOK
    <3>2. FirstFinding(c) \in NudgeKinds
      BY <3>1 DEF FirstFinding, NudgeKinds
    <3>3. /\ facts' = facts \cup {<<turn[p], "completion.gate.failed">>}
          /\ UNCHANGED <<command, starts, turn>>
      BY <3>1, <2>2 DEF Gate, Record, Append, procVars
    <3>4. \A e : \A t \in Turns : e # "completion.gate.failed" => (Has(t, e)' <=> Has(t, e))
      BY <3>3 DEF Has
    <3>5. Evidence' <=> Evidence
      BY <3>4 DEF Evidence
    <3>6. Unresolved' = Unresolved
      BY <3>3, <3>4 DEF Unresolved, OperationEnds
    <3>7. FirstFinding(c)' = FirstFinding(c)
      BY <3>3, <3>5, <3>6 DEF FirstFinding
    <3> QED  BY <3>2, <3>7
  <2> QED  BY <1>5, <2>1, <2>2, Comes
<1> QED  BY <1>2, <1>4, <1>5 DEF NudgeReady

(* The invariant behind the types is inductive.                            *)
LEMMA TypeInvStep == TypeInv /\ [Next]_vars => TypeInv'
<1> SUFFICES ASSUME TypeInv, [Next]_vars PROVE TypeInv'
  OBVIOUS
<1>1. TypeOK'
  BY TypeStep
<1>2. CASE UNCHANGED vars
  BY <1>1, <1>2 DEF TypeInv, InTurn, SettleReady, NudgeReady, FirstFinding, Evidence,
     Unresolved, Has, vars, logVars, procVars
<1>3. CASE \E p \in Procs : Does(p)
  BY <1>1, <1>3, InTurnStep, ReadyStep DEF TypeInv
<1> QED  BY <1>2, <1>3 DEF Next, Does

(* It holds at the start.                                                  *)
LEMMA TypeInit == Init => TypeInv
<1> SUFFICES ASSUME Init PROVE TypeInv
  OBVIOUS
<1>1. /\ pc \in [Procs -> PCs] /\ turn \in [Procs -> 0 .. MaxTurns]
      /\ losses \in 0 .. MaxLosses
  BY LoopConstants, TurnNumbers DEF Init, PCs
<1>2. /\ disk \in [Turns -> OperationStates]
      /\ mem \in [Procs -> [Turns -> OperationStates]]
  BY DEF Init, OperationStates
<1>3. result \in [Turns -> Outcomes] /\ outcome \in [Procs -> Outcomes]
  BY DEF Init, Outcomes
<1>4. /\ phase \in [Turns -> LoopPhases \cup {"none"}]
      /\ command \in [Turns -> Commands \cup {"none"}]
      /\ starts \in [Turns -> Nat] /\ calls \in [Turns -> Nat]
      /\ job \in [Procs -> Nat] /\ used \in [Procs -> Nat]
      /\ loaded \in [Procs -> BOOLEAN]
  BY DEF Init
<1>5. facts \subseteq (0 .. MaxTurns) \X FactTypes
  BY DEF Init
<1>6. quiet \in BOOLEAN
  BY DEF Init
<1>7. queue \in SUBSET Nat /\ sent \in Nat
  BY DEF Init
<1>8. /\ run \in {"running", "paused", "succeeded", "failed"}
      /\ owner \in Procs \cup {None}
  BY DEF Init
<1>9. TypeOK
  BY <1>1, <1>2, <1>3, <1>4, <1>8, <1>5, <1>6, <1>7 DEF TypeOK
<1>10. InTurn /\ SettleReady /\ NudgeReady
  BY DEF Init, InTurn, Outside, SettleReady, NudgeReady
<1> QED  BY <1>9, <1>10 DEF TypeInv

(* Every variable keeps its type, in every behaviour.                      *)
THEOREM TypeCorrect == Spec => []TypeOK
  BY TypeInit, TypeInvStep, PTL DEF Spec, TypeInv

-----------------------------------------------------------------------------
(* A tool runs once.                                                       *)

(* Phases a turn goes through before its action is executed.               *)
Early == {"none", "context_building", "model_calling", "decision_validating",
          "action_authorizing"}

NotYetStarted == \A t \in Turns : phase[t] \in Early => starts[t] = 0

(* What the owner may rely on: nobody else moves its turn.                 *)
OwnerAlone ==
    \A p \in Procs : owner = p =>
        /\ pc[p] = "begin" => phase[turn[p]] = "none"
        /\ pc[p] \in {"prepare", "start", "announce"}
              => phase[turn[p]] = "action_executing" /\ starts[turn[p]] = 0

(* The one process that may run the tool of a turn.                        *)
AtCall ==
    /\ \A p \in Procs : pc[p] = "call"
          => starts[turn[p]] = 1 /\ calls[turn[p]] = 0
    /\ \A p, q \in Procs :
          pc[p] = "call" /\ pc[q] = "call" /\ turn[p] = turn[q] => p = q

Counted == \A t \in Turns : calls[t] = 0 => result[t] = "none"

RunsInv == NotYetStarted /\ OwnerAlone /\ AtCall /\ Counted /\ ToolRunsOnce

(* What a legal change of phase says about the phase before it.            *)
LEMMA Legal ==
    ASSUME TypeOK, NEW p \in Procs, NEW ph \in LoopPhases, NEW next,
           Turned(p, ph, next), turn[p] \in Turns
    PROVE  \/ phase' = phase /\ pc'[p] = "illegal"
           \/ /\ owner = p /\ pc'[p] = next
              /\ phase' = [phase EXCEPT ![turn[p]] = ph]
              /\ \/ phase[turn[p]] = "none"
                 \/ ph \in AllowedTransitions[phase[turn[p]]]
  BY DEF Turned, Phase, Writable, Goto, TypeOK

(* The ways into the early phases.                                         *)
LEMMA Before ==
    \A x \in LoopPhases :
        /\ "model_calling" \in AllowedTransitions[x] => x \in Early
        /\ "decision_validating" \in AllowedTransitions[x] => x \in Early
        /\ "action_authorizing" \in AllowedTransitions[x] => x \in Early
        /\ "action_executing" \in AllowedTransitions[x] => x \in Early
  BY DEF LoopPhases, AllowedTransitions, Early

(* Only these steps change what RunsInv counts.                            *)
LEMMA Quiescent ==
    ASSUME NEW p \in Procs, Does(p), ~Announce(p), ~Call(p)
    PROVE  UNCHANGED <<starts, calls, result>>
<1>1. \A e, next : Record(p, e, next) => UNCHANGED <<starts, calls, result>>
  BY DEF Record, toolVars
<1>2. \A ph, next : Turned(p, ph, next) => UNCHANGED <<starts, calls, result>>
  BY DEF Turned, Phase, toolVars
<1>3. \A e, next : Outer(p, e, next) => UNCHANGED <<starts, calls, result>>
  BY DEF Outer, toolVars
<1>5. CASE Recording(p)
  BY <1>1, <1>5 DEF Recording, Request, Reuse, ReuseCommand, Reject, Result,
     Close, Gate, Nudge, Waiting
<1>6. CASE Turning(p)
  BY <1>2, <1>6 DEF Turning, Begin, Calling, Validate, Authorize, Rejecting,
     Execute, Recover, RecordResult, Submit
<1>7. CASE Act(p) \/ StepFailed(p) \/ Exhaust(p)
  BY <1>1, <1>2, <1>3, <1>7 DEF Act, StepFailed, Exhaust
<1>8. CASE Ack(p) \/ Abandon(p) \/ Crash(p) \/ Injected(p)
  BY <1>8 DEF Ack, Abandon, Crash, Injected, logVars, toolVars
<1>9. CASE Entering(p)
  BY <1>9 DEF Entering, EnterHalted, EnterUnresolved, EnterResponse, EnterRequest,
     EnterFresh, Local, logVars, toolVars
<1>10. CASE Parse(p)
  BY <1>1, <1>10 DEF Parse, logVars, toolVars
<1>11. CASE Load(p) \/ Answer(p) \/ Prepare(p) \/ Start(p) \/ Settle(p)
  BY <1>11 DEF Load, Answer, Prepare, Start, Settle, logVars, toolVars
<1>14. CASE AfterTerminal(p) \/ Finish(p) \/ Pause(p)
  BY <1>14 DEF AfterTerminal, Finish, Pause, logVars, toolVars
<1>15. CASE Ready(p) \/ Heartbeat(p) \/ Dispatch(p)
  BY <1>15 DEF Ready, Heartbeat, Dispatch, toolVars
<1> QED
  BY <1>5, <1>6, <1>7, <1>8, <1>9, <1>10, <1>11, <1>14, <1>15
     DEF Does, Step, Recording, Turning, Entering

(* Only these steps change a phase.                                        *)
LEMMA PhaseFrame ==
    ASSUME NEW p \in Procs, Does(p) PROVE phase' = phase \/ Turning(p) \/ Act(p)
<1>1. \A e, next : Record(p, e, next) => phase' = phase
  BY DEF Record
<1>2. \A e, next : Outer(p, e, next) => phase' = phase
  BY DEF Outer
<1>3. CASE Recording(p)
  BY <1>1, <1>3 DEF Recording, Request, Reuse, ReuseCommand, Reject, Result,
     Close, Gate, Nudge, Waiting
<1>4. CASE StepFailed(p) \/ Exhaust(p)
  BY <1>2, <1>4 DEF StepFailed, Exhaust
<1>5. CASE Ack(p) \/ Abandon(p) \/ Crash(p) \/ Injected(p)
  BY <1>5 DEF Ack, Abandon, Crash, Injected, logVars
<1>6. CASE Entering(p)
  BY <1>6 DEF Entering, EnterHalted, EnterUnresolved, EnterResponse,
     EnterRequest, EnterFresh, Local, logVars
<1>7. CASE Parse(p)
  BY <1>1, <1>7 DEF Parse, logVars
<1>8. CASE Load(p) \/ Answer(p) \/ Prepare(p) \/ Start(p) \/ Announce(p)
  BY <1>8 DEF Load, Answer, Prepare, Start, Announce, logVars
<1>9. CASE Call(p) \/ Settle(p) \/ AfterTerminal(p) \/ Finish(p) \/ Pause(p)
  BY <1>9 DEF Call, Settle, AfterTerminal, Finish, Pause, logVars
<1>10. CASE Ready(p) \/ Heartbeat(p) \/ Dispatch(p)
  BY <1>10 DEF Ready, Heartbeat, Dispatch
<1> QED
  BY <1>3, <1>4, <1>5, <1>6, <1>7, <1>8, <1>9, <1>10
     DEF Does, Step, Recording, Turning, Entering

(* A phase changes only for the owner, and never back to an early one.     *)
LEMMA PhaseStep ==
    ASSUME TypeInv, OwnerAlone, NEW p \in Procs, Does(p), NEW t \in Turns
    PROVE  /\ phase'[t] \in Early => phase[t] \in Early
           /\ phase'[t] # phase[t] => owner = p /\ turn[p] = t /\ phase'[t] # "none"
<1> USE DEF TypeInv
<1> DEFINE Moved == /\ phase'[t] \in Early => phase[t] \in Early
                    /\ phase'[t] # phase[t]
                          => owner = p /\ turn[p] = t /\ phase'[t] # "none"
<1> SUFFICES Moved  OBVIOUS
<1>0. phase' = phase => Moved
  OBVIOUS
<1>1. ASSUME NEW ph \in LoopPhases, NEW next, Turned(p, ph, next),
             turn[p] \in Turns,
             \/ ph \in {"model_calling", "decision_validating", "action_authorizing"}
             \/ ph \notin Early
             \/ owner = p => phase[turn[p]] = "none"
      PROVE  Moved
  <2>1. CASE phase' = phase
    BY <1>0, <2>1
  <2>2. CASE phase' # phase
    <3>1. /\ owner = p
          /\ phase' = [phase EXCEPT ![turn[p]] = ph]
          /\ \/ phase[turn[p]] = "none"
             \/ ph \in AllowedTransitions[phase[turn[p]]]
      BY <1>1, <2>2, Legal
    <3>2. "none" \in Early /\ "none" \notin LoopPhases
      BY DEF Early, LoopPhases
    <3>3. phase[turn[p]] \in LoopPhases \cup {"none"}
      BY <1>1 DEF TypeOK
    <3>4. ph \in Early => phase[turn[p]] \in Early
      BY <1>1, <3>1, <3>2, <3>3, Before
    <3> QED  BY <1>1, <3>1, <3>2, <3>4 DEF TypeOK
  <2> QED  BY <2>1, <2>2
<1> HIDE DEF Moved
<1>2. CASE Turning(p)
  <2>1. turn[p] \in Turns
    BY <1>2 DEF InTurn, Outside, Turning, Begin, Calling, Validate, Authorize,
       Rejecting, Execute, Recover, RecordResult, Submit
  <2>2. CASE Begin(p)
    BY <1>1, <2>1, <2>2, Names DEF Begin, OwnerAlone
  <2>3. CASE Calling(p) \/ Validate(p) \/ Authorize(p)
    BY <1>1, <2>1, <2>3, Names DEF Calling, Validate, Authorize
  <2>4. {"failed", "action_executing", "result_recording", "submitted"}
            \cap Early = {}
    BY DEF Early
  <2>5. CASE Rejecting(p) \/ Execute(p) \/ Recover(p) \/ RecordResult(p) \/ Submit(p)
    BY <1>1, <2>1, <2>4, <2>5, Names
       DEF Rejecting, Execute, Recover, RecordResult, Submit
  <2> QED  BY <1>2, <2>2, <2>3, <2>5 DEF Turning
<1>3. CASE Act(p)
  <2>1. turn[p] \in Turns /\ "waiting" \notin Early
    BY <1>3 DEF InTurn, Outside, Act, Early
  <2>2. CASE Turned(p, "waiting", "waiting")
    BY <1>1, <2>1, <2>2, Names
  <2>3. \A e, next : Record(p, e, next) => phase' = phase
    BY DEF Record
  <2> QED  BY <1>0, <1>3, <2>2, <2>3 DEF Act
<1> QED  BY <1>0, <1>2, <1>3, PhaseFrame

(* A turn that is opened has not begun.                                    *)
LEMMA Fresh ==
    ASSUME TypeOK
    PROVE  /\ \A u \in Turns : phase[u] # "none" => u < NextTurn
           /\ NextTurn \in Turns => phase[NextTurn] = "none"
<1> DEFINE S == {0} \cup {t \in Turns : phase[t] # "none"}
<1>1. S \in SUBSET (0 .. MaxTurns) /\ S # {}
  <2>1. 0 \in 0 .. MaxTurns
    BY TurnNumbers
  <2>2. {t \in Turns : phase[t] # "none"} \subseteq 0 .. MaxTurns
    BY TurnNumbers, Zenon
  <2> HIDE DEF S
  <2>3. S = {0} \cup {t \in Turns : phase[t] # "none"}
    BY DEF S
  <2> QED  BY <2>1, <2>2, <2>3, Zenon
<1>2. Max(S) \in S /\ \A y \in S : y <= Max(S)
  <2> HIDE DEF S
  <2> QED  BY <1>1, MaxIn, TurnNumbers
<1>3. NextTurn = 1 + Max(S) /\ Max(S) \in Nat
  BY <1>1, <1>2, TurnNumbers DEF NextTurn
<1>4. \A u \in Turns : phase[u] # "none" => u < NextTurn
  BY <1>2, <1>3, TurnNumbers
<1>5. NextTurn \in Turns => phase[NextTurn] = "none"
  <2>1. ~(NextTurn < NextTurn)
    BY <1>3
  <2> QED  BY <1>4, <2>1
<1> QED  BY <1>4, <1>5

(* The invariant behind ToolRunsOnce is kept by every step.                *)
LEMMA RunsStep ==
    ASSUME TypeInv, RunsInv, NEW p \in Procs, Does(p) PROVE RunsInv'
<1> USE DEF TypeInv, RunsInv
<1>1. TypeOK' /\ InTurn'
  BY TypeStep, InTurnStep DEF Next, Does
<1>2. CASE Announce(p)
  <2> DEFINE t == turn[p]
  <2>1. /\ t \in Turns /\ owner = p /\ owner' = p
        /\ starts[t] = 0 /\ phase[t] = "action_executing"
    BY <1>2 DEF Announce, InTurn, Outside, Writable, OwnerAlone
  <2>2. /\ starts' = [starts EXCEPT ![t] = 1]
        /\ UNCHANGED <<phase, calls, result, turn>>
        /\ pc'[p] = "call"
    BY <1>2, <2>1 DEF Announce, Goto, procVars, toolVars, TypeOK
  <2>3. calls[t] = 0
    BY <2>1 DEF ToolRunsOnce, TypeOK
  <2> HIDE DEF t
  <2>4. NotYetStarted'
    BY <2>1, <2>2 DEF NotYetStarted, Early, TypeOK
  <2>5. OwnerAlone'
    BY <2>1, <2>2 DEF OwnerAlone
  <2>6. \A q \in Procs : q # p /\ pc'[q] = "call"
            => pc[q] = "call" /\ turn[q] # t /\ turn[q] \in Turns
    BY <2>1, Locals DEF AtCall, InTurn, Outside
  <2>7. AtCall'
    BY <2>1, <2>2, <2>3, <2>6 DEF AtCall, TypeOK, t
  <2>8. Counted' /\ ToolRunsOnce'
    BY <2>1, <2>2, <2>3 DEF Counted, ToolRunsOnce, TypeOK
  <2> QED  BY <2>4, <2>5, <2>7, <2>8
<1>3. CASE Call(p)
  <2> DEFINE t == turn[p]
  <2>1. t \in Turns /\ starts[t] = 1 /\ calls[t] = 0
    BY <1>3 DEF Call, InTurn, Outside, AtCall
  <2>2. /\ calls' = [calls EXCEPT ![t] = 1]
        /\ UNCHANGED <<phase, starts, turn, owner>>
        /\ pc'[p] = "settle"
        /\ \A u \in Turns : u # t => result'[u] = result[u]
    BY <1>3, <2>1 DEF Call, Goto, logVars, TypeOK
  <2>3. NotYetStarted'
    BY <2>2 DEF NotYetStarted
  <2>4. OwnerAlone'
    BY <2>2, Locals DEF OwnerAlone
  <2>5. \A q \in Procs : pc'[q] = "call"
            => q # p /\ pc[q] = "call" /\ turn[q] # t /\ turn[q] \in Turns
    BY <1>3, <2>2, Locals DEF Call, AtCall, InTurn, Outside
  <2>6. AtCall'
    BY <2>1, <2>2, <2>5 DEF AtCall, TypeOK
  <2>7. Counted' /\ ToolRunsOnce'
    BY <2>1, <2>2 DEF Counted, ToolRunsOnce, TypeOK
  <2> QED  BY <2>3, <2>4, <2>6, <2>7
<1>4. CASE ~Announce(p) /\ ~Call(p)
  <2>1. UNCHANGED <<starts, calls, result>>
    BY <1>4, Quiescent
  <2>2. NotYetStarted'
    BY <2>1, PhaseStep DEF NotYetStarted
  <2>3. Counted' /\ ToolRunsOnce'
    BY <2>1 DEF Counted, ToolRunsOnce
  <2>4. CASE Heartbeat(p)
    BY <2>1, <2>2, <2>3, <2>4, Beats DEF OwnerAlone, AtCall, procVars
  <2>5. CASE ~Heartbeat(p)
    <3>1. pc'[p] # "call"
      BY <1>4, <2>5, Comes
    <3>2. AtCall'
      BY <2>1, <3>1, Locals DEF AtCall
    <3>3. ASSUME NEW q \in Procs, q # p, owner' = q
          PROVE  /\ pc'[q] = "begin" => phase'[turn'[q]] = "none"
                 /\ pc'[q] \in {"prepare", "start", "announce"}
                      => /\ phase'[turn'[q]] = "action_executing"
                         /\ starts'[turn'[q]] = 0
      BY <3>3, Fenced, Locals DEF OwnerAlone
    <3>4. ASSUME owner' = p, pc'[p] = "begin" PROVE phase'[turn'[p]] = "none"
      <4>1. EnterRequest(p) \/ EnterFresh(p)
        BY <2>5, <3>4, Comes
      <4>2. /\ NextTurn \in Turns /\ turn'[p] = NextTurn
            /\ phase' = phase
        BY <3>4, <4>1 DEF EnterRequest, EnterFresh, Local, logVars, Goto, TypeOK
      <4> QED  BY <4>2, Fresh
    <3>5. ASSUME owner' = p, pc'[p] \in {"prepare", "start", "announce"}
          PROVE  phase'[turn'[p]] = "action_executing" /\ starts'[turn'[p]] = 0
      <4>1. CASE pc'[p] = "prepare"
        <5>1. Execute(p) /\ turn' = turn
          BY <2>5, <4>1, Comes DEF Execute, Turned, procVars
        <5>2. turn[p] \in Turns
          BY <5>1 DEF Execute, InTurn, Outside
        <5>3. /\ phase' = [phase EXCEPT ![turn[p]] = "action_executing"]
              /\ \/ phase[turn[p]] = "none"
                 \/ "action_executing" \in AllowedTransitions[phase[turn[p]]]
          BY <4>1, <5>1, <5>2, Legal, Names DEF Execute
        <5>4. phase[turn[p]] \in Early
          <6>1. phase[turn[p]] \in LoopPhases \cup {"none"} /\ "none" \in Early
            BY <5>2 DEF TypeOK, Early
          <6> QED  BY <5>3, <6>1, Before
        <5> QED  BY <2>1, <5>1, <5>2, <5>3, <5>4 DEF NotYetStarted, TypeOK
      <4>2. CASE pc'[p] \in {"start", "announce"}
        <5>1. Prepare(p) \/ Start(p)
          BY <2>5, <4>2, Comes
        <5>2. UNCHANGED <<phase, turn, owner>> /\ pc[p] \in {"prepare", "start"}
          BY <5>1 DEF Prepare, Start, logVars, procVars
        <5> QED  BY <2>1, <3>5, <5>2 DEF OwnerAlone
      <4> QED  BY <3>5, <4>1, <4>2
    <3>6. OwnerAlone'
      BY <3>3, <3>4, <3>5 DEF OwnerAlone
    <3> QED  BY <2>2, <2>3, <3>2, <3>6
  <2> QED  BY <2>4, <2>5
<1> QED  BY <1>2, <1>3, <1>4

(* The invariant behind ToolRunsOnce, in every behaviour.                  *)
LEMMA RunsInvariant == Spec => [](TypeInv /\ RunsInv)
<1>1. Init => TypeInv /\ RunsInv
  <2> SUFFICES ASSUME Init PROVE RunsInv
    BY TypeInit
  <2>1. NotYetStarted /\ OwnerAlone /\ AtCall /\ Counted
    BY DEF Init, NotYetStarted, OwnerAlone, AtCall, Counted
  <2>2. ToolRunsOnce
    BY DEF Init, ToolRunsOnce
  <2> QED  BY <2>1, <2>2 DEF RunsInv
<1>2. TypeInv /\ RunsInv /\ [Next]_vars => (TypeInv /\ RunsInv)'
  <2> SUFFICES ASSUME TypeInv, RunsInv, [Next]_vars PROVE RunsInv'
    BY TypeInvStep
  <2>1. CASE UNCHANGED vars
    BY <2>1 DEF RunsInv, NotYetStarted, OwnerAlone, AtCall, Counted, ToolRunsOnce,
       vars, logVars, procVars, toolVars
  <2>2. CASE \E p \in Procs : Does(p)
    BY <2>2, RunsStep
  <2> QED  BY <2>1, <2>2 DEF Next, Does
<1> QED  BY <1>1, <1>2, PTL DEF Spec

(* A tool runs at most once in a turn, and never before operation.started  *)
(* is durable, whatever crashes and whoever takes over (_execute_one,      *)
(* record_started).                                                        *)
THEOREM RunsOnce == Spec => []ToolRunsOnce
  BY RunsInvariant, PTL DEF RunsInv

-----------------------------------------------------------------------------
(* The log tells the truth.                                                *)

(* Neither the file nor a memory claims more than the tool reported.       *)
LedgerTruth ==
    \A t \in Turns :
        /\ disk[t] = "succeeded" => result[t] = "ok"
        /\ disk[t] = "failed" => result[t] = "error"
        /\ \A p \in Procs :
              /\ mem[p][t] = "succeeded" => result[t] = "ok"
              /\ mem[p][t] = "failed" => result[t] = "error"

(* Nor does the outcome in hand.                                           *)
OutcomeTruth ==
    \A p \in Procs :
        /\ pc[p] \in {"idle", "load", "enter"} => outcome[p] = "none"
        /\ pc[p] = "close" => outcome[p] \in {"ok", "error"}
        /\ outcome[p] = "ok" => turn[p] \in Turns /\ result[turn[p]] = "ok"
        /\ outcome[p] = "error" => turn[p] \in Turns /\ result[turn[p]] = "error"

TruthInv == LedgerTruth /\ OutcomeTruth /\ LogTellsTruth

(* A nudge is none of the facts the invariants speak of.                   *)
LEMMA NudgeNamed ==
    \A k \in NudgeKinds :
        NudgeFact[k] \notin {"tool.completed", "tool.failed", "operation.failed",
                             "operation.unknown", "model.requested"}
  BY DEF NudgeKinds, NudgeFact

(* Who adds a fact the invariants speak of; facts are never taken back.    *)
LEMMA NewFact ==
    ASSUME TypeInv, NEW p \in Procs, Does(p)
    PROVE  /\ facts \subseteq facts'
           /\ \A e : \A t \in Turns : Has(t, e)' /\ ~Has(t, e) =>
                /\ owner = p /\ turn[p] = t
                /\ e = "tool.completed" => Result(p) /\ outcome[p] = "ok"
                /\ e = "tool.failed" => Result(p) /\ outcome[p] = "error"
                /\ e = "operation.failed" => Close(p) /\ outcome[p] # "ok"
                /\ e = "operation.unknown" => Result(p)
                /\ e = "model.requested" => Request(p)
<1> DEFINE Watched == {"tool.completed", "tool.failed", "operation.failed",
                       "operation.unknown", "model.requested"}
           Told == \A e : \A t \in Turns : Has(t, e)' /\ ~Has(t, e) =>
                     /\ owner = p /\ turn[p] = t
                     /\ e = "tool.completed" => Result(p) /\ outcome[p] = "ok"
                     /\ e = "tool.failed" => Result(p) /\ outcome[p] = "error"
                     /\ e = "operation.failed" => Close(p) /\ outcome[p] # "ok"
                     /\ e = "operation.unknown" => Result(p)
                     /\ e = "model.requested" => Request(p)
<1> SUFFICES facts \subseteq facts' /\ Told  OBVIOUS
<1>0. facts' = facts => facts \subseteq facts' /\ Told
  BY DEF Has
<1>1. \A f, next : Record(p, f, next) =>
        /\ facts' = facts \cup {<<turn[p], f>>} /\ owner = p
  BY DEF Record, Append, Writable
<1>2. ASSUME NEW f, NEW next, Record(p, f, next),
             /\ f = "tool.completed" => Result(p) /\ outcome[p] = "ok"
             /\ f = "tool.failed" => Result(p) /\ outcome[p] = "error"
             /\ f = "operation.failed" => Close(p) /\ outcome[p] # "ok"
             /\ f = "operation.unknown" => Result(p)
             /\ f = "model.requested" => Request(p)
      PROVE  facts \subseteq facts' /\ Told
  <2>1. facts' = facts \cup {<<turn[p], f>>} /\ owner = p
    BY <1>1, <1>2
  <2>2. \A e : \A t \in Turns : Has(t, e)' /\ ~Has(t, e) => t = turn[p] /\ e = f
    BY <2>1 DEF Has
  <2> QED  BY <1>2, <2>1, <2>2
<1>3. ASSUME NEW f, NEW next, Record(p, f, next), f \notin Watched
      PROVE  facts \subseteq facts' /\ Told
  <2> HIDE DEF Told
  <2> QED  BY <1>2, <1>3
<1>4. \A ph, next : Turned(p, ph, next) => facts' = facts
  BY DEF Turned, Phase
<1>5. ASSUME NEW f, NEW next, Outer(p, f, next) PROVE facts \subseteq facts' /\ Told
  <2>1. facts' = facts \cup {<<0, f>>} /\ 0 \notin Turns
    BY <1>5 DEF Outer, Append, Turns
  <2> QED  BY <2>1 DEF Has
<1> HIDE DEF Told
<1>6. CASE Request(p)
  BY <1>2, <1>6 DEF Request
<1>7. CASE Result(p)
  BY <1>2, <1>7 DEF Result
<1>8. CASE Close(p)
  BY <1>2, <1>8 DEF Close
<1>9. CASE Nudge(p)
  <2> DEFINE kind == FirstFinding(command[turn[p]])
             f == IF NudgesUsed(kind) < NudgeLimit THEN NudgeFact[kind]
                  ELSE "agent.stopped"
  <2>1. CASE f \notin Watched
    <3> HIDE DEF Watched
    <3> QED  BY <1>3, <1>9, <2>1 DEF Nudge
  <2>2. kind \in NudgeKinds
    BY <1>9 DEF Nudge, Record, Append, Writable, TypeInv, NudgeReady
  <2>3. f \notin Watched
    <3> HIDE DEF kind
    <3> QED  BY <2>2, NudgeNamed
  <2> QED  BY <2>1, <2>3
<1>10. CASE Reuse(p) \/ ReuseCommand(p) \/ Reject(p) \/ Gate(p) \/ Waiting(p)
  BY <1>3, <1>10 DEF Reuse, ReuseCommand, Reject, Gate, Waiting
<1>11. CASE Turning(p)
  BY <1>0, <1>4, <1>11 DEF Turning, Begin, Calling, Validate, Authorize, Rejecting,
     Execute, Recover, RecordResult, Submit
<1>12. CASE Act(p)
  BY <1>0, <1>3, <1>4, <1>12 DEF Act
<1>13. CASE StepFailed(p) \/ Exhaust(p)
  BY <1>5, <1>13 DEF StepFailed, Exhaust
<1>14. CASE Parse(p)
  BY <1>0, <1>3, <1>14 DEF Parse, logVars
<1>15. CASE Ack(p) \/ Abandon(p) \/ Crash(p) \/ Injected(p)
  BY <1>0, <1>15 DEF Ack, Abandon, Crash, Injected, logVars
<1>16. CASE Entering(p)
  BY <1>0, <1>16 DEF Entering, EnterHalted, EnterUnresolved, EnterResponse,
     EnterRequest, EnterFresh, Local, logVars
<1>17. CASE Load(p) \/ Answer(p) \/ Prepare(p) \/ Start(p) \/ Announce(p)
  BY <1>0, <1>17 DEF Load, Answer, Prepare, Start, Announce, logVars
<1>18. CASE Call(p) \/ Settle(p) \/ AfterTerminal(p) \/ Finish(p) \/ Pause(p)
  BY <1>0, <1>18 DEF Call, Settle, AfterTerminal, Finish, Pause, logVars
<1>19. CASE Ready(p) \/ Heartbeat(p) \/ Dispatch(p)
  BY <1>0, <1>19 DEF Ready, Heartbeat, Dispatch
<1> QED
  BY <1>6, <1>7, <1>8, <1>9, <1>10, <1>11, <1>12, <1>13, <1>14, <1>15, <1>16,
     <1>17, <1>18, <1>19 DEF Does, Step, Recording, Turning, Entering

(* Only these steps write the ledger.                                      *)
LEMMA Unwritten ==
    ASSUME NEW p \in Procs, Does(p), ~Load(p), ~Prepare(p), ~Start(p), ~Settle(p),
           ~Crash(p)
    PROVE  UNCHANGED <<disk, mem>>
<1> DEFINE Same == UNCHANGED <<disk, mem>>
<1> SUFFICES Same  OBVIOUS
<1>1. \A e, next : Record(p, e, next) => Same
  BY DEF Record, ledgerVars
<1>2. \A ph, next : Turned(p, ph, next) => Same
  BY DEF Turned, ledgerVars
<1>3. \A e, next : Outer(p, e, next) => Same
  BY DEF Outer, ledgerVars
<1> HIDE DEF Same
<1>5. CASE Recording(p)
  BY <1>1, <1>5 DEF Recording, Request, Reuse, ReuseCommand, Reject, Result,
     Close, Gate, Nudge, Waiting
<1>6. CASE Turning(p)
  BY <1>2, <1>6 DEF Turning, Begin, Calling, Validate, Authorize, Rejecting,
     Execute, Recover, RecordResult, Submit
<1>7. CASE Act(p) \/ StepFailed(p) \/ Exhaust(p)
  BY <1>1, <1>2, <1>3, <1>7 DEF Act, StepFailed, Exhaust
<1>8. CASE Ack(p) \/ Abandon(p) \/ Injected(p)
  BY <1>8 DEF Ack, Abandon, Injected, ledgerVars, Same
<1>9. CASE Entering(p)
  BY <1>9 DEF Entering, EnterHalted, EnterUnresolved, EnterResponse, EnterRequest,
     EnterFresh, Local, ledgerVars, Same
<1>10. CASE Parse(p)
  BY <1>1, <1>10 DEF Parse, ledgerVars, Same
<1>11. CASE Answer(p) \/ Announce(p) \/ Call(p)
  BY <1>11 DEF Answer, Announce, Call, ledgerVars, Same
<1>14. CASE AfterTerminal(p) \/ Finish(p) \/ Pause(p)
  BY <1>14 DEF AfterTerminal, Finish, Pause, ledgerVars, Same
<1>15. CASE Ready(p) \/ Heartbeat(p) \/ Dispatch(p)
  BY <1>15 DEF Ready, Heartbeat, Dispatch, ledgerVars, Same
<1> QED
  BY <1>5, <1>6, <1>7, <1>8, <1>9, <1>10, <1>11, <1>14, <1>15
     DEF Does, Step, Recording, Turning, Entering

(* Only these steps change the outcome in hand or the turn.                *)
LEMMA Unreported ==
    ASSUME NEW p \in Procs, Does(p), ~Entering(p), ~Start(p), ~Call(p), ~Leave(p)
    PROVE  UNCHANGED <<outcome, turn>>
<1> DEFINE Same == UNCHANGED <<outcome, turn>>
<1> SUFFICES Same  OBVIOUS
<1>1. \A e, next : Record(p, e, next) => Same
  BY DEF Record, procVars
<1>2. \A ph, next : Turned(p, ph, next) => Same
  BY DEF Turned, procVars
<1>3. \A e, next : Outer(p, e, next) => Same
  BY DEF Outer, procVars
<1> HIDE DEF Same
<1>5. CASE Recording(p)
  BY <1>1, <1>5 DEF Recording, Request, Reuse, ReuseCommand, Reject, Result,
     Close, Gate, Nudge, Waiting
<1>6. CASE Turning(p)
  BY <1>2, <1>6 DEF Turning, Begin, Calling, Validate, Authorize, Rejecting,
     Execute, Recover, RecordResult, Submit
<1>7. CASE Act(p) \/ StepFailed(p) \/ Exhaust(p)
  BY <1>1, <1>2, <1>3, <1>7 DEF Act, StepFailed, Exhaust
<1>8. CASE Ack(p) \/ Abandon(p) \/ Crash(p) \/ Injected(p)
  BY <1>8 DEF Ack, Abandon, Crash, Injected
<1>10. CASE Parse(p)
  BY <1>1, <1>10 DEF Parse, procVars, Same
<1>11. CASE Load(p) \/ Answer(p) \/ Prepare(p) \/ Announce(p) \/ Settle(p)
  BY <1>11 DEF Load, Answer, Prepare, Announce, Settle, procVars, Same
<1>14. CASE AfterTerminal(p) \/ Finish(p) \/ Pause(p)
  BY <1>14 DEF AfterTerminal, Finish, Pause, procVars, Same
<1>15. CASE Ready(p) \/ Heartbeat(p) \/ Dispatch(p)
  BY <1>15 DEF Ready, Heartbeat, Dispatch, procVars, Same
<1> QED
  BY <1>5, <1>6, <1>7, <1>8, <1>10, <1>11, <1>14, <1>15
     DEF Does, Step, Recording, Turning, Entering

(* A result, once the tool has reported it, stays.                         *)
LEMMA ResultStep ==
    ASSUME TypeInv, RunsInv, NEW p \in Procs, Does(p), NEW t \in Turns,
           result[t] # "none"
    PROVE  result'[t] = result[t]
<1> USE DEF TypeInv, RunsInv
<1>1. CASE Call(p)
  <2>1. turn[p] \in Turns /\ calls[turn[p]] = 0
    BY <1>1 DEF Call, InTurn, Outside, AtCall
  <2>2. turn[p] # t
    BY <2>1 DEF Counted
  <2> QED  BY <1>1, <2>1, <2>2 DEF Call, TypeOK
<1>2. CASE Announce(p)
  BY <1>2 DEF Announce, toolVars
<1> QED  BY <1>1, <1>2, Quiescent

(* The file and the other memories are not touched by a store of p.        *)
LEMMA OwnMemory ==
    ASSUME TypeOK, NEW p \in Procs, Does(p), NEW q \in Procs, q # p
    PROVE  mem'[q] = mem[q]
<1>1. CASE Load(p) \/ Crash(p)
  BY <1>1 DEF Load, Crash, TypeOK
<1>2. CASE Prepare(p) \/ Start(p) \/ Settle(p)
  BY <1>2 DEF Prepare, Start, Settle, Store, ledgerVars, TypeOK
<1> QED  BY <1>1, <1>2, Unwritten

(* Before its action is executed a turn has no record in any ledger, and   *)
(* the record its process then plans is the first.                         *)
Executing == {"prepare", "start", "announce", "call", "settle"}

NoRecordYet ==
    \A t \in Turns : phase[t] \in Early =>
        disk[t] = "absent" /\ \A p \in Procs : mem[p][t] = "absent"

PlannedInv ==
    /\ NoRecordYet
    /\ \A p \in Procs : pc[p] \in Executing => phase[turn[p]] \notin Early
    /\ \A p \in Procs : pc[p] = "prepare" => mem[p][turn[p]] = "absent"
    /\ \A p \in Procs : pc[p] = "start" => mem[p][turn[p]] = "planned"

(* No record is written for a turn in an early phase.                      *)
LEMMA NoRecordStep ==
    ASSUME TypeInv, RunsInv, PlannedInv, NEW p \in Procs, Does(p)
    PROVE  NoRecordYet'
<1> USE DEF TypeInv, RunsInv, PlannedInv
<1>1. \A t \in Turns : phase'[t] \in Early => phase[t] \in Early
  BY PhaseStep
<1>2. ASSUME NEW s, Store(p, turn[p], s), turn[p] \in Turns,
             phase[turn[p]] \notin Early
      PROVE  NoRecordYet'
  BY <1>1, <1>2 DEF Store, NoRecordYet, TypeOK
<1>3. ASSUME UNCHANGED <<disk, mem>> PROVE NoRecordYet'
  BY <1>1, <1>3 DEF NoRecordYet
<1>4. CASE Load(p)
  BY <1>1, <1>4 DEF Load, NoRecordYet, TypeOK
<1>5. CASE Crash(p)
  BY <1>1, <1>5 DEF Crash, NoRecordYet, TypeOK
<1>6. CASE Prepare(p) \/ Start(p) \/ Settle(p)
  <2>1. turn[p] \in Turns /\ phase[turn[p]] \notin Early
    BY <1>6 DEF Prepare, Start, Settle, InTurn, Outside, Executing
  <2> QED  BY <1>2, <1>3, <1>6, <2>1 DEF Prepare, Start, Settle, ledgerVars
<1> QED  BY <1>3, <1>4, <1>5, <1>6, Unwritten

(* What a process finds when it begins to execute.                         *)
LEMMA Executes ==
    ASSUME TypeInv, NEW p \in Procs, Execute(p), pc'[p] = "prepare"
    PROVE  /\ turn[p] \in Turns /\ UNCHANGED <<turn, mem>>
           /\ phase[turn[p]] \in Early /\ phase'[turn[p]] \notin Early
<1> USE DEF TypeInv
<1>1. turn[p] \in Turns /\ UNCHANGED <<turn, mem>>
  BY DEF Execute, InTurn, Outside, Turned, procVars, ledgerVars
<1>2. /\ phase' = [phase EXCEPT ![turn[p]] = "action_executing"]
      /\ \/ phase[turn[p]] = "none"
         \/ "action_executing" \in AllowedTransitions[phase[turn[p]]]
  BY <1>1, Legal, Names DEF Execute
<1>3. phase[turn[p]] \in LoopPhases \cup {"none"} /\ "none" \in Early
  BY <1>1 DEF TypeOK, Early
<1>4. phase[turn[p]] \in Early
  BY <1>2, <1>3, Before
<1>5. phase'[turn[p]] \notin Early
  BY <1>1, <1>2 DEF TypeOK, Early
<1> QED  BY <1>1, <1>4, <1>5

(* The first record of a turn is the one its process plans.                *)
LEMMA PlannedStep ==
    ASSUME TypeInv, RunsInv, PlannedInv, NEW p \in Procs, Does(p)
    PROVE  PlannedInv'
<1> USE DEF TypeInv, RunsInv, PlannedInv
<1> DEFINE Sound(q) == /\ pc[q] \in Executing => phase[turn[q]] \notin Early
                       /\ pc[q] = "prepare" => mem[q][turn[q]] = "absent"
                       /\ pc[q] = "start" => mem[q][turn[q]] = "planned"
<1>1. \A t \in Turns : phase'[t] \in Early => phase[t] \in Early
  BY PhaseStep
<1>2. \A q \in Procs : pc[q] \in Executing => turn[q] \in Turns
  BY DEF InTurn, Outside, Executing
<1>3. ASSUME NEW q \in Procs, q # p PROVE Sound(q)'
  BY <1>1, <1>2, <1>3, Locals, OwnMemory
<1>4. Sound(p)'
  <2>1. CASE Heartbeat(p)
    BY <2>1, Beats DEF ledgerVars, procVars
  <2>2. CASE ~Heartbeat(p)
    <3>1. CASE pc'[p] = "prepare"
      BY <2>2, <3>1, Comes, Executes DEF NoRecordYet
    <3>2. CASE pc'[p] = "start"
      <4>1. Prepare(p) /\ turn[p] \in Turns
        BY <2>2, <3>2, <1>2, Comes DEF Prepare, Executing
      <4>2. Store(p, turn[p], "planned") /\ UNCHANGED <<phase, turn>>
        BY <3>2, <4>1 DEF Prepare, Goto, TypeOK, logVars, procVars
      <4>3. mem'[p][turn[p]] = "planned"
        BY <4>1, <4>2 DEF Store, TypeOK
      <4> QED  BY <3>2, <4>1, <4>2, <4>3 DEF Prepare, Executing
    <3>3. CASE pc'[p] \in {"announce", "call", "settle"}
      <4>1. Start(p) \/ Announce(p) \/ Call(p)
        BY <2>2, <3>3, Comes
      <4>2. pc[p] \in Executing /\ UNCHANGED <<phase, turn>>
        BY <4>1 DEF Start, Announce, Call, Executing, logVars, procVars
      <4> QED  BY <3>3, <4>2
    <3> QED  BY <3>1, <3>2, <3>3 DEF Executing
  <2> QED  BY <2>1, <2>2
<1> QED  BY <1>3, <1>4, NoRecordStep

(* That holds in every behaviour.                                          *)
LEMMA PlannedInvariant == Spec => []PlannedInv
<1>1. Init => PlannedInv
  BY DEF Init, PlannedInv, NoRecordYet, Executing
<1>2. TypeInv /\ RunsInv /\ PlannedInv /\ [Next]_vars => PlannedInv'
  <2> SUFFICES ASSUME TypeInv, RunsInv, PlannedInv, [Next]_vars PROVE PlannedInv'
    OBVIOUS
  <2>1. CASE UNCHANGED vars
    BY <2>1 DEF PlannedInv, NoRecordYet, vars, logVars, ledgerVars, procVars
  <2>2. CASE \E p \in Procs : Does(p)
    BY <2>2, PlannedStep
  <2> QED  BY <2>1, <2>2 DEF Next, Does
<1> QED  BY <1>1, <1>2, RunsInvariant, PTL DEF Spec

(* Behind the phases of the loop a step never finds an operation of its    *)
(* turn in the ledger: the record it starts is the one it planned, and the *)
(* cached, unknown and duplicate answers of ToolPipeline._execute_one are  *)
(* never given to a loop.                                                  *)
THEOREM StartsPlanned ==
    Spec => [](\A p \in Procs : pc[p] = "start" => mem[p][turn[p]] = "planned")
  BY PlannedInvariant, PTL DEF PlannedInv

(* What a process remembers of an operation is true.                       *)
LEMMA RememberedTrue ==
    ASSUME LedgerTruth, NEW p \in Procs, NEW t \in Turns
    PROVE  /\ Remembered(p, t) \in {"ok", "error", "unsure"}
           /\ Remembered(p, t) = "ok" => result[t] = "ok"
           /\ Remembered(p, t) = "error" => result[t] = "error"
  BY DEF Remembered, LedgerTruth

(* The ledgers stay true.                                                  *)
LEMMA LedgerStep ==
    ASSUME TypeInv, RunsInv, TruthInv, NEW p \in Procs, Does(p) PROVE LedgerTruth'
<1> USE DEF TypeInv, RunsInv, TruthInv
<1>1. \A t \in Turns : result[t] \in {"ok", "error"} => result'[t] = result[t]
  BY ResultStep
<1>2. ASSUME NEW t \in Turns, NEW s \in OperationStates, Store(p, t, s),
             s = "succeeded" => result[t] = "ok", s = "failed" => result[t] = "error"
      PROVE  LedgerTruth'
  BY <1>1, <1>2 DEF Store, LedgerTruth, TypeOK
<1>3. ASSUME UNCHANGED <<disk, mem>> PROVE LedgerTruth'
  BY <1>1, <1>3 DEF LedgerTruth
<1>4. CASE Load(p)
  BY <1>1, <1>4 DEF Load, LedgerTruth, TypeOK
<1>5. CASE Crash(p)
  BY <1>1, <1>5 DEF Crash, LedgerTruth, TypeOK
<1>6. CASE Prepare(p)
  <2>1. turn[p] \in Turns
    BY <1>6 DEF Prepare, InTurn, Outside
  <2> QED  BY <1>2, <1>3, <1>6, <2>1 DEF Prepare, ledgerVars, OperationStates
<1>7. CASE Start(p)
  <2>1. turn[p] \in Turns
    BY <1>7 DEF Start, InTurn, Outside
  <2> QED  BY <1>2, <1>3, <1>7, <2>1 DEF Start, ledgerVars, OperationStates
<1>8. CASE Settle(p)
  <2>1. turn[p] \in Turns /\ outcome[p] \in Outcomes /\ outcome[p] # "none"
    BY <1>8 DEF Settle, InTurn, Outside, SettleReady, TypeOK
  <2>2. /\ LedgerState[outcome[p]] \in OperationStates
        /\ LedgerState[outcome[p]] = "succeeded" => outcome[p] = "ok"
        /\ LedgerState[outcome[p]] = "failed" => outcome[p] = "error"
    BY <2>1 DEF LedgerState, OperationStates, Outcomes
  <2>3. /\ outcome[p] = "ok" => result[turn[p]] = "ok"
        /\ outcome[p] = "error" => result[turn[p]] = "error"
    BY DEF OutcomeTruth
  <2> QED  BY <1>2, <1>8, <2>1, <2>2, <2>3 DEF Settle
<1> QED  BY <1>3, <1>4, <1>5, <1>6, <1>7, <1>8, Unwritten

(* So does the outcome in hand.                                            *)
LEMMA OutcomeStep ==
    ASSUME TypeInv, RunsInv, PlannedInv, TruthInv, NEW p \in Procs, Does(p)
    PROVE  OutcomeTruth'
<1> USE DEF TypeInv, RunsInv, TruthInv
<1> DEFINE Backed(q) == /\ outcome[q] = "ok"
                              => turn[q] \in Turns /\ result[turn[q]] = "ok"
                        /\ outcome[q] = "error"
                              => turn[q] \in Turns /\ result[turn[q]] = "error"
           Clean(q) == /\ pc[q] \in {"idle", "load", "enter"} => outcome[q] = "none"
                       /\ pc[q] = "close" => outcome[q] \in {"ok", "error"}
<1>1. \A t \in Turns : result[t] \in {"ok", "error"} => result'[t] = result[t]
  BY ResultStep
<1>2. \A q \in Procs : Backed(q) /\ Clean(q)
  BY DEF OutcomeTruth
<1>3. SUFFICES Backed(p)' /\ Clean(p)'
  <2>1. ASSUME NEW q \in Procs, q # p PROVE Backed(q)' /\ Clean(q)'
    BY <1>1, <1>2, <2>1, Locals
  <2> QED  BY <1>3, <2>1 DEF OutcomeTruth
<1>4. CASE Entering(p)
  <2>1. pc[p] = "enter" /\ outcome[p] = "none" /\ UNCHANGED result
    BY <1>2, <1>4 DEF Entering, EnterHalted, EnterUnresolved, EnterResponse,
       EnterRequest, EnterFresh, Resumable, Local, toolVars
  <2>2. pc'[p] \notin {"idle", "load", "enter", "close"}
    BY <1>4 DEF Entering, EnterHalted, EnterUnresolved, EnterResponse, EnterRequest,
       EnterFresh, Local, Goto, AfterAnswer, AfterReuse, TypeOK
  <2>3. CASE EnterUnresolved(p)
    <3> DEFINE t == Max(Unresolved)
    <3>1. t \in Turns
      BY <2>3, TakesTurns DEF EnterUnresolved
    <3>2. turn'[p] = t /\ outcome'[p] = Remembered(p, t)
      BY <2>3 DEF EnterUnresolved, Local, TypeOK
    <3> HIDE DEF t
    <3> QED  BY <2>1, <2>2, <3>1, <3>2, RememberedTrue
  <2>4. CASE ~EnterUnresolved(p)
    <3>1. outcome' = outcome
      BY <1>4, <2>4 DEF Entering, EnterHalted, EnterResponse, EnterRequest, EnterFresh
    <3> QED  BY <2>1, <2>2, <3>1
  <2> QED  BY <2>3, <2>4
<1>5. CASE Start(p)
  <2>1. /\ turn[p] \in Turns /\ UNCHANGED <<turn, result>>
        /\ pc'[p] \in {"announce", "record"}
    BY <1>5 DEF Start, InTurn, Outside, toolVars, Goto, TypeOK
  <2>2. outcome' = outcome
    BY <1>5 DEF Start, PlannedInv
  <2> QED  BY <1>2, <2>1, <2>2
<1>6. CASE Call(p)
  BY <1>6 DEF Call, InTurn, Outside, Goto, TypeOK
<1>7. CASE Leave(p)
  BY <1>7 DEF Leave, Goto, TypeOK
<1>8. CASE ~Entering(p) /\ ~Start(p) /\ ~Call(p) /\ ~Leave(p)
  <2>1. UNCHANGED <<outcome, turn>>
    BY <1>8, Unreported
  <2>2. Backed(p)'
    BY <1>1, <1>2, <2>1
  <2>3. CASE Heartbeat(p)
    BY <1>2, <2>1, <2>2, <2>3, Beats
  <2>4. CASE ~Heartbeat(p)
    <3>1. pc'[p] \in {"idle", "load", "enter"} => pc[p] \in {"idle", "load"}
      BY <1>8, <2>4, Comes DEF Dispatch, Load
    <3>2. pc'[p] = "close" => outcome[p] \in {"ok", "error"}
      <4>1. Result(p) /\ pc'[p] = "close" => outcome[p] \in {"ok", "error"}
        BY DEF Result, Record, Goto, TypeOK
      <4>2. Recover(p) /\ pc'[p] = "close" => outcome[p] = "error"
        BY DEF Recover, Turned, Phase, Goto, TypeOK
      <4> QED  BY <2>4, <4>1, <4>2, Comes
    <3> QED  BY <1>2, <2>1, <2>2, <3>1, <3>2
  <2> QED  BY <2>3, <2>4
<1> QED  BY <1>4, <1>5, <1>6, <1>7, <1>8

(* So does the log.                                                        *)
LEMMA LogStep ==
    ASSUME TypeInv, RunsInv, TruthInv, NEW p \in Procs, Does(p) PROVE LogTellsTruth'
<1> USE DEF TypeInv, RunsInv, TruthInv
<1>1. SUFFICES ASSUME NEW t \in Turns
               PROVE  /\ Has(t, "tool.completed")' => result'[t] = "ok"
                      /\ Has(t, "tool.failed")' \/ Has(t, "operation.failed")'
                            => result'[t] = "error"
  BY DEF LogTellsTruth
<1>2. result[t] \in {"ok", "error"} => result'[t] = result[t]
  BY ResultStep
<1>3. Has(t, "tool.completed")' => result[t] = "ok"
  BY NewFact DEF LogTellsTruth, OutcomeTruth
<1>4. Has(t, "tool.failed")' => result[t] = "error"
  BY NewFact DEF LogTellsTruth, OutcomeTruth
<1>5. Has(t, "operation.failed")' => result[t] = "error"
  BY NewFact DEF LogTellsTruth, OutcomeTruth, Close
<1> QED  BY <1>2, <1>3, <1>4, <1>5

(* The invariant behind LogTellsTruth, in every behaviour.                 *)
LEMMA TruthInvariant == Spec => []TruthInv
<1>1. Init => TruthInv
  BY DEF Init, TruthInv, LedgerTruth, OutcomeTruth, LogTellsTruth, Has
<1>2. TypeInv /\ RunsInv /\ PlannedInv /\ TruthInv /\ [Next]_vars => TruthInv'
  <2> SUFFICES ASSUME TypeInv, RunsInv, PlannedInv, TruthInv, [Next]_vars
               PROVE  TruthInv'
    OBVIOUS
  <2>1. CASE UNCHANGED vars
    BY <2>1 DEF TruthInv, LedgerTruth, OutcomeTruth, LogTellsTruth, Has, vars,
       logVars, ledgerVars, procVars, toolVars
  <2>2. CASE \E p \in Procs : Does(p)
    BY <2>2, LedgerStep, OutcomeStep, LogStep DEF TruthInv
  <2> QED  BY <2>1, <2>2 DEF Next, Does
<1> QED  BY <1>1, <1>2, RunsInvariant, PlannedInvariant, PTL DEF Spec

(* What the log says of an effect is what the tool reported, also when it  *)
(* is recovered from the ledger by another process                         *)
(* (_recover_pipeline_operation).                                          *)
THEOREM TruthfulLog == Spec => []LogTellsTruth
  BY TruthInvariant, PTL DEF TruthInv

-----------------------------------------------------------------------------
(* An unknown outcome blocks the loop.                                     *)

(* No later turn than t has begun.                                         *)
Newest(t) == \A u \in Turns : phase[u] # "none" => u <= t

(* Where a process works on a turn that has begun.                         *)
Resuming == PCs \ (Outside \cup {"begin"})

Opening == {"begin", "calling", "request"}

(* A turn that can still be taken up again is the newest one.              *)
TakenUp ==
    /\ \A t \in Turns : Has(t, "model.requested") => phase[t] # "none"
    /\ \A t \in Turns : command[t] # "none" => Has(t, "model.requested")
    /\ \A t \in Turns : starts[t] > 0 => phase[t] # "none"
    /\ \A t \in Unresolved : Newest(t)
    /\ \A t \in Unfinished : command[t] # "none" => Newest(t)
    /\ \A p \in Procs : pc[p] = "answer" => Has(turn[p], "model.requested")

OwnerNewest ==
    \A p \in Procs : owner = p =>
        /\ pc[p] = "begin" =>
              /\ \A u \in Turns : phase[u] # "none" => u < turn[p]
              /\ Unresolved = {} /\ \A t \in Unfinished : command[t] = "none"
        /\ pc[p] \in Resuming => phase[turn[p]] # "none" /\ Newest(turn[p])
        /\ pc[p] \in Opening => ~Unknown

BlockInv == TakenUp /\ OwnerNewest /\ UnknownBlocks

(* Only an answer changes the command of a turn, and only an announcement  *)
(* its starts.                                                             *)
LEMMA Kept ==
    ASSUME NEW p \in Procs, Does(p)
    PROVE  (Answer(p) \/ command' = command) /\ (Announce(p) \/ starts' = starts)
<1> DEFINE Same == UNCHANGED <<command, starts>>
<1>1. \A e, next : Record(p, e, next) => Same
  BY DEF Record
<1>2. \A ph, next : Turned(p, ph, next) => Same
  BY DEF Turned, Phase
<1>3. \A e, next : Outer(p, e, next) => Same
  BY DEF Outer
<1>4. SUFFICES Answer(p) \/ Announce(p) \/ Same
  BY DEF Answer, Announce
<1> HIDE DEF Same
<1>5. CASE Recording(p)
  BY <1>1, <1>5 DEF Recording, Request, Reuse, ReuseCommand, Reject, Result,
     Close, Gate, Nudge, Waiting
<1>6. CASE Turning(p)
  BY <1>2, <1>6 DEF Turning, Begin, Calling, Validate, Authorize, Rejecting,
     Execute, Recover, RecordResult, Submit
<1>7. CASE Act(p) \/ StepFailed(p) \/ Exhaust(p)
  BY <1>1, <1>2, <1>3, <1>7 DEF Act, StepFailed, Exhaust
<1>8. CASE Ack(p) \/ Abandon(p) \/ Crash(p) \/ Injected(p)
  BY <1>8 DEF Ack, Abandon, Crash, Injected, logVars, Same
<1>9. CASE Entering(p)
  BY <1>9 DEF Entering, EnterHalted, EnterUnresolved, EnterResponse, EnterRequest,
     EnterFresh, Local, logVars, Same
<1>10. CASE Parse(p)
  BY <1>1, <1>10 DEF Parse, logVars, Same
<1>11. CASE Load(p) \/ Prepare(p) \/ Start(p) \/ Call(p) \/ Settle(p)
  BY <1>11 DEF Load, Prepare, Start, Call, Settle, logVars, Same
<1>14. CASE AfterTerminal(p) \/ Finish(p) \/ Pause(p)
  BY <1>14 DEF AfterTerminal, Finish, Pause, logVars, Same
<1>15. CASE Ready(p) \/ Heartbeat(p) \/ Dispatch(p)
  BY <1>15 DEF Ready, Heartbeat, Dispatch, Same
<1> QED
  BY <1>5, <1>6, <1>7, <1>8, <1>9, <1>10, <1>11, <1>14, <1>15
     DEF Does, Step, Recording, Turning, Entering

(* Where a process that works on a turn was before.                        *)
LEMMA Resumes ==
    ASSUME TypeOK, NEW p \in Procs, Does(p), pc'[p] \in Resuming
    PROVE  \/ EnterUnresolved(p) \/ EnterResponse(p)
           \/ pc[p] \in Resuming /\ UNCHANGED <<turn, owner>>
           \/ Begin(p) /\ UNCHANGED <<turn, owner>>
<1> DEFINE Was == pc[p] \in Resuming /\ UNCHANGED <<turn, owner>>
<1>0. ASSUME pc[p] \notin Outside \cup {"begin"}, UNCHANGED <<turn, owner>> PROVE Was
  BY <1>0 DEF Resuming, TypeOK
<1>4. ASSUME pc'[p] \in Outside \cup {"begin"} PROVE FALSE
  BY <1>4 DEF Resuming
<1>1. \A e, next : Record(p, e, next) => UNCHANGED <<turn, owner>>
  BY DEF Record, procVars
<1>2. \A ph, next : Turned(p, ph, next) => UNCHANGED <<turn, owner>>
  BY DEF Turned, procVars
<1>3. \A next : Goto(p, next) => pc'[p] = next
  BY DEF Goto, TypeOK
<1> HIDE DEF Was
<1>5. CASE Recording(p)
  <2>1. pc[p] \notin Outside \cup {"begin"}
    BY <1>5 DEF Outside, Recording, Request, Reuse, ReuseCommand, Reject, Result,
       Close, Gate, Nudge, Waiting
  <2>2. UNCHANGED <<turn, owner>>
    BY <1>1, <1>5 DEF Recording, Request, Reuse, ReuseCommand, Reject, Result,
       Close, Gate, Nudge, Waiting
  <2> QED  BY <1>0, <2>1, <2>2 DEF Was
<1>6. CASE Turning(p)
  <2>1. Begin(p) \/ pc[p] \notin Outside \cup {"begin"}
    BY <1>6 DEF Outside, Turning, Begin, Calling, Validate, Authorize, Rejecting,
       Execute, Recover, RecordResult, Submit
  <2>2. UNCHANGED <<turn, owner>>
    BY <1>2, <1>6 DEF Turning, Begin, Calling, Validate, Authorize, Rejecting,
       Execute, Recover, RecordResult, Submit
  <2> QED  BY <1>0, <2>1, <2>2 DEF Was
<1>7. CASE Act(p)
  <2>1. pc[p] \notin Outside \cup {"begin"} /\ UNCHANGED <<turn, owner>>
    BY <1>1, <1>2, <1>7 DEF Act, Outside
  <2> QED  BY <1>0, <2>1 DEF Was
<1>8. CASE Ack(p) \/ Abandon(p) \/ Crash(p) \/ Injected(p)
  BY <1>4, <1>3, <1>8 DEF Ack, Abandon, Crash, Injected, Leave, Outside
<1>9. CASE EnterHalted(p) \/ EnterRequest(p) \/ EnterFresh(p)
  BY <1>4, <1>3, <1>9 DEF EnterHalted, EnterRequest, EnterFresh, Local, Outside
<1>10. CASE Parse(p)
  <2>1. pc[p] \notin Outside \cup {"begin"}
    BY <1>10 DEF Parse, Outside
  <2>2. UNCHANGED <<turn, owner>>
    BY <1>1, <1>10 DEF Parse, procVars
  <2> QED  BY <1>0, <2>1, <2>2 DEF Was
<1>11. CASE Answer(p) \/ Prepare(p) \/ Announce(p)
  BY <1>0, <1>11 DEF Answer, Prepare, Announce, Outside, procVars, Was
<1>12. CASE Start(p) \/ Call(p) \/ Settle(p)
  BY <1>0, <1>12 DEF Start, Call, Settle, Outside, procVars, Was
<1>13. CASE Load(p) \/ Dispatch(p)
  BY <1>4, <1>3, <1>13 DEF Load, Dispatch, Outside
<1>14. CASE AfterTerminal(p) \/ Finish(p) \/ Pause(p) \/ Ready(p)
  BY <1>4, <1>3, <1>14 DEF AfterTerminal, Finish, Pause, Ready, Outside
<1>15. CASE StepFailed(p) \/ Exhaust(p)
  BY <1>4, <1>3, <1>15 DEF StepFailed, Exhaust, Outer, Outside
<1>16. CASE Heartbeat(p)
  BY <1>16, Beats DEF procVars, Resuming
<1> QED
  BY <1>5, <1>6, <1>7, <1>8, <1>9, <1>10, <1>11, <1>12, <1>13, <1>14, <1>15, <1>16
     DEF Does, Step, Recording, Turning

(* A turn begins only in Begin, for the owner.                             *)
LEMMA NewPhase ==
    ASSUME TypeInv, RunsInv, BlockInv, NEW p \in Procs, Does(p),
           NEW u \in Turns, phase[u] = "none", phase'[u] # "none"
    PROVE  Begin(p) /\ owner = p /\ turn[p] = u
<1> USE DEF TypeInv, RunsInv, BlockInv
<1>1. owner = p /\ turn[p] = u
  BY PhaseStep
<1>2. pc[p] \notin Resuming
  BY <1>1 DEF OwnerNewest
<1>3. Turning(p) \/ Act(p)
  BY PhaseFrame
<1>4. CASE Begin(p)
  BY <1>1, <1>4
<1>5. CASE ~Begin(p)
  <2>1. pc[p] \notin Outside \cup {"begin"}
    BY <1>3, <1>5 DEF Outside, Turning, Calling, Validate, Authorize, Rejecting,
       Execute, Recover, RecordResult, Submit, Act
  <2> QED  BY <1>2, <2>1 DEF Resuming, TypeOK
<1> QED  BY <1>4, <1>5

(* Turns that can be taken up again stay the newest.                       *)
LEMMA TakenUpStep ==
    ASSUME TypeInv, RunsInv, BlockInv, NEW p \in Procs, Does(p) PROVE TakenUp'
<1> USE DEF TypeInv, RunsInv, BlockInv
<1>1. \A t \in Turns : phase[t] # "none" => phase'[t] # "none"
  BY PhaseStep
<1>2. ASSUME owner = p, pc[p] \in {"request", "answer", "announce"}
      PROVE  turn[p] \in Turns /\ phase[turn[p]] # "none" /\ Newest(turn[p])
  <2>1. pc[p] \in Resuming
    BY <1>2 DEF Resuming, PCs, Outside
  <2> QED  BY <1>2, <2>1 DEF OwnerNewest, InTurn, Outside
<1>3. ASSUME NEW t \in Turns, Has(t, "model.requested")' PROVE phase'[t] # "none"
  <2>1. CASE Has(t, "model.requested")
    BY <1>1, <2>1 DEF TakenUp
  <2>2. CASE ~Has(t, "model.requested")
    <3>1. owner = p /\ turn[p] = t /\ Request(p)
      BY <1>3, <2>2, NewFact
    <3> QED  BY <1>1, <1>2, <3>1 DEF Request
  <2> QED  BY <2>1, <2>2
<1>4. \A t \in Turns : Has(t, "model.requested") => Has(t, "model.requested")'
  BY NewFact DEF Has
<1>5. ASSUME NEW t \in Turns, command'[t] # "none" PROVE Has(t, "model.requested")'
  <2>1. CASE command[t] # "none"
    BY <1>4, <2>1 DEF TakenUp
  <2>2. CASE command[t] = "none"
    <3>1. Answer(p) /\ turn[p] = t
      BY <1>5, <2>2, Kept DEF Answer, TypeOK
    <3> QED  BY <1>4, <3>1 DEF Answer, TakenUp
  <2> QED  BY <2>1, <2>2
<1>6. ASSUME NEW t \in Turns, starts'[t] > 0 PROVE phase'[t] # "none"
  <2>1. CASE starts[t] > 0
    BY <1>1, <2>1 DEF TakenUp
  <2>2. CASE ~(starts[t] > 0)
    <3>1. Announce(p) /\ turn[p] = t /\ owner = p
      BY <1>6, <2>2, Kept DEF Announce, TypeOK, Writable
    <3> QED  BY <1>1, <1>2, <3>1 DEF Announce
  <2> QED  BY <2>1, <2>2
<1>7. ASSUME NEW t \in Turns, Newest(t), ~Begin(p) PROVE Newest(t)'
  BY <1>7, NewPhase DEF Newest
<1>8. ASSUME NEW t \in Unresolved' PROVE Newest(t)'
  <2>1. t \in Turns /\ starts'[t] > 0 /\ \A e \in OperationEnds : ~Has(t, e)
    BY <1>8, NewFact DEF Unresolved, Has
  <2>2. CASE t \in Unresolved
    <3>1. Newest(t)
      BY <2>2 DEF TakenUp
    <3>2. CASE Begin(p) /\ owner = p
      BY <2>2, <3>2 DEF Begin, OwnerNewest
    <3>3. CASE ~(Begin(p) /\ owner = p)
      BY <2>1, <3>1, <3>3, NewPhase DEF Newest
    <3> QED  BY <3>2, <3>3
  <2>3. CASE t \notin Unresolved
    <3>1. Announce(p) /\ turn[p] = t /\ owner = p
      BY <2>1, <2>3, Kept DEF Unresolved, Announce, TypeOK, Writable
    <3>2. ~Begin(p)
      BY <3>1 DEF Announce, Begin
    <3> QED  BY <1>2, <1>7, <3>1, <3>2 DEF Announce
  <2> QED  BY <2>2, <2>3
<1>9. ASSUME NEW t \in Unfinished', command'[t] # "none" PROVE Newest(t)'
  <2>1. t \in Turns /\ Has(t, "model.requested")' /\ \A e \in TurnCompleted : ~Has(t, e)
    BY <1>9, NewFact DEF Unfinished, Has
  <2>2. CASE t \in Unfinished /\ command[t] # "none"
    <3>1. Newest(t)
      BY <2>2 DEF TakenUp
    <3>2. CASE Begin(p) /\ owner = p
      BY <2>2, <3>2 DEF Begin, OwnerNewest
    <3>3. CASE ~(Begin(p) /\ owner = p)
      BY <2>1, <3>1, <3>3, NewPhase DEF Newest
    <3> QED  BY <3>2, <3>3
  <2>3. CASE t \in Unfinished /\ command[t] = "none"
    <3>1. Answer(p) /\ turn[p] = t /\ owner = p
      BY <1>9, <2>1, <2>3, Kept DEF Answer, TypeOK, Writable
    <3>2. ~Begin(p)
      BY <3>1 DEF Answer, Begin
    <3> QED  BY <1>2, <1>7, <3>1, <3>2 DEF Answer
  <2>4. CASE t \notin Unfinished
    <3>1. ~Has(t, "model.requested")
      BY <2>1, <2>4 DEF Unfinished
    <3>2. Request(p) /\ turn[p] = t /\ owner = p
      BY <2>1, <3>1, NewFact
    <3>3. ~Begin(p)
      BY <3>2 DEF Request, Begin
    <3> QED  BY <1>2, <1>7, <3>2, <3>3 DEF Request
  <2> QED  BY <2>2, <2>3, <2>4
<1>10. ASSUME NEW q \in Procs, pc'[q] = "answer" PROVE Has(turn[q], "model.requested")'
  <2>1. CASE q # p \/ Heartbeat(p)
    <3>1. pc[q] = "answer" /\ turn'[q] = turn[q]
      BY <1>10, <2>1, Locals, Beats DEF procVars
    <3> QED  BY <3>1, NewFact DEF TakenUp, Has
  <2>2. CASE q = p /\ ~Heartbeat(p)
    <3>1. Request(p)
      BY <1>10, <2>2, Comes
    <3> QED  BY <2>2, <3>1 DEF Request, Record, Append, Has, procVars
  <2> QED  BY <2>1, <2>2
<1> QED  BY <1>3, <1>5, <1>6, <1>8, <1>9, <1>10 DEF TakenUp

(* The owner works on the newest turn, and opens one only behind a log     *)
(* that leaves nothing to take up.                                         *)
LEMMA OwnerNewestStep ==
    ASSUME TypeInv, RunsInv, BlockInv, NEW p \in Procs, Does(p) PROVE OwnerNewest'
<1> USE DEF TypeInv, RunsInv, BlockInv
<1> DEFINE Placed(q) ==
             /\ pc[q] = "begin" =>
                  /\ \A u \in Turns : phase[u] # "none" => u < turn[q]
                  /\ Unresolved = {} /\ \A t \in Unfinished : command[t] = "none"
             /\ pc[q] \in Resuming => phase[turn[q]] # "none" /\ Newest(turn[q])
             /\ pc[q] \in Opening => ~Unknown
<1>1. \A q \in Procs : owner = q => Placed(q)
  BY DEF OwnerNewest
<1>2. SUFFICES ASSUME NEW q \in Procs, owner' = q PROVE Placed(q)'
  BY <1>2 DEF OwnerNewest
<1>3. ASSUME UNCHANGED <<facts, phase, command, starts>>
      PROVE  /\ Unresolved' = Unresolved /\ Unfinished' = Unfinished
             /\ Unknown' = Unknown /\ \A t : Newest(t)' = Newest(t)
  BY <1>3 DEF Unresolved, Unfinished, Unknown, Newest, Has
<1>4. CASE q # p \/ Heartbeat(p)
  <2>1. /\ owner = q /\ UNCHANGED <<facts, phase, command, starts>>
        /\ pc'[q] = pc[q] /\ turn'[q] = turn[q]
    BY <1>2, <1>4, Fenced, Locals, Beats DEF procVars
  <2>2. Placed(q)
    BY <1>1, <2>1
  <2> QED  BY <1>3, <2>1, <2>2 DEF Newest
<1>5. CASE q = p /\ ~Heartbeat(p)
  <2>1. ASSUME pc'[p] = "begin"
        PROVE  /\ \A u \in Turns : phase'[u] # "none" => u < turn'[p]
               /\ Unresolved' = {} /\ \A t \in Unfinished' : command'[t] = "none"
               /\ ~Unknown'
    <3>1. EnterRequest(p) \/ EnterFresh(p)
      BY <1>5, <2>1, Comes
    <3>2. UNCHANGED <<facts, phase, command, starts>>
      BY <3>1 DEF EnterRequest, EnterFresh, Local, logVars
    <3>3. turn'[p] = NextTurn /\ Unresolved = {} /\ ~Unknown
      BY <2>1, <3>1 DEF EnterRequest, EnterFresh, Resumable, Halted, Local, Goto,
         TypeOK
    <3>4. \A t \in Unfinished : command[t] = "none"
      <4>1. CASE EnterFresh(p)
        BY <4>1 DEF EnterFresh
      <4>2. CASE EnterRequest(p)
        <5> DEFINE m == Max(Unfinished)
        <5>1. m \in Unfinished /\ m \in Turns /\ m \notin Answered
          BY <4>2, TakesTurns DEF EnterRequest, Resumable
        <5>2. \A t \in Unfinished : t <= m
          BY TakesTurns
        <5> HIDE DEF m
        <5>3. command[m] = "none" /\ phase[m] # "none"
          BY <5>1 DEF Answered, Unfinished, TakenUp
        <5>4. ASSUME NEW t \in Unfinished, command[t] # "none" PROVE FALSE
          <6>1. t \in Turns /\ m <= t /\ t <= m
            BY <5>1, <5>2, <5>3, <5>4 DEF TakenUp, Newest, Unfinished
          <6>2. t = m
            BY <5>1, <6>1, TurnNumbers
          <6> QED  BY <5>3, <5>4, <6>2
        <5> QED  BY <5>4
      <4> QED  BY <3>1, <4>1, <4>2
    <3> QED  BY <1>3, <3>2, <3>3, <3>4, Fresh
  <2>2. ASSUME pc'[p] \in Resuming
        PROVE  phase'[turn'[p]] # "none" /\ Newest(turn[p])'
    <3>1. CASE EnterUnresolved(p)
      <4>1. UNCHANGED <<facts, phase, command, starts>> /\ turn'[p] \in Unresolved
        BY <3>1, TakesTurns DEF EnterUnresolved, Local, logVars, TypeOK
      <4>2. phase[turn'[p]] # "none" /\ Newest(turn'[p])
        BY <4>1 DEF TakenUp, Unresolved
      <4> QED  BY <4>1, <4>2 DEF Newest
    <3>2. CASE EnterResponse(p)
      <4>1. /\ UNCHANGED <<facts, phase, command, starts>>
            /\ turn'[p] \in Unfinished /\ turn'[p] \in Answered
        BY <3>2, TakesTurns DEF EnterResponse, Resumable, Local, logVars, TypeOK
      <4>2. phase[turn'[p]] # "none" /\ Newest(turn'[p])
        BY <4>1 DEF TakenUp, Unfinished, Answered
      <4> QED  BY <4>1, <4>2 DEF Newest
    <3>3. CASE pc[p] \in Resuming /\ UNCHANGED <<turn, owner>>
      <4>1. phase[turn[p]] # "none" /\ Newest(turn[p]) /\ turn[p] \in Turns
        BY <1>2, <1>5, <3>3 DEF OwnerNewest, InTurn, Resuming
      <4>2. ~Begin(p)
        BY <3>3 DEF Begin, Resuming
      <4>3. phase'[turn[p]] # "none"
        BY <4>1, PhaseStep
      <4>4. Newest(turn[p])'
        BY <3>3, <4>1, <4>2, NewPhase DEF Newest
      <4> QED  BY <3>3, <4>3, <4>4 DEF Newest
    <3>4. CASE Begin(p) /\ UNCHANGED <<turn, owner>>
      <4>1. /\ turn[p] \in Turns /\ phase[turn[p]] = "none"
            /\ \A u \in Turns : phase[u] # "none" => u < turn[p]
        BY <1>2, <1>5, <3>4 DEF Begin, OwnerAlone, OwnerNewest, InTurn, Outside
      <4>2. phase' = [phase EXCEPT ![turn[p]] = "context_building"]
        <5>1. "illegal" \notin Resuming
          BY DEF Resuming, Outside
        <5> QED  BY <2>2, <3>4, <4>1, <5>1, Legal, Names DEF Begin
      <4> QED  BY <3>4, <4>1, <4>2, TurnNumbers DEF Newest, TypeOK
    <3> QED  BY <2>2, <3>1, <3>2, <3>3, <3>4, Resumes
  <2>3. ASSUME pc'[p] \in {"calling", "request"} PROVE ~Unknown'
    <3>1. Begin(p) \/ Calling(p)
      BY <1>5, <2>3, Comes
    <3>2. UNCHANGED <<facts, owner>> /\ pc[p] \in Opening
      BY <3>1 DEF Begin, Calling, Turned, Phase, Opening
    <3> QED  BY <1>2, <1>5, <3>2 DEF OwnerNewest, Unknown, Has
  <2> QED  BY <1>5, <2>1, <2>2, <2>3 DEF Opening, Newest
<1> QED  BY <1>4, <1>5

(* No model is asked behind an unknown outcome.                            *)
LEMMA UnknownStep ==
    ASSUME TypeInv, RunsInv, BlockInv, NEW p \in Procs, Does(p) PROVE UnknownBlocks'
<1> USE DEF TypeInv, RunsInv, BlockInv
<1>1. SUFFICES ASSUME NEW t \in Turns, NEW u \in Turns, u > t,
                      Has(t, "operation.unknown")', Has(u, "model.requested")'
               PROVE  FALSE
  BY DEF UnknownBlocks
<1>2. CASE ~Has(t, "operation.unknown")
  <2>1. Result(p) /\ owner = p /\ turn[p] = t
    BY <1>1, <1>2, NewFact
  <2>2. pc[p] \in Resuming
    BY <2>1 DEF Result, Resuming, PCs, Outside
  <2>3. Newest(t)
    BY <2>1, <2>2 DEF OwnerNewest
  <2>4. ~Request(p)
    BY <2>1 DEF Result, Request
  <2>5. Has(u, "model.requested")
    BY <1>1, <2>4, NewFact
  <2>6. u <= t
    BY <2>3, <2>5 DEF TakenUp, Newest
  <2> QED  BY <1>1, <2>6, TurnNumbers
<1>3. CASE Has(t, "operation.unknown") /\ ~Has(u, "model.requested")
  <2>1. Request(p) /\ owner = p
    BY <1>1, <1>3, NewFact
  <2>2. ~Unknown
    BY <2>1 DEF Request, OwnerNewest, Opening
  <2> QED  BY <1>3, <2>2 DEF Unknown
<1>4. CASE Has(t, "operation.unknown") /\ Has(u, "model.requested")
  BY <1>1, <1>4 DEF UnknownBlocks
<1> QED  BY <1>2, <1>3, <1>4

(* The invariant behind UnknownBlocks, in every behaviour.                 *)
LEMMA BlockInvariant == Spec => []BlockInv
<1>1. Init => BlockInv
  <2> SUFFICES ASSUME Init PROVE BlockInv
    OBVIOUS
  <2>1. Unresolved = {} /\ Unfinished = {}
    BY DEF Init, Unresolved, Unfinished, Has
  <2>2. TakenUp
    BY <2>1 DEF Init, TakenUp, Has
  <2>3. OwnerNewest
    BY LoopConstants DEF Init, OwnerNewest
  <2> QED  BY <2>2, <2>3 DEF Init, BlockInv, UnknownBlocks, Has
<1>2. TypeInv /\ RunsInv /\ BlockInv /\ [Next]_vars => BlockInv'
  <2> SUFFICES ASSUME TypeInv, RunsInv, BlockInv, [Next]_vars PROVE BlockInv'
    OBVIOUS
  <2>1. CASE UNCHANGED vars
    BY <2>1 DEF BlockInv, TakenUp, OwnerNewest, UnknownBlocks, Unresolved, Unfinished,
       Unknown, Newest, Has, vars, logVars, procVars
  <2>2. CASE \E p \in Procs : Does(p)
    BY <2>2, TakenUpStep, OwnerNewestStep, UnknownStep DEF BlockInv
  <2> QED  BY <2>1, <2>2 DEF Next, Does
<1> QED  BY <1>1, <1>2, RunsInvariant, PTL DEF Spec

(* Once an operation's outcome is unknown, no later turn asks the model    *)
(* (_has_unresolved_unknown), by whichever process and however often the   *)
(* delivery comes back.                                                    *)
THEOREM UnknownStops == Spec => []UnknownBlocks
  BY BlockInvariant, PTL DEF BlockInv

-----------------------------------------------------------------------------
(* The budget of tool calls.                                               *)

(* Where a process has read the log and has not added a start to it.       *)
Ahead == {"begin", "calling", "request", "answer", "reuse", "reuse_command",
          "validate", "parse", "authorize", "execute", "prepare", "start",
          "announce"}

(* Where its action has passed the budget.                                 *)
Allowed == {"execute", "prepare", "start", "announce"}

BudgetInv ==
    /\ Cardinality(Started) <= ToolLimit
    /\ \A p \in Procs : owner = p =>
          /\ pc[p] \in Ahead => used[p] = Cardinality(Started)
          /\ pc[p] \in Allowed => used[p] < ToolLimit

(* The owner's count is as fresh as its entry.                             *)
LEMMA AheadStep ==
    ASSUME TypeOK, NEW p \in Procs, Does(p), pc'[p] \in Ahead
    PROVE  \/ Entering(p)
           \/ pc[p] \in Ahead /\ UNCHANGED <<used, owner, starts>>
<1> DEFINE Was == pc[p] \in Ahead /\ UNCHANGED <<used, owner, starts>>
<1>1. \A e, next : Record(p, e, next)
                     => pc'[p] = next /\ UNCHANGED <<used, owner, starts>>
  BY DEF Record, Goto, procVars, TypeOK
<1>2. \A ph, next : Turned(p, ph, next)
        => pc'[p] \in {next, "illegal"} /\ UNCHANGED <<used, owner, starts>>
  BY DEF Turned, Phase, Goto, procVars, TypeOK
<1>3. \A next : Goto(p, next) => pc'[p] = next
  BY DEF Goto, TypeOK
<1>4. ASSUME pc'[p] \notin Ahead PROVE FALSE
  BY <1>4
<1>5. CASE Request(p) \/ Reuse(p) \/ ReuseCommand(p)
  BY <1>1, <1>5 DEF Request, Reuse, ReuseCommand, Ahead
<1>6. CASE Reject(p) \/ Result(p) \/ Close(p) \/ Gate(p) \/ Nudge(p) \/ Waiting(p)
  BY <1>1, <1>6 DEF Reject, Result, Close, Gate, Nudge, Waiting, Ahead
<1>7. CASE Begin(p) \/ Calling(p) \/ Validate(p) \/ Authorize(p) \/ Execute(p)
  BY <1>2, <1>7 DEF Begin, Calling, Validate, Authorize, Execute, Ahead
<1>8. CASE Rejecting(p) \/ Recover(p) \/ RecordResult(p) \/ Submit(p)
  BY <1>2, <1>8 DEF Rejecting, Recover, RecordResult, Submit, Ahead
<1>9. CASE Act(p)
  BY <1>1, <1>2, <1>9 DEF Act, Ahead
<1>10. CASE Parse(p)
  BY <1>1, <1>3, <1>10 DEF Parse, Ahead
<1>11. CASE Answer(p) \/ Prepare(p) \/ Start(p)
  BY <1>11 DEF Answer, Prepare, Start, Ahead, logVars, procVars
<1>12. CASE Announce(p) \/ Call(p) \/ Settle(p) \/ Load(p) \/ Dispatch(p)
  BY <1>3, <1>12 DEF Announce, Call, Settle, Load, Dispatch, Ahead
<1>13. CASE Ack(p) \/ Abandon(p) \/ Crash(p) \/ Injected(p)
  BY <1>3, <1>13 DEF Ack, Abandon, Crash, Injected, Leave, Ahead
<1>14. CASE AfterTerminal(p) \/ Finish(p) \/ Pause(p) \/ Ready(p)
  BY <1>3, <1>14 DEF AfterTerminal, Finish, Pause, Ready, Ahead
<1>15. CASE StepFailed(p) \/ Exhaust(p)
  BY <1>3, <1>15 DEF StepFailed, Exhaust, Outer, Ahead
<1>16. CASE Heartbeat(p)
  BY <1>16, Beats DEF procVars
<1> QED
  BY <1>5, <1>6, <1>7, <1>8, <1>9, <1>10, <1>11, <1>12, <1>13, <1>14, <1>15, <1>16
     DEF Does, Step, Entering

(* Only an authorization leads to the execution of a tool.                 *)
LEMMA Authorized ==
    ASSUME TypeOK, NEW p \in Procs, Does(p), pc'[p] = "execute", pc[p] # "execute"
    PROVE  used[p] < ToolLimit /\ pc[p] = "authorize" /\ UNCHANGED <<used, owner>>
<1>1. pc'[p] \in Ahead
  BY DEF Ahead
<1>2. ~Entering(p)
  BY DEF Entering, EnterHalted, EnterUnresolved, EnterResponse, EnterRequest,
     EnterFresh, Local, Goto, AfterAnswer, AfterReuse, TypeOK
<1>3. pc[p] \in Ahead /\ UNCHANGED <<used, owner>>
  BY <1>1, <1>2, AheadStep
<1>4. Authorize(p)
  <2>1. \A e, next : Record(p, e, next) => pc'[p] = next
    BY DEF Record, Goto, TypeOK
  <2>2. \A ph, next : Turned(p, ph, next) => pc'[p] \in {next, "illegal"}
    BY DEF Turned, Phase, Goto, TypeOK
  <2>3. \A next : Goto(p, next) => pc'[p] = next
    BY DEF Goto, TypeOK
  <2>4. pc'[p] = "execute" /\ pc'[p] # pc[p]
    OBVIOUS
  <2>5. ~Recording(p) /\ ~Act(p) /\ ~Parse(p)
    BY <2>1, <2>2, <2>3, <2>4 DEF Recording, Request, Reuse, ReuseCommand, Reject,
       Result, Close, Gate, Nudge, Waiting, Act, Parse, AfterReuse
  <2>6. Turning(p) => Authorize(p)
    BY <2>2, <2>4 DEF Turning, Begin, Calling, Validate, Rejecting, Execute, Recover,
       RecordResult, Submit
  <2>7. /\ ~Load(p) /\ ~Answer(p) /\ ~Prepare(p) /\ ~Start(p) /\ ~Announce(p)
        /\ ~Call(p) /\ ~Settle(p) /\ ~Dispatch(p) /\ ~StepFailed(p) /\ ~Exhaust(p)
    BY <2>3, <2>4 DEF Load, Answer, Prepare, Start, Announce, Call, Settle, Dispatch,
       StepFailed, Exhaust, Outer
  <2>8. /\ ~Ack(p) /\ ~Abandon(p) /\ ~Crash(p) /\ ~Injected(p) /\ ~Heartbeat(p)
        /\ ~AfterTerminal(p) /\ ~Finish(p) /\ ~Pause(p) /\ ~Ready(p)
    BY <2>3, <2>4, Beats DEF Ack, Abandon, Crash, Injected, Leave, AfterTerminal,
       Finish, Pause, Ready
  <2> QED
    BY <1>2, <2>5, <2>6, <2>7, <2>8 DEF Does, Step, Recording, Turning, Entering
<1>5. ~Denied(p) /\ command[turn[p]] \in {"tool", "refused_tool"}
  BY <1>4 DEF Authorize, Turned, Phase, Goto, TypeOK
<1>6. ~(used[p] >= ToolLimit)
  BY <1>5 DEF Denied
<1> QED  BY <1>3, <1>4, <1>6, LoopConstants DEF Authorize, TypeOK

(* The count of started calls stays within the budget.                     *)
LEMMA BudgetStep ==
    ASSUME TypeInv, RunsInv, BudgetInv, NEW p \in Procs, Does(p) PROVE BudgetInv'
<1> USE DEF TypeInv, RunsInv
<1>1. /\ IsFiniteSet(Started) /\ Cardinality(Started) \in Nat
  BY TurnsCounted DEF Started
<1>2. Cardinality(Started)' <= ToolLimit
  <2>1. CASE Announce(p)
    <3>5. turn[p] \in Turns /\ starts[turn[p]] = 0 /\ owner = p
      BY <2>1 DEF Announce, InTurn, Outside, OwnerAlone, Writable
    <3>1. starts' = [starts EXCEPT ![turn[p]] = 1]
      BY <2>1, <3>5 DEF Announce, TypeOK
    <3>2. Started' = Started \cup {turn[p]} /\ turn[p] \notin Started
      BY <3>1, <3>5 DEF Started, TypeOK
    <3>3. Cardinality(Started') = Cardinality(Started) + 1
      BY <1>1, <3>2, FS_AddElement
    <3>4. used[p] = Cardinality(Started) /\ used[p] < ToolLimit
      BY <2>1, <3>5 DEF Announce, BudgetInv, Ahead, Allowed
    <3> QED  BY <1>1, <3>3, <3>4, LoopConstants
  <2>2. CASE ~Announce(p)
    <3>1. Started' = Started
      BY <2>2, Kept DEF Started
    <3> QED  BY <3>1 DEF BudgetInv
  <2> QED  BY <2>1, <2>2
<1>3. ASSUME NEW q \in Procs, owner' = q
      PROVE  /\ pc'[q] \in Ahead => used'[q] = Cardinality(Started)'
             /\ pc'[q] \in Allowed => used'[q] < ToolLimit
  <2>1. CASE q # p
    <3>1. owner = q /\ starts' = starts /\ pc'[q] = pc[q] /\ used'[q] = used[q]
      BY <1>3, <2>1, Fenced, Locals
    <3>2. Started' = Started
      BY <3>1 DEF Started
    <3> QED  BY <3>1, <3>2 DEF BudgetInv
  <2>2. CASE q = p
    <3>1. ASSUME pc'[p] \in Ahead PROVE used'[p] = Cardinality(Started)'
      <4>1. CASE Entering(p)
        <5>1. used'[p] = Cardinality(Started) /\ starts' = starts
          BY <4>1 DEF Entering, EnterHalted, EnterUnresolved, EnterResponse,
             EnterRequest, EnterFresh, Local, logVars, TypeOK
        <5>2. Started' = Started
          BY <5>1 DEF Started
        <5> QED  BY <5>1, <5>2
      <4>2. CASE pc[p] \in Ahead /\ UNCHANGED <<used, owner, starts>>
        <5>1. Started' = Started
          BY <4>2 DEF Started
        <5> QED  BY <1>3, <2>2, <4>2, <5>1 DEF BudgetInv
      <4> QED  BY <3>1, <4>1, <4>2, AheadStep
    <3>2. ASSUME pc'[p] \in Allowed PROVE used'[p] < ToolLimit
      <4>1. CASE Heartbeat(p)
        BY <1>3, <2>2, <3>2, <4>1, Beats DEF BudgetInv, procVars
      <4>2. CASE ~Heartbeat(p) /\ pc'[p] = "execute"
        <5>1. CASE pc[p] = "execute"
          <6>1. UNCHANGED <<used, owner>>
            <7>1. ~Entering(p)
              BY <5>1 DEF Entering, EnterHalted, EnterUnresolved, EnterResponse,
                 EnterRequest, EnterFresh, Resumable
            <7> QED  BY <4>2, <7>1, AheadStep DEF Ahead
          <6> QED  BY <1>3, <2>2, <5>1, <6>1 DEF BudgetInv, Allowed
        <5>2. CASE pc[p] # "execute"
          BY <4>2, <5>2, Authorized
        <5> QED  BY <5>1, <5>2
      <4>3. CASE ~Heartbeat(p) /\ pc'[p] # "execute"
        <5>1. Execute(p) \/ Prepare(p) \/ Start(p)
          BY <3>2, <4>3, Comes DEF Allowed
        <5>2. UNCHANGED <<used, owner>> /\ pc[p] \in Allowed
          BY <5>1 DEF Execute, Turned, Prepare, Start, procVars, Allowed
        <5> QED  BY <1>3, <2>2, <5>2 DEF BudgetInv
      <4> QED  BY <4>1, <4>2, <4>3
    <3> QED  BY <2>2, <3>1, <3>2
  <2> QED  BY <2>1, <2>2
<1> QED  BY <1>2, <1>3 DEF BudgetInv

(* The invariant behind WithinToolBudget, in every behaviour.              *)
LEMMA BudgetInvariant == Spec => []BudgetInv
<1>1. Init => BudgetInv
  <2> SUFFICES ASSUME Init PROVE BudgetInv
    OBVIOUS
  <2>1. Started = {}
    BY DEF Init, Started
  <2>2. Cardinality(Started) = 0
    BY <2>1, FS_EmptySet
  <2> QED  BY <2>2, LoopConstants DEF Init, BudgetInv
<1>2. TypeInv /\ RunsInv /\ BudgetInv /\ [Next]_vars => BudgetInv'
  <2> SUFFICES ASSUME TypeInv, RunsInv, BudgetInv, [Next]_vars PROVE BudgetInv'
    OBVIOUS
  <2>1. CASE UNCHANGED vars
    BY <2>1 DEF BudgetInv, Started, vars, logVars, procVars
  <2>2. CASE \E p \in Procs : Does(p)
    BY <2>2, BudgetStep
  <2> QED  BY <2>1, <2>2 DEF Next, Does
<1> QED  BY <1>1, <1>2, RunsInvariant, PTL DEF Spec

(* Over crashes, takeovers and redeliveries no more tools run than         *)
(* budgets.tool_calls allows: the count is that of the durable             *)
(* operation.started facts, and the fence keeps it fresh.                  *)
THEOREM ToolBudgetHolds == Spec => []WithinToolBudget
<1>1. TypeInv /\ RunsInv /\ BudgetInv => WithinToolBudget
  <2> SUFFICES ASSUME TypeInv, RunsInv, BudgetInv PROVE WithinToolBudget
    OBVIOUS
  <2> DEFINE Ran == {t \in Turns : calls[t] > 0}
  <2>1. Ran \subseteq Started
    BY DEF Started, RunsInv, ToolRunsOnce, TypeInv, TypeOK
  <2>2. IsFiniteSet(Started) /\ Cardinality(Started) \in Nat
    BY TurnsCounted DEF Started
  <2>3. IsFiniteSet(Ran) /\ Cardinality(Ran) \in Nat
    BY TurnsCounted
  <2> HIDE DEF Ran
  <2>4. Cardinality(Ran) <= Cardinality(Started)
    BY <2>1, <2>2, FS_Subset
  <2>5. Cardinality(Ran) <= ToolLimit
    BY <2>2, <2>3, <2>4, LoopConstants DEF BudgetInv
  <2> QED  BY <2>5 DEF Ran, WithinToolBudget
<1> QED  BY <1>1, RunsInvariant, BudgetInvariant, PTL
-----------------------------------------------------------------------------
(* The budget of turns.                                                    *)

(* Where a step has not been answered yet.                                 *)
Pre == {"idle", "load", "enter", "begin", "calling", "request", "answer"}

(* The owner may have been answered for the delivery in its hand.          *)
Busy == \E p \in Procs : owner = p /\ pc[p] \notin Pre

(* Every answer is paid for by a delivery that is gone, by the one in the  *)
(* owner's hand or by a loss; deliveries are numbered within the budget.   *)
PaidFor ==
    Cardinality(Answered) + Cardinality(queue)
        <= sent + losses + (IF Busy THEN 1 ELSE 0)

InHand == \A p \in Procs : owner = p /\ pc[p] # "idle" => job[p] \in queue

TurnInv == sent <= TurnLimit /\ IsFiniteSet(queue) /\ InHand /\ PaidFor

(* A step that neither begins nor ends an execution leaves the mailbox,    *)
(* the claim and the delivery in hand alone.                               *)
LEMMA Carries ==
    ASSUME TypeOK, NEW p \in Procs, Does(p)
    PROVE  \/ Dispatch(p) \/ Crash(p) \/ Injected(p) \/ Ready(p) \/ Ack(p)
           \/ Abandon(p)
           \/ /\ UNCHANGED <<queue, sent, owner, job, losses>>
              /\ pc[p] # "idle" /\ pc'[p] # "idle"
<1> DEFINE Rest == UNCHANGED <<queue, sent, owner, job, losses>>
           Same == Rest /\ pc[p] # "idle" /\ pc'[p] # "idle"
<1>1. \A e, next : Record(p, e, next) => Rest /\ pc'[p] = next
  BY DEF Record, Goto, procVars, mailVars, TypeOK
<1>2. \A ph, next : Turned(p, ph, next) => Rest /\ pc'[p] \in {next, "illegal"}
  BY DEF Turned, Phase, Goto, procVars, mailVars, TypeOK
<1>3. \A e, next : Outer(p, e, next) => Rest /\ pc'[p] = next
  BY DEF Outer, Goto, procVars, mailVars, TypeOK
<1>4. \A t, next : Local(p, t, next) => Rest /\ pc'[p] = next
  BY DEF Local, Goto, mailVars, TypeOK
<1>5. \A next : Goto(p, next) => pc'[p] = next
  BY DEF Goto, TypeOK
<1> HIDE DEF Rest
<1>6. ASSUME Recording(p) PROVE Same
  BY <1>1, <1>6 DEF Recording, Request, Reuse, ReuseCommand, Reject, Result,
     Close, Gate, Nudge, Waiting, AfterReuse
<1>7. ASSUME Turning(p) PROVE Same
  BY <1>2, <1>7 DEF Turning, Begin, Calling, Validate, Authorize, Rejecting,
     Execute, Recover, RecordResult, Submit
<1>8. ASSUME Act(p) \/ StepFailed(p) \/ Exhaust(p) PROVE Same
  BY <1>1, <1>2, <1>3, <1>8 DEF Act, StepFailed, Exhaust
<1>9. ASSUME Entering(p) PROVE Same
  BY <1>4, <1>9 DEF Entering, EnterHalted, EnterUnresolved, EnterResponse,
     EnterRequest, EnterFresh, Resumable, AfterAnswer, AfterReuse
<1>10. ASSUME Parse(p) PROVE Same
  BY <1>1, <1>5, <1>10 DEF Parse, Rest, procVars, mailVars
<1>11. ASSUME Load(p) \/ Answer(p) \/ Prepare(p) \/ Announce(p) PROVE Same
  BY <1>5, <1>11 DEF Load, Answer, Prepare, Announce, Rest, procVars, mailVars
<1>12. ASSUME Start(p) \/ Call(p) \/ Settle(p) PROVE Same
  BY <1>5, <1>12 DEF Start, Call, Settle, Rest, procVars, mailVars
<1>13. ASSUME AfterTerminal(p) \/ Finish(p) \/ Pause(p) PROVE Same
  BY <1>5, <1>13 DEF AfterTerminal, Finish, Pause, Rest, procVars, mailVars
<1>14. ASSUME Heartbeat(p) PROVE Same
  BY <1>14 DEF Heartbeat, Rest, procVars, mailVars
<1> HIDE DEF Same
<1> QED
  BY <1>6, <1>7, <1>8, <1>9, <1>10, <1>11, <1>12, <1>13, <1>14
     DEF Does, Step, Recording, Turning, Entering, Same, Rest

(* In the middle of an execution nobody goes back to before its answer.    *)
LEMMA NoWayBack ==
    ASSUME TypeOK, NEW p \in Procs, Does(p), pc'[p] # "idle", pc'[p] \in Pre
    PROVE  pc[p] \in Pre
<1>1. CASE Heartbeat(p)
  BY <1>1, Beats
<1>2. CASE ~Heartbeat(p)
  <2>1. \/ EnterRequest(p) \/ EnterFresh(p) \/ Begin(p) \/ Calling(p)
        \/ Request(p) \/ Dispatch(p) \/ Load(p)
    BY <1>2, Comes DEF Pre
  <2> QED
    BY <2>1 DEF EnterRequest, Resumable, EnterFresh, Begin, Calling, Request,
       Dispatch, Load, Pre
<1> QED  BY <1>1, <1>2

(* An answer adds at most its own turn to those answered.                  *)
LEMMA OneAnswerMore ==
    ASSUME TypeInv, NEW p \in Procs, Answer(p)
    PROVE  Cardinality(Answered') <= Cardinality(Answered) + 1
<1>1. IsFiniteSet(Answered) /\ Cardinality(Answered) \in Nat
  BY TurnsCounted DEF Answered
<1>2. Answered' \subseteq Answered \cup {turn[p]}
  BY DEF Answer, Answered, TypeInv, TypeOK
<1>3. /\ IsFiniteSet(Answered \cup {turn[p]})
      /\ \/ Cardinality(Answered \cup {turn[p]}) = Cardinality(Answered)
         \/ Cardinality(Answered \cup {turn[p]}) = Cardinality(Answered) + 1
  BY <1>1, FS_AddElement
<1>4. Cardinality(Answered') <= Cardinality(Answered \cup {turn[p]})
  BY <1>2, <1>3, FS_Subset
<1>5. Cardinality(Answered') \in Nat
  BY <1>2, <1>3, FS_Subset, FS_CardinalityType
<1> QED  BY <1>1, <1>3, <1>4, <1>5

(* The owner always has a delivery of the mailbox in hand.                 *)
LEMMA InHandStep ==
    ASSUME TypeInv, TurnInv, NEW p \in Procs, Does(p)
    PROVE  InHand' /\ IsFiniteSet(queue')
<1> USE DEF TypeInv
<1>0. None \notin Procs /\ \A q \in Procs : job[q] \in Nat
  BY LoopConstants DEF TypeOK
<1>1. CASE Dispatch(p)
  <2>1. Min(queue) \in queue
    BY <1>1, MinIn DEF Dispatch, TypeOK
  <2>2. owner' = p /\ job'[p] = Min(queue) /\ queue' = queue
    BY <1>1 DEF Dispatch, mailVars, TypeOK
  <2> QED  BY <2>1, <2>2 DEF InHand, TurnInv
<1>2. CASE Crash(p) \/ Abandon(p)
  <2>1. pc'[p] = "idle" /\ queue' = queue /\ owner' = owner
    BY <1>2 DEF Crash, Abandon, Leave, Goto, mailVars, TypeOK
  <2>2. \A q \in Procs : q # p => pc'[q] = pc[q] /\ job'[q] = job[q]
    BY <1>2 DEF Crash, Abandon, Leave, Goto, TypeOK
  <2> QED  BY <2>1, <2>2 DEF InHand, TurnInv
<1>3. CASE Injected(p)
  BY <1>0, <1>3 DEF Injected, mailVars, InHand, TurnInv
<1>4. CASE Ready(p)
  <2>1. queue \subseteq queue' /\ owner' = owner /\ job' = job /\ owner = p
          /\ pc[p] # "idle"
    BY <1>4 DEF Ready, procVars, Writable
  <2>2. IsFiniteSet(queue')
    BY <1>4, FS_AddElement DEF Ready, TurnInv
  <2> QED  BY <2>1, <2>2 DEF InHand, TurnInv
<1>5. CASE Ack(p)
  <2>1. owner' = None /\ queue' = queue \ {job[p]}
    BY <1>5 DEF Ack
  <2> QED  BY <1>0, <2>1, FS_RemoveElement DEF InHand, TurnInv
<1>6. CASE /\ UNCHANGED <<queue, sent, owner, job, losses>>
           /\ pc[p] # "idle" /\ pc'[p] # "idle"
  <2>1. \A q \in Procs : q # p => pc'[q] = pc[q]
    BY Locals
  <2> QED  BY <1>6, <2>1 DEF InHand, TurnInv
<1> QED  BY <1>1, <1>2, <1>3, <1>4, <1>5, <1>6, Carries

(* No step makes an answer or a delivery that is not paid for.             *)
LEMMA PaidStep ==
    ASSUME TypeInv, TurnInv, NEW p \in Procs, Does(p)
    PROVE  PaidFor' /\ (sent <= TurnLimit)'
<1> USE DEF TypeInv
<1> DEFINE A == Cardinality(Answered)
           Q == Cardinality(queue)
           B == IF Busy THEN 1 ELSE 0
<1>0. None \notin Procs /\ TurnLimit \in Nat
  BY LoopConstants
<1>1. A \in Nat /\ A' \in Nat
  BY TurnsCounted DEF Answered
<1>2. Q \in Nat /\ Q' \in Nat
  BY InHandStep, FS_CardinalityType DEF TurnInv
<1>3. sent \in Nat /\ sent' \in Nat /\ losses \in Nat /\ losses' \in Nat
  <2>1. TypeOK'
    BY TypeInvStep DEF Next, Does
  <2> QED  BY <2>1, LoopConstants DEF TypeOK
<1>4. B \in 0 .. 1 /\ B' \in 0 .. 1
  OBVIOUS
<1>5. PICK a \in Nat, q \in Nat, s \in Nat, l \in Nat, b \in 0 .. 1 :
        a = A /\ q = Q /\ s = sent /\ l = losses /\ b = B
  BY <1>1, <1>2, <1>3, <1>4
<1>6. PICK a2 \in Nat, q2 \in Nat, s2 \in Nat, l2 \in Nat, b2 \in 0 .. 1 :
        a2 = A' /\ q2 = Q' /\ s2 = sent' /\ l2 = losses' /\ b2 = B'
  BY <1>1, <1>2, <1>3, <1>4
<1>7. a + q <= s + l + b /\ s <= TurnLimit
  BY <1>5 DEF TurnInv, PaidFor
<1>8. SUFFICES a2 + q2 <= s2 + l2 + b2 /\ s2 <= TurnLimit
  BY <1>6 DEF PaidFor
<1>9. /\ Busy => b = 1
      /\ ~Busy => b = 0
      /\ Busy' => b2 = 1
      /\ ~Busy' => b2 = 0
  BY <1>5, <1>6
<1>10. /\ command' = command => a2 = a
       /\ queue' = queue => q2 = q
       /\ sent' = sent => s2 = s
       /\ losses' = losses => l2 = l
       /\ losses' = losses + 1 => l2 = l + 1
  BY <1>5, <1>6 DEF Answered
<1>11. Answer(p) => a2 <= a + 1
  BY <1>5, <1>6, OneAnswerMore
<1>12. CASE Dispatch(p)
  <2>1. a2 = a /\ q2 = q /\ s2 = s
    BY <1>10, <1>12 DEF Dispatch, mailVars
  <2>2. b2 = 0
    <3>1. owner' = p /\ pc'[p] \in {"load", "enter"}
      BY <1>12 DEF Dispatch, Goto, TypeOK
    <3>2. ~Busy'
      BY <3>1 DEF Busy, Pre
    <3> QED  BY <1>9, <3>2
  <2>3. l2 >= l + b
    <3>1. CASE Busy
      <4>1. PICK r \in Procs : owner = r /\ pc[r] \notin Pre
        BY <3>1 DEF Busy
      <4>2. owner # None /\ pc[owner] # "idle"
        BY <1>0, <4>1 DEF Pre
      <4>3. losses' = losses + 1
        BY <1>12, <4>2 DEF Dispatch
      <4>4. l2 = l + 1
        BY <1>10, <4>3
      <4> QED  BY <4>4
    <3>2. CASE ~Busy
      <4>1. losses' = losses \/ losses' = losses + 1
        BY <1>12 DEF Dispatch
      <4>2. l2 = l \/ l2 = l + 1
        BY <1>10, <4>1
      <4>3. b = 0
        BY <1>9, <3>2
      <4> QED  BY <4>2, <4>3
    <3> QED  BY <3>1, <3>2
  <2> QED  BY <1>0, <1>7, <2>1, <2>2, <2>3
<1>13. CASE Crash(p) \/ Injected(p)
  <2>1. a2 = a /\ q2 = q /\ s2 = s /\ l2 = l + 1
    BY <1>10, <1>13 DEF Crash, Injected, logVars, mailVars
  <2> QED  BY <1>0, <1>7, <2>1
<1>14. CASE Abandon(p)
  <2>1. UNCHANGED <<command, queue, sent, losses, owner>> /\ owner # p
    BY <1>14 DEF Abandon, logVars, mailVars
  <2>2. Busy => Busy'
    BY <2>1, Locals DEF Busy
  <2>3. a2 = a /\ q2 = q /\ s2 = s /\ l2 = l
    BY <1>10, <2>1
  <2>4. b2 >= b
    BY <1>9, <2>2
  <2> QED  BY <1>0, <1>7, <2>3, <2>4
<1>15. CASE Ready(p)
  <2>1. UNCHANGED <<command, losses, owner>> /\ owner = p /\ a < TurnLimit
    BY <1>5, <1>15 DEF Ready, Writable
  <2>2. a2 = a /\ l2 = l
    BY <1>10, <2>1
  <2>3. b2 = 1
    <3>1. pc'[p] = "ack"
      BY <1>15 DEF Ready, Goto, TypeOK
    <3>2. Busy'
      BY <2>1, <3>1 DEF Busy, Pre
    <3> QED  BY <1>9, <3>2
  <2>4. CASE a + 1 > s
    <3>1. queue' = queue \cup {A + 1} /\ s2 = a + 1
      BY <1>5, <1>6, <1>15, <2>4 DEF Ready
    <3>2. Q' = Q \/ Q' = Q + 1
      BY <3>1, FS_AddElement DEF TurnInv
    <3>3. q2 = q \/ q2 = q + 1
      BY <1>5, <1>6, <3>2
    <3>4. s2 = a + 1
      BY <3>1
    <3> QED  BY <1>0, <1>7, <2>1, <2>2, <2>3, <2>4, <3>3, <3>4
  <2>5. CASE ~(a + 1 > s)
    <3>1. queue' = queue /\ sent' = sent
      BY <1>5, <1>15, <2>5 DEF Ready
    <3>2. q2 = q /\ s2 = s
      BY <1>10, <3>1
    <3> QED  BY <1>0, <1>7, <2>2, <2>3, <3>2
  <2> QED  BY <2>4, <2>5
<1>16. CASE Ack(p)
  <2>1. UNCHANGED <<command, sent, losses>> /\ queue' = queue \ {job[p]}
          /\ owner = p /\ pc[p] = "ack"
    BY <1>16 DEF Ack
  <2>2. job[p] \in queue
    BY <2>1 DEF TurnInv, InHand
  <2>3. Q' = Q - 1
    BY <2>1, <2>2, FS_RemoveElement DEF TurnInv
  <2>4. a2 = a /\ s2 = s /\ l2 = l /\ q2 = q - 1
    BY <1>5, <1>6, <1>10, <2>1, <2>3
  <2> QED  BY <1>0, <1>7, <2>4
<1>17. CASE /\ UNCHANGED <<queue, sent, owner, job, losses>>
            /\ pc[p] # "idle" /\ pc'[p] # "idle"
  <2>1. Busy => Busy'
    <3> SUFFICES ASSUME NEW r \in Procs, owner = r, pc[r] \notin Pre PROVE Busy'
      BY DEF Busy
    <3>1. pc'[r] \notin Pre
      BY <1>17, Locals, NoWayBack
    <3> QED  BY <1>17, <3>1 DEF Busy
  <2>2. q2 = q /\ s2 = s /\ l2 = l
    BY <1>10, <1>17
  <2>3. CASE command' = command
    <3>1. a2 = a
      BY <1>10, <2>3
    <3>2. b2 >= b
      BY <1>9, <2>1
    <3> QED  BY <1>0, <1>7, <2>2, <3>1, <3>2
  <2>4. CASE Answer(p) /\ command' # command
    <3>1. owner = p /\ pc[p] = "answer" /\ pc'[p] \in {"rejecting", "validate"}
      BY <2>4 DEF Answer, Writable, Goto, TypeOK
    <3>2. ~Busy /\ Busy'
      BY <1>17, <3>1 DEF Busy, Pre
    <3>3. b = 0 /\ b2 = 1
      BY <1>9, <3>2
    <3>4. a2 <= a + 1
      BY <1>11, <2>4
    <3> QED  BY <1>0, <1>7, <2>2, <3>3, <3>4
  <2> QED  BY <2>3, <2>4, Kept
<1> QED  BY <1>12, <1>13, <1>14, <1>15, <1>16, <1>17, Carries

(* The invariant behind TurnsWithinBudget, in every behaviour.             *)
LEMMA TurnInvariant == Spec => [](TypeInv /\ TurnInv)
<1>1. Init => TurnInv
  <2> SUFFICES ASSUME Init PROVE TurnInv
    OBVIOUS
  <2>1. Answered = {} /\ queue = {1} /\ sent = 1 /\ losses = 0 /\ owner = None
    BY DEF Init, Answered
  <2>2. Cardinality(Answered) = 0 /\ Cardinality(queue) = 1 /\ IsFiniteSet(queue)
    BY <2>1, FS_EmptySet, FS_Singleton
  <2>3. \A p \in Procs : owner # p
    BY <2>1, LoopConstants
  <2>4. PaidFor
    BY <2>1, <2>2, <2>3 DEF PaidFor, Busy
  <2> QED  BY <2>1, <2>2, <2>3, <2>4, LoopConstants DEF TurnInv, InHand
<1>2. TypeInv /\ TurnInv /\ [Next]_vars => TurnInv'
  <2> SUFFICES ASSUME TypeInv, TurnInv, [Next]_vars PROVE TurnInv'
    OBVIOUS
  <2>1. CASE UNCHANGED vars
    BY <2>1 DEF TurnInv, InHand, PaidFor, Busy, Answered, vars, logVars, mailVars,
       procVars
  <2>2. CASE \E p \in Procs : Does(p)
    BY <2>2, InHandStep, PaidStep DEF TurnInv
  <2> QED  BY <2>1, <2>2 DEF Next, Does
<1> QED  BY <1>1, <1>2, TypeInit, TypeInvStep, PTL DEF Spec

(* Over crashes, takeovers and redeliveries no more turns are answered     *)
(* than budgets.turns and one for every execution that was lost behind its *)
(* answer: a delivery is answered at most once in an execution, and the    *)
(* handler enqueues none beyond the budget.                                *)
THEOREM TurnBudgetHolds == Spec => []TurnsWithinBudget
<1>1. TypeInv /\ TurnInv => TurnsWithinBudget
  <2> SUFFICES ASSUME TypeInv, TurnInv PROVE TurnsWithinBudget
    OBVIOUS
  <2> DEFINE A == Cardinality(Answered)
             Q == Cardinality(queue)
             B == IF Busy THEN 1 ELSE 0
  <2>1. A \in Nat /\ Q \in Nat /\ sent \in Nat /\ losses \in Nat
    BY TurnsCounted, FS_CardinalityType, LoopConstants
       DEF Answered, TurnInv, TypeInv, TypeOK
  <2>2. A + Q <= sent + losses + B /\ sent <= TurnLimit
    BY DEF TurnInv, PaidFor
  <2>3. Busy => queue # {}
    BY DEF Busy, TurnInv, InHand, Pre
  <2>4. B <= Q /\ B \in {0, 1}
    BY <2>1, <2>3, FS_EmptySet DEF TurnInv
  <2> HIDE DEF A, Q, B
  <2>5. A <= TurnLimit + losses
    BY <2>1, <2>2, <2>4, LoopConstants
  <2> QED  BY <2>5 DEF A, TurnsWithinBudget
<1> QED  BY <1>1, TurnInvariant, PTL

=============================================================================
