----------------------------- MODULE MCDispatch -----------------------------
(* Instances of Dispatch for TLC.                                          *)
EXTENDS Dispatch, TLC

CONSTANTS p1, p2, d1, d2, a1, a2, w1, w2, r1, c1, c2

AnyOrder == Permutations(Procs)

(* One run, with one agent run, or one per delivery.                       *)
OneAgentRun == [d \in Deliveries |-> a1]
TwoAgentRuns == [d \in Deliveries |-> IF d = d1 THEN a1 ELSE a2]
OneRun == [a \in AgentRuns |-> r1]

(* One worker that takes every delivery; a second one may be registered.   *)
OneWorker == [d \in Deliveries |-> w1]
OneWorkerSeq == <<w1>>
TwoWorkerSeq == <<w1, w2>>
CapacityOne == [w \in Workers |-> 1]
CapacityTwo == [w \in Workers |-> 2]

(* What the handlers do.                                                   *)
Facts == [d \in Deliveries |-> {"fact"}]
Raising == [d \in Deliveries |-> {"exception"}]
Failing == [d \in Deliveries |-> {"run.failure.requested"}]
(* A member whose model call fails and a coordinator that completes.       *)
FailingAndCommitting ==
    [d \in Deliveries |-> IF d = d1 THEN {"run.failure.requested"}
                                    ELSE {"command", "run.succeeded"}]

CkptRunOne == [c \in Ckpts |-> r1]
AnyRequest == Permutations(Ckpts)
=============================================================================
