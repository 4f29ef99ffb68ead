----------------------------- MODULE StageBoard -----------------------------
(***************************************************************************)
(* What a resident team promises: a board of stages.  Stages are handed to *)
(* agents, finished or given up, and a run is closed.  No supervisor, no   *)
(* messages, no leases that expire.                                        *)
(***************************************************************************)
EXTENDS FiniteSets, Integers

CONSTANTS Runs, Agents, StagesOf, DependsOn, Capable, MaxParallel

VARIABLES
    done,    \* the completed stages of each run
    held,    \* the stages agents hold, as [run, stage, agent]
    over     \* "running", "paused", "succeeded" or "failed"

vars == <<done, held, over>>

Init ==
    /\ done = [r \in Runs |-> {}]
    /\ held = {}
    /\ over = [r \in Runs |-> "running"]

HeldBy(r) == { h \in held : h.run = r }

(* A plan: several ready stages of one run at once, each to a free capable *)
(* agent of its own, within the run's parallelism.                         *)
Grant(r, new) ==
    /\ new # {} /\ over[r] \in {"running", "paused"}
    /\ \A h \in new :
          /\ h.run = r /\ h.stage \in StagesOf[r] \ done[r]
          /\ h.agent \in Capable[h.stage]
          /\ DependsOn[h.stage] \subseteq done[r]
          /\ \A k \in held : k.agent # h.agent /\ <<k.run, k.stage>> # <<r, h.stage>>
          /\ \A k \in new \ {h} : k.agent # h.agent /\ k.stage # h.stage
    /\ Cardinality(HeldBy(r) \cup new) <= MaxParallel
    /\ held' = held \cup new
    /\ UNCHANGED <<done, over>>

(* A held stage is complete, or is given up and may be granted again.      *)
Finish(h) ==
    /\ h \in held
    /\ held' = held \ {h}
    /\ \/ done' = [done EXCEPT ![h.run] = @ \cup {h.stage}]
       \/ UNCHANGED done
    /\ UNCHANGED over

Close(r) ==
    /\ over[r] \in {"running", "paused"}
    /\ \/ over' = [over EXCEPT ![r] = "paused"]
       \/ over' = [over EXCEPT ![r] = "failed"]
       \/ /\ done[r] = StagesOf[r] /\ HeldBy(r) = {}
          /\ over' = [over EXCEPT ![r] = "succeeded"]
    /\ UNCHANGED <<done, held>>

Next ==
    \/ \E r \in Runs : Grant(r, held' \ held) \/ Close(r)
    \/ \E h \in held : Finish(h)

Spec == Init /\ [][Next]_vars
=============================================================================
