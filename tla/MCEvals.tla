------------------------------ MODULE MCEvals ------------------------------
(* Small instances of EvalCampaign for TLC.                                *)
EXTENDS EvalCampaign, TLC

CONSTANTS p1, p2, b1, b2, s1

AnyOrder == Permutations(Procs)

(* The service of one pair, with both faults, or a campaign with one of    *)
(* them; not both at a time.                                               *)
Apart ==
    \/ stage = "none"
    \/ /\ faults < MaxFaults
       /\ \A e \in Solo : facts[e] = {} /\ \A p \in Procs : job[p].e # e
============================================================================
