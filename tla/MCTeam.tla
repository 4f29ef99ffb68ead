------------------------------ MODULE MCTeam ------------------------------
(* Small instances of Team for TLC.                                        *)
EXTENDS Team, TLC

CONSTANTS r1, r2, s1, s2, a1, a2

Order == <<s1, s2>>

(* A chain that competes with a single stage; two independent stages.      *)
ChainAndOne == r1 :> {s1, s2} @@ r2 :> {s1}
Pair == r1 :> {s1, s2}
Chain == s1 :> {} @@ s2 :> {s1}
Free == s1 :> {} @@ s2 :> {}

(* What the agents of a run do with a turn.                                *)
OneHesitates == r1 :> {"submitted"} @@ r2 :> {"submitted", "more"}
Diligent == [r \in Runs |-> {"submitted"}]

Cards == s1 :> {a1, a2} @@ s2 :> {a2}
Ranks == s1 :> (a1 :> 1 @@ a2 :> 2) @@ s2 :> (a1 :> 2 @@ a2 :> 1)

(* Bound: only leases of the first stage miss their deadline.              *)
FirstLate == \A i \in Ids : asg[i].due => i[2] = s1
===========================================================================
