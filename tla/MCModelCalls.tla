---------------------------- MODULE MCModelCalls ----------------------------
(* Instances of ModelCalls for TLC.                                        *)
EXTENDS ModelCalls

CONSTANTS a1, a2

(* One agent with a retry in a second claim, one that competes with it.    *)
Turns == [a \in Agents |-> IF a = a1 THEN 2 ELSE 1]
Gens == [a \in Agents |-> IF a = a1 THEN 2 ELSE 1]

FourIn == [a \in Agents |-> 4]

(* A plain report, one whose cache split does not add up, and an empty one. *)
Blocks ==
    { [prompt |-> 3, completion |-> 1, hit |-> 2, miss |-> 1, total |-> 4],
      [prompt |-> 2, completion |-> 2, hit |-> 1, miss |-> 3, total |-> -1],
      Nothing }
=============================================================================
