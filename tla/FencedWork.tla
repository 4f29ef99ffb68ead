----------------------------- MODULE FencedWork -----------------------------
(***************************************************************************)
(* What the work claims promise, without processes, threads, mailboxes or  *)
(* deadlines: a key has at most one owner at a time, every grant starts a  *)
(* new epoch of the key, and an agent run is written only by the owner of  *)
(* its key, in the epoch of that owner.                                    *)
(***************************************************************************)
EXTENDS Integers

CONSTANTS Owners, Nobody, WorkKeys, Agents, AgentKey

VARIABLES
    owner,       \* who may work on a key now
    epoch,       \* how often the key was granted
    lastWrite    \* the epoch of the latest write into an agent run

fencedVars == <<owner, epoch, lastWrite>>

FencedInit ==
    /\ owner = [k \in WorkKeys |-> Nobody]
    /\ epoch = [k \in WorkKeys |-> 0]
    /\ lastWrite = [a \in Agents |-> 0]

(* Several keys are granted together, or none of them.                     *)
Grant(p, K) ==
    /\ \A k \in K : owner[k] = Nobody
    /\ owner' = [k \in WorkKeys |-> IF k \in K THEN p ELSE owner[k]]
    /\ epoch' = [k \in WorkKeys |-> IF k \in K THEN epoch[k] + 1 ELSE epoch[k]]
    /\ UNCHANGED lastWrite

(* An owner returns keys, or they are taken from it.                       *)
Revoke(K) ==
    /\ owner' = [k \in WorkKeys |-> IF k \in K THEN Nobody ELSE owner[k]]
    /\ UNCHANGED <<epoch, lastWrite>>

Write(p, a) ==
    /\ owner[AgentKey[a]] = p
    /\ lastWrite' = [lastWrite EXCEPT ![a] = epoch[AgentKey[a]]]
    /\ UNCHANGED <<owner, epoch>>

FencedNext ==
    \/ \E K \in SUBSET WorkKeys : Revoke(K) \/ \E p \in Owners : Grant(p, K)
    \/ \E p \in Owners, a \in Agents : Write(p, a)

FencedSpec == FencedInit /\ [][FencedNext]_fencedVars
=============================================================================
