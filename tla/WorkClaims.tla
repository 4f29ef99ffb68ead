----------------------------- MODULE WorkClaims -----------------------------
(***************************************************************************)
(* The work_claims table of SQLiteEventStore (control_plane/store.py): the *)
(* durable claims that give one scheduler process the right to execute one *)
(* delivery.  Every operation is one BEGIN IMMEDIATE transaction, hence    *)
(* one step of the module that uses it.                                    *)
(*                                                                         *)
(* Time is abstracted to the one fact the code reads from it: whether the  *)
(* deadline expires_at of a row is still ahead ("live").  claimed_at, by   *)
(* which the code recognises keys claimed together, is abstracted to the   *)
(* delivery they were claimed for and the token of its delivery key.       *)
(***************************************************************************)
EXTENDS Integers, FiniteSets

CONSTANTS
    Procs,        \* owner ids: one per scheduler process incarnation
    Deliveries,   \* delivery ids
    AgentRuns,    \* agent-run ids
    Workers,      \* worker ids
    AgentRunOf,   \* the agent run a delivery wakes
    WorkerOf,     \* the worker in whose mailbox a delivery is
    Capacity,     \* max_concurrency of each worker
    None          \* no owner

ASSUME ClaimConstants ==
    /\ AgentRunOf \in [Deliveries -> AgentRuns]
    /\ WorkerOf \in [Deliveries -> Workers]
    /\ Capacity \in [Workers -> Nat \ {0}]
    /\ None \notin Procs
    /\ IsFiniteSet(Deliveries)

VARIABLE claim    \* the table: [Keys -> Rows]

(* Mutant: one slot too many.                                              *)
SlotsOffByOne(d) == 0 .. Capacity[WorkerOf[d]]

Slots(d) == 0 .. Capacity[WorkerOf[d]] - 1

(* The keys a dispatch of d in worker slot s claims together.              *)
DeliveryKey(d) == <<"delivery", d, 0>>
AgentRunKey(d) == <<"agent-run", AgentRunOf[d], 0>>
SlotKey(d, s)  == <<"worker-slot", WorkerOf[d], s>>

ClaimKeys(d, s) == {DeliveryKey(d), AgentRunKey(d), SlotKey(d, s)}

Keys == UNION { UNION { ClaimKeys(d, s) : s \in Slots(d) } : d \in Deliveries }

RowStates == {"absent", "active", "completed", "released", "failed"}

Rows == [owner  : Procs \cup {None},
         token  : Nat,
         state  : RowStates,
         live   : BOOLEAN,
         bundle : (Deliveries \cup {None}) \X Nat]

NoRow == [owner |-> None, token |-> 0, state |-> "absent",
          live |-> FALSE, bundle |-> <<None, 0>>]

ClaimInit == claim = [k \in Keys |-> NoRow]

-----------------------------------------------------------------------------
(* A claim bundle is a function from the keys claimed together to their    *)
(* fencing tokens: DispatchContext.claim_tokens.  NoClaims is the bundle   *)
(* of a dispatch that holds nothing.                                       *)
NoClaims == [k \in {} |-> 0]

IsBundle(f, d) == f = NoClaims \/ \E s \in Slots(d) : f \in [ClaimKeys(d, s) -> Nat]

Taken(k) == claim[k].state = "active" /\ claim[k].live

(* Mutants: one row of ours that is still active is enough; the deadline   *)
(* is forgotten; only the row is looked at, not who holds it.              *)
CurrentAnyKey(p, claims) ==
    \E k \in DOMAIN claims : /\ claim[k].owner = p
                             /\ claim[k].token = claims[k]
                             /\ claim[k].state = "active"

CurrentExpired(p, claims) ==
    /\ DOMAIN claims # {}
    /\ \A k \in DOMAIN claims : /\ claim[k].owner = p
                                /\ claim[k].token = claims[k]
                                /\ claim[k].state = "active"

CurrentUnfenced(p, claims) ==
    DOMAIN claims # {} /\ \A k \in DOMAIN claims : Taken(k)

(* _work_claims_are_current: owner, token, state and deadline of each key. *)
Current(p, claims) ==
    /\ DOMAIN claims # {}
    /\ \A k \in DOMAIN claims : /\ claim[k].owner = p
                                /\ claim[k].token = claims[k]
                                /\ Taken(k)

(* Mutant: expired claims are not taken over.                              *)
ClaimableReleased(d, s) == \A k \in ClaimKeys(d, s) : claim[k].state # "active"

(* claim_work: every key or none, each with the next fencing token.        *)
Claimable(d, s) == \A k \in ClaimKeys(d, s) : ~Taken(k)

NextTokens(d, s) == [k \in ClaimKeys(d, s) |-> claim[k].token + 1]

Claim(p, d, s) ==
    claim' = [k \in Keys |->
                IF k \in ClaimKeys(d, s)
                THEN [owner  |-> p,
                      token  |-> claim[k].token + 1,
                      state  |-> "active",
                      live   |-> TRUE,
                      bundle |-> <<d, claim[DeliveryKey(d)].token + 1>>]
                ELSE claim[k]]

(* The terminal update of finish_work_claims.                              *)
Finish(claims, state) ==
    claim' = [k \in Keys |-> IF k \in DOMAIN claims
                             THEN [claim[k] EXCEPT !.state = state]
                             ELSE claim[k]]

(* The rows claimed together with the delivery key of d.                   *)
SameBundle(d, k) ==
    /\ claim[k].owner = claim[DeliveryKey(d)].owner
    /\ claim[k].bundle = claim[DeliveryKey(d)].bundle
    /\ claim[k].state = "active"

(* fail_work_claim_bundle on the delivery key of d.                        *)
FailBundle(d) ==
    claim' = [k \in Keys |-> IF SameBundle(d, k)
                             THEN [claim[k] EXCEPT !.state = "failed"]
                             ELSE claim[k]]

(* The deadline of the bundle of d passes: expires_at <= now from here on. *)
ExpireBundle(d) ==
    claim' = [k \in Keys |-> IF SameBundle(d, k)
                             THEN [claim[k] EXCEPT !.live = FALSE]
                             ELSE claim[k]]

=============================================================================
