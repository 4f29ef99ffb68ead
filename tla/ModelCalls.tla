----------------------------- MODULE ModelCalls -----------------------------
(***************************************************************************)
(* The model-call ledger of one run: AgentLoop.run_once asks,              *)
(* PersistentModelCallAuthority (control_plane/model_governance.py)        *)
(* reserves, sends, retries and recovers, and the model_calls table of the *)
(* store keeps the budget.  The log takes an append only from the present  *)
(* owner of the agent run; the table takes every update from everybody.    *)
(*                                                                         *)
(* A thread is an agent and a generation: the generation is the fencing    *)
(* token of the agent-run key (module Dispatch).  A process that dies is a *)
(* thread that takes no further step.  Calls are numbered per agent in the *)
(* order of their model.requested facts.                                   *)
(***************************************************************************)
EXTENDS Integers, FiniteSets, FiniteSetsExt

CONSTANTS
    Agents,
    MaxTurns,        \* bound: model.requested facts of each agent
    MaxGen,          \* bound: claims of each agent run
    MaxConcurrent,   \* max_concurrent_calls
    MaxRetries,      \* max_retries_per_call
    MaxTokens,       \* max_total_tokens
    MaxCost,         \* max_cost_usd, in micro-USD
    InTokens,        \* _input_token_upper_bound of an agent's prompts
    OutTokens,       \* max_tokens of the provider
    PriceHit, PriceMiss, PriceOut,   \* the price card, per PriceScale tokens
    PriceScale,
    Reported         \* usage blocks the provider may report

(* A usage block.  A field below zero stands for every value that          *)
(* _non_negative_usage_int refuses: missing, not a number, negative.       *)
Usages == [prompt : Int, completion : Int, hit : Int, miss : Int, total : Int]

ASSUME CallConstants ==
    /\ IsFiniteSet(Agents)
    /\ MaxTurns \in [Agents -> Nat \ {0}]
    /\ MaxGen \in [Agents -> Nat \ {0}]
    /\ MaxConcurrent \in Nat \ {0}
    /\ MaxRetries \in Nat
    /\ MaxTokens \in Nat /\ MaxCost \in Nat
    /\ InTokens \in [Agents -> Nat] /\ OutTokens \in Nat
    /\ PriceHit \in Nat /\ PriceMiss \in Nat /\ PriceOut \in Nat
    /\ PriceHit <= PriceMiss /\ PriceScale \in Nat \ {0}
    /\ Reported \subseteq Usages

Calls == UNION { {a} \X (1 .. MaxTurns[a]) : a \in Agents }
Threads == UNION { {a} \X (1 .. MaxGen[a]) : a \in Agents }

VARIABLES
    \* the model_calls table
    row,        \* state of the row of a call
    attempts,   \* attempt_count
    \* facts in the event log
    asked,      \* calls with model.requested
    answered,   \* calls with model.completed
    usage,      \* the usage block of that fact
    finished,   \* calls whose turn has a completing fact
    runOpen,    \* status of the run: "running", "succeeded" or "closed"
    \* claims and threads
    gen,        \* the newest generation of an agent run
    pc, turn,   \* where each thread is, and the turn it is on
    \* history
    sent,       \* what has become of the transport of a call
    freedLate   \* calls given back by a thread that had lost the agent run

tableVars == <<row, attempts>>
logVars == <<asked, answered, usage, finished, runOpen>>
vars == <<tableVars, logVars, gen, pc, turn, sent, freedLate>>

Active == {"reserved", "in_flight"}
RowStates == Active \cup {"none", "completed", "failed", "unknown"}

(* From its model.requested fact to the end of its transport a call        *)
(* belongs to the thread that asked.                                       *)
PreSend == {"sweep", "reserve", "audit", "start", "attempt", "retry"}
PCs == PreSend \cup {"idle", "enter", "recover", "free", "unsure", "request",
                     "send", "await", "abort", "persist", "reconcile", "finish",
                     "out"}

Nothing == [prompt |-> -1, completion |-> -1, hit |-> -1, miss |-> -1,
            total |-> -1]

Init ==
    /\ row = [c \in Calls |-> "none"]
    /\ attempts = [c \in Calls |-> 0]
    /\ asked = {}
    /\ answered = {}
    /\ usage = [c \in Calls |-> Nothing]
    /\ finished = {}
    /\ runOpen = "running"
    /\ gen = [a \in Agents |-> 1]
    /\ pc = [t \in Threads |-> "idle"]
    /\ turn = [t \in Threads |-> 1]
    /\ sent = [c \in Calls |-> "no"]
    /\ freedLate = {}

-----------------------------------------------------------------------------
(* Usage and money.                                                        *)

Larger(m, n) == IF m >= n THEN m ELSE n

Field(v, fallback) == IF v < 0 THEN fallback ELSE v

(* _normalize_usage: missing fields count as the reservation, and a cache  *)
(* split that does not add up counts as misses.                            *)
Normalize(u, in, out) ==
    LET p0 == Field(u.prompt, in)
        o  == Field(u.completion, out)
        h0 == Field(u.hit, 0)
        m0 == Field(u.miss, Larger(0, p0 - h0))
        p  == IF h0 + m0 = p0 THEN p0 ELSE Larger(p0, h0 + m0)
    IN  [prompt     |-> p,
         completion |-> o,
         hit        |-> IF h0 + m0 = p0 THEN h0 ELSE 0,
         miss       |-> IF h0 + m0 = p0 THEN m0 ELSE p,
         total      |-> Larger(Field(u.total, p + o), p + o)]

(* _ceil_microusd                                                          *)
Ceil(x) == (x + PriceScale - 1) \div PriceScale

EstimateCost(in, out) == Ceil(in * PriceMiss + out * PriceOut)

ActualCost(n) == Ceil(n.hit * PriceHit + n.miss * PriceMiss
                      + n.completion * PriceOut)

(* The usage columns of a completed row: those of its completion event.    *)
Spent(c) == Normalize(usage[c], InTokens[c[1]], OutTokens)

Need(c) == InTokens[c[1]] + OutTokens

(* _model_budget_status                                                    *)
Tokens(c) == CASE row[c] = "completed" -> Spent(c).total
               [] row[c] \in Active \cup {"unknown"} -> Need(c)
               [] OTHER -> 0

Cost(c) == CASE row[c] = "completed" -> ActualCost(Spent(c))
             [] row[c] \in Active \cup {"unknown"} ->
                   EstimateCost(InTokens[c[1]], OutTokens)
             [] OTHER -> 0

CommittedTokens == MapThenSumSet(Tokens, Calls)
CommittedCost == MapThenSumSet(Cost, Calls)
ActiveCalls == { c \in Calls : row[c] \in Active }

-----------------------------------------------------------------------------
Call(t) == <<t[1], turn[t]>>

(* store.append accepts facts of thread t.                                 *)
Appends(t) == t[2] = gen[t[1]] /\ runOpen # "closed"

Goto(t, l) == pc' = [pc EXCEPT ![t] = l]

(* store.append, then l; a rejected append raises out of run_once.         *)
AppendThen(t, l) == Goto(t, IF Appends(t) THEN l ELSE "out")

TurnsAsked(a) == { n \in 1 .. MaxTurns[a] : <<a, n>> \in asked }

Unfinished(a) == { n \in TurnsAsked(a) : <<a, n>> \notin finished }

(* fail_model_call                                                         *)
Settle(c, s) ==
    row' = IF row[c] = "completed" THEN row ELSE [row EXCEPT ![c] = s]

-----------------------------------------------------------------------------
(* A wake-up of the agent run under a new claim.                           *)
Wake(t) ==
    /\ pc[t] = "idle"
    /\ t[2] = gen[t[1]]
    /\ Goto(t, "enter")
    /\ UNCHANGED <<tableVars, logVars, gen, turn, sent, freedLate>>

(* The claim is released after the wake-up or expires during it.           *)
LoseClaim(a) ==
    /\ gen[a] < MaxGen[a]
    /\ pc[<<a, gen[a]>>] # "idle"
    /\ gen' = [gen EXCEPT ![a] = @ + 1]
    /\ UNCHANGED <<tableVars, logVars, pc, turn, sent, freedLate>>

(* The run succeeds, fails or is cancelled.                                *)
EndRun(s) ==
    /\ runOpen = "running"
    /\ runOpen' = s
    /\ UNCHANGED <<tableVars, asked, answered, usage, finished, gen, pc, turn,
                   sent, freedLate>>

-----------------------------------------------------------------------------
(* AgentLoop.run_once.                                                     *)

(* Mutant: a response that is in the log is used at once.                  *)
EnterUnreconciled(t) ==
    /\ pc[t] = "enter"
    /\ \/ /\ Unfinished(t[1]) = {}
          /\ Goto(t, "request")
          /\ UNCHANGED turn
       \/ \E n \in Unfinished(t[1]) :
             /\ \A m \in Unfinished(t[1]) : m <= n
             /\ turn' = [turn EXCEPT ![t] = n]
             /\ Goto(t, IF <<t[1], n>> \in answered THEN "finish"
                                                    ELSE "recover")
    /\ UNCHANGED <<tableVars, logVars, gen, sent, freedLate>>

(* Read the log: _recoverable_turn finds the latest unfinished turn.       *)
Enter(t) ==
    /\ pc[t] = "enter"
    /\ \/ /\ Unfinished(t[1]) = {}
          /\ Goto(t, "request")
          /\ UNCHANGED turn
       \/ \E n \in Unfinished(t[1]) :
             /\ \A m \in Unfinished(t[1]) : m <= n
             /\ turn' = [turn EXCEPT ![t] = n]
             /\ Goto(t, IF <<t[1], n>> \in answered THEN "reconcile"
                                                    ELSE "recover")
    /\ UNCHANGED <<tableVars, logVars, gen, sent, freedLate>>

(* Mutant: an attempt that did not come back is known to have failed.      *)
RecoverAsFailed(t) ==
    /\ pc[t] = "recover"
    /\ LET c == Call(t) IN
       Goto(t, IF row[c] = "none" THEN "request"
               ELSE IF row[c] \in {"reserved", "in_flight"} THEN "free"
               ELSE IF row[c] = "failed" /\ attempts[c] = 0 THEN "request"
               ELSE "out")
    /\ UNCHANGED <<tableVars, logVars, gen, turn, sent, freedLate>>

(* recover_unresolved: decide from the row of the unfinished call.         *)
Recover(t) ==
    /\ pc[t] = "recover"
    /\ LET c == Call(t) IN
       \/ /\ \/ row[c] = "none"
             \/ row[c] = "failed" /\ attempts[c] = 0
          /\ Goto(t, "request")
       \/ /\ row[c] = "reserved" /\ attempts[c] = 0
          /\ Goto(t, "free")
       \/ /\ row[c] = "unknown" \/ (row[c] = "failed" /\ attempts[c] > 0)
          /\ Goto(t, "out")
       \/ /\ row[c] \in {"in_flight", "completed"}
          /\ Goto(t, "unsure")
    /\ UNCHANGED <<tableVars, logVars, gen, turn, sent, freedLate>>

(* An abandoned reservation is given back; a new turn may follow.          *)
Free(t) ==
    /\ pc[t] = "free"
    /\ Settle(Call(t), "failed")
    /\ freedLate' = IF t[2] = gen[t[1]] THEN freedLate
                                        ELSE freedLate \cup {Call(t)}
    /\ Goto(t, "request")
    /\ UNCHANGED <<attempts, logVars, gen, turn, sent>>

(* A new turn, up to model.requested.                                      *)
Request(t) ==
    /\ pc[t] = "request"
    /\ \/ \E n \in 1 .. MaxTurns[t[1]] :
             /\ Appends(t)
             /\ \A m \in TurnsAsked(t[1]) : m < n
             /\ n - 1 \in TurnsAsked(t[1]) \cup {0}
             /\ asked' = asked \cup {<<t[1], n>>}
             /\ turn' = [turn EXCEPT ![t] = n]
             /\ Goto(t, "sweep")
       \/ /\ ~Appends(t) \/ MaxTurns[t[1]] \in TurnsAsked(t[1])
          /\ Goto(t, "out")
          /\ UNCHANGED <<asked, turn>>
    /\ UNCHANGED <<tableVars, answered, usage, finished, runOpen, gen, sent, freedLate>>

-----------------------------------------------------------------------------
(* PersistentModelCallAuthority.complete.                                  *)

(* recover_stale_model_calls: some of the active rows of the run are old.  *)
Sweep(t) ==
    /\ pc[t] = "sweep"
    /\ \E Stale \in SUBSET ActiveCalls :
          row' = [c \in Calls |->
                    IF c \notin Stale THEN row[c]
                    ELSE IF row[c] = "reserved" THEN "failed" ELSE "unknown"]
    /\ Goto(t, "reserve")
    /\ UNCHANGED <<attempts, logVars, gen, turn, sent, freedLate>>

(* Mutant: calls whose outcome is unknown do not count.                    *)
FitsKnown(c) ==
    LET Known == { d \in Calls : row[d] # "unknown" } IN
    /\ Cardinality(ActiveCalls) < MaxConcurrent
    /\ MapThenSumSet(Tokens, Known) + Need(c) <= MaxTokens
    /\ MapThenSumSet(Cost, Known) + EstimateCost(InTokens[c[1]], OutTokens)
          <= MaxCost

Fits(c) ==
    /\ Cardinality(ActiveCalls) < MaxConcurrent
    /\ CommittedTokens + Need(c) <= MaxTokens
    /\ CommittedCost + EstimateCost(InTokens[c[1]], OutTokens) <= MaxCost

(* reserve_model_call                                                      *)
Reserve(t) ==
    /\ pc[t] = "reserve"
    /\ LET c == Call(t) IN
       \/ /\ runOpen = "running" /\ row[c] = "none" /\ Fits(c)
          /\ row' = [row EXCEPT ![c] = "reserved"]
          /\ Goto(t, "audit")
       \/ /\ ~(runOpen = "running" /\ row[c] = "none" /\ Fits(c))
          /\ Goto(t, "out")
          /\ UNCHANGED row
    /\ UNCHANGED <<attempts, logVars, gen, turn, sent, freedLate>>

(* model.call.reserved; without it the reservation is given back.          *)
Audit(t) ==
    /\ pc[t] = "audit"
    /\ Goto(t, IF Appends(t) THEN "start" ELSE "abort")
    /\ UNCHANGED <<tableVars, logVars, gen, turn, sent, freedLate>>

(* start_model_call_attempt                                                *)
Start(t) ==
    /\ pc[t] = "start"
    /\ LET c == Call(t) IN
       \/ /\ row[c] \in Active
          /\ row' = [row EXCEPT ![c] = "in_flight"]
          /\ attempts' = [attempts EXCEPT ![c] = @ + 1]
          /\ Goto(t, "attempt")
       \/ /\ row[c] \notin Active
          /\ Goto(t, "out")
          /\ UNCHANGED tableVars
    /\ UNCHANGED <<logVars, gen, turn, sent, freedLate>>

(* Mutant: the request goes out whether or not its fact was accepted.      *)
AttemptUnaudited(t) ==
    /\ pc[t] = "attempt"
    /\ Goto(t, "send")
    /\ UNCHANGED <<tableVars, logVars, gen, turn, sent, freedLate>>

(* model.call.attempt.started comes before the request leaves.             *)
Attempt(t) ==
    /\ pc[t] = "attempt"
    /\ Goto(t, IF Appends(t) THEN "send" ELSE "abort")
    /\ UNCHANGED <<tableVars, logVars, gen, turn, sent, freedLate>>

(* provider.complete: the request leaves, ...                              *)
Send(t) ==
    /\ pc[t] = "send"
    /\ sent' = [sent EXCEPT ![Call(t)] = "open"]
    /\ Goto(t, "await")
    /\ UNCHANGED <<tableVars, logVars, gen, turn, freedLate>>

(* How provider.complete ends: with a response, or with an exception for a *)
(* status worth another try or no connection, another status, a transport  *)
(* that broke, or a reply that came and cannot be read.                    *)
Ends == {"answered", "refused", "rejected", "lost", "garbled"}

(* _classify_error: what it does not know counts as a certain failure.     *)
Retryable(e) == e = "refused"
Uncertain(e) == e = "lost"

(* ... and its end decides where the attempt goes on.                      *)
Outcome(t) ==
    /\ pc[t] = "await"
    /\ \E e \in Ends :
          /\ sent' = [sent EXCEPT ![Call(t)] = e]
          /\ \/ e = "answered" /\ Goto(t, "persist")
             \/ e # "answered" /\ Retryable(e) /\ attempts[Call(t)] <= MaxRetries
                /\ Goto(t, "retry")
             \/ e # "answered" /\ ~(Retryable(e) /\ attempts[Call(t)] <= MaxRetries)
                /\ Goto(t, IF Uncertain(e) THEN "unsure" ELSE "abort")
    /\ UNCHANGED <<tableVars, logVars, gen, turn, freedLate>>

(* model.call.retry.scheduled                                              *)
Retry(t) ==
    /\ pc[t] = "retry"
    /\ AppendThen(t, "start")
    /\ UNCHANGED <<tableVars, logVars, gen, turn, sent, freedLate>>

(* Nothing was sent, or the attempt failed for certain: fail_model_call.   *)
Abort(t) ==
    /\ pc[t] = "abort"
    /\ Settle(Call(t), "failed")
    /\ Goto(t, "out")
    /\ UNCHANGED <<attempts, logVars, gen, turn, sent, freedLate>>

(* Nobody knows what the provider did: fail_model_call, uncertain.         *)
Unsure(t) ==
    /\ pc[t] = "unsure"
    /\ Settle(Call(t), "unknown")
    /\ Goto(t, "out")
    /\ UNCHANGED <<attempts, logVars, gen, turn, sent, freedLate>>

-----------------------------------------------------------------------------
(* The response: model.completed, then the ledger, then the turn.          *)
Persist(t) ==
    /\ pc[t] = "persist"
    /\ AppendThen(t, "reconcile")
    /\ \/ /\ Appends(t)
          /\ answered' = answered \cup {Call(t)}
          /\ \E u \in Reported : usage' = [usage EXCEPT ![Call(t)] = u]
       \/ ~Appends(t) /\ UNCHANGED <<answered, usage>>
    /\ UNCHANGED <<tableVars, asked, finished, runOpen, gen, turn, sent, freedLate>>

(* reconcile, reconcile_model_call: a completed row stays as it is.        *)
Reconcile(t) ==
    /\ pc[t] = "reconcile"
    /\ row' = [row EXCEPT ![Call(t)] = "completed"]
    /\ Goto(t, "finish")
    /\ UNCHANGED <<attempts, logVars, gen, turn, sent, freedLate>>

(* The response is used and the turn gets a completing fact.               *)
Finish(t) ==
    /\ pc[t] = "finish"
    /\ AppendThen(t, "enter")
    /\ finished' = IF Appends(t) THEN finished \cup {Call(t)} ELSE finished
    /\ UNCHANGED <<tableVars, asked, answered, usage, runOpen, gen, turn, sent, freedLate>>

-----------------------------------------------------------------------------
Loop(t) ==
    \/ Wake(t) \/ Enter(t) \/ Recover(t) \/ Free(t) \/ Request(t)
    \/ Persist(t) \/ Reconcile(t) \/ Finish(t)

Authority(t) ==
    \/ Sweep(t) \/ Reserve(t) \/ Audit(t) \/ Start(t) \/ Attempt(t)
    \/ Send(t) \/ Outcome(t) \/ Retry(t) \/ Abort(t) \/ Unsure(t)

Next ==
    \/ \E t \in Threads : Loop(t) \/ Authority(t)
    \/ \E a \in Agents : LoseClaim(a)
    \/ \E s \in {"succeeded", "closed"} : EndRun(s)

Spec == Init /\ [][Next]_vars

-----------------------------------------------------------------------------
(* Type invariant: every call the threads work on is one they or the log   *)
(* know, and only asked calls have a row, an attempt or an answer.         *)
TypeOK ==
    /\ row \in [Calls -> RowStates]
    /\ attempts \in [Calls -> Nat]
    /\ asked \subseteq Calls
    /\ answered \subseteq asked
    /\ usage \in [Calls -> Usages]
    /\ finished \subseteq answered
    /\ runOpen \in {"running", "succeeded", "closed"}
    /\ gen \in [Agents -> Nat]
    /\ \A a \in Agents : gen[a] \in 1 .. MaxGen[a]
    /\ pc \in [Threads -> PCs]
    /\ turn \in [Threads -> Nat]
    /\ \A t \in Threads : Call(t) \in Calls
    /\ sent \in [Calls -> {"no", "open"} \cup Ends]
    /\ freedLate \subseteq Calls

(* Transports the provider may bill.                                      *)
Billed == {"open", "answered", "lost", "garbled"}

(* The two ways in which the code gives up the quota of a call that may be *)
(* billed: the reply could not be read, which is a certain failure to      *)
(* _classify_error, or a thread that no longer owned the agent run gave    *)
(* back a reservation it took for abandoned (its successor's, when it had  *)
(* lost the agent run before it read the log).                             *)
Excused(c) == sent[c] = "garbled" \/ c \in freedLate

(* Every other call that reached the provider, or may have, keeps its      *)
(* quota until it is settled with its usage, whoever recovers it, sweeps   *)
(* it or retries it (fail_model_call, recover_unresolved).                 *)
BilledKeepsQuota ==
    \A c \in Calls : sent[c] \in Billed =>
        row[c] \in {"in_flight", "unknown", "completed"} \/ Excused(c)

(* The table of states in the model-governance walkthrough: a call is      *)
(* failed, and its quota released, on evidence that it did not succeed or  *)
(* that its result cannot be used, never while it may be under way.        *)
FailedIsCertain ==
    \A c \in Calls :
        row[c] = "failed" => sent[c] \notin {"open", "answered", "lost"}

(* No resampling: a request leaves only if no request of the same call is  *)
(* open, answered or lost, and every earlier turn of the agent was never   *)
(* sent or has its response in the log (recover_unresolved, run_once).     *)
NoBlindResample ==
    [][\A c \in Calls : sent[c] # "open" /\ sent'[c] = "open" =>
          /\ sent[c] \in {"no", "refused"}
          /\ \A d \in asked : d[1] = c[1] /\ d[2] < c[2] =>
                sent[d] = "no" \/ d \in answered]_vars

(* A response is used only when the ledger has its usage, also when the    *)
(* process died between model.completed and the reconciliation.            *)
AccountedBeforeUsed == \A c \in finished : row[c] = "completed"

(* What a provider reports of a call that stayed within its reservation.   *)
Honest(u, in, out) ==
    /\ u.prompt <= in /\ u.completion <= out
    /\ u.hit + u.miss <= in /\ u.hit <= in /\ u.miss <= in
    /\ u.total <= in + out

Exposed == { c \in Calls : sent[c] \in Billed /\ ~Excused(c) }

(* With a provider that reports no more than was reserved, malformed       *)
(* fields included, the provider may bill for the run no more than its     *)
(* token and cost budget, on top of what the excused calls cost, whatever  *)
(* the interleaving of reservations, failures, recoveries and answers      *)
(* (reserve_model_call, _normalize_usage).                                 *)
WithinBudget ==
    (\A a \in Agents, u \in Reported : Honest(u, InTokens[a], OutTokens))
       => /\ MapThenSumSet(Tokens, Exposed) <= MaxTokens
          /\ MapThenSumSet(Cost, Exposed) <= MaxCost
=============================================================================
