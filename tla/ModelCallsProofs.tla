-------------------------- MODULE ModelCallsProofs --------------------------
(* Theorems about ModelCalls, for every set of agents, every budget and    *)
(* price card, every set of usage reports and every bound.                 *)
EXTENDS ModelCalls, FiniteSetTheorems, WellFoundedInduction, NaturalsInduction, TLAPS

-----------------------------------------------------------------------------
(* The inductive invariant.                                                *)

(* The states in which a thread has a call that it asked for itself.       *)
Asking == PreSend \cup {"send", "await", "abort", "persist"}

(* A thread that works on a call found it in the log, and one that has     *)
(* come to the response found that too.                                    *)
Known ==
    \A t \in Threads :
        /\ pc[t] \notin {"idle", "enter", "request", "out"} => Call(t) \in asked
        /\ pc[t] \in {"reconcile", "finish"} => Call(t) \in answered

(* No thread runs before its claim is granted.                             *)
Unborn == \A t \in Threads : t[2] > gen[t[1]] => pc[t] = "idle"

(* A call belongs to the one thread that asked for it.                     *)
OneAsker ==
    \A t, u \in Threads : pc[t] \in Asking /\ pc[u] \in Asking
                          /\ Call(t) = Call(u) => t = u

(* What the asker knows of its transport.                                  *)
Transport ==
    /\ \A c \in Calls : c \notin asked => sent[c] = "no"
    /\ \A t \in Threads :
          /\ pc[t] \in PreSend \cup {"send"} => sent[Call(t)] \in {"no", "refused"}
          /\ pc[t] = "abort" => sent[Call(t)] \in {"no", "refused", "rejected", "garbled"}
          /\ pc[t] = "await" => sent[Call(t)] = "open"

(* The attempt is counted before anything is sent.                         *)
Counted ==
    /\ \A c \in Calls : sent[c] # "no" => attempts[c] > 0
    /\ \A c \in Calls : attempts[c] > 0 => row[c] # "none"
    /\ \A t \in Threads : pc[t] \in {"attempt", "send"} => attempts[Call(t)] > 0

(* Nothing was sent for c, and whoever might still send it has lost the    *)
(* claim that the audit fact of the attempt needs.                         *)
Silent(c) ==
    /\ sent[c] = "no"
    /\ \A t \in Threads : Call(t) = c =>
          /\ pc[t] # "send"
          /\ pc[t] \in PreSend => t[2] < gen[t[1]]

Settled(c) == c \in answered \/ Silent(c)

(* All turns but the latest are settled, ...                               *)
PastSettled ==
    \A c, d \in asked : c[1] = d[1] /\ c[2] < d[2] => Settled(c)

(* ... and the latest is before the owner of the agent run asks again.     *)
MayAsk ==
    \A t \in Threads : t[2] = gen[t[1]] =>
        \A c \in asked : c[1] = t[1] =>
            /\ pc[t] \in {"request", "free"} => Settled(c)
            /\ pc[t] = "recover" => Settled(c) \/ c = Call(t)

LedgerInv ==
    /\ TypeOK /\ Known /\ Unborn /\ OneAsker /\ Transport /\ Counted
    /\ PastSettled /\ MayAsk

(* An owner that recovers a call came after its asker, ...                 *)
AfterAsker ==
    \A t, u \in Threads :
        /\ pc[t] = "recover" /\ t[2] = gen[t[1]]
        /\ pc[u] \in Asking /\ Call(t) = Call(u)
        => u[2] < t[2]

(* ... so that it frees only what nobody can send, ...                     *)
FreeIsSilent ==
    \A t \in Threads : pc[t] = "free" /\ t[2] = gen[t[1]] => Silent(Call(t))

(* ... and the row of a call that is about to leave holds its quota unless *)
(* a former owner has given it back.                                       *)
Covered ==
    \A t \in Threads :
        pc[t] = "send" \/ (pc[t] = "attempt" /\ t[2] = gen[t[1]]) =>
            \/ row[Call(t)] \in {"in_flight", "unknown", "completed"}
            \/ Call(t) \in freedLate

QuotaInv == AfterAsker /\ FreeIsSilent /\ Covered /\ BilledKeepsQuota

(* A response that is about to be used is in the ledger.                   *)
AccountInv ==
    /\ \A t \in Threads : pc[t] = "finish" => row[Call(t)] = "completed"
    /\ AccountedBeforeUsed

-----------------------------------------------------------------------------
(* Threads and calls are pairs of an agent and a number.                   *)
LEMMA ThreadParts ==
    ASSUME NEW t \in Threads
    PROVE  /\ t = <<t[1], t[2]>> /\ t[1] \in Agents
           /\ t[2] \in 1 .. MaxGen[t[1]] /\ t[2] \in Nat
  BY CallConstants DEF Threads

(* The same of calls.                                                      *)
LEMMA CallParts ==
    ASSUME NEW c
    PROVE  c \in Calls <=> /\ c = <<c[1], c[2]>> /\ c[1] \in Agents
                           /\ c[2] \in 1 .. MaxTurns[c[1]] /\ c[2] \in Nat
  BY CallConstants DEF Calls

(* A call of the log is a call a thread of its agent may be on.            *)
LEMMA TurnIsCall ==
    ASSUME NEW a \in Agents, NEW n \in 1 .. MaxTurns[a]
    PROVE  <<a, n>> \in Calls
  BY CallConstants DEF Calls

(* Type correctness at the start.                                          *)
LEMMA InitType == Init => TypeOK /\ Known
  <1> SUFFICES ASSUME Init PROVE TypeOK /\ Known
    OBVIOUS
  <1>1. \A t \in Threads : Call(t) \in Calls
    BY ThreadParts, CallConstants, TurnIsCall DEF Init, Call
  <1>2. \A a \in Agents : gen[a] \in 1 .. MaxGen[a]
    BY CallConstants DEF Init
  <1> QED BY <1>1, <1>2, CallConstants
          DEF Init, TypeOK, Known, RowStates, Active, PCs, Usages, Nothing

(* Every action keeps the types and works on calls it found in the log.    *)
LEMMA StepType ==
    ASSUME TypeOK, Known, Next
    PROVE  TypeOK' /\ Known'
  <1> USE DEF TypeOK, Known, Goto, Call, PCs, PreSend, RowStates, Active,
              tableVars, logVars
  <1>1. ASSUME NEW t \in Threads, Wake(t) PROVE TypeOK' /\ Known'
    BY <1>1 DEF Wake
  <1>2. ASSUME NEW t \in Threads, Enter(t) PROVE TypeOK' /\ Known'
    <2>1. CASE Unfinished(t[1]) = {} /\ pc' = [pc EXCEPT ![t] = "request"]
               /\ UNCHANGED turn
      BY <1>2, <2>1 DEF Enter
    <2>2. CASE \E n \in Unfinished(t[1]) :
                  /\ turn' = [turn EXCEPT ![t] = n]
                  /\ pc' = [pc EXCEPT ![t] = IF <<t[1], n>> \in answered
                                             THEN "reconcile" ELSE "recover"]
      <3>1. PICK n \in Unfinished(t[1]) :
                  /\ turn' = [turn EXCEPT ![t] = n]
                  /\ pc' = [pc EXCEPT ![t] = IF <<t[1], n>> \in answered
                                             THEN "reconcile" ELSE "recover"]
        BY <2>2
      <3>2. n \in Nat /\ <<t[1], n>> \in asked /\ <<t[1], n>> \in Calls
        BY ThreadParts, CallConstants DEF Unfinished, TurnsAsked
      <3> QED BY <1>2, <3>1, <3>2 DEF Enter
    <2> QED BY <1>2, <2>1, <2>2 DEF Enter
  <1>3. ASSUME NEW t \in Threads, Recover(t) PROVE TypeOK' /\ Known'
    BY <1>3 DEF Recover
  <1>4. ASSUME NEW t \in Threads, Free(t) PROVE TypeOK' /\ Known'
    <2>1. row' \in [Calls -> RowStates]
      BY <1>4 DEF Free, Settle
    <2>2. freedLate' \subseteq Calls
      BY <1>4 DEF Free
    <2>3. pc' = [pc EXCEPT ![t] = "request"] /\ UNCHANGED <<attempts, logVars, gen, turn, sent>>
      BY <1>4 DEF Free
    <2>4. TypeOK'
      BY <2>1, <2>2, <2>3
    <2>5. Known'
      BY <2>3
    <2> QED BY <2>4, <2>5
  <1>5. ASSUME NEW t \in Threads, Request(t) PROVE TypeOK' /\ Known'
    <2>1. freedLate' \subseteq Calls
      BY <1>5 DEF Request
    <2>2. UNCHANGED <<tableVars, answered, usage, finished, runOpen, gen, sent>>
      BY <1>5 DEF Request
    <2>3. ASSUME NEW n \in 1 .. MaxTurns[t[1]], asked' = asked \cup {<<t[1], n>>},
                 turn' = [turn EXCEPT ![t] = n], pc' = [pc EXCEPT ![t] = "sweep"]
          PROVE  TypeOK' /\ Known'
      <3>1. n \in Nat /\ <<t[1], n>> \in Calls
        BY ThreadParts, TurnIsCall, CallConstants
      <3>2. TypeOK'
        BY <2>1, <2>2, <2>3, <3>1, ThreadParts
      <3>3. Known'
        BY <2>2, <2>3, <3>1, ThreadParts
      <3> QED BY <3>2, <3>3
    <2>4. CASE pc' = [pc EXCEPT ![t] = "out"] /\ UNCHANGED <<asked, turn>>
      BY <2>1, <2>2, <2>4
    <2> QED BY <1>5, <2>3, <2>4 DEF Request
  <1>6. ASSUME NEW t \in Threads, Persist(t) PROVE TypeOK' /\ Known'
    BY <1>6, CallConstants DEF Persist, AppendThen
  <1>7. ASSUME NEW t \in Threads, Reconcile(t) PROVE TypeOK' /\ Known'
    BY <1>7 DEF Reconcile
  <1>8. ASSUME NEW t \in Threads, Finish(t) PROVE TypeOK' /\ Known'
    BY <1>8 DEF Finish, AppendThen
  <1>9. ASSUME NEW t \in Threads, Sweep(t) PROVE TypeOK' /\ Known'
    BY <1>9 DEF Sweep
  <1>10. ASSUME NEW t \in Threads, Reserve(t) PROVE TypeOK' /\ Known'
    BY <1>10 DEF Reserve
  <1>11. ASSUME NEW t \in Threads, Audit(t) PROVE TypeOK' /\ Known'
    BY <1>11 DEF Audit
  <1>12. ASSUME NEW t \in Threads, Start(t) PROVE TypeOK' /\ Known'
    <2>1. attempts[Call(t)] + 1 \in Nat
      OBVIOUS
    <2>2. CASE /\ row' = [row EXCEPT ![Call(t)] = "in_flight"]
               /\ attempts' = [attempts EXCEPT ![Call(t)] = @ + 1]
               /\ pc' = [pc EXCEPT ![t] = "attempt"]
      BY <1>12, <2>1, <2>2 DEF Start
    <2>3. CASE UNCHANGED tableVars /\ pc' = [pc EXCEPT ![t] = "out"]
      BY <1>12, <2>3 DEF Start
    <2> QED BY <1>12, <2>2, <2>3 DEF Start
  <1>13. ASSUME NEW t \in Threads, Attempt(t) PROVE TypeOK' /\ Known'
    BY <1>13 DEF Attempt
  <1>14. ASSUME NEW t \in Threads, Send(t) PROVE TypeOK' /\ Known'
    BY <1>14 DEF Send
  <1>15. ASSUME NEW t \in Threads, Outcome(t) PROVE TypeOK' /\ Known'
    BY <1>15 DEF Outcome
  <1>16. ASSUME NEW t \in Threads, Retry(t) PROVE TypeOK' /\ Known'
    BY <1>16 DEF Retry, AppendThen
  <1>17. ASSUME NEW t \in Threads, Abort(t) PROVE TypeOK' /\ Known'
    BY <1>17 DEF Abort, Settle
  <1>18. ASSUME NEW t \in Threads, Unsure(t) PROVE TypeOK' /\ Known'
    BY <1>18 DEF Unsure, Settle
  <1>19. ASSUME NEW a \in Agents, LoseClaim(a) PROVE TypeOK' /\ Known'
    <2>1. gen[a] \in 1 .. MaxGen[a] /\ gen[a] < MaxGen[a]
      BY <1>19 DEF LoseClaim
    <2>2. MaxGen[a] \in Nat
      BY CallConstants
    <2>3. gen[a] + 1 \in Nat /\ gen[a] + 1 \in 1 .. MaxGen[a]
      BY <2>1, <2>2
    <2> QED BY <1>19, <2>3 DEF LoseClaim
  <1>20. ASSUME NEW s \in {"succeeded", "closed"}, EndRun(s) PROVE TypeOK' /\ Known'
    BY <1>20 DEF EndRun
  <1> QED BY <1>1, <1>2, <1>3, <1>4, <1>5, <1>6, <1>7, <1>8, <1>9, <1>10, <1>11,
             <1>12, <1>13, <1>14, <1>15, <1>16, <1>17, <1>18, <1>19, <1>20
          DEF Next, Loop, Authority


(* The initial state.                                                      *)
LEMMA InitLedger == Init => LedgerInv /\ QuotaInv /\ AccountInv
  BY InitType, ThreadParts
     DEF Init, LedgerInv, QuotaInv, AccountInv, Unborn, OneAsker, Transport,
         Counted, PastSettled, MayAsk, AfterAsker, FreeIsSilent, Covered,
         BilledKeepsQuota, AccountedBeforeUsed, Asking, PreSend, Billed, TypeOK

(* Claims are granted to idle threads.                                     *)
LEMMA StepUnborn ==
    ASSUME TypeOK, Unborn, Next
    PROVE  Unborn'
  <1>1. ASSUME NEW t \in Threads, Loop(t) \/ Authority(t)
        PROVE  Unborn'
    <2>1. gen' = gen /\ (t[2] > gen[t[1]] => pc[t] = "idle")
          /\ \E l : pc' = [pc EXCEPT ![t] = l]
      BY <1>1 DEF Unborn, Loop, Authority, Wake, Enter, Recover, Free, Request,
         Persist, Reconcile, Finish, Sweep, Reserve, Audit, Start, Attempt, Send,
         Outcome, Retry, Abort, Unsure, AppendThen, Goto, vars
    <2>2. t[2] > gen[t[1]] => FALSE
      BY <1>1, <2>1, ThreadParts DEF TypeOK, Loop, Authority, Wake, Enter, Recover, Free,
         Request, Persist, Reconcile, Finish, Sweep, Reserve, Audit, Start,
         Attempt, Send, Outcome, Retry, Abort, Unsure
    <2> QED BY <2>1, <2>2 DEF Unborn, TypeOK
  <1>2. ASSUME NEW a \in Agents, LoseClaim(a) PROVE Unborn'
    BY <1>2, ThreadParts DEF LoseClaim, Unborn, TypeOK
  <1>3. ASSUME NEW s \in {"succeeded", "closed"}, EndRun(s) PROVE Unborn'
    BY <1>3 DEF EndRun, Unborn
  <1> QED BY <1>1, <1>2, <1>3 DEF Next

(* Only model.requested makes a thread the asker of a call.                *)
LEMMA AskersStay ==
    ASSUME TypeOK, Next, ~\E t \in Threads : Request(t), NEW u \in Threads,
           pc'[u] \in Asking
    PROVE  pc[u] \in Asking /\ turn'[u] = turn[u] /\ Call(u)' = Call(u)
  <1> SUFFICES pc[u] \in Asking /\ turn'[u] = turn[u]
    BY DEF Call
  <1>1. ASSUME NEW t \in Threads, Loop(t) PROVE pc[u] \in Asking /\ turn'[u] = turn[u]
    BY <1>1 DEF TypeOK, Asking, PreSend, Loop, Wake, Enter, Recover, Free, Persist,
       Reconcile, Finish, AppendThen, Goto
  <1>2. ASSUME NEW t \in Threads, Authority(t) PROVE pc[u] \in Asking /\ turn'[u] = turn[u]
    BY <1>2 DEF TypeOK, Asking, PreSend, Authority, Sweep, Reserve, Audit, Start,
       Attempt, Send, Outcome, Retry, Abort, Unsure, AppendThen, Goto
  <1> QED BY <1>1, <1>2 DEF Next, LoseClaim, EndRun

(* The call of a new turn is new.                                          *)
LEMMA RequestIsFresh ==
    ASSUME TypeOK, Known, NEW t \in Threads, Request(t)
    PROVE  \/ /\ UNCHANGED <<asked, turn>>
              /\ pc' = [pc EXCEPT ![t] = "out"]
           \/ \E n \in 1 .. MaxTurns[t[1]] :
                 /\ Appends(t)
                 /\ <<t[1], n>> \notin asked
                 /\ \A c \in asked : c[1] = t[1] => c[2] < n
                 /\ asked' = asked \cup {<<t[1], n>>}
                 /\ turn' = [turn EXCEPT ![t] = n]
                 /\ pc' = [pc EXCEPT ![t] = "sweep"]
  <1>1. CASE UNCHANGED <<asked, turn>> /\ pc' = [pc EXCEPT ![t] = "out"]
    BY <1>1
  <1>2. ASSUME NEW n \in 1 .. MaxTurns[t[1]],
               Appends(t), \A m \in TurnsAsked(t[1]) : m < n,
               asked' = asked \cup {<<t[1], n>>},
               turn' = [turn EXCEPT ![t] = n],
               pc' = [pc EXCEPT ![t] = "sweep"]
        PROVE  /\ <<t[1], n>> \notin asked
               /\ \A c \in asked : c[1] = t[1] => c[2] < n
    <2>1. n \in Nat
      BY ThreadParts, CallConstants
    <2>2. ASSUME NEW c \in asked, c[1] = t[1] PROVE c[2] < n
      <3>1. c \in Calls
        BY DEF TypeOK
      <3>2. c = <<t[1], c[2]>> /\ c[2] \in 1 .. MaxTurns[t[1]]
        BY <2>2, <3>1, CallParts
      <3>3. c[2] \in TurnsAsked(t[1])
        BY <3>2 DEF TurnsAsked
      <3> QED BY <1>2, <3>3
    <2>3. ASSUME <<t[1], n>> \in asked PROVE FALSE
      <3>1. <<t[1], n>>[2] < n
        BY <2>2, <2>3
      <3> QED BY <2>1, <3>1
    <2> QED BY <2>2, <2>3
  <1> QED BY <1>1, <1>2 DEF Request, Goto

(* A call keeps its one asker.                                             *)
LEMMA StepOneAsker ==
    ASSUME TypeOK, Known, OneAsker, Next
    PROVE  OneAsker'
  <1>1. CASE ~\E t \in Threads : Request(t)
    BY <1>1, AskersStay DEF OneAsker
  <1>2. ASSUME NEW t \in Threads, Request(t) PROVE OneAsker'
    <2>1. CASE UNCHANGED <<asked, turn>> /\ pc' = [pc EXCEPT ![t] = "out"]
      BY <2>1 DEF TypeOK, OneAsker, Call, Asking, PreSend
    <2>2. ASSUME NEW n \in 1 .. MaxTurns[t[1]], <<t[1], n>> \notin asked,
                 turn' = [turn EXCEPT ![t] = n], pc' = [pc EXCEPT ![t] = "sweep"]
          PROVE  OneAsker'
      <3>1. \A u \in Threads : u # t /\ pc'[u] \in Asking =>
                pc[u] \in Asking /\ Call(u)' = Call(u) /\ Call(u) \in asked
        BY <2>2 DEF TypeOK, Known, Asking, PreSend, Call
      <3>2. Call(t)' \notin asked
        BY <2>2 DEF TypeOK, Call
      <3> QED BY <3>1, <3>2 DEF OneAsker
    <2> QED BY <1>2, <2>1, <2>2, RequestIsFresh
  <1> QED BY <1>1, <1>2

(* Only the asker of a call touches its transport.                         *)
LEMMA StepTransport ==
    ASSUME TypeOK, Known, OneAsker, Transport, Next
    PROVE  Transport'
  <1> USE DEF Goto, Call
  <1>1. ASSUME NEW t \in Threads, Send(t) \/ Outcome(t) PROVE Transport'
    <2>1. pc[t] \in Asking /\ Call(t) \in asked /\ Call(t) \in Calls
      BY <1>1 DEF Send, Outcome, Asking, Known, TypeOK
    <2>2. \A u \in Threads : u # t /\ pc[u] \in Asking => Call(u) # Call(t)
      BY <2>1 DEF OneAsker
    <2>3. CASE Send(t)
      BY <2>1, <2>2, <2>3 DEF Send, Transport, TypeOK, Asking, PreSend, logVars
    <2>4. CASE Outcome(t)
      <3>1. PICK e \in Ends, l \in {"persist", "retry", "unsure", "abort"} :
                /\ sent' = [sent EXCEPT ![Call(t)] = e] /\ pc' = [pc EXCEPT ![t] = l]
                /\ l = "retry" => e = "refused"
                /\ l = "abort" => e \in {"refused", "rejected", "garbled"}
        BY <2>4 DEF Outcome, Ends, Retryable, Uncertain
      <3>2. asked' = asked /\ turn' = turn
        BY <2>4 DEF Outcome, logVars
      <3> QED BY <2>1, <2>2, <3>1, <3>2 DEF Transport, TypeOK, Asking, PreSend
    <2> QED BY <1>1, <2>3, <2>4
  <1>2. ASSUME NEW t \in Threads, Request(t) PROVE Transport'
    <2>1. sent' = sent
      BY <1>2 DEF Request
    <2>2. CASE UNCHANGED <<asked, turn>> /\ pc' = [pc EXCEPT ![t] = "out"]
      BY <2>1, <2>2 DEF TypeOK, Transport, PreSend
    <2>3. ASSUME NEW n \in 1 .. MaxTurns[t[1]], <<t[1], n>> \notin asked,
                 asked' = asked \cup {<<t[1], n>>},
                 turn' = [turn EXCEPT ![t] = n], pc' = [pc EXCEPT ![t] = "sweep"]
          PROVE  Transport'
      <3>1. <<t[1], n>> \in Calls
        BY ThreadParts, TurnIsCall
      <3>2. sent[<<t[1], n>>] = "no"
        BY <2>3, <3>1 DEF Transport
      <3> QED BY <2>1, <2>3, <3>2 DEF TypeOK, Transport, PreSend
    <2> QED BY <1>2, <2>2, <2>3, RequestIsFresh
  <1>3. ASSUME NEW t \in Threads,
               Wake(t) \/ Recover(t) \/ Free(t) \/ Persist(t) \/ Reconcile(t) \/ Finish(t)
        PROVE  Transport'
    BY <1>3 DEF TypeOK, Transport, PreSend, Wake, Recover, Free, Persist, Reconcile,
       Finish, AppendThen, logVars
  <1>4. ASSUME NEW t \in Threads, Enter(t) PROVE Transport'
    <2>1. asked' = asked /\ sent' = sent /\ pc'[t] \in {"request", "reconcile", "recover"}
      BY <1>4 DEF Enter, logVars, TypeOK
    <2>2. \A u \in Threads : u # t => pc'[u] = pc[u] /\ turn'[u] = turn[u]
      BY <1>4 DEF Enter, TypeOK
    <2> QED BY <2>1, <2>2 DEF Transport, PreSend
  <1>5. ASSUME NEW t \in Threads,
               Sweep(t) \/ Reserve(t) \/ Audit(t) \/ Start(t) \/ Attempt(t)
               \/ Retry(t) \/ Abort(t) \/ Unsure(t)
        PROVE  Transport'
    BY <1>5 DEF TypeOK, Transport, PreSend, Sweep, Reserve, Audit, Start, Attempt,
       Retry, Abort, Unsure, AppendThen, logVars
  <1>6. ASSUME UNCHANGED <<asked, pc, turn, sent>> PROVE Transport'
    BY <1>6 DEF Transport
  <1> QED BY <1>1, <1>2, <1>3, <1>4, <1>5, <1>6
          DEF Next, Loop, Authority, LoseClaim, EndRun, logVars

(* The attempt is counted when its thread goes on to send.                 *)
LEMMA StepCounted ==
    ASSUME TypeOK, Known, Transport, Counted, Next
    PROVE  Counted'
  <1> USE DEF Goto, Call
  <1>1. ASSUME NEW t \in Threads, Send(t) \/ Outcome(t) PROVE Counted'
    <2>1. Call(t) \in Calls /\ attempts[Call(t)] > 0
      BY <1>1 DEF Send, Outcome, Counted, Transport, TypeOK
    <2> QED BY <1>1, <2>1 DEF Send, Outcome, Counted, TypeOK, tableVars
  <1>2. ASSUME NEW t \in Threads, Start(t) PROVE Counted'
    <2>1. Call(t) \in Calls /\ \A c \in Calls : attempts[c] \in Nat
      BY DEF TypeOK
    <2>2. CASE /\ row' = [row EXCEPT ![Call(t)] = "in_flight"]
               /\ attempts' = [attempts EXCEPT ![Call(t)] = @ + 1]
               /\ pc' = [pc EXCEPT ![t] = "attempt"]
      <3>1. \A c \in Calls : attempts'[c] >= attempts[c] /\ attempts'[c] \in Nat
        BY <2>1, <2>2 DEF TypeOK
      <3>2. attempts'[Call(t)] > 0
        BY <2>1, <2>2 DEF TypeOK
      <3>3. \A c \in Calls : sent[c] # "no" => attempts'[c] > 0
        BY <2>1, <3>1 DEF Counted
      <3>4. \A c \in Calls : attempts'[c] > 0 => row'[c] # "none"
        BY <2>1, <2>2 DEF Counted, TypeOK
      <3>5. \A u \in Threads : pc'[u] \in {"attempt", "send"} => attempts'[Call(u)] > 0
        BY <2>1, <2>2, <3>1, <3>2 DEF Counted, TypeOK
      <3> QED BY <1>2, <3>3, <3>4, <3>5 DEF Counted, Start
    <2>3. CASE UNCHANGED tableVars /\ pc' = [pc EXCEPT ![t] = "out"]
      BY <1>2, <2>3 DEF Start, Counted, TypeOK, tableVars
    <2> QED BY <1>2, <2>2, <2>3 DEF Start
  <1>3. ASSUME NEW t \in Threads, Enter(t) \/ Request(t) PROVE Counted'
    BY <1>3 DEF TypeOK, Counted, Enter, Request, tableVars
  <1>4. ASSUME NEW t \in Threads,
               Wake(t) \/ Recover(t) \/ Persist(t) \/ Finish(t) \/ Audit(t)
               \/ Attempt(t) \/ Retry(t)
        PROVE  Counted'
    BY <1>4 DEF TypeOK, Counted, Wake, Recover, Persist, Finish, Audit, Attempt,
       Retry, AppendThen, tableVars
  <1>5. ASSUME NEW t \in Threads,
               Free(t) \/ Reconcile(t) \/ Reserve(t) \/ Abort(t) \/ Unsure(t)
        PROVE  Counted'
    BY <1>5 DEF TypeOK, Counted, Free, Reconcile, Reserve, Abort, Unsure, Settle
  <1>6. ASSUME NEW t \in Threads, Sweep(t) PROVE Counted'
    BY <1>6 DEF TypeOK, Counted, Sweep, ActiveCalls, Active
  <1>7. ASSUME UNCHANGED <<tableVars, pc, turn, sent>> PROVE Counted'
    BY <1>7 DEF Counted, tableVars
  <1> QED BY <1>1, <1>2, <1>3, <1>4, <1>5, <1>6, <1>7
          DEF Next, Loop, Authority, LoseClaim, EndRun

(* Once silent, a call of the log stays silent: its asker has lost the     *)
(* claim, and the audit fact of an attempt is refused to it.               *)
LEMMA SilentStays ==
    ASSUME TypeOK, Known, Transport, Next, NEW c \in asked, Silent(c)
    PROVE  Silent(c)'
  <1> USE DEF Goto, Call
  <1>1. c \in Calls
    BY DEF TypeOK
  <1>2. ASSUME NEW t \in Threads, Send(t) \/ Outcome(t) PROVE Silent(c)'
    <2>1. Call(t) # c
      BY <1>2, <1>1 DEF Send, Outcome, Silent, Transport, TypeOK
    <2> QED BY <1>2, <2>1, <1>1 DEF Send, Outcome, Silent, TypeOK, PreSend
  <1>3. ASSUME NEW t \in Threads, Request(t) PROVE Silent(c)'
    <2>1. gen' = gen /\ sent' = sent
      BY <1>3 DEF Request
    <2>2. CASE UNCHANGED <<asked, turn>> /\ pc' = [pc EXCEPT ![t] = "out"]
      BY <2>1, <2>2 DEF TypeOK, Silent, PreSend
    <2>3. ASSUME NEW n \in 1 .. MaxTurns[t[1]], <<t[1], n>> \notin asked,
                 turn' = [turn EXCEPT ![t] = n], pc' = [pc EXCEPT ![t] = "sweep"]
          PROVE  Silent(c)'
      BY <2>1, <2>3 DEF TypeOK, Silent, PreSend
    <2> QED BY <1>3, <2>2, <2>3, RequestIsFresh
  <1>4. ASSUME NEW t \in Threads, Enter(t) PROVE Silent(c)'
    <2>1. gen' = gen /\ sent' = sent /\ pc'[t] \in {"request", "reconcile", "recover"}
      BY <1>4 DEF Enter, TypeOK
    <2>2. \A u \in Threads : u # t => pc'[u] = pc[u] /\ turn'[u] = turn[u]
      BY <1>4 DEF Enter, TypeOK
    <2> QED BY <2>1, <2>2 DEF Silent, PreSend
  <1>5. ASSUME NEW t \in Threads,
               Wake(t) \/ Recover(t) \/ Free(t) \/ Persist(t) \/ Reconcile(t)
               \/ Finish(t)
        PROVE  Silent(c)'
    BY <1>5 DEF TypeOK, Silent, PreSend, Wake, Recover, Free, Persist, Reconcile,
       Finish, AppendThen
  <1>6. ASSUME NEW t \in Threads,
               Sweep(t) \/ Reserve(t) \/ Audit(t) \/ Start(t) \/ Retry(t)
               \/ Abort(t) \/ Unsure(t)
        PROVE  Silent(c)'
    BY <1>6 DEF TypeOK, Silent, PreSend, Sweep, Reserve, Audit, Start, Retry, Abort,
       Unsure, AppendThen
  <1>7. ASSUME NEW t \in Threads, Attempt(t) PROVE Silent(c)'
    <2>1. t[2] \in Nat /\ gen[t[1]] \in Nat
      BY ThreadParts DEF TypeOK
    <2>2. Call(t) = c => ~Appends(t)
      BY <1>7, <2>1 DEF Silent, Appends, Attempt, PreSend
    <2> QED BY <1>7, <2>2 DEF TypeOK, Silent, PreSend, Attempt
  <1>8. ASSUME NEW a \in Agents, LoseClaim(a) PROVE Silent(c)'
    <2>1. \A t \in Threads : /\ t[2] \in Nat /\ t[1] \in Agents /\ gen[t[1]] \in Nat
                             /\ gen'[t[1]] >= gen[t[1]] /\ gen'[t[1]] \in Nat
      BY <1>8, ThreadParts DEF LoseClaim, TypeOK
    <2> QED BY <1>8, <2>1 DEF LoseClaim, Silent
  <1>9. ASSUME NEW s \in {"succeeded", "closed"}, EndRun(s) PROVE Silent(c)'
    BY <1>9 DEF EndRun, Silent
  <1> QED BY <1>2, <1>3, <1>4, <1>5, <1>6, <1>7, <1>8, <1>9
          DEF Next, Loop, Authority

(* Facts stay in the log, so a settled call stays settled.                 *)
LEMMA SettledStays ==
    ASSUME TypeOK, Known, Transport, Next, NEW c \in asked, Settled(c)
    PROVE  Settled(c)'
  <1>1. answered \subseteq answered'
    BY DEF Next, Loop, Authority, Wake, Enter, Recover, Free, Request, Persist,
       Reconcile, Finish, Sweep, Reserve, Audit, Start, Attempt, Send, Outcome,
       Retry, Abort, Unsure, LoseClaim, EndRun, logVars
  <1> QED BY <1>1, SilentStays DEF Settled

(* A turn becomes a past turn when its agent asks again.                   *)
LEMMA StepPastSettled ==
    ASSUME LedgerInv, Next
    PROVE  PastSettled'
  <1> USE DEF LedgerInv
  <1>1. ASSUME NEW t \in Threads, Request(t), asked' # asked PROVE PastSettled'
    <2>1. PICK n \in 1 .. MaxTurns[t[1]] :
              /\ Appends(t) /\ <<t[1], n>> \notin asked
              /\ \A c \in asked : c[1] = t[1] => c[2] < n
              /\ asked' = asked \cup {<<t[1], n>>}
      BY <1>1, RequestIsFresh
    <2>2. \A c \in asked : c[1] = t[1] => Settled(c)
      BY <1>1, <2>1 DEF MayAsk, Appends, Request
    <2>3. \A c \in asked : c[2] \in Nat
      BY CallParts DEF TypeOK
    <2>4. n \in Nat
      BY ThreadParts, CallConstants
    <2>5. ASSUME NEW c \in asked', NEW d \in asked', c[1] = d[1], c[2] < d[2]
          PROVE  Settled(c)'
      <3>1. CASE c \in asked /\ d \in asked
        BY <2>5, <3>1, SettledStays DEF PastSettled
      <3>2. CASE c \in asked /\ d = <<t[1], n>>
        BY <2>2, <2>5, <3>2, SettledStays
      <3>3. CASE c = <<t[1], n>>
        BY <2>1, <2>3, <2>4, <2>5, <3>3
      <3> QED BY <2>1, <2>5, <3>1, <3>2, <3>3
    <2> QED BY <2>5 DEF PastSettled
  <1>2. CASE asked' = asked
    BY <1>2, SettledStays DEF PastSettled
  <1>3. asked' # asked => \E t \in Threads : Request(t)
    BY DEF Next, Loop, Authority, Wake, Enter, Recover, Free, Persist, Reconcile,
       Finish, Sweep, Reserve, Audit, Start, Attempt, Send, Outcome, Retry, Abort,
       Unsure, LoseClaim, EndRun, logVars
  <1> QED BY <1>1, <1>2, <1>3

(* What recover_unresolved finds with no attempt counted was never sent,   *)
(* and its asker, an earlier owner, can no longer send it.                 *)
LEMMA UncountedIsSilent ==
    ASSUME LedgerInv, NEW t \in Threads, pc[t] = "recover",
           attempts[Call(t)] = 0,
           \A u \in Threads : pc[u] \in Asking /\ Call(u) = Call(t) => u[2] < gen[u[1]]
    PROVE  Silent(Call(t))
  BY DEF LedgerInv, TypeOK, Counted, Silent, Asking

(* The other threads of an agent whose owner is t have lost their claims.  *)
LEMMA OthersAreLate ==
    ASSUME TypeOK, Unborn, NEW t \in Threads, t[2] = gen[t[1]], pc[t] \notin Asking,
           NEW u \in Threads, pc[u] \in Asking, u[1] = t[1]
    PROVE  u[2] < gen[u[1]]
  <1>1. u # t /\ pc[u] # "idle"
    BY DEF Asking, PreSend
  <1>2. u[2] # t[2]
    BY <1>1, ThreadParts
  <1>3. ~(u[2] > gen[u[1]]) /\ gen[u[1]] = t[2]
    BY <1>1 DEF Unborn
  <1>4. u[2] \in Nat /\ t[2] \in Nat
    BY ThreadParts
  <1> QED BY <1>2, <1>3, <1>4

(* Before the owner of an agent run asks again, its calls are settled.     *)
LEMMA StepMayAsk ==
    ASSUME LedgerInv, Next
    PROVE  MayAsk'
  <1> USE DEF LedgerInv
  <1>1. ASSUME NEW t \in Threads, Loop(t) \/ Authority(t),
               NEW u \in Threads, u # t, u[2] = gen'[u[1]],
               NEW c \in asked', c[1] = u[1]
        PROVE  /\ pc'[u] \in {"request", "free"} => Settled(c)'
               /\ pc'[u] = "recover" => Settled(c)' \/ c = Call(u)'
    <2>1. gen' = gen /\ pc'[u] = pc[u] /\ turn'[u] = turn[u]
      BY <1>1 DEF TypeOK, Loop, Authority, Wake, Enter, Recover, Free, Request,
         Persist, Reconcile, Finish, Sweep, Reserve, Audit, Start, Attempt, Send,
         Outcome, Retry, Abort, Unsure, AppendThen, Goto
    <2>2. CASE c \in asked
      BY <1>1, <2>1, <2>2, SettledStays DEF MayAsk, Call
    <2>3. CASE c \notin asked
      <3>1. Request(t)
        BY <1>1, <2>3 DEF Loop, Authority, Wake, Enter, Recover, Free, Persist,
           Reconcile, Finish, Sweep, Reserve, Audit, Start, Attempt, Send,
           Outcome, Retry, Abort, Unsure, logVars
      <3>2. Appends(t) /\ c[1] = t[1]
        <4>1. PICK n \in 1 .. MaxTurns[t[1]] :
                  Appends(t) /\ asked' = asked \cup {<<t[1], n>>}
          BY <1>1, <2>3, <3>1, RequestIsFresh
        <4> QED BY <1>1, <2>3, <4>1
      <3>3. u[1] = t[1] /\ u[2] = t[2]
        BY <1>1, <2>1, <3>2 DEF Appends
      <3> QED BY <1>1, <3>3, ThreadParts
    <2> QED BY <2>2, <2>3
  <1>2. ASSUME NEW t \in Threads, Enter(t), t[2] = gen'[t[1]],
               NEW c \in asked', c[1] = t[1]
        PROVE  /\ pc'[t] \in {"request", "free"} => Settled(c)'
               /\ pc'[t] = "recover" => Settled(c)' \/ c = Call(t)'
    <2>1. asked' = asked /\ c \in Calls
      BY <1>2 DEF Enter, logVars, TypeOK
    <2>2. c = <<t[1], c[2]>> /\ c[2] \in 1 .. MaxTurns[t[1]] /\ c[2] \in Nat
      BY <1>2, <2>1, CallParts
    <2>3. c \in finished => Settled(c)
      BY DEF TypeOK, Settled
    <2>4. c \notin finished => c[2] \in Unfinished(t[1])
      BY <1>2, <2>1, <2>2 DEF Unfinished, TurnsAsked
    <2>5. CASE Unfinished(t[1]) = {}
      BY <1>2, <2>1, <2>3, <2>4, <2>5, SettledStays
    <2>6. ASSUME NEW n \in Unfinished(t[1]), \A m \in Unfinished(t[1]) : m <= n,
                 turn' = [turn EXCEPT ![t] = n], pc'[t] \in {"reconcile", "recover"}
          PROVE  pc'[t] = "recover" => Settled(c)' \/ c = Call(t)'
      <3>1. n \in Nat /\ <<t[1], n>> \in asked
        BY ThreadParts, CallConstants DEF Unfinished, TurnsAsked
      <3>2. Call(t)' = <<t[1], n>>
        BY <2>6 DEF Call, TypeOK
      <3>3. CASE c \in finished
        BY <2>1, <2>3, <3>3, <1>2, SettledStays
      <3>4. CASE c \notin finished /\ c[2] = n
        BY <2>2, <3>2, <3>4
      <3>5. CASE c \notin finished /\ c[2] # n
        <4>1. c[2] < n
          BY <2>2, <2>4, <2>6, <3>1, <3>5
        <4>2. Settled(c)
          BY <1>2, <2>1, <3>1, <4>1 DEF PastSettled
        <4> QED BY <2>1, <4>2, <1>2, SettledStays
      <3> QED BY <3>3, <3>4, <3>5
    <2>7. pc'[t] \in {"request", "reconcile", "recover"}
      BY <1>2 DEF Enter, Goto, TypeOK
    <2> QED BY <1>2, <2>5, <2>6, <2>7 DEF Enter, Goto, TypeOK
  <1>3. ASSUME NEW t \in Threads, Recover(t), t[2] = gen'[t[1]],
               NEW c \in asked', c[1] = t[1]
        PROVE  /\ pc'[t] \in {"request", "free"} => Settled(c)'
               /\ pc'[t] # "recover"
    <2>1. asked' = asked /\ gen' = gen /\ pc'[t] # "recover"
      BY <1>3 DEF Recover, Goto, logVars, TypeOK
    <2>2. ASSUME pc'[t] \in {"request", "free"} PROVE attempts[Call(t)] = 0
      <3>1. \/ row[Call(t)] = "none"
            \/ row[Call(t)] \in {"failed", "reserved"} /\ attempts[Call(t)] = 0
        BY <1>3, <2>2 DEF Recover, Goto, TypeOK
      <3>2. attempts[Call(t)] \in Nat /\ Call(t) \in Calls
        BY DEF TypeOK
      <3> QED BY <3>1, <3>2 DEF Counted
    <2>3. \A u \in Threads : pc[u] \in Asking /\ Call(u) = Call(t) => u[2] < gen[u[1]]
      BY <1>3, <2>1, OthersAreLate DEF Call, Recover, Asking, PreSend
    <2>4. pc'[t] \in {"request", "free"} => Silent(Call(t))
      BY <1>3, <2>2, <2>3, UncountedIsSilent DEF Recover
    <2>5. pc'[t] \in {"request", "free"} => Settled(c)
      BY <1>3, <2>1, <2>4 DEF MayAsk, Settled, Recover
    <2> QED BY <2>1, <2>5, <1>3, SettledStays
  <1>4. ASSUME NEW t \in Threads, Free(t), t[2] = gen'[t[1]],
               NEW c \in asked', c[1] = t[1]
        PROVE  Settled(c)' /\ pc'[t] = "request"
    <2>1. asked' = asked /\ gen' = gen /\ pc[t] = "free" /\ pc'[t] = "request"
      BY <1>4 DEF Free, Goto, logVars, TypeOK
    <2> QED BY <1>4, <2>1, SettledStays DEF MayAsk
  <1>5. ASSUME NEW t \in Threads, Loop(t) \/ Authority(t),
               ~Enter(t), ~Recover(t), ~Free(t)
        PROVE  pc'[t] \notin {"request", "free", "recover"}
    BY <1>5 DEF TypeOK, Loop, Authority, Wake, Request, Persist, Reconcile, Finish,
       Sweep, Reserve, Audit, Start, Attempt, Send, Outcome, Retry, Abort, Unsure,
       AppendThen, Goto
  <1>6. ASSUME NEW t \in Threads, Loop(t) \/ Authority(t) PROVE MayAsk'
    BY <1>1, <1>2, <1>3, <1>4, <1>5, <1>6 DEF MayAsk
  <1>7. ASSUME NEW a \in Agents, LoseClaim(a) PROVE MayAsk'
    <2>1. asked' = asked /\ pc' = pc /\ turn' = turn
      BY <1>7 DEF LoseClaim, logVars
    <2>2. \A t \in Threads : t[2] = gen'[t[1]] => t[2] = gen[t[1]] \/ pc[t] = "idle"
      BY <1>7, ThreadParts DEF LoseClaim, TypeOK, Unborn
    <2> QED BY <2>1, <2>2, SettledStays DEF MayAsk, Call
  <1>8. ASSUME NEW s \in {"succeeded", "closed"}, EndRun(s) PROVE MayAsk'
    <2>1. asked' = asked /\ pc' = pc /\ turn' = turn /\ gen' = gen
      BY <1>8 DEF EndRun
    <2> QED BY <2>1, SettledStays DEF MayAsk, Call
  <1> QED BY <1>6, <1>7, <1>8 DEF Next

(* The invariant of the ledger is inductive.                               *)
LEMMA StepLedger == LedgerInv /\ [Next]_vars => LedgerInv'
  <1>1. LedgerInv /\ Next => LedgerInv'
    BY StepType, StepUnborn, StepOneAsker, StepTransport, StepCounted,
       StepPastSettled, StepMayAsk DEF LedgerInv
  <1>2. LedgerInv /\ UNCHANGED vars => LedgerInv'
    BY DEF LedgerInv, TypeOK, Known, Unborn, OneAsker, Transport, Counted,
       PastSettled, MayAsk, Settled, Silent, Call, vars, tableVars, logVars
  <1> QED BY <1>1, <1>2

(* A request leaves only for a call that is not out already and whose      *)
(* predecessors are settled.                                               *)
LEMMA SendIsSafe ==
    ASSUME LedgerInv, Next, NEW c \in Calls, sent[c] # "open", sent'[c] = "open"
    PROVE  /\ sent[c] \in {"no", "refused"}
           /\ \A d \in asked : d[1] = c[1] /\ d[2] < c[2] =>
                  sent[d] = "no" \/ d \in answered
  <1>1. PICK t \in Threads : Send(t) /\ c = Call(t)
    <2>1. \E t \in Threads : Send(t) \/ Outcome(t)
      BY DEF Next, Loop, Authority, Wake, Enter, Recover, Free, Request, Persist,
         Reconcile, Finish, Sweep, Reserve, Audit, Start, Attempt, Retry, Abort,
         Unsure, LoseClaim, EndRun
    <2> QED BY <2>1 DEF Send, Outcome, Ends, LedgerInv, TypeOK
  <1>2. sent[c] \in {"no", "refused"} /\ c \in asked
    BY <1>1 DEF LedgerInv, Transport, Known, Send
  <1> QED BY <1>2 DEF LedgerInv, PastSettled, Settled, Silent

(* Type correctness: the ledger, the log and the threads keep their shape, *)
(* only asked calls are answered and only answered turns finish.           *)
THEOREM LedgerTypes == Spec => []TypeOK
  <1>1. LedgerInv => TypeOK
    BY DEF LedgerInv
  <1> QED BY <1>1, InitLedger, StepLedger, PTL DEF Spec

(* No resampling, with any number of owners, crashes and late readers:     *)
(* a request leaves only if no request of its call is out and every        *)
(* earlier turn was never sent or has its response in the log.             *)
THEOREM NeverResamples == Spec => NoBlindResample
  <1>1. LedgerInv /\ [Next]_vars =>
          [\A c \in Calls : sent[c] # "open" /\ sent'[c] = "open" =>
             /\ sent[c] \in {"no", "refused"}
             /\ \A d \in asked : d[1] = c[1] /\ d[2] < c[2] =>
                   sent[d] = "no" \/ d \in answered]_vars
    BY SendIsSafe
  <1> QED BY <1>1, InitLedger, StepLedger, PTL DEF Spec, NoBlindResample

-----------------------------------------------------------------------------
(* The quota of a call.                                                    *)

HoldsQuota(c) == row[c] \in {"in_flight", "unknown", "completed"}

(* A row that holds the quota of an attempt gives it back only to a        *)
(* thread that frees or aborts the call.                                   *)
LEMMA QuotaStays ==
    ASSUME TypeOK, Next, NEW c \in Calls, HoldsQuota(c)
    PROVE  \/ HoldsQuota(c)'
           \/ \E u \in Threads : (Free(u) \/ Abort(u)) /\ Call(u) = c
  <1> USE DEF HoldsQuota, TypeOK
  <1>1. ASSUME NEW t \in Threads, Free(t) \/ Abort(t), Call(t) # c PROVE HoldsQuota(c)'
    BY <1>1 DEF Free, Abort, Settle
  <1>2. ASSUME NEW t \in Threads, Unsure(t) \/ Reconcile(t) \/ Reserve(t)
        PROVE  HoldsQuota(c)'
    BY <1>2 DEF Unsure, Reconcile, Reserve, Settle
  <1>3. ASSUME NEW t \in Threads, Sweep(t) PROVE HoldsQuota(c)'
    BY <1>3 DEF Sweep, ActiveCalls, Active
  <1>4. ASSUME NEW t \in Threads, Start(t) PROVE HoldsQuota(c)'
    BY <1>4 DEF Start, tableVars
  <1>5. CASE row' = row
    BY <1>5
  <1> QED BY <1>1, <1>2, <1>3, <1>4, <1>5
          DEF Next, Loop, Authority, Wake, Enter, Recover, Request, Persist, Finish,
              Audit, Attempt, Send, Outcome, Retry, LoseClaim, EndRun, tableVars

(* Who owns the agent run behind a step and was awake owned it before.     *)
LEMMA OwnerBefore ==
    ASSUME LedgerInv, Next, NEW t \in Threads, t[2] = gen'[t[1]], pc[t] # "idle"
    PROVE  t[2] = gen[t[1]]
  <1> USE DEF LedgerInv
  <1>1. ASSUME NEW a \in Agents, LoseClaim(a) PROVE t[2] = gen[t[1]]
    <2>1. ~(t[2] > gen[t[1]])
      BY DEF Unborn
    <2> QED BY <1>1, <2>1, ThreadParts DEF LoseClaim, TypeOK
  <1>2. ~(\E a \in Agents : LoseClaim(a)) => gen' = gen
    BY DEF Next, Loop, Authority, Wake, Enter, Recover, Free, Request,
       Persist, Reconcile, Finish, Sweep, Reserve, Audit, Start, Attempt, Send,
       Outcome, Retry, Abort, Unsure, EndRun
  <1> QED BY <1>1, <1>2

(* What excuses the loss of a quota is not undone.                         *)
LEMMA ExcuseStays ==
    ASSUME LedgerInv, Next, NEW c \in Calls, Excused(c)
    PROVE  Excused(c)'
  <1>1. freedLate \subseteq freedLate'
    BY DEF Next, Loop, Authority, Wake, Enter, Recover, Free, Request,
       Persist, Reconcile, Finish, Sweep, Reserve, Audit, Start, Attempt, Send,
       Outcome, Retry, Abort, Unsure, LoseClaim, EndRun
  <1>2. ASSUME sent[c] = "garbled" PROVE sent'[c] = "garbled"
    <2>1. ASSUME NEW t \in Threads, Send(t) \/ Outcome(t) PROVE sent'[c] = "garbled"
      <3>1. sent[Call(t)] # "garbled"
        BY <2>1 DEF Send, Outcome, LedgerInv, Transport
      <3> QED BY <1>2, <2>1, <3>1 DEF Send, Outcome, LedgerInv, TypeOK
    <2>2. ~(\E t \in Threads : Send(t) \/ Outcome(t)) => sent' = sent
      BY DEF Next, Loop, Authority, Wake, Enter, Recover, Free, Request,
         Persist, Reconcile, Finish, Sweep, Reserve, Audit, Start, Attempt,
         Retry, Abort, Unsure, LoseClaim, EndRun
    <2> QED BY <1>2, <2>1, <2>2
  <1> QED BY <1>1, <1>2 DEF Excused

(* An owner that recovers a call came after the thread that asked for it.  *)
LEMMA StepAfterAsker ==
    ASSUME LedgerInv, AfterAsker, Next
    PROVE  AfterAsker'
  <1> USE DEF LedgerInv
  <1> SUFFICES ASSUME NEW t \in Threads, NEW u \in Threads, pc'[t] = "recover",
                      t[2] = gen'[t[1]], pc'[u] \in Asking, Call(t)' = Call(u)'
               PROVE  u[2] < t[2]
    BY DEF AfterAsker
  <1>0. u # t /\ t[1] = u[1]
    BY DEF Asking, PreSend, Call
  <1>1. CASE Enter(t)
    <2>1. t[2] = gen[t[1]] /\ pc[t] = "enter" /\ pc'[u] = pc[u]
      BY <1>0, <1>1 DEF Enter, Goto, TypeOK
    <2>2. u[2] < gen[u[1]]
      BY <1>0, <2>1, OthersAreLate DEF Asking, PreSend
    <2> QED BY <1>0, <2>1, <2>2
  <1>2. CASE ~Enter(t)
    <2>1. pc[t] = "recover" /\ turn'[t] = turn[t]
      <3>1. ASSUME NEW s \in Threads, Loop(s) \/ Authority(s)
            PROVE  pc[t] = "recover" /\ turn'[t] = turn[t]
        BY <1>2, <3>1 DEF TypeOK, Loop, Authority, Wake, Enter, Recover, Free, Request,
           Persist, Reconcile, Finish, Sweep, Reserve, Audit, Start, Attempt, Send,
           Outcome, Retry, Abort, Unsure, AppendThen, Goto
      <3> QED BY <3>1 DEF Next, LoseClaim, EndRun
    <2>2. Call(t)' = Call(t) /\ Call(t) \in asked /\ t[2] = gen[t[1]]
      BY <2>1, OwnerBefore DEF Call, Known
    <2>3. CASE ~\E s \in Threads : Request(s)
      BY <2>1, <2>2, <2>3, AskersStay DEF AfterAsker
    <2>4. ASSUME NEW s \in Threads, Request(s) PROVE u[2] < t[2]
      <3>1. CASE UNCHANGED <<asked, turn>> /\ pc' = [pc EXCEPT ![s] = "out"]
        <4>1. pc[u] \in Asking /\ Call(u)' = Call(u)
          BY <3>1 DEF TypeOK, Asking, PreSend, Call
        <4> QED BY <2>1, <2>2, <4>1 DEF AfterAsker
      <3>2. ASSUME NEW n \in 1 .. MaxTurns[s[1]], <<s[1], n>> \notin asked,
                   turn' = [turn EXCEPT ![s] = n], pc' = [pc EXCEPT ![s] = "sweep"]
            PROVE  u[2] < t[2]
        <4>1. u # s
          BY <2>2, <3>2 DEF TypeOK, Call
        <4>2. pc[u] \in Asking /\ Call(u)' = Call(u)
          BY <3>2, <4>1 DEF TypeOK, Call
        <4> QED BY <2>1, <2>2, <4>2 DEF AfterAsker
      <3> QED BY <2>4, <3>1, <3>2, RequestIsFresh
    <2> QED BY <2>3, <2>4
  <1> QED BY <1>1, <1>2

(* A thread that frees a call found no attempt and came after its asker.   *)
LEMMA StepFreeIsSilent ==
    ASSUME LedgerInv, AfterAsker, FreeIsSilent, Next
    PROVE  FreeIsSilent'
  <1> USE DEF LedgerInv
  <1> SUFFICES ASSUME NEW t \in Threads, pc'[t] = "free", t[2] = gen'[t[1]]
               PROVE  Silent(Call(t))'
    BY DEF FreeIsSilent
  <1>1. CASE Recover(t)
    <2>1. /\ pc[t] = "recover" /\ attempts[Call(t)] = 0 /\ t[2] = gen[t[1]]
          /\ Call(t)' = Call(t) /\ Call(t) \in asked
      BY <1>1 DEF Recover, Goto, TypeOK, Known, Call
    <2>2. ASSUME NEW u \in Threads, pc[u] \in Asking, Call(u) = Call(t)
          PROVE  u[2] < gen[u[1]]
      <3>1. u[2] < t[2] /\ u[1] = t[1]
        BY <2>1, <2>2 DEF AfterAsker, Call
      <3>2. ~(t[2] > gen[t[1]])
        BY <2>1 DEF Unborn
      <3>3. u[2] \in Nat /\ t[2] \in Nat /\ gen[t[1]] \in Nat
        BY ThreadParts DEF TypeOK
      <3> QED BY <3>1, <3>2, <3>3
    <2>3. Silent(Call(t))
      BY <2>1, <2>2, UncountedIsSilent
    <2>4. PICK c \in asked : c = Call(t)
      BY <2>1
    <2>5. Silent(c)'
      BY <2>3, <2>4, SilentStays
    <2> QED BY <2>1, <2>4, <2>5 DEF Silent
  <1>2. CASE ~Recover(t)
    <2>1. pc[t] = "free" /\ turn'[t] = turn[t]
      <3>1. ASSUME NEW s \in Threads, Loop(s) \/ Authority(s)
            PROVE  pc[t] = "free" /\ turn'[t] = turn[t]
        BY <1>2, <3>1 DEF TypeOK, Loop, Authority, Wake, Enter, Recover, Free, Request,
           Persist, Reconcile, Finish, Sweep, Reserve, Audit, Start, Attempt, Send,
           Outcome, Retry, Abort, Unsure, AppendThen, Goto
      <3> QED BY <3>1 DEF Next, LoseClaim, EndRun
    <2>2. Call(t)' = Call(t) /\ Call(t) \in asked /\ Silent(Call(t))
      BY <2>1, OwnerBefore DEF Call, Known, FreeIsSilent
    <2>3. PICK c \in asked : c = Call(t)
      BY <2>2
    <2>4. Silent(c)'
      BY <2>2, <2>3, SilentStays
    <2> QED BY <2>2, <2>3, <2>4 DEF Silent
  <1> QED BY <1>1, <1>2

(* Nobody but a former owner gives back the quota of a call that is out,   *)
(* has a readable answer or is about to leave.                             *)
LEMMA NotFreed ==
    ASSUME LedgerInv, FreeIsSilent, NEW c \in Calls, c \notin freedLate',
           NEW u \in Threads, Free(u) \/ Abort(u), Call(u) = c
    PROVE  /\ sent[c] \notin Billed \ {"garbled"}
           /\ \A t \in Threads : Call(t) = c =>
                 /\ pc[t] # "send"
                 /\ pc[t] = "attempt" => t[2] # gen[t[1]]
  <1> USE DEF LedgerInv
  <1>1. CASE Free(u)
    <2>1. Silent(c)
      BY <1>1 DEF Free, FreeIsSilent
    <2>2. \A t \in Threads : t[2] \in Nat /\ gen[t[1]] \in Nat
      BY ThreadParts DEF TypeOK
    <2> QED BY <2>1, <2>2 DEF Silent, Billed, PreSend
  <1>2. CASE Abort(u)
    BY <1>2 DEF Abort, Transport, OneAsker, Asking, PreSend, Billed
  <1> QED BY <1>1, <1>2

(* A call that is about to leave holds its quota, or lost it to a former   *)
(* owner.                                                                  *)
LEMMA StepCovered ==
    ASSUME LedgerInv, FreeIsSilent, Covered, Next
    PROVE  Covered'
  <1> USE DEF LedgerInv
  <1> SUFFICES ASSUME NEW t \in Threads,
                      \/ pc'[t] = "send"
                      \/ pc'[t] = "attempt" /\ t[2] = gen'[t[1]]
               PROVE  HoldsQuota(Call(t))' \/ Call(t)' \in freedLate'
    BY DEF Covered, HoldsQuota
  <1>0. PICK c \in Calls : c = Call(t)
    BY DEF TypeOK
  <1>1. CASE Start(t)
    BY <1>1 DEF Start, Goto, TypeOK, HoldsQuota, Call
  <1>2. CASE Attempt(t)
    BY <1>2 DEF Attempt, Goto, Appends, TypeOK, Covered, HoldsQuota, Call, tableVars
  <1>3. CASE ~Start(t) /\ ~Attempt(t)
    <2>1. pc[t] = pc'[t] /\ turn'[t] = turn[t]
      <3>1. ASSUME NEW s \in Threads, Loop(s) \/ Authority(s)
            PROVE  pc[t] = pc'[t] /\ turn'[t] = turn[t]
        BY <1>3, <3>1 DEF TypeOK, Loop, Authority, Wake, Enter, Recover, Free, Request,
           Persist, Reconcile, Finish, Sweep, Reserve, Audit, Start, Attempt, Send,
           Outcome, Retry, Abort, Unsure, AppendThen, Goto
      <3> QED BY <3>1 DEF Next, LoseClaim, EndRun
    <2>2. t[2] = gen'[t[1]] => t[2] = gen[t[1]]
      BY <2>1, OwnerBefore
    <2>3. HoldsQuota(c) \/ c \in freedLate
      BY <1>0, <2>1, <2>2 DEF Covered, HoldsQuota
    <2>4. freedLate \subseteq freedLate'
      BY DEF Next, Loop, Authority, Wake, Enter, Recover, Free, Request,
         Persist, Reconcile, Finish, Sweep, Reserve, Audit, Start, Attempt, Send,
         Outcome, Retry, Abort, Unsure, LoseClaim, EndRun
    <2>5. HoldsQuota(c)' \/ c \in freedLate'
      BY <1>0, <2>1, <2>2, <2>3, <2>4, QuotaStays, NotFreed
    <2> QED BY <1>0, <2>1, <2>5 DEF HoldsQuota, Call
  <1> QED BY <1>1, <1>2, <1>3

(* A call that may be billed and is not excused holds its quota.           *)
LEMMA StepBilled ==
    ASSUME LedgerInv, FreeIsSilent, Covered, BilledKeepsQuota, Next
    PROVE  BilledKeepsQuota'
  <1> USE DEF LedgerInv
  <1> SUFFICES ASSUME NEW c \in Calls, sent'[c] \in Billed, ~Excused(c)'
               PROVE  HoldsQuota(c)'
    BY DEF BilledKeepsQuota, HoldsQuota
  <1>0. ~Excused(c) /\ c \notin freedLate'
    BY ExcuseStays DEF Excused
  <1>1. CASE \E t \in Threads : Send(t) /\ Call(t) = c
    BY <1>0, <1>1 DEF Send, Covered, HoldsQuota, Excused, tableVars
  <1>2. CASE ~\E t \in Threads : Send(t) /\ Call(t) = c
    <2>1. sent[c] \in Billed
      <3>1. ASSUME NEW t \in Threads, Send(t) \/ Outcome(t) PROVE sent[c] \in Billed
        BY <1>2, <3>1 DEF Send, Outcome, Transport, TypeOK, Billed
      <3>2. ~(\E t \in Threads : Send(t) \/ Outcome(t)) => sent' = sent
        BY DEF Next, Loop, Authority, Wake, Enter, Recover, Free, Request,
           Persist, Reconcile, Finish, Sweep, Reserve, Audit, Start, Attempt,
           Retry, Abort, Unsure, LoseClaim, EndRun
      <3> QED BY <3>1, <3>2
    <2>2. HoldsQuota(c) /\ sent[c] # "garbled"
      BY <1>0, <2>1 DEF BilledKeepsQuota, HoldsQuota, Excused
    <2> QED BY <1>0, <2>1, <2>2, QuotaStays, NotFreed
  <1> QED BY <1>1, <1>2

(* A completed row is never changed again.                                 *)
LEMMA CompletedStays ==
    ASSUME TypeOK, Next, NEW c \in Calls, row[c] = "completed"
    PROVE  row'[c] = "completed"
  BY DEF TypeOK, Next, Loop, Authority, Wake, Enter, Recover, Free, Request,
     Persist, Reconcile, Finish, Sweep, Reserve, Audit, Start, Attempt, Send, Outcome,
     Retry, Abort, Unsure, LoseClaim, EndRun, Settle, ActiveCalls, Active, tableVars

(* A turn goes on to use its response from the reconciliation only.        *)
LEMMA StepAccount ==
    ASSUME LedgerInv, AccountInv, Next
    PROVE  AccountInv'
  <1> USE DEF LedgerInv
  <1>1. ASSUME NEW t \in Threads, pc'[t] = "finish" PROVE row'[Call(t)'] = "completed"
    <2>0. PICK c \in Calls : c = Call(t)
      BY DEF TypeOK
    <2>1. CASE Reconcile(t)
      BY <2>1 DEF Reconcile, TypeOK, Call
    <2>2. CASE ~Reconcile(t)
      <3>1. pc[t] = "finish" /\ turn'[t] = turn[t]
        <4>1. ASSUME NEW s \in Threads, Loop(s) \/ Authority(s)
              PROVE  pc[t] = "finish" /\ turn'[t] = turn[t]
          BY <1>1, <2>2, <4>1 DEF TypeOK, Loop, Authority, Wake, Enter, Recover, Free,
             Request, Persist, Reconcile, Finish, Sweep, Reserve, Audit, Start,
             Attempt, Send, Outcome, Retry, Abort, Unsure, AppendThen, Goto
        <4> QED BY <1>1, <4>1 DEF Next, LoseClaim, EndRun
      <3>2. row'[c] = "completed"
        BY <2>0, <3>1, CompletedStays DEF AccountInv
      <3> QED BY <2>0, <3>1, <3>2 DEF Call
    <2> QED BY <2>1, <2>2
  <1>2. ASSUME NEW c \in finished' PROVE row'[c] = "completed"
    <2>1. c \in finished \/ \E t \in Threads : Finish(t) /\ c = Call(t)
      BY DEF Next, Loop, Authority, Wake, Enter, Recover, Free, Request,
         Persist, Reconcile, Finish, Sweep, Reserve, Audit, Start, Attempt, Send,
         Outcome, Retry, Abort, Unsure, LoseClaim, EndRun, logVars
    <2>2. row[c] = "completed" /\ c \in Calls
      BY <2>1 DEF AccountInv, AccountedBeforeUsed, Finish, TypeOK
    <2> QED BY <2>2, CompletedStays
  <1> QED BY <1>1, <1>2 DEF AccountInv, AccountedBeforeUsed

(* A response is used only when its usage is in the ledger.                *)
THEOREM UsedIsAccounted == Spec => []AccountedBeforeUsed
  <1>1. LedgerInv /\ AccountInv /\ [Next]_vars => AccountInv'
    <2>1. LedgerInv /\ AccountInv /\ UNCHANGED vars => AccountInv'
      BY DEF AccountInv, AccountedBeforeUsed, Call, vars, tableVars, logVars
    <2> QED BY <2>1, StepAccount
  <1>2. AccountInv => AccountedBeforeUsed
    BY DEF AccountInv
  <1> QED BY <1>1, <1>2, InitLedger, StepLedger, PTL DEF Spec

(* A call that reached the provider, or may have, keeps its quota, unless  *)
(* its reply could not be read or a former owner of the agent run gave it  *)
(* back: through recovery, retries, the stale-call sweep and late threads. *)
THEOREM QuotaKept == Spec => []BilledKeepsQuota
  <1>1. LedgerInv /\ QuotaInv /\ [Next]_vars => QuotaInv'
    <2>1. LedgerInv /\ QuotaInv /\ UNCHANGED vars => QuotaInv'
      BY DEF QuotaInv, AfterAsker, FreeIsSilent, Silent, Covered, BilledKeepsQuota,
         Excused, Call, vars, tableVars, logVars
    <2>2. LedgerInv /\ QuotaInv /\ Next => QuotaInv'
      BY StepAfterAsker, StepFreeIsSilent, StepCovered, StepBilled DEF QuotaInv
    <2> QED BY <2>1, <2>2
  <1>2. QuotaInv => BilledKeepsQuota
    BY DEF QuotaInv
  <1> QED BY <1>1, <1>2, InitLedger, StepLedger, PTL DEF Spec

-----------------------------------------------------------------------------
(* Usage reports.                                                          *)

(* _normalize_usage cannot be talked down: whatever a provider reports, the *)
(* normalized block is well formed, counts at least the tokens that were   *)
(* reported, counts a missing field as the reservation, and its cache      *)
(* split covers the whole prompt.                                          *)
THEOREM NormalizeSound ==
    ASSUME NEW u \in Usages, NEW in \in Nat, NEW out \in Nat
    PROVE  LET n == Normalize(u, in, out) IN
           /\ n \in [prompt : Nat, completion : Nat, hit : Nat, miss : Nat, total : Nat]
           /\ n.hit + n.miss = n.prompt
           /\ n.total >= n.prompt + n.completion
           /\ n.prompt >= Field(u.prompt, in)
           /\ n.completion = Field(u.completion, out)
           /\ n.total >= u.total
  <1> DEFINE p0 == Field(u.prompt, in)
             o  == Field(u.completion, out)
             h0 == Field(u.hit, 0)
             m0 == Field(u.miss, Larger(0, p0 - h0))
             p  == IF h0 + m0 = p0 THEN p0 ELSE Larger(p0, h0 + m0)
             h  == IF h0 + m0 = p0 THEN h0 ELSE 0
             m  == IF h0 + m0 = p0 THEN m0 ELSE p
             tt == Larger(Field(u.total, p + o), p + o)
  <1>0. u.prompt \in Int /\ u.completion \in Int /\ u.hit \in Int /\ u.miss \in Int
        /\ u.total \in Int
    BY DEF Usages
  <1>1. p0 \in Nat /\ o \in Nat /\ h0 \in Nat
    BY <1>0 DEF Field
  <1>2. m0 \in Nat
    BY <1>0, <1>1 DEF Field, Larger
  <1> HIDE DEF p0, o, h0, m0
  <1>3. p \in Nat /\ p >= p0
    BY <1>1, <1>2 DEF Larger
  <1>4. h \in Nat /\ m \in Nat /\ h + m = p
    BY <1>1, <1>2, <1>3
  <1> HIDE DEF p, h, m
  <1>5. tt \in Nat /\ tt >= p + o /\ tt >= u.total
    BY <1>0, <1>1, <1>3 DEF Field, Larger
  <1> HIDE DEF tt
  <1>6. Normalize(u, in, out) = [prompt |-> p, completion |-> o, hit |-> h,
                                 miss |-> m, total |-> tt]
    BY DEF Normalize, p0, o, h0, m0, p, h, m, tt
  <1> QED BY <1>1, <1>3, <1>4, <1>5, <1>6 DEF p0, o

(* A report within the reservation is normalized to one within it, so that *)
(* settling a call never commits more tokens than its reservation did.     *)
THEOREM HonestFits ==
    ASSUME NEW u \in Usages, NEW in \in Nat, NEW out \in Nat, Honest(u, in, out)
    PROVE  LET n == Normalize(u, in, out) IN
           /\ n.prompt <= in /\ n.completion <= out
           /\ n.total <= in + out
  BY DEF Normalize, Field, Larger, Usages, Honest

-----------------------------------------------------------------------------
(* Sums over finite sets: what MapThenSumSet computes.                     *)

Chosen(s) == CHOOSE x \in s : TRUE

(* F is the table of the partial sums of w over the subsets of S that the  *)
(* fold of MapThenSumSet goes through.                                     *)
IsSum(F, w, S) ==
    F = [s \in SUBSET S |->
            IF s = {} THEN 0 ELSE w[Chosen(s)] + F[s \ {Chosen(s)}]]

Total(w, S) == MapThenSumSet(LAMBDA c : w[c], S)

(* A set of numbers that is not empty has a least element.                 *)
LEMMA LeastNumber ==
    ASSUME NEW N \in SUBSET Nat, N # {}
    PROVE  \E x \in N : \A y \in N : x <= y
  <1> DEFINE R == OpToRel(<, Nat)
  <1>1. IsWellFoundedOn(R, Nat)
    BY NatLessThanWellFounded
  <1>2. \A x, y \in Nat : <<y, x>> \in R <=> y < x
    BY DEF OpToRel
  <1> HIDE DEF R
  <1>3. PICK x \in N : \A y \in N : ~ (<<y, x>> \in R)
    BY <1>1, WFMin
  <1>4. ASSUME NEW y \in N PROVE x <= y
    <2>1. x \in Nat /\ y \in Nat /\ ~(y < x)
      BY <1>2, <1>3
    <2> QED BY <2>1
  <1> QED BY <1>4

(* Among sets of members of a finite set there is one from which no member *)
(* can be taken: the form in which this module uses induction on sets.     *)
LEMMA MinimalSet ==
    ASSUME NEW S, IsFiniteSet(S), NEW B \in SUBSET SUBSET S, B # {}
    PROVE  \E s \in B : \A x \in s : s \ {x} \notin B
  <1> DEFINE N == { Cardinality(s) : s \in B }
  <1>1. \A s \in B : IsFiniteSet(s) /\ Cardinality(s) \in Nat
    BY FS_Subset, FS_CardinalityType
  <1>2. PICK n \in N : \A m \in N : n <= m
    <2>1. N \in SUBSET Nat /\ N # {}
      BY <1>1
    <2> HIDE DEF N
    <2> QED BY <2>1, LeastNumber
  <1>3. PICK s \in B : n = Cardinality(s)
    BY <1>2
  <1>4. ASSUME NEW x \in s, s \ {x} \in B PROVE FALSE
    <2>1. Cardinality(s \ {x}) = Cardinality(s) - 1
      BY <1>1, <1>3, FS_RemoveElement
    <2>2. Cardinality(s) <= Cardinality(s \ {x})
      BY <1>2, <1>3, <1>4
    <2> QED BY <1>1, <1>3, <2>1, <2>2
  <1> QED BY <1>4

(* The table exists.                                                       *)
LEMMA SumExists ==
    ASSUME NEW S, IsFiniteSet(S), NEW w, \A c \in S : w[c] \in Nat
    PROVE  \E F : IsSum(F, w, S)
  <1> DEFINE Body(F, s) == IF s = {} THEN 0 ELSE w[Chosen(s)] + F[s \ {Chosen(s)}]
             UpTo(n) == \E F \in [SUBSET S -> Nat] : \A s \in SUBSET S :
                            Cardinality(s) <= n => F[s] = Body(F, s)
  <1>0. ASSUME NEW s \in SUBSET S
        PROVE  /\ Cardinality(s) \in Nat /\ (Cardinality(s) = 0 <=> s = {})
               /\ s # {} => /\ Chosen(s) \in s
                            /\ Cardinality(s \ {Chosen(s)}) = Cardinality(s) - 1
    <2>1. IsFiniteSet(s)
      BY FS_Subset
    <2>2. s # {} => Chosen(s) \in s
      BY DEF Chosen
    <2> QED BY <2>1, <2>2, FS_CardinalityType, FS_EmptySet, FS_RemoveElement
  <1>1. UpTo(0)
    <2> DEFINE F == [s \in SUBSET S |-> 0]
    <2>1. F \in [SUBSET S -> Nat]
      OBVIOUS
    <2>2. ASSUME NEW s \in SUBSET S, Cardinality(s) <= 0 PROVE F[s] = Body(F, s)
      <3>0. Cardinality(s) \in Nat /\ (Cardinality(s) = 0 <=> s = {})
        BY <1>0
      <3>1. s = {}
        BY <2>2, <3>0
      <3> QED BY <3>1
    <2> HIDE DEF F
    <2> QED BY <2>1, <2>2
  <1>2. ASSUME NEW n \in Nat, UpTo(n) PROVE UpTo(n + 1)
    <2>1. PICK F \in [SUBSET S -> Nat] : \A s \in SUBSET S :
              Cardinality(s) <= n => F[s] = Body(F, s)
      BY <1>2
    <2> DEFINE G == [s \in SUBSET S |-> IF Cardinality(s) <= n THEN F[s] ELSE Body(F, s)]
    <2>2. ASSUME NEW s \in SUBSET S
          PROVE  Body(F, s) \in Nat
      <3>1. CASE s # {}
        <4>1. Chosen(s) \in s /\ s \ {Chosen(s)} \in SUBSET S
          BY <1>0, <3>1
        <4>2. w[Chosen(s)] \in Nat /\ F[s \ {Chosen(s)}] \in Nat
          BY <4>1
        <4> QED BY <3>1, <4>2
      <3> QED BY <3>1
    <2>3. G \in [SUBSET S -> Nat]
      <3> HIDE DEF Body
      <3> QED BY <2>2
    <2>4. ASSUME NEW s \in SUBSET S, Cardinality(s) <= n + 1 PROVE G[s] = Body(G, s)
      <3>1. G[s] = Body(F, s)
        <4> HIDE DEF Body
        <4> QED BY <2>1
      <3>2. CASE s = {}
        BY <3>1, <3>2
      <3>3. CASE s # {}
        <4> DEFINE u == s \ {Chosen(s)}
        <4>1. u \in SUBSET S /\ Cardinality(u) <= n
          BY <1>0, <2>4, <3>3
        <4>2. G[u] = F[u]
          <5> HIDE DEF u, Body
          <5> QED BY <4>1
        <4> HIDE DEF G
        <4> QED BY <3>1, <3>3, <4>2
      <3> QED BY <3>2, <3>3
    <2> HIDE DEF G, Body
    <2> QED BY <2>3, <2>4
  <1>3. UpTo(Cardinality(S))
    <2> DEFINE N == { n \in Nat : ~UpTo(n) }
    <2> HIDE DEF UpTo
    <2>1. SUFFICES ASSUME ~UpTo(Cardinality(S)) PROVE FALSE
      OBVIOUS
    <2>2. N \in SUBSET Nat /\ N # {}
      BY <1>0, <2>1
    <2>3. PICK n \in N : \A m \in N : n <= m
      <3> HIDE DEF N
      <3> QED BY <2>2, LeastNumber
    <2>4. n \in Nat /\ ~UpTo(n) /\ n # 0
      BY <1>1, <2>3
    <2>5. n - 1 \in Nat /\ UpTo(n - 1)
      BY <2>3, <2>4
    <2>6. UpTo((n - 1) + 1)
      BY <1>2, <2>5
    <2> QED BY <2>4, <2>6
  <1>4. PICK F \in [SUBSET S -> Nat] : \A s \in SUBSET S :
            Cardinality(s) <= Cardinality(S) => F[s] = Body(F, s)
    BY <1>3
  <1>5. \A s \in SUBSET S : F[s] = Body(F, s)
    <2> HIDE DEF Body
    <2> QED BY <1>4, FS_Subset
  <1>6. F = [s \in SUBSET S |-> Body(F, s)]
    <2> HIDE DEF Body
    <2> QED BY <1>4, <1>5
  <1> QED BY <1>6 DEF IsSum

(* Entries of the table are numbers, ...                                   *)
LEMMA SumIsNat ==
    ASSUME NEW S, IsFiniteSet(S), NEW w, \A c \in S : w[c] \in Nat,
           NEW F, IsSum(F, w, S)
    PROVE  \A s \in SUBSET S : F[s] \in Nat
  <1> DEFINE B == { s \in SUBSET S : F[s] \notin Nat }
  <1>1. SUFFICES ASSUME B # {} PROVE FALSE
    OBVIOUS
  <1>2. PICK s \in B : \A x \in s : s \ {x} \notin B
    <2>1. B \in SUBSET SUBSET S
      OBVIOUS
    <2> HIDE DEF B
    <2> QED BY <1>1, <2>1, MinimalSet
  <1>3. F[s] = IF s = {} THEN 0 ELSE w[Chosen(s)] + F[s \ {Chosen(s)}]
    BY DEF IsSum
  <1>4. s # {} => Chosen(s) \in s
    BY DEF Chosen
  <1>5. s # {} => F[s \ {Chosen(s)}] \in Nat
    BY <1>2, <1>4
  <1> QED BY <1>2, <1>3, <1>4, <1>5

(* ... and any member may be counted first.                                *)
LEMMA SumPeel ==
    ASSUME NEW S, IsFiniteSet(S), NEW w, \A c \in S : w[c] \in Nat,
           NEW F, IsSum(F, w, S)
    PROVE  \A s \in SUBSET S : \A x \in s : F[s] = w[x] + F[s \ {x}]
  <1> DEFINE B == { s \in SUBSET S : \E x \in s : F[s] # w[x] + F[s \ {x}] }
  <1>1. SUFFICES ASSUME B # {} PROVE FALSE
    OBVIOUS
  <1>2. PICK s \in B : \A x \in s : s \ {x} \notin B
    <2>1. B \in SUBSET SUBSET S
      OBVIOUS
    <2> HIDE DEF B
    <2> QED BY <1>1, <2>1, MinimalSet
  <1>3. PICK x \in s : F[s] # w[x] + F[s \ {x}]
    BY <1>2
  <1>4. PICK p \in s : p = Chosen(s)
    BY <1>3 DEF Chosen
  <1>5. F[s] = w[p] + F[s \ {p}]
    BY <1>4 DEF IsSum
  <1>6. p # x
    BY <1>3, <1>5
  <1>7. F[s \ {p}] = w[x] + F[(s \ {p}) \ {x}]
    BY <1>2, <1>6
  <1>8. F[s \ {x}] = w[p] + F[(s \ {x}) \ {p}]
    BY <1>2, <1>6
  <1>9. (s \ {p}) \ {x} = (s \ {x}) \ {p}
    OBVIOUS
  <1>10. PICK u \in SUBSET S : u = (s \ {x}) \ {p}
    OBVIOUS
  <1>11. F[u] \in Nat /\ w[x] \in Nat /\ w[p] \in Nat
    BY SumIsNat
  <1>12. PICK a \in Nat, b \in Nat, k \in Nat : a = w[x] /\ b = w[p] /\ k = F[u]
    BY <1>11
  <1>13. F[s] = b + (a + k) /\ F[s \ {x}] = b + k
    BY <1>5, <1>7, <1>8, <1>9, <1>10, <1>12
  <1>14. b + (a + k) = a + (b + k)
    OBVIOUS
  <1> QED BY <1>3, <1>12, <1>13, <1>14

(* A larger set of larger numbers has a larger sum.                        *)
LEMMA SumGrows ==
    ASSUME NEW T, IsFiniteSet(T), NEW S \in SUBSET T,
           NEW w, NEW v, \A c \in T : v[c] \in Nat,
           \A c \in S : w[c] \in Nat /\ w[c] <= v[c],
           NEW F, IsSum(F, w, S), NEW G, IsSum(G, v, T)
    PROVE  F[S] <= G[T]
  <1>0. IsFiniteSet(S)
    BY FS_Subset
  <1>1. /\ \A s \in SUBSET S : F[s] \in Nat
        /\ \A s \in SUBSET T : G[s] \in Nat
    BY <1>0, SumIsNat
  <1>2. ASSUME ~(F[S] <= G[S]) PROVE FALSE
    <2> DEFINE B == { s \in SUBSET S : ~(F[s] <= G[s]) }
    <2>1. PICK s \in B : \A x \in s : s \ {x} \notin B
      <3>1. B \in SUBSET SUBSET S /\ B # {}
        BY <1>2
      <3> HIDE DEF B
      <3> QED BY <1>0, <3>1, MinimalSet
    <2>2. s # {}
      BY <2>1 DEF IsSum
    <2>3. PICK x \in s : TRUE
      BY <2>2
    <2>4. F[s] = w[x] + F[s \ {x}] /\ G[s] = v[x] + G[s \ {x}]
      <3>1. F[s] = w[x] + F[s \ {x}]
        BY <1>0, SumPeel
      <3>2. s \in SUBSET T
        OBVIOUS
      <3>3. G[s] = v[x] + G[s \ {x}]
        BY <3>2, SumPeel
      <3> QED BY <3>1, <3>3
    <2>5. F[s \ {x}] <= G[s \ {x}]
      BY <2>1
    <2>6. /\ w[x] \in Nat /\ v[x] \in Nat /\ w[x] <= v[x]
          /\ F[s \ {x}] \in Nat /\ G[s \ {x}] \in Nat
      BY <1>1
    <2>7. ~(F[s] <= G[s])
      BY <2>1
    <2> QED BY <2>4, <2>5, <2>6, <2>7
  <1>3. ASSUME ~(G[S] <= G[T]) PROVE FALSE
    <2> DEFINE B == { s \in SUBSET T : S \subseteq s /\ ~(G[S] <= G[s]) }
    <2>1. PICK s \in B : \A x \in s : s \ {x} \notin B
      <3>1. B \in SUBSET SUBSET T /\ B # {}
        BY <1>3
      <3> HIDE DEF B
      <3> QED BY <3>1, MinimalSet
    <2>2. ~(G[S] <= G[s]) /\ G[S] \in Nat /\ S \subseteq s
      BY <1>1, <2>1
    <2>3. PICK x \in s : x \notin S
      BY <2>2
    <2>4. G[s] = v[x] + G[s \ {x}]
      BY SumPeel
    <2>5. G[S] <= G[s \ {x}]
      BY <2>1, <2>2, <2>3
    <2>6. v[x] \in Nat /\ G[s \ {x}] \in Nat
      BY <1>1
    <2> QED BY <2>2, <2>4, <2>5, <2>6
  <1>4. F[S] \in Nat /\ G[S] \in Nat /\ G[T] \in Nat
    BY <1>1
  <1> QED BY <1>2, <1>3, <1>4

(* The fold is the last entry of the table.                                *)
LEMMA TotalIsSum ==
    ASSUME NEW S, IsFiniteSet(S), NEW w, \A c \in S : w[c] \in Nat
    PROVE  \E F : IsSum(F, w, S) /\ Total(w, S) = F[S]
  <1> DEFINE it == CHOOSE it : it = [s \in SUBSET S |->
                IF s = {} THEN 0 ELSE w[Chosen(s)] + it[s \ {Chosen(s)}]]
  <1>1. PICK F : F = [s \in SUBSET S |->
                IF s = {} THEN 0 ELSE w[Chosen(s)] + F[s \ {Chosen(s)}]]
    <2>1. \E F : IsSum(F, w, S)
      BY SumExists
    <2> QED BY <2>1, Zenon DEF IsSum
  <1>2. it = [s \in SUBSET S |->
                IF s = {} THEN 0 ELSE w[Chosen(s)] + it[s \ {Chosen(s)}]]
    BY <1>1, Zenon
  <1>3. Total(w, S) = it[S]
    BY Zenon DEF Total, MapThenSumSet, MapThenFoldSet, Chosen
  <1> HIDE DEF it
  <1> QED BY <1>2, <1>3 DEF IsSum

(* Totals grow with the set and with the numbers.                          *)
LEMMA TotalGrows ==
    ASSUME NEW T, IsFiniteSet(T), NEW S \in SUBSET T,
           NEW w, NEW v, \A c \in T : v[c] \in Nat,
           \A c \in S : w[c] \in Nat /\ w[c] <= v[c]
    PROVE  Total(w, S) \in Nat /\ Total(v, T) \in Nat /\ Total(w, S) <= Total(v, T)
  <1>0. IsFiniteSet(S)
    BY FS_Subset
  <1>1. PICK F : IsSum(F, w, S) /\ Total(w, S) = F[S]
    BY <1>0, TotalIsSum
  <1>2. PICK G : IsSum(G, v, T) /\ Total(v, T) = G[T]
    BY TotalIsSum
  <1>3. F[S] \in Nat /\ G[T] \in Nat
    BY <1>0, <1>1, <1>2, SumIsNat
  <1>4. F[S] <= G[T]
    BY <1>1, <1>2, SumGrows
  <1> QED BY <1>1, <1>2, <1>3, <1>4

(* A new member adds its number.                                           *)
LEMMA TotalAdds ==
    ASSUME NEW S, IsFiniteSet(S), NEW x, x \notin S,
           NEW w, \A c \in S \cup {x} : w[c] \in Nat
    PROVE  Total(w, S \cup {x}) = w[x] + Total(w, S)
  <1> DEFINE T == S \cup {x}
  <1>0. IsFiniteSet(T)
    BY FS_AddElement
  <1>1. PICK F : IsSum(F, w, T) /\ Total(w, T) = F[T]
    <2> HIDE DEF T
    <2>1. \A c \in T : w[c] \in Nat
      BY DEF T
    <2> QED BY <1>0, <2>1, TotalIsSum
  <1>2. F[T] = w[x] + F[T \ {x}] /\ T \ {x} = S
    BY <1>0, <1>1, SumPeel
  <1>3. PICK G : IsSum(G, w, S) /\ Total(w, S) = G[S]
    BY TotalIsSum
  <1>4. IsSum([s \in SUBSET S |-> F[s]], w, S)
    <2>1. ASSUME NEW s \in SUBSET S
          PROVE  F[s] = IF s = {} THEN 0
                        ELSE w[Chosen(s)] + [u \in SUBSET S |-> F[u]][s \ {Chosen(s)}]
      BY <1>1 DEF IsSum
    <2> QED BY <2>1 DEF IsSum
  <1>5. [s \in SUBSET S |-> F[s]][S] = F[S]
    OBVIOUS
  <1>6. PICK H : H = [s \in SUBSET S |-> F[s]]
    OBVIOUS
  <1>7. H[S] \in Nat /\ G[S] \in Nat
    BY <1>3, <1>4, <1>6, SumIsNat
  <1>8. H[S] <= G[S] /\ G[S] <= H[S]
    <2>1. \A c \in S : w[c] \in Nat /\ w[c] <= w[c]
      OBVIOUS
    <2> QED BY <1>3, <1>4, <1>6, <2>1, SumGrows
  <1>9. H[S] = G[S]
    BY <1>7, <1>8
  <1>10. F[T \ {x}] = G[S]
    BY <1>2, <1>5, <1>6, <1>9
  <1> HIDE DEF T
  <1>11. Total(w, T) = w[x] + Total(w, S)
    BY <1>1, <1>2, <1>3, <1>10
  <1> QED BY <1>11 DEF T

-----------------------------------------------------------------------------
(* The budget.                                                             *)

TokensOf == [c \in Calls |-> Tokens(c)]
CostOf == [c \in Calls |-> Cost(c)]

(* Calls the provider may bill now or without another reservation: those   *)
(* it may have seen, those with an active row, and those on their way out, *)
(* the excused ones left aside.                                            *)
AtStake ==
    { c \in Calls :
        /\ ~Excused(c)
        /\ \/ sent[c] \in Billed
           \/ row[c] \in Active
           \/ \E t \in Threads :
                 /\ Call(t) = c
                 /\ pc[t] = "send" \/ (pc[t] = "attempt" /\ t[2] = gen[t[1]]) }

HonestReports ==
    \A a \in Agents, u \in Reported : Honest(u, InTokens[a], OutTokens)

(* The asker of a call has no response to it yet, a settled row has one,   *)
(* and the usage in the log was reported by the provider.                  *)
Answers ==
    /\ \A t \in Threads : pc[t] \in Asking => Call(t) \notin answered
    /\ \A c \in Calls : row[c] = "completed" => c \in answered
    /\ \A c \in answered : usage[c] \in Reported

(* What is at stake fits the budget, at the rate at which it is committed. *)
StakeFits ==
    HonestReports =>
        /\ Total(TokensOf, AtStake) <= MaxTokens
        /\ Total(CostOf, AtStake) <= MaxCost

(* There are finitely many calls.                                          *)
LEMMA CallsFinite == IsFiniteSet(Calls)
  <1> DEFINE f == [a \in Agents |-> {a} \X (1 .. MaxTurns[a])]
             R == { {a} \X (1 .. MaxTurns[a]) : a \in Agents }
  <1>1. f \in Surjection(Agents, R)
    BY DEF Surjection
  <1>2. IsFiniteSet(R)
    <2> HIDE DEF f, R
    <2> QED BY <1>1, CallConstants, FS_Surjection
  <1>3. ASSUME NEW a \in Agents PROVE IsFiniteSet({a} \X (1 .. MaxTurns[a]))
    <2>0. MaxTurns[a] \in Int
      BY CallConstants
    <2>1. IsFiniteSet(1 .. MaxTurns[a])
      BY <2>0, FS_Interval
    <2>2. IsFiniteSet({a})
      BY FS_Singleton
    <2> QED BY <2>1, <2>2, FS_Product
  <1>4. \A T \in R : IsFiniteSet(T)
    BY <1>3
  <1> HIDE DEF R
  <1>5. IsFiniteSet(UNION R)
    BY <1>2, <1>4, FS_UNION
  <1> QED BY <1>5 DEF Calls, R

(* Products and rounded quotients of numbers, and how they grow.           *)
LEMMA Product ==
    ASSUME NEW m \in Nat, NEW n \in Nat, NEW k \in Nat, m <= n
    PROVE  m * k \in Nat /\ m * k <= n * k /\ k * m \in Nat /\ k * m <= k * n
  OBVIOUS

LEMMA CeilGrows ==
    ASSUME NEW x \in Nat, NEW y \in Nat, x <= y
    PROVE  Ceil(x) \in Nat /\ Ceil(y) \in Nat /\ Ceil(x) <= Ceil(y)
  <1> DEFINE d == PriceScale
             p == (x + d - 1) \div d
             q == (y + d - 1) \div d
  <1>0. d \in Nat /\ d > 0
    BY CallConstants
  <1>1. /\ p \in Int /\ d * p <= x + d - 1 /\ x + d - 1 < d * (p + 1)
    BY <1>0
  <1>2. /\ q \in Int /\ d * q <= y + d - 1 /\ y + d - 1 < d * (q + 1)
    BY <1>0
  <1> HIDE DEF p, q, d
  <1>3. p >= 0 /\ q >= 0 /\ p <= q
    BY <1>0, <1>1, <1>2
  <1> QED BY <1>1, <1>2, <1>3 DEF Ceil, p, q, d

(* What a normalized block costs is a number.                              *)
LEMMA ActualIsNat ==
    ASSUME NEW u \in Usages, NEW in \in Nat, NEW out \in Nat
    PROVE  ActualCost(Normalize(u, in, out)) \in Nat
  <1>0. PriceHit \in Nat /\ PriceMiss \in Nat /\ PriceOut \in Nat
    BY CallConstants
  <1>1. PICK n : n = Normalize(u, in, out)
    OBVIOUS
  <1>2. n \in [prompt : Nat, completion : Nat, hit : Nat, miss : Nat, total : Nat]
    BY <1>1, NormalizeSound
  <1>3. n.hit * PriceHit \in Nat /\ n.miss * PriceMiss \in Nat
        /\ n.completion * PriceOut \in Nat
    BY <1>0, <1>2, Product
  <1>4. n.hit * PriceHit + n.miss * PriceMiss + n.completion * PriceOut \in Nat
    BY <1>3
  <1> QED BY <1>1, <1>4, CeilGrows DEF ActualCost

(* Commitments are numbers.                                                *)
LEMMA FeesAreNat ==
    ASSUME TypeOK, NEW c \in Calls
    PROVE  /\ Need(c) \in Nat /\ EstimateCost(InTokens[c[1]], OutTokens) \in Nat
           /\ Tokens(c) \in Nat /\ Cost(c) \in Nat
  <1>0. /\ c[1] \in Agents /\ InTokens[c[1]] \in Nat /\ OutTokens \in Nat
        /\ PriceHit \in Nat /\ PriceMiss \in Nat /\ PriceOut \in Nat
    BY CallParts, CallConstants
  <1>1. Need(c) \in Nat
    BY <1>0 DEF Need
  <1>2. EstimateCost(InTokens[c[1]], OutTokens) \in Nat
    <2>1. InTokens[c[1]] * PriceMiss + OutTokens * PriceOut \in Nat
      BY <1>0, Product
    <2> QED BY <2>1, CeilGrows DEF EstimateCost
  <1>3. usage[c] \in Usages
    BY DEF TypeOK
  <1>4. Spent(c).total \in Nat
    BY <1>0, <1>3, NormalizeSound DEF Spent
  <1>5. ActualCost(Spent(c)) \in Nat
    BY <1>0, <1>3, ActualIsNat DEF Spent
  <1> QED BY <1>1, <1>2, <1>4, <1>5 DEF Tokens, Cost

(* A report within the reservation costs no more than was reserved.        *)
LEMMA HonestCost ==
    ASSUME NEW u \in Usages, NEW in \in Nat, NEW out \in Nat, Honest(u, in, out)
    PROVE  ActualCost(Normalize(u, in, out)) <= EstimateCost(in, out)
  <1>1. PICK n : n = Normalize(u, in, out)
    OBVIOUS
  <1>2. /\ n.prompt \in Nat /\ n.completion \in Nat /\ n.hit \in Nat /\ n.miss \in Nat
        /\ n.hit + n.miss = n.prompt
    BY <1>1, NormalizeSound
  <1>3. n.prompt <= in /\ n.completion <= out
    BY <1>1, HonestFits
  <1>4. PICK h \in Nat, m \in Nat, p \in Nat, o \in Nat :
            h = n.hit /\ m = n.miss /\ p = n.prompt /\ o = n.completion
    BY <1>2
  <1>5. h + m = p /\ p <= in /\ o <= out
    BY <1>2, <1>3, <1>4
  <1>6. /\ PriceHit \in Nat /\ PriceMiss \in Nat /\ PriceOut \in Nat
        /\ PriceHit <= PriceMiss
    BY CallConstants
  <1>7. /\ h * PriceHit \in Nat /\ h * PriceMiss \in Nat
        /\ h * PriceHit <= h * PriceMiss
    BY <1>6, Product
  <1>8. /\ m * PriceMiss \in Nat /\ o * PriceOut \in Nat /\ out * PriceOut \in Nat
        /\ o * PriceOut <= out * PriceOut
    BY <1>5, <1>6, Product
  <1>9. /\ in * PriceMiss \in Nat /\ (h + m) * PriceMiss <= in * PriceMiss
    BY <1>5, <1>6, Product
  <1>10. (h + m) * PriceMiss = h * PriceMiss + m * PriceMiss
    BY <1>6
  <1>11. PICK a \in Nat, b \in Nat, e \in Nat, f \in Nat, g \in Nat, i \in Nat :
            /\ a = h * PriceHit /\ b = m * PriceMiss /\ e = o * PriceOut
            /\ f = in * PriceMiss /\ g = out * PriceOut /\ i = h * PriceMiss
    BY <1>7, <1>8, <1>9
  <1>12. a <= i /\ e <= g /\ i + b <= f
    BY <1>7, <1>8, <1>9, <1>10, <1>11
  <1>13. a + b + e \in Nat /\ f + g \in Nat /\ a + b + e <= f + g
    BY <1>12
  <1>14. Ceil(a + b + e) <= Ceil(f + g)
    BY <1>13, CeilGrows
  <1> QED BY <1>1, <1>4, <1>11, <1>14 DEF ActualCost, EstimateCost

(* The ledger's sums are totals of what the rows commit.                   *)
LEMMA CommittedIsTotal ==
    ASSUME TypeOK, NEW S \in SUBSET Calls
    PROVE  /\ MapThenSumSet(Tokens, S) = Total(TokensOf, S)
           /\ MapThenSumSet(Cost, S) = Total(CostOf, S)
  <1>0. IsFiniteSet(S)
    BY CallsFinite, FS_Subset
  <1>1. ASSUME NEW s \in SUBSET S, s # {}
        PROVE  /\ Chosen(s) \in S
               /\ TokensOf[Chosen(s)] = Tokens(Chosen(s))
               /\ CostOf[Chosen(s)] = Cost(Chosen(s))
    <2>1. Chosen(s) \in s
      BY <1>1 DEF Chosen
    <2> QED BY <2>1 DEF TokensOf, CostOf
  <1>2. ASSUME NEW w, \A c \in S : w[c] \in Nat, NEW F, IsSum(F, w, S)
        PROVE  Total(w, S) = F[S]
    <2>1. PICK G : IsSum(G, w, S) /\ Total(w, S) = G[S]
      BY <1>0, <1>2, TotalIsSum
    <2>2. F[S] \in Nat /\ G[S] \in Nat
      BY <1>0, <1>2, <2>1, SumIsNat
    <2>3. \A c \in S : w[c] \in Nat /\ w[c] <= w[c]
      BY <1>2
    <2>4. F[S] <= G[S] /\ G[S] <= F[S]
      BY <1>0, <1>2, <2>1, <2>3, SumGrows
    <2> QED BY <2>1, <2>2, <2>4
  <1>3. \A c \in S : TokensOf[c] \in Nat /\ CostOf[c] \in Nat
    BY FeesAreNat DEF TokensOf, CostOf
  <1>4. MapThenSumSet(Tokens, S) = Total(TokensOf, S)
    <2> DEFINE it == CHOOSE it : it = [s \in SUBSET S |->
                  IF s = {} THEN 0 ELSE Tokens(Chosen(s)) + it[s \ {Chosen(s)}]]
    <2>1. PICK F : IsSum(F, TokensOf, S)
      BY <1>0, <1>3, SumExists
    <2>2. F = [s \in SUBSET S |->
                  IF s = {} THEN 0 ELSE Tokens(Chosen(s)) + F[s \ {Chosen(s)}]]
      BY <1>1, <2>1 DEF IsSum
    <2>3. it = [s \in SUBSET S |->
                  IF s = {} THEN 0 ELSE Tokens(Chosen(s)) + it[s \ {Chosen(s)}]]
      BY <2>2, Zenon
    <2>4. MapThenSumSet(Tokens, S) = it[S]
      BY Zenon DEF MapThenSumSet, MapThenFoldSet, Chosen
    <2> HIDE DEF it
    <2>5. IsSum(it, TokensOf, S)
      BY <1>1, <2>3 DEF IsSum
    <2> QED BY <1>2, <1>3, <2>4, <2>5
  <1>5. MapThenSumSet(Cost, S) = Total(CostOf, S)
    <2> DEFINE it == CHOOSE it : it = [s \in SUBSET S |->
                  IF s = {} THEN 0 ELSE Cost(Chosen(s)) + it[s \ {Chosen(s)}]]
    <2>1. PICK F : IsSum(F, CostOf, S)
      BY <1>0, <1>3, SumExists
    <2>2. F = [s \in SUBSET S |->
                  IF s = {} THEN 0 ELSE Cost(Chosen(s)) + F[s \ {Chosen(s)}]]
      BY <1>1, <2>1 DEF IsSum
    <2>3. it = [s \in SUBSET S |->
                  IF s = {} THEN 0 ELSE Cost(Chosen(s)) + it[s \ {Chosen(s)}]]
      BY <2>2, Zenon
    <2>4. MapThenSumSet(Cost, S) = it[S]
      BY Zenon DEF MapThenSumSet, MapThenFoldSet, Chosen
    <2> HIDE DEF it
    <2>5. IsSum(it, CostOf, S)
      BY <1>1, <2>3 DEF IsSum
    <2> QED BY <1>2, <1>3, <2>4, <2>5
  <1> QED BY <1>4, <1>5

(* Whatever is at stake is committed in its row.                           *)
LEMMA StakeIsCommitted ==
    ASSUME LedgerInv, QuotaInv, NEW c \in AtStake
    PROVE  /\ c \in Calls
           /\ row[c] \in {"reserved", "in_flight", "unknown", "completed"}
  BY DEF LedgerInv, QuotaInv, AtStake, Exposed, ActiveCalls, Active, Covered,
     BilledKeepsQuota, Excused, TypeOK

(* The asker of a call has no response to it yet, and so on.               *)
LEMMA StepAnswers ==
    ASSUME LedgerInv, Answers, Next
    PROVE  Answers'
  <1> USE DEF LedgerInv
  <1>1. ASSUME NEW t \in Threads, pc'[t] \in Asking PROVE Call(t)' \notin answered'
    <2>1. CASE \E s \in Threads : Persist(s) /\ Appends(s)
      <3>1. PICK s \in Threads : Persist(s) /\ Appends(s)
        BY <2>1
      <3>2. answered' = answered \cup {Call(s)} /\ pc'[s] = "reconcile" /\ pc[s] = "persist"
        BY <3>1 DEF Persist, AppendThen, Goto, TypeOK
      <3>3. t # s /\ pc'[t] = pc[t] /\ Call(t)' = Call(t)
        BY <1>1, <3>1, <3>2 DEF Persist, AppendThen, Goto, TypeOK, Call, Asking, PreSend
      <3>4. Call(t) # Call(s)
        BY <1>1, <3>2, <3>3 DEF OneAsker, Asking
      <3> QED BY <1>1, <3>2, <3>3, <3>4 DEF Answers
    <2>2. CASE ~\E s \in Threads : Persist(s) /\ Appends(s)
      <3>1. answered' = answered
        BY <2>2 DEF Next, Loop, Authority, Wake, Enter, Recover, Free, Request,
           Persist, Reconcile, Finish, Sweep, Reserve, Audit, Start, Attempt, Send,
           Outcome, Retry, Abort, Unsure, LoseClaim, EndRun, logVars
      <3>2. CASE ~\E s \in Threads : Request(s)
        BY <1>1, <3>1, <3>2, AskersStay DEF Answers
      <3>3. ASSUME NEW s \in Threads, Request(s) PROVE Call(t)' \notin answered'
        <4>1. CASE UNCHANGED <<asked, turn>> /\ pc' = [pc EXCEPT ![s] = "out"]
          <5>1. pc[t] \in Asking /\ Call(t)' = Call(t)
            BY <1>1, <4>1 DEF TypeOK, Asking, PreSend, Call
          <5> QED BY <3>1, <5>1 DEF Answers
        <4>2. ASSUME NEW n \in 1 .. MaxTurns[s[1]], <<s[1], n>> \notin asked,
                     turn' = [turn EXCEPT ![s] = n], pc' = [pc EXCEPT ![s] = "sweep"]
              PROVE  Call(t)' \notin answered'
          <5>1. CASE t = s
            BY <3>1, <4>2, <5>1 DEF TypeOK, Call
          <5>2. CASE t # s
            <6>1. pc[t] \in Asking /\ Call(t)' = Call(t)
              BY <1>1, <4>2, <5>2 DEF TypeOK, Call
            <6> QED BY <3>1, <6>1 DEF Answers
          <5> QED BY <5>1, <5>2
        <4> QED BY <3>3, <4>1, <4>2, RequestIsFresh
      <3> QED BY <3>2, <3>3
    <2> QED BY <2>1, <2>2
  <1>2. answered \subseteq answered'
    BY DEF Next, Loop, Authority, Wake, Enter, Recover, Free, Request,
       Persist, Reconcile, Finish, Sweep, Reserve, Audit, Start, Attempt, Send,
       Outcome, Retry, Abort, Unsure, LoseClaim, EndRun, logVars
  <1>3. ASSUME NEW c \in Calls, row'[c] = "completed" PROVE c \in answered'
    <2>1. row[c] = "completed" \/ \E t \in Threads : Reconcile(t) /\ Call(t) = c
      BY <1>3 DEF TypeOK, Next, Loop, Authority, Wake, Enter, Recover, Free, Request,
         Persist, Reconcile, Finish, Sweep, Reserve, Audit, Start, Attempt, Send,
         Outcome, Retry, Abort, Unsure, LoseClaim, EndRun, Settle, ActiveCalls, Active,
         tableVars
    <2>2. c \in answered
      BY <2>1 DEF Answers, Reconcile, Known
    <2> QED BY <1>2, <2>2
  <1>4. ASSUME NEW c \in answered' PROVE usage'[c] \in Reported
    <2>1. ASSUME NEW s \in Threads, Persist(s) PROVE usage'[c] \in Reported
      <3>1. CASE Appends(s)
        <4>1. PICK u \in Reported : usage' = [usage EXCEPT ![Call(s)] = u]
          BY <2>1, <3>1 DEF Persist
        <4>2. c \in answered \cup {Call(s)}
          BY <2>1, <3>1 DEF Persist
        <4>3. c \in Calls /\ Call(s) \in Calls
          BY <4>2 DEF TypeOK
        <4> QED BY <4>1, <4>2, <4>3 DEF Answers, TypeOK
      <3>2. CASE ~Appends(s)
        BY <2>1, <3>2 DEF Persist, Answers
      <3> QED BY <3>1, <3>2
    <2>2. (~\E s \in Threads : Persist(s)) => UNCHANGED <<answered, usage>>
      BY DEF Next, Loop, Authority, Wake, Enter, Recover, Free, Request,
         Reconcile, Finish, Sweep, Reserve, Audit, Start, Attempt, Send,
         Outcome, Retry, Abort, Unsure, LoseClaim, EndRun, logVars
    <2> QED BY <2>1, <2>2 DEF Answers
  <1> QED BY <1>1, <1>3, <1>4 DEF Answers

(* The report of a settled call is never replaced.                         *)
LEMMA UsageStays ==
    ASSUME LedgerInv, Answers, Next, NEW c \in Calls, row[c] = "completed"
    PROVE  usage'[c] = usage[c]
  <1>1. ASSUME NEW s \in Threads, Persist(s) PROVE usage'[c] = usage[c]
    <2>1. Call(s) # c /\ Call(s) \in Calls
      BY <1>1 DEF Answers, Persist, Asking, LedgerInv, TypeOK
    <2> QED BY <1>1, <2>1 DEF Persist, LedgerInv, TypeOK
  <1>2. (~\E s \in Threads : Persist(s)) => usage' = usage
    BY DEF Next, Loop, Authority, Wake, Enter, Recover, Free, Request,
       Reconcile, Finish, Sweep, Reserve, Audit, Start, Attempt, Send,
       Outcome, Retry, Abort, Unsure, LoseClaim, EndRun, logVars
  <1> QED BY <1>1, <1>2

(* A commitment in force only falls.                                       *)
LEMMA FeesFall ==
    ASSUME LedgerInv, QuotaInv, Answers, HonestReports, Next, TypeOK', Answers',
           NEW c \in AtStake
    PROVE  /\ TokensOf'[c] <= TokensOf[c] /\ CostOf'[c] <= CostOf[c]
           /\ TokensOf'[c] \in Nat /\ CostOf'[c] \in Nat
           /\ TokensOf[c] \in Nat /\ CostOf[c] \in Nat
  <1>0. c \in Calls /\ row[c] \in {"reserved", "in_flight", "unknown", "completed"}
    BY StakeIsCommitted
  <1>1. /\ TokensOf[c] = Tokens(c) /\ CostOf[c] = Cost(c)
        /\ TokensOf'[c] = Tokens(c)' /\ CostOf'[c] = Cost(c)'
    BY <1>0 DEF TokensOf, CostOf
  <1>2. /\ Need(c) \in Nat /\ EstimateCost(InTokens[c[1]], OutTokens) \in Nat
        /\ Tokens(c) \in Nat /\ Cost(c) \in Nat
    BY <1>0, FeesAreNat DEF LedgerInv
  <1>3. CASE row[c] = "completed"
    <2>1. row'[c] = "completed" /\ usage'[c] = usage[c]
      BY <1>0, <1>3, CompletedStays, UsageStays DEF LedgerInv
    <2>2. Tokens(c)' = Tokens(c) /\ Cost(c)' = Cost(c)
      BY <1>3, <2>1 DEF Tokens, Cost, Spent
    <2> QED BY <1>1, <1>2, <2>2
  <1>4. CASE row[c] # "completed"
    <2>1. Tokens(c) = Need(c) /\ Cost(c) = EstimateCost(InTokens[c[1]], OutTokens)
      BY <1>0, <1>4 DEF Tokens, Cost, Active
    <2>2. CASE row'[c] = "completed"
      <3>1. usage'[c] \in Reported /\ usage'[c] \in Usages
        BY <1>0, <2>2 DEF Answers, TypeOK
      <3>2. PICK u \in Usages : u = usage'[c]
        BY <3>1
      <3>3. c[1] \in Agents /\ InTokens[c[1]] \in Nat /\ OutTokens \in Nat
        BY <1>0, CallParts, CallConstants
      <3>4. Honest(u, InTokens[c[1]], OutTokens)
        BY <3>1, <3>2, <3>3 DEF HonestReports
      <3>5. PICK n : n = Normalize(u, InTokens[c[1]], OutTokens)
        OBVIOUS
      <3>6. n.total \in Nat /\ n.total <= Need(c)
        BY <3>3, <3>4, <3>5, NormalizeSound, HonestFits DEF Need
      <3>7. ActualCost(n) <= EstimateCost(InTokens[c[1]], OutTokens)
        BY <3>3, <3>4, <3>5, HonestCost
      <3>8. Tokens(c)' = n.total /\ Cost(c)' = ActualCost(n)
        <4>1. Spent(c)' = n
          BY <3>2, <3>5 DEF Spent
        <4>2. Tokens(c)' = Spent(c)'.total
          BY <2>2 DEF Tokens, Active
        <4>3. Cost(c)' = ActualCost(Spent(c)')
          BY <2>2 DEF Cost, Active
        <4> QED BY <4>1, <4>2, <4>3
      <3>9. ActualCost(n) \in Nat
        BY <3>3, <3>5, ActualIsNat
      <3> QED BY <1>1, <1>2, <2>1, <3>6, <3>7, <3>8, <3>9
    <2>3. CASE row'[c] # "completed"
      <3>1. /\ Tokens(c)' \in {Need(c), 0}
            /\ Cost(c)' \in {EstimateCost(InTokens[c[1]], OutTokens), 0}
        BY <2>3 DEF Tokens, Cost, Need
      <3> QED BY <1>1, <1>2, <2>1, <3>1
    <2> QED BY <2>2, <2>3
  <1> QED BY <1>3, <1>4

(* Only a new reservation puts a call at stake.                            *)
LEMMA StakeShrinks ==
    ASSUME LedgerInv, Next, NEW c \in AtStake', c \notin AtStake
    PROVE  \E t \in Threads : Reserve(t) /\ c = Call(t) /\ row[c] = "none"
                              /\ Fits(c) /\ row' = [row EXCEPT ![c] = "reserved"]
                              /\ usage' = usage
  <1> USE DEF LedgerInv
  <1>0. c \in Calls /\ ~Excused(c)
    BY ExcuseStays DEF AtStake
  <1>1. CASE sent'[c] \in Billed
    <2>1. ASSUME NEW t \in Threads, Send(t) \/ Outcome(t) PROVE FALSE
      <3>1. sent[c] \notin Billed
        BY <1>0 DEF AtStake
      <3>2. Send(t) /\ Call(t) = c
        BY <1>0, <1>1, <2>1, <3>1 DEF Send, Outcome, Transport, TypeOK, Billed
      <3> QED BY <1>0, <3>2 DEF Send, AtStake
    <2>2. (~\E t \in Threads : Send(t) \/ Outcome(t)) => sent' = sent
      BY DEF Next, Loop, Authority, Wake, Enter, Recover, Free, Request,
         Persist, Reconcile, Finish, Sweep, Reserve, Audit, Start, Attempt,
         Retry, Abort, Unsure, LoseClaim, EndRun
    <2> QED BY <1>0, <1>1, <2>1, <2>2 DEF AtStake
  <1>2. CASE row'[c] \in Active
    <2>1. row[c] \notin Active
      BY <1>0 DEF AtStake
    <2>2. PICK t \in Threads : Reserve(t) \/ Start(t) \/ Sweep(t) \/ Free(t) \/ Abort(t)
                               \/ Unsure(t) \/ Reconcile(t)
      BY <1>2, <2>1 DEF Next, Loop, Authority, Wake, Enter, Recover, Request, Persist,
         Finish, Audit, Attempt, Send, Outcome, Retry, LoseClaim, EndRun, tableVars
    <2>3. Reserve(t)
      BY <1>0, <1>2, <2>1, <2>2 DEF TypeOK, Start, Sweep, Free, Abort, Unsure,
         Reconcile, Settle, Active, ActiveCalls, tableVars
    <2>4. /\ row[Call(t)] = "none" /\ Fits(Call(t))
          /\ row' = [row EXCEPT ![Call(t)] = "reserved"] /\ usage' = usage
      BY <1>2, <2>1, <2>3 DEF Reserve, logVars
    <2>5. c = Call(t)
      BY <1>0, <1>2, <2>1, <2>4 DEF TypeOK
    <2> QED BY <2>3, <2>4, <2>5
  <1>3. ASSUME NEW t \in Threads, Call(t)' = c,
               pc'[t] = "send" \/ (pc'[t] = "attempt" /\ t[2] = gen'[t[1]])
        PROVE  FALSE
    <2>1. CASE Start(t)
      BY <1>0, <1>3, <2>1 DEF Start, Goto, TypeOK, AtStake, Call
    <2>2. CASE Attempt(t)
      BY <1>0, <1>3, <2>2 DEF Attempt, Goto, Appends, TypeOK, AtStake, Call
    <2>3. CASE ~Start(t) /\ ~Attempt(t)
      <3>1. pc[t] = pc'[t] /\ turn'[t] = turn[t]
        <4>1. ASSUME NEW s \in Threads, Loop(s) \/ Authority(s)
              PROVE  pc[t] = pc'[t] /\ turn'[t] = turn[t]
          BY <1>3, <2>3, <4>1 DEF TypeOK, Loop, Authority, Wake, Enter, Recover, Free,
             Request, Persist, Reconcile, Finish, Sweep, Reserve, Audit, Start,
             Attempt, Send, Outcome, Retry, Abort, Unsure, AppendThen, Goto
        <4> QED BY <4>1 DEF Next, LoseClaim, EndRun
      <3>2. t[2] = gen'[t[1]] => t[2] = gen[t[1]] \/ pc[t] = "idle"
        BY OwnerBefore
      <3> QED BY <1>0, <1>3, <3>1, <3>2 DEF AtStake, Call
    <2> QED BY <2>1, <2>2, <2>3
  <1> QED BY <1>1, <1>2, <1>3 DEF AtStake

(* Calls at stake commit no more than all calls do.                        *)
LEMMA StakeBelowCommitted ==
    ASSUME LedgerInv
    PROVE  /\ AtStake \in SUBSET Calls
           /\ Total(TokensOf, AtStake) \in Nat /\ Total(CostOf, AtStake) \in Nat
           /\ CommittedTokens \in Nat /\ CommittedCost \in Nat
           /\ Total(TokensOf, AtStake) <= CommittedTokens
           /\ Total(CostOf, AtStake) <= CommittedCost
  <1>1. AtStake \in SUBSET Calls /\ Calls \in SUBSET Calls /\ TypeOK
    BY DEF AtStake, LedgerInv
  <1>2. \A c \in Calls : TokensOf[c] \in Nat /\ CostOf[c] \in Nat
    BY <1>1, FeesAreNat DEF TokensOf, CostOf
  <1>3. /\ CommittedTokens = Total(TokensOf, Calls)
        /\ CommittedCost = Total(CostOf, Calls)
    BY <1>1, CommittedIsTotal DEF CommittedTokens, CommittedCost
  <1>4. PICK w, v, S : w = TokensOf /\ v = CostOf /\ S = AtStake
    OBVIOUS
  <1>5. /\ \A c \in Calls : w[c] \in Nat /\ v[c] \in Nat
        /\ \A c \in S : w[c] \in Nat /\ w[c] <= w[c] /\ v[c] \in Nat /\ v[c] <= v[c]
        /\ S \in SUBSET Calls
    BY <1>1, <1>2, <1>4
  <1>6. Total(w, S) \in Nat /\ Total(w, Calls) \in Nat /\ Total(w, S) <= Total(w, Calls)
    BY <1>5, CallsFinite, TotalGrows
  <1>7. Total(v, S) \in Nat /\ Total(v, Calls) \in Nat /\ Total(v, S) <= Total(v, Calls)
    BY <1>5, CallsFinite, TotalGrows
  <1> QED BY <1>1, <1>3, <1>4, <1>6, <1>7

(* Every step keeps what is at stake within the budget: a reservation adds *)
(* its call to less than is committed, no other step adds anything.        *)
LEMMA StepStake ==
    ASSUME LedgerInv, QuotaInv, Answers, StakeFits, Next, LedgerInv', Answers'
    PROVE  StakeFits'
  <1> SUFFICES ASSUME HonestReports
               PROVE  /\ (Total(TokensOf, AtStake))' <= MaxTokens
                      /\ (Total(CostOf, AtStake))' <= MaxCost
    BY DEF StakeFits, HonestReports, Honest
  <1>1. PICK S, T, w, v, x, y :
            /\ S = AtStake /\ w = TokensOf /\ x = CostOf
            /\ T = AtStake' /\ v = TokensOf' /\ y = CostOf'
    OBVIOUS
  <1>2. /\ (Total(TokensOf, AtStake))' = Total(v, T)
        /\ (Total(CostOf, AtStake))' = Total(y, T)
        /\ Total(TokensOf, AtStake) = Total(w, S)
        /\ Total(CostOf, AtStake) = Total(x, S)
    BY <1>1
  <1>3. S \in SUBSET Calls /\ T \in SUBSET Calls /\ IsFiniteSet(S)
    <2>1. S \in SUBSET Calls
      BY <1>1, StakeBelowCommitted
    <2>2. T \in SUBSET Calls
      BY <1>1 DEF AtStake, Exposed
    <2> QED BY <2>1, <2>2, CallsFinite, FS_Subset
  <1>4. /\ Total(w, S) \in Nat /\ Total(x, S) \in Nat
        /\ CommittedTokens \in Nat /\ CommittedCost \in Nat
        /\ Total(w, S) <= CommittedTokens /\ Total(x, S) <= CommittedCost
    BY <1>2, StakeBelowCommitted
  <1>5. \A c \in S : /\ v[c] \in Nat /\ w[c] \in Nat /\ v[c] <= w[c]
                     /\ y[c] \in Nat /\ x[c] \in Nat /\ y[c] <= x[c]
    BY <1>1, FeesFall DEF LedgerInv
  <1>6. MaxTokens \in Nat /\ MaxCost \in Nat
    BY CallConstants
  <1>7. CASE T \subseteq S
    <2>1. \A c \in T : v[c] \in Nat /\ v[c] <= w[c] /\ y[c] \in Nat /\ y[c] <= x[c]
      BY <1>5, <1>7
    <2>2. \A c \in S : w[c] \in Nat /\ x[c] \in Nat
      BY <1>5
    <2>3. Total(v, T) \in Nat /\ Total(v, T) <= Total(w, S)
      BY <1>3, <1>7, <2>1, <2>2, TotalGrows
    <2>4. Total(y, T) \in Nat /\ Total(y, T) <= Total(x, S)
      BY <1>3, <1>7, <2>1, <2>2, TotalGrows
    <2>5. Total(w, S) <= MaxTokens /\ Total(x, S) <= MaxCost
      BY <1>2 DEF StakeFits
    <2> QED BY <1>2, <1>4, <1>6, <2>3, <2>4, <2>5
  <1>8. ASSUME NEW c \in T, c \notin S
        PROVE  Total(v, T) <= MaxTokens /\ Total(y, T) <= MaxCost
    <2>0. PICK t \in Threads :
              /\ Reserve(t) /\ c = Call(t) /\ row[c] = "none" /\ Fits(c)
              /\ row' = [row EXCEPT ![c] = "reserved"] /\ usage' = usage
      BY <1>1, <1>8, StakeShrinks
    <2>1. c \in Calls
      BY <1>3
    <2>2. T \subseteq S \cup {c}
      <3>1. ASSUME NEW d \in T, d \notin S PROVE d = c
        <4>1. PICK u \in Threads : row' = [row EXCEPT ![d] = "reserved"] /\ row[d] = "none"
          BY <1>1, <3>1, StakeShrinks
        <4>2. d \in Calls
          BY <1>3
        <4> QED BY <2>0, <2>1, <4>1, <4>2 DEF LedgerInv, TypeOK
      <3> QED BY <3>1
    <2>3. /\ v[c] = Need(c) /\ y[c] = EstimateCost(InTokens[c[1]], OutTokens)
          /\ v[c] \in Nat /\ y[c] \in Nat
      <3>1. row'[c] = "reserved"
        BY <2>0, <2>1 DEF LedgerInv, TypeOK
      <3>2. v[c] = Tokens(c)' /\ y[c] = Cost(c)'
        BY <1>1, <2>1 DEF TokensOf, CostOf
      <3>3. Tokens(c)' = Need(c) /\ Cost(c)' = EstimateCost(InTokens[c[1]], OutTokens)
        BY <3>1 DEF Tokens, Cost, Active, Need
      <3> QED BY <2>1, <3>2, <3>3, FeesAreNat DEF LedgerInv
    <2>4. /\ CommittedTokens + Need(c) <= MaxTokens
          /\ CommittedCost + EstimateCost(InTokens[c[1]], OutTokens) <= MaxCost
      BY <2>0 DEF Fits
    <2>5. IsFiniteSet(S \cup {c})
      BY <1>3, FS_AddElement
    <2>6. \A d \in S \cup {c} : v[d] \in Nat /\ v[d] <= v[d] /\ y[d] \in Nat /\ y[d] <= y[d]
      BY <1>5, <2>3
    <2>7. /\ Total(v, S \cup {c}) = v[c] + Total(v, S)
          /\ Total(y, S \cup {c}) = y[c] + Total(y, S)
      <3>1. \A d \in S \cup {c} : v[d] \in Nat
        BY <2>6
      <3>2. \A d \in S \cup {c} : y[d] \in Nat
        BY <2>6
      <3> QED BY <1>3, <1>8, <3>1, <3>2, TotalAdds
    <2>8. /\ Total(v, T) \in Nat /\ Total(v, T) <= Total(v, S \cup {c})
          /\ Total(y, T) \in Nat /\ Total(y, T) <= Total(y, S \cup {c})
      <3> DEFINE U == S \cup {c}
      <3>1. T \in SUBSET U /\ IsFiniteSet(U)
        BY <2>2, <2>5
      <3>2. \A d \in U : v[d] \in Nat /\ v[d] <= v[d] /\ y[d] \in Nat /\ y[d] <= y[d]
        BY <2>6
      <3> HIDE DEF U
      <3>3. Total(v, T) \in Nat /\ Total(v, T) <= Total(v, U)
        BY <3>1, <3>2, TotalGrows
      <3>4. Total(y, T) \in Nat /\ Total(y, T) <= Total(y, U)
        BY <3>1, <3>2, TotalGrows
      <3> QED BY <3>3, <3>4 DEF U
    <2>9. /\ Total(v, S) \in Nat /\ Total(v, S) <= Total(w, S)
          /\ Total(y, S) \in Nat /\ Total(y, S) <= Total(x, S)
      <3>1. S \in SUBSET S
        OBVIOUS
      <3>2. Total(v, S) \in Nat /\ Total(v, S) <= Total(w, S)
        BY <1>3, <1>5, <3>1, TotalGrows
      <3>3. Total(y, S) \in Nat /\ Total(y, S) <= Total(x, S)
        BY <1>3, <1>5, <3>1, TotalGrows
      <3> QED BY <3>2, <3>3
    <2>10. Total(v, T) <= MaxTokens
      <3>1. PICK a \in Nat, b \in Nat, e \in Nat, f \in Nat, g \in Nat :
                a = Total(v, T) /\ b = Total(v, S) /\ e = Total(w, S)
                /\ f = CommittedTokens /\ g = Need(c)
        BY <1>4, <2>3, <2>8, <2>9
      <3>2. a <= g + b /\ b <= e /\ e <= f /\ f + g <= MaxTokens
        BY <1>4, <2>3, <2>4, <2>7, <2>8, <2>9, <3>1
      <3>3. a <= MaxTokens
        BY <1>6, <3>2
      <3> QED BY <3>1, <3>3
    <2>11. Total(y, T) <= MaxCost
      <3>1. PICK a \in Nat, b \in Nat, e \in Nat, f \in Nat, g \in Nat :
                a = Total(y, T) /\ b = Total(y, S) /\ e = Total(x, S)
                /\ f = CommittedCost /\ g = EstimateCost(InTokens[c[1]], OutTokens)
        BY <1>4, <2>3, <2>8, <2>9
      <3>2. a <= g + b /\ b <= e /\ e <= f /\ f + g <= MaxCost
        BY <1>4, <2>3, <2>4, <2>7, <2>8, <2>9, <3>1
      <3>3. a <= MaxCost
        BY <1>6, <3>2
      <3> QED BY <3>1, <3>3
    <2> QED BY <2>10, <2>11
  <1> QED BY <1>2, <1>7, <1>8

(* Nothing is at stake at the start.                                       *)
LEMMA InitStake == Init => Answers /\ StakeFits
  <1> SUFFICES ASSUME Init PROVE Answers /\ StakeFits
    OBVIOUS
  <1>1. Answers
    BY DEF Init, Answers, Asking, PreSend
  <1>2. AtStake = {}
    BY DEF Init, AtStake, Billed, Active
  <1>3. ASSUME NEW w PROVE Total(w, {}) = 0
    <2>1. IsFiniteSet({})
      BY FS_EmptySet
    <2>2. PICK F : IsSum(F, w, {}) /\ Total(w, {}) = F[{}]
      BY <2>1, TotalIsSum
    <2> QED BY <2>2 DEF IsSum
  <1> QED BY <1>1, <1>2, <1>3, CallConstants DEF StakeFits

(* What may be billed is at stake.                                         *)
LEMMA StakeCoversBill ==
    ASSUME LedgerInv, StakeFits
    PROVE  WithinBudget
  <1> SUFFICES ASSUME HonestReports
               PROVE  /\ MapThenSumSet(Tokens, Exposed) <= MaxTokens
                      /\ MapThenSumSet(Cost, Exposed) <= MaxCost
    BY DEF WithinBudget, HonestReports
  <1>1. PICK w, v, S, T : w = TokensOf /\ v = CostOf /\ S = Exposed /\ T = AtStake
    OBVIOUS
  <1>2. S \in SUBSET T /\ T \in SUBSET Calls /\ S \in SUBSET Calls /\ IsFiniteSet(T)
    <2>1. S \in SUBSET T /\ T \in SUBSET Calls
      BY <1>1 DEF AtStake, Exposed
    <2> QED BY <2>1, CallsFinite, FS_Subset
  <1>3. \A c \in T : w[c] \in Nat /\ w[c] <= w[c] /\ v[c] \in Nat /\ v[c] <= v[c]
    BY <1>1, <1>2, FeesAreNat DEF TokensOf, CostOf, LedgerInv
  <1>4. /\ Total(w, S) \in Nat /\ Total(w, T) \in Nat /\ Total(w, S) <= Total(w, T)
    BY <1>2, <1>3, TotalGrows
  <1>5. /\ Total(v, S) \in Nat /\ Total(v, T) \in Nat /\ Total(v, S) <= Total(v, T)
    BY <1>2, <1>3, TotalGrows
  <1>6. Total(w, T) <= MaxTokens /\ Total(v, T) <= MaxCost
    BY <1>1 DEF StakeFits
  <1>7. Total(w, S) <= MaxTokens /\ Total(v, S) <= MaxCost
    BY <1>4, <1>5, <1>6, CallConstants
  <1>8. /\ MapThenSumSet(Tokens, Exposed) = Total(w, S)
        /\ MapThenSumSet(Cost, Exposed) = Total(v, S)
    <2>1. Exposed \in SUBSET Calls /\ TypeOK
      BY DEF Exposed, LedgerInv
    <2> QED BY <1>1, <2>1, CommittedIsTotal
  <1> QED BY <1>7, <1>8

(* With a provider that reports no more than was reserved, what it may bill *)
(* for the run stays within the token and the cost budget, on top of the   *)
(* excused calls: for every price card, every set of reports and every     *)
(* number of agents, turns and owners.                                     *)
THEOREM BudgetKept == Spec => []WithinBudget
  <1> DEFINE Inv == QuotaInv /\ Answers /\ StakeFits
  <1>1. LedgerInv /\ LedgerInv' /\ Inv /\ [Next]_vars => Inv'
    <2>1. LedgerInv /\ Inv /\ UNCHANGED vars => Inv'
      BY DEF QuotaInv, AfterAsker, FreeIsSilent, Silent, Covered, BilledKeepsQuota,
         Call, vars, tableVars, logVars, Answers, StakeFits, AtStake, TokensOf, CostOf,
         Tokens, Cost, Spent, Excused, ActiveCalls, HonestReports
    <2>2. LedgerInv /\ LedgerInv' /\ Inv /\ Next => Inv'
      <3> SUFFICES ASSUME LedgerInv, LedgerInv', Inv, Next PROVE Inv'
        OBVIOUS
      <3>1. QuotaInv'
        BY StepAfterAsker, StepFreeIsSilent, StepCovered, StepBilled DEF QuotaInv
      <3>2. Answers'
        BY StepAnswers
      <3>3. StakeFits'
        BY <3>2, StepStake
      <3> QED BY <3>1, <3>2, <3>3
    <2> QED BY <2>1, <2>2
  <1>2. LedgerInv /\ Inv => WithinBudget
    BY StakeCoversBill
  <1>3. Init => Inv
    BY InitLedger, InitStake
  <1> HIDE DEF Inv
  <1> QED BY <1>1, <1>2, <1>3, InitLedger, StepLedger, PTL DEF Spec

=============================================================================
