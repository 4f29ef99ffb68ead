------------------------- MODULE CheckpointsProofs -------------------------
(* Theorems about Checkpoints, for every set of handlers, callers,         *)
(* requests, contents and side-effect levels and every number of turns and *)
(* faults.                                                                 *)
EXTENDS Checkpoints, FiniteSetTheorems, TLAPS

(* What the variables hold.                                               *)
FactTypes == {"run.created", "model.requested", "model.completed", "operation.started",
              "tool.requested", "tool.completed", "tool.failed",
              "operation.completed", "operation.failed", "operation.unknown"}
Data == Contents \cup Levels \cup {None}
Facts == [type : FactTypes, turn : 0 .. MaxTurns, data : Data]
Places == {"idle", "turn", "asked", "act", "started", "run", "succeeded", "failed", "unsure",
           "result", "close", "refused", "closeFailed", "doubt"}
Rows == [state : {"none", "started", "succeeded", "failed", "unsure"}, result : Contents \cup {None}]
Threads == [at : Places, turn : 0 .. MaxTurns, out : Contents \cup {None}]

SourceTypes ==
    /\ log \in Seq(Facts) /\ log # <<>>
    /\ ledger \in [Turns -> Rows]
    /\ ws \in Contents
    /\ world \subseteq Turns
    /\ worker \in [Workers -> Threads]
    /\ holder \in Workers \cup {"nobody", None}

Contracts == [count : Nat, object : Contents \cup {None}, blockers : SUBSET (0 .. MaxTurns)]
Restoring == {"workspace", "restore", "prepare", "assign", "record", "deliver"}
Calls == [at : {"idle"} \cup Creating \cup Restoring, q : Requests \cup {None}, count : Nat,
          object : Contents \cup {None}, kept : BOOLEAN]
ForkFacts == {"run.created", "assignment.created", "checkpoint.restore.committed"}
Forks == [ws : Contents \cup {None}, facts : SUBSET ForkFacts, delivered : BOOLEAN,
          began : Contents \cup {None}]

CallTypes ==
    /\ barrier \in Callers \cup {None}
    /\ objects \in [Contents -> Contents \cup {None, Garbage}]
    /\ contract \in [Requests -> Contracts]
    /\ committed \subseteq Requests
    /\ quiet \in [Requests -> BOOLEAN]
    /\ job \in [Callers -> Calls]
    /\ fork \in [Requests -> Forks]
    /\ faults \in 0 .. MaxFaults

(* What the log and the ledger say of a turn.                              *)
With(type) == TurnsWith(log, {type})
Ended == TurnsWith(log, OperationEnds)
Level(t) == DataOf(log, "operation.started", t)
State(t) == ledger[t].state
Settled == With("operation.completed") \cup With("operation.failed")

(* The tool of a turn may have had its effect.                             *)
Effect(t) ==
    \/ State(t) \in {"succeeded", "failed", "unsure"}
    \/ /\ State(t) = "started"
       /\ \A w \in Workers : worker[w].turn = t => worker[w].at \notin {"started", "run"}

(* Turns whose tool may have written files that the log does not tell of.  *)
Touched == { t \in With("tool.requested") \ Settled :
                Level(t) \in LocalEffects /\ Effect(t) }

(* The turns follow each other; only the last one is open, and it is the   *)
(* holder's.                                                               *)
TurnInv ==
    /\ Ended = 1 .. (Turn - 1)
    /\ \A i \in DOMAIN log : /\ log[i].turn <= Turn
                             /\ log[i].type # "run.created" => log[i].turn \in Turns
    /\ holder \in Workers => /\ worker[holder].at # "idle" /\ worker[holder].turn = Turn
                             /\ Unknown(log) = {}

(* The log and the ledger: what the log says of a turn, the ledger says    *)
(* too, *)
RowOK(t) ==
    /\ t \in With("operation.started") => State(t) # "none"
    /\ t \in With("tool.completed") \cup With("operation.completed") => State(t) = "succeeded"
    /\ t \in With("tool.failed") \cup With("operation.failed") => State(t) = "failed"
    /\ State(t) \in {"succeeded", "failed", "unsure"} => t \in With("tool.requested")
    /\ t \in With("operation.unknown") => t \notin With("tool.completed") \cup With("tool.failed")

(* an operation has one level, and its end the result in the ledger.       *)
OneLevel ==
    \A i, j \in DOMAIN log :
       /\ log[i].type = "operation.started" /\ log[j].type = "operation.started"
       /\ log[i].turn = log[j].turn
       => log[i].data = log[j].data

ResultsKept ==
    \A i \in DOMAIN log : log[i].type \in Results =>
       log[i].data = ledger[log[i].turn].result

LedgerInv ==
    /\ With("tool.requested") \cup Settled \subseteq With("operation.started")
    /\ With("operation.started") \subseteq With("model.requested")
    /\ \A t \in Turns : RowOK(t)
    /\ OneLevel
    /\ ResultsKept

(* A handler knows how far the operation of its turn has come, whether or  *)
(* not it still has the claim; at most one handler runs a given operation. *)
Runners == {"started", "run", "succeeded", "failed", "unsure"}

WorkerOK(w) ==
    LET t == worker[w].turn
        at == worker[w].at IN
    /\ at # "idle" => t \in Turns
    /\ at = "act" => t \in With("model.completed")
    /\ at \in {"asked", "act"} => t \in With("model.requested")
    /\ holder = w /\ at \in {"asked", "act"} => t \notin With("operation.started")
    /\ at \in Runners => State(t) = "started" /\ t \in With("operation.started")
    /\ at \in Runners \ {"started"} => t \in With("tool.requested")
    /\ at \in {"result", "close"} => State(t) = "succeeded"
    /\ at \in {"refused", "closeFailed"} => State(t) = "failed"
    /\ at = "doubt" => State(t) = "unsure"

OneRunner ==
    \A v, w \in Workers : /\ worker[v].at \in Runners /\ worker[w].at \in Runners
                          /\ worker[v].turn = worker[w].turn
                          => v = w

(* The workspace is what the log tells of, unless one tool has run since:  *)
(* then it is what that tool reported.                                     *)
WorkspaceInv ==
    /\ Touched = {} => ws = ContentOf(log)
    /\ \A t \in Touched : Touched = {t} =>
          /\ State(t) \in {"succeeded", "failed"} => ledger[t].result = ws
          /\ \A w \in Workers : worker[w].at \in {"succeeded", "failed"} /\ worker[w].turn = t =>
                                worker[w].out = ws

(* What reached the outside world was requested, may have had its effect   *)
(* and is of no level that stays inside.                                   *)
WorldInv ==
    \A t \in world : /\ t \in With("tool.requested") /\ Effect(t)
                     /\ Level(t) \notin LocalEffects \cup ReadOnly

SourceInv == /\ SourceTypes /\ TurnInv /\ LedgerInv /\ OneRunner /\ WorkspaceInv /\ WorldInv
             /\ \A w \in Workers : WorkerOK(w)

Prefix(n) == SubSeq(log, 1, n)

(* A call: behind its own barrier nobody holds the claim, and the log that *)
(* was read is still the whole log when the files are.                     *)
CallOK(c) ==
    LET q == job[c].q
        n == job[c].count
        at == job[c].at IN
    /\ at # "idle" => q \in Requests
    /\ at \in {"create", "scan"} /\ barrier = c => holder = None
    /\ at = "scan" /\ barrier = c => n = Len(log)
    /\ at \in {"scan", "request"} => n \in 1 .. Len(log) /\ Safe(Prefix(n))
    /\ at = "request" => job[c].object \in Contents
    /\ at = "request" /\ job[c].kept => job[c].object = ContentOf(Prefix(n))
    /\ at = "commit" => contract[q] # NoContract
    /\ at \in Restoring => contract[q] # NoContract /\ contract[q].blockers = {}
    /\ at \in {"prepare", "assign", "record", "deliver"} => fork[q].ws # None

(* A contract fits the prefix it was made of.                              *)
ContractOK(q) ==
    contract[q] # NoContract =>
        /\ contract[q].count \in 1 .. Len(log)
        /\ Safe(Prefix(contract[q].count))
        /\ contract[q].blockers = Blockers(Prefix(contract[q].count))
        /\ contract[q].object \in Contents
        /\ quiet[q] => contract[q].object = ContentOf(Prefix(contract[q].count))

(* A fork has the workspace of its contract until its first turn.          *)
ForkOK(q) ==
    /\ q \in committed => contract[q] # NoContract
    /\ fork[q].ws # None => contract[q] # NoContract
    /\ fork[q].facts # {} => contract[q].blockers = {} /\ fork[q].ws # None
    /\ fork[q].delivered => fork[q].ws # None
    /\ fork[q].ws # None /\ fork[q].began = None => fork[q].ws = contract[q].object
    /\ fork[q].began # None => fork[q].began = contract[q].object /\ fork[q].ws # None

(* The inductive invariant.                                                *)
IInv == /\ SourceInv /\ CallTypes
        /\ \A c \in Callers : CallOK(c)
        /\ \A q \in Requests : ContractOK(q) /\ ForkOK(q)

-----------------------------------------------------------------------------
(* Sets of numbers.                                                        *)
LEMMA SmallestOf ==
    ASSUME NEW T, T \subseteq Nat, T # {}
    PROVE  \E x \in T : \A y \in T : x <= y
  <1> DEFINE R == OpToRel(<, Nat)
  <1>1. \A x, y \in Nat : y < x => <<y, x>> \in R
    BY DEF OpToRel
  <1>2. IsWellFoundedOn(R, Nat)
    BY NatLessThanWellFounded
  <1> HIDE DEF R
  <1>3. PICK x \in T : \A y \in T : ~ (<<y, x>> \in R)
    BY <1>2, WFMin
  <1>4. ASSUME NEW y \in T PROVE x <= y
    <2>1. x \in Nat /\ y \in Nat
      OBVIOUS
    <2>2. ~(y < x)
      BY <1>1, <1>3, <2>1
    <2> QED BY <2>1, <2>2
  <1> QED BY <1>4

(* A nonempty set of numbers up to n has a largest one.                    *)
LEMMA LargestOf ==
    ASSUME NEW n \in Nat, NEW T, T \subseteq 0 .. n, T # {}
    PROVE  \E x \in T : \A y \in T : y <= x
  <1> DEFINE U == { n - y : y \in T }
  <1>1. U \subseteq Nat
    OBVIOUS
  <1>0. U # {}
    OBVIOUS
  <1> HIDE DEF U
  <1>2. PICK z \in U : \A u \in U : z <= u
    BY <1>0, <1>1, SmallestOf
  <1>3. PICK x \in T : z = n - x
    BY DEF U
  <1>4. \A y \in T : n - x <= n - y
    BY <1>2, <1>3 DEF U
  <1>5. \A y \in T : y <= x
    BY <1>4
  <1> QED BY <1>5

-----------------------------------------------------------------------------
(* Reading logs.                                                           *)
LEMMA TurnsWithIs ==
    ASSUME NEW l, NEW T, NEW t
    PROVE  t \in TurnsWith(l, T) <=> \E i \in DOMAIN l : l[i].type \in T /\ l[i].turn = t
  BY DEF TurnsWith

(* What a log says of a turn under a type, when it says one thing.         *)
Tells(l, type, t, d) ==
    /\ \E i \in DOMAIN l : l[i].type = type /\ l[i].turn = t
    /\ \A i \in DOMAIN l : l[i].type = type /\ l[i].turn = t => l[i].data = d

(* A log that says one thing of a turn under a type says it.               *)
LEMMA DataIs ==
    ASSUME NEW l, NEW type, NEW t, NEW d, Tells(l, type, t, d)
    PROVE  DataOf(l, type, t) = d
  <1> DEFINE i == CHOOSE i \in DOMAIN l : l[i].type = type /\ l[i].turn = t
  <1>1. i \in DOMAIN l /\ l[i].type = type /\ l[i].turn = t
    BY DEF Tells
  <1>2. DataOf(l, type, t) = l[i].data
    BY DEF DataOf
  <1> HIDE DEF i
  <1> QED BY <1>1, <1>2 DEF Tells

(* A log keeps its prefixes when a fact is appended.                       *)
LEMMA PrefixKept ==
    ASSUME NEW S, NEW l \in Seq(S), NEW x \in S, NEW n \in 0 .. Len(l)
    PROVE  SubSeq(Append(l, x), 1, n) = SubSeq(l, 1, n)
  OBVIOUS

(* The prefix of full length is the log.                                   *)
LEMMA PrefixWhole ==
    ASSUME NEW S, NEW l \in Seq(S)
    PROVE  SubSeq(l, 1, Len(l)) = l
  OBVIOUS

(* A prefix holds the first facts of the log and no other.                 *)
LEMMA PrefixIn ==
    ASSUME NEW S, NEW l \in Seq(S), NEW n \in 0 .. Len(l)
    PROVE  /\ DOMAIN SubSeq(l, 1, n) = 1 .. n
           /\ \A i \in 1 .. n : i \in DOMAIN l /\ SubSeq(l, 1, n)[i] = l[i]
  OBVIOUS

(* The log after a fact.                                                   *)
LEMMA AppendIs ==
    ASSUME NEW l \in Seq(Facts), NEW f \in Facts
    PROVE  /\ Append(l, f) \in Seq(Facts)
           /\ Append(l, f) # <<>>
           /\ Len(Append(l, f)) = Len(l) + 1
           /\ DOMAIN Append(l, f) = (DOMAIN l) \cup {Len(l) + 1}
           /\ \A i \in DOMAIN l : Append(l, f)[i] = l[i]
           /\ Append(l, f)[Len(l) + 1] = f
  OBVIOUS

(* An appended fact adds its turn to the turns with its type.              *)
LEMMA AppendTurns ==
    ASSUME NEW l \in Seq(Facts), NEW f \in Facts, NEW T
    PROVE  /\ f.type \in T => TurnsWith(Append(l, f), T) = TurnsWith(l, T) \cup {f.turn}
           /\ f.type \notin T => TurnsWith(Append(l, f), T) = TurnsWith(l, T)
  <1> DEFINE k == Append(l, f)
  <1>1. /\ DOMAIN k = (DOMAIN l) \cup {Len(l) + 1}
        /\ \A i \in DOMAIN l : k[i] = l[i]
        /\ k[Len(l) + 1] = f
    BY AppendIs
  <1> HIDE DEF k
  <1>2. \A t : t \in TurnsWith(k, T) <=> \E i \in DOMAIN k : k[i].type \in T /\ k[i].turn = t
    BY TurnsWithIs
  <1>3. \A t : t \in TurnsWith(l, T) <=> \E i \in DOMAIN l : l[i].type \in T /\ l[i].turn = t
    BY TurnsWithIs
  <1>4. \A t : t \in TurnsWith(k, T) <=> t \in TurnsWith(l, T) \/ (f.type \in T /\ t = f.turn)
    BY <1>1, <1>2, <1>3
  <1>5. f.type \in T => TurnsWith(k, T) = TurnsWith(l, T) \cup {f.turn}
    BY <1>4
  <1>6. f.type \notin T => TurnsWith(k, T) = TurnsWith(l, T)
    BY <1>4
  <1> QED BY <1>5, <1>6 DEF k

-----------------------------------------------------------------------------
(* The places of a handler at which its tool's effect is still open.       *)
Undecided == {"started", "run"}

(* The facts a handler records under its claim, each from its own place,   *)
(* and where the handler goes next.                                        *)
Recordable(w, type, d, next) ==
    LET t == worker[w].turn
        at == worker[w].at
    IN  \/ /\ type = "model.requested" /\ at = "turn" /\ t \notin With("model.requested")
           /\ d = None /\ next = "asked"
        \/ type = "model.completed" /\ at = "asked" /\ d \in Levels /\ next = "act"
        \/ type = "tool.requested" /\ at = "started" /\ d = None /\ next = "run"
        \/ /\ type = "tool.completed" /\ at \in {"result", "turn"} /\ State(t) = "succeeded"
           /\ d = None /\ next = "close"
        \/ type = "tool.failed" /\ at = "refused" /\ d = None /\ next = "closeFailed"
        \/ /\ type = "operation.completed" /\ at = "close" /\ d = ledger[t].result
           /\ next = "idle"
        \/ /\ type = "operation.failed" /\ at \in {"closeFailed", "turn"} /\ State(t) = "failed"
           /\ d = ledger[t].result /\ next = "idle"
        \/ /\ type = "operation.unknown" /\ at \in {"doubt", "turn", "act"}
           /\ State(t) \notin {"succeeded", "failed"}
           /\ d = None /\ next = "idle"

Moved(w, next) ==
    worker' = [worker EXCEPT ![w] = IF next = "idle" THEN Resting ELSE [@ EXCEPT !.at = next]]

Noted(w, type, d) == log' = Append(log, Fact(type, worker[w].turn, d))

Record(w, type, d, next) ==
    /\ holder = w /\ Recordable(w, type, d, next)
    /\ Noted(w, type, d) /\ Moved(w, next)
    /\ holder' = IF next = "idle" THEN None ELSE holder
    /\ UNCHANGED <<ledger, ws, world>>

(* or is found without it and rests, *)
Rest(w) ==
    /\ Moved(w, "idle")
    /\ holder' \in {holder, "nobody", None} /\ holder' # w
    /\ holder = None => holder' = None
    /\ UNCHANGED <<log, ledger, ws, world>>

(* or starts an operation, of which the log may not hear.                  *)
Begun(w) == /\ worker[w].at = "act" /\ State(worker[w].turn) = "none"
            /\ ledger' = [ledger EXCEPT ![worker[w].turn].state = "started"]
            /\ UNCHANGED <<ws, world>>

Start(w) == /\ Begun(w) /\ holder = w /\ Moved(w, "started") /\ holder' = holder
            /\ Noted(w, "operation.started", DataOf(log, "model.completed", worker[w].turn))

StartUnheard(w) == /\ Begun(w) /\ holder # w /\ Moved(w, "idle") /\ UNCHANGED <<log, holder>>

Lapse == holder' = None /\ UNCHANGED <<log, ledger, ws, world, worker>>

SourceStep ==
    \/ \E w \in Workers :
          \/ ClaimTurn(w) \/ ResumeTurn(w) \/ SettleLedger(w) \/ Rest(w)
          \/ Start(w) \/ StartUnheard(w)
          \/ \E outcome \in {"succeeded", "failed", "unsure"} : RunTool(w, outcome)
          \/ \E type \in FactTypes, d \in Data, next \in Places : Record(w, type, d, next)
    \/ Lapse
    \/ UNCHANGED source

(* Neither nobody nor a dead process is a worker.                          *)
LEMMA NotWorkers == None \notin Workers /\ "nobody" \notin Workers
  BY CheckpointConstants

(* The fields of a worker's record.                                        *)
LEMMA ThreadType ==
    ASSUME SourceTypes, NEW w \in Workers
    PROVE  /\ worker[w] \in Threads
           /\ worker[w].at \in Places /\ worker[w].turn \in 0 .. MaxTurns
           /\ worker[w].out \in Contents \cup {None}
           /\ worker[w] = [at |-> worker[w].at, turn |-> worker[w].turn, out |-> worker[w].out]
  BY DEF SourceTypes, Threads

(* The fields of a row of the operation ledger.                            *)
LEMMA RowType ==
    ASSUME SourceTypes, NEW t \in Turns
    PROVE  /\ ledger[t] \in Rows
           /\ State(t) \in {"none", "started", "succeeded", "failed", "unsure"}
           /\ ledger[t].result \in Contents \cup {None}
  BY DEF SourceTypes, Rows, State

(* Where a handler is after it moved.                                      *)
LEMMA MovedIs ==
    ASSUME SourceTypes, NEW w \in Workers, NEW next \in Places, Moved(w, next)
    PROVE  /\ worker' \in [Workers -> Threads]
           /\ \A v \in Workers : v # w => worker'[v] = worker[v]
           /\ next = "idle" => worker'[w] = Resting
           /\ next # "idle" => /\ worker'[w].at = next /\ worker'[w].turn = worker[w].turn
                               /\ worker'[w].out = worker[w].out
  <1> DEFINE x == IF next = "idle" THEN Resting ELSE [worker[w] EXCEPT !.at = next]
  <1>1. worker' = [worker EXCEPT ![w] = x]
    BY DEF Moved
  <1>2. worker[w] = [at |-> worker[w].at, turn |-> worker[w].turn, out |-> worker[w].out]
    BY ThreadType
  <1>3. /\ worker[w].turn \in 0 .. MaxTurns
        /\ worker[w].out \in Contents \cup {None}
    BY ThreadType
  <1>4. x \in Threads
    BY <1>2, <1>3, CheckpointConstants DEF Threads, Resting, Places
  <1>5. next # "idle" => x.at = next /\ x.turn = worker[w].turn /\ x.out = worker[w].out
    BY <1>2
  <1>6. next = "idle" => x = Resting
    OBVIOUS
  <1> HIDE DEF x
  <1>7. worker \in [Workers -> Threads]
    BY DEF SourceTypes
  <1>8. worker' \in [Workers -> Threads] /\ worker'[w] = x
    BY <1>1, <1>4, <1>7
  <1>9. \A v \in Workers : v # w => worker'[v] = worker[v]
    BY <1>1, <1>7
  <1> QED BY <1>5, <1>6, <1>8, <1>9

(* The fields of a fact.                                                   *)
LEMMA FactIs ==
    ASSUME NEW type \in FactTypes, NEW t \in 0 .. MaxTurns, NEW d \in Data
    PROVE  /\ Fact(type, t, d) \in Facts
           /\ Fact(type, t, d).type = type /\ Fact(type, t, d).turn = t
           /\ Fact(type, t, d).data = d
  BY DEF Fact, Facts

(* The turns a fact adds to.                                               *)
LEMMA NotedIs ==
    ASSUME SourceTypes, NEW w \in Workers, NEW type \in FactTypes, NEW d \in Data,
           Noted(w, type, d)
    PROVE  /\ log' \in Seq(Facts) /\ log' # <<>>
           /\ DOMAIN log' = (DOMAIN log) \cup {Len(log) + 1}
           /\ \A i \in DOMAIN log : log'[i] = log[i]
           /\ log'[Len(log) + 1].type = type /\ log'[Len(log) + 1].turn = worker[w].turn
           /\ log'[Len(log) + 1].data = d
           /\ \A x : TurnsWith(log', {x}) =
                        IF x = type THEN TurnsWith(log, {x}) \cup {worker[w].turn} ELSE TurnsWith(log, {x})
           /\ Ended' = IF type \in OperationEnds THEN Ended \cup {worker[w].turn} ELSE Ended
  <1> DEFINE t == worker[w].turn
  <1> DEFINE f == Fact(type, t, d)
  <1>0. t \in 0 .. MaxTurns
    BY ThreadType
  <1>1. /\ f \in Facts /\ f.type = type /\ f.turn = t /\ f.data = d
    BY <1>0, FactIs
  <1>2. log' = Append(log, f)
    BY DEF Noted
  <1>3. log \in Seq(Facts)
    BY DEF SourceTypes
  <1> HIDE DEF f
  <1>4. /\ log' \in Seq(Facts) /\ log' # <<>>
        /\ DOMAIN log' = (DOMAIN log) \cup {Len(log) + 1}
        /\ \A i \in DOMAIN log : log'[i] = log[i]
        /\ log'[Len(log) + 1] = f
    BY <1>1, <1>2, <1>3, AppendIs
  <1>5. \A T : /\ type \in T => TurnsWith(log', T) = TurnsWith(log, T) \cup {t}
               /\ type \notin T => TurnsWith(log', T) = TurnsWith(log, T)
    BY <1>1, <1>2, <1>3, AppendTurns
  <1>6. ASSUME NEW x PROVE TurnsWith(log', {x}) =
                        IF x = type THEN TurnsWith(log, {x}) \cup {t} ELSE TurnsWith(log, {x})
    BY <1>5
  <1>7. Ended' = IF type \in OperationEnds THEN Ended \cup {t} ELSE Ended
    BY <1>5 DEF Ended
  <1> QED BY <1>1, <1>4, <1>6, <1>7

-----------------------------------------------------------------------------
(* The turns.                                                              *)
LEMMA FirstTurns ==
    ASSUME NEW n \in Nat PROVE Cardinality(1 .. n) = n
  BY FS_Interval

(* No fact is about a turn that has not begun.                             *)
LEMMA FactTurns ==
    ASSUME SourceTypes, TurnInv, NEW i \in DOMAIN log
    PROVE  /\ log[i].turn \in Nat /\ log[i].turn <= Turn
           /\ log[i].type # "run.created" => log[i].turn \in Turns
  <1>1. log[i] \in Facts
    BY DEF SourceTypes
  <1>2. log[i].turn \in Nat
    BY <1>1 DEF Facts
  <1>3. log[i].turn <= Turn
    BY DEF TurnInv
  <1>4. log[i].type # "run.created" => log[i].turn \in Turns
    BY Zenon DEF TurnInv
  <1> QED BY <1>2, <1>3, <1>4

(* The current turn and the turns with facts are within bounds.            *)
LEMMA TurnType ==
    ASSUME SourceTypes, TurnInv
    PROVE  /\ Turn \in 1 .. MaxTurns + 1
           /\ Ended \subseteq Turns
           /\ \A x \in FactTypes \ {"run.created"} : TurnsWith(log, {x}) \subseteq Turns
           /\ \A x \in OperationEnds : TurnsWith(log, {x}) \subseteq Ended
           /\ Ended = With("operation.completed") \cup With("operation.failed")
                        \cup With("operation.unknown")
  <1>1. MaxTurns \in Nat
    BY CheckpointConstants
  <1>2. ASSUME NEW x \in FactTypes \ {"run.created"}, NEW t \in TurnsWith(log, {x})
        PROVE  t \in Turns
    <2>1. PICK i \in DOMAIN log : log[i].type \in {x} /\ log[i].turn = t
      BY <1>2, TurnsWithIs
    <2>2. log[i].type # "run.created" => log[i].turn \in Turns
      BY FactTurns
    <2> QED BY <2>1, <2>2
  <1>3. \A x \in OperationEnds : TurnsWith(log, {x}) \subseteq Ended
    BY DEF Ended, TurnsWith
  <1>4. Ended \subseteq With("operation.completed") \cup With("operation.failed")
                          \cup With("operation.unknown")
    BY DEF Ended, TurnsWith, With, OperationEnds
  <1>5. Ended = With("operation.completed") \cup With("operation.failed")
                        \cup With("operation.unknown")
    BY <1>3, <1>4 DEF With, OperationEnds
  <1>6. Ended \subseteq Turns
    BY <1>2, <1>5 DEF With, FactTypes
  <1>7. Ended \subseteq 1 .. MaxTurns /\ IsFiniteSet(1 .. MaxTurns)
    BY <1>6, <1>1, FS_Interval DEF Turns
  <1>8. IsFiniteSet(Ended) /\ Cardinality(Ended) <= Cardinality(1 .. MaxTurns)
    BY <1>7, FS_Subset
  <1>9. Cardinality(Ended) \in Nat /\ Cardinality(1 .. MaxTurns) = MaxTurns
    BY <1>8, <1>1, FS_CardinalityType, FirstTurns
  <1>10. Turn \in 1 .. MaxTurns + 1
    BY <1>1, <1>8, <1>9 DEF Turn, Ended
  <1> QED BY <1>2, <1>3, <1>5, <1>6, <1>10

(* A turn is the holder's or has ended.                                    *)
LEMMA TurnFrame ==
    ASSUME SourceTypes, TurnInv, log' = log,
           \/ holder' \notin Workers
           \/ /\ holder' = holder
              /\ \A w \in Workers : w = holder =>
                    worker'[w].at # "idle" /\ worker'[w].turn = worker[w].turn
    PROVE  TurnInv'
  <1>1. Turn' = Turn /\ Ended' = Ended /\ Unknown(log)' = Unknown(log)
    BY DEF Turn, Ended, TurnsWith, Unknown
  <1> QED BY <1>1 DEF TurnInv

(* A worker that claims the run resumes its current turn.                  *)
LEMMA TurnClaimed ==
    ASSUME SourceTypes, TurnInv, log' = log, NEW w \in Workers, holder' = w,
           Unknown(log) = {}, worker'[w].at # "idle", worker'[w].turn = Turn
    PROVE  TurnInv'
  <1>1. Turn' = Turn /\ Ended' = Ended /\ Unknown(log)' = Unknown(log)
    BY DEF Turn, Ended, TurnsWith, Unknown
  <1> QED BY <1>1 DEF TurnInv

(* A fact that does not end the turn leaves the turn as it is.             *)
LEMMA TurnNoted ==
    ASSUME SourceTypes, TurnInv, NEW w \in Workers, NEW type \in FactTypes, NEW d \in Data,
           holder = w, Noted(w, type, d), type \notin OperationEnds \cup {"run.created"},
           worker[w].turn \in Turns,
           holder' = w, worker'[w].at # "idle", worker'[w].turn = worker[w].turn
    PROVE  TurnInv'
  <1> DEFINE t == worker[w].turn
  <1>1. t = Turn /\ Unknown(log) = {} /\ Ended = 1 .. (Turn - 1)
    BY DEF TurnInv
  <1>2. /\ DOMAIN log' = (DOMAIN log) \cup {Len(log) + 1}
        /\ \A i \in DOMAIN log : log'[i] = log[i]
        /\ log'[Len(log) + 1].type = type /\ log'[Len(log) + 1].turn = t
        /\ \A x : TurnsWith(log', {x}) =
                     IF x = type THEN TurnsWith(log, {x}) \cup {t} ELSE TurnsWith(log, {x})
        /\ Ended' = Ended
    <2>1. type \notin OperationEnds
      OBVIOUS
    <2> QED BY <2>1, NotedIs
  <1>3. Turn' = Turn
    BY <1>2 DEF Turn, Ended
  <1>4. Unknown(log)' = {}
    BY <1>1, <1>2 DEF Unknown, OperationEnds
  <1>5. \A i \in DOMAIN log' : /\ log'[i].turn <= Turn
                               /\ log'[i].type # "run.created" => log'[i].turn \in Turns
    <2>1. \A i \in DOMAIN log : /\ log'[i].turn <= Turn
                                /\ log'[i].type # "run.created" => log'[i].turn \in Turns
      BY <1>2, FactTurns
    <2>2. Turn \in Nat
      BY TurnType
    <2> QED BY <1>1, <1>2, <2>1, <2>2
  <1>6. Ended' = 1 .. (Turn' - 1)
    BY <1>1, <1>2, <1>3
  <1> QED BY <1>1, <1>3, <1>4, <1>5, <1>6 DEF TurnInv

(* The fact that ends an operation ends the current turn.                  *)
LEMMA TurnEnded ==
    ASSUME SourceTypes, TurnInv, NEW w \in Workers, NEW type \in OperationEnds, NEW d \in Data,
           holder = w, Noted(w, type, d), worker[w].turn \in Turns, holder' \notin Workers
    PROVE  TurnInv'
  <1> DEFINE t == worker[w].turn
  <1>1. t = Turn /\ Ended = 1 .. (Turn - 1) /\ Turn \in Nat \ {0}
    BY TurnType DEF TurnInv
  <1>2. /\ DOMAIN log' = (DOMAIN log) \cup {Len(log) + 1}
        /\ \A i \in DOMAIN log : log'[i] = log[i]
        /\ log'[Len(log) + 1].turn = t
        /\ Ended' = Ended \cup {t}
    <2>1. type \in FactTypes
      BY DEF OperationEnds, FactTypes
    <2> QED BY <2>1, NotedIs
  <1>3. Ended' = 1 .. Turn
    BY <1>1, <1>2
  <1>4. Turn' = Turn + 1
    <2>1. Turn' = Cardinality(Ended') + 1
      BY DEF Turn, Ended
    <2>2. Cardinality(1 .. Turn) = Turn
      BY <1>1, FirstTurns
    <2> QED BY <2>1, <2>2, <1>3
  <1>5. \A i \in DOMAIN log' : /\ log'[i].turn <= Turn'
                               /\ log'[i].type # "run.created" => log'[i].turn \in Turns
    <2>1. \A i \in DOMAIN log : /\ log'[i].turn <= Turn
                                /\ log'[i].type # "run.created" => log'[i].turn \in Turns
      BY <1>2, FactTurns
    <2>2. \A i \in DOMAIN log : log'[i].turn <= Turn'
      <3>1. \A i \in DOMAIN log : log[i].turn \in Nat
        BY FactTurns
      <3> QED BY <3>1, <2>1, <1>1, <1>2, <1>4
    <2>3. t <= Turn'
      BY <1>1, <1>4
    <2> QED BY <1>1, <1>2, <2>1, <2>2, <2>3
  <1>6. Ended' = 1 .. (Turn' - 1)
    BY <1>1, <1>3, <1>4
  <1> QED BY <1>5, <1>6 DEF TurnInv

-----------------------------------------------------------------------------
(* The ledger.                                                             *)
LEMMA LedgerFrame ==
    ASSUME LedgerInv, log' = log, ledger' = ledger
    PROVE  LedgerInv'
  BY DEF LedgerInv, RowOK, OneLevel, ResultsKept, Settled, With, State, TurnsWith

(* What a handler at its place knows of its turn.                          *)
LEMMA RecordKnows ==
    ASSUME SourceTypes, TurnInv, LedgerInv, NEW w \in Workers, WorkerOK(w),
           NEW type, NEW d, NEW next, Record(w, type, d, next)
    PROVE  LET t == worker[w].turn IN
           /\ t \in Turns /\ t = Turn /\ t \notin Ended
           /\ type \in FactTypes /\ type \notin {"run.created", "operation.started"}
           /\ d \in Data
           /\ type \in OperationEnds <=> next = "idle"
           /\ type = "tool.requested" => t \in With("operation.started") /\ State(t) = "started"
           /\ type \in {"tool.completed", "operation.completed"} => State(t) = "succeeded"
           /\ type \in {"tool.failed", "operation.failed"} => State(t) = "failed"
           /\ type \in Results => d = ledger[t].result
           /\ type = "operation.unknown" => State(t) \notin {"succeeded", "failed"}
  <1> DEFINE t == worker[w].turn
  <1>1. t = Turn /\ worker[w].at # "idle" /\ Ended = 1 .. (Turn - 1)
    BY DEF Record, TurnInv
  <1>2. t \in Turns
    BY <1>1 DEF WorkerOK
  <1>3. t \notin Ended
    BY <1>1, <1>2 DEF Turns
  <1>4. ledger[t].result \in Data
    BY <1>2, RowType DEF Data
  <1>5. /\ type \in FactTypes /\ type \notin {"run.created", "operation.started"}
        /\ d \in Data
        /\ type \in OperationEnds <=> next = "idle"
    BY <1>4 DEF Record, Recordable, FactTypes, OperationEnds, Data
  <1>6. type = "tool.requested" => t \in With("operation.started") /\ State(t) = "started"
    BY DEF Record, Recordable, WorkerOK, Runners
  <1>7. type \in {"tool.completed", "operation.completed"} => State(t) = "succeeded"
    BY DEF Record, Recordable, WorkerOK
  <1>8. type \in {"tool.failed", "operation.failed"} => State(t) = "failed"
    BY DEF Record, Recordable, WorkerOK
  <1>9. /\ type \in Results => d = ledger[t].result
        /\ type = "operation.unknown" => State(t) \notin {"succeeded", "failed"}
    BY DEF Record, Recordable, Results
  <1> QED BY <1>1, <1>2, <1>3, <1>5, <1>6, <1>7, <1>8, <1>9

(* The log and the ledger still agree after a fact is recorded.            *)
LEMMA LedgerRecord ==
    ASSUME SourceTypes, TurnInv, LedgerInv, NEW w \in Workers, WorkerOK(w),
           NEW type, NEW d, NEW next, Record(w, type, d, next)
    PROVE  LedgerInv'
  <1> DEFINE t == worker[w].turn
  <1>1. /\ t \in Turns /\ t = Turn /\ t \notin Ended
        /\ type \in FactTypes /\ type \notin {"run.created", "operation.started"}
        /\ d \in Data
    BY RecordKnows
  <1>2. /\ type = "tool.requested" => t \in With("operation.started") /\ State(t) = "started"
        /\ type \in {"tool.completed", "operation.completed"} => State(t) = "succeeded"
        /\ type \in {"tool.failed", "operation.failed"} => State(t) = "failed"
        /\ type \in Results => d = ledger[t].result
        /\ type = "operation.unknown" => State(t) \notin {"succeeded", "failed"}
    BY RecordKnows
  <1>3. ledger' = ledger /\ Noted(w, type, d)
    BY DEF Record
  <1>4. /\ DOMAIN log' = (DOMAIN log) \cup {Len(log) + 1}
        /\ \A i \in DOMAIN log : log'[i] = log[i]
        /\ log'[Len(log) + 1].type = type /\ log'[Len(log) + 1].turn = t
        /\ log'[Len(log) + 1].data = d
    BY <1>1, <1>3, NotedIs
  <1>5. \A x : TurnsWith(log', {x}) =
                        IF x = type THEN TurnsWith(log, {x}) \cup {t} ELSE TurnsWith(log, {x})
    BY <1>1, <1>3, NotedIs
  <1>6. \A x : With(x)' = IF x = type THEN With(x) \cup {t} ELSE With(x)
    BY <1>5 DEF With
  <1> HIDE DEF t
  <1>7. \A u : State(u)' = State(u)
    BY <1>3 DEF State
  <1>8. /\ With("tool.requested") \cup Settled \subseteq With("operation.started")
        /\ With("operation.started") \subseteq With("model.requested")
        /\ \A u \in Turns : RowOK(u)
    BY DEF LedgerInv
  <1>9. State(t) \in {"succeeded", "failed"} => t \in With("operation.started")
    BY <1>1, <1>8 DEF RowOK
  <1>10. (With("tool.requested") \cup Settled \subseteq With("operation.started"))'
    BY <1>1, <1>2, <1>6, <1>8, <1>9 DEF Settled
  <1>11. (With("operation.started") \subseteq With("model.requested"))'
    BY <1>1, <1>6, <1>8
  <1>12. ASSUME NEW u \in Turns PROVE RowOK(u)'
    <2>1. RowOK(u)
      BY <1>8
    <2>2. CASE u # t
      BY <1>6, <1>7, <2>1, <2>2 DEF RowOK
    <2>3. CASE u = t
      <3>1. t \notin With("operation.unknown")
        BY <1>1, TurnType DEF With, OperationEnds
      <3> QED BY <3>1, <1>1, <1>2, <1>6, <1>7, <2>1, <2>3 DEF RowOK
    <2> QED BY <2>2, <2>3
  <1>13. OneLevel'
    <2>1. OneLevel
      BY DEF LedgerInv
    <2> QED BY <1>1, <1>4, <2>1 DEF OneLevel
  <1>14. ResultsKept'
    <2>1. ResultsKept
      BY DEF LedgerInv
    <2> QED BY <1>2, <1>3, <1>4, <2>1 DEF ResultsKept
  <1> QED BY <1>10, <1>11, <1>12, <1>13, <1>14 DEF LedgerInv

(* The ledger row of an operation that begins.                             *)
LEMMA BegunIs ==
    ASSUME SourceTypes, NEW w \in Workers, worker[w].turn \in Turns, Begun(w)
    PROVE  /\ ledger' \in [Turns -> Rows]
           /\ State(worker[w].turn) = "none" /\ ledger'[worker[w].turn].state = "started"
           /\ \A u \in Turns : /\ u # worker[w].turn => ledger'[u] = ledger[u]
                               /\ ledger'[u].result = ledger[u].result
  <1> DEFINE t == worker[w].turn
             row == [ledger[t] EXCEPT !.state = "started"]
  <1>1. ledger' = [ledger EXCEPT ![t] = row]
    BY DEF Begun
  <1>2. ledger[t] \in Rows
    BY RowType
  <1>3. row \in Rows /\ row.state = "started" /\ row.result = ledger[t].result
    BY <1>2 DEF Rows
  <1>4. ledger \in [Turns -> Rows] /\ t \in Turns
    BY DEF SourceTypes
  <1>5. State(t) = "none"
    BY DEF Begun
  <1> HIDE DEF row, t
  <1>6. ledger' \in [Turns -> Rows] /\ ledger'[t] = row
    BY <1>1, <1>3, <1>4
  <1>7. \A u \in Turns : u # t => ledger'[u] = ledger[u]
    BY <1>1, <1>4
  <1>8. \A u \in Turns : ledger'[u].result = ledger[u].result
    BY <1>3, <1>6, <1>7
  <1>9. ledger'[t].state = "started"
    BY <1>3, <1>6
  <1> QED BY <1>5, <1>6, <1>7, <1>8, <1>9 DEF t

(* What beginning an operation does to the rows of the ledger.             *)
LEMMA StateBegun ==
    ASSUME SourceTypes, NEW w \in Workers, worker[w].turn \in Turns, Begun(w), NEW u \in Turns
    PROVE  /\ u # worker[w].turn => ledger'[u].state = State(u)
           /\ u = worker[w].turn => State(u) = "none" /\ ledger'[u].state = "started"
  BY BegunIs DEF State

(* The same after a row is begun that no fact will tell of.                *)
LEMMA LedgerUnheard ==
    ASSUME SourceTypes, TurnInv, LedgerInv, NEW w \in Workers, WorkerOK(w), StartUnheard(w)
    PROVE  LedgerInv'
  <1> DEFINE t == worker[w].turn
  <1>1. t \in Turns /\ Begun(w) /\ log' = log
    BY DEF StartUnheard, Begun, WorkerOK
  <1>2. \A u \in Turns : /\ u # t => State(u)' = State(u)
                         /\ u = t => State(u) = "none" /\ State(u)' = "started"
                         /\ ledger'[u].result = ledger[u].result
    BY <1>1, StateBegun, BegunIs DEF State
  <1>3. \A x : With(x)' = With(x)
    BY <1>1 DEF With
  <1>4. ASSUME NEW u \in Turns PROVE RowOK(u)'
    <2>1. RowOK(u)
      BY DEF LedgerInv
    <2> QED BY <1>2, <1>3, <2>1 DEF RowOK
  <1>5. OneLevel'
    BY <1>1 DEF LedgerInv, OneLevel
  <1>6. ResultsKept'
    <2>1. ResultsKept
      BY DEF LedgerInv
    <2>2. \A i \in DOMAIN log : log[i].type \in Results => log[i].turn \in Turns
      BY FactTurns DEF Results
    <2> QED BY <1>1, <1>2, <2>1, <2>2 DEF ResultsKept
  <1> QED BY <1>3, <1>4, <1>5, <1>6 DEF LedgerInv, Settled

(* What the handler that starts an operation knows of its turn.            *)
LEMMA StartKnows ==
    ASSUME SourceTypes, TurnInv, LedgerInv, NEW w \in Workers, WorkerOK(w), Start(w)
    PROVE  /\ worker[w].turn \in Turns /\ worker[w].turn = Turn
           /\ worker[w].turn \notin With("operation.started")
           /\ worker[w].turn \in With("model.requested")
           /\ DataOf(log, "model.completed", worker[w].turn) \in Data
  <1> DEFINE t == worker[w].turn
  <1>1. /\ t \in Turns /\ t \notin With("operation.started") /\ t \in With("model.requested")
        /\ t \in With("model.completed")
    BY DEF Start, Begun, WorkerOK
  <1>2. t = Turn
    BY DEF Start, TurnInv
  <1>3. DataOf(log, "model.completed", t) \in Data
    <2> DEFINE i == CHOOSE i \in DOMAIN log : log[i].type = "model.completed" /\ log[i].turn = t
    <2>1. \E k \in DOMAIN log : log[k].type = "model.completed" /\ log[k].turn = t
      BY <1>1, TurnsWithIs DEF With
    <2>2. i \in DOMAIN log
      BY <2>1
    <2>3. log[i] \in Facts
      BY <2>2 DEF SourceTypes
    <2>4. log[i].data \in Data
      BY <2>3 DEF Facts
    <2> QED BY <2>4 DEF DataOf
  <1> QED BY <1>1, <1>2, <1>3

(* The log and the ledger still agree after an operation is started.       *)
LEMMA LedgerStart ==
    ASSUME SourceTypes, TurnInv, LedgerInv, NEW w \in Workers, WorkerOK(w), Start(w)
    PROVE  LedgerInv'
  <1> DEFINE t == worker[w].turn
             d == DataOf(log, "model.completed", t)
  <1>1. /\ t \in Turns /\ t \notin With("operation.started") /\ t \in With("model.requested")
        /\ d \in Data /\ "operation.started" \in FactTypes
    BY StartKnows DEF FactTypes
  <1>2. Begun(w) /\ Noted(w, "operation.started", d)
    BY DEF Start
  <1> HIDE DEF d
  <1>3. \A u \in Turns : /\ u # t => State(u)' = State(u)
                         /\ u = t => State(u) = "none" /\ State(u)' = "started"
                         /\ ledger'[u].result = ledger[u].result
    BY <1>1, <1>2, StateBegun, BegunIs DEF State
  <1>4. /\ DOMAIN log' = (DOMAIN log) \cup {Len(log) + 1}
        /\ \A i \in DOMAIN log : log'[i] = log[i]
        /\ log'[Len(log) + 1].type = "operation.started" /\ log'[Len(log) + 1].turn = t
    BY <1>1, <1>2, NotedIs
  <1>5. \A x : TurnsWith(log', {x}) = IF x = "operation.started" THEN TurnsWith(log, {x}) \cup {t}
                                                                 ELSE TurnsWith(log, {x})
    BY <1>1, <1>2, NotedIs
  <1>6. \A x : With(x)' = IF x = "operation.started" THEN With(x) \cup {t} ELSE With(x)
    BY <1>5 DEF With
  <1> HIDE DEF t
  <1>7. ASSUME NEW u \in Turns PROVE RowOK(u)'
    <2>1. RowOK(u)
      BY DEF LedgerInv
    <2> QED BY <1>3, <1>6, <2>1 DEF RowOK
  <1>8. OneLevel'
    <2>1. OneLevel
      BY DEF LedgerInv
    <2>2. \A i \in DOMAIN log : log[i].type = "operation.started" => log[i].turn # t
      BY <1>1, TurnsWithIs DEF With
    <2> QED BY <1>4, <2>1, <2>2 DEF OneLevel
  <1>9. ResultsKept'
    <2>1. ResultsKept
      BY DEF LedgerInv
    <2>2. \A i \in DOMAIN log : log[i].type \in Results => log[i].turn \in Turns
      BY FactTurns DEF Results
    <2>3. "operation.started" \notin Results
      BY DEF Results
    <2> QED BY <1>3, <1>4, <2>1, <2>2, <2>3 DEF ResultsKept
  <1>10. (/\ With("tool.requested") \cup Settled \subseteq With("operation.started")
          /\ With("operation.started") \subseteq With("model.requested"))'
    <2>1. /\ With("tool.requested") \cup Settled \subseteq With("operation.started")
          /\ With("operation.started") \subseteq With("model.requested")
      BY DEF LedgerInv
    <2> QED BY <1>1, <1>6, <2>1 DEF Settled
  <1> QED BY <1>7, <1>8, <1>9, <1>10 DEF LedgerInv

(* The end of a tool in the ledger.                                        *)
LEMMA SettleIs ==
    ASSUME SourceTypes, NEW w \in Workers, WorkerOK(w), SettleLedger(w)
    PROVE  LET t == worker[w].turn
               at == worker[w].at IN
           /\ t \in Turns /\ at \in {"succeeded", "failed", "unsure"}
           /\ State(t) = "started" /\ t \in With("tool.requested") /\ t \in With("operation.started")
           /\ ledger' \in [Turns -> Rows]
           /\ ledger'[t].state = at /\ ledger'[t].result = worker[w].out
           /\ \A u \in Turns : u # t => ledger'[u] = ledger[u]
           /\ \E next \in Places \ {"idle"} :
                 /\ Moved(w, next)
                 /\ at = "succeeded" => next = "result"
                 /\ at = "failed" => next = "refused"
                 /\ at = "unsure" => next = "doubt"
           /\ UNCHANGED <<log, ws, world, holder>>
  <1> DEFINE t == worker[w].turn
             at == worker[w].at
             row == [state |-> at, result |-> worker[w].out]
  <1>1. /\ at \in {"succeeded", "failed", "unsure"}
        /\ ledger' = [ledger EXCEPT ![t] = row]
        /\ UNCHANGED <<log, ws, world, holder>>
    BY DEF SettleLedger
  <1>2. /\ t \in Turns /\ State(t) = "started" /\ t \in With("tool.requested")
        /\ t \in With("operation.started")
    BY <1>1 DEF WorkerOK, Runners
  <1>3. row \in Rows
    BY <1>1, ThreadType DEF Rows
  <1>4. row.state = at /\ row.result = worker[w].out
    OBVIOUS
  <1>5. ledger \in [Turns -> Rows]
    BY DEF SourceTypes
  <1> HIDE DEF row, t
  <1>6. /\ ledger' \in [Turns -> Rows] /\ ledger'[t] = row
        /\ \A u \in Turns : u # t => ledger'[u] = ledger[u]
    BY <1>1, <1>2, <1>3, <1>5
  <1> DEFINE next == CASE Is(w, "succeeded") -> "result"
                       [] Is(w, "failed") -> "refused"
                       [] Is(w, "unsure") -> "doubt"
  <1>7. /\ at = "succeeded" => next = "result"
        /\ at = "failed" => next = "refused"
        /\ at = "unsure" => next = "doubt"
    BY <1>1 DEF Is
  <1>8. Goto(w, next)
    BY DEF SettleLedger
  <1> HIDE DEF next
  <1>9. next \in Places \ {"idle"}
    BY <1>1, <1>7 DEF Places
  <1>10. Moved(w, next)
    BY <1>8, <1>9 DEF Goto, Moved
  <1> QED BY <1>1, <1>2, <1>4, <1>6, <1>7, <1>9, <1>10 DEF t

(* The log and the ledger still agree after a row is settled.              *)
LEMMA LedgerSettle ==
    ASSUME SourceTypes, TurnInv, LedgerInv, NEW w \in Workers, WorkerOK(w), SettleLedger(w)
    PROVE  LedgerInv'
  <1> DEFINE t == worker[w].turn
             at == worker[w].at
  <1>1. /\ t \in Turns /\ at \in {"succeeded", "failed", "unsure"}
        /\ State(t) = "started" /\ t \in With("tool.requested")
        /\ ledger'[t].state = at
        /\ \A u \in Turns : u # t => ledger'[u] = ledger[u]
        /\ log' = log
    BY SettleIs
  <1>2. \A x : With(x)' = With(x)
    BY <1>1 DEF With
  <1>4. \A u \in Turns : u # t => State(u)' = State(u)
    BY <1>1 DEF State
  <1>5. ASSUME NEW u \in Turns PROVE RowOK(u)'
    <2>1. RowOK(u)
      BY DEF LedgerInv
    <2>2. CASE u # t
      BY <1>2, <1>4, <2>1, <2>2 DEF RowOK
    <2>3. CASE u = t
      <3>1. ledger'[u].state = at
        BY <1>1, <2>3
      <3> QED BY <1>1, <1>2, <3>1, <2>1, <2>3 DEF RowOK, State
    <2> QED BY <2>2, <2>3
  <1>6. OneLevel'
    BY <1>1 DEF LedgerInv, OneLevel
  <1>7. ResultsKept'
    <2>1. ResultsKept /\ RowOK(t)
      BY <1>1 DEF LedgerInv
    <2>2. \A i \in DOMAIN log : log[i].type \in Results => log[i].turn \in Turns
      BY FactTurns DEF Results
    <2>3. t \notin With("operation.completed") /\ t \notin With("operation.failed")
      BY <1>1, <2>1 DEF RowOK
    <2>4. \A i \in DOMAIN log : log[i].type \in Results => log[i].turn # t
      BY <2>3, TurnsWithIs DEF With, Results
    <2> QED BY <1>1, <2>1, <2>2, <2>4 DEF ResultsKept
  <1> QED BY <1>2, <1>5, <1>6, <1>7 DEF LedgerInv, Settled

-----------------------------------------------------------------------------
(* The handlers.                                                           *)
LEMMA WorkerFrame ==
    ASSUME NEW v \in Workers, WorkerOK(v), worker'[v] = worker[v],
           \A x : With(x) \subseteq With(x)',
           holder' = v => holder = v /\ With("operation.started")' = With("operation.started"),
           \A u \in Turns : \/ ledger'[u].state = State(u)
                            \/ State(u) = "none"
                            \/ /\ State(u) = "started"
                               /\ worker[v].at \in Runners => worker[v].turn # u
    PROVE  WorkerOK(v)'
  <1> DEFINE t == worker[v].turn
             at == worker[v].at
  <1>0. /\ at # "idle" => t \in Turns
        /\ at = "act" => t \in With("model.completed")
        /\ at \in {"asked", "act"} => t \in With("model.requested")
        /\ holder = v /\ at \in {"asked", "act"} => t \notin With("operation.started")
        /\ at \in Runners => State(t) = "started" /\ t \in With("operation.started")
        /\ at \in Runners \ {"started"} => t \in With("tool.requested")
        /\ at \in {"result", "close"} => State(t) = "succeeded"
        /\ at \in {"refused", "closeFailed"} => State(t) = "failed"
        /\ at = "doubt" => State(t) = "unsure"
    BY DEF WorkerOK
  <1> HIDE DEF t, at
  <1>1. at # "idle" => t \in Turns
    BY <1>0
  <1>2. at \in Runners => ledger'[t].state = "started"
    BY <1>0 DEF Runners, t, at
  <1>3. /\ at \in {"result", "close"} => ledger'[t].state = "succeeded"
        /\ at \in {"refused", "closeFailed"} => ledger'[t].state = "failed"
        /\ at = "doubt" => ledger'[t].state = "unsure"
    BY <1>0
  <1>4. /\ at = "act" => t \in With("model.completed")'
        /\ at \in {"asked", "act"} => t \in With("model.requested")'
        /\ at \in Runners => t \in With("operation.started")'
        /\ at \in Runners \ {"started"} => t \in With("tool.requested")'
    BY <1>0
  <1>5. holder' = v /\ at \in {"asked", "act"} => t \notin With("operation.started")'
    BY <1>0
  <1>6. worker'[v].turn = t /\ worker'[v].at = at
    BY DEF t, at
  <1> QED BY <1>1, <1>2, <1>3, <1>4, <1>5, <1>6 DEF WorkerOK, State

(* A worker at rest owes nothing.                                          *)
LEMMA WorkerResting ==
    ASSUME NEW w \in Workers, worker'[w] = Resting PROVE WorkerOK(w)'
  BY DEF WorkerOK, Resting, Runners

(* A step that starts no tool leaves at most one runner for each operation. *)
LEMMA RunnerFrame ==
    ASSUME OneRunner,
           \A v \in Workers : worker'[v].at \in Runners =>
              worker[v].at \in Runners /\ worker'[v].turn = worker[v].turn
    PROVE  OneRunner'
  BY DEF OneRunner

(* The workers after one of them stops.                                    *)
LEMMA WorkersRest ==
    ASSUME SourceTypes, OneRunner, \A v \in Workers : WorkerOK(v), NEW w \in Workers, Rest(w)
    PROVE  OneRunner' /\ \A v \in Workers : WorkerOK(v)'
  <1>1. log' = log /\ ledger' = ledger /\ Moved(w, "idle")
    BY DEF Rest
  <1>2. worker'[w] = Resting /\ \A v \in Workers : v # w => worker'[v] = worker[v]
    BY <1>1, MovedIs DEF Places
  <1>3. \A x : With(x) \subseteq With(x)' /\ With(x)' = With(x)
    BY <1>1 DEF With
  <1>4. \A u \in Turns : ledger'[u].state = State(u)
    BY <1>1 DEF State
  <1>5. ASSUME NEW v \in Workers, v # w PROVE WorkerOK(v)'
    <2>1. holder' = v => holder = v
      BY NotWorkers DEF Rest
    <2> QED BY <1>2, <1>3, <1>4, <1>5, <2>1, WorkerFrame
  <1>6. WorkerOK(w)'
    BY <1>2, WorkerResting
  <1>7. OneRunner'
    BY <1>2, RunnerFrame DEF Resting, Runners
  <1> QED BY <1>5, <1>6, <1>7

(* The workers after the claim is lost.                                    *)
LEMMA WorkersLapse ==
    ASSUME OneRunner, \A v \in Workers : WorkerOK(v), Lapse
    PROVE  OneRunner' /\ \A v \in Workers : WorkerOK(v)'
  <1>1. log' = log /\ ledger' = ledger /\ worker' = worker /\ holder' \notin Workers
    BY NotWorkers DEF Lapse
  <1>2. \A x : With(x) \subseteq With(x)' /\ With(x)' = With(x)
    BY <1>1 DEF With
  <1>3. \A u \in Turns : ledger'[u].state = State(u)
    BY <1>1 DEF State
  <1>4. ASSUME NEW v \in Workers PROVE WorkerOK(v)'
    BY <1>1, <1>2, <1>3, WorkerFrame
  <1> QED BY <1>1, <1>4 DEF OneRunner

(* The workers after one of them claims the run.                           *)
LEMMA WorkersClaim ==
    ASSUME SourceTypes, TurnInv, OneRunner, \A v \in Workers : WorkerOK(v), NEW w \in Workers,
           ClaimTurn(w)
    PROVE  /\ OneRunner' /\ \A v \in Workers : WorkerOK(v)'
           /\ worker' \in [Workers -> Threads]
           /\ worker'[w].at = "turn" /\ worker'[w].turn = Turn
           /\ \A v \in Workers : v # w => worker'[v] = worker[v]
  <1> DEFINE x == [Resting EXCEPT !.at = "turn", !.turn = Turn]
  <1>1. log' = log /\ ledger' = ledger /\ worker' = [worker EXCEPT ![w] = x] /\ holder' = w
    BY DEF ClaimTurn
  <1>2. Turn \in Turns
    BY TurnType, CheckpointConstants DEF ClaimTurn, Admitted, Pending, Turns
  <1>3. x \in Threads /\ x.at = "turn" /\ x.turn = Turn
    <2>1. x \in [at : {"turn"}, turn : {Turn}, out : {None}]
      BY DEF Resting
    <2>2. Turn \in 0 .. MaxTurns
      BY <1>2 DEF Turns
    <2> QED BY <2>1, <2>2 DEF Threads, Places
  <1>4. worker \in [Workers -> Threads]
    BY DEF SourceTypes
  <1> HIDE DEF x
  <1>5. /\ worker' \in [Workers -> Threads] /\ worker'[w] = x
        /\ \A v \in Workers : v # w => worker'[v] = worker[v]
    BY <1>1, <1>3, <1>4
  <1>6. \A y : With(y) \subseteq With(y)' /\ With(y)' = With(y)
    BY <1>1 DEF With
  <1>7. \A u \in Turns : ledger'[u].state = State(u)
    BY <1>1 DEF State
  <1>8. ASSUME NEW v \in Workers, v # w PROVE WorkerOK(v)'
    BY <1>1, <1>5, <1>6, <1>7, <1>8, WorkerFrame
  <1>9. WorkerOK(w)'
    BY <1>2, <1>3, <1>5 DEF WorkerOK, Runners
  <1>10. OneRunner'
    BY <1>3, <1>5, RunnerFrame DEF Runners
  <1> QED BY <1>3, <1>5, <1>8, <1>9, <1>10

(* A worker that resumes a turn goes where its log says the turn stopped.  *)
LEMMA ResumeIs ==
    ASSUME NEW w \in Workers, ResumeTurn(w)
    PROVE  /\ \E next \in {"act", "asked"} : Moved(w, next) /\ (next = "act" => Has(w, "model.completed"))
           /\ worker[w].at = "turn" /\ Has(w, "model.requested") /\ ~Has(w, "operation.started")
           /\ UNCHANGED <<log, ledger, ws, world, holder>>
  BY DEF ResumeTurn, Goto, Moved, Is

(* The workers after one of them resumes a turn.                           *)
LEMMA WorkersResume ==
    ASSUME SourceTypes, OneRunner, \A v \in Workers : WorkerOK(v), NEW w \in Workers,
           ResumeTurn(w)
    PROVE  OneRunner' /\ \A v \in Workers : WorkerOK(v)'
  <1>1. PICK next \in {"act", "asked"} : Moved(w, next) /\ (next = "act" => Has(w, "model.completed"))
    BY ResumeIs
  <1>2. /\ worker[w].at = "turn" /\ Has(w, "model.requested") /\ ~Has(w, "operation.started")
        /\ log' = log /\ ledger' = ledger /\ holder' = holder
    BY ResumeIs
  <1>3. /\ worker'[w].at = next /\ worker'[w].turn = worker[w].turn
        /\ \A v \in Workers : v # w => worker'[v] = worker[v]
    BY <1>1, MovedIs DEF Places
  <1>4. \A x : With(x) \subseteq With(x)' /\ With(x)' = With(x)
    BY <1>2 DEF With
  <1>5. \A u \in Turns : ledger'[u].state = State(u)
    BY <1>2 DEF State
  <1>6. ASSUME NEW v \in Workers, v # w PROVE WorkerOK(v)'
    BY <1>2, <1>3, <1>4, <1>5, <1>6, WorkerFrame
  <1>7. WorkerOK(w)'
    <2>1. worker[w].turn \in Turns
      BY <1>2 DEF WorkerOK
    <2>2. /\ worker[w].turn \in With("model.requested")
          /\ worker[w].turn \notin With("operation.started")
          /\ next = "act" => worker[w].turn \in With("model.completed")
      BY <1>1, <1>2 DEF Has, With
    <2> QED BY <1>1, <1>3, <1>4, <2>1, <2>2 DEF WorkerOK, Runners
  <1>8. OneRunner'
    BY <1>1, <1>3, RunnerFrame DEF Runners
  <1> QED BY <1>6, <1>7, <1>8

(* The workers after one of them records a fact.                           *)
LEMMA WorkersRecord ==
    ASSUME SourceTypes, TurnInv, LedgerInv, OneRunner, \A v \in Workers : WorkerOK(v),
           NEW w \in Workers, NEW type, NEW d, NEW next \in Places, Record(w, type, d, next)
    PROVE  OneRunner' /\ \A v \in Workers : WorkerOK(v)'
  <1> DEFINE t == worker[w].turn
  <1>1. /\ t \in Turns
        /\ type \in FactTypes /\ type \notin {"run.created", "operation.started"}
        /\ d \in Data
        /\ type = "tool.requested" => t \in With("operation.started") /\ State(t) = "started"
        /\ type \in {"tool.completed", "operation.completed"} => State(t) = "succeeded"
        /\ type \in {"tool.failed", "operation.failed"} => State(t) = "failed"
    BY RecordKnows
  <1>2. /\ ledger' = ledger /\ Noted(w, type, d) /\ Moved(w, next) /\ holder = w
        /\ holder' = IF next = "idle" THEN None ELSE holder
    BY DEF Record
  <1>3. \A x : TurnsWith(log', {x}) =
                        IF x = type THEN TurnsWith(log, {x}) \cup {t} ELSE TurnsWith(log, {x})
    BY <1>1, <1>2, NotedIs
  <1>4. \A x : With(x)' = IF x = type THEN With(x) \cup {t} ELSE With(x)
    BY <1>3 DEF With
  <1>5. /\ next = "idle" => worker'[w] = Resting
        /\ next # "idle" => worker'[w].at = next /\ worker'[w].turn = t
        /\ \A v \in Workers : v # w => worker'[v] = worker[v]
    BY <1>2, MovedIs
  <1>6. \A u \in Turns : ledger'[u].state = State(u)
    BY <1>2 DEF State
  <1>7. ASSUME NEW v \in Workers, v # w PROVE WorkerOK(v)'
    <2>1. holder' # v
      BY <1>2, <1>7, NotWorkers
    <2>2. \A x : With(x) \subseteq With(x)'
      BY <1>4
    <2> QED BY <1>5, <1>6, <1>7, <2>1, <2>2, WorkerFrame
  <1>8. WorkerOK(w)'
    <2>1. CASE next = "idle"
      BY <1>5, <2>1, WorkerResting
    <2>2. CASE next # "idle"
      <3>1. Recordable(w, type, d, next) /\ WorkerOK(w)
        BY DEF Record
      <3>2. worker'[w].at = next /\ worker'[w].turn = t /\ ledger'[t].state = State(t)
        BY <1>1, <1>5, <1>6, <2>2
      <3>3. t \in With("operation.started") => t \in With("model.requested")
        BY DEF LedgerInv
      <3>4. /\ next \in {"asked", "act"} => t \in With("model.requested")'
            /\ next = "act" => t \in With("model.completed")'
            /\ next \in {"asked", "act"} => t \notin With("operation.started")'
        BY <1>1, <1>2, <1>4, <2>2, <3>1, <3>3 DEF Recordable, WorkerOK
      <3>5. next = "run" => /\ State(t) = "started" /\ t \in With("operation.started")'
                            /\ t \in With("tool.requested")'
        BY <1>1, <1>4, <2>2, <3>1 DEF Recordable
      <3>6. /\ next = "close" => State(t) = "succeeded"
            /\ next = "closeFailed" => State(t) = "failed"
            /\ next \in {"asked", "act", "run", "close", "closeFailed"}
        BY <1>1, <2>2, <3>1 DEF Recordable
      <3> HIDE DEF t
      <3> QED BY <1>1, <3>2, <3>4, <3>5, <3>6 DEF WorkerOK, Runners, State
    <2> QED BY <2>1, <2>2
  <1>9. OneRunner'
    <2>1. next \in Runners => worker[w].at \in Runners
      BY DEF Record, Recordable, Runners
    <2> QED BY <1>5, <2>1, RunnerFrame DEF Resting, Runners
  <1> QED BY <1>7, <1>8, <1>9

(* The workers after one of them starts an operation: no other runs it.    *)
LEMMA WorkersStart ==
    ASSUME SourceTypes, TurnInv, LedgerInv, OneRunner, \A v \in Workers : WorkerOK(v),
           NEW w \in Workers, Start(w)
    PROVE  OneRunner' /\ \A v \in Workers : WorkerOK(v)'
  <1> DEFINE t == worker[w].turn
             d == DataOf(log, "model.completed", t)
  <1>1. t \in Turns /\ d \in Data /\ "operation.started" \in FactTypes
    BY StartKnows DEF FactTypes
  <1>2. /\ Begun(w) /\ Noted(w, "operation.started", d) /\ Moved(w, "started") /\ holder = w
        /\ holder' = w
    BY DEF Start
  <1> HIDE DEF d
  <1>3. \A x : TurnsWith(log', {x}) = IF x = "operation.started" THEN TurnsWith(log, {x}) \cup {t}
                                                                 ELSE TurnsWith(log, {x})
    BY <1>1, <1>2, NotedIs
  <1>4. \A x : With(x)' = IF x = "operation.started" THEN With(x) \cup {t} ELSE With(x)
    BY <1>3 DEF With
  <1>5. /\ worker'[w].at = "started" /\ worker'[w].turn = t
        /\ \A v \in Workers : v # w => worker'[v] = worker[v]
    BY <1>2, MovedIs DEF Places
  <1>6. \A u \in Turns : /\ u # t => ledger'[u].state = State(u)
                         /\ u = t => State(u) = "none" /\ ledger'[u].state = "started"
    BY <1>1, <1>2, StateBegun
  <1> HIDE DEF t
  <1>7. ASSUME NEW v \in Workers, v # w PROVE WorkerOK(v)'
    <2>1. holder' # v
      BY <1>2, <1>7
    <2>2. \A x : With(x) \subseteq With(x)'
      BY <1>4
    <2> QED BY <1>5, <1>6, <1>7, <2>1, <2>2, WorkerFrame
  <1>8. WorkerOK(w)'
    BY <1>1, <1>4, <1>5, <1>6 DEF WorkerOK, Runners, State
  <1>9. OneRunner'
    <2>1. \A v \in Workers : v # w /\ worker[v].at \in Runners => worker[v].turn # t
      BY <1>1, <1>6 DEF WorkerOK
    <2> QED BY <1>5, <2>1 DEF OneRunner
  <1> QED BY <1>7, <1>8, <1>9

(* The workers after one of them begins a row and is not heard again.      *)
LEMMA WorkersUnheard ==
    ASSUME SourceTypes, OneRunner, \A v \in Workers : WorkerOK(v), NEW w \in Workers,
           StartUnheard(w)
    PROVE  OneRunner' /\ \A v \in Workers : WorkerOK(v)'
  <1> DEFINE t == worker[w].turn
  <1>1. t \in Turns /\ Begun(w) /\ log' = log /\ holder' = holder /\ Moved(w, "idle")
    BY DEF StartUnheard, Begun, WorkerOK
  <1>2. \A x : With(x) \subseteq With(x)' /\ With(x)' = With(x)
    BY <1>1 DEF With
  <1>3. /\ worker'[w] = Resting
        /\ \A v \in Workers : v # w => worker'[v] = worker[v]
    BY <1>1, MovedIs DEF Places
  <1>4. \A u \in Turns : /\ u # t => ledger'[u].state = State(u)
                         /\ u = t => State(u) = "none"
    BY <1>1, StateBegun
  <1> HIDE DEF t
  <1>5. ASSUME NEW v \in Workers, v # w PROVE WorkerOK(v)'
    BY <1>1, <1>2, <1>3, <1>4, <1>5, WorkerFrame
  <1>6. WorkerOK(w)'
    BY <1>3, WorkerResting
  <1>7. OneRunner'
    BY <1>3, RunnerFrame DEF Resting, Runners
  <1> QED BY <1>5, <1>6, <1>7

(* A tool run by any handler, with the claim or without.                   *)
LEMMA RunIs ==
    ASSUME SourceTypes, NEW w \in Workers, WorkerOK(w),
           NEW outcome \in {"succeeded", "failed", "unsure"}, RunTool(w, outcome)
    PROVE  /\ worker[w].at = "run" /\ worker[w].turn \in Turns
           /\ worker' \in [Workers -> Threads]
           /\ worker'[w].at = outcome /\ worker'[w].turn = worker[w].turn
           /\ worker'[w].out = ws' /\ ws' \in Contents
           /\ \A v \in Workers : v # w => worker'[v] = worker[v]
           /\ ws' # ws => Level(worker[w].turn) \in LocalEffects
           /\ \/ world' = world
              \/ /\ Level(worker[w].turn) \notin LocalEffects \cup ReadOnly
                 /\ world' = world \cup {worker[w].turn}
           /\ UNCHANGED <<log, ledger, holder>>
  <1> DEFINE t == worker[w].turn
             level == DataOf(log, "operation.started", t)
             S == IF level \in LocalEffects THEN Contents ELSE {ws}
  <1>1. worker[w].at = "run" /\ UNCHANGED <<log, ledger, holder>>
    BY DEF RunTool, Is
  <1>2. PICK o \in S : /\ ws' = o
                       /\ worker' = [worker EXCEPT ![w].at = outcome, ![w].out = o]
    BY DEF RunTool
  <1>3. \/ world' = world
        \/ /\ level \notin LocalEffects \cup ReadOnly
           /\ world' = world \cup {t}
    BY DEF RunTool
  <1>4. o \in Contents /\ (o # ws => level \in LocalEffects)
    BY DEF SourceTypes
  <1>5. t \in Turns
    BY <1>1 DEF WorkerOK
  <1> DEFINE x == [worker[w] EXCEPT !.at = outcome, !.out = o]
  <1>6. worker' = [worker EXCEPT ![w] = x]
    BY <1>2
  <1>7. x \in [at : {outcome}, turn : {t}, out : {o}]
    <2>1. worker[w] \in [at : Places, turn : {t}, out : Contents \cup {None}]
      BY ThreadType DEF Threads
    <2> HIDE DEF t
    <2> QED BY <2>1
  <1>8. t \in 0 .. MaxTurns
    BY ThreadType
  <1> HIDE DEF S, t, level
  <1>9. x \in Threads
    BY <1>4, <1>7, <1>8 DEF Threads, Places
  <1>10. x.at = outcome /\ x.turn = t /\ x.out = o
    BY <1>7
  <1> HIDE DEF x
  <1>11. worker \in [Workers -> Threads]
    BY DEF SourceTypes
  <1>12. /\ worker' \in [Workers -> Threads] /\ worker'[w] = x
         /\ \A v \in Workers : v # w => worker'[v] = worker[v]
    BY <1>6, <1>9, <1>11
  <1> QED BY <1>1, <1>2, <1>3, <1>4, <1>5, <1>10, <1>12 DEF t, level, Level

(* The workers after a tool has run.                                       *)
LEMMA WorkersRun ==
    ASSUME SourceTypes, OneRunner, \A v \in Workers : WorkerOK(v), NEW w \in Workers,
           NEW outcome \in {"succeeded", "failed", "unsure"}, RunTool(w, outcome)
    PROVE  OneRunner' /\ \A v \in Workers : WorkerOK(v)'
  <1>1. /\ worker[w].at = "run"
        /\ worker'[w].at = outcome /\ worker'[w].turn = worker[w].turn
        /\ \A v \in Workers : v # w => worker'[v] = worker[v]
        /\ log' = log /\ ledger' = ledger /\ holder' = holder
    BY RunIs
  <1>2. \A x : With(x) \subseteq With(x)' /\ With(x)' = With(x)
    BY <1>1 DEF With
  <1>3. \A u \in Turns : ledger'[u].state = State(u)
    BY <1>1 DEF State
  <1>4. ASSUME NEW v \in Workers, v # w PROVE WorkerOK(v)'
    BY <1>1, <1>2, <1>3, <1>4, WorkerFrame
  <1>5. WorkerOK(w)'
    <2>1. WorkerOK(w)
      OBVIOUS
    <2>2. /\ worker[w].turn \in Turns /\ State(worker[w].turn) = "started"
          /\ worker[w].turn \in With("operation.started")
          /\ worker[w].turn \in With("tool.requested")
      BY <1>1, <2>1 DEF WorkerOK, Runners
    <2>3. ledger'[worker[w].turn].state = "started"
      BY <1>3, <2>2
    <2> QED BY <1>1, <1>2, <2>2, <2>3 DEF WorkerOK, Runners, State
  <1>6. OneRunner'
    BY <1>1, RunnerFrame DEF Runners
  <1> QED BY <1>4, <1>5, <1>6

(* The workers after a row is settled.                                     *)
LEMMA WorkersSettle ==
    ASSUME SourceTypes, OneRunner, \A v \in Workers : WorkerOK(v), NEW w \in Workers,
           SettleLedger(w)
    PROVE  OneRunner' /\ \A v \in Workers : WorkerOK(v)'
  <1> DEFINE t == worker[w].turn
             at == worker[w].at
  <1>1. /\ t \in Turns /\ at \in {"succeeded", "failed", "unsure"}
        /\ State(t) = "started"
        /\ ledger'[t].state = at
        /\ \A u \in Turns : u # t => ledger'[u] = ledger[u]
        /\ log' = log /\ holder' = holder
    BY SettleIs
  <1>2. PICK next \in Places \ {"idle"} :
                 /\ Moved(w, next)
                 /\ at = "succeeded" => next = "result"
                 /\ at = "failed" => next = "refused"
                 /\ at = "unsure" => next = "doubt"
    BY SettleIs
  <1>3. /\ worker'[w].at = next /\ worker'[w].turn = t
        /\ \A v \in Workers : v # w => worker'[v] = worker[v]
    BY <1>2, MovedIs
  <1>4. \A x : With(x) \subseteq With(x)' /\ With(x)' = With(x)
    BY <1>1 DEF With
  <1>5. \A u \in Turns : u # t => ledger'[u].state = State(u)
    BY <1>1 DEF State
  <1>6. \A v \in Workers : v # w /\ worker[v].at \in Runners => worker[v].turn # t
    BY <1>1 DEF OneRunner, Runners
  <1> HIDE DEF t, at
  <1>7. ASSUME NEW v \in Workers, v # w PROVE WorkerOK(v)'
    BY <1>1, <1>3, <1>4, <1>5, <1>6, <1>7, WorkerFrame
  <1>8. WorkerOK(w)'
    BY <1>1, <1>2, <1>3 DEF WorkerOK, Runners, State
  <1>9. OneRunner'
    BY <1>1, <1>2, <1>3, RunnerFrame DEF Runners
  <1> QED BY <1>7, <1>8, <1>9

-----------------------------------------------------------------------------
(* The workspace the log tells of.                                         *)
Writes(l) == { t \in TurnsWith(l, Results) :
                  DataOf(l, "operation.started", t) \in LocalEffects }

(* A log without a write stands for the fixture.                           *)
LEMMA ContentNone ==
    ASSUME NEW l, Writes(l) = {} PROVE ContentOf(l) = Fixture
  BY DEF ContentOf, Writes

LastWrite(l, m, r) ==
    /\ m \in Writes(l) /\ Writes(l) \subseteq Nat /\ \A u \in Writes(l) : u <= m
    /\ \A i \in DOMAIN l : l[i].type \in Results /\ l[i].turn = m => l[i].data = r

(* A log stands for the result of its last write.                          *)
LEMMA ContentIs ==
    ASSUME NEW l, NEW m, NEW r, LastWrite(l, m, r)
    PROVE  ContentOf(l) = r
  <1> DEFINE c == CHOOSE t \in Writes(l) : \A u \in Writes(l) : u <= t
  <1>1. c \in Writes(l) /\ \A u \in Writes(l) : u <= c
    BY DEF LastWrite
  <1>2. ContentOf(l) = ResultOf(l, c)
    BY DEF ContentOf, Writes, LastWrite
  <1> HIDE DEF c
  <1>3. c = m
    BY <1>1 DEF LastWrite
  <1>4. m \in TurnsWith(l, Results)
    BY DEF Writes, LastWrite
  <1>5. \E i \in DOMAIN l : l[i].type \in Results /\ l[i].turn = m
    BY <1>4, TurnsWithIs
  <1>6. ResultOf(l, m) = r
    <2> DEFINE i == CHOOSE i \in DOMAIN l : l[i].type \in Results /\ l[i].turn = m
    <2>1. i \in DOMAIN l /\ l[i].type \in Results /\ l[i].turn = m
      BY <1>5
    <2>2. ResultOf(l, m) = l[i].data
      BY DEF ResultOf
    <2> HIDE DEF i
    <2> QED BY <2>1, <2>2 DEF LastWrite
  <1> QED BY <1>2, <1>3, <1>6

(* The settled turns are those with a result.                              *)
LEMMA SettledIs ==
    ASSUME NEW l
    PROVE  TurnsWith(l, Results) = TurnsWith(l, {"operation.completed"})
                                     \cup TurnsWith(l, {"operation.failed"})
  BY DEF TurnsWith, Results

(* The level of an operation is the one its start recorded.                *)
LEMMA LevelIs ==
    ASSUME OneLevel, NEW i \in DOMAIN log, log[i].type = "operation.started"
    PROVE  Level(log[i].turn) = log[i].data
  <1> DEFINE t == log[i].turn
             d == log[i].data
  <1>1. \A j \in DOMAIN log : log[j].type = "operation.started" /\ log[j].turn = t =>
              log[j].data = d
    BY DEF OneLevel
  <1>2. \E j \in DOMAIN log : log[j].type = "operation.started" /\ log[j].turn = t
    OBVIOUS
  <1> HIDE DEF t, d
  <1>3. DataOf(log, "operation.started", t) = d
    <2>1. Tells(log, "operation.started", t, d)
      BY <1>1, <1>2 DEF Tells
    <2> QED BY <2>1, DataIs
  <1> QED BY <1>3 DEF Level, t, d

(* A log that only grows keeps the levels.                                 *)
Extended == DOMAIN log \subseteq DOMAIN log' /\ \A i \in DOMAIN log : log'[i] = log[i]

(* The level of a started operation stays what it is.                      *)
LEMMA LevelKept ==
    ASSUME OneLevel, OneLevel', Extended, NEW t \in With("operation.started")
    PROVE  DataOf(log', "operation.started", t) = Level(t)
  <1>1. PICK i \in DOMAIN log : log[i].type \in {"operation.started"} /\ log[i].turn = t
    BY TurnsWithIs DEF With
  <1>2. Level(t) = log[i].data
    BY <1>1, LevelIs
  <1>3. i \in DOMAIN log' /\ log'[i] = log[i]
    BY <1>1 DEF Extended
  <1>4. \A j \in DOMAIN log' : log'[j].type = "operation.started" /\ log'[j].turn = t =>
              log'[j].data = log[i].data
    BY <1>1, <1>3 DEF OneLevel
  <1>5. \E j \in DOMAIN log' : log'[j].type = "operation.started" /\ log'[j].turn = t
    BY <1>1, <1>3
  <1>6. Tells(log', "operation.started", t, log[i].data)
    BY <1>4, <1>5 DEF Tells
  <1> QED BY <1>2, <1>6, DataIs

(* The writes of the log are turns that ended.                             *)
LEMMA WritesIn ==
    ASSUME SourceTypes, TurnInv, LedgerInv
    PROVE  /\ Writes(log) \subseteq Ended /\ Writes(log) \subseteq 0 .. MaxTurns
           /\ Writes(log) = { t \in Settled : Level(t) \in LocalEffects }
           /\ Writes(log) \subseteq With("operation.started")
  <1>1. Writes(log) = { t \in Settled : Level(t) \in LocalEffects }
    BY SettledIs DEF Writes, Level, Settled, With
  <1>2. Settled \subseteq Ended /\ Ended \subseteq Turns
    BY TurnType DEF Settled
  <1>3. Turns \subseteq 0 .. MaxTurns
    BY DEF Turns
  <1>4. Settled \subseteq With("operation.started")
    BY DEF LedgerInv
  <1> QED BY <1>1, <1>2, <1>3, <1>4

(* Every fact but the result of a write leaves the content alone.          *)
LEMMA ContentKept ==
    ASSUME SourceTypes, TurnInv, LedgerInv, LedgerInv', Extended,
           Writes(log') = Writes(log),
           \A t \in Writes(log) : ledger'[t].result = ledger[t].result
    PROVE  ContentOf(log') = ContentOf(log)
  <1> DEFINE W == Writes(log)
  <1>1. W \subseteq 0 .. MaxTurns /\ MaxTurns \in Nat
    BY WritesIn, CheckpointConstants
  <1>2. CASE W = {}
    BY <1>2, ContentNone
  <1>3. CASE W # {}
    <2>1. PICK m \in W : \A u \in W : u <= m
      BY <1>1, <1>3, LargestOf
    <2> DEFINE r == ledger[m].result
    <2>2. \A i \in DOMAIN log : log[i].type \in Results /\ log[i].turn = m =>
                log[i].data = r
      BY DEF LedgerInv, ResultsKept
    <2>3. \A i \in DOMAIN log' : log'[i].type \in Results /\ log'[i].turn = m =>
                log'[i].data = r
      <3>1. ledger'[m].result = r
        BY <2>1
      <3> QED BY <3>1 DEF LedgerInv, ResultsKept
    <2>4. W \subseteq Nat
      BY <1>1
    <2> HIDE DEF r
    <2>5. LastWrite(log, m, r)
      BY <2>1, <2>2, <2>4 DEF LastWrite
    <2>6. LastWrite(log', m, r)
      BY <2>1, <2>3, <2>4 DEF LastWrite
    <2> QED BY <2>5, <2>6, ContentIs
  <1> QED BY <1>2, <1>3

-----------------------------------------------------------------------------
(* Effects.                                                                *)
LEMMA EffectKept ==
    ASSUME \A u \in Turns : \/ ledger'[u].state = State(u)
                            \/ State(u) = "none"
                            \/ State(u) = "started" /\ ledger'[u].state \in {"succeeded", "failed", "unsure"}
                            \/ /\ State(u) = "started"
                               /\ \E v \in Workers : worker[v].turn = u /\ worker[v].at \in Undecided,
           \A v \in Workers : worker'[v].at \in Undecided =>
              \/ worker[v].at \in Undecided /\ worker'[v].turn = worker[v].turn
              \/ State(worker'[v].turn) = "none",
           NEW t \in Turns, Effect(t)
    PROVE  Effect(t)'
  <1>1. CASE State(t) \in {"succeeded", "failed", "unsure"}
    BY <1>1 DEF Effect, State
  <1>2. CASE /\ State(t) = "started"
             /\ \A w \in Workers : worker[w].turn = t => worker[w].at \notin Undecided
    <2>1. \A w \in Workers : worker'[w].turn = t => worker'[w].at \notin Undecided
      BY <1>2
    <2>2. ledger'[t].state \in {"started", "succeeded", "failed", "unsure"}
      BY <1>2
    <2> QED BY <2>1, <2>2 DEF Effect, State, Undecided
  <1> QED BY <1>1, <1>2 DEF Effect, Undecided

(* While somebody holds the claim, the tools of earlier turns have their   *)
(* results in the log.                                                     *)
LEMMA EarlierTurns ==
    ASSUME SourceTypes, TurnInv, LedgerInv, holder \in Workers,
           NEW t \in With("tool.requested"), t # Turn
    PROVE  t \in Settled
  <1>2. t \in Turns
    BY TurnType DEF With, FactTypes
  <1>3. t <= Turn
    <2>1. PICK i \in DOMAIN log : log[i].type \in {"tool.requested"} /\ log[i].turn = t
      BY TurnsWithIs DEF With
    <2> QED BY <2>1, FactTurns
  <1>4. t \in Ended
    BY <1>2, <1>3, TurnType DEF TurnInv, Turns
  <1>5. t \notin With("operation.unknown")
    BY DEF TurnInv, With, Unknown
  <1> QED BY <1>4, <1>5, TurnType DEF Settled

(* While somebody holds the claim, only the last turn may be dirty.        *)
LEMMA TouchedIn ==
    ASSUME SourceTypes, TurnInv, LedgerInv, holder \in Workers
    PROVE  Touched \subseteq {Turn}
  <1> SUFFICES ASSUME NEW t \in Touched, t # Turn PROVE FALSE
    OBVIOUS
  <1>1. t \in With("tool.requested") /\ t \notin Settled /\ Effect(t)
    BY DEF Touched
  <1> QED BY <1>1, EarlierTurns

(* A turn whose tool has reported is dirty until its result is in the log. *)
LEMMA ReportTouches ==
    ASSUME OneRunner, LedgerInv, NEW t \in Turns, Level(t) \in LocalEffects,
           t \notin Settled,
           \/ State(t) \in {"succeeded", "failed"}
           \/ \E w \in Workers : WorkerOK(w) /\ worker[w].at \in {"succeeded", "failed"} /\ worker[w].turn = t
    PROVE  t \in Touched
  <1>1. CASE State(t) \in {"succeeded", "failed"}
    BY <1>1 DEF Touched, Effect, LedgerInv, RowOK
  <1>2. CASE \E w \in Workers : WorkerOK(w) /\ worker[w].at \in {"succeeded", "failed"} /\ worker[w].turn = t
    <2>1. PICK w \in Workers : WorkerOK(w) /\ worker[w].at \in {"succeeded", "failed"} /\ worker[w].turn = t
      BY <1>2
    <2>2. State(t) = "started" /\ t \in With("tool.requested")
      BY <2>1 DEF WorkerOK, Runners
    <2>3. \A v \in Workers : worker[v].turn = t => worker[v].at \notin Undecided
      BY <2>1 DEF OneRunner, Runners, Undecided
    <2> QED BY <2>2, <2>3 DEF Touched, Effect, Undecided
  <1> QED BY <1>1, <1>2

-----------------------------------------------------------------------------
(* The workspace and the world.                                            *)
LEMMA TouchedIs ==
    ASSUME NEW t
    PROVE  t \in Touched <=> /\ t \in With("tool.requested") /\ t \notin Settled
                             /\ Level(t) \in LocalEffects /\ Effect(t)
  BY DEF Touched

(* A step that touches no file and completes no operation.                 *)
Neutral ==
    /\ ws' = ws /\ Extended
    /\ Settled' = Settled
    /\ With("tool.requested") \subseteq With("tool.requested")'
    /\ \A t \in With("tool.requested")' : t \notin With("tool.requested") => ~Effect(t)'
    /\ \A t \in Turns : Effect(t) => Effect(t)'
    /\ \A t \in Turns : State(t) \in {"succeeded", "failed"} => ledger'[t] = ledger[t]
    /\ \A t \in Turns : ledger'[t].state \in {"succeeded", "failed"} =>
          \/ State(t) \in {"succeeded", "failed"}
          \/ \E v \in Workers : /\ worker[v].at \in {"succeeded", "failed"} /\ worker[v].turn = t
                                /\ ledger'[t].result = worker[v].out
    /\ \A v \in Workers : worker'[v].at \in {"succeeded", "failed"} =>
          worker'[v] = worker[v] \/ Level(worker'[v].turn) \notin LocalEffects

(* A neutral step completes no operation and runs no tool.                 *)
LEMMA TouchedNeutral ==
    ASSUME SourceTypes, TurnInv, LedgerInv, LedgerInv', Neutral
    PROVE  /\ Writes(log') = Writes(log)
           /\ Touched \subseteq Touched'
           /\ \A t \in Touched' : /\ t \in Turns /\ t \in With("tool.requested")
                                  /\ t \notin Settled
                                  /\ Level(t) \in LocalEffects
  <1>1. \A t \in With("operation.started") : DataOf(log', "operation.started", t) = Level(t)
    BY LevelKept DEF LedgerInv, Neutral
  <1>2. /\ With("tool.requested") \subseteq With("operation.started")
        /\ Settled \subseteq With("operation.started")
        /\ With("tool.requested") \subseteq Turns
    BY TurnType DEF LedgerInv, FactTypes, With
  <1>3. Writes(log') = { t \in Settled :
                            DataOf(log', "operation.started", t) \in LocalEffects }
    <2>1. Settled' = TurnsWith(log', Results)
      BY SettledIs DEF Settled, With
    <2> QED BY <2>1 DEF Writes, Neutral
  <1>4. Writes(log) = { t \in Settled : Level(t) \in LocalEffects }
    BY WritesIn
  <1>5. Writes(log') = Writes(log)
    BY <1>1, <1>2, <1>3, <1>4
  <1>6. \A t : t \in Touched' <=> /\ t \in With("tool.requested")' /\ t \notin Settled'
                                  /\ DataOf(log', "operation.started", t) \in LocalEffects
                                  /\ Effect(t)'
    BY DEF Touched, Level
  <1>7. ASSUME NEW t \in Touched PROVE t \in Touched'
    <2>1. /\ t \in With("tool.requested") /\ t \notin Settled
          /\ Level(t) \in LocalEffects /\ Effect(t)
      BY TouchedIs
    <2> QED BY <1>1, <1>2, <1>6, <2>1 DEF Neutral
  <1>8. ASSUME NEW t \in Touched'
        PROVE  /\ t \in Turns /\ t \in With("tool.requested")
               /\ t \notin Settled
               /\ Level(t) \in LocalEffects
    <2>1. /\ t \in With("tool.requested")' /\ t \notin Settled'
          /\ DataOf(log', "operation.started", t) \in LocalEffects
          /\ Effect(t)'
      BY <1>6
    <2>2. t \in With("tool.requested") /\ t \notin Settled
      BY <2>1 DEF Neutral
    <2> QED BY <1>1, <1>2, <2>1, <2>2
  <1> QED BY <1>5, <1>7, <1>8

(* The workspace is what the log says after a neutral step.                *)
LEMMA WorkspaceNeutral ==
    ASSUME SourceTypes, TurnInv, LedgerInv, LedgerInv', OneRunner,
           \A v \in Workers : WorkerOK(v), WorkspaceInv, Neutral
    PROVE  WorkspaceInv'
  <1>1. /\ Writes(log') = Writes(log)
        /\ Touched \subseteq Touched'
        /\ \A t \in Touched' : /\ t \in Turns /\ t \in With("tool.requested")
                               /\ t \notin Settled
                               /\ Level(t) \in LocalEffects
    BY TouchedNeutral
  <1>2. ContentOf(log') = ContentOf(log)
    <2>1. \A t \in Writes(log) : ledger'[t].result = ledger[t].result
      <3>1. \A t \in Writes(log) : t \in Turns /\ t \in Settled
        BY WritesIn, TurnType
      <3>2. \A t \in Writes(log) : State(t) \in {"succeeded", "failed"}
        BY <3>1 DEF LedgerInv, RowOK, Settled
      <3> QED BY <3>1, <3>2 DEF Neutral
    <2>2. Extended
      BY DEF Neutral
    <2> QED BY <1>1, <2>1, <2>2, ContentKept
  <1>3. (Touched = {} => ws = ContentOf(log))'
    BY <1>1, <1>2 DEF WorkspaceInv, Neutral
  <1>4. ASSUME NEW t \in Touched', Touched' = {t}
        PROVE  /\ ledger'[t].state \in {"succeeded", "failed"} => ledger'[t].result = ws'
               /\ \A w \in Workers : worker'[w].at \in {"succeeded", "failed"} /\ worker'[w].turn = t =>
                                     worker'[w].out = ws'
    <2>0. /\ t \in Turns /\ t \notin Settled /\ Level(t) \in LocalEffects
          /\ ws' = ws
      BY <1>1 DEF Neutral
    <2>1. t \in Touched =>
             /\ State(t) \in {"succeeded", "failed"} => ledger[t].result = ws
             /\ \A w \in Workers : worker[w].at \in {"succeeded", "failed"} /\ worker[w].turn = t =>
                                   worker[w].out = ws
      <3>1. t \in Touched => Touched = {t}
        BY <1>1, <1>4
      <3> QED BY <3>1 DEF WorkspaceInv
    <2>2. ASSUME ledger'[t].state \in {"succeeded", "failed"} PROVE ledger'[t].result = ws'
      <3>1. CASE State(t) \in {"succeeded", "failed"}
        <4>1. t \in Touched
          BY <2>0, <3>1, ReportTouches
        <4> QED BY <2>0, <2>1, <3>1, <4>1 DEF Neutral
      <3>2. CASE \E v \in Workers : /\ worker[v].at \in {"succeeded", "failed"} /\ worker[v].turn = t
                                    /\ ledger'[t].result = worker[v].out
        <4>1. t \in Touched
          BY <2>0, <3>2, ReportTouches
        <4> QED BY <2>0, <2>1, <3>2, <4>1
      <3> QED BY <2>0, <2>2, <3>1, <3>2 DEF Neutral
    <2>3. ASSUME NEW w \in Workers, worker'[w].at \in {"succeeded", "failed"}, worker'[w].turn = t
          PROVE  worker'[w].out = ws'
      <3>1. worker'[w] = worker[w]
        BY <2>0, <2>3 DEF Neutral
      <3>2. t \in Touched
        BY <2>0, <2>3, <3>1, ReportTouches
      <3> QED BY <2>0, <2>1, <2>3, <3>1, <3>2
    <2> QED BY <2>2, <2>3
  <1>5. (\A t \in Touched : Touched = {t} =>
            /\ State(t) \in {"succeeded", "failed"} => ledger[t].result = ws
            /\ \A w \in Workers : worker[w].at \in {"succeeded", "failed"} /\ worker[w].turn = t => worker[w].out = ws)'
    BY <1>4 DEF State
  <1> QED BY <1>3, <1>5 DEF WorkspaceInv

(* The world only hears of tools that ran.                                 *)
LEMMA WorldFrame ==
    ASSUME SourceTypes, TurnInv, LedgerInv, LedgerInv', WorldInv, Extended, world' = world,
           With("tool.requested") \subseteq With("tool.requested")',
           \A t \in Turns : Effect(t) => Effect(t)'
    PROVE  WorldInv'
  <1>1. \A t \in With("operation.started") : DataOf(log', "operation.started", t) = Level(t)
    BY LevelKept DEF LedgerInv
  <1>2. world \subseteq Turns /\ With("tool.requested") \subseteq With("operation.started")
    BY DEF SourceTypes, LedgerInv
  <1>3. ASSUME NEW t \in world
        PROVE  /\ t \in With("tool.requested")' /\ Effect(t)'
               /\ DataOf(log', "operation.started", t) \notin LocalEffects \cup ReadOnly
    <2>1. t \in With("tool.requested") /\ Effect(t) /\ Level(t) \notin LocalEffects \cup ReadOnly
      BY DEF WorldInv
    <2> QED BY <1>1, <1>2, <2>1
  <1> QED BY <1>3 DEF WorldInv, Level

-----------------------------------------------------------------------------
(* Every step of the source run keeps its invariant.                       *)
LEMMA NothingNoted ==
    ASSUME log' = log
    PROVE  Extended /\ \A x : With(x)' = With(x)
  BY DEF Extended, With

(* A recorded fact extends the log by its turn and its type.               *)
LEMMA FactNoted ==
    ASSUME SourceTypes, NEW w \in Workers, NEW type \in FactTypes, NEW d \in Data, Noted(w, type, d)
    PROVE  /\ Extended
           /\ \A x : x # type => With(x)' = With(x)
           /\ \A x, t : t \in With(x)' <=> t \in With(x) \/ (x = type /\ t = worker[w].turn)
  <1>1. \A x : TurnsWith(log', {x}) = IF x = type THEN TurnsWith(log, {x}) \cup {worker[w].turn}
                                                  ELSE TurnsWith(log, {x})
    BY NotedIs
  <1>2. Extended
    BY NotedIs DEF Extended
  <1> QED BY <1>1, <1>2 DEF With

(* Steps after which the log, the files and the world are as before, and   *)
(* the ledger too.                                                         *)
LEMMA QuietStep ==
    ASSUME SourceInv, log' = log, ledger' = ledger, ws' = ws, world' = world,
           \A v \in Workers : worker'[v].at \in Undecided \cup {"succeeded", "failed"} =>
                                 worker'[v] = worker[v],
           LedgerInv'
    PROVE  WorkspaceInv' /\ WorldInv'
  <1>1. Extended /\ \A x : With(x)' = With(x)
    BY NothingNoted
  <1>2. \A u \in Turns : ledger'[u].state = State(u)
    BY DEF State
  <1>3. \A t \in Turns : Effect(t) => Effect(t)'
    BY <1>2, EffectKept
  <1>4. Neutral
    BY <1>1, <1>2, <1>3 DEF Neutral, Settled
  <1> QED BY <1>1, <1>3, <1>4, WorkspaceNeutral, WorldFrame DEF SourceInv

(* Claiming the run keeps the source run's invariant.                      *)
LEMMA SourceClaim ==
    ASSUME SourceInv, NEW w \in Workers, ClaimTurn(w)
    PROVE  SourceInv'
  <1>1. /\ log' = log /\ ledger' = ledger /\ ws' = ws /\ world' = world /\ holder' = w
        /\ Unknown(log) = {}
    BY DEF ClaimTurn, Admitted, Pending
  <1>2. /\ OneRunner' /\ \A v \in Workers : WorkerOK(v)'
        /\ worker' \in [Workers -> Threads]
        /\ worker'[w].at = "turn" /\ worker'[w].turn = Turn
        /\ \A v \in Workers : v # w => worker'[v] = worker[v]
    BY WorkersClaim DEF SourceInv
  <1>3. SourceTypes'
    BY <1>1, <1>2 DEF SourceInv, SourceTypes
  <1>4. TurnInv'
    BY <1>1, <1>2, TurnClaimed DEF SourceInv
  <1>5. LedgerInv'
    BY <1>1, LedgerFrame DEF SourceInv
  <1>6. WorkspaceInv' /\ WorldInv'
    BY <1>1, <1>2, <1>5, QuietStep DEF Undecided
  <1> QED BY <1>2, <1>3, <1>4, <1>5, <1>6 DEF SourceInv

(* A worker that stops keeps the source run's invariant.                   *)
LEMMA SourceRest ==
    ASSUME SourceInv, NEW w \in Workers, Rest(w)
    PROVE  SourceInv'
  <1>1. /\ log' = log /\ ledger' = ledger /\ ws' = ws /\ world' = world
        /\ Moved(w, "idle") /\ holder' \in {holder, "nobody", None} /\ holder' # w
    BY DEF Rest
  <1>2. OneRunner' /\ \A v \in Workers : WorkerOK(v)'
    BY WorkersRest DEF SourceInv
  <1>3. /\ worker' \in [Workers -> Threads]
        /\ worker'[w] = Resting
        /\ \A v \in Workers : v # w => worker'[v] = worker[v]
    BY <1>1, MovedIs DEF SourceInv, Places
  <1>4. SourceTypes'
    BY <1>1, <1>3 DEF SourceInv, SourceTypes
  <1>5. TurnInv'
    <2>1. CASE holder' \notin Workers
      BY <2>1, <1>1, TurnFrame DEF SourceInv
    <2>2. CASE holder' \in Workers
      <3>1. holder' = holder
        BY <1>1, <2>2, NotWorkers
      <3>2. \A v \in Workers : v = holder =>
                  worker'[v].at # "idle" /\ worker'[v].turn = worker[v].turn
        BY <1>1, <1>3, <3>1 DEF SourceInv, TurnInv
      <3> QED BY <1>1, <3>1, <3>2, TurnFrame DEF SourceInv
    <2> QED BY <2>1, <2>2
  <1>6. LedgerInv'
    BY <1>1, LedgerFrame DEF SourceInv
  <1>7. WorkspaceInv' /\ WorldInv'
    BY <1>1, <1>3, <1>6, QuietStep DEF Undecided, Resting
  <1> QED BY <1>2, <1>4, <1>5, <1>6, <1>7 DEF SourceInv

(* Losing the claim keeps the source run's invariant.                      *)
LEMMA SourceLapse ==
    ASSUME SourceInv, Lapse
    PROVE  SourceInv'
  <1>1. /\ log' = log /\ ledger' = ledger /\ ws' = ws /\ world' = world
        /\ worker' = worker /\ holder' = None /\ holder' \notin Workers
    BY NotWorkers DEF Lapse
  <1>2. OneRunner' /\ \A v \in Workers : WorkerOK(v)'
    BY WorkersLapse DEF SourceInv
  <1>3. SourceTypes'
    BY <1>1 DEF SourceInv, SourceTypes
  <1>4. TurnInv'
    BY <1>1, TurnFrame DEF SourceInv
  <1>5. LedgerInv'
    BY <1>1, LedgerFrame DEF SourceInv
  <1>6. WorkspaceInv' /\ WorldInv'
    BY <1>1, <1>5, QuietStep
  <1> QED BY <1>2, <1>3, <1>4, <1>5, <1>6 DEF SourceInv

(* Resuming a turn keeps the source run's invariant.                       *)
LEMMA SourceResume ==
    ASSUME SourceInv, NEW w \in Workers, ResumeTurn(w)
    PROVE  SourceInv'
  <1>1. PICK next \in {"act", "asked"} : Moved(w, next)
    BY ResumeIs
  <1>2. log' = log /\ ledger' = ledger /\ ws' = ws /\ world' = world /\ holder' = holder
    BY ResumeIs
  <1>3. OneRunner' /\ \A v \in Workers : WorkerOK(v)'
    BY WorkersResume DEF SourceInv
  <1>4. /\ worker' \in [Workers -> Threads]
        /\ worker'[w].at = next /\ worker'[w].turn = worker[w].turn
        /\ \A v \in Workers : v # w => worker'[v] = worker[v]
    BY <1>1, MovedIs DEF SourceInv, Places
  <1>5. SourceTypes'
    BY <1>2, <1>4 DEF SourceInv, SourceTypes
  <1>6. TurnInv'
    <2>1. \A v \in Workers : v = holder =>
                  worker'[v].at # "idle" /\ worker'[v].turn = worker[v].turn
      BY <1>1, <1>4 DEF SourceInv, TurnInv
    <2> QED BY <1>2, <2>1, TurnFrame DEF SourceInv
  <1>7. LedgerInv'
    BY <1>2, LedgerFrame DEF SourceInv
  <1>8. WorkspaceInv' /\ WorldInv'
    BY <1>1, <1>2, <1>4, <1>7, QuietStep DEF Undecided
  <1> QED BY <1>3, <1>5, <1>6, <1>7, <1>8 DEF SourceInv

(* Settling a row keeps the source run's invariant.                        *)
LEMMA SourceSettle ==
    ASSUME SourceInv, NEW w \in Workers, SettleLedger(w)
    PROVE  SourceInv'
  <1> DEFINE t == worker[w].turn
             at == worker[w].at
  <1>0. SourceTypes /\ WorkerOK(w) /\ LedgerInv /\ TurnInv
    BY DEF SourceInv
  <1>1. /\ t \in Turns /\ at \in {"succeeded", "failed", "unsure"}
        /\ State(t) = "started"
        /\ ledger' \in [Turns -> Rows]
        /\ ledger'[t].state = at /\ ledger'[t].result = worker[w].out
        /\ \A u \in Turns : u # t => ledger'[u] = ledger[u]
        /\ log' = log /\ ws' = ws /\ world' = world /\ holder' = holder
    BY <1>0, SettleIs
  <1>2. PICK next \in {"result", "refused", "doubt"} : Moved(w, next)
    BY <1>0, <1>1, SettleIs
  <1>3. OneRunner' /\ \A v \in Workers : WorkerOK(v)'
    BY WorkersSettle DEF SourceInv
  <1>4. /\ worker' \in [Workers -> Threads]
        /\ worker'[w].at = next /\ worker'[w].turn = worker[w].turn
        /\ \A v \in Workers : v # w => worker'[v] = worker[v]
    BY <1>0, <1>2, MovedIs DEF Places
  <1>5. SourceTypes'
    BY <1>0, <1>1, <1>4 DEF SourceTypes
  <1>6. TurnInv'
    <2>1. \A v \in Workers : v = holder =>
                  worker'[v].at # "idle" /\ worker'[v].turn = worker[v].turn
      BY <1>0, <1>2, <1>4 DEF TurnInv
    <2> QED BY <1>0, <1>1, <2>1, TurnFrame
  <1>7. LedgerInv'
    BY <1>0, LedgerSettle
  <1>8. Extended /\ \A x : With(x)' = With(x)
    BY <1>1, NothingNoted
  <1>9. \A u \in Turns : u # t => ledger'[u].state = State(u)
    BY <1>1 DEF State
  <1>10. \A u \in Turns : Effect(u) => Effect(u)'
    <2>1. \A u \in Turns : \/ ledger'[u].state = State(u)
                           \/ State(u) = "started" /\ ledger'[u].state \in {"succeeded", "failed", "unsure"}
                           \/ /\ State(u) = "started"
                              /\ \E v \in Workers : worker[v].turn = u /\ worker[v].at \in Undecided
      BY <1>1, <1>9 DEF Undecided
    <2>2. \A v \in Workers : worker'[v].at \in Undecided =>
                worker[v].at \in Undecided /\ worker'[v].turn = worker[v].turn
      BY <1>2, <1>4 DEF Undecided
    <2> QED BY <2>1, <2>2, EffectKept
  <1>11. Neutral
    <2>1. \A u \in Turns : State(u) \in {"succeeded", "failed"} => ledger'[u] = ledger[u]
      BY <1>1
    <2>2. \A u \in Turns : ledger'[u].state \in {"succeeded", "failed"} =>
              \/ State(u) \in {"succeeded", "failed"}
              \/ \E v \in Workers : /\ worker[v].at \in {"succeeded", "failed"} /\ worker[v].turn = u
                                    /\ ledger'[u].result = worker[v].out
      BY <1>1, <1>9
    <2>3. \A v \in Workers : worker'[v].at \in {"succeeded", "failed"} => worker'[v] = worker[v]
      BY <1>2, <1>4
    <2> QED BY <1>1, <1>8, <1>10, <2>1, <2>2, <2>3 DEF Neutral, Settled
  <1>12. WorkspaceInv' /\ WorldInv'
    BY <1>1, <1>7, <1>8, <1>10, <1>11, WorkspaceNeutral, WorldFrame DEF SourceInv
  <1> QED BY <1>3, <1>5, <1>6, <1>7, <1>12 DEF SourceInv

(* A start that is not heard keeps the source run's invariant.             *)
LEMMA SourceUnheard ==
    ASSUME SourceInv, NEW w \in Workers, StartUnheard(w)
    PROVE  SourceInv'
  <1> DEFINE t == worker[w].turn
  <1>0. SourceTypes /\ WorkerOK(w) /\ LedgerInv /\ TurnInv
    BY DEF SourceInv
  <1>1. /\ t \in Turns /\ Begun(w) /\ log' = log /\ ws' = ws /\ world' = world
        /\ holder' = holder /\ holder # w /\ Moved(w, "idle")
    BY <1>0 DEF StartUnheard, Begun, WorkerOK
  <1>2. /\ ledger' \in [Turns -> Rows]
        /\ \A u \in Turns : u # t => ledger'[u] = ledger[u]
    BY <1>0, <1>1, BegunIs
  <1>3. \A u \in Turns : /\ u # t => ledger'[u].state = State(u)
                         /\ u = t => State(u) = "none" /\ ledger'[u].state = "started"
    BY <1>0, <1>1, StateBegun
  <1>4. OneRunner' /\ \A v \in Workers : WorkerOK(v)'
    BY WorkersUnheard DEF SourceInv
  <1>5. /\ worker' \in [Workers -> Threads]
        /\ worker'[w] = Resting
        /\ \A v \in Workers : v # w => worker'[v] = worker[v]
    BY <1>0, <1>1, MovedIs DEF Places
  <1>6. SourceTypes'
    BY <1>0, <1>1, <1>2, <1>5 DEF SourceTypes
  <1>7. TurnInv'
    <2>1. \A v \in Workers : v = holder =>
                  worker'[v].at # "idle" /\ worker'[v].turn = worker[v].turn
      BY <1>0, <1>1, <1>5 DEF TurnInv
    <2> QED BY <1>0, <1>1, <2>1, TurnFrame
  <1>8. LedgerInv'
    BY <1>0, LedgerUnheard
  <1>9. Extended /\ \A x : With(x)' = With(x)
    BY <1>1, NothingNoted
  <1>10. \A v \in Workers : worker'[v].at \in Undecided \cup {"succeeded", "failed"} =>
               worker'[v] = worker[v]
    BY <1>5 DEF Undecided, Resting
  <1> HIDE DEF t
  <1>11. \A u \in Turns : Effect(u) => Effect(u)'
    BY <1>3, <1>10, EffectKept
  <1>12. Neutral
    BY <1>1, <1>2, <1>3, <1>9, <1>10, <1>11 DEF Neutral, Settled
  <1>13. WorkspaceInv' /\ WorldInv'
    BY <1>1, <1>8, <1>9, <1>11, <1>12, WorkspaceNeutral, WorldFrame DEF SourceInv
  <1> QED BY <1>4, <1>6, <1>7, <1>8, <1>13 DEF SourceInv

(* Starting an operation keeps the source run's invariant.                 *)
LEMMA SourceStart ==
    ASSUME SourceInv, NEW w \in Workers, Start(w)
    PROVE  SourceInv'
  <1> DEFINE t == worker[w].turn
             d == DataOf(log, "model.completed", t)
  <1>0. SourceTypes /\ WorkerOK(w) /\ LedgerInv /\ TurnInv
    BY DEF SourceInv
  <1>1. t \in Turns /\ d \in Data /\ "operation.started" \in FactTypes
    BY <1>0, StartKnows DEF FactTypes
  <1>2. /\ Begun(w) /\ Noted(w, "operation.started", d) /\ Moved(w, "started") /\ holder = w
        /\ holder' = w /\ ws' = ws /\ world' = world
    BY DEF Start, Begun
  <1> HIDE DEF d
  <1>3. /\ ledger' \in [Turns -> Rows]
        /\ \A u \in Turns : u # t => ledger'[u] = ledger[u]
    BY <1>0, <1>1, <1>2, BegunIs
  <1>4. \A u \in Turns : /\ u # t => ledger'[u].state = State(u)
                         /\ u = t => State(u) = "none" /\ ledger'[u].state = "started"
    BY <1>0, <1>1, <1>2, StateBegun
  <1>5. OneRunner' /\ \A v \in Workers : WorkerOK(v)'
    BY WorkersStart DEF SourceInv
  <1>6. /\ worker' \in [Workers -> Threads]
        /\ worker'[w].at = "started" /\ worker'[w].turn = t
        /\ \A v \in Workers : v # w => worker'[v] = worker[v]
    BY <1>0, <1>2, MovedIs DEF Places
  <1>7. log' \in Seq(Facts) /\ log' # <<>>
    BY <1>0, <1>1, <1>2, NotedIs
  <1>8. SourceTypes'
    BY <1>0, <1>2, <1>3, <1>6, <1>7 DEF SourceTypes
  <1>9. TurnInv'
    <2>1. "operation.started" \notin OperationEnds \cup {"run.created"}
      BY DEF OperationEnds
    <2> QED BY <1>0, <1>1, <1>2, <1>6, <2>1, TurnNoted
  <1>10. LedgerInv'
    BY <1>0, LedgerStart
  <1>11. Extended /\ \A x : x # "operation.started" => With(x)' = With(x)
    BY <1>0, <1>1, <1>2, FactNoted
  <1> HIDE DEF t
  <1>12. \A u \in Turns : Effect(u) => Effect(u)'
    <2>1. \A v \in Workers : worker'[v].at \in Undecided =>
              \/ worker[v].at \in Undecided /\ worker'[v].turn = worker[v].turn
              \/ State(worker'[v].turn) = "none"
      BY <1>1, <1>4, <1>6
    <2> QED BY <1>4, <2>1, EffectKept
  <1>13. Neutral
    <2>1. \A v \in Workers : worker'[v].at \in {"succeeded", "failed"} => worker'[v] = worker[v]
      BY <1>6
    <2> QED BY <1>2, <1>3, <1>4, <1>11, <1>12, <2>1 DEF Neutral, Settled
  <1>14. WorkspaceInv' /\ WorldInv'
    BY <1>2, <1>10, <1>11, <1>12, <1>13, WorkspaceNeutral, WorldFrame DEF SourceInv
  <1> QED BY <1>5, <1>8, <1>9, <1>10, <1>14 DEF SourceInv

(* Of a fact: all but the files.                                           *)
LEMMA RecordStep ==
    ASSUME SourceInv, NEW w \in Workers, NEW type, NEW d, NEW next \in Places,
           Record(w, type, d, next)
    PROVE  /\ SourceTypes' /\ TurnInv' /\ LedgerInv' /\ OneRunner' /\ WorldInv'
           /\ \A v \in Workers : WorkerOK(v)'
           /\ type \in FactTypes /\ d \in Data /\ Extended
           /\ \A u \in Turns : Effect(u) => Effect(u)'
           /\ \A v \in Workers : worker'[v].at \in {"succeeded", "failed"} => worker'[v] = worker[v]
           /\ ledger' = ledger /\ ws' = ws
  <1> DEFINE t == worker[w].turn
  <1>0. SourceTypes /\ WorkerOK(w) /\ LedgerInv /\ TurnInv
    BY DEF SourceInv
  <1>1. /\ t \in Turns
        /\ type \in FactTypes /\ type \notin {"run.created", "operation.started"}
        /\ d \in Data /\ (type \in OperationEnds <=> next = "idle")
    BY <1>0, RecordKnows
  <1>2. /\ ledger' = ledger /\ Noted(w, type, d) /\ Moved(w, next) /\ holder = w
        /\ holder' = (IF next = "idle" THEN None ELSE holder) /\ ws' = ws /\ world' = world
    BY DEF Record
  <1>3. OneRunner' /\ \A v \in Workers : WorkerOK(v)'
    BY WorkersRecord DEF SourceInv
  <1>4. /\ worker' \in [Workers -> Threads]
        /\ next = "idle" => worker'[w] = Resting
        /\ next # "idle" => worker'[w].at = next /\ worker'[w].turn = t
        /\ \A v \in Workers : v # w => worker'[v] = worker[v]
    BY <1>0, <1>2, MovedIs
  <1>5. log' \in Seq(Facts) /\ log' # <<>>
    BY <1>0, <1>1, <1>2, NotedIs
  <1>6. SourceTypes'
    BY <1>0, <1>2, <1>4, <1>5 DEF SourceTypes
  <1>7. TurnInv'
    <2>1. CASE next = "idle"
      <3>1. type \in OperationEnds /\ holder' \notin Workers
        BY <1>1, <1>2, <2>1, NotWorkers
      <3> QED BY <1>0, <1>1, <1>2, <3>1, TurnEnded
    <2>2. CASE next # "idle"
      BY <1>0, <1>1, <1>2, <1>4, <2>2, TurnNoted
    <2> QED BY <2>1, <2>2
  <1>8. LedgerInv'
    BY <1>0, LedgerRecord
  <1>9. /\ Extended
        /\ \A x, u : u \in With(x)' <=> u \in With(x) \/ (x = type /\ u = t)
    BY <1>0, <1>1, <1>2, FactNoted
  <1>10. next \in Undecided \cup {"succeeded", "failed"} => next = "run" /\ worker[w].at \in Undecided
    BY DEF Record, Recordable, Undecided
  <1>11. \A u \in Turns : Effect(u) => Effect(u)'
    <2>1. \A v \in Workers : worker'[v].at \in Undecided =>
                worker[v].at \in Undecided /\ worker'[v].turn = worker[v].turn
      BY <1>4, <1>10 DEF Undecided, Resting
    <2>2. \A u \in Turns : ledger'[u].state = State(u)
      BY <1>2 DEF State
    <2> QED BY <2>1, <2>2, EffectKept
  <1>12. WorldInv'
    <2>1. With("tool.requested") \subseteq With("tool.requested")'
      BY <1>9
    <2> QED BY <1>2, <1>8, <1>9, <1>11, <2>1, WorldFrame DEF SourceInv
  <1>13. \A v \in Workers : worker'[v].at \in {"succeeded", "failed"} => worker'[v] = worker[v]
    BY <1>4, <1>10 DEF Resting
  <1> QED BY <1>1, <1>2, <1>3, <1>6, <1>7, <1>8, <1>9, <1>11, <1>12, <1>13

(* A fact other than a result keeps the source run's invariant.            *)
LEMMA SourceRecord ==
    ASSUME SourceInv, NEW w \in Workers, NEW type, NEW d, NEW next \in Places,
           Record(w, type, d, next), type \notin Results
    PROVE  SourceInv'
  <1> DEFINE t == worker[w].turn
  <1>0. SourceTypes /\ WorkerOK(w) /\ LedgerInv /\ TurnInv
    BY DEF SourceInv
  <1>1. /\ SourceTypes' /\ TurnInv' /\ LedgerInv' /\ OneRunner' /\ WorldInv'
        /\ \A v \in Workers : WorkerOK(v)'
        /\ type \in FactTypes /\ d \in Data /\ Extended
        /\ \A u \in Turns : Effect(u) => Effect(u)'
        /\ \A v \in Workers : worker'[v].at \in {"succeeded", "failed"} => worker'[v] = worker[v]
        /\ ledger' = ledger /\ ws' = ws
    BY RecordStep
  <1>2. Noted(w, type, d) /\ Moved(w, next)
    BY DEF Record
  <1>3. /\ \A x : x # type => With(x)' = With(x)
        /\ \A x, u : u \in With(x)' <=> u \in With(x) \/ (x = type /\ u = t)
    BY <1>0, <1>1, <1>2, FactNoted
  <1>4. ASSUME NEW u, u \in With("tool.requested")', u \notin With("tool.requested")
        PROVE  ~Effect(u)'
    <2>1. type = "tool.requested" /\ u = t
      BY <1>3, <1>4
    <2>2. State(t) = "started"
      BY <1>0, <2>1, RecordKnows
    <2>3. next = "run"
      BY <2>1 DEF Record, Recordable
    <2>4. worker'[w].at = "run" /\ worker'[w].turn = u
      BY <1>0, <1>2, <2>1, <2>3, MovedIs
    <2>5. ledger'[u].state = "started"
      BY <1>1, <2>1, <2>2 DEF State
    <2> QED BY <2>4, <2>5 DEF Effect, State
  <1>5. \A u \in Turns : State(u) \in {"succeeded", "failed"} <=> ledger'[u].state \in {"succeeded", "failed"}
    BY <1>1 DEF State
  <1>6. Settled' = Settled
    BY <1>3 DEF Settled, Results
  <1>7. Neutral
    BY <1>1, <1>3, <1>4, <1>5, <1>6 DEF Neutral
  <1>8. WorkspaceInv'
    BY <1>1, <1>7, WorkspaceNeutral DEF SourceInv
  <1> QED BY <1>1, <1>8 DEF SourceInv

(* Ending an operation makes its result part of what the log stands for.   *)
LEMMA SourceComplete ==
    ASSUME SourceInv, NEW w \in Workers, NEW type, NEW d, NEW next \in Places,
           Record(w, type, d, next), type \in Results
    PROVE  SourceInv'
  <1> DEFINE t == worker[w].turn
  <1>0. /\ SourceTypes /\ WorkerOK(w) /\ LedgerInv /\ TurnInv /\ OneRunner /\ WorkspaceInv
        /\ holder = w /\ Noted(w, type, d)
    BY DEF SourceInv, Record
  <1>1. /\ SourceTypes' /\ TurnInv' /\ LedgerInv' /\ OneRunner' /\ WorldInv'
        /\ \A v \in Workers : WorkerOK(v)'
        /\ type \in FactTypes /\ d \in Data /\ Extended
        /\ ledger' = ledger /\ ws' = ws
    BY RecordStep
  <1>2. /\ t \in Turns /\ t = Turn /\ t \notin Ended /\ State(t) \in {"succeeded", "failed"}
        /\ Turn \in Nat /\ Ended = 1 .. (Turn - 1)
    BY <1>0, RecordKnows, TurnType DEF TurnInv, Results
  <1>3. /\ \A x : x # type => With(x)' = With(x)
        /\ \A x, u : u \in With(x)' <=> u \in With(x) \/ (x = type /\ u = t)
    BY <1>0, <1>1, FactNoted
  <1> HIDE DEF t
  <1>4. Settled' = Settled \cup {t}
    BY <1>3 DEF Settled, Results
  <1>5. Touched \subseteq {t}
    BY <1>0, <1>2, TouchedIn
  <1>6. Touched' = {}
    <2> SUFFICES ASSUME NEW u \in Touched' PROVE FALSE
      OBVIOUS
    <2>1. u \in With("tool.requested")' /\ u \notin Settled' /\ Effect(u)'
      BY DEF Touched
    <2>2. u \in With("tool.requested") /\ u # Turn /\ u \notin Settled
      BY <1>2, <1>3, <1>4, <2>1 DEF Results
    <2> QED BY <1>0, <2>2, EarlierTurns
  <1>7. t \in With("tool.requested") /\ t \in With("operation.started")
    BY <1>0, <1>2 DEF LedgerInv, RowOK
  <1>8. \A u \in With("operation.started") : DataOf(log', "operation.started", u) = Level(u)
    BY <1>0, <1>1, LevelKept DEF LedgerInv
  <1>9. Settled \subseteq With("operation.started")
    BY <1>0 DEF LedgerInv
  <1>10. Writes(log') = { u \in Settled \cup {t} :
                             DataOf(log', "operation.started", u) \in LocalEffects }
    <2>1. Settled' = TurnsWith(log', Results)
      BY SettledIs DEF Settled, With
    <2> QED BY <1>4, <2>1 DEF Writes
  <1>11. /\ Writes(log) = { u \in Settled : Level(u) \in LocalEffects }
         /\ Writes(log) \subseteq Ended
    BY <1>0, WritesIn
  <1>12. t \notin Settled
    BY <1>0, <1>2, TurnType DEF Settled
  <1>13. CASE Level(t) \in LocalEffects
    <2>1. t \in Touched
      BY <1>0, <1>2, <1>12, <1>13, ReportTouches
    <2>2. ledger[t].result = ws
      BY <1>0, <1>2, <1>5, <2>1 DEF WorkspaceInv
    <2>3. Writes(log') = Writes(log) \cup {t}
      BY <1>7, <1>8, <1>9, <1>10, <1>11, <1>13
    <2>4. \A i \in DOMAIN log' : log'[i].type \in Results /\ log'[i].turn = t =>
                log'[i].data = ws
      <3>1. ResultsKept'
        BY <1>1 DEF LedgerInv
      <3> QED BY <1>1, <2>2, <3>1 DEF ResultsKept
    <2>5. \A u \in Writes(log) : u \in Nat /\ u <= t
      BY <1>2, <1>11
    <2>6. LastWrite(log', t, ws)
      BY <1>2, <2>3, <2>4, <2>5 DEF LastWrite
    <2>7. ContentOf(log') = ws
      BY <2>6, ContentIs
    <2> QED BY <1>1, <1>6, <2>7 DEF SourceInv, WorkspaceInv
  <1>14. CASE Level(t) \notin LocalEffects
    <2>1. Touched = {}
      BY <1>5, <1>14 DEF Touched
    <2>2. Writes(log') = Writes(log)
      BY <1>7, <1>8, <1>9, <1>10, <1>11, <1>14
    <2>3. ContentOf(log') = ContentOf(log)
      BY <1>0, <1>1, <2>2, ContentKept
    <2>4. ws = ContentOf(log)
      BY <1>0, <2>1 DEF WorkspaceInv
    <2> QED BY <1>1, <1>6, <2>3, <2>4 DEF SourceInv, WorkspaceInv
  <1> QED BY <1>13, <1>14

(* Running a tool keeps the source run's invariant.                        *)
LEMMA SourceRun ==
    ASSUME SourceInv, NEW w \in Workers, NEW outcome \in {"succeeded", "failed", "unsure"},
           RunTool(w, outcome)
    PROVE  SourceInv'
  <1> DEFINE t == worker[w].turn
  <1>0. /\ SourceTypes /\ WorkerOK(w) /\ LedgerInv /\ TurnInv /\ OneRunner /\ WorkspaceInv
        /\ WorldInv /\ \A v \in Workers : WorkerOK(v)
    BY DEF SourceInv
  <1>1. /\ worker[w].at = "run" /\ t \in Turns
        /\ worker' \in [Workers -> Threads]
        /\ worker'[w].at = outcome /\ worker'[w].turn = t
        /\ worker'[w].out = ws' /\ ws' \in Contents
        /\ \A v \in Workers : v # w => worker'[v] = worker[v]
        /\ ws' # ws => Level(t) \in LocalEffects
        /\ log' = log /\ ledger' = ledger /\ holder' = holder
    BY <1>0, RunIs
  <1>2. \/ world' = world
        \/ /\ Level(t) \notin LocalEffects \cup ReadOnly
           /\ world' = world \cup {t}
    BY <1>0, RunIs
  <1>3. OneRunner' /\ \A v \in Workers : WorkerOK(v)'
    BY <1>0, WorkersRun
  <1>4. SourceTypes'
    BY <1>0, <1>1, <1>2 DEF SourceTypes
  <1>5. TurnInv'
    <2>1. \A v \in Workers : v = holder =>
                  worker'[v].at # "idle" /\ worker'[v].turn = worker[v].turn
      BY <1>0, <1>1 DEF TurnInv
    <2> QED BY <1>0, <1>1, <2>1, TurnFrame
  <1>6. LedgerInv'
    BY <1>0, <1>1, LedgerFrame
  <1>7. Extended /\ \A x : With(x)' = With(x)
    BY <1>1, NothingNoted
  <1>8. \A u \in Turns : ledger'[u].state = State(u)
    BY <1>1 DEF State
  <1>9. State(t) = "started" /\ t \in With("tool.requested") /\ t \in With("operation.started")
    BY <1>0, <1>1 DEF WorkerOK, Runners
  <1>10. \A u \in Turns : Effect(u) => Effect(u)'
    <2>1. \A v \in Workers : worker'[v].at \in Undecided =>
                worker[v].at \in Undecided /\ worker'[v].turn = worker[v].turn
      BY <1>1 DEF Undecided
    <2> QED BY <1>8, <2>1, EffectKept
  <1>11. \A v \in Workers : v # w => ~(worker[v].turn = t /\ worker[v].at \in Runners)
    BY <1>0, <1>1 DEF OneRunner, Runners
  <1> HIDE DEF t
  <1>12. \A x : x = t => Effect(x)'
    <2>1. \A v \in Workers : worker'[v].turn = t => worker'[v].at \notin {"started", "run"}
      BY <1>1, <1>11 DEF Runners
    <2>2. ledger'[t].state = "started"
      BY <1>1, <1>8, <1>9
    <2>3. ASSUME NEW x, x = t PROVE Effect(x)'
      BY <2>1, <2>2, <2>3 DEF Effect, State
    <2> QED BY <2>3
  <1>13. \A u : Level(u)' = Level(u)
    BY <1>1 DEF Level
  <1>14. WorldInv'
    <2>1. \A u \in world : /\ u \in With("tool.requested")' /\ Effect(u)'
                           /\ Level(u)' \notin LocalEffects \cup ReadOnly
      <3>1. world \subseteq Turns
        BY <1>0 DEF SourceTypes
      <3> QED BY <1>0, <1>7, <1>10, <1>13, <3>1 DEF WorldInv
    <2>2. ASSUME NEW u \in world'
          PROVE  /\ u \in With("tool.requested")' /\ Effect(u)'
                 /\ Level(u)' \notin LocalEffects \cup ReadOnly
      <3>1. CASE u \in world
        BY <2>1, <3>1
      <3>2. CASE u \notin world
        <4>1. u = t /\ Level(t) \notin LocalEffects \cup ReadOnly
          BY <1>2, <3>2
        <4> QED BY <1>7, <1>9, <1>12, <1>13, <4>1
      <3> QED BY <3>1, <3>2
    <2> QED BY <2>2 DEF WorldInv
  <1>15. WorkspaceInv'
    <2>1. CASE Level(t) \in LocalEffects
      <3>1. t \notin Settled /\ Settled' = Settled
        BY <1>0, <1>1, <1>7, <1>9 DEF LedgerInv, RowOK, Settled
      <3>2. t \in Touched'
        <4>1. \A u : u \in Touched' <=> /\ u \in With("tool.requested")' /\ u \notin Settled'
                                        /\ Level(u)' \in LocalEffects /\ Effect(u)'
          BY DEF Touched
        <4>2. ASSUME NEW x, x = t PROVE x \in Touched'
          BY <1>7, <1>9, <1>12, <1>13, <2>1, <3>1, <4>1, <4>2
        <4> QED BY <4>2
      <3>3. ASSUME NEW u \in Touched', Touched' = {u}
            PROVE  /\ ledger'[u].state \in {"succeeded", "failed"} => ledger'[u].result = ws'
                   /\ \A v \in Workers : worker'[v].at \in {"succeeded", "failed"} /\ worker'[v].turn = u =>
                                         worker'[v].out = ws'
        <4>1. u = t
          BY <3>2, <3>3
        <4>2. ledger'[u].state = "started"
          BY <1>1, <1>8, <1>9, <4>1
        <4> QED BY <1>1, <1>11, <4>1, <4>2 DEF Runners
      <3> QED BY <3>2, <3>3 DEF WorkspaceInv, State
    <2>2. CASE Level(t) \notin LocalEffects
      <3>1. ws' = ws
        BY <1>1, <2>2
      <3>2. \A v \in Workers : worker'[v].at \in {"succeeded", "failed"} =>
                worker'[v] = worker[v] \/ Level(worker'[v].turn) \notin LocalEffects
        BY <1>1, <2>2
      <3>3. Neutral
        BY <1>1, <1>7, <1>8, <1>10, <3>1, <3>2 DEF Neutral, Settled
      <3> QED BY <1>0, <1>6, <3>3, WorkspaceNeutral
    <2> QED BY <2>1, <2>2
  <1> QED BY <1>3, <1>4, <1>5, <1>6, <1>14, <1>15 DEF SourceInv

(* A step that leaves the source run alone keeps its invariant.            *)
LEMMA SourceFrame ==
    ASSUME SourceInv, UNCHANGED source
    PROVE  SourceInv'
  <1>1. /\ log' = log /\ ledger' = ledger /\ ws' = ws /\ world' = world
        /\ worker' = worker /\ holder' = holder
    BY DEF source
  <1>2. SourceTypes' /\ OneRunner'
    BY <1>1 DEF SourceInv, SourceTypes, OneRunner
  <1>3. TurnInv'
    BY <1>1, TurnFrame DEF SourceInv, TurnInv
  <1>4. LedgerInv'
    BY <1>1, LedgerFrame DEF SourceInv
  <1>5. WorkspaceInv' /\ WorldInv'
    BY <1>1, <1>4, QuietStep
  <1>6. ASSUME NEW v \in Workers PROVE WorkerOK(v)'
    <2>1. Extended /\ \A x : With(x)' = With(x)
      BY <1>1, NothingNoted
    <2>2. \A u \in Turns : ledger'[u].state = State(u)
      BY <1>1 DEF State
    <2> QED BY <1>1, <2>1, <2>2, WorkerFrame DEF SourceInv
  <1> QED BY <1>2, <1>3, <1>4, <1>5, <1>6 DEF SourceInv

(* Every step of the source run keeps its invariant.                       *)
LEMMA SourceStepKeeps ==
    ASSUME SourceInv, SourceStep
    PROVE  SourceInv'
  <1>1. CASE \E w \in Workers :
                \/ ClaimTurn(w) \/ ResumeTurn(w) \/ SettleLedger(w) \/ Rest(w)
                \/ Start(w) \/ StartUnheard(w)
    BY <1>1, SourceClaim, SourceResume, SourceSettle, SourceRest, SourceStart, SourceUnheard
  <1>2. CASE \E w \in Workers : \E outcome \in {"succeeded", "failed", "unsure"} : RunTool(w, outcome)
    BY <1>2, SourceRun
  <1>3. CASE \E w \in Workers : \E type \in FactTypes, d \in Data, next \in Places : Record(w, type, d, next)
    BY <1>3, SourceRecord, SourceComplete
  <1>4. CASE Lapse
    BY <1>4, SourceLapse
  <1>5. CASE UNCHANGED source
    BY <1>5, SourceFrame
  <1> QED BY <1>1, <1>2, <1>3, <1>4, <1>5 DEF SourceStep

(* A fact written, or not, by a handler.                                   *)
LEMMA WriteIs ==
    ASSUME SourceInv, NEW w \in Workers, NEW type, NEW d, NEW next \in Places,
           Write(w, type, d, next), UNCHANGED <<ledger, ws, world>>,
           holder = w => Recordable(w, type, d, next)
    PROVE  SourceStep
  <1>1. CASE holder = w /\ Noted(w, type, d) /\ Moved(w, next)
             /\ holder' = (IF next = "idle" THEN None ELSE holder)
    <2>1. Record(w, type, d, next)
      BY <1>1 DEF Record
    <2>2. type \in FactTypes /\ d \in Data
      BY <2>1, RecordKnows DEF SourceInv
    <2> QED BY <2>1, <2>2 DEF SourceStep
  <1>2. CASE /\ holder # w /\ Moved(w, "idle")
             /\ UNCHANGED <<log, holder>>
    <2>1. Rest(w)
      BY <1>2 DEF Rest
    <2> QED BY <2>1 DEF SourceStep
  <1> QED BY <1>1, <1>2 DEF Write, Noted, Moved

(* Every action of a handler is a step of the source run.                  *)
LEMMA HandlerStep ==
    ASSUME SourceInv, NEW w \in Workers, Handler(w)
    PROVE  SourceStep
  <1>0. LedgerInv /\ SourceTypes /\ WorkerOK(w) /\ TurnInv
    BY DEF SourceInv
  <1>1. CASE AskModel(w)
    <2>1. Recordable(w, "model.requested", None, "asked")
      BY <1>1 DEF AskModel, Is, Has, Recordable, With
    <2> QED BY <1>1, <2>1, WriteIs DEF AskModel, Places
  <1>2. CASE ResumeTurn(w)
    BY <1>2 DEF SourceStep
  <1>3. CASE ModelAnswers(w)
    <2>1. PICK level \in Levels : Write(w, "model.completed", level, "act")
      BY <1>3 DEF ModelAnswers
    <2>2. Recordable(w, "model.completed", level, "act")
      BY <1>3 DEF ModelAnswers, Is, Recordable
    <2> QED BY <1>3, <2>1, <2>2, WriteIs DEF ModelAnswers, Places
  <1>4. CASE StartOperation(w)
    <2> DEFINE t == worker[w].turn
               d == DataOf(log, "model.completed", t)
    <2>0. /\ worker[w].at = "act" /\ t \in Turns /\ UNCHANGED <<ws, world>>
      BY <1>0, <1>4 DEF StartOperation, Is, WorkerOK
    <2>1. CASE ledger[t] = NoOperation /\ ledger' = [ledger EXCEPT ![t].state = "started"]
               /\ Write(w, "operation.started", d, "started")
      <3>1. Begun(w)
        BY <2>0, <2>1 DEF Begun, State, NoOperation
      <3>2. CASE holder = w
        <4>1. /\ Noted(w, "operation.started", d) /\ Moved(w, "started") /\ holder' = holder
          BY <2>1, <3>2 DEF Write, Noted, Moved
        <4>2. Start(w)
          BY <3>1, <3>2, <4>1 DEF Start
        <4> QED BY <4>2 DEF SourceStep
      <3>3. CASE holder # w
        <4>1. Moved(w, "idle") /\ UNCHANGED <<log, holder>>
          BY <2>1, <3>3 DEF Write, Moved
        <4>2. StartUnheard(w)
          BY <3>1, <3>3, <4>1 DEF StartUnheard
        <4> QED BY <4>2 DEF SourceStep
      <3> QED BY <3>2, <3>3
    <2>2. CASE Write(w, "operation.unknown", None, "idle") /\ UNCHANGED ledger
      <3>1. ASSUME holder = w PROVE State(t) \notin {"succeeded", "failed"}
        <4>1. t \notin With("operation.started")
          BY <1>0, <2>0, <3>1 DEF WorkerOK
        <4>2. t \notin With("tool.requested")
          BY <1>0, <4>1 DEF LedgerInv
        <4> QED BY <1>0, <2>0, <4>2 DEF LedgerInv, RowOK
      <3>2. holder = w => Recordable(w, "operation.unknown", None, "idle")
        BY <2>0, <3>1 DEF Recordable
      <3> QED BY <2>0, <2>2, <3>2, WriteIs DEF Places
    <2> QED BY <1>4, <2>1, <2>2 DEF StartOperation
  <1>5. CASE RequestTool(w)
    <2>1. Recordable(w, "tool.requested", None, "run")
      BY <1>5 DEF RequestTool, Is, Recordable
    <2> QED BY <1>5, <2>1, WriteIs DEF RequestTool, Places
  <1>6. CASE \E outcome \in {"succeeded", "failed", "unsure"} : RunTool(w, outcome)
    BY <1>6 DEF SourceStep
  <1>7. CASE SettleLedger(w)
    BY <1>7 DEF SourceStep
  <1>8. CASE RecordResult(w)
    <2> DEFINE t == worker[w].turn
    <2>0. UNCHANGED <<ledger, ws, world>>
      BY <1>8 DEF RecordResult
    <2>1. CASE Is(w, "result") /\ Write(w, "tool.completed", None, "close")
      <3>1. Recordable(w, "tool.completed", None, "close")
        BY <1>0, <2>1 DEF Is, WorkerOK, Recordable
      <3> QED BY <2>0, <2>1, <3>1, WriteIs DEF Places
    <2>2. CASE Is(w, "close") /\ Write(w, "operation.completed", ledger[t].result, "idle")
      <3>1. Recordable(w, "operation.completed", ledger[t].result, "idle")
        BY <2>2 DEF Is, Recordable
      <3> QED BY <2>0, <2>2, <3>1, WriteIs DEF Places
    <2>3. CASE Is(w, "refused") /\ Write(w, "tool.failed", None, "closeFailed")
      <3>1. Recordable(w, "tool.failed", None, "closeFailed")
        BY <2>3 DEF Is, Recordable
      <3> QED BY <2>0, <2>3, <3>1, WriteIs DEF Places
    <2>4. CASE Is(w, "closeFailed") /\ Write(w, "operation.failed", ledger[t].result, "idle")
      <3>1. Recordable(w, "operation.failed", ledger[t].result, "idle")
        BY <1>0, <2>4 DEF Is, WorkerOK, Recordable
      <3> QED BY <2>0, <2>4, <3>1, WriteIs DEF Places
    <2>5. CASE Is(w, "doubt") /\ Write(w, "operation.unknown", None, "idle")
      <3>1. Recordable(w, "operation.unknown", None, "idle")
        BY <1>0, <2>5 DEF Is, WorkerOK, Recordable
      <3> QED BY <2>0, <2>5, <3>1, WriteIs DEF Places
    <2> QED BY <1>8, <2>1, <2>2, <2>3, <2>4, <2>5 DEF RecordResult
  <1>9. CASE RecoverOperation(w)
    <2> DEFINE t == worker[w].turn
    <2>0. UNCHANGED <<ledger, ws, world>> /\ Is(w, "turn")
      BY <1>9 DEF RecoverOperation
    <2>1. CASE State(t) = "succeeded" /\ Write(w, "tool.completed", None, "close")
      <3>1. Recordable(w, "tool.completed", None, "close")
        BY <2>0, <2>1 DEF Is, Recordable
      <3> QED BY <2>0, <2>1, <3>1, WriteIs DEF Places
    <2>2. CASE State(t) = "failed" /\ Write(w, "operation.failed", ledger[t].result, "idle")
      <3>1. Recordable(w, "operation.failed", ledger[t].result, "idle")
        BY <2>0, <2>2 DEF Is, Recordable
      <3> QED BY <2>0, <2>2, <3>1, WriteIs DEF Places
    <2>3. CASE State(t) \notin {"succeeded", "failed"} /\ Write(w, "operation.unknown", None, "idle")
      <3>1. Recordable(w, "operation.unknown", None, "idle")
        BY <2>0, <2>3 DEF Is, Recordable
      <3> QED BY <2>0, <2>3, <3>1, WriteIs DEF Places
    <2> QED BY <1>9, <2>1, <2>2, <2>3 DEF RecoverOperation, State
  <1> QED BY <1>1, <1>2, <1>3, <1>4, <1>5, <1>6, <1>7, <1>8, <1>9 DEF Handler

(* A crash and a lost claim are steps of the source run.                   *)
LEMMA LossStep ==
    ASSUME SourceInv
    PROVE  /\ \A w \in Workers : WorkerCrash(w) => SourceStep
           /\ LapseOrphan \/ LapseClaim => SourceStep
  <1>1. ASSUME NEW w \in Workers, WorkerCrash(w) PROVE SourceStep
    <2>1. Rest(w)
      BY <1>1, NotWorkers DEF WorkerCrash, Rest, Moved
    <2> QED BY <2>1 DEF SourceStep
  <1>2. LapseOrphan \/ LapseClaim => SourceStep
    BY DEF LapseOrphan, LapseClaim, SourceStep, Lapse
  <1> QED BY <1>1, <1>2

-----------------------------------------------------------------------------
(* The calls.                                                              *)
LEMMA NotCallers == None \notin Callers /\ None \notin Contents /\ Garbage \notin Contents
  BY CheckpointConstants

(* What the calls see of a step of the source run.                         *)
SourceMoves ==
    /\ \/ log' = log
       \/ holder \in Workers /\ \E f \in Facts : log' = Append(log, f)
    /\ holder = None => holder' = None \/ barrier = None

(* What a step of the source run does to the log and to the claim.         *)
LEMMA SourceStepMoves ==
    ASSUME SourceInv, SourceStep
    PROVE  SourceMoves
  <1>0. SourceTypes /\ TurnInv /\ LedgerInv /\ \A w \in Workers : WorkerOK(w)
    BY DEF SourceInv
  <1>1. CASE \E w \in Workers : ClaimTurn(w)
    BY <1>1 DEF ClaimTurn, Admitted, SourceMoves
  <1>2. CASE \E w \in Workers : ResumeTurn(w)
    BY <1>2 DEF ResumeTurn, SourceMoves
  <1>3. CASE \E w \in Workers : SettleLedger(w)
    BY <1>3 DEF SettleLedger, SourceMoves
  <1>4. CASE \E w \in Workers : Rest(w)
    BY <1>4 DEF Rest, SourceMoves
  <1>5. CASE \E w \in Workers : StartUnheard(w)
    BY <1>5 DEF StartUnheard, SourceMoves
  <1>6. CASE \E w \in Workers : Start(w)
    <2>1. PICK w \in Workers : Start(w)
      BY <1>6
    <2> DEFINE d == DataOf(log, "model.completed", worker[w].turn)
               f == Fact("operation.started", worker[w].turn, d)
    <2>2. log' = Append(log, f) /\ holder = w /\ holder' = holder
      BY <2>1 DEF Start, Noted
    <2>3. d \in Data
      BY <1>0, <2>1, StartKnows
    <2>4. worker[w].turn \in 0 .. MaxTurns
      BY <1>0, ThreadType
    <2> HIDE DEF d
    <2>5. f \in Facts
      BY <2>3, <2>4, FactIs DEF FactTypes
    <2> HIDE DEF f
    <2> QED BY <2>2, <2>5, NotWorkers DEF SourceMoves
  <1>7. CASE \E w \in Workers : \E outcome \in {"succeeded", "failed", "unsure"} : RunTool(w, outcome)
    BY <1>7 DEF RunTool, SourceMoves
  <1>8. CASE \E w \in Workers : \E type \in FactTypes, d \in Data, next \in Places : Record(w, type, d, next)
    <2>1. PICK w \in Workers, type \in FactTypes, d \in Data, next \in Places : Record(w, type, d, next)
      BY <1>8
    <2> DEFINE f == Fact(type, worker[w].turn, d)
    <2>2. log' = Append(log, f) /\ holder = w
      BY <2>1 DEF Record, Noted
    <2>3. worker[w].turn \in 0 .. MaxTurns
      BY <1>0, ThreadType
    <2>4. f \in Facts
      BY <2>3, FactIs
    <2> HIDE DEF f
    <2> QED BY <2>2, <2>4, NotWorkers DEF SourceMoves
  <1>9. CASE Lapse
    BY <1>9 DEF Lapse, SourceMoves
  <1>10. CASE UNCHANGED source
    BY <1>10 DEF source, SourceMoves
  <1> QED BY <1>1, <1>2, <1>3, <1>4, <1>5, <1>6, <1>7, <1>8, <1>9, <1>10 DEF SourceStep

(* A prefix that was read stays what it was.                               *)
LEMMA PrefixStays ==
    ASSUME SourceTypes, SourceMoves, NEW n \in 1 .. Len(log)
    PROVE  Prefix(n)' = Prefix(n) /\ n \in 1 .. Len(log')
  <1>1. CASE log' = log
    BY <1>1 DEF Prefix
  <1>2. CASE \E f \in Facts : log' = Append(log, f)
    <2>1. PICK f \in Facts : log' = Append(log, f)
      BY <1>2
    <2>2. log \in Seq(Facts) /\ n \in 0 .. Len(log)
      BY DEF SourceTypes
    <2>3. SubSeq(log', 1, n) = SubSeq(log, 1, n)
      BY <2>1, <2>2, PrefixKept
    <2>4. Len(log') = Len(log) + 1 /\ Len(log) \in Nat
      BY <2>1, <2>2, AppendIs
    <2> QED BY <2>3, <2>4 DEF Prefix
  <1> QED BY <1>1, <1>2 DEF SourceMoves

(* A call keeps what it knows while the source run moves on.               *)
LEMMA CallParts ==
    ASSUME NEW c, CallOK(c)
    PROVE  /\ job[c].at # "idle" => job[c].q \in Requests
           /\ job[c].at \in {"create", "scan"} /\ barrier = c => holder = None
           /\ job[c].at = "scan" /\ barrier = c => job[c].count = Len(log)
           /\ job[c].at \in {"scan", "request"} =>
                 job[c].count \in 1 .. Len(log) /\ Safe(Prefix(job[c].count))
           /\ job[c].at = "request" => job[c].object \in Contents
           /\ job[c].at = "request" /\ job[c].kept => job[c].object = ContentOf(Prefix(job[c].count))
           /\ job[c].at = "commit" => contract[job[c].q] # NoContract
           /\ job[c].at \in Restoring =>
                 contract[job[c].q] # NoContract /\ contract[job[c].q].blockers = {}
           /\ job[c].at \in {"prepare", "assign", "record", "deliver"} => fork[job[c].q].ws # None
  BY DEF CallOK

(* The calls and the forks beside a step of the source run.                *)
LEMMA BesideSource ==
    ASSUME IInv, SourceMoves, UNCHANGED <<capture, objects, job, fork>>, faults' \in 0 .. MaxFaults
    PROVE  /\ CallTypes' /\ \A c \in Callers : CallOK(c)'
           /\ \A q \in Requests : ContractOK(q)' /\ ForkOK(q)'
  <1>0. /\ SourceTypes /\ CallTypes /\ \A c \in Callers : CallOK(c)
        /\ \A q \in Requests : ContractOK(q) /\ ForkOK(q)
    BY DEF IInv, SourceInv
  <1>1. /\ barrier' = barrier /\ contract' = contract /\ committed' = committed
        /\ quiet' = quiet /\ objects' = objects /\ job' = job /\ fork' = fork
    BY DEF capture
  <1>2. CallTypes'
    BY <1>0, <1>1 DEF CallTypes
  <1>3. \A n \in 1 .. Len(log) : Prefix(n)' = Prefix(n) /\ n \in 1 .. Len(log')
    BY <1>0, PrefixStays
  <1>4. ASSUME NEW c \in Callers PROVE CallOK(c)'
    <2> DEFINE q == job[c].q
               n == job[c].count
               at == job[c].at
    <2>1. CallOK(c)
      BY <1>0
    <2>2. /\ at # "idle" => q \in Requests
          /\ at \in {"create", "scan"} /\ barrier = c => holder = None
          /\ at = "scan" /\ barrier = c => n = Len(log)
          /\ at \in {"scan", "request"} => n \in 1 .. Len(log) /\ Safe(Prefix(n))
          /\ at = "request" => job[c].object \in Contents
          /\ at = "request" /\ job[c].kept => job[c].object = ContentOf(Prefix(n))
          /\ at = "commit" => contract[q] # NoContract
          /\ at \in Restoring => contract[q] # NoContract /\ contract[q].blockers = {}
          /\ at \in {"prepare", "assign", "record", "deliver"} => fork[q].ws # None
      BY <2>1, CallParts
    <2> HIDE DEF q, n, at
    <2>3. at \in {"create", "scan"} /\ barrier = c => holder' = None
      BY <2>2, NotCallers DEF SourceMoves
    <2>4. at = "scan" /\ barrier = c => n = Len(log')
      BY <2>2, NotWorkers DEF SourceMoves
    <2>5. at \in {"scan", "request"} => n \in 1 .. Len(log') /\ SubSeq(log', 1, n) = Prefix(n)
      BY <1>3, <2>2 DEF Prefix
    <2>6. at \in {"scan", "request"} => Safe(SubSeq(log', 1, n))
      BY <2>2, <2>5
    <2>7. at = "request" /\ job[c].kept => job[c].object = ContentOf(SubSeq(log', 1, n))
      BY <2>2, <2>5
    <2> QED BY <1>1, <2>2, <2>3, <2>4, <2>5, <2>6, <2>7 DEF CallOK, Prefix, q, n, at
  <1>5. ASSUME NEW q \in Requests PROVE ContractOK(q)'
    <2> DEFINE n == contract[q].count
    <2>1. ContractOK(q)
      BY <1>0
    <2>2. CASE contract[q] = NoContract
      BY <1>1, <2>2 DEF ContractOK
    <2>3. CASE contract[q] # NoContract
      <3>1. n \in 1 .. Len(log)
        BY <2>1, <2>3 DEF ContractOK
      <3>2. n \in 1 .. Len(log') /\ SubSeq(log', 1, n) = Prefix(n)
        BY <1>3, <3>1 DEF Prefix
      <3>3. /\ Safe(SubSeq(log', 1, n)) /\ contract[q].blockers = Blockers(SubSeq(log', 1, n))
            /\ contract[q].object \in Contents
            /\ quiet[q] => contract[q].object = ContentOf(SubSeq(log', 1, n))
        BY <2>1, <2>3, <3>2 DEF ContractOK
      <3> QED BY <1>1, <3>2, <3>3 DEF ContractOK, Prefix
    <2> QED BY <2>2, <2>3
  <1>6. ASSUME NEW q \in Requests PROVE ForkOK(q)'
    BY <1>0, <1>1 DEF ForkOK
  <1> QED BY <1>2, <1>4, <1>5, <1>6

(* A call, a contract and a fork beside a step of another.                 *)
Beside ==
    /\ UNCHANGED source
    /\ \A q \in Requests : contract[q] # NoContract => contract'[q] = contract[q]
    /\ \A q \in Requests : fork[q].ws # None => fork'[q].ws # None

(* A call that did not move keeps what it knows.                           *)
LEMMA CallFrame ==
    ASSUME NEW c \in Callers, CallOK(c), job'[c] = job[c], barrier' = c => barrier = c, Beside
    PROVE  CallOK(c)'
  <1> DEFINE q == job[c].q
             n == job[c].count
             at == job[c].at
  <1>1. /\ at # "idle" => q \in Requests
        /\ at \in {"create", "scan"} /\ barrier = c => holder = None
        /\ at = "scan" /\ barrier = c => n = Len(log)
        /\ at \in {"scan", "request"} => n \in 1 .. Len(log) /\ Safe(Prefix(n))
        /\ at = "request" => job[c].object \in Contents
        /\ at = "request" /\ job[c].kept => job[c].object = ContentOf(Prefix(n))
        /\ at = "commit" => contract[q] # NoContract
        /\ at \in Restoring => contract[q] # NoContract /\ contract[q].blockers = {}
        /\ at \in {"prepare", "assign", "record", "deliver"} => fork[q].ws # None
    BY CallParts
  <1> HIDE DEF q, n, at
  <1>2. log' = log /\ holder' = holder
    BY DEF Beside, source
  <1>3. /\ at = "commit" => contract'[q] # NoContract
        /\ at \in Restoring => contract'[q] # NoContract /\ contract'[q].blockers = {}
        /\ at \in {"prepare", "assign", "record", "deliver"} => fork'[q].ws # None
    BY <1>1 DEF Beside, Restoring
  <1> QED BY <1>1, <1>2, <1>3 DEF CallOK, Prefix, q, n, at

(* A contract stays true of the prefix it names.                           *)
LEMMA ContractFrame ==
    ASSUME NEW q \in Requests, ContractOK(q), contract'[q] = contract[q], quiet'[q] = quiet[q],
           log' = log
    PROVE  ContractOK(q)'
  BY DEF ContractOK, Prefix

(* A fork that did not move stays what its contract says.                  *)
LEMMA ForkFrame ==
    ASSUME NEW q \in Requests, ForkOK(q), fork'[q] = fork[q], Beside,
           q \in committed' => q \in committed \/ contract[q] # NoContract
    PROVE  ForkOK(q)'
  <1>1. contract[q] # NoContract => contract'[q] = contract[q]
    BY DEF Beside
  <1>2. contract[q] = NoContract => q \notin committed /\ fork[q].ws = None
    BY DEF ForkOK
  <1>3. CASE contract[q] # NoContract
    BY <1>1, <1>3 DEF ForkOK
  <1>4. CASE contract[q] = NoContract
    BY <1>2, <1>4 DEF ForkOK
  <1> QED BY <1>3, <1>4

-----------------------------------------------------------------------------
(* One call goes on.                                                       *)
OneCall(c) == job' \in [Callers -> Calls] /\ \A b \in Callers : b # c => job'[b] = job[b]

(* A caller that takes up a call changes its own record only.              *)
LEMMA BecomeIs ==
    ASSUME CallTypes, NEW c \in Callers, NEW j \in Calls, job' = [job EXCEPT ![c] = j]
    PROVE  OneCall(c) /\ job'[c] = j
  BY DEF CallTypes, OneCall

(* The fields of a call.                                                   *)
LEMMA CallType ==
    ASSUME CallTypes, NEW c \in Callers
    PROVE  /\ job[c] \in Calls
           /\ job[c].at \in {"idle"} \cup Creating \cup Restoring
           /\ job[c].q \in Requests \cup {None} /\ job[c].count \in Nat
           /\ job[c].object \in Contents \cup {None} /\ job[c].kept \in BOOLEAN
  BY DEF CallTypes, Calls

(* A call that moves on keeps its request and what it has read.            *)
LEMMA ContinueIs ==
    ASSUME CallTypes, NEW c \in Callers, NEW at \in {"idle"} \cup Creating \cup Restoring,
           Continue(c, at)
    PROVE  /\ OneCall(c) /\ job'[c].at = at /\ job'[c].q = job[c].q
           /\ job'[c].count = job[c].count /\ job'[c].object = job[c].object
           /\ job'[c].kept = job[c].kept
  <1> DEFINE j == [job[c] EXCEPT !.at = at]
  <1>1. job' = [job EXCEPT ![c] = j]
    BY DEF Continue
  <1>2. job[c] \in Calls
    BY CallType
  <1>3. /\ j \in Calls /\ j.at = at /\ j.q = job[c].q /\ j.count = job[c].count
        /\ j.object = job[c].object /\ j.kept = job[c].kept
    BY <1>2 DEF Calls
  <1> HIDE DEF j
  <1>4. OneCall(c) /\ job'[c] = j
    BY <1>1, <1>3, BecomeIs
  <1> QED BY <1>3, <1>4

(* A caller without a call has a record of the right type.                 *)
LEMMA NoCallType == NoCall \in Calls /\ NoCall.at = "idle"
  BY DEF NoCall, Calls

(* A call that ends leaves its caller without one.                         *)
LEMMA HangUpIs ==
    ASSUME CallTypes, NEW c \in Callers, HangUp(c)
    PROVE  OneCall(c) /\ job'[c] = NoCall
  BY NoCallType, BecomeIs DEF HangUp

(* A caller without a call owes nothing.                                   *)
LEMMA IdleOK ==
    ASSUME NEW c, job'[c] = NoCall PROVE CallOK(c)'
  BY DEF CallOK, NoCall, Restoring

(* A call that is about to release the barrier owes nothing.               *)
LEMMA LeavingOK ==
    ASSUME NEW c, job'[c].at = "leave", job'[c].q \in Requests PROVE CallOK(c)'
  BY DEF CallOK, Restoring

(* The calls of the others.                                                *)
LEMMA OtherCalls ==
    ASSUME IInv, NEW c \in Callers, OneCall(c), CallOK(c)', Beside,
           barrier' \in {barrier, None, c}
    PROVE  \A b \in Callers : CallOK(b)'
  <1>1. ASSUME NEW b \in Callers, b # c PROVE CallOK(b)'
    <2>1. CallOK(b) /\ job'[b] = job[b]
      BY <1>1 DEF IInv, OneCall
    <2>2. barrier' = b => barrier = b
      BY <1>1, NotCallers
    <2> QED BY <2>1, <2>2, CallFrame
  <1> QED BY <1>1

(* A step of a call that writes no contract and no fork.                   *)
LEMMA CallOnly ==
    ASSUME IInv, NEW c \in Callers, OneCall(c), CallOK(c)', UNCHANGED source,
           barrier' \in {barrier, None, c},
           objects' \in [Contents -> Contents \cup {None, Garbage}],
           UNCHANGED <<contract, committed, quiet, fork>>, faults' \in 0 .. MaxFaults
    PROVE  IInv'
  <1>1. Beside
    BY DEF Beside
  <1>2. \A b \in Callers : CallOK(b)'
    BY <1>1, OtherCalls
  <1>3. CallTypes'
    BY DEF IInv, CallTypes, OneCall
  <1>4. SourceInv'
    BY SourceFrame DEF IInv
  <1>5. ASSUME NEW q \in Requests PROVE ContractOK(q)'
    BY ContractFrame DEF IInv, source
  <1>6. ASSUME NEW q \in Requests PROVE ForkOK(q)'
    BY <1>1, ForkFrame DEF IInv
  <1> QED BY <1>2, <1>3, <1>4, <1>5, <1>6 DEF IInv

(* A step without a fault leaves the number of faults in its bound.        *)
LEMMA FaultsStay == ASSUME CallTypes, faults' = faults PROVE faults' \in 0 .. MaxFaults
  BY DEF CallTypes

(* A fault leaves the number of faults in its bound.                       *)
LEMMA FaultsGrow == ASSUME CallTypes, Fault PROVE faults' \in 0 .. MaxFaults
  BY CheckpointConstants DEF CallTypes, Fault

(* Taking the capture barrier.                                             *)
LEMMA AcquireKeeps ==
    ASSUME IInv, NEW c \in Callers, NEW q \in Requests, AcquireBarrier(c, q)
    PROVE  IInv'
  <1> DEFINE j == [NoCall EXCEPT !.at = "wait", !.q = q]
  <1>1. /\ job' = [job EXCEPT ![c] = j] /\ barrier' = c
        /\ UNCHANGED source /\ objects' = objects /\ faults' = faults
        /\ UNCHANGED <<contract, committed, quiet, fork>>
    BY DEF AcquireBarrier
  <1>2. j \in Calls /\ j.at = "wait" /\ j.q = q
    BY NoCallType DEF Calls, Creating
  <1> HIDE DEF j
  <1>3. OneCall(c) /\ job'[c] = j
    BY <1>1, <1>2, BecomeIs DEF IInv
  <1>4. CallOK(c)'
    BY <1>2, <1>3 DEF CallOK, Restoring
  <1> QED BY <1>1, <1>3, <1>4, CallOnly, FaultsStay DEF IInv, CallTypes

(* Waiting for the claims of the run to be gone.                           *)
LEMMA QuiesceKeeps ==
    ASSUME IInv, NEW c \in Callers, Quiesce(c)
    PROVE  IInv'
  <1>0. CallTypes /\ CallOK(c)
    BY DEF IInv
  <1> DEFINE next == IF holder = None THEN "create" ELSE "leave"
  <1>1. /\ job[c].at = "wait" /\ Continue(c, next)
        /\ UNCHANGED <<source, capture, objects, fork, faults>>
    BY DEF Quiesce, Calling
  <1>2. next \in {"create", "leave"} /\ (next = "create" => holder = None)
    OBVIOUS
  <1> HIDE DEF next
  <1>3. OneCall(c) /\ job'[c].at = next /\ job'[c].q = job[c].q
    BY <1>0, <1>1, <1>2, ContinueIs DEF Creating
  <1>4. job[c].q \in Requests
    BY <1>0, <1>1, CallParts
  <1>5. CallOK(c)'
    BY <1>1, <1>2, <1>3, <1>4 DEF CallOK, Restoring, source
  <1> QED BY <1>0, <1>1, <1>3, <1>5, CallOnly, FaultsStay DEF CallTypes, capture

(* Reading the log at the boundary, or refusing it.                        *)
LEMMA ReadBoundaryKeeps ==
    ASSUME IInv, NEW c \in Callers, ReadBoundary(c)
    PROVE  IInv'
  <1>0. CallTypes /\ CallOK(c) /\ SourceTypes
    BY DEF IInv, SourceInv
  <1>1. /\ job[c].at = "create"
        /\ UNCHANGED <<source, capture, objects, fork, faults>>
    BY DEF ReadBoundary, Calling
  <1>2. job[c].q \in Requests /\ (barrier = c => holder = None)
    BY <1>0, <1>1, CallParts
  <1>3. CASE contract[job[c].q] # NoContract /\ Continue(c, "commit")
    <2>1. OneCall(c) /\ job'[c].at = "commit" /\ job'[c].q = job[c].q
      BY <1>0, <1>3, ContinueIs DEF Creating
    <2>2. CallOK(c)'
      BY <1>1, <1>2, <1>3, <2>1 DEF CallOK, Restoring, capture
    <2> QED BY <1>0, <1>1, <2>1, <2>2, CallOnly, FaultsStay DEF CallTypes, capture
  <1>4. CASE Safe(log) /\ job' = [job EXCEPT ![c].at = "scan", ![c].count = Len(log)]
    <2> DEFINE j == [job[c] EXCEPT !.at = "scan", !.count = Len(log)]
    <2>1. job' = [job EXCEPT ![c] = j]
      BY <1>4
    <2>2. log \in Seq(Facts) /\ Len(log) \in Nat /\ Len(log) # 0
      BY <1>0 DEF SourceTypes
    <2>3. job[c] \in Calls
      BY <1>0, CallType
    <2>4. j \in Calls /\ j.at = "scan" /\ j.count = Len(log) /\ j.q = job[c].q
      BY <2>2, <2>3 DEF Calls, Creating
    <2> HIDE DEF j
    <2>5. OneCall(c) /\ job'[c] = j
      BY <1>0, <2>1, <2>4, BecomeIs
    <2>6. Len(log) \in 1 .. Len(log) /\ SubSeq(log, 1, Len(log)) = log
      BY <2>2, PrefixWhole
    <2>7. log' = log /\ holder' = holder /\ barrier' = barrier
      BY <1>1 DEF source, capture
    <2>8. CallOK(c)'
      BY <1>2, <1>4, <2>4, <2>5, <2>6, <2>7 DEF CallOK, Restoring, Prefix
    <2> QED BY <1>0, <1>1, <2>5, <2>8, CallOnly, FaultsStay DEF CallTypes, capture
  <1>5. CASE Continue(c, "leave")
    <2>1. OneCall(c) /\ job'[c].at = "leave" /\ job'[c].q = job[c].q
      BY <1>0, <1>5, ContinueIs DEF Creating
    <2>2. CallOK(c)'
      BY <1>2, <2>1, LeavingOK
    <2> QED BY <1>0, <1>1, <2>1, <2>2, CallOnly, FaultsStay DEF CallTypes, capture
  <1> QED BY <1>3, <1>4, <1>5 DEF ReadBoundary

(* Publishing an object leaves the store well typed.                       *)
LEMMA PublishIs ==
    ASSUME CallTypes, NEW x \in Contents, Publish(x)
    PROVE  objects' \in [Contents -> Contents \cup {None, Garbage}]
  BY DEF CallTypes, Publish, Digest

(* At a safe boundary the workspace is what the log tells of.              *)
LEMMA SafeIsClean ==
    ASSUME SourceInv, Safe(log)
    PROVE  ws = ContentOf(log)
  <1>0. SourceTypes /\ TurnInv /\ LedgerInv /\ WorkspaceInv
    BY DEF SourceInv
  <1>1. Touched = {}
    <2> SUFFICES ASSUME NEW t \in Touched PROVE FALSE
      OBVIOUS
    <2>1. t \in With("tool.requested") /\ t \notin Settled /\ Effect(t)
      BY DEF Touched
    <2>2. t \in Turns /\ t \in With("operation.started")
      BY <1>0, <2>1, TurnType DEF LedgerInv, With, FactTypes
    <2>3. RowOK(t)
      BY <1>0, <2>2 DEF LedgerInv
    <2>5. t \in Ended
      BY <2>2 DEF Safe, OpenOperations, With, Ended
    <2>6. t \in With("operation.unknown")
      BY <1>0, <2>1, <2>5, TurnType DEF Settled
    <2>7. t \in TurnsWith(log, {"tool.completed", "tool.failed"})
      BY <2>1 DEF Safe, With
    <2>8. t \in With("tool.completed") \cup With("tool.failed")
      BY <2>7 DEF With, TurnsWith
    <2> QED BY <2>3, <2>6, <2>8 DEF RowOK
  <1> QED BY <1>0, <1>1 DEF WorkspaceInv

(* Scanning the workspace: behind the barrier it is what the log read says. *)
LEMMA ScanKeeps ==
    ASSUME IInv, NEW c \in Callers, Scan(c)
    PROVE  IInv'
  <1>0. CallTypes /\ CallOK(c) /\ SourceInv /\ SourceTypes
    BY DEF IInv, SourceInv
  <1> DEFINE next == IF Publishable(ws) THEN "request" ELSE "leave"
             k == (barrier = c)
             j == [job[c] EXCEPT !.object = Digest(ws), !.kept = k, !.at = next]
             n == job[c].count
  <1>1. /\ job[c].at = "scan" /\ Publish(ws)
        /\ UNCHANGED <<source, capture, fork, faults>>
    BY DEF Scan, Calling
  <1>2. job' = [job EXCEPT ![c] = j]
    BY DEF Scan
  <1>3. next \in {"request", "leave"} /\ k \in BOOLEAN /\ ws \in Contents
    BY <1>0 DEF SourceTypes
  <1>4. k => barrier = c
    OBVIOUS
  <1> HIDE DEF next, k
  <1>5. job[c] \in Calls
    BY <1>0, CallType
  <1>6. /\ j \in Calls /\ j.at = next /\ j.object = ws /\ j.kept = k /\ j.q = job[c].q
        /\ j.count = n
    BY <1>3, <1>5 DEF Calls, Creating, Digest
  <1> HIDE DEF j
  <1>7. OneCall(c) /\ job'[c] = j
    BY <1>0, <1>2, <1>6, BecomeIs
  <1>8. /\ job[c].q \in Requests
        /\ barrier = c => n = Len(log)
        /\ n \in 1 .. Len(log) /\ Safe(Prefix(n))
    BY <1>0, <1>1, CallParts
  <1>9. k => ws = ContentOf(Prefix(n))
    <2>1. ASSUME k PROVE ws = ContentOf(Prefix(n))
      <3>1. Prefix(n) = log
        BY <1>0, <1>4, <1>8, <2>1, PrefixWhole DEF SourceTypes, Prefix
      <3> QED BY <1>0, <1>8, <3>1, SafeIsClean
    <2> QED BY <2>1
  <1>10. log' = log
    BY <1>1 DEF source
  <1> HIDE DEF n
  <1>11. CallOK(c)'
    BY <1>3, <1>6, <1>7, <1>8, <1>9, <1>10 DEF CallOK, Restoring, Prefix
  <1>12. objects' \in [Contents -> Contents \cup {None, Garbage}]
    BY <1>0, <1>1, <1>3, PublishIs
  <1> QED BY <1>0, <1>1, <1>7, <1>11, <1>12, CallOnly, FaultsStay DEF capture

(* What a step that changes contracts or forks leaves to be shown.         *)
LEMMA CallAndFork ==
    ASSUME IInv, NEW c \in Callers, OneCall(c), CallOK(c)', Beside, CallTypes',
           barrier' \in {barrier, None, c},
           \A q \in Requests : ContractOK(q)' /\ ForkOK(q)'
    PROVE  IInv'
  <1>1. \A b \in Callers : CallOK(b)'
    BY OtherCalls
  <1>2. SourceInv'
    BY SourceFrame DEF IInv, Beside
  <1> QED BY <1>1, <1>2 DEF IInv

(* The operations that forbid a fork are turns.                            *)
LEMMA BlockersType ==
    ASSUME SourceTypes, NEW n \in 1 .. Len(log)
    PROVE  Blockers(Prefix(n)) \subseteq 0 .. MaxTurns
  <1>1. log \in Seq(Facts) /\ n \in 0 .. Len(log)
    BY DEF SourceTypes
  <1>2. /\ DOMAIN Prefix(n) = 1 .. n
        /\ \A i \in 1 .. n : i \in DOMAIN log /\ Prefix(n)[i] = log[i]
    BY <1>1, PrefixIn DEF Prefix
  <1>3. ASSUME NEW t \in TurnsWith(Prefix(n), {"operation.started"}) PROVE t \in 0 .. MaxTurns
    <2>1. PICK i \in DOMAIN Prefix(n) : Prefix(n)[i].turn = t
      BY <1>3, TurnsWithIs
    <2>2. log[i] \in Facts /\ log[i].turn = t
      BY <1>1, <1>2, <2>1
    <2> QED BY <2>2 DEF Facts
  <1> QED BY <1>3 DEF Blockers

(* The fields of a contract and of a fork.                                 *)
LEMMA ContractType ==
    ASSUME CallTypes, NEW q \in Requests
    PROVE  /\ contract[q] \in Contracts /\ quiet[q] \in BOOLEAN /\ fork[q] \in Forks
           /\ contract[q].object \in Contents \cup {None}
           /\ fork[q].ws \in Contents \cup {None} /\ fork[q].began \in Contents \cup {None}
           /\ fork[q].facts \subseteq ForkFacts /\ fork[q].delivered \in BOOLEAN
  BY DEF CallTypes, Contracts, Forks

(* Recording the request with the boundary and the snapshot it found.      *)
LEMMA RecordRequestKeeps ==
    ASSUME IInv, NEW c \in Callers, RecordRequest(c)
    PROVE  IInv'
  <1> DEFINE q == job[c].q
             n == job[c].count
             o == job[c].object
             new == BuildContract(n, o)
             next == IF contract[q] \in {NoContract, new} THEN "commit" ELSE "leave"
             k == job[c].kept
  <1>0. CallTypes /\ CallOK(c) /\ SourceInv /\ SourceTypes
        /\ \A p \in Requests : ContractOK(p) /\ ForkOK(p)
    BY DEF IInv, SourceInv
  <1>1. /\ job[c].at = "request" /\ Continue(c, next)
        /\ UNCHANGED <<source, barrier, committed, objects, fork, faults>>
    BY DEF RecordRequest, Calling
  <1>2. /\ contract' = [contract EXCEPT ![q] = IF @ = NoContract THEN new ELSE @]
        /\ quiet' = [quiet EXCEPT ![q] = IF contract[q] = NoContract THEN k ELSE @]
    BY DEF RecordRequest
  <1>3. next \in {"commit", "leave"}
    OBVIOUS
  <1> HIDE DEF next
  <1>4. /\ q \in Requests /\ n \in 1 .. Len(log) /\ Safe(Prefix(n)) /\ o \in Contents
        /\ k => o = ContentOf(Prefix(n))
    BY <1>0, <1>1, CallParts
  <1>5. k \in BOOLEAN /\ n \in Nat
    BY <1>0, CallType
  <1>6. new = [count |-> n, object |-> o, blockers |-> Blockers(Prefix(n))]
    BY DEF BuildContract, Prefix
  <1>7. new \in Contracts /\ new # NoContract
    <2>1. Blockers(Prefix(n)) \in SUBSET (0 .. MaxTurns)
      BY <1>0, <1>4, BlockersType
    <2>2. new \in Contracts
      BY <1>4, <1>5, <1>6, <2>1 DEF Contracts
    <2>3. new.count # 0
      BY <1>4, <1>6
    <2> QED BY <2>2, <2>3 DEF NoContract
  <1>8. /\ new.count = n /\ new.object = o /\ new.blockers = Blockers(Prefix(n))
    BY <1>6
  <1> HIDE DEF new, q, k, o, n
  <1>9. contract \in [Requests -> Contracts] /\ quiet \in [Requests -> BOOLEAN]
    BY <1>0 DEF CallTypes
  <1>10. /\ contract' \in [Requests -> Contracts] /\ quiet' \in [Requests -> BOOLEAN]
         /\ \A p \in Requests : p # q \/ contract[p] # NoContract =>
               contract'[p] = contract[p] /\ quiet'[p] = quiet[p]
         /\ contract[q] = NoContract => contract'[q] = new /\ quiet'[q] = k
    BY <1>2, <1>4, <1>5, <1>7, <1>9
  <1>11. contract'[q] # NoContract
    BY <1>4, <1>7, <1>10
  <1>12. OneCall(c) /\ job'[c].at = next /\ job'[c].q = q
    BY <1>0, <1>1, <1>3, ContinueIs DEF Creating, q
  <1>13. CallOK(c)'
    BY <1>3, <1>4, <1>11, <1>12 DEF CallOK, Restoring
  <1>14. Beside
    BY <1>1, <1>10 DEF Beside
  <1>15. CallTypes'
    BY <1>0, <1>1, <1>10, <1>12 DEF CallTypes, OneCall
  <1>16. log' = log
    BY <1>1 DEF source
  <1>17. ASSUME NEW p \in Requests PROVE ContractOK(p)'
    <2>1. CASE p # q \/ contract[p] # NoContract
      BY <1>0, <1>10, <1>16, <2>1, ContractFrame
    <2>2. CASE p = q /\ contract[p] = NoContract
      <3>1. contract'[p] = new /\ quiet'[p] = k
        BY <1>10, <2>2
      <3> QED BY <1>4, <1>8, <1>16, <3>1 DEF ContractOK, Prefix
    <2> QED BY <2>1, <2>2
  <1>18. ASSUME NEW p \in Requests PROVE ForkOK(p)'
    BY <1>0, <1>1, <1>14, ForkFrame
  <1> QED BY <1>1, <1>12, <1>13, <1>14, <1>15, <1>17, <1>18, CallAndFork

(* Committing the checkpoint, or finding it committed.                     *)
LEMMA CommitCheckpointKeeps ==
    ASSUME IInv, NEW c \in Callers, CommitCheckpoint(c)
    PROVE  IInv'
  <1> DEFINE q == job[c].q
  <1>0. CallTypes /\ CallOK(c) /\ SourceInv /\ SourceTypes
        /\ \A p \in Requests : ContractOK(p) /\ ForkOK(p)
    BY DEF IInv, SourceInv
  <1>1. /\ job[c].at = "commit" /\ Continue(c, "leave")
        /\ committed' \in {committed, committed \cup {q}}
        /\ UNCHANGED <<source, barrier, contract, quiet, objects, fork, faults>>
    BY DEF CommitCheckpoint, Calling
  <1>2. q \in Requests /\ contract[q] # NoContract
    BY <1>0, <1>1, CallParts
  <1>3. OneCall(c) /\ job'[c].at = "leave" /\ job'[c].q = q
    BY <1>0, <1>1, ContinueIs DEF Creating
  <1>4. CallOK(c)'
    BY <1>2, <1>3, LeavingOK
  <1> HIDE DEF q
  <1>5. Beside
    BY <1>1 DEF Beside
  <1>6. CallTypes'
    BY <1>0, <1>1, <1>2, <1>3 DEF CallTypes, OneCall
  <1>7. ASSUME NEW p \in Requests PROVE ContractOK(p)' /\ ForkOK(p)'
    <2>1. ContractOK(p)'
      BY <1>0, <1>1, ContractFrame DEF source
    <2>2. p \in committed' => p \in committed \/ contract[p] # NoContract
      BY <1>1, <1>2
    <2>3. ForkOK(p)'
      BY <1>0, <1>1, <1>5, <2>2, ForkFrame
    <2> QED BY <2>1, <2>3
  <1> QED BY <1>1, <1>3, <1>4, <1>5, <1>6, <1>7, CallAndFork

(* Releasing the barrier.                                                  *)
LEMMA ReleaseKeeps ==
    ASSUME IInv, NEW c \in Callers, ReleaseBarrier(c)
    PROVE  IInv'
  <1>0. CallTypes
    BY DEF IInv
  <1>1. /\ HangUp(c) /\ barrier' \in {barrier, None}
        /\ UNCHANGED <<source, contract, committed, quiet, objects, fork, faults>>
    BY DEF ReleaseBarrier, HangUp
  <1>2. OneCall(c) /\ CallOK(c)'
    BY <1>0, <1>1, HangUpIs, IdleOK
  <1> QED BY <1>0, <1>1, <1>2, CallOnly, FaultsStay DEF CallTypes

(* A call that ends with nothing written.                                  *)
LEMMA HangUpKeeps ==
    ASSUME IInv, NEW c \in Callers, HangUp(c), UNCHANGED <<source, capture, fork>>,
           objects' \in [Contents -> Contents \cup {None, Garbage}], faults' \in 0 .. MaxFaults
    PROVE  IInv'
  <1>1. OneCall(c) /\ CallOK(c)'
    BY HangUpIs, IdleOK DEF IInv
  <1> QED BY <1>1, CallOnly DEF capture

(* A caller crashes; its barrier stays until it expires.                   *)
LEMMA CallerCrashKeeps ==
    ASSUME IInv, NEW c \in Callers, CallerCrash(c)
    PROVE  IInv'
  <1>0. CallTypes
    BY DEF IInv
  <1>1. faults' \in 0 .. MaxFaults
    BY <1>0, FaultsGrow DEF CallerCrash
  <1> QED BY <1>0, <1>1, HangUpKeeps DEF CallerCrash, CallTypes

(* Steps of nobody's call.                                                 *)
LEMMA ExpireKeeps ==
    ASSUME IInv, ExpireBarrier \/ ExpireUnderCall
    PROVE  IInv'
  <1>0. CallTypes /\ \A c \in Callers : CallOK(c)
    BY DEF IInv
  <1>1. /\ barrier' = None
        /\ UNCHANGED <<source, contract, committed, quiet, objects, job, fork>>
    BY DEF ExpireBarrier, ExpireUnderCall
  <1>2. faults' \in 0 .. MaxFaults
    BY <1>0, FaultsGrow, FaultsStay DEF ExpireBarrier, ExpireUnderCall
  <1>3. Beside
    BY <1>1 DEF Beside
  <1>4. ASSUME NEW c \in Callers PROVE CallOK(c)'
    BY <1>0, <1>1, <1>3, NotCallers, CallFrame
  <1>5. CallTypes'
    BY <1>0, <1>1, <1>2 DEF CallTypes
  <1>6. ASSUME NEW q \in Requests PROVE ContractOK(q)' /\ ForkOK(q)'
    <2>1. ContractOK(q)'
      BY <1>1, ContractFrame DEF IInv, source
    <2>2. ForkOK(q)'
      BY <1>1, <1>3, ForkFrame DEF IInv
    <2> QED BY <2>1, <2>2
  <1>7. SourceInv'
    BY <1>1, SourceFrame DEF IInv
  <1> QED BY <1>4, <1>5, <1>6, <1>7 DEF IInv

(* A stored object is damaged.                                             *)
LEMMA CorruptKeeps ==
    ASSUME IInv, NEW id \in Contents, CorruptObject(id)
    PROVE  IInv'
  <1>0. CallTypes /\ \A c \in Callers : CallOK(c)
    BY DEF IInv
  <1>1. /\ objects' = [objects EXCEPT ![id] = Garbage]
        /\ UNCHANGED <<source, barrier, contract, committed, quiet, job, fork>>
    BY DEF CorruptObject, capture
  <1>2. faults' \in 0 .. MaxFaults
    BY <1>0, FaultsGrow DEF CorruptObject
  <1>3. Beside
    BY <1>1 DEF Beside
  <1>4. ASSUME NEW c \in Callers PROVE CallOK(c)'
    BY <1>0, <1>1, <1>3, CallFrame
  <1>5. CallTypes'
    BY <1>0, <1>1, <1>2 DEF CallTypes
  <1>6. ASSUME NEW q \in Requests PROVE ContractOK(q)' /\ ForkOK(q)'
    <2>1. ContractOK(q)'
      BY <1>1, ContractFrame DEF IInv, source
    <2>2. ForkOK(q)'
      BY <1>1, <1>3, ForkFrame DEF IInv
    <2> QED BY <2>1, <2>2
  <1>7. SourceInv'
    BY <1>1, SourceFrame DEF IInv
  <1> QED BY <1>4, <1>5, <1>6, <1>7 DEF IInv

-----------------------------------------------------------------------------
(* The restores.                                                           *)
LEMMA ValidateKeeps ==
    ASSUME IInv, NEW c \in Callers, NEW q \in Requests, Validate(c, q)
    PROVE  IInv'
  <1> DEFINE j == [NoCall EXCEPT !.at = "workspace", !.q = q]
  <1>0. CallTypes /\ ForkOK(q)
    BY DEF IInv
  <1>1. /\ job' = [job EXCEPT ![c] = j] /\ Restorable(q)
        /\ UNCHANGED <<source, capture, objects, fork, faults>>
    BY DEF Validate
  <1>2. j \in Calls /\ j.at = "workspace" /\ j.q = q
    BY NoCallType DEF Calls, Restoring
  <1> HIDE DEF j
  <1>3. OneCall(c) /\ job'[c] = j
    BY <1>0, <1>1, <1>2, BecomeIs
  <1>4. contract[q] # NoContract /\ contract[q].blockers = {} /\ contract' = contract
    BY <1>0, <1>1 DEF Restorable, ForkOK, capture
  <1>5. CallOK(c)'
    BY <1>2, <1>3, <1>4 DEF CallOK, Restoring
  <1> QED BY <1>0, <1>1, <1>3, <1>5, CallOnly, FaultsStay DEF CallTypes, capture

(* Looking for the fork's workspace.                                       *)
LEMMA FindKeeps ==
    ASSUME IInv, NEW c \in Callers, FindWorkspace(c)
    PROVE  IInv'
  <1> DEFINE q == job[c].q
  <1>0. CallTypes /\ CallOK(c)
    BY DEF IInv
  <1>1. /\ job[c].at = "workspace" /\ UNCHANGED <<source, capture, fork, faults>>
    BY DEF FindWorkspace, Calling
  <1>2. q \in Requests /\ contract[q] # NoContract /\ contract[q].blockers = {}
    BY <1>0, <1>1, CallParts DEF Restoring
  <1>3. contract' = contract /\ fork' = fork /\ faults' \in 0 .. MaxFaults
    BY <1>0, <1>1, FaultsStay DEF capture
  <1>4. CASE Continue(c, "restore") /\ UNCHANGED objects
    <2>1. OneCall(c) /\ job'[c].at = "restore" /\ job'[c].q = q
      BY <1>0, <1>4, ContinueIs DEF Restoring
    <2>2. CallOK(c)'
      BY <1>2, <1>3, <2>1 DEF CallOK, Restoring
    <2> QED BY <1>0, <1>1, <1>3, <1>4, <2>1, <2>2, CallOnly DEF CallTypes, capture
  <1>5. CASE fork[q].ws # None /\ Publish(fork[q].ws) /\ (Continue(c, "prepare") \/ HangUp(c))
    <2>1. fork[q].ws \in Contents
      BY <1>0, <1>2, <1>5, ContractType
    <2>2. objects' \in [Contents -> Contents \cup {None, Garbage}]
      BY <1>0, <1>5, <2>1, PublishIs
    <2>3. CASE Continue(c, "prepare")
      <3>1. OneCall(c) /\ job'[c].at = "prepare" /\ job'[c].q = q
        BY <1>0, <2>3, ContinueIs DEF Restoring
      <3>2. CallOK(c)'
        BY <1>2, <1>3, <1>5, <3>1 DEF CallOK, Restoring
      <3> QED BY <1>1, <1>3, <2>2, <3>1, <3>2, CallOnly DEF capture
    <2>4. CASE HangUp(c)
      BY <1>1, <1>3, <2>2, <2>4, HangUpKeeps
    <2> QED BY <1>5, <2>3, <2>4
  <1> QED BY <1>4, <1>5 DEF FindWorkspace

(* A step of one fork.                                                     *)
OneFork(q, f) == f \in Forks /\ fork' = [fork EXCEPT ![q] = f]

(* A step of one fork leaves the others alone.                             *)
LEMMA ForkIs ==
    ASSUME CallTypes, NEW q \in Requests, NEW f, OneFork(q, f)
    PROVE  /\ fork' \in [Requests -> Forks] /\ fork'[q] = f
           /\ \A p \in Requests : p # q => fork'[p] = fork[p]
  BY DEF CallTypes, OneFork

(* A step that writes one fork and no contract.                            *)
LEMMA ForkOnly ==
    ASSUME IInv, NEW q \in Requests, NEW f, OneFork(q, f), fork[q].ws # None => f.ws # None,
           ForkOK(q)', UNCHANGED <<source, capture>>
    PROVE  /\ Beside /\ fork' \in [Requests -> Forks]
           /\ \A p \in Requests : ContractOK(p)' /\ ForkOK(p)'
  <1>0. CallTypes /\ \A p \in Requests : ContractOK(p) /\ ForkOK(p)
    BY DEF IInv
  <1>1. /\ fork' \in [Requests -> Forks] /\ fork'[q] = f
        /\ \A p \in Requests : p # q => fork'[p] = fork[p]
    BY <1>0, ForkIs
  <1>2. contract' = contract /\ quiet' = quiet /\ committed' = committed /\ log' = log
    BY DEF capture, source
  <1>3. Beside
    BY <1>1, <1>2 DEF Beside
  <1>4. ASSUME NEW p \in Requests PROVE ContractOK(p)'
    BY <1>0, <1>2, ContractFrame
  <1>5. ASSUME NEW p \in Requests, p # q PROVE ForkOK(p)'
    BY <1>0, <1>1, <1>2, <1>3, <1>5, ForkFrame
  <1> QED BY <1>1, <1>3, <1>4, <1>5

(* A step of a call on its fork.                                           *)
LEMMA ForkAndCall ==
    ASSUME IInv, NEW c \in Callers, OneCall(c), CallOK(c)', NEW q \in Requests, NEW f,
           OneFork(q, f), fork[q].ws # None => f.ws # None, ForkOK(q)',
           UNCHANGED <<source, capture, objects, faults>>
    PROVE  IInv'
  <1>1. /\ Beside /\ fork' \in [Requests -> Forks]
        /\ \A p \in Requests : ContractOK(p)' /\ ForkOK(p)'
    BY ForkOnly
  <1>2. CallTypes'
    BY <1>1 DEF IInv, CallTypes, OneCall, capture
  <1>3. barrier' = barrier
    BY DEF capture
  <1> QED BY <1>1, <1>2, <1>3, CallAndFork

(* A step of the router or of the fork itself.                             *)
LEMMA ForkAlone ==
    ASSUME IInv, NEW q \in Requests, NEW f,
           OneFork(q, f), fork[q].ws # None => f.ws # None, ForkOK(q)',
           UNCHANGED <<source, capture, objects, job, faults>>
    PROVE  IInv'
  <1>1. /\ Beside /\ fork' \in [Requests -> Forks]
        /\ \A p \in Requests : ContractOK(p)' /\ ForkOK(p)'
    BY ForkOnly
  <1>2. CallTypes'
    BY <1>1 DEF IInv, CallTypes, capture
  <1>3. barrier' = barrier
    BY DEF capture
  <1>4. ASSUME NEW c \in Callers PROVE CallOK(c)'
    BY <1>1, <1>3, CallFrame DEF IInv
  <1>5. SourceInv'
    BY SourceFrame DEF IInv
  <1> QED BY <1>1, <1>2, <1>4, <1>5 DEF IInv

(* Restoring the workspace of a fork from the object its contract names.   *)
LEMMA RestoreKeeps ==
    ASSUME IInv, NEW c \in Callers, RestoreWorkspace(c)
    PROVE  IInv'
  <1>0. CallTypes /\ CallOK(c)
    BY DEF IInv
  <1>1. /\ job[c].at = "restore" /\ UNCHANGED <<source, capture, objects, faults>>
    BY DEF RestoreWorkspace, Calling
  <1>2. PICK q \in Requests : q = job[c].q
    BY <1>0, <1>1, CallParts
  <1>3. contract[q] # NoContract /\ contract[q].blockers = {}
    BY <1>0, <1>1, <1>2, CallParts DEF Restoring
  <1>4. faults' \in 0 .. MaxFaults
    BY <1>0, <1>1, FaultsStay
  <1>5. CASE /\ Verified(contract[q].object) /\ fork[q].ws = None
             /\ fork' = [fork EXCEPT ![q].ws = objects[contract[q].object]]
             /\ Continue(c, "prepare")
    <2> DEFINE o == contract[q].object
               f == [fork[q] EXCEPT !.ws = objects[o]]
    <2>1. ContractOK(q) /\ ForkOK(q)
      BY DEF IInv
    <2>2. o \in Contents /\ objects[o] = o
      BY <1>3, <1>5, <2>1 DEF ContractOK, Verified, Digest
    <2>3. fork' = [fork EXCEPT ![q] = f]
      BY <1>5
    <2>4. fork[q] \in Forks
      BY <1>0, ContractType
    <2>5. /\ f \in Forks /\ f.ws = o /\ f.facts = fork[q].facts /\ f.began = fork[q].began
          /\ f.delivered = fork[q].delivered
      BY <2>2, <2>4 DEF Forks
    <2> HIDE DEF f
    <2>6. OneFork(q, f)
      BY <2>3, <2>5 DEF OneFork
    <2>7. fork'[q] = f /\ contract' = contract /\ committed' = committed
      BY <1>0, <1>1, <2>6, ForkIs DEF capture
    <2>8. f.ws # None
      BY <2>2, <2>5, NotCallers
    <2>9. fork[q].began = None
      BY <1>5, <2>1 DEF ForkOK
    <2>10. ForkOK(q)'
      BY <1>3, <2>1, <2>5, <2>7, <2>8, <2>9 DEF ForkOK
    <2>11. OneCall(c) /\ job'[c].at = "prepare" /\ job'[c].q = q
      BY <1>0, <1>2, <1>5, ContinueIs DEF Restoring
    <2>12. CallOK(c)'
      BY <1>3, <2>7, <2>8, <2>11 DEF CallOK, Restoring
    <2> QED BY <1>1, <2>6, <2>8, <2>10, <2>11, <2>12, ForkAndCall
  <1>6. CASE HangUp(c) /\ UNCHANGED fork
    BY <1>0, <1>1, <1>4, <1>6, HangUpKeeps DEF CallTypes
  <1> QED BY <1>2, <1>5, <1>6 DEF RestoreWorkspace

(* The facts of the fork.                                                  *)
LEMMA RecordForkKeeps ==
    ASSUME IInv, NEW c \in Callers, job[c].at \in {"prepare", "assign", "record"},
           NEW fact \in ForkFacts, NEW next \in {"assign", "record", "deliver"},
           RecordFork(c, fact, next)
    PROVE  IInv'
  <1>0. CallTypes /\ CallOK(c)
    BY DEF IInv
  <1>1. UNCHANGED <<source, capture, objects, faults>> /\ Continue(c, next)
    BY DEF RecordFork
  <1>2. PICK q \in Requests : q = job[c].q
    BY <1>0, CallParts
  <1>3. contract[q] # NoContract /\ contract[q].blockers = {} /\ fork[q].ws # None
    BY <1>0, <1>2, CallParts DEF Restoring
  <1> DEFINE f == [fork[q] EXCEPT !.facts = @ \cup {fact}]
  <1>4. fork' = [fork EXCEPT ![q] = f]
    BY <1>2 DEF RecordFork
  <1>5. fork[q] \in Forks /\ ForkOK(q)
    BY <1>0, ContractType DEF IInv
  <1>6. /\ f \in Forks /\ f.ws = fork[q].ws /\ f.began = fork[q].began
        /\ f.delivered = fork[q].delivered
    BY <1>5 DEF Forks
  <1> HIDE DEF f
  <1>7. OneFork(q, f)
    BY <1>4, <1>6 DEF OneFork
  <1>8. fork'[q] = f /\ contract' = contract /\ committed' = committed
    BY <1>0, <1>1, <1>7, ForkIs DEF capture
  <1>9. ForkOK(q)'
    BY <1>3, <1>5, <1>6, <1>8 DEF ForkOK
  <1>10. OneCall(c) /\ job'[c].at = next /\ job'[c].q = q
    BY <1>0, <1>1, <1>2, ContinueIs DEF Restoring
  <1>11. CallOK(c)'
    BY <1>3, <1>6, <1>8, <1>10 DEF CallOK, Restoring
  <1> QED BY <1>1, <1>3, <1>6, <1>7, <1>9, <1>10, <1>11, ForkAndCall

(* Preparing the run of a fork.                                            *)
LEMMA PrepareKeeps ==
    ASSUME IInv, NEW c \in Callers, PrepareFork(c)
    PROVE  IInv'
  <1>1. job[c].at = "prepare"
    BY DEF PrepareFork, Calling
  <1>2. CASE RecordFork(c, "run.created", "assign")
    BY <1>1, <1>2, RecordForkKeeps DEF ForkFacts
  <1>3. CASE HangUp(c) /\ UNCHANGED <<source, capture, objects, fork, faults>>
    BY <1>3, HangUpKeeps, FaultsStay DEF IInv, CallTypes
  <1> QED BY <1>2, <1>3 DEF PrepareFork

(* Recording the assignment and the restore of a fork.                     *)
LEMMA AssignKeeps ==
    ASSUME IInv, NEW c \in Callers, AssignFork(c) \/ CommitRestore(c)
    PROVE  IInv'
  BY RecordForkKeeps DEF AssignFork, CommitRestore, Calling, ForkFacts

(* The delivery.                                                           *)
LEMMA DeliverIs ==
    ASSUME IInv, NEW q \in Requests, Deliver(q), fork[q].ws # None, UNCHANGED <<source, capture>>
    PROVE  \E f : OneFork(q, f) /\ f.ws # None /\ ForkOK(q)'
  <1>0. CallTypes /\ ForkOK(q)
    BY DEF IInv
  <1> DEFINE f == [fork[q] EXCEPT !.delivered = TRUE]
  <1>1. fork' = [fork EXCEPT ![q] = f]
    BY DEF Deliver
  <1>2. fork[q] \in Forks
    BY <1>0, ContractType
  <1>3. f \in Forks /\ f.ws = fork[q].ws /\ f.began = fork[q].began /\ f.facts = fork[q].facts
    BY <1>2 DEF Forks
  <1> HIDE DEF f
  <1>4. OneFork(q, f)
    BY <1>1, <1>3 DEF OneFork
  <1>5. fork'[q] = f /\ contract' = contract /\ committed' = committed
    BY <1>0, <1>4, ForkIs DEF capture
  <1>6. ForkOK(q)'
    BY <1>0, <1>3, <1>5 DEF ForkOK
  <1> QED BY <1>3, <1>4, <1>6

(* Delivering a fork.                                                      *)
LEMMA DeliverKeeps ==
    ASSUME IInv, NEW c \in Callers, DeliverFork(c)
    PROVE  IInv'
  <1>0. CallTypes /\ CallOK(c)
    BY DEF IInv
  <1>1. /\ job[c].at = "deliver" /\ HangUp(c) /\ Deliver(job[c].q)
        /\ UNCHANGED <<source, capture, objects, faults>>
    BY DEF DeliverFork, Calling
  <1>2. PICK q \in Requests : q = job[c].q
    BY <1>0, <1>1, CallParts
  <1>3. fork[q].ws # None
    BY <1>0, <1>1, <1>2, CallParts
  <1>4. PICK f : OneFork(q, f) /\ f.ws # None /\ ForkOK(q)'
    BY <1>1, <1>2, <1>3, DeliverIs
  <1>5. OneCall(c) /\ CallOK(c)'
    BY <1>0, <1>1, HangUpIs, IdleOK
  <1> QED BY <1>1, <1>4, <1>5, ForkAndCall

(* Delivering a fork again that recovery finds assigned.                   *)
LEMMA RouteKeeps ==
    ASSUME IInv, NEW q \in Requests, RouteFork(q)
    PROVE  IInv'
  <1>1. fork[q].ws # None
    BY DEF RouteFork, IInv, ForkOK
  <1>2. PICK f : OneFork(q, f) /\ f.ws # None /\ ForkOK(q)'
    BY <1>1, DeliverIs DEF RouteFork
  <1> QED BY <1>2, ForkAlone DEF RouteFork

(* The first turn of a fork begins from its workspace.                     *)
LEMMA ForkTurnKeeps ==
    ASSUME IInv, NEW q \in Requests, ForkTurn(q)
    PROVE  IInv'
  <1>0. CallTypes /\ ForkOK(q)
    BY DEF IInv
  <1>1. fork[q].delivered /\ UNCHANGED <<source, capture, objects, job, faults>>
    BY DEF ForkTurn
  <1>2. PICK o \in Contents :
           fork' = [fork EXCEPT ![q].ws = o, ![q].began = IF @ = None THEN fork[q].ws ELSE @]
    BY DEF ForkTurn
  <1> DEFINE b == IF fork[q].began = None THEN fork[q].ws ELSE fork[q].began
             f == [fork[q] EXCEPT !.ws = o, !.began = b]
  <1>3. fork' = [fork EXCEPT ![q] = f]
    BY <1>2
  <1>4. /\ fork[q] \in Forks /\ fork[q].ws \in Contents \cup {None}
        /\ fork[q].began \in Contents \cup {None}
    BY <1>0, ContractType
  <1>5. /\ fork[q].ws # None
        /\ fork[q].began = None => b = fork[q].ws
        /\ fork[q].began # None => b = fork[q].began
    BY <1>0, <1>1 DEF ForkOK
  <1>6. b \in Contents
    BY <1>4, <1>5
  <1> HIDE DEF b
  <1>7. f \in Forks /\ f.ws = o /\ f.began = b /\ f.facts = fork[q].facts
    BY <1>4, <1>6 DEF Forks
  <1> HIDE DEF f
  <1>8. OneFork(q, f) /\ o # None /\ b # None
    BY <1>3, <1>6, <1>7, NotCallers DEF OneFork
  <1>9. fork'[q] = f /\ contract' = contract /\ committed' = committed
    BY <1>0, <1>1, <1>8, ForkIs DEF capture
  <1>10. ForkOK(q)'
    BY <1>0, <1>5, <1>7, <1>8, <1>9 DEF ForkOK
  <1> QED BY <1>1, <1>7, <1>8, <1>10, ForkAlone

-----------------------------------------------------------------------------
(* The specification.                                                      *)
LEMMA InitSource == Init => SourceInv
  <1> SUFFICES ASSUME Init PROVE SourceInv
    OBVIOUS
  <1> DEFINE f == Fact("run.created", 0, None)
  <1>1. log = <<f>> /\ holder = None /\ world = {} /\ ws = Fixture
    BY DEF Init
  <1>2. ledger = [t \in Turns |-> NoOperation] /\ worker = [w \in Workers |-> Resting]
    BY DEF Init
  <1>3. f \in Facts /\ f.type = "run.created" /\ f.turn = 0
    <2>1. 0 \in 0 .. MaxTurns /\ None \in Data /\ "run.created" \in FactTypes
      BY CheckpointConstants DEF Data, FactTypes
    <2> QED BY <2>1, FactIs
  <1> HIDE DEF f
  <1>4. log \in Seq(Facts) /\ log # <<>> /\ DOMAIN log = {1} /\ log[1] = f
    BY <1>1, <1>3
  <1>5. \A T : "run.created" \notin T => TurnsWith(log, T) = {}
    BY <1>3, <1>4, TurnsWithIs
  <1>6. /\ \A x : x # "run.created" => With(x) = {}
        /\ Ended = {} /\ Unknown(log) = {}
    BY <1>5 DEF With, Ended, Unknown, OperationEnds
  <1>7. \A w \in Workers : worker[w].at = "idle" /\ worker[w].turn = 0
    BY <1>2 DEF Resting
  <1>8. \A t \in Turns : State(t) = "none"
    BY <1>2 DEF State, NoOperation
  <1>9. SourceTypes
    <2>1. ledger \in [Turns -> Rows]
      BY <1>2 DEF NoOperation, Rows
    <2>2. worker \in [Workers -> Threads]
      BY <1>2, CheckpointConstants DEF Resting, Threads, Places
    <2> QED BY <1>1, <1>4, <2>1, <2>2, CheckpointConstants DEF SourceTypes
  <1>10. Turn = 1
    BY <1>6, FS_EmptySet DEF Turn, Ended
  <1>11. TurnInv
    <2>1. Ended = 1 .. (Turn - 1)
      BY <1>6, <1>10
    <2>2. holder \notin Workers
      BY <1>1, NotWorkers
    <2> QED BY <1>3, <1>4, <1>10, <2>1, <2>2 DEF TurnInv
  <1>12. LedgerInv
    <2>1. \A t \in Turns : RowOK(t)
      BY <1>6, <1>8 DEF RowOK
    <2>2. OneLevel /\ ResultsKept
      BY <1>3, <1>4 DEF OneLevel, ResultsKept, Results
    <2> QED BY <1>6, <2>1, <2>2 DEF LedgerInv, Settled
  <1>13. OneRunner /\ \A w \in Workers : WorkerOK(w)
    BY <1>7 DEF OneRunner, WorkerOK, Runners
  <1>14. WorkspaceInv
    <2>1. Touched = {}
      BY <1>6 DEF Touched
    <2>2. Writes(log) = {}
      BY <1>5 DEF Writes, Results
    <2>3. ContentOf(log) = Fixture
      BY <2>2, ContentNone
    <2> QED BY <1>1, <2>1, <2>3 DEF WorkspaceInv
  <1>15. WorldInv
    BY <1>1 DEF WorldInv
  <1> QED BY <1>9, <1>11, <1>12, <1>13, <1>14, <1>15 DEF SourceInv

(* The invariant holds initially.                                          *)
LEMMA InitInv == Init => IInv
  <1> SUFFICES ASSUME Init PROVE IInv
    OBVIOUS
  <1>1. SourceInv
    BY InitSource
  <1>2. CallTypes
    <2>1. NoContract \in Contracts
      BY DEF NoContract, Contracts
    <2>2. NoFork \in Forks
      BY DEF NoFork, Forks
    <2>3. 0 \in 0 .. MaxFaults
      BY CheckpointConstants
    <2> QED BY <2>1, <2>2, <2>3, NoCallType DEF Init, CallTypes
  <1>3. ASSUME NEW c \in Callers PROVE CallOK(c)
    BY DEF Init, CallOK, NoCall, Restoring
  <1>4. ASSUME NEW q \in Requests PROVE ContractOK(q)
    BY DEF Init, ContractOK
  <1>5. ASSUME NEW q \in Requests PROVE ForkOK(q)
    BY DEF Init, ForkOK, NoFork
  <1> QED BY <1>1, <1>2, <1>3, <1>4, <1>5 DEF IInv

(* A step of the source run beside the calls keeps the invariant.          *)
LEMMA SourceActionKeeps ==
    ASSUME IInv, SourceStep, UNCHANGED <<capture, objects, job, fork>>, faults' \in 0 .. MaxFaults
    PROVE  IInv'
  <1>1. SourceInv'
    BY SourceStepKeeps DEF IInv
  <1>2. SourceMoves
    BY SourceStepMoves DEF IInv
  <1> QED BY <1>1, <1>2, BesideSource DEF IInv

(* Every action of a worker keeps the invariant.                           *)
LEMMA WorkerKeeps ==
    ASSUME IInv, NEW w \in Workers, ClaimTurn(w) \/ Handler(w) \/ WorkerCrash(w)
    PROVE  IInv'
  <1>0. SourceInv /\ CallTypes
    BY DEF IInv
  <1>1. CASE ClaimTurn(w)
    <2>1. UNCHANGED others /\ SourceStep
      BY <1>1 DEF ClaimTurn, SourceStep
    <2> QED BY <1>0, <2>1, SourceActionKeeps, FaultsStay DEF others
  <1>2. CASE Handler(w)
    <2>1. UNCHANGED others
      BY <1>2 DEF Handler, AskModel, ResumeTurn, ModelAnswers, StartOperation, RequestTool,
                  RunTool, SettleLedger, RecordResult, RecoverOperation
    <2>2. SourceStep
      BY <1>0, <1>2, HandlerStep
    <2> QED BY <1>0, <2>1, <2>2, SourceActionKeeps, FaultsStay DEF others
  <1>3. CASE WorkerCrash(w)
    <2>1. SourceStep
      BY <1>0, <1>3, LossStep
    <2>2. faults' \in 0 .. MaxFaults
      BY <1>0, <1>3, FaultsGrow DEF WorkerCrash
    <2> QED BY <1>3, <2>1, <2>2, SourceActionKeeps DEF WorkerCrash
  <1> QED BY <1>1, <1>2, <1>3

(* A lost claim keeps the invariant.                                       *)
LEMMA LapseKeeps ==
    ASSUME IInv, LapseOrphan \/ LapseClaim
    PROVE  IInv'
  <1>0. SourceInv /\ CallTypes
    BY DEF IInv
  <1>1. SourceStep
    BY <1>0, LossStep
  <1>2. CASE LapseOrphan
    BY <1>0, <1>1, <1>2, SourceActionKeeps, FaultsStay DEF LapseOrphan, others
  <1>3. CASE LapseClaim
    BY <1>0, <1>1, <1>3, SourceActionKeeps, FaultsGrow DEF LapseClaim
  <1> QED BY <1>2, <1>3

(* Every step of a call keeps the invariant.                               *)
LEMMA CallKeeps ==
    ASSUME IInv, NEW c \in Callers, Call(c)
    PROVE  IInv'
  BY QuiesceKeeps, ReadBoundaryKeeps, ScanKeeps, RecordRequestKeeps, CommitCheckpointKeeps,
     ReleaseKeeps, FindKeeps, RestoreKeeps, PrepareKeeps, AssignKeeps, DeliverKeeps DEF Call

(* Every step keeps the invariant.                                         *)
LEMMA NextKeeps == IInv /\ [Next]_vars => IInv'
  <1> SUFFICES ASSUME IInv, [Next]_vars PROVE IInv'
    OBVIOUS
  <1>1. CASE \E w \in Workers : ClaimTurn(w) \/ Handler(w) \/ WorkerCrash(w)
    BY <1>1, WorkerKeeps
  <1>2. CASE LapseOrphan \/ LapseClaim
    BY <1>2, LapseKeeps
  <1>3. CASE \E c \in Callers : Call(c) \/ CallerCrash(c)
    BY <1>3, CallKeeps, CallerCrashKeeps
  <1>4. CASE \E c \in Creators, q \in Requests : AcquireBarrier(c, q)
    BY <1>4, AcquireKeeps DEF Callers
  <1>5. CASE \E c \in Restorers, q \in Requests : Validate(c, q)
    BY <1>5, ValidateKeeps DEF Callers
  <1>6. CASE ExpireBarrier \/ ExpireUnderCall
    BY <1>6, ExpireKeeps
  <1>7. CASE \E q \in Requests : RouteFork(q) \/ ForkTurn(q)
    BY <1>7, RouteKeeps, ForkTurnKeeps
  <1>8. CASE \E id \in Contents : CorruptObject(id)
    BY <1>8, CorruptKeeps
  <1>9. CASE UNCHANGED vars
    <2>1. /\ UNCHANGED source /\ UNCHANGED <<capture, objects, job, fork>> /\ faults' = faults
      BY <1>9 DEF vars
    <2>2. SourceStep
      BY <2>1 DEF SourceStep
    <2>3. faults' \in 0 .. MaxFaults
      BY <2>1, FaultsStay DEF IInv
    <2> QED BY <2>1, <2>2, <2>3, SourceActionKeeps
  <1> QED BY <1>1, <1>2, <1>3, <1>4, <1>5, <1>6, <1>7, <1>8, <1>9 DEF Next

(* The inductive invariant: the source run's log and ledger agree, its     *)
(* workspace is what the log tells of but for the one tool that may have   *)
(* run since, a capture behind its barrier sees no step of a handler, and  *)
(* a fork has the workspace of its contract until its first turn           *)
(* (create_checkpoint, restore_checkpoint, runtime.py; claim_work,         *)
(* store.py).                                                              *)
THEOREM CheckpointsCorrect == Spec => []IInv
  <1>1. Init => IInv
    BY InitInv
  <1>2. IInv /\ [Next]_vars => IInv'
    BY NextKeeps
  <1> QED BY <1>1, <1>2, PTL DEF Spec

(* Of any number of captures, handlers that lost their claims, crashes and *)
(* expiries, a contract captured behind its own barrier names the          *)
(* workspace its event prefix tells of (create, _assert_safe,              *)
(* checkpoints.py).                                                        *)
THEOREM SnapshotAtBoundaryHolds == Spec => []SnapshotAtBoundary
  <1>1. IInv => SnapshotAtBoundary
    BY DEF IInv, ContractOK, SnapshotAtBoundary, Digest, Prefix
  <1> QED BY <1>1, CheckpointsCorrect, PTL

(* The first turn of every fork finds the workspace its source had at the  *)
(* boundary, however often the restore was repeated and wherever it was    *)
(* cut off (restore_checkpoint, runtime.py).                               *)
THEOREM ForkBeginsAtBoundaryHolds == Spec => []ForkBeginsAtBoundary
  <1>1. IInv => ForkBeginsAtBoundary
    <2> SUFFICES ASSUME IInv, NEW q \in Requests, fork[q].began # None, quiet[q]
                 PROVE  fork[q].began = ContentOf(SubSeq(log, 1, contract[q].count))
      BY DEF ForkBeginsAtBoundary
    <2>1. ContractOK(q) /\ ForkOK(q)
      BY DEF IInv
    <2>2. fork[q].began = contract[q].object /\ contract[q] # NoContract
      BY <2>1 DEF ForkOK
    <2> QED BY <2>1, <2>2 DEF ContractOK, Prefix
  <1> QED BY <1>1, CheckpointsCorrect, PTL

(* No fork starts behind an effect on the outside world whose tool did not *)
(* report a failure: an operation in its prefix that may have had one      *)
(* ended there, with a level and an end that block the restore             *)
(* (_effect_boundary, validate_restore, checkpoints.py).                   *)
THEOREM NoForkPastEffectHolds == Spec => []NoForkPastEffect
  <1>1. IInv => NoForkPastEffect
    <2> SUFFICES ASSUME IInv, NEW q \in Requests, "run.created" \in fork[q].facts,
                        NEW t, t \in world,
                        t \in TurnsWith(Prefix(contract[q].count), {"operation.started"}),
                        t \notin TurnsWith(Prefix(contract[q].count), {"operation.failed"})
                 PROVE  FALSE
      BY DEF NoForkPastEffect, Prefix
    <2> DEFINE n == contract[q].count
               P == Prefix(n)
    <2>0. SourceTypes /\ TurnInv /\ LedgerInv /\ WorldInv /\ ContractOK(q) /\ ForkOK(q)
      BY DEF IInv, SourceInv
    <2>1. contract[q] # NoContract /\ contract[q].blockers = {}
      BY <2>0 DEF ForkOK
    <2>2. n \in 1 .. Len(log) /\ Safe(P) /\ Blockers(P) = {}
      BY <2>0, <2>1 DEF ContractOK
    <2>3. Effect(t) /\ Level(t) \notin LocalEffects \cup ReadOnly /\ t \in Turns
      BY <2>0 DEF WorldInv, SourceTypes
    <2>4. log \in Seq(Facts) /\ n \in 0 .. Len(log)
      BY <2>0, <2>2 DEF SourceTypes
    <2>5. DOMAIN P = 1 .. n /\ \A i \in 1 .. n : i \in DOMAIN log /\ P[i] = log[i]
      BY <2>4, PrefixIn DEF Prefix
    <2> HIDE DEF P, n
    <2>6. DataOf(P, "operation.started", t) = Level(t)
      <3>1. PICK i \in DOMAIN P : P[i].type \in {"operation.started"} /\ P[i].turn = t
        BY TurnsWithIs DEF P, n
      <3>2. \A j \in DOMAIN P : P[j].type = "operation.started" /\ P[j].turn = t =>
                P[j].data = Level(t)
        BY <2>0, <2>5, LevelIs DEF LedgerInv
      <3>3. Tells(P, "operation.started", t, Level(t))
        BY <3>1, <3>2 DEF Tells
      <3> QED BY <3>3, DataIs
    <2>7. t \in TurnsWith(P, OperationEnds)
      BY <2>2 DEF Safe, OpenOperations, P, n
    <2>8. PICK k \in DOMAIN P : P[k].type \in OperationEnds /\ P[k].turn = t
      BY <2>7, TurnsWithIs
    <2> DEFINE end == P[k].type
    <2>9. end \in OperationEnds /\ t \in TurnsWith(P, {end})
      BY <2>8, TurnsWithIs
    <2>10. end # "operation.failed"
      BY <2>8, TurnsWithIs DEF P, n
    <2> HIDE DEF end
    <2>11. Disposition(Level(t), end) \in {"unknown", "irreversible", "requires_reconciliation"}
      BY <2>3, <2>9, <2>10 DEF Disposition, OperationEnds
    <2>12. t \in Blockers(P)
      BY <2>6, <2>9, <2>11 DEF Blockers, P, n
    <2> QED BY <2>2, <2>12
  <1> QED BY <1>1, CheckpointsCorrect, PTL

=============================================================================
