-------------------------- MODULE ProvenanceProofs --------------------------
(* Theorems about Provenance, for every budget, every set of answers and   *)
(* any number of interruptions.                                            *)
EXTENDS Provenance, FiniteSetTheorems, WellFoundedInduction, TLAPS

-----------------------------------------------------------------------------
(* Events and logs.                                                        *)

Phases == {"context", "calling", "validating", "authorizing", "executing",
           "recording", "waiting", "submitted", "failed"}
Answers == {"tool", "send", "submit", "blocked", "invalid"}
Verdicts == {"none", "accepted", "lease_not_active", "evidence_required",
             "provenance_not_found", "chain_invalid", "model_chain_invalid",
             "tool_chain_invalid"}
Datas == Phases \cup Answers \cup Verdicts \cup Int \cup {None}
EventTypes ==
    {"phase", "capability", "context", "request", "completed", "reused", "command",
     "command.reused", "invalid", "op.started", "op.completed", "op.failed",
     "op.unknown", "tool.requested", "tool.completed", "tool.failed", "gate.passed",
     "gate.failed", "nudged", "stopped", "submitted", "message.sent",
     "message.denied", "waiting", "seed", "responded", "heartbeat", "renewed",
     "ready", "promoted"}

(* A phase names a phase, a response or a command what the model chose.    *)
Events ==
    { e \in [type : EventTypes, cause : Int, turn : Nat, data : Datas] :
        /\ e.type = "phase" => e.data \in Phases
        /\ e.type = "completed" => e.data \in Answers /\ e.turn > 0
        /\ e.type = "command" => e.data \in Answers \ {"invalid"} }

(* The phases a turn passes before it may have an effect.                  *)
Early == {"context", "calling", "validating", "authorizing"}

IsExec(e, t) == e.type = "phase" /\ e.turn = t /\ e.data = "executing"
Exec(l, t) == \E k \in 1 .. Len(l) : IsExec(l[k], t)

(* A turn that has executed enters no early phase again, ...               *)
Forward(l) ==
    \A i, j \in 1 .. Len(l) :
        i < j /\ l[j].type = "phase" /\ l[j].data \in Early => ~IsExec(l[i], l[j].turn)

(* ... a turn that got a response is settled before a later one begins, ... *)
Settled(l) ==
    \A i, j \in 1 .. Len(l) :
        i < j /\ l[i].type = "completed" /\ l[i].turn < l[j].turn
          => \E m \in 1 .. Len(l) : /\ m < j /\ l[m].turn = l[i].turn
                                    /\ l[m].type \in TurnCompleted

(* ... a response belongs to the newest turn, ...                          *)
Newest(l) ==
    \A i, j \in 1 .. Len(l) :
        i < j /\ l[j].type = "completed" => l[i].turn <= l[j].turn

(* ... and the peer is heard once.                                         *)
OneAnswer(l) ==
    \A i, j \in 1 .. Len(l) :
        l[i].type = "responded" /\ l[j].type = "responded" => i = j

LogInv(l) ==
    l \in Seq(Events) /\ Forward(l) /\ Settled(l) /\ Newest(l) /\ OneAnswer(l)

(* Turns are numbered.                                                     *)
LEMMA EventTurn == \A e \in Events : e.turn \in Nat
  BY DEF Events

(* A nonempty set of numbers has a least one, ...                          *)
LEMMA LeastOf ==
    ASSUME NEW S \in SUBSET Nat, S # {}
    PROVE  \E x \in S : \A y \in S : x <= y
  <1> DEFINE R == OpToRel(<, Nat)
  <1>1. \A x, y \in Nat : y < x => <<y, x>> \in R
    BY DEF OpToRel
  <1>2. IsWellFoundedOn(R, Nat)
    BY NatLessThanWellFounded
  <1> HIDE DEF R
  <1>3. PICK x \in S : \A y \in S : ~ (<<y, x>> \in R)
    BY <1>2, WFMin
  <1>4. ASSUME NEW y \in S PROVE x <= y
    <2>1. x \in Nat /\ y \in Nat
      OBVIOUS
    <2>2. ~(y < x)
      BY <1>1, <1>3, <2>1
    <2> QED BY <2>1, <2>2
  <1> QED BY <1>4

(* ... and one of numbers up to n has a largest, which LastOf finds.       *)
LEMMA LastIn ==
    ASSUME NEW n \in Nat, NEW S \in SUBSET (0 .. n), S # {}
    PROVE  LastOf(S) \in S /\ \A y \in S : y <= LastOf(S)
  <1> DEFINE T == {n - x : x \in S}
  <1>0. \A x \in S : n - x \in Nat
    OBVIOUS
  <1>1. T \in SUBSET Nat /\ T # {}
    BY <1>0
  <1>2. PICK m \in T : \A k \in T : m <= k
    <2> HIDE DEF T
    <2> QED BY <1>1, LeastOf
  <1>3. PICK x \in S : m = n - x
    BY <1>2
  <1>4. \A y \in S : y <= x
    BY <1>2, <1>3
  <1> QED BY <1>4 DEF LastOf

(* The positions of a log.                                                 *)
LEMMA LastPosition ==
    ASSUME NEW l \in Seq(Events), NEW S \in SUBSET (1 .. Len(l)), S # {}
    PROVE  LastOf(S) \in S /\ \A y \in S : y <= LastOf(S)
  <1>1. Len(l) \in Nat /\ S \in SUBSET (0 .. Len(l))
    OBVIOUS
  <1> QED BY <1>1, LastIn

(* The events of a log have bounded turns.                                 *)
LEMMA TurnsBounded ==
    ASSUME NEW l \in Seq(Events) PROVE \E n \in Nat : \A k \in 1 .. Len(l) : l[k].turn <= n
  <1> DEFINE Bad == { m \in 0 .. Len(l) : ~\E n \in Nat : \A k \in 1 .. m : l[k].turn <= n }
  <1>0. Len(l) \in Nat
    OBVIOUS
  <1>1. SUFFICES Bad = {}
    <2>1. Len(l) \notin Bad
      BY <1>1
    <2> QED BY <1>0, <2>1
  <1>2. SUFFICES ASSUME Bad # {} PROVE FALSE
    OBVIOUS
  <1>3. Bad \in SUBSET Nat
    OBVIOUS
  <1>4. PICK m \in Bad : \A y \in Bad : m <= y
    <2> HIDE DEF Bad
    <2> QED BY <1>2, <1>3, LeastOf
  <1>5. m # 0
    <2>1. \A k \in 1 .. 0 : l[k].turn <= 0
      OBVIOUS
    <2> QED BY <2>1, <1>4
  <1>m. m \in Nat /\ m >= 1 /\ m <= Len(l)
    BY <1>4, <1>5
  <1>6. m - 1 \in 0 .. Len(l) /\ ~(m <= m - 1)
    BY <1>m
  <1>7. PICK n \in Nat : \A k \in 1 .. m - 1 : l[k].turn <= n
    BY <1>4, <1>6
  <1>8. \A k \in 1 .. m : k \in 1 .. Len(l)
    BY <1>0, <1>m
  <1>9. \A k \in 1 .. m : l[k].turn \in Nat
    BY <1>8, EventTurn
  <1>10. m \in 1 .. m /\ \A k \in 1 .. m : k = m \/ k \in 1 .. m - 1
    BY <1>m
  <1>11. \E x \in Nat : \A k \in 1 .. m : l[k].turn <= x
    <2> HIDE DEF Bad
    <2>0. l[m].turn \in Nat
      BY <1>9, <1>10
    <2>1. CASE l[m].turn <= n
      BY <1>7, <1>10, <2>1
    <2>2. CASE n < l[m].turn
      <3>1. ASSUME NEW k \in 1 .. m PROVE l[k].turn <= l[m].turn
        <4>1. l[k].turn \in Nat
          BY <1>9
        <4>2. k = m \/ l[k].turn <= n
          BY <1>7, <1>10
        <4> QED BY <2>0, <2>2, <4>1, <4>2
      <3> QED BY <2>0, <3>1
    <2>3. n \in Nat
      BY <1>7
    <2>4. l[m].turn <= n \/ n < l[m].turn
      BY <2>0, <2>3
    <2> QED BY <2>1, <2>2, <2>4
  <1> QED BY <1>4, <1>11

(* The newest turn of a log, 0 when there is none.                         *)
LEMMA NewestTurn ==
    ASSUME NEW l \in Seq(Events)
    PROVE  /\ LastOf(Turns(l)) \in Nat
           /\ \A k \in 1 .. Len(l) : l[k].turn <= LastOf(Turns(l))
           /\ LastOf(Turns(l)) # 0 => \E k \in 1 .. Len(l) : l[k].turn = LastOf(Turns(l))
  <1>1. PICK n \in Nat : \A k \in 1 .. Len(l) : l[k].turn <= n
    BY TurnsBounded
  <1>2. \A k \in 1 .. Len(l) : l[k].turn \in Nat
    BY DEF Events
  <1>3. Turns(l) = { l[k].turn : k \in 1 .. Len(l) }
    BY DEF Turns
  <1>4. Turns(l) \in SUBSET (0 .. n)
    BY <1>1, <1>2, <1>3
  <1>5. CASE Turns(l) = {}
    BY <1>3, <1>5 DEF LastOf
  <1>6. CASE Turns(l) # {}
    <2>1. LastOf(Turns(l)) \in Turns(l) /\ \A y \in Turns(l) : y <= LastOf(Turns(l))
      BY <1>4, <1>6, LastIn
    <2> QED BY <1>2, <1>3, <2>1
  <1> QED BY <1>5, <1>6

(* Two logs in a row.                                                      *)
LEMMA Joined ==
    ASSUME NEW l \in Seq(Events), NEW s \in Seq(Events)
    PROVE  /\ l \o s \in Seq(Events) /\ Len(l \o s) = Len(l) + Len(s)
           /\ \A k \in 1 .. Len(l) : (l \o s)[k] = l[k]
           /\ \A k \in 1 .. Len(s) : (l \o s)[Len(l) + k] = s[k]
           /\ \A k \in 1 .. Len(l \o s) :
                 \/ k \in 1 .. Len(l)
                 \/ k > Len(l) /\ k - Len(l) \in 1 .. Len(s) /\ (l \o s)[k] = s[k - Len(l)]
  OBVIOUS

(* A prefix of a log with these properties has them.                       *)
LEMMA PrefixInv ==
    ASSUME NEW l \in Seq(Events), NEW s \in Seq(Events), NEW k \in 0 .. Len(s), LogInv(l \o s)
    PROVE  LogInv(l \o SubSeq(s, 1, k))
  <1> DEFINE a == l \o s
             b == l \o SubSeq(s, 1, k)
  <1>1. SubSeq(s, 1, k) \in Seq(Events) /\ Len(SubSeq(s, 1, k)) = k
    OBVIOUS
  <1>2. b \in Seq(Events) /\ Len(b) = Len(l) + k /\ Len(b) <= Len(a) /\ a \in Seq(Events)
    BY <1>1
  <1>3. \A i \in 1 .. Len(b) : b[i] = a[i] /\ i \in 1 .. Len(a)
    BY <1>1
  <1>4. LogInv(a)
    OBVIOUS
  <1> HIDE DEF a, b
  <1>5. Forward(b)
    BY <1>3, <1>4 DEF LogInv, Forward
  <1>6. Settled(b)
    <2> SUFFICES ASSUME NEW i \in 1 .. Len(b), NEW j \in 1 .. Len(b), i < j,
                        b[i].type = "completed", b[i].turn < b[j].turn
                 PROVE  \E m \in 1 .. Len(b) : /\ m < j /\ b[m].turn = b[i].turn
                                               /\ b[m].type \in TurnCompleted
      BY DEF Settled
    <2>1. PICK m \in 1 .. Len(a) : /\ m < j /\ a[m].turn = a[i].turn
                                   /\ a[m].type \in TurnCompleted
      BY <1>3, <1>4 DEF LogInv, Settled
    <2>2. m \in 1 .. Len(b)
      BY <1>2, <2>1
    <2> QED BY <1>3, <2>1, <2>2
  <1>7. Newest(b) /\ OneAnswer(b)
    BY <1>3, <1>4 DEF LogInv, Newest, OneAnswer
  <1> QED BY <1>2, <1>5, <1>6, <1>7 DEF LogInv, b

(* What a handler appends at a time concerns one turn t: it enters no      *)
(* early phase behind an effect and hears no peer.                         *)
Piece(s, t) ==
    /\ s \in Seq(Events)
    /\ \A k \in 1 .. Len(s) : /\ s[k].turn = t
                              /\ s[k].type # "responded"
    /\ \A j, k \in 1 .. Len(s) :
          j < k /\ s[k].type = "phase" /\ s[k].data \in Early => ~IsExec(s[j], t)

(* When it may follow the log l.                                           *)
Before(l, t) ==
    \A i \in 1 .. Len(l) : l[i].type = "completed" /\ l[i].turn < t
        => \E m \in 1 .. Len(l) : l[m].turn = l[i].turn /\ l[m].type \in TurnCompleted

Follows(l, s, t) ==
    /\ (\E k \in 1 .. Len(s) : s[k].type = "phase" /\ s[k].data \in Early) => ~Exec(l, t)
    /\ (\E k \in 1 .. Len(s) : s[k].type = "completed") => \A i \in 1 .. Len(l) : l[i].turn <= t
    /\ Before(l, t)

(* A log that such a piece follows keeps these properties.                 *)
LEMMA ExtendedInv ==
    ASSUME NEW l, NEW s, NEW t \in Nat, LogInv(l), Piece(s, t), Follows(l, s, t)
    PROVE  LogInv(l \o s)
  <1> DEFINE a == l \o s
             n == Len(l)
  <1>1. l \in Seq(Events) /\ s \in Seq(Events) /\ n \in Nat /\ Len(s) \in Nat
    BY DEF LogInv, Piece
  <1>2. a \in Seq(Events) /\ Len(a) = n + Len(s)
    BY <1>1
  <1>3. \A k \in 1 .. n : a[k] = l[k] /\ k \in 1 .. Len(a)
    BY <1>1
  <1>4. \A k \in 1 .. Len(a) :
           k \in 1 .. n \/ (k > n /\ k - n \in 1 .. Len(s) /\ a[k] = s[k - n])
    BY <1>1
  <1>5. \A k \in 1 .. Len(a) : k > n => a[k].turn = t /\ a[k].type # "responded"
    BY <1>1, <1>4 DEF Piece
  <1>6. \A k \in 1 .. Len(a) : a[k].turn \in Nat
    BY <1>2 DEF Events
  <1> HIDE DEF a, n
  <1>7. Forward(a)
    <2> SUFFICES ASSUME NEW i \in 1 .. Len(a), NEW j \in 1 .. Len(a), i < j,
                        a[j].type = "phase", a[j].data \in Early
                 PROVE  ~IsExec(a[i], a[j].turn)
      BY DEF Forward
    <2>1. CASE j \in 1 .. n
      <3>1. i \in 1 .. n
        BY <1>1, <2>1
      <3> QED BY <1>3, <2>1, <3>1 DEF LogInv, Forward, n
    <2>2. CASE j > n /\ i \in 1 .. n
      <3>1. ~Exec(l, t)
        BY <1>1, <1>4, <2>2 DEF Follows
      <3> QED BY <1>3, <1>5, <2>2, <3>1 DEF Exec, n
    <2>3. CASE j > n /\ i > n
      <3>1. i - n < j - n
        BY <1>1
      <3>2. /\ i - n \in 1 .. Len(s) /\ a[i] = s[i - n]
            /\ j - n \in 1 .. Len(s) /\ a[j] = s[j - n]
        BY <1>1, <1>4, <2>3
      <3>3. ~IsExec(s[i - n], t)
        BY <3>1, <3>2 DEF Piece
      <3> QED BY <1>5, <2>3, <3>2, <3>3
    <2> QED BY <1>1, <1>4, <2>1, <2>2, <2>3
  <1>8. Settled(a)
    <2> SUFFICES ASSUME NEW i \in 1 .. Len(a), NEW j \in 1 .. Len(a), i < j,
                        a[i].type = "completed", a[i].turn < a[j].turn
                 PROVE  \E m \in 1 .. Len(a) : /\ m < j /\ a[m].turn = a[i].turn
                                               /\ a[m].type \in TurnCompleted
      BY DEF Settled
    <2>1. i \in 1 .. n
      <3>1. CASE i > n
        <4>1. j > n
          BY <1>1, <3>1
        <4> QED BY <1>5, <1>6, <3>1, <4>1
      <3> QED BY <1>4, <3>1
    <2>2. CASE j \in 1 .. n
      <3>1. PICK m \in 1 .. n : /\ m < j /\ l[m].turn = l[i].turn
                                /\ l[m].type \in TurnCompleted
        BY <1>3, <2>1, <2>2 DEF LogInv, Settled, n
      <3> QED BY <1>3, <2>1, <3>1
    <2>3. CASE j > n
      <3>1. PICK m \in 1 .. n : l[m].turn = l[i].turn /\ l[m].type \in TurnCompleted
        BY <1>3, <1>5, <2>1, <2>3 DEF Follows, Before, n
      <3>2. m < j
        BY <1>1, <2>3
      <3> QED BY <1>3, <2>1, <3>1, <3>2
    <2> QED BY <1>4, <2>2, <2>3
  <1>9. Newest(a)
    <2> SUFFICES ASSUME NEW i \in 1 .. Len(a), NEW j \in 1 .. Len(a), i < j,
                        a[j].type = "completed"
                 PROVE  a[i].turn <= a[j].turn
      BY DEF Newest
    <2>1. CASE j \in 1 .. n
      <3>1. i \in 1 .. n
        BY <1>1, <2>1
      <3> QED BY <1>3, <2>1, <3>1 DEF LogInv, Newest, n
    <2>2. CASE j > n
      <3>1. \A x \in 1 .. n : l[x].turn <= t
        BY <1>4, <2>2 DEF Follows, n
      <3> QED BY <1>3, <1>4, <1>5, <1>6, <2>2, <3>1
    <2> QED BY <1>4, <2>1, <2>2
  <1>10. OneAnswer(a)
    <2>1. \A k \in 1 .. Len(a) : a[k].type = "responded" => k \in 1 .. n /\ l[k].type = "responded"
      BY <1>3, <1>4, <1>5
    <2> QED BY <2>1 DEF LogInv, OneAnswer, n
  <1> QED BY <1>2, <1>7, <1>8, <1>9, <1>10 DEF LogInv, a

(* A response of an earlier turn is settled, when the log has a later one. *)
LEMMA OldTurn ==
    ASSUME NEW l, LogInv(l), NEW j \in 1 .. Len(l) PROVE Before(l, l[j].turn)
  <1> SUFFICES ASSUME NEW i \in 1 .. Len(l), l[i].type = "completed", l[i].turn < l[j].turn
               PROVE  \E m \in 1 .. Len(l) : l[m].turn = l[i].turn /\ l[m].type \in TurnCompleted
    BY DEF Before
  <1>1. l[i].turn \in Nat /\ l[j].turn \in Nat /\ Len(l) \in Nat
    BY DEF LogInv, Events
  <1>2. i < j
    <2>1. ~(j < i)
      BY <1>1 DEF LogInv, Newest
    <2>2. i # j
      BY <1>1
    <2> QED BY <1>1, <2>1, <2>2
  <1> QED BY <1>2 DEF LogInv, Settled

(* What concerns no turn, or the newest, may always follow.                *)
LEMMA NewestBefore ==
    ASSUME NEW l, LogInv(l) PROVE Before(l, LastOf(Turns(l))) /\ Before(l, 0)
  <1>1. l \in Seq(Events)
    BY DEF LogInv
  <1>2. Before(l, 0)
    BY <1>1 DEF Before, Events
  <1>3. CASE LastOf(Turns(l)) # 0
    <2>1. PICK k \in 1 .. Len(l) : l[k].turn = LastOf(Turns(l))
      BY <1>1, <1>3, NewestTurn
    <2>2. Before(l, l[k].turn)
      BY OldTurn
    <2> QED BY <1>2, <2>1, <2>2
  <1> QED BY <1>2, <1>3

-----------------------------------------------------------------------------
(* What the loop appends.                                                  *)

Of(e, t) == e \in Events /\ e.turn = t /\ e.type # "responded"
IsEarly(e) == e.type = "phase" /\ e.data \in Early
HasEarly(s) == \E k \in 1 .. Len(s) : IsEarly(s[k])
HasType(s, y) == \E k \in 1 .. Len(s) : s[k].type = y

(* The events a turn writes.                                               *)
LEMMA PhaseEvent ==
    ASSUME NEW t \in Nat, NEW p \in Phases
    PROVE  /\ Of(Phase(t, p), t) /\ Phase(t, p).type = "phase"
           /\ IsEarly(Phase(t, p)) <=> p \in Early
           /\ IsExec(Phase(t, p), t) <=> p = "executing"
  <1>1. Phase(t, p) = [type |-> "phase", cause |-> 0, turn |-> t, data |-> p]
    BY DEF Phase, Ev
  <1> QED BY <1>1 DEF Of, Events, EventTypes, Datas, IsEarly, IsExec

(* Any other event but a command, a response or a mirrored answer.         *)
LEMMA PlainEvent ==
    ASSUME NEW y \in EventTypes \ {"phase", "completed", "command", "responded"},
           NEW c \in Int, NEW t \in Nat, NEW d \in Datas
    PROVE  /\ Of(Ev(y, c, t, d), t) /\ Ev(y, c, t, d).type = y
           /\ ~IsEarly(Ev(y, c, t, d)) /\ ~IsExec(Ev(y, c, t, d), t)
  BY DEF Of, Events, EventTypes, Ev, IsEarly, IsExec

(* A command, ...                                                          *)
LEMMA CommandEvent ==
    ASSUME NEW c \in Int, NEW t \in Nat, NEW a \in Answers \ {"invalid"}
    PROVE  /\ Of(Ev("command", c, t, a), t) /\ Ev("command", c, t, a).type = "command"
           /\ ~IsEarly(Ev("command", c, t, a)) /\ ~IsExec(Ev("command", c, t, a), t)
  BY DEF Of, Events, EventTypes, Ev, IsEarly, IsExec, Datas

(* ... and the response of a model.                                        *)
LEMMA CompletedEvent ==
    ASSUME NEW c \in Int, NEW t \in Nat, t > 0, NEW a \in Answers
    PROVE  /\ Of(Ev("completed", c, t, a), t) /\ Ev("completed", c, t, a).type = "completed"
           /\ ~IsEarly(Ev("completed", c, t, a)) /\ ~IsExec(Ev("completed", c, t, a), t)
  BY DEF Of, Events, EventTypes, Ev, IsEarly, IsExec, Datas

(* Short pieces.                                                           *)
LEMMA NoPiece ==
    ASSUME NEW t
    PROVE  /\ Piece(<<>>, t) /\ ~HasEarly(<<>>) /\ ~Exec(<<>>, t)
           /\ \A y : ~HasType(<<>>, y)
  BY DEF Piece, HasEarly, Exec, HasType

(* One event.                                                              *)
LEMMA Piece1 ==
    ASSUME NEW t \in Nat, NEW e, Of(e, t)
    PROVE  /\ Piece(<<e>>, t)
           /\ HasEarly(<<e>>) <=> IsEarly(e)
           /\ Exec(<<e>>, t) <=> IsExec(e, t)
           /\ \A y : HasType(<<e>>, y) <=> e.type = y
  <1>1. <<e>> \in Seq(Events) /\ Len(<<e>>) = 1 /\ <<e>>[1] = e /\ 1 .. 1 = {1}
    BY DEF Of
  <1> HIDE DEF IsExec
  <1> QED BY <1>1 DEF Piece, HasEarly, Exec, HasType, Of

(* Two events.                                                             *)
LEMMA Piece2 ==
    ASSUME NEW t \in Nat, NEW e, NEW f, Of(e, t), Of(f, t), IsExec(e, t) => ~IsEarly(f)
    PROVE  /\ Piece(<<e, f>>, t)
           /\ HasEarly(<<e, f>>) <=> IsEarly(e) \/ IsEarly(f)
           /\ Exec(<<e, f>>, t) <=> IsExec(e, t) \/ IsExec(f, t)
           /\ \A y : HasType(<<e, f>>, y) <=> e.type = y \/ f.type = y
  <1> DEFINE s == <<e, f>>
  <1>1. s \in Seq(Events) /\ Len(s) = 2 /\ s[1] = e /\ s[2] = f /\ 1 .. 2 = {1, 2}
    BY DEF Of
  <1> HIDE DEF s
  <1>2. Piece(s, t)
    BY <1>1 DEF Piece, Of, IsEarly
  <1>3. (HasEarly(s) <=> IsEarly(e) \/ IsEarly(f)) /\ (Exec(s, t) <=> IsExec(e, t) \/ IsExec(f, t))
    BY <1>1 DEF HasEarly, Exec
  <1>4. \A y : HasType(s, y) <=> e.type = y \/ f.type = y
    BY <1>1 DEF HasType
  <1> QED BY <1>2, <1>3, <1>4 DEF s

(* Three events.                                                           *)
LEMMA Piece3 ==
    ASSUME NEW t \in Nat, NEW e, NEW f, NEW g, Of(e, t), Of(f, t), Of(g, t),
           ~IsExec(e, t), ~IsExec(f, t)
    PROVE  /\ Piece(<<e, f, g>>, t)
           /\ HasEarly(<<e, f, g>>) <=> IsEarly(e) \/ IsEarly(f) \/ IsEarly(g)
           /\ Exec(<<e, f, g>>, t) <=> IsExec(g, t)
           /\ \A y : HasType(<<e, f, g>>, y) <=> e.type = y \/ f.type = y \/ g.type = y
  <1> DEFINE s == <<e, f, g>>
  <1>1. s \in Seq(Events) /\ Len(s) = 3 /\ s[1] = e /\ s[2] = f /\ s[3] = g /\ 1 .. 3 = {1, 2, 3}
    BY DEF Of
  <1> HIDE DEF s
  <1>2. Piece(s, t)
    BY <1>1 DEF Piece, Of, IsEarly
  <1>3. /\ HasEarly(s) <=> IsEarly(e) \/ IsEarly(f) \/ IsEarly(g)
        /\ Exec(s, t) <=> IsExec(g, t)
    BY <1>1 DEF HasEarly, Exec
  <1>4. \A y : HasType(s, y) <=> e.type = y \/ f.type = y \/ g.type = y
    BY <1>1 DEF HasType
  <1> QED BY <1>2, <1>3, <1>4 DEF s

(* Two pieces of one turn in a row.                                        *)
LEMMA PieceJoin ==
    ASSUME NEW t \in Nat, NEW a, NEW b, Piece(a, t), Piece(b, t), Exec(a, t) => ~HasEarly(b)
    PROVE  /\ Piece(a \o b, t)
           /\ HasEarly(a \o b) <=> HasEarly(a) \/ HasEarly(b)
           /\ Exec(a \o b, t) <=> Exec(a, t) \/ Exec(b, t)
           /\ \A y : HasType(a \o b, y) <=> HasType(a, y) \/ HasType(b, y)
  <1> DEFINE s == a \o b
             n == Len(a)
  <1>1. a \in Seq(Events) /\ b \in Seq(Events) /\ n \in Nat /\ Len(b) \in Nat
    BY DEF Piece
  <1>2. s \in Seq(Events) /\ Len(s) = n + Len(b)
    BY <1>1
  <1>3. \A k \in 1 .. n : k \in 1 .. Len(s) /\ s[k] = a[k]
    BY <1>1
  <1>4. \A k \in 1 .. Len(b) : n + k \in 1 .. Len(s) /\ s[n + k] = b[k]
    BY <1>1
  <1>5. \A k \in 1 .. Len(s) :
           k \in 1 .. n \/ (k > n /\ k - n \in 1 .. Len(b) /\ s[k] = b[k - n])
    BY <1>1
  <1> HIDE DEF s, n
  <1>6. HasEarly(s) <=> HasEarly(a) \/ HasEarly(b)
    BY <1>3, <1>4, <1>5 DEF HasEarly, n
  <1>7. Exec(s, t) <=> Exec(a, t) \/ Exec(b, t)
    BY <1>3, <1>4, <1>5 DEF Exec, n
  <1>8. \A y : HasType(s, y) <=> HasType(a, y) \/ HasType(b, y)
    BY <1>3, <1>4, <1>5 DEF HasType, n
  <1>9. \A k \in 1 .. Len(s) : s[k].turn = t /\ s[k].type # "responded"
    BY <1>3, <1>5 DEF Piece, n
  <1>10. ASSUME NEW j \in 1 .. Len(s), NEW k \in 1 .. Len(s), j < k,
                s[k].type = "phase", s[k].data \in Early
         PROVE  ~IsExec(s[j], t)
    <2>1. CASE k \in 1 .. n
      <3>1. j \in 1 .. n
        BY <1>1, <1>10, <2>1
      <3> QED BY <1>3, <1>10, <2>1, <3>1 DEF Piece, n
    <2>2. CASE k > n /\ j \in 1 .. n
      <3>1. HasEarly(b)
        BY <1>1, <1>5, <1>10, <2>2 DEF HasEarly, IsEarly
      <3> QED BY <1>3, <2>2, <3>1 DEF Exec, n
    <2>3. CASE k > n /\ j > n
      <3>1. j - n < k - n
        BY <1>1, <1>10
      <3>2. /\ j - n \in 1 .. Len(b) /\ s[j] = b[j - n]
            /\ k - n \in 1 .. Len(b) /\ s[k] = b[k - n]
        BY <1>1, <1>5, <2>3
      <3> QED BY <1>10, <3>1, <3>2 DEF Piece
    <2> QED BY <1>1, <1>5, <2>1, <2>2, <2>3
  <1>11. Piece(s, t)
    BY <1>2, <1>9, <1>10 DEF Piece
  <1> QED BY <1>6, <1>7, <1>8, <1>11 DEF s

(* A piece without a response of the model or a result of a tool, ...      *)
Steady(s) == ~HasType(s, "completed") /\ ~HasType(s, "tool.completed")

(* ... and one that does not wait for a peer either.                       *)
Calm(s) == Steady(s) /\ ~HasType(s, "waiting")

(* The turn t has left its early phases and entered none of them again.    *)
Late(e, t) == e.type = "phase" /\ e.turn = t /\ e.data \notin Early
Past(l, t) ==
    \E i \in 1 .. Len(l) :
        /\ Late(l[i], t)
        /\ \A j \in 1 .. Len(l) : j > i /\ l[j].turn = t => ~IsEarly(l[j])

(* It stays so when what follows enters no early phase of the turn.        *)
LEMMA PastKept ==
    ASSUME NEW l \in Seq(Events), NEW s \in Seq(Events), NEW t, Past(l, t),
           \A k \in 1 .. Len(s) : s[k].turn = t => ~IsEarly(s[k])
    PROVE  Past(l \o s, t)
  <1> DEFINE a == l \o s
             n == Len(l)
  <1>1. /\ n \in Nat /\ Len(s) \in Nat /\ Len(a) = n + Len(s)
        /\ \A k \in 1 .. n : k \in 1 .. Len(a) /\ a[k] = l[k]
        /\ \A k \in 1 .. Len(a) : k \in 1 .. n \/ (k - n \in 1 .. Len(s) /\ a[k] = s[k - n])
    OBVIOUS
  <1>2. PICK i \in 1 .. n : /\ Late(l[i], t)
                           /\ \A j \in 1 .. n : j > i /\ l[j].turn = t => ~IsEarly(l[j])
    BY DEF Past
  <1> HIDE DEF a, n
  <1>3. \A j \in 1 .. Len(a) : j > i /\ a[j].turn = t => ~IsEarly(a[j])
    BY <1>1, <1>2
  <1>4. i \in 1 .. Len(a) /\ Late(a[i], t)
    BY <1>1, <1>2
  <1>5. Past(a, t)
    BY <1>3, <1>4 DEF Past
  <1> QED BY <1>5 DEF a

(* It is so when it is so at the end.                                      *)
LEMMA PastAfter ==
    ASSUME NEW l \in Seq(Events), NEW s \in Seq(Events), NEW t, Past(s, t)
    PROVE  Past(l \o s, t)
  <1> DEFINE a == l \o s
             n == Len(l)
  <1>1. /\ n \in Nat /\ Len(s) \in Nat /\ Len(a) = n + Len(s)
        /\ \A k \in 1 .. Len(s) : n + k \in 1 .. Len(a) /\ a[n + k] = s[k]
        /\ \A k \in 1 .. Len(a) : k > n => (k - n \in 1 .. Len(s) /\ a[k] = s[k - n])
    OBVIOUS
  <1>2. PICK i \in 1 .. Len(s) : /\ Late(s[i], t)
                           /\ \A j \in 1 .. Len(s) : j > i /\ s[j].turn = t => ~IsEarly(s[j])
    BY DEF Past
  <1> HIDE DEF a, n
  <1>3. ASSUME NEW j \in 1 .. Len(a), j > n + i, a[j].turn = t PROVE ~IsEarly(a[j])
    <2>1. j > n
      BY <1>1, <1>3
    <2>2. j - n \in 1 .. Len(s) /\ a[j] = s[j - n] /\ j - n > i
      BY <1>1, <1>3, <2>1
    <2> QED BY <1>2, <1>3, <2>2
  <1>4. n + i \in 1 .. Len(a) /\ Late(a[n + i], t)
    BY <1>1, <1>2
  <1>5. Past(a, t)
    BY <1>3, <1>4 DEF Past
  <1> QED BY <1>5 DEF a

(* A submission, after its authorisation.                                  *)
LEMMA SubmitPiece ==
    ASSUME NEW l, NEW t \in Nat, NEW c \in Int
    PROVE  LET s == Submit(l, t, c).todo IN
           /\ Submit(l, t, c).pc = "advance"
           /\ Piece(s, t) /\ Calm(s) /\ ~Exec(s, t)
  <1> DEFINE rec == Phase(t, "recording")
             pas == Ev("gate.passed", c, t, None)
             end == Phase(t, "submitted")
             sub == Ev("submitted", c, t, None)
             fai == Ev("gate.failed", c, t, None)
             nud == Ev("nudged", c, t, None)
             sto == Ev("stopped", c, t, None)
  <1>1. None \in Datas /\ "recording" \in Phases /\ "submitted" \in Phases
    BY DEF Datas, Phases
  <1>2. Of(rec, t) /\ ~IsExec(rec, t) /\ rec.type = "phase"
    BY <1>1, PhaseEvent
  <1>3. Of(end, t) /\ ~IsExec(end, t) /\ end.type = "phase"
    BY <1>1, PhaseEvent
  <1>4. /\ Of(pas, t) /\ ~IsExec(pas, t) /\ pas.type = "gate.passed"
        /\ Of(sub, t) /\ ~IsExec(sub, t) /\ sub.type = "submitted"
        /\ ~IsEarly(sub)
    BY <1>1, PlainEvent DEF EventTypes
  <1>5. /\ Of(fai, t) /\ ~IsExec(fai, t) /\ fai.type = "gate.failed"
        /\ Of(nud, t) /\ ~IsExec(nud, t) /\ nud.type = "nudged"
        /\ Of(sto, t) /\ ~IsExec(sto, t) /\ sto.type = "stopped"
    BY <1>1, PlainEvent DEF EventTypes
  <1>6. \/ Submit(l, t, c) = Then("advance", <<rec>> \o <<pas, end, sub>>)
        \/ Submit(l, t, c) = Then("advance", <<rec>> \o <<fai, nud>>)
        \/ Submit(l, t, c) = Then("advance", <<rec>> \o <<fai, sto>>)
    BY DEF Submit
  <1> HIDE DEF rec, pas, end, sub, fai, nud, sto
  <1>7. Piece(<<rec>>, t) /\ ~Exec(<<rec>>, t) /\ Calm(<<rec>>)
    BY <1>2, Piece1 DEF Calm, Steady
  <1>8. \A s : Piece(s, t) /\ Calm(s) /\ ~Exec(s, t)
                 => Piece(<<rec>> \o s, t) /\ Calm(<<rec>> \o s) /\ ~Exec(<<rec>> \o s, t)
    BY <1>7, PieceJoin DEF Calm, Steady
  <1>9. /\ Piece(<<pas, end, sub>>, t) /\ Calm(<<pas, end, sub>>) /\ ~Exec(<<pas, end, sub>>, t)
    BY <1>3, <1>4, Piece3 DEF Calm, Steady
  <1>10. Piece(<<fai, nud>>, t) /\ Calm(<<fai, nud>>) /\ ~Exec(<<fai, nud>>, t)
    BY <1>5, Piece2 DEF Calm, Steady
  <1>11. Piece(<<fai, sto>>, t) /\ Calm(<<fai, sto>>) /\ ~Exec(<<fai, sto>>, t)
    BY <1>5, Piece2 DEF Calm, Steady
  <1>12. /\ Submit(l, t, c).pc = "advance"
         /\ \/ Submit(l, t, c).todo = <<rec>> \o <<pas, end, sub>>
            \/ Submit(l, t, c).todo = <<rec>> \o <<fai, nud>>
            \/ Submit(l, t, c).todo = <<rec>> \o <<fai, sto>>
    BY <1>6 DEF Then
  <1> QED BY <1>8, <1>9, <1>10, <1>11, <1>12

(* A command is authorised; only a tool call enters action_executing.      *)
LEMMA AuthorizePiece ==
    ASSUME NEW l, NEW t \in Nat, NEW c \in Int, NEW a \in Answers \ {"invalid"}
    PROVE  LET n == Authorize(l, t, c, a) IN
           /\ n.pc \in {"tool", "ask", "advance"}
           /\ n.pc = "tool" => Exec(n.todo, t)
           /\ n.pc = "ask" => Past(n.todo, t)
           /\ Piece(n.todo, t) /\ Calm(n.todo)
  <1> DEFINE aut == Phase(t, "authorizing")
             exe == Phase(t, "executing")
             rec == Phase(t, "recording")
             sto == Ev("stopped", c, t, None)
             sub == Submit(l, t, c)
  <1>1. None \in Datas /\ {"recording", "executing", "authorizing"} \subseteq Phases
    BY DEF Datas, Phases
  <1>2. /\ Of(aut, t) /\ ~IsExec(aut, t) /\ aut.type = "phase"
        /\ Of(exe, t) /\ IsExec(exe, t) /\ exe.type = "phase"
        /\ Of(rec, t) /\ ~IsExec(rec, t) /\ rec.type = "phase"
    BY <1>1, PhaseEvent
  <1>3. Of(sto, t) /\ ~IsExec(sto, t) /\ sto.type = "stopped"
    BY <1>1, PlainEvent DEF EventTypes
  <1>4. sub.pc = "advance" /\ Piece(sub.todo, t) /\ Calm(sub.todo)
    BY SubmitPiece
  <1>5. \/ Authorize(l, t, c, a) = Then("tool", <<aut>> \o <<exe>>)
        \/ Authorize(l, t, c, a) = Then("ask", <<aut>> \o <<rec>>)
        \/ Authorize(l, t, c, a) = Then(sub.pc, <<aut>> \o sub.todo)
        \/ Authorize(l, t, c, a) = Then("advance", <<aut>> \o <<rec, sto>>)
    BY DEF Authorize, Answers, Then
  <1> HIDE DEF aut, exe, rec, sto, sub
  <1>6. Piece(<<aut>>, t) /\ ~Exec(<<aut>>, t) /\ Calm(<<aut>>)
    BY <1>2, Piece1 DEF Calm, Steady
  <1>7. \A s : Piece(s, t) /\ Calm(s)
                 => Piece(<<aut>> \o s, t) /\ Calm(<<aut>> \o s) /\ (Exec(s, t) => Exec(<<aut>> \o s, t))
    BY <1>6, PieceJoin DEF Calm, Steady
  <1>8. Piece(<<exe>>, t) /\ Exec(<<exe>>, t) /\ Calm(<<exe>>)
    BY <1>2, Piece1 DEF Calm, Steady
  <1>9. Piece(<<rec>>, t) /\ Calm(<<rec>>)
    BY <1>2, Piece1 DEF Calm, Steady
  <1>10. Piece(<<rec, sto>>, t) /\ Calm(<<rec, sto>>)
    BY <1>2, <1>3, Piece2 DEF Calm, Steady
  <1> DEFINE n == Authorize(l, t, c, a)
  <1>11. \/ n.pc = "tool" /\ n.todo = <<aut>> \o <<exe>>
         \/ n.pc = "ask" /\ n.todo = <<aut>> \o <<rec>>
         \/ n.pc = "advance" /\ n.todo = <<aut>> \o sub.todo
         \/ n.pc = "advance" /\ n.todo = <<aut>> \o <<rec, sto>>
    <2>1. CASE n = Then("tool", <<aut>> \o <<exe>>)
      BY <2>1 DEF Then
    <2>2. CASE n = Then("ask", <<aut>> \o <<rec>>)
      BY <2>2 DEF Then
    <2>3. CASE n = Then(sub.pc, <<aut>> \o sub.todo)
      BY <1>4, <2>3 DEF Then
    <2>4. CASE n = Then("advance", <<aut>> \o <<rec, sto>>)
      BY <2>4 DEF Then
    <2> QED BY <1>5, <2>1, <2>2, <2>3, <2>4
  <1> HIDE DEF n
  <1>12. /\ n.pc \in {"tool", "ask", "advance"} /\ (n.pc = "tool" => Exec(n.todo, t))
         /\ Piece(n.todo, t) /\ Calm(n.todo)
    BY <1>4, <1>7, <1>8, <1>9, <1>10, <1>11
  <1>13. Past(<<rec>>, t)
    <2>1. Len(<<rec>>) = 1 /\ <<rec>>[1] = rec /\ 1 .. 1 = {1} /\ Late(rec, t)
      BY DEF rec, Phase, Ev, Late, Early
    <2> QED BY <2>1 DEF Past
  <1>14. Past(<<aut>> \o <<rec>>, t)
    BY <1>6, <1>9, <1>13, PastAfter DEF Piece
  <1>15. n.pc = "ask" => Past(n.todo, t)
    BY <1>11, <1>14
  <1> QED BY <1>12, <1>15 DEF n

(* The response r of a model is parsed.                                    *)
LEMMA DecidePiece ==
    ASSUME NEW l, Len(l) \in Nat, NEW t \in Nat, NEW r \in Int, NEW a \in Answers
    PROVE  LET n == Decide(l, t, r, a) IN
           /\ n.pc \in {"tool", "ask", "advance"}
           /\ n.pc = "tool" => Exec(n.todo, t)
           /\ n.pc = "ask" => Past(n.todo, t)
           /\ Piece(n.todo, t) /\ Calm(n.todo)
  <1> DEFINE val == Phase(t, "validating")
             fai == Phase(t, "failed")
             inv == Ev("invalid", r, t, None)
             cmd == Ev("command", r, t, a)
             aut == Authorize(l, t, Len(l) + 2, a)
  <1>1. None \in Datas /\ "validating" \in Phases /\ "failed" \in Phases
    BY DEF Datas, Phases
  <1>2. /\ Of(val, t) /\ ~IsExec(val, t) /\ val.type = "phase"
        /\ Of(fai, t) /\ ~IsExec(fai, t) /\ fai.type = "phase"
    BY <1>1, PhaseEvent
  <1>3. Of(inv, t) /\ ~IsExec(inv, t) /\ inv.type = "invalid"
    BY <1>1, PlainEvent DEF EventTypes
  <1>4. CASE a = "invalid"
    <2>1. Decide(l, t, r, a) = Then("advance", <<val, fai, inv>>)
      BY <1>4 DEF Decide
    <2> HIDE DEF val, fai, inv
    <2>2. Piece(<<val, fai, inv>>, t) /\ Calm(<<val, fai, inv>>)
      BY <1>2, <1>3, Piece3 DEF Calm, Steady
    <2> QED BY <2>1, <2>2 DEF Then
  <1>5. CASE a # "invalid"
    <2>1. Decide(l, t, r, a) = Then(aut.pc, <<val, cmd>> \o aut.todo)
      BY <1>5 DEF Decide
    <2>2. Of(cmd, t) /\ ~IsExec(cmd, t) /\ cmd.type = "command"
      BY <1>5, CommandEvent
    <2>3. /\ aut.pc \in {"tool", "ask", "advance"} /\ (aut.pc = "tool" => Exec(aut.todo, t))
          /\ Piece(aut.todo, t) /\ Calm(aut.todo) /\ (aut.pc = "ask" => Past(aut.todo, t))
      <3>1. Len(l) + 2 \in Int
        OBVIOUS
      <3> QED BY <1>5, <3>1, AuthorizePiece
    <2> HIDE DEF val, cmd, aut
    <2>4. Piece(<<val, cmd>>, t) /\ ~Exec(<<val, cmd>>, t) /\ Calm(<<val, cmd>>)
      BY <1>2, <2>2, Piece2 DEF Calm, Steady
    <2>5. /\ Piece(<<val, cmd>> \o aut.todo, t) /\ Calm(<<val, cmd>> \o aut.todo)
          /\ Exec(aut.todo, t) => Exec(<<val, cmd>> \o aut.todo, t)
      BY <2>3, <2>4, PieceJoin DEF Calm, Steady
    <2>6. aut.pc = "ask" => Past(<<val, cmd>> \o aut.todo, t)
      BY <2>3, <2>4, PastAfter DEF Piece
    <2> QED BY <2>1, <2>3, <2>5, <2>6 DEF Then
  <1> QED BY <1>4, <1>5

-----------------------------------------------------------------------------
(* One round of the loop.                                                  *)

Upto(l, t) == \A k \in 1 .. Len(l) : l[k].turn <= t

(* What run_once may append to the log l, and where it then stands: before *)
(* the model in a turn that has not executed, before a tool in one that    *)
(* has only now been let through, or before its peer in a turn that was    *)
(* not past its early phases.                                              *)
LoopStep(w, l, next) ==
    \E t \in Nat :
        /\ next.pc \in {"model", "tool", "ask", "advance", "raise"}
        /\ Piece(next.todo, t) /\ Follows(l, next.todo, t)
        /\ next.pc = "model" => /\ t > 0 /\ Upto(l, t) /\ next.todo # <<>>
                                /\ ~Exec(l, t) /\ ~Exec(next.todo, t)
        /\ next.pc = "tool" => Upto(l, t) /\ ~Exec(l, t) /\ Exec(next.todo, t)
        /\ HasType(next.todo, "tool.completed") => Succeeded(w)
        /\ ~HasType(next.todo, "waiting") /\ ~HasType(next.todo, "completed")
        /\ HasEarly(next.todo) => ~Past(l, t)
        /\ next.pc \in {"model", "ask"} => Upto(l, t) /\ next.todo # <<>> /\ ~Past(l, t)
        /\ next.pc = "ask" => Past(next.todo, t)

(* When a piece may follow the log, in these words.                        *)
LEMMA FollowsIf ==
    ASSUME NEW l, NEW s, NEW t, HasEarly(s) => ~Exec(l, t), HasType(s, "completed") => Upto(l, t),
           Before(l, t)
    PROVE  Follows(l, s, t)
  BY DEF Follows, HasEarly, IsEarly, HasType, Upto

(* Nothing to do, or something the loop refuses to do.                     *)
LEMMA NothingStep ==
    ASSUME NEW w, NEW l, LogInv(l), NEW c \in {"advance", "raise"}
    PROVE  LoopStep(w, l, Then(c, <<>>))
  <1>1. Then(c, <<>>).pc = c /\ Then(c, <<>>).todo = <<>>
    BY DEF Then
  <1>2. /\ Piece(<<>>, 0) /\ Follows(l, <<>>, 0) /\ ~HasType(<<>>, "tool.completed")
        /\ ~HasType(<<>>, "waiting") /\ ~HasType(<<>>, "completed") /\ ~HasEarly(<<>>)
    BY NoPiece, NewestBefore, FollowsIf
  <1> QED BY <1>1, <1>2 DEF LoopStep

(* A new turn begins.                                                      *)
LEMMA NewTurnStep ==
    ASSUME NEW w, NEW l, LogInv(l),
           \A i \in 1 .. Len(l) : l[i].type = "completed" =>
               \E m \in 1 .. Len(l) : l[m].turn = l[i].turn /\ l[m].type \in TurnCompleted
    PROVE  LoopStep(w, l, NewTurn(l))
  <1> DEFINE t == 1 + LastOf(Turns(l))
             n == Len(l)
             con == Phase(t, "context")
             cap == Ev("capability", n, t, None)
             ctx == Ev("context", n + 2, t, None)
             cal == Phase(t, "calling")
             req == Ev("request", n + 3, t, None)
             s == <<con, cap, ctx, cal, req>>
  <1>1. l \in Seq(Events) /\ n \in Nat
    BY DEF LogInv
  <1>2. t \in Nat /\ t > 0 /\ \A k \in 1 .. n : l[k].turn < t
    BY <1>1, NewestTurn, EventTurn
  <1>3. NewTurn(l).pc = "model" /\ NewTurn(l).todo = s
    BY DEF NewTurn, Then
  <1>4. n \in Int /\ n + 2 \in Int /\ n + 3 \in Int /\ None \in Datas
        /\ "context" \in Phases /\ "calling" \in Phases
    BY <1>1 DEF Datas, Phases
  <1>n. t \in Nat
    BY <1>2
  <1> HIDE DEF t, n
  <1>5. /\ Of(con, t) /\ ~IsExec(con, t) /\ con.type = "phase"
        /\ Of(cal, t) /\ ~IsExec(cal, t) /\ cal.type = "phase"
    BY <1>n, <1>4, PhaseEvent
  <1>6. /\ Of(cap, t) /\ ~IsExec(cap, t) /\ cap.type = "capability"
        /\ Of(ctx, t) /\ ~IsExec(ctx, t) /\ ctx.type = "context"
        /\ Of(req, t) /\ ~IsExec(req, t) /\ req.type = "request"
    BY <1>n, <1>4, PlainEvent DEF EventTypes
  <1> HIDE DEF con, cap, ctx, cal, req
  <1>7. /\ s \in Seq(Events) /\ Len(s) = 5 /\ 1 .. 5 = {1, 2, 3, 4, 5}
        /\ s[1] = con /\ s[2] = cap /\ s[3] = ctx /\ s[4] = cal /\ s[5] = req
    BY <1>5, <1>6 DEF Of
  <1> HIDE DEF s
  <1>8. Piece(s, t) /\ ~Exec(s, t) /\ s # <<>>
    BY <1>5, <1>6, <1>7 DEF Piece, Exec, Of
  <1>9. ~HasType(s, "completed") /\ ~HasType(s, "tool.completed") /\ ~HasType(s, "waiting")
    BY <1>5, <1>6, <1>7 DEF HasType
  <1>10. ~Exec(l, t) /\ Upto(l, t) /\ ~Past(l, t)
    BY <1>1, <1>2, EventTurn DEF Exec, IsExec, Upto, Past, Late, n
  <1>11. Before(l, t)
    BY DEF Before
  <1>12. Follows(l, s, t)
    BY <1>9, <1>10, <1>11, FollowsIf
  <1> QED BY <1>2, <1>3, <1>8, <1>9, <1>10, <1>12 DEF LoopStep

(* An operation that was started is taken up from the ledger.              *)
LEMMA RecoverStep ==
    ASSUME NEW w, NEW l, LogInv(l), NEW k \in 1 .. Len(l)
    PROVE  LoopStep(w, l, RecoverOperation(w, l, k))
  <1> DEFINE t == l[k].turn
             n == Len(l)
             rec == Phase(t, "recording")
             com == Ev("tool.completed", k, t, None)
             don == Ev("op.completed", n + 2, t, n + 2)
             fai == Ev("op.failed", k, t, None)
             unk == Ev("op.unknown", k, t, None)
             next == RecoverOperation(w, l, k)
  <1>1. l \in Seq(Events) /\ t \in Nat /\ n \in Nat /\ k \in Int
    BY EventTurn DEF LogInv
  <1>2. Before(l, t)
    BY OldTurn
  <1>3. None \in Datas /\ n + 2 \in Int /\ n + 2 \in Datas /\ "recording" \in Phases
    BY <1>1 DEF Datas, Phases
  <1>4. /\ Of(rec, t) /\ ~IsExec(rec, t) /\ ~IsEarly(rec) /\ rec.type = "phase"
    BY <1>1, <1>3, PhaseEvent DEF Early
  <1>5. /\ Of(com, t) /\ ~IsExec(com, t) /\ ~IsEarly(com) /\ com.type = "tool.completed"
        /\ Of(fai, t) /\ ~IsExec(fai, t) /\ ~IsEarly(fai) /\ fai.type = "op.failed"
        /\ Of(unk, t) /\ ~IsExec(unk, t) /\ ~IsEarly(unk) /\ unk.type = "op.unknown"
    BY <1>1, <1>3, PlainEvent DEF EventTypes
  <1>6. Of(don, t) /\ ~IsExec(don, t) /\ ~IsEarly(don) /\ don.type = "op.completed"
    BY <1>1, <1>3, PlainEvent DEF EventTypes
  <1>7. \/ next = Then("raise", <<>>)
        \/ next = Then("advance", <<rec>> \o <<com, don>>) /\ Succeeded(w)
        \/ next = Then("advance", <<rec>> \o <<fai>>)
        \/ next = Then("advance", <<rec>> \o <<unk>>)
    <2> DEFINE state == IF t \in DOMAIN ledger[w] THEN ledger[w][t] ELSE "missing"
    <2>1. state = "succeeded" => Succeeded(w)
      BY DEF Succeeded
    <2>2. \/ next = Then("raise", <<>>)
          \/ next = Then("advance", <<rec>> \o <<com, don>>) /\ state = "succeeded"
          \/ next = Then("advance", <<rec>> \o <<fai>>)
          \/ next = Then("advance", <<rec>> \o <<unk>>)
      BY DEF RecoverOperation
    <2> QED BY <2>1, <2>2
  <1> HIDE DEF rec, com, don, fai, unk, next, t
  <1>8. Piece(<<rec>>, t) /\ ~HasEarly(<<rec>>) /\ Calm(<<rec>>)
    BY <1>1, <1>4, Piece1 DEF Calm, Steady
  <1>9. \A s : Piece(s, t) /\ ~HasEarly(s) /\ ~HasType(s, "completed") /\ ~HasType(s, "waiting") =>
               /\ Piece(<<rec>> \o s, t) /\ ~HasEarly(<<rec>> \o s) /\ ~HasType(<<rec>> \o s, "completed")
               /\ ~HasType(<<rec>> \o s, "waiting")
               /\ HasType(<<rec>> \o s, "tool.completed") => HasType(s, "tool.completed")
    BY <1>1, <1>8, PieceJoin DEF Calm, Steady
  <1>10. /\ Piece(<<com, don>>, t) /\ ~HasEarly(<<com, don>>) /\ ~HasType(<<com, don>>, "completed")
         /\ ~HasType(<<com, don>>, "waiting")
    BY <1>1, <1>5, <1>6, Piece2
  <1>11. Piece(<<fai>>, t) /\ ~HasEarly(<<fai>>) /\ Calm(<<fai>>)
    BY <1>1, <1>5, Piece1 DEF Calm, Steady
  <1>12. Piece(<<unk>>, t) /\ ~HasEarly(<<unk>>) /\ Calm(<<unk>>)
    BY <1>1, <1>5, Piece1 DEF Calm, Steady
  <1>13. \A s : Piece(s, t) /\ ~HasEarly(s) /\ ~HasType(s, "completed") /\ ~HasType(s, "waiting")
                  /\ (HasType(s, "tool.completed") => Succeeded(w))
                  => LoopStep(w, l, Then("advance", s))
    <2> SUFFICES ASSUME NEW s, Piece(s, t), ~HasEarly(s), ~HasType(s, "completed"),
                        ~HasType(s, "waiting"), HasType(s, "tool.completed") => Succeeded(w)
                 PROVE  LoopStep(w, l, Then("advance", s))
      OBVIOUS
    <2>1. Follows(l, s, t)
      BY <1>2, FollowsIf
    <2>2. Then("advance", s).pc = "advance" /\ Then("advance", s).todo = s
      BY DEF Then
    <2> QED BY <1>1, <2>1, <2>2 DEF LoopStep
  <1>14. CASE next = Then("raise", <<>>)
    BY <1>14, NothingStep DEF next
  <1>15. CASE next = Then("advance", <<rec>> \o <<com, don>>) /\ Succeeded(w)
    BY <1>9, <1>10, <1>13, <1>15 DEF next
  <1>16. CASE next = Then("advance", <<rec>> \o <<fai>>)
    BY <1>9, <1>11, <1>13, <1>16 DEF next, Calm, Steady
  <1>17. CASE next = Then("advance", <<rec>> \o <<unk>>)
    BY <1>9, <1>12, <1>13, <1>17 DEF next, Calm, Steady
  <1> QED BY <1>7, <1>14, <1>15, <1>16, <1>17

(* The events of a turn that have one of the types T.                      *)
LEMMA InTurn ==
    ASSUME NEW l, NEW t, NEW T
    PROVE  OfTurn(l, t, T) = { k \in 1 .. Len(l) : l[k].type \in T /\ l[k].turn = t }
  BY DEF OfTurn, Where

(* A turn whose last phase allows an early one has not executed.           *)
LEMMA PhaseEarly ==
    ASSUME NEW l, LogInv(l), NEW t \in Nat, NEW p \in {"validating", "authorizing"},
           PhaseAllowed(l, t, p)
    PROVE  ~Exec(l, t) /\ ~Past(l, t)
  <1> DEFINE S == OfTurn(l, t, {"phase"})
             k == LastOf(S)
  <1>1. l \in Seq(Events) /\ Len(l) \in Nat
    BY DEF LogInv
  <1>2. S = { i \in 1 .. Len(l) : l[i].type = "phase" /\ l[i].turn = t }
    BY InTurn
  <1>3. SUFFICES ASSUME NEW i \in 1 .. Len(l),
                        \/ IsExec(l[i], t)
                        \/ /\ Late(l[i], t)
                           /\ \A j \in 1 .. Len(l) : j > i /\ l[j].turn = t => ~IsEarly(l[j])
                 PROVE FALSE
    BY DEF Exec, Past
  <1>4. i \in S
    BY <1>2, <1>3 DEF IsExec, Late
  <1>5. S \in SUBSET (1 .. Len(l)) /\ S # {}
    BY <1>2, <1>4
  <1>6. k = 0 \/ p \in AllowedTransitions[l[k].data]
    BY DEF PhaseAllowed
  <1> HIDE DEF S
  <1>7. k \in S /\ i <= k
    BY <1>1, <1>4, <1>5, LastPosition
  <1> HIDE DEF k
  <1>8. k \in 1 .. Len(l) /\ l[k].type = "phase" /\ l[k].turn = t /\ l[k].data \in Phases
    BY <1>1, <1>2, <1>7 DEF Events
  <1>9. p \in AllowedTransitions[l[k].data]
    BY <1>6, <1>8
  <1>10. l[k].data \in {"calling", "validating"}
    BY <1>8, <1>9 DEF AllowedTransitions, Phases
  <1>11. i # k
    BY <1>3, <1>10 DEF IsExec, Late, Early
  <1>12. i < k
    BY <1>7, <1>8, <1>11
  <1> QED BY <1>3, <1>8, <1>10, <1>12 DEF LogInv, Forward, Early, IsEarly

(* The turn to resume has its response and nothing that settles it, and no *)
(* turn is newer.                                                          *)
LEMMA OpenTurn ==
    ASSUME NEW l, LogInv(l), RecoverableTurn(l) # 0
    PROVE  LET t == RecoverableTurn(l) IN
           /\ t \in Nat /\ Before(l, t)
           /\ OfTurn(l, t, TurnCompleted) = {}
           /\ OfTurn(l, t, {"completed"}) # {} => Upto(l, t)
           /\ \A i \in 1 .. Len(l) :
                 l[i].type = "completed" /\ OfTurn(l, l[i].turn, TurnCompleted) = {}
                    => l[i].turn <= t
  <1> DEFINE open == { t \in Turns(l) : OfTurn(l, t, {"request", "completed"}) # {}
                                        /\ OfTurn(l, t, TurnCompleted) = {} }
             t == LastOf(open)
  <1>1. l \in Seq(Events) /\ Len(l) \in Nat /\ \A k \in 1 .. Len(l) : l[k].turn \in Nat
    BY EventTurn DEF LogInv
  <1>2. t = RecoverableTurn(l)
    BY DEF RecoverableTurn
  <1>3. open # {}
    BY <1>2 DEF LastOf
  <1>4. Turns(l) = { l[k].turn : k \in 1 .. Len(l) }
    BY <1>1 DEF Turns
  <1>5. PICK n \in Nat : \A k \in 1 .. Len(l) : l[k].turn <= n
    BY <1>1, TurnsBounded
  <1>6. open \in SUBSET (0 .. n)
    BY <1>1, <1>4, <1>5
  <1>7. t \in open /\ \A y \in open : y <= t
    <2> HIDE DEF open
    <2> QED BY <1>3, <1>6, LastIn
  <1> HIDE DEF t
  <1>8. PICK j \in 1 .. Len(l) : l[j].turn = t
    BY <1>4, <1>7
  <1>9. t \in Nat /\ Before(l, t) /\ OfTurn(l, t, TurnCompleted) = {}
    BY <1>1, <1>7, <1>8, OldTurn
  <1>10. ASSUME OfTurn(l, t, {"completed"}) # {} PROVE Upto(l, t)
    <2>1. PICK i \in 1 .. Len(l) : l[i].type = "completed" /\ l[i].turn = t
      BY <1>10, InTurn
    <2> SUFFICES ASSUME NEW k \in 1 .. Len(l), ~(l[k].turn <= t) PROVE FALSE
      BY DEF Upto
    <2>2. l[i].turn < l[k].turn
      BY <1>1, <1>9, <2>1
    <2>3. PICK m \in 1 .. Len(l) : l[m].turn = t /\ l[m].type \in TurnCompleted
      BY <2>1, <2>2, OldTurn DEF Before
    <2> QED BY <1>9, <2>3, InTurn
  <1>11. ASSUME NEW i \in 1 .. Len(l), l[i].type = "completed",
                OfTurn(l, l[i].turn, TurnCompleted) = {}
         PROVE  l[i].turn <= t
    <2>1. i \in OfTurn(l, l[i].turn, {"request", "completed"})
      BY <1>11, InTurn
    <2>2. l[i].turn \in open
      BY <1>4, <1>11, <2>1
    <2> QED BY <1>7, <2>2
  <1> QED BY <1>2, <1>9, <1>10, <1>11

(* What is written first when a response, or a command, is used again.     *)
LEMMA KeptPiece ==
    ASSUME NEW t \in Nat, NEW s, NEW r \in Int, NEW c \in Int,
           s \in { <<>>, <<Ev("reused", r, t, None)>>, <<Ev("command.reused", c, t, None)>>,
                   <<Ev("reused", r, t, None)>> \o <<Ev("command.reused", c, t, None)>> }
    PROVE  Piece(s, t) /\ ~HasEarly(s) /\ ~Exec(s, t) /\ Calm(s)
  <1> DEFINE e == Ev("reused", r, t, None)
             f == Ev("command.reused", c, t, None)
  <1>1. None \in Datas
    BY DEF Datas
  <1>2. /\ Of(e, t) /\ ~IsExec(e, t) /\ ~IsEarly(e) /\ e.type = "reused"
        /\ Of(f, t) /\ ~IsExec(f, t) /\ ~IsEarly(f) /\ f.type = "command.reused"
    BY <1>1, PlainEvent DEF EventTypes
  <1>3. s \in {<<>>, <<e>>, <<f>>, <<e>> \o <<f>>}
    OBVIOUS
  <1> HIDE DEF e, f
  <1>4. Piece(<<e>>, t) /\ ~HasEarly(<<e>>) /\ ~Exec(<<e>>, t) /\ Calm(<<e>>)
    BY <1>2, Piece1 DEF Calm, Steady
  <1>5. Piece(<<f>>, t) /\ ~HasEarly(<<f>>) /\ ~Exec(<<f>>, t) /\ Calm(<<f>>)
    BY <1>2, Piece1 DEF Calm, Steady
  <1>6. /\ Piece(<<e>> \o <<f>>, t) /\ ~HasEarly(<<e>> \o <<f>>)
        /\ ~Exec(<<e>> \o <<f>>, t) /\ Calm(<<e>> \o <<f>>)
    BY <1>4, <1>5, PieceJoin DEF Calm, Steady
  <1>7. Piece(<<>>, t) /\ ~HasEarly(<<>>) /\ ~Exec(<<>>, t) /\ Calm(<<>>)
    BY NoPiece DEF Calm, Steady
  <1> QED BY <1>3, <1>4, <1>5, <1>6, <1>7

(* An interrupted turn that has its response is resumed.                   *)
LEMMA ResumeStep ==
    ASSUME NEW w, NEW l, LogInv(l), RecoverableTurn(l) # 0,
           OfTurn(l, RecoverableTurn(l), {"completed"}) # {}
    PROVE  LoopStep(w, l, ResumeTurn(l, RecoverableTurn(l)))
  <1> DEFINE t == RecoverableTurn(l)
             r == LastOf(OfTurn(l, t, {"completed"}))
             c == LastOf(OfTurn(l, t, {"command"}))
             again == IF OfTurn(l, t, {"reused"}) # {} THEN <<>>
                      ELSE << Ev("reused", r, t, None) >>
             kept == again \o (IF c = 0 \/ OfTurn(l, t, {"command.reused"}) # {}
                               THEN <<>> ELSE << Ev("command.reused", c, t, None) >>)
             dec == Decide(l \o kept, t, r, l[r].data)
             aut == Authorize(l \o kept, t, c, l[c].data)
             rest == IF c = 0
                     THEN IF PhaseAllowed(l, t, "validating") THEN dec ELSE Then("raise", <<>>)
                     ELSE IF PhaseAllowed(l, t, "authorizing") THEN aut ELSE Then("raise", <<>>)
             next == ResumeTurn(l, t)
  <1>1. l \in Seq(Events) /\ Len(l) \in Nat
    BY DEF LogInv
  <1>2. t \in Nat /\ Before(l, t) /\ Upto(l, t)
    BY OpenTurn
  <1>3. OfTurn(l, t, {"completed"}) # {}
    OBVIOUS
  <1>4. next = Then(rest.pc, kept \o rest.todo)
    BY DEF ResumeTurn
  <1> HIDE DEF t
  <1>5. r \in 1 .. Len(l) /\ l[r].data \in Answers
    <2>1. r \in OfTurn(l, t, {"completed"})
      BY <1>1, <1>3, InTurn, LastPosition
    <2>2. r \in 1 .. Len(l) /\ l[r].type = "completed"
      BY <2>1, InTurn
    <2> QED BY <1>1, <2>2 DEF Events
  <1>6. c = 0 \/ (c \in 1 .. Len(l) /\ l[c].data \in Answers \ {"invalid"})
    <2>1. CASE OfTurn(l, t, {"command"}) = {}
      BY <2>1 DEF LastOf
    <2>2. CASE OfTurn(l, t, {"command"}) # {}
      <3>1. c \in OfTurn(l, t, {"command"})
        BY <1>1, <2>2, InTurn, LastPosition
      <3>2. c \in 1 .. Len(l) /\ l[c].type = "command"
        BY <3>1, InTurn
      <3> QED BY <1>1, <3>2 DEF Events
    <2> QED BY <2>1, <2>2
  <1>7. r \in Int /\ c \in Int
    BY <1>5, <1>6
  <1> HIDE DEF r, c
  <1>8. kept \in { <<>>, <<Ev("reused", r, t, None)>>, <<Ev("command.reused", c, t, None)>>,
                   <<Ev("reused", r, t, None)>> \o <<Ev("command.reused", c, t, None)>> }
    <2> DEFINE e == Ev("reused", r, t, None)
               f == Ev("command.reused", c, t, None)
    <2>1. kept \in {<<>> \o <<>>, <<e>> \o <<>>, <<>> \o <<f>>, <<e>> \o <<f>>}
      OBVIOUS
    <2> HIDE DEF e, f, kept
    <2>2. <<>> \o <<>> = <<>> /\ <<e>> \o <<>> = <<e>> /\ <<>> \o <<f>> = <<f>>
      OBVIOUS
    <2> QED BY <2>1, <2>2 DEF e, f
  <1>9. Piece(kept, t) /\ ~HasEarly(kept) /\ ~Exec(kept, t) /\ Calm(kept)
    BY <1>2, <1>7, <1>8, KeptPiece
  <1> HIDE DEF kept
  <1>10. Len(l \o kept) \in Nat
    BY <1>1, <1>9 DEF Piece
  <1> DEFINE Good(n) == /\ n.pc \in {"tool", "ask", "advance", "raise"}
                        /\ n.pc = "tool" => Exec(n.todo, t)
                        /\ Piece(n.todo, t) /\ Calm(n.todo)
                        /\ n.pc # "raise" => ~Exec(l, t) /\ ~Past(l, t)
                        /\ n.pc = "raise" => n.todo = <<>>
                        /\ n.pc = "ask" => Past(n.todo, t)
  <1>11. Good(Then("raise", <<>>))
    BY NoPiece DEF Then, Calm, Steady
  <1>12. PhaseAllowed(l, t, "validating") => Good(dec)
    <2>1. PhaseAllowed(l, t, "validating") => ~Exec(l, t) /\ ~Past(l, t)
      BY <1>2, PhaseEarly
    <2>2. /\ dec.pc \in {"tool", "ask", "advance"} /\ (dec.pc = "tool" => Exec(dec.todo, t))
          /\ Piece(dec.todo, t) /\ Calm(dec.todo) /\ (dec.pc = "ask" => Past(dec.todo, t))
      BY <1>2, <1>5, <1>7, <1>10, DecidePiece
    <2> HIDE DEF dec
    <2> QED BY <2>1, <2>2
  <1>13. c # 0 /\ PhaseAllowed(l, t, "authorizing") => Good(aut)
    <2>1. PhaseAllowed(l, t, "authorizing") => ~Exec(l, t) /\ ~Past(l, t)
      BY <1>2, PhaseEarly
    <2>2. c # 0 =>
          /\ aut.pc \in {"tool", "ask", "advance"} /\ (aut.pc = "tool" => Exec(aut.todo, t))
          /\ Piece(aut.todo, t) /\ Calm(aut.todo) /\ (aut.pc = "ask" => Past(aut.todo, t))
      BY <1>2, <1>6, <1>7, AuthorizePiece
    <2> HIDE DEF aut
    <2> QED BY <2>1, <2>2
  <1>14. Good(rest)
    <2> HIDE DEF Good, dec, aut
    <2> QED BY <1>11, <1>12, <1>13
  <1> HIDE DEF rest, next
  <1>15. next.pc = rest.pc /\ next.todo = kept \o rest.todo
    BY <1>4 DEF Then
  <1>16. /\ Piece(next.todo, t) /\ Calm(next.todo)
         /\ Exec(rest.todo, t) => Exec(next.todo, t)
         /\ HasEarly(next.todo) => HasEarly(rest.todo)
    BY <1>2, <1>9, <1>14, <1>15, PieceJoin DEF Calm, Steady
  <1>17. HasEarly(next.todo) => ~Exec(l, t) /\ ~Past(l, t)
    BY <1>14, <1>16, NoPiece
  <1>a. next.pc = "ask" => Past(next.todo, t) /\ next.todo # <<>>
    <2>1. next.pc = "ask" => Past(next.todo, t)
      BY <1>9, <1>14, <1>15, PastAfter DEF Piece
    <2> QED BY <2>1 DEF Past
  <1>18. Follows(l, next.todo, t)
    BY <1>2, <1>16, <1>17, FollowsIf DEF Calm, Steady
  <1>19. LoopStep(w, l, next)
    BY <1>2, <1>14, <1>15, <1>16, <1>17, <1>18, <1>a DEF LoopStep, Calm, Steady
  <1> QED BY <1>19 DEF next, t

(* Whatever run_once does.                                                 *)
LEMMA RunOnceStep ==
    ASSUME NEW w, NEW l, LogInv(l), NEW next \in RunOnce(w, l)
    PROVE  LoopStep(w, l, next)
  <1> DEFINE t == RecoverableTurn(l)
             u == Unresolved(l)
  <1>1. l \in Seq(Events) /\ Len(l) \in Nat /\ \A k \in 1 .. Len(l) : l[k].turn \in Nat
    BY EventTurn DEF LogInv
  <1>2. u # 0 => u \in 1 .. Len(l)
    <2> DEFINE S == Where(l, LAMBDA e : e.type = "op.started"
             /\ OfTurn(l, e.turn, {"op.completed", "op.failed", "op.unknown"}) = {})
    <2>1. u = LastOf(S) /\ S \in SUBSET (1 .. Len(l))
      BY DEF Unresolved, Where
    <2> HIDE DEF S, u
    <2>2. S = {} => u = 0
      BY <2>1 DEF LastOf
    <2> QED BY <1>1, <2>1, <2>2, LastPosition
  <1>3. \/ next = Then("advance", <<>>) \/ next = Then("raise", <<>>)
        \/ next = RecoverOperation(w, l, u) /\ u # 0
        \/ next = ResumeTurn(l, t) /\ t # 0 /\ OfTurn(l, t, {"completed"}) # {}
        \/ next = NewTurn(l) /\ (t = 0 \/ OfTurn(l, t, {"completed"}) = {})
    BY DEF RunOnce
  <1> HIDE DEF u
  <1>4. CASE next = Then("advance", <<>>) \/ next = Then("raise", <<>>)
    BY <1>4, NothingStep
  <1>5. CASE next = RecoverOperation(w, l, u) /\ u # 0
    BY <1>2, <1>5, RecoverStep
  <1>6. CASE next = ResumeTurn(l, t) /\ t # 0 /\ OfTurn(l, t, {"completed"}) # {}
    BY <1>6, ResumeStep
  <1>7. CASE next = NewTurn(l) /\ (t = 0 \/ OfTurn(l, t, {"completed"}) = {})
    <2>1. ASSUME NEW i \in 1 .. Len(l), l[i].type = "completed"
          PROVE  \E m \in 1 .. Len(l) : l[m].turn = l[i].turn /\ l[m].type \in TurnCompleted
      <3>1. SUFFICES ASSUME OfTurn(l, l[i].turn, TurnCompleted) = {} PROVE FALSE
        BY InTurn
      <3>2. l[i].turn \in Nat /\ l[i].turn > 0
        BY <1>1, <2>1 DEF Events
      <3>3. t # 0
        <4> DEFINE open == { x \in Turns(l) : OfTurn(l, x, {"request", "completed"}) # {}
                                        /\ OfTurn(l, x, TurnCompleted) = {} }
        <4>1. t = LastOf(open)
          BY DEF RecoverableTurn
        <4>2. Turns(l) = { l[k].turn : k \in 1 .. Len(l) }
          BY <1>1 DEF Turns
        <4>3. i \in OfTurn(l, l[i].turn, {"request", "completed"})
          BY <2>1, InTurn
        <4>4. l[i].turn \in open
          BY <3>1, <4>2, <4>3
        <4>5. PICK n \in Nat : \A k \in 1 .. Len(l) : l[k].turn <= n
          BY <1>1, TurnsBounded
        <4>6. open \in SUBSET (0 .. n)
          BY <1>1, <4>2, <4>5
        <4> HIDE DEF open
        <4>7. LastOf(open) \in open /\ l[i].turn <= LastOf(open)
          BY <4>4, <4>6, LastIn
        <4> QED BY <3>2, <4>1, <4>6, <4>7
      <3>4. t \in Nat /\ Before(l, t) /\ l[i].turn <= t
        BY <2>1, <3>1, <3>3, OpenTurn
      <3> HIDE DEF t
      <3>5. l[i].turn # t
        <4>1. OfTurn(l, t, {"completed"}) = {}
          BY <1>7, <3>3
        <4> QED BY <2>1, <4>1, InTurn
      <3>6. l[i].turn < t
        BY <3>2, <3>4, <3>5
      <3> QED BY <2>1, <3>1, <3>4, <3>6, InTurn DEF Before
    <2> QED BY <1>7, <2>1, NewTurnStep
  <1> QED BY <1>3, <1>4, <1>5, <1>6, <1>7

-----------------------------------------------------------------------------
(* Logs that grow.                                                         *)

(* Appending nothing, and appending in two steps.                          *)
LEMMA Appends ==
    ASSUME NEW a \in Seq(Events), NEW b \in Seq(Events), NEW c \in Seq(Events)
    PROVE  a \o <<>> = a /\ <<>> \o a = a /\ a \o (b \o c) = (a \o b) \o c
  <1>1. a \o <<>> = a /\ <<>> \o a = a
    OBVIOUS
  <1> DEFINE x == a \o (b \o c)
             y == (a \o b) \o c
  <1>2. x \in Seq(Events) /\ y \in Seq(Events)
    OBVIOUS
  <1>3. Len(x) = Len(y)
    OBVIOUS
  <1>4. ASSUME NEW k \in 1 .. Len(x) PROVE x[k] = y[k]
    OBVIOUS
  <1> HIDE DEF x, y
  <1>5. x = y
    BY <1>2, <1>3, <1>4
  <1> QED BY <1>1, <1>5 DEF x, y

(* What is in a log of two parts is in one of them.                        *)
LEMMA InJoined ==
    ASSUME NEW l \in Seq(Events), NEW s \in Seq(Events)
    PROVE  /\ \A t : Exec(l \o s, t) <=> Exec(l, t) \/ Exec(s, t)
           /\ \A y : HasType(l \o s, y) <=> HasType(l, y) \/ HasType(s, y)
  <1> DEFINE a == l \o s
             n == Len(l)
  <1>1. /\ n \in Nat /\ Len(s) \in Nat /\ Len(a) = n + Len(s)
        /\ \A k \in 1 .. n : k \in 1 .. Len(a) /\ a[k] = l[k]
        /\ \A k \in 1 .. Len(s) : n + k \in 1 .. Len(a) /\ a[n + k] = s[k]
        /\ \A k \in 1 .. Len(a) :
               k \in 1 .. n \/ (k - n \in 1 .. Len(s) /\ a[k] = s[k - n])
    OBVIOUS
  <1> HIDE DEF a, n
  <1>2. \A t : Exec(a, t) <=> Exec(l, t) \/ Exec(s, t)
    BY <1>1 DEF Exec, n
  <1>3. \A y : HasType(a, y) <=> HasType(l, y) \/ HasType(s, y)
    BY <1>1 DEF HasType, n
  <1> QED BY <1>2, <1>3 DEF a

(* The newest turn, by what it is.                                         *)
LEMMA NewestIs ==
    ASSUME NEW l \in Seq(Events), NEW t \in Nat, Upto(l, t),
           t = 0 \/ \E k \in 1 .. Len(l) : l[k].turn = t
    PROVE  LastOf(Turns(l)) = t
  <1> DEFINE u == LastOf(Turns(l))
  <1>1. /\ u \in Nat /\ \A k \in 1 .. Len(l) : l[k].turn <= u
        /\ u # 0 => \E k \in 1 .. Len(l) : l[k].turn = u
    BY NewestTurn
  <1>2. \A k \in 1 .. Len(l) : l[k].turn \in Nat
    BY EventTurn
  <1> HIDE DEF u
  <1>3. t <= u
    BY <1>1
  <1>4. u <= t
    BY <1>1 DEF Upto
  <1>5. t = u
    BY <1>1, <1>3, <1>4
  <1> QED BY <1>5 DEF u

(* A piece of a turn that is not older makes it the newest.                *)
LEMMA NewestJoin ==
    ASSUME NEW l \in Seq(Events), NEW t \in Nat, NEW s, Piece(s, t), Upto(l, t), s # <<>>
    PROVE  LastOf(Turns(l \o s)) = t
  <1> DEFINE a == l \o s
             n == Len(l)
  <1>1. s \in Seq(Events) /\ Len(s) > 0 /\ Len(s) \in Nat
    BY DEF Piece
  <1>2. /\ a \in Seq(Events) /\ n \in Nat /\ Len(a) = n + Len(s)
        /\ \A k \in 1 .. n : a[k] = l[k]
        /\ \A k \in 1 .. Len(s) : n + k \in 1 .. Len(a) /\ a[n + k] = s[k]
        /\ \A k \in 1 .. Len(a) :
               k \in 1 .. n \/ (k - n \in 1 .. Len(s) /\ a[k] = s[k - n])
    BY <1>1
  <1> HIDE DEF a, n
  <1>3. \A k \in 1 .. Len(s) : s[k].turn = t
    BY DEF Piece
  <1>4. Upto(a, t)
    <2> SUFFICES ASSUME NEW k \in 1 .. Len(a) PROVE a[k].turn <= t
      BY DEF Upto
    <2>1. CASE k \in 1 .. n
      BY <1>2, <2>1 DEF Upto, n
    <2>2. CASE k \notin 1 .. n
      <3>1. a[k].turn = t
        BY <1>2, <1>3, <2>2
      <3> QED BY <3>1
    <2> QED BY <2>1, <2>2
  <1>5. 1 \in 1 .. Len(s)
    BY <1>1
  <1>6. \E k \in 1 .. Len(a) : a[k].turn = t
    BY <1>2, <1>3, <1>5
  <1>7. LastOf(Turns(a)) = t
    BY <1>2, <1>4, <1>6, NewestIs
  <1> QED BY <1>7 DEF a

(* What concerns no turn changes nothing about the turns.                  *)
LEMMA ZeroInv ==
    ASSUME NEW l, LogInv(l), NEW s \in Seq(Events), OneAnswer(l \o s),
           \A k \in 1 .. Len(s) : s[k].turn = 0 /\ s[k].type \notin {"phase", "completed"}
    PROVE  LogInv(l \o s) /\ \A t : ~Exec(s, t)
  <1> DEFINE a == l \o s
             n == Len(l)
  <1>1. l \in Seq(Events) /\ n \in Nat /\ Len(s) \in Nat
    BY DEF LogInv
  <1>2. a \in Seq(Events) /\ Len(a) = n + Len(s)
    BY <1>1
  <1>3. \A k \in 1 .. n : a[k] = l[k] /\ k \in 1 .. Len(a)
    BY <1>1
  <1>4. \A k \in 1 .. Len(a) : k \in 1 .. n \/ (k > n /\ k - n \in 1 .. Len(s) /\ a[k] = s[k - n])
    BY <1>1
  <1>5. \A k \in 1 .. Len(a) : k > n => a[k].turn = 0 /\ a[k].type \notin {"phase", "completed"}
    BY <1>1, <1>4
  <1>6. \A k \in 1 .. Len(a) : a[k].turn \in Nat
    BY <1>2, EventTurn
  <1>7. OneAnswer(a)
    OBVIOUS
  <1> HIDE DEF a, n
  <1>8. Forward(a)
    <2> SUFFICES ASSUME NEW i \in 1 .. Len(a), NEW j \in 1 .. Len(a), i < j,
                        a[j].type = "phase", a[j].data \in Early
                 PROVE  ~IsExec(a[i], a[j].turn)
      BY DEF Forward
    <2>1. j \in 1 .. n
      BY <1>4, <1>5
    <2>2. i \in 1 .. n
      BY <1>1, <2>1
    <2> QED BY <1>3, <2>1, <2>2 DEF LogInv, Forward, n
  <1>9. Settled(a)
    <2> SUFFICES ASSUME NEW i \in 1 .. Len(a), NEW j \in 1 .. Len(a), i < j,
                        a[i].type = "completed", a[i].turn < a[j].turn
                 PROVE  \E m \in 1 .. Len(a) : /\ m < j /\ a[m].turn = a[i].turn
                                               /\ a[m].type \in TurnCompleted
      BY DEF Settled
    <2>1. j \in 1 .. n
      BY <1>4, <1>5, <1>6
    <2>2. i \in 1 .. n
      BY <1>1, <2>1
    <2>3. PICK m \in 1 .. n : m < j /\ l[m].turn = l[i].turn /\ l[m].type \in TurnCompleted
      BY <1>3, <2>1, <2>2 DEF LogInv, Settled, n
    <2> QED BY <1>3, <2>2, <2>3
  <1>10. Newest(a)
    <2> SUFFICES ASSUME NEW i \in 1 .. Len(a), NEW j \in 1 .. Len(a), i < j,
                        a[j].type = "completed"
                 PROVE  a[i].turn <= a[j].turn
      BY DEF Newest
    <2>1. j \in 1 .. n
      BY <1>4, <1>5
    <2>2. i \in 1 .. n
      BY <1>1, <2>1
    <2> QED BY <1>3, <2>1, <2>2 DEF LogInv, Newest, n
  <1>11. \A t : ~Exec(s, t)
    BY DEF Exec, IsExec
  <1> QED BY <1>2, <1>7, <1>8, <1>9, <1>10, <1>11 DEF LogInv, a

(* What a handler writes before the loop runs.                             *)
LEMMA PreludeInv ==
    ASSUME NEW w, NEW m, m.n \in Nat, LogInv(log[w])
    PROVE  LET p == Prelude(w, m) IN
           /\ p \in Seq(Events) /\ LogInv(log[w] \o p)
           /\ \A t : ~Exec(p, t)
           /\ ~HasType(p, "tool.completed")
           /\ \A k \in 1 .. Len(p) :
                 p[k].turn = 0 /\ p[k].type \in {"heartbeat", "renewed", "responded", "seed"}
           /\ HasType(p, "responded") => m.kind = "responded"
           /\ m.kind = "responded" => HasType(log[w] \o p, "responded")
  <1> DEFINE l == log[w]
             h == LastOf(Where(l, LAMBDA e : e.type = "ready" /\ e.data = m.n))
             b1 == Ev("heartbeat", h, 0, m.n)
             b2 == Ev("renewed", h, 0, m.n)
             r == Ev("responded", Outside, 0, None)
             d == Ev("seed", Outside, 0, None)
             p == Prelude(w, m)
             None1 == OfType(l, {"responded"}) = {}
  <1>1. l \in Seq(Events) /\ Len(l) \in Nat
    BY DEF LogInv
  <1>2. h \in Int
    <2> DEFINE S == Where(l, LAMBDA e : e.type = "ready" /\ e.data = m.n)
    <2>1. S \in SUBSET (1 .. Len(l)) /\ h = LastOf(S)
      BY DEF Where
    <2> HIDE DEF S, h
    <2>2. S = {} => h = 0
      BY <2>1 DEF LastOf
    <2>3. S # {} => h \in S
      BY <1>1, <2>1, LastPosition
    <2>4. h = 0 \/ h \in 1 .. Len(l)
      BY <2>1, <2>2, <2>3
    <2>5. h \in Int
      BY <2>4
    <2> QED BY <2>5 DEF h
  <1>3. None \in Datas /\ m.n \in Datas /\ Outside \in Int
    BY DEF Datas, Outside
  <1> HIDE DEF h
  <1>4. /\ b1 \in Events /\ b1.turn = 0 /\ b1.type = "heartbeat"
        /\ b2 \in Events /\ b2.turn = 0 /\ b2.type = "renewed"
        /\ r \in Events /\ r.turn = 0 /\ r.type = "responded"
        /\ d \in Events /\ d.turn = 0 /\ d.type = "seed"
    BY <1>2, <1>3 DEF Events, EventTypes, Ev
  <1> DEFINE x == IF w = "asg" /\ m.kind = "ready"
                     /\ Where(l, LAMBDA e : e.type = "renewed" /\ e.data = m.n) = {}
                  THEN <<b1, b2>> ELSE <<>>
             y == IF m.kind = "responded" /\ None1 THEN <<r>> ELSE <<>>
             z == IF l = <<>> THEN <<d>> ELSE <<>>
  <1>5. /\ p = x \o y \o z
        /\ x = <<>> \/ x = <<b1, b2>>
        /\ y = <<>> \/ (y = <<r>> /\ None1)
        /\ z = <<>> \/ z = <<d>>
        /\ m.kind # "responded" => y = <<>>
        /\ m.kind = "responded" /\ None1 => y = <<r>>
    <2>1. p = x \o y \o z
      BY DEF Prelude, h
    <2> QED BY <2>1
  <1> HIDE DEF b1, b2, r, d, p, x, y, z
  <1>6. /\ x \in Seq(Events) /\ y \in Seq(Events) /\ z \in Seq(Events)
        /\ Len(x) \in Nat /\ Len(y) \in Nat /\ Len(y) <= 1 /\ Len(z) \in Nat
    <2> DEFINE Q == Seq(Events)
    <2>0. <<>> \in Q /\ Len(<<>>) = 0
      OBVIOUS
    <2>5. <<b1, b2>> \in Q /\ Len(<<b1, b2>>) = 2
      BY <1>4
    <2>6. <<r>> \in Q /\ Len(<<r>>) = 1
      BY <1>4
    <2>7. <<d>> \in Q /\ Len(<<d>>) = 1
      BY <1>4
    <2> HIDE DEF Q, None1
    <2>1. x \in Q /\ Len(x) \in Nat
      <3>1. CASE x = <<>>
        BY <2>0, <3>1
      <3>2. CASE x = <<b1, b2>>
        BY <2>5, <3>2
      <3> QED BY <1>5, <3>1, <3>2
    <2>2. y \in Q /\ Len(y) \in Nat /\ Len(y) <= 1
      <3>1. CASE y = <<>>
        BY <2>0, <3>1
      <3>2. CASE y = <<r>>
        BY <2>6, <3>2
      <3> QED BY <1>5, <3>1, <3>2
    <2>3. z \in Q /\ Len(z) \in Nat
      <3>1. CASE z = <<>>
        BY <2>0, <3>1
      <3>2. CASE z = <<d>>
        BY <2>7, <3>2
      <3> QED BY <1>5, <3>1, <3>2
    <2> QED BY <2>1, <2>2, <2>3 DEF Q
  <1>7. p \in Seq(Events) /\ Len(p) = Len(x) + Len(y) + Len(z)
    BY <1>5, <1>6
  <1>8. /\ \A k \in 1 .. Len(x) : x[k] \in {b1, b2}
        /\ \A k \in 1 .. Len(y) : y[k] = r /\ None1
        /\ \A k \in 1 .. Len(z) : z[k] = d
    <2>1. \A k \in 1 .. Len(x) : x[k] \in {b1, b2}
      BY <1>5
    <2>2. \A k \in 1 .. Len(y) : y[k] = r /\ None1
      BY <1>5
    <2>3. \A k \in 1 .. Len(z) : z[k] = d
      BY <1>5
    <2> QED BY <2>1, <2>2, <2>3
  <1>9. ASSUME NEW k \in 1 .. Len(p)
        PROVE  p[k] \in {b1, b2, d} \/ (p[k] = r /\ None1 /\ k = Len(x) + 1)
    <2>1. CASE k <= Len(x)
      <3>1. p[k] = x[k] /\ k \in 1 .. Len(x)
        BY <1>5, <1>6, <2>1
      <3> QED BY <1>8, <3>1
    <2>2. CASE k > Len(x) /\ k <= Len(x) + Len(y)
      <3>1. k - Len(x) \in 1 .. Len(y) /\ p[k] = y[k - Len(x)]
        BY <1>5, <1>6, <2>2
      <3>2. k = Len(x) + 1
        BY <1>6, <2>2
      <3> QED BY <1>8, <3>1, <3>2
    <2>3. CASE k > Len(x) + Len(y)
      <3>1. k - (Len(x) + Len(y)) \in 1 .. Len(z) /\ p[k] = z[k - (Len(x) + Len(y))]
        BY <1>5, <1>6, <1>7, <2>3
      <3> QED BY <1>8, <3>1
    <2> QED BY <1>6, <1>7, <2>1, <2>2, <2>3
  <1>10. \A k \in 1 .. Len(p) : /\ p[k].turn = 0
                                /\ p[k].type \in {"heartbeat", "renewed", "responded", "seed"}
    BY <1>4, <1>9
  <1>11. OneAnswer(l \o p)
    <2> DEFINE a == l \o p
               n == Len(l)
    <2>0. p \in Seq(Events) /\ l \in Seq(Events)
      BY <1>1, <1>7
    <2>1. /\ Len(a) = n + Len(p)
          /\ \A k \in 1 .. n : a[k] = l[k]
          /\ \A k \in 1 .. Len(a) : k \in 1 .. n \/ (k - n \in 1 .. Len(p) /\ a[k] = p[k - n])
      <3> HIDE DEF l
      <3> QED BY <2>0
    <2> HIDE DEF a
    <2>2. \A k \in 1 .. Len(p) : p[k].type = "responded" => None1 /\ k = Len(x) + 1
      BY <1>4, <1>9
    <2>3. None1 => \A k \in 1 .. n : l[k].type # "responded"
      BY DEF OfType, Where
    <2>4. CASE None1
      <3>1. \A k \in 1 .. Len(a) : a[k].type = "responded" => k - n = Len(x) + 1
        BY <2>1, <2>2, <2>3, <2>4
      <3>2. n \in Nat /\ Len(x) \in Nat
        BY <1>1, <1>6
      <3> HIDE DEF n
      <3>3. \A i, j \in 1 .. Len(a) : a[i].type = "responded" /\ a[j].type = "responded" => i = j
        BY <3>1, <3>2
      <3> QED BY <3>3 DEF OneAnswer, a
    <2>5. CASE ~None1
      <3>1. \A k \in 1 .. Len(a) : a[k].type = "responded" => k \in 1 .. n /\ l[k].type = "responded"
        BY <2>1, <2>2, <2>5
      <3> QED BY <3>1 DEF LogInv, OneAnswer, a
    <2> QED BY <2>4, <2>5
  <1>12. LogInv(l \o p) /\ \A t : ~Exec(p, t)
    BY <1>7, <1>10, <1>11, ZeroInv
  <1>13. ~HasType(p, "tool.completed")
    BY <1>10 DEF HasType
  <1>14. HasType(p, "responded") => m.kind = "responded"
    <2>1. \A k \in 1 .. Len(p) : p[k].type = "responded" => p[k] = r /\ k = Len(x) + 1
      BY <1>4, <1>9
    <2>2. SUFFICES ASSUME m.kind # "responded", NEW k \in 1 .. Len(p), p[k].type = "responded"
                   PROVE  FALSE
      BY DEF HasType
    <2>3. y = <<>> /\ Len(y) = 0
      BY <1>5, <2>2
    <2>4. k = Len(x) + 1 /\ Len(p) = Len(x) + Len(z)
      BY <1>6, <1>7, <2>1, <2>2, <2>3
    <2>5. p = x \o z
      BY <1>5, <1>6, <2>3, Appends
    <2>6. k - Len(x) \in 1 .. Len(z) /\ p[k] = z[k - Len(x)]
      BY <1>6, <2>4, <2>5
    <2> QED BY <1>4, <1>8, <2>2, <2>6
  <1>15. m.kind = "responded" => HasType(l \o p, "responded")
    <2>1. SUFFICES ASSUME m.kind = "responded" PROVE HasType(l, "responded") \/ HasType(p, "responded")
      <3> HIDE DEF l
      <3> QED BY <1>1, <1>7, <2>1, InJoined
    <2>2. CASE None1
      <3>1. y = <<r>>
        BY <1>5, <2>1, <2>2
      <3>2. Len(y) = 1 /\ y[1] = r
        BY <3>1
      <3>3. Len(x) + 1 \in 1 .. Len(p) /\ p[Len(x) + 1] = y[1]
        BY <1>5, <1>6, <1>7, <3>2
      <3> QED BY <1>4, <3>2, <3>3 DEF HasType
    <2>3. CASE ~None1
      BY <2>3 DEF OfType, Where, HasType
    <2> QED BY <2>2, <2>3
  <1> QED BY <1>7, <1>10, <1>12, <1>13, <1>14, <1>15 DEF p

-----------------------------------------------------------------------------
(* The invariant of one agent run: its log l with what its handler is      *)
(* about to append to it, where the handler stands, and the ledger.        *)

Done(rows) == \E t \in DOMAIN rows : rows[t] = "succeeded"

(* Every row of the ledger is of a turn that executed, and a turn that is  *)
(* before its tool has no row yet: that is what keeps a row that succeeded *)
(* from being written again.                                               *)
RunOK(l, s, pc, rows) ==
    LET a == l \o s
        t == LastOf(Turns(a))
    IN /\ l \in Seq(Events) /\ s \in Seq(Events) /\ LogInv(a)
       /\ pc = "idle" => s = <<>>
       /\ \A u \in DOMAIN rows : Exec(l, u)
       /\ pc = "model" => t > 0 /\ ~Exec(a, t)
       /\ pc = "tool" => Exec(a, t) /\ t \notin DOMAIN rows
       /\ pc = "effect" => t \in DOMAIN rows /\ rows[t] = "started"
       /\ HasType(a, "tool.completed") => Done(rows)

(* A handler with nothing to append.                                       *)
LEMMA RunAt ==
    ASSUME NEW l, NEW pc, NEW rows, RunOK(l, <<>>, pc, rows)
    PROVE  LET t == LastOf(Turns(l)) IN
           /\ l \in Seq(Events) /\ Len(l) \in Nat /\ LogInv(l)
           /\ t \in Nat /\ Upto(l, t) /\ Before(l, t) /\ Before(l, 0)
           /\ \A u \in DOMAIN rows : Exec(l, u)
           /\ pc = "model" => t > 0 /\ ~Exec(l, t)
           /\ pc = "tool" => Exec(l, t) /\ t \notin DOMAIN rows
           /\ pc = "effect" => t \in DOMAIN rows /\ rows[t] = "started"
           /\ HasType(l, "tool.completed") => Done(rows)
  <1>1. l \in Seq(Events) /\ Len(l) \in Nat
    BY DEF RunOK
  <1>2. l \o <<>> = l
    BY <1>1, Appends
  <1>3. LogInv(l)
    BY <1>2 DEF RunOK
  <1>4. LET t == LastOf(Turns(l)) IN t \in Nat /\ Upto(l, t) /\ Before(l, t) /\ Before(l, 0)
    BY <1>1, <1>3, NewestTurn, NewestBefore DEF Upto
  <1> QED BY <1>1, <1>2, <1>3, <1>4 DEF RunOK

(* Appends that leave the handler away from model and tool.                *)
LEMMA QuietOK ==
    ASSUME NEW l, NEW pc, NEW rows, RunOK(l, <<>>, pc, rows), NEW s, NEW next,
           NEW t, t = 0 \/ t = LastOf(Turns(l)),
           Piece(s, t), ~HasEarly(s), Steady(s),
           next \notin {"model", "tool", "effect"}, next = "idle" => s = <<>>
    PROVE  RunOK(l, s, next, rows)
  <1>1. /\ l \in Seq(Events) /\ LogInv(l) /\ t \in Nat /\ Before(l, t)
        /\ \A u \in DOMAIN rows : Exec(l, u)
        /\ HasType(l, "tool.completed") => Done(rows)
    BY RunAt
  <1>2. Follows(l, s, t)
    BY <1>1, FollowsIf DEF Steady
  <1>3. LogInv(l \o s)
    BY <1>1, <1>2, ExtendedInv
  <1>4. s \in Seq(Events)
    BY DEF Piece
  <1>5. HasType(l \o s, "tool.completed") => Done(rows)
    BY <1>1, <1>4, InJoined DEF Steady
  <1> QED BY <1>1, <1>3, <1>4, <1>5 DEF RunOK

(* Nothing to append.                                                      *)
LEMMA MoveOK ==
    ASSUME NEW l, NEW pc, NEW rows, RunOK(l, <<>>, pc, rows), NEW next,
           next \notin {"model", "tool", "effect"}
    PROVE  RunOK(l, <<>>, next, rows)
  <1>1. Piece(<<>>, 0) /\ ~HasEarly(<<>>) /\ Steady(<<>>)
    BY NoPiece DEF Steady
  <1> QED BY <1>1, QuietOK

(* What was pending is in the log.                                         *)
LEMMA WriteOK ==
    ASSUME NEW l, NEW s, NEW pc, NEW rows, RunOK(l, s, pc, rows)
    PROVE  RunOK(l \o s, <<>>, pc, rows)
  <1>1. l \in Seq(Events) /\ s \in Seq(Events) /\ l \o s \in Seq(Events) /\ <<>> \in Seq(Events)
    BY DEF RunOK
  <1>2. (l \o s) \o <<>> = l \o s
    BY <1>1, Appends
  <1>3. \A u \in DOMAIN rows : Exec(l \o s, u)
    BY <1>1, InJoined DEF RunOK
  <1> QED BY <1>1, <1>2, <1>3 DEF RunOK

(* An interrupted handler.                                                 *)
LEMMA CutOK ==
    ASSUME NEW l, NEW s, NEW pc, NEW rows, RunOK(l, s, pc, rows), NEW k \in 0 .. Len(s)
    PROVE  RunOK(l \o SubSeq(s, 1, k), <<>>, "idle", rows)
  <1> DEFINE c == SubSeq(s, 1, k)
             b == l \o c
  <1>1. l \in Seq(Events) /\ s \in Seq(Events) /\ <<>> \in Seq(Events) /\ LogInv(l \o s)
    BY DEF RunOK
  <1>2. c \in Seq(Events) /\ \A i \in 1 .. Len(c) : i \in 1 .. Len(s) /\ c[i] = s[i]
    BY <1>1
  <1>3. LogInv(b)
    BY <1>1, PrefixInv
  <1> HIDE DEF c
  <1>4. b \in Seq(Events) /\ b \o <<>> = b
    BY <1>1, <1>2, Appends
  <1>5. \A u \in DOMAIN rows : Exec(b, u)
    BY <1>1, <1>2, InJoined DEF RunOK
  <1>6. HasType(c, "tool.completed") => HasType(s, "tool.completed")
    BY <1>2 DEF HasType
  <1>7. HasType(b, "tool.completed") => Done(rows)
    <2>1. HasType(b, "tool.completed") => HasType(l \o s, "tool.completed")
      BY <1>1, <1>2, <1>6, InJoined
    <2> QED BY <2>1 DEF RunOK
  <1> HIDE DEF b
  <1>8. RunOK(b, <<>>, "idle", rows)
    BY <1>1, <1>3, <1>4, <1>5, <1>7 DEF RunOK
  <1> QED BY <1>8 DEF b, c

(* A delivery begins: what comes first, then the loop.                     *)
LEMMA BeginOK ==
    ASSUME NEW w, RunOK(log[w], <<>>, "idle", ledger[w]), NEW m, m.n \in Nat,
           NEW next \in RunOnce(w, log[w] \o Prelude(w, m))
    PROVE  /\ RunOK(log[w], Prelude(w, m) \o next.todo, next.pc, ledger[w])
           /\ next.pc \in {"model", "tool", "ask", "advance", "raise"}
  <1> DEFINE l == log[w]
             p == Prelude(w, m)
             a == l \o p
             rows == ledger[w]
             s == next.todo
  <1>1. /\ l \in Seq(Events) /\ LogInv(l) /\ \A u \in DOMAIN rows : Exec(l, u)
        /\ HasType(l, "tool.completed") => Done(rows)
    BY RunAt
  <1>2. /\ p \in Seq(Events) /\ LogInv(a) /\ \A t : ~Exec(p, t)
        /\ ~HasType(p, "tool.completed")
    BY <1>1, PreludeInv
  <1>3. LoopStep(w, a, next)
    BY <1>2, RunOnceStep
  <1>4. Succeeded(w) <=> Done(rows)
    BY DEF Succeeded, Done
  <1> HIDE DEF l, p, rows
  <1>5. a \in Seq(Events) /\ \A t : Exec(a, t) <=> Exec(l, t)
    BY <1>1, <1>2, InJoined
  <1>6. HasType(a, "tool.completed") => Done(rows)
    BY <1>1, <1>2, InJoined
  <1> HIDE DEF a, s
  <1>7. PICK t \in Nat :
        /\ next.pc \in {"model", "tool", "ask", "advance", "raise"}
        /\ Piece(s, t) /\ Follows(a, s, t)
        /\ next.pc = "model" => /\ t > 0 /\ Upto(a, t) /\ s # <<>>
                                /\ ~Exec(a, t) /\ ~Exec(s, t)
        /\ next.pc = "tool" => Upto(a, t) /\ ~Exec(a, t) /\ Exec(s, t)
        /\ HasType(s, "tool.completed") => Succeeded(w)
    BY <1>3 DEF LoopStep, s
  <1>8. s \in Seq(Events) /\ p \o s \in Seq(Events)
    BY <1>2, <1>7 DEF Piece
  <1>9. l \o (p \o s) = a \o s
    BY <1>1, <1>2, <1>8, Appends DEF a
  <1>10. LogInv(a \o s)
    BY <1>2, <1>7, ExtendedInv
  <1>11. s # <<>> /\ Upto(a, t) => LastOf(Turns(a \o s)) = t
    BY <1>5, <1>7, NewestJoin
  <1>12. Exec(s, t) => s # <<>>
    BY NoPiece
  <1>13. \A u : Exec(a \o s, u) <=> Exec(a, u) \/ Exec(s, u)
    BY <1>5, <1>8, InJoined
  <1>14. HasType(a \o s, "tool.completed") => Done(rows)
    BY <1>4, <1>5, <1>6, <1>7, <1>8, InJoined
  <1>15. next.pc = "model" => LastOf(Turns(a \o s)) > 0 /\ ~Exec(a \o s, LastOf(Turns(a \o s)))
    BY <1>7, <1>11, <1>13
  <1>16. next.pc = "tool" => /\ Exec(a \o s, LastOf(Turns(a \o s)))
                             /\ LastOf(Turns(a \o s)) \notin DOMAIN rows
    BY <1>1, <1>5, <1>7, <1>11, <1>12, <1>13
  <1>17. next.pc # "idle" /\ next.pc # "effect"
    BY <1>7
  <1>18. RunOK(l, p \o s, next.pc, rows)
    BY <1>1, <1>8, <1>9, <1>10, <1>14, <1>15, <1>16, <1>17 DEF RunOK
  <1> QED BY <1>7, <1>18 DEF l, p, s, rows

(* The model answers.                                                      *)
LEMMA ModelOK ==
    ASSUME NEW l, NEW rows, RunOK(l, <<>>, "model", rows), NEW a \in Answers
    PROVE  LET t == LastOf(Turns(l))
               done == Ev("completed", Len(l), t, a)
               next == Decide(Append(l, done), t, Len(l) + 1, a)
           IN /\ RunOK(l, <<done>> \o next.todo, next.pc, rows)
              /\ next.pc \in {"tool", "ask", "advance"}
  <1> DEFINE t == LastOf(Turns(l))
             done == Ev("completed", Len(l), t, a)
             next == Decide(Append(l, done), t, Len(l) + 1, a)
             s == <<done>> \o next.todo
  <1>1. /\ l \in Seq(Events) /\ Len(l) \in Nat /\ LogInv(l) /\ t \in Nat /\ Upto(l, t)
        /\ Before(l, t) /\ t > 0 /\ ~Exec(l, t) /\ \A u \in DOMAIN rows : Exec(l, u)
        /\ HasType(l, "tool.completed") => Done(rows)
    BY RunAt
  <1> HIDE DEF t
  <1>2. /\ Of(done, t) /\ done.type = "completed" /\ ~IsEarly(done) /\ ~IsExec(done, t)
    BY <1>1, CompletedEvent
  <1>3. Len(l) + 1 \in Int /\ Len(Append(l, done)) \in Nat
    BY <1>1, <1>2 DEF Of
  <1>4. /\ next.pc \in {"tool", "ask", "advance"} /\ (next.pc = "tool" => Exec(next.todo, t))
        /\ Piece(next.todo, t) /\ Calm(next.todo)
    BY <1>1, <1>3, DecidePiece
  <1> HIDE DEF done, next
  <1>5. Piece(<<done>>, t) /\ ~Exec(<<done>>, t) /\ ~HasType(<<done>>, "tool.completed")
    BY <1>1, <1>2, Piece1
  <1>6. /\ Piece(s, t) /\ ~HasType(s, "tool.completed")
        /\ Exec(next.todo, t) => Exec(s, t)
    BY <1>1, <1>4, <1>5, PieceJoin DEF Calm, Steady
  <1>7. s \in Seq(Events) /\ s # <<>>
    <2>1. <<done>> \in Seq(Events) /\ next.todo \in Seq(Events)
      BY <1>4, <1>5 DEF Piece
    <2> HIDE DEF s
    <2>2. s = <<done>> \o next.todo
      BY DEF s
    <2>3. Len(s) = 1 + Len(next.todo) /\ Len(next.todo) \in Nat
      BY <2>1, <2>2
    <2> QED BY <1>6, <2>3 DEF Piece
  <1> HIDE DEF s
  <1>8. LogInv(l \o s)
    <2>1. Follows(l, s, t)
      BY <1>1, FollowsIf
    <2> QED BY <1>1, <1>6, <2>1, ExtendedInv
  <1>9. LastOf(Turns(l \o s)) = t
    BY <1>1, <1>6, <1>7, NewestJoin
  <1>10. next.pc = "tool" => Exec(l \o s, t) /\ t \notin DOMAIN rows
    BY <1>1, <1>4, <1>6, <1>7, InJoined
  <1>11. HasType(l \o s, "tool.completed") => Done(rows)
    BY <1>1, <1>6, <1>7, InJoined
  <1>12. RunOK(l, s, next.pc, rows)
    BY <1>1, <1>4, <1>7, <1>8, <1>9, <1>10, <1>11 DEF RunOK
  <1> QED BY <1>4, <1>12 DEF s, next, done, t

(* The tool is started: a new row, of a turn that had none.                *)
LEMMA StartOK ==
    ASSUME NEW l, NEW rows, RunOK(l, <<>>, "tool", rows), NEW c \in Int
    PROVE  LET t == LastOf(Turns(l))
               n == Len(l)
               more == [u \in DOMAIN rows \cup {t} |-> IF u = t THEN "started" ELSE rows[u]]
           IN /\ RunOK(l, << Ev("op.started", c, t, None), Ev("tool.requested", n + 1, t, None) >>,
                       "effect", more)
              /\ Done(more) <=> Done(rows)
  <1> DEFINE t == LastOf(Turns(l))
             n == Len(l)
             more == [u \in DOMAIN rows \cup {t} |-> IF u = t THEN "started" ELSE rows[u]]
             e == Ev("op.started", c, t, None)
             f == Ev("tool.requested", n + 1, t, None)
             s == <<e, f>>
  <1>1. /\ l \in Seq(Events) /\ n \in Nat /\ LogInv(l) /\ t \in Nat /\ Upto(l, t)
        /\ Before(l, t) /\ Exec(l, t) /\ t \notin DOMAIN rows
        /\ \A u \in DOMAIN rows : Exec(l, u)
        /\ HasType(l, "tool.completed") => Done(rows)
    BY RunAt
  <1>2. None \in Datas /\ n + 1 \in Int
    BY <1>1 DEF Datas
  <1> HIDE DEF t, n
  <1>3. /\ Of(e, t) /\ e.type = "op.started" /\ ~IsEarly(e) /\ ~IsExec(e, t)
        /\ Of(f, t) /\ f.type = "tool.requested" /\ ~IsEarly(f) /\ ~IsExec(f, t)
    BY <1>1, <1>2, PlainEvent DEF EventTypes
  <1> HIDE DEF e, f
  <1>4. Piece(s, t) /\ ~HasEarly(s) /\ Calm(s) /\ s # <<>>
    BY <1>1, <1>3, Piece2 DEF Calm, Steady
  <1> HIDE DEF s
  <1>5. s \in Seq(Events)
    BY <1>4 DEF Piece
  <1>6. LogInv(l \o s)
    <2>1. Follows(l, s, t)
      BY <1>1, <1>4, FollowsIf DEF Calm, Steady
    <2> QED BY <1>1, <1>4, <2>1, ExtendedInv
  <1>7. LastOf(Turns(l \o s)) = t
    BY <1>1, <1>4, NewestJoin
  <1>8. /\ DOMAIN more = DOMAIN rows \cup {t} /\ more[t] = "started"
        /\ \A u \in DOMAIN rows : more[u] = rows[u]
    BY <1>1
  <1> HIDE DEF more
  <1>9. Done(more) <=> Done(rows)
    BY <1>8 DEF Done
  <1>10. \A u \in DOMAIN more : Exec(l, u)
    BY <1>1, <1>8
  <1>11. HasType(l \o s, "tool.completed") => Done(more)
    BY <1>1, <1>4, <1>5, <1>9, InJoined DEF Calm, Steady
  <1>12. RunOK(l, s, "effect", more)
    BY <1>1, <1>5, <1>6, <1>7, <1>8, <1>10, <1>11 DEF RunOK
  <1> QED BY <1>9, <1>12 DEF s, e, f, more, t, n

(* Its row gets an outcome, and the log the events of that outcome.        *)
LEMMA OutcomeOK ==
    ASSUME NEW l, NEW rows, RunOK(l, <<>>, "effect", rows),
           NEW o \in {"succeeded", "failed"}, NEW s, Piece(s, LastOf(Turns(l))), ~HasEarly(s),
           ~HasType(s, "completed"), HasType(s, "tool.completed") => o = "succeeded"
    PROVE  LET more == [rows EXCEPT ![LastOf(Turns(l))] = o]
           IN /\ RunOK(l, s, "advance", more)
              /\ Done(more) <=> Done(rows) \/ o = "succeeded"
  <1> DEFINE t == LastOf(Turns(l))
             more == [rows EXCEPT ![t] = o]
  <1>1. /\ l \in Seq(Events) /\ LogInv(l) /\ t \in Nat /\ Upto(l, t)
        /\ Before(l, t) /\ t \in DOMAIN rows /\ rows[t] = "started"
        /\ \A u \in DOMAIN rows : Exec(l, u)
        /\ HasType(l, "tool.completed") => Done(rows)
    BY RunAt
  <1>2. s \in Seq(Events) /\ Piece(s, t)
    BY DEF Piece
  <1> HIDE DEF t
  <1>3. LogInv(l \o s)
    <2>1. Follows(l, s, t)
      BY <1>1, FollowsIf
    <2> QED BY <1>1, <1>2, <2>1, ExtendedInv
  <1>4. /\ DOMAIN more = DOMAIN rows /\ more[t] = o
        /\ \A u \in DOMAIN rows : u # t => more[u] = rows[u]
    BY <1>1
  <1> HIDE DEF more
  <1>5. Done(more) <=> Done(rows) \/ o = "succeeded"
    BY <1>1, <1>4 DEF Done
  <1>6. HasType(l \o s, "tool.completed") => Done(more)
    BY <1>1, <1>2, <1>5, InJoined
  <1>7. RunOK(l, s, "advance", more)
    BY <1>1, <1>2, <1>3, <1>4, <1>6 DEF RunOK
  <1> QED BY <1>5, <1>7 DEF more, t

-----------------------------------------------------------------------------
(* The invariant of the whole exchange.                                    *)

Pcs == {"idle", "model", "tool", "effect", "ask", "route", "advance", "deliver",
        "promote", "fail", "release", "ack", "raise"}
Messages == [to : AgentRuns, kind : {"created", "responded", "requested", "ready"}, n : Nat]

StateOK ==
    /\ DOMAIN ledger = AgentRuns
    /\ log \in [AgentRuns -> Seq(Events)]
    /\ thread \in [AgentRuns -> [pc : Pcs, msg : Messages \cup {None}, todo : Seq(Events)]]
    /\ sent \in SUBSET Messages
    /\ answer \in Verdicts /\ verdict \in Verdicts

RunsOK == \A w \in AgentRuns : RunOK(log[w], thread[w].todo, thread[w].pc, ledger[w])

(* The peer is asked once.                                                 *)
AskedOnce == asked = {} \/ \E t : asked = {t}

(* Each acceptance rests on an operation that succeeded, and an assignment *)
(* that needs its peer has such an operation only after the answer.        *)
WorkOK ==
    /\ Succeeded("asg") /\ NeedsPeer => answer = "accepted"
    /\ answer = "accepted" => Succeeded("peer")
    /\ verdict = "accepted" => Succeeded("asg")

ProvInv == StateOK /\ RunsOK /\ AskedOnce /\ WorkOK

(* A step of the handler of w that only moves it on: it appends a piece of *)
(* its turn or of none and stays away from model and tool.                 *)
Moves(w) ==
    \E t, s, next :
        /\ thread[w].todo = <<>>
        /\ t = 0 \/ t = CurrentTurn(w)
        /\ Piece(s, t) /\ ~HasEarly(s) /\ Steady(s)
        /\ next \in Pcs \ {"idle", "model", "tool", "effect"}
        /\ thread' = [thread EXCEPT ![w].pc = next, ![w].todo = s]

(* The handlers as they are after such steps.                              *)
LEMMA MovesOK ==
    ASSUME StateOK, RunsOK, NEW w \in AgentRuns, Moves(w), UNCHANGED <<log, ledger>>
    PROVE  /\ RunsOK'
           /\ thread' \in [AgentRuns -> [pc : Pcs, msg : Messages \cup {None}, todo : Seq(Events)]]
  <1>1. PICK t, s, next :
        /\ thread[w].todo = <<>>
        /\ t = 0 \/ t = CurrentTurn(w)
        /\ Piece(s, t) /\ ~HasEarly(s) /\ Steady(s)
        /\ next \in Pcs \ {"idle", "model", "tool", "effect"}
        /\ thread' = [thread EXCEPT ![w].pc = next, ![w].todo = s]
    BY DEF Moves
  <1>2. s \in Seq(Events)
    BY <1>1 DEF Piece
  <1>3. thread' \in [AgentRuns -> [pc : Pcs, msg : Messages \cup {None}, todo : Seq(Events)]]
    BY <1>1, <1>2 DEF StateOK
  <1>4. thread'[w].pc = next /\ thread'[w].todo = s
    BY <1>1 DEF StateOK
  <1>5. \A v \in AgentRuns : v # w => thread'[v] = thread[v]
    BY <1>1 DEF StateOK
  <1>6. RunOK(log[w], s, next, ledger[w])
    <2>1. RunOK(log[w], <<>>, thread[w].pc, ledger[w])
      BY <1>1 DEF RunsOK
    <2> QED BY <1>1, <2>1, QuietOK DEF CurrentTurn
  <1>7. ASSUME NEW v \in AgentRuns
        PROVE  RunOK(log[v], thread'[v].todo, thread'[v].pc, ledger[v])
    BY <1>4, <1>5, <1>6 DEF RunsOK
  <1> QED BY <1>3, <1>7 DEF RunsOK

(* Any step that changes one handler and its run.                          *)
LEMMA OneRunOK ==
    ASSUME RunsOK, NEW w \in AgentRuns,
           RunOK(log'[w], thread'[w].todo, thread'[w].pc, ledger'[w]),
           \A v \in AgentRuns : v # w =>
               log'[v] = log[v] /\ thread'[v] = thread[v] /\ ledger'[v] = ledger[v]
    PROVE  RunsOK'
  <1>1. ASSUME NEW v \in AgentRuns
        PROVE  RunOK(log'[v], thread'[v].todo, thread'[v].pc, ledger'[v])
    BY DEF RunsOK
  <1> QED BY <1>1 DEF RunsOK

(* The facts the kernel rests on do not change.                            *)
LEMMA WorkSame ==
    ASSUME WorkOK, UNCHANGED <<ledger, answer, verdict>>
    PROVE  WorkOK'
  BY DEF WorkOK, Succeeded

-----------------------------------------------------------------------------
(* One lemma per step of a handler.                                        *)

(* A position found in a log, or 0.                                        *)
LEMMA FoundAt ==
    ASSUME NEW l \in Seq(Events), NEW S \in SUBSET (1 .. Len(l))
    PROVE  LastOf(S) \in Int
  <1>1. CASE S = {}
    BY <1>1 DEF LastOf
  <1>2. CASE S # {}
    <2>1. LastOf(S) \in S
      BY <1>2, LastPosition
    <2>2. LastOf(S) \in 1 .. Len(l)
      BY <2>1
    <2> QED BY <2>2
  <1> QED BY <1>1, <1>2

(* The current turn, its command and its operation.                        *)
LEMMA CurrentTypes ==
    ASSUME StateOK, NEW w \in AgentRuns
    PROVE  /\ CurrentTurn(w) \in Nat /\ CurrentCommand(w) \in Int /\ Len(log[w]) \in Nat
           /\ \A t, y : LastOf(OfTurn(log[w], t, {y})) \in Int
  <1>1. log[w] \in Seq(Events)
    BY DEF StateOK
  <1>2. \A t, y : OfTurn(log[w], t, {y}) \in SUBSET (1 .. Len(log[w]))
    BY InTurn
  <1>3. \A t, y : LastOf(OfTurn(log[w], t, {y})) \in Int
    BY <1>1, <1>2, FoundAt
  <1>4. CurrentTurn(w) \in Nat /\ Len(log[w]) \in Nat
    BY <1>1, NewestTurn DEF CurrentTurn
  <1>5. CurrentCommand(w) \in Int
    BY <1>3 DEF CurrentCommand
  <1> QED BY <1>3, <1>4, <1>5

(* The turns that got a response can be counted.                           *)
LEMMA TurnCount ==
    ASSUME NEW l \in Seq(Events) PROVE CompletedTurns(l) \in Nat
  <1>1. Len(l) \in Int /\ 1 \in Int
    OBVIOUS
  <1>2. IsFiniteSet(1 .. Len(l))
    BY <1>1, FS_Interval
  <1>3. OfType(l, {"completed"}) \subseteq 1 .. Len(l)
    BY DEF OfType, Where
  <1>4. IsFiniteSet(OfType(l, {"completed"}))
    BY <1>2, <1>3, FS_Subset
  <1> QED BY <1>4, FS_CardinalityType DEF CompletedTurns

(* A handler that goes on without an append, ...                           *)
LEMMA GoesOn ==
    ASSUME NEW w \in AgentRuns, thread[w].todo = <<>>,
           NEW next \in Pcs \ {"idle", "model", "tool", "effect"},
           Goto(w, Then(next, <<>>))
    PROVE  Moves(w)
  <1>1. Piece(<<>>, 0) /\ ~HasEarly(<<>>) /\ Steady(<<>>)
    BY NoPiece DEF Steady
  <1>2. thread' = [thread EXCEPT ![w].pc = next, ![w].todo = <<>>]
    BY DEF Goto, Then
  <1> QED BY <1>1, <1>2 DEF Moves

(* ... and one that appends an event.                                      *)
LEMMA Appending ==
    ASSUME NEW w \in AgentRuns, thread[w].todo = <<>>,
           NEW next \in Pcs \ {"idle", "model", "tool", "effect"},
           NEW t \in Nat, t = 0 \/ t = CurrentTurn(w),
           NEW e, Of(e, t), ~IsEarly(e), e.type # "completed", e.type # "tool.completed",
           Goto(w, Then(next, <<e>>))
    PROVE  Moves(w)
  <1>1. Piece(<<e>>, t) /\ ~HasEarly(<<e>>) /\ Steady(<<e>>)
    BY Piece1 DEF Steady
  <1>2. thread' = [thread EXCEPT ![w].pc = next, ![w].todo = <<e>>]
    BY DEF Goto, Then
  <1> QED BY <1>1, <1>2 DEF Moves

(* A handler that moves on preserves the invariant when nothing else       *)
(* changes that it speaks of.                                              *)
LEMMA MovesInv ==
    ASSUME ProvInv, NEW w \in AgentRuns, Moves(w),
           UNCHANGED <<log, ledger, answer, verdict>>,
           sent' \in SUBSET Messages, AskedOnce'
    PROVE  ProvInv'
  <1>1. /\ RunsOK'
        /\ thread' \in [AgentRuns -> [pc : Pcs, msg : Messages \cup {None}, todo : Seq(Events)]]
    BY MovesOK DEF ProvInv
  <1>2. WorkOK'
    BY WorkSame DEF ProvInv
  <1>3. StateOK'
    BY <1>1 DEF ProvInv, StateOK
  <1> QED BY <1>1, <1>2, <1>3 DEF ProvInv

(* A delivery begins, or finds the lease gone.                             *)
LEMMA BeginInv ==
    ASSUME ProvInv, NEW w \in AgentRuns, NEW m \in sent, Begin(w, m)
    PROVE  ProvInv'
  <1>1. /\ UNCHANGED <<log, ledger, asked, answer, verdict, sent>> /\ thread[w].pc = "idle"
        /\ m \in Messages /\ m.n \in Nat /\ DOMAIN thread = AgentRuns
    BY DEF Begin, Running, ProvInv, StateOK, Messages
  <1>2. WorkOK' /\ AskedOnce'
    BY <1>1, WorkSame DEF ProvInv, AskedOnce
  <1>3. CASE UNCHANGED thread
    BY <1>1, <1>2, <1>3 DEF ProvInv, StateOK, RunsOK
  <1>4. CASE \E next \in RunOnce(w, log[w] \o Prelude(w, m)) :
                 thread' = [thread EXCEPT ![w] =
                              [pc |-> next.pc, msg |-> m, todo |-> Prelude(w, m) \o next.todo]]
    <2>1. PICK next \in RunOnce(w, log[w] \o Prelude(w, m)) :
                 thread' = [thread EXCEPT ![w] =
                              [pc |-> next.pc, msg |-> m, todo |-> Prelude(w, m) \o next.todo]]
      BY <1>4
    <2>2. RunOK(log[w], <<>>, "idle", ledger[w])
      BY <1>1 DEF ProvInv, RunsOK, RunOK
    <2> DEFINE s == Prelude(w, m) \o next.todo
    <2>3. /\ RunOK(log[w], s, next.pc, ledger[w])
          /\ next.pc \in {"model", "tool", "ask", "advance", "raise"}
      BY <1>1, <2>2, BeginOK
    <2>4. s \in Seq(Events) /\ next.pc \in Pcs
      BY <2>3 DEF RunOK, Pcs
    <2>5. thread' = [thread EXCEPT ![w] = [pc |-> next.pc, msg |-> m, todo |-> s]]
      BY <2>1
    <2> HIDE DEF s
    <2>6. /\ thread'[w].pc = next.pc /\ thread'[w].todo = s
          /\ \A v \in AgentRuns : v # w => thread'[v] = thread[v]
      BY <1>1, <2>5
    <2>7. thread' \in [AgentRuns -> [pc : Pcs, msg : Messages \cup {None}, todo : Seq(Events)]]
      BY <1>1, <2>4, <2>5 DEF ProvInv, StateOK
    <2>8. RunsOK'
      BY <1>1, <2>3, <2>6, OneRunOK DEF ProvInv
    <2>9. StateOK'
      BY <1>1, <2>7 DEF ProvInv, StateOK
    <2> QED BY <1>2, <2>8, <2>9 DEF ProvInv
  <1>5. UNCHANGED thread \/ \E next \in RunOnce(w, log[w] \o Prelude(w, m)) :
                 thread' = [thread EXCEPT ![w] =
                              [pc |-> next.pc, msg |-> m, todo |-> Prelude(w, m) \o next.todo]]
    BY DEF Begin
  <1> QED BY <1>3, <1>4, <1>5

(* The pending appends are written.                                        *)
LEMMA WriteInv ==
    ASSUME ProvInv, NEW w \in AgentRuns, Write(w)
    PROVE  ProvInv'
  <1> DEFINE s == thread[w].todo
  <1>1. /\ UNCHANGED <<ledger, asked, answer, verdict, sent>>
        /\ log' = [log EXCEPT ![w] = log[w] \o s]
        /\ thread' = [thread EXCEPT ![w].todo = <<>>]
    BY DEF Write, LogAfter
  <1>2. /\ log \in [AgentRuns -> Seq(Events)] /\ s \in Seq(Events)
        /\ thread \in [AgentRuns -> [pc : Pcs, msg : Messages \cup {None}, todo : Seq(Events)]]
    BY DEF ProvInv, StateOK
  <1>3. /\ log'[w] = log[w] \o s /\ thread'[w].todo = <<>> /\ thread'[w].pc = thread[w].pc
        /\ \A v \in AgentRuns : v # w => log'[v] = log[v] /\ thread'[v] = thread[v]
        /\ \A v \in AgentRuns : ledger'[v] = ledger[v]
    BY <1>1, <1>2
  <1>4. RunOK(log[w] \o s, <<>>, thread[w].pc, ledger[w])
    BY WriteOK DEF ProvInv, RunsOK
  <1>5. RunsOK'
    BY <1>3, <1>4, OneRunOK DEF ProvInv
  <1>6. log' \in [AgentRuns -> Seq(Events)]
    BY <1>1, <1>2
  <1>7. thread' \in [AgentRuns -> [pc : Pcs, msg : Messages \cup {None}, todo : Seq(Events)]]
    <2>1. <<>> \in Seq(Events)
      OBVIOUS
    <2> HIDE DEF s
    <2> QED BY <1>1, <1>2, <2>1
  <1>8. StateOK' /\ AskedOnce'
    BY <1>1, <1>6, <1>7 DEF ProvInv, StateOK, AskedOnce
  <1>9. WorkOK'
    BY <1>1, WorkSame DEF ProvInv
  <1> QED BY <1>5, <1>8, <1>9 DEF ProvInv

(* A handler is cut off.                                                   *)
LEMMA InterruptInv ==
    ASSUME ProvInv, NEW w \in AgentRuns, Interrupt(w)
    PROVE  ProvInv'
  <1> DEFINE s == thread[w].todo
  <1>1. PICK k \in 0 .. Len(s) : log' = [log EXCEPT ![w] = log[w] \o SubSeq(s, 1, k)]
    BY DEF Interrupt
  <1>2. UNCHANGED <<ledger, asked, answer, verdict, sent>> /\ thread' = [thread EXCEPT ![w] = Idle]
    BY DEF Interrupt
  <1>3. /\ log \in [AgentRuns -> Seq(Events)] /\ s \in Seq(Events)
        /\ thread \in [AgentRuns -> [pc : Pcs, msg : Messages \cup {None}, todo : Seq(Events)]]
    BY DEF ProvInv, StateOK
  <1> DEFINE c == SubSeq(s, 1, k)
  <1>4. c \in Seq(Events) /\ log' = [log EXCEPT ![w] = log[w] \o c]
    BY <1>1, <1>3
  <1>5. RunOK(log[w] \o c, <<>>, "idle", ledger[w])
    BY <1>1, CutOK DEF ProvInv, RunsOK
  <1> HIDE DEF c
  <1>6. /\ log'[w] = log[w] \o c /\ thread'[w].todo = <<>> /\ thread'[w].pc = "idle"
        /\ \A v \in AgentRuns : v # w => log'[v] = log[v] /\ thread'[v] = thread[v]
        /\ \A v \in AgentRuns : ledger'[v] = ledger[v]
    BY <1>2, <1>3, <1>4 DEF Idle
  <1>7. RunsOK'
    BY <1>5, <1>6, OneRunOK DEF ProvInv
  <1>8. log' \in [AgentRuns -> Seq(Events)]
    BY <1>3, <1>4
  <1>9. thread' \in [AgentRuns -> [pc : Pcs, msg : Messages \cup {None}, todo : Seq(Events)]]
    BY <1>2, <1>3 DEF Idle, Pcs
  <1>10. StateOK' /\ AskedOnce'
    BY <1>2, <1>8, <1>9 DEF ProvInv, StateOK, AskedOnce
  <1>11. WorkOK'
    BY <1>2, WorkSame DEF ProvInv
  <1> QED BY <1>7, <1>10, <1>11 DEF ProvInv

(* A handler ends.                                                         *)
LEMMA EndInv ==
    ASSUME ProvInv, NEW w \in AgentRuns, Ack(w) \/ Raise(w)
    PROVE  ProvInv'
  <1>1. /\ UNCHANGED <<log, ledger, asked, answer, verdict, sent>>
        /\ thread' = [thread EXCEPT ![w] = Idle] /\ thread[w].todo = <<>>
    BY DEF Ack, Raise, At
  <1>2. thread \in [AgentRuns -> [pc : Pcs, msg : Messages \cup {None}, todo : Seq(Events)]]
    BY DEF ProvInv, StateOK
  <1>3. /\ thread'[w].todo = <<>> /\ thread'[w].pc = "idle"
        /\ \A v \in AgentRuns : v # w => thread'[v] = thread[v]
    BY <1>1, <1>2 DEF Idle
  <1>4. RunOK(log[w], <<>>, "idle", ledger[w])
    <2>1. RunOK(log[w], <<>>, thread[w].pc, ledger[w])
      BY <1>1 DEF ProvInv, RunsOK
    <2> QED BY <2>1, MoveOK
  <1>5. RunsOK'
    BY <1>1, <1>3, <1>4, OneRunOK DEF ProvInv
  <1>6. thread' \in [AgentRuns -> [pc : Pcs, msg : Messages \cup {None}, todo : Seq(Events)]]
    BY <1>1, <1>2 DEF Idle, Pcs
  <1>7. StateOK' /\ AskedOnce'
    BY <1>1, <1>6 DEF ProvInv, StateOK, AskedOnce
  <1>8. WorkOK'
    BY <1>1, WorkSame DEF ProvInv
  <1> QED BY <1>5, <1>7, <1>8 DEF ProvInv

(* The model answers and its answer is decided.                            *)
LEMMA CallModelInv ==
    ASSUME ProvInv, NEW w \in AgentRuns, CallModel(w)
    PROVE  ProvInv'
  <1> DEFINE l == log[w]
             t == CurrentTurn(w)
             Doneev(a) == Ev("completed", Len(l), t, a)
             Nx(a) == Decide(Append(l, Doneev(a)), t, Len(l) + 1, a)
  <1>1. PICK a \in Choices[w] : Goto(w, Then(Nx(a).pc, << Doneev(a) >> \o Nx(a).todo))
    BY DEF CallModel
  <1>2. /\ UNCHANGED <<log, ledger, asked, answer, verdict, sent>>
        /\ thread[w].pc = "model" /\ thread[w].todo = <<>>
    BY DEF CallModel, At, Running
  <1>3. a \in Answers
    BY <1>1, ProvenanceConstants DEF Answers
  <1>4. RunOK(l, <<>>, "model", ledger[w])
    BY <1>2 DEF ProvInv, RunsOK
  <1> DEFINE s == << Doneev(a) >> \o Nx(a).todo
             q == Nx(a).pc
  <1>5. RunOK(l, s, q, ledger[w]) /\ q \in {"tool", "ask", "advance"}
    BY <1>3, <1>4, ModelOK DEF CurrentTurn
  <1>6. thread' = [thread EXCEPT ![w].pc = q, ![w].todo = s]
    BY <1>1 DEF Goto, Then
  <1> HIDE DEF s, q
  <1>7. thread \in [AgentRuns -> [pc : Pcs, msg : Messages \cup {None}, todo : Seq(Events)]]
    BY DEF ProvInv, StateOK
  <1>8. s \in Seq(Events) /\ q \in Pcs
    BY <1>5 DEF RunOK, Pcs
  <1>9. /\ thread'[w].todo = s /\ thread'[w].pc = q
        /\ \A v \in AgentRuns : v # w => thread'[v] = thread[v]
    BY <1>6, <1>7
  <1>10. RunsOK'
    BY <1>2, <1>5, <1>9, OneRunOK DEF ProvInv
  <1>11. thread' \in [AgentRuns -> [pc : Pcs, msg : Messages \cup {None}, todo : Seq(Events)]]
    BY <1>6, <1>7, <1>8
  <1>12. StateOK' /\ AskedOnce'
    BY <1>2, <1>11 DEF ProvInv, StateOK, AskedOnce
  <1>13. WorkOK'
    BY <1>2, WorkSame DEF ProvInv
  <1> QED BY <1>10, <1>12, <1>13 DEF ProvInv

(* The tool is started.                                                    *)
LEMMA StartToolInv ==
    ASSUME ProvInv, NEW w \in AgentRuns, StartTool(w)
    PROVE  ProvInv'
  <1> DEFINE l == log[w]
             t == CurrentTurn(w)
             rows == ledger[w]
             more == [u \in DOMAIN rows \cup {t} |-> IF u = t THEN "started" ELSE rows[u]]
             s == << Ev("op.started", CurrentCommand(w), t, None),
                     Ev("tool.requested", Len(l) + 1, t, None) >>
  <1>1. /\ UNCHANGED <<log, asked, answer, verdict, sent>>
        /\ thread[w].pc = "tool" /\ thread[w].todo = <<>>
        /\ ledger' = [ledger EXCEPT ![w] = more]
        /\ Goto(w, Then("effect", s))
    BY DEF StartTool, At, Running
  <1>2. RunOK(l, <<>>, "tool", rows)
    BY <1>1 DEF ProvInv, RunsOK
  <1>3. CurrentCommand(w) \in Int
    BY CurrentTypes DEF ProvInv
  <1>4. RunOK(l, s, "effect", more) /\ (Done(more) <=> Done(rows))
    BY <1>2, <1>3, StartOK DEF CurrentTurn
  <1>5. thread' = [thread EXCEPT ![w].pc = "effect", ![w].todo = s]
    BY <1>1 DEF Goto, Then
  <1> HIDE DEF s, more
  <1>6. /\ thread \in [AgentRuns -> [pc : Pcs, msg : Messages \cup {None}, todo : Seq(Events)]]
        /\ DOMAIN ledger = AgentRuns /\ s \in Seq(Events) /\ "effect" \in Pcs
    BY <1>4 DEF ProvInv, StateOK, RunOK, Pcs
  <1>7. /\ thread'[w].todo = s /\ thread'[w].pc = "effect"
        /\ \A v \in AgentRuns : v # w => thread'[v] = thread[v] /\ ledger'[v] = ledger[v]
        /\ ledger'[w] = more /\ DOMAIN ledger' = AgentRuns
    BY <1>1, <1>5, <1>6
  <1>8. RunsOK'
    BY <1>1, <1>4, <1>7, OneRunOK DEF ProvInv
  <1>9. thread' \in [AgentRuns -> [pc : Pcs, msg : Messages \cup {None}, todo : Seq(Events)]]
    BY <1>5, <1>6
  <1>10. StateOK' /\ AskedOnce'
    BY <1>1, <1>7, <1>9 DEF ProvInv, StateOK, AskedOnce
  <1>11. \A v \in AgentRuns : Done(ledger'[v]) <=> Done(ledger[v])
    BY <1>4, <1>7
  <1>12. WorkOK'
    <2>1. \A v \in AgentRuns : Succeeded(v)' <=> Succeeded(v)
      BY <1>11 DEF Succeeded, Done
    <2> QED BY <1>1, <2>1 DEF ProvInv, WorkOK, AgentRuns
  <1> QED BY <1>8, <1>10, <1>12 DEF ProvInv

(* The tool runs; it succeeds only on what it inspects.                    *)
LEMMA RunToolInv ==
    ASSUME ProvInv, NEW w \in AgentRuns, RunTool(w)
    PROVE  ProvInv'
  <1> DEFINE l == log[w]
             t == CurrentTurn(w)
             n == Len(l)
             op == LastOf(OfTurn(l, t, {"op.started"}))
             rows == ledger[w]
             rec == Phase(t, "recording")
             com == Ev("tool.completed", op, t, None)
             don == Ev("op.completed", n + 2, t, n + 2)
             tfa == Ev("tool.failed", CurrentCommand(w), t, None)
             ofa == Ev("op.failed", n + 2, t, None)
  <1>1. /\ UNCHANGED <<log, asked, answer, verdict, sent>>
        /\ thread[w].pc = "effect" /\ thread[w].todo = <<>>
    BY DEF RunTool, At, Running
  <1>2. \/ /\ Inspect(w) /\ ledger' = [ledger EXCEPT ![w][t] = "succeeded"]
           /\ Goto(w, Then("advance", <<rec, com, don>>))
        \/ /\ ledger' = [ledger EXCEPT ![w][t] = "failed"]
           /\ Goto(w, Then("advance", <<rec, tfa, ofa>>))
    BY DEF RunTool
  <1>3. RunOK(l, <<>>, "effect", rows)
    BY <1>1 DEF ProvInv, RunsOK
  <1>4. t \in Nat /\ n \in Nat /\ op \in Int /\ CurrentCommand(w) \in Int
    BY CurrentTypes DEF ProvInv
  <1>5. /\ None \in Datas /\ n + 2 \in Int /\ n + 2 \in Datas /\ "recording" \in Phases
    BY <1>4 DEF Datas, Phases
  <1> HIDE DEF op, n
  <1>6. /\ Of(rec, t) /\ rec.type = "phase" /\ ~IsEarly(rec) /\ ~IsExec(rec, t)
    BY <1>4, <1>5, PhaseEvent DEF Early
  <1>7. /\ Of(com, t) /\ com.type = "tool.completed" /\ ~IsEarly(com) /\ ~IsExec(com, t)
        /\ Of(tfa, t) /\ tfa.type = "tool.failed" /\ ~IsEarly(tfa) /\ ~IsExec(tfa, t)
        /\ Of(ofa, t) /\ ofa.type = "op.failed" /\ ~IsEarly(ofa) /\ ~IsExec(ofa, t)
    BY <1>4, <1>5, PlainEvent DEF EventTypes
  <1>8. /\ Of(don, t) /\ don.type = "op.completed" /\ ~IsEarly(don) /\ ~IsExec(don, t)
    BY <1>4, <1>5, PlainEvent DEF EventTypes
  <1> HIDE DEF rec, com, don, tfa, ofa
  <1>9. /\ Piece(<<rec, com, don>>, t) /\ ~HasEarly(<<rec, com, don>>)
        /\ ~HasType(<<rec, com, don>>, "completed")
    BY <1>4, <1>6, <1>7, <1>8, Piece3
  <1>10. /\ Piece(<<rec, tfa, ofa>>, t) /\ ~HasEarly(<<rec, tfa, ofa>>)
         /\ ~HasType(<<rec, tfa, ofa>>, "completed")
         /\ ~HasType(<<rec, tfa, ofa>>, "tool.completed")
    BY <1>4, <1>6, <1>7, <1>8, Piece3
  <1>11. PICK o \in {"succeeded", "failed"}, s \in {<<rec, com, don>>, <<rec, tfa, ofa>>} :
            /\ o = "succeeded" => Inspect(w)
            /\ Piece(s, t) /\ ~HasEarly(s) /\ ~HasType(s, "completed")
            /\ HasType(s, "tool.completed") => o = "succeeded"
            /\ ledger' = [ledger EXCEPT ![w][t] = o]
            /\ Goto(w, Then("advance", s))
    BY <1>2, <1>9, <1>10
  <1> DEFINE more == [rows EXCEPT ![t] = o]
  <1>12. /\ RunOK(l, s, "advance", more)
         /\ Done(more) <=> Done(rows) \/ o = "succeeded"
    <2>1. Piece(s, LastOf(Turns(l)))
      BY <1>11 DEF CurrentTurn
    <2> QED BY <1>3, <1>11, <2>1, OutcomeOK DEF CurrentTurn
  <1>13. ledger' = [ledger EXCEPT ![w] = more]
    BY <1>11
  <1> HIDE DEF more
  <1>14. thread' = [thread EXCEPT ![w].pc = "advance", ![w].todo = s]
    BY <1>11 DEF Goto, Then
  <1>15. /\ thread \in [AgentRuns -> [pc : Pcs, msg : Messages \cup {None}, todo : Seq(Events)]]
         /\ DOMAIN ledger = AgentRuns /\ s \in Seq(Events) /\ "advance" \in Pcs
    BY <1>12 DEF ProvInv, StateOK, RunOK, Pcs
  <1>16. /\ thread'[w].todo = s /\ thread'[w].pc = "advance"
         /\ \A v \in AgentRuns : v # w => thread'[v] = thread[v] /\ ledger'[v] = ledger[v]
         /\ ledger'[w] = more /\ DOMAIN ledger' = AgentRuns
    BY <1>13, <1>14, <1>15
  <1>17. RunsOK'
    BY <1>1, <1>12, <1>16, OneRunOK DEF ProvInv
  <1>18. thread' \in [AgentRuns -> [pc : Pcs, msg : Messages \cup {None}, todo : Seq(Events)]]
    BY <1>14, <1>15
  <1>19. StateOK' /\ AskedOnce'
    BY <1>1, <1>16, <1>18 DEF ProvInv, StateOK, AskedOnce
  <1>20. \A v \in AgentRuns : /\ Done(ledger[v]) => Done(ledger'[v])
                              /\ Done(ledger'[v]) => Done(ledger[v]) \/ (v = w /\ Inspect(w))
    BY <1>11, <1>12, <1>16
  <1>21. WorkOK'
    <2>1. \A v \in AgentRuns : /\ Succeeded(v) => Succeeded(v)'
                               /\ Succeeded(v)' => Succeeded(v) \/ (v = w /\ Inspect(w))
      BY <1>20 DEF Succeeded, Done
    <2> QED BY <1>1, <2>1 DEF ProvInv, WorkOK, AgentRuns, Inspect
  <1> QED BY <1>17, <1>19, <1>21 DEF ProvInv

(* The kernel is asked for a peer.                                         *)
LEMMA AskPeerInv ==
    ASSUME ProvInv, NEW w \in AgentRuns, AskPeer(w)
    PROVE  ProvInv'
  <1> DEFINE t == CurrentTurn(w)
             e == Ev("message.denied", CurrentCommand(w), t, None)
  <1>1. UNCHANGED <<log, ledger, answer, verdict, sent>> /\ thread[w].todo = <<>>
    BY DEF AskPeer, At
  <1>2. t \in Nat /\ CurrentCommand(w) \in Int /\ None \in Datas
    BY CurrentTypes DEF ProvInv, Datas
  <1>3. sent' \in SUBSET Messages
    BY <1>1 DEF ProvInv, StateOK
  <1>4. CASE t \in asked \/ PeerRequestAllowed(t)
    <2>1. asked' = asked \cup {t} /\ Goto(w, Then("route", <<>>))
      BY <1>4 DEF AskPeer
    <2>2. AskedOnce'
      BY <1>4, <2>1 DEF ProvInv, AskedOnce, PeerRequestAllowed
    <2>3. Moves(w)
      BY <1>1, <2>1, GoesOn DEF Pcs
    <2> QED BY <1>1, <1>3, <2>2, <2>3, MovesInv
  <1>5. CASE ~(t \in asked \/ PeerRequestAllowed(t))
    <2>1. UNCHANGED asked /\ Goto(w, Then("advance", <<e>>))
      BY <1>5 DEF AskPeer
    <2>2. AskedOnce'
      BY <2>1 DEF ProvInv, AskedOnce
    <2>3. Of(e, t) /\ ~IsEarly(e) /\ e.type = "message.denied"
      BY <1>2, PlainEvent DEF EventTypes
    <2> HIDE DEF e
    <2>4. Moves(w)
      BY <1>1, <1>2, <2>1, <2>3, Appending DEF Pcs
    <2> QED BY <1>1, <1>3, <2>2, <2>4, MovesInv
  <1> QED BY <1>4, <1>5

(* What is routed is a delivery.                                           *)
LEMMA RoutableMessages == Routable \in SUBSET Messages
  BY DEF Routable, Messages, Requested, Responded, AgentRuns

(* The kernel's decision is routed and the handler goes on.                *)
LEMMA RouteInv ==
    ASSUME ProvInv, NEW w \in AgentRuns, Route(w)
    PROVE  ProvInv'
  <1> DEFINE t == CurrentTurn(w)
             c == CurrentCommand(w)
             e == Ev("message.sent", c, t, None)
             f == Phase(t, "waiting")
             g == Ev("waiting", c, t, None)
             h == Ev("promoted", Len(log[w]), 0, answer)
             q == IF answer = "accepted" THEN "ack" ELSE "fail"
  <1>1. UNCHANGED <<log, ledger, asked, answer, verdict>> /\ thread[w].todo = <<>>
    BY DEF Route, At
  <1>2. t \in Nat /\ c \in Int /\ None \in Datas /\ Len(log[w]) \in Int /\ 0 \in Nat
        /\ answer \in Datas /\ "waiting" \in Phases
    BY CurrentTypes DEF ProvInv, StateOK, Datas, Phases
  <1>3. sent' \in SUBSET Messages
    BY RoutableMessages DEF Route, ProvInv, StateOK
  <1>4. AskedOnce'
    BY <1>1 DEF ProvInv, AskedOnce
  <1>5. CASE w = "asg"
    <2>1. Goto(w, Then("advance", <<e, f, g>>))
      BY <1>5 DEF Route
    <2>2. /\ Of(e, t) /\ ~IsEarly(e) /\ ~IsExec(e, t) /\ e.type = "message.sent"
          /\ Of(g, t) /\ ~IsEarly(g) /\ ~IsExec(g, t) /\ g.type = "waiting"
      BY <1>2, PlainEvent DEF EventTypes
    <2>3. Of(f, t) /\ ~IsEarly(f) /\ ~IsExec(f, t) /\ f.type = "phase"
      BY <1>2, PhaseEvent DEF Early
    <2> HIDE DEF e, f, g
    <2>4. Piece(<<e, f, g>>, t) /\ ~HasEarly(<<e, f, g>>) /\ Steady(<<e, f, g>>)
      BY <1>2, <2>2, <2>3, Piece3 DEF Steady
    <2>5. thread' = [thread EXCEPT ![w].pc = "advance", ![w].todo = <<e, f, g>>]
      BY <2>1 DEF Goto, Then
    <2>6. Moves(w)
      BY <1>1, <2>4, <2>5 DEF Moves, Pcs
    <2> QED BY <1>1, <1>3, <1>4, <2>6, MovesInv
  <1>6. CASE w # "asg"
    <2>1. Goto(w, Then(q, <<h>>))
      BY <1>6 DEF Route
    <2>2. Of(h, 0) /\ ~IsEarly(h) /\ h.type = "promoted"
      BY <1>2, PlainEvent DEF EventTypes
    <2>3. q \in Pcs \ {"idle", "model", "tool", "effect"}
      BY DEF Pcs
    <2> HIDE DEF h, q
    <2>4. Moves(w)
      BY <1>1, <1>2, <2>1, <2>2, <2>3, Appending
    <2> QED BY <1>1, <1>3, <1>4, <2>4, MovesInv
  <1> QED BY <1>5, <1>6

(* The end of a turn: promote, fail, wait, or ask for the next turn.       *)
LEMMA AdvanceInv ==
    ASSUME ProvInv, NEW w \in AgentRuns, Advance(w)
    PROVE  ProvInv'
  <1> DEFINE l == log[w]
             n == CompletedTurns(l) + 1
             e == Ev("ready", Len(l), 0, n)
  <1>1. UNCHANGED <<log, ledger, asked, answer, verdict, sent>> /\ thread[w].todo = <<>>
    BY DEF Advance, At
  <1>2. sent' \in SUBSET Messages /\ AskedOnce'
    BY <1>1 DEF ProvInv, StateOK, AskedOnce
  <1>3. l \in Seq(Events) /\ CompletedTurns(l) \in Nat
    BY TurnCount DEF ProvInv, StateOK
  <1>4. Len(l) \in Int /\ n \in Int /\ n \in Datas /\ 0 \in Nat
    BY <1>3 DEF Datas
  <1>5. \/ \E q \in {"promote", "fail", "ack", "raise"} : Goto(w, Then(q, <<>>))
        \/ Goto(w, Then("deliver", <<e>>))
    BY DEF Advance
  <1>6. CASE \E q \in {"promote", "fail", "ack", "raise"} : Goto(w, Then(q, <<>>))
    <2>1. PICK q \in {"promote", "fail", "ack", "raise"} : Goto(w, Then(q, <<>>))
      BY <1>6
    <2>2. q \in Pcs \ {"idle", "model", "tool", "effect"}
      BY DEF Pcs
    <2>3. Moves(w)
      BY <1>1, <2>1, <2>2, GoesOn
    <2> QED BY <1>1, <1>2, <2>3, MovesInv
  <1>7. CASE Goto(w, Then("deliver", <<e>>))
    <2> HIDE DEF n
    <2>1. Of(e, 0) /\ ~IsEarly(e) /\ e.type = "ready"
      BY <1>4, PlainEvent DEF EventTypes
    <2> HIDE DEF e
    <2>2. Moves(w)
      BY <1>1, <1>4, <1>7, <2>1, Appending DEF Pcs
    <2> QED BY <1>1, <1>2, <2>2, MovesInv
  <1> QED BY <1>5, <1>6, <1>7

(* The delivery of the next turn.                                          *)
LEMMA DeliverInv ==
    ASSUME ProvInv, NEW w \in AgentRuns, Deliver(w)
    PROVE  ProvInv'
  <1>1. /\ UNCHANGED <<log, ledger, asked, answer, verdict>> /\ thread[w].todo = <<>>
        /\ Goto(w, Then("ack", <<>>))
        /\ sent' = sent \cup {Ready(w, CompletedTurns(log[w]) + 1)}
    BY DEF Deliver, At
  <1>2. CompletedTurns(log[w]) + 1 \in Nat
    BY TurnCount DEF ProvInv, StateOK
  <1>3. sent' \in SUBSET Messages
    BY <1>1, <1>2 DEF ProvInv, StateOK, Ready, Messages
  <1>4. AskedOnce'
    BY <1>1 DEF ProvInv, AskedOnce
  <1>5. Moves(w)
    BY <1>1, GoesOn DEF Pcs
  <1> QED BY <1>1, <1>3, <1>4, <1>5, MovesInv

(* The assignment fails, its lease is released.                            *)
LEMMA FailInv ==
    ASSUME ProvInv, NEW w \in AgentRuns, FailAssignment(w) \/ ReleaseLease(w)
    PROVE  ProvInv'
  <1>1. /\ UNCHANGED <<log, ledger, asked, answer, verdict, sent>> /\ thread[w].todo = <<>>
        /\ \E q \in {"release", "raise", "ack"} : Goto(w, Then(q, <<>>))
    BY DEF FailAssignment, ReleaseLease, At
  <1>2. sent' \in SUBSET Messages /\ AskedOnce'
    BY <1>1 DEF ProvInv, StateOK, AskedOnce
  <1>3. PICK q \in {"release", "raise", "ack"} : Goto(w, Then(q, <<>>))
    BY <1>1
  <1>4. q \in Pcs \ {"idle", "model", "tool", "effect"}
    BY DEF Pcs
  <1>5. Moves(w)
    BY <1>1, <1>3, <1>4, GoesOn
  <1> QED BY <1>1, <1>2, <1>5, MovesInv

(* The kernel accepts only where the log has the result of a tool.         *)
LEMMA AcceptedHasTool ==
    ASSUME NEW l, ValidateResult(l) = "accepted" \/ ValidatePeerResponse(l) = "accepted"
    PROVE  HasType(l, "tool.completed")
  <1>1. ToolEvidence(l)
    BY DEF ValidateResult, ValidatePeerResponse
  <1> QED BY <1>1 DEF ToolEvidence, OfType, Where, HasType

(* Its decisions.                                                          *)
LEMMA DecisionTypes ==
    ASSUME NEW l PROVE ValidateResult(l) \in Verdicts /\ ValidatePeerResponse(l) \in Verdicts
  <1>1. ValidatedSubmission(l) \in Verdicts
    BY DEF ValidatedSubmission, Verdicts
  <1>2. ValidateAgentRun(l) \in Verdicts
    BY <1>1 DEF ValidateAgentRun, Verdicts
  <1> QED BY <1>2 DEF ValidateResult, ValidatePeerResponse, Verdicts

(* The decision on the assignment's result.                                *)
LEMMA PromoteResultInv ==
    ASSUME ProvInv, PromoteResult
    PROVE  ProvInv'
  <1> DEFINE l == log["asg"]
             e == Ev("promoted", Len(l), 0, verdict')
             q == IF verdict' = "accepted" THEN "ack" ELSE "fail"
  <1>1. /\ UNCHANGED <<log, ledger, asked, answer, sent>> /\ thread["asg"].todo = <<>>
        /\ verdict' = (IF verdict # "none" THEN verdict ELSE ValidateResult(l))
        /\ Goto("asg", Then(q, <<e>>))
    BY DEF PromoteResult, At
  <1>2. verdict' \in Verdicts
    BY <1>1, DecisionTypes DEF ProvInv, StateOK
  <1>3. l \in Seq(Events) /\ "asg" \in AgentRuns
    BY DEF ProvInv, StateOK, AgentRuns
  <1>4. Len(l) \in Int /\ verdict' \in Datas /\ 0 \in Nat
    BY <1>2, <1>3 DEF Datas
  <1>5. Of(e, 0) /\ ~IsEarly(e) /\ e.type = "promoted"
    BY <1>4, PlainEvent DEF EventTypes
  <1>6. q \in Pcs \ {"idle", "model", "tool", "effect"}
    BY DEF Pcs
  <1> HIDE DEF e, q
  <1>7. Moves("asg")
    BY <1>1, <1>3, <1>4, <1>5, <1>6, Appending
  <1>8. /\ RunsOK'
        /\ thread' \in [AgentRuns -> [pc : Pcs, msg : Messages \cup {None}, todo : Seq(Events)]]
    BY <1>1, <1>3, <1>7, MovesOK DEF ProvInv
  <1>9. StateOK' /\ AskedOnce'
    BY <1>1, <1>2, <1>8 DEF ProvInv, StateOK, AskedOnce
  <1>10. HasType(l, "tool.completed") => Succeeded("asg")
    <2>1. RunOK(l, <<>>, thread["asg"].pc, ledger["asg"])
      BY <1>1, <1>3 DEF ProvInv, RunsOK
    <2> QED BY <2>1, RunAt DEF Succeeded, Done
  <1>11. WorkOK'
    BY <1>1, <1>10, AcceptedHasTool DEF ProvInv, WorkOK, Succeeded
  <1> QED BY <1>8, <1>9, <1>11 DEF ProvInv

(* The decision on the peer's response.                                    *)
LEMMA PromoteResponseInv ==
    ASSUME ProvInv, PromoteResponse
    PROVE  ProvInv'
  <1> DEFINE l == log["peer"]
  <1>1. /\ UNCHANGED <<log, ledger, asked, verdict, sent>> /\ thread["peer"].todo = <<>>
        /\ answer' = (IF answer # "none" THEN answer ELSE ValidatePeerResponse(l))
        /\ Goto("peer", Then("route", <<>>))
    BY DEF PromoteResponse, At
  <1>2. answer' \in Verdicts
    BY <1>1, DecisionTypes DEF ProvInv, StateOK
  <1>3. "peer" \in AgentRuns
    BY DEF AgentRuns
  <1>4. Moves("peer")
    BY <1>1, <1>3, GoesOn DEF Pcs
  <1>5. /\ RunsOK'
        /\ thread' \in [AgentRuns -> [pc : Pcs, msg : Messages \cup {None}, todo : Seq(Events)]]
    BY <1>1, <1>3, <1>4, MovesOK DEF ProvInv
  <1>6. StateOK' /\ AskedOnce'
    BY <1>1, <1>2, <1>5 DEF ProvInv, StateOK, AskedOnce
  <1>7. HasType(l, "tool.completed") => Succeeded("peer")
    <2>1. RunOK(l, <<>>, thread["peer"].pc, ledger["peer"])
      BY <1>1, <1>3 DEF ProvInv, RunsOK
    <2> QED BY <2>1, RunAt DEF Succeeded, Done
  <1>8. WorkOK'
    BY <1>1, <1>7, AcceptedHasTool DEF ProvInv, WorkOK, Succeeded
  <1> QED BY <1>5, <1>6, <1>8 DEF ProvInv

(* Steps outside the handlers.                                             *)
LEMMA OutsideInv ==
    ASSUME ProvInv, RouteFacts \/ DeadlinePasses \/ Expire \/ UNCHANGED vars
    PROVE  ProvInv'
  <1>1. UNCHANGED <<log, ledger, asked, answer, verdict, thread>>
    BY DEF RouteFacts, DeadlinePasses, Expire, vars
  <1>2. sent' \in SUBSET Messages
    BY RoutableMessages DEF RouteFacts, DeadlinePasses, Expire, vars, ProvInv, StateOK
  <1>3. StateOK' /\ AskedOnce'
    BY <1>1, <1>2 DEF ProvInv, StateOK, AskedOnce
  <1>4. RunsOK'
    BY <1>1 DEF ProvInv, RunsOK
  <1>5. WorkOK'
    BY <1>1, WorkSame DEF ProvInv
  <1> QED BY <1>3, <1>4, <1>5 DEF ProvInv

(* At the start.                                                           *)
LEMMA ProvInit == Init => ProvInv
  <1> SUFFICES ASSUME Init PROVE ProvInv
    OBVIOUS
  <1>1. <<>> \in Seq(Events) /\ DOMAIN <<>> = {} /\ Len(<<>>) = 0
    OBVIOUS
  <1>2. StateOK
    <2>1. Created \in Messages
      BY DEF Created, Messages, AgentRuns
    <2>2. thread \in [AgentRuns -> [pc : Pcs, msg : Messages \cup {None}, todo : Seq(Events)]]
      BY <1>1 DEF Init, Idle, Pcs
    <2> QED BY <1>1, <2>1, <2>2 DEF Init, StateOK, Verdicts
  <1>3. RunOK(<<>>, <<>>, "idle", <<>>)
    <2>1. <<>> \o <<>> = <<>>
      OBVIOUS
    <2>2. LogInv(<<>>)
      BY <1>1 DEF LogInv, Forward, Settled, Newest, OneAnswer
    <2>3. ~HasType(<<>>, "tool.completed")
      BY NoPiece
    <2> QED BY <1>1, <2>1, <2>2, <2>3 DEF RunOK
  <1>4. RunsOK
    BY <1>3 DEF RunsOK, Init, Idle
  <1>5. AskedOnce /\ WorkOK
    <2>1. \A w \in AgentRuns : ~Succeeded(w)
      BY <1>1 DEF Succeeded, Init
    <2> QED BY <2>1 DEF AskedOnce, WorkOK, Init, AgentRuns
  <1> QED BY <1>2, <1>4, <1>5 DEF ProvInv

(* The invariant of both agent runs, of the ledger and of the kernel's     *)
(* decisions (team_workers.py, kernel.py, core/agents/loop.py): a turn     *)
(* executes before it has an operation, an operation is started once per   *)
(* turn, and a decision stands on one that succeeded.                      *)
THEOREM ProvenanceCorrect == Spec => []ProvInv
  <1>1. ASSUME ProvInv, [Next]_vars PROVE ProvInv'
    <2>1. ASSUME NEW w \in AgentRuns, Step(w) PROVE ProvInv'
      <3>1. CASE \E m \in sent : Begin(w, m)
        BY <1>1, <3>1, BeginInv
      <3>2. CASE Write(w)
        BY <1>1, <3>2, WriteInv
      <3>3. CASE CallModel(w)
        BY <1>1, <3>3, CallModelInv
      <3>4. CASE StartTool(w)
        BY <1>1, <3>4, StartToolInv
      <3>5. CASE RunTool(w)
        BY <1>1, <3>5, RunToolInv
      <3>6. CASE AskPeer(w)
        BY <1>1, <3>6, AskPeerInv
      <3>7. CASE Route(w)
        BY <1>1, <3>7, RouteInv
      <3>8. CASE Advance(w)
        BY <1>1, <3>8, AdvanceInv
      <3>9. CASE Deliver(w)
        BY <1>1, <3>9, DeliverInv
      <3>10. CASE FailAssignment(w) \/ ReleaseLease(w)
        BY <1>1, <3>10, FailInv
      <3>11. CASE Ack(w) \/ Raise(w)
        BY <1>1, <3>11, EndInv
      <3>12. CASE Interrupt(w)
        BY <1>1, <3>12, InterruptInv
      <3> QED BY <2>1, <3>1, <3>2, <3>3, <3>4, <3>5, <3>6, <3>7, <3>8, <3>9, <3>10,
                 <3>11, <3>12 DEF Step
    <2>2. CASE PromoteResult
      BY <1>1, <2>2, PromoteResultInv
    <2>3. CASE PromoteResponse
      BY <1>1, <2>3, PromoteResponseInv
    <2>4. CASE RouteFacts \/ DeadlinePasses \/ Expire \/ UNCHANGED vars
      BY <1>1, <2>4, OutsideInv
    <2> QED BY <1>1, <2>1, <2>2, <2>3, <2>4 DEF Next
  <1> QED BY <1>1, ProvInit, PTL DEF Spec

(* An accepted result stands on work that was done (kernel.py, _validate): *)
(* a tool of the assignment's run succeeded and, when it reads a peer's    *)
(* response, the response was accepted and the peer's own tool succeeded.  *)
THEOREM ResultRestsOnWorkHolds == Spec => []ResultRestsOnWork
  <1>1. ProvInv => ResultRestsOnWork
    BY DEF ProvInv, WorkOK, ResultRestsOnWork
  <1> QED BY <1>1, ProvenanceCorrect, PTL

(* An assignment asks a peer at most once and mirrors the answer at most   *)
(* once (kernel.py, _validate of a peer request; team_workers.py, the      *)
(* mirrored response), however often its turns are interrupted.            *)
THEOREM OnePeerExchangeHolds == Spec => []OnePeerExchange
  <1>1. ASSUME ProvInv PROVE OnePeerExchange
    <2> DEFINE l == log["asg"]
               S == OfType(l, {"responded"})
    <2>0. Cardinality({}) = 0 /\ \A x : Cardinality({x}) = 1
      BY FS_EmptySet, FS_Singleton
    <2>1. Cardinality(asked) <= 1
      <3>1. CASE asked = {}
        BY <2>0, <3>1
      <3>2. CASE \E t : asked = {t}
        <4>1. PICK t : asked = {t}
          BY <3>2
        <4>2. Cardinality(asked) = 1
          BY <2>0, <4>1
        <4> QED BY <4>2
      <3> QED BY <1>1, <3>1, <3>2 DEF ProvInv, AskedOnce
    <2>2. OneAnswer(l \o thread["asg"].todo) /\ l \in Seq(Events) /\ thread["asg"].todo \in Seq(Events)
      BY <1>1 DEF ProvInv, RunsOK, RunOK, LogInv, AgentRuns
    <2>3. OneAnswer(l)
      <3> DEFINE s == thread["asg"].todo
      <3>1. \A k \in 1 .. Len(l) : (l \o s)[k] = l[k] /\ k \in 1 .. Len(l \o s)
        <4> HIDE DEF l, s
        <4> QED BY <2>2, Joined DEF s
      <3> QED BY <2>2, <3>1 DEF OneAnswer
    <2>4. S = { k \in 1 .. Len(l) : l[k].type = "responded" }
      BY DEF OfType, Where
    <2>5. S = {} \/ \E k : S = {k}
      BY <2>3, <2>4 DEF OneAnswer
    <2>6. Cardinality(S) <= 1
      <3> HIDE DEF S
      <3>1. CASE S = {}
        BY <2>0, <3>1
      <3>2. CASE \E k : S = {k}
        <4>1. PICK k : S = {k}
          BY <3>2
        <4>2. Cardinality(S) = 1
          BY <2>0, <4>1
        <4> QED BY <4>2
      <3> QED BY <2>5, <3>1, <3>2
    <2> QED BY <2>1, <2>6 DEF OnePeerExchange
  <1> QED BY <1>1, ProvenanceCorrect, PTL
=============================================================================
