---------------------------- MODULE WakeUpProofs ----------------------------
(* Two invariants of Provenance.  The wake-ups: whoever stops has been     *)
(* answered, waits for a delivery that is pending or will be routed, has   *)
(* lost the lease, or left an operation of unknown outcome behind.  And    *)
(* the logs: they say what the kernel looks for when a result comes,       *)
(* however their turns were interrupted and recovered.                     *)
EXTENDS ProvenanceProofs

-----------------------------------------------------------------------------
(* The invariant.                                                          *)

HasReady(l, n) == \E k \in 1 .. Len(l) : l[k].type = "ready" /\ l[k].data = n
WaitsFirst(l) ==
    \A i, j \in 1 .. Len(l) : l[i].type = "waiting" /\ l[j].type = "responded" => i < j

(* A handler works for a delivery of its own that is not acknowledged.     *)
MailOK ==
    /\ acked \subseteq sent
    /\ \A m \in sent : m.kind = "responded" => m = Responded
    /\ \A w \in AgentRuns : thread[w].pc # "idle" => /\ thread[w].msg \in Pending
                                                      /\ thread[w].msg.to = w

(* The delivery of a turn follows its event in the log, and the one about  *)
(* to be sent is new.                                                      *)
ReadyOK ==
    \A w \in AgentRuns :
        /\ \A n \in Nat : Ready(w, n) \in sent => HasReady(log[w], n)
        /\ thread[w].pc = "deliver" =>
              /\ Ready(w, CompletedTurns(log[w]) + 1) \notin sent
              /\ HasReady(LogAfter(w), CompletedTurns(log[w]) + 1)
              /\ ~HasType(thread[w].todo, "completed")

(* Nobody waits for a peer, and no peer works, before one was asked.       *)
AskOK ==
    asked = {} => /\ ~HasType(LogAfter("asg"), "waiting") /\ thread["asg"].pc # "route"
                  /\ answer = "none" /\ \A m \in sent : m.to # "peer"

(* A turn that asked is past its early phases, so that no recovery of it   *)
(* comes to ask again.                                                     *)
Newer(w) == LastOf(Turns(LogAfter(w)))
PastOK ==
    /\ \A u \in asked :
          /\ Past(log["asg"], u)
          /\ \A k \in 1 .. Len(thread["asg"].todo) :
                thread["asg"].todo[k].turn = u => ~IsEarly(thread["asg"].todo[k])
    /\ thread["asg"].pc \in {"model", "ask"} => Newer("asg") \notin asked
    /\ thread["asg"].pc = "ask" => Past(LogAfter("asg"), Newer("asg"))

(* The answer is mirrored before its delivery is acknowledged, and every   *)
(* wait is before it.                                                      *)
AnswerOK ==
    /\ ~HasType(LogAfter("peer"), "waiting")
    /\ Responded \in sent => answer = "accepted"
    /\ HasType(LogAfter("asg"), "responded") => Responded \in sent
    /\ Responded \in acked /\ LeaseHeld => HasType(log["asg"], "responded")
    /\ thread["asg"].pc # "idle" /\ thread["asg"].msg = Responded
          => HasType(LogAfter("asg"), "responded")
    /\ WaitsFirst(LogAfter("asg"))
    /\ thread["asg"].pc = "route" => ~HasType(LogAfter("asg"), "responded")

(* Whoever stops has a reason to, or another delivery of its own.          *)
Rest(w) ==
    \/ HasUnknown(LogAfter(w)) \/ ~LeaseHeld
    \/ w = "asg" /\ HasActiveWait(LogAfter(w))
    \/ w = "peer" /\ answer = "accepted"
RestOK ==
    \A w \in AgentRuns :
        /\ thread[w].pc = "ack" =>
              Rest(w) \/ \E m \in Pending : m.to = w /\ m # thread[w].msg
        /\ thread[w].pc = "idle" /\ ~over =>
              \/ Rest(w) \/ \E m \in Pending : m.to = w
              \/ w = "peer" /\ \A m \in sent : m.to # "peer"

LeaseOK == verdict = "accepted" => lease # "active"

WakeInv == MailOK /\ ReadyOK /\ AskOK /\ PastOK /\ AnswerOK /\ RestOK /\ LeaseOK

-----------------------------------------------------------------------------
(* A step of the handler of w that leaves the log alone: where it goes and *)
(* what it is about to append.                                             *)

MoveTo(w, next, s) ==
    /\ thread[w].todo = <<>> /\ thread[w].pc # "idle" /\ ~over
    /\ next # "idle" /\ s \in Seq(Events) /\ ~HasType(s, "responded")
    /\ thread' = [thread EXCEPT ![w].pc = next, ![w].todo = s]
    /\ UNCHANGED <<log, acked, over>>

(* What it changes.                                                        *)
LEMMA Moved ==
    ASSUME ProvInv, NEW w \in AgentRuns, NEW next, NEW s, MoveTo(w, next, s)
    PROVE  /\ thread'[w].pc = next /\ thread'[w].todo = s /\ thread'[w].msg = thread[w].msg
           /\ \A v \in AgentRuns : v # w => thread'[v] = thread[v] /\ LogAfter(v)' = LogAfter(v)
           /\ LogAfter(w) = log[w] /\ LogAfter(w)' = log[w] \o s
           /\ \A v \in AgentRuns : log'[v] = log[v] /\ log[v] \in Seq(Events)
           /\ \A y : HasType(LogAfter(w)', y) <=> HasType(log[w], y) \/ HasType(s, y)
  <1>1. /\ log \in [AgentRuns -> Seq(Events)]
        /\ thread \in [AgentRuns -> [pc : Pcs, msg : Messages \cup {None}, todo : Seq(Events)]]
    BY DEF ProvInv, StateOK
  <1>2. /\ thread'[w].pc = next /\ thread'[w].todo = s /\ thread'[w].msg = thread[w].msg
        /\ \A v \in AgentRuns : v # w => thread'[v] = thread[v]
        /\ log' = log
    BY <1>1 DEF MoveTo
  <1>3. log[w] \in Seq(Events) /\ log[w] \o <<>> = log[w]
    BY <1>1, Appends
  <1>4. LogAfter(w) = log[w] /\ LogAfter(w)' = log[w] \o s
    BY <1>2, <1>3 DEF LogAfter, MoveTo
  <1>5. \A v \in AgentRuns : v # w => LogAfter(v)' = LogAfter(v)
    BY <1>2 DEF LogAfter
  <1>6. \A y : HasType(log[w] \o s, y) <=> HasType(log[w], y) \/ HasType(s, y)
    BY <1>3, InJoined DEF MoveTo
  <1> QED BY <1>1, <1>2, <1>4, <1>5, <1>6

(* A peer that works was asked.                                            *)
LEMMA PeerAsked ==
    ASSUME MailOK, AskOK, thread["peer"].pc # "idle" PROVE asked # {}
  BY DEF MailOK, AskOK, Pending, AgentRuns

(* The deliveries.                                                         *)
LEMMA MoveMail ==
    ASSUME ProvInv, MailOK, NEW w \in AgentRuns, NEW next, NEW s, MoveTo(w, next, s),
           sent \subseteq sent', \A m \in sent' \ sent : m.kind = "responded" => m = Responded
    PROVE  MailOK'
  <1>1. acked' = acked /\ thread'[w].msg = thread[w].msg /\ thread[w].pc # "idle"
        /\ \A v \in AgentRuns : v # w => thread'[v] = thread[v]
    BY Moved DEF MoveTo
  <1> QED BY <1>1 DEF MailOK, Pending

(* The deliveries of turns.                                                *)
LEMMA MoveReady ==
    ASSUME ProvInv, ReadyOK, NEW w \in AgentRuns, NEW next, NEW s, MoveTo(w, next, s),
           next # "deliver", sent' \subseteq sent \cup {Requested, Responded}
    PROVE  ReadyOK'
  <1>1. /\ thread'[w].pc = next
        /\ \A v \in AgentRuns : log'[v] = log[v]
        /\ \A v \in AgentRuns : v # w => thread'[v] = thread[v] /\ LogAfter(v)' = LogAfter(v)
    BY Moved
  <1>2. \A v, n : Ready(v, n) \in sent' => Ready(v, n) \in sent
    BY DEF Ready, Requested, Responded
  <1> QED BY <1>1, <1>2 DEF ReadyOK

(* Before a peer was asked.                                                *)
LEMMA MoveAsk ==
    ASSUME ProvInv, MailOK, AskOK, NEW w \in AgentRuns, NEW next, NEW s, MoveTo(w, next, s),
           asked \subseteq asked', asked' = {} /\ w = "asg" => ~HasType(s, "waiting") /\ next # "route"
                                                             /\ sent' = sent /\ answer' = answer
    PROVE  AskOK'
  <1> SUFFICES ASSUME asked' = {} PROVE AskOK'
    BY DEF AskOK
  <1>1. asked = {}
    OBVIOUS
  <1>2. w = "asg"
    BY <1>1, PeerAsked DEF MoveTo, AgentRuns
  <1>3. thread'["asg"].pc = next /\ LogAfter("asg") = log["asg"]
        /\ (HasType(LogAfter("asg")', "waiting") <=> HasType(log["asg"], "waiting") \/ HasType(s, "waiting"))
    BY <1>2, Moved
  <1> QED BY <1>1, <1>2, <1>3 DEF AskOK

(* The turns that asked.                                                   *)
LEMMA MovePast ==
    ASSUME ProvInv, PastOK, NEW w \in AgentRuns, NEW next, NEW s, MoveTo(w, next, s),
           asked' = asked, w = "asg" => ~HasEarly(s) /\ next \notin {"model", "ask"}
    PROVE  PastOK'
  <1>1. CASE w = "asg"
    <2>1. thread'["asg"].pc = next /\ thread'["asg"].todo = s /\ log'["asg"] = log["asg"]
      BY <1>1, Moved
    <2> QED BY <1>1, <2>1 DEF PastOK, HasEarly
  <1>2. CASE w # "asg"
    <2>1. thread'["asg"] = thread["asg"] /\ log'["asg"] = log["asg"] /\ LogAfter("asg")' = LogAfter("asg")
      BY <1>2, Moved DEF AgentRuns
    <2> QED BY <2>1 DEF PastOK, Newer
  <1> QED BY <1>1, <1>2

(* A log that grows by neither.                                            *)
LEMMA WaitsFirstKept ==
    ASSUME NEW l \in Seq(Events), NEW s \in Seq(Events), WaitsFirst(l),
           ~HasType(s, "waiting") \/ (~HasType(l, "responded") /\ ~HasType(s, "responded"))
    PROVE  WaitsFirst(l \o s)
  <1> DEFINE a == l \o s
             n == Len(l)
  <1>1. /\ n \in Nat /\ Len(s) \in Nat /\ Len(a) = n + Len(s)
        /\ \A k \in 1 .. n : k \in 1 .. Len(a) /\ a[k] = l[k]
        /\ \A k \in 1 .. Len(a) : k \in 1 .. n \/ (k > n /\ k - n \in 1 .. Len(s) /\ a[k] = s[k - n])
    OBVIOUS
  <1> HIDE DEF a, n
  <1>2. CASE ~HasType(l, "responded") /\ ~HasType(s, "responded")
    <2>1. \A k \in 1 .. Len(a) : a[k].type # "responded"
      BY <1>1, <1>2 DEF HasType, n
    <2> QED BY <2>1 DEF WaitsFirst, a
  <1>3. CASE ~HasType(s, "waiting")
    <2> SUFFICES ASSUME NEW i \in 1 .. Len(a), NEW j \in 1 .. Len(a),
                        a[i].type = "waiting", a[j].type = "responded"
                 PROVE  i < j
      BY DEF WaitsFirst, a
    <2>1. i \in 1 .. n /\ a[i] = l[i]
      BY <1>1, <1>3 DEF HasType
    <2>2. CASE j \in 1 .. n
      BY <1>1, <2>1, <2>2 DEF WaitsFirst, n
    <2>3. CASE j > n
      BY <1>1, <2>1, <2>3
    <2> QED BY <1>1, <2>2, <2>3
  <1> QED BY <1>2, <1>3

(* The answer.                                                             *)
LEMMA MoveAnswer ==
    ASSUME ProvInv, AnswerOK, NEW w \in AgentRuns, NEW next, NEW s, MoveTo(w, next, s),
           ~HasType(s, "waiting") \/ (w = "asg" /\ ~HasType(log[w], "responded")),
           w = "asg" /\ next = "route" => ~HasType(log[w], "responded"),
           answer = "accepted" => answer' = "accepted",
           sent \subseteq sent', Responded \in sent' => Responded \in sent \/ answer = "accepted",
           LeaseHeld' => LeaseHeld
    PROVE  AnswerOK'
  <1>0. AgentRuns = {"asg", "peer"} /\ "asg" # "peer"
    BY DEF AgentRuns
  <1>1. /\ acked' = acked /\ ~HasType(s, "responded") /\ thread[w].pc # "idle" /\ s \in Seq(Events)
    BY DEF MoveTo
  <1>2. CASE w = "asg"
    <2>1. /\ thread'["asg"].pc = next /\ thread'["asg"].msg = thread["asg"].msg
          /\ log'["asg"] = log["asg"] /\ LogAfter("asg") = log["asg"] /\ log["asg"] \in Seq(Events)
          /\ LogAfter("peer")' = LogAfter("peer") /\ LogAfter("asg")' = log["asg"] \o s
          /\ \A y : HasType(LogAfter("asg")', y) <=> HasType(log["asg"], y) \/ HasType(s, y)
      BY <1>0, <1>2, Moved
    <2>2. HasType(LogAfter("asg")', "responded") <=> HasType(LogAfter("asg"), "responded")
      BY <1>1, <2>1
    <2>3. WaitsFirst(LogAfter("asg")')
      BY <1>1, <1>2, <2>1, WaitsFirstKept DEF AnswerOK
    <2> QED BY <1>1, <1>2, <2>1, <2>2, <2>3 DEF AnswerOK
  <1>3. CASE w = "peer"
    <2>1. /\ log'["asg"] = log["asg"] /\ LogAfter("asg")' = LogAfter("asg")
          /\ thread'["asg"] = thread["asg"] /\ LogAfter("peer") = log["peer"]
          /\ HasType(LogAfter("peer")', "waiting") <=> HasType(log["peer"], "waiting") \/ HasType(s, "waiting")
      BY <1>0, <1>3, Moved
    <2> QED BY <1>0, <1>1, <1>3, <2>1 DEF AnswerOK
  <1> QED BY <1>0, <1>2, <1>3

(* Who rests, when what others do takes no reason away.                    *)
LEMMA RestKept ==
    ASSUME NEW v \in AgentRuns, Rest(v), LogAfter(v)' = LogAfter(v), LeaseHeld' => LeaseHeld,
           answer = "accepted" => answer' = "accepted"
    PROVE  Rest(v)'
  BY DEF Rest

(* The reasons of both handlers.                                           *)
LEMMA MoveRest ==
    ASSUME ProvInv, MailOK, RestOK, NEW w \in AgentRuns, NEW next, NEW s, MoveTo(w, next, s),
           next = "ack" => Rest(w)' \/ \E m \in Pending' : m.to = w /\ m # thread[w].msg,
           sent \subseteq sent', LeaseHeld' => LeaseHeld, answer = "accepted" => answer' = "accepted"
    PROVE  RestOK'
  <1>1. /\ acked' = acked /\ over' = over /\ next # "idle"
        /\ thread'[w].pc = next /\ thread'[w].msg = thread[w].msg
        /\ \A v \in AgentRuns : v # w => thread'[v] = thread[v] /\ LogAfter(v)' = LogAfter(v)
    BY Moved DEF MoveTo
  <1>2. Pending \subseteq Pending'
    BY <1>1 DEF Pending
  <1>3. \A v \in AgentRuns : v # w /\ Rest(v) => Rest(v)'
    BY <1>1, RestKept
  <1>4. \A m \in sent' \ sent : m \in Pending'
    BY <1>1 DEF Pending, MailOK
  <1> SUFFICES ASSUME NEW v \in AgentRuns
               PROVE  /\ thread'[v].pc = "ack" =>
                           Rest(v)' \/ \E m \in Pending' : m.to = v /\ m # thread'[v].msg
                      /\ thread'[v].pc = "idle" /\ ~over' =>
                           \/ Rest(v)' \/ \E m \in Pending' : m.to = v
                           \/ v = "peer" /\ \A m \in sent' : m.to # "peer"
    BY DEF RestOK
  <1>5. CASE v = w
    BY <1>1, <1>5
  <1>6. CASE v # w
    <2>1. thread[v].pc = "ack" => Rest(v)' \/ \E m \in Pending' : m.to = v /\ m # thread[v].msg
      BY <1>2, <1>3, <1>6 DEF RestOK
    <2>2. thread[v].pc = "idle" /\ ~over =>
             \/ Rest(v)' \/ \E m \in Pending' : m.to = v
             \/ v = "peer" /\ \A m \in sent' : m.to # "peer"
      <3> SUFFICES ASSUME thread[v].pc = "idle", ~over
                   PROVE  \/ Rest(v)' \/ \E m \in Pending' : m.to = v
                          \/ v = "peer" /\ \A m \in sent' : m.to # "peer"
        OBVIOUS
      <3>1. \/ Rest(v) \/ \E m \in Pending : m.to = v
            \/ v = "peer" /\ \A m \in sent : m.to # "peer"
        BY DEF RestOK
      <3> QED BY <1>2, <1>3, <1>4, <1>6, <3>1
    <2> QED BY <1>1, <1>6, <2>1, <2>2
  <1> QED BY <1>5, <1>6

(* A handler that moves on and changes nothing of all this.                *)
LEMMA MoveWake ==
    ASSUME ProvInv, WakeInv, NEW w \in AgentRuns, NEW next, NEW s, MoveTo(w, next, s),
           next \notin {"deliver", "route", "model", "ask"}, ~HasEarly(s), ~HasType(s, "waiting"),
           UNCHANGED <<sent, asked, answer>>, LeaseHeld' => LeaseHeld,
           next = "ack" => Rest(w)', LeaseOK'
    PROVE  WakeInv'
  <1>1. MailOK' /\ ReadyOK' /\ PastOK'
    BY MoveMail, MoveReady, MovePast DEF WakeInv
  <1>2. AskOK'
    BY MoveAsk DEF WakeInv
  <1>3. AnswerOK'
    BY MoveAnswer DEF WakeInv
  <1>4. RestOK'
    BY MoveRest DEF WakeInv
  <1> QED BY <1>1, <1>2, <1>3, <1>4 DEF WakeInv

-----------------------------------------------------------------------------
(* One lemma per step.                                                     *)

(* The lease that is neither released nor due.                             *)
LEMMA LeaseStays ==
    ASSUME UNCHANGED <<lease, due, verdict>> PROVE (LeaseHeld' <=> LeaseHeld) /\ (LeaseOK' <=> LeaseOK)
  BY DEF LeaseHeld, LeaseOK

(* Short pieces.                                                           *)
LEMMA Short ==
    /\ <<>> \in Seq(Events) /\ ~HasEarly(<<>>) /\ \A y : ~HasType(<<>>, y)
    /\ \A t \in Nat : \A e : Of(e, t) /\ ~IsEarly(e) /\ e.type # "waiting" =>
         /\ <<e>> \in Seq(Events) /\ ~HasEarly(<<e>>)
         /\ ~HasType(<<e>>, "waiting") /\ ~HasType(<<e>>, "responded")
         /\ \A y : HasType(<<e>>, y) <=> e.type = y
  <1>1. <<>> \in Seq(Events) /\ ~HasEarly(<<>>) /\ \A y : ~HasType(<<>>, y)
    BY NoPiece
  <1>2. ASSUME NEW t \in Nat, NEW e, Of(e, t), ~IsEarly(e), e.type # "waiting"
        PROVE  /\ <<e>> \in Seq(Events) /\ ~HasEarly(<<e>>)
               /\ ~HasType(<<e>>, "waiting") /\ ~HasType(<<e>>, "responded")
               /\ \A y : HasType(<<e>>, y) <=> e.type = y
    BY <1>2, Piece1 DEF Piece, Of
  <1> QED BY <1>1, <1>2

(* The tool starts.                                                        *)
LEMMA StartToolWake ==
    ASSUME ProvInv, WakeInv, NEW w \in AgentRuns, StartTool(w) PROVE WakeInv'
  <1> DEFINE t == CurrentTurn(w)
             e == Ev("op.started", CurrentCommand(w), t, None)
             f == Ev("tool.requested", Len(log[w]) + 1, t, None)
             s == <<e, f>>
  <1>1. /\ UNCHANGED <<log, acked, over, sent, asked, answer, lease, due, verdict>> /\ ~over
        /\ thread[w].todo = <<>> /\ thread[w].pc = "tool"
        /\ thread' = [thread EXCEPT ![w].pc = "effect", ![w].todo = s]
    BY DEF StartTool, At, Running, Goto, Then
  <1>2. t \in Nat /\ CurrentCommand(w) \in Int /\ Len(log[w]) + 1 \in Int /\ None \in Datas
    BY CurrentTypes DEF ProvInv, Datas
  <1> HIDE DEF t
  <1>3. /\ Of(e, t) /\ e.type = "op.started" /\ ~IsEarly(e) /\ ~IsExec(e, t)
        /\ Of(f, t) /\ f.type = "tool.requested" /\ ~IsEarly(f) /\ ~IsExec(f, t)
    BY <1>2, PlainEvent DEF EventTypes
  <1> HIDE DEF e, f
  <1>4. s \in Seq(Events) /\ ~HasEarly(s) /\ ~HasType(s, "waiting") /\ ~HasType(s, "responded")
    BY <1>2, <1>3, Piece2 DEF Piece
  <1> HIDE DEF s
  <1>5. MoveTo(w, "effect", s)
    BY <1>1, <1>4 DEF MoveTo
  <1>6. LeaseHeld' => LeaseHeld
    BY <1>1, LeaseStays
  <1>7. LeaseOK'
    BY <1>1, LeaseStays DEF WakeInv
  <1> QED BY <1>1, <1>4, <1>5, <1>6, <1>7, MoveWake

(* It ends.                                                                *)
LEMMA RunToolWake ==
    ASSUME ProvInv, WakeInv, NEW w \in AgentRuns, RunTool(w) PROVE WakeInv'
  <1> DEFINE t == CurrentTurn(w)
             n == Len(log[w])
             op == LastOf(OfTurn(log[w], t, {"op.started"}))
             rec == Phase(t, "recording")
             e == Ev("tool.completed", op, t, None)
             f == Ev("op.completed", n + 2, t, n + 2)
             g == Ev("tool.failed", CurrentCommand(w), t, None)
             h == Ev("op.failed", n + 2, t, None)
  <1>1. /\ UNCHANGED <<log, acked, over, sent, asked, answer, lease, due, verdict>> /\ ~over
        /\ thread[w].todo = <<>> /\ thread[w].pc = "effect"
    BY DEF RunTool, At, Running
  <1>2. \/ thread' = [thread EXCEPT ![w].pc = "advance", ![w].todo = <<rec, e, f>>]
        \/ thread' = [thread EXCEPT ![w].pc = "advance", ![w].todo = <<rec, g, h>>]
    BY DEF RunTool, Goto, Then
  <1>3. t \in Nat /\ CurrentCommand(w) \in Int /\ n + 2 \in Int /\ None \in Datas
        /\ op \in Int /\ n + 2 \in Datas /\ "recording" \in Phases /\ "recording" \notin Early
    <2>1. /\ t \in Nat /\ CurrentCommand(w) \in Int /\ n \in Nat
          /\ \A u, y : LastOf(OfTurn(log[w], u, {y})) \in Int
      BY CurrentTypes DEF ProvInv
    <2>2. op \in Int
      BY <2>1
    <2> HIDE DEF t, n, op
    <2> QED BY <2>1, <2>2 DEF Datas, Phases, Early
  <1> HIDE DEF t, n, op
  <1>4. /\ Of(e, t) /\ e.type = "tool.completed" /\ ~IsEarly(e) /\ ~IsExec(e, t)
        /\ Of(g, t) /\ g.type = "tool.failed" /\ ~IsEarly(g) /\ ~IsExec(g, t)
    BY <1>3, PlainEvent DEF EventTypes
  <1>5. /\ Of(h, t) /\ h.type = "op.failed" /\ ~IsEarly(h) /\ ~IsExec(h, t)
        /\ Of(f, t) /\ f.type = "op.completed" /\ ~IsEarly(f) /\ ~IsExec(f, t)
    BY <1>3, PlainEvent DEF EventTypes
  <1>6. Of(rec, t) /\ rec.type = "phase" /\ ~IsEarly(rec) /\ ~IsExec(rec, t)
    BY <1>3, PhaseEvent
  <1> HIDE DEF rec, e, f, g, h
  <1> DEFINE Ok(s) == s \in Seq(Events) /\ ~HasEarly(s) /\ ~HasType(s, "waiting") /\ ~HasType(s, "responded")
  <1>7. Ok(<<rec, e, f>>) /\ Ok(<<rec, g, h>>)
    BY <1>3, <1>4, <1>5, <1>6, Piece3 DEF Piece
  <1>8. \E s : Ok(s) /\ thread' = [thread EXCEPT ![w].pc = "advance", ![w].todo = s]
    <2> HIDE DEF Ok
    <2> QED BY <1>2, <1>7
  <1>9. PICK s : Ok(s) /\ thread' = [thread EXCEPT ![w].pc = "advance", ![w].todo = s]
    BY <1>8
  <1>10. MoveTo(w, "advance", s)
    BY <1>1, <1>9 DEF MoveTo
  <1>11. LeaseHeld' => LeaseHeld
    BY <1>1, LeaseStays
  <1>12. LeaseOK'
    BY <1>1, LeaseStays DEF WakeInv
  <1> QED BY <1>1, <1>9, <1>10, <1>11, <1>12, MoveWake

(* The model answers.                                                      *)
LEMMA CallModelWake ==
    ASSUME ProvInv, WakeInv, NEW w \in AgentRuns, CallModel(w) PROVE WakeInv'
  <1> DEFINE l == log[w]
             t == CurrentTurn(w)
             done(a) == Ev("completed", Len(l), t, a)
             dec(a) == Decide(Append(l, done(a)), t, Len(l) + 1, a)
  <1>1. PICK a \in Choices[w] : Goto(w, Then(dec(a).pc, <<done(a)>> \o dec(a).todo))
    BY DEF CallModel
  <1>2. /\ UNCHANGED <<log, acked, over, sent, asked, answer, lease, due, verdict>> /\ ~over
        /\ thread[w].todo = <<>> /\ thread[w].pc = "model"
    BY DEF CallModel, At, Running
  <1>3. RunOK(l, <<>>, "model", ledger[w])
    BY <1>2 DEF ProvInv, RunsOK
  <1>4. l \in Seq(Events) /\ Len(l) \in Nat /\ t \in Nat /\ t > 0 /\ Upto(l, t)
    BY <1>3, RunAt DEF CurrentTurn
  <1>5. a \in Answers
    BY ProvenanceConstants DEF Answers
  <1> DEFINE e == done(a)
             next == dec(a)
             s == <<e>> \o next.todo
  <1>6. thread' = [thread EXCEPT ![w].pc = next.pc, ![w].todo = s]
    BY <1>1 DEF Goto, Then
  <1> HIDE DEF t
  <1>7. Of(e, t) /\ e.type = "completed" /\ ~IsEarly(e) /\ ~IsExec(e, t)
    BY <1>4, <1>5, CompletedEvent
  <1>8. Len(l) + 1 \in Int /\ Len(Append(l, e)) \in Nat
    BY <1>4, <1>7 DEF Of
  <1>9. /\ next.pc \in {"tool", "ask", "advance"} /\ (next.pc = "ask" => Past(next.todo, t))
        /\ Piece(next.todo, t) /\ Calm(next.todo)
    BY <1>4, <1>5, <1>8, DecidePiece
  <1> HIDE DEF e, next, done, dec
  <1>10. Piece(<<e>>, t) /\ ~Exec(<<e>>, t) /\ ~HasType(<<e>>, "waiting") /\ <<e>> \in Seq(Events)
    BY <1>4, <1>7, Piece1 DEF Piece
  <1>11. Piece(s, t) /\ ~HasType(s, "waiting")
    BY <1>4, <1>9, <1>10, PieceJoin DEF Calm
  <1>12. s \in Seq(Events) /\ ~HasType(s, "responded") /\ s # <<>>
    <2>1. next.todo \in Seq(Events)
      BY <1>9 DEF Piece
    <2>2. Len(s) = 1 + Len(next.todo) /\ Len(next.todo) \in Nat
      BY <1>10, <2>1
    <2> HIDE DEF s
    <2> QED BY <1>11, <2>2 DEF Piece, HasType
  <1>13. next.pc = "ask" => Past(l \o s, t)
    BY <1>4, <1>9, <1>10, <1>12, PastAfter DEF Piece
  <1> HIDE DEF s
  <1>14. MoveTo(w, next.pc, s)
    BY <1>2, <1>6, <1>9, <1>12 DEF MoveTo
  <1>15. LeaseHeld' => LeaseHeld
    BY <1>2, LeaseStays
  <1>16. LeaseOK'
    BY <1>2, LeaseStays DEF WakeInv
  <1>17. MailOK' /\ ReadyOK' /\ AskOK' /\ AnswerOK' /\ RestOK'
    <2>1. next.pc \notin {"deliver", "route", "ack"}
      BY <1>9
    <2>2. MailOK' /\ ReadyOK'
      BY <1>2, <1>14, <2>1, MoveMail, MoveReady DEF WakeInv
    <2>3. AskOK'
      BY <1>2, <1>11, <1>14, <2>1, MoveAsk DEF WakeInv
    <2>4. AnswerOK'
      BY <1>2, <1>11, <1>14, <1>15, <2>1, MoveAnswer DEF WakeInv
    <2>5. RestOK'
      BY <1>2, <1>14, <1>15, <2>1, MoveRest DEF WakeInv
    <2> QED BY <2>2, <2>3, <2>4, <2>5
  <1>18. PastOK'
    <2>1. CASE w # "asg"
      BY <1>2, <1>14, <2>1, MovePast DEF WakeInv
    <2>2. CASE w = "asg"
      <3>1. /\ thread'["asg"].pc = next.pc /\ thread'["asg"].todo = s /\ log'["asg"] = l
            /\ LogAfter("asg") = l /\ LogAfter("asg")' = l \o s
        BY <1>14, <2>2, Moved
      <3>2. t \notin asked /\ t = Newer("asg")
        BY <1>2, <2>2, <3>1 DEF WakeInv, PastOK, Newer, CurrentTurn, t
      <3>3. Newer("asg")' = t
        BY <1>4, <1>11, <1>12, <3>1, NewestJoin DEF Newer
      <3>4. \A u \in asked : \A k \in 1 .. Len(s) : s[k].turn # u
        BY <1>11, <3>2 DEF Piece
      <3>5. \A u \in asked : Past(l, u)
        BY <2>2 DEF WakeInv, PastOK
      <3> QED BY <1>2, <1>13, <3>1, <3>2, <3>3, <3>4, <3>5 DEF PastOK
    <2> QED BY <2>1, <2>2
  <1> QED BY <1>16, <1>17, <1>18 DEF WakeInv

(* A request to the peer is accepted, or denied.                           *)
LEMMA AskPeerWake ==
    ASSUME ProvInv, WakeInv, NEW w \in AgentRuns, AskPeer(w) PROVE WakeInv'
  <1> DEFINE t == CurrentTurn(w)
             e == Ev("message.denied", CurrentCommand(w), t, None)
  <1>1. /\ UNCHANGED <<log, acked, over, sent, answer, lease, due, verdict>> /\ ~over
        /\ thread[w].todo = <<>> /\ thread[w].pc = "ask"
    BY DEF AskPeer, At, Running
  <1>2. t \in Nat /\ CurrentCommand(w) \in Int /\ None \in Datas
    BY CurrentTypes DEF ProvInv, Datas
  <1>3. LeaseHeld' => LeaseHeld
    BY <1>1, LeaseStays
  <1>4. LeaseOK'
    BY <1>1, LeaseStays DEF WakeInv
  <1>5. CASE ~(t \in asked \/ PeerRequestAllowed(t))
    <2>1. UNCHANGED asked /\ thread' = [thread EXCEPT ![w].pc = "advance", ![w].todo = <<e>>]
      BY <1>5 DEF AskPeer, Goto, Then
    <2> HIDE DEF t
    <2>2. Of(e, t) /\ ~IsEarly(e) /\ e.type = "message.denied"
      BY <1>2, PlainEvent DEF EventTypes
    <2> HIDE DEF e
    <2>3. /\ <<e>> \in Seq(Events) /\ ~HasEarly(<<e>>)
          /\ ~HasType(<<e>>, "waiting") /\ ~HasType(<<e>>, "responded")
      BY <1>2, <2>2, Short
    <2>4. MoveTo(w, "advance", <<e>>)
      BY <1>1, <2>1, <2>3 DEF MoveTo
    <2> QED BY <1>1, <1>3, <1>4, <2>1, <2>3, <2>4, MoveWake
  <1>6. CASE t \in asked \/ PeerRequestAllowed(t)
    <2>1. asked' = asked \cup {t} /\ thread' = [thread EXCEPT ![w].pc = "route", ![w].todo = <<>>]
      BY <1>6 DEF AskPeer, Goto, Then
    <2>2. MoveTo(w, "route", <<>>)
      BY <1>1, <2>1, Short DEF MoveTo
    <2>3. MailOK' /\ ReadyOK' /\ RestOK'
      BY <1>1, <1>3, <2>2, MoveMail, MoveReady, MoveRest DEF WakeInv
    <2>4. AskOK'
      BY <2>1 DEF AskOK
    <2>5. CASE w = "asg"
      <3>1. /\ thread'["asg"].pc = "route" /\ thread'["asg"].todo = <<>> /\ log'["asg"] = log["asg"]
            /\ LogAfter("asg") = log["asg"]
        BY <2>2, <2>5, Moved
      <3>2. t = Newer("asg")
        BY <2>5, <3>1 DEF Newer, CurrentTurn
      <3>3. t \notin asked /\ Past(log["asg"], t)
        BY <1>1, <2>5, <3>1, <3>2 DEF WakeInv, PastOK
      <3>4. asked = {}
        BY <1>6, <3>3 DEF PeerRequestAllowed
      <3>5. ~HasType(log["asg"], "responded")
        BY <3>1, <3>4 DEF WakeInv, AskOK, AnswerOK
      <3>6. PastOK'
        BY <2>1, <3>1, <3>3, <3>4 DEF PastOK
      <3>7. AnswerOK'
        BY <1>1, <1>3, <2>2, <2>5, <3>5, Short, MoveAnswer DEF WakeInv
      <3> QED BY <1>4, <2>3, <2>4, <3>6, <3>7 DEF WakeInv
    <2>6. CASE w = "peer"
      <3>1. asked # {}
        BY <1>1, <2>6, PeerAsked DEF WakeInv
      <3>2. asked' = asked
        BY <1>6, <2>1, <3>1 DEF PeerRequestAllowed
      <3>3. PastOK'
        BY <2>2, <2>6, <3>2, MovePast DEF WakeInv
      <3>4. AnswerOK'
        BY <1>1, <1>3, <2>2, <2>6, Short, MoveAnswer DEF WakeInv
      <3> QED BY <1>4, <2>3, <2>4, <3>3, <3>4 DEF WakeInv
    <2> QED BY <2>5, <2>6 DEF AgentRuns
  <1> QED BY <1>5, <1>6

(* The kernel's decision is routed.                                        *)
LEMMA RouteWake ==
    ASSUME ProvInv, WakeInv, NEW w \in AgentRuns, Route(w) PROVE WakeInv'
  <1> DEFINE t == CurrentTurn(w)
             c == CurrentCommand(w)
             e == Ev("message.sent", c, t, None)
             f == Phase(t, "waiting")
             g == Ev("waiting", c, t, None)
             h == Ev("promoted", Len(log[w]), 0, answer)
             q == IF answer = "accepted" THEN "ack" ELSE "fail"
  <1>1. /\ UNCHANGED <<log, acked, over, asked, answer, lease, due, verdict>> /\ ~over
        /\ thread[w].todo = <<>> /\ thread[w].pc = "route" /\ sent' = sent \cup Routable
    BY DEF Route, At, Running
  <1>2. t \in Nat /\ c \in Int /\ None \in Datas /\ Len(log[w]) \in Int /\ 0 \in Nat
        /\ answer \in Datas /\ "waiting" \in Phases
    BY CurrentTypes DEF ProvInv, StateOK, Datas, Phases
  <1>3. LeaseHeld' => LeaseHeld
    BY <1>1, LeaseStays
  <1>4. LeaseOK'
    BY <1>1, LeaseStays DEF WakeInv
  <1>5. asked # {}
    <2>1. CASE w = "asg"
      BY <1>1, <2>1 DEF WakeInv, AskOK
    <2>2. CASE w = "peer"
      BY <1>1, <2>2, PeerAsked DEF WakeInv
    <2> QED BY <2>1, <2>2 DEF AgentRuns
  <1>6. /\ sent \subseteq sent' /\ sent' \subseteq sent \cup {Requested, Responded}
        /\ Responded \in sent' => Responded \in sent \/ answer = "accepted"
        /\ \A m \in sent' \ sent : m.kind = "responded" => m = Responded
    BY <1>1 DEF Routable, Requested, Responded
  <1>7. AskOK'
    BY <1>1, <1>5 DEF AskOK
  <1>8. CASE w = "asg"
    <2> DEFINE s == <<e, f, g>>
    <2>1. thread' = [thread EXCEPT ![w].pc = "advance", ![w].todo = s]
      BY <1>8 DEF Route, Goto, Then
    <2>2. /\ Of(e, t) /\ ~IsEarly(e) /\ ~IsExec(e, t) /\ e.type = "message.sent"
          /\ Of(g, t) /\ ~IsEarly(g) /\ ~IsExec(g, t) /\ g.type = "waiting"
      BY <1>2, PlainEvent DEF EventTypes
    <2>3. Of(f, t) /\ ~IsEarly(f) /\ ~IsExec(f, t) /\ f.type = "phase"
      BY <1>2, PhaseEvent DEF Early
    <2> HIDE DEF e, f, g, t
    <2>4. s \in Seq(Events) /\ ~HasEarly(s) /\ ~HasType(s, "responded")
      BY <1>2, <2>2, <2>3, Piece3 DEF Piece
    <2> HIDE DEF s
    <2>5. MoveTo(w, "advance", s)
      BY <1>1, <2>1, <2>4 DEF MoveTo
    <2>6. ~HasType(log[w], "responded")
      BY <1>1, <1>8, <2>5, Moved DEF WakeInv, AnswerOK
    <2>7. MailOK' /\ ReadyOK' /\ PastOK'
      BY <1>1, <1>6, <2>4, <2>5, MoveMail, MoveReady, MovePast DEF WakeInv
    <2>8. AnswerOK'
      BY <1>1, <1>3, <1>6, <1>8, <2>5, <2>6, MoveAnswer DEF WakeInv
    <2>9. RestOK'
      BY <1>1, <1>3, <1>6, <2>5, MoveRest DEF WakeInv
    <2> QED BY <1>4, <1>7, <2>7, <2>8, <2>9 DEF WakeInv
  <1>9. CASE w # "asg"
    <2>0. w = "peer"
      BY <1>9 DEF AgentRuns
    <2>1. thread' = [thread EXCEPT ![w].pc = q, ![w].todo = <<h>>]
      BY <1>9 DEF Route, Goto, Then
    <2>2. Of(h, 0) /\ ~IsEarly(h) /\ h.type = "promoted"
      BY <1>2, PlainEvent DEF EventTypes
    <2>q. q \in {"ack", "fail"} /\ (q = "ack" => answer = "accepted")
      OBVIOUS
    <2> HIDE DEF h, q
    <2>3. /\ <<h>> \in Seq(Events) /\ ~HasEarly(<<h>>)
          /\ ~HasType(<<h>>, "waiting") /\ ~HasType(<<h>>, "responded")
      BY <1>2, <2>2, Short
    <2>4. MoveTo(w, q, <<h>>)
      BY <1>1, <2>1, <2>3, <2>q DEF MoveTo
    <2>5. q = "ack" => Rest(w)'
      BY <1>1, <2>0, <2>q DEF Rest
    <2>6. MailOK' /\ ReadyOK' /\ PastOK'
      BY <1>1, <1>6, <1>9, <2>4, <2>q, MoveMail, MoveReady, MovePast DEF WakeInv
    <2>7. AnswerOK'
      BY <1>1, <1>3, <1>6, <1>9, <2>3, <2>4, MoveAnswer DEF WakeInv
    <2>8. RestOK'
      BY <1>1, <1>3, <1>6, <2>4, <2>5, MoveRest DEF WakeInv
    <2> QED BY <1>4, <1>7, <2>6, <2>7, <2>8 DEF WakeInv
  <1> QED BY <1>8, <1>9

(* A log has an event of a type, in the words of the model.                *)
LEMMA TypeFound ==
    ASSUME NEW l, NEW y PROVE (OfType(l, {y}) # {}) <=> HasType(l, y)
  BY DEF OfType, Where, HasType

(* The end of a turn.                                                      *)
LEMMA AdvanceWake ==
    ASSUME ProvInv, WakeInv, NEW w \in AgentRuns, Advance(w) PROVE WakeInv'
  <1> DEFINE l == log[w]
             n == CompletedTurns(l) + 1
             e == Ev("ready", Len(l), 0, n)
  <1>1. /\ UNCHANGED <<log, acked, over, sent, asked, answer, lease, due, verdict>> /\ ~over
        /\ thread[w].todo = <<>> /\ thread[w].pc = "advance"
    BY DEF Advance, At, Running
  <1>2. l \in Seq(Events) /\ CompletedTurns(l) \in Nat /\ n \in Nat
    BY TurnCount DEF ProvInv, StateOK
  <1>3. LeaseHeld' => LeaseHeld
    BY <1>1, LeaseStays
  <1>4. LeaseOK'
    BY <1>1, LeaseStays DEF WakeInv
  <1>5. \/ \E q \in {"promote", "fail", "raise"} : Goto(w, Then(q, <<>>))
        \/ Goto(w, Then("ack", <<>>)) /\ (HasActiveWait(l) \/ HasUnknown(l))
        \/ /\ Goto(w, Then("deliver", <<e>>))
           /\ Where(l, LAMBDA x : x.type = "ready" /\ x.data = n) = {}
    BY DEF Advance
  <1>6. CASE \E q \in {"promote", "fail", "raise"} : Goto(w, Then(q, <<>>))
    <2>1. PICK q \in {"promote", "fail", "raise"} : Goto(w, Then(q, <<>>))
      BY <1>6
    <2>2. MoveTo(w, q, <<>>)
      BY <1>1, <2>1, Short DEF MoveTo, Goto, Then
    <2> QED BY <1>1, <1>3, <1>4, <2>2, Short, MoveWake
  <1>7. CASE Goto(w, Then("ack", <<>>)) /\ (HasActiveWait(l) \/ HasUnknown(l))
    <2>1. MoveTo(w, "ack", <<>>)
      BY <1>1, <1>7, Short DEF MoveTo, Goto, Then
    <2>2. LogAfter(w) = l /\ LogAfter(w)' = l
      BY <1>2, <2>1, Moved, Appends
    <2>3. Rest(w)'
      <3>1. CASE HasUnknown(l)
        BY <2>2, <3>1 DEF Rest
      <3>2. CASE HasActiveWait(l) /\ w = "asg"
        BY <2>2, <3>2 DEF Rest
      <3>3. CASE HasActiveWait(l) /\ w = "peer"
        <4>1. OfType(l, {"waiting"}) = {}
          BY <2>2, <3>3, TypeFound DEF WakeInv, AnswerOK
        <4> QED BY <3>3, <4>1 DEF HasActiveWait, LastOf
      <3> QED BY <1>7, <3>1, <3>2, <3>3 DEF AgentRuns
    <2> QED BY <1>1, <1>3, <1>4, <2>1, <2>3, Short, MoveWake
  <1>8. CASE /\ Goto(w, Then("deliver", <<e>>))
             /\ Where(l, LAMBDA x : x.type = "ready" /\ x.data = n) = {}
    <2>1. ~HasReady(l, n)
      BY <1>8 DEF Where, HasReady
    <2>2. Of(e, 0) /\ ~IsEarly(e) /\ e.type = "ready"
      <3> HIDE DEF n
      <3>1. Len(l) \in Int /\ n \in Datas
        BY <1>2 DEF Datas
      <3> QED BY <3>1, PlainEvent DEF EventTypes
    <2>3. e.data = n
      BY DEF Ev
    <2>4. thread' = [thread EXCEPT ![w].pc = "deliver", ![w].todo = <<e>>]
      BY <1>8 DEF Goto, Then
    <2> HIDE DEF e
    <2>5. /\ <<e>> \in Seq(Events) /\ ~HasEarly(<<e>>) /\ ~HasType(<<e>>, "completed")
          /\ ~HasType(<<e>>, "waiting") /\ ~HasType(<<e>>, "responded")
      BY <2>2, Short
    <2>6. MoveTo(w, "deliver", <<e>>)
      BY <1>1, <2>4, <2>5 DEF MoveTo
    <2>7. /\ thread'[w].pc = "deliver" /\ thread'[w].todo = <<e>> /\ LogAfter(w)' = l \o <<e>>
          /\ \A v \in AgentRuns : log'[v] = log[v]
          /\ \A v \in AgentRuns : v # w => thread'[v] = thread[v] /\ LogAfter(v)' = LogAfter(v)
      BY <2>6, Moved
    <2>8. HasReady(l \o <<e>>, n)
      <3>1. /\ Len(l \o <<e>>) = Len(l) + 1 /\ Len(l) + 1 \in 1 .. Len(l) + 1
            /\ (l \o <<e>>)[Len(l) + 1] = e
        <4> HIDE DEF l
        <4> QED BY <1>2, <2>5
      <3> QED BY <2>2, <2>3, <3>1 DEF HasReady
    <2>9. Ready(w, n) \notin sent
      BY <1>2, <2>1 DEF WakeInv, ReadyOK
    <2>10. ReadyOK'
      <3> SUFFICES ASSUME NEW v \in AgentRuns
                   PROVE  /\ \A k \in Nat : Ready(v, k) \in sent => HasReady(log[v], k)
                          /\ thread'[v].pc = "deliver" =>
                               /\ Ready(v, CompletedTurns(log[v]) + 1) \notin sent
                               /\ HasReady(LogAfter(v)', CompletedTurns(log[v]) + 1)
                               /\ ~HasType(thread'[v].todo, "completed")
        BY <1>1, <2>7 DEF ReadyOK
      <3>1. CASE v = w
        BY <2>5, <2>7, <2>8, <2>9, <3>1 DEF WakeInv, ReadyOK
      <3>2. CASE v # w
        BY <2>7, <3>2 DEF WakeInv, ReadyOK
      <3> QED BY <3>1, <3>2
    <2>11. MailOK' /\ PastOK' /\ RestOK'
      BY <1>1, <1>3, <2>5, <2>6, MoveMail, MovePast, MoveRest DEF WakeInv
    <2>12. AskOK'
      BY <1>1, <2>5, <2>6, MoveAsk DEF WakeInv
    <2>13. AnswerOK'
      BY <1>1, <1>3, <2>5, <2>6, MoveAnswer DEF WakeInv
    <2> QED BY <1>4, <2>10, <2>11, <2>12, <2>13 DEF WakeInv
  <1> QED BY <1>5, <1>6, <1>7, <1>8

(* The delivery of the next turn is sent.                                  *)
LEMMA DeliverWake ==
    ASSUME ProvInv, WakeInv, NEW w \in AgentRuns, Deliver(w) PROVE WakeInv'
  <1> DEFINE n == CompletedTurns(log[w]) + 1
             r == Ready(w, n)
  <1>1. /\ UNCHANGED <<log, acked, over, asked, answer, lease, due, verdict>> /\ ~over
        /\ thread[w].todo = <<>> /\ thread[w].pc = "deliver" /\ sent' = sent \cup {r}
        /\ thread' = [thread EXCEPT ![w].pc = "ack", ![w].todo = <<>>]
    BY DEF Deliver, At, Running, Goto, Then
  <1>2. n \in Nat
    BY TurnCount DEF ProvInv, StateOK
  <1>3. LeaseHeld' => LeaseHeld
    BY <1>1, LeaseStays
  <1>4. LeaseOK'
    BY <1>1, LeaseStays DEF WakeInv
  <1>5. MoveTo(w, "ack", <<>>)
    BY <1>1, Short DEF MoveTo
  <1>6. /\ thread'[w].pc = "ack" /\ LogAfter(w) = log[w]
        /\ \A v \in AgentRuns : log'[v] = log[v]
        /\ \A v \in AgentRuns : v # w => thread'[v] = thread[v] /\ LogAfter(v)' = LogAfter(v)
    BY <1>5, Moved
  <1>7. r \notin sent /\ HasReady(log[w], n)
    BY <1>1, <1>6 DEF WakeInv, ReadyOK
  <1>8. r.to = w /\ r # Responded /\ r.kind # "responded"
    BY DEF Ready, Responded
  <1>9. \A v, k : Ready(v, k) = r => v = w /\ k = n
    BY DEF Ready
  <1> HIDE DEF r, n
  <1>10. ReadyOK'
    <2> SUFFICES ASSUME NEW v \in AgentRuns
                 PROVE  /\ \A k \in Nat : Ready(v, k) \in sent' => HasReady(log[v], k)
                        /\ thread'[v].pc = "deliver" =>
                             /\ Ready(v, CompletedTurns(log[v]) + 1) \notin sent'
                             /\ HasReady(LogAfter(v)', CompletedTurns(log[v]) + 1)
                             /\ ~HasType(thread'[v].todo, "completed")
      BY <1>1, <1>6 DEF ReadyOK
    <2>1. \A k \in Nat : Ready(v, k) \in sent' => HasReady(log[v], k)
      BY <1>1, <1>7, <1>9 DEF WakeInv, ReadyOK
    <2>2. CASE v = w
      BY <1>6, <2>1, <2>2
    <2>3. CASE v # w
      <3>1. \A k : Ready(v, k) \in sent' => Ready(v, k) \in sent
        BY <1>1, <1>9, <2>3
      <3>2. thread[v].pc = "deliver" =>
               /\ Ready(v, CompletedTurns(log[v]) + 1) \notin sent
               /\ HasReady(LogAfter(v), CompletedTurns(log[v]) + 1)
               /\ ~HasType(thread[v].todo, "completed")
        BY DEF WakeInv, ReadyOK
      <3> QED BY <1>6, <2>1, <2>3, <3>1, <3>2
    <2> QED BY <2>2, <2>3
  <1>11. r \in Pending' /\ r # thread[w].msg
    BY <1>1, <1>7 DEF WakeInv, MailOK, Pending
  <1>12. MailOK' /\ PastOK'
    BY <1>1, <1>5, <1>8, Short, MoveMail, MovePast DEF WakeInv
  <1>13. RestOK'
    BY <1>1, <1>3, <1>5, <1>8, <1>11, MoveRest DEF WakeInv
  <1>14. AnswerOK'
    BY <1>1, <1>3, <1>5, <1>8, Short, MoveAnswer DEF WakeInv
  <1>15. AskOK'
    <2>1. CASE w = "peer"
      <3>1. asked # {}
        BY <1>1, <2>1, PeerAsked DEF WakeInv
      <3> QED BY <1>1, <3>1 DEF AskOK
    <2>2. CASE w = "asg"
      <3>1. /\ thread'["asg"].pc = "ack"
            /\ HasType(LogAfter("asg")', "waiting") => HasType(log["asg"], "waiting")
        BY <1>5, <2>2, Moved, Short
      <3>2. r.to # "peer"
        BY <1>8, <2>2
      <3> QED BY <1>1, <1>6, <2>2, <3>1, <3>2 DEF WakeInv, AskOK
    <2> QED BY <2>1, <2>2 DEF AgentRuns
  <1> QED BY <1>4, <1>10, <1>12, <1>13, <1>14, <1>15 DEF WakeInv

(* The assignment fails, ...                                               *)
LEMMA FailWake ==
    ASSUME ProvInv, WakeInv, NEW w \in AgentRuns, FailAssignment(w) PROVE WakeInv'
  <1>1. /\ UNCHANGED <<log, acked, over, sent, asked, answer, lease, due, verdict>> /\ ~over
        /\ thread[w].todo = <<>> /\ thread[w].pc = "fail"
        /\ \E q \in {"release", "raise"} : thread' = [thread EXCEPT ![w].pc = q, ![w].todo = <<>>]
    BY DEF FailAssignment, At, Running, Goto, Then
  <1>2. PICK q \in {"release", "raise"} : thread' = [thread EXCEPT ![w].pc = q, ![w].todo = <<>>]
    BY <1>1
  <1>3. MoveTo(w, q, <<>>)
    BY <1>1, <1>2, Short DEF MoveTo
  <1>4. LeaseHeld' => LeaseHeld
    BY <1>1, LeaseStays
  <1>5. LeaseOK'
    BY <1>1, LeaseStays DEF WakeInv
  <1> QED BY <1>1, <1>3, <1>4, <1>5, Short, MoveWake

(* ... and its lease is released.                                          *)
LEMMA ReleaseWake ==
    ASSUME ProvInv, WakeInv, NEW w \in AgentRuns, ReleaseLease(w) PROVE WakeInv'
  <1>1. /\ UNCHANGED <<log, acked, over, sent, asked, answer, due, verdict>> /\ ~over
        /\ thread[w].todo = <<>> /\ thread[w].pc = "release" /\ lease' # "active"
        /\ thread' = [thread EXCEPT ![w].pc = "ack", ![w].todo = <<>>]
    BY DEF ReleaseLease, At, Running, Goto, Then
  <1>2. MoveTo(w, "ack", <<>>)
    BY <1>1, Short DEF MoveTo
  <1>3. ~LeaseHeld' /\ LeaseOK'
    BY <1>1 DEF LeaseHeld, LeaseOK
  <1>4. Rest(w)'
    BY <1>3 DEF Rest
  <1> QED BY <1>1, <1>2, <1>3, <1>4, Short, MoveWake

(* The decision on the result, which releases the lease it accepts.        *)
LEMMA PromoteResultWake ==
    ASSUME ProvInv, WakeInv, PromoteResult PROVE WakeInv'
  <1> DEFINE e == Ev("promoted", Len(log["asg"]), 0, verdict')
             q == IF verdict' = "accepted" THEN "ack" ELSE "fail"
  <1>1. /\ UNCHANGED <<log, acked, over, sent, asked, answer, due>> /\ ~over
        /\ thread["asg"].todo = <<>> /\ thread["asg"].pc = "promote"
        /\ thread' = [thread EXCEPT !["asg"].pc = q, !["asg"].todo = <<e>>]
        /\ verdict' = (IF verdict # "none" THEN verdict ELSE ValidateResult(log["asg"]))
        /\ lease' = (IF verdict = "none" /\ verdict' = "accepted" THEN "released" ELSE lease)
    BY DEF PromoteResult, At, Running, Goto, Then
  <1>2. "asg" \in AgentRuns
    BY DEF AgentRuns
  <1>3. Of(e, 0) /\ ~IsEarly(e) /\ e.type = "promoted"
    <2>1. verdict' \in Datas
      BY <1>1, DecisionTypes DEF ProvInv, StateOK, Datas
    <2>2. Len(log["asg"]) \in Int
      BY <1>2 DEF ProvInv, StateOK
    <2> QED BY <2>1, <2>2, PlainEvent DEF EventTypes
  <1>4. verdict' = "accepted" => lease' # "active"
    BY <1>1 DEF WakeInv, LeaseOK
  <1>5. (LeaseHeld' => LeaseHeld) /\ LeaseOK' /\ (verdict' = "accepted" => ~LeaseHeld')
    BY <1>1, <1>4 DEF LeaseHeld, LeaseOK
  <1>6. q \in {"ack", "fail"} /\ (q = "ack" => Rest("asg")')
    BY <1>5 DEF Rest
  <1> HIDE DEF e, q
  <1>7. /\ <<e>> \in Seq(Events) /\ ~HasEarly(<<e>>)
        /\ ~HasType(<<e>>, "waiting") /\ ~HasType(<<e>>, "responded")
    BY <1>3, Short
  <1>8. MoveTo("asg", q, <<e>>)
    BY <1>1, <1>6, <1>7 DEF MoveTo
  <1> QED BY <1>1, <1>2, <1>5, <1>6, <1>7, <1>8, MoveWake

(* The decision on the response.                                           *)
LEMMA PromoteResponseWake ==
    ASSUME ProvInv, WakeInv, PromoteResponse PROVE WakeInv'
  <1>1. /\ UNCHANGED <<log, acked, over, sent, asked, lease, due, verdict>> /\ ~over
        /\ thread["peer"].todo = <<>> /\ thread["peer"].pc = "promote"
        /\ thread' = [thread EXCEPT !["peer"].pc = "route", !["peer"].todo = <<>>]
        /\ answer = "accepted" => answer' = "accepted"
    BY DEF PromoteResponse, At, Running, Goto, Then
  <1>2. "peer" \in AgentRuns /\ "peer" # "asg"
    BY DEF AgentRuns
  <1>3. LeaseHeld' => LeaseHeld
    BY <1>1, LeaseStays
  <1>4. LeaseOK'
    BY <1>1, LeaseStays DEF WakeInv
  <1>5. MoveTo("peer", "route", <<>>)
    BY <1>1, Short DEF MoveTo
  <1>6. MailOK' /\ ReadyOK' /\ PastOK'
    BY <1>1, <1>2, <1>5, MoveMail, MoveReady, MovePast DEF WakeInv
  <1>7. AskOK'
    BY <1>1, <1>2, PeerAsked DEF WakeInv, AskOK
  <1>8. AnswerOK'
    BY <1>1, <1>2, <1>3, <1>5, Short, MoveAnswer DEF WakeInv
  <1>9. RestOK'
    BY <1>1, <1>2, <1>3, <1>5, MoveRest DEF WakeInv
  <1> QED BY <1>4, <1>6, <1>7, <1>8, <1>9 DEF WakeInv

(* Steps of one handler that leave the other one and its log alone.        *)
LEMMA BeginWake ==
    ASSUME ProvInv, WakeInv, NEW w \in AgentRuns, NEW m \in sent, Begin(w, m) PROVE WakeInv'
  <1>0. AgentRuns = {"asg", "peer"} /\ "asg" # "peer"
    BY DEF AgentRuns
  <1>1. /\ UNCHANGED <<log, sent, asked, answer, verdict, lease, due, over>> /\ ~over
        /\ thread[w].pc = "idle" /\ m \in Pending /\ m.to = w
        /\ m.n \in Nat
    BY DEF Begin, Running, ProvInv, StateOK, Messages
  <1>2. /\ log \in [AgentRuns -> Seq(Events)]
        /\ thread \in [AgentRuns -> [pc : Pcs, msg : Messages \cup {None}, todo : Seq(Events)]]
    BY DEF ProvInv, StateOK
  <1>3. (LeaseHeld' <=> LeaseHeld) /\ LeaseOK'
    BY <1>1, LeaseStays DEF WakeInv
  <1>4. CASE w = "asg" /\ ~LeaseHeld
    <2>1. acked' = acked \cup {m} /\ UNCHANGED thread
      BY <1>4 DEF Begin
    <2>2. \A v : LogAfter(v)' = LogAfter(v)
      BY <1>1, <2>1 DEF LogAfter
    <2>3. MailOK'
      BY <1>0, <1>1, <1>4, <2>1 DEF WakeInv, MailOK, Pending
    <2>4. ReadyOK' /\ AskOK'
      BY <1>1, <2>1, <2>2 DEF WakeInv, ReadyOK, AskOK
    <2>5. PastOK'
      BY <1>1, <2>1, <2>2 DEF WakeInv, PastOK, Newer
    <2>6. AnswerOK'
      BY <1>1, <1>3, <1>4, <2>1, <2>2 DEF WakeInv, AnswerOK
    <2>7. RestOK'
      BY <1>3, <1>4 DEF RestOK, Rest
    <2> QED BY <1>3, <2>3, <2>4, <2>5, <2>6, <2>7 DEF WakeInv
  <1>5. CASE ~(w = "asg" /\ ~LeaseHeld)
    <2> DEFINE l == log[w]
               p == Prelude(w, m)
               a == l \o p
    <2>1. PICK next \in RunOnce(w, a) :
                 thread' = [thread EXCEPT ![w] = [pc |-> next.pc, msg |-> m, todo |-> p \o next.todo]]
      BY <1>5 DEF Begin
    <2>2. acked' = acked
      BY <1>5 DEF Begin
    <2>3. RunOK(l, <<>>, "idle", ledger[w]) /\ thread[w].todo = <<>>
      BY <1>1 DEF ProvInv, RunsOK, RunOK
    <2>4. LogInv(l) /\ l \in Seq(Events)
      BY <2>3, RunAt
    <2>5. /\ p \in Seq(Events) /\ LogInv(a)
          /\ \A k \in 1 .. Len(p) :
                 p[k].turn = 0 /\ p[k].type \in {"heartbeat", "renewed", "responded", "seed"}
          /\ HasType(p, "responded") => m.kind = "responded"
          /\ m.kind = "responded" => HasType(a, "responded")
      BY <1>1, <2>4, PreludeInv
    <2>6. LoopStep(w, a, next)
      BY <2>1, <2>5, RunOnceStep
    <2>7. LogAfter(w) = l
      BY <2>3, <2>4, Appends DEF LogAfter
    <2> DEFINE q == next.todo
               s == p \o q
    <2>8. /\ thread'[w].pc = next.pc /\ thread'[w].msg = m /\ thread'[w].todo = s
          /\ \A v \in AgentRuns : v # w => thread'[v] = thread[v]
      BY <1>2, <2>1
    <2> HIDE DEF l, p
    <2>9. PICK t \in Nat :
          /\ next.pc \in {"model", "tool", "ask", "advance", "raise"} /\ Piece(q, t)
          /\ ~HasType(q, "waiting")
          /\ HasEarly(q) => ~Past(a, t)
          /\ next.pc \in {"model", "ask"} => Upto(a, t) /\ q # <<>> /\ ~Past(a, t)
          /\ next.pc = "ask" => Past(q, t)
      BY <2>6 DEF LoopStep
    <2> HIDE DEF q
    <2>10. q \in Seq(Events) /\ a \in Seq(Events) /\ s \in Seq(Events) /\ l \o s = a \o q
      BY <2>4, <2>5, <2>9, Appends DEF Piece
    <2>11. LogAfter(w)' = l \o s /\ \A v \in AgentRuns : v # w => LogAfter(v)' = LogAfter(v)
      BY <1>1, <2>8 DEF LogAfter, l
    <2>12. ~HasType(s, "waiting") /\ (HasType(s, "responded") <=> HasType(p, "responded"))
      <3>1. ~HasType(p, "waiting") /\ ~HasType(q, "responded")
        BY <2>5, <2>9 DEF HasType, Piece
      <3> QED BY <2>5, <2>9, <2>10, <3>1, InJoined
    <2>13. \A u : ~\E k \in 1 .. Len(p) : IsEarly(p[k])
      BY <2>5 DEF IsEarly
    <2>14. \A u : (\E k \in 1 .. Len(s) : s[k].turn = u /\ IsEarly(s[k])) => HasEarly(q) /\ u = t
      <3> SUFFICES ASSUME NEW k \in 1 .. Len(s), IsEarly(s[k]) PROVE HasEarly(q) /\ s[k].turn = t
        OBVIOUS
      <3>1. \/ k \in 1 .. Len(p) /\ s[k] = p[k]
            \/ k - Len(p) \in 1 .. Len(q) /\ s[k] = q[k - Len(p)]
        BY <2>5, <2>10, Joined
      <3>2. k - Len(p) \in 1 .. Len(q) /\ s[k] = q[k - Len(p)]
        BY <2>13, <3>1
      <3> QED BY <2>9, <3>2 DEF HasEarly, Piece
    <2>15. \A u : Past(l, u) => Past(a, u)
      BY <2>4, <2>5, <2>13, PastKept
    <2> HIDE DEF s
    <2>16. MailOK'
      BY <1>1, <2>2, <2>8 DEF WakeInv, MailOK, Pending
    <2>17. ReadyOK'
      BY <1>1, <2>8, <2>9, <2>11 DEF WakeInv, ReadyOK
    <2>18. \A y : HasType(l \o s, y) <=> HasType(l, y) \/ HasType(s, y)
      BY <2>4, <2>10, InJoined
    <2>19. AskOK'
      <3> SUFFICES ASSUME asked = {} PROVE AskOK'
        BY <1>1 DEF AskOK
      <3>1. w = "asg"
        BY <1>0, <1>1 DEF WakeInv, AskOK
      <3>2. ~HasType(LogAfter("asg")', "waiting")
        BY <2>7, <2>11, <2>12, <2>18, <3>1 DEF WakeInv, AskOK
      <3> QED BY <1>1, <2>8, <2>9, <3>1, <3>2 DEF WakeInv, AskOK
    <2>20. PastOK'
      <3>1. CASE w # "asg"
        <4>1. thread'["asg"] = thread["asg"] /\ LogAfter("asg")' = LogAfter("asg")
          BY <1>0, <2>8, <2>11, <3>1
        <4> QED BY <1>1, <4>1 DEF WakeInv, PastOK, Newer
      <3>2. CASE w = "asg"
        <4>1. \A u \in asked : Past(l, u)
          BY <3>2 DEF WakeInv, PastOK, l
        <4>2. \A u \in asked : \A k \in 1 .. Len(s) : s[k].turn = u => ~IsEarly(s[k])
          BY <2>9, <2>14, <2>15, <4>1
        <4>3. next.pc \in {"model", "ask"} => Newer("asg")' = t
          <5>1. LogAfter("asg")' = a \o q
            BY <2>10, <2>11, <3>2
          <5>2. next.pc \in {"model", "ask"} => LastOf(Turns(a \o q)) = t
            BY <2>9, <2>10, NewestJoin
          <5> QED BY <5>1, <5>2 DEF Newer
        <4>4. next.pc \in {"model", "ask"} => t \notin asked
          BY <2>9, <2>15, <4>1
        <4>5. next.pc = "ask" => Past(LogAfter("asg")', t)
          BY <2>9, <2>10, <2>11, <3>2, PastAfter
        <4>6. log'["asg"] = l /\ thread'["asg"].todo = s /\ thread'["asg"].pc = next.pc
          BY <1>1, <2>8, <3>2 DEF l
        <4> QED BY <1>1, <4>1, <4>2, <4>3, <4>4, <4>5, <4>6 DEF PastOK
      <3> QED BY <3>1, <3>2
    <2>21. AnswerOK'
      <3>1. CASE w = "asg"
        <4>1. WaitsFirst(l \o s)
          BY <2>4, <2>7, <2>10, <2>12, <3>1, WaitsFirstKept DEF WakeInv, AnswerOK
        <4>2. m.kind = "responded" => m = Responded
          BY DEF WakeInv, MailOK
        <4>3. HasType(l \o s, "responded") => Responded \in sent
          BY <2>5, <2>7, <2>12, <2>18, <3>1, <4>2 DEF WakeInv, AnswerOK
        <4>4. m = Responded => HasType(l \o s, "responded")
          <5>1. m = Responded => HasType(a, "responded")
            BY <2>5 DEF Responded
          <5> QED BY <2>10, <5>1, InJoined
        <4>5. /\ log' = log /\ thread'["asg"].pc # "route" /\ thread'["asg"].msg = m
              /\ LogAfter("asg")' = l \o s /\ LogAfter("peer")' = LogAfter("peer")
          BY <1>0, <1>1, <2>8, <2>9, <2>11, <3>1
        <4> QED BY <1>1, <1>3, <2>2, <4>1, <4>3, <4>4, <4>5 DEF WakeInv, AnswerOK
      <3>2. CASE w = "peer"
        <4>1. /\ log' = log /\ thread'["asg"] = thread["asg"]
              /\ LogAfter("peer")' = l \o s /\ LogAfter("asg")' = LogAfter("asg")
          BY <1>0, <1>1, <2>8, <2>11, <3>2
        <4>2. ~HasType(l \o s, "waiting")
          BY <2>7, <2>12, <2>18, <3>2 DEF WakeInv, AnswerOK
        <4> QED BY <1>1, <1>3, <2>2, <4>1, <4>2 DEF WakeInv, AnswerOK
      <3> QED BY <1>0, <3>1, <3>2
    <2>22. RestOK'
      <3>1. Pending' = Pending
        BY <1>1, <2>2 DEF Pending
      <3>2. \A v \in AgentRuns : v # w /\ Rest(v) => Rest(v)'
        BY <1>1, <1>3, <2>11, RestKept
      <3>3. thread'[w].pc # "ack" /\ thread'[w].pc # "idle"
        BY <2>8, <2>9
      <3> QED BY <1>1, <2>8, <3>1, <3>2, <3>3 DEF WakeInv, RestOK
    <2> QED BY <1>3, <2>16, <2>17, <2>19, <2>20, <2>21, <2>22 DEF WakeInv
  <1> QED BY <1>4, <1>5

(* The set of responses does not change when none is appended.             *)
LEMMA SameCount ==
    ASSUME NEW l \in Seq(Events), NEW s \in Seq(Events), ~HasType(s, "completed")
    PROVE  CompletedTurns(l \o s) = CompletedTurns(l)
  <1> DEFINE a == l \o s
  <1>1. /\ Len(a) = Len(l) + Len(s) /\ Len(l) \in Nat /\ Len(s) \in Nat
        /\ \A k \in 1 .. Len(l) : a[k] = l[k] /\ k \in 1 .. Len(a)
        /\ \A k \in 1 .. Len(a) : k \in 1 .. Len(l) \/ (k - Len(l) \in 1 .. Len(s) /\ a[k] = s[k - Len(l)])
    OBVIOUS
  <1>2. /\ OfType(a, {"completed"}) = { k \in 1 .. Len(a) : a[k].type = "completed" }
        /\ OfType(l, {"completed"}) = { k \in 1 .. Len(l) : l[k].type = "completed" }
    BY DEF OfType, Where
  <1> HIDE DEF a
  <1>3. OfType(a, {"completed"}) = OfType(l, {"completed"})
    BY <1>1, <1>2 DEF HasType
  <1> QED BY <1>3 DEF CompletedTurns, a

(* A longer log has what the shorter one had.                              *)
LEMMA StillReady ==
    ASSUME NEW l \in Seq(Events), NEW s \in Seq(Events), NEW n, HasReady(l, n)
    PROVE  HasReady(l \o s, n)
  <1>1. PICK k \in 1 .. Len(l) : l[k].type = "ready" /\ l[k].data = n
    BY DEF HasReady
  <1>2. k \in 1 .. Len(l \o s) /\ (l \o s)[k] = l[k]
    OBVIOUS
  <1> QED BY <1>1, <1>2 DEF HasReady

(* The pending appends are written: nobody sees a difference but the log.  *)
LEMMA WriteWake ==
    ASSUME ProvInv, WakeInv, NEW w \in AgentRuns, Write(w) PROVE WakeInv'
  <1> DEFINE l == log[w]
             s == thread[w].todo
  <1>0. AgentRuns = {"asg", "peer"} /\ "asg" # "peer"
    BY DEF AgentRuns
  <1>1. /\ UNCHANGED <<sent, acked, asked, answer, verdict, lease, due, over>>
        /\ log' = [log EXCEPT ![w] = l \o s]
        /\ thread' = [thread EXCEPT ![w].todo = <<>>]
    BY DEF Write, LogAfter
  <1>2. /\ log \in [AgentRuns -> Seq(Events)] /\ l \in Seq(Events) /\ s \in Seq(Events)
        /\ thread \in [AgentRuns -> [pc : Pcs, msg : Messages \cup {None}, todo : Seq(Events)]]
    BY DEF ProvInv, StateOK
  <1>3. (LeaseHeld' <=> LeaseHeld) /\ LeaseOK'
    BY <1>1, LeaseStays DEF WakeInv
  <1>4. LogAfter(w) = l \o s
    BY DEF LogAfter
  <1> HIDE DEF l, s
  <1>5. /\ log'[w] = l \o s /\ thread'[w].todo = <<>>
        /\ \A v \in AgentRuns : thread'[v].pc = thread[v].pc /\ thread'[v].msg = thread[v].msg
        /\ \A v \in AgentRuns : v # w => log'[v] = log[v] /\ thread'[v] = thread[v]
    BY <1>1, <1>2
  <1>6. l \o s \in Seq(Events) /\ (l \o s) \o <<>> = l \o s
    BY <1>2, Appends
  <1>7. \A v \in AgentRuns : LogAfter(v)' = LogAfter(v)
    BY <1>4, <1>5, <1>6 DEF LogAfter
  <1>8. \A y : HasType(l, y) => HasType(l \o s, y)
    BY <1>2, InJoined
  <1>9. MailOK'
    BY <1>1, <1>5 DEF WakeInv, MailOK, Pending
  <1>10. ReadyOK'
    <2> SUFFICES ASSUME NEW v \in AgentRuns
                 PROVE  /\ \A n \in Nat : Ready(v, n) \in sent => HasReady(log'[v], n)
                        /\ thread'[v].pc = "deliver" =>
                              /\ Ready(v, CompletedTurns(log'[v]) + 1) \notin sent
                              /\ HasReady(LogAfter(v)', CompletedTurns(log'[v]) + 1)
                              /\ ~HasType(thread'[v].todo, "completed")
      BY <1>1 DEF ReadyOK
    <2>1. CASE v # w
      BY <1>5, <1>7, <2>1 DEF WakeInv, ReadyOK
    <2>2. CASE v = w
      <3>1. \A n \in Nat : Ready(v, n) \in sent => HasReady(log'[v], n)
        BY <1>2, <1>5, <2>2, StillReady DEF WakeInv, ReadyOK, l
      <3>2. thread[w].pc = "deliver" => CompletedTurns(l \o s) = CompletedTurns(l)
        BY <1>2, SameCount DEF WakeInv, ReadyOK, s
      <3> QED BY <1>5, <1>7, <2>2, <3>1, <3>2, Short DEF WakeInv, ReadyOK, l
    <2> QED BY <2>1, <2>2
  <1>11. AskOK'
    BY <1>0, <1>1, <1>5, <1>7 DEF WakeInv, AskOK
  <1>12. PastOK'
    <2>1. /\ Newer("asg")' = Newer("asg") /\ LogAfter("asg")' = LogAfter("asg")
          /\ thread'["asg"].pc = thread["asg"].pc
      BY <1>0, <1>5, <1>7 DEF Newer
    <2>2. CASE w # "asg"
      <3>1. log'["asg"] = log["asg"] /\ thread'["asg"] = thread["asg"]
        BY <1>0, <1>5, <2>2
      <3> QED BY <1>1, <2>1, <3>1 DEF WakeInv, PastOK
    <2>3. CASE w = "asg"
      <3>1. \A u \in asked : Past(l, u) /\ \A k \in 1 .. Len(s) : s[k].turn = u => ~IsEarly(s[k])
        BY <2>3 DEF WakeInv, PastOK, l, s
      <3>2. \A u \in asked : Past(l \o s, u)
        BY <1>2, <3>1, PastKept
      <3>3. log'["asg"] = l \o s /\ thread'["asg"].todo = <<>>
        BY <1>5, <2>3
      <3> QED BY <1>1, <2>1, <3>2, <3>3 DEF WakeInv, PastOK
    <2> QED BY <2>2, <2>3
  <1>13. AnswerOK'
    <2>1. /\ LogAfter("asg")' = LogAfter("asg") /\ LogAfter("peer")' = LogAfter("peer")
          /\ thread'["asg"].pc = thread["asg"].pc /\ thread'["asg"].msg = thread["asg"].msg
      BY <1>0, <1>5, <1>7
    <2>2. HasType(log["asg"], "responded") => HasType(log'["asg"], "responded")
      BY <1>0, <1>5, <1>8 DEF l
    <2> QED BY <1>1, <1>3, <2>1, <2>2 DEF WakeInv, AnswerOK
  <1>14. RestOK'
    <2>1. \A v \in AgentRuns : Rest(v) => Rest(v)'
      BY <1>1, <1>3, <1>7, RestKept
    <2>2. Pending' = Pending
      BY <1>1 DEF Pending
    <2> QED BY <1>1, <1>5, <2>1, <2>2 DEF WakeInv, RestOK
  <1> QED BY <1>3, <1>9, <1>10, <1>11, <1>12, <1>13, <1>14 DEF WakeInv

(* A handler is cut off: its delivery is pending again.                    *)
LEMMA InterruptWake ==
    ASSUME ProvInv, WakeInv, NEW w \in AgentRuns, Interrupt(w) PROVE WakeInv'
  <1> DEFINE l == log[w]
             s == thread[w].todo
  <1>0. AgentRuns = {"asg", "peer"} /\ "asg" # "peer"
    BY DEF AgentRuns
  <1>1. /\ UNCHANGED <<sent, acked, asked, answer, verdict, lease, due, over>>
        /\ thread' = [thread EXCEPT ![w] = Idle] /\ thread[w].pc # "idle"
        /\ \E k \in 0 .. Len(s) : log' = [log EXCEPT ![w] = l \o SubSeq(s, 1, k)]
    BY DEF Interrupt
  <1>2. /\ log \in [AgentRuns -> Seq(Events)] /\ l \in Seq(Events) /\ s \in Seq(Events)
        /\ thread \in [AgentRuns -> [pc : Pcs, msg : Messages \cup {None}, todo : Seq(Events)]]
    BY DEF ProvInv, StateOK
  <1>3. (LeaseHeld' <=> LeaseHeld) /\ LeaseOK'
    BY <1>1, LeaseStays DEF WakeInv
  <1>4. LogAfter(w) = l \o s
    BY DEF LogAfter
  <1> HIDE DEF l, s
  <1>5. PICK k \in 0 .. Len(s) : log' = [log EXCEPT ![w] = l \o SubSeq(s, 1, k)]
    BY <1>1
  <1> DEFINE c == SubSeq(s, 1, k)
             b == l \o c
  <1>6. c \in Seq(Events) /\ Len(c) <= Len(s) /\ Len(c) \in Nat
        /\ \A i \in 1 .. Len(c) : i \in 1 .. Len(s) /\ c[i] = s[i]
    BY <1>2
  <1>7. /\ b \in Seq(Events) /\ b \o <<>> = b /\ Len(b) <= Len(l \o s)
        /\ \A i \in 1 .. Len(b) : i \in 1 .. Len(l \o s) /\ b[i] = (l \o s)[i]
    <2> HIDE DEF c
    <2> QED BY <1>2, <1>6
  <1>8. log' = [log EXCEPT ![w] = b]
    BY <1>5
  <1>9. /\ \A y : HasType(b, y) => HasType(l \o s, y)
        /\ \A y : HasType(l, y) => HasType(b, y)
        /\ WaitsFirst(l \o s) => WaitsFirst(b)
    <2>1. \A y : HasType(l, y) => HasType(b, y)
      <3> HIDE DEF c
      <3> QED BY <1>2, <1>6, InJoined
    <2> HIDE DEF b
    <2> QED BY <1>7, <2>1 DEF HasType, WaitsFirst
  <1>10. \A n : HasReady(l, n) => HasReady(b, n)
    <2> HIDE DEF c
    <2> QED BY <1>2, <1>6, StillReady
  <1>11. \A u : Past(l, u) /\ (\A i \in 1 .. Len(s) : s[i].turn = u => ~IsEarly(s[i])) => Past(b, u)
    <2> HIDE DEF c
    <2> SUFFICES ASSUME NEW u, Past(l, u), \A i \in 1 .. Len(s) : s[i].turn = u => ~IsEarly(s[i])
                 PROVE  Past(b, u)
      OBVIOUS
    <2>1. \A i \in 1 .. Len(c) : c[i].turn = u => ~IsEarly(c[i])
      BY <1>6
    <2> QED BY <1>2, <1>6, <2>1, PastKept
  <1> HIDE DEF c, b
  <1>12. /\ log'[w] = b /\ thread'[w].todo = <<>> /\ thread'[w].pc = "idle"
         /\ \A v \in AgentRuns : v # w => log'[v] = log[v] /\ thread'[v] = thread[v]
    BY <1>1, <1>2, <1>8 DEF Idle
  <1>13. LogAfter(w)' = b /\ \A v \in AgentRuns : v # w => LogAfter(v)' = LogAfter(v)
    BY <1>7, <1>12 DEF LogAfter
  <1>14. MailOK'
    BY <1>1, <1>12 DEF WakeInv, MailOK, Pending
  <1>15. ReadyOK'
    <2> SUFFICES ASSUME NEW v \in AgentRuns
                 PROVE  /\ \A n \in Nat : Ready(v, n) \in sent => HasReady(log'[v], n)
                        /\ thread'[v].pc = "deliver" =>
                              /\ Ready(v, CompletedTurns(log'[v]) + 1) \notin sent
                              /\ HasReady(LogAfter(v)', CompletedTurns(log'[v]) + 1)
                              /\ ~HasType(thread'[v].todo, "completed")
      BY <1>1 DEF ReadyOK
    <2>1. CASE v # w
      BY <1>12, <1>13, <2>1 DEF WakeInv, ReadyOK
    <2>2. CASE v = w
      BY <1>10, <1>12, <2>2 DEF WakeInv, ReadyOK, l
    <2> QED BY <2>1, <2>2
  <1>16. AskOK'
    <2>1. CASE w = "asg"
      BY <1>1, <1>4, <1>9, <1>12, <1>13, <2>1 DEF WakeInv, AskOK
    <2>2. CASE w = "peer"
      <3>1. thread'["asg"] = thread["asg"] /\ LogAfter("asg")' = LogAfter("asg")
        BY <1>0, <1>12, <1>13, <2>2
      <3> QED BY <1>1, <3>1 DEF WakeInv, AskOK
    <2> QED BY <1>0, <2>1, <2>2
  <1>17. PastOK'
    <2>1. CASE w = "asg"
      <3>1. \A u \in asked : Past(b, u)
        BY <1>11, <2>1 DEF WakeInv, PastOK, l, s
      <3>2. /\ log'["asg"] = b /\ thread'["asg"].todo = <<>> /\ thread'["asg"].pc = "idle"
            /\ asked' = asked
        BY <1>1, <1>12, <2>1
      <3> QED BY <3>1, <3>2 DEF PastOK
    <2>2. CASE w = "peer"
      <3>1. /\ thread'["asg"] = thread["asg"] /\ LogAfter("asg")' = LogAfter("asg")
            /\ log'["asg"] = log["asg"]
        BY <1>0, <1>12, <1>13, <2>2
      <3> QED BY <1>1, <3>1 DEF WakeInv, PastOK, Newer
    <2> QED BY <1>0, <2>1, <2>2
  <1>18. AnswerOK'
    <2>1. CASE w = "asg"
      <3>1. LogAfter("asg")' = b /\ LogAfter("peer")' = LogAfter("peer")
            /\ log'["asg"] = b /\ thread'["asg"].pc = "idle" /\ LogAfter("asg") = l \o s /\ log["asg"] = l
        BY <1>0, <1>4, <1>12, <1>13, <2>1 DEF l
      <3> QED BY <1>1, <1>3, <1>9, <3>1 DEF WakeInv, AnswerOK
    <2>2. CASE w = "peer"
      <3>1. /\ thread'["asg"] = thread["asg"] /\ LogAfter("asg")' = LogAfter("asg")
            /\ log'["asg"] = log["asg"] /\ LogAfter("peer")' = b /\ LogAfter("peer") = l \o s
        BY <1>0, <1>4, <1>12, <1>13, <2>2
      <3> QED BY <1>1, <1>3, <1>9, <3>1 DEF WakeInv, AnswerOK
    <2> QED BY <1>0, <2>1, <2>2
  <1>19. RestOK'
    <2>1. \A v \in AgentRuns : v # w /\ Rest(v) => Rest(v)'
      BY <1>1, <1>3, <1>13, RestKept
    <2>2. Pending' = Pending /\ thread[w].msg \in Pending /\ thread[w].msg.to = w
      BY <1>1 DEF Pending, WakeInv, MailOK
    <2> QED BY <1>1, <1>12, <2>1, <2>2 DEF WakeInv, RestOK
  <1> QED BY <1>3, <1>14, <1>15, <1>16, <1>17, <1>18, <1>19 DEF WakeInv

(* A handler ends: its delivery is acknowledged, ...                       *)
LEMMA AckWake ==
    ASSUME ProvInv, WakeInv, NEW w \in AgentRuns, Ack(w) PROVE WakeInv'
  <1> DEFINE m == thread[w].msg
  <1>0. AgentRuns = {"asg", "peer"} /\ "asg" # "peer"
    BY DEF AgentRuns
  <1>1. /\ UNCHANGED <<log, sent, asked, answer, verdict, lease, due, over>>
        /\ thread' = [thread EXCEPT ![w] = Idle] /\ thread[w].pc = "ack" /\ thread[w].todo = <<>>
        /\ acked' = acked \cup {m}
    BY DEF Ack, At, Running
  <1>2. /\ log \in [AgentRuns -> Seq(Events)]
        /\ thread \in [AgentRuns -> [pc : Pcs, msg : Messages \cup {None}, todo : Seq(Events)]]
    BY DEF ProvInv, StateOK
  <1>3. (LeaseHeld' <=> LeaseHeld) /\ LeaseOK'
    BY <1>1, LeaseStays DEF WakeInv
  <1>4. m \in sent /\ m \notin acked /\ m.to = w
    BY <1>1 DEF WakeInv, MailOK, Pending
  <1>5. /\ thread'[w].todo = <<>> /\ thread'[w].pc = "idle"
        /\ \A v \in AgentRuns : v # w => thread'[v] = thread[v]
    BY <1>1, <1>2 DEF Idle
  <1>6. \A v \in AgentRuns : LogAfter(v)' = LogAfter(v)
    BY <1>1, <1>5 DEF LogAfter
  <1>7. LogAfter(w) = log[w]
    BY <1>1, <1>2, Appends DEF LogAfter
  <1> HIDE DEF m
  <1>8. \A x \in Pending : x.to # w => x \in Pending'
    BY <1>1, <1>4 DEF Pending
  <1>9. MailOK'
    <2>1. \A v \in AgentRuns : v # w /\ thread[v].pc # "idle" =>
                /\ thread[v].msg \in Pending' /\ thread[v].msg.to = v
      BY <1>8 DEF WakeInv, MailOK
    <2>2. acked' \subseteq sent /\ \A x \in sent : x.kind = "responded" => x = Responded
      BY <1>1, <1>4 DEF WakeInv, MailOK
    <2> QED BY <1>1, <1>5, <2>1, <2>2 DEF MailOK
  <1>10. ReadyOK'
    BY <1>1, <1>5, <1>6 DEF WakeInv, ReadyOK
  <1>11. AskOK'
    BY <1>0, <1>1, <1>5, <1>6 DEF WakeInv, AskOK
  <1>12. PastOK'
    <2>1. CASE w = "asg"
      <3>1. thread'["asg"].todo = <<>> /\ thread'["asg"].pc = "idle" /\ asked' = asked /\ log' = log
        BY <1>1, <1>5, <2>1
      <3>2. \A u \in asked : Past(log["asg"], u)
        BY DEF WakeInv, PastOK
      <3> QED BY <3>1, <3>2 DEF PastOK
    <2>2. CASE w = "peer"
      <3>1. thread'["asg"] = thread["asg"] /\ LogAfter("asg")' = LogAfter("asg")
        BY <1>0, <1>5, <1>6, <2>2
      <3> QED BY <1>1, <3>1 DEF WakeInv, PastOK, Newer
    <2> QED BY <1>0, <2>1, <2>2
  <1>13. AnswerOK'
    <2>1. LogAfter("asg")' = LogAfter("asg") /\ LogAfter("peer")' = LogAfter("peer")
      BY <1>0, <1>6
    <2>2. CASE w = "asg"
      <3>1. m = Responded => HasType(log["asg"], "responded")
        BY <1>1, <1>7, <2>2 DEF WakeInv, AnswerOK, m
      <3>2. thread'["asg"].pc = "idle" /\ (Responded \in acked' => Responded \in acked \/ m = Responded)
        BY <1>1, <1>5, <2>2
      <3> QED BY <1>1, <1>3, <2>1, <3>1, <3>2 DEF WakeInv, AnswerOK
    <2>3. CASE w = "peer"
      <3>1. thread'["asg"] = thread["asg"] /\ m # Responded
        BY <1>0, <1>4, <1>5, <2>3 DEF Responded
      <3>2. Responded \in acked' => Responded \in acked
        BY <1>1, <3>1
      <3> QED BY <1>1, <1>3, <2>1, <3>1, <3>2 DEF WakeInv, AnswerOK
    <2> QED BY <1>0, <2>2, <2>3
  <1>14. RestOK'
    <2>1. \A v \in AgentRuns : Rest(v) => Rest(v)'
      BY <1>1, <1>3, <1>6, RestKept
    <2>2. Rest(w)' \/ \E x \in Pending' : x.to = w
      <3>1. Rest(w) \/ \E x \in Pending : x.to = w /\ x # m
        BY <1>1 DEF WakeInv, RestOK, m
      <3>2. \A x \in Pending : x # m => x \in Pending'
        BY <1>1 DEF Pending
      <3> QED BY <2>1, <3>1, <3>2
    <2>3. ASSUME NEW v \in AgentRuns, v # w
          PROVE  /\ thread'[v].pc = "ack" =>
                      Rest(v)' \/ \E x \in Pending' : x.to = v /\ x # thread'[v].msg
                 /\ thread'[v].pc = "idle" /\ ~over' =>
                      \/ Rest(v)' \/ \E x \in Pending' : x.to = v
                      \/ v = "peer" /\ \A x \in sent' : x.to # "peer"
      BY <1>1, <1>5, <1>8, <2>1, <2>3 DEF WakeInv, RestOK
    <2> QED BY <1>5, <2>2, <2>3 DEF RestOK
  <1> QED BY <1>3, <1>9, <1>10, <1>11, <1>12, <1>13, <1>14 DEF WakeInv

(* ... or the run is over.                                                 *)
LEMMA RaiseWake ==
    ASSUME ProvInv, WakeInv, NEW w \in AgentRuns, Raise(w) PROVE WakeInv'
  <1>0. AgentRuns = {"asg", "peer"} /\ "asg" # "peer"
    BY DEF AgentRuns
  <1>1. /\ UNCHANGED <<log, sent, acked, asked, answer, verdict, lease, due>> /\ over'
        /\ thread' = [thread EXCEPT ![w] = Idle] /\ thread[w].pc = "raise" /\ thread[w].todo = <<>>
    BY DEF Raise, At, Running
  <1>2. thread \in [AgentRuns -> [pc : Pcs, msg : Messages \cup {None}, todo : Seq(Events)]]
    BY DEF ProvInv, StateOK
  <1>3. (LeaseHeld' <=> LeaseHeld) /\ LeaseOK'
    BY <1>1, LeaseStays DEF WakeInv
  <1>5. /\ thread'[w].todo = <<>> /\ thread'[w].pc = "idle"
        /\ \A v \in AgentRuns : v # w => thread'[v] = thread[v]
    BY <1>1, <1>2 DEF Idle
  <1>6. \A v \in AgentRuns : LogAfter(v)' = LogAfter(v)
    BY <1>1, <1>5 DEF LogAfter
  <1>7. MailOK' /\ ReadyOK'
    BY <1>1, <1>5, <1>6 DEF WakeInv, MailOK, ReadyOK, Pending
  <1>8. AskOK'
    BY <1>0, <1>1, <1>5, <1>6 DEF WakeInv, AskOK
  <1>9. PastOK'
    <2>1. CASE w = "asg"
      <3>1. thread'["asg"].todo = <<>> /\ thread'["asg"].pc = "idle" /\ asked' = asked /\ log' = log
        BY <1>1, <1>5, <2>1
      <3>2. \A u \in asked : Past(log["asg"], u)
        BY DEF WakeInv, PastOK
      <3> QED BY <3>1, <3>2 DEF PastOK
    <2>2. CASE w = "peer"
      <3>1. thread'["asg"] = thread["asg"] /\ LogAfter("asg")' = LogAfter("asg")
        BY <1>0, <1>5, <1>6, <2>2
      <3> QED BY <1>1, <3>1 DEF WakeInv, PastOK, Newer
    <2> QED BY <1>0, <2>1, <2>2
  <1>10. AnswerOK'
    <2>1. /\ LogAfter("asg")' = LogAfter("asg") /\ LogAfter("peer")' = LogAfter("peer")
          /\ thread'["asg"].pc = "idle" \/ thread'["asg"] = thread["asg"]
      BY <1>0, <1>5, <1>6
    <2> QED BY <1>1, <1>3, <2>1 DEF WakeInv, AnswerOK
  <1>11. RestOK'
    <2>1. \A v \in AgentRuns : Rest(v) => Rest(v)'
      BY <1>1, <1>3, <1>6, RestKept
    <2>2. Pending' = Pending
      BY <1>1 DEF Pending
    <2> QED BY <1>1, <1>5, <2>1, <2>2 DEF WakeInv, RestOK
  <1> QED BY <1>3, <1>7, <1>8, <1>9, <1>10, <1>11 DEF WakeInv

(* Steps outside the handlers: what was accepted is routed, the lease runs *)
(* out.                                                                    *)
LEMMA OutsideWake ==
    ASSUME ProvInv, WakeInv, RouteFacts \/ DeadlinePasses \/ Expire \/ UNCHANGED vars
    PROVE  WakeInv'
  <1>1. /\ UNCHANGED <<log, acked, asked, answer, verdict, thread, over>>
        /\ sent' = sent \/ sent' = sent \cup Routable
        /\ LeaseHeld' => LeaseHeld
        /\ lease' = lease \/ lease' # "active"
    BY DEF RouteFacts, DeadlinePasses, Expire, vars, LeaseHeld
  <1>2. /\ sent \subseteq sent' /\ sent' \subseteq sent \cup {Requested, Responded}
        /\ Responded \in sent' => Responded \in sent \/ answer = "accepted"
        /\ \A m \in sent' \ sent : m.kind = "responded" => m = Responded
        /\ asked = {} /\ answer = "none" => sent' = sent
    BY <1>1 DEF Routable, Requested, Responded
  <1>3. \A v : LogAfter(v)' = LogAfter(v)
    BY <1>1 DEF LogAfter
  <1>4. \A v, n : Ready(v, n) \in sent' => Ready(v, n) \in sent
    BY <1>2 DEF Ready, Requested, Responded
  <1>5. MailOK'
    BY <1>1, <1>2 DEF WakeInv, MailOK, Pending
  <1>6. ReadyOK'
    BY <1>1, <1>3, <1>4 DEF WakeInv, ReadyOK
  <1>7. AskOK'
    BY <1>1, <1>2, <1>3 DEF WakeInv, AskOK
  <1>8. PastOK'
    BY <1>1, <1>3 DEF WakeInv, PastOK, Newer
  <1>9. AnswerOK'
    BY <1>1, <1>2, <1>3 DEF WakeInv, AnswerOK
  <1>10. RestOK'
    <2>1. \A v \in AgentRuns : Rest(v) => Rest(v)'
      BY <1>1, <1>3, RestKept
    <2>2. Pending \subseteq Pending' /\ \A m \in sent' \ sent : m \in Pending'
      BY <1>1, <1>2 DEF Pending, WakeInv, MailOK
    <2> SUFFICES ASSUME NEW v \in AgentRuns
                 PROVE  /\ thread[v].pc = "ack" =>
                           Rest(v)' \/ \E x \in Pending' : x.to = v /\ x # thread[v].msg
                        /\ thread[v].pc = "idle" /\ ~over =>
                           \/ Rest(v)' \/ \E x \in Pending' : x.to = v
                           \/ v = "peer" /\ \A x \in sent' : x.to # "peer"
      BY <1>1 DEF RestOK
    <2>3. /\ thread[v].pc = "ack" =>
               Rest(v) \/ \E x \in Pending : x.to = v /\ x # thread[v].msg
          /\ thread[v].pc = "idle" /\ ~over =>
               \/ Rest(v) \/ \E x \in Pending : x.to = v
               \/ v = "peer" /\ \A x \in sent : x.to # "peer"
      BY DEF WakeInv, RestOK
    <2> QED BY <2>1, <2>2, <2>3
  <1>11. LeaseOK'
    BY <1>1 DEF WakeInv, LeaseOK
  <1> QED BY <1>5, <1>6, <1>7, <1>8, <1>9, <1>10, <1>11 DEF WakeInv

(* At the start the assignment has its first delivery.                     *)
LEMMA WakeInit == Init => WakeInv
  <1> SUFFICES ASSUME Init PROVE WakeInv
    OBVIOUS
  <1>0. AgentRuns = {"asg", "peer"} /\ "asg" # "peer"
    BY DEF AgentRuns
  <1>1. /\ \A w \in AgentRuns : log[w] = <<>> /\ thread[w].pc = "idle" /\ thread[w].todo = <<>>
        /\ sent = {Created} /\ acked = {} /\ asked = {} /\ answer = "none" /\ verdict = "none"
    BY DEF Init, Idle
  <1>2. <<>> \o <<>> = <<>> /\ Len(<<>>) = 0 /\ \A y : ~HasType(<<>>, y)
    BY Short
  <1>3. \A w \in AgentRuns : LogAfter(w) = <<>>
    BY <1>1, <1>2 DEF LogAfter
  <1>4. Created \in Pending /\ Created.to = "asg" /\ Created.kind = "created"
    BY <1>1 DEF Pending, Created
  <1>5. MailOK
    BY <1>1, <1>4 DEF MailOK
  <1>6. ReadyOK
    BY <1>1 DEF ReadyOK, Ready, Created
  <1>7. AskOK /\ PastOK /\ LeaseOK
    BY <1>0, <1>1, <1>2, <1>3, <1>4 DEF AskOK, PastOK, LeaseOK
  <1>8. AnswerOK
    BY <1>0, <1>1, <1>2, <1>3 DEF AnswerOK, WaitsFirst, Created, Responded
  <1>9. RestOK
    BY <1>0, <1>1, <1>4 DEF RestOK
  <1> QED BY <1>5, <1>6, <1>7, <1>8, <1>9 DEF WakeInv

(* The invariant of the wake-ups (team_workers.py, the acknowledgement and *)
(* the routes of both workers).                                            *)
THEOREM WakeUpsCorrect == Spec => []WakeInv
  <1>1. ASSUME ProvInv, WakeInv, [Next]_vars PROVE WakeInv'
    <2>1. ASSUME NEW w \in AgentRuns, Step(w) PROVE WakeInv'
      <3>1. CASE \E m \in sent : Begin(w, m)
        BY <1>1, <3>1, BeginWake
      <3>2. CASE Write(w)
        BY <1>1, <3>2, WriteWake
      <3>3. CASE CallModel(w)
        BY <1>1, <3>3, CallModelWake
      <3>4. CASE StartTool(w)
        BY <1>1, <3>4, StartToolWake
      <3>5. CASE RunTool(w)
        BY <1>1, <3>5, RunToolWake
      <3>6. CASE AskPeer(w)
        BY <1>1, <3>6, AskPeerWake
      <3>7. CASE Route(w)
        BY <1>1, <3>7, RouteWake
      <3>8. CASE Advance(w)
        BY <1>1, <3>8, AdvanceWake
      <3>9. CASE Deliver(w)
        BY <1>1, <3>9, DeliverWake
      <3>10. CASE FailAssignment(w)
        BY <1>1, <3>10, FailWake
      <3>11. CASE ReleaseLease(w)
        BY <1>1, <3>11, ReleaseWake
      <3>12. CASE Ack(w)
        BY <1>1, <3>12, AckWake
      <3>13. CASE Raise(w)
        BY <1>1, <3>13, RaiseWake
      <3>14. CASE Interrupt(w)
        BY <1>1, <3>14, InterruptWake
      <3> QED BY <2>1, <3>1, <3>2, <3>3, <3>4, <3>5, <3>6, <3>7, <3>8, <3>9, <3>10,
                 <3>11, <3>12, <3>13, <3>14 DEF Step
    <2>2. CASE PromoteResult
      BY <1>1, <2>2, PromoteResultWake
    <2>3. CASE PromoteResponse
      BY <1>1, <2>3, PromoteResponseWake
    <2>4. CASE RouteFacts \/ DeadlinePasses \/ Expire \/ UNCHANGED vars
      BY <1>1, <2>4, OutsideWake
    <2> QED BY <1>1, <2>1, <2>2, <2>3, <2>4 DEF Next
  <1> QED BY <1>1, WakeInit, ProvenanceCorrect, PTL DEF Spec

(* No wake-up is lost (team_workers.py, _advance_assignment, _advance_peer *)
(* and the routes of the peer's request and response): when no handler     *)
(* works, nothing is pending and nothing is left to route, an assignment   *)
(* that still holds its lease has an operation of unknown outcome in its   *)
(* own log or in its peer's.                                               *)
THEOREM NoLostWakeUpHolds == Spec => []NoLostWakeUp
  <1>1. ASSUME ProvInv, WakeInv PROVE NoLostWakeUp
    <2> SUFFICES ASSUME Quiet, LeaseHeld, \A w \in AgentRuns : ~HasUnknown(log[w]) PROVE FALSE
      BY DEF NoLostWakeUp
    <2>0. "asg" \in AgentRuns /\ "peer" \in AgentRuns /\ "asg" # "peer"
      BY DEF AgentRuns
    <2> DEFINE l == log["asg"]
               k == LastOf(OfType(l, {"waiting"}))
    <2>1. /\ \A w \in AgentRuns : thread[w].pc = "idle"
          /\ Pending = {} /\ Routable \subseteq sent /\ ~over
      BY DEF Quiet
    <2>2. \A w \in AgentRuns : thread[w].todo = <<>> /\ log[w] \in Seq(Events)
      BY <1>1, <2>1 DEF ProvInv, RunsOK, RunOK
    <2>3. \A w \in AgentRuns : LogAfter(w) = log[w]
      BY <2>2, Appends DEF LogAfter
    <2>4. HasActiveWait(l)
      BY <1>1, <2>0, <2>1, <2>3 DEF WakeInv, RestOK, Rest
    <2>5. k # 0 /\ \A j \in k + 1 .. Len(l) : l[j].type # "responded"
      BY <2>4 DEF HasActiveWait
    <2>6. OfType(l, {"waiting"}) # {}
      BY <2>5 DEF LastOf
    <2>7. HasType(l, "waiting")
      BY <2>6, TypeFound
    <2>8. asked # {}
      BY <1>1, <2>0, <2>3, <2>7 DEF WakeInv, AskOK
    <2>9. Requested \in sent /\ Requested.to = "peer"
      BY <2>1, <2>8 DEF Routable, Requested
    <2>10. answer = "accepted"
      BY <1>1, <2>0, <2>1, <2>3, <2>9 DEF WakeInv, RestOK, Rest
    <2>11. Responded \in acked
      BY <2>1, <2>10 DEF Routable, Pending
    <2>12. PICK j \in 1 .. Len(l) : l[j].type = "responded"
      BY <1>1, <2>11 DEF WakeInv, AnswerOK, HasType
    <2>13. k \in 1 .. Len(l) /\ l[k].type = "waiting"
      <3>1. OfType(l, {"waiting"}) = { i \in 1 .. Len(l) : l[i].type = "waiting" }
        BY DEF OfType, Where
      <3>2. k \in OfType(l, {"waiting"})
        BY <2>0, <2>2, <2>6, <3>1, LastPosition
      <3> QED BY <3>1, <3>2
    <2> HIDE DEF k
    <2>14. k < j
      BY <1>1, <2>0, <2>3, <2>12, <2>13 DEF WakeInv, AnswerOK, WaitsFirst
    <2>15. j \in k + 1 .. Len(l)
      BY <2>12, <2>13, <2>14
    <2> QED BY <2>5, <2>12, <2>15
  <1> QED BY <1>1, ProvenanceCorrect, WakeUpsCorrect, PTL

-----------------------------------------------------------------------------
(* Honest logs: what the kernel looks for in them when a result comes.     *)

(* Events outside the turns of the model, the ends of an agent run and of  *)
(* an operation.                                                           *)
ZeroTypes == {"seed", "responded", "heartbeat", "renewed", "ready", "promoted"}
Endings == {"stopped", "submitted"}
OpEnds == {"op.completed", "op.failed", "op.unknown"}

(* Every event but a phase names an earlier one, and only the first of a   *)
(* turn may name a phase.                                                  *)
Caused(l, k) ==
    \/ l[k].type \in {"phase", "seed", "responded"}
    \/ /\ l[k].cause \in 1 .. k - 1
       /\ l[l[k].cause].type = "phase" => l[k].type = "capability"

(* A response answers a request, a command is a response, and a tool or a  *)
(* submission is what the command says, with its gate behind it.           *)
From(l, k, y) == l[l[k].cause].type = y /\ l[l[k].cause].turn = l[k].turn
Chained(l, k) ==
    /\ l[k].type = "completed" => From(l, k, "request")
    /\ l[k].type = "command" => From(l, k, "completed") /\ l[l[k].cause].data = l[k].data
    /\ l[k].type = "op.started" => From(l, k, "command") /\ l[l[k].cause].data = "tool"
    /\ l[k].type = "submitted" =>
          /\ From(l, k, "command") /\ l[l[k].cause].data = "submit"
          /\ \E g \in 1 .. k - 1 : /\ l[g].type = "gate.passed" /\ l[g].cause = l[k].cause
                                   /\ l[g].turn = l[k].turn
          /\ \E i \in 1 .. k - 1 : l[i].type = "tool.completed"

(* A turn follows the turns before it, once their operations have ended,   *)
(* and nothing follows the end of the run.                                 *)
Ended(l, k, t) == \E m \in 1 .. k : l[m].type \in OpEnds /\ l[m].turn = t
Recorded(l, i) ==
    /\ l[i + 1].type = "op.completed" /\ l[i + 1].turn = l[i].turn
    /\ l[i + 1].cause = i /\ l[i + 1].data = i
Ordered(l, k) ==
    /\ l[k].turn = 0 <=> l[k].type \in ZeroTypes
    /\ l[k].turn # 0 => \A i \in 1 .. k - 1 :
          /\ l[i].turn <= l[k].turn /\ l[i].type \notin Endings
          /\ l[i].type = "tool.completed" => Recorded(l, i)
          /\ l[i].type = "op.started" /\ l[i].turn < l[k].turn => Ended(l, k - 1, l[i].turn)

(* An operation is started once in its turn, right behind its execution    *)
(* phase, and a result is one of an operation that was announced.          *)
PhaseAt(l, k, t, p) == k > 0 /\ l[k].type = "phase" /\ l[k].turn = t /\ l[k].data = p
Announced(l, k, t) ==
    \E o, q \in 1 .. k : /\ l[o].type = "op.started" /\ l[o].turn = t
                         /\ l[q].type = "tool.requested" /\ l[q].turn = t /\ l[q].cause = o
Operated(l, k) ==
    /\ PhaseAt(l, k, l[k].turn, "executing") => PhaseAt(l, k - 1, l[k].turn, "authorizing")
    /\ l[k].type = "op.started" =>
          /\ PhaseAt(l, k - 1, l[k].turn, "executing")
          /\ \A i \in 1 .. k - 1 : l[i].type = "op.started" => l[i].turn # l[k].turn
    /\ l[k].type \in OpEnds =>
          \E i \in 1 .. k - 1 : l[i].type = "op.started" /\ l[i].turn = l[k].turn
    /\ l[k].type = "tool.completed" =>
          /\ PhaseAt(l, k - 1, l[k].turn, "recording")
          /\ ~Ended(l, k - 1, l[k].turn) /\ Announced(l, k - 1, l[k].turn)

Sound(l, k) == Caused(l, k) /\ Chained(l, k) /\ Ordered(l, k) /\ Operated(l, k)
Honest(l) ==
    /\ \A k \in 1 .. Len(l) : Sound(l, k)
    /\ Len(l) > 0 => l[1].type = "seed" /\ l[1].cause = Outside

(* Where the handler of w stands, with the log a behind it.                *)
LastIs(a, y) == a[Len(a)].type = y
LatestCommand(a, t, c) ==
    /\ c \in 1 .. Len(a) /\ a[c].type = "command" /\ a[c].turn = t
    /\ \A j \in 1 .. Len(a) : j > c => ~(a[j].type = "command" /\ a[j].turn = t)
Standing(w, a, pc) ==
    /\ pc # "idle" => Len(a) > 0
    /\ pc = "model" => LastIs(a, "request")
    /\ pc = "tool" =>
          /\ PhaseAt(a, Len(a), a[Len(a)].turn, "executing")
          /\ \E c : LatestCommand(a, a[Len(a)].turn, c) /\ a[c].data = "tool"
    /\ pc = "effect" =>
          /\ LastIs(a, "tool.requested") /\ a[Len(a)].cause = Len(a) - 1
          /\ Len(a) > 1 /\ a[Len(a) - 1].type = "op.started"
          /\ a[Len(a) - 1].turn = a[Len(a)].turn
    /\ pc = "ask" \/ (pc = "route" /\ w = "asg") =>
          /\ PhaseAt(a, Len(a), a[Len(a)].turn, "recording")
          /\ \E c : LatestCommand(a, a[Len(a)].turn, c) /\ a[c].data = "send"
    /\ pc = "promote" \/ (pc = "route" /\ w = "peer") => HasType(a, "submitted")
    /\ pc = "advance" => \/ IsTerminal(a) \/ HasActiveWait(a) \/ HasUnknown(a)
                         \/ ~LastIs(a, "phase")

(* The log of an agent run is honest, interrupted or not, has the answers  *)
(* its model may give, and announces every operation that succeeded.       *)
Chosen(w, a) == \A k \in 1 .. Len(a) : a[k].type = "completed" => a[k].data \in Choices[w]
HonestRun(w) ==
    /\ Honest(LogAfter(w)) /\ Standing(w, LogAfter(w), thread[w].pc) /\ Chosen(w, LogAfter(w))
    /\ \A t \in DOMAIN ledger[w] :
          ledger[w][t] = "succeeded" => Announced(log[w], Len(log[w]), t)
RunsHonest == \A w \in AgentRuns : HonestRun(w)
HonestInv == RunsHonest /\ HonestWorkAccepted

-----------------------------------------------------------------------------
(* Honest logs that grow.                                                  *)

(* What is sound at a position depends on the log up to it.                *)
LEMMA SoundSame ==
    ASSUME NEW a \in Seq(Events), NEW b \in Seq(Events), NEW n \in Nat,
           n <= Len(a), n <= Len(b), \A i \in 1 .. n : a[i] = b[i],
           NEW k \in 1 .. n, Sound(a, k)
    PROVE  Sound(b, k)
  <1>1. \A i \in 1 .. k : a[i] = b[i]
    OBVIOUS
  <1>2. k \in 1 .. k /\ \A i \in 1 .. k - 1 : i \in 1 .. k /\ i + 1 \in 1 .. k
    OBVIOUS
  <1>3. Caused(b, k)
    BY <1>1, <1>2 DEF Sound, Caused
  <1>4. Chained(b, k)
    <2>1. a[k].type \in {"completed", "command", "op.started", "submitted"} =>
             a[k].cause \in 1 .. k - 1
      BY DEF Sound, Caused
    <2> QED BY <1>1, <1>2, <2>1 DEF Sound, Chained, From
  <1>5. \A t : Ended(a, k - 1, t) <=> Ended(b, k - 1, t)
    BY <1>1, <1>2 DEF Ended
  <1>6. ASSUME NEW t, Announced(a, k - 1, t) PROVE Announced(b, k - 1, t)
    <2>1. PICK o, q \in 1 .. k - 1 :
             /\ a[o].type = "op.started" /\ a[o].turn = t
             /\ a[q].type = "tool.requested" /\ a[q].turn = t /\ a[q].cause = o
      BY <1>6 DEF Announced
    <2>2. b[o] = a[o] /\ b[q] = a[q]
      BY <1>1, <1>2
    <2> QED BY <2>1, <2>2 DEF Announced
  <1>7. \A i \in 1 .. k - 1 : Recorded(a, i) <=> Recorded(b, i)
    BY <1>1, <1>2 DEF Recorded
  <1>8. \A t, p : /\ PhaseAt(a, k - 1, t, p) <=> PhaseAt(b, k - 1, t, p)
                  /\ PhaseAt(a, k, t, p) <=> PhaseAt(b, k, t, p)
    BY <1>1, <1>2 DEF PhaseAt
  <1>9. Ordered(b, k)
    BY <1>1, <1>2, <1>5, <1>7 DEF Sound, Ordered
  <1>10. Operated(b, k)
    BY <1>1, <1>2, <1>5, <1>6, <1>8 DEF Sound, Operated
  <1> QED BY <1>3, <1>4, <1>9, <1>10 DEF Sound

(* A prefix of an honest log is honest.                                    *)
LEMMA HonestPrefix ==
    ASSUME NEW a \in Seq(Events), NEW b \in Seq(Events), Len(b) <= Len(a),
           \A i \in 1 .. Len(b) : a[i] = b[i], Honest(a)
    PROVE  Honest(b)
  <1>1. ASSUME NEW k \in 1 .. Len(b) PROVE Sound(b, k)
    <2>1. Sound(a, k) /\ Len(b) \in Nat
      BY DEF Honest
    <2> QED BY <2>1, SoundSame
  <1>2. Len(b) > 0 => b[1].type = "seed" /\ b[1].cause = Outside
    BY DEF Honest
  <1> QED BY <1>1, <1>2 DEF Honest

(* A log with one more event.                                              *)
LEMMA OneMore ==
    ASSUME NEW l \in Seq(Events), NEW e \in Events
    PROVE  LET b == l \o <<e>> IN
           /\ b \in Seq(Events) /\ Len(l) \in Nat /\ Len(b) = Len(l) + 1 /\ b[Len(l) + 1] = e
           /\ \A i \in 1 .. Len(l) : b[i] = l[i]
           /\ \A i \in 1 .. Len(b) : i \in 1 .. Len(l) \/ i = Len(l) + 1
  OBVIOUS

(* It is honest when the event is sound.                                   *)
LEMMA HonestMore ==
    ASSUME NEW l \in Seq(Events), NEW e \in Events, Honest(l), Len(l) > 0,
           Sound(l \o <<e>>, Len(l) + 1)
    PROVE  Honest(l \o <<e>>)
  <1> DEFINE b == l \o <<e>>
  <1>1. /\ b \in Seq(Events) /\ Len(l) \in Nat /\ Len(b) = Len(l) + 1 /\ b[Len(l) + 1] = e
        /\ \A i \in 1 .. Len(l) : b[i] = l[i]
        /\ \A i \in 1 .. Len(b) : i \in 1 .. Len(l) \/ i = Len(l) + 1
    BY OneMore
  <1>2. Sound(b, Len(l) + 1)
    OBVIOUS
  <1> HIDE DEF b
  <1>3. ASSUME NEW k \in 1 .. Len(l) PROVE Sound(b, k)
    <2>1. Sound(l, k)
      BY DEF Honest
    <2>2. Len(l) <= Len(l) /\ Len(l) <= Len(b) /\ \A i \in 1 .. Len(l) : l[i] = b[i]
      BY <1>1
    <2> QED BY <1>1, <2>1, <2>2, SoundSame
  <1>4. b[1].type = "seed" /\ b[1].cause = Outside
    BY <1>1 DEF Honest
  <1>5. Honest(b)
    BY <1>1, <1>2, <1>3, <1>4 DEF Honest
  <1> QED BY <1>5 DEF b

(* An event of no turn.                                                    *)
LEMMA MoreZero ==
    ASSUME NEW l \in Seq(Events), NEW e \in Events, Honest(l), Len(l) > 0,
           e.turn = 0, e.type \in ZeroTypes,
           e.type \in {"seed", "responded"} \/ (e.cause \in 1 .. Len(l) /\ l[e.cause].type # "phase")
    PROVE  Honest(l \o <<e>>)
  <1> DEFINE b == l \o <<e>>
             n == Len(l) + 1
  <1>1. /\ b \in Seq(Events) /\ Len(l) \in Nat /\ Len(b) = n /\ b[n] = e
        /\ \A i \in 1 .. Len(l) : b[i] = l[i]
    BY OneMore
  <1> HIDE DEF b
  <1>2. Caused(b, n)
    BY <1>1 DEF Caused
  <1>3. Chained(b, n) /\ Ordered(b, n) /\ Operated(b, n)
    BY <1>1 DEF Chained, Ordered, Operated, ZeroTypes, PhaseAt, OpEnds
  <1> QED BY <1>2, <1>3, HonestMore DEF Sound, b

(* A log that the turn t may still add to: it is the newest, the run has   *)
(* not ended, and every operation before has.                              *)
Open(l, t) ==
    /\ l \in Seq(Events) /\ Len(l) > 0 /\ Honest(l) /\ t \in Nat \ {0}
    /\ \A i \in 1 .. Len(l) :
          /\ l[i].turn <= t /\ l[i].type \notin Endings
          /\ l[i].type = "tool.completed" => i < Len(l) /\ Recorded(l, i)
          /\ l[i].type = "op.started" /\ l[i].turn < t => Ended(l, Len(l), l[i].turn)

(* An event of that turn, ...                                              *)
LEMMA MoreOpen ==
    ASSUME NEW l, NEW t, Open(l, t), NEW e \in Events, e.turn = t, e.type \notin ZeroTypes,
           LET b == l \o <<e>> n == Len(l) + 1
           IN Caused(b, n) /\ Chained(b, n) /\ Operated(b, n)
    PROVE  /\ Honest(l \o <<e>>)
           /\ e.type \notin Endings \cup {"tool.completed"} => Open(l \o <<e>>, t)
  <1> DEFINE b == l \o <<e>>
             n == Len(l) + 1
  <1>0. l \in Seq(Events) /\ Len(l) > 0 /\ Honest(l) /\ t \in Nat \ {0}
    BY DEF Open
  <1>1. /\ b \in Seq(Events) /\ Len(l) \in Nat /\ Len(b) = n /\ b[n] = e
        /\ \A i \in 1 .. Len(l) : b[i] = l[i]
        /\ \A i \in 1 .. Len(b) : i \in 1 .. Len(l) \/ i = n
    BY <1>0, OneMore
  <1>2. Caused(b, n) /\ Chained(b, n) /\ Operated(b, n)
    OBVIOUS
  <1> HIDE DEF b
  <1>3. \A u : Ended(l, Len(l), u) => Ended(b, Len(l), u) /\ Ended(b, n, u)
    BY <1>1 DEF Ended
  <1>4. \A i \in 1 .. Len(l) : i < Len(l) /\ Recorded(l, i) => Recorded(b, i)
    BY <1>1 DEF Recorded
  <1>5. ASSUME NEW i \in 1 .. Len(l)
        PROVE  /\ b[i].turn <= t /\ b[i].type \notin Endings
               /\ b[i].type = "tool.completed" => i < n /\ Recorded(b, i)
               /\ b[i].type = "op.started" /\ b[i].turn < t =>
                     Ended(b, Len(l), b[i].turn) /\ Ended(b, n, b[i].turn)
    BY <1>1, <1>3, <1>4 DEF Open
  <1>6. Ordered(b, n)
    <2>1. n - 1 = Len(l)
      BY <1>1
    <2> QED BY <1>0, <1>1, <1>5, <2>1 DEF Ordered
  <1>7. Honest(b)
    BY <1>0, <1>1, <1>2, <1>6, HonestMore DEF Sound, b
  <1>8. ASSUME e.type \notin Endings \cup {"tool.completed"} PROVE Open(b, t)
    <2>1. ASSUME NEW i \in 1 .. Len(b)
          PROVE  /\ b[i].turn <= t /\ b[i].type \notin Endings
                 /\ b[i].type = "tool.completed" => i < Len(b) /\ Recorded(b, i)
                 /\ b[i].type = "op.started" /\ b[i].turn < t => Ended(b, Len(b), b[i].turn)
      <3>1. CASE i \in 1 .. Len(l)
        BY <1>1, <1>5, <3>1
      <3>2. CASE i = n
        BY <1>0, <1>1, <1>8, <3>2
      <3> QED BY <1>1, <3>1, <3>2
    <2> QED BY <1>0, <1>1, <1>7, <2>1 DEF Open
  <1> QED BY <1>7, <1>8 DEF b

(* ... after which it may go on.                                           *)
More(l, e, t) ==
    LET b == l \o <<e>>
    IN /\ Open(b, t) /\ Len(l) \in Nat /\ Len(b) = Len(l) + 1 /\ b[Len(l) + 1] = e
       /\ \A i \in 1 .. Len(l) : b[i] = l[i]
       /\ \A c : e.type # "command" /\ LatestCommand(l, t, c) => LatestCommand(b, t, c)

CauseOK(l, e) ==
    \/ e.type = "phase"
    \/ e.cause \in 1 .. Len(l) /\ (l[e.cause].type = "phase" => e.type = "capability")

(* A turn that goes on after an event.                                     *)
LEMMA MoreIf ==
    ASSUME NEW l, NEW t, Open(l, t), NEW e \in Events, Open(l \o <<e>>, t)
    PROVE  More(l, e, t)
  <1> DEFINE b == l \o <<e>>
             n == Len(l) + 1
  <1>0. l \in Seq(Events)
    BY DEF Open
  <1>1. /\ b \in Seq(Events) /\ Len(l) \in Nat /\ Len(b) = n /\ b[n] = e
        /\ \A i \in 1 .. Len(l) : b[i] = l[i]
        /\ \A i \in 1 .. Len(b) : i \in 1 .. Len(l) \/ i = n
    BY <1>0, OneMore
  <1> HIDE DEF b
  <1>2. ASSUME NEW c, e.type # "command", LatestCommand(l, t, c) PROVE LatestCommand(b, t, c)
    BY <1>1, <1>2 DEF LatestCommand
  <1> QED BY <1>1, <1>2 DEF More, b

(* The causes of an event.                                                 *)
LEMMA CausedMore ==
    ASSUME NEW l \in Seq(Events), NEW e \in Events, CauseOK(l, e)
    PROVE  Caused(l \o <<e>>, Len(l) + 1)
  <1> DEFINE b == l \o <<e>>
             n == Len(l) + 1
  <1>1. /\ Len(l) \in Nat /\ b[n] = e
        /\ \A i \in 1 .. Len(l) : b[i] = l[i]
    BY OneMore
  <1> HIDE DEF b
  <1>2. Caused(b, n)
    BY <1>1 DEF Caused, CauseOK
  <1> QED BY <1>2 DEF b

(* Events the kernel asks nothing else of, ...                             *)
Plain(e) ==
    /\ e.type \notin ZeroTypes \cup OpEnds
    /\ e.type \notin {"completed", "command", "op.started", "submitted", "tool.completed"}
    /\ e.type = "phase" => e.data # "executing"

(* An event that needs nothing but its cause.                              *)
LEMMA PlainMore ==
    ASSUME NEW l, NEW t, Open(l, t), NEW e \in Events, e.turn = t, Plain(e), CauseOK(l, e)
    PROVE  Honest(l \o <<e>>) /\ (e.type \notin Endings => More(l, e, t))
  <1> DEFINE b == l \o <<e>>
             n == Len(l) + 1
  <1>0. l \in Seq(Events)
    BY DEF Open
  <1>1. b[n] = e
    BY <1>0, OneMore
  <1>2. Caused(b, n)
    BY <1>0, CausedMore
  <1>3. Chained(b, n) /\ Operated(b, n)
    <2> HIDE DEF b
    <2> QED BY <1>1 DEF Chained, Operated, Plain, PhaseAt
  <1>4. Honest(b) /\ (e.type \notin Endings \cup {"tool.completed"} => Open(b, t))
    BY <1>2, <1>3, MoreOpen DEF Plain
  <1> QED BY <1>4, MoreIf DEF Plain

(* ... a phase, ...                                                        *)
LEMMA PhaseMore ==
    ASSUME NEW l, NEW t, Open(l, t), NEW p \in Phases,
           p = "executing" => PhaseAt(l, Len(l), t, "authorizing")
    PROVE  /\ More(l, Phase(t, p), t) /\ PhaseAt(l \o <<Phase(t, p)>>, Len(l) + 1, t, p)
           /\ Phase(t, p) \in Events
  <1> DEFINE e == Phase(t, p)
             b == l \o <<e>>
             n == Len(l) + 1
  <1>0. l \in Seq(Events) /\ t \in Nat /\ Len(l) \in Nat /\ Len(l) > 0
    BY DEF Open
  <1>1. e \in Events /\ e.type = "phase" /\ e.turn = t /\ e.data = p
    BY <1>0, PhaseEvent DEF Of, Phase, Ev
  <1>2. e.type \notin ZeroTypes /\ e.type \notin Endings \cup {"tool.completed"}
    BY <1>1 DEF ZeroTypes, Endings
  <1> HIDE DEF e
  <1>3. /\ b \in Seq(Events) /\ Len(b) = n /\ b[n] = e
        /\ \A i \in 1 .. Len(l) : b[i] = l[i]
    BY <1>0, <1>1, OneMore
  <1> HIDE DEF b
  <1>4. Caused(b, n) /\ Chained(b, n)
    BY <1>1, <1>3 DEF Caused, Chained
  <1>5. PhaseAt(b, n, t, p)
    BY <1>0, <1>1, <1>3 DEF PhaseAt
  <1>6. p = "executing" => PhaseAt(b, n - 1, t, "authorizing")
    BY <1>0, <1>3 DEF PhaseAt
  <1>7. Operated(b, n)
    BY <1>1, <1>3, <1>6 DEF Operated, PhaseAt, OpEnds
  <1>8. Open(b, t)
    BY <1>1, <1>2, <1>4, <1>7, MoreOpen DEF b
  <1> QED BY <1>1, <1>5, <1>8, MoreIf DEF b, e

(* ... a response or a command, ...                                        *)
LEMMA AnswerMore ==
    ASSUME NEW l, NEW t, Open(l, t), NEW e \in Events, e.turn = t,
           e.cause \in 1 .. Len(l), l[e.cause].turn = t,
           \/ e.type = "completed" /\ l[e.cause].type = "request"
           \/ e.type = "command" /\ l[e.cause].type = "completed" /\ l[e.cause].data = e.data
    PROVE  /\ More(l, e, t)
           /\ e.type = "command" => LatestCommand(l \o <<e>>, t, Len(l) + 1)
  <1> DEFINE b == l \o <<e>>
             n == Len(l) + 1
  <1>0. l \in Seq(Events) /\ t \in Nat /\ Len(l) \in Nat /\ Len(l) > 0
    BY DEF Open
  <1>1. e.type \notin ZeroTypes /\ e.type \notin Endings \cup {"tool.completed"} /\ e.type # "phase"
    BY DEF ZeroTypes, Endings
  <1>2. /\ b \in Seq(Events) /\ Len(b) = n /\ b[n] = e
        /\ \A i \in 1 .. Len(l) : b[i] = l[i]
    BY <1>0, OneMore
  <1>3. Caused(b, n)
    BY <1>0, CausedMore DEF CauseOK
  <1> HIDE DEF b
  <1>4. Chained(b, n)
    BY <1>2 DEF Chained, From
  <1>5. Operated(b, n)
    BY <1>1, <1>2 DEF Operated, PhaseAt, OpEnds
  <1>6. Open(b, t)
    BY <1>1, <1>3, <1>4, <1>5, MoreOpen DEF b
  <1>7. e.type = "command" => LatestCommand(b, t, n)
    BY <1>0, <1>2 DEF LatestCommand
  <1> QED BY <1>6, <1>7, MoreIf DEF b

(* ... the start of an operation, which is the only one of its turn, ...   *)
LEMMA StartMore ==
    ASSUME NEW l, NEW t, Open(l, t), Forward(l), NEW e \in Events, e.turn = t, e.type = "op.started",
           e.cause \in 1 .. Len(l), l[e.cause].turn = t, l[e.cause].type = "command",
           l[e.cause].data = "tool", PhaseAt(l, Len(l), t, "executing")
    PROVE  More(l, e, t)
  <1> DEFINE b == l \o <<e>>
             n == Len(l) + 1
  <1>0. l \in Seq(Events) /\ t \in Nat /\ Len(l) \in Nat /\ Len(l) > 0 /\ Honest(l)
    BY DEF Open
  <1>1. e.type \notin ZeroTypes /\ e.type \notin Endings \cup {"tool.completed"} /\ e.type # "phase"
    BY DEF ZeroTypes, Endings
  <1>2. /\ b \in Seq(Events) /\ Len(b) = n /\ b[n] = e
        /\ \A i \in 1 .. Len(l) : b[i] = l[i]
    BY <1>0, OneMore
  <1>3. Caused(b, n)
    BY <1>0, CausedMore DEF CauseOK
  <1> HIDE DEF b
  <1>4. Chained(b, n)
    BY <1>2 DEF Chained, From
  <1>5. ASSUME NEW i \in 1 .. Len(l), l[i].type = "op.started", l[i].turn = t PROVE FALSE
    <2>1. Sound(l, i) /\ Sound(l, Len(l))
      BY <1>0 DEF Honest
    <2>2. PhaseAt(l, i - 1, t, "executing")
      BY <1>5, <2>1 DEF Sound, Operated
    <2>3. PhaseAt(l, Len(l) - 1, t, "authorizing")
      BY <2>1 DEF Sound, Operated, PhaseAt
    <2>4. i - 1 \in 1 .. Len(l) /\ Len(l) - 1 \in 1 .. Len(l) /\ i # Len(l)
      BY <1>0, <1>5, <2>2, <2>3 DEF PhaseAt
    <2>5. i - 1 < Len(l) - 1
      BY <1>0, <2>4
    <2> QED BY <2>2, <2>3, <2>4, <2>5 DEF Forward, PhaseAt, IsExec, Early
  <1>6. Operated(b, n)
    <2>1. n - 1 = Len(l) /\ PhaseAt(b, Len(l), t, "executing")
      BY <1>0, <1>2 DEF PhaseAt
    <2> QED BY <1>1, <1>2, <1>5, <2>1 DEF Operated, PhaseAt, OpEnds
  <1>7. Open(b, t)
    BY <1>1, <1>3, <1>4, <1>6, MoreOpen DEF b
  <1> QED BY <1>7, MoreIf DEF b

(* ... its end, ...                                                        *)
LEMMA EndMore ==
    ASSUME NEW l, NEW t, Open(l, t), NEW e \in Events, e.turn = t, e.type \in OpEnds,
           e.cause \in 1 .. Len(l), l[e.cause].type # "phase",
           \E i \in 1 .. Len(l) : l[i].type = "op.started" /\ l[i].turn = t
    PROVE  More(l, e, t)
  <1> DEFINE b == l \o <<e>>
             n == Len(l) + 1
  <1>0. l \in Seq(Events) /\ t \in Nat /\ Len(l) \in Nat /\ Len(l) > 0
    BY DEF Open
  <1>1. e.type \notin ZeroTypes /\ e.type \notin Endings \cup {"tool.completed"} /\ e.type # "phase"
    BY DEF ZeroTypes, Endings, OpEnds
  <1>2. /\ b \in Seq(Events) /\ Len(b) = n /\ b[n] = e
        /\ \A i \in 1 .. Len(l) : b[i] = l[i]
    BY <1>0, OneMore
  <1>3. Caused(b, n)
    BY <1>0, CausedMore DEF CauseOK
  <1> HIDE DEF b
  <1>4. Chained(b, n)
    BY <1>2 DEF Chained, OpEnds
  <1>5. Operated(b, n)
    BY <1>0, <1>1, <1>2 DEF Operated, PhaseAt, OpEnds
  <1>6. Open(b, t)
    BY <1>1, <1>3, <1>4, <1>5, MoreOpen DEF b
  <1> QED BY <1>6, MoreIf DEF b

(* ... a result that is recorded with it, ...                              *)
LEMMA ResultMore ==
    ASSUME NEW l, NEW t, Open(l, t), PhaseAt(l, Len(l), t, "recording"),
           ~Ended(l, Len(l), t), Announced(l, Len(l), t),
           NEW e \in Events, e.type = "tool.completed", e.turn = t,
           e.cause \in 1 .. Len(l), l[e.cause].type # "phase",
           NEW f \in Events, f.type = "op.completed", f.turn = t,
           f.cause = Len(l) + 1, f.data = Len(l) + 1
    PROVE  LET b == (l \o <<e>>) \o <<f>>
           IN Honest(b) /\ Len(b) = Len(l) + 2 /\ b[Len(l) + 2] = f /\ b \in Seq(Events)
  <1> DEFINE a == l \o <<e>>
             b == a \o <<f>>
             n == Len(l) + 1
  <1>0. l \in Seq(Events) /\ t \in Nat \ {0} /\ Len(l) \in Nat /\ Len(l) > 0
    BY DEF Open
  <1>1. e.type \notin ZeroTypes /\ f.type \notin ZeroTypes
    BY DEF ZeroTypes
  <1>2. /\ a \in Seq(Events) /\ Len(a) = n /\ a[n] = e
        /\ \A i \in 1 .. Len(l) : a[i] = l[i]
    BY <1>0, OneMore
  <1>3. Caused(a, n)
    BY <1>0, CausedMore DEF CauseOK
  <1>4. /\ b \in Seq(Events) /\ Len(b) = n + 1 /\ b[n + 1] = f
        /\ \A i \in 1 .. n : b[i] = a[i]
    <2> HIDE DEF a
    <2> QED BY <1>2, OneMore
  <1>5. Caused(b, n + 1)
    <2>1. CauseOK(a, f)
      <3> HIDE DEF a
      <3> QED BY <1>0, <1>2 DEF CauseOK
    <2> HIDE DEF a
    <2> QED BY <1>2, <2>1, CausedMore
  <1>6. Honest(a)
    <2>1. Chained(a, n)
      <3> HIDE DEF a
      <3> QED BY <1>2 DEF Chained
    <2>2. n - 1 = Len(l) /\ \A i \in 1 .. Len(l) : a[i] = l[i]
      BY <1>0, <1>2
    <2> HIDE DEF a
    <2>3. PhaseAt(a, n - 1, t, "recording")
      BY <1>0, <2>2 DEF PhaseAt
    <2>4. ~Ended(a, n - 1, t) /\ Announced(a, n - 1, t)
      BY <1>0, <2>2 DEF Ended, Announced
    <2>5. Operated(a, n)
      BY <1>2, <2>3, <2>4 DEF Operated, PhaseAt, OpEnds
    <2> QED BY <1>1, <1>3, <2>1, <2>5, MoreOpen DEF a
  <1>7. ASSUME NEW i \in 1 .. n
        PROVE  /\ b[i].turn <= t /\ b[i].type \notin Endings
               /\ b[i].type = "tool.completed" => Recorded(b, i)
               /\ b[i].type = "op.started" /\ b[i].turn < t => Ended(b, n, b[i].turn)
    <2> HIDE DEF a, b
    <2>1. CASE i \in 1 .. Len(l)
      <3>1. /\ l[i].turn <= t /\ l[i].type \notin Endings
            /\ l[i].type = "tool.completed" => i < Len(l) /\ Recorded(l, i)
            /\ l[i].type = "op.started" /\ l[i].turn < t => Ended(l, Len(l), l[i].turn)
        BY <2>1 DEF Open
      <3>2. \A k \in 1 .. Len(l) : b[k] = l[k] /\ k \in 1 .. n
        BY <1>0, <1>2, <1>4
      <3>3. i < Len(l) /\ Recorded(l, i) => Recorded(b, i)
        BY <1>0, <3>2, <2>1 DEF Recorded
      <3>4. \A u : Ended(l, Len(l), u) => Ended(b, n, u)
        BY <3>2 DEF Ended
      <3> QED BY <2>1, <3>1, <3>2, <3>3, <3>4
    <2>2. CASE i = n
      <3>1. b[i] = e /\ b[i + 1] = f
        BY <1>0, <1>2, <1>4, <2>2
      <3> QED BY <1>0, <2>2, <3>1 DEF Recorded, Endings
    <2> QED BY <1>0, <2>1, <2>2
  <1>8. Honest(b)
    <2> HIDE DEF b
    <2>1. Chained(b, n + 1)
      BY <1>4 DEF Chained
    <2>2. Ordered(b, n + 1)
      <3>1. (n + 1) - 1 = n /\ t # 0
        BY <1>0
      <3> QED BY <1>1, <1>4, <1>7, <3>1 DEF Ordered
    <2>3. \E i \in 1 .. n : b[i].type = "op.started" /\ b[i].turn = t
      <3>1. PICK o \in 1 .. Len(l) : l[o].type = "op.started" /\ l[o].turn = t
        BY DEF Announced
      <3>2. o \in 1 .. n /\ b[o] = l[o]
        BY <1>0, <1>2, <1>4, <3>1
      <3> QED BY <3>1, <3>2
    <2>4. Operated(b, n + 1)
      <3>1. (n + 1) - 1 = n
        BY <1>0
      <3> QED BY <1>4, <2>3, <3>1 DEF Operated, PhaseAt, OpEnds
    <2>5. Sound(b, n + 1)
      BY <1>5, <2>1, <2>2, <2>4 DEF Sound
    <2> HIDE DEF a
    <2> QED BY <1>0, <1>2, <1>6, <2>5, HonestMore DEF b
  <1> HIDE DEF a, b
  <1>9. n + 1 = Len(l) + 2
    BY <1>0
  <1> QED BY <1>4, <1>8, <1>9 DEF a, b

(* ... and a submission.                                                   *)
LEMMA SubmittedMore ==
    ASSUME NEW l, NEW t, Open(l, t), NEW e \in Events, e.type = "submitted", e.turn = t,
           e.cause \in 1 .. Len(l), l[e.cause].type = "command", l[e.cause].turn = t,
           l[e.cause].data = "submit", HasType(l, "tool.completed"),
           \E g \in 1 .. Len(l) : l[g].type = "gate.passed" /\ l[g].cause = e.cause /\ l[g].turn = t
    PROVE  Honest(l \o <<e>>)
  <1> DEFINE b == l \o <<e>>
             n == Len(l) + 1
  <1>0. l \in Seq(Events) /\ t \in Nat /\ Len(l) \in Nat /\ Len(l) > 0
    BY DEF Open
  <1>1. e.type \notin ZeroTypes /\ e.type # "phase"
    BY DEF ZeroTypes
  <1>2. /\ b \in Seq(Events) /\ Len(b) = n /\ b[n] = e
        /\ \A i \in 1 .. Len(l) : b[i] = l[i]
    BY <1>0, OneMore
  <1>3. Caused(b, n)
    BY <1>0, CausedMore DEF CauseOK
  <1> HIDE DEF b
  <1>4. Chained(b, n)
    <2>1. n - 1 = Len(l)
      BY <1>0
    <2>2. \E i \in 1 .. n - 1 : b[i].type = "tool.completed"
      BY <1>2, <2>1 DEF HasType
    <2>3. \E g \in 1 .. n - 1 : b[g].type = "gate.passed" /\ b[g].cause = e.cause /\ b[g].turn = t
      BY <1>2, <2>1
    <2>4. From(b, n, "command") /\ b[e.cause].data = "submit"
      BY <1>2 DEF From
    <2> QED BY <1>2, <2>2, <2>3, <2>4 DEF Chained
  <1>5. Operated(b, n)
    BY <1>1, <1>2 DEF Operated, PhaseAt, OpEnds
  <1> QED BY <1>1, <1>3, <1>4, <1>5, MoreOpen DEF b

(* Two logs with the same events.                                          *)
LEMMA SameLog ==
    ASSUME NEW x \in Seq(Events), NEW y \in Seq(Events), Len(x) = Len(y),
           \A k \in 1 .. Len(x) : x[k] = y[k]
    PROVE  x = y
  OBVIOUS

(* Two and three events in a row.                                          *)
LEMMA InRow ==
    ASSUME NEW l \in Seq(Events), NEW e \in Events, NEW f \in Events
    PROVE  /\ l \o <<e, f>> = (l \o <<e>>) \o <<f>> /\ <<e>> \in Seq(Events) /\ <<e, f>> \in Seq(Events)
           /\ \A g \in Events : /\ l \o <<e, f, g>> = ((l \o <<e>>) \o <<f>>) \o <<g>>
                               /\ <<e, f, g>> \in Seq(Events)
  <1>1. /\ <<e>> \in Seq(Events) /\ Len(<<e>>) = 1 /\ <<e>>[1] = e
        /\ <<f>> \in Seq(Events) /\ Len(<<f>>) = 1 /\ <<f>>[1] = f
        /\ <<e, f>> \in Seq(Events) /\ Len(<<e, f>>) = 2 /\ <<e, f>>[1] = e /\ <<e, f>>[2] = f
    OBVIOUS
  <1>2. <<e, f>> = <<e>> \o <<f>>
    <2> DEFINE x == <<e, f>>
               y == <<e>> \o <<f>>
    <2>1. y \in Seq(Events) /\ Len(y) = 2 /\ y[1] = e /\ y[2] = f
      BY <1>1
    <2>2. x \in Seq(Events) /\ Len(x) = 2 /\ x[1] = e /\ x[2] = f
      BY <1>1
    <2>3. x = y
      <3> HIDE DEF x, y
      <3> QED BY <2>1, <2>2, SameLog
    <2> QED BY <2>3
  <1>3. l \o <<e, f>> = (l \o <<e>>) \o <<f>>
    BY <1>1, <1>2, Appends
  <1>4. ASSUME NEW g \in Events
        PROVE  /\ l \o <<e, f, g>> = ((l \o <<e>>) \o <<f>>) \o <<g>>
               /\ <<e, f, g>> \in Seq(Events)
    <2> DEFINE x == <<e, f, g>>
               y == <<e, f>> \o <<g>>
    <2>1. /\ x \in Seq(Events) /\ Len(x) = 3 /\ x[1] = e /\ x[2] = f /\ x[3] = g
          /\ <<g>> \in Seq(Events) /\ Len(<<g>>) = 1 /\ <<g>>[1] = g
      OBVIOUS
    <2>2. y \in Seq(Events) /\ Len(y) = 3 /\ y[1] = e /\ y[2] = f /\ y[3] = g
      BY <1>1, <2>1
    <2>3. x = y
      <3> HIDE DEF x, y
      <3> QED BY <2>1, <2>2, SameLog
    <2>4. l \o y = (l \o <<e, f>>) \o <<g>>
      BY <1>1, <2>1, Appends
    <2> QED BY <1>3, <2>1, <2>3, <2>4
  <1> QED BY <1>1, <1>3, <1>4

-----------------------------------------------------------------------------
(* What the loop appends is honest.                                        *)

(* The appends of a step, and where the handler then stands.               *)
Fine(w, l, x) ==
    x.todo \in Seq(Events) /\ Honest(l \o x.todo) /\ Standing(w, l \o x.todo, x.pc)

(* The fields of an event.                                                 *)
LEMMA EvFields ==
    /\ \A y, c, t, d : /\ Ev(y, c, t, d).type = y /\ Ev(y, c, t, d).cause = c
                       /\ Ev(y, c, t, d).turn = t /\ Ev(y, c, t, d).data = d
    /\ \A t, p : Phase(t, p).type = "phase" /\ Phase(t, p).turn = t /\ Phase(t, p).data = p
    /\ \A p, s : Then(p, s).pc = p /\ Then(p, s).todo = s
  BY DEF Ev, Phase, Then

(* Events of a turn that only need a cause.                                *)
PlainTypes ==
    {"capability", "context", "request", "reused", "command.reused", "invalid",
     "tool.requested", "tool.failed", "gate.passed", "gate.failed", "nudged", "stopped",
     "message.sent", "message.denied", "waiting"}

(* Such an event, as the handlers write it.                                *)
LEMMA Adds ==
    ASSUME NEW l, NEW t, Open(l, t), NEW y \in PlainTypes, NEW c \in 1 .. Len(l),
           y = "capability" \/ l[c].type # "phase"
    PROVE  /\ Honest(l \o <<Ev(y, c, t, None)>>) /\ Ev(y, c, t, None) \in Events
           /\ y \notin Endings => More(l, Ev(y, c, t, None), t)
  <1> DEFINE e == Ev(y, c, t, None)
  <1>0. l \in Seq(Events) /\ t \in Nat /\ Len(l) \in Nat
    BY DEF Open
  <1>1. /\ y \in EventTypes \ {"phase", "completed", "command", "responded"}
        /\ y \notin ZeroTypes \cup OpEnds
        /\ y \notin {"completed", "command", "op.started", "submitted", "tool.completed", "phase"}
    BY DEF PlainTypes, EventTypes, ZeroTypes, OpEnds
  <1>2. None \in Datas /\ c \in Int
    BY <1>0 DEF Datas
  <1>3. e \in Events
    BY <1>0, <1>1, <1>2, PlainEvent DEF Of
  <1>4. e.type = y /\ e.cause = c /\ e.turn = t
    BY EvFields
  <1> HIDE DEF e
  <1>5. Plain(e) /\ CauseOK(l, e)
    BY <1>1, <1>4 DEF Plain, CauseOK
  <1>6. Honest(l \o <<e>>) /\ (e.type \notin Endings => More(l, e, t))
    BY <1>3, <1>4, <1>5, PlainMore
  <1> QED BY <1>3, <1>4, <1>6 DEF e

(* A handler that advances from a log whose last event is not a phase.     *)
LEMMA Advances ==
    ASSUME NEW w, NEW a, Len(a) > 0, a[Len(a)].type # "phase"
    PROVE  Standing(w, a, "advance")
  BY DEF Standing, LastIs

(* Appends in two parts.                                                   *)
LEMMA TwoParts ==
    ASSUME NEW f \in Seq(Events), NEW g \in Seq(Events), NEW h \in Seq(Events)
    PROVE  f \o (g \o h) = (f \o g) \o h /\ g \o h \in Seq(Events)
  BY Appends

(* A submission, or the nudge or stop of one without evidence.  The loop   *)
(* looks for evidence in the log m it has read.                            *)
LEMMA SubmitFine ==
    ASSUME NEW w, NEW l, NEW t, Open(l, t), NEW m,
           OfType(m, {"tool.completed"}) # {} => HasType(l, "tool.completed"),
           NEW c \in 1 .. Len(l), l[c].type = "command", l[c].turn = t, l[c].data = "submit"
    PROVE  Fine(w, l, Submit(m, t, c))
  <1> DEFINE rec == Phase(t, "recording")
             pas == Ev("gate.passed", c, t, None)
             bad == Ev("gate.failed", c, t, None)
             sph == Phase(t, "submitted")
             sub == Ev("submitted", c, t, None)
             nud == Ev("nudged", c, t, None)
             sto == Ev("stopped", c, t, None)
             a == l \o <<rec>>
             x == Submit(m, t, c)
  <1>1. \/ /\ x = Then("advance", <<rec>> \o <<pas, sph, sub>>)
           /\ HasType(l, "tool.completed")
        \/ x = Then("advance", <<rec>> \o <<bad, nud>>)
        \/ x = Then("advance", <<rec>> \o <<bad, sto>>)
    BY DEF Submit
  <1>2. l \in Seq(Events) /\ t \in Nat /\ Len(l) \in Nat
    BY DEF Open
  <1>3. More(l, rec, t) /\ rec \in Events
    BY PhaseMore DEF Phases
  <1>4. /\ Open(a, t) /\ Len(a) = Len(l) + 1 /\ a \in Seq(Events)
        /\ \A i \in 1 .. Len(l) : a[i] = l[i] /\ i \in 1 .. Len(a)
    BY <1>2, <1>3 DEF More, Open
  <1>5. c \in 1 .. Len(a) /\ a[c].type = "command" /\ a[c].turn = t /\ a[c].data = "submit"
    BY <1>4
  <1> HIDE DEF a, rec
  <1>6. CASE x = Then("advance", <<rec>> \o <<pas, sph, sub>>) /\ HasType(l, "tool.completed")
    <2> DEFINE a2 == a \o <<pas>>
               a3 == a2 \o <<sph>>
               a4 == a3 \o <<sub>>
    <2>1. More(a, pas, t) /\ pas \in Events
      BY <1>4, <1>5, Adds DEF PlainTypes, Endings
    <2>2. Open(a2, t) /\ Len(a2) = Len(a) + 1 /\ a2[Len(a) + 1] = pas
          /\ \A i \in 1 .. Len(a) : a2[i] = a[i]
      BY <2>1 DEF More
    <2> HIDE DEF a2
    <2>3. More(a2, sph, t) /\ sph \in Events
      BY <2>2, PhaseMore DEF Phases
    <2>4. Open(a3, t) /\ Len(a3) = Len(a2) + 1 /\ \A i \in 1 .. Len(a2) : a3[i] = a2[i]
      BY <2>3 DEF More
    <2> HIDE DEF a3
    <2>5. sub \in Events
      BY <1>2, PlainEvent DEF EventTypes, Datas, Of
    <2>6. sub.type = "submitted" /\ sub.turn = t /\ sub.cause = c /\ pas.type = "gate.passed"
          /\ pas.cause = c /\ pas.turn = t
      BY EvFields
    <2>7. \A i \in 1 .. Len(a) : a3[i] = a[i] /\ i \in 1 .. Len(a3)
      BY <1>2, <1>4, <2>2, <2>4
    <2>8. HasType(a3, "tool.completed")
      BY <1>4, <1>6, <2>7 DEF HasType
    <2>9. Len(a) + 1 \in 1 .. Len(a3) /\ a3[Len(a) + 1] = pas
      BY <1>2, <1>4, <2>2, <2>4
    <2>10. Honest(a4)
      <3> HIDE DEF sub, pas
      <3> QED BY <1>5, <2>4, <2>5, <2>6, <2>7, <2>8, <2>9, SubmittedMore
    <2>11. a \o <<pas, sph, sub>> = a4 /\ <<pas, sph, sub>> \in Seq(Events)
      BY <1>4, <2>1, <2>3, <2>5, InRow DEF a2, a3
    <2>12. Len(a4) = Len(a3) + 1 /\ a4[Len(a3) + 1] = sub /\ Len(a3) \in Nat
      BY <2>4, <2>5, OneMore DEF Open
    <2>13. Standing(w, a4, "advance")
      <3> HIDE DEF a4, sub
      <3> QED BY <2>6, <2>12, Advances
    <2> DEFINE q == <<pas, sph, sub>>
               p == <<rec>>
    <2>14. /\ l \o p = a /\ a \o q = a4 /\ p \in Seq(Events) /\ q \in Seq(Events)
          /\ x = Then("advance", p \o q)
      BY <1>3, <1>6, <2>11 DEF a
    <2> HIDE DEF x, a4, p, q
    <2>15. l \o (p \o q) = a4 /\ p \o q \in Seq(Events)
      <3>1. p \in Seq(Events) /\ q \in Seq(Events) /\ l \o p = a /\ a \o q = a4
        BY <2>14
      <3> QED BY <1>2, <3>1, TwoParts
    <2>16. x.pc = "advance" /\ x.todo = p \o q
      BY <2>14 DEF Then
    <2> QED BY <2>10, <2>13, <2>15, <2>16 DEF Fine, x
  <1>7. ASSUME NEW y \in {"nudged", "stopped"},
               x = Then("advance", <<rec>> \o <<bad, Ev(y, c, t, None)>>)
        PROVE  Fine(w, l, x)
    <2> DEFINE e == Ev(y, c, t, None)
               a2 == a \o <<bad>>
               a3 == a2 \o <<e>>
    <2>1. More(a, bad, t) /\ bad \in Events
      BY <1>4, <1>5, Adds DEF PlainTypes, Endings
    <2>2. Open(a2, t) /\ Len(a2) = Len(a) + 1 /\ \A i \in 1 .. Len(a) : a2[i] = a[i]
      BY <2>1 DEF More
    <2>3. c \in 1 .. Len(a2) /\ a2[c].type = "command"
      BY <1>2, <1>4, <1>5, <2>2
    <2> HIDE DEF a2
    <2>4. Honest(a3) /\ e \in Events
      BY <2>2, <2>3, Adds DEF PlainTypes
    <2>5. a \o <<bad, e>> = a3 /\ <<bad, e>> \in Seq(Events)
      BY <1>4, <2>1, <2>4, InRow DEF a2
    <2>6. Len(a3) = Len(a2) + 1 /\ a3[Len(a2) + 1] = e /\ Len(a2) \in Nat
      BY <2>2, <2>4, OneMore DEF Open
    <2>7. e.type # "phase"
      BY EvFields
    <2>8. Standing(w, a3, "advance")
      <3> HIDE DEF a3, e
      <3> QED BY <2>6, <2>7, Advances
    <2> DEFINE q == <<bad, e>>
               p == <<rec>>
    <2>9. /\ l \o p = a /\ a \o q = a3 /\ p \in Seq(Events) /\ q \in Seq(Events)
          /\ x = Then("advance", p \o q)
      BY <1>3, <1>7, <2>5 DEF a
    <2> HIDE DEF x, a3, p, q
    <2>10. l \o (p \o q) = a3 /\ p \o q \in Seq(Events)
      <3>1. p \in Seq(Events) /\ q \in Seq(Events) /\ l \o p = a /\ a \o q = a3
        BY <2>9
      <3> QED BY <1>2, <3>1, TwoParts
    <2>11. x.pc = "advance" /\ x.todo = p \o q
      BY <2>9 DEF Then
    <2> QED BY <2>4, <2>8, <2>10, <2>11 DEF Fine, x
  <1> QED BY <1>1, <1>6, <1>7

(* Appends p before the rest.                                              *)
LEMMA FineAfter ==
    ASSUME NEW w, NEW l \in Seq(Events), NEW s \in Seq(Events), NEW x, Fine(w, l \o s, x),
           NEW y, y.pc = x.pc, y.todo = s \o x.todo
    PROVE  Fine(w, l, y)
  <1>1. x.todo \in Seq(Events)
    BY DEF Fine
  <1>2. l \o (s \o x.todo) = (l \o s) \o x.todo /\ s \o x.todo \in Seq(Events)
    BY <1>1, TwoParts
  <1> QED BY <1>2 DEF Fine

(* The authorisation of a command.                                         *)
LEMMA AuthorizeFine ==
    ASSUME NEW w, NEW l, NEW t, Open(l, t), NEW m,
           OfType(m, {"tool.completed"}) # {} => HasType(l, "tool.completed"),
           NEW c, LatestCommand(l, t, c), NEW d \in Answers \ {"invalid"}, l[c].data = d
    PROVE  Fine(w, l, Authorize(m, t, c, d))
  <1> DEFINE aut == Phase(t, "authorizing")
             a == l \o <<aut>>
             rest == CASE d = "tool" -> Then("tool", << Phase(t, "executing") >>)
                       [] d = "send" -> Then("ask", << Phase(t, "recording") >>)
                       [] d = "submit" -> Submit(m, t, c)
                       [] d = "blocked" -> Then("advance",
                             << Phase(t, "recording"), Ev("stopped", c, t, None) >>)
  <1>0. l \in Seq(Events) /\ t \in Nat /\ Len(l) \in Nat
    BY DEF Open
  <1>1. More(l, aut, t) /\ aut \in Events /\ PhaseAt(a, Len(l) + 1, t, "authorizing")
    BY PhaseMore DEF Phases
  <1>2. /\ Open(a, t) /\ Len(a) = Len(l) + 1 /\ a \in Seq(Events) /\ <<aut>> \in Seq(Events)
        /\ \A i \in 1 .. Len(l) : a[i] = l[i] /\ i \in 1 .. Len(a)
    BY <1>0, <1>1 DEF More, Open
  <1>3. LatestCommand(a, t, c)
    <2>1. aut.type # "command"
      BY EvFields
    <2> QED BY <1>1, <2>1 DEF More
  <1>4. /\ c \in 1 .. Len(a) /\ a[c].type = "command" /\ a[c].turn = t /\ a[c].data = d
    BY <1>2 DEF LatestCommand
  <1>5. HasType(l, "tool.completed") => HasType(a, "tool.completed")
    BY <1>2 DEF HasType
  <1>6. PhaseAt(a, Len(a), t, "authorizing")
    BY <1>1, <1>2
  <1>7. Authorize(m, t, c, d) = Then(rest.pc, <<aut>> \o rest.todo)
    BY DEF Authorize
  <1> HIDE DEF a, aut
  <1>8. SUFFICES Fine(w, a, rest)
    <2> HIDE DEF rest
    <2>1. ASSUME NEW y, y = Then(rest.pc, <<aut>> \o rest.todo) PROVE Fine(w, l, y)
      <3>1. y.pc = rest.pc /\ y.todo = <<aut>> \o rest.todo
        BY <2>1 DEF Then
      <3>2. Fine(w, l \o <<aut>>, rest)
        BY <1>8 DEF a
      <3> QED BY <1>0, <1>2, <3>1, <3>2, FineAfter
    <2> QED BY <1>7, <2>1
  <1>9. CASE d = "tool"
    <2> DEFINE e == Phase(t, "executing")
               b == a \o <<e>>
    <2>1. rest = Then("tool", <<e>>)
      BY <1>9, Zenon
    <2>2. rest.pc = "tool" /\ rest.todo = <<e>>
      <3> HIDE DEF rest
      <3> QED BY <2>1 DEF Then
    <2>3. More(a, e, t) /\ e \in Events /\ PhaseAt(b, Len(a) + 1, t, "executing")
      BY <1>2, <1>6, PhaseMore DEF Phases
    <2>4. e.type # "command" /\ e.turn = t
      BY EvFields
    <2>5. /\ Honest(b) /\ Len(b) = Len(a) + 1 /\ b[Len(a) + 1] = e /\ b[c] = a[c]
          /\ LatestCommand(b, t, c) /\ <<e>> \in Seq(Events) /\ Len(b) > 0
      BY <1>3, <1>4, <2>3, <2>4 DEF More, Open
    <2> HIDE DEF b, rest, e
    <2>6. Standing(w, b, "tool")
      BY <1>4, <1>9, <2>3, <2>4, <2>5 DEF Standing
    <2> QED BY <2>2, <2>5, <2>6 DEF Fine, b
  <1>10. CASE d = "send"
    <2> DEFINE e == Phase(t, "recording")
               b == a \o <<e>>
    <2>1. rest = Then("ask", <<e>>)
      BY <1>10, Zenon
    <2>2. rest.pc = "ask" /\ rest.todo = <<e>>
      <3> HIDE DEF rest
      <3> QED BY <2>1 DEF Then
    <2>3. More(a, e, t) /\ e \in Events /\ PhaseAt(b, Len(a) + 1, t, "recording")
      BY <1>2, PhaseMore DEF Phases
    <2>4. e.type # "command" /\ e.turn = t
      BY EvFields
    <2>5. /\ Honest(b) /\ Len(b) = Len(a) + 1 /\ b[Len(a) + 1] = e
          /\ LatestCommand(b, t, c) /\ <<e>> \in Seq(Events) /\ Len(b) > 0 /\ b[c] = a[c]
      BY <1>3, <1>4, <2>3, <2>4 DEF More, Open
    <2> HIDE DEF b, rest, e
    <2>6. Standing(w, b, "ask")
      BY <1>4, <1>10, <2>3, <2>4, <2>5 DEF Standing
    <2> QED BY <2>2, <2>5, <2>6 DEF Fine, b
  <1>11. CASE d = "submit"
    <2>1. rest = Submit(m, t, c)
      BY <1>11
    <2> HIDE DEF rest
    <2> QED BY <1>2, <1>4, <1>5, <1>11, <2>1, SubmitFine
  <1>12. CASE d = "blocked"
    <2> DEFINE e == Phase(t, "recording")
               f == Ev("stopped", c, t, None)
               b == a \o <<e>>
               z == b \o <<f>>
    <2>1. rest = Then("advance", <<e, f>>)
      BY <1>12, Zenon
    <2>2. rest.pc = "advance" /\ rest.todo = <<e, f>>
      <3> HIDE DEF rest
      <3> QED BY <2>1 DEF Then
    <2>3. More(a, e, t) /\ e \in Events
      BY <1>2, PhaseMore DEF Phases
    <2>4. Open(b, t) /\ Len(b) = Len(a) + 1 /\ b[c] = a[c] /\ c \in 1 .. Len(b)
      BY <1>0, <1>2, <1>4, <2>3 DEF More
    <2> HIDE DEF b
    <2>5. Honest(z) /\ f \in Events
      BY <1>4, <2>4, Adds DEF PlainTypes
    <2>6. Len(z) = Len(b) + 1 /\ z[Len(b) + 1] = f /\ Len(b) \in Nat
      BY <2>4, <2>5, OneMore DEF Open
    <2>7. f.type # "phase"
      BY EvFields
    <2>8. Standing(w, z, "advance")
      <3> HIDE DEF z, f
      <3> QED BY <2>6, <2>7, Advances
    <2>9. a \o <<e, f>> = z /\ <<e, f>> \in Seq(Events)
      BY <1>2, <2>3, <2>5, InRow DEF b
    <2> HIDE DEF z, e, f, rest
    <2> QED BY <2>2, <2>5, <2>8, <2>9 DEF Fine
  <1>13. d \in {"tool", "send", "submit", "blocked"}
    BY DEF Answers
  <1> QED BY <1>9, <1>10, <1>11, <1>12, <1>13

(* What a response comes to.                                               *)
LEMMA DecideFine ==
    ASSUME NEW w, NEW l, NEW t, Open(l, t), NEW r \in 1 .. Len(l),
           l[r].type = "completed", l[r].turn = t, NEW d \in Answers, l[r].data = d
    PROVE  Fine(w, l, Decide(l, t, r, d))
  <1> DEFINE val == Phase(t, "validating")
             a == l \o <<val>>
             x == Decide(l, t, r, d)
             rest == Authorize(l, t, Len(l) + 2, d)
  <1>0. l \in Seq(Events) /\ t \in Nat /\ Len(l) \in Nat
    BY DEF Open
  <1>1. More(l, val, t) /\ val \in Events
    BY PhaseMore DEF Phases
  <1>2. /\ Open(a, t) /\ Len(a) = Len(l) + 1 /\ a \in Seq(Events)
        /\ \A i \in 1 .. Len(l) : a[i] = l[i] /\ i \in 1 .. Len(a)
    BY <1>0, <1>1 DEF More, Open
  <1>3. CASE d = "invalid"
    <2> DEFINE bad == Phase(t, "failed")
               inv == Ev("invalid", r, t, None)
               b == a \o <<bad>>
               z == b \o <<inv>>
    <2>1. x = Then("advance", <<val, bad, inv>>)
      BY <1>3, Zenon DEF Decide
    <2>2. x.pc = "advance" /\ x.todo = <<val, bad, inv>>
      <3> HIDE DEF x, val, bad, inv
      <3> QED BY <2>1 DEF Then
    <2> HIDE DEF a
    <2>3. More(a, bad, t) /\ bad \in Events
      BY <1>2, PhaseMore DEF Phases
    <2>4. Open(b, t) /\ Len(b) = Len(a) + 1 /\ \A i \in 1 .. Len(a) : b[i] = a[i]
      BY <2>3 DEF More
    <2>5. r \in 1 .. Len(b) /\ b[r].type = "completed"
      BY <1>0, <1>2, <2>4
    <2> HIDE DEF b
    <2>6. Honest(z) /\ inv \in Events
      BY <2>4, <2>5, Adds DEF PlainTypes
    <2>7. Len(z) = Len(b) + 1 /\ z[Len(b) + 1] = inv /\ Len(b) \in Nat
      BY <2>4, <2>6, OneMore DEF Open
    <2>8. inv.type # "phase"
      BY EvFields
    <2>9. Standing(w, z, "advance")
      <3> HIDE DEF z, inv
      <3> QED BY <2>7, <2>8, Advances
    <2>10. l \o <<val, bad, inv>> = z /\ <<val, bad, inv>> \in Seq(Events)
      BY <1>0, <1>1, <2>3, <2>6, InRow DEF b, a
    <2> HIDE DEF z, val, bad, inv, x
    <2>11. Fine(w, l, x)
      BY <2>2, <2>6, <2>9, <2>10 DEF Fine
    <2> QED BY <2>11 DEF x
  <1>4. CASE d # "invalid"
    <2> DEFINE com == Ev("command", r, t, d)
               b == a \o <<com>>
    <2>1. x = Then(rest.pc, <<val, com>> \o rest.todo)
      BY <1>4, Zenon DEF Decide
    <2> HIDE DEF a
    <2>2. com \in Events
      BY <1>0, <1>4, CommandEvent DEF Of
    <2>3. com.type = "command" /\ com.cause = r /\ com.turn = t /\ com.data = d
      BY EvFields
    <2>4. More(a, com, t) /\ LatestCommand(b, t, Len(a) + 1)
      <3>1. r \in 1 .. Len(a) /\ a[r].type = "completed" /\ a[r].turn = t /\ a[r].data = d
        BY <1>2
      <3> HIDE DEF com
      <3> QED BY <1>2, <2>2, <2>3, <3>1, AnswerMore
    <2>5. /\ Open(b, t) /\ Len(b) = Len(a) + 1 /\ b[Len(a) + 1] = com
          /\ \A i \in 1 .. Len(a) : b[i] = a[i] /\ i \in 1 .. Len(b)
      BY <1>0, <1>2, <2>4 DEF More
    <2> HIDE DEF b
    <2>6. Len(a) + 1 = Len(l) + 2 /\ b[Len(l) + 2].data = d
      BY <1>0, <1>2, <2>3, <2>5
    <2>7. OfType(l, {"tool.completed"}) # {} => HasType(b, "tool.completed")
      <3>1. OfType(l, {"tool.completed"}) = { k \in 1 .. Len(l) : l[k].type = "tool.completed" }
        BY DEF OfType, Where
      <3>2. \A i \in 1 .. Len(l) : b[i] = l[i] /\ i \in 1 .. Len(b)
        BY <1>2, <2>5
      <3> QED BY <3>1, <3>2 DEF HasType
    <2>8. Fine(w, b, rest)
      BY <1>4, <2>4, <2>5, <2>6, <2>7, AuthorizeFine
    <2>9. l \o <<val, com>> = b /\ <<val, com>> \in Seq(Events)
      BY <1>0, <1>1, <2>2, InRow DEF b, a
    <2> HIDE DEF x, rest
    <2> DEFINE s == <<val, com>>
    <2>10. l \o s = b /\ s \in Seq(Events) /\ x = Then(rest.pc, s \o rest.todo)
      BY <2>1, <2>9
    <2> HIDE DEF s
    <2>11. x.pc = rest.pc /\ x.todo = s \o rest.todo
      BY <2>10 DEF Then
    <2>12. Fine(w, l, x)
      BY <1>0, <2>8, <2>10, <2>11, FineAfter
    <2> QED BY <2>12 DEF x
  <1> QED BY <1>3, <1>4

(* Appends that keep a turn open.                                          *)
Keeps(l, s, t) ==
    /\ s \in Seq(Events) /\ Open(l \o s, t)
    /\ \A i \in 1 .. Len(l) : (l \o s)[i] = l[i] /\ i \in 1 .. Len(l \o s)
    /\ \A c : LatestCommand(l, t, c) => LatestCommand(l \o s, t, c)

(* One event, or none, that is not a command.                              *)
LEMMA KeepsOne ==
    ASSUME NEW l, NEW t, Open(l, t), NEW e \in Events, More(l, e, t), e.type # "command",
           NEW s \in {<<>>, <<e>>}
    PROVE  Keeps(l, s, t)
  <1>0. l \in Seq(Events)
    BY DEF Open
  <1>1. CASE s = <<>>
    <2>1. l \o s = l /\ s \in Seq(Events)
      BY <1>0, <1>1, Appends
    <2> QED BY <2>1 DEF Keeps
  <1>2. CASE s = <<e>>
    BY <1>0, <1>2 DEF Keeps, More
  <1> QED BY <1>1, <1>2

(* One after the other.                                                    *)
LEMMA KeepsTwo ==
    ASSUME NEW l, NEW t, Open(l, t), NEW s, Keeps(l, s, t), NEW u, Keeps(l \o s, u, t)
    PROVE  Keeps(l, s \o u, t)
  <1>1. l \in Seq(Events) /\ s \in Seq(Events) /\ u \in Seq(Events)
    BY DEF Open, Keeps
  <1>2. l \o (s \o u) = (l \o s) \o u /\ s \o u \in Seq(Events)
    BY <1>1, TwoParts
  <1> DEFINE a == l \o s
             b == a \o u
  <1>3. /\ Open(b, t) /\ \A i \in 1 .. Len(l) : a[i] = l[i] /\ i \in 1 .. Len(a)
        /\ \A i \in 1 .. Len(a) : b[i] = a[i] /\ i \in 1 .. Len(b)
        /\ \A c : LatestCommand(l, t, c) => LatestCommand(a, t, c)
        /\ \A c : LatestCommand(a, t, c) => LatestCommand(b, t, c)
    BY DEF Keeps
  <1>4. l \o (s \o u) = b
    BY <1>2
  <1> HIDE DEF a, b
  <1> QED BY <1>2, <1>3, <1>4 DEF Keeps

(* A response, and perhaps a command, is used again.                       *)
LEMMA ResumeFine ==
    ASSUME NEW w, NEW l, NEW t, Open(l, t), OfTurn(l, t, {"completed"}) # {}
    PROVE  Fine(w, l, ResumeTurn(l, t))
  <1> DEFINE r == LastOf(OfTurn(l, t, {"completed"}))
             c == LastOf(OfTurn(l, t, {"command"}))
             e == Ev("reused", r, t, None)
             f == Ev("command.reused", c, t, None)
             s == IF OfTurn(l, t, {"reused"}) # {} THEN <<>> ELSE <<e>>
             u == IF c = 0 \/ OfTurn(l, t, {"command.reused"}) # {} THEN <<>> ELSE <<f>>
             kept == s \o u
             b == l \o kept
             dec == Decide(b, t, r, l[r].data)
             aut == Authorize(b, t, c, l[c].data)
             rest == IF c = 0
                     THEN IF PhaseAllowed(l, t, "validating") THEN dec ELSE Then("raise", <<>>)
                     ELSE IF PhaseAllowed(l, t, "authorizing") THEN aut ELSE Then("raise", <<>>)
             x == ResumeTurn(l, t)
  <1>0. l \in Seq(Events) /\ t \in Nat /\ Len(l) \in Nat
    BY DEF Open
  <1>1. x = Then(rest.pc, kept \o rest.todo)
    BY DEF ResumeTurn
  <1>2. r \in 1 .. Len(l) /\ l[r].type = "completed" /\ l[r].turn = t /\ l[r].data \in Answers
    <2>1. r \in OfTurn(l, t, {"completed"})
      BY <1>0, InTurn, LastPosition
    <2>2. r \in 1 .. Len(l) /\ l[r].type = "completed" /\ l[r].turn = t
      BY <2>1, InTurn
    <2> QED BY <1>0, <2>2 DEF Events
  <1>3. c = 0 \/ (LatestCommand(l, t, c) /\ l[c].data \in Answers \ {"invalid"})
    <2> DEFINE S == OfTurn(l, t, {"command"})
    <2>1. S = { k \in 1 .. Len(l) : l[k].type = "command" /\ l[k].turn = t }
      BY InTurn
    <2>2. c = LastOf(S)
      OBVIOUS
    <2> HIDE DEF S, c
    <2>3. CASE S = {}
      BY <2>2, <2>3 DEF LastOf
    <2>4. CASE S # {}
      <3>1. c \in S /\ \A j \in S : j <= c
        BY <1>0, <2>1, <2>2, <2>4, LastPosition
      <3>2. c \in 1 .. Len(l) /\ l[c].type = "command" /\ l[c].turn = t
        BY <2>1, <3>1
      <3>3. \A j \in 1 .. Len(l) : j > c => ~(l[j].type = "command" /\ l[j].turn = t)
        BY <2>1, <3>1, <3>2
      <3> QED BY <1>0, <3>2, <3>3 DEF Events, LatestCommand
    <2> QED BY <2>3, <2>4
  <1> HIDE DEF r, c
  <1>4. Keeps(l, s, t)
    <2>1. More(l, e, t) /\ e \in Events
      BY <1>2, Adds DEF PlainTypes, Endings
    <2>2. e.type # "command"
      BY EvFields
    <2>3. s \in {<<>>, <<e>>}
      OBVIOUS
    <2> HIDE DEF s, e
    <2> QED BY <2>1, <2>2, <2>3, KeepsOne
  <1> DEFINE a == l \o s
  <1>5. Open(a, t) /\ \A i \in 1 .. Len(l) : a[i] = l[i] /\ i \in 1 .. Len(a)
    BY <1>4 DEF Keeps
  <1> HIDE DEF s, a
  <1>6. Keeps(a, u, t)
    <2>1. CASE u = <<>>
      <3>1. More(a, e, t) /\ e \in Events
        BY <1>2, <1>5, Adds DEF PlainTypes, Endings
      <3>2. e.type # "command"
        BY EvFields
      <3> HIDE DEF u, e
      <3> QED BY <1>5, <2>1, <3>1, <3>2, KeepsOne
    <2>2. CASE u = <<f>> /\ c # 0
      <3>0. c \in 1 .. Len(a) /\ a[c].type = "command"
        BY <1>3, <1>5, <2>2 DEF LatestCommand
      <3>1. More(a, f, t) /\ f \in Events
        BY <1>5, <3>0, Adds DEF PlainTypes, Endings
      <3>2. f.type # "command"
        BY EvFields
      <3>3. u \in {<<>>, <<f>>}
        BY <2>2
      <3> HIDE DEF u, f
      <3> QED BY <1>5, <3>1, <3>2, <3>3, KeepsOne
    <2> QED BY <2>1, <2>2
  <1> HIDE DEF u
  <1>7. Keeps(l, kept, t)
    BY <1>4, <1>6, KeepsTwo DEF a
  <1> HIDE DEF kept
  <1>8. /\ kept \in Seq(Events) /\ Open(b, t)
        /\ \A i \in 1 .. Len(l) : b[i] = l[i] /\ i \in 1 .. Len(b)
        /\ \A d : LatestCommand(l, t, d) => LatestCommand(b, t, d)
    BY <1>7 DEF Keeps
  <1> HIDE DEF b
  <1>9. OfType(b, {"tool.completed"}) # {} => HasType(b, "tool.completed")
    BY DEF OfType, Where, HasType
  <1>10. Fine(w, b, dec)
    <2>1. r \in 1 .. Len(b) /\ b[r].type = "completed" /\ b[r].turn = t /\ b[r].data = l[r].data
      BY <1>2, <1>8
    <2> QED BY <1>2, <1>8, <2>1, DecideFine
  <1>11. c # 0 => Fine(w, b, aut)
    <2> SUFFICES ASSUME c # 0 PROVE Fine(w, b, aut)
      OBVIOUS
    <2>1. LatestCommand(b, t, c) /\ b[c].data = l[c].data /\ l[c].data \in Answers \ {"invalid"}
      BY <1>3, <1>8 DEF LatestCommand
    <2> QED BY <1>8, <1>9, <2>1, AuthorizeFine
  <1>12. Fine(w, b, Then("raise", <<>>))
    <2>1. Then("raise", <<>>).pc = "raise" /\ Then("raise", <<>>).todo = <<>>
      BY EvFields
    <2>2. b \in Seq(Events) /\ Honest(b) /\ Len(b) > 0
      BY <1>8 DEF Open
    <2>3. b \o <<>> = b /\ <<>> \in Seq(Events)
      BY <2>2, Appends
    <2> QED BY <2>1, <2>2, <2>3 DEF Fine, Standing
  <1>13. Fine(w, b, rest)
    <2> HIDE DEF dec, aut
    <2> QED BY <1>10, <1>11, <1>12
  <1> HIDE DEF rest, x
  <1>14. x.pc = rest.pc /\ x.todo = kept \o rest.todo
    BY <1>1 DEF Then
  <1>15. Fine(w, l, x)
    BY <1>0, <1>8, <1>13, <1>14, FineAfter DEF b
  <1> QED BY <1>15 DEF x

(* A log without an operation to recover lets its newest turn go on.       *)
LEMMA Resolved ==
    ASSUME NEW l \in Seq(Events), Honest(l), Len(l) > 0, ~IsTerminal(l), Unresolved(l) = 0,
           NEW t \in Nat \ {0}, Upto(l, t)
    PROVE  Open(l, t)
  <1> DEFINE S == Where(l, LAMBDA e : e.type = "op.started"
                     /\ OfTurn(l, e.turn, {"op.completed", "op.failed", "op.unknown"}) = {})
  <1>0. Len(l) \in Nat
    OBVIOUS
  <1>1. S = {}
    <2>1. LastOf(S) = 0 /\ S \in SUBSET (1 .. Len(l))
      BY DEF Unresolved, Where
    <2> HIDE DEF S
    <2> QED BY <2>1, LastPosition
  <1>2. ASSUME NEW i \in 1 .. Len(l), l[i].type = "op.started" PROVE Ended(l, Len(l), l[i].turn)
    <2>1. OfTurn(l, l[i].turn, {"op.completed", "op.failed", "op.unknown"}) # {}
      BY <1>1, <1>2 DEF Where
    <2> QED BY <2>1, InTurn DEF Ended, OpEnds
  <1>3. ASSUME NEW i \in 1 .. Len(l), l[i].type = "tool.completed"
        PROVE  i < Len(l) /\ Recorded(l, i)
    <2>1. Sound(l, i)
      BY DEF Honest
    <2>2. ~Ended(l, i - 1, l[i].turn) /\ Announced(l, i - 1, l[i].turn)
      BY <1>3, <2>1 DEF Sound, Operated
    <2>3. PICK o \in 1 .. i - 1 : l[o].type = "op.started" /\ l[o].turn = l[i].turn
      BY <2>2 DEF Announced
    <2>4. o \in 1 .. Len(l)
      BY <1>0, <2>3
    <2>5. PICK m \in 1 .. Len(l) : l[m].type \in OpEnds /\ l[m].turn = l[i].turn
      BY <1>2, <2>3, <2>4 DEF Ended
    <2>6. m > i
      <3>1. m # i
        BY <1>3, <2>5 DEF OpEnds
      <3>2. ~(m \in 1 .. i - 1)
        BY <2>2, <2>5 DEF Ended
      <3> QED BY <1>0, <3>1, <3>2
    <2>7. Sound(l, m) /\ i \in 1 .. m - 1 /\ l[m].turn # 0
      <3>1. l[i].turn # 0
        BY <1>3, <2>1 DEF Sound, Ordered, ZeroTypes
      <3> QED BY <1>0, <2>5, <2>6, <3>1 DEF Honest
    <2> QED BY <1>0, <1>3, <2>6, <2>7 DEF Sound, Ordered
  <1>4. \A i \in 1 .. Len(l) : l[i].type \notin Endings
    BY DEF IsTerminal, OfType, Where, Endings
  <1> QED BY <1>2, <1>3, <1>4 DEF Open, Upto

(* One with an operation to recover lets the turn of that operation go on, *)
(* as long as its result is not there yet.                                 *)
LEMMA Recovering ==
    ASSUME NEW l \in Seq(Events), Honest(l), Len(l) > 0, ~IsTerminal(l), Unresolved(l) # 0,
           PhaseAllowed(l, l[Unresolved(l)].turn, "recording")
    PROVE  LET k == Unresolved(l) t == l[k].turn
           IN /\ k \in 1 .. Len(l) /\ l[k].type = "op.started"
              /\ Open(l, t) /\ ~Ended(l, Len(l), t)
  <1> DEFINE S == Where(l, LAMBDA e : e.type = "op.started"
                     /\ OfTurn(l, e.turn, {"op.completed", "op.failed", "op.unknown"}) = {})
             k == Unresolved(l)
             t == l[k].turn
  <1>0. Len(l) \in Nat /\ \A i \in 1 .. Len(l) : l[i].turn \in Nat
    BY EventTurn
  <1>1. k = LastOf(S) /\ S \in SUBSET (1 .. Len(l)) /\ k # 0
    BY DEF Unresolved, Where
  <1>2. k \in S
    <2> HIDE DEF S, k
    <2>1. S # {}
      BY <1>1 DEF LastOf
    <2> QED BY <1>1, <2>1, LastPosition
  <1>3. k \in 1 .. Len(l) /\ l[k].type = "op.started" /\ ~Ended(l, Len(l), t)
    <2>1. /\ k \in 1 .. Len(l) /\ l[k].type = "op.started"
          /\ OfTurn(l, l[k].turn, {"op.completed", "op.failed", "op.unknown"}) = {}
      <3> HIDE DEF k
      <3> QED BY <1>2 DEF Where
    <2> HIDE DEF k
    <2> QED BY <2>1, InTurn DEF Ended, OpEnds
  <1>4. PhaseAllowed(l, t, "recording")
    OBVIOUS
  <1> HIDE DEF k, t, S
  <1>5. /\ \A i \in 1 .. Len(l) : Sound(l, i) /\ Ordered(l, i) /\ Operated(l, i)
        /\ \A i \in 1 .. Len(l) : l[i].type \notin Endings
    BY DEF Honest, Sound, IsTerminal, OfType, Where, Endings
  <1>6. t \in Nat /\ t # 0 /\ t = l[k].turn
    BY <1>0, <1>3, <1>5 DEF Ordered, ZeroTypes, t
  <1>7. \A i, n : n \in 1 .. Len(l) /\ i \in 1 .. n /\ l[i].type \in OpEnds => l[i].turn # t
    BY <1>0, <1>3 DEF Ended
  <1>8. ASSUME NEW i \in 1 .. Len(l) PROVE l[i].turn <= t
    <2>1. CASE i = k
      BY <1>6, <2>1
    <2>2. CASE i < k
      <3>1. i \in 1 .. k - 1
        BY <1>0, <1>3, <2>2
      <3> QED BY <1>3, <1>5, <1>6, <3>1 DEF Ordered
    <2>3. CASE i > k
      <3>1. SUFFICES ASSUME t < l[i].turn PROVE FALSE
        BY <1>0, <1>6
      <3>2. k \in 1 .. i - 1 /\ l[i].turn # 0
        BY <1>0, <1>3, <1>6, <2>3, <3>1
      <3>3. Ended(l, i - 1, t)
        BY <1>3, <1>5, <1>6, <3>1, <3>2 DEF Ordered
      <3> QED BY <1>0, <1>3, <3>3 DEF Ended
    <2> QED BY <1>0, <1>3, <2>1, <2>2, <2>3
  <1>9. ASSUME NEW i \in 1 .. Len(l), l[i].type = "tool.completed"
        PROVE  i < Len(l) /\ Recorded(l, i)
    <2>1. CASE l[i].turn < t
      <3>1. ~(k < i)
        <4> SUFFICES ASSUME k < i PROVE FALSE
          OBVIOUS
        <4>1. k \in 1 .. i - 1 /\ l[i].turn # 0
          BY <1>0, <1>3, <1>5, <1>9 DEF Ordered, ZeroTypes
        <4>2. l[k].turn <= l[i].turn
          BY <1>5, <4>1 DEF Ordered
        <4> QED BY <1>0, <1>6, <2>1, <4>2
      <3>2. k # i
        BY <1>3, <1>9
      <3>3. i \in 1 .. k - 1
        BY <1>0, <1>3, <3>1, <3>2
      <3> QED BY <1>0, <1>3, <1>5, <1>6, <1>9, <3>3 DEF Ordered
    <2>2. CASE l[i].turn = t
      <3> DEFINE P == OfTurn(l, t, {"phase"})
                 p == LastOf(P)
      <3>1. P = { j \in 1 .. Len(l) : l[j].type = "phase" /\ l[j].turn = t }
        BY InTurn
      <3>2. PhaseAt(l, i - 1, t, "recording")
        BY <1>5, <1>9, <2>2 DEF Operated
      <3>3. i - 1 \in P
        BY <1>0, <3>1, <3>2 DEF PhaseAt
      <3>4. p = 0 \/ "recording" \in AllowedTransitions[l[p].data]
        BY <1>4 DEF PhaseAllowed
      <3> HIDE DEF P
      <3>5. p \in P /\ i - 1 <= p
        BY <1>0, <3>1, <3>3, LastPosition
      <3> HIDE DEF p
      <3>6. p \in 1 .. Len(l) /\ l[p].type = "phase" /\ l[p].turn = t /\ l[p].data \in Phases
        BY <3>1, <3>5 DEF Events
      <3>7. l[p].data \in {"authorizing", "executing"}
        BY <3>4, <3>6 DEF AllowedTransitions, Phases
      <3>8. p # i - 1 /\ p # i
        BY <1>9, <3>2, <3>6, <3>7 DEF PhaseAt
      <3>9. i \in 1 .. p - 1 /\ i + 1 \in 1 .. p
        BY <1>0, <3>5, <3>6, <3>8
      <3>10. Recorded(l, i)
        BY <1>5, <1>6, <1>9, <3>6, <3>9 DEF Ordered
      <3>11. l[i + 1].type \in OpEnds /\ l[i + 1].turn = t
        BY <2>2, <3>10 DEF Recorded, OpEnds
      <3> QED BY <1>7, <3>6, <3>9, <3>11
    <2> QED BY <1>0, <1>6, <1>8, <2>1, <2>2
  <1>10. ASSUME NEW j \in 1 .. Len(l), l[j].type = "op.started", l[j].turn < t
         PROVE  Ended(l, Len(l), l[j].turn)
    <2>1. ~(k < j)
      <3> SUFFICES ASSUME k < j PROVE FALSE
        OBVIOUS
      <3>1. k \in 1 .. j - 1 /\ l[j].turn # 0
        BY <1>0, <1>3, <1>5, <1>10 DEF Ordered, ZeroTypes
      <3>2. l[k].turn <= l[j].turn
        BY <1>5, <3>1 DEF Ordered
      <3> QED BY <1>0, <1>6, <1>10, <3>2
    <2>2. j # k
      BY <1>0, <1>6, <1>10
    <2>3. j \in 1 .. k - 1
      BY <1>0, <1>3, <2>1, <2>2
    <2>4. Ended(l, k - 1, l[j].turn)
      BY <1>3, <1>5, <1>6, <1>10, <2>3 DEF Ordered
    <2> QED BY <1>0, <1>3, <2>4 DEF Ended
  <1>11. Open(l, t)
    BY <1>5, <1>6, <1>8, <1>9, <1>10 DEF Open
  <1> QED BY <1>3, <1>11 DEF t, k

(* A handler that goes on without an append.                               *)
LEMMA StandsFine ==
    ASSUME NEW w, NEW l \in Seq(Events), Honest(l), NEW q, Standing(w, l, q)
    PROVE  Fine(w, l, Then(q, <<>>))
  <1>1. Then(q, <<>>).pc = q /\ Then(q, <<>>).todo = <<>>
    BY EvFields
  <1>2. l \o <<>> = l /\ <<>> \in Seq(Events)
    BY Appends
  <1> QED BY <1>1, <1>2 DEF Fine

(* An operation is taken up from the ledger.                               *)
LEMMA RecoverFine ==
    ASSUME NEW w, NEW l \in Seq(Events), Honest(l), Len(l) > 0, ~IsTerminal(l), Unresolved(l) # 0,
           \A t \in DOMAIN ledger[w] : ledger[w][t] = "succeeded" => Announced(l, Len(l), t)
    PROVE  Fine(w, l, RecoverOperation(w, l, Unresolved(l)))
  <1> DEFINE k == Unresolved(l)
             t == l[k].turn
             n == Len(l)
             rec == Phase(t, "recording")
             com == Ev("tool.completed", k, t, None)
             don == Ev("op.completed", n + 2, t, n + 2)
             fai == Ev("op.failed", k, t, None)
             unk == Ev("op.unknown", k, t, None)
             a == l \o <<rec>>
             x == RecoverOperation(w, l, k)
  <1>1. CASE ~PhaseAllowed(l, t, "recording")
    <2>1. x = Then("raise", <<>>)
      BY <1>1 DEF RecoverOperation
    <2>2. Standing(w, l, "raise")
      BY DEF Standing
    <2> QED BY <2>1, <2>2, StandsFine
  <1>2. CASE PhaseAllowed(l, t, "recording")
    <2>0. n \in Nat
      OBVIOUS
    <2>1. \/ x = Then("advance", <<rec>> \o <<com, don>>) /\ Announced(l, n, t)
          \/ x = Then("advance", <<rec>> \o <<fai>>)
          \/ x = Then("advance", <<rec>> \o <<unk>>)
      <3> DEFINE state == IF t \in DOMAIN ledger[w] THEN ledger[w][t] ELSE "missing"
      <3>1. state = "succeeded" => Announced(l, n, t)
        OBVIOUS
      <3>2. \/ x = Then("advance", <<rec>> \o <<com, don>>) /\ state = "succeeded"
            \/ x = Then("advance", <<rec>> \o <<fai>>)
            \/ x = Then("advance", <<rec>> \o <<unk>>)
        BY <1>2 DEF RecoverOperation
      <3> QED BY <3>1, <3>2
    <2>2. k \in 1 .. n /\ l[k].type = "op.started" /\ Open(l, t) /\ ~Ended(l, n, t)
      BY <1>2, Recovering
    <2>3. l[k].turn = t /\ t \in Nat
      BY <2>2 DEF Open
    <2> HIDE DEF k, t, x
    <2>4. More(l, rec, t) /\ rec \in Events /\ PhaseAt(a, n + 1, t, "recording")
      BY <2>2, PhaseMore DEF Phases
    <2>5. /\ Open(a, t) /\ Len(a) = n + 1 /\ a \in Seq(Events) /\ <<rec>> \in Seq(Events)
          /\ a[n + 1] = rec /\ \A i \in 1 .. n : a[i] = l[i] /\ i \in 1 .. Len(a)
      BY <2>0, <2>4 DEF More, Open
    <2>6. k \in 1 .. Len(a) /\ a[k].type = "op.started" /\ a[k].turn = t
      BY <2>2, <2>3, <2>5
    <2>7. rec.type = "phase"
      BY EvFields
    <2> HIDE DEF a, rec
    <2>8. ~Ended(a, Len(a), t)
      <3> SUFFICES ASSUME NEW i \in 1 .. Len(a), a[i].type \in OpEnds, a[i].turn = t PROVE FALSE
        BY DEF Ended
      <3>1. CASE i \in 1 .. n
        BY <2>2, <2>5, <3>1 DEF Ended
      <3>2. CASE i = n + 1
        BY <2>5, <2>7, <3>2 DEF OpEnds
      <3> QED BY <2>0, <2>5, <3>1, <3>2
    <2>9. ASSUME NEW y \in {"op.failed", "op.unknown"}, x = Then("advance", <<rec>> \o <<Ev(y, k, t, None)>>)
          PROVE  Fine(w, l, x)
      <3> DEFINE e == Ev(y, k, t, None)
                 b == a \o <<e>>
      <3>1. e \in Events
        <4>1. y \in EventTypes \ {"phase", "completed", "command", "responded"} /\ None \in Datas
          BY DEF EventTypes, Datas
        <4> QED BY <2>2, <2>3, <4>1, PlainEvent DEF Of
      <3>2. e.type = y /\ e.turn = t /\ e.cause = k
        BY EvFields
      <3> HIDE DEF e
      <3>3. More(a, e, t)
        BY <2>5, <2>6, <3>1, <3>2, EndMore DEF OpEnds
      <3>4. Honest(b) /\ Len(b) = Len(a) + 1 /\ b[Len(a) + 1] = e /\ Len(a) \in Nat
        BY <3>3 DEF More, Open
      <3>5. Standing(w, b, "advance")
        <4> HIDE DEF b
        <4> QED BY <3>2, <3>4, Advances
      <3> DEFINE q == <<e>>
                 p == <<rec>>
      <3>6. /\ l \o p = a /\ a \o q = b /\ p \in Seq(Events) /\ q \in Seq(Events)
            /\ x = Then("advance", p \o q)
        BY <2>5, <2>9, <3>1 DEF a, e
      <3> HIDE DEF b, p, q
      <3>7. l \o (p \o q) = b /\ p \o q \in Seq(Events)
        BY <3>6, TwoParts
      <3>8. x.pc = "advance" /\ x.todo = p \o q
        BY <3>6 DEF Then
      <3> QED BY <3>4, <3>5, <3>7, <3>8 DEF Fine
    <2>10. ASSUME x = Then("advance", <<rec>> \o <<com, don>>), Announced(l, n, t)
           PROVE  Fine(w, l, x)
      <3> DEFINE b == (a \o <<com>>) \o <<don>>
      <3>1. com \in Events /\ don \in Events
        <4>1. None \in Datas /\ n + 2 \in Datas /\ n + 2 \in Int /\ k \in Int
          BY <2>0, <2>2 DEF Datas
        <4> QED BY <2>3, <4>1, PlainEvent DEF Of, EventTypes
      <3>2. /\ com.type = "tool.completed" /\ com.turn = t /\ com.cause = k
            /\ don.type = "op.completed" /\ don.turn = t /\ don.cause = n + 2 /\ don.data = n + 2
        BY EvFields
      <3> HIDE DEF com, don
      <3>3. Announced(a, Len(a), t)
        BY <2>5, <2>10 DEF Announced
      <3>4. n + 2 = Len(a) + 1 /\ Len(a) = n + 1
        BY <2>0, <2>5
      <3>5. Honest(b) /\ Len(b) = Len(a) + 2 /\ b[Len(a) + 2] = don /\ b \in Seq(Events)
        BY <2>4, <2>5, <2>6, <2>8, <3>1, <3>2, <3>3, <3>4, ResultMore
      <3>6. Standing(w, b, "advance")
        <4> HIDE DEF b
        <4>1. Len(b) > 0 /\ b[Len(b)].type # "phase"
          BY <2>0, <3>2, <3>4, <3>5
        <4> QED BY <4>1, Advances
      <3>7. a \o <<com, don>> = b /\ <<com, don>> \in Seq(Events)
        BY <2>5, <3>1, InRow
      <3> DEFINE q == <<com, don>>
                 p == <<rec>>
      <3>8. /\ l \o p = a /\ a \o q = b /\ p \in Seq(Events) /\ q \in Seq(Events)
            /\ x = Then("advance", p \o q)
        BY <2>5, <2>10, <3>7 DEF a
      <3> HIDE DEF b, p, q
      <3>9. l \o (p \o q) = b /\ p \o q \in Seq(Events)
        BY <3>8, TwoParts
      <3>10. x.pc = "advance" /\ x.todo = p \o q
        BY <3>8 DEF Then
      <3> QED BY <3>5, <3>6, <3>9, <3>10 DEF Fine
    <2>11. Fine(w, l, x)
      <3> HIDE DEF com, don
      <3> QED BY <2>1, <2>9, <2>10
    <2> QED BY <2>11 DEF x, k
  <1> QED BY <1>1, <1>2

(* Five events in a row.                                                   *)
LEMMA InRow5 ==
    ASSUME NEW l \in Seq(Events), NEW e1 \in Events, NEW e2 \in Events, NEW e3 \in Events,
           NEW e4 \in Events, NEW e5 \in Events
    PROVE  /\ l \o <<e1, e2, e3, e4, e5>> =
                 ((((l \o <<e1>>) \o <<e2>>) \o <<e3>>) \o <<e4>>) \o <<e5>>
           /\ <<e1, e2, e3, e4, e5>> \in Seq(Events)
  <1> DEFINE x == <<e1, e2, e3, e4, e5>>
             p == <<e1, e2, e3>>
             q == <<e4, e5>>
             y == p \o q
             b == l \o p
  <1>1. \A n \in 1 .. 5 : n = 1 \/ n = 2 \/ n = 3 \/ n = 4 \/ n = 5
    OBVIOUS
  <1>2. x \in Seq(Events) /\ Len(x) = 5 /\ x[1] = e1 /\ x[2] = e2 /\ x[3] = e3 /\ x[4] = e4 /\ x[5] = e5
    OBVIOUS
  <1>3. p \in Seq(Events) /\ Len(p) = 3 /\ p[1] = e1 /\ p[2] = e2 /\ p[3] = e3
    OBVIOUS
  <1>4. q \in Seq(Events) /\ Len(q) = 2 /\ q[1] = e4 /\ q[2] = e5
    OBVIOUS
  <1>5. b = ((l \o <<e1>>) \o <<e2>>) \o <<e3>>
    <2>1. \A z \in Events : l \o <<e1, e2, z>> = ((l \o <<e1>>) \o <<e2>>) \o <<z>>
      BY InRow
    <2>2. l \o <<e1, e2, e3>> = ((l \o <<e1>>) \o <<e2>>) \o <<e3>>
      BY <2>1, Zenon
    <2> QED BY <2>2, Zenon
  <1>6. b \in Seq(Events)
    <2> HIDE DEF p
    <2> QED BY <1>3
  <1>7. b \o q = (b \o <<e4>>) \o <<e5>>
    <2> HIDE DEF b
    <2>1. b \o <<e4, e5>> = (b \o <<e4>>) \o <<e5>>
      BY <1>6, InRow
    <2> QED BY <2>1, Zenon
  <1> HIDE DEF x, p, q
  <1>8. y \in Seq(Events) /\ Len(y) = 5 /\ y[1] = e1 /\ y[2] = e2 /\ y[3] = e3 /\ y[4] = e4 /\ y[5] = e5
    <2>1. /\ y \in Seq(Events) /\ Len(y) = 3 + 2
          /\ \A n \in 1 .. 3 : y[n] = p[n]
          /\ \A n \in 1 .. 2 : y[3 + n] = q[n]
      <3>1. p \in Seq(Events) /\ q \in Seq(Events)
        BY <1>3, <1>4
      <3>2. /\ y \in Seq(Events) /\ Len(y) = Len(p) + Len(q)
            /\ \A n \in 1 .. Len(p) : y[n] = p[n]
            /\ \A n \in 1 .. Len(q) : y[Len(p) + n] = q[n]
        BY <3>1, Joined
      <3> HIDE DEF y
      <3> QED BY <1>3, <1>4, <3>2
    <2>2. y[1] = p[1] /\ y[2] = p[2] /\ y[3] = p[3] /\ y[3 + 1] = q[1] /\ y[3 + 2] = q[2]
      <3> HIDE DEF y
      <3> QED BY <2>1
    <2> HIDE DEF y
    <2> QED BY <1>3, <1>4, <2>1, <2>2
  <1>9. x = y
    <2> HIDE DEF y
    <2>1. \A n \in 1 .. 5 : x[n] = y[n]
      BY <1>1, <1>2, <1>8
    <2> QED BY <1>2, <1>8, <2>1, SameLog
  <1>10. l \o y = b \o q
    BY <1>3, <1>4, Appends
  <1> HIDE DEF y, b
  <1>11. l \o x = (((((l \o <<e1>>) \o <<e2>>) \o <<e3>>) \o <<e4>>) \o <<e5>>)
    BY <1>5, <1>7, <1>9, <1>10
  <1> QED BY <1>2, <1>11 DEF x

(* A new turn begins.                                                      *)
LEMMA NewTurnFine ==
    ASSUME NEW w, NEW l \in Seq(Events), Honest(l), Len(l) > 0, ~IsTerminal(l), Unresolved(l) = 0
    PROVE  Fine(w, l, NewTurn(l))
  <1> DEFINE t == 1 + LastOf(Turns(l))
             n == Len(l)
             con == Phase(t, "context")
             cap == Ev("capability", n, t, None)
             ctx == Ev("context", n + 2, t, None)
             cal == Phase(t, "calling")
             req == Ev("request", n + 3, t, None)
             s == <<con, cap, ctx, cal, req>>
             x == NewTurn(l)
  <1>1. x.pc = "model" /\ x.todo = s
    BY DEF NewTurn, Then
  <1>2. n \in Nat /\ t \in Nat \ {0} /\ Upto(l, t)
    BY NewestTurn, EventTurn DEF Upto
  <1>3. Open(l, t)
    BY <1>2, Resolved
  <1> HIDE DEF t, n, x
  <1> DEFINE a1 == l \o <<con>>
             a2 == a1 \o <<cap>>
             a3 == a2 \o <<ctx>>
             a4 == a3 \o <<cal>>
             a5 == a4 \o <<req>>
  <1>4. More(l, con, t) /\ con \in Events
    BY <1>3, PhaseMore DEF Phases
  <1>5. Open(a1, t) /\ Len(a1) = n + 1
    BY <1>4 DEF More, n
  <1> HIDE DEF a1
  <1>6. More(a1, cap, t) /\ cap \in Events
    <2>1. n \in 1 .. Len(a1)
      BY <1>2, <1>5 DEF n
    <2> QED BY <1>5, <2>1, Adds DEF PlainTypes, Endings
  <1>7. Open(a2, t) /\ Len(a2) = n + 2 /\ a2[n + 2] = cap
    BY <1>2, <1>5, <1>6 DEF More
  <1> HIDE DEF a2
  <1>8. More(a2, ctx, t) /\ ctx \in Events
    <2>1. n + 2 \in 1 .. Len(a2) /\ a2[n + 2].type # "phase"
      BY <1>2, <1>7, EvFields
    <2> QED BY <1>7, <2>1, Adds DEF PlainTypes, Endings
  <1>9. Open(a3, t) /\ Len(a3) = n + 3 /\ a3[n + 3] = ctx
    BY <1>2, <1>7, <1>8 DEF More
  <1> HIDE DEF a3
  <1>10. More(a3, cal, t) /\ cal \in Events
    BY <1>9, PhaseMore DEF Phases
  <1>11. Open(a4, t) /\ Len(a4) = n + 4 /\ a4[n + 3] = ctx
    <2>1. n + 3 \in 1 .. Len(a3)
      BY <1>2, <1>9
    <2> QED BY <1>2, <1>9, <1>10, <2>1 DEF More
  <1> HIDE DEF a4
  <1>12. More(a4, req, t) /\ req \in Events
    <2>1. n + 3 \in 1 .. Len(a4) /\ a4[n + 3].type # "phase"
      BY <1>2, <1>11, EvFields
    <2> QED BY <1>11, <2>1, Adds DEF PlainTypes, Endings
  <1>13. Honest(a5) /\ Len(a5) = n + 5 /\ a5[n + 5] = req
    BY <1>2, <1>11, <1>12 DEF More, Open
  <1>14. req.type = "request"
    BY EvFields
  <1>15. l \o s = a5 /\ s \in Seq(Events)
    BY <1>4, <1>6, <1>8, <1>10, <1>12, InRow5 DEF a1, a2, a3, a4
  <1> HIDE DEF a5, s, req
  <1>16. Standing(w, a5, "model")
    BY <1>2, <1>13, <1>14 DEF Standing, LastIs
  <1>17. Fine(w, l, x)
    BY <1>1, <1>13, <1>15, <1>16 DEF Fine
  <1> QED BY <1>17 DEF x

(* Whatever run_once appends is honest.                                    *)
LEMMA RunOnceFine ==
    ASSUME NEW w, NEW l, LogInv(l), Honest(l), Len(l) > 0, NEW next \in RunOnce(w, l),
           \A t \in DOMAIN ledger[w] : ledger[w][t] = "succeeded" => Announced(l, Len(l), t)
    PROVE  Fine(w, l, next)
  <1> DEFINE t == RecoverableTurn(l)
             Done1 == IsTerminal(l) \/ HasUnknown(l) \/ HasActiveWait(l)
  <1>0. l \in Seq(Events)
    BY DEF LogInv
  <1>1. \/ next = Then("advance", <<>>) /\ Done1
        \/ next = Then("raise", <<>>)
        \/ next = RecoverOperation(w, l, Unresolved(l)) /\ Unresolved(l) # 0 /\ ~Done1
        \/ /\ next = ResumeTurn(l, t) /\ t # 0 /\ OfTurn(l, t, {"completed"}) # {}
           /\ Unresolved(l) = 0 /\ ~Done1
        \/ next = NewTurn(l) /\ Unresolved(l) = 0 /\ ~Done1
    BY DEF RunOnce
  <1>2. CASE next = Then("advance", <<>>) /\ Done1
    <2>1. Standing(w, l, "advance")
      BY <1>2 DEF Standing
    <2> QED BY <1>0, <1>2, <2>1, StandsFine
  <1>3. CASE next = Then("raise", <<>>)
    <2>1. Standing(w, l, "raise")
      BY DEF Standing
    <2> QED BY <1>0, <1>3, <2>1, StandsFine
  <1>4. CASE next = RecoverOperation(w, l, Unresolved(l)) /\ Unresolved(l) # 0 /\ ~Done1
    BY <1>0, <1>4, RecoverFine
  <1>5. CASE /\ next = ResumeTurn(l, t) /\ t # 0 /\ OfTurn(l, t, {"completed"}) # {}
             /\ Unresolved(l) = 0 /\ ~Done1
    <2>1. t \in Nat \ {0} /\ Upto(l, t)
      BY <1>5, OpenTurn
    <2>2. Open(l, t)
      BY <1>0, <1>5, <2>1, Resolved
    <2> QED BY <1>5, <2>2, ResumeFine
  <1>6. CASE next = NewTurn(l) /\ Unresolved(l) = 0 /\ ~Done1
    BY <1>0, <1>6, NewTurnFine
  <1> QED BY <1>1, <1>2, <1>3, <1>4, <1>5, <1>6

-----------------------------------------------------------------------------
(* Steps of the handlers on honest logs.                                   *)

(* A run whose handler has nothing to append.                              *)
LEMMA HonestAt ==
    ASSUME ProvInv, RunsHonest, NEW w \in AgentRuns, thread[w].todo = <<>>
    PROVE  /\ log[w] \in Seq(Events) /\ Len(log[w]) \in Nat /\ LogInv(log[w]) /\ Honest(log[w])
           /\ Standing(w, log[w], thread[w].pc) /\ Chosen(w, log[w])
           /\ \A t \in DOMAIN ledger[w] :
                 ledger[w][t] = "succeeded" => Announced(log[w], Len(log[w]), t)
  <1>1. RunOK(log[w], <<>>, thread[w].pc, ledger[w])
    BY DEF ProvInv, RunsOK
  <1>2. log[w] \in Seq(Events) /\ Len(log[w]) \in Nat /\ LogInv(log[w])
    BY <1>1, RunAt
  <1>3. LogAfter(w) = log[w]
    BY <1>2, Appends DEF LogAfter
  <1> QED BY <1>2, <1>3 DEF RunsHonest, HonestRun

(* A step that changes one run.                                            *)
LEMMA OneHonest ==
    ASSUME RunsHonest, NEW w \in AgentRuns,
           Honest(LogAfter(w)'), Standing(w, LogAfter(w)', thread'[w].pc), Chosen(w, LogAfter(w)'),
           \A t \in DOMAIN ledger'[w] :
              ledger'[w][t] = "succeeded" => Announced(log'[w], Len(log'[w]), t),
           \A v \in AgentRuns : v # w =>
              log'[v] = log[v] /\ thread'[v] = thread[v] /\ ledger'[v] = ledger[v]
    PROVE  RunsHonest'
  <1>1. ASSUME NEW v \in AgentRuns, v # w PROVE HonestRun(v)'
    <2>1. log'[v] = log[v] /\ thread'[v] = thread[v] /\ ledger'[v] = ledger[v]
      BY <1>1
    <2>2. LogAfter(v)' = LogAfter(v)
      BY <2>1 DEF LogAfter
    <2> QED BY <2>1, <2>2 DEF RunsHonest, HonestRun
  <1>2. HonestRun(w)'
    BY DEF HonestRun
  <1> QED BY <1>1, <1>2 DEF RunsHonest

(* Appends without a response of the model.                                *)
LEMMA ChosenJoin ==
    ASSUME NEW w, NEW l \in Seq(Events), NEW s \in Seq(Events), Chosen(w, l),
           ~HasType(s, "completed")
    PROVE  Chosen(w, l \o s)
  <1> DEFINE a == l \o s
  <1>1. /\ \A k \in 1 .. Len(l) : a[k] = l[k]
        /\ \A k \in 1 .. Len(a) :
              \/ k \in 1 .. Len(l)
              \/ k > Len(l) /\ k - Len(l) \in 1 .. Len(s) /\ a[k] = s[k - Len(l)]
    BY Joined
  <1> HIDE DEF a
  <1>2. Chosen(w, a)
    BY <1>1 DEF Chosen, HasType
  <1> QED BY <1>2 DEF a

(* A step of the handler that leaves its log alone.                        *)
LEMMA GoHonest ==
    ASSUME ProvInv, RunsHonest, NEW w \in AgentRuns, thread[w].todo = <<>>, log' = log,
           NEW x, Goto(w, x), Fine(w, log[w], x), ~HasType(x.todo, "completed"),
           \A t \in DOMAIN ledger'[w] :
              ledger'[w][t] = "succeeded" => Announced(log[w], Len(log[w]), t),
           \A v \in AgentRuns : v # w => ledger'[v] = ledger[v]
    PROVE  RunsHonest'
  <1>0. thread \in [AgentRuns -> [pc : Pcs, msg : Messages \cup {None}, todo : Seq(Events)]]
    BY DEF ProvInv, StateOK
  <1>1. /\ thread'[w].pc = x.pc /\ thread'[w].todo = x.todo
        /\ \A v \in AgentRuns : v # w => thread'[v] = thread[v]
    BY <1>0 DEF Goto
  <1>2. LogAfter(w)' = log[w] \o x.todo
    BY <1>1 DEF LogAfter
  <1>3. Honest(LogAfter(w)') /\ Standing(w, LogAfter(w)', thread'[w].pc)
    BY <1>1, <1>2 DEF Fine
  <1>4. Chosen(w, log[w] \o x.todo)
    <2>1. log[w] \in Seq(Events) /\ x.todo \in Seq(Events) /\ Chosen(w, log[w])
      BY HonestAt DEF Fine
    <2> QED BY <2>1, ChosenJoin
  <1> QED BY <1>1, <1>2, <1>3, <1>4, OneHonest

(* ... and the ledger.                                                     *)
LEMMA MoveHonest ==
    ASSUME ProvInv, RunsHonest, NEW w \in AgentRuns, thread[w].todo = <<>>, log' = log,
           ledger' = ledger, NEW x, Goto(w, x), Fine(w, log[w], x), ~HasType(x.todo, "completed")
    PROVE  RunsHonest'
  BY HonestAt, GoHonest

(* The turn of the last event is the newest, and goes on.                  *)
LEMMA LastOpen ==
    ASSUME NEW l \in Seq(Events), Honest(l), Len(l) > 0, l[Len(l)].type \notin ZeroTypes,
           l[Len(l)].type \notin Endings \cup {"tool.completed"}
    PROVE  /\ Open(l, l[Len(l)].turn) /\ LastOf(Turns(l)) = l[Len(l)].turn
           /\ l[Len(l)].turn \in Nat \ {0}
  <1> DEFINE n == Len(l)
             t == l[n].turn
  <1>1. n \in Nat /\ n \in 1 .. n /\ \A i \in 1 .. n : l[i].turn \in Nat /\ (i \in 1 .. n - 1 \/ i = n)
    BY EventTurn
  <1>2. Ordered(l, n)
    BY <1>1 DEF Honest, Sound
  <1> HIDE DEF n
  <1>3. t \in Nat \ {0} /\ l[n].type \notin ZeroTypes \cup Endings \cup {"tool.completed"}
    BY <1>1, <1>2 DEF Ordered, n
  <1>4. ASSUME NEW i \in 1 .. n
        PROVE  /\ l[i].turn <= t /\ l[i].type \notin Endings
               /\ l[i].type = "tool.completed" => i < n /\ Recorded(l, i)
               /\ l[i].type = "op.started" /\ l[i].turn < t => Ended(l, n, l[i].turn)
    <2>1. CASE i \in 1 .. n - 1
      <3>1. Ended(l, n - 1, l[i].turn) => Ended(l, n, l[i].turn)
        BY <1>1 DEF Ended
      <3> QED BY <1>1, <1>2, <1>3, <2>1, <3>1 DEF Ordered
    <2>2. CASE i = n
      BY <1>1, <1>3, <2>2
    <2> QED BY <1>1, <2>1, <2>2
  <1>5. Open(l, t)
    BY <1>3, <1>4 DEF Open, n
  <1>6. Upto(l, t)
    BY <1>4 DEF Upto, n
  <1>7. LastOf(Turns(l)) = t
    <2>1. \E k \in 1 .. Len(l) : l[k].turn = t
      BY <1>1 DEF n
    <2> HIDE DEF t
    <2> QED BY <1>3, <1>6, <2>1, NewestIs
  <1> QED BY <1>3, <1>5, <1>7 DEF n

(* The command of a turn.                                                  *)
LEMMA LatestIs ==
    ASSUME NEW l \in Seq(Events), NEW t, NEW c, LatestCommand(l, t, c)
    PROVE  LastOf(OfTurn(l, t, {"command"})) = c
  <1> DEFINE S == OfTurn(l, t, {"command"})
             k == LastOf(S)
  <1>1. S = { i \in 1 .. Len(l) : l[i].type = "command" /\ l[i].turn = t }
    BY InTurn
  <1>2. c \in S
    BY <1>1 DEF LatestCommand
  <1>3. S \in SUBSET (1 .. Len(l)) /\ S # {}
    BY <1>1, <1>2
  <1>4. k \in S /\ \A y \in S : y <= k
    <2> HIDE DEF S
    <2> QED BY <1>3, LastPosition
  <1>5. k \in 1 .. Len(l) /\ l[k].type = "command" /\ l[k].turn = t /\ c <= k
    BY <1>1, <1>2, <1>4
  <1> HIDE DEF k
  <1>6. k = c
    BY <1>5 DEF LatestCommand
  <1> QED BY <1>6 DEF k

(* Where nothing is asked of the log but an event.                         *)
Calmly == {"deliver", "fail", "release", "ack", "raise"}

(* A handler may stand there behind any log that has one.                  *)
LEMMA StandsCalmly ==
    ASSUME NEW w, NEW a, Len(a) > 0, NEW q \in Calmly PROVE Standing(w, a, q)
  BY DEF Calmly, Standing

(* A handler at work stands behind an event.                               *)
LEMMA WorksOn ==
    ASSUME ProvInv, RunsHonest, NEW w \in AgentRuns, thread[w].todo = <<>>, thread[w].pc # "idle"
    PROVE  Len(log[w]) > 0
  BY HonestAt DEF Standing

(* A step that appends nothing.                                            *)
LEMMA StepHonest ==
    ASSUME ProvInv, RunsHonest, NEW w \in AgentRuns, thread[w].todo = <<>>, log' = log,
           ledger' = ledger, NEW q, Goto(w, Then(q, <<>>)), Standing(w, log[w], q)
    PROVE  RunsHonest'
  <1> DEFINE x == Then(q, <<>>)
  <1>1. Fine(w, log[w], x)
    BY HonestAt, StandsFine
  <1>2. ~HasType(x.todo, "completed")
    BY Short, EvFields
  <1>3. Goto(w, x)
    OBVIOUS
  <1> HIDE DEF x
  <1> QED BY <1>1, <1>2, <1>3, MoveHonest

(* A step that appends an event of no turn.                                *)
LEMMA ZeroFine ==
    ASSUME NEW w, NEW l \in Seq(Events), Honest(l), Len(l) > 0, l[Len(l)].type # "phase",
           NEW y \in {"ready", "promoted"}, NEW d \in Datas, NEW q \in Calmly
    PROVE  LET x == Then(q, <<Ev(y, Len(l), 0, d)>>)
           IN Fine(w, l, x) /\ ~HasType(x.todo, "completed")
  <1> DEFINE e == Ev(y, Len(l), 0, d)
             x == Then(q, <<e>>)
  <1>1. Of(e, 0) /\ e.type = y /\ Len(l) \in Nat
    BY PlainEvent DEF EventTypes
  <1>2. e \in Events /\ e.turn = 0 /\ e.cause = Len(l) /\ e.type \in ZeroTypes /\ e.type # "completed"
    BY <1>1, EvFields DEF Of, ZeroTypes
  <1>3. x.pc = q /\ x.todo = <<e>>
    BY EvFields
  <1> HIDE DEF e, x
  <1>4. Honest(l \o <<e>>)
    BY <1>1, <1>2, MoreZero
  <1>5. Len(l \o <<e>>) > 0 /\ <<e>> \in Seq(Events)
    BY <1>1, <1>2, OneMore
  <1>6. Standing(w, l \o <<e>>, q)
    BY <1>5, StandsCalmly
  <1>7. ~HasType(<<e>>, "completed")
    BY <1>2 DEF HasType
  <1> QED BY <1>3, <1>4, <1>5, <1>6, <1>7 DEF Fine, e, x

(* Handing over a turn, failing the assignment and releasing its lease.    *)
LEMMA CalmHonest ==
    ASSUME ProvInv, RunsHonest, NEW w \in AgentRuns,
           Deliver(w) \/ FailAssignment(w) \/ ReleaseLease(w)
    PROVE  RunsHonest'
  <1>1. /\ thread[w].todo = <<>> /\ thread[w].pc # "idle" /\ log' = log /\ ledger' = ledger
        /\ \E q \in Calmly : Goto(w, Then(q, <<>>))
    BY DEF Deliver, FailAssignment, ReleaseLease, At, Running, Calmly
  <1>2. PICK q \in Calmly : Goto(w, Then(q, <<>>))
    BY <1>1
  <1>3. Standing(w, log[w], q)
    BY <1>1, WorksOn, StandsCalmly
  <1> QED BY <1>1, <1>2, <1>3, StepHonest

(* The end of a handler's work.                                            *)
LEMMA EndHonest ==
    ASSUME ProvInv, RunsHonest, NEW w \in AgentRuns, Ack(w) \/ Raise(w)
    PROVE  RunsHonest'
  <1>0. thread \in [AgentRuns -> [pc : Pcs, msg : Messages \cup {None}, todo : Seq(Events)]]
    BY DEF ProvInv, StateOK
  <1>1. /\ thread[w].todo = <<>> /\ log' = log /\ ledger' = ledger
        /\ thread' = [thread EXCEPT ![w] = Idle]
    BY DEF Ack, Raise, At, Running
  <1>2. /\ thread'[w].pc = "idle" /\ thread'[w].todo = <<>>
        /\ \A v \in AgentRuns : v # w => thread'[v] = thread[v]
    BY <1>0, <1>1 DEF Idle
  <1>3. LogAfter(w)' = LogAfter(w)
    BY <1>1, <1>2 DEF LogAfter
  <1>4. Honest(LogAfter(w)) /\ Chosen(w, LogAfter(w)) /\ Standing(w, LogAfter(w), "idle")
    BY DEF RunsHonest, HonestRun, Standing
  <1>5. \A t \in DOMAIN ledger[w] :
           ledger[w][t] = "succeeded" => Announced(log[w], Len(log[w]), t)
    BY DEF RunsHonest, HonestRun
  <1> QED BY <1>1, <1>2, <1>3, <1>4, <1>5, OneHonest

(* Nothing of the turns follows a submission.                              *)
LEMMA SubmittedLast ==
    ASSUME NEW l \in Seq(Events), Honest(l), HasType(l, "submitted")
    PROVE  Len(l) > 0 /\ l[Len(l)].type # "phase"
  <1>1. PICK k \in 1 .. Len(l) : l[k].type = "submitted"
    BY DEF HasType
  <1>2. Len(l) \in Nat /\ Len(l) \in 1 .. Len(l) /\ Len(l) > 0
    OBVIOUS
  <1>3. CASE k = Len(l)
    BY <1>1, <1>2, <1>3
  <1>4. CASE k \in 1 .. Len(l) - 1
    <2>1. Ordered(l, Len(l))
      BY <1>2 DEF Honest, Sound
    <2>2. l[Len(l)].turn = 0
      BY <1>1, <1>4, <2>1 DEF Ordered, Endings
    <2> QED BY <1>2, <2>1, <2>2 DEF Ordered, ZeroTypes
  <1> QED BY <1>2, <1>3, <1>4

(* The decision of the kernel.                                             *)
LEMMA PromoteHonest ==
    ASSUME ProvInv, RunsHonest, PromoteResult \/ PromoteResponse
    PROVE  RunsHonest'
  <1>0. "asg" \in AgentRuns /\ "peer" \in AgentRuns /\ "asg" # "peer"
    BY DEF AgentRuns
  <1>1. CASE PromoteResult
    <2> DEFINE l == log["asg"]
               q == IF verdict' = "accepted" THEN "ack" ELSE "fail"
               d == verdict'
    <2>1. /\ thread["asg"].todo = <<>> /\ thread["asg"].pc = "promote" /\ log' = log
          /\ ledger' = ledger /\ Goto("asg", Then(q, <<Ev("promoted", Len(l), 0, d)>>))
      BY <1>1 DEF PromoteResult, At, Running
    <2>2. HasType(l, "submitted") /\ l \in Seq(Events) /\ Honest(l)
      BY <1>0, <2>1, HonestAt DEF Standing
    <2>3. verdict' \in Verdicts
      BY <1>1, DecisionTypes DEF PromoteResult, ProvInv, StateOK
    <2>4. d \in Datas /\ q \in Calmly
      BY <2>3 DEF Datas, Calmly
    <2> DEFINE x == Then(q, <<Ev("promoted", Len(l), 0, d)>>)
    <2> HIDE DEF l, q, d
    <2>5. Fine("asg", l, x) /\ ~HasType(x.todo, "completed")
      BY <2>2, <2>4, SubmittedLast, ZeroFine
    <2>6. Goto("asg", x)
      BY <2>1
    <2> HIDE DEF x
    <2> QED BY <1>0, <2>1, <2>5, <2>6, MoveHonest DEF l
  <1>2. CASE PromoteResponse
    <2>1. /\ thread["peer"].todo = <<>> /\ thread["peer"].pc = "promote" /\ log' = log
          /\ ledger' = ledger /\ Goto("peer", Then("route", <<>>))
      BY <1>2 DEF PromoteResponse, At, Running
    <2>2. Standing("peer", log["peer"], "promote")
      BY <1>0, <2>1, HonestAt
    <2>3. Standing("peer", log["peer"], "route")
      BY <1>0, <2>2 DEF Standing
    <2> QED BY <1>0, <2>1, <2>3, StepHonest
  <1> QED BY <1>1, <1>2

(* After the loop: the end of the run, a rest, or another turn.            *)
LEMMA AdvanceHonest ==
    ASSUME ProvInv, RunsHonest, NEW w \in AgentRuns, Advance(w)
    PROVE  RunsHonest'
  <1> DEFINE l == log[w]
             S == OfType(l, {"stopped", "submitted"})
             last == LastOf(S)
             n == CompletedTurns(l) + 1
             x == Then("deliver", <<Ev("ready", Len(l), 0, n)>>)
  <1>1. /\ thread[w].todo = <<>> /\ thread[w].pc = "advance" /\ log' = log /\ ledger' = ledger
    BY DEF Advance, At, Running
  <1>2. l \in Seq(Events) /\ Honest(l) /\ Len(l) > 0 /\ Standing(w, l, "advance")
    BY <1>1, HonestAt, WorksOn
  <1>3. S = { k \in 1 .. Len(l) : l[k].type \in {"stopped", "submitted"} }
    BY DEF OfType, Where
  <1>4. S # {} => last \in S
    <2>1. S \in SUBSET (1 .. Len(l))
      BY <1>3
    <2> HIDE DEF l, S
    <2> QED BY <1>2, <2>1, LastPosition
  <1>5. last # 0 => S # {}
    BY DEF LastOf
  <1>6. S # {} => last # 0
    BY <1>2, <1>3, <1>4
  <1>7. \/ last # 0 /\ l[last].type = "submitted" /\ Goto(w, Then("promote", <<>>))
        \/ \E q \in {"fail", "ack", "raise"} : Goto(w, Then(q, <<>>))
        \/ last = 0 /\ ~HasActiveWait(l) /\ ~HasUnknown(l) /\ Goto(w, x)
    BY DEF Advance
  <1> HIDE DEF l, S, last, x
  <1>8. CASE last # 0 /\ l[last].type = "submitted" /\ Goto(w, Then("promote", <<>>))
    <2>1. HasType(l, "submitted")
      BY <1>3, <1>4, <1>5, <1>8 DEF HasType
    <2>2. Standing(w, l, "promote")
      BY <1>2, <2>1 DEF Standing
    <2> QED BY <1>1, <1>8, <2>2, StepHonest DEF l
  <1>9. ASSUME NEW q \in {"fail", "ack", "raise"}, Goto(w, Then(q, <<>>)) PROVE RunsHonest'
    <2>1. Standing(w, l, q)
      BY <1>2, StandsCalmly DEF Calmly
    <2> QED BY <1>1, <1>9, <2>1, StepHonest DEF l
  <1>10. CASE last = 0 /\ ~HasActiveWait(l) /\ ~HasUnknown(l) /\ Goto(w, x)
    <2>1. ~IsTerminal(l)
      BY <1>6, <1>10 DEF IsTerminal, S
    <2>2. l[Len(l)].type # "phase"
      BY <1>2, <1>10, <2>1 DEF Standing, LastIs
    <2>3. n \in Datas
      BY <1>2, TurnCount DEF Datas
    <2>4. Fine(w, l, x) /\ ~HasType(x.todo, "completed")
      <3> HIDE DEF n
      <3> QED BY <1>2, <2>2, <2>3, ZeroFine DEF x, Calmly
    <2> QED BY <1>1, <1>10, <2>4, MoveHonest DEF l
  <1> QED BY <1>7, <1>8, <1>9, <1>10

(* A turn that stands behind one of its phases.                            *)
LEMMA InPhase ==
    ASSUME ProvInv, RunsHonest, NEW w \in AgentRuns, thread[w].todo = <<>>,
           NEW p, NEW d, PhaseAt(log[w], Len(log[w]), log[w][Len(log[w])].turn, p),
           \E c : LatestCommand(log[w], log[w][Len(log[w])].turn, c) /\ log[w][c].data = d
    PROVE  LET l == log[w] t == CurrentTurn(w) c == CurrentCommand(w) n == Len(l)
           IN /\ l \in Seq(Events) /\ n \in Nat /\ n > 0 /\ Open(l, t) /\ t \in Nat \ {0}
              /\ PhaseAt(l, n, t, p) /\ LatestCommand(l, t, c) /\ l[c].data = d
              /\ c \in 1 .. n /\ l[c].type = "command" /\ l[c].turn = t
  <1> DEFINE l == log[w]
             n == Len(l)
             t == l[n].turn
  <1>1. l \in Seq(Events) /\ n \in Nat /\ Honest(l)
    BY HonestAt
  <1>2. n > 0 /\ l[n].type = "phase"
    BY <1>1 DEF PhaseAt
  <1>3. Open(l, t) /\ LastOf(Turns(l)) = t /\ t \in Nat \ {0}
    <2>1. l[n].type \notin ZeroTypes \cup Endings \cup {"tool.completed"}
      BY <1>2 DEF ZeroTypes, Endings
    <2> HIDE DEF l
    <2> QED BY <1>1, <1>2, <2>1, LastOpen
  <1>4. PICK c : LatestCommand(l, t, c) /\ l[c].data = d
    OBVIOUS
  <1>5. CurrentTurn(w) = t
    BY <1>3 DEF CurrentTurn
  <1>6. CurrentCommand(w) = c
    <2>1. LastOf(OfTurn(l, t, {"command"})) = c
      <3> HIDE DEF l, t
      <3> QED BY <1>1, <1>4, LatestIs
    <2> QED BY <1>5, <2>1 DEF CurrentCommand
  <1>7. c \in 1 .. n /\ l[c].type = "command" /\ l[c].turn = t
    BY <1>4 DEF LatestCommand
  <1> QED BY <1>1, <1>2, <1>3, <1>4, <1>5, <1>6, <1>7

(* Only an assignment sends.                                               *)
LEMMA NoPeerSends ==
    ASSUME NEW l \in Seq(Events), Honest(l), Chosen("peer", l),
           NEW c \in 1 .. Len(l), l[c].type = "command"
    PROVE  l[c].data # "send"
  <1>1. Chained(l, c) /\ Caused(l, c)
    BY DEF Honest, Sound
  <1> DEFINE r == l[c].cause
  <1>2. r \in 1 .. c - 1
    BY <1>1 DEF Caused
  <1>3. r \in 1 .. Len(l)
    BY <1>2
  <1>4. l[r].type = "completed" /\ l[r].data = l[c].data
    BY <1>1 DEF Chained, From
  <1>5. l[r].data \in Choices["peer"]
    BY <1>3, <1>4 DEF Chosen
  <1> QED BY <1>4, <1>5, ProvenanceConstants

(* A handler that appended an event advances.                              *)
LEMMA AdvancesMore ==
    ASSUME NEW w, NEW l \in Seq(Events), NEW e \in Events, e.type # "phase"
    PROVE  Standing(w, l \o <<e>>, "advance") /\ <<e>> \in Seq(Events)
  <1> DEFINE b == l \o <<e>>
  <1>1. Len(l) \in Nat /\ Len(b) = Len(l) + 1 /\ b[Len(l) + 1] = e /\ <<e>> \in Seq(Events)
    BY OneMore
  <1> HIDE DEF b
  <1>2. Len(b) > 0 /\ b[Len(b)].type # "phase"
    BY <1>1
  <1>3. Standing(w, b, "advance")
    BY <1>2, Advances
  <1> QED BY <1>1, <1>3 DEF b

(* A request of the kernel: it is taken or denied.                         *)
LEMMA AskPeerHonest ==
    ASSUME ProvInv, RunsHonest, NEW w \in AgentRuns, AskPeer(w)
    PROVE  RunsHonest'
  <1> DEFINE l == log[w]
             t == CurrentTurn(w)
             c == CurrentCommand(w)
             e == Ev("message.denied", c, t, None)
             x == Then("advance", <<e>>)
  <1>1. /\ thread[w].todo = <<>> /\ thread[w].pc = "ask" /\ log' = log /\ ledger' = ledger
        /\ Goto(w, Then("route", <<>>)) \/ Goto(w, x)
    BY DEF AskPeer, At, Running
  <1>2. Standing(w, l, "ask") /\ Honest(l) /\ Chosen(w, l)
    BY <1>1, HonestAt
  <1>3. /\ l \in Seq(Events) /\ Len(l) \in Nat /\ Len(l) > 0 /\ Open(l, t)
        /\ l[c].data = "send" /\ c \in 1 .. Len(l) /\ l[c].type = "command"
    BY <1>1, <1>2, InPhase DEF Standing
  <1>4. CASE Goto(w, Then("route", <<>>))
    <2>1. w = "asg"
      BY <1>2, <1>3, NoPeerSends DEF AgentRuns
    <2>2. Standing(w, l, "route")
      BY <1>2, <2>1 DEF Standing
    <2> QED BY <1>1, <1>4, <2>2, StepHonest
  <1>5. CASE Goto(w, x)
    <2>0. x.pc = "advance" /\ x.todo = <<e>> /\ e.type = "message.denied"
      BY EvFields
    <2> HIDE DEF t, c, l, x
    <2>1. Honest(l \o <<e>>) /\ e \in Events
      BY <1>3, Adds DEF PlainTypes
    <2>2. Standing(w, l \o <<e>>, "advance") /\ <<e>> \in Seq(Events)
      <3> HIDE DEF e
      <3> QED BY <1>3, <2>0, <2>1, AdvancesMore
    <2>3. ~HasType(<<e>>, "completed")
      BY <2>0 DEF HasType
    <2>4. Fine(w, l, x) /\ ~HasType(x.todo, "completed")
      BY <2>0, <2>1, <2>2, <2>3 DEF Fine
    <2> QED BY <1>1, <1>5, <2>4, MoveHonest DEF l
  <1> QED BY <1>1, <1>4, <1>5

(* What the asking turn writes once its request is on its way.             *)
LEMMA WaitFine ==
    ASSUME NEW w, NEW l, NEW t, Open(l, t), NEW c \in 1 .. Len(l), l[c].type = "command"
    PROVE  LET x == Then("advance", << Ev("message.sent", c, t, None), Phase(t, "waiting"),
                                       Ev("waiting", c, t, None) >>)
           IN Fine(w, l, x) /\ ~HasType(x.todo, "completed")
  <1> DEFINE e == Ev("message.sent", c, t, None)
             p == Phase(t, "waiting")
             f == Ev("waiting", c, t, None)
             b == l \o <<e>>
             d == b \o <<p>>
             x == Then("advance", <<e, p, f>>)
  <1>0. x.pc = "advance" /\ x.todo = <<e, p, f>> /\ e.type = "message.sent"
        /\ p.type = "phase" /\ f.type = "waiting" /\ l \in Seq(Events) /\ Len(l) \in Nat
    BY EvFields DEF Open
  <1>1. More(l, e, t) /\ e \in Events
    BY Adds DEF PlainTypes, Endings
  <1>2. Open(b, t) /\ Len(b) = Len(l) + 1 /\ b[c] = l[c] /\ b \in Seq(Events)
    BY <1>1 DEF More, Open
  <1>3. More(b, p, t) /\ p \in Events
    <2> HIDE DEF b
    <2> QED BY <1>2, PhaseMore DEF Phases
  <1>4. Open(d, t) /\ Len(d) = Len(l) + 2 /\ d[c] = l[c] /\ c \in 1 .. Len(d) /\ d \in Seq(Events)
    <2>1. Open(d, t) /\ Len(d) = Len(b) + 1 /\ d[c] = b[c]
      <3> HIDE DEF b
      <3>1. c \in 1 .. Len(b)
        BY <1>0, <1>2
      <3> QED BY <1>3, <3>1 DEF More
    <2> HIDE DEF b, d
    <2> QED BY <1>0, <1>2, <2>1 DEF Open
  <1>5. Honest(d \o <<f>>) /\ f \in Events
    <2> HIDE DEF b, d
    <2> QED BY <1>4, Adds DEF PlainTypes
  <1>6. l \o <<e, p, f>> = d \o <<f>> /\ <<e, p, f>> \in Seq(Events)
    <2> HIDE DEF e, p, f
    <2> QED BY <1>0, <1>1, <1>3, <1>5, InRow
  <1> HIDE DEF e, p, f, d, x
  <1>7. Standing(w, d \o <<f>>, "advance")
    BY <1>0, <1>4, <1>5, AdvancesMore
  <1>8. ~HasType(<<e, p, f>>, "completed")
    BY <1>0 DEF HasType
  <1> QED BY <1>0, <1>5, <1>6, <1>7, <1>8 DEF Fine, x, e, p, f

(* The request or the response is routed.                                  *)
LEMMA RouteHonest ==
    ASSUME ProvInv, RunsHonest, NEW w \in AgentRuns, Route(w)
    PROVE  RunsHonest'
  <1> DEFINE l == log[w]
             t == CurrentTurn(w)
             c == CurrentCommand(w)
             q == IF answer = "accepted" THEN "ack" ELSE "fail"
             x == Then("advance", << Ev("message.sent", c, t, None), Phase(t, "waiting"),
                                     Ev("waiting", c, t, None) >>)
             y == Then(q, <<Ev("promoted", Len(l), 0, answer)>>)
  <1>1. /\ thread[w].todo = <<>> /\ thread[w].pc = "route" /\ log' = log /\ ledger' = ledger
        /\ w = "asg" => Goto(w, x)
        /\ w # "asg" => Goto(w, y)
    BY DEF Route, At, Running
  <1>2. Standing(w, l, "route") /\ Honest(l) /\ l \in Seq(Events)
    BY <1>1, HonestAt
  <1>3. CASE w = "asg"
    <2>1. Open(l, t) /\ c \in 1 .. Len(l) /\ l[c].type = "command"
      BY <1>1, <1>2, <1>3, InPhase DEF Standing
    <2>2. Fine(w, l, x) /\ ~HasType(x.todo, "completed")
      <3> HIDE DEF l, t, c
      <3> QED BY <2>1, WaitFine
    <2> HIDE DEF x
    <2> QED BY <1>1, <1>3, <2>2, MoveHonest
  <1>4. CASE w = "peer"
    <2>1. HasType(l, "submitted")
      BY <1>2, <1>4 DEF Standing
    <2>2. answer \in Datas /\ q \in Calmly
      BY DEF ProvInv, StateOK, Datas, Calmly
    <2>3. Fine(w, l, y) /\ ~HasType(y.todo, "completed")
      <3> HIDE DEF l, q
      <3> QED BY <1>2, <2>1, <2>2, SubmittedLast, ZeroFine
    <2> HIDE DEF y
    <2> QED BY <1>1, <1>4, <2>3, MoveHonest
  <1> QED BY <1>3, <1>4 DEF AgentRuns

(* An operation is announced.                                              *)
LEMMA StartFine ==
    ASSUME NEW w, NEW l, NEW t, Open(l, t), Forward(l), PhaseAt(l, Len(l), t, "executing"),
           NEW c \in 1 .. Len(l), l[c].type = "command", l[c].turn = t, l[c].data = "tool"
    PROVE  LET x == Then("effect", << Ev("op.started", c, t, None),
                                      Ev("tool.requested", Len(l) + 1, t, None) >>)
           IN Fine(w, l, x) /\ ~HasType(x.todo, "completed")
  <1> DEFINE n == Len(l)
             e == Ev("op.started", c, t, None)
             f == Ev("tool.requested", n + 1, t, None)
             b == l \o <<e>>
             d == b \o <<f>>
             x == Then("effect", <<e, f>>)
  <1>0. /\ x.pc = "effect" /\ x.todo = <<e, f>> /\ e.type = "op.started" /\ e.turn = t
        /\ e.cause = c /\ f.type = "tool.requested" /\ f.turn = t /\ f.cause = n + 1
        /\ l \in Seq(Events) /\ n \in Nat /\ t \in Nat /\ c \in Int
    BY EvFields DEF Open
  <1>1. e \in Events
    BY <1>0, PlainEvent DEF EventTypes, Datas, Of
  <1>2. More(l, e, t)
    <2> HIDE DEF e
    <2> QED BY <1>0, <1>1, StartMore
  <1>3. Open(b, t) /\ Len(b) = n + 1 /\ b[n + 1] = e /\ b \in Seq(Events)
    BY <1>2 DEF More, Open
  <1>4. More(b, f, t) /\ f \in Events
    <2>1. n + 1 \in 1 .. Len(b) /\ b[n + 1].type # "phase"
      BY <1>0, <1>3
    <2> HIDE DEF b, n
    <2> QED BY <1>3, <2>1, Adds DEF PlainTypes, Endings
  <1>5. Honest(d) /\ Len(d) = n + 2 /\ d[n + 2] = f /\ d[n + 1] = e
    <2>1. Open(d, t) /\ Len(d) = Len(b) + 1 /\ d[Len(b) + 1] = f /\ d[n + 1] = b[n + 1]
      <3> HIDE DEF b, f, n
      <3>1. n + 1 \in 1 .. Len(b)
        BY <1>0, <1>3
      <3> QED BY <1>4, <3>1 DEF More
    <2> HIDE DEF b, d, e, f, n
    <2> QED BY <1>0, <1>3, <2>1 DEF Open
  <1>6. l \o <<e, f>> = d /\ <<e, f>> \in Seq(Events)
    <2> HIDE DEF e, f
    <2> QED BY <1>0, <1>1, <1>4, InRow
  <1> HIDE DEF e, f, d, x, n
  <1>7. Standing(w, d, "effect")
    BY <1>0, <1>5 DEF Standing, LastIs
  <1>8. ~HasType(<<e, f>>, "completed")
    BY <1>0 DEF HasType
  <1> QED BY <1>0, <1>5, <1>6, <1>7, <1>8 DEF Fine, x, e, f, n

(* Its ledger row is new.                                                  *)
LEMMA StartToolHonest ==
    ASSUME ProvInv, RunsHonest, NEW w \in AgentRuns, StartTool(w)
    PROVE  RunsHonest'
  <1> DEFINE l == log[w]
             t == CurrentTurn(w)
             c == CurrentCommand(w)
             x == Then("effect", << Ev("op.started", c, t, None),
                                    Ev("tool.requested", Len(l) + 1, t, None) >>)
             rows == ledger[w]
             more == [u \in DOMAIN rows \cup {t} |-> IF u = t THEN "started" ELSE rows[u]]
  <1>1. /\ thread[w].todo = <<>> /\ thread[w].pc = "tool" /\ log' = log /\ Goto(w, x)
        /\ ledger' = [ledger EXCEPT ![w] = more]
    BY DEF StartTool, At, Running
  <1>2. ledger'[w] = more /\ \A v \in AgentRuns : v # w => ledger'[v] = ledger[v]
    BY <1>1 DEF ProvInv, StateOK
  <1>3. /\ Standing(w, l, "tool") /\ LogInv(l)
        /\ \A u \in DOMAIN rows : rows[u] = "succeeded" => Announced(l, Len(l), u)
    BY <1>1, HonestAt
  <1>4. /\ l \in Seq(Events) /\ Open(l, t) /\ PhaseAt(l, Len(l), t, "executing")
        /\ c \in 1 .. Len(l) /\ l[c].type = "command" /\ l[c].turn = t /\ l[c].data = "tool"
    BY <1>1, <1>3, InPhase DEF Standing
  <1>5. Fine(w, l, x) /\ ~HasType(x.todo, "completed")
    <2> HIDE DEF l, t, c
    <2> QED BY <1>3, <1>4, StartFine DEF LogInv
  <1>6. \A u \in DOMAIN ledger'[w] : ledger'[w][u] = "succeeded" => Announced(l, Len(l), u)
    <2> HIDE DEF l, t, rows
    <2> QED BY <1>2, <1>3
  <1> HIDE DEF x
  <1> QED BY <1>1, <1>2, <1>5, <1>6, GoHonest

(* What the log says of an operation before its effect.                    *)
Announces(l, t) ==
    /\ l \in Seq(Events) /\ Len(l) \in Nat /\ Open(l, t) /\ Announced(l, Len(l), t)
    /\ ~Ended(l, Len(l), t)
    /\ \E i \in 1 .. Len(l) : l[i].type = "op.started" /\ l[i].turn = t
    /\ \E i \in 1 .. Len(l) : l[i].type = "command" /\ l[i].turn = t

(* A handler about to run a tool stands behind such a log.                 *)
LEMMA BeforeEffect ==
    ASSUME NEW w, NEW l \in Seq(Events), Honest(l), Standing(w, l, "effect")
    PROVE  Announces(l, LastOf(Turns(l)))
  <1> DEFINE n == Len(l)
             t == l[n].turn
  <1>1. /\ n \in Nat /\ n > 1 /\ l[n].type = "tool.requested" /\ l[n].cause = n - 1
        /\ l[n - 1].type = "op.started" /\ l[n - 1].turn = t
    BY DEF Standing, LastIs
  <1>2. Open(l, t) /\ LastOf(Turns(l)) = t
    <2>1. l[n].type \notin ZeroTypes \cup Endings \cup {"tool.completed"} /\ n > 0
      BY <1>1 DEF ZeroTypes, Endings
    <2> QED BY <2>1, LastOpen
  <1>3. /\ n \in 1 .. n /\ n - 1 \in 1 .. n
        /\ \A k \in 1 .. n : k = n \/ k = n - 1 \/ k \in 1 .. n - 2
    BY <1>1
  <1> HIDE DEF n, t
  <1>4. Announced(l, n, t)
    BY <1>1, <1>3 DEF Announced, t
  <1>5. Chained(l, n - 1) /\ Caused(l, n - 1) /\ Operated(l, n - 1)
    BY <1>3 DEF Honest, Sound, n
  <1>6. ~Ended(l, n, t)
    <2> SUFFICES ASSUME NEW m \in 1 .. n, l[m].type \in OpEnds, l[m].turn = t PROVE FALSE
      BY DEF Ended
    <2>1. m \in 1 .. n - 2
      BY <1>1, <1>3 DEF OpEnds
    <2>2. Operated(l, m)
      BY DEF Honest, Sound, n
    <2>3. PICK i \in 1 .. m - 1 : l[i].type = "op.started" /\ l[i].turn = t
      BY <2>2 DEF Operated
    <2>4. i \in 1 .. (n - 1) - 1
      BY <1>1, <2>1
    <2> QED BY <1>1, <1>5, <2>3, <2>4 DEF Operated
  <1>7. \E i \in 1 .. n : l[i].type = "command" /\ l[i].turn = t
    <2> DEFINE i == l[n - 1].cause
    <2>1. i \in 1 .. (n - 1) - 1
      BY <1>1, <1>5 DEF Caused
    <2>2. i \in 1 .. n
      BY <1>1, <2>1
    <2>3. l[i].type = "command" /\ l[i].turn = t
      BY <1>1, <1>5 DEF Chained, From
    <2> QED BY <2>2, <2>3
  <1> QED BY <1>1, <1>2, <1>3, <1>4, <1>6, <1>7 DEF Announces, n

(* The turn records.                                                       *)
LEMMA RecordMore ==
    ASSUME NEW l, NEW t, Announces(l, t)
    PROVE  LET p == Phase(t, "recording") b == l \o <<p>>
           IN /\ p \in Events /\ Announces(b, t) /\ PhaseAt(b, Len(b), t, "recording")
              /\ Len(b) = Len(l) + 1 /\ \A i \in 1 .. Len(l) : b[i] = l[i] /\ i \in 1 .. Len(b)
  <1> DEFINE p == Phase(t, "recording")
             b == l \o <<p>>
  <1>0. l \in Seq(Events) /\ Len(l) \in Nat /\ Open(l, t) /\ p.type = "phase"
    BY EvFields DEF Announces
  <1>1. More(l, p, t) /\ PhaseAt(b, Len(l) + 1, t, "recording") /\ p \in Events
    BY <1>0, PhaseMore DEF Phases
  <1>2. /\ Open(b, t) /\ Len(b) = Len(l) + 1 /\ b[Len(l) + 1] = p /\ b \in Seq(Events)
        /\ \A i \in 1 .. Len(l) : b[i] = l[i]
    BY <1>1 DEF More, Open
  <1> HIDE DEF p, b
  <1>3. /\ \A i \in 1 .. Len(l) : i \in 1 .. Len(b)
        /\ \A i \in 1 .. Len(b) : i \in 1 .. Len(l) \/ i = Len(l) + 1
    BY <1>0, <1>2
  <1>4. Announced(b, Len(b), t)
    <2>1. PICK o, q \in 1 .. Len(l) : /\ l[o].type = "op.started" /\ l[o].turn = t
                                      /\ l[q].type = "tool.requested" /\ l[q].turn = t /\ l[q].cause = o
      BY DEF Announces, Announced
    <2> QED BY <1>2, <1>3, <2>1 DEF Announced
  <1>5. ~Ended(b, Len(b), t)
    BY <1>0, <1>2, <1>3 DEF Announces, Ended, OpEnds
  <1>6. Announces(b, t)
    BY <1>2, <1>3, <1>4, <1>5 DEF Announces
  <1> QED BY <1>1, <1>2, <1>3, <1>6 DEF p, b

(* The tool succeeds, ...                                                  *)
LEMMA SuccessFine ==
    ASSUME NEW w, NEW l, NEW t, Announces(l, t), NEW op \in 1 .. Len(l), l[op].type = "op.started"
    PROVE  LET x == Then("advance", << Phase(t, "recording"), Ev("tool.completed", op, t, None),
                                       Ev("op.completed", Len(l) + 2, t, Len(l) + 2) >>)
           IN Fine(w, l, x) /\ ~HasType(x.todo, "completed")
  <1> DEFINE n == Len(l)
             p == Phase(t, "recording")
             e == Ev("tool.completed", op, t, None)
             f == Ev("op.completed", n + 2, t, n + 2)
             b == l \o <<p>>
             d == b \o <<e>>
             x == Then("advance", <<p, e, f>>)
  <1>0. /\ x.pc = "advance" /\ x.todo = <<p, e, f>> /\ p.type = "phase"
        /\ e.type = "tool.completed" /\ e.turn = t /\ e.cause = op
        /\ f.type = "op.completed" /\ f.turn = t /\ f.cause = n + 2 /\ f.data = n + 2
    BY EvFields
  <1>1. l \in Seq(Events) /\ n \in Nat /\ t \in Nat /\ op \in Int /\ n + 2 \in Int
    BY DEF Announces, Open
  <1>2. e \in Events /\ f \in Events
    <2> HIDE DEF n
    <2> QED BY <1>1, PlainEvent DEF EventTypes, Datas, Of
  <1>3. /\ p \in Events /\ Announces(b, t) /\ PhaseAt(b, Len(b), t, "recording")
        /\ Len(b) = n + 1 /\ b[op] = l[op] /\ op \in 1 .. Len(b)
    BY RecordMore
  <1> HIDE DEF p, e, f, b, x
  <1>4. b \in Seq(Events) /\ Open(b, t) /\ ~Ended(b, Len(b), t) /\ Announced(b, Len(b), t)
    BY <1>3 DEF Announces
  <1>5. Honest(d \o <<f>>)
    <2>1. f.cause = Len(b) + 1 /\ f.data = Len(b) + 1 /\ b[op].type # "phase"
      BY <1>0, <1>1, <1>3
    <2> HIDE DEF n
    <2> QED BY <1>0, <1>2, <1>3, <1>4, <2>1, ResultMore
  <1>6. l \o <<p, e, f>> = d \o <<f>> /\ <<p, e, f>> \in Seq(Events)
    BY <1>1, <1>2, <1>3, InRow DEF b
  <1>7. d \in Seq(Events)
    BY <1>2, <1>4, OneMore
  <1> HIDE DEF d
  <1>8. Standing(w, d \o <<f>>, "advance")
    BY <1>0, <1>2, <1>7, AdvancesMore
  <1>9. ~HasType(<<p, e, f>>, "completed")
    BY <1>0 DEF HasType
  <1> QED BY <1>0, <1>5, <1>6, <1>8, <1>9 DEF Fine, x, p, e, f

(* ... or fails.                                                           *)
LEMMA FailureFine ==
    ASSUME NEW w, NEW l, NEW t, Announces(l, t), NEW c \in 1 .. Len(l), l[c].type = "command"
    PROVE  LET x == Then("advance", << Phase(t, "recording"), Ev("tool.failed", c, t, None),
                                       Ev("op.failed", Len(l) + 2, t, None) >>)
           IN Fine(w, l, x) /\ ~HasType(x.todo, "completed")
  <1> DEFINE n == Len(l)
             p == Phase(t, "recording")
             e == Ev("tool.failed", c, t, None)
             f == Ev("op.failed", n + 2, t, None)
             b == l \o <<p>>
             d == b \o <<e>>
             x == Then("advance", <<p, e, f>>)
  <1>0. /\ x.pc = "advance" /\ x.todo = <<p, e, f>> /\ p.type = "phase"
        /\ e.type = "tool.failed" /\ f.type = "op.failed" /\ f.turn = t /\ f.cause = n + 2
    BY EvFields
  <1>1. l \in Seq(Events) /\ n \in Nat /\ t \in Nat /\ n + 2 \in Int
    BY DEF Announces, Open
  <1>2. f \in Events
    <2> HIDE DEF n
    <2> QED BY <1>1, PlainEvent DEF EventTypes, Datas, Of
  <1>3. /\ p \in Events /\ Announces(b, t) /\ Len(b) = n + 1 /\ b[c] = l[c] /\ c \in 1 .. Len(b)
    BY RecordMore
  <1> HIDE DEF p, f, b, x
  <1>4. b \in Seq(Events) /\ Open(b, t)
        /\ \E i \in 1 .. Len(b) : b[i].type = "op.started" /\ b[i].turn = t
    BY <1>3 DEF Announces
  <1>5. More(b, e, t) /\ e \in Events
    <2>1. b[c].type # "phase"
      BY <1>3
    <2> HIDE DEF n
    <2> QED BY <1>3, <1>4, <2>1, Adds DEF PlainTypes, Endings
  <1> HIDE DEF e
  <1>6. /\ Open(d, t) /\ Len(d) = n + 2 /\ d[n + 2] = e /\ d \in Seq(Events)
        /\ \A i \in 1 .. Len(b) : d[i] = b[i] /\ i \in 1 .. Len(d)
    <2>1. /\ Open(d, t) /\ Len(d) = Len(b) + 1 /\ d[Len(b) + 1] = e
          /\ \A i \in 1 .. Len(b) : d[i] = b[i]
      BY <1>5 DEF More
    <2> HIDE DEF d, n
    <2> QED BY <1>1, <1>3, <2>1 DEF Open
  <1> HIDE DEF d
  <1>7. More(d, f, t)
    <2>1. f.cause \in 1 .. Len(d) /\ d[f.cause].type # "phase" /\ f.type \in OpEnds
      BY <1>0, <1>1, <1>6 DEF OpEnds
    <2>2. \E i \in 1 .. Len(d) : d[i].type = "op.started" /\ d[i].turn = t
      BY <1>4, <1>6
    <2> HIDE DEF n
    <2> QED BY <1>0, <1>2, <1>6, <2>1, <2>2, EndMore
  <1>8. Honest(d \o <<f>>)
    BY <1>7 DEF More, Open
  <1>9. l \o <<p, e, f>> = d \o <<f>> /\ <<p, e, f>> \in Seq(Events)
    BY <1>1, <1>2, <1>3, <1>5, InRow DEF b, d
  <1>10. Standing(w, d \o <<f>>, "advance")
    BY <1>0, <1>2, <1>6, AdvancesMore
  <1>11. ~HasType(<<p, e, f>>, "completed")
    BY <1>0 DEF HasType
  <1> QED BY <1>0, <1>8, <1>9, <1>10, <1>11 DEF Fine, x, p, e, f, n

(* The tool runs: its row changes with what the log is about to say.       *)
LEMMA RunToolHonest ==
    ASSUME ProvInv, RunsHonest, NEW w \in AgentRuns, RunTool(w)
    PROVE  RunsHonest'
  <1> DEFINE l == log[w]
             t == CurrentTurn(w)
             c == CurrentCommand(w)
             n == Len(l)
             op == LastOf(OfTurn(l, t, {"op.started"}))
             rows == ledger[w]
             x == Then("advance", << Phase(t, "recording"), Ev("tool.completed", op, t, None),
                                     Ev("op.completed", n + 2, t, n + 2) >>)
             y == Then("advance", << Phase(t, "recording"), Ev("tool.failed", c, t, None),
                                     Ev("op.failed", n + 2, t, None) >>)
  <1>1. /\ thread[w].todo = <<>> /\ thread[w].pc = "effect" /\ log' = log
        /\ \/ ledger' = [ledger EXCEPT ![w][t] = "succeeded"] /\ Goto(w, x)
           \/ ledger' = [ledger EXCEPT ![w][t] = "failed"] /\ Goto(w, y)
    BY DEF RunTool, At, Running
  <1>2. /\ Standing(w, l, "effect") /\ Honest(l) /\ l \in Seq(Events)
        /\ \A u \in DOMAIN rows : rows[u] = "succeeded" => Announced(l, n, u)
    BY <1>1, HonestAt
  <1>3. Announces(l, t)
    BY <1>2, BeforeEffect DEF CurrentTurn
  <1>4. /\ OfTurn(l, t, {"op.started"}) = { i \in 1 .. n : l[i].type = "op.started" /\ l[i].turn = t }
        /\ OfTurn(l, t, {"command"}) = { i \in 1 .. n : l[i].type = "command" /\ l[i].turn = t }
    BY InTurn
  <1>5. op \in 1 .. n /\ l[op].type = "op.started" /\ c \in 1 .. n /\ l[c].type = "command"
    <2> DEFINE S == OfTurn(l, t, {"op.started"})
               T == OfTurn(l, t, {"command"})
    <2>1. S # {} /\ T # {} /\ S \in SUBSET (1 .. n) /\ T \in SUBSET (1 .. n)
      BY <1>3, <1>4 DEF Announces
    <2>2. LastOf(S) \in S /\ LastOf(T) \in T
      <3> HIDE DEF S, T
      <3> QED BY <1>2, <2>1, LastPosition
    <2> QED BY <1>4, <2>2 DEF CurrentCommand
  <1>6. ASSUME NEW o, ledger' = [ledger EXCEPT ![w][t] = o]
        PROVE  /\ \A u \in DOMAIN ledger'[w] :
                     ledger'[w][u] = "succeeded" => Announced(l, n, u)
               /\ \A v \in AgentRuns : v # w => ledger'[v] = ledger[v]
    <2>1. ledger'[w] = [rows EXCEPT ![t] = o] /\ \A v \in AgentRuns : v # w => ledger'[v] = ledger[v]
      BY <1>6 DEF ProvInv, StateOK
    <2>2. Announced(l, n, t)
      BY <1>3 DEF Announces
    <2> HIDE DEF rows, t, l, n
    <2> QED BY <1>2, <2>1, <2>2
  <1> HIDE DEF t, op
  <1>7. Fine(w, l, x) /\ ~HasType(x.todo, "completed")
    <2> HIDE DEF l
    <2> QED BY <1>3, <1>5, SuccessFine
  <1>8. Fine(w, l, y) /\ ~HasType(y.todo, "completed")
    <2> HIDE DEF l, c
    <2> QED BY <1>3, <1>5, FailureFine
  <1> HIDE DEF x, y
  <1>9. CASE ledger' = [ledger EXCEPT ![w][t] = "succeeded"] /\ Goto(w, x)
    <2>1. /\ \A u \in DOMAIN ledger'[w] : ledger'[w][u] = "succeeded" => Announced(l, n, u)
          /\ \A v \in AgentRuns : v # w => ledger'[v] = ledger[v]
      BY <1>6, <1>9
    <2> QED BY <1>1, <1>7, <1>9, <2>1, GoHonest
  <1>10. CASE ledger' = [ledger EXCEPT ![w][t] = "failed"] /\ Goto(w, y)
    <2>1. /\ \A u \in DOMAIN ledger'[w] : ledger'[w][u] = "succeeded" => Announced(l, n, u)
          /\ \A v \in AgentRuns : v # w => ledger'[v] = ledger[v]
      BY <1>6, <1>10
    <2> QED BY <1>1, <1>8, <1>10, <2>1, GoHonest
  <1> QED BY <1>1, <1>9, <1>10

(* The response of the model and what it leads to.                         *)
LEMMA ModelFine ==
    ASSUME NEW w, NEW l \in Seq(Events), Honest(l), Len(l) > 0, LastIs(l, "request"),
           NEW a \in Answers
    PROVE  LET t == LastOf(Turns(l))
               done == Ev("completed", Len(l), t, a)
               next == Decide(Append(l, done), t, Len(l) + 1, a)
               x == Then(next.pc, << done >> \o next.todo)
           IN Fine(w, l, x) /\ (a \in Choices[w] /\ Chosen(w, l) => Chosen(w, l \o x.todo))
  <1> DEFINE n == Len(l)
             t == LastOf(Turns(l))
             e == Ev("completed", n, t, a)
             b == l \o <<e>>
             next == Decide(b, t, n + 1, a)
             s == next.todo
             g == <<e>>
             x == Then(next.pc, g \o s)
  <1>0. n \in Nat /\ n \in 1 .. n /\ e.type = "completed" /\ e.turn = t /\ e.cause = n /\ e.data = a
    BY EvFields
  <1>1. Open(l, t) /\ l[n].turn = t /\ t \in Nat /\ t > 0 /\ l[n].type = "request"
    <2>1. l[n].type = "request" /\ l[n].type \notin ZeroTypes \cup Endings \cup {"tool.completed"}
      BY DEF LastIs, ZeroTypes, Endings
    <2> QED BY <2>1, LastOpen
  <1>2. e \in Events
    <2> HIDE DEF t, n
    <2> QED BY <1>0, <1>1, CompletedEvent DEF Of
  <1>3. More(l, e, t)
    <2> HIDE DEF e, t
    <2> QED BY <1>0, <1>1, <1>2, AnswerMore
  <1>4. /\ Open(b, t) /\ Len(b) = n + 1 /\ b[n + 1] = e /\ b \in Seq(Events)
        /\ \A i \in 1 .. n : b[i] = l[i]
    BY <1>3 DEF More, Open
  <1>5. b = Append(l, e) /\ <<e>> \in Seq(Events)
    <2> HIDE DEF e
    <2> QED BY <1>2
  <1>6. Fine(w, b, next)
    <2>1. n + 1 \in 1 .. Len(b) /\ b[n + 1].type = "completed" /\ b[n + 1].turn = t
          /\ b[n + 1].data = a
      BY <1>0, <1>4
    <2> HIDE DEF b, n, e
    <2> QED BY <1>4, <2>1, DecideFine
  <1>7. s \in Seq(Events) /\ ~HasType(s, "completed")
    <2>1. n + 1 \in Int /\ Len(b) \in Nat
      BY <1>0, <1>4
    <2> HIDE DEF b, n, t, next
    <2>2. s \in Seq(Events)
      BY <1>6 DEF Fine
    <2> QED BY <1>1, <2>1, <2>2, DecidePiece DEF Calm, Steady, next
  <1> HIDE DEF e, b, next, n, t
  <1>8. x.pc = next.pc /\ x.todo = g \o s
    <2> HIDE DEF g, s
    <2> QED BY DEF Then
  <1> HIDE DEF x
  <1>9. Fine(w, l, x)
    BY <1>5, <1>6, <1>8, FineAfter DEF b
  <1>10. ASSUME a \in Choices[w], Chosen(w, l) PROVE Chosen(w, l \o x.todo)
    <2> DEFINE z == b \o s
    <2>1. l \o x.todo = z
      <3>1. b = l \o g /\ g \in Seq(Events)
        BY <1>5 DEF b
      <3> HIDE DEF g, s
      <3>2. l \o (g \o s) = (l \o g) \o s
        BY <1>7, <3>1, TwoParts
      <3> QED BY <1>8, <3>1, <3>2
    <2>2. Chosen(w, b)
      <3>1. \A k \in 1 .. Len(b) : k \in 1 .. n \/ k = n + 1
        BY <1>0, <1>4
      <3> QED BY <1>0, <1>4, <1>10, <3>1 DEF Chosen, n
    <2> QED BY <1>4, <1>7, <2>1, <2>2, ChosenJoin
  <1> QED BY <1>5, <1>9, <1>10 DEF x, s, g, next, e, b, t, n

(* The model is called.                                                    *)
LEMMA CallModelHonest ==
    ASSUME ProvInv, RunsHonest, NEW w \in AgentRuns, CallModel(w)
    PROVE  RunsHonest'
  <1>0. thread \in [AgentRuns -> [pc : Pcs, msg : Messages \cup {None}, todo : Seq(Events)]]
    BY DEF ProvInv, StateOK
  <1> DEFINE l == log[w]
             t == LastOf(Turns(l))
             done(a) == Ev("completed", Len(l), t, a)
             next(a) == Decide(Append(l, done(a)), t, Len(l) + 1, a)
             X(a) == Then(next(a).pc, << done(a) >> \o next(a).todo)
  <1>1. /\ thread[w].todo = <<>> /\ thread[w].pc = "model" /\ log' = log /\ ledger' = ledger
        /\ \E a \in Choices[w] : Goto(w, X(a))
    BY DEF CallModel, At, Running, CurrentTurn
  <1>2. PICK a \in Choices[w] : Goto(w, X(a))
    BY <1>1
  <1>3. a \in Answers
    BY ProvenanceConstants DEF Answers
  <1>4. /\ l \in Seq(Events) /\ Honest(l) /\ Standing(w, l, "model") /\ Chosen(w, l)
        /\ \A u \in DOMAIN ledger[w] : ledger[w][u] = "succeeded" => Announced(l, Len(l), u)
    BY <1>1, HonestAt
  <1>5. Len(l) > 0 /\ LastIs(l, "request")
    BY <1>4 DEF Standing
  <1> DEFINE x == X(a)
  <1>6. Fine(w, l, x) /\ Chosen(w, l \o x.todo)
    <2> HIDE DEF l
    <2> QED BY <1>3, <1>4, <1>5, ModelFine
  <1>7. Goto(w, x)
    BY <1>2
  <1> HIDE DEF x
  <1>8. /\ thread'[w].pc = x.pc /\ thread'[w].todo = x.todo
        /\ \A v \in AgentRuns : v # w => thread'[v] = thread[v]
    BY <1>0, <1>7 DEF Goto
  <1>9. LogAfter(w)' = l \o x.todo
    BY <1>1, <1>8 DEF LogAfter
  <1>10. Honest(LogAfter(w)') /\ Standing(w, LogAfter(w)', thread'[w].pc) /\ Chosen(w, LogAfter(w)')
    BY <1>6, <1>8, <1>9 DEF Fine
  <1> QED BY <1>1, <1>4, <1>8, <1>10, OneHonest

(* What was announced stays announced.                                     *)
LEMMA AnnouncedGrows ==
    ASSUME NEW l \in Seq(Events), NEW s \in Seq(Events), NEW t, Announced(l, Len(l), t)
    PROVE  Announced(l \o s, Len(l \o s), t)
  <1> DEFINE a == l \o s
  <1>1. \A k \in 1 .. Len(l) : a[k] = l[k] /\ k \in 1 .. Len(a)
    OBVIOUS
  <1> HIDE DEF a
  <1>2. Announced(a, Len(a), t)
    BY <1>1 DEF Announced
  <1> QED BY <1>2 DEF a

(* The appends are written.                                                *)
LEMMA WriteHonest ==
    ASSUME ProvInv, RunsHonest, NEW w \in AgentRuns, Write(w)
    PROVE  RunsHonest'
  <1> DEFINE l == log[w]
             s == thread[w].todo
             a == l \o s
  <1>0. /\ thread \in [AgentRuns -> [pc : Pcs, msg : Messages \cup {None}, todo : Seq(Events)]]
        /\ log \in [AgentRuns -> Seq(Events)]
    BY DEF ProvInv, StateOK
  <1>1. /\ log' = [log EXCEPT ![w] = a] /\ thread' = [thread EXCEPT ![w].todo = <<>>]
        /\ ledger' = ledger
    BY DEF Write, LogAfter
  <1>2. l \in Seq(Events) /\ s \in Seq(Events) /\ a \in Seq(Events)
    BY <1>0, Joined
  <1>3. /\ log'[w] = a /\ thread'[w].todo = <<>> /\ thread'[w].pc = thread[w].pc
        /\ \A v \in AgentRuns : v # w => log'[v] = log[v] /\ thread'[v] = thread[v]
    BY <1>0, <1>1
  <1>4. LogAfter(w) = a /\ LogAfter(w)' = a
    BY <1>2, <1>3, Appends DEF LogAfter
  <1>5. /\ Honest(a) /\ Standing(w, a, thread[w].pc) /\ Chosen(w, a)
        /\ \A t \in DOMAIN ledger[w] : ledger[w][t] = "succeeded" => Announced(l, Len(l), t)
    BY <1>4 DEF RunsHonest, HonestRun
  <1>6. \A t \in DOMAIN ledger[w] : ledger[w][t] = "succeeded" => Announced(a, Len(a), t)
    BY <1>2, <1>5, AnnouncedGrows
  <1> QED BY <1>1, <1>3, <1>4, <1>5, <1>6, OneHonest

(* A handler is interrupted, and some of its appends are written.          *)
LEMMA InterruptHonest ==
    ASSUME ProvInv, RunsHonest, NEW w \in AgentRuns, Interrupt(w)
    PROVE  RunsHonest'
  <1> DEFINE l == log[w]
             s == thread[w].todo
             a == l \o s
  <1>0. /\ thread \in [AgentRuns -> [pc : Pcs, msg : Messages \cup {None}, todo : Seq(Events)]]
        /\ log \in [AgentRuns -> Seq(Events)]
    BY DEF ProvInv, StateOK
  <1>1. PICK k \in 0 .. Len(s) : log' = [log EXCEPT ![w] = l \o SubSeq(s, 1, k)]
    BY DEF Interrupt
  <1>2. thread' = [thread EXCEPT ![w] = Idle] /\ ledger' = ledger
    BY DEF Interrupt
  <1> DEFINE r == SubSeq(s, 1, k)
             b == l \o r
  <1>3. l \in Seq(Events) /\ s \in Seq(Events)
    BY <1>0
  <1>4. r \in Seq(Events) /\ Len(r) = k /\ \A i \in 1 .. k : r[i] = s[i] /\ i \in 1 .. Len(s)
    <2> HIDE DEF s
    <2> QED BY <1>3
  <1>5. /\ a \in Seq(Events) /\ b \in Seq(Events) /\ Len(b) <= Len(a)
        /\ \A i \in 1 .. Len(b) : a[i] = b[i] /\ i \in 1 .. Len(a)
    <2> HIDE DEF l, s, r
    <2> QED BY <1>3, <1>4
  <1>6. /\ log'[w] = b /\ thread'[w].todo = <<>> /\ thread'[w].pc = "idle"
        /\ \A v \in AgentRuns : v # w => log'[v] = log[v] /\ thread'[v] = thread[v]
    BY <1>0, <1>1, <1>2 DEF Idle
  <1>7. LogAfter(w) = a /\ LogAfter(w)' = b
    BY <1>5, <1>6, Appends DEF LogAfter
  <1>8. /\ Honest(a) /\ Chosen(w, a)
        /\ \A t \in DOMAIN ledger[w] : ledger[w][t] = "succeeded" => Announced(l, Len(l), t)
    BY <1>7 DEF RunsHonest, HonestRun
  <1>9. \A t \in DOMAIN ledger[w] : ledger[w][t] = "succeeded" => Announced(b, Len(b), t)
    <2> HIDE DEF r
    <2> QED BY <1>3, <1>4, <1>8, AnnouncedGrows
  <1> HIDE DEF a, b
  <1>10. Honest(b) /\ Chosen(w, b) /\ Standing(w, b, "idle")
    BY <1>5, <1>8, HonestPrefix DEF Chosen, Standing
  <1> QED BY <1>2, <1>6, <1>7, <1>9, <1>10, OneHonest

(* A step that leaves both agent runs alone.                               *)
LEMMA SameHonest ==
    ASSUME RunsHonest, UNCHANGED <<log, ledger, thread>> PROVE RunsHonest'
  <1>1. \A w \in AgentRuns : LogAfter(w)' = LogAfter(w)
    BY DEF LogAfter
  <1> QED BY <1>1 DEF RunsHonest, HonestRun

(* What a handler writes before the loop: the seed of an empty log, else   *)
(* the beats of its turn and the mirrored response.                        *)
LEMMA PreludeHonest ==
    ASSUME ProvInv, WakeInv, NEW w \in AgentRuns, NEW m \in sent, m.to = w, Honest(log[w])
    PROVE  LET a == log[w] \o Prelude(w, m) IN Honest(a) /\ Len(a) > 0
  <1> DEFINE l == log[w]
             n == Len(l)
             R == Where(l, LAMBDA v : v.type = "ready" /\ v.data = m.n)
             here == LastOf(R)
             hb == Ev("heartbeat", here, 0, m.n)
             rn == Ev("renewed", here, 0, m.n)
             an == Ev("responded", Outside, 0, None)
             sd == Ev("seed", Outside, 0, None)
             beat == IF w = "asg" /\ m.kind = "ready"
                        /\ Where(l, LAMBDA v : v.type = "renewed" /\ v.data = m.n) = {}
                     THEN <<hb, rn>> ELSE <<>>
             mirror == IF m.kind = "responded" /\ OfType(l, {"responded"}) = {}
                       THEN <<an>> ELSE <<>>
             seed == IF l = <<>> THEN <<sd>> ELSE <<>>
  <1>0. l \in Seq(Events) /\ n \in Nat /\ m.n \in Nat
    BY DEF ProvInv, StateOK, Messages
  <1>1. Prelude(w, m) = beat \o mirror \o seed
    BY DEF Prelude
  <1>2. /\ an \in Events /\ sd \in Events
        /\ an.turn = 0 /\ an.type = "responded" /\ sd.type = "seed" /\ sd.turn = 0 /\ sd.cause = Outside
    BY DEF Events, EventTypes, Datas, Outside, Ev
  <1>3. m.kind = "ready" => HasReady(l, m.n)
    <2>1. m.kind = "ready" => m = Ready(w, m.n)
      BY DEF ProvInv, StateOK, Messages, Ready
    <2> QED BY <1>0, <2>1 DEF WakeInv, ReadyOK
  <1>4. m.kind = "responded" => n > 0
    <2> SUFFICES ASSUME m.kind = "responded" PROVE n > 0
      OBVIOUS
    <2>1. m = Responded /\ w = "asg"
      BY DEF WakeInv, MailOK, Responded
    <2>2. answer = "accepted" /\ asked # {}
      BY <2>1 DEF WakeInv, AnswerOK, AskOK
    <2>3. PICK u : Past(l, u)
      BY <2>1, <2>2 DEF WakeInv, PastOK
    <2> QED BY <1>0, <2>3 DEF Past
  <1>5. CASE n = 0
    <2>1. l = <<>> /\ ~HasReady(l, m.n)
      BY <1>0, <1>5 DEF HasReady
    <2>2. beat = <<>> /\ mirror = <<>> /\ seed = <<sd>>
      <3>1. m.kind # "ready" /\ m.kind # "responded"
        BY <1>3, <1>4, <1>5, <2>1
      <3> QED BY <2>1, <3>1
    <2> DEFINE g == <<sd>>
    <2>3. g \in Seq(Events) /\ Len(g) = 1 /\ g[1] = sd
      BY <1>2
    <2>4. l \o Prelude(w, m) = g
      <3> HIDE DEF g
      <3>1. <<>> \o <<>> = <<>> /\ <<>> \o g = g
        BY <2>3, Appends, Short
      <3> HIDE DEF beat, mirror, seed, l
      <3> QED BY <1>1, <2>1, <2>2, <3>1 DEF g
    <2> HIDE DEF g, sd
    <2>5. Sound(g, 1)
      <3>1. Caused(g, 1) /\ Chained(g, 1) /\ Operated(g, 1)
        BY <1>2, <2>3 DEF Caused, Chained, Operated, PhaseAt, OpEnds
      <3>2. Ordered(g, 1)
        BY <1>2, <2>3 DEF Ordered, ZeroTypes
      <3> QED BY <3>1, <3>2 DEF Sound
    <2>6. \A k \in 1 .. Len(g) : k = 1
      BY <2>3
    <2>7. Honest(g)
      BY <1>2, <2>3, <2>5, <2>6 DEF Honest
    <2> QED BY <2>3, <2>4, <2>7
  <1>6. CASE n > 0
    <2> DEFINE b == l \o beat
               c == b \o mirror
    <2>1. seed = <<>>
      BY <1>0, <1>6
    <2>2. beat \in Seq(Events) /\ Honest(b) /\ b \in Seq(Events) /\ Len(b) > 0
      <3>1. CASE beat = <<>>
        <4>1. b = l
          <5> HIDE DEF beat
          <5> QED BY <1>0, <3>1, Appends
        <4> HIDE DEF beat, b
        <4> QED BY <1>0, <1>6, <3>1, <4>1, Short
      <3>2. CASE beat # <<>>
        <4>0. beat = <<hb, rn>> /\ m.kind = "ready"
          BY <3>2
        <4>1. R = { k \in 1 .. n : l[k].type = "ready" /\ l[k].data = m.n }
          BY DEF Where
        <4>2. R # {} /\ R \in SUBSET (1 .. n)
          BY <1>3, <4>0, <4>1 DEF HasReady
        <4>3. here \in R
          <5> HIDE DEF R
          <5> QED BY <1>0, <4>2, LastPosition
        <4>4. here \in 1 .. n /\ l[here].type = "ready"
          BY <4>1, <4>3
        <4> HIDE DEF here
        <4>5. /\ hb \in Events /\ hb.turn = 0 /\ hb.type = "heartbeat" /\ hb.cause = here
              /\ rn \in Events /\ rn.turn = 0 /\ rn.type = "renewed" /\ rn.cause = here
          <5>1. m.n \in Datas /\ here \in Int
            BY <1>0, <4>4 DEF Datas
          <5> QED BY <5>1 DEF Events, EventTypes, Ev
        <4> DEFINE h == l \o <<hb>>
        <4> HIDE DEF hb, rn
        <4>6. Honest(h)
          BY <1>0, <1>6, <4>4, <4>5, MoreZero DEF ZeroTypes
        <4>7. /\ h \in Seq(Events) /\ Len(h) = n + 1 /\ h[here] = l[here]
          BY <1>0, <4>4, <4>5, OneMore
        <4> HIDE DEF h
        <4>8. Honest(h \o <<rn>>)
          <5>1. Len(h) > 0 /\ here \in 1 .. Len(h) /\ h[here].type # "phase"
            BY <1>0, <4>4, <4>7
          <5> QED BY <4>5, <4>6, <4>7, <5>1, MoreZero DEF ZeroTypes
        <4>9. /\ l \o <<hb, rn>> = h \o <<rn>> /\ <<hb, rn>> \in Seq(Events)
          BY <1>0, <4>5, InRow DEF h
        <4>10. h \o <<rn>> \in Seq(Events) /\ Len(h \o <<rn>>) > 0
          BY <1>0, <4>5, <4>7, OneMore
        <4>11. b = h \o <<rn>>
          <5> HIDE DEF beat
          <5> QED BY <4>0, <4>9
        <4> HIDE DEF b, beat
        <4> QED BY <4>0, <4>8, <4>9, <4>10, <4>11
      <3> QED BY <3>1, <3>2
    <2> HIDE DEF beat
    <2>3. mirror \in Seq(Events) /\ Honest(c) /\ c \in Seq(Events) /\ Len(c) > 0
      <3> HIDE DEF b, an
      <3>1. CASE mirror = <<>>
        <4>1. c = b
          <5> HIDE DEF mirror
          <5> QED BY <2>2, <3>1, Appends
        <4> HIDE DEF mirror, c
        <4> QED BY <2>2, <3>1, <4>1, Short
      <3>2. CASE mirror # <<>>
        <4>1. mirror = <<an>>
          BY <3>2
        <4>2. /\ Honest(b \o <<an>>) /\ b \o <<an>> \in Seq(Events) /\ Len(b \o <<an>>) > 0
              /\ <<an>> \in Seq(Events)
          BY <1>2, <2>2, MoreZero, OneMore DEF ZeroTypes
        <4> HIDE DEF mirror
        <4> QED BY <4>1, <4>2
      <3> QED BY <3>1, <3>2
    <2> HIDE DEF mirror
    <2>4. Prelude(w, m) = beat \o mirror
      <3>1. beat \o mirror \in Seq(Events)
        BY <2>2, <2>3, Joined
      <3>2. (beat \o mirror) \o <<>> = beat \o mirror
        BY <3>1, Appends
      <3> HIDE DEF seed
      <3> QED BY <1>1, <2>1, <3>2
    <2>5. l \o (beat \o mirror) = c
      <3> HIDE DEF l
      <3> QED BY <1>0, <2>2, <2>3, TwoParts
    <2> QED BY <2>3, <2>4, <2>5
  <1> QED BY <1>0, <1>5, <1>6

(* A delivery is taken up.                                                 *)
LEMMA BeginHonest ==
    ASSUME ProvInv, WakeInv, RunsHonest, NEW w \in AgentRuns, NEW m \in sent, Begin(w, m)
    PROVE  RunsHonest'
  <1> DEFINE l == log[w]
             p == Prelude(w, m)
             a == l \o p
  <1>0. thread \in [AgentRuns -> [pc : Pcs, msg : Messages \cup {None}, todo : Seq(Events)]]
    BY DEF ProvInv, StateOK
  <1>1. /\ thread[w].pc = "idle" /\ m.to = w /\ log' = log /\ ledger' = ledger
        /\ \/ thread' = thread
           \/ \E next \in RunOnce(w, a) :
                 thread' = [thread EXCEPT ![w] = [pc |-> next.pc, msg |-> m, todo |-> p \o next.todo]]
    BY DEF Begin, Running
  <1>2. thread[w].todo = <<>>
    BY <1>1 DEF ProvInv, RunsOK, RunOK
  <1>3. CASE thread' = thread
    BY <1>1, <1>3, SameHonest
  <1>4. ASSUME NEW next \in RunOnce(w, a),
               thread' = [thread EXCEPT ![w] = [pc |-> next.pc, msg |-> m, todo |-> p \o next.todo]]
        PROVE  RunsHonest'
    <2>1. /\ l \in Seq(Events) /\ LogInv(l) /\ Honest(l) /\ Chosen(w, l)
          /\ \A t \in DOMAIN ledger[w] : ledger[w][t] = "succeeded" => Announced(l, Len(l), t)
      BY <1>2, HonestAt
    <2>2. Honest(a) /\ Len(a) > 0
      BY <1>1, <2>1, PreludeHonest
    <2>3. /\ p \in Seq(Events) /\ LogInv(a) /\ ~HasType(p, "completed")
      <3>1. m.n \in Nat
        BY DEF ProvInv, StateOK, Messages
      <3>2. /\ p \in Seq(Events) /\ LogInv(a)
            /\ \A k \in 1 .. Len(p) : p[k].type \in {"heartbeat", "renewed", "responded", "seed"}
        BY <2>1, <3>1, PreludeInv
      <3> HIDE DEF p
      <3> QED BY <3>2 DEF HasType
    <2> HIDE DEF p
    <2>4. \A t \in DOMAIN ledger[w] : ledger[w][t] = "succeeded" => Announced(a, Len(a), t)
      BY <2>1, <2>3, AnnouncedGrows
    <2>5. Fine(w, a, next)
      <3> HIDE DEF a
      <3> QED BY <1>4, <2>2, <2>3, <2>4, RunOnceFine
    <2>6. ~HasType(next.todo, "completed") /\ next.todo \in Seq(Events)
      <3> HIDE DEF a
      <3> QED BY <1>4, <2>3, <2>5, RunOnceStep DEF LoopStep, Fine
    <2> DEFINE s == next.todo
               q == p \o s
    <2>7. /\ thread'[w].pc = next.pc /\ thread'[w].todo = q
          /\ \A v \in AgentRuns : v # w => thread'[v] = thread[v]
      BY <1>0, <1>4
    <2>8. LogAfter(w)' = a \o s
      <3>1. l \o q = a \o s
        <4> HIDE DEF l, s
        <4> QED BY <2>1, <2>3, <2>6, TwoParts DEF s
      <3> HIDE DEF q
      <3> QED BY <1>1, <2>7, <3>1 DEF LogAfter
    <2>9. Chosen(w, a \o s)
      <3>1. a \in Seq(Events) /\ Chosen(w, a)
        BY <2>1, <2>3, ChosenJoin, Joined
      <3> HIDE DEF a
      <3> QED BY <2>6, <3>1, ChosenJoin
    <2>10. Honest(LogAfter(w)') /\ Standing(w, LogAfter(w)', thread'[w].pc) /\ Chosen(w, LogAfter(w)')
      BY <2>5, <2>7, <2>8, <2>9 DEF Fine
    <2> QED BY <1>1, <2>1, <2>7, <2>10, OneHonest
  <1> QED BY <1>1, <1>3, <1>4

-----------------------------------------------------------------------------
(* The checks of the kernel on an honest log.                              *)

(* The first of some positions.                                            *)
LEMMA FirstPosition ==
    ASSUME NEW l \in Seq(Events), NEW S \in SUBSET (1 .. Len(l)), S # {}
    PROVE  FirstOf(S) \in S /\ \A y \in S : FirstOf(S) <= y
  <1>1. S \in SUBSET Nat
    OBVIOUS
  <1>2. \E x \in S : \A y \in S : x <= y
    BY <1>1, LeastOf
  <1>3. \E x \in S : \A y \in S : y >= x
    BY <1>1, <1>2
  <1>4. FirstOf(S) = CHOOSE k \in S : \A j \in S : j >= k
    BY DEF FirstOf
  <1>5. FirstOf(S) \in S /\ \A y \in S : y >= FirstOf(S)
    BY <1>3, <1>4, Zenon
  <1> QED BY <1>1, <1>5

(* The table of _causal_chain_reaches_seed over the first N events.        *)
IsReach(f, l, N) ==
    f = [k \in 0 .. N |->
          IF k = 0 THEN FALSE
          ELSE \/ l[k].type \in {"seed", "responded"}
               \/ l[k].cause \in 1 .. k - 1 /\ f[l[k].cause]]

(* There is one.                                                           *)
LEMMA ReachExists ==
    ASSUME NEW l, NEW N \in Nat PROVE \E f : IsReach(f, l, N)
  <1> DEFINE T == { n \in Nat : ~ \E f : IsReach(f, l, n) }
  <1> SUFFICES ASSUME T # {} PROVE FALSE
    OBVIOUS
  <1>1. PICK n \in T : \A m \in T : n <= m
    <2>1. T \in SUBSET Nat
      OBVIOUS
    <2> HIDE DEF T
    <2> QED BY <2>1, LeastOf
  <1>2. n # 0
    <2> DEFINE f == [k \in 0 .. 0 |-> FALSE]
    <2>1. IsReach(f, l, 0)
      BY DEF IsReach
    <2> QED BY <1>1, <2>1
  <1>3. PICK f : IsReach(f, l, n - 1)
    <2>1. n - 1 \in Nat /\ ~(n <= n - 1)
      BY <1>1, <1>2
    <2>2. n - 1 \notin T
      BY <1>1, <2>1
    <2> QED BY <2>1, <2>2
  <1> DEFINE y == \/ l[n].type \in {"seed", "responded"}
                  \/ l[n].cause \in 1 .. n - 1 /\ f[l[n].cause]
             g == [k \in 0 .. n |-> IF k = n THEN y ELSE f[k]]
  <1>4. n \in Nat /\ n > 0
    BY <1>1, <1>2
  <1>5. ASSUME NEW k \in 0 .. n
        PROVE  g[k] = IF k = 0 THEN FALSE
                      ELSE \/ l[k].type \in {"seed", "responded"}
                           \/ l[k].cause \in 1 .. k - 1 /\ g[l[k].cause]
    <2>0. ASSUME NEW c \in 1 .. k - 1 PROVE g[c] = f[c]
      <3>1. c \in 0 .. n /\ c # n
        BY <1>4
      <3> HIDE DEF y
      <3> QED BY <3>1
    <2>1. CASE k = n
      <3>1. g[k] = y /\ k # 0
        <4> HIDE DEF y
        <4> QED BY <1>4, <2>1
      <3> HIDE DEF g
      <3> QED BY <2>0, <2>1, <3>1
    <2>2. CASE k # n
      <3>1. k \in 0 .. n - 1 /\ g[k] = f[k]
        BY <1>4, <2>2
      <3>2. f[k] = IF k = 0 THEN FALSE
                   ELSE \/ l[k].type \in {"seed", "responded"}
                        \/ l[k].cause \in 1 .. k - 1 /\ f[l[k].cause]
        BY <1>3, <3>1 DEF IsReach
      <3> HIDE DEF g
      <3> QED BY <2>0, <3>1, <3>2
    <2> QED BY <2>1, <2>2
  <1>6. IsReach(g, l, n)
    <2>1. g = [k \in 0 .. n |-> g[k]]
      OBVIOUS
    <2> HIDE DEF g
    <2> QED BY <1>5, <2>1 DEF IsReach
  <1> QED BY <1>1, <1>6

(* The kernel reads such a table.                                          *)
LEMMA ReachTable ==
    ASSUME NEW l, Len(l) \in Nat, NEW p
    PROVE  \E f : IsReach(f, l, Len(l)) /\ ReachesSeed(l, p) = f[p]
  <1> DEFINE f == CHOOSE f : f = [k \in 0 .. Len(l) |->
          IF k = 0 THEN FALSE
          ELSE \/ l[k].type \in {"seed", "responded"}
               \/ l[k].cause \in 1 .. k - 1 /\ f[l[k].cause]]
  <1>1. \E g : g = [k \in 0 .. Len(l) |->
          IF k = 0 THEN FALSE
          ELSE \/ l[k].type \in {"seed", "responded"}
               \/ l[k].cause \in 1 .. k - 1 /\ g[l[k].cause]]
    <2>1. \E g : IsReach(g, l, Len(l))
      BY ReachExists
    <2> QED BY <2>1, Zenon DEF IsReach
  <1>2. f = [k \in 0 .. Len(l) |->
          IF k = 0 THEN FALSE
          ELSE \/ l[k].type \in {"seed", "responded"}
               \/ l[k].cause \in 1 .. k - 1 /\ f[l[k].cause]]
    BY <1>1, Zenon
  <1>3. ReachesSeed(l, p) = f[p]
    BY Zenon DEF ReachesSeed
  <1> HIDE DEF f
  <1>4. IsReach(f, l, Len(l))
    BY <1>2, Zenon DEF IsReach
  <1> QED BY <1>3, <1>4

(* In an honest log without an interrupted start, every event but a phase  *)
(* is traced back to the seed or to the peer's response.                   *)
LEMMA HonestReaches ==
    ASSUME NEW l \in Seq(Events), Honest(l), ~InterruptedStart(l),
           NEW p \in 1 .. Len(l), l[p].type # "phase"
    PROVE  ReachesSeed(l, p)
  <1>1. PICK f : IsReach(f, l, Len(l)) /\ ReachesSeed(l, p) = f[p]
    BY ReachTable
  <1>2. \A k \in 1 .. Len(l) :
           f[k] = (\/ l[k].type \in {"seed", "responded"}
                   \/ l[k].cause \in 1 .. k - 1 /\ f[l[k].cause])
    <2>1. \A k \in 0 .. Len(l) :
            f[k] = IF k = 0 THEN FALSE
                   ELSE \/ l[k].type \in {"seed", "responded"}
                        \/ l[k].cause \in 1 .. k - 1 /\ f[l[k].cause]
      BY <1>1 DEF IsReach
    <2>2. \A k \in 1 .. Len(l) : k \in 0 .. Len(l) /\ k # 0
      OBVIOUS
    <2> QED BY <2>1, <2>2
  <1> DEFINE B == { k \in 1 .. Len(l) : l[k].type # "phase" /\ ~f[k] }
  <1>3. B = {}
    <2> SUFFICES ASSUME B # {} PROVE FALSE
      OBVIOUS
    <2>1. PICK k \in B : \A j \in B : k <= j
      <3>1. B \in SUBSET Nat
        OBVIOUS
      <3> HIDE DEF B
      <3> QED BY <3>1, LeastOf
    <2>2. k \in 1 .. Len(l) /\ l[k].type # "phase" /\ ~f[k]
      BY <2>1
    <2>3. l[k].type \notin {"seed", "responded"}
      BY <1>2, <2>2
    <2>4. Caused(l, k)
      BY <2>2 DEF Honest, Sound
    <2> DEFINE c == l[k].cause
    <2>5. c \in 1 .. k - 1 /\ (l[c].type = "phase" => l[k].type = "capability")
      BY <2>2, <2>3, <2>4 DEF Caused
    <2>6. l[c].type # "phase"
      <3> SUFFICES ASSUME l[c].type = "phase" PROVE FALSE
        OBVIOUS
      <3>1. k \in OfType(l, {"capability"}) /\ c > 0
        BY <2>2, <2>5 DEF OfType, Where
      <3> QED BY <3>1 DEF InterruptedStart
    <2>7. c \in 1 .. Len(l) /\ ~(k <= c)
      BY <2>2, <2>5
    <2>8. c \notin B
      BY <2>1, <2>7
    <2>9. f[c]
      BY <2>6, <2>7, <2>8
    <2> QED BY <1>2, <2>2, <2>5, <2>9
  <1>4. f[p]
    BY <1>3
  <1> QED BY <1>1, <1>4

(* Every command is one the model gave.                                    *)
LEMMA CommandsValid ==
    ASSUME NEW l \in Seq(Events), Honest(l), ~InterruptedStart(l),
           NEW c \in 1 .. Len(l), l[c].type = "command"
    PROVE  HasValidModelChain(l, c)
  <1> DEFINE r == l[c].cause
             q == l[r].cause
             g == l[q].cause
  <1>1. Caused(l, c) /\ Chained(l, c)
    BY DEF Honest, Sound
  <1>2. r \in 1 .. c - 1 /\ l[r].type = "completed" /\ l[r].turn = l[c].turn /\ r \in 1 .. Len(l)
    BY <1>1 DEF Caused, Chained, From
  <1> HIDE DEF r
  <1>3. Caused(l, r) /\ Chained(l, r)
    BY <1>2 DEF Honest, Sound
  <1>4. q \in 1 .. r - 1 /\ l[q].type = "request" /\ l[q].turn = l[r].turn /\ q \in 1 .. Len(l)
    BY <1>2, <1>3 DEF Caused, Chained, From
  <1> HIDE DEF q
  <1>5. Caused(l, q)
    BY <1>4 DEF Honest, Sound
  <1>6. g \in 1 .. q - 1 /\ l[g].type # "phase" /\ g \in 1 .. Len(l)
    BY <1>4, <1>5 DEF Caused
  <1>7. ReachesSeed(l, g)
    BY <1>6, HonestReaches
  <1> QED BY <1>2, <1>4, <1>6, <1>7 DEF HasValidModelChain, r, q

(* Every tool result before a submission stands on its operation, the      *)
(* request of the tool and the command behind them.                        *)
LEMMA ToolsValid ==
    ASSUME NEW l \in Seq(Events), Honest(l), ~InterruptedStart(l),
           NEW s \in 1 .. Len(l), l[s].type = "submitted",
           NEW k \in 1 .. Len(l), l[k].type = "tool.completed"
    PROVE  HasValidToolChain(l, k, s)
  <1> DEFINE t == l[k].turn
             O == OfTurn(l, t, {"op.started"})
             op == FirstOf(O)
             Q == Where(l, LAMBDA e : e.type = "tool.requested" /\ e.turn = t /\ e.cause = op)
             req == FirstOf(Q)
             D == Where(l, LAMBDA e : e.type = "op.completed" /\ e.turn = t /\ e.cause = k /\ e.data = k)
             done == FirstOf(D)
             c == l[op].cause
  <1>0. \A i \in 1 .. Len(l) : Caused(l, i) /\ Chained(l, i) /\ Ordered(l, i) /\ Operated(l, i)
    BY DEF Honest, Sound
  <1>1. PICK o, q \in 1 .. k - 1 : /\ l[o].type = "op.started" /\ l[o].turn = t
                                   /\ l[q].type = "tool.requested" /\ l[q].turn = t /\ l[q].cause = o
    BY <1>0 DEF Operated, Announced
  <1>2. o \in 1 .. Len(l) /\ q \in 1 .. Len(l) /\ o < k /\ q < k
    BY <1>1
  <1>3. O = { i \in 1 .. Len(l) : l[i].type = "op.started" /\ l[i].turn = t }
    BY InTurn
  <1>4. op \in 1 .. Len(l) /\ l[op].type = "op.started" /\ l[op].turn = t /\ op <= o
    <2>1. o \in O /\ O \in SUBSET (1 .. Len(l))
      BY <1>1, <1>2, <1>3
    <2>2. op \in O /\ op <= o
      <3> HIDE DEF O
      <3> QED BY <2>1, FirstPosition
    <2> QED BY <1>3, <2>2
  <1> HIDE DEF op
  <1>5. op = o
    <2> SUFFICES ASSUME op # o PROVE FALSE
      OBVIOUS
    <2>1. op \in 1 .. o - 1
      BY <1>2, <1>4
    <2> QED BY <1>0, <1>1, <1>2, <1>4, <2>1 DEF Operated
  <1>6. Q = { i \in 1 .. Len(l) : l[i].type = "tool.requested" /\ l[i].turn = t /\ l[i].cause = op }
    BY DEF Where
  <1>7. req \in 1 .. Len(l) /\ l[req].type = "tool.requested" /\ l[req].cause = op /\ req <= q
    <2>1. q \in Q /\ Q \in SUBSET (1 .. Len(l))
      BY <1>1, <1>2, <1>5, <1>6
    <2>2. req \in Q /\ req <= q
      <3> HIDE DEF Q
      <3> QED BY <2>1, FirstPosition
    <2> QED BY <1>6, <2>2
  <1> HIDE DEF req
  <1>8. op < req /\ req < k
    <2>1. op \in 1 .. req - 1
      BY <1>0, <1>7 DEF Caused
    <2> QED BY <1>2, <1>4, <1>7, <2>1
  <1>9. k < s
    <2> SUFFICES ASSUME ~(k < s) PROVE FALSE
      OBVIOUS
    <2>1. s \in 1 .. k - 1
      BY DEF Ordered
    <2>2. l[k].turn # 0
      BY <1>0 DEF Ordered, ZeroTypes
    <2> QED BY <1>0, <2>1, <2>2 DEF Ordered, Endings
  <1>10. Recorded(l, k) /\ k + 1 \in 1 .. Len(l) /\ k + 1 < s
    <2>1. l[s].turn # 0 /\ k \in 1 .. s - 1
      BY <1>0, <1>9 DEF Ordered, ZeroTypes
    <2>2. Recorded(l, k)
      BY <1>0, <2>1 DEF Ordered
    <2>3. k + 1 # s
      BY <2>2 DEF Recorded
    <2> QED BY <1>9, <2>2, <2>3
  <1>11. D = { i \in 1 .. Len(l) : l[i].type = "op.completed" /\ l[i].turn = t /\ l[i].cause = k /\ l[i].data = k }
    BY DEF Where
  <1>12. done \in 1 .. Len(l) /\ l[done].type = "op.completed" /\ l[done].cause = k /\ done <= k + 1
    <2>1. k + 1 \in D /\ D \in SUBSET (1 .. Len(l))
      BY <1>10, <1>11 DEF Recorded
    <2>2. done \in D /\ done <= k + 1
      <3> HIDE DEF D
      <3> QED BY <2>1, FirstPosition
    <2> QED BY <1>11, <2>2
  <1> HIDE DEF done
  <1>13. k < done /\ done < s
    <2>1. k \in 1 .. done - 1
      BY <1>0, <1>12 DEF Caused
    <2> QED BY <1>10, <1>12, <2>1
  <1>14. c \in 1 .. op - 1 /\ l[c].type = "command" /\ l[c].data = "tool" /\ c \in 1 .. Len(l)
    <2>1. Caused(l, op) /\ Chained(l, op)
      BY <1>0, <1>4
    <2> QED BY <1>4, <2>1 DEF Caused, Chained, From
  <1> HIDE DEF c
  <1>15. HasValidModelChain(l, c)
    BY <1>14, CommandsValid
  <1>16. op # 0 /\ req # 0 /\ done # 0
    BY <1>4, <1>7, <1>12
  <1> QED BY <1>8, <1>13, <1>14, <1>15, <1>16 DEF HasValidToolChain, c, op, req, done

(* A submission in an honest log is accepted.                              *)
LEMMA SubmissionValid ==
    ASSUME NEW l \in Seq(Events), Honest(l), ~InterruptedStart(l), HasType(l, "submitted")
    PROVE  ValidateAgentRun(l) = "accepted" /\ ToolEvidence(l)
  <1> DEFINE S == OfType(l, {"submitted"})
             s == LastOf(S)
             c == l[s].cause
             G == Where(l, LAMBDA e : e.type = "gate.passed" /\ e.cause = c /\ e.turn = l[s].turn)
             gate == FirstOf(G)
  <1>0. \A i \in 1 .. Len(l) : Caused(l, i) /\ Chained(l, i)
    BY DEF Honest, Sound
  <1>1. S = { i \in 1 .. Len(l) : l[i].type = "submitted" }
    BY DEF OfType, Where
  <1>2. s \in 1 .. Len(l) /\ l[s].type = "submitted"
    <2>1. S # {} /\ S \in SUBSET (1 .. Len(l))
      BY <1>1 DEF HasType
    <2>2. s \in S
      <3> HIDE DEF S
      <3> QED BY <2>1, LastPosition
    <2> QED BY <1>1, <2>2
  <1> HIDE DEF s
  <1>3. c \in 1 .. s - 1 /\ l[c].type = "command" /\ l[c].data = "submit" /\ c \in 1 .. Len(l)
    <2>1. Caused(l, s) /\ Chained(l, s)
      BY <1>0, <1>2
    <2> QED BY <1>2, <2>1 DEF Caused, Chained, From
  <1>4. PICK g \in 1 .. s - 1 : l[g].type = "gate.passed" /\ l[g].cause = c /\ l[g].turn = l[s].turn
    <2>1. Chained(l, s)
      BY <1>0, <1>2
    <2> QED BY <1>2, <2>1 DEF Chained
  <1>5. PICK i \in 1 .. s - 1 : l[i].type = "tool.completed"
    <2>1. Chained(l, s)
      BY <1>0, <1>2
    <2> QED BY <1>2, <2>1 DEF Chained
  <1> HIDE DEF c
  <1>6. G = { j \in 1 .. Len(l) : l[j].type = "gate.passed" /\ l[j].cause = c /\ l[j].turn = l[s].turn }
    BY DEF Where
  <1>7. gate \in 1 .. Len(l) /\ l[gate].type = "gate.passed" /\ l[gate].cause = c /\ gate <= g
    <2>1. g \in G /\ G \in SUBSET (1 .. Len(l))
      <3>1. g \in 1 .. Len(l)
        BY <1>2, <1>4
      <3> HIDE DEF G
      <3> QED BY <1>4, <1>6, <3>1
    <2>2. gate \in G /\ gate <= g
      <3> HIDE DEF G
      <3> QED BY <2>1, FirstPosition
    <2> QED BY <1>6, <2>2
  <1> HIDE DEF gate
  <1>8. gate # 0 /\ c < gate /\ gate < s
    <2>1. c \in 1 .. gate - 1
      BY <1>0, <1>7 DEF Caused
    <2> QED BY <1>2, <1>4, <1>7, <2>1
  <1>9. HasValidModelChain(l, c)
    BY <1>3, CommandsValid
  <1>10. \A k \in OfType(l, {"tool.completed"}) : HasValidToolChain(l, k, s)
    <2>1. OfType(l, {"tool.completed"}) = { k \in 1 .. Len(l) : l[k].type = "tool.completed" }
      BY DEF OfType, Where
    <2> QED BY <1>2, <2>1, ToolsValid
  <1>11. ValidatedSubmission(l) = "accepted"
    BY <1>3, <1>8, <1>9, <1>10 DEF ValidatedSubmission, gate, c, s
  <1>12. l[1].type = "seed" /\ l[1].cause = Outside
    BY <1>2 DEF Honest
  <1>13. ToolEvidence(l)
    <2>1. i \in OfType(l, {"tool.completed"})
      BY <1>2, <1>5 DEF OfType, Where
    <2> QED BY <2>1 DEF ToolEvidence
  <1> QED BY <1>11, <1>12, <1>13 DEF ValidateAgentRun

(* An interrupted start stays in the log.                                  *)
LEMMA InterruptedGrows ==
    ASSUME NEW l \in Seq(Events), NEW s \in Seq(Events), Honest(l), InterruptedStart(l)
    PROVE  InterruptedStart(l \o s)
  <1> DEFINE a == l \o s
  <1>1. \A i \in 1 .. Len(l) : a[i] = l[i] /\ i \in 1 .. Len(a)
    OBVIOUS
  <1> HIDE DEF a
  <1>2. PICK k \in 1 .. Len(l) : l[k].type = "capability" /\ l[k].cause > 0 /\ l[l[k].cause].type = "phase"
    BY DEF InterruptedStart, OfType, Where
  <1>3. l[k].cause \in 1 .. k - 1
    BY <1>2 DEF Honest, Sound, Caused
  <1>4. l[k].cause \in 1 .. Len(l)
    BY <1>2, <1>3
  <1>5. k \in OfType(a, {"capability"}) /\ a[k].cause > 0 /\ a[a[k].cause].type = "phase"
    BY <1>1, <1>2, <1>4 DEF OfType, Where
  <1>6. InterruptedStart(a)
    BY <1>5 DEF InterruptedStart
  <1> QED BY <1>6 DEF a

-----------------------------------------------------------------------------
(* The invariant of honest work.                                           *)

(* What an agent run has in its log is honest too.                         *)
LEMMA LogHonest ==
    ASSUME ProvInv, RunsHonest, NEW w \in AgentRuns
    PROVE  log[w] \in Seq(Events) /\ thread[w].todo \in Seq(Events) /\ Honest(log[w])
  <1> DEFINE l == log[w]
             s == thread[w].todo
             a == l \o s
  <1>1. l \in Seq(Events) /\ s \in Seq(Events)
    BY DEF ProvInv, StateOK
  <1>2. Honest(a)
    BY DEF RunsHonest, HonestRun, LogAfter
  <1>3. a \in Seq(Events) /\ Len(l) <= Len(a) /\ \A i \in 1 .. Len(l) : a[i] = l[i]
    <2> HIDE DEF l, s
    <2> QED BY <1>1
  <1> HIDE DEF a
  <1> QED BY <1>1, <1>2, <1>3, HonestPrefix

(* A step that decides nothing.                                            *)
LEMMA UndecidedAccepts ==
    ASSUME ProvInv, HonestInv, verdict' = verdict, answer' = answer,
           \A w \in AgentRuns : log'[w] = log[w] \/ \E s \in Seq(Events) : log'[w] = log[w] \o s
    PROVE  HonestWorkAccepted'
  <1>1. \A w \in AgentRuns : InterruptedStart(log[w]) => InterruptedStart(log'[w])
    BY LogHonest, InterruptedGrows DEF HonestInv
  <1> QED BY <1>1 DEF HonestInv, HonestWorkAccepted, AgentRuns

(* The kernel decides on a result, ...                                     *)
LEMMA ResultAccepts ==
    ASSUME ProvInv, HonestInv, PromoteResult
    PROVE  HonestWorkAccepted'
  <1>0. "asg" \in AgentRuns
    BY DEF AgentRuns
  <1>1. /\ thread["asg"].todo = <<>> /\ thread["asg"].pc = "promote" /\ log' = log
        /\ answer' = answer
        /\ verdict' = IF verdict # "none" THEN verdict ELSE ValidateResult(log["asg"])
    BY DEF PromoteResult, At, Running
  <1>2. HasType(log["asg"], "submitted") /\ log["asg"] \in Seq(Events) /\ Honest(log["asg"])
    BY <1>0, <1>1, HonestAt DEF HonestInv, Standing
  <1>3. ~InterruptedStart(log["asg"]) => ValidateResult(log["asg"]) \in {"accepted", "lease_not_active"}
    BY <1>2, SubmissionValid DEF ValidateResult
  <1> QED BY <1>1, <1>3 DEF HonestInv, HonestWorkAccepted

(* ... and on a response.                                                  *)
LEMMA ResponseAccepts ==
    ASSUME ProvInv, HonestInv, PromoteResponse
    PROVE  HonestWorkAccepted'
  <1>0. "peer" \in AgentRuns
    BY DEF AgentRuns
  <1>1. /\ thread["peer"].todo = <<>> /\ thread["peer"].pc = "promote" /\ log' = log
        /\ verdict' = verdict
        /\ answer' = IF answer # "none" THEN answer ELSE ValidatePeerResponse(log["peer"])
    BY DEF PromoteResponse, At, Running
  <1>2. HasType(log["peer"], "submitted") /\ log["peer"] \in Seq(Events) /\ Honest(log["peer"])
    BY <1>0, <1>1, HonestAt DEF HonestInv, Standing
  <1>3. ~InterruptedStart(log["peer"]) =>
           ValidatePeerResponse(log["peer"]) \in {"accepted", "lease_not_active"}
    BY <1>2, SubmissionValid DEF ValidatePeerResponse
  <1> QED BY <1>1, <1>3 DEF HonestInv, HonestWorkAccepted

(* A handler's step decides nothing and only adds to its log.              *)
LEMMA StepAccepts ==
    ASSUME ProvInv, HonestInv, NEW w \in AgentRuns, Step(w)
    PROVE  HonestWorkAccepted'
  <1>0. /\ thread \in [AgentRuns -> [pc : Pcs, msg : Messages \cup {None}, todo : Seq(Events)]]
        /\ log \in [AgentRuns -> Seq(Events)]
    BY DEF ProvInv, StateOK
  <1>1. CASE Write(w)
    <2>1. verdict' = verdict /\ answer' = answer /\ log' = [log EXCEPT ![w] = log[w] \o thread[w].todo]
      BY <1>1 DEF Write, LogAfter
    <2>2. \A v \in AgentRuns : log'[v] = log[v] \/ \E s \in Seq(Events) : log'[v] = log[v] \o s
      BY <1>0, <2>1
    <2> QED BY <2>1, <2>2, UndecidedAccepts
  <1>2. CASE Interrupt(w)
    <2>1. verdict' = verdict /\ answer' = answer
          /\ \E k \in 0 .. Len(thread[w].todo) :
               log' = [log EXCEPT ![w] = log[w] \o SubSeq(thread[w].todo, 1, k)]
      BY <1>2 DEF Interrupt
    <2>2. PICK k \in 0 .. Len(thread[w].todo) :
               log' = [log EXCEPT ![w] = log[w] \o SubSeq(thread[w].todo, 1, k)]
      BY <2>1
    <2> DEFINE r == SubSeq(thread[w].todo, 1, k)
    <2>3. r \in Seq(Events)
      <3>1. thread[w].todo \in Seq(Events)
        BY <1>0
      <3> QED BY <2>2, <3>1
    <2>4. log' = [log EXCEPT ![w] = log[w] \o r]
      BY <2>2
    <2> HIDE DEF r
    <2>5. \A v \in AgentRuns : log'[v] = log[v] \/ \E s \in Seq(Events) : log'[v] = log[v] \o s
      BY <1>0, <2>3, <2>4
    <2> QED BY <2>1, <2>5, UndecidedAccepts
  <1>3. CASE ~Write(w) /\ ~Interrupt(w)
    <2>1. verdict' = verdict /\ answer' = answer /\ log' = log
      BY <1>3 DEF Step, Begin, CallModel, StartTool, RunTool, AskPeer, Route, Advance, Deliver,
                  FailAssignment, ReleaseLease, Ack, Raise
    <2> QED BY <2>1, UndecidedAccepts
  <1> QED BY <1>1, <1>2, <1>3

(* Empty logs are honest.                                                  *)
LEMMA HonestInit == Init => HonestInv
  <1> SUFFICES ASSUME Init PROVE HonestInv
    OBVIOUS
  <1>1. ASSUME NEW w \in AgentRuns PROVE HonestRun(w)
    <2>1. log[w] = <<>> /\ ledger[w] = <<>> /\ thread[w].pc = "idle" /\ thread[w].todo = <<>>
      BY DEF Init, Idle
    <2>2. LogAfter(w) = <<>>
      BY <2>1 DEF LogAfter
    <2>3. Honest(<<>>) /\ Standing(w, <<>>, "idle") /\ Chosen(w, <<>>)
      BY DEF Honest, Standing, Chosen
    <2> QED BY <2>1, <2>2, <2>3 DEF HonestRun
  <1>2. HonestWorkAccepted
    BY DEF Init, HonestWorkAccepted
  <1> QED BY <1>1, <1>2 DEF HonestInv, RunsHonest

(* The logs of both agent runs stay honest (core/agents/loop.py and the    *)
(* handlers of team_workers.py), whatever is interrupted: every event but  *)
(* a phase names an earlier one, a command is the response to a request of *)
(* its turn, an operation is announced once, right behind its execution    *)
(* phase, and ends before a later turn begins, and nothing follows the end *)
(* of a run.                                                               *)
THEOREM LogsHonest == Spec => []HonestInv
  <1>1. ASSUME ProvInv, WakeInv, HonestInv, [Next]_vars PROVE HonestInv'
    <2>0. RunsHonest
      BY <1>1 DEF HonestInv
    <2>1. ASSUME NEW w \in AgentRuns, Step(w) PROVE HonestInv'
      <3> SUFFICES RunsHonest'
        BY <1>1, <2>1, StepAccepts DEF HonestInv
      <3>1. CASE \E m \in sent : Begin(w, m)
        BY <1>1, <2>0, <3>1, BeginHonest
      <3>2. CASE Write(w)
        BY <1>1, <2>0, <3>2, WriteHonest
      <3>3. CASE CallModel(w)
        BY <1>1, <2>0, <3>3, CallModelHonest
      <3>4. CASE StartTool(w)
        BY <1>1, <2>0, <3>4, StartToolHonest
      <3>5. CASE RunTool(w)
        BY <1>1, <2>0, <3>5, RunToolHonest
      <3>6. CASE AskPeer(w)
        BY <1>1, <2>0, <3>6, AskPeerHonest
      <3>7. CASE Route(w)
        BY <1>1, <2>0, <3>7, RouteHonest
      <3>8. CASE Advance(w)
        BY <1>1, <2>0, <3>8, AdvanceHonest
      <3>9. CASE Deliver(w) \/ FailAssignment(w) \/ ReleaseLease(w)
        BY <1>1, <2>0, <3>9, CalmHonest
      <3>10. CASE Ack(w) \/ Raise(w)
        BY <1>1, <2>0, <3>10, EndHonest
      <3>11. CASE Interrupt(w)
        BY <1>1, <2>0, <3>11, InterruptHonest
      <3> QED BY <2>1, <3>1, <3>2, <3>3, <3>4, <3>5, <3>6, <3>7, <3>8, <3>9, <3>10, <3>11 DEF Step
    <2>2. CASE PromoteResult
      BY <1>1, <2>0, <2>2, PromoteHonest, ResultAccepts DEF HonestInv
    <2>3. CASE PromoteResponse
      BY <1>1, <2>0, <2>3, PromoteHonest, ResponseAccepts DEF HonestInv
    <2>4. CASE RouteFacts \/ DeadlinePasses \/ Expire \/ UNCHANGED vars
      <3>1. UNCHANGED <<log, ledger, thread>> /\ verdict' = verdict /\ answer' = answer
        BY <2>4 DEF RouteFacts, DeadlinePasses, Expire, vars
      <3> QED BY <1>1, <2>0, <3>1, SameHonest, UndecidedAccepts DEF HonestInv
    <2> QED BY <1>1, <2>1, <2>2, <2>3, <2>4 DEF Next
  <1> QED BY <1>1, HonestInit, ProvenanceCorrect, WakeUpsCorrect, PTL DEF Spec

(* Honest work is accepted (kernel.py, _validate_assignment_agent_run,     *)
(* _validate_peer_agent_run and the chains they follow): a result or a     *)
(* response is refused for its provenance only when the log shows a turn   *)
(* that was interrupted before its request, whatever else was interrupted, *)
(* reused or recovered.                                                    *)
THEOREM HonestWorkAcceptedHolds == Spec => []HonestWorkAccepted
  <1>1. HonestInv => HonestWorkAccepted
    BY DEF HonestInv
  <1> QED BY <1>1, LogsHonest, PTL
=============================================================================
