---------------------------- MODULE Hosts_proof ----------------------------
(***************************************************************************)
(* Proofs about the two hosts of the simulator: the ordered connection of  *)
(* a browser, for every queue capacity, and the runs of the MCP server and *)
(* of the headless runner, for any program, stall, limit and draw.  The    *)
(* two share no state, and nothing here relates them.                      *)
(***************************************************************************)
EXTENDS ViewStream, HostRuns, SequenceTheorems, TLAPS

(***************************************************************************)
(* The connection of one view.                                             *)
(*                                                                         *)
(* StreamInOrder speaks of a concatenation of three sequences.  The        *)
(* inductive form, InOrder, speaks of positions: the wire holds 1, 2, ...; *)
(* the message being sent is the next one; the queue holds those after it. *)
(* It says nothing of a writer that is closing: what that writer still     *)
(* holds is dropped, and it sends nothing more.                            *)
(***************************************************************************)
Senders == {"getting", "sending", "closing", "ended"}

\* How many messages have left the queue while the writer lives
Taken == Len(wire) + (IF sender = "sending" THEN 1 ELSE 0)

StreamTypes ==
    /\ pending \in Seq(Nat) /\ wire \in Seq(Nat)
    /\ accepted \in Nat /\ current \in Nat /\ sender \in Senders

InOrder ==
    /\ \A i \in 1 .. Len(wire) : wire[i] = i
    /\ sender = "getting" => current = None
    /\ sender = "sending" => current = Len(wire) + 1
    /\ sender \in {"getting", "sending"} =>
           /\ accepted = Taken + Len(pending)
           /\ \A i \in 1 .. Len(pending) : pending[i] = Taken + i

StreamInv == StreamTypes /\ InOrder
-----------------------------------------------------------------------------
LEMMA StreamInit == Init => StreamInv
  BY DEF Init, StreamInv, StreamTypes, InOrder, Senders, Taken, None

\* A message enters at the end of the queue.
LEMMA AcceptKeepsInv ==
  ASSUME StreamInv, Accept, UNCHANGED writerVars
  PROVE  StreamInv'
<1> USE DEF StreamInv, StreamTypes, Accept, writerVars
<1>1. /\ Len(pending') = Len(pending) + 1
      /\ \A i \in 1 .. Len(pending) : pending'[i] = pending[i]
      /\ pending'[Len(pending) + 1] = accepted + 1
  BY AppendProperties
<1>2. pending' \in Seq(Nat) /\ accepted' \in Nat
  BY AppendProperties
<1>3. ASSUME sender \in {"getting", "sending"}
      PROVE  /\ accepted' = Taken' + Len(pending')
             /\ \A i \in 1 .. Len(pending') : pending'[i] = Taken' + i
  <2>1. /\ Taken' = Taken /\ Taken \in Nat /\ Len(pending) \in Nat
        /\ accepted = Taken + Len(pending) /\ accepted' = accepted + 1
        /\ \A i \in 1 .. Len(pending) : pending[i] = Taken + i
    BY <1>3, LenProperties DEF InOrder, Taken
  <2>2. ASSUME NEW i \in 1 .. Len(pending') PROVE pending'[i] = Taken' + i
    <3>1. i \in 1 .. Len(pending) \/ i = Len(pending) + 1
      BY <1>1, <2>1
    <3> HIDE DEF Accept, StreamInv
    <3>2. CASE i \in 1 .. Len(pending)
      BY <1>1, <2>1, <3>2
    <3>3. CASE i = Len(pending) + 1
      <4>1. pending'[i] = accepted + 1
        BY <1>1, <3>3
      <4> QED
        BY <2>1, <3>3, <4>1
    <3> QED
      BY <3>1, <3>2, <3>3
  <2> QED
    BY <1>1, <2>1, <2>2
<1> QED
  BY <1>2, <1>3 DEF InOrder

\* What leaves queue and writer alone, or the queue empty and the writer dead.
LEMMA QuietKeepsInv ==
  ASSUME StreamInv, UNCHANGED <<queueVars, writerVars>>
  PROVE  StreamInv'
  BY DEF StreamInv, StreamTypes, InOrder, Taken, queueVars, writerVars

\* The message taken is the first of the queue, the one after the wire's last.
LEMMA TakeKeepsInv ==
  ASSUME StreamInv, Take
  PROVE  StreamInv'
<1> USE DEF StreamInv, StreamTypes, Take
<1>1. /\ pending' \in Seq(Nat) /\ Len(pending') = Len(pending) - 1
      /\ \A i \in 1 .. Len(pending') : pending'[i] = pending[i + 1]
      /\ current' = pending[1] /\ current' \in Nat
      /\ Len(pending) \in Nat \ {0}
  BY HeadTailProperties, EmptySeq
<1>2. current' = Len(wire) + 1
  BY <1>1 DEF InOrder, Taken
<1> QED
  BY <1>1, <1>2 DEF InOrder, Taken, Senders

\* The message being sent may be appended to the wire.
LEMMA WireGrows ==
  ASSUME StreamInv, sender = "sending"
  PROVE  /\ Append(wire, current) \in Seq(Nat)
         /\ Len(Append(wire, current)) = Len(wire) + 1
         /\ \A i \in 1 .. Len(Append(wire, current)) : Append(wire, current)[i] = i
<1>1. wire \in Seq(Nat) /\ current = Len(wire) + 1 /\ current \in Nat
      /\ \A i \in 1 .. Len(wire) : wire[i] = i
  BY DEF StreamInv, StreamTypes, InOrder
<1> QED
  BY <1>1, AppendProperties

LEMMA SendDoneKeepsInv ==
  ASSUME StreamInv, SendDone
  PROVE  StreamInv'
<1>1. sender = "sending" /\ sender' = "getting" /\ wire' = Append(wire, current)
      /\ current' = None /\ UNCHANGED queueVars
  BY DEF SendDone
<1> QED
  BY <1>1, WireGrows DEF StreamInv, StreamTypes, InOrder, Taken, Senders, None, queueVars

LEMMA SendFailsKeepsInv ==
  ASSUME StreamInv, SendFails
  PROVE  StreamInv'
<1>1. sender = "sending" /\ sender' = "closing" /\ wire' \in {wire, Append(wire, current)}
      /\ UNCHANGED <<queueVars, current>>
  BY DEF SendFails
<1> QED
  BY <1>1, WireGrows DEF StreamInv, StreamTypes, InOrder, Senders, queueVars

LEMMA FinishKeepsInv ==
  ASSUME StreamInv, Finish,
         wire' \in IF sender = "sending" THEN {wire, Append(wire, current)} ELSE {wire}
  PROVE  StreamInv'
<1>1. sender' = "ended" /\ pending' = <<>> /\ current' = None /\ accepted' = accepted
  BY DEF Finish
<1>2. wire' \in Seq(Nat) /\ \A i \in 1 .. Len(wire') : wire'[i] = i
  BY WireGrows DEF StreamInv, StreamTypes, InOrder
<1> QED
  BY <1>1, <1>2 DEF StreamInv, StreamTypes, InOrder, Senders, None

LEMMA StreamStep == StreamInv /\ [Next]_vars => StreamInv'
<1> SUFFICES ASSUME StreamInv, [Next]_vars PROVE StreamInv'
  OBVIOUS
<1>1. CASE Publish
  BY <1>1, AcceptKeepsInv, QuietKeepsInv DEF Publish, Overflow
<1>2. CASE Reply
  BY <1>2, AcceptKeepsInv DEF Reply
<1>3. CASE ReplyRefused
  BY <1>3, QuietKeepsInv DEF ReplyRefused, Overflow
<1>4. CASE Disconnect \/ CloserRuns \/ Handler
  BY <1>4, QuietKeepsInv DEF Disconnect, CloserRuns, Handler, Resume, NoticeClosed, LeaveDone
<1>5. CASE Take
  BY <1>5, TakeKeepsInv
<1>6. CASE SendDone
  BY <1>6, SendDoneKeepsInv
<1>7. CASE SendFails
  BY <1>7, SendFailsKeepsInv
<1>8. CASE CloseReturns
  BY <1>8, FinishKeepsInv DEF CloseReturns
<1>9. CASE CancelArrives
  BY <1>9, FinishKeepsInv DEF CancelArrives
<1>10. CASE UNCHANGED vars
  BY <1>10, QuietKeepsInv DEF vars
<1> QED
  BY <1>1, <1>2, <1>3, <1>4, <1>5, <1>6, <1>7, <1>8, <1>9, <1>10 DEF Next, Writer

\* From positions back to the concatenation.
LEMMA PositionsAreStream == StreamInv => StreamInOrder
<1> SUFFICES ASSUME StreamInv PROVE StreamInOrder
  OBVIOUS
<1> USE DEF StreamInv, StreamTypes, UpTo
<1>1. /\ wire \in Seq(Nat) /\ Len(wire) \in Nat
      /\ pending \in Seq(Nat) /\ Len(pending) \in Nat
      /\ \A i \in 1 .. Len(wire) : wire[i] = i
  BY LenProperties DEF InOrder
<1>2. wire = UpTo(Len(wire))
  BY <1>1, LenProperties
<1>3. ASSUME sender \in {"getting", "sending"}
      PROVE  wire \o InFlight \o pending = UpTo(accepted)
  <2> DEFINE front == wire \o InFlight
  <2>1. /\ front \in Seq(Nat) /\ Len(front) = Taken
        /\ \A i \in 1 .. Len(front) : front[i] = i
    <3>1. CASE sender = "getting"
      <4>1. InFlight = <<>>
        BY <3>1 DEF InFlight, InOrder
      <4>2. front = wire
        BY <4>1, <1>1, ConcatEmptySeq
      <4> QED
        BY <4>2, <3>1, <1>1 DEF Taken
    <3>2. CASE sender = "sending"
      <4>1. InFlight = <<current>> /\ current = Len(wire) + 1
        BY <3>2, <1>1 DEF InFlight, InOrder, None
      <4>2. /\ InFlight \in Seq(Nat) /\ Len(InFlight) = 1 /\ InFlight[1] = current
        BY <4>1
      <4>3. front \in Seq(Nat) /\ Len(front) = Len(wire) + 1
            /\ \A i \in 1 .. Len(wire) + 1 :
                   front[i] = IF i <= Len(wire) THEN wire[i] ELSE InFlight[i - Len(wire)]
        <5>1. InFlight \in Seq(Nat) /\ wire \in Seq(Nat)
          BY <4>2, <1>1
        <5>2. /\ front \in Seq(Nat)
              /\ Len(front) = Len(wire) + Len(InFlight)
              /\ \A i \in 1 .. Len(wire) + Len(InFlight) :
                   front[i] = IF i <= Len(wire) THEN wire[i] ELSE InFlight[i - Len(wire)]
          BY ONLY <5>1, ConcatProperties, Zenon DEF front
        <5>3. QED
          BY ONLY <5>2, <4>2
      <4>4. ASSUME NEW i \in 1 .. Len(wire) + 1 PROVE front[i] = i
        <5>1. CASE i <= Len(wire)
          BY <5>1, <4>3, <1>1
        <5>2. CASE i = Len(wire) + 1
          BY <5>2, <4>1, <4>2, <4>3, <1>1
        <5>3. i <= Len(wire) \/ i = Len(wire) + 1
          BY <1>1
        <5> QED
          BY <5>1, <5>2, <5>3
      <4> QED
        BY <4>3, <4>4, <3>2 DEF Taken
    <3> QED
      BY <1>3, <3>1, <3>2
  <2>2. /\ front \o pending \in Seq(Nat)
        /\ Len(front \o pending) = Len(front) + Len(pending)
        /\ \A i \in 1 .. Len(front) + Len(pending) :
               (front \o pending)[i] = IF i <= Len(front) THEN front[i]
                                       ELSE pending[i - Len(front)]
    BY <2>1, <1>1, ConcatProperties
  <2>3. Taken \in Nat /\ accepted = Taken + Len(pending)
        /\ \A i \in 1 .. Len(pending) : pending[i] = Taken + i
    BY <1>3, <1>1 DEF InOrder, Taken
  <2> HIDE DEF front
  <2>4. \A i \in 1 .. accepted : (front \o pending)[i] = i
    BY <2>1, <2>2, <2>3, <1>1, SMTT(30)
  <2>5. front \o pending = UpTo(accepted)
    BY <2>2, <2>3, <2>1, <2>4, LenProperties
  <2> QED
    BY <2>5 DEF front
<1> QED
  BY <1>2, <1>3 DEF StreamInOrder

\* Whatever order replies, updates, sends, timeouts, overflows and
\* cancellations come in, the browser sees the stream without gap or repeat.
THEOREM OneOrderedStream == Spec => []StreamInOrder
  BY StreamInit, StreamStep, PositionsAreStream, PTL DEF Spec
-----------------------------------------------------------------------------
(***************************************************************************)
(* RepliesAreTrue is inductive with the stream's order: a reply that is    *)
(* awaited is a real message (None is in no queue), and a writer that      *)
(* takes the next message has none in hand.                                *)
(***************************************************************************)
ReplyInv ==
    /\ reply \in Nat
    /\ outcome = "waiting" => reply # None
    /\ RepliesAreTrue

LEMMA ReplyInit == Init => ReplyInv
  BY DEF Init, ReplyInv, RepliesAreTrue, None

\* What a sequence contains it still contains when it grows.
LEMMA AppendContains ==
  ASSUME NEW s \in Seq(Nat), NEW e \in Nat
  PROVE  /\ Contains(Append(s, e), e)
         /\ \A x : Contains(s, x) => Contains(Append(s, e), x)
<1>1. /\ Len(Append(s, e)) = Len(s) + 1 /\ Len(s) \in Nat
      /\ \A i \in 1 .. Len(s) : Append(s, e)[i] = s[i]
      /\ Append(s, e)[Len(s) + 1] = e
  BY AppendProperties, LenProperties
<1>2. Contains(Append(s, e), e)
  <2>1. Len(s) + 1 \in 1 .. Len(Append(s, e))
    BY <1>1
  <2> QED
    BY <1>1, <2>1 DEF Contains
<1>3. ASSUME NEW x, Contains(s, x) PROVE Contains(Append(s, e), x)
  <2>1. PICK i \in 1 .. Len(s) : s[i] = x
    BY <1>3 DEF Contains
  <2>2. i \in 1 .. Len(Append(s, e)) /\ Append(s, e)[i] = x
    BY <1>1, <2>1
  <2> QED
    BY <2>2 DEF Contains
<1> QED
  BY <1>2, <1>3

\* Steps that leave reply, future and wire alone, lose nothing of the queue,
\* and do not open the view again.
LEMMA QuietKeepsReply ==
  ASSUME ReplyInv, UNCHANGED <<reply, outcome, wire, current>>,
         closed => closed',
         Contains(pending, reply) => Contains(pending', reply)
  PROVE  ReplyInv'
  BY DEF ReplyInv, RepliesAreTrue, Contains

\* The new reply is the last message of the queue.
LEMMA ReplyKeepsReply ==
  ASSUME StreamInv, ReplyInv, Reply
  PROVE  ReplyInv'
<1>1. /\ pending \in Seq(Nat) /\ accepted \in Nat
      /\ pending' = Append(pending, accepted + 1)
      /\ reply' = accepted + 1 /\ outcome' = "waiting"
  BY DEF StreamInv, StreamTypes, Reply, Accept
<1>2. Contains(pending', reply')
  <2>1. accepted + 1 \in Nat
    BY <1>1
  <2> QED
    BY <1>1, <2>1, AppendContains
<1>3. reply' \in Nat /\ reply' # None
  BY <1>1 DEF None
<1> QED
  BY <1>1, <1>2, <1>3 DEF ReplyInv, RepliesAreTrue, Contains

\* The awaited reply was in the queue: it is the message taken, or stays.
LEMMA TakeKeepsReply ==
  ASSUME StreamInv, ReplyInv, Take
  PROVE  ReplyInv'
<1>1. /\ pending \in Seq(Nat) /\ pending # <<>> /\ current = None
      /\ pending' = Tail(pending) /\ current' = Head(pending)
      /\ UNCHANGED <<reply, outcome, wire, closed>>
  BY DEF StreamInv, StreamTypes, InOrder, Take, closeVars, handlerVars
<1>2. /\ Len(pending') = Len(pending) - 1 /\ Len(pending) \in Nat
      /\ \A i \in 1 .. Len(pending') : pending'[i] = pending[i + 1]
      /\ current' = pending[1]
  BY <1>1, HeadTailProperties, LenProperties
<1>3. ASSUME outcome = "waiting"
      PROVE  reply = current' \/ Contains(pending', reply)
  <2>1. PICK i \in 1 .. Len(pending) : pending[i] = reply
    BY <1>1, <1>3 DEF ReplyInv, RepliesAreTrue, Contains
  <2>2. CASE i = 1
    BY <1>2, <2>1, <2>2
  <2>3. CASE i # 1
    <3>1. i - 1 \in 1 .. Len(pending') /\ pending'[i - 1] = reply
      BY <1>2, <2>1, <2>3
    <3> QED
      BY <3>1 DEF Contains
  <2> QED
    BY <2>2, <2>3
<1> QED
  BY <1>1, <1>3 DEF ReplyInv, RepliesAreTrue, Contains

\* The wire grows by the message in hand, or not at all.
LEMMA WireKeeps ==
  ASSUME StreamInv, sender = "sending", wire' \in {wire, Append(wire, current)}
  PROVE  \A x : Contains(wire, x) => Contains(wire', x)
<1>1. wire \in Seq(Nat) /\ current \in Nat
  BY DEF StreamInv, StreamTypes
<1> QED
  BY <1>1, AppendContains

\* Only the future of the message just sent is resolved.
LEMMA SendDoneKeepsReply ==
  ASSUME StreamInv, ReplyInv, SendDone
  PROVE  ReplyInv'
<1>1. /\ sender = "sending" /\ wire' = Append(wire, current)
      /\ outcome' = ResolvedBy(current)
      /\ UNCHANGED <<reply, closed, pending>>
  BY DEF SendDone, queueVars
<1>2. /\ Contains(wire', current)
      /\ \A x : Contains(wire, x) => Contains(wire', x)
  BY <1>1, AppendContains DEF StreamInv, StreamTypes
<1>3. CASE current = reply /\ outcome = "waiting"
  BY <1>1, <1>2, <1>3 DEF ResolvedBy, ReplyInv, RepliesAreTrue
<1>4. CASE ~(current = reply /\ outcome = "waiting")
  <2>1. outcome' = outcome /\ (outcome = "waiting" => Contains(pending, reply))
    BY <1>1, <1>4 DEF ResolvedBy, ReplyInv, RepliesAreTrue
  <2> QED
    BY <1>1, <1>2, <2>1 DEF ReplyInv, RepliesAreTrue, Contains
<1> QED
  BY <1>3, <1>4

\* A writer that ends settles the awaited reply, wherever it is.
LEMMA FinishKeepsReply ==
  ASSUME StreamInv, ReplyInv, Finish,
         wire' \in IF sender = "sending" THEN {wire, Append(wire, current)} ELSE {wire}
  PROVE  ReplyInv'
<1>1. closed' /\ reply' = reply /\ outcome' = Settled
  BY DEF Finish
<1>2. \A x : Contains(wire, x) => Contains(wire', x)
  <2>1. CASE sender = "sending"
    BY <2>1, WireKeeps
  <2>2. CASE sender # "sending"
    BY <2>2
  <2> QED
    BY <2>1, <2>2
<1>3. outcome' # "waiting" /\ (outcome' = "ok" => outcome = "ok")
  BY <1>1 DEF Settled, ReplyInv, RepliesAreTrue
<1> QED
  BY <1>1, <1>2, <1>3 DEF ReplyInv, RepliesAreTrue

LEMMA ReplyStep == StreamInv /\ ReplyInv /\ [Next]_vars => ReplyInv'
<1> SUFFICES ASSUME StreamInv, ReplyInv, [Next]_vars PROVE ReplyInv'
  OBVIOUS
<1>1. CASE Publish
  <2>1. Accept => (Contains(pending, reply) => Contains(pending', reply))
    <3>1. pending \in Seq(Nat) /\ accepted + 1 \in Nat
      BY DEF StreamInv, StreamTypes
    <3> QED
      BY <3>1, AppendContains DEF Accept
  <2>2. UNCHANGED <<reply, outcome, wire, current>>
    BY <1>1 DEF Publish, writerVars, handlerVars
  <2>3. CASE Accept /\ UNCHANGED closeVars
    BY <2>1, <2>2, <2>3, QuietKeepsReply DEF closeVars
  <2>4. CASE Overflow
    BY <2>2, <2>4, QuietKeepsReply DEF Overflow, queueVars
  <2> QED
    BY <1>1, <2>3, <2>4 DEF Publish
<1>2. CASE Reply
  BY <1>2, ReplyKeepsReply
<1>3. CASE ReplyRefused
  BY <1>3, QuietKeepsReply DEF ReplyRefused, Overflow, queueVars, writerVars
<1>4. CASE Disconnect \/ CloserRuns \/ Handler
  BY <1>4, QuietKeepsReply DEF Disconnect, CloserRuns, Handler, Resume, NoticeClosed,
     LeaveDone, queueVars, writerVars, handlerVars, closeVars
<1>5. CASE Take
  BY <1>5, TakeKeepsReply
<1>6. CASE SendDone
  BY <1>6, SendDoneKeepsReply
<1>7. CASE SendFails
  BY <1>7, WireKeeps DEF SendFails, ReplyInv, RepliesAreTrue, Contains, queueVars,
     closeVars, handlerVars
<1>8. CASE CloseReturns
  BY <1>8, FinishKeepsReply DEF CloseReturns
<1>9. CASE CancelArrives
  BY <1>9, FinishKeepsReply DEF CancelArrives
<1>10. CASE UNCHANGED vars
  BY <1>10, QuietKeepsReply DEF vars, queueVars, writerVars, closeVars, handlerVars
<1> QED
  BY <1>1, <1>2, <1>3, <1>4, <1>5, <1>6, <1>7, <1>8, <1>9, <1>10 DEF Next, Writer

\* Whatever overtakes a reply, its handler is told the truth: "sent" means
\* that the socket took it, "failed" that the view is closed, and an awaited
\* reply is still on its way.
THEOREM RepliesAreAnswered == Spec => []RepliesAreTrue
<1>1. ReplyInv => RepliesAreTrue
  BY DEF ReplyInv
<1> QED
  BY StreamInit, StreamStep, ReplyInit, ReplyStep, <1>1, PTL DEF Spec
-----------------------------------------------------------------------------
(***************************************************************************)
(* The runs of a host: a budget leaves no trace, no call takes more cycles *)
(* than it was given, and what it reports is true.                         *)
(***************************************************************************)

LEMMA ThisTyped ==
  ASSUME program \in Programs, NEW m \in Machine, Running(m)
  PROVE  This(m) \in Op
BY HostAssumption DEF Running, This, Machine

\* Time passes for the ring and the counter, and moves nothing else.
LEMMA ElapsedTyped ==
  ASSUME NEW m \in Machine, NEW n \in Nat
  PROVE  /\ Elapsed(m, n) \in Machine
         /\ Elapsed(m, n).cycles = m.cycles + n
         /\ Elapsed(m, n).pc = m.pc /\ Elapsed(m, n).halted = m.halted
<1> DEFINE c == m.cycles + n
           r == IF m.ring > n THEN m.ring - n ELSE 0
           l == m.landed \/ (m.ring > 0 /\ m.ring <= n)
<1>1. c \in Nat /\ r \in Nat
  BY DEF Machine
<1>2. l \in BOOLEAN
  BY Zenon
<1>3. Elapsed(m, n) = [m EXCEPT !.cycles = c, !.ring = r, !.landed = l]
  BY Zenon DEF Elapsed
<1> HIDE DEF c, r, l
<1>4. /\ Elapsed(m, n) \in Machine
      /\ Elapsed(m, n).cycles = c
      /\ Elapsed(m, n).pc = m.pc /\ Elapsed(m, n).halted = m.halted
  BY <1>1, <1>2, <1>3 DEF Machine
<1>5. QED
  BY <1>4 DEF c

LEMMA CostBounds ==
  ASSUME NEW op \in Op, NEW d \in 0..Jitter
  PROVE  /\ Cost(op, d) \in Nat \ {0}
         /\ Cost(op, d) <= Cost(op, Jitter)
BY HostAssumption, SMTT(30) DEF Cost, Op

\* What the random numbers are never exceeds the jitter a bound allows for.
LEMMA DrawTyped ==
  ASSUME NEW r \in 0..Len(Draws)-1
  PROVE  /\ Draw(r) \in 0..Jitter
         /\ \A m : Drawn(m, r) \in 0..Len(Draws)-1
<1>1. Draw(r) \in 0..Jitter
  BY HostAssumption DEF Draw
<1>2. ASSUME NEW m
      PROVE  Drawn(m, r) \in 0..Len(Draws)-1
  <2>1. Len(Draws) \in Nat \ {0}
    BY HostAssumption
  <2>2. r + Draws1(m) \in Nat
    BY <2>1 DEF Draws1
  <2>3. QED
    BY <2>1, <2>2 DEF Drawn
<1>3. QED
  BY <1>1, <1>2

\* One step: what it may cost, and what the idle cycle of a stopped core does.
LEMMA SteppedTyped ==
  ASSUME program \in Programs, NEW m \in Machine, NEW d \in 0..Jitter
  PROVE  /\ Stepped(m, d) \in Machine
         /\ Running(m) => /\ Stepped(m, d).cycles > m.cycles
                          /\ Stepped(m, d).cycles <= m.cycles + Cost(This(m), Jitter)
         /\ ~Running(m) => /\ Stepped(m, d).cycles <= m.cycles + 1
                           /\ Stepped(m, d).pc = m.pc /\ Stepped(m, d).halted = m.halted
<1>1. CASE Running(m)
  <2> DEFINE op == This(m)
             p == IF op \in {"again", "halt", "fault"} THEN m.pc ELSE m.pc + 1
             h == op \in {"halt", "fault"}
             f == op = "fault"
             r == IF op = "submit" THEN RingTime ELSE m.ring
             x == IF op \in {"perif", "gpio"} THEN op = "perif" ELSE m.mux
             done == [m EXCEPT !.pc = p, !.halted = h, !.faulted = f, !.ring = r, !.mux = x]
  <2>1. op \in Op
    BY <1>1, ThisTyped
  <2>2. done \in Machine /\ done.cycles = m.cycles
    <3>1. p \in Nat /\ r \in Nat
      BY HostAssumption DEF Machine
    <3>2. h \in BOOLEAN
      OBVIOUS
    <3>5. f \in BOOLEAN
      OBVIOUS
    <3>3. x \in BOOLEAN
      BY Zenon DEF Machine
    <3> HIDE DEF p, r, h, f, x
    <3>4. QED
      BY <3>1, <3>2, <3>3, <3>5 DEF Machine, done
  <2>3. Stepped(m, d) = Elapsed(done, Cost(op, d))
    BY <1>1, Zenon DEF Stepped
  <2>4. Cost(op, d) \in Nat \ {0} /\ Cost(op, d) <= Cost(op, Jitter)
    BY <2>1, CostBounds
  <2>5. Cost(op, Jitter) \in Nat \ {0}
    BY <2>1, CostBounds, HostAssumption
  <2> HIDE DEF op, p, h, f, r, x, done
  <2>6. Elapsed(done, Cost(op, d)) \in Machine
        /\ Elapsed(done, Cost(op, d)).cycles = m.cycles + Cost(op, d)
    BY <2>2, <2>4, ElapsedTyped
  <2>7. m.cycles \in Nat
    BY DEF Machine
  <2>8. Stepped(m, d).cycles > m.cycles /\ Stepped(m, d).cycles <= m.cycles + Cost(op, Jitter)
    BY <2>3, <2>4, <2>5, <2>6, <2>7
  <2>9. QED
    BY <1>1, <2>3, <2>6, <2>8 DEF op
<1>2. CASE ~Running(m)
  <2>1. Stepped(m, d) = IF m.ring > 0 THEN Elapsed(m, 1) ELSE m
    BY <1>2 DEF Stepped
  <2>2. Elapsed(m, 1) \in Machine /\ Elapsed(m, 1).cycles = m.cycles + 1
        /\ Elapsed(m, 1).pc = m.pc /\ Elapsed(m, 1).halted = m.halted
    BY ElapsedTyped
  <2>3. m.cycles \in Nat
    BY DEF Machine
  <2>4. QED
    BY <1>2, <2>1, <2>2, <2>3
<1>3. QED
  BY <1>1, <1>2
-----------------------------------------------------------------------------
LEMMA ReturnsTyped ==
  ASSUME NEW reason \in Reasons, Returns(reason)
  PROVE  /\ call' \in {Idle, Exited} /\ report' = reason
         /\ report' \in Reasons
BY DEF Returns

CallRec == [kind : Kinds \cup {"none", "exited"}, until : Conditions, steps : Nat,
            budget : CycleLimits \cup {NoBudget}, start : Nat]

LEMMA IdleTyped == Idle \in CallRec /\ Exited \in CallRec
BY DEF CallRec, Idle, Exited, Kinds, Conditions, NoBudget

LEMMA FreshTyped == Fresh \in Machine
BY DEF Fresh, Machine

LEMMA GoesTyped ==
  ASSUME call \in CallRec, call.steps > 0, Goes
  PROVE  call' \in CallRec
BY DEF CallRec, Goes

LEMMA ExecuteTyped ==
  ASSUME HostTypeOK, Execute
  PROVE  /\ machine' \in Machine /\ rng' \in 0..Len(Draws)-1 /\ route' \in BOOLEAN
         /\ plain' \in [machine : Machine, rng : 0..Len(Draws)-1]
<1>1. Draw(rng) \in 0..Jitter /\ Drawn(machine, rng) \in 0..Len(Draws)-1
  BY DrawTyped DEF HostTypeOK
<1>2. plain.machine \in Machine /\ plain.rng \in 0..Len(Draws)-1
  BY DEF HostTypeOK
<1>3. /\ Draw(plain.rng) \in 0..Jitter
      /\ Drawn(plain.machine, plain.rng) \in 0..Len(Draws)-1
  BY <1>2, DrawTyped
<1>4. Stepped(machine, Draw(rng)) \in Machine
  BY <1>1, SteppedTyped DEF HostTypeOK
<1>5. Stepped(plain.machine, Draw(plain.rng)) \in Machine
  BY <1>2, <1>3, SteppedTyped DEF HostTypeOK
<1>6. route' \in BOOLEAN
  BY DEF HostTypeOK, Execute, Rerouted
<1>7. QED
  BY <1>1, <1>3, <1>4, <1>5, <1>6 DEF Execute

LEMMA ResetTyped ==
  ASSUME NEW m \in Machine
  PROVE  AfterReset(m) \in Machine
BY DEF AfterReset, Machine, Fresh

LEMMA HostTypeStep ==
  ASSUME HostTypeOK, [HostNext]_hostVars
  PROVE  HostTypeOK'
<1> USE DEF HostTypeOK, CallRec
<1>1. ASSUME NEW k \in Kinds, NEW u \in Conditions, NEW s \in StepLimits,
             NEW b \in CycleLimits \cup {NoBudget}, Begins(k, u, s, b)
      PROVE  HostTypeOK'
  <2>1. s \in Nat /\ machine.cycles \in Nat
    BY HostAssumption DEF Machine
  <2>2. call' \in CallRec
    BY <1>1, <2>1 DEF Begins
  <2>3. QED
    BY <1>1, <2>2 DEF Begins, Reasons
<1>2. CASE RunUntil \/ StepSome \/ ExportWaveform \/ RunHeadless
  BY <1>1, <1>2 DEF RunUntil, StepSome, ExportWaveform, RunHeadless, Kinds, Conditions, NoBudget
<1>3. CASE UntilStops \/ UntilEnds \/ StepEnds \/ WaveformEnds \/ HeadlessStops
  <2>1. \E reason \in Reasons : Returns(reason)
    BY <1>3 DEF UntilStops, UntilEnds, StepEnds, WaveformEnds, HeadlessStops, MetReason,
                LooksBack, Reasons
  <2>2. call' \in CallRec /\ report' \in Reasons
    BY <2>1, ReturnsTyped, IdleTyped
  <2>3. UNCHANGED <<program, machine, breakpoints, route, rng, plain>>
    BY <1>3 DEF UntilStops, UntilEnds, StepEnds, WaveformEnds, HeadlessStops
  <2>4. QED
    BY <2>2, <2>3
<1>4. CASE UntilSteps \/ StepGoes \/ WaveformGoes
  <2>1. Execute /\ Goes /\ call.steps > 0 /\ UNCHANGED <<program, breakpoints>>
    BY <1>4 DEF UntilSteps, StepGoes, WaveformGoes
  <2>2. call' \in CallRec /\ report' \in Reasons
    BY <2>1, GoesTyped DEF Goes
  <2>3. QED
    BY <2>1, <2>2, ExecuteTyped
<1>5. CASE UntilRefuses
  <2>1. call' \in CallRec /\ report' \in Reasons
    BY <1>5, ReturnsTyped, IdleTyped DEF UntilRefuses, Reasons
  <2>2. route' \in BOOLEAN
    BY <1>5 DEF UntilRefuses, Rerouted
  <2>3. QED
    BY <1>5, <2>1, <2>2 DEF UntilRefuses, Restored
<1>6. CASE HeadlessGoes
  <2>1. Execute /\ call.steps > 0 /\ UNCHANGED <<program, breakpoints>>
    BY <1>6 DEF HeadlessGoes
  <2>2. Returns("condition_unmet") \/ Goes
    BY <1>6 DEF HeadlessGoes
  <2>3. call' \in CallRec /\ report' \in Reasons
    BY <2>1, <2>2, ReturnsTyped, IdleTyped, GoesTyped DEF Goes, Reasons
  <2>4. QED
    BY <2>1, <2>3, ExecuteTyped
<1>7. CASE AddBreakpoint
  BY <1>7, HostAssumption DEF AddBreakpoint
<1>8. CASE Reset
  <2>1. machine' \in Machine /\ plain' \in [machine : Machine, rng : 0..Len(Draws)-1]
    BY <1>8, ResetTyped DEF Reset
  <2>2. QED
    BY <1>8, <2>1 DEF Reset
<1>9. CASE ElfLoad
  BY <1>9, FreshTyped DEF ElfLoad
<1>10. CASE NewProcess
  <2>1. Len(Draws) \in Nat \ {0}
    BY HostAssumption
  <2>2. 0 \in 0..Len(Draws)-1 /\ "none" \in Reasons
    BY <2>1 DEF Reasons
  <2>3. QED
    BY <1>10, <2>2, FreshTyped, IdleTyped DEF NewProcess
<1>11. CASE UNCHANGED hostVars
  BY <1>11 DEF hostVars
<1>12. QED
  BY <1>2, <1>3, <1>4, <1>5, <1>6, <1>7, <1>8, <1>9, <1>10, <1>11 DEF HostNext

\* Every state of the calls and of the core is one of those listed, for any
\* programs, stalls, limits and random numbers.
THEOREM HostTypeCorrect == HostSpec => []HostTypeOK
<1>1. HostInit => HostTypeOK
  <2>1. Len(Draws) \in Nat \ {0}
    BY HostAssumption
  <2>2. 0 \in 0..Len(Draws)-1 /\ "none" \in Reasons
    BY <2>1 DEF Reasons
  <2>3. [machine |-> Fresh, rng |-> 0] \in [machine : Machine, rng : 0..Len(Draws)-1]
    BY <2>2, FreshTyped
  <2> SUFFICES ASSUME HostInit PROVE HostTypeOK
    OBVIOUS
  <2>4. breakpoints \in SUBSET Nat
    BY DEF HostInit
  <2>5. QED
    BY <2>2, <2>3, <2>4, FreshTyped, IdleTyped DEF HostInit, HostTypeOK, CallRec
<1>2. HostTypeOK /\ [HostNext]_hostVars => HostTypeOK'
  BY HostTypeStep
<1>3. QED
  BY <1>1, <1>2, PTL DEF HostSpec
-----------------------------------------------------------------------------
\* A budget makes a call look ahead; the machine and the random numbers are
\* those of a host that never asked for one, at every state of every call.
THEOREM LookingAheadIsFree == HostSpec => []BudgetLeavesNoTrace
<1>1. HostInit => BudgetLeavesNoTrace
  BY DEF HostInit, BudgetLeavesNoTrace
<1>2. BudgetLeavesNoTrace /\ [HostNext]_hostVars => BudgetLeavesNoTrace'
  <2> SUFFICES ASSUME BudgetLeavesNoTrace, [HostNext]_hostVars
               PROVE  BudgetLeavesNoTrace'
    OBVIOUS
  <2> USE DEF BudgetLeavesNoTrace
  <2>1. CASE Execute
    BY <2>1 DEF Execute
  <2>2. CASE UNCHANGED <<machine, rng, plain>>
    BY <2>2
  <2>3. CASE Reset
    BY <2>3 DEF Reset
  <2>4. CASE ElfLoad
    BY <2>4 DEF ElfLoad
  <2>5. CASE NewProcess
    BY <2>5 DEF NewProcess
  <2>6. QED
    BY <2>1, <2>2, <2>3, <2>4, <2>5
       DEF HostNext, RunUntil, StepSome, ExportWaveform, RunHeadless, Begins, UntilStops,
           UntilSteps, UntilRefuses, Restored, UntilEnds, StepGoes, StepEnds, WaveformGoes,
           WaveformEnds, HeadlessGoes, HeadlessStops, AddBreakpoint, hostVars
<1>3. QED
  BY <1>1, <1>2, PTL DEF HostSpec
-----------------------------------------------------------------------------
\* What makes the budget inductive: only two kinds of call have one, and the
\* runner counts its own from a core that has just been built.
CallInv ==
  /\ call.kind \in {"none", "exited", "step", "waveform"} => call.budget = NoBudget
  /\ call.kind = "headless" => call.start = 0

BudgetInv == HostTypeOK /\ CallInv /\ BudgetKept

LEMMA BudgetStep ==
  ASSUME BudgetInv, [HostNext]_hostVars
  PROVE  CallInv' /\ BudgetKept'
<1> USE DEF BudgetInv, CallInv, BudgetKept
<1>1. ASSUME NEW k \in Kinds, NEW u, NEW s, NEW b \in Nat, Begins(k, u, s, b),
             k \in {"step", "waveform"} => b = NoBudget,
             k = "headless" => machine = Fresh
      PROVE  CallInv' /\ BudgetKept'
  <2>1. machine.cycles \in Nat
    BY DEF HostTypeOK, Machine
  <2>2. k # "none" /\ k # "exited"
    BY DEF Kinds
  <2>3. /\ call'.kind = k /\ call'.budget = b /\ call'.start = machine.cycles
        /\ machine' = machine
    BY <1>1 DEF Begins
  <2>4. CallInv'
    BY <1>1, <2>2, <2>3 DEF Fresh
  <2>5. machine'.cycles - call'.start = 0
    BY <2>1, <2>3
  <2>6. BudgetKept'
    BY <2>3, <2>5 DEF NoBudget
  <2>7. QED
    BY <2>4, <2>6
<1>2. CASE RunUntil \/ StepSome \/ ExportWaveform \/ RunHeadless
  <2>1. CycleLimits \subseteq Nat /\ NoBudget \in Nat
    BY HostAssumption DEF NoBudget
  <2>2. QED
    BY <1>1, <1>2, <2>1
       DEF RunUntil, StepSome, ExportWaveform, RunHeadless, Kinds
<1>3. ASSUME NEW reason, Returns(reason)
      PROVE  CallInv' /\ BudgetKept'
  BY <1>3 DEF Returns, Idle, Exited, NoBudget
<1>4. CASE UntilStops \/ UntilRefuses \/ UntilEnds \/ StepEnds \/ WaveformEnds \/ HeadlessStops
  BY <1>3, <1>4 DEF UntilStops, UntilRefuses, UntilEnds, LooksBack, StepEnds, WaveformEnds,
                    HeadlessStops
<1>5. ASSUME Goes
      PROVE  /\ call'.kind = call.kind /\ call'.budget = call.budget
             /\ call'.start = call.start
             /\ CallInv'
  BY <1>5 DEF Goes, HostTypeOK
<1>6. CASE UntilSteps
  <2>1. /\ call.budget # NoBudget => machine'.cycles - call.start <= call.budget
        /\ call.kind = "until"
    BY <1>6 DEF UntilSteps, Execute, Projected
  <2>2. Goes
    BY <1>6 DEF UntilSteps
  <2>3. /\ CallInv' /\ call'.kind = "until"
        /\ call'.budget = call.budget /\ call'.start = call.start
    BY <1>5, <2>1, <2>2
  <2>4. call'.budget # NoBudget => machine'.cycles - call'.start <= call'.budget + 0
    <3>1. call.budget # NoBudget => call.budget \in Nat
      <4>1. CycleLimits \subseteq Nat
        BY HostAssumption
      <4>2. call.budget \in CycleLimits \cup {NoBudget}
        BY DEF HostTypeOK
      <4>3. QED
        BY <4>1, <4>2
    <3>2. QED
      BY <2>1, <2>3, <3>1
  <2>5. QED
    BY <2>3, <2>4
<1>7. CASE StepGoes \/ WaveformGoes
  <2>1. Goes /\ call.kind \in {"step", "waveform"}
    BY <1>7 DEF StepGoes, WaveformGoes
  <2>2. call.budget = NoBudget
    BY <2>1
  <2>3. CallInv' /\ call'.budget = call.budget
    BY <1>5, <2>1
  <2>4. QED
    BY <2>2, <2>3
<1>8. CASE HeadlessGoes
  <2>1. CASE Goes
    <3>1. Draw(rng) \in 0..Jitter /\ machine \in Machine /\ machine.cycles \in Nat
      BY DrawTyped DEF HostTypeOK, Machine
    <3>2. CASE call.budget = NoBudget
      BY <1>5, <2>1, <3>2
    <3>3. CASE call.budget # NoBudget
      <4>1. Bound <= call.budget - machine.cycles /\ call.start = 0 /\ call.kind = "headless"
        BY <1>8, <3>3 DEF HeadlessGoes, Remaining
      <4>2. machine' = Stepped(machine, Draw(rng)) /\ program' = program
        BY <1>8 DEF HeadlessGoes, Execute
      <4>3. call.budget \in Nat
        <5>1. CycleLimits \subseteq Nat /\ NoBudget \in Nat
          BY HostAssumption DEF NoBudget
        <5>2. call.budget \in CycleLimits \cup {NoBudget}
          BY DEF HostTypeOK
        <5>3. QED
          BY <5>1, <5>2
      <4>4. machine' \in Machine
        BY <3>1, <4>2, SteppedTyped DEF HostTypeOK
      <4>5. machine'.cycles \in Nat
        BY <4>4 DEF Machine
      <4>6. CASE Running(machine)
        <5>1. machine'.cycles <= machine.cycles + Cost(This(machine), Jitter)
          BY <3>1, <4>2, <4>6, SteppedTyped DEF HostTypeOK
        <5>2. Bound = Cost(This(machine), Jitter)
          BY <4>6 DEF Bound
        <5>3. Cost(This(machine), Jitter) \in Nat
          BY <4>6, ThisTyped, CostBounds, HostAssumption DEF HostTypeOK
        <5>4. machine'.cycles - call.start <= call.budget
          BY <3>1, <4>1, <4>3, <4>5, <5>1, <5>2, <5>3
        <5>5. QED
          BY <1>5, <2>1, <4>3, <4>5, <4>1, <5>4
      <4>7. CASE ~Running(machine)
        <5>1. /\ machine'.cycles <= machine.cycles + 1
              /\ machine'.pc = machine.pc /\ machine'.halted = machine.halted
          BY <3>1, <4>2, <4>7, SteppedTyped DEF HostTypeOK
        <5>2. ~Running(machine)'
          BY <4>2, <4>7, <5>1 DEF Running
        <5>3. Bound = 0
          BY <4>7 DEF Bound
        <5>4. machine'.cycles - call.start <= call.budget + 1
          BY <3>1, <4>1, <4>3, <4>5, <5>1, <5>3
        <5>5. QED
          BY <1>5, <2>1, <4>1, <5>2, <5>4
      <4>8. QED
        BY <4>6, <4>7
    <3>4. QED
      BY <3>2, <3>3
  <2>2. QED
    BY <1>3, <1>8, <2>1 DEF HeadlessGoes
<1>9. CASE AddBreakpoint \/ Reset \/ ElfLoad
  <2>1. call' = call /\ call.kind = "none"
    BY <1>9 DEF AddBreakpoint, Reset, ElfLoad, Idle
  <2>2. QED
    BY <2>1
<1>10. CASE NewProcess
  BY <1>10 DEF NewProcess, Idle, NoBudget
<1>11. CASE UNCHANGED hostVars
  BY <1>11 DEF hostVars, Running
<1>12. QED
  BY <1>2, <1>4, <1>6, <1>7, <1>8, <1>9, <1>10, <1>11 DEF HostNext

\* For any stalls and any random numbers within the jitter, no instruction of a
\* call ends behind its budget.
THEOREM CyclesAreBounded == HostSpec => []BudgetKept
<1>1. HostInit => CallInv /\ BudgetKept
  BY DEF HostInit, CallInv, BudgetKept, Idle, NoBudget
<1>2. HostTypeOK /\ CallInv /\ BudgetKept /\ [HostNext]_hostVars => CallInv' /\ BudgetKept'
  BY BudgetStep DEF BudgetInv
<1>3. QED
  BY <1>1, <1>2, HostTypeCorrect, PTL DEF HostSpec
-----------------------------------------------------------------------------
\* What a return tells, of the call that returns.
Told ==
  call.kind \in Kinds /\ call'.kind \notin Kinds =>
    /\ report' \in {"halted", "condition_met"} =>
         IF call.kind = "waveform" THEN machine'.halted ELSE Holds(machine', call.until)
    /\ report' \in {"breakpoint", "budget_exceeded", "condition_unmet", "max_steps"} =>
         IF call.kind = "waveform" THEN Running(machine') ELSE ~Holds(machine', call.until)
    /\ report' = "end_of_program" => ~Running(machine')

\* The answer of a call whose condition was looked at last decides it alone.
LEMMA LookedAt ==
  ASSUME NEW reason, report' = reason, UNCHANGED <<program, machine>>,
         call.kind # "waveform",
         \/ Met(call.until) /\ reason = MetReason(call.until)
         \/ ~Met(call.until) /\ reason \in {"breakpoint", "budget_exceeded", "max_steps",
                                            "condition_unmet", "internal_error"}
  PROVE  Told
<1>1. Holds(machine', call.until) <=> Met(call.until)
  BY DEF Met
<1>2. report' \in {"halted", "condition_met"} <=> Met(call.until)
  BY DEF MetReason
<1>3. report' # "end_of_program"
  BY DEF MetReason
<1>4. report' \in {"breakpoint", "budget_exceeded", "condition_unmet", "max_steps"}
        => ~Met(call.until)
  BY DEF MetReason
<1>5. QED
  BY <1>1, <1>2, <1>3, <1>4 DEF Told

LEMMA ReturnsTellTruth ==
  ASSUME HostTypeOK, [HostNext]_hostVars
  PROVE  Told
<1>1. CASE UntilStops
  BY <1>1, LookedAt DEF UntilStops, Returns
<1>2. CASE UntilRefuses
  BY <1>2, LookedAt DEF UntilRefuses, Returns, Stops
<1>3. CASE UntilEnds
  BY <1>3, LookedAt DEF UntilEnds, LooksBack, Returns
<1>4. CASE StepEnds
  BY <1>4 DEF StepEnds, Returns, Told
<1>5. CASE WaveformEnds
  <2>1. /\ call.kind = "waveform" /\ UNCHANGED <<program, machine>>
        /\ report' = IF machine.halted THEN "halted"
                     ELSE IF Running(machine) THEN "max_steps" ELSE "end_of_program"
    BY <1>5 DEF WaveformEnds, Returns
  <2>2. Running(machine') <=> Running(machine)
    BY <2>1 DEF Running
  <2>3. Running(machine) => ~machine.halted
    BY DEF Running
  <2>4. QED
    BY <2>1, <2>2, <2>3 DEF Told
<1>6. CASE HeadlessStops
  BY <1>6, LookedAt DEF HeadlessStops, Returns
<1>7. CASE HeadlessGoes
  <2>1. CASE Goes
    BY <2>1 DEF Goes, Told, HostTypeOK
  <2>2. CASE ~Goes
    <3>1. /\ Returns("condition_unmet") /\ ~Met(call.until) /\ call.kind = "headless"
          /\ machine' = machine /\ program' = program
      BY <1>7, <2>2 DEF HeadlessGoes, Execute, NothingChanged
    <3>2. QED
      BY <3>1, LookedAt DEF Returns
  <2>3. QED
    BY <2>1, <2>2
<1>8. CASE UntilSteps \/ StepGoes \/ WaveformGoes
  <2>1. call'.kind = call.kind
    BY <1>8 DEF UntilSteps, StepGoes, WaveformGoes, Goes, HostTypeOK
  <2>2. QED
    BY <2>1 DEF Told
<1>9. CASE RunUntil \/ StepSome \/ ExportWaveform \/ RunHeadless \/ AddBreakpoint \/ Reset
           \/ ElfLoad \/ NewProcess
  <2>1. call.kind \notin Kinds
    BY <1>9 DEF RunUntil, StepSome, ExportWaveform, RunHeadless, Begins, AddBreakpoint, Reset,
                ElfLoad, NewProcess, Idle, Exited, Kinds
  <2>2. QED
    BY <2>1 DEF Told
<1>10. CASE UNCHANGED hostVars
  BY <1>10 DEF hostVars, Told
<1>11. QED
  BY <1>1, <1>2, <1>3, <1>4, <1>5, <1>6, <1>7, <1>8, <1>9, <1>10 DEF HostNext

\* Only the runner gives up on a condition, and nothing runs after it.
UnmetInv == report = "condition_unmet" => call.kind = "exited" /\ UnmetIsFinal

LEMMA UnmetStep ==
  ASSUME HostTypeOK, UnmetInv, [HostNext]_hostVars
  PROVE  UnmetInv'
<1> USE DEF UnmetInv
<1>1. CASE UntilStops \/ UntilRefuses \/ UntilEnds \/ StepEnds \/ WaveformEnds
  <2>1. report' # "condition_unmet"
    BY <1>1 DEF UntilStops, UntilRefuses, UntilEnds, LooksBack, StepEnds, WaveformEnds, Returns,
                MetReason
  <2>2. QED
    BY <2>1
<1>2. CASE HeadlessStops
  <2>1. /\ call.kind = "headless" /\ machine' = machine
        /\ report' = "condition_unmet" => machine.halted /\ call' = Exited
    BY <1>2 DEF HeadlessStops, Returns, MetReason
  <2>2. QED
    BY <2>1 DEF UnmetIsFinal, Exited, Idle
<1>3. CASE HeadlessGoes
  <2>1. CASE Goes
    BY <1>3, <2>1 DEF HeadlessGoes, Goes
  <2>2. CASE ~Goes
    <3>1. /\ call' = Exited /\ program' = program /\ machine' = machine
          /\ Stepped(machine, Draw(rng)) = machine
      BY <1>3, <2>2 DEF HeadlessGoes, Execute, NothingChanged, Returns
    <3>2. Draw(rng) \in 0..Jitter /\ machine \in Machine /\ machine.cycles \in Nat
      BY DrawTyped DEF HostTypeOK, Machine
    <3>3. ~Running(machine)
      BY <3>1, <3>2, SteppedTyped DEF HostTypeOK
    <3>4. Stepped(machine, 0) = machine
      BY <3>1, <3>3 DEF Stepped
    <3>5. Stepped(machine, 0)' = machine'
      BY <3>1, <3>4 DEF Stepped, Running, This
    <3>6. QED
      BY <3>1, <3>5 DEF UnmetIsFinal, Exited, Idle
  <2>3. QED
    BY <2>1, <2>2
<1>4. CASE UntilSteps \/ StepGoes \/ WaveformGoes
  BY <1>4 DEF UntilSteps, StepGoes, WaveformGoes, Goes
<1>5. CASE RunUntil \/ StepSome \/ ExportWaveform \/ RunHeadless \/ NewProcess
  BY <1>5 DEF RunUntil, StepSome, ExportWaveform, RunHeadless, Begins, NewProcess
<1>6. CASE AddBreakpoint \/ Reset \/ ElfLoad
  BY <1>6 DEF AddBreakpoint, Reset, ElfLoad, Idle
<1>7. CASE UNCHANGED hostVars
  BY <1>7 DEF hostVars, UnmetIsFinal, Stepped, Running, This
<1>8. QED
  BY <1>1, <1>2, <1>3, <1>4, <1>5, <1>6, <1>7 DEF HostNext

\* No answer of a call is false of the core, and a condition given up on stays
\* unmet: for every program, limit and kind of call.
THEOREM ReportsHold == HostSpec => ReportsAreTrue
<1>1. HostInit => UnmetInv
  BY DEF HostInit, UnmetInv
<1>2. HostTypeOK /\ UnmetInv /\ [HostNext]_hostVars => UnmetInv'
  BY UnmetStep
<1>3. UnmetInv' => UnmetIsFinal'
  BY DEF UnmetInv, UnmetIsFinal
<1>4. HostTypeOK /\ [HostNext]_hostVars => Told
  BY ReturnsTellTruth
<1>5. ReportsAreTrue <=> [][Told]_hostVars /\ [][UnmetIsFinal']_hostVars
  BY DEF ReportsAreTrue, ReportsOfCalls, Told
<1>6. QED
  BY <1>1, <1>2, <1>3, <1>4, <1>5, HostTypeCorrect, PTL DEF HostSpec
=============================================================================
