----------------------------- MODULE ViewStream -----------------------------
(***************************************************************************)
(* One browser view of the dashboard: ui/live_sessions.py,                 *)
(* DashboardConnection, with the coroutine of /ws that owns it.            *)
(*                                                                         *)
(* Replies of the view's own handler and updates published by the handlers *)
(* of other views share one bounded queue.  A writer task sends them one   *)
(* at a time.  The handler waits for the future of each reply; publishers  *)
(* never wait.  A publisher that finds the queue full closes the view.     *)
(*                                                                         *)
(* asyncio is single-threaded: an action is what runs between two awaits.  *)
(* writer.cancel() only asks; the CancelledError arrives when the writer   *)
(* next runs.  Up to Python 3.11 wait_for drops a cancellation that comes  *)
(* after the send completed and before the writer resumed (3.9 or later is *)
(* supported), so SendDone may win over a request to cancel.  A send that  *)
(* times out or is cancelled may or may not have reached the socket.       *)
(*                                                                         *)
(* Messages are numbered in the order in which the queue accepts them.     *)
(***************************************************************************)
EXTENDS Naturals, Sequences, SequencesExt

CONSTANTS
    Capacity,       \* asyncio.Queue(maxsize=64)
    MaxMessages     \* bound: messages accepted in a behaviour

ASSUME StreamAssumption == Capacity \in Nat \ {0} /\ MaxMessages \in Nat

VARIABLES
    pending,        \* self.pending
    accepted,       \* history variable: how many messages it accepted
    current,        \* the message the writer took and has not settled, or 0
    sender,         \* where _write_updates is suspended
    cancelling,     \* self.writer.cancel() was called and has not arrived
    closed,         \* self.closed
    closer,         \* the task closing the socket after an overflow runs
    socket,         \* the WebSocket
    wire,           \* history variable: the messages the socket took
    lost,           \* history variable: a message was refused by a full queue
    handler,        \* the view's coroutine in websocket_endpoint
    reply,          \* the message whose future it last awaited
    outcome         \* that future

queueVars == <<pending, accepted>>
writerVars == <<current, sender, wire>>
closeVars == <<cancelling, closed, closer, socket, lost>>
handlerVars == <<handler, reply, outcome>>
vars == <<queueVars, writerVars, closeVars, handlerVars>>

None == 0

-----------------------------------------------------------------------------
(***************************************************************************)
(* _enqueue: the queue takes the message, or the view is closed.           *)
(***************************************************************************)

Accept ==
    /\ pending' = Append(pending, accepted + 1)
    /\ accepted' = accepted + 1

\* (mutant) a full queue drops its oldest message and the view stays
DropOldest ==
    /\ pending' = Append(Tail(pending), accepted + 1)
    /\ accepted' = accepted + 1
    /\ UNCHANGED closeVars

\* (mutant) an overflowing view's writer stops and its socket stays open
OnlyStopsWriter ==
    /\ closed' = TRUE
    /\ cancelling' = (sender # "ended")
    /\ lost' = TRUE
    /\ UNCHANGED <<queueVars, closer, socket>>

\* A full queue: the view closes, so that its browser reconnects
Overflow ==
    /\ closed' = TRUE
    /\ cancelling' = (sender # "ended")
    /\ closer' = TRUE
    /\ lost' = TRUE
    /\ UNCHANGED <<queueVars, socket>>

HasRoom == Len(pending) < Capacity

-----------------------------------------------------------------------------
(***************************************************************************)
(* The handlers.                                                           *)
(***************************************************************************)

Init ==
    /\ pending = <<>> /\ accepted = 0
    /\ current = None /\ sender = "getting" /\ wire = <<>>
    /\ cancelling = FALSE /\ closed = FALSE /\ closer = FALSE
    /\ socket = "open" /\ lost = FALSE
    /\ handler = "working" /\ reply = None /\ outcome = "none"

\* publish: another view's handler, or a timer, sends this view an update
\* while the view is among _connections.  A closed view ignores it.
Publish ==
    /\ handler \in {"working", "awaiting"}
    /\ ~closed
    /\ \/ HasRoom /\ accepted < MaxMessages /\ Accept /\ UNCHANGED closeVars
       \/ ~HasRoom /\ Overflow
    /\ UNCHANGED <<writerVars, handlerVars>>

\* The finally clause of websocket_endpoint: the view leaves _connections and
\* close() cancels the writer and waits for it
Leave ==
    /\ handler' = "leaving"
    /\ cancelling' = (sender # "ended")

\* _send: a reply is queued and its future awaited
Reply ==
    /\ handler = "working"
    /\ ~closed /\ HasRoom /\ accepted < MaxMessages
    /\ Accept
    /\ reply' = accepted + 1 /\ outcome' = "waiting" /\ handler' = "awaiting"
    /\ UNCHANGED <<writerVars, closeVars>>

\* _send raises WebSocketDisconnect: the view is closed, or overflows now
ReplyRefused ==
    /\ handler = "working"
    /\ \/ closed /\ Leave /\ UNCHANGED <<queueVars, closed, closer, socket, lost>>
       \/ ~closed /\ ~HasRoom /\ Overflow /\ handler' = "leaving"
    /\ UNCHANGED <<writerVars, reply, outcome>>

\* The awaited future was resolved: go on, or leave with its exception
Resume ==
    /\ handler = "awaiting"
    /\ \/ outcome = "ok" /\ handler' = "working" /\ UNCHANGED cancelling
       \/ outcome = "failed" /\ Leave
    /\ UNCHANGED <<queueVars, writerVars, closed, closer, socket, lost, reply, outcome>>

\* The browser goes away
Disconnect ==
    /\ socket = "open" /\ socket' = "closed"
    /\ UNCHANGED <<queueVars, writerVars, cancelling, closed, closer, lost, handlerVars>>

\* The task started by _enqueue closes the socket
CloserRuns ==
    /\ closer /\ closer' = FALSE
    /\ socket' = "closed"
    /\ UNCHANGED <<queueVars, writerVars, cancelling, closed, lost, handlerVars>>

\* receive_text raises WebSocketDisconnect on a closed socket
NoticeClosed ==
    /\ handler = "working" /\ socket = "closed"
    /\ Leave
    /\ UNCHANGED <<queueVars, writerVars, closed, closer, socket, lost, reply, outcome>>

\* close() returns when the writer has ended
LeaveDone ==
    /\ handler = "leaving" /\ sender = "ended"
    /\ handler' = "gone"
    /\ UNCHANGED <<queueVars, writerVars, closeVars, reply, outcome>>

-----------------------------------------------------------------------------
(***************************************************************************)
(* The writer task, _write_updates.                                        *)
(***************************************************************************)

\* pending.get() returns
Take ==
    /\ sender = "getting" /\ ~cancelling /\ pending # <<>>
    /\ current' = Head(pending)
    /\ pending' = Tail(pending)
    /\ sender' = "sending"
    /\ UNCHANGED <<accepted, wire, closeVars, handlerVars>>

\* (mutant) any send resolves the awaited future
ResolvesAny(m) == IF outcome = "waiting" THEN "ok" ELSE outcome

\* The future of message m after its send, if the handler waits for it
ResolvedBy(m) == IF m = reply /\ outcome = "waiting" THEN "ok" ELSE outcome

\* The send returned in time; its future, if any, is resolved
SendDone ==
    /\ sender = "sending" /\ socket = "open"
    /\ wire' = Append(wire, current)
    /\ outcome' = ResolvedBy(current)
    /\ current' = None
    /\ sender' = "getting"
    /\ cancelling' = FALSE
    /\ UNCHANGED <<queueVars, closed, closer, socket, lost, handler, reply>>

\* Two seconds passed, or the socket is closed: the writer closes the socket,
\* with the view not yet marked closed
SendFails ==
    /\ sender = "sending" /\ ~cancelling
    /\ wire' \in {wire, Append(wire, current)}
    /\ sender' = "closing"
    /\ UNCHANGED <<queueVars, current, closeVars, handlerVars>>

\* (mutant) only the message at hand is settled; queued replies are forgotten
SettledOnlyCurrent == IF outcome = "waiting" /\ reply = current THEN "failed" ELSE outcome

\* The future after the finally clause: the message at hand and every queued
\* one are settled
Settled ==
    IF outcome = "waiting" /\ (reply = current \/ Contains(pending, reply))
    THEN "failed" ELSE outcome

\* The finally clause of the writer
Finish ==
    /\ sender' = "ended"
    /\ closed' = TRUE
    /\ outcome' = Settled
    /\ pending' = <<>>
    /\ current' = None
    /\ cancelling' = FALSE
    /\ UNCHANGED <<accepted, closer, lost, handler, reply>>

\* The writer's own close of the socket returned
CloseReturns ==
    /\ sender = "closing" /\ ~cancelling
    /\ socket' = "closed"
    /\ Finish
    /\ UNCHANGED wire

\* CancelledError arrives at whichever await the writer is in
CancelArrives ==
    /\ cancelling /\ sender # "ended"
    /\ wire' \in IF sender = "sending" THEN {wire, Append(wire, current)} ELSE {wire}
    /\ Finish
    /\ UNCHANGED socket

Writer == Take \/ SendDone \/ SendFails \/ CloseReturns \/ CancelArrives

Handler == Resume \/ NoticeClosed \/ LeaveDone

Next ==
    \/ Publish \/ Reply \/ ReplyRefused \/ Disconnect \/ CloserRuns
    \/ Handler \/ Writer

Spec == Init /\ [][Next]_vars

\* Tasks that can run do: the event loop is fair, a send ends within its
\* timeout, and closing a WebSocket ends within the server's close timeout
FairSpec == Spec /\ WF_vars(Writer) /\ WF_vars(Handler) /\ WF_vars(CloserRuns)

-----------------------------------------------------------------------------
(***************************************************************************)
(* Properties.                                                             *)
(***************************************************************************)

\* The variables keep their types and the queue its capacity.
TypeOK ==
    /\ pending \in Seq(Nat) /\ Len(pending) <= Capacity
    /\ accepted \in Nat /\ current \in Nat /\ reply \in Nat
    /\ wire \in Seq(Nat)
    /\ sender \in {"getting", "sending", "closing", "ended"}
    /\ socket \in {"open", "closed"}
    /\ handler \in {"working", "awaiting", "leaving", "gone"}
    /\ outcome \in {"none", "waiting", "ok", "failed"}
    /\ {cancelling, closed, closer, lost} \subseteq BOOLEAN

InFlight == IF current = None THEN <<>> ELSE <<current>>

UpTo(n) == [i \in 1 .. n |-> i]

\* One ordered stream: the browser receives messages in the order in which
\* replies and updates were queued, with no gap and none twice, and as long
\* as the writer lives every accepted message is sent or still to be sent,
\* whatever overflow, timeout or cancellation interrupts it.
StreamInOrder ==
    /\ wire = UpTo(Len(wire))
    /\ sender \in {"getting", "sending"} =>
           wire \o InFlight \o pending = UpTo(accepted)

\* A reply counts as sent only if the socket took it, as failed only if the
\* view is closed, and one still awaited is in the writer's hands or queued:
\* no handler waits for a message that was dropped.
RepliesAreTrue ==
    /\ outcome = "ok" => Contains(wire, reply)
    /\ outcome = "failed" => closed
    /\ outcome = "waiting" => reply = current \/ Contains(pending, reply)

\* Every reply's future is resolved: no handler waits forever in _send, and
\* so none holds back the publications that follow its reply.
EveryReplyResolves == outcome = "waiting" ~> outcome # "waiting"

\* A view too slow for its queue does not stay connected with a gap: the
\* socket is closed and its handler leaves, so that the browser reconnects.
SlowViewReconnects ==
    lost ~> socket = "closed" /\ handler \in {"leaving", "gone"}

\* No view is left hanging, neither by a reply nor by its slowness.
NoViewHangs == EveryReplyResolves /\ SlowViewReconnects
=============================================================================
