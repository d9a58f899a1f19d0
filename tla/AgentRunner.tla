------------------------------ MODULE AgentRunner ------------------------------
(***************************************************************************)
(* The runner of a worker (crew-agent runner.rs, bus.rs): the reader loop of    *)
(* its bus connection feeds a bounded inbox and resolves receipts, the run loop *)
(* takes one envelope or control at a time, runs the behaviour's turn           *)
(* (HarnessTurn) and sends the answers, each of which awaits its receipt while   *)
(* nobody empties the inbox.                                                *)
(*                                                                          *)
(* A receipt is awaited for two seconds; a write to the socket has no timeout,  *)
(* and waits as long as the socket is full.  The task of this connection on the  *)
(* bus's side reads nothing while it writes (BusRegistry, connection.rs:86-116).  *)
(***************************************************************************)
EXTENDS HarnessTurn

CONSTANTS
    InboxCapacity,  \* EVENTS_CHANNEL_CAPACITY of bus.rs
    Attempts,       \* SEND_ATTEMPTS
    SocketCapacity, \* frames that fit in the socket, in each direction
    MaxFrames       \* bound: envelopes the bus sends to the agent

ASSUME InboxAssumption == InboxCapacity \in Nat \ {0} /\ Attempts \in Nat \ {0}
ASSUME SocketAssumption == SocketCapacity \in Nat \ {0}
ASSUME FramesAssumption == MaxFrames \in Nat

VARIABLES
    stream,         \* frames to the agent its reader loop is not done with: envelopes
                    \* and receipts, by id; one that does not fit is still being written
    acked,          \* the reader loop has written the receipt of the first of them
    unread,         \* frames of the agent in the socket
    inbox,          \* envelopes in the events channel of BusConn
    presence,       \* presence frames to write before going on
    left,           \* answers of the turn still to send
    sending,        \* the send in progress: where it is, attempt and receipt
    unacked,        \* sends the bus has yet to answer
    frames          \* bound

socketVars == <<stream, acked, unread>>
runVars == <<socketVars, inbox, presence, left, sending, unacked, frames>>
vars == <<vars0, runVars>>

Envelope == 0       \* any but a receipt; what it is shows when the runner takes it
NoReply == 0        \* a receipt or a presence frame of the agent: the bus sends nothing back
Ids == 1..(2 * MaxTurns)
Id == 2 * turn + 1 - left       \* of the envelope in hand: its turn and its place in it
NoSend == [at |-> "no", attempt |-> 0, receipt |-> FALSE]

TypeOK ==
    /\ TurnTypeOK
    /\ stream \in Seq(Ids \cup {Envelope}) /\ Len(stream) <= SocketCapacity + 1 /\ acked \in BOOLEAN
    /\ unread \in Seq(Ids \cup {NoReply}) /\ Len(unread) <= SocketCapacity
    /\ inbox \in 0..InboxCapacity /\ presence \in 0..3 /\ left \in 0..2
    /\ frames \in 0..MaxFrames
    /\ sending \in [at : {"no", "write", "wait"}, attempt : 0..Attempts, receipt : BOOLEAN]
    /\ unacked \in Seq(Ids)

Init ==
    /\ TurnInit
    /\ stream = <<>> /\ acked = FALSE /\ unread = <<>> /\ inbox = 0
    /\ presence = 0 /\ left = 0 /\ sending = NoSend /\ unacked = <<>>
    /\ frames = 0

-------------------------------------------------------------------------------
(* The connection. *)

\* The bus's task is in the write of a frame that does not fit.
BusStuck == Len(stream) > SocketCapacity

BusSends ==
    /\ ~ BusStuck
    /\ frames < MaxFrames /\ frames' = frames + 1
    /\ stream' = Append(stream, Envelope)
    /\ UNCHANGED <<vars0, acked, unread, inbox, presence, left, sending, unacked>>

BusAnswers ==
    /\ ~ BusStuck /\ unacked # <<>>
    /\ stream' = Append(stream, Head(unacked))
    /\ unacked' = Tail(unacked)
    /\ UNCHANGED <<vars0, acked, unread, inbox, presence, left, sending, frames>>

BusReads ==
    /\ ~ BusStuck /\ unread # <<>>
    /\ unread' = Tail(unread)
    /\ unacked' = IF Head(unread) = NoReply THEN unacked ELSE Append(unacked, Head(unread))
    /\ UNCHANGED <<vars0, stream, acked, inbox, presence, left, sending, frames>>

\* `outbound`: its lock is held for one write, so who waits for the lock waits for
\* the same thing as who holds it, room in the socket.
Write(id) == Len(unread) < SocketCapacity /\ unread' = Append(unread, id)

AtEnvelope == stream # <<>> /\ Head(stream) = Envelope

\* reader_loop: an envelope's own receipt first.
AckFrame ==
    /\ AtEnvelope /\ ~ acked
    /\ Write(NoReply) /\ acked' = TRUE
    /\ UNCHANGED <<vars0, stream, inbox, presence, left, sending, unacked, frames>>

\* The loop stands at an envelope the inbox has no room for.
Blocked == AtEnvelope /\ acked /\ inbox = InboxCapacity

\* reader_loop: a receipt resolves the send that waits for it, an envelope goes to
\* the inbox.
ReadFrame ==
    /\ stream # <<>> /\ ~ Blocked
    /\ stream' = Tail(stream) /\ acked' = FALSE
    /\ IF AtEnvelope
         THEN acked /\ inbox' = inbox + 1 /\ UNCHANGED sending
         ELSE /\ sending' = IF sending.at # "no" /\ Head(stream) = Id
                              THEN [sending EXCEPT !.receipt = TRUE] ELSE sending
              /\ UNCHANGED inbox
    /\ UNCHANGED <<vars0, unread, presence, left, unacked, frames>>

-------------------------------------------------------------------------------
(* The run loop. *)

\* A change request or an assignment, with emit_presence_start before on_envelope
\* and emit_presence_end after it; or one the worker does nothing with (presence of
\* the Lead).
TakeEnvelope ==
    /\ phase = "idle" /\ inbox > 0
    /\ inbox' = inbox - 1
    /\ \/ TakeRequest /\ presence' = IF phase' = "reply" THEN 3 ELSE 2
       \/ UNCHANGED <<vars0, presence>>
    /\ UNCHANGED <<socketVars, left, sending, unacked, frames>>

\* send_best_effort: a write, and no receipt.
WritePresence ==
    /\ presence > 0 /\ presence' = presence - 1
    /\ Write(NoReply)
    /\ UNCHANGED <<vars0, stream, acked, inbox, left, sending, unacked, frames>>

OnEnvelope ==
    /\ presence = 0 /\ Behaviour
    /\ presence' = IF phase' = "reply" THEN 1 ELSE 0
    /\ UNCHANGED <<socketVars, inbox, left, sending, unacked, frames>>

TakeControl == Swap /\ UNCHANGED runVars

\* ack_and_result or blocked: the answers of a turn, in order.
Replies == IF answer.kind = "result" THEN 2 ELSE 1

\* BusConn::send; `id` is that of the envelope, so every attempt of one send has
\* the same.
Attempt ==
    /\ phase = "reply" /\ presence = 0 /\ sending.at = "no"
    /\ sending.attempt < Attempts
    /\ left' = IF left = 0 THEN Replies ELSE left
    /\ sending' = [at |-> "write", attempt |-> sending.attempt + 1, receipt |-> FALSE]
    /\ UNCHANGED <<vars0, socketVars, inbox, presence, unacked, frames>>

WriteSend ==
    /\ sending.at = "write" /\ sending' = [sending EXCEPT !.at = "wait"]
    /\ Write(Id)
    /\ UNCHANGED <<vars0, stream, acked, inbox, presence, left, unacked, frames>>

Delivered ==
    /\ sending.at = "wait" /\ sending.receipt
    /\ sending' = NoSend
    /\ left' = left - 1
    /\ phase' = IF left = 1 THEN "idle" ELSE "reply"
    /\ UNCHANGED <<turn, injected, outcome, answer, session, childVars, readVars, drainVars,
                   version, won, lines, faults, socketVars, inbox, presence, unacked, frames>>

NoReceiptTimeout == FALSE       \* (mutant)

\* After the last attempt the runner ends with the error.
ReceiptTimeout ==
    /\ sending.at = "wait"
    /\ IF sending.attempt < Attempts
         THEN sending' = [sending EXCEPT !.at = "no"] /\ UNCHANGED phase
         ELSE sending' = NoSend /\ phase' = "dead"
    /\ UNCHANGED <<turn, injected, outcome, answer, session, childVars, readVars, drainVars,
                   version, won, lines, faults, socketVars, inbox, presence, left, unacked, frames>>

Next ==
    \/ BusSends \/ BusAnswers \/ BusReads \/ AckFrame \/ ReadFrame
    \/ TakeEnvelope \/ WritePresence \/ OnEnvelope \/ TakeControl
    \/ Attempt \/ WriteSend \/ Delivered \/ ReceiptTimeout
    \/ Machinery /\ UNCHANGED runVars

Spec == Init /\ [][Next]_vars

(***************************************************************************)
(* Fairness: the runtime polls the tasks, timeouts fire, a slot comes free, a    *)
(* write ends when there is room, the bus's task reads when it is not writing.   *)
(* The child has to do nothing, and the bus to send nothing.                  *)
(***************************************************************************)
Fairness ==
    /\ WF_vars((ReadLine \/ ReadEof \/ PushEvent \/ PushOutcome) /\ UNCHANGED runVars)
    /\ WF_vars((DrainEvent \/ DrainEof) /\ UNCHANGED runVars)
    /\ WF_vars(OnEnvelope) /\ WF_vars(WritePresence)
    /\ WF_vars(BusReads) /\ WF_vars(AckFrame) /\ WF_vars(ReadFrame)
    /\ WF_vars(Attempt) /\ WF_vars(WriteSend) /\ WF_vars(Delivered \/ ReceiptTimeout)

FairSpec == Spec /\ Fairness

-------------------------------------------------------------------------------
(* Properties. *)

\* A prompt its child does not read.
Deaf == phase = "write" /\ child.at # "dead"

\* A write of the runner and everything that could make room for it: the bus's task
\* is writing to the agent, whose reader loop has no room either, in the socket or
\* in the inbox.
Wedged ==
    /\ presence > 0 \/ sending.at = "write"
    /\ Len(unread) = SocketCapacity /\ BusStuck
    /\ AtEnvelope /\ (acked => Blocked)

\* Every request is done with: the runner gets back to its loop, or ends with an
\* error, whatever the child and the bus do and although the reader loop may stand
\* at a full inbox while the runner awaits the receipt behind it (bus.rs:247).
\* Only three things keep it, each as long as it lasts: a process of the child's that
\* holds its stdout, a prompt the child does not read, and a wedged connection.
RunnerReturns ==
    \/ phase # "idle" ~> phase \in {"idle", "dead"}
    \/ <>[](held \/ Deaf \/ Wedged)

\* harness_behavior.rs:459-461: a turn that uses tools "is bounded by
\* `turn_timeout_secs` instead".  Its drain is not.
TurnsAreBounded == phase \in {"await", "join"} ~> phase \in {"discard", "reply"}

\* crew-harness lib.rs:26: the "turn timeout for [`Harness::send`]".  The write of
\* the prompt is part of send and comes before it (claude.rs:268-276).
WritesAreBounded == phase = "write" ~> phase # "write"

\* bus.rs:135-136: send waits "up to 2s per attempt for the server's `Receipt`", "3
\* attempts total": an answer is sent, or given up, in bounded time.
SendIsBounded == phase = "reply" ~> phase # "reply"

\* bus.rs:58: the reader task "resolves pending `send()` calls when their
\* `Receipt` arrives": a receipt never waits behind an envelope that has no room.
ReceiptResolves ==
    sending.at # "no" /\ (\E i \in DOMAIN stream : stream[i] = Id) =>
        ~ Blocked

===============================================================================
