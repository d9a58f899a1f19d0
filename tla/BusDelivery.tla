------------------------------ MODULE BusDelivery ------------------------------
(***************************************************************************)
(* The path of an envelope: BusConn::send of one agent (crew-agent bus.rs), *)
(* the submission dedup, routing, tracking and redelivery of the bus        *)
(* (crew-bus routing.rs, state.rs), the reader loop of the recipient and    *)
(* the Receipts on their way back.                                          *)
(*                                                                          *)
(* Steps are the code between two lock acquisitions that another task can   *)
(* separate: in particular the hand-off of an envelope to its recipient and *)
(* the insertion of its pending entry are two steps, and so are the last    *)
(* redelivery and the removal that declares the delivery failed.  How a     *)
(* registration lives and dies is BusRegistry's subject; here a connection  *)
(* may be evicted, die and be replaced.                                     *)
(***************************************************************************)
EXTENDS Integers, Sequences, FiniteSets, CorrGuard

CONSTANTS
    Agents, Msgs,
    From, To,            \* sender and sequence of recipients of an envelope
    NeedsAck, Guarded,   \* envelopes with requires_ack, of a guarded kind
    BestEffort,          \* envelopes sent with send_best_effort
    CorrOf,              \* conversation of an envelope
    MaxDelivery,         \* BusConfig::max_delivery_attempts
    MaxRounds,           \* BusConfig::max_rounds
    SeenCapacity,        \* BusConfig::seen_capacity
    OutboundBuffer,      \* BusConfig::outbound_buffer
    SendAttempts,        \* SEND_ATTEMPTS of BusConn::send
    MaxBreaks            \* bound of the model: connections of an agent that end

Keys == {k \in Msgs \X Agents : \E i \in DOMAIN To[k[1]] : To[k[1]][i] = k[2]}
Corrs == {CorrOf[m] : m \in Msgs}

ASSUME EnvelopeAssumption ==
    /\ From \in [Msgs -> Agents]
    /\ To \in [Msgs -> Seq(Agents) \ {<<>>}]     \* Envelope::validate
    /\ {NeedsAck, Guarded, BestEffort} \subseteq SUBSET Msgs
    /\ DOMAIN CorrOf = Msgs
ASSUME BoundAssumption ==
    /\ {MaxDelivery, SeenCapacity, OutboundBuffer, SendAttempts} \subseteq Nat \ {0}
    /\ MaxRounds \in Nat /\ MaxBreaks \in [Agents -> Nat]

VARIABLES
    chan,      \* [link, out] of an agent: its connection and its outbound frames
    toBus,     \* frames an agent wrote that its connection task has not read
    seen,      \* SeenSet::order (its set holds the same ids)
    routing,   \* the envelope a connection task is routing, with what is left
    guard,     \* Shared::guard
    pending,   \* Shared::pending: attempts of a tracked delivery, 0 for none
    retry,     \* the retry tasks spawned for a key, in order
    submit,    \* the send() call of an envelope
    got,       \* the reader loop's seen set
    handed,    \* times the current connection handed an envelope to its runner
    accepted, reached, told, cleared, failed, breaks    \* history

sender == <<submit, got, handed>>
bus == <<seen, routing, guard, pending, retry>>
history == <<accepted, reached, told, cleared, failed, breaks>>
vars == <<chan, toBus, sender, bus, history>>

Link == {"up", "evicted", "dead", "down"}
Errors == {"unknown_recipient", "loop_blocked", "delivery_failed"}
Frame == [type : {"envelope", "receipt"} \cup Errors, id : Msgs]
Idle == [id |-> "none", todo |-> <<>>, track |-> FALSE]

TypeOK ==
    /\ chan \in [Agents -> [link : Link, out : Seq(Frame)]]
    /\ toBus \in [Agents -> Seq(Frame)]
    /\ seen \in Seq(Msgs) /\ Len(seen) <= SeenCapacity
    /\ routing \in [Agents -> {Idle} \cup [id : Msgs, todo : Seq(Agents), track : BOOLEAN]]
    /\ guard \in [Corrs -> [edges : Seq(Agents \X Agents), rounds : Nat,
                            verdict : {"Accepted", "CycleDetected", "ExceededRounds"}]]
    /\ pending \in [Keys -> 0..MaxDelivery]
    /\ retry \in [Keys -> Seq([attempt : 1..MaxDelivery,
                               at : {"sleep", "send", "final", "ended"}])]
    /\ submit \in [Msgs -> [at : {"idle", "waiting", "backoff", "ok", "failed", "broken", "sent"},
                            tries : 0..SendAttempts]]
    /\ got \in [Agents -> SUBSET Msgs]
    /\ handed \in [Keys -> Nat]
    /\ accepted \subseteq Msgs /\ reached \subseteq Keys
    /\ told \subseteq Errors \X Msgs
    /\ cleared \in [Keys -> Nat] /\ failed \in [Keys -> Nat]
    /\ breaks \in [Agents -> Nat]

Init ==
    /\ chan = [a \in Agents |-> [link |-> "up", out |-> <<>>]]
    /\ toBus = [a \in Agents |-> <<>>]
    /\ seen = <<>>
    /\ routing = [a \in Agents |-> Idle]
    /\ guard = [c \in Corrs |-> NoHops]
    /\ pending = [k \in Keys |-> 0]
    /\ retry = [k \in Keys |-> <<>>]
    /\ submit = [m \in Msgs |-> [at |-> "idle", tries |-> 0]]
    /\ got = [a \in Agents |-> {}]
    /\ handed = [k \in Keys |-> 0]
    /\ accepted = {} /\ reached = {} /\ told = {}
    /\ cleared = [k \in Keys |-> 0] /\ failed = [k \in Keys |-> 0]
    /\ breaks = [a \in Agents |-> 0]

(***************************************************************************)
(* send_to.  A frame for a client that died unnoticed is handed off and     *)
(* lost; a full channel evicts, and what it holds is still written out.     *)
(***************************************************************************)
Registered(ch, a) == ch[a].link \in {"up", "dead"}
Overflows(ch, a) == ch[a].link = "up" /\ Len(ch[a].out) >= OutboundBuffer
Handed(ch, a) == Registered(ch, a) /\ ~Overflows(ch, a)

SendTo(ch, a, type, m) ==
    IF Overflows(ch, a) THEN [ch EXCEPT ![a].link = "evicted"]
    ELSE IF ch[a].link = "up"
         THEN [ch EXCEPT ![a].out = Append(@, [type |-> type, id |-> m])]
         ELSE ch

(***************************************************************************)
(* BusConn::send.  The runner awaits one send before it starts another.     *)
(***************************************************************************)
Connected(a) == chan[a].link \in {"up", "evicted"}
Busy(a) == \E m \in Msgs : From[m] = a /\ submit[m].at \in {"waiting", "backoff"}

Write(m) ==
    LET a == From[m] IN
    IF Connected(a)
    THEN /\ toBus' = [toBus EXCEPT ![a] = Append(@, [type |-> "envelope", id |-> m])]
         /\ submit' = [submit EXCEPT ![m] = [at |-> "waiting", tries |-> @.tries + 1]]
    ELSE /\ submit' = [submit EXCEPT ![m].at = "broken"]
         /\ UNCHANGED toBus

StartSend(m) ==
    /\ m \notin BestEffort
    /\ submit[m].at = "idle" /\ ~Busy(From[m]) /\ Connected(From[m])
    /\ Write(m)
    /\ UNCHANGED <<chan, got, handed, bus, history>>

\* send_best_effort: one write, no wait, no retry.
SendBestEffort(m) ==
    /\ m \in BestEffort
    /\ submit[m].at = "idle" /\ ~Busy(From[m]) /\ Connected(From[m])
    /\ toBus' = [toBus EXCEPT ![From[m]] = Append(@, [type |-> "envelope", id |-> m])]
    /\ submit' = [submit EXCEPT ![m].at = "sent"]
    /\ UNCHANGED <<chan, got, handed, bus, history>>

\* RECEIPT_TIMEOUT: the oneshot leaves pending_receipts, so a Receipt that
\* arrives during the backoff is dropped.
ReceiptTimeout(m) ==
    /\ submit[m].at = "waiting"
    /\ submit' = [submit EXCEPT ![m].at =
                    IF submit[m].tries < SendAttempts THEN "backoff" ELSE "failed"]
    /\ UNCHANGED <<chan, toBus, got, handed, bus, history>>

Resend(m) ==
    /\ submit[m].at = "backoff"
    /\ Write(m)
    /\ UNCHANGED <<chan, got, handed, bus, history>>

(***************************************************************************)
(* reader_loop: every envelope is acknowledged, only a new one is handed on.*)
(***************************************************************************)
AnyIsNew(a, m) == TRUE  \* mutant of IsNew
IsNew(a, m) == m \notin got[a]

ReadFrame(a) ==
    /\ Connected(a) /\ chan[a].out # <<>>
    /\ chan' = [chan EXCEPT ![a].out = Tail(@)]
    /\ LET f == Head(chan[a].out) IN
       \/ /\ f.type = "receipt"
          /\ submit' = IF submit[f.id].at = "waiting"
                       THEN [submit EXCEPT ![f.id].at = "ok"] ELSE submit
          /\ UNCHANGED <<toBus, got, handed, reached, told>>
       \/ /\ f.type = "envelope"
          /\ toBus' = [toBus EXCEPT ![a] = Append(@, [type |-> "receipt", id |-> f.id])]
          /\ got' = [got EXCEPT ![a] = @ \cup {f.id}]
          /\ handed' = IF IsNew(a, f.id) THEN [handed EXCEPT ![<<f.id, a>>] = @ + 1]
                       ELSE handed
          /\ reached' = reached \cup {<<f.id, a>>}
          /\ UNCHANGED <<submit, told>>
       \/ /\ f.type \in Errors
          /\ told' = told \cup {<<f.type, f.id>>}
          /\ UNCHANGED <<toBus, sender, reached>>
    /\ UNCHANGED <<bus, accepted, cleared, failed, breaks>>

(***************************************************************************)
(* handle_client_text in the connection task of agent a.                    *)
(***************************************************************************)
TakeFrame(a, type) ==
    /\ routing[a] = Idle
    /\ toBus[a] # <<>> /\ Head(toBus[a]).type = type
    /\ toBus' = [toBus EXCEPT ![a] = Tail(@)]

\* clear_pending
TakeReceipt(a) ==
    /\ TakeFrame(a, "receipt")
    /\ LET m == Head(toBus[a]).id
           k == <<m, a>>
       IN IF pending[k] # 0
          THEN /\ pending' = [pending EXCEPT ![k] = 0]
               /\ chan' = SendTo(chan, From[m], "receipt", m)
               /\ cleared' = [cleared EXCEPT ![k] = @ + 1]
          ELSE UNCHANGED <<pending, chan, cleared>>
    /\ UNCHANGED <<sender, seen, routing, guard, retry, accepted, reached, told, failed, breaks>>

SeenByCorr(m) == \E i \in DOMAIN seen : CorrOf[seen[i]] = CorrOf[m]  \* mutant of Seen
Seen(m) == \E i \in DOMAIN seen : seen[i] = m


\* SeenSet::insert of a new id, evicting the oldest at capacity
Remember(m) ==
    Append(IF Len(seen) >= SeenCapacity THEN Tail(seen) ELSE seen, m)

\* handle_envelope
TakeEnvelope(a) ==
    /\ TakeFrame(a, "envelope")
    /\ LET m == Head(toBus[a]).id IN
       IF Seen(m)
       THEN /\ chan' = SendTo(chan, a, "receipt", m)
            /\ UNCHANGED <<seen, routing, accepted>>
       ELSE /\ seen' = Remember(m)
            /\ accepted' = accepted \cup {m}
            /\ routing' = [routing EXCEPT ![a] = [id |-> m, todo |-> To[m], track |-> FALSE]]
            /\ UNCHANGED chan
    /\ UNCHANGED <<sender, guard, pending, retry, reached, told, cleared, failed, breaks>>

Advance(a) ==
    IF Len(routing[a].todo) = 1 THEN [routing EXCEPT ![a] = Idle]
    ELSE [routing EXCEPT ![a].todo = Tail(@), ![a].track = FALSE]

\* route_one up to the Delivered event, for the next recipient.
RouteOne(a) ==
    /\ routing[a] # Idle /\ ~routing[a].track
    /\ LET m == routing[a].id
           r == Head(routing[a].todo)
           hop == Record(guard[CorrOf[m]], a, r, MaxRounds)
       IN \/ /\ ~Registered(chan, r)
             /\ chan' = SendTo(chan, a, "unknown_recipient", m)
             /\ routing' = Advance(a)
             /\ UNCHANGED guard
          \/ /\ Registered(chan, r)
             /\ guard' = IF m \in Guarded THEN [guard EXCEPT ![CorrOf[m]] = hop] ELSE guard
             /\ \/ /\ m \in Guarded /\ hop.verdict # "Accepted"
                   /\ chan' = SendTo(chan, a, "loop_blocked", m)
                   /\ routing' = Advance(a)
                \/ /\ m \notin Guarded \/ hop.verdict = "Accepted"
                   /\ Handed(chan, r)
                   /\ chan' = SendTo(chan, r, "envelope", m)
                   /\ routing' = IF m \in NeedsAck
                                 THEN [routing EXCEPT ![a].track = TRUE] ELSE Advance(a)
                \/ /\ m \notin Guarded \/ hop.verdict = "Accepted"
                   /\ ~Handed(chan, r)
                   /\ chan' = SendTo(SendTo(chan, r, "envelope", m), a, "unknown_recipient", m)
                   /\ routing' = Advance(a)
    /\ UNCHANGED <<toBus, sender, seen, pending, retry, history>>

\* The loop condition of a retry task.
AfterLastSendEnd(n) == IF n < MaxDelivery THEN "sleep" ELSE "ended"  \* mutant of AfterSend
AfterSend(n) == IF n < MaxDelivery THEN "sleep" ELSE "final"

\* spawn_retry: the pending entry appears after the hand-off.
Track(a) ==
    /\ routing[a].track
    /\ LET k == <<routing[a].id, Head(routing[a].todo)>> IN
       /\ pending' = [pending EXCEPT ![k] = 1]
       /\ retry' = [retry EXCEPT ![k] = Append(@, [attempt |-> 1, at |-> AfterSend(1)])]
    /\ routing' = Advance(a)
    /\ UNCHANGED <<chan, toBus, sender, seen, guard, history>>

(***************************************************************************)
(* The i-th retry task of delivery k.                                       *)
(***************************************************************************)
RetryWake(k, i) ==
    /\ retry[k][i].at = "sleep"
    /\ IF pending[k] = 0
       THEN /\ retry' = [retry EXCEPT ![k][i].at = "ended"]
            /\ UNCHANGED pending
       ELSE /\ retry' = [retry EXCEPT ![k][i] = [attempt |-> @.attempt + 1, at |-> "send"]]
            /\ pending' = [pending EXCEPT ![k] = retry[k][i].attempt + 1]
    /\ UNCHANGED <<chan, toBus, sender, seen, routing, guard, history>>

RetrySend(k, i) ==
    /\ retry[k][i].at = "send"
    /\ chan' = SendTo(chan, k[2], "envelope", k[1])
    /\ retry' = [retry EXCEPT ![k][i].at = AfterSend(retry[k][i].attempt)]
    /\ UNCHANGED <<toBus, sender, seen, routing, guard, pending, history>>

NeverExhausted(k) == FALSE  \* mutant of Exhausted
Exhausted(k) == pending[k] # 0

RetryFinal(k, i) ==
    /\ retry[k][i].at = "final"
    /\ retry' = [retry EXCEPT ![k][i].at = "ended"]
    /\ IF Exhausted(k)
       THEN /\ pending' = [pending EXCEPT ![k] = 0]
            /\ chan' = SendTo(chan, From[k[1]], "delivery_failed", k[1])
            /\ failed' = [failed EXCEPT ![k] = @ + 1]
       ELSE UNCHANGED <<pending, chan, failed>>
    /\ UNCHANGED <<toBus, sender, seen, routing, guard, accepted, reached, told, cleared, breaks>>

RetryStep(k) == \E i \in DOMAIN retry[k] : RetryWake(k, i) \/ RetrySend(k, i) \/ RetryFinal(k, i)

(***************************************************************************)
(* Connections end and are replaced.                                        *)
(***************************************************************************)
Forget(a) ==
    /\ got' = [got EXCEPT ![a] = {}]
    /\ handed' = [k \in Keys |-> IF k[2] = a THEN 0 ELSE handed[k]]

\* The client goes away; the bus still has it registered and may read what it
\* wrote before.
Die(a) ==
    /\ chan[a].link = "up" /\ breaks[a] < MaxBreaks[a]
    /\ chan' = [chan EXCEPT ![a] = [link |-> "dead", out |-> <<>>]]
    /\ Forget(a)
    /\ UNCHANGED <<toBus, submit, bus, history>>

\* The connection task leaves its loop: close noticed, or evicted and drained.
Unregister(a) ==
    /\ \/ chan[a].link = "dead"
       \/ chan[a].link = "evicted" /\ chan[a].out = <<>>
    /\ routing[a] = Idle
    /\ chan' = [chan EXCEPT ![a].link = "down"]
    /\ toBus' = [toBus EXCEPT ![a] = <<>>]
    /\ Forget(a)
    /\ breaks' = [breaks EXCEPT ![a] = @ + 1]
    /\ UNCHANGED <<submit, bus, accepted, reached, told, cleared, failed>>

\* A new connection belongs to a new runner: the calls of the old one ended with it.
Reconnect(a) ==
    /\ chan[a].link = "down" /\ breaks[a] <= MaxBreaks[a]
    /\ chan' = [chan EXCEPT ![a] = [link |-> "up", out |-> <<>>]]
    /\ submit' = [m \in Msgs |->
         IF From[m] = a /\ submit[m].at \in {"waiting", "backoff"}
         THEN [submit[m] EXCEPT !.at = "broken"] ELSE submit[m]]
    /\ UNCHANGED <<toBus, got, handed, bus, history>>

BusStep(a) == TakeReceipt(a) \/ TakeEnvelope(a) \/ RouteOne(a) \/ Track(a)

Progress ==
    \/ \E m \in Msgs : ReceiptTimeout(m) \/ Resend(m)
    \/ \E a \in Agents : ReadFrame(a) \/ BusStep(a) \/ Unregister(a)
    \/ \E k \in Keys : RetryStep(k)

Environment ==
    \/ \E m \in Msgs : StartSend(m) \/ SendBestEffort(m)
    \/ \E a \in Agents : Die(a) \/ Reconnect(a)

Next == Progress \/ Environment

Spec == Init /\ [][Next]_vars

(***************************************************************************)
(* The runtime does not stop while a task, a reader loop or a timer can     *)
(* make progress; which of them runs is its choice.  Nothing makes an agent *)
(* send, die or reconnect.                                                  *)
(***************************************************************************)
Fairness == WF_vars(Progress)

FairSpec == Spec /\ Fairness
--------------------------------------------------------------------------------
(***************************************************************************)
(* Properties.                                                              *)
(***************************************************************************)
\* The path of envelopes keeps the promise of acknowledged delivery.  However
\* redelivery and resubmission overlap, no runner sees an envelope twice on one
\* connection; however the retry task and the recipient's connection task race for a
\* pending entry, and overlapping retry tasks share it, a delivery ends once; and
\* send() returns Ok for an envelope the bus has taken only.
Promise == INSTANCE Delivery WITH
    confirmed <- {m \in Msgs : submit[m].at = "ok"},
    refused   <- {e[2] : e \in told},
    open      <- {k \in Keys : pending[k] # 0},
    tracked   <- [k \in Keys |-> Len(retry[k])]
KeepsPromise == Promise!Spec

\* A send() that returns Ok on its first attempt is end to end: a recipient has
\* the envelope.  (On a later attempt Ok only means that the bus has it.)
FirstTryIsEndToEnd ==
    \A m \in Msgs : (submit[m].at = "ok" /\ submit[m].tries = 1) =>
        \E k \in reached : k[1] = m

\* A tracked delivery is always resolved, whatever becomes of the recipient.
TrackedResolves == \A k \in Keys : (pending[k] # 0) ~> (pending[k] = 0)

\* At-least-once: an accepted envelope that asks for an ack reaches each of its
\* recipients or its sender is told of an error, unless the sender's own
\* connection broke.
ReachedOrTold ==
    \A k \in Keys : (k[1] \in accepted /\ k[1] \in NeedsAck) ~>
        \/ k \in reached
        \/ \E e \in Errors : <<e, k[1]>> \in told
        \/ chan[From[k[1]]].link # "up" \/ breaks[From[k[1]]] > 0

\* integration.rs: a recipient that received a redelivered copy and acks it ends
\* the delivery with a Receipt; an envelope its recipient has is not reported as
\* delivery_failed.
ReceivedIsNotFailed == \A k \in Keys : failed[k] > 0 => k \notin reached
================================================================================
