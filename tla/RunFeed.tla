-------------------------------- MODULE RunFeed --------------------------------
(***************************************************************************)
(* How a run reaches the screen.  Backend (controller.rs, store.rs): two      *)
(* writers append envelopes to the ledger and broadcast them as `Message`     *)
(* events, a relay broadcasts task states, and `snapshot` answers a resync.   *)
(* Front end (tauri-source.ts, store.ts): one listener buffers live events    *)
(* while a resync replays a snapshot, drops messages the replay covered, and  *)
(* applies the rest to the channel of the run.                               *)
(*                                                                          *)
(* A message is its seq in the `messages` table; one task stands for all, its *)
(* states numbered in the order the Lead takes them.  Events travel in order, *)
(* but for those the pump drops when it lags; the answer of a command is on    *)
(* another path, and the user may select the channel again before it is there. *)
(***************************************************************************)
EXTENDS Integers, Sequences, FiniteSets

CONSTANTS
    Writers,        \* callers of handle_bus_event: subscription_loop, swap_harness
    Resyncs,        \* calls of `resync` that may be under way together (a bound)
    MaxRows,        \* bound: messages of the run
    MaxState,       \* bound: state changes of the task
    MaxLost         \* bound: dropped events no replay has made up for

ASSUME FeedBoundsAssumption == MaxRows \in Nat /\ MaxState \in Nat /\ MaxLost \in Nat

VARIABLES
    \* backend
    rows,           \* rows of the `messages` table
    lastSeq,        \* SnapshotState.last_seq
    writer,         \* per writer: idle, or appended and about to broadcast
    state, relay,   \* SnapshotState.task_states; relay_loop before or after its update
    finished,
    wire,           \* events broadcast, pumped and emitted, not yet at the listener
    \* front end
    open,           \* the store has the channel
    replaying, buffered,
    last,           \* TauriEventSource.lastSeq of the run
    resync,         \* calls of resync: off, asked, or answered with a snapshot
    channel,
    \* histories
    lost,           \* events the pump dropped, but for messages a replay has shown since
    alone,          \* the resync under way, or the last one, had no other beside it
    clean           \* the channel shows the replay of such a resync and what came after

backVars == <<rows, lastSeq, writer, state, relay, finished>>
frontVars == <<open, replaying, buffered, last, resync, channel>>
seamVars == <<lost, alone, clean>>
feedVars == <<backVars, wire, frontVars, seamVars>>

Events == [type : {"started", "finished"}, n : {0}]
          \cup [type : {"message"}, n : 1..MaxRows] \cup [type : {"state"}, n : 1..MaxState]
Empty == [messages |-> <<>>, state |-> 0, finished |-> FALSE]
Off == [at |-> "off", rows |-> 0, state |-> 0]

FeedTypeOK ==
    /\ rows \in 0..MaxRows /\ lastSeq \in 0..MaxRows /\ lastSeq <= rows
    /\ writer \in [Writers -> {"idle", "appended"}]
    /\ state \in 0..MaxState /\ relay \in {"idle", "updated"} /\ finished \in BOOLEAN
    /\ wire \in Seq(Events) /\ buffered \in Seq(Events)
    /\ open \in BOOLEAN /\ replaying \in BOOLEAN /\ last \in 0..MaxRows
    /\ resync \in [Resyncs -> [at : {"off", "asked", "answered"},
                               rows : 0..MaxRows, state : 0..MaxState]]
    /\ channel \in [messages : Seq(1..MaxRows), state : 0..MaxState, finished : BOOLEAN]
    /\ lost \subseteq Events /\ alone \in BOOLEAN /\ clean \in BOOLEAN

Event(type, n) == [type |-> type, n |-> n]

\* `start` broadcasts RunStarted before anything else, and the pump has the genesis
\* receiver.
FeedInit ==
    /\ rows = 0 /\ lastSeq = 0 /\ writer = [t \in Writers |-> "idle"]
    /\ state = 0 /\ relay = "idle" /\ finished = FALSE
    /\ wire = <<Event("started", 0)>>
    /\ open = FALSE /\ replaying = FALSE /\ buffered = <<>> /\ last = 0
    /\ resync = [r \in Resyncs |-> Off]
    /\ channel = Empty
    /\ lost = {} /\ alone = TRUE /\ clean = FALSE

-------------------------------------------------------------------------------
(* Backend. *)

\* handle_bus_event: append first.  An envelope id the table has is ignored.
Append1(t) ==
    /\ writer[t] = "idle"
    /\ writer' = [writer EXCEPT ![t] = "appended"]
    /\ rows' \in {rows, rows + 1} /\ rows' <= MaxRows
    /\ UNCHANGED <<lastSeq, state, relay, finished, wire, frontVars, seamVars>>

Messages(from, to) == [i \in 1..(to - from) |-> Event("message", from + i)]

\* (mutant) the rows are broadcast and last_seq is left alone
BroadcastOnly(t) ==
    /\ writer[t] = "appended"
    /\ writer' = [writer EXCEPT ![t] = "idle"]
    /\ wire' = wire \o Messages(lastSeq, rows)
    /\ UNCHANGED <<rows, lastSeq, state, relay, finished, frontVars, seamVars>>

\* Then, under the snapshot lock: every row since last_seq, which moves on.
Broadcast(t) ==
    /\ writer[t] = "appended"
    /\ writer' = [writer EXCEPT ![t] = "idle"]
    /\ wire' = wire \o Messages(lastSeq, rows)
    /\ lastSeq' = rows
    /\ UNCHANGED <<rows, state, relay, finished, frontVars, seamVars>>

\* relay_loop: the snapshot is updated, and the event sent after the unlock.
RelayUpdate ==
    /\ relay = "idle" /\ state < MaxState
    /\ state' = state + 1
    /\ relay' = "updated"
    /\ UNCHANGED <<rows, lastSeq, writer, finished, wire, frontVars, seamVars>>

RelaySend ==
    /\ relay = "updated"
    /\ relay' = "idle"
    /\ wire' = Append(wire, Event("state", state))
    /\ UNCHANGED <<rows, lastSeq, writer, state, finished, frontVars, seamVars>>

\* The finisher has awaited the relay.
FinishRun ==
    /\ ~ finished /\ relay = "idle"
    /\ finished' = TRUE
    /\ wire' = Append(wire, Event("finished", 0))
    /\ UNCHANGED <<rows, lastSeq, writer, state, relay, frontVars, seamVars>>

\* RunHandle::snapshot, under the same lock: what the ledger holds now.
Snapshot(r) ==
    /\ resync[r].at = "asked"
    /\ resync' = [resync EXCEPT ![r] = [at |-> "answered", rows |-> rows, state |-> state]]
    /\ UNCHANGED <<backVars, wire, open, replaying, buffered, last, channel, seamVars>>

\* spawn_pump: the receiver lagged, and what the channel no longer holds is skipped.
\* An event so lost is gone when its turn would have come.
PumpLags ==
    /\ wire # <<>> /\ Cardinality(lost) < MaxLost
    /\ wire' = Tail(wire)
    /\ lost' = lost \cup {Head(wire)}
    /\ UNCHANGED <<backVars, frontVars, alone, clean>>

-------------------------------------------------------------------------------
(* Front end: one turn of its event loop per step, but for the events that were
   buffered during a replay.  They are delivered one by one, and while any is
   left nothing else of the front end runs. *)

InFlight(r) == resync[r].at \in {"asked", "answered"}
TurnOver == replaying \/ buffered = <<>>

\* resync up to the await of the snapshot.
BeginResync(r) ==
    /\ resync[r].at = "off" /\ TurnOver
    /\ resync' = [resync EXCEPT ![r].at = "asked"]
    /\ last' = 0
    /\ replaying' = TRUE
    /\ buffered' = <<>>
    /\ alone' = ~ \E o \in Resyncs : InFlight(o)
    /\ UNCHANGED <<backVars, wire, channel, lost, clean>>

\* startChannel: start_run returned; the channel is inserted and resynced.
StartChannel(r) ==
    /\ ~ open /\ open' = TRUE
    /\ BeginResync(r)

SelectChannel(r) ==
    /\ open /\ UNCHANGED open
    /\ BeginResync(r)

Shown(ch) == {ch.messages[i] : i \in DOMAIN ch.messages}     \* seenSeqs of the store

\* applyEventToChannel.
Apply(ch, ev) ==
    CASE ev.type = "started"  -> Empty
      [] ev.type = "message"  -> IF ev.n \in Shown(ch) THEN ch
                                 ELSE [ch EXCEPT !.messages = Append(@, ev.n)]
      [] ev.type = "state"    -> [ch EXCEPT !.state = ev.n]
      [] ev.type = "finished" -> [ch EXCEPT !.finished = TRUE]

\* deliverLive on a view <<lastSeq, channel>>: a message at or below lastSeq is
\* covered by the replay.
DeliverLive(view, ev) ==
    IF ev.type # "message" THEN <<view[1], Apply(view[2], ev)>>
    ELSE IF ev.n <= view[1] THEN view
    ELSE <<ev.n, Apply(view[2], ev)>>

\* The store ignores an event of a run it does not know, but the source has
\* already counted the message.  A late RunStarted empties the channel.
Deliver(ev) ==
    LET view == DeliverLive(<<last, channel>>, ev)
    IN  /\ last' = view[1] /\ channel' = IF open THEN view[2] ELSE channel
        /\ clean' = (clean /\ (ev.type = "started" => channel.messages = <<>> /\ channel.state = 0))
        /\ UNCHANGED <<lost, alone>>

\* synthesizeSnapshotEvents: run_started, the messages, the task states.
Replay(snap) == [messages |-> [i \in 1..snap.rows |-> i], state |-> snap.state,
                 finished |-> FALSE]

ShowReplay(r) ==
    /\ resync[r].at = "answered" /\ TurnOver
    /\ last' = resync[r].rows
    /\ channel' = Replay(resync[r])
    /\ replaying' = FALSE
    /\ resync' = [resync EXCEPT ![r] = Off]
    /\ lost' = {e \in lost : e.type = "message" => e.n > resync[r].rows}
    /\ clean' = alone /\ UNCHANGED alone

\* (mutant) what was buffered is not flushed
ForgetBuffer(r) ==
    /\ ShowReplay(r)
    /\ buffered' = <<>>
    /\ UNCHANGED <<backVars, wire, open>>

\* The rest of resync: the replay; what was buffered meanwhile is left to Flush.
FinishResync(r) ==
    /\ ShowReplay(r)
    /\ UNCHANGED <<backVars, wire, open, buffered>>

\* One round of the loop over the buffer that ends resync.
Flush ==
    /\ ~ TurnOver
    /\ buffered' = Tail(buffered)
    /\ Deliver(Head(buffered))
    /\ UNCHANGED <<backVars, wire, open, replaying, resync>>

\* (mutant) a live event is never queued
RouteAtOnce ==
    /\ wire # <<>> /\ TurnOver
    /\ wire' = Tail(wire)
    /\ Deliver(Head(wire))
    /\ UNCHANGED <<backVars, open, replaying, buffered, resync>>

\* route: into the buffer during a replay, else to the screen.
Route ==
    /\ wire # <<>> /\ TurnOver
    /\ wire' = Tail(wire)
    /\ IF replaying
         THEN buffered' = Append(buffered, Head(wire)) /\ UNCHANGED <<last, channel, seamVars>>
         ELSE Deliver(Head(wire)) /\ UNCHANGED buffered
    /\ UNCHANGED <<backVars, open, replaying, resync>>

FeedNext ==
    \/ \E t \in Writers : Append1(t) \/ Broadcast(t)
    \/ RelayUpdate \/ RelaySend \/ FinishRun
    \/ \E r \in Resyncs : Snapshot(r) \/ StartChannel(r) \/ SelectChannel(r) \/ FinishResync(r)
    \/ PumpLags \/ Flush \/ Route

FeedSpec == FeedInit /\ [][FeedNext]_feedVars

-------------------------------------------------------------------------------
(* Properties. *)

\* Two writers race between their appends and their broadcasts, and still every
\* message is broadcast once and in the order of the ledger (handle_bus_event's
\* lock over read, send and update).
BroadcastInOrder ==
    \A i, j \in DOMAIN wire :
       i < j /\ wire[i].type = "message" /\ wire[j].type = "message" => wire[i].n < wire[j].n

\* Nothing is under way between the ledger and the screen.
Settled ==
    /\ open /\ wire = <<>> /\ buffered = <<>> /\ ~ \E r \in Resyncs : InFlight(r)
    /\ \A t \in Writers : writer[t] = "idle"
    /\ relay = "idle"

Missed(n) == n \notin Shown(channel) /\ Event("message", n) \notin lost

\* What the screen shows is in the order of the ledger and without repetition, at
\* any time, whatever the pump drops, however resyncs overlap and whenever RunStarted
\* comes.  And it has no hole but for messages the pump dropped since the last replay,
\* if that replay had no other resync beside it and no RunStarted behind it: snapshot,
\* buffer and live stream join without a seam (tauri-source.ts:81-83).
NoHole ==
    /\ \A i, j \in DOMAIN channel.messages : i < j => channel.messages[i] < channel.messages[j]
    /\ clean => \A i \in DOMAIN channel.messages :
                   \A n \in 1..channel.messages[i] : ~ Missed(n)

\* Once everything has arrived the screen shows every message and the state of the
\* task, but for what the pump dropped.  So a resync that nothing disturbs repairs
\* what others have spoilt before.
SettledIsComplete ==
    Settled /\ clean =>
        /\ \A n \in 1..rows : ~ Missed(n)
        /\ channel.state = state \/ Event("state", state) \in lost

\* tauri-source.ts:82-83: "a live event arriving mid-`resync` for THAT run is queued,
\* not dropped": the queue loses its events to the screen only.
QueuedNotDropped ==
    [][Len(buffered') < Len(buffered) => buffered' = Tail(buffered)]_feedVars

\* tauri-source.ts:113: resync replays the snapshot, "then flushes any live event that
\* arrived during the replay": with one resync, and nothing dropped, the screen ends
\* up complete.
NothingMissing == Settled /\ lost = {} => Len(channel.messages) = rows /\ channel.state = state

\* tauri-source.ts:228: a live message is dropped only if its "snapshot replay" covers
\* it: none is missing from the screen when the stream has gone on behind it.
NoneSkipped == clean => channel.messages = [i \in 1..Len(channel.messages) |-> i]

===============================================================================
