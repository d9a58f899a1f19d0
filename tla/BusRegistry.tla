------------------------------ MODULE BusRegistry ------------------------------
(***************************************************************************)
(* The life of the bus's WebSocket connections (crew-bus connection.rs) and *)
(* of the registry they share (state.rs).                                   *)
(*                                                                          *)
(* handle_socket runs as one task per connection.  The registry maps an     *)
(* agent id to the sending half of ONE connection's outbound channel; the   *)
(* task owns the receiving half.  Every step below is the code between two  *)
(* acquisitions of the registry lock or between two awaits, so the steps of *)
(* different connections, of the routing code that calls send_to and of the *)
(* broadcasts that follow an unlock interleave freely.                      *)
(***************************************************************************)
EXTENDS Integers, Sequences, FiniteSets

CONSTANTS
    Agents,          \* agent ids
    Conns,           \* connections ever opened: the bound of the model
    Owner,           \* Owner[c]: the agent id connection c authenticated as
    OutboundBuffer,  \* BusConfig::outbound_buffer
    NoConn           \* registry holds no entry

ASSUME ConnsAssumption == IsFiniteSet(Conns)
ASSUME OwnerAssumption == Owner \in [Conns -> Agents]
ASSUME BufferAssumption == OutboundBuffer \in Nat \ {0}
ASSUME NoConnAssumption == NoConn \notin Conns

VARIABLES
    registry,  \* Shared::registry, with the sender named by its connection
    outbound,  \* frames in the channel of a connection
    task,      \* where the connection's task stands
    peer,      \* what the client's end of the socket does
    first,     \* the first frame the client saw, as BusConn::connect reads it
    net,       \* Registered minus Unregistered events broadcast for an agent
    owed       \* entries removed whose Unregistered event is not yet broadcast

vars == <<registry, outbound, task, peer, first, net, owed>>

Frame == {"welcome", "other"}
TaskState == {"absent", "refused", "registered", "serving", "stuck",
              "leaving", "ended"}
PeerState == {"up", "silent", "closed"}

\* Types, and the bound of the outbound channels.
TypeOK ==
    /\ registry \in [Agents -> Conns \cup {NoConn}]
    /\ outbound \in [Conns -> Seq(Frame)]
    /\ \A c \in Conns : Len(outbound[c]) <= OutboundBuffer
    /\ task \in [Conns -> TaskState]
    /\ peer \in [Conns -> PeerState]
    /\ first \in [Conns -> Frame \cup {"none", "duplicate_agent"}]
    /\ net \in [Agents -> Int]
    /\ owed \in [Agents -> Nat]

Init ==
    /\ registry = [a \in Agents |-> NoConn]
    /\ outbound = [c \in Conns |-> <<>>]
    /\ task = [c \in Conns |-> "absent"]
    /\ peer = [c \in Conns |-> "up"]
    /\ first = [c \in Conns |-> "none"]
    /\ net = [a \in Agents |-> 0]
    /\ owed = [a \in Agents |-> 0]

(***************************************************************************)
(* send_to: look the agent up, try_send, and on a full channel drop the     *)
(* registry's sender.  The Unregistered event follows the unlock.           *)
(***************************************************************************)
Full(c) == Len(outbound[c]) >= OutboundBuffer

SendTo(a, frame) ==
    LET c == registry[a] IN
    \/ /\ c = NoConn
       /\ UNCHANGED <<registry, outbound, owed>>
    \/ /\ c # NoConn /\ ~Full(c)
       /\ outbound' = [outbound EXCEPT ![c] = Append(@, frame)]
       /\ UNCHANGED <<registry, owed>>
    \/ /\ c # NoConn /\ Full(c)
       /\ registry' = [registry EXCEPT ![a] = NoConn]
       /\ owed' = [owed EXCEPT ![a] = @ + 1]
       /\ UNCHANGED outbound

(***************************************************************************)
(* unregister: remove whatever entry the agent id has.                      *)
(***************************************************************************)
UnregisterNothing(a) == UNCHANGED <<registry, owed>>  \* mutant of Unregister

UnregisterAlwaysTells(a) ==  \* mutant of Unregister
    /\ registry' = [registry EXCEPT ![a] = NoConn]
    /\ owed' = [owed EXCEPT ![a] = @ + 1]

Unregister(a) ==
    \/ /\ registry[a] # NoConn
       /\ registry' = [registry EXCEPT ![a] = NoConn]
       /\ owed' = [owed EXCEPT ![a] = @ + 1]
    \/ /\ registry[a] = NoConn
       /\ UNCHANGED <<registry, owed>>

(***************************************************************************)
(* handle_socket.                                                           *)
(***************************************************************************)
Taken(a) == registry[a] # NoConn

\* Check-and-insert under the registry lock; a taken id is refused.
Upgrade(c) ==
    /\ task[c] = "absent"
    /\ IF Taken(Owner[c])
       THEN /\ task' = [task EXCEPT ![c] = "refused"]
            /\ first' = [first EXCEPT ![c] = "duplicate_agent"]
            /\ UNCHANGED registry
       ELSE /\ task' = [task EXCEPT ![c] = "registered"]
            /\ registry' = [registry EXCEPT ![Owner[c]] = c]
            /\ UNCHANGED first
    /\ UNCHANGED <<outbound, peer, net, owed>>

\* The Registered event and the Welcome frame, after the lock is released.
\* Welcome goes through send_to, hence to whatever holds the id by then.
Greet(c) ==
    /\ task[c] = "registered"
    /\ task' = [task EXCEPT ![c] = "serving"]
    /\ net' = [net EXCEPT ![Owner[c]] = @ + 1]
    /\ SendTo(Owner[c], "welcome")
    /\ UNCHANGED <<peer, first>>

\* out_rx.recv() yields a frame: a reading client takes it, a silent one may
\* block the write, a closed one fails it.
WriteFrame(c) ==
    /\ task[c] = "serving"
    /\ outbound[c] # <<>>
    /\ outbound' = [outbound EXCEPT ![c] = Tail(@)]
    /\ \/ /\ peer[c] = "up"
          /\ first' = [first EXCEPT ![c] = IF @ = "none" THEN Head(outbound[c]) ELSE @]
          /\ UNCHANGED task
       \/ /\ peer[c] = "silent"
          /\ task' \in {task, [task EXCEPT ![c] = "stuck"]}
          /\ UNCHANGED first
       \/ /\ peer[c] = "closed"
          /\ task' = [task EXCEPT ![c] = "leaving"]
          /\ UNCHANGED first
    /\ UNCHANGED <<registry, peer, net, owed>>

Break(c) ==
    /\ task' = [task EXCEPT ![c] = "leaving"]
    /\ UNCHANGED <<registry, outbound, peer, first, net, owed>>

\* out_rx.recv() yields None: the registry dropped our sender.
ChannelClosed(c) ==
    /\ task[c] = "serving"
    /\ outbound[c] = <<>>
    /\ registry[Owner[c]] # c
    /\ Break(c)

\* receiver.next() yields Close, an error or None.
PeerClosed(c) == task[c] = "serving" /\ peer[c] = "closed" /\ Break(c)

NoPingTimeout(c) == task[c] = "serving" /\ peer[c] = "closed" /\ Break(c)  \* mutant of PingTimeout

\* No Pong for two ping intervals.  Not reached while a write is blocked:
\* select! runs a branch's handler to its end before it polls the ticker.
PingTimeout(c) == task[c] = "serving" /\ peer[c] = "silent" /\ Break(c)

\* The tick before it: the Ping is written in the loop as well, and a client
\* that has stopped reading can block it like any frame.
PingBlocks(c) ==
    /\ task[c] = "serving" /\ peer[c] = "silent"
    /\ task' = [task EXCEPT ![c] = "stuck"]
    /\ UNCHANGED <<registry, outbound, peer, first, net, owed>>

\* The blocked write ends in a socket error.  Nothing in the code bounds the
\* wait: no timeout is put around send_frame or around the Ping.
WriteFails(c) == task[c] = "stuck" /\ Break(c)

\* The last statement of handle_socket: unregister BY ID; the receiver and the
\* frames still queued in it are dropped with the task.
Leave(c) ==
    /\ task[c] = "leaving"
    /\ task' = [task EXCEPT ![c] = "ended"]
    /\ outbound' = [outbound EXCEPT ![c] = <<>>]
    /\ Unregister(Owner[c])
    /\ UNCHANGED <<peer, first, net>>

(***************************************************************************)
(* The rest of the bus and the world.                                       *)
(***************************************************************************)
\* Routing, a receipt or a retry task calls send_to for the agent.
Send(a) ==
    /\ SendTo(a, "other")
    /\ UNCHANGED <<task, peer, first, net>>

\* The broadcast that follows a removal's unlock.
Broadcast(a) ==
    /\ owed[a] > 0
    /\ owed' = [owed EXCEPT ![a] = @ - 1]
    /\ net' = [net EXCEPT ![a] = @ - 1]
    /\ UNCHANGED <<registry, outbound, task, peer, first>>

PeerChanges(c) ==
    /\ task[c] \in {"registered", "serving", "stuck"}
    /\ \/ peer[c] = "up" /\ peer' = [peer EXCEPT ![c] = "silent"]
       \/ peer[c] # "closed" /\ peer' = [peer EXCEPT ![c] = "closed"]
    /\ UNCHANGED <<registry, outbound, task, first, net, owed>>

ConnStep(c) ==
    \/ Greet(c) \/ WriteFrame(c) \/ ChannelClosed(c) \/ PeerClosed(c)
    \/ PingTimeout(c) \/ PingBlocks(c) \/ WriteFails(c) \/ Leave(c)

Next ==
    \/ \E c \in Conns : Upgrade(c) \/ ConnStep(c) \/ PeerChanges(c)
    \/ \E a \in Agents : Send(a) \/ Broadcast(a)

Spec == Init /\ [][Next]_vars

(***************************************************************************)
(* The runtime keeps polling every connection task, and select! polls its   *)
(* branches in random order.  A blocked write is certain to fail only once  *)
(* the client's socket is gone: the kernel of a client that hangs goes on   *)
(* acknowledging window probes, and its write may block for good.           *)
(***************************************************************************)
WriteToClosedFails(c) == peer[c] = "closed" /\ WriteFails(c)

Fairness ==
    /\ \A c \in Conns :
        /\ WF_vars(Greet(c)) /\ WF_vars(PeerClosed(c)) /\ WF_vars(PingTimeout(c))
        /\ WF_vars(WriteToClosedFails(c)) /\ WF_vars(Leave(c))
    /\ \A a \in Agents : WF_vars(Broadcast(a))

FairSpec == Spec /\ Fairness
--------------------------------------------------------------------------------
(***************************************************************************)
(* Properties.                                                              *)
(***************************************************************************)
Alive == {"registered", "serving", "stuck", "leaving"}

\* A registry entry always belongs to that agent's connection, and to one whose
\* task has still to run unregister: an agent is never locked out of its own id
\* by the entry of a connection that is gone (connection.rs, the tail of
\* handle_socket, against the check at its head).
NoGhostRegistration ==
    \A a \in Agents : registry[a] # NoConn =>
        Owner[registry[a]] = a /\ task[registry[a]] \in Alive

\* Connections of a whose Registered event is still to be broadcast.
Greeting(a) == {c \in Conns : Owner[c] = a /\ task[c] = "registered"}

\* "Exactly one Unregistered event" for each removal, whichever of send_to and
\* unregister makes it, and one Registered for each insertion: what an observer
\* has counted, corrected by the broadcasts under way, is the registry's content.
EventsAccounted ==
    \A a \in Agents :
        net[a] + Cardinality(Greeting(a)) - owed[a] = IF registry[a] = NoConn THEN 0 ELSE 1

\* A registration is never replaced by another connection's: an entry changes
\* only by being removed or by filling an empty slot (the duplicate_agent check).
NeverDisplaced ==
    [][\A a \in Agents : registry[a] # NoConn => registry'[a] \in {registry[a], NoConn}]_vars

\* A client that closed its socket does not keep its id, wherever its task
\* stands, be it in a blocked write.  One that merely stopped answering loses it
\* by the Pong timeout, unless its task is in a blocked write when that is due.
DeadPeerReleased ==
    \A c \in Conns :
        /\ (registry[Owner[c]] = c /\ peer[c] = "closed") ~> (registry[Owner[c]] # c)
        /\ (registry[Owner[c]] = c /\ peer[c] = "silent")
              ~> (registry[Owner[c]] # c \/ task[c] = "stuck")

\* What the ping is there for: a client that stopped answering does not keep its
\* id.  It may: nothing bounds the write its task is blocked in.
SilentPeerReleased ==
    \A c \in Conns : (registry[Owner[c]] = c /\ peer[c] = "silent") ~> (registry[Owner[c]] # c)

\* wire.rs: Welcome is the first frame the bus sends on an accepted connection.
\* BusConn::connect fails on any other first frame.
WelcomeIsFirst == \A c \in Conns : first[c] # "other"

\* state.rs: unregister is idempotent, so the backpressure path and the
\* connection's own cleanup can both call it safely: a connection's cleanup
\* removes no entry but its own.
CleanupIsOwn ==
    [][\A c \in Conns : (task[c] = "leaving" /\ task'[c] = "ended")
          => registry[Owner[c]] \in {c, NoConn}]_vars
================================================================================
