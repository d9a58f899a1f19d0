--------------------------- MODULE BusRegistryProofs ---------------------------
(***************************************************************************)
(* Proofs about BusRegistry, for every set of agents, every finite set of   *)
(* connections and every outbound buffer size.                              *)
(***************************************************************************)
EXTENDS BusRegistry, FiniteSetTheorems, TLAPS

\* What send_to and unregister can do to the registry of agent a: nothing, or
\* remove a's entry and owe one broadcast for it.
Removal(a) ==
    \/ UNCHANGED <<registry, owed>>
    \/ /\ registry[a] # NoConn
       /\ registry' = [registry EXCEPT ![a] = NoConn]
       /\ owed' = [owed EXCEPT ![a] = @ + 1]

\* The outbound channels alone.
OutboundOK ==
    /\ outbound \in [Conns -> Seq(Frame)]
    /\ \A c \in Conns : Len(outbound[c]) <= OutboundBuffer

\* send_to hands one frame to a typed channel or removes the entry.
LEMMA SendToEffect ==
  ASSUME TypeOK, NEW a \in Agents, NEW f \in Frame, SendTo(a, f)
  PROVE  Removal(a) /\ OutboundOK'
<1> DEFINE c == registry[a]
<1>1. CASE c = NoConn
  BY <1>1 DEF SendTo, Removal, TypeOK, OutboundOK
<1>2. CASE c # NoConn /\ ~Full(c)
  <2>1. c \in Conns
    BY <1>2 DEF TypeOK
  <2>2. outbound' = [outbound EXCEPT ![c] = Append(@, f)] /\ UNCHANGED <<registry, owed>>
    BY <1>2 DEF SendTo
  <2>3. /\ Append(outbound[c], f) \in Seq(Frame)
        /\ Len(Append(outbound[c], f)) <= OutboundBuffer
    BY <1>2, <2>1, BufferAssumption DEF TypeOK, Full
  <2>4. outbound' \in [Conns -> Seq(Frame)]
    BY <2>2, <2>3 DEF TypeOK
  <2>5. \A d \in Conns : Len(outbound'[d]) <= OutboundBuffer
    BY <2>2, <2>3 DEF TypeOK
  <2> QED
    BY <2>2, <2>4, <2>5 DEF Removal, OutboundOK
<1>3. CASE c # NoConn /\ Full(c)
  BY <1>3 DEF SendTo, Removal, TypeOK, OutboundOK
<1> QED
  BY <1>1, <1>2, <1>3

\* A removal keeps the types of what it touches.
LEMMA RemovalType ==
  ASSUME TypeOK, NEW a \in Agents, Removal(a)
  PROVE  /\ registry' \in [Agents -> Conns \cup {NoConn}]
         /\ owed' \in [Agents -> Nat]
<1>1. CASE UNCHANGED <<registry, owed>>
  BY <1>1 DEF TypeOK
<1>2. CASE /\ registry' = [registry EXCEPT ![a] = NoConn]
           /\ owed' = [owed EXCEPT ![a] = @ + 1]
  <2>1. registry' \in [Agents -> Conns \cup {NoConn}]
    BY <1>2 DEF TypeOK
  <2>2. owed' \in [Agents -> Nat]
    BY <1>2 DEF TypeOK
  <2> QED
    BY <2>1, <2>2
<1> QED
  BY <1>1, <1>2 DEF Removal

\* Every variable keeps its type, whatever the step.
LEMMA NextTypeOK == TypeOK /\ [Next]_vars => TypeOK'
<1> SUFFICES ASSUME TypeOK, [Next]_vars
             PROVE  TypeOK'
  OBVIOUS
<1> USE OwnerAssumption
<1>1. ASSUME NEW c \in Conns, Upgrade(c)
      PROVE  TypeOK'
  BY <1>1 DEF Taken, Upgrade, TypeOK, TaskState
<1>2. ASSUME NEW c \in Conns, Greet(c)
      PROVE  TypeOK'
  <2>1. Owner[c] \in Agents /\ "welcome" \in Frame
    BY DEF Frame
  <2>2. Removal(Owner[c]) /\ OutboundOK'
    BY <1>2, <2>1, SendToEffect DEF Greet
  <2>3. registry' \in [Agents -> Conns \cup {NoConn}] /\ owed' \in [Agents -> Nat]
    BY <2>1, <2>2, RemovalType
  <2>4. task' \in [Conns -> TaskState]
    BY <1>2 DEF Greet, TypeOK, TaskState
  <2>5. net' \in [Agents -> Int]
    BY <1>2, <2>1 DEF Greet, TypeOK
  <2> QED
    BY <1>2, <2>2, <2>3, <2>4, <2>5 DEF Greet, TypeOK, OutboundOK
<1>3. ASSUME NEW c \in Conns, WriteFrame(c)
      PROVE  TypeOK'
  <2>1. /\ Head(outbound[c]) \in Frame
        /\ Tail(outbound[c]) \in Seq(Frame)
        /\ Len(Tail(outbound[c])) <= Len(outbound[c])
    BY <1>3 DEF WriteFrame, TypeOK
  <2>2. task' \in [Conns -> TaskState] /\ first' \in [Conns -> Frame \cup {"none", "duplicate_agent"}]
    BY <1>3, <2>1 DEF WriteFrame, TypeOK, TaskState
  <2>3. outbound' \in [Conns -> Seq(Frame)]
    BY <1>3, <2>1 DEF WriteFrame, TypeOK
  <2>4. \A d \in Conns : Len(outbound'[d]) <= OutboundBuffer
    <3>1. Len(Tail(outbound[c])) <= OutboundBuffer
      BY <1>3, <2>1, BufferAssumption DEF TypeOK
    <3> QED
      BY <1>3, <3>1 DEF WriteFrame, TypeOK
  <2> QED
    BY <1>3, <2>2, <2>3, <2>4 DEF WriteFrame, TypeOK
<1>4. ASSUME NEW c \in Conns, ChannelClosed(c) \/ PeerClosed(c) \/ PingTimeout(c) \/ PingBlocks(c) \/ WriteFails(c)
      PROVE  TypeOK'
  BY <1>4 DEF ChannelClosed, PeerClosed, PingTimeout, PingBlocks, WriteFails, Break, TypeOK, TaskState
<1>5. ASSUME NEW c \in Conns, Leave(c)
      PROVE  TypeOK'
  <2>1. Owner[c] \in Agents /\ Removal(Owner[c])
    BY <1>5 DEF Leave, Unregister, Removal
  <2>2. registry' \in [Agents -> Conns \cup {NoConn}] /\ owed' \in [Agents -> Nat]
    BY <2>1, RemovalType
  <2>3. outbound' \in [Conns -> Seq(Frame)] /\ \A d \in Conns : Len(outbound'[d]) <= OutboundBuffer
    BY <1>5, BufferAssumption DEF Leave, TypeOK
  <2> QED
    BY <1>5, <2>2, <2>3 DEF Leave, TypeOK, TaskState
<1>6. ASSUME NEW c \in Conns, PeerChanges(c)
      PROVE  TypeOK'
  BY <1>6 DEF PeerChanges, TypeOK, PeerState
<1>7. ASSUME NEW a \in Agents, Send(a)
      PROVE  TypeOK'
  <2>1. Removal(a) /\ OutboundOK'
    BY <1>7, SendToEffect DEF Send, Frame
  <2> QED
    BY <1>7, <2>1, RemovalType DEF Send, TypeOK, OutboundOK
<1>8. ASSUME NEW a \in Agents, Broadcast(a)
      PROVE  TypeOK'
  BY <1>8 DEF Broadcast, TypeOK
<1>9. CASE UNCHANGED vars
  BY <1>9 DEF vars, TypeOK
<1> QED
  BY <1>1, <1>2, <1>3, <1>4, <1>5, <1>6, <1>7, <1>8, <1>9 DEF Next, ConnStep

\* Every variable keeps its type: in particular the registry names connections
\* only and the number of owed broadcasts never drops below zero.
THEOREM TypeCorrect == Spec => []TypeOK
<1>1. Init => TypeOK
  BY BufferAssumption DEF Init, TypeOK, TaskState, PeerState, Frame
<1> QED
  BY <1>1, NextTypeOK, PTL DEF Spec
--------------------------------------------------------------------------------
\* A removal cannot make an entry, so it keeps the registry free of ghosts.
LEMMA RemovalNoGhost ==
  ASSUME TypeOK, NoGhostRegistration, NEW a \in Agents, Removal(a),
         \A c \in Conns : task[c] \in Alive => task'[c] \in Alive
  PROVE  NoGhostRegistration'
<1> SUFFICES ASSUME NEW b \in Agents, registry'[b] # NoConn
             PROVE  Owner[registry'[b]] = b /\ task'[registry'[b]] \in Alive
  BY DEF NoGhostRegistration
<1>1. registry'[b] = registry[b]
  BY DEF Removal, TypeOK
<1>2. Owner[registry[b]] = b /\ task[registry[b]] \in Alive /\ registry[b] \in Conns
  BY <1>1 DEF NoGhostRegistration, TypeOK
<1> QED
  BY <1>1, <1>2

LEMMA NextNoGhost == TypeOK /\ NoGhostRegistration /\ [Next]_vars => NoGhostRegistration'
<1> SUFFICES ASSUME TypeOK, NoGhostRegistration, [Next]_vars
             PROVE  NoGhostRegistration'
  OBVIOUS
<1> USE OwnerAssumption, NoConnAssumption
<1>1. ASSUME NEW c \in Conns, Upgrade(c)
      PROVE  NoGhostRegistration'
  <2>1. CASE registry[Owner[c]] # NoConn
    <3>1. registry' = registry /\ \A d \in Conns : task[d] \in Alive => task'[d] = task[d]
      BY <1>1, <2>1 DEF Taken, Upgrade, TypeOK, Alive
    <3> QED
      BY <3>1 DEF NoGhostRegistration, TypeOK
  <2>2. CASE registry[Owner[c]] = NoConn
    <3>1. \A b \in Agents : registry'[b] = IF b = Owner[c] THEN c ELSE registry[b]
      BY <1>1, <2>2 DEF Taken, Upgrade, TypeOK
    <3>2. \A d \in Conns : task'[d] = IF d = c THEN "registered" ELSE task[d]
      BY <1>1, <2>2 DEF Taken, Upgrade, TypeOK
    <3>3. ASSUME NEW b \in Agents, registry'[b] # NoConn
          PROVE  Owner[registry'[b]] = b /\ task'[registry'[b]] \in Alive
      <4>1. CASE b = Owner[c]
        BY <3>1, <3>2, <4>1 DEF Alive
      <4>2. CASE b # Owner[c]
        <5>1. registry'[b] = registry[b] /\ registry[b] \in Conns
          BY <3>1, <3>3, <4>2 DEF TypeOK
        <5>2. Owner[registry[b]] = b /\ task[registry[b]] \in Alive
          BY <3>3, <5>1 DEF NoGhostRegistration
        <5> QED
          BY <3>2, <5>1, <5>2 DEF Alive
      <4> QED
        BY <4>1, <4>2
    <3> QED
      BY <3>3 DEF NoGhostRegistration
  <2> QED
    BY <2>1, <2>2
<1>2. ASSUME NEW c \in Conns, Greet(c)
      PROVE  NoGhostRegistration'
  <2>1. Removal(Owner[c]) /\ Owner[c] \in Agents
    BY <1>2, SendToEffect DEF Greet, Frame
  <2>2. \A d \in Conns : task[d] \in Alive => task'[d] \in Alive
    BY <1>2 DEF Greet, TypeOK, Alive
  <2> QED
    BY <2>1, <2>2, RemovalNoGhost
<1>3. ASSUME NEW c \in Conns, WriteFrame(c)
      PROVE  NoGhostRegistration'
  <2>1. /\ registry' = registry
        /\ \A d \in Conns : task[d] \in Alive => task'[d] \in Alive
    BY <1>3 DEF WriteFrame, TypeOK, Alive
  <2> QED
    BY <2>1 DEF NoGhostRegistration, TypeOK
<1>4. ASSUME NEW c \in Conns, ChannelClosed(c) \/ PeerClosed(c) \/ PingTimeout(c) \/ PingBlocks(c) \/ WriteFails(c)
      PROVE  NoGhostRegistration'
  <2>1. /\ registry' = registry
        /\ \A d \in Conns : task[d] \in Alive => task'[d] \in Alive
    BY <1>4 DEF ChannelClosed, PeerClosed, PingTimeout, PingBlocks, WriteFails, Break, TypeOK, Alive
  <2> QED
    BY <2>1 DEF NoGhostRegistration, TypeOK
<1>5. ASSUME NEW c \in Conns, Leave(c)
      PROVE  NoGhostRegistration'
  <2> SUFFICES ASSUME NEW b \in Agents, registry'[b] # NoConn
               PROVE  Owner[registry'[b]] = b /\ task'[registry'[b]] \in Alive
    BY DEF NoGhostRegistration
  <2>1. b # Owner[c] /\ registry'[b] = registry[b]
    BY <1>5 DEF Leave, Unregister, TypeOK
  <2>2. Owner[registry[b]] = b /\ task[registry[b]] \in Alive /\ registry[b] \in Conns
    BY <2>1 DEF NoGhostRegistration, TypeOK
  <2>3. task'[registry[b]] = task[registry[b]]
    BY <1>5, <2>1, <2>2 DEF Leave, TypeOK
  <2> QED
    BY <2>1, <2>2, <2>3
<1>6. ASSUME NEW c \in Conns, PeerChanges(c)
      PROVE  NoGhostRegistration'
  BY <1>6 DEF PeerChanges, NoGhostRegistration
<1>7. ASSUME NEW a \in Agents, Send(a)
      PROVE  NoGhostRegistration'
  <2>1. Removal(a)
    BY <1>7, SendToEffect DEF Send, Frame
  <2>2. task' = task
    BY <1>7 DEF Send
  <2> QED
    BY <2>1, <2>2, RemovalNoGhost
<1>8. ASSUME NEW a \in Agents, Broadcast(a)
      PROVE  NoGhostRegistration'
  BY <1>8 DEF Broadcast, NoGhostRegistration
<1>9. CASE UNCHANGED vars
  BY <1>9 DEF vars, NoGhostRegistration
<1> QED
  BY <1>1, <1>2, <1>3, <1>4, <1>5, <1>6, <1>7, <1>8, <1>9 DEF Next, ConnStep

\* No agent is ever locked out of its id by the entry of a connection that is
\* gone: the cleanup by id removes at least its own entry.
THEOREM NoGhost == Spec => []NoGhostRegistration
<1>1. Init => TypeOK /\ NoGhostRegistration
  BY BufferAssumption DEF Init, TypeOK, TaskState, PeerState, Frame, NoGhostRegistration
<1> QED
  BY <1>1, NextTypeOK, NextNoGhost, PTL DEF Spec

\* No connection takes over an id that another one holds.
THEOREM NoDisplacement == Spec => NeverDisplaced
<1>1. TypeOK /\ [Next]_vars =>
        [\A a \in Agents : registry[a] # NoConn => registry'[a] \in {registry[a], NoConn}]_vars
  <2> SUFFICES ASSUME TypeOK, Next, NEW a \in Agents, registry[a] # NoConn
               PROVE  registry'[a] \in {registry[a], NoConn}
    OBVIOUS
  <2> USE OwnerAssumption
  <2>1. ASSUME NEW c \in Conns, Upgrade(c)
        PROVE  registry'[a] = registry[a]
    BY <2>1 DEF Taken, Upgrade, TypeOK
  <2>2. ASSUME NEW b \in Agents, Removal(b)
        PROVE  registry'[a] \in {registry[a], NoConn}
    BY <2>2 DEF Removal, TypeOK
  <2>3. ASSUME NEW c \in Conns, Greet(c) \/ Leave(c)
        PROVE  registry'[a] \in {registry[a], NoConn}
    <3>1. Owner[c] \in Agents /\ "welcome" \in Frame
      BY DEF Frame
    <3>2. Removal(Owner[c])
      BY <2>3, <3>1, SendToEffect DEF Greet, Leave, Unregister, Removal
    <3> QED
      BY <3>1, <3>2, <2>2
  <2>4. ASSUME NEW b \in Agents, Send(b)
        PROVE  registry'[a] \in {registry[a], NoConn}
    BY <2>4, <2>2, SendToEffect DEF Send, Frame
  <2> QED
    BY <2>1, <2>3, <2>4 DEF Next, ConnStep, WriteFrame, ChannelClosed, PeerClosed,
       PingTimeout, PingBlocks, WriteFails, Break, PeerChanges, Broadcast
<1> QED
  BY <1>1, TypeCorrect, PTL DEF Spec, NeverDisplaced
--------------------------------------------------------------------------------
\* A removal moves an entry from the registry to the broadcasts owed for it.
LEMMA RemovalBalance ==
  ASSUME TypeOK, NEW a \in Agents, Removal(a), NEW b \in Agents
  PROVE  (IF registry'[b] = NoConn THEN 0 ELSE 1) + owed'[b]
           = (IF registry[b] = NoConn THEN 0 ELSE 1) + owed[b]
<1>1. CASE UNCHANGED <<registry, owed>>
  BY <1>1
<1>2. CASE /\ registry[a] # NoConn
           /\ registry' = [registry EXCEPT ![a] = NoConn]
           /\ owed' = [owed EXCEPT ![a] = @ + 1]
  <2>1. CASE b = a
    BY <1>2, <2>1 DEF TypeOK
  <2>2. CASE b # a
    BY <1>2, <2>2 DEF TypeOK
  <2> QED
    BY <2>1, <2>2
<1> QED
  BY <1>1, <1>2 DEF Removal

\* The connections of an agent that wait to be announced are finitely many.
LEMMA GreetingFinite ==
  ASSUME NEW a \in Agents
  PROVE  IsFiniteSet(Greeting(a)) /\ Cardinality(Greeting(a)) \in Nat
<1>1. IsFiniteSet(Greeting(a))
  BY ConnsAssumption, FS_Subset DEF Greeting
<1> QED
  BY <1>1, FS_CardinalityType

\* Connections enter and leave the state "registered" in Upgrade and Greet only.
LEMMA GreetingKept ==
  ASSUME TypeOK, NEW a \in Agents,
         \A c \in Conns : task[c] = "registered" <=> task'[c] = "registered"
  PROVE  Greeting(a)' = Greeting(a)
BY DEF Greeting

LEMMA NextAccounted == TypeOK /\ TypeOK' /\ EventsAccounted /\ [Next]_vars => EventsAccounted'
<1> SUFFICES ASSUME TypeOK, TypeOK', EventsAccounted, [Next]_vars, NEW a \in Agents
             PROVE  net'[a] + Cardinality(Greeting(a)') - owed'[a]
                      = IF registry'[a] = NoConn THEN 0 ELSE 1
  BY DEF EventsAccounted
<1> USE OwnerAssumption, NoConnAssumption
<1> DEFINE C == Cardinality(Greeting(a))
<1>a. net[a] + C - owed[a] = IF registry[a] = NoConn THEN 0 ELSE 1
  BY DEF EventsAccounted
<1>b. C \in Nat /\ net[a] \in Int /\ owed[a] \in Nat /\ net'[a] \in Int /\ owed'[a] \in Nat
  BY GreetingFinite DEF TypeOK
<1>c. ASSUME net'[a] = net[a], Greeting(a)' = Greeting(a), UNCHANGED <<registry, owed>>
      PROVE  net'[a] + Cardinality(Greeting(a)') - owed'[a]
               = IF registry'[a] = NoConn THEN 0 ELSE 1
  BY <1>a, <1>c
<1>1. ASSUME NEW c \in Conns, Upgrade(c), registry[Owner[c]] = NoConn
      PROVE  net'[a] + Cardinality(Greeting(a)') - owed'[a]
               = IF registry'[a] = NoConn THEN 0 ELSE 1
  <2>1. CASE a = Owner[c]
    <3>1. Greeting(a)' = Greeting(a) \cup {c} /\ c \notin Greeting(a)
      BY <1>1, <2>1 DEF Taken, Upgrade, Greeting, TypeOK
    <3>2. Cardinality(Greeting(a)') = C + 1
      BY <3>1, GreetingFinite, FS_AddElement
    <3>3. registry'[a] # NoConn /\ registry[a] = NoConn /\ net' = net /\ owed' = owed
      BY <1>1, <2>1 DEF Taken, Upgrade, TypeOK
    <3> QED
      BY <1>a, <1>b, <3>2, <3>3
  <2>2. CASE a # Owner[c]
    <3>1. Greeting(a)' = Greeting(a)
      BY <1>1, <2>2 DEF Taken, Upgrade, Greeting, TypeOK
    <3>2. registry'[a] = registry[a] /\ net' = net /\ owed' = owed
      BY <1>1, <2>2 DEF Taken, Upgrade, TypeOK
    <3> QED
      BY <1>a, <3>1, <3>2
  <2> QED
    BY <2>1, <2>2
<1>2. ASSUME NEW c \in Conns, Upgrade(c), registry[Owner[c]] # NoConn
      PROVE  net'[a] + Cardinality(Greeting(a)') - owed'[a]
               = IF registry'[a] = NoConn THEN 0 ELSE 1
  <2>1. \A d \in Conns : task[d] = "registered" <=> task'[d] = "registered"
    BY <1>2 DEF Taken, Upgrade, TypeOK
  <2> QED
    BY <1>2, <1>c, <2>1, GreetingKept DEF Taken, Upgrade
<1>3. ASSUME NEW c \in Conns, Greet(c)
      PROVE  net'[a] + Cardinality(Greeting(a)') - owed'[a]
               = IF registry'[a] = NoConn THEN 0 ELSE 1
  <2>1. Removal(Owner[c]) /\ Owner[c] \in Agents
    BY <1>3, SendToEffect DEF Greet, Frame
  <2>2. (IF registry'[a] = NoConn THEN 0 ELSE 1) + owed'[a]
           = (IF registry[a] = NoConn THEN 0 ELSE 1) + owed[a]
    BY <2>1, RemovalBalance
  <2>3. CASE a = Owner[c]
    <3>1. Greeting(a)' = Greeting(a) \ {c} /\ c \in Greeting(a)
      BY <1>3, <2>3 DEF Greet, Greeting, TypeOK
    <3>2. Cardinality(Greeting(a)') = C - 1
      BY <3>1, GreetingFinite, FS_RemoveElement
    <3>3. net'[a] = net[a] + 1
      BY <1>3, <2>3 DEF Greet, TypeOK
    <3> QED
      BY <1>a, <1>b, <2>2, <3>2, <3>3
  <2>4. CASE a # Owner[c]
    <3>1. Greeting(a)' = Greeting(a)
      BY <1>3, <2>4 DEF Greet, Greeting, TypeOK
    <3>2. net'[a] = net[a]
      BY <1>3, <2>4 DEF Greet, TypeOK
    <3> QED
      BY <1>a, <1>b, <2>2, <3>1, <3>2
  <2> QED
    BY <2>3, <2>4
<1>4. ASSUME NEW c \in Conns,
             \/ WriteFrame(c) \/ ChannelClosed(c) \/ PeerClosed(c)
             \/ PingTimeout(c) \/ PingBlocks(c) \/ WriteFails(c) \/ PeerChanges(c)
      PROVE  net'[a] + Cardinality(Greeting(a)') - owed'[a]
               = IF registry'[a] = NoConn THEN 0 ELSE 1
  <2>1. \A d \in Conns : task[d] = "registered" <=> task'[d] = "registered"
    BY <1>4 DEF WriteFrame, ChannelClosed, PeerClosed, PingTimeout, PingBlocks, WriteFails, Break,
       PeerChanges, TypeOK
  <2>2. net' = net /\ UNCHANGED <<registry, owed>>
    BY <1>4 DEF WriteFrame, ChannelClosed, PeerClosed, PingTimeout, PingBlocks, WriteFails, Break,
       PeerChanges
  <2> QED
    BY <1>c, <2>1, <2>2, GreetingKept
<1>5. ASSUME NEW b \in Agents, Removal(b), net' = net,
             \A d \in Conns : task[d] = "registered" <=> task'[d] = "registered"
      PROVE  net'[a] + Cardinality(Greeting(a)') - owed'[a]
               = IF registry'[a] = NoConn THEN 0 ELSE 1
  BY <1>a, <1>b, <1>5, RemovalBalance, GreetingKept
<1>6. ASSUME NEW c \in Conns, Leave(c)
      PROVE  net'[a] + Cardinality(Greeting(a)') - owed'[a]
               = IF registry'[a] = NoConn THEN 0 ELSE 1
  <2>1. Removal(Owner[c]) /\ Owner[c] \in Agents /\ net' = net
    BY <1>6 DEF Leave, Unregister, Removal
  <2>2. \A d \in Conns : task[d] = "registered" <=> task'[d] = "registered"
    BY <1>6 DEF Leave, TypeOK
  <2> QED
    BY <1>5, <2>1, <2>2
<1>7. ASSUME NEW b \in Agents, Send(b)
      PROVE  net'[a] + Cardinality(Greeting(a)') - owed'[a]
               = IF registry'[a] = NoConn THEN 0 ELSE 1
  BY <1>5, <1>7, SendToEffect DEF Send, Frame
<1>8. ASSUME NEW b \in Agents, Broadcast(b)
      PROVE  net'[a] + Cardinality(Greeting(a)') - owed'[a]
               = IF registry'[a] = NoConn THEN 0 ELSE 1
  <2>1. Greeting(a)' = Greeting(a) /\ registry' = registry
    BY <1>8 DEF Broadcast, Greeting
  <2>2. net'[a] - owed'[a] = net[a] - owed[a]
    <3>1. CASE a = b
      BY <1>8, <3>1 DEF Broadcast, TypeOK
    <3>2. CASE a # b
      BY <1>8, <3>2 DEF Broadcast, TypeOK
    <3> QED
      BY <3>1, <3>2
  <2> QED
    BY <1>a, <1>b, <2>1, <2>2
<1>9. CASE UNCHANGED vars
  <2>1. Greeting(a)' = Greeting(a)
    BY <1>9 DEF vars, Greeting
  <2> QED
    BY <1>9, <1>c, <2>1 DEF vars
<1> QED
  BY <1>1, <1>2, <1>3, <1>4, <1>6, <1>7, <1>8, <1>9 DEF Next, ConnStep

\* An observer's count of Registered and Unregistered events, corrected by the
\* broadcasts still under way, equals the registry's content: each insertion is
\* announced once and each removal once, whichever code path makes it.
THEOREM Accounted == Spec => []EventsAccounted
<1>1. ASSUME Init PROVE EventsAccounted
  <2> SUFFICES ASSUME NEW a \in Agents
               PROVE  net[a] + Cardinality(Greeting(a)) - owed[a]
                        = IF registry[a] = NoConn THEN 0 ELSE 1
    BY DEF EventsAccounted
  <2>1. Greeting(a) = {}
    BY <1>1 DEF Init, Greeting
  <2> QED
    BY <1>1, <2>1, FS_EmptySet DEF Init
<1>2. TypeOK /\ TypeOK' /\ EventsAccounted /\ [Next]_vars => EventsAccounted'
  BY NextAccounted
<1> QED
  BY <1>1, <1>2, TypeCorrect, PTL DEF Spec
================================================================================
