--------------------------- MODULE BusDeliveryProofs ----------------------------
(***************************************************************************)
(* The path of an envelope implements the promise of module Delivery, for     *)
(* any agents, envelopes, recipients and bounds.  The inductive invariant     *)
(* follows an envelope along its path: what each queue holds has been accepted *)
(* or has reached its recipient.                                             *)
(***************************************************************************)
EXTENDS BusDelivery, TLAPS

Elems(s) == {s[i] : i \in DOMAIN s}
Once(s, x) == \A i, j \in DOMAIN s : s[i] = x /\ s[j] = x => i = j

Env(m) == [type |-> "envelope", id |-> m]
OnWire(m) == Env(m) \in Elems(toBus[From[m]])
HasReached(m) == \E k \in reached : k[1] = m
Proven(m) == submit[m].tries = 1 => HasReached(m)

GoodFrame(f, a) ==
    /\ f.id \in accepted
    /\ f.type = "envelope" => <<f.id, a>> \in Keys
    /\ f.type = "receipt" => Proven(f.id)

GoodWire(f, a) ==
    /\ f.type = "receipt" => <<f.id, a>> \in reached
    /\ f.type = "envelope" => From[f.id] = a

GoodRoute(a) ==
    routing[a] # Idle =>
        /\ routing[a] \in [id : Msgs, todo : Seq(Agents), track : BOOLEAN]
        /\ routing[a].id \in accepted /\ From[routing[a].id] = a
        /\ routing[a].todo # <<>>
        /\ \A r \in Elems(routing[a].todo) : <<routing[a].id, r>> \in Keys

GoodSubmit(m) ==
    /\ submit[m].at = "idle" => submit[m].tries = 0 /\ m \notin accepted /\ ~ OnWire(m)
    /\ submit[m].at \in {"waiting", "backoff"} => submit[m].tries > 0
    /\ submit[m].at = "backoff" => submit[m].tries < SendAttempts
    /\ submit[m].tries = 1 =>
           Once(toBus[From[m]], Env(m)) /\ (m \in accepted => ~ OnWire(m))
    /\ submit[m].at = "ok" => m \in accepted /\ Proven(m)

Frames == \A a \in Agents : \A f \in Elems(chan[a].out) : GoodFrame(f, a)
Wires == \A a \in Agents : \A f \in Elems(toBus[a]) : GoodWire(f, a)
Routes == \A a \in Agents : GoodRoute(a)
Submits == \A m \in Msgs : GoodSubmit(m)
SeenAccepted == Elems(seen) \subseteq accepted
Retries ==
    \A k \in Keys :
        /\ retry[k] # <<>> => k[1] \in accepted
        /\ \A i \in DOMAIN retry[k] : retry[k][i].at = "sleep" => retry[k][i].attempt < MaxDelivery
Lives ==
    /\ \A k \in Keys : handed[k] = 0 \/ (handed[k] = 1 /\ k[1] \in got[k[2]])
    /\ \A a \in Agents : \A m \in got[a] : <<m, a>> \in reached
Heard == (\A e \in told : e[2] \in accepted) /\ (\A k \in reached : k[1] \in accepted)

IInv ==
    TypeOK /\ Frames /\ Wires /\ Routes /\ Submits /\ SeenAccepted /\ Retries /\ Lives /\ Heard

-------------------------------------------------------------------------------
(* Sequences. *)

LEMMA AppendElems ==
    ASSUME NEW S, NEW s \in Seq(S), NEW x \in S
    PROVE  /\ Append(s, x) \in Seq(S) /\ Append(s, x) # <<>>
           /\ Elems(Append(s, x)) = Elems(s) \cup {x}
           /\ \A y : y # x /\ Once(s, y) => Once(Append(s, x), y)
           /\ x \notin Elems(s) => Once(Append(s, x), x)
<1>1. /\ Append(s, x) \in Seq(S) /\ DOMAIN Append(s, x) = 1..(Len(s) + 1)
      /\ \A p \in 1..Len(s) : Append(s, x)[p] = s[p]
      /\ Append(s, x)[Len(s) + 1] = x /\ Len(s) \in Nat /\ DOMAIN s = 1..Len(s)
      /\ Append(s, x) # <<>>
    OBVIOUS
<1>2. 1..(Len(s) + 1) = 1..Len(s) \cup {Len(s) + 1}
    BY <1>1
<1>3. Elems(Append(s, x)) = Elems(s) \cup {x}
    BY <1>1, <1>2 DEF Elems
<1>4. ASSUME NEW y, y # x, Once(s, y) PROVE Once(Append(s, x), y)
    BY <1>1, <1>2, <1>4 DEF Once
<1>5. x \notin Elems(s) => Once(Append(s, x), x)
    BY <1>1, <1>2 DEF Once, Elems
<1> QED BY <1>1, <1>3, <1>4, <1>5

LEMMA TailElems ==
    ASSUME NEW S, NEW s \in Seq(S), s # <<>>
    PROVE  /\ Tail(s) \in Seq(S) /\ Head(s) \in S
           /\ Head(s) \in Elems(s) /\ Elems(Tail(s)) \subseteq Elems(s)
           /\ \A y : Once(s, y) => Once(Tail(s), y)
           /\ Once(s, Head(s)) => Head(s) \notin Elems(Tail(s))
<1>1. /\ Tail(s) \in Seq(S) /\ Head(s) \in S /\ Head(s) = s[1]
      /\ DOMAIN s = 1..Len(s) /\ Len(s) \in Nat \ {0} /\ DOMAIN Tail(s) = 1..(Len(s) - 1)
      /\ \A p \in 1..(Len(s) - 1) : Tail(s)[p] = s[p + 1]
    OBVIOUS
<1>2. 1 \in 1..Len(s) /\ \A p \in 1..(Len(s) - 1) : p + 1 \in 1..Len(s) /\ p + 1 # 1
    BY <1>1
<1>3. Head(s) \in Elems(s)
    BY <1>1, <1>2 DEF Elems
<1>4. Elems(Tail(s)) \subseteq Elems(s)
    BY <1>1, <1>2 DEF Elems
<1>5. ASSUME NEW y, Once(s, y) PROVE Once(Tail(s), y)
    <2>1. ASSUME NEW i \in DOMAIN Tail(s), NEW j \in DOMAIN Tail(s), Tail(s)[i] = y, Tail(s)[j] = y
          PROVE  i = j
        <3>1. i + 1 = j + 1 BY <1>1, <1>2, <1>5, <2>1 DEF Once
        <3> QED BY <1>1, <3>1
    <2> QED BY <2>1 DEF Once
<1>6. ASSUME Once(s, Head(s)), NEW i \in DOMAIN Tail(s), Tail(s)[i] = Head(s) PROVE FALSE
    BY <1>1, <1>2, <1>6 DEF Once
<1> QED BY <1>1, <1>3, <1>4, <1>5, <1>6 DEF Elems

LEMMA LongTail ==
    ASSUME NEW S, NEW s \in Seq(S), s # <<>>, Len(s) # 1
    PROVE  Tail(s) # <<>>
<1>1. Len(s) \in Nat \ {0} /\ DOMAIN Tail(s) = 1..(Len(s) - 1)
    OBVIOUS
<1>2. \A n \in Nat \ {0} : n # 1 => 1 \in 1..(n - 1)
    OBVIOUS
<1>3. DOMAIN <<>> = {}
    OBVIOUS
<1> QED BY <1>1, <1>2, <1>3

LEMMA EmptyElems == Elems(<<>>) = {} /\ \A x : Once(<<>>, x)
BY DEF Elems, Once

-------------------------------------------------------------------------------
(* The parts of the invariant, one by one. *)

Chans == [Agents -> [link : Link, out : Seq(Frame)]]

\* send_to appends its frame to one channel, or evicts, or does nothing.
LEMMA SendToEffect ==
    ASSUME NEW ch \in Chans, NEW a \in Agents, NEW m \in Msgs,
           NEW type \in {"envelope", "receipt"} \cup Errors
    PROVE  /\ SendTo(ch, a, type, m) \in Chans
           /\ \A b \in Agents : \A f \in Elems(SendTo(ch, a, type, m)[b].out) :
                  f \in Elems(ch[b].out) \/ (b = a /\ f = [type |-> type, id |-> m])
<1> DEFINE f == [type |-> type, id |-> m]
<1>1. f \in Frame BY DEF Frame
<1> HIDE DEF f
<1>2. ch[a].out \in Seq(Frame) /\ ch[a].link \in Link BY DEF Chans
<1>3. CASE Overflows(ch, a)
    <2>1. SendTo(ch, a, type, m) = [ch EXCEPT ![a].link = "evicted"] BY <1>3 DEF SendTo
    <2> QED BY <2>1 DEF Chans, Link
<1>4. CASE ~ Overflows(ch, a) /\ ch[a].link = "up"
    <2>1. SendTo(ch, a, type, m) = [ch EXCEPT ![a].out = Append(@, f)] BY <1>4 DEF SendTo, f
    <2>2. /\ Append(ch[a].out, f) \in Seq(Frame)
          /\ Elems(Append(ch[a].out, f)) = Elems(ch[a].out) \cup {f}
        BY <1>1, <1>2, AppendElems
    <2>3. SendTo(ch, a, type, m) \in Chans BY <2>1, <2>2 DEF Chans
    <2>4. \A b \in Agents : SendTo(ch, a, type, m)[b].out =
                                IF b = a THEN Append(ch[a].out, f) ELSE ch[b].out
        BY <2>1 DEF Chans
    <2> QED BY <2>2, <2>3, <2>4 DEF f
<1>5. CASE ~ Overflows(ch, a) /\ ch[a].link # "up"
    BY <1>5 DEF SendTo
<1> QED BY <1>3, <1>4, <1>5

Guards == [edges : Seq(Agents \X Agents), rounds : Nat,
           verdict : {"Accepted", "CycleDetected", "ExceededRounds"}]

LEMMA RecordType ==
    ASSUME NEW st \in Guards, NEW a \in Agents, NEW b \in Agents
    PROVE  Record(st, a, b, MaxRounds) \in Guards
<1>1. Append(st.edges, <<a, b>>) \in Seq(Agents \X Agents)
    BY DEF Guards
<1>2. st.rounds \in Nat /\ st.rounds + 1 \in Nat
    BY DEF Guards
<1> QED BY <1>1, <1>2 DEF Record, Guards

LEMMA FramesKept ==
    ASSUME Frames, accepted \subseteq accepted', reached \subseteq reached',
           \A m \in accepted : submit'[m].tries = 1 => submit[m].tries = 1,
           \A a \in Agents : \A f \in Elems(chan'[a].out) :
               f \in Elems(chan[a].out) \/ GoodFrame(f, a)'
    PROVE  Frames'
<1>1. ASSUME NEW a \in Agents, NEW f \in Elems(chan'[a].out) PROVE GoodFrame(f, a)'
    <2>1. GoodFrame(f, a) => GoodFrame(f, a)'
        BY DEF GoodFrame, Proven, HasReached
    <2> QED BY <1>1, <2>1 DEF Frames
<1>2. \A a \in Agents : Elems(chan[a].out)' = Elems(chan'[a].out) BY DEF Elems
<1> QED BY <1>1, <1>2 DEF Frames

LEMMA WiresKept ==
    ASSUME Wires, reached \subseteq reached',
           \A a \in Agents : \A f \in Elems(toBus'[a]) : f \in Elems(toBus[a]) \/ GoodWire(f, a)'
    PROVE  Wires'
<1>1. ASSUME NEW a \in Agents, NEW f \in Elems(toBus'[a]) PROVE GoodWire(f, a)'
    <2>1. GoodWire(f, a) => GoodWire(f, a)' BY DEF GoodWire
    <2> QED BY <1>1, <2>1 DEF Wires
<1>2. \A a \in Agents : Elems(toBus[a])' = Elems(toBus'[a]) BY DEF Elems
<1> QED BY <1>1, <1>2 DEF Wires

LEMMA RoutesKept ==
    ASSUME Routes, accepted \subseteq accepted',
           \A a \in Agents : routing'[a] = routing[a] \/ GoodRoute(a)'
    PROVE  Routes'
<1>1. ASSUME NEW a \in Agents, routing'[a] = routing[a] PROVE GoodRoute(a)'
    BY <1>1 DEF Routes, GoodRoute, Elems
<1> QED BY <1>1 DEF Routes

LEMMA SubmitsKept ==
    ASSUME Submits, reached \subseteq reached', accepted' = accepted,
           \A m \in Msgs : \/ submit'[m] = submit[m] /\ toBus'[From[m]] = toBus[From[m]]
                           \/ GoodSubmit(m)'
    PROVE  Submits'
<1>1. ASSUME NEW m \in Msgs, submit'[m] = submit[m], toBus'[From[m]] = toBus[From[m]]
      PROVE  GoodSubmit(m)'
    <2>1. OnWire(m)' <=> OnWire(m) BY <1>1 DEF OnWire, Elems
    <2>2. Once(toBus[From[m]], Env(m))' <=> Once(toBus[From[m]], Env(m))
        BY <1>1 DEF Once, Env
    <2>3. Proven(m) => Proven(m)' BY <1>1 DEF Proven, HasReached
    <2> QED BY <1>1, <2>1, <2>2, <2>3 DEF Submits, GoodSubmit
<1> QED BY <1>1 DEF Submits

LEMMA RetriesKept ==
    ASSUME Retries, accepted \subseteq accepted', retry' = retry
    PROVE  Retries'
BY DEF Retries

LEMMA HeardKept ==
    ASSUME Heard, accepted \subseteq accepted', told' = told, reached' = reached
    PROVE  Heard'
BY DEF Heard

LEMMA SeenKept ==
    ASSUME SeenAccepted, accepted \subseteq accepted', seen' = seen
    PROVE  SeenAccepted'
BY DEF SeenAccepted, Elems

LEMMA LivesKept ==
    ASSUME Lives, handed' = handed, got' = got, reached \subseteq reached'
    PROVE  Lives'
BY DEF Lives, Keys

\* A submission that only moves on without its first copy being in doubt.
Calls == [at : {"idle", "waiting", "backoff", "ok", "failed", "broken", "sent"},
          tries : 0..SendAttempts]

LEMMA SubmitMoves ==
    ASSUME IInv, NEW m \in Msgs, NEW s,
           submit' = [submit EXCEPT ![m] = s], toBus' = toBus,
           reached' = reached, accepted' = accepted,
           s \in Calls,
           s.tries = submit[m].tries, submit[m].at # "idle", s.at # "idle",
           s.at \in {"waiting", "backoff"} => s.tries > 0,
           s.at = "backoff" => s.tries < SendAttempts,
           s.at = "ok" => m \in accepted /\ Proven(m)
    PROVE  /\ Submits'
           /\ \A n \in Msgs : submit'[n].tries = submit[n].tries
           /\ submit' \in [Msgs -> Calls]
<1>1. submit'[m] = s /\ \A n \in Msgs : n # m => submit'[n] = submit[n]
    BY DEF IInv, TypeOK
<1>2. GoodSubmit(m)'
    <2>1. OnWire(m)' <=> OnWire(m) BY DEF OnWire, Elems
    <2>2. Once(toBus[From[m]], Env(m))' <=> Once(toBus[From[m]], Env(m))
        BY DEF Once, Env
    <2>3. Proven(m)' <=> Proven(m) BY <1>1 DEF Proven, HasReached
    <2>4. GoodSubmit(m) BY DEF IInv, Submits
    <2> QED BY <1>1, <2>1, <2>2, <2>3, <2>4 DEF GoodSubmit
<1>3. Submits' BY <1>1, <1>2, SubmitsKept DEF IInv
<1>4. \A n \in Msgs : submit'[n].tries = submit[n].tries
    BY <1>1
<1>5. submit' \in [Msgs -> Calls]
    BY DEF IInv, TypeOK, Calls
<1> QED BY <1>3, <1>4, <1>5

LEMMA InitInv == Init => IInv
<1> SUFFICES ASSUME Init PROVE IInv
    OBVIOUS
<1>1. NoHops \in Guards
    BY DEF NoHops, Guards
<1>2. TypeOK
    <2>1. /\ chan \in Chans /\ toBus \in [Agents -> Seq(Frame)]
        BY DEF Init, Chans, Link
    <2>2. seen \in Seq(Msgs) /\ Len(seen) <= SeenCapacity
        BY BoundAssumption DEF Init
    <2>3. guard \in [Corrs -> Guards]
        BY <1>1 DEF Init
    <2>4. /\ pending \in [Keys -> 0..MaxDelivery] /\ handed \in [Keys -> Nat]
          /\ cleared \in [Keys -> Nat] /\ failed \in [Keys -> Nat]
        BY BoundAssumption DEF Init
    <2>5. submit \in [Msgs -> Calls]
        BY BoundAssumption DEF Init, Calls
    <2>6. retry \in [Keys -> Seq([attempt : 1..MaxDelivery,
                                  at : {"sleep", "send", "final", "ended"}])]
        BY DEF Init
    <2>7. /\ got \in [Agents -> SUBSET Msgs] /\ breaks \in [Agents -> Nat]
          /\ accepted \subseteq Msgs /\ reached \subseteq Keys /\ told \subseteq Errors \X Msgs
          /\ routing \in [Agents -> {Idle}]
        BY DEF Init
    <2> QED BY <2>1, <2>2, <2>3, <2>4, <2>5, <2>6, <2>7 DEF TypeOK, Chans, Guards, Calls
<1>3. /\ \A a \in Agents : chan[a].out = <<>> /\ toBus[a] = <<>> /\ routing[a] = Idle
      /\ seen = <<>> /\ told = {} /\ reached = {} /\ accepted = {}
      /\ \A m \in Msgs : submit[m].at = "idle" /\ submit[m].tries = 0
      /\ \A k \in Keys : retry[k] = <<>> /\ handed[k] = 0
      /\ \A a \in Agents : got[a] = {}
    BY DEF Init
<1>4. \A m \in Msgs : From[m] \in Agents
    BY EnvelopeAssumption
<1>5. Frames /\ Wires /\ Routes /\ SeenAccepted
    BY <1>3, EmptyElems DEF Frames, Wires, Routes, GoodRoute, SeenAccepted
<1>6. Submits
    BY <1>3, <1>4, EmptyElems DEF Submits, GoodSubmit, OnWire
<1>7. Retries /\ Lives /\ Heard
    BY <1>3 DEF Retries, Lives, Heard
<1> QED BY <1>2, <1>5, <1>6, <1>7 DEF IInv

\* One more copy on the wire of its sender, by a step that leaves the bus alone.
LEMMA OneMoreCopy ==
    ASSUME IInv, NEW m \in Msgs,
           toBus' = [toBus EXCEPT ![From[m]] = Append(@, Env(m))],
           reached' = reached, accepted' = accepted,
           \A n \in Msgs : n # m => submit'[n] = submit[n],
           submit'[m].at \notin {"idle", "backoff", "ok"},
           submit'[m].at = "waiting" => submit'[m].tries > 0,
           submit'[m].tries = 1 => submit[m].at = "idle"
    PROVE  Wires' /\ Submits' /\ toBus' \in [Agents -> Seq(Frame)]
<1> DEFINE a == From[m]
<1>1. a \in Agents /\ toBus \in [Agents -> Seq(Frame)] /\ Env(m) \in Frame
      /\ toBus[a] \in Seq(Frame)
    BY EnvelopeAssumption DEF IInv, TypeOK, Env, Frame
<1> HIDE DEF a
<1>2. /\ Append(toBus[a], Env(m)) \in Seq(Frame)
      /\ Elems(Append(toBus[a], Env(m))) = Elems(toBus[a]) \cup {Env(m)}
      /\ \A y : y # Env(m) /\ Once(toBus[a], y) => Once(Append(toBus[a], Env(m)), y)
      /\ Env(m) \notin Elems(toBus[a]) => Once(Append(toBus[a], Env(m)), Env(m))
    BY <1>1, AppendElems
<1>3. /\ toBus' \in [Agents -> Seq(Frame)] /\ toBus'[a] = Append(toBus[a], Env(m))
      /\ \A b \in Agents : b # a => toBus'[b] = toBus[b]
    BY <1>1, <1>2 DEF a
<1>4. Wires'
    <2>1. GoodWire(Env(m), a)' BY DEF GoodWire, Env, a
    <2>2. ASSUME NEW b \in Agents, NEW f \in Elems(toBus'[b])
          PROVE  f \in Elems(toBus[b]) \/ GoodWire(f, b)'
        <3>1. CASE b = a
            <4>1. f \in Elems(toBus[a]) \/ f = Env(m) BY <1>2, <1>3, <2>2, <3>1
            <4>2. CASE f = Env(m)
                BY <3>1, <4>2 DEF GoodWire, Env, a
            <4> QED BY <3>1, <4>1, <4>2
        <3>2. CASE b # a
            BY <1>3, <2>2, <3>2
        <3> QED BY <3>1, <3>2
    <2> QED BY <2>2, WiresKept DEF IInv
<1>5. Submits'
    <2> SUFFICES ASSUME NEW n \in Msgs PROVE GoodSubmit(n)'
        BY DEF Submits
    <2>0. From[n] \in Agents /\ GoodSubmit(n) /\ GoodSubmit(m)
        BY EnvelopeAssumption DEF IInv, Submits
    <2>1. CASE n # m
        <3>1. Env(n) # Env(m) BY <2>1 DEF Env
        <3>2. OnWire(n)' <=> OnWire(n)
            <4>1. OnWire(n)' <=> Env(n) \in Elems(toBus'[From[n]]) BY DEF OnWire, Elems, Env
            <4>2. CASE From[n] = a BY <1>2, <1>3, <3>1, <4>1, <4>2 DEF OnWire
            <4>3. CASE From[n] # a BY <1>3, <2>0, <4>1, <4>3 DEF OnWire
            <4> QED BY <4>2, <4>3
        <3>3. Once(toBus[From[n]], Env(n)) => Once(toBus[From[n]], Env(n))'
            <4>1. Once(toBus[From[n]], Env(n))' <=> Once(toBus'[From[n]], Env(n))
                BY DEF Once, Env
            <4>2. CASE From[n] = a BY <1>2, <1>3, <3>1, <4>1, <4>2
            <4>3. CASE From[n] # a BY <1>3, <2>0, <4>1, <4>3
            <4> QED BY <4>2, <4>3
        <3>4. Proven(n)' <=> Proven(n) BY <2>1 DEF Proven, HasReached
        <3> QED BY <2>0, <2>1, <3>2, <3>3, <3>4 DEF GoodSubmit
    <2>2. CASE n = m
        <3>1. ASSUME submit'[m].tries = 1
              PROVE  m \notin accepted /\ Once(toBus[From[m]], Env(m))'
            <4>1. m \notin accepted /\ ~ OnWire(m) BY <2>0, <3>1 DEF GoodSubmit
            <4>2. Once(toBus'[a], Env(m)) BY <1>2, <1>3, <4>1 DEF OnWire, a
            <4> QED BY <4>1, <4>2 DEF Once, Env, a
        <3> QED BY <2>2, <3>1 DEF GoodSubmit
    <2> QED BY <2>1, <2>2
<1> QED BY <1>3, <1>4, <1>5

-------------------------------------------------------------------------------
(* The actions of a sender. *)

LEMMA WriteInv ==
    ASSUME IInv, NEW m \in Msgs, Write(m),
           submit[m].at = "idle" \/ submit[m].at = "backoff",
           submit[m].at = "idle" => Connected(From[m]),
           UNCHANGED <<chan, got, handed, bus, history>>
    PROVE  IInv'
<1>0. /\ chan' = chan /\ got' = got /\ handed' = handed /\ seen' = seen /\ routing' = routing
      /\ guard' = guard /\ pending' = pending /\ retry' = retry /\ accepted' = accepted
      /\ reached' = reached /\ told' = told /\ cleared' = cleared /\ failed' = failed
      /\ breaks' = breaks
    BY DEF bus, history
<1>1. /\ submit \in [Msgs -> Calls] /\ submit[m].tries \in Nat /\ GoodSubmit(m)
      /\ SendAttempts \in Nat \ {0}
    BY BoundAssumption DEF IInv, TypeOK, Calls, Submits
<1>2. CASE Connected(From[m])
    <2>1. /\ toBus' = [toBus EXCEPT ![From[m]] = Append(@, Env(m))]
          /\ submit' = [submit EXCEPT ![m] = [at |-> "waiting", tries |-> @.tries + 1]]
        BY <1>2 DEF Write, Env
    <2>2. /\ submit'[m] = [at |-> "waiting", tries |-> submit[m].tries + 1]
          /\ \A n \in Msgs : n # m => submit'[n] = submit[n]
        BY <1>1, <2>1
    <2>3. submit'[m].tries = 1 => submit[m].at = "idle"
        BY <1>1, <2>2 DEF GoodSubmit
    <2>4. submit[m].tries + 1 \in 1..SendAttempts
        BY <1>1 DEF GoodSubmit
    <2>5. submit' \in [Msgs -> Calls]
        BY <1>1, <2>1, <2>4 DEF Calls
    <2>6. Wires' /\ Submits' /\ toBus' \in [Agents -> Seq(Frame)]
        <3>1. submit'[m].at = "waiting" /\ submit'[m].tries > 0 BY <2>2, <2>4
        <3> QED BY <1>0, <2>1, <2>2, <2>3, <3>1, OneMoreCopy
    <2>7. TypeOK' BY <1>0, <2>5, <2>6 DEF IInv, TypeOK, Calls
    <2>8. Frames'
        <3>1. \A n \in accepted : submit'[n].tries = 1 => submit[n].tries = 1
            BY <1>1, <2>2, <2>3 DEF GoodSubmit, IInv, TypeOK
        <3> QED BY <1>0, <3>1, FramesKept DEF IInv
    <2> QED
        BY <1>0, <2>6, <2>7, <2>8, RoutesKept, SeenKept, RetriesKept, LivesKept, HeardKept DEF IInv
<1>3. CASE ~ Connected(From[m])
    <2>1. submit' = [submit EXCEPT ![m].at = "broken"] /\ toBus' = toBus
          /\ submit[m].at = "backoff"
        BY <1>3 DEF Write
    <2> DEFINE s == [submit[m] EXCEPT !.at = "broken"]
    <2>2. /\ submit' = [submit EXCEPT ![m] = s]
          /\ s \in Calls /\ s.at = "broken" /\ s.tries = submit[m].tries
        BY <1>1, <2>1 DEF Calls
    <2> HIDE DEF s
    <2>3. /\ Submits' /\ submit' \in [Msgs -> Calls]
          /\ \A n \in Msgs : submit'[n].tries = submit[n].tries
        BY <1>0, <2>1, <2>2, SubmitMoves
    <2>4. TypeOK' BY <1>0, <2>1, <2>3 DEF IInv, TypeOK, Calls
    <2>5. Frames'
        <3>1. accepted \subseteq Msgs BY DEF IInv, TypeOK
        <3> QED BY <1>0, <2>3, <3>1, FramesKept DEF IInv
    <2>6. Wires' BY <1>0, <2>1, WiresKept DEF IInv
    <2> QED
        BY <1>0, <2>3, <2>4, <2>5, <2>6, RoutesKept, SeenKept, RetriesKept, LivesKept, HeardKept
        DEF IInv
<1> QED BY <1>2, <1>3

LEMMA StartSendInv ==
    ASSUME IInv, NEW m \in Msgs, StartSend(m) PROVE IInv'
BY WriteInv DEF StartSend

LEMMA ResendInv ==
    ASSUME IInv, NEW m \in Msgs, Resend(m) PROVE IInv'
BY WriteInv DEF Resend

LEMMA SendBestEffortInv ==
    ASSUME IInv, NEW m \in Msgs, SendBestEffort(m) PROVE IInv'
<1>0. /\ chan' = chan /\ got' = got /\ handed' = handed /\ seen' = seen /\ routing' = routing
      /\ guard' = guard /\ pending' = pending /\ retry' = retry /\ accepted' = accepted
      /\ reached' = reached /\ told' = told /\ cleared' = cleared /\ failed' = failed
      /\ breaks' = breaks /\ submit[m].at = "idle"
      /\ toBus' = [toBus EXCEPT ![From[m]] = Append(@, Env(m))]
      /\ submit' = [submit EXCEPT ![m].at = "sent"]
    BY DEF SendBestEffort, bus, history, Env
<1>1. submit \in [Msgs -> Calls] /\ GoodSubmit(m)
    BY DEF IInv, TypeOK, Calls, Submits
<1>2. /\ submit'[m].at = "sent" /\ submit'[m].tries = 0 /\ submit' \in [Msgs -> Calls]
      /\ \A n \in Msgs : n # m => submit'[n] = submit[n]
    BY <1>0, <1>1 DEF Calls, GoodSubmit
<1>3. Wires' /\ Submits' /\ toBus' \in [Agents -> Seq(Frame)]
    BY <1>0, <1>2, OneMoreCopy
<1>4. TypeOK' BY <1>0, <1>2, <1>3 DEF IInv, TypeOK, Calls
<1>5. Frames'
    <2>1. \A n \in accepted : submit'[n].tries = 1 => submit[n].tries = 1
        BY <1>0, <1>1, <1>2 DEF GoodSubmit, IInv, TypeOK
    <2> QED BY <1>0, <2>1, FramesKept DEF IInv
<1> QED
    BY <1>0, <1>3, <1>4, <1>5, RoutesKept, SeenKept, RetriesKept, LivesKept, HeardKept DEF IInv

LEMMA ReceiptTimeoutInv ==
    ASSUME IInv, NEW m \in Msgs, ReceiptTimeout(m) PROVE IInv'
<1>0. /\ chan' = chan /\ got' = got /\ handed' = handed /\ seen' = seen /\ routing' = routing
      /\ guard' = guard /\ pending' = pending /\ retry' = retry /\ accepted' = accepted
      /\ reached' = reached /\ told' = told /\ cleared' = cleared /\ failed' = failed
      /\ breaks' = breaks /\ toBus' = toBus /\ submit[m].at = "waiting"
      /\ submit' = [submit EXCEPT ![m].at =
                      IF submit[m].tries < SendAttempts THEN "backoff" ELSE "failed"]
    BY DEF ReceiptTimeout, bus, history
<1>1. submit \in [Msgs -> Calls] /\ GoodSubmit(m)
    BY DEF IInv, TypeOK, Calls, Submits
<1> DEFINE s == [submit[m] EXCEPT !.at = IF submit[m].tries < SendAttempts THEN "backoff" ELSE "failed"]
<1>2. /\ submit' = [submit EXCEPT ![m] = s] /\ s \in Calls /\ s.tries = submit[m].tries
      /\ s.at \in {"backoff", "failed"} /\ (s.at = "backoff" => s.tries < SendAttempts)
      /\ s.tries > 0
    BY <1>0, <1>1 DEF Calls, GoodSubmit
<1> HIDE DEF s
<1>3. /\ Submits' /\ submit' \in [Msgs -> Calls]
      /\ \A n \in Msgs : submit'[n].tries = submit[n].tries
    BY <1>0, <1>2, SubmitMoves
<1>4. TypeOK' BY <1>0, <1>3 DEF IInv, TypeOK, Calls
<1>5. Frames'
    <2>1. accepted \subseteq Msgs BY DEF IInv, TypeOK
    <2> QED BY <1>0, <1>3, <2>1, FramesKept DEF IInv
<1>6. Wires' BY <1>0, WiresKept DEF IInv
<1> QED
    BY <1>0, <1>3, <1>4, <1>5, <1>6, RoutesKept, SeenKept, RetriesKept, LivesKept, HeardKept
    DEF IInv

-------------------------------------------------------------------------------
(* The reader loop, and what a connection task takes from the wire. *)

\* No new copy of an envelope on any wire.
LEMMA NoNewCopy ==
    ASSUME Submits, submit' = submit, reached \subseteq reached', accepted' = accepted,
           \A n \in Msgs :
               /\ Env(n) \in Elems(toBus'[From[n]]) => Env(n) \in Elems(toBus[From[n]])
               /\ Once(toBus[From[n]], Env(n)) => Once(toBus'[From[n]], Env(n))
    PROVE  Submits'
<1> SUFFICES ASSUME NEW n \in Msgs PROVE GoodSubmit(n)'
    BY DEF Submits
<1>1. OnWire(n)' => OnWire(n) BY DEF OnWire, Elems, Env
<1>2. Once(toBus[From[n]], Env(n)) => Once(toBus[From[n]], Env(n))'
    <2>1. Once(toBus'[From[n]], Env(n)) <=> Once(toBus[From[n]], Env(n))' BY DEF Once, Env
    <2> QED BY <2>1
<1>3. Proven(n) => Proven(n)' BY DEF Proven, HasReached
<1>4. GoodSubmit(n) BY DEF Submits
<1> QED BY <1>1, <1>2, <1>3, <1>4 DEF GoodSubmit

LEMMA ReadFrameInv ==
    ASSUME IInv, NEW a \in Agents, ReadFrame(a) PROVE IInv'
<1> DEFINE f == Head(chan[a].out)
<1>f. f = Head(chan[a].out) OBVIOUS
<1> HIDE DEF f
<1>0. /\ chan' = [chan EXCEPT ![a].out = Tail(@)] /\ chan[a].out # <<>>
      /\ seen' = seen /\ routing' = routing /\ guard' = guard /\ pending' = pending
      /\ retry' = retry /\ accepted' = accepted /\ cleared' = cleared /\ failed' = failed
      /\ breaks' = breaks
    BY DEF ReadFrame, bus
<1>1. chan \in Chans /\ chan[a].out \in Seq(Frame) /\ accepted \subseteq Msgs
    BY DEF IInv, TypeOK, Chans
<1>2. /\ f \in Frame /\ f \in Elems(chan[a].out)
      /\ Tail(chan[a].out) \in Seq(Frame) /\ Elems(Tail(chan[a].out)) \subseteq Elems(chan[a].out)
    BY <1>f, <1>0, <1>1, TailElems
<1>3. /\ chan' \in Chans /\ chan'[a].out = Tail(chan[a].out)
      /\ \A b \in Agents : b # a => chan'[b] = chan[b]
    BY <1>0, <1>1, <1>2 DEF Chans
<1>4. \A b \in Agents : \A g \in Elems(chan'[b].out) : g \in Elems(chan[b].out)
    BY <1>2, <1>3
<1>5. GoodFrame(f, a) /\ f.id \in Msgs
    BY <1>2 DEF IInv, Frames, Frame
<1>6. CASE /\ f.type = "receipt"
           /\ submit' = IF submit[f.id].at = "waiting"
                        THEN [submit EXCEPT ![f.id].at = "ok"] ELSE submit
           /\ UNCHANGED <<toBus, got, handed, reached, told>>
    <2>1. /\ Submits' /\ submit' \in [Msgs -> Calls]
          /\ \A n \in Msgs : submit'[n].tries = submit[n].tries
        <3>1. CASE submit[f.id].at = "waiting"
            <4> DEFINE s == [submit[f.id] EXCEPT !.at = "ok"]
            <4>1. submit \in [Msgs -> Calls] BY DEF IInv, TypeOK, Calls
            <4>2. /\ submit' = [submit EXCEPT ![f.id] = s] /\ s \in Calls /\ s.at = "ok"
                  /\ s.tries = submit[f.id].tries
                BY <1>5, <1>6, <3>1, <4>1 DEF Calls
            <4> HIDE DEF s
            <4>3. f.id \in accepted /\ Proven(f.id) BY <1>5, <1>6 DEF GoodFrame
            <4> QED BY <1>0, <1>5, <1>6, <3>1, <4>2, <4>3, SubmitMoves
        <3>2. CASE submit[f.id].at # "waiting"
            <4>1. submit' = submit BY <1>6, <3>2
            <4> QED BY <1>0, <1>6, <4>1, SubmitsKept DEF IInv, TypeOK, Calls
        <3> QED BY <3>1, <3>2
    <2>2. TypeOK' BY <1>0, <1>3, <1>6, <2>1 DEF IInv, TypeOK, Calls, Chans
    <2>3. Frames' BY <1>0, <1>1, <1>4, <1>6, <2>1, FramesKept DEF IInv
    <2>4. Wires' BY <1>6, WiresKept DEF IInv
    <2> QED
        BY <1>0, <1>6, <2>1, <2>2, <2>3, <2>4, RoutesKept, SeenKept, RetriesKept, LivesKept,
           HeardKept DEF IInv
<1>7. CASE /\ f.type = "envelope"
           /\ toBus' = [toBus EXCEPT ![a] = Append(@, [type |-> "receipt", id |-> f.id])]
           /\ got' = [got EXCEPT ![a] = @ \cup {f.id}]
           /\ handed' = IF IsNew(a, f.id) THEN [handed EXCEPT ![<<f.id, a>>] = @ + 1]
                        ELSE handed
           /\ reached' = reached \cup {<<f.id, a>>}
           /\ UNCHANGED <<submit, told>>
    <2> DEFINE k == <<f.id, a>>
    <2> DEFINE g == [type |-> "receipt", id |-> f.id]
    <2>1. k \in Keys /\ f.id \in accepted BY <1>5, <1>7 DEF GoodFrame
    <2>2. g \in Frame /\ toBus[a] \in Seq(Frame) /\ toBus \in [Agents -> Seq(Frame)]
        BY <1>5 DEF Frame, IInv, TypeOK
    <2>3. g.type = "receipt" /\ g.id = f.id /\ \A n : Env(n) # g
        BY DEF Env
    <2>k. k[1] = f.id /\ k[2] = a OBVIOUS
    <2>4. toBus' = [toBus EXCEPT ![a] = Append(@, g)] /\ reached' = reached \cup {k}
          /\ handed' = IF IsNew(a, f.id) THEN [handed EXCEPT ![k] = @ + 1] ELSE handed
        BY <1>7
    <2> HIDE DEF g, k
    <2>5. /\ Append(toBus[a], g) \in Seq(Frame)
          /\ Elems(Append(toBus[a], g)) = Elems(toBus[a]) \cup {g}
          /\ \A y : y # g /\ Once(toBus[a], y) => Once(Append(toBus[a], g), y)
        BY <2>2, AppendElems
    <2>6. /\ toBus' \in [Agents -> Seq(Frame)] /\ toBus'[a] = Append(toBus[a], g)
          /\ \A b \in Agents : b # a => toBus'[b] = toBus[b]
        BY <2>2, <2>4, <2>5
    <2>7. Wires'
        <3>2. ASSUME NEW b \in Agents, NEW e \in Elems(toBus'[b])
              PROVE  e \in Elems(toBus[b]) \/ GoodWire(e, b)'
            <4>1. CASE b = a
                <5>1. e \in Elems(toBus[a]) \/ e = g BY <2>5, <2>6, <3>2, <4>1
                <5>2. CASE e = g
                    BY <2>3, <2>4, <4>1, <5>2 DEF GoodWire, k
                <5> QED BY <4>1, <5>1, <5>2
            <4>2. CASE b # a BY <2>6, <3>2, <4>2
            <4> QED BY <4>1, <4>2
        <3> QED BY <2>4, <3>2, WiresKept DEF IInv
    <2>8. Submits'
        <3>1. ASSUME NEW n \in Msgs
              PROVE  /\ Env(n) \in Elems(toBus'[From[n]]) => Env(n) \in Elems(toBus[From[n]])
                     /\ Once(toBus[From[n]], Env(n)) => Once(toBus'[From[n]], Env(n))
            <4>1. From[n] \in Agents BY EnvelopeAssumption
            <4>2. Env(n) # g BY <2>3
            <4>3. CASE From[n] = a
                <5>1. /\ Once(toBus[a], Env(n)) => Once(Append(toBus[a], g), Env(n))
                      /\ Env(n) \in Elems(Append(toBus[a], g)) => Env(n) \in Elems(toBus[a])
                    BY <2>5, <4>2
                <5> QED BY <2>6, <4>3, <5>1
            <4>4. CASE From[n] # a
                BY <2>6, <4>1, <4>4
            <4> QED BY <4>3, <4>4
        <3> QED BY <1>0, <1>7, <2>4, <3>1, NoNewCopy DEF IInv
    <2>9. Lives' /\ handed' \in [Keys -> Nat]
        <3>1. \A b \in Agents : got[b] \subseteq got'[b] /\ got' \in [Agents -> SUBSET Msgs]
            BY <1>5, <1>7 DEF IInv, TypeOK
        <3>2. f.id \in got'[a] BY <1>7 DEF IInv, TypeOK
        <3>3. CASE IsNew(a, f.id)
            <4>1. handed[k] = 0 BY <2>1, <2>k, <3>3 DEF IInv, Lives, IsNew
            <4>2. handed' = [handed EXCEPT ![k] = 1] /\ handed \in [Keys -> Nat]
                BY <2>4, <3>3, <4>1 DEF IInv, TypeOK
            <4>3. handed'[k] = 1 /\ \A l \in Keys : l # k => handed'[l] = handed[l]
                BY <2>1, <4>2
            <4>4. \A l \in Keys : l[2] \in Agents BY DEF Keys
            <4>5. \A l \in Keys : handed'[l] = 0 \/ (handed'[l] = 1 /\ l[1] \in got'[l[2]])
                BY <2>k, <3>1, <3>2, <4>2, <4>3, <4>4 DEF IInv, Lives
            <4>6. \A b \in Agents : \A n \in got'[b] : <<n, b>> \in reached'
                <5>1. \A b \in Agents : \A n \in got'[b] :
                          n \in got[b] \/ (b = a /\ n = f.id)
                    BY <1>7 DEF IInv, TypeOK
                <5> QED BY <1>7, <5>1 DEF IInv, Lives
            <4> QED BY <4>2, <4>5, <4>6 DEF Lives
        <3>4. CASE ~ IsNew(a, f.id)
            <4>1. handed' = handed /\ got \in [Agents -> SUBSET Msgs]
                BY <2>4, <3>4 DEF IInv, TypeOK
            <4>2. got' = got BY <1>7, <3>4, <4>1 DEF IsNew
            <4>3. handed \in [Keys -> Nat] BY DEF IInv, TypeOK
            <4> QED BY <2>4, <4>1, <4>2, <4>3, LivesKept DEF IInv
        <3> QED BY <3>3, <3>4
    <2>10. got' \in [Agents -> SUBSET Msgs] /\ reached' \subseteq Keys
        BY <1>5, <1>7, <2>1, <2>4 DEF IInv, TypeOK
    <2>11. TypeOK' BY <1>0, <1>3, <1>7, <2>6, <2>9, <2>10 DEF IInv, TypeOK, Chans
    <2>12. Frames' BY <1>0, <1>4, <1>7, <2>4, FramesKept DEF IInv
    <2>13. Heard' BY <1>0, <1>7, <2>1, <2>4, <2>k DEF IInv, Heard
    <2> QED
        BY <1>0, <2>7, <2>8, <2>9, <2>11, <2>12, <2>13, RoutesKept, SeenKept, RetriesKept DEF IInv
<1>8. CASE /\ f.type \in Errors
           /\ told' = told \cup {<<f.type, f.id>>}
           /\ UNCHANGED <<toBus, sender, reached>>
    <2>1. submit' = submit /\ got' = got /\ handed' = handed BY <1>8 DEF sender
    <2>2. told' \subseteq Errors \X Msgs /\ f.id \in accepted
        BY <1>5, <1>8 DEF IInv, TypeOK, GoodFrame
    <2>3. TypeOK' BY <1>0, <1>3, <1>8, <2>1, <2>2 DEF IInv, TypeOK, Chans
    <2>4. Frames' BY <1>0, <1>4, <1>8, <2>1, FramesKept DEF IInv
    <2>5. Wires' /\ Submits' BY <1>0, <1>8, <2>1, WiresKept, SubmitsKept DEF IInv
    <2>6. Heard' BY <1>0, <1>8, <2>2 DEF IInv, Heard
    <2> QED
        BY <1>0, <1>8, <2>1, <2>3, <2>4, <2>5, <2>6, RoutesKept, SeenKept, RetriesKept, LivesKept
        DEF IInv
<1> QED BY <1>f, <1>6, <1>7, <1>8 DEF ReadFrame

LEMMA WireTaken ==
    ASSUME IInv, NEW a \in Agents, NEW type, TakeFrame(a, type)
    PROVE  /\ Head(toBus[a]) \in Frame /\ Head(toBus[a]).type = type
           /\ Head(toBus[a]).id \in Msgs
           /\ Head(toBus[a]) \in Elems(toBus[a]) /\ GoodWire(Head(toBus[a]), a)
           /\ toBus' \in [Agents -> Seq(Frame)]
           /\ \A b \in Agents : Elems(toBus'[b]) \subseteq Elems(toBus[b])
           /\ \A b \in Agents : \A y : Once(toBus[b], y) => Once(toBus'[b], y)
           /\ Once(toBus[a], Head(toBus[a])) => Head(toBus[a]) \notin Elems(toBus'[a])
<1>1. toBus \in [Agents -> Seq(Frame)] /\ toBus[a] \in Seq(Frame) /\ toBus[a] # <<>>
      /\ toBus' = [toBus EXCEPT ![a] = Tail(@)] /\ Head(toBus[a]).type = type
    BY DEF TakeFrame, IInv, TypeOK
<1>2. /\ Tail(toBus[a]) \in Seq(Frame) /\ Head(toBus[a]) \in Frame
      /\ Head(toBus[a]) \in Elems(toBus[a]) /\ Elems(Tail(toBus[a])) \subseteq Elems(toBus[a])
      /\ \A y : Once(toBus[a], y) => Once(Tail(toBus[a]), y)
      /\ Once(toBus[a], Head(toBus[a])) => Head(toBus[a]) \notin Elems(Tail(toBus[a]))
    BY <1>1, TailElems
<1>3. /\ toBus' \in [Agents -> Seq(Frame)] /\ toBus'[a] = Tail(toBus[a])
      /\ \A b \in Agents : b # a => toBus'[b] = toBus[b]
    BY <1>1, <1>2
<1>4. GoodWire(Head(toBus[a]), a) BY <1>2 DEF IInv, Wires
<1>5. Head(toBus[a]).id \in Msgs BY <1>2 DEF Frame
<1>6. ASSUME NEW b \in Agents
      PROVE  /\ Elems(toBus'[b]) \subseteq Elems(toBus[b])
             /\ \A y : Once(toBus[b], y) => Once(toBus'[b], y)
    <2>1. CASE b = a BY <1>2, <1>3, <2>1
    <2>2. CASE b # a BY <1>3, <2>2
    <2> QED BY <2>1, <2>2
<1> QED BY <1>1, <1>2, <1>3, <1>4, <1>5, <1>6

\* A step of the bus that sends one good frame at most.
LEMMA FramesSent ==
    ASSUME IInv, NEW a \in Agents, NEW m \in Msgs, NEW type \in {"envelope", "receipt"} \cup Errors,
           chan' = SendTo(chan, a, type, m), submit' = submit, reached' = reached,
           accepted \subseteq accepted', m \in accepted,
           type = "envelope" => <<m, a>> \in Keys,
           type = "receipt" => Proven(m)
    PROVE  Frames' /\ chan' \in Chans
<1>1. chan \in Chans BY DEF IInv, TypeOK, Chans
<1> DEFINE g == [type |-> type, id |-> m]
<1>2. g.type = type /\ g.id = m OBVIOUS
<1> HIDE DEF g
<1>3. /\ chan' \in Chans
      /\ \A b \in Agents : \A f \in Elems(chan'[b].out) : f \in Elems(chan[b].out) \/ (b = a /\ f = g)
    BY <1>1, SendToEffect DEF g
<1>4. GoodFrame(g, a)'
    <2>1. Proven(m) => Proven(m)' BY DEF Proven, HasReached
    <2> QED BY <1>2, <2>1 DEF GoodFrame, g
<1>5. \A b \in Agents : \A f \in Elems(chan'[b].out) : f \in Elems(chan[b].out) \/ GoodFrame(f, b)'
    <2> SUFFICES ASSUME NEW b \in Agents, NEW f \in Elems(chan'[b].out), f \notin Elems(chan[b].out)
                 PROVE  GoodFrame(f, b)'
        OBVIOUS
    <2>1. b = a /\ f = g BY <1>3
    <2>2. Proven(m) => Proven(m)' BY DEF Proven, HasReached
    <2> QED BY <1>2, <2>1, <2>2 DEF GoodFrame
<1>6. Frames' BY <1>5, FramesKept DEF IInv
<1> QED BY <1>3, <1>6

LEMMA FramesUnsent ==
    ASSUME IInv, chan' = chan, submit' = submit, reached' = reached, accepted \subseteq accepted'
    PROVE  Frames' /\ chan' \in Chans
<1>1. chan' \in Chans BY DEF IInv, TypeOK, Chans
<1>2. Frames' BY FramesKept DEF IInv
<1> QED BY <1>1, <1>2

LEMMA TakeReceiptInv ==
    ASSUME IInv, NEW a \in Agents, TakeReceipt(a) PROVE IInv'
<1>0. /\ submit' = submit /\ got' = got /\ handed' = handed /\ seen' = seen /\ routing' = routing
      /\ guard' = guard /\ retry' = retry /\ accepted' = accepted /\ reached' = reached
      /\ told' = told /\ failed' = failed /\ breaks' = breaks /\ TakeFrame(a, "receipt")
    BY DEF TakeReceipt, sender
<1>m. PICK m \in Msgs : m = Head(toBus[a]).id
    BY <1>0, WireTaken
<1> DEFINE k == <<m, a>>
<1>1. /\ m \in Msgs /\ toBus' \in [Agents -> Seq(Frame)]
      /\ \A b \in Agents : Elems(toBus'[b]) \subseteq Elems(toBus[b])
      /\ \A b \in Agents : \A y : Once(toBus[b], y) => Once(toBus'[b], y)
      /\ k \in reached
    BY <1>0, <1>m, WireTaken DEF GoodWire
<1>2. \/ UNCHANGED <<pending, chan, cleared>>
      \/ /\ pending' = [pending EXCEPT ![k] = 0]
         /\ chan' = SendTo(chan, From[m], "receipt", m)
         /\ cleared' = [cleared EXCEPT ![k] = @ + 1]
    BY <1>m DEF TakeReceipt
<1>k. k[1] = m OBVIOUS
<1> HIDE DEF k
<1>3. k \in Keys /\ m \in accepted /\ From[m] \in Agents /\ HasReached(m)
    BY <1>1, <1>k, EnvelopeAssumption DEF IInv, TypeOK, Heard, HasReached
<1>4. Frames' /\ chan' \in Chans
    BY <1>0, <1>1, <1>2, <1>3, FramesSent, FramesUnsent DEF Proven
<1>5. pending' \in [Keys -> 0..MaxDelivery] /\ cleared' \in [Keys -> Nat]
    <2>1. 0 \in 0..MaxDelivery BY BoundAssumption
    <2>2. pending \in [Keys -> 0..MaxDelivery] /\ cleared \in [Keys -> Nat] BY DEF IInv, TypeOK
    <2>3. CASE UNCHANGED <<pending, chan, cleared>> BY <2>2, <2>3
    <2>4. CASE pending' = [pending EXCEPT ![k] = 0] /\ cleared' = [cleared EXCEPT ![k] = @ + 1]
        BY <1>3, <2>1, <2>2, <2>4
    <2> QED BY <1>2, <2>3, <2>4
<1>6. TypeOK' BY <1>0, <1>1, <1>4, <1>5 DEF IInv, TypeOK, Chans
<1>7. Wires' BY <1>0, <1>1, WiresKept DEF IInv
<1>8. Submits'
    <2>1. \A n \in Msgs : From[n] \in Agents BY EnvelopeAssumption
    <2> QED BY <1>0, <1>1, <2>1, NoNewCopy DEF IInv
<1> QED
    BY <1>0, <1>4, <1>6, <1>7, <1>8, RoutesKept, SeenKept, RetriesKept, LivesKept, HeardKept
    DEF IInv

LEMMA RememberType ==
    ASSUME seen \in Seq(Msgs), Len(seen) <= SeenCapacity, NEW m \in Msgs
    PROVE  /\ Remember(m) \in Seq(Msgs) /\ Len(Remember(m)) <= SeenCapacity
           /\ Elems(Remember(m)) \subseteq Elems(seen) \cup {m}
<1>0. SeenCapacity \in Nat \ {0} BY BoundAssumption
<1>1. CASE Len(seen) >= SeenCapacity
    <2>1. seen # <<>> /\ Remember(m) = Append(Tail(seen), m) BY <1>0, <1>1 DEF Remember
    <2>2. /\ Tail(seen) \in Seq(Msgs) /\ Elems(Tail(seen)) \subseteq Elems(seen)
        BY <2>1, TailElems
    <2>3. Len(Tail(seen)) = Len(seen) - 1 BY <2>1
    <2>4. /\ Append(Tail(seen), m) \in Seq(Msgs)
          /\ Elems(Append(Tail(seen), m)) = Elems(Tail(seen)) \cup {m}
        BY <2>2, AppendElems
    <2>5. Len(Append(Tail(seen), m)) = Len(Tail(seen)) + 1 BY <2>2
    <2> QED BY <1>0, <2>1, <2>2, <2>3, <2>4, <2>5
<1>2. CASE ~ (Len(seen) >= SeenCapacity)
    <2>1. Remember(m) = Append(seen, m) BY <1>2 DEF Remember
    <2>2. /\ Append(seen, m) \in Seq(Msgs) /\ Elems(Append(seen, m)) = Elems(seen) \cup {m}
        BY AppendElems
    <2>3. Len(Append(seen, m)) = Len(seen) + 1 BY <2>1
    <2> QED BY <1>0, <1>2, <2>1, <2>2, <2>3
<1> QED BY <1>1, <1>2

LEMMA TakeEnvelopeInv ==
    ASSUME IInv, NEW a \in Agents, TakeEnvelope(a) PROVE IInv'
<1>0. /\ submit' = submit /\ got' = got /\ handed' = handed
      /\ guard' = guard /\ pending' = pending /\ retry' = retry /\ reached' = reached
      /\ told' = told /\ cleared' = cleared /\ failed' = failed /\ breaks' = breaks
      /\ TakeFrame(a, "envelope")
    BY DEF TakeEnvelope, sender
<1>m. PICK m \in Msgs : m = Head(toBus[a]).id
    BY <1>0, WireTaken
<1>1. /\ m \in Msgs /\ toBus' \in [Agents -> Seq(Frame)]
      /\ \A b \in Agents : Elems(toBus'[b]) \subseteq Elems(toBus[b])
      /\ \A b \in Agents : \A y : Once(toBus[b], y) => Once(toBus'[b], y)
      /\ From[m] = a
    BY <1>0, <1>m, WireTaken DEF GoodWire
<1>2. /\ Env(m) \in Elems(toBus[a])
      /\ Once(toBus[a], Env(m)) => Env(m) \notin Elems(toBus'[a])
    <2>1. Head(toBus[a]) = Env(m)
        BY <1>0, <1>m, WireTaken DEF Env, Frame
    <2> QED BY <1>0, <2>1, WireTaken
<1>3. \/ /\ Seen(m) /\ chan' = SendTo(chan, a, "receipt", m)
         /\ UNCHANGED <<seen, routing, accepted>>
      \/ /\ ~ Seen(m) /\ seen' = Remember(m) /\ accepted' = accepted \cup {m}
         /\ routing' = [routing EXCEPT ![a] = [id |-> m, todo |-> To[m], track |-> FALSE]]
         /\ chan' = chan
    BY <1>m DEF TakeEnvelope
<1>4. Wires' BY <1>0, <1>1, WiresKept DEF IInv
<1>5. OnWire(m) /\ GoodSubmit(m) BY <1>1, <1>2 DEF OnWire, IInv, Submits
<1>6. CASE Seen(m) /\ chan' = SendTo(chan, a, "receipt", m) /\ UNCHANGED <<seen, routing, accepted>>
    <2>1. m \in accepted BY <1>6 DEF Seen, IInv, SeenAccepted, Elems
    <2>2. Proven(m) BY <1>5, <2>1 DEF GoodSubmit, Proven
    <2>3. Frames' /\ chan' \in Chans BY <1>0, <1>1, <1>6, <2>1, <2>2, FramesSent
    <2>4. TypeOK' BY <1>0, <1>1, <1>6, <2>3 DEF IInv, TypeOK, Chans
    <2>5. Submits'
        <3>1. \A n \in Msgs : From[n] \in Agents BY EnvelopeAssumption
        <3> QED BY <1>0, <1>1, <1>6, <3>1, NoNewCopy DEF IInv
    <2> QED
        BY <1>0, <1>4, <1>6, <2>3, <2>4, <2>5, RoutesKept, SeenKept, RetriesKept, LivesKept,
           HeardKept DEF IInv
<1>7. CASE /\ ~ Seen(m) /\ seen' = Remember(m) /\ accepted' = accepted \cup {m}
           /\ routing' = [routing EXCEPT ![a] = [id |-> m, todo |-> To[m], track |-> FALSE]]
           /\ chan' = chan
    <2>1. Frames' /\ chan' \in Chans BY <1>0, <1>7, FramesUnsent
    <2>2. /\ seen' \in Seq(Msgs) /\ Len(seen') <= SeenCapacity
          /\ Elems(seen') \subseteq Elems(seen) \cup {m}
        BY <1>1, <1>7, RememberType DEF IInv, TypeOK
    <2>3. SeenAccepted'
        <3>1. Elems(seen)' = Elems(seen') BY DEF Elems
        <3> QED BY <1>7, <2>2, <3>1 DEF IInv, SeenAccepted
    <2> DEFINE rec == [id |-> m, todo |-> To[m], track |-> FALSE]
    <2>4. /\ rec \in [id : Msgs, todo : Seq(Agents), track : BOOLEAN]
          /\ rec.id = m /\ rec.todo = To[m] /\ To[m] # <<>> /\ To[m] \in Seq(Agents)
        BY <1>1, EnvelopeAssumption
    <2>5. routing' = [routing EXCEPT ![a] = rec] BY <1>7
    <2> HIDE DEF rec
    <2>6. TypeOK'
        <3>1. routing' \in [Agents -> {Idle} \cup [id : Msgs, todo : Seq(Agents), track : BOOLEAN]]
            BY <2>4, <2>5 DEF IInv, TypeOK
        <3>2. accepted' \subseteq Msgs BY <1>1, <1>7 DEF IInv, TypeOK
        <3> QED BY <1>0, <1>1, <2>1, <2>2, <3>1, <3>2 DEF IInv, TypeOK, Chans
    <2>7. Submits'
        <3> SUFFICES ASSUME NEW n \in Msgs PROVE GoodSubmit(n)'
            BY DEF Submits
        <3>0. GoodSubmit(n) /\ From[n] \in Agents
            BY EnvelopeAssumption DEF IInv, Submits
        <3>1. OnWire(n)' => OnWire(n)
            <4>1. OnWire(n)' <=> Env(n) \in Elems(toBus'[From[n]]) BY DEF OnWire, Elems, Env
            <4> QED BY <1>1, <3>0, <4>1 DEF OnWire
        <3>2. Once(toBus[From[n]], Env(n)) => Once(toBus[From[n]], Env(n))'
            <4>1. Once(toBus'[From[n]], Env(n)) <=> Once(toBus[From[n]], Env(n))' BY DEF Once, Env
            <4> QED BY <1>1, <3>0, <4>1
        <3>3. Proven(n)' <=> Proven(n) BY <1>0 DEF Proven, HasReached
        <3>4. CASE n = m
            <4>1. submit[m].tries = 1 => ~ OnWire(m)'
                <5>1. OnWire(m)' <=> Env(m) \in Elems(toBus'[From[m]]) BY DEF OnWire, Elems, Env
                <5> QED BY <1>1, <1>2, <1>5, <5>1 DEF GoodSubmit
            <4>2. m \in accepted' BY <1>7
            <4> QED BY <1>0, <1>5, <3>0, <3>2, <3>3, <3>4, <4>1, <4>2 DEF GoodSubmit
        <3>5. CASE n # m
            <4>1. n \in accepted' <=> n \in accepted BY <1>7, <3>5
            <4> QED BY <1>0, <3>0, <3>1, <3>2, <3>3, <4>1 DEF GoodSubmit
        <3> QED BY <3>4, <3>5
    <2>8. Routes'
        <3>1. GoodRoute(a)'
            <4>1. \A r \in Elems(To[m]) : <<m, r>> \in Keys
                BY <1>1, <2>4 DEF Keys, Elems
            <4>2. routing'[a] = rec BY <2>5 DEF IInv, TypeOK
            <4>3. Elems(routing[a].todo)' = Elems(routing'[a].todo) BY DEF Elems
            <4> QED BY <1>1, <1>7, <2>4, <4>1, <4>2, <4>3 DEF GoodRoute
        <3>2. \A b \in Agents : b # a => routing'[b] = routing[b] BY <2>5
        <3> QED BY <1>7, <3>1, <3>2, RoutesKept DEF IInv
    <2>9. Retries' /\ Lives' /\ Heard'
        BY <1>0, <1>7, RetriesKept, LivesKept, HeardKept DEF IInv
    <2> QED BY <1>4, <2>1, <2>3, <2>6, <2>7, <2>8, <2>9 DEF IInv
<1> QED BY <1>3, <1>6, <1>7

-------------------------------------------------------------------------------
(* Routing and redelivery. *)

GoodChans(ch) ==
    ch \in Chans /\ \A b \in Agents : \A f \in Elems(ch[b].out) : GoodFrame(f, b)

LEMMA SentGood ==
    ASSUME NEW ch, GoodChans(ch), NEW a \in Agents, NEW m \in accepted, m \in Msgs,
           NEW type \in {"envelope"} \cup Errors, type = "envelope" => <<m, a>> \in Keys
    PROVE  GoodChans(SendTo(ch, a, type, m))
<1> DEFINE g == [type |-> type, id |-> m]
<1>1. g.type = type /\ g.id = m OBVIOUS
<1>2. GoodFrame(g, a) BY <1>1 DEF GoodFrame, Errors
<1> HIDE DEF g
<1>3. /\ SendTo(ch, a, type, m) \in Chans
      /\ \A b \in Agents : \A f \in Elems(SendTo(ch, a, type, m)[b].out) :
             f \in Elems(ch[b].out) \/ (b = a /\ f = g)
    BY SendToEffect DEF GoodChans, g
<1> QED BY <1>2, <1>3 DEF GoodChans

LEMMA FramesGood ==
    ASSUME IInv, GoodChans(chan'), submit' = submit, reached' = reached, accepted' = accepted
    PROVE  Frames' /\ chan' \in Chans
<1>1. \A a \in Agents : \A f \in Elems(chan'[a].out) : GoodFrame(f, a)'
    BY DEF GoodChans, GoodFrame, Proven, HasReached
<1>2. Frames' BY <1>1, FramesKept DEF IInv
<1> QED BY <1>2 DEF GoodChans

LEMMA ChanGood ==
    ASSUME IInv
    PROVE  GoodChans(chan)
BY DEF IInv, TypeOK, Chans, Frames, GoodChans

Jobs == [id : Msgs, todo : Seq(Agents), track : BOOLEAN]

LEMMA Routing ==
    ASSUME IInv, NEW a \in Agents, routing[a] # Idle
    PROVE  /\ routing \in [Agents -> {Idle} \cup Jobs] /\ routing[a] \in Jobs
           /\ routing[a].id \in accepted /\ routing[a].id \in Msgs /\ From[routing[a].id] = a
           /\ routing[a].todo \in Seq(Agents) /\ routing[a].todo # <<>>
           /\ Head(routing[a].todo) \in Agents
           /\ <<routing[a].id, Head(routing[a].todo)>> \in Keys
           /\ \A r \in Elems(routing[a].todo) : <<routing[a].id, r>> \in Keys
<1>1. GoodRoute(a) /\ routing \in [Agents -> {Idle} \cup Jobs]
    BY DEF IInv, Routes, TypeOK, Jobs
<1>2. routing[a] \in Jobs /\ routing[a].todo \in Seq(Agents) /\ routing[a].todo # <<>>
    BY <1>1 DEF GoodRoute, Jobs
<1>3. Head(routing[a].todo) \in Agents /\ Head(routing[a].todo) \in Elems(routing[a].todo)
    BY <1>2, TailElems
<1> QED BY <1>1, <1>2, <1>3 DEF GoodRoute, Jobs

LEMMA AdvanceGood ==
    ASSUME IInv, NEW a \in Agents, routing[a] # Idle, accepted' = accepted,
           routing' = Advance(a) \/ routing' = [routing EXCEPT ![a].track = TRUE]
    PROVE  Routes' /\ routing' \in [Agents -> {Idle} \cup Jobs]
<1>1. /\ routing \in [Agents -> {Idle} \cup Jobs] /\ routing[a] \in Jobs
      /\ routing[a].id \in accepted /\ From[routing[a].id] = a
      /\ routing[a].todo \in Seq(Agents) /\ routing[a].todo # <<>>
      /\ \A r \in Elems(routing[a].todo) : <<routing[a].id, r>> \in Keys
    BY Routing
<1>2. \/ routing' = [routing EXCEPT ![a] = Idle]
      \/ /\ Len(routing[a].todo) # 1
         /\ routing' = [routing EXCEPT ![a].todo = Tail(@), ![a].track = FALSE]
      \/ routing' = [routing EXCEPT ![a].track = TRUE]
    BY DEF Advance
<1>3. CASE routing' = [routing EXCEPT ![a] = Idle]
    <2>1. /\ routing' \in [Agents -> {Idle} \cup Jobs] /\ routing'[a] = Idle
          /\ \A b \in Agents : b # a => routing'[b] = routing[b]
        BY <1>1, <1>3
    <2>2. GoodRoute(a)' BY <2>1 DEF GoodRoute, Idle
    <2> QED BY <2>1, <2>2, RoutesKept DEF IInv
<1>4. ASSUME NEW todo \in Seq(Agents), NEW track \in BOOLEAN, todo # <<>>,
             Elems(todo) \subseteq Elems(routing[a].todo),
             routing' = [routing EXCEPT ![a] =
                            [id |-> routing[a].id, todo |-> todo, track |-> track]]
      PROVE  Routes' /\ routing' \in [Agents -> {Idle} \cup Jobs]
    <2> DEFINE job == [id |-> routing[a].id, todo |-> todo, track |-> track]
    <2>1. job \in Jobs /\ job.id = routing[a].id /\ job.todo = todo BY <1>1 DEF Jobs
    <2>2. routing' = [routing EXCEPT ![a] = job] BY <1>4
    <2> HIDE DEF job
    <2>3. /\ routing' \in [Agents -> {Idle} \cup Jobs] /\ routing'[a] = job
          /\ \A b \in Agents : b # a => routing'[b] = routing[b]
        BY <1>1, <2>1, <2>2
    <2>4. GoodRoute(a)'
        <3>1. Elems(routing[a].todo)' = Elems(routing'[a].todo) BY DEF Elems
        <3> QED BY <1>1, <1>4, <2>1, <2>3, <3>1 DEF GoodRoute, Jobs
    <2> QED BY <2>3, <2>4, RoutesKept DEF IInv
<1>5. CASE routing' = [routing EXCEPT ![a].track = TRUE]
    <2>1. routing' = [routing EXCEPT ![a] =
                        [id |-> routing[a].id, todo |-> routing[a].todo, track |-> TRUE]]
        BY <1>1, <1>5 DEF Jobs
    <2> QED BY <1>1, <1>4, <2>1
<1>6. CASE /\ Len(routing[a].todo) # 1
           /\ routing' = [routing EXCEPT ![a].todo = Tail(@), ![a].track = FALSE]
    <2>1. /\ Tail(routing[a].todo) \in Seq(Agents)
          /\ Elems(Tail(routing[a].todo)) \subseteq Elems(routing[a].todo)
        BY <1>1, TailElems
    <2>2. Tail(routing[a].todo) # <<>>
        BY <1>1, <1>6, LongTail
    <2>3. routing' = [routing EXCEPT ![a] =
                        [id |-> routing[a].id, todo |-> Tail(routing[a].todo), track |-> FALSE]]
        BY <1>1, <1>6 DEF Jobs
    <2> QED BY <1>4, <2>1, <2>2, <2>3
<1> QED BY <1>2, <1>3, <1>5, <1>6

LEMMA RouteOneInv ==
    ASSUME IInv, NEW a \in Agents, RouteOne(a) PROVE IInv'
<1>0. /\ submit' = submit /\ got' = got /\ handed' = handed /\ seen' = seen /\ toBus' = toBus
      /\ pending' = pending /\ retry' = retry /\ accepted' = accepted /\ reached' = reached
      /\ told' = told /\ cleared' = cleared /\ failed' = failed /\ breaks' = breaks
      /\ routing[a] # Idle
    BY DEF RouteOne, sender, history
<1>m. PICK m \in accepted : m = routing[a].id
    BY <1>0, Routing
<1>r. PICK r \in Agents : r = Head(routing[a].todo)
    BY <1>0, Routing
<1>1. m \in Msgs /\ <<m, r>> \in Keys
    BY <1>0, <1>m, <1>r, Routing
<1>2. /\ \/ chan' = SendTo(chan, a, "unknown_recipient", m)
         \/ chan' = SendTo(chan, a, "loop_blocked", m)
         \/ chan' = SendTo(chan, r, "envelope", m)
         \/ chan' = SendTo(SendTo(chan, r, "envelope", m), a, "unknown_recipient", m)
      /\ routing' = Advance(a) \/ routing' = [routing EXCEPT ![a].track = TRUE]
      /\ \/ guard' = guard
         \/ guard' = [guard EXCEPT ![CorrOf[m]] = Record(guard[CorrOf[m]], a, r, MaxRounds)]
    BY <1>m, <1>r DEF RouteOne
<1>3. GoodChans(chan')
    <2>1. GoodChans(chan) BY ChanGood
    <2>2. GoodChans(SendTo(chan, r, "envelope", m)) BY <1>1, <2>1, SentGood
    <2>3. {"unknown_recipient", "loop_blocked"} \subseteq Errors BY DEF Errors
    <2>4. GoodChans(SendTo(SendTo(chan, r, "envelope", m), a, "unknown_recipient", m))
        BY <1>1, <2>2, <2>3, SentGood
    <2>5. /\ GoodChans(SendTo(chan, a, "unknown_recipient", m))
          /\ GoodChans(SendTo(chan, a, "loop_blocked", m))
        BY <1>1, <2>1, <2>3, SentGood
    <2> QED BY <1>2, <2>2, <2>4, <2>5
<1>4. Frames' /\ chan' \in Chans BY <1>0, <1>3, FramesGood
<1>5. Routes' /\ routing' \in [Agents -> {Idle} \cup Jobs] BY <1>0, <1>2, AdvanceGood
<1>6. guard' \in [Corrs -> Guards]
    <2>1. guard \in [Corrs -> Guards] /\ CorrOf[m] \in Corrs
        BY <1>1 DEF IInv, TypeOK, Guards, Corrs
    <2>2. Record(guard[CorrOf[m]], a, r, MaxRounds) \in Guards BY <2>1, RecordType
    <2> QED BY <1>2, <2>1, <2>2
<1>7. TypeOK' BY <1>0, <1>4, <1>5, <1>6 DEF IInv, TypeOK, Chans, Jobs, Guards
<1> QED
    BY <1>0, <1>4, <1>5, <1>7, WiresKept, SubmitsKept, SeenKept, RetriesKept, LivesKept, HeardKept
    DEF IInv

Tasks == [attempt : 1..MaxDelivery, at : {"sleep", "send", "final", "ended"}]

\* What every retry task is after a send.
LEMMA AfterSendType ==
    ASSUME NEW n \in 1..MaxDelivery
    PROVE  /\ [attempt |-> n, at |-> AfterSend(n)] \in Tasks
           /\ AfterSend(n) = "sleep" => n < MaxDelivery
BY DEF AfterSend, Tasks

LEMMA TrackInv ==
    ASSUME IInv, NEW a \in Agents, Track(a) PROVE IInv'
<1>0. /\ submit' = submit /\ got' = got /\ handed' = handed /\ seen' = seen /\ toBus' = toBus
      /\ guard' = guard /\ chan' = chan /\ accepted' = accepted /\ reached' = reached
      /\ told' = told /\ cleared' = cleared /\ failed' = failed /\ breaks' = breaks
      /\ routing' = Advance(a) /\ routing[a] # Idle
    BY DEF Track, sender, history, Idle
<1>k. PICK k \in Keys : k = <<routing[a].id, Head(routing[a].todo)>>
    BY <1>0, Routing
<1>1. k[1] \in accepted
    BY <1>0, <1>k, Routing
<1> DEFINE e == [attempt |-> 1, at |-> AfterSend(1)]
<1>2. /\ pending' = [pending EXCEPT ![k] = 1]
      /\ retry' = [retry EXCEPT ![k] = Append(@, e)]
    BY <1>k DEF Track
<1>3. 1 \in 1..MaxDelivery /\ 1 \in 0..MaxDelivery BY BoundAssumption
<1>4. e \in Tasks /\ (e.at = "sleep" => e.attempt < MaxDelivery) BY <1>3, AfterSendType
<1> HIDE DEF e
<1>5. retry \in [Keys -> Seq(Tasks)] /\ retry[k] \in Seq(Tasks)
    BY DEF IInv, TypeOK, Tasks
<1>6. Append(retry[k], e) \in Seq(Tasks) BY <1>4, <1>5
<1>7. /\ retry' \in [Keys -> Seq(Tasks)] /\ retry'[k] = Append(retry[k], e)
      /\ \A l \in Keys : l # k => retry'[l] = retry[l]
    BY <1>2, <1>5, <1>6
<1>8. Retries'
    <2> SUFFICES ASSUME NEW l \in Keys
                 PROVE  /\ retry'[l] # <<>> => l[1] \in accepted
                        /\ \A i \in DOMAIN retry'[l] :
                               retry'[l][i].at = "sleep" => retry'[l][i].attempt < MaxDelivery
        BY <1>0 DEF Retries, Keys
    <2>1. CASE l # k BY <1>7, <2>1 DEF IInv, Retries
    <2>2. CASE l = k
        <3>1. /\ DOMAIN retry'[k] = 1..(Len(retry[k]) + 1) /\ DOMAIN retry[k] = 1..Len(retry[k])
              /\ Len(retry[k]) \in Nat /\ retry'[k][Len(retry[k]) + 1] = e
              /\ \A i \in 1..Len(retry[k]) : retry'[k][i] = retry[k][i]
            BY <1>4, <1>5, <1>7
        <3>2. \A i \in 1..(Len(retry[k]) + 1) : i \in 1..Len(retry[k]) \/ i = Len(retry[k]) + 1
            BY <3>1
        <3>3. \A i \in 1..Len(retry[k]) :
                  retry[k][i].at = "sleep" => retry[k][i].attempt < MaxDelivery
            BY <3>1 DEF IInv, Retries
        <3> QED BY <1>1, <1>4, <2>2, <3>1, <3>2, <3>3
    <2> QED BY <2>1, <2>2
<1>9. Frames' /\ chan' \in Chans BY <1>0, FramesUnsent
<1>10. Routes' /\ routing' \in [Agents -> {Idle} \cup Jobs] BY <1>0, AdvanceGood
<1>11. pending' \in [Keys -> 0..MaxDelivery] BY <1>2, <1>3 DEF IInv, TypeOK
<1>12. TypeOK' BY <1>0, <1>7, <1>9, <1>10, <1>11 DEF IInv, TypeOK, Chans, Jobs, Tasks
<1> QED
    BY <1>0, <1>8, <1>9, <1>10, <1>12, WiresKept, SubmitsKept, SeenKept, LivesKept, HeardKept
    DEF IInv

\* A retry task moves on.
LEMMA TaskMoves ==
    ASSUME IInv, NEW k \in Keys, NEW i \in DOMAIN retry[k], NEW e \in Tasks,
           retry' = [retry EXCEPT ![k][i] = e], accepted' = accepted,
           e.at = "sleep" => e.attempt < MaxDelivery
    PROVE  /\ Retries' /\ retry' \in [Keys -> Seq(Tasks)]
           /\ \A l \in Keys : Len(retry'[l]) = Len(retry[l])
<1>1. retry \in [Keys -> Seq(Tasks)] /\ retry[k] \in Seq(Tasks)
    BY DEF IInv, TypeOK, Tasks
<1>2. /\ retry'[k] = [retry[k] EXCEPT ![i] = e]
      /\ \A l \in Keys : l # k => retry'[l] = retry[l]
      /\ retry' = [retry EXCEPT ![k] = [retry[k] EXCEPT ![i] = e]]
    BY <1>1
<1>3. /\ [retry[k] EXCEPT ![i] = e] \in Seq(Tasks) /\ DOMAIN retry'[k] = DOMAIN retry[k]
      /\ Len([retry[k] EXCEPT ![i] = e]) = Len(retry[k])
    BY <1>1, <1>2
<1>4. retry' \in [Keys -> Seq(Tasks)] BY <1>1, <1>2, <1>3
<1>5. retry[k] # <<>> BY <1>1
<1>6. Retries'
    <2> SUFFICES ASSUME NEW l \in Keys
                 PROVE  /\ retry'[l] # <<>> => l[1] \in accepted
                        /\ \A j \in DOMAIN retry'[l] :
                               retry'[l][j].at = "sleep" => retry'[l][j].attempt < MaxDelivery
        BY DEF Retries, Keys
    <2>1. CASE l # k BY <1>2, <2>1 DEF IInv, Retries
    <2>2. CASE l = k
        <3>1. k[1] \in accepted BY <1>5 DEF IInv, Retries
        <3>2. ASSUME NEW j \in DOMAIN retry[k], retry'[k][j].at = "sleep"
              PROVE  retry'[k][j].attempt < MaxDelivery
            <4>1. CASE j = i BY <1>1, <1>2, <3>2, <4>1
            <4>2. CASE j # i
                <5>1. retry'[k][j] = retry[k][j] BY <1>1, <1>2, <4>2
                <5> QED BY <3>2, <5>1 DEF IInv, Retries
            <4> QED BY <4>1, <4>2
        <3> QED BY <1>3, <2>2, <3>1, <3>2
    <2> QED BY <2>1, <2>2
<1> QED BY <1>2, <1>3, <1>4, <1>6

LEMMA RetryTasks ==
    ASSUME IInv, NEW k \in Keys, NEW i \in DOMAIN retry[k]
    PROVE  /\ retry[k][i] \in Tasks /\ k[1] \in accepted /\ k[1] \in Msgs /\ k[2] \in Agents
           /\ retry[k][i].at = "sleep" => retry[k][i].attempt < MaxDelivery
           /\ k = <<k[1], k[2]>> /\ retry \in [Keys -> Seq(Tasks)]
<1>1. retry \in [Keys -> Seq(Tasks)] /\ retry[k] \in Seq(Tasks)
    BY DEF IInv, TypeOK, Tasks
<1>2. retry[k] # <<>> /\ retry[k][i] \in Tasks BY <1>1
<1>3. k[1] \in Msgs /\ k[2] \in Agents /\ k = <<k[1], k[2]>> BY DEF Keys
<1> QED BY <1>1, <1>2, <1>3 DEF IInv, Retries

LEMMA RetryWakeInv ==
    ASSUME IInv, NEW k \in Keys, NEW i \in DOMAIN retry[k], RetryWake(k, i) PROVE IInv'
<1>0. /\ submit' = submit /\ got' = got /\ handed' = handed /\ seen' = seen /\ toBus' = toBus
      /\ guard' = guard /\ chan' = chan /\ accepted' = accepted /\ reached' = reached
      /\ told' = told /\ cleared' = cleared /\ failed' = failed /\ breaks' = breaks
      /\ routing' = routing /\ retry[k][i].at = "sleep"
    BY DEF RetryWake, sender, history
<1>1. retry[k][i] \in Tasks /\ retry[k][i].attempt < MaxDelivery BY <1>0, RetryTasks
<1>2. retry \in [Keys -> Seq(Tasks)] BY RetryTasks
<1>3. pending \in [Keys -> 0..MaxDelivery] BY DEF IInv, TypeOK
<1>4. PICK e \in Tasks :
          /\ retry' = [retry EXCEPT ![k][i] = e] /\ e.at # "sleep"
          /\ pending' \in [Keys -> 0..MaxDelivery]
    <2>1. CASE pending[k] = 0
        <3> DEFINE e == [retry[k][i] EXCEPT !.at = "ended"]
        <3>1. e \in Tasks /\ e.at = "ended" BY <1>1 DEF Tasks
        <3>2. retry' = [retry EXCEPT ![k][i] = e] BY <1>2, <2>1 DEF RetryWake
        <3>3. pending' = pending BY <2>1 DEF RetryWake
        <3> HIDE DEF e
        <3> QED BY <1>3, <3>1, <3>2, <3>3
    <2>2. CASE pending[k] # 0
        <3> DEFINE e == [attempt |-> retry[k][i].attempt + 1, at |-> "send"]
        <3>1. e \in Tasks /\ e.at = "send" BY <1>1, BoundAssumption DEF Tasks
        <3>2. retry' = [retry EXCEPT ![k][i] = e] BY <1>2, <2>2 DEF RetryWake
        <3>3. pending' = [pending EXCEPT ![k] = retry[k][i].attempt + 1] BY <2>2 DEF RetryWake
        <3>4. retry[k][i].attempt + 1 \in 0..MaxDelivery BY <1>1, BoundAssumption DEF Tasks
        <3>5. pending' \in [Keys -> 0..MaxDelivery] BY <1>3, <3>3, <3>4
        <3> HIDE DEF e
        <3> QED BY <3>1, <3>2, <3>5
    <2> QED BY <2>1, <2>2
<1>5. Retries' /\ retry' \in [Keys -> Seq(Tasks)] BY <1>0, <1>4, TaskMoves
<1>6. Frames' /\ chan' \in Chans BY <1>0, FramesUnsent
<1>7. TypeOK' BY <1>0, <1>4, <1>5, <1>6 DEF IInv, TypeOK, Chans, Tasks
<1> QED
    BY <1>0, <1>5, <1>6, <1>7, WiresKept, SubmitsKept, RoutesKept, SeenKept, LivesKept, HeardKept
    DEF IInv

LEMMA RetrySendInv ==
    ASSUME IInv, NEW k \in Keys, NEW i \in DOMAIN retry[k], RetrySend(k, i) PROVE IInv'
<1>0. /\ submit' = submit /\ got' = got /\ handed' = handed /\ seen' = seen /\ toBus' = toBus
      /\ guard' = guard /\ pending' = pending /\ accepted' = accepted /\ reached' = reached
      /\ told' = told /\ cleared' = cleared /\ failed' = failed /\ breaks' = breaks
      /\ routing' = routing /\ chan' = SendTo(chan, k[2], "envelope", k[1])
      /\ retry' = [retry EXCEPT ![k][i].at = AfterSend(retry[k][i].attempt)]
    BY DEF RetrySend, sender, history
<1>1. /\ retry[k][i] \in Tasks /\ k[1] \in accepted /\ k[1] \in Msgs /\ k[2] \in Agents
      /\ k = <<k[1], k[2]>> /\ retry \in [Keys -> Seq(Tasks)]
    BY RetryTasks
<1> DEFINE n == retry[k][i].attempt
<1> DEFINE e == [attempt |-> n, at |-> AfterSend(n)]
<1>2. e \in Tasks /\ (e.at = "sleep" => e.attempt < MaxDelivery)
    <2>1. n \in 1..MaxDelivery BY <1>1 DEF Tasks
    <2> HIDE DEF n
    <2> QED BY <2>1, AfterSendType
<1>3. e = [retry[k][i] EXCEPT !.at = AfterSend(n)] BY <1>1 DEF Tasks
<1>4. retry' = [retry EXCEPT ![k][i] = e] BY <1>0, <1>1, <1>3
<1> HIDE DEF e
<1>5. Retries' /\ retry' \in [Keys -> Seq(Tasks)] BY <1>0, <1>2, <1>4, TaskMoves
<1>6. Frames' /\ chan' \in Chans
    <2>1. GoodChans(chan') BY <1>0, <1>1, ChanGood, SentGood
    <2> QED BY <1>0, <2>1, FramesGood
<1>7. TypeOK' BY <1>0, <1>5, <1>6 DEF IInv, TypeOK, Chans, Tasks
<1> QED
    BY <1>0, <1>5, <1>6, <1>7, WiresKept, SubmitsKept, RoutesKept, SeenKept, LivesKept, HeardKept
    DEF IInv

LEMMA RetryFinalInv ==
    ASSUME IInv, NEW k \in Keys, NEW i \in DOMAIN retry[k], RetryFinal(k, i) PROVE IInv'
<1>0. /\ submit' = submit /\ got' = got /\ handed' = handed /\ seen' = seen /\ toBus' = toBus
      /\ guard' = guard /\ accepted' = accepted /\ reached' = reached
      /\ told' = told /\ cleared' = cleared /\ breaks' = breaks
      /\ routing' = routing /\ retry' = [retry EXCEPT ![k][i].at = "ended"]
      /\ \/ UNCHANGED <<pending, chan, failed>>
         \/ /\ pending' = [pending EXCEPT ![k] = 0]
            /\ chan' = SendTo(chan, From[k[1]], "delivery_failed", k[1])
            /\ failed' = [failed EXCEPT ![k] = @ + 1]
    BY DEF RetryFinal, sender, history
<1>1. /\ retry[k][i] \in Tasks /\ k[1] \in accepted /\ k[1] \in Msgs /\ k[2] \in Agents
      /\ k = <<k[1], k[2]>> /\ retry \in [Keys -> Seq(Tasks)] /\ From[k[1]] \in Agents
    BY RetryTasks, EnvelopeAssumption
<1> DEFINE e == [retry[k][i] EXCEPT !.at = "ended"]
<1>2. e \in Tasks /\ e.at = "ended" BY <1>1 DEF Tasks
<1>3. retry' = [retry EXCEPT ![k][i] = e] BY <1>0, <1>1
<1> HIDE DEF e
<1>4. Retries' /\ retry' \in [Keys -> Seq(Tasks)] 
    <2>1. accepted' = accepted /\ e.at # "sleep" BY <1>0, <1>2
    <2> QED BY <1>2, <1>3, <2>1, TaskMoves
<1>5. Frames' /\ chan' \in Chans
    <2>1. GoodChans(chan) BY ChanGood
    <2>2. "delivery_failed" \in Errors BY DEF Errors
    <2>3. GoodChans(SendTo(chan, From[k[1]], "delivery_failed", k[1])) BY <1>1, <2>1, <2>2, SentGood
    <2>4. GoodChans(chan') BY <1>0, <2>1, <2>3
    <2> QED BY <1>0, <2>4, FramesGood
<1>6. pending' \in [Keys -> 0..MaxDelivery] /\ failed' \in [Keys -> Nat]
    <2>1. 0 \in 0..MaxDelivery BY BoundAssumption
    <2>2. pending \in [Keys -> 0..MaxDelivery] /\ failed \in [Keys -> Nat] BY DEF IInv, TypeOK
    <2>3. CASE UNCHANGED <<pending, chan, failed>> BY <2>2, <2>3
    <2>4. CASE pending' = [pending EXCEPT ![k] = 0] /\ failed' = [failed EXCEPT ![k] = @ + 1]
        BY <2>1, <2>2, <2>4
    <2> QED BY <1>0, <2>3, <2>4
<1>7. TypeOK' BY <1>0, <1>4, <1>5, <1>6 DEF IInv, TypeOK, Chans, Tasks
<1> QED
    BY <1>0, <1>4, <1>5, <1>7, WiresKept, SubmitsKept, RoutesKept, SeenKept, LivesKept, HeardKept
    DEF IInv

-------------------------------------------------------------------------------
(* Connections end and are replaced. *)

\* A life ends: what its reader loop knew is gone, and so is the count.
LEMMA ForgetLives ==
    ASSUME IInv, NEW a \in Agents, Forget(a), reached' = reached
    PROVE  Lives' /\ handed' \in [Keys -> Nat] /\ got' \in [Agents -> SUBSET Msgs]
<1>1. /\ handed' = [k \in Keys |-> IF k[2] = a THEN 0 ELSE handed[k]]
      /\ got' = [got EXCEPT ![a] = {}]
    BY DEF Forget
<1>2. handed \in [Keys -> Nat] /\ got \in [Agents -> SUBSET Msgs] /\ Lives
    BY DEF IInv, TypeOK
<1>3. \A k \in Keys : k[2] \in Agents BY DEF Keys
<1> QED BY <1>1, <1>2, <1>3 DEF Lives

LEMMA DieInv ==
    ASSUME IInv, NEW a \in Agents, Die(a) PROVE IInv'
<1>0. /\ submit' = submit /\ toBus' = toBus /\ seen' = seen /\ routing' = routing
      /\ guard' = guard /\ pending' = pending /\ retry' = retry /\ accepted' = accepted
      /\ reached' = reached /\ told' = told /\ cleared' = cleared /\ failed' = failed
      /\ breaks' = breaks /\ Forget(a)
      /\ chan' = [chan EXCEPT ![a] = [link |-> "dead", out |-> <<>>]]
    BY DEF Die, bus, history
<1>1. chan \in Chans BY DEF IInv, TypeOK, Chans
<1>2. /\ chan' \in Chans /\ chan'[a].out = <<>>
      /\ \A b \in Agents : b # a => chan'[b] = chan[b]
    BY <1>0, <1>1 DEF Chans, Link
<1>3. Frames' BY <1>0, <1>2, EmptyElems, FramesKept DEF IInv
<1>4. Lives' /\ handed' \in [Keys -> Nat] /\ got' \in [Agents -> SUBSET Msgs]
    BY <1>0, ForgetLives
<1>5. TypeOK' BY <1>0, <1>2, <1>4 DEF IInv, TypeOK, Chans
<1> QED
    BY <1>0, <1>3, <1>4, <1>5, WiresKept, SubmitsKept, RoutesKept, SeenKept, RetriesKept,
       HeardKept DEF IInv

LEMMA UnregisterInv ==
    ASSUME IInv, NEW a \in Agents, Unregister(a) PROVE IInv'
<1>0. /\ submit' = submit /\ seen' = seen /\ routing' = routing
      /\ guard' = guard /\ pending' = pending /\ retry' = retry /\ accepted' = accepted
      /\ reached' = reached /\ told' = told /\ cleared' = cleared /\ failed' = failed
      /\ Forget(a)
      /\ chan' = [chan EXCEPT ![a].link = "down"]
      /\ toBus' = [toBus EXCEPT ![a] = <<>>]
      /\ breaks' = [breaks EXCEPT ![a] = @ + 1]
    BY DEF Unregister, bus
<1>1. /\ chan \in Chans /\ toBus \in [Agents -> Seq(Frame)] /\ breaks \in [Agents -> Nat]
    BY DEF IInv, TypeOK, Chans
<1>2. /\ chan' \in Chans /\ \A b \in Agents : chan'[b].out = chan[b].out
    BY <1>0, <1>1 DEF Chans, Link
<1>3. /\ toBus' \in [Agents -> Seq(Frame)] /\ toBus'[a] = <<>>
      /\ \A b \in Agents : b # a => toBus'[b] = toBus[b]
    BY <1>0, <1>1
<1>4. Frames' BY <1>0, <1>2, FramesKept DEF IInv
<1>5. Wires' BY <1>0, <1>3, EmptyElems, WiresKept DEF IInv
<1>6. Submits'
    <2>1. ASSUME NEW n \in Msgs
          PROVE  /\ Env(n) \in Elems(toBus'[From[n]]) => Env(n) \in Elems(toBus[From[n]])
                 /\ Once(toBus[From[n]], Env(n)) => Once(toBus'[From[n]], Env(n))
        <3>1. From[n] \in Agents BY EnvelopeAssumption
        <3>2. CASE From[n] = a BY <1>3, <3>2, EmptyElems
        <3>3. CASE From[n] # a BY <1>3, <3>1, <3>3
        <3> QED BY <3>2, <3>3
    <2> QED BY <1>0, <2>1, NoNewCopy DEF IInv
<1>7. Lives' /\ handed' \in [Keys -> Nat] /\ got' \in [Agents -> SUBSET Msgs]
    BY <1>0, ForgetLives
<1>8. breaks' \in [Agents -> Nat] BY <1>0, <1>1
<1>9. TypeOK' BY <1>0, <1>2, <1>3, <1>7, <1>8 DEF IInv, TypeOK, Chans
<1> QED
    BY <1>0, <1>4, <1>5, <1>6, <1>7, <1>9, RoutesKept, SeenKept, RetriesKept, HeardKept DEF IInv

LEMMA ReconnectInv ==
    ASSUME IInv, NEW a \in Agents, Reconnect(a) PROVE IInv'
<1>0. /\ toBus' = toBus /\ got' = got /\ handed' = handed /\ seen' = seen /\ routing' = routing
      /\ guard' = guard /\ pending' = pending /\ retry' = retry /\ accepted' = accepted
      /\ reached' = reached /\ told' = told /\ cleared' = cleared /\ failed' = failed
      /\ breaks' = breaks
      /\ chan' = [chan EXCEPT ![a] = [link |-> "up", out |-> <<>>]]
      /\ submit' = [m \in Msgs |->
             IF From[m] = a /\ submit[m].at \in {"waiting", "backoff"}
             THEN [submit[m] EXCEPT !.at = "broken"] ELSE submit[m]]
    BY DEF Reconnect, bus, history
<1>1. chan \in Chans /\ submit \in [Msgs -> Calls] /\ accepted \subseteq Msgs
    BY DEF IInv, TypeOK, Chans, Calls
<1>2. /\ chan' \in Chans /\ chan'[a].out = <<>>
      /\ \A b \in Agents : b # a => chan'[b] = chan[b]
    BY <1>0, <1>1 DEF Chans, Link
<1>3. ASSUME NEW m \in Msgs
      PROVE  \/ submit'[m] = submit[m]
             \/ /\ submit[m].at \in {"waiting", "backoff"} /\ submit'[m] \in Calls
                /\ submit'[m].at = "broken" /\ submit'[m].tries = submit[m].tries
    BY <1>0, <1>1 DEF Calls
<1>4. \A m \in Msgs : submit'[m] \in Calls /\ submit'[m].tries = submit[m].tries
    BY <1>1, <1>3
<1>5. Frames' BY <1>0, <1>1, <1>2, <1>4, EmptyElems, FramesKept DEF IInv
<1>6. Submits'
    <2>1. ASSUME NEW m \in Msgs, submit'[m] # submit[m] PROVE GoodSubmit(m)'
        <3>1. GoodSubmit(m) BY DEF IInv, Submits
        <3>2. /\ submit'[m].at = "broken" /\ submit'[m].tries = submit[m].tries
            BY <1>3, <2>1
        <3>3. OnWire(m)' <=> OnWire(m) BY <1>0 DEF OnWire, Elems
        <3>4. Once(toBus[From[m]], Env(m))' <=> Once(toBus[From[m]], Env(m))
            BY <1>0 DEF Once, Env
        <3> QED BY <1>0, <3>1, <3>2, <3>3, <3>4 DEF GoodSubmit
    <2> QED BY <1>0, <2>1, SubmitsKept DEF IInv
<1>7. submit' \in [Msgs -> Calls] BY <1>0, <1>4
<1>8. TypeOK' BY <1>0, <1>2, <1>7 DEF IInv, TypeOK, Chans, Calls
<1> QED
    BY <1>0, <1>5, <1>6, <1>8, WiresKept, RoutesKept, SeenKept, RetriesKept, LivesKept, HeardKept
    DEF IInv

LEMMA StutterInv ==
    ASSUME IInv, UNCHANGED vars PROVE IInv'
<1>0. /\ toBus' = toBus /\ got' = got /\ handed' = handed /\ seen' = seen /\ routing' = routing
      /\ guard' = guard /\ pending' = pending /\ retry' = retry /\ accepted' = accepted
      /\ reached' = reached /\ told' = told /\ cleared' = cleared /\ failed' = failed
      /\ breaks' = breaks /\ chan' = chan /\ submit' = submit
    BY DEF vars, sender, bus, history
<1>1. TypeOK' BY <1>0 DEF IInv, TypeOK
<1>2. Frames' BY <1>0, FramesUnsent
<1> QED
    BY <1>0, <1>1, <1>2, WiresKept, SubmitsKept, RoutesKept, SeenKept, RetriesKept, LivesKept,
       HeardKept DEF IInv

\* The disjuncts of a step.
LEMMA Steps ==
    ASSUME Next
    PROVE  \/ \E m \in Msgs : StartSend(m) \/ SendBestEffort(m) \/ ReceiptTimeout(m) \/ Resend(m)
           \/ \E a \in Agents : \/ ReadFrame(a) \/ TakeReceipt(a) \/ TakeEnvelope(a)
                                \/ RouteOne(a) \/ Track(a)
           \/ \E a \in Agents : Unregister(a) \/ Die(a) \/ Reconnect(a)
           \/ \E k \in Keys : \E i \in DOMAIN retry[k] :
                  RetryWake(k, i) \/ RetrySend(k, i) \/ RetryFinal(k, i)
BY DEF Next, Progress, Environment, BusStep, RetryStep

LEMMA StepInv == IInv /\ [Next]_vars => IInv'
<1> SUFFICES ASSUME IInv, [Next]_vars PROVE IInv'
    OBVIOUS
<1>1. CASE \E m \in Msgs : StartSend(m) \/ SendBestEffort(m) \/ ReceiptTimeout(m) \/ Resend(m)
    BY <1>1, StartSendInv, SendBestEffortInv, ReceiptTimeoutInv, ResendInv
<1>2. CASE \E a \in Agents : \/ ReadFrame(a) \/ TakeReceipt(a) \/ TakeEnvelope(a)
                             \/ RouteOne(a) \/ Track(a)
    BY <1>2, ReadFrameInv, TakeReceiptInv, TakeEnvelopeInv, RouteOneInv, TrackInv
<1>3. CASE \E a \in Agents : Unregister(a) \/ Die(a) \/ Reconnect(a)
    BY <1>3, UnregisterInv, DieInv, ReconnectInv
<1>4. CASE \E k \in Keys : \E i \in DOMAIN retry[k] :
               RetryWake(k, i) \/ RetrySend(k, i) \/ RetryFinal(k, i)
    BY <1>4, RetryWakeInv, RetrySendInv, RetryFinalInv
<1>5. CASE UNCHANGED vars BY <1>5, StutterInv
<1> QED BY <1>1, <1>2, <1>3, <1>4, <1>5, Steps

LEMMA SpecInv == Spec => []IInv
BY InitInv, StepInv, PTL DEF Spec

\* In every reachable state the queues, tables and calls of the bus and of its clients
\* have the types of routing.rs, state.rs and bus.rs; in particular the seen set never
\* grows past its capacity, nor the attempts of a delivery past the configured maximum.
THEOREM TypeCorrect == Spec => []TypeOK
<1>1. IInv => TypeOK BY DEF IInv
<1> QED BY <1>1, SpecInv, PTL

\* BusConn::send: Ok on the first attempt means that a recipient has the envelope,
\* whatever queues overflow and whichever connections break on the way.
THEOREM FirstTry == Spec => []FirstTryIsEndToEnd
<1>1. IInv => FirstTryIsEndToEnd
    BY DEF IInv, Submits, GoodSubmit, Proven, HasReached, FirstTryIsEndToEnd
<1> QED BY <1>1, SpecInv, PTL

-------------------------------------------------------------------------------
(* A pending delivery has a timer. *)

Alive(k) == \E i \in DOMAIN retry[k] : retry[k][i].at # "ended"

\* Nothing is left pending for ever: as long as a delivery is tracked, one of its retry
\* tasks has not ended and will resend or give up.  The tasks of overlapping hand-offs
\* share one entry of the pending map: the one that gives up takes the entry with it,
\* and a Receipt that comes between two attempts makes the others stop.  This is the
\* safety half of TrackedResolves.
PendingHasTimer == \A k \in Keys : pending[k] # 0 => Alive(k)

LEMMA TaskWorks ==
    ASSUME IInv, NEW k \in Keys, NEW i \in DOMAIN retry[k], NEW e \in Tasks,
           retry' = [retry EXCEPT ![k][i] = e], e.at # "ended" \/ pending'[k] = 0,
           \A l \in Keys : l # k => pending'[l] = pending[l], PendingHasTimer
    PROVE  PendingHasTimer'
<1>1. retry \in [Keys -> Seq(Tasks)] /\ retry[k] \in Seq(Tasks)
    BY DEF IInv, TypeOK, Tasks
<1>2. /\ retry'[k] = [retry[k] EXCEPT ![i] = e]
      /\ \A l \in Keys : l # k => retry'[l] = retry[l]
    BY <1>1
<1>3. i \in DOMAIN retry'[k] /\ retry'[k][i] = e BY <1>1, <1>2
<1>4. ASSUME NEW l \in Keys, pending'[l] # 0 PROVE Alive(l)'
    <2>1. CASE l = k BY <1>3, <1>4, <2>1 DEF Alive
    <2>2. CASE l # k BY <1>2, <1>4, <2>2 DEF Alive, PendingHasTimer
    <2> QED BY <2>1, <2>2
<1> QED BY <1>4 DEF PendingHasTimer, Keys

LEMMA TimersKept ==
    ASSUME PendingHasTimer, retry' = retry,
           \A k \in Keys : pending'[k] = pending[k] \/ pending'[k] = 0
    PROVE  PendingHasTimer'
BY DEF PendingHasTimer, Alive, Keys

LEMMA TrackTimer ==
    ASSUME IInv, PendingHasTimer, NEW a \in Agents, Track(a) PROVE PendingHasTimer'
<1>0. routing[a] # Idle BY DEF Track, Idle
<1>1. PICK k \in Keys : k = <<routing[a].id, Head(routing[a].todo)>>
    BY <1>0, Routing
<1> DEFINE e == [attempt |-> 1, at |-> AfterSend(1)]
<1>2. pending' = [pending EXCEPT ![k] = 1] /\ retry' = [retry EXCEPT ![k] = Append(@, e)]
    BY <1>1 DEF Track
<1>3. e \in Tasks /\ e.at # "ended"
    <2>1. 1 \in 1..MaxDelivery BY BoundAssumption
    <2> QED BY <2>1, AfterSendType DEF AfterSend
<1> HIDE DEF e
<1>4. /\ retry \in [Keys -> Seq(Tasks)] /\ retry[k] \in Seq(Tasks)
      /\ pending \in [Keys -> 0..MaxDelivery]
    BY <1>1 DEF IInv, TypeOK, Tasks
<1>5. /\ retry'[k] = Append(retry[k], e)
      /\ \A l \in Keys : l # k => retry'[l] = retry[l] /\ pending'[l] = pending[l]
    BY <1>1, <1>2, <1>4
<1>6. Len(retry[k]) + 1 \in DOMAIN retry'[k] /\ retry'[k][Len(retry[k]) + 1] = e
    BY <1>3, <1>4, <1>5
<1>7. ASSUME NEW l \in Keys, pending'[l] # 0 PROVE Alive(l)'
    <2>1. CASE l = k BY <1>3, <1>6, <2>1 DEF Alive
    <2>2. CASE l # k BY <1>5, <1>7, <2>2 DEF Alive, PendingHasTimer
    <2> QED BY <2>1, <2>2
<1> QED BY <1>7 DEF PendingHasTimer, Keys

LEMMA RetryTimer ==
    ASSUME IInv, PendingHasTimer, NEW k \in Keys, NEW i \in DOMAIN retry[k],
           RetryWake(k, i) \/ RetrySend(k, i) \/ RetryFinal(k, i)
    PROVE  PendingHasTimer'
<1>1. /\ retry \in [Keys -> Seq(Tasks)] /\ retry[k][i] \in Tasks
      /\ pending \in [Keys -> 0..MaxDelivery]
    BY RetryTasks DEF IInv, TypeOK
<1>2. retry[k][i].at = "sleep" => retry[k][i].attempt < MaxDelivery BY RetryTasks
<1>3. PICK e \in Tasks :
          /\ retry' = [retry EXCEPT ![k][i] = e]
          /\ e.at # "ended" \/ pending'[k] = 0
    <2>1. CASE RetryWake(k, i) /\ pending[k] = 0
        <3> DEFINE e == [retry[k][i] EXCEPT !.at = "ended"]
        <3>1. e \in Tasks BY <1>1 DEF Tasks
        <3>2. retry' = [retry EXCEPT ![k][i] = e] /\ pending' = pending
            BY <1>1, <2>1 DEF RetryWake
        <3> HIDE DEF e
        <3> QED BY <2>1, <3>1, <3>2
    <2>2. CASE RetryWake(k, i) /\ pending[k] # 0
        <3> DEFINE e == [attempt |-> retry[k][i].attempt + 1, at |-> "send"]
        <3>1. e \in Tasks /\ e.at # "ended" BY <1>1, <1>2, <2>2, BoundAssumption DEF Tasks, RetryWake
        <3>2. retry' = [retry EXCEPT ![k][i] = e] BY <1>1, <2>2 DEF RetryWake
        <3> HIDE DEF e
        <3> QED BY <3>1, <3>2
    <2>3. CASE RetrySend(k, i)
        <3> DEFINE n == retry[k][i].attempt
        <3> DEFINE e == [retry[k][i] EXCEPT !.at = AfterSend(n)]
        <3>1. n \in 1..MaxDelivery BY <1>1 DEF Tasks
        <3>2. AfterSend(n) \in {"sleep", "final"} BY DEF AfterSend
        <3>3. e \in Tasks /\ e.at # "ended" BY <1>1, <3>2 DEF Tasks
        <3>4. retry' = [retry EXCEPT ![k][i] = e] BY <1>1, <2>3 DEF RetrySend
        <3> HIDE DEF e
        <3> QED BY <3>3, <3>4
    <2>4. CASE RetryFinal(k, i)
        <3> DEFINE e == [retry[k][i] EXCEPT !.at = "ended"]
        <3>1. e \in Tasks BY <1>1 DEF Tasks
        <3>2. retry' = [retry EXCEPT ![k][i] = e] BY <1>1, <2>4 DEF RetryFinal
        <3>3. pending'[k] = 0 BY <1>1, <2>4 DEF RetryFinal, Exhausted
        <3> HIDE DEF e
        <3> QED BY <3>1, <3>2, <3>3
    <2> QED BY <2>1, <2>2, <2>3, <2>4
<1>4. \A l \in Keys : l # k => pending'[l] = pending[l]
    BY <1>1 DEF RetryWake, RetrySend, RetryFinal
<1> QED BY <1>3, <1>4, TaskWorks

LEMMA StepTimer == IInv /\ PendingHasTimer /\ [Next]_vars => PendingHasTimer'
<1> SUFFICES ASSUME IInv, PendingHasTimer, [Next]_vars PROVE PendingHasTimer'
    OBVIOUS
<1>1. CASE \E m \in Msgs : StartSend(m) \/ SendBestEffort(m) \/ ReceiptTimeout(m) \/ Resend(m)
    BY <1>1, TimersKept DEF StartSend, SendBestEffort, ReceiptTimeout, Resend, bus
<1>2. CASE \E a \in Agents : ReadFrame(a) \/ Die(a) \/ Unregister(a) \/ Reconnect(a)
    BY <1>2, TimersKept DEF ReadFrame, Die, Unregister, Reconnect, bus
<1>3. CASE \E a \in Agents : TakeEnvelope(a) \/ RouteOne(a)
    BY <1>3, TimersKept DEF TakeEnvelope, RouteOne
<1>4. ASSUME NEW a \in Agents, TakeReceipt(a) PROVE PendingHasTimer'
    <2>1. pending \in [Keys -> 0..MaxDelivery] BY DEF IInv, TypeOK
    <2>2. /\ retry' = retry
          /\ \/ pending' = pending
             \/ \E k : pending' = [pending EXCEPT ![k] = 0]
        BY <1>4 DEF TakeReceipt
    <2>3. \A k \in Keys : pending'[k] = pending[k] \/ pending'[k] = 0 BY <2>1, <2>2
    <2> QED BY <2>2, <2>3, TimersKept
<1>5. CASE UNCHANGED vars BY <1>5, TimersKept DEF vars, bus
<1> QED BY <1>1, <1>2, <1>3, <1>4, <1>5, TrackTimer, RetryTimer, Steps

THEOREM NoForgottenDelivery == Spec => []PendingHasTimer
<1>1. Init => PendingHasTimer BY DEF Init, PendingHasTimer
<1> QED BY <1>1, StepTimer, SpecInv, PTL DEF Spec

-------------------------------------------------------------------------------
(* The steps of the path are steps of the promise. *)

Confirmed == {m \in Msgs : submit[m].at = "ok"}
Refused == {e[2] : e \in told}
Open == {k \in Keys : pending[k] # 0}
Tracked == [k \in Keys |-> Len(retry[k])]
Kept == [Promise!Next]_(Promise!vars)

LEMMA SameCalls ==
    ASSUME \A m \in Msgs : submit'[m].at = "ok" <=> submit[m].at = "ok"
    PROVE  Confirmed' = Confirmed
BY DEF Confirmed

LEMMA SameErrors == ASSUME told' = told PROVE Refused' = Refused
BY DEF Refused

LEMMA SameWaits ==
    ASSUME \A k \in Keys : pending'[k] = 0 <=> pending[k] = 0
    PROVE  Open' = Open
BY DEF Open, Keys

LEMMA SameTasks ==
    ASSUME \A k \in Keys : Len(retry'[k]) = Len(retry[k])
    PROVE  Tracked' = Tracked
BY DEF Tracked, Keys

\* What leaves every part of the promise alone.
LEMMA Stutters ==
    ASSUME UNCHANGED <<accepted, told, handed, reached, cleared, failed>>,
           \A m \in Msgs : submit'[m].at = "ok" <=> submit[m].at = "ok",
           \A k \in Keys : pending'[k] = 0 <=> pending[k] = 0,
           \A k \in Keys : Len(retry'[k]) = Len(retry[k])
    PROVE  Kept
<1>1. UNCHANGED <<Confirmed, Refused, Open, Tracked>>
    BY SameCalls, SameErrors, SameWaits, SameTasks
<1>2. UNCHANGED Promise!vars
    BY <1>1 DEF Promise!vars, Confirmed, Refused, Open, Tracked
<1> QED BY <1>2 DEF Kept

LEMMA InitPromise == Init => Promise!Init
<1> SUFFICES ASSUME Init PROVE Promise!Init
    OBVIOUS
<1>1. \A m \in Msgs : submit[m].at # "ok" BY DEF Init
<1>2. told = {} /\ \A k \in Keys : pending[k] = 0 BY DEF Init
<1>3. [k \in Keys |-> Len(retry[k])] = [k \in Keys |-> 0]
    <2>1. \A k \in Keys : Len(retry[k]) = 0 BY DEF Init
    <2> QED BY <2>1
<1>4. {m \in Msgs : submit[m].at = "ok"} = {} BY <1>1
<1>5. {e[2] : e \in told} = {} BY <1>2
<1>6. {k \in Keys : pending[k] # 0} = {} BY <1>2
<1> QED BY <1>3, <1>4, <1>5, <1>6 DEF Promise!Init, Init

\* The calls of the sender move, but none to "ok".
LEMMA SenderStutters ==
    ASSUME IInv, NEW m \in Msgs,
           StartSend(m) \/ SendBestEffort(m) \/ ReceiptTimeout(m) \/ Resend(m)
    PROVE  Kept
<1>1. /\ UNCHANGED <<accepted, told, handed, reached, cleared, failed, pending, retry>>
      /\ submit[m].at \in {"idle", "waiting", "backoff"}
    BY DEF StartSend, SendBestEffort, ReceiptTimeout, Resend, bus, history
<1>2. \A n \in Msgs : submit'[n].at = "ok" <=> submit[n].at = "ok"
    <2>1. submit \in [Msgs -> Calls] BY DEF IInv, TypeOK, Calls
    <2>2. /\ \A n \in Msgs : n # m => submit'[n] = submit[n]
          /\ submit'[m].at # "ok"
        BY <2>1 DEF StartSend, SendBestEffort, ReceiptTimeout, Resend, Write, Calls
    <2> QED BY <1>1, <2>2
<1> QED BY <1>1, <1>2, Stutters

LEMMA ReadFrameKeeps ==
    ASSUME IInv, NEW a \in Agents, ReadFrame(a) PROVE Kept
<1> DEFINE f == Head(chan[a].out)
<1>f. f = Head(chan[a].out) OBVIOUS
<1> HIDE DEF f
<1>0. /\ UNCHANGED <<pending, retry, accepted, cleared, failed>> /\ chan[a].out # <<>>
    BY DEF ReadFrame, bus
<1>1. f \in Frame /\ GoodFrame(f, a)
    <2>1. chan[a].out \in Seq(Frame) BY DEF IInv, TypeOK
    <2> QED BY <1>f, <1>0, <2>1, TailElems DEF IInv, Frames
<1>m. PICK m \in Msgs : m = f.id BY <1>1 DEF Frame
<1>2. m \in accepted BY <1>1, <1>m DEF GoodFrame
<1>3. UNCHANGED <<Open, Tracked>> BY <1>0, SameWaits, SameTasks
<1>4. CASE /\ f.type = "receipt"
           /\ submit' = IF submit[f.id].at = "waiting"
                        THEN [submit EXCEPT ![f.id].at = "ok"] ELSE submit
           /\ UNCHANGED <<toBus, got, handed, reached, told>>
    <2>1. CASE submit[m].at = "waiting"
        <3>1. submit \in [Msgs -> Calls] BY DEF IInv, TypeOK, Calls
        <3>2. /\ submit'[m].at = "ok" /\ \A n \in Msgs : n # m => submit'[n] = submit[n]
            BY <1>4, <1>m, <2>1, <3>1 DEF Calls
        <3>3. Confirmed' = Confirmed \cup {m} BY <3>2 DEF Confirmed
        <3>4. Refused' = Refused BY <1>4, SameErrors
        <3>5. Promise!Confirm(m)
            BY <1>0, <1>2, <1>3, <1>4, <3>3, <3>4
            DEF Promise!Confirm, Confirmed, Refused, Open, Tracked
        <3> QED BY <3>5 DEF Kept, Promise!Next
    <2>2. CASE submit[m].at # "waiting"
        <3>1. submit' = submit BY <1>4, <1>m, <2>2
        <3> QED BY <1>0, <1>4, <3>1, Stutters
    <2> QED BY <2>1, <2>2
<1>5. CASE /\ f.type = "envelope"
           /\ got' = [got EXCEPT ![a] = @ \cup {f.id}]
           /\ handed' = IF IsNew(a, f.id) THEN [handed EXCEPT ![<<f.id, a>>] = @ + 1]
                        ELSE handed
           /\ reached' = reached \cup {<<f.id, a>>}
           /\ UNCHANGED <<submit, told>>
    <2>k. PICK k \in Keys : k = <<m, a>> BY <1>1, <1>5, <1>m DEF GoodFrame
    <2>1. k[1] = m /\ k[2] = a BY <2>k
    <2>2. UNCHANGED <<Confirmed, Refused>> BY <1>5, SameCalls, SameErrors
    <2>3. CASE IsNew(a, m)
        <3>1. handed[k] = 0 /\ handed \in [Keys -> Nat]
            BY <2>1, <2>3 DEF IInv, Lives, IsNew, TypeOK
        <3>2. handed' = [handed EXCEPT ![k] = 1] /\ reached' = reached \cup {k}
            BY <1>5, <1>m, <2>k, <2>3, <3>1
        <3>3. Promise!Hand(k)
            BY <1>0, <1>2, <1>3, <2>1, <2>2, <3>1, <3>2
            DEF Promise!Hand, Confirmed, Refused, Open, Tracked
        <3> QED BY <3>3 DEF Kept, Promise!Next
    <2>4. CASE ~ IsNew(a, m)
        <3>1. handed' = handed BY <1>5, <1>m, <2>4
        <3>2. k \in reached BY <2>k, <2>4 DEF IInv, Lives, IsNew
        <3>3. reached' = reached BY <1>5, <1>m, <2>k, <3>2
        <3> QED BY <1>0, <1>5, <3>1, <3>3, Stutters
    <2> QED BY <2>3, <2>4
<1>6. CASE /\ f.type \in Errors
           /\ told' = told \cup {<<f.type, f.id>>}
           /\ UNCHANGED <<toBus, sender, reached>>
    <2>1. submit' = submit /\ handed' = handed BY <1>6 DEF sender
    <2>2. Refused' = Refused \cup {m}
        <3> DEFINE e == <<f.type, f.id>>
        <3>1. e[2] = m /\ told' = told \cup {e} BY <1>6, <1>m
        <3> HIDE DEF e
        <3> QED BY <3>1 DEF Refused
    <2>3. Confirmed' = Confirmed BY <2>1, SameCalls
    <2>4. Promise!Refuse(m)
        BY <1>0, <1>2, <1>3, <1>6, <2>1, <2>2, <2>3
        DEF Promise!Refuse, Confirmed, Refused, Open, Tracked
    <2> QED BY <2>4 DEF Kept, Promise!Next
<1> QED BY <1>f, <1>4, <1>5, <1>6 DEF ReadFrame

LEMMA TakeReceiptKeeps ==
    ASSUME IInv, NEW a \in Agents, TakeReceipt(a) PROVE Kept
<1>0. /\ UNCHANGED <<submit, handed, retry, accepted, reached, told, failed>>
      /\ TakeFrame(a, "receipt")
    BY DEF TakeReceipt, sender
<1>m. PICK m \in Msgs : m = Head(toBus[a]).id
    BY <1>0, WireTaken
<1>1. <<m, a>> \in reached BY <1>0, <1>m, WireTaken DEF GoodWire
<1>k. PICK k \in reached : k = <<m, a>> BY <1>1
<1>2. k \in Keys /\ pending \in [Keys -> 0..MaxDelivery] BY DEF IInv, TypeOK
<1>3. CASE pending[k] # 0
    <2>1. /\ pending' = [pending EXCEPT ![k] = 0] /\ cleared' = [cleared EXCEPT ![k] = @ + 1]
        BY <1>m, <1>k, <1>3 DEF TakeReceipt
    <2>2. k \in Open /\ Open' = Open \ {k}
        BY <1>2, <1>3, <2>1 DEF Open
    <2>3. UNCHANGED <<Confirmed, Refused, Tracked>>
        BY <1>0, SameCalls, SameErrors, SameTasks
    <2>4. Promise!Clear(k)
        BY <1>0, <2>1, <2>2, <2>3 DEF Promise!Clear, Confirmed, Refused, Open, Tracked
    <2> QED BY <1>2, <2>4 DEF Kept, Promise!Next
<1>4. CASE pending[k] = 0
    <2>1. UNCHANGED <<pending, cleared>> BY <1>m, <1>k, <1>4 DEF TakeReceipt
    <2> QED BY <1>0, <2>1, Stutters
<1> QED BY <1>3, <1>4

LEMMA TakeEnvelopeKeeps ==
    ASSUME IInv, NEW a \in Agents, TakeEnvelope(a) PROVE Kept
<1>0. /\ UNCHANGED <<submit, handed, pending, retry, reached, told, cleared, failed>>
      /\ TakeFrame(a, "envelope")
    BY DEF TakeEnvelope, sender
<1>m. PICK m \in Msgs : m = Head(toBus[a]).id
    BY <1>0, WireTaken
<1>1. accepted' = accepted \/ accepted' = accepted \cup {m} BY <1>m DEF TakeEnvelope
<1>2. UNCHANGED <<Confirmed, Refused, Open, Tracked>>
    BY <1>0, SameCalls, SameErrors, SameWaits, SameTasks
<1>3. CASE accepted' = accepted BY <1>0, <1>3, Stutters
<1>4. CASE accepted' = accepted \cup {m}
    <2>1. Promise!Accept(m)
        BY <1>0, <1>2, <1>4 DEF Promise!Accept, Confirmed, Refused, Open, Tracked
    <2> QED BY <2>1 DEF Kept, Promise!Next
<1> QED BY <1>1, <1>3, <1>4

LEMMA TrackKeeps ==
    ASSUME IInv, NEW a \in Agents, Track(a) PROVE Kept
<1>0. /\ UNCHANGED <<submit, handed, accepted, reached, told, cleared, failed>> /\ routing[a] # Idle
    BY DEF Track, sender, history, Idle
<1>k. PICK k \in Keys : k = <<routing[a].id, Head(routing[a].todo)>>
    BY <1>0, Routing
<1>1. k[1] \in accepted BY <1>0, <1>k, Routing
<1>e. PICK e \in Tasks : e = [attempt |-> 1, at |-> AfterSend(1)]
    <2>1. 1 \in 1..MaxDelivery BY BoundAssumption
    <2> QED BY <2>1, AfterSendType
<1>2. /\ pending' = [pending EXCEPT ![k] = 1] /\ retry' = [retry EXCEPT ![k] = Append(@, e)]
    BY <1>k, <1>e DEF Track
<1>3. retry \in [Keys -> Seq(Tasks)] /\ pending \in [Keys -> 0..MaxDelivery]
    BY DEF IInv, TypeOK, Tasks
<1>4. Open' = Open \cup {k} BY <1>2, <1>3 DEF Open
<1>5. Tracked' = [Tracked EXCEPT ![k] = @ + 1]
    <2>1. Len(Append(retry[k], e)) = Len(retry[k]) + 1 BY <1>3
    <2>2. \A l \in Keys : Len(retry'[l]) = IF l = k THEN Len(retry[k]) + 1 ELSE Len(retry[l])
        BY <1>2, <1>3, <2>1
    <2> QED BY <2>2 DEF Tracked
<1>6. UNCHANGED <<Confirmed, Refused>> BY <1>0, SameCalls, SameErrors
<1>7. Promise!Track(k)
    BY <1>0, <1>1, <1>4, <1>5, <1>6 DEF Promise!Track, Confirmed, Refused, Open, Tracked
<1> QED BY <1>7 DEF Kept, Promise!Next

LEMMA RouteOneStutters ==
    ASSUME IInv, NEW a \in Agents, RouteOne(a) PROVE Kept
<1>1. UNCHANGED <<accepted, told, handed, reached, cleared, failed, submit, pending, retry>>
    BY DEF RouteOne, sender, history
<1> QED BY <1>1, Stutters

LEMMA LifeKeeps ==
    ASSUME IInv, NEW a \in Agents, Die(a) \/ Unregister(a) PROVE Kept
<1>0. /\ UNCHANGED <<submit, pending, retry, accepted, reached, told, cleared, failed>>
      /\ handed' = [k \in Keys |-> IF k[2] = a THEN 0 ELSE handed[k]]
    BY DEF Die, Unregister, Forget, bus, history
<1>1. UNCHANGED <<Confirmed, Refused, Open, Tracked>>
    BY <1>0, SameCalls, SameErrors, SameWaits, SameTasks
<1>2. Promise!NewLife(a)
    BY <1>0, <1>1 DEF Promise!NewLife, Confirmed, Refused, Open, Tracked
<1> QED BY <1>2 DEF Kept, Promise!Next

LEMMA ReconnectStutters ==
    ASSUME IInv, NEW a \in Agents, Reconnect(a) PROVE Kept
<1>1. UNCHANGED <<accepted, told, handed, reached, cleared, failed, pending, retry>>
    BY DEF Reconnect, bus, history
<1>2. \A m \in Msgs : submit'[m].at = "ok" <=> submit[m].at = "ok"
    <2>1. submit \in [Msgs -> Calls] BY DEF IInv, TypeOK, Calls
    <2> QED BY <2>1 DEF Reconnect, Calls
<1> QED BY <1>1, <1>2, Stutters

LEMMA RetryKeeps ==
    ASSUME IInv, NEW k \in Keys, NEW i \in DOMAIN retry[k],
           RetryWake(k, i) \/ RetrySend(k, i) \/ RetryFinal(k, i)
    PROVE  Kept
<1>0. UNCHANGED <<submit, handed, accepted, reached, told, cleared>>
    BY DEF RetryWake, RetrySend, RetryFinal, sender, history
<1>1. /\ retry \in [Keys -> Seq(Tasks)] /\ retry[k] \in Seq(Tasks)
      /\ pending \in [Keys -> 0..MaxDelivery] /\ retry[k][i] \in Tasks
    <2>1. retry \in [Keys -> Seq(Tasks)] /\ pending \in [Keys -> 0..MaxDelivery]
        BY DEF IInv, TypeOK, Tasks
    <2> QED BY <2>1, RetryTasks
<1>2. \A l \in Keys : Len(retry'[l]) = Len(retry[l])
    <2>1. \E e : retry' = [retry EXCEPT ![k][i] = e]
        <3>1. CASE RetryWake(k, i) BY <1>1, <3>1 DEF RetryWake
        <3>2. CASE RetrySend(k, i) BY <1>1, <3>2 DEF RetrySend
        <3>3. CASE RetryFinal(k, i) BY <1>1, <3>3 DEF RetryFinal
        <3> QED BY <3>1, <3>2, <3>3
    <2>2. PICK e : retry' = [retry EXCEPT ![k][i] = e] BY <2>1
    <2>3. retry' = [retry EXCEPT ![k] = [retry[k] EXCEPT ![i] = e]] BY <1>1, <2>2
    <2>4. Len([retry[k] EXCEPT ![i] = e]) = Len(retry[k]) BY <1>1
    <2> QED BY <1>1, <2>3, <2>4
<1>3. CASE RetryWake(k, i)
    <2>1. retry[k][i].attempt + 1 # 0 BY <1>1 DEF Tasks
    <2>2. failed' = failed /\ \A l \in Keys : pending'[l] = 0 <=> pending[l] = 0
        BY <1>1, <1>3, <2>1 DEF RetryWake, history
    <2> QED BY <1>0, <1>2, <2>2, Stutters
<1>4. CASE RetrySend(k, i)
    BY <1>0, <1>2, <1>4, Stutters DEF RetrySend, history
<1>5. CASE RetryFinal(k, i)
    <2>1. CASE pending[k] = 0
        <3>1. UNCHANGED <<pending, failed>> BY <1>5, <2>1 DEF RetryFinal, Exhausted
        <3> QED BY <1>0, <1>2, <3>1, Stutters
    <2>2. CASE pending[k] # 0
        <3>1. pending' = [pending EXCEPT ![k] = 0] /\ failed' = [failed EXCEPT ![k] = @ + 1]
            BY <1>5, <2>2 DEF RetryFinal, Exhausted
        <3>2. k \in Open /\ Open' = Open \ {k} BY <1>1, <2>2, <3>1 DEF Open
        <3>3. UNCHANGED <<Confirmed, Refused, Tracked>>
            BY <1>0, <1>2, SameCalls, SameErrors, SameTasks
        <3>4. Promise!Fail(k)
            BY <1>0, <3>1, <3>2, <3>3 DEF Promise!Fail, Confirmed, Refused, Open, Tracked
        <3> QED BY <3>4 DEF Kept, Promise!Next
    <2> QED BY <2>1, <2>2
<1> QED BY <1>3, <1>4, <1>5

LEMMA StepKeeps == IInv /\ [Next]_vars => Kept
<1> SUFFICES ASSUME IInv, [Next]_vars PROVE Kept
    OBVIOUS
<1>1. CASE \E m \in Msgs : StartSend(m) \/ SendBestEffort(m) \/ ReceiptTimeout(m) \/ Resend(m)
    BY <1>1, SenderStutters
<1>2. CASE \E a \in Agents : \/ ReadFrame(a) \/ TakeReceipt(a) \/ TakeEnvelope(a)
                             \/ RouteOne(a) \/ Track(a)
    BY <1>2, ReadFrameKeeps, TakeReceiptKeeps, TakeEnvelopeKeeps, RouteOneStutters, TrackKeeps
<1>3. CASE \E a \in Agents : Unregister(a) \/ Die(a) \/ Reconnect(a)
    BY <1>3, LifeKeeps, ReconnectStutters
<1>4. CASE \E k \in Keys : \E i \in DOMAIN retry[k] :
               RetryWake(k, i) \/ RetrySend(k, i) \/ RetryFinal(k, i)
    BY <1>4, RetryKeeps
<1>5. CASE UNCHANGED vars
    BY <1>5, Stutters DEF vars, sender, bus, history
<1> QED BY <1>1, <1>2, <1>3, <1>4, <1>5, Steps

\* The bus and its clients implement the promise: whatever is resubmitted, redelivered,
\* overflows, races or breaks, an envelope is handed to a life of its recipient once, an
\* Ok or an error is about an envelope the bus has taken, and every wait for a Receipt
\* ends once, as cleared by a recipient that has the envelope or as failed.
THEOREM Implements == Spec => KeepsPromise
<1>1. Init => Promise!Init BY InitPromise
<1>2. IInv /\ [Next]_vars => [Promise!Next]_(Promise!vars) BY StepKeeps DEF Kept
<1> QED BY <1>1, <1>2, SpecInv, PTL DEF Spec, KeepsPromise, Promise!Spec

===============================================================================
