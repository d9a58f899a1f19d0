------------------------------- MODULE CorrGuard -------------------------------
(***************************************************************************)
(* crew-proto guard.rs: the ping-pong guard the bus applies to one `corr`.  *)
(* A conversation is the sequence of its hops and the number of reversals   *)
(* among consecutive hops; Record judges one more hop.  The state of a corr *)
(* is never reset, and a rejected hop is recorded like an accepted one.     *)
(***************************************************************************)
EXTENDS Naturals, Sequences, FiniteSets

NoHops == [edges |-> <<>>, rounds |-> 0, verdict |-> "Accepted"]

Successors(E, nodes) == {e[2] : e \in {x \in E : x[1] \in nodes}}

\* The breadth-first search of creates_multi_hop_cycle, a layer at a time: the
\* nodes visited when the queue runs empty.
Visited(E, start) ==
    LET bound == Cardinality(E)
        layer[n \in 0..bound] ==
            IF n = 0 THEN {start} ELSE layer[n-1] \cup Successors(E, layer[n-1])
    IN layer[bound]

CreatesAnyCycle(E, from, to) ==  \* mutant of CreatesMultiHopCycle
    \E n \in Visited(E, to) : <<n, from>> \in E

\* An edge back to `from` counts unless it leaves `to` itself, which the search
\* meets at depth 0 only: a direct reversal is the normal round trip.
CreatesMultiHopCycle(E, from, to) ==
    \E n \in Visited(E, to) \ {to} : <<n, from>> \in E

IsReversal(edges, from, to) ==
    edges # <<>> /\ edges[Len(edges)] = <<to, from>>

\* InvalidInput needs an empty id or corr, which Envelope::validate and the
\* authentication of the connection have excluded before the bus calls record.
Record(st, from, to, maxRounds) ==
    LET E == {st.edges[i] : i \in DOMAIN st.edges}
        cycle == from = to \/ CreatesMultiHopCycle(E, from, to)
        rounds == IF ~cycle /\ IsReversal(st.edges, from, to)
                  THEN st.rounds + 1 ELSE st.rounds
    IN [edges   |-> Append(st.edges, <<from, to>>),
        rounds  |-> rounds,
        verdict |-> IF cycle THEN "CycleDetected"
                    ELSE IF rounds > maxRounds THEN "ExceededRounds"
                    ELSE "Accepted"]
================================================================================
