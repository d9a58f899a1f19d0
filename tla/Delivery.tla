-------------------------------- MODULE Delivery --------------------------------
(***************************************************************************)
(* What acknowledged delivery promises, whatever the connections, duplicates *)
(* and timers that BusDelivery has: an envelope is known to the bus before    *)
(* anyone hears of it, a recipient gets it once in each of its lives, and a   *)
(* delivery under way ends once, with a Receipt of somebody who has the       *)
(* envelope or as failed.                                                    *)
(***************************************************************************)
EXTENDS Naturals

CONSTANTS Msgs, Agents, Keys        \* Keys: an envelope and one of its recipients

VARIABLES
    accepted,               \* envelopes the bus has taken
    confirmed, refused,     \* of those its sender got Ok for, and an error for
    handed, reached,        \* deliveries handed over in this life; in some life
    open,                   \* deliveries waiting for a Receipt
    tracked, cleared, failed    \* how often one began to wait; how each wait ended

vars == <<accepted, confirmed, refused, handed, reached, open, tracked, cleared, failed>>

Init ==
    /\ accepted = {} /\ confirmed = {} /\ refused = {} /\ reached = {} /\ open = {}
    /\ handed = [k \in Keys |-> 0]
    /\ tracked = [k \in Keys |-> 0]
    /\ cleared = [k \in Keys |-> 0] /\ failed = [k \in Keys |-> 0]

Accept(m) ==
    /\ accepted' = accepted \cup {m}
    /\ UNCHANGED <<confirmed, refused, handed, reached, open, tracked, cleared, failed>>

Confirm(m) ==
    /\ m \in accepted
    /\ confirmed' = confirmed \cup {m}
    /\ UNCHANGED <<accepted, refused, handed, reached, open, tracked, cleared, failed>>

Refuse(m) ==
    /\ m \in accepted
    /\ refused' = refused \cup {m}
    /\ UNCHANGED <<accepted, confirmed, handed, reached, open, tracked, cleared, failed>>

Hand(k) ==
    /\ k[1] \in accepted /\ handed[k] = 0
    /\ handed' = [handed EXCEPT ![k] = 1]
    /\ reached' = reached \cup {k}
    /\ UNCHANGED <<accepted, confirmed, refused, open, tracked, cleared, failed>>

NewLife(a) ==
    /\ handed' = [k \in Keys |-> IF k[2] = a THEN 0 ELSE handed[k]]
    /\ UNCHANGED <<accepted, confirmed, refused, reached, open, tracked, cleared, failed>>

\* An envelope submitted again may be tracked while it is: the waits become one.
Track(k) ==
    /\ k[1] \in accepted
    /\ open' = open \cup {k}
    /\ tracked' = [tracked EXCEPT ![k] = @ + 1]
    /\ UNCHANGED <<accepted, confirmed, refused, handed, reached, cleared, failed>>

Clear(k) ==
    /\ k \in open /\ k \in reached
    /\ open' = open \ {k}
    /\ cleared' = [cleared EXCEPT ![k] = @ + 1]
    /\ UNCHANGED <<accepted, confirmed, refused, handed, reached, tracked, failed>>

Fail(k) ==
    /\ k \in open
    /\ open' = open \ {k}
    /\ failed' = [failed EXCEPT ![k] = @ + 1]
    /\ UNCHANGED <<accepted, confirmed, refused, handed, reached, tracked, cleared>>

Next ==
    \/ \E m \in Msgs : Accept(m) \/ Confirm(m) \/ Refuse(m)
    \/ \E k \in Keys : Hand(k) \/ Track(k) \/ Clear(k) \/ Fail(k)
    \/ \E a \in Agents : NewLife(a)

Spec == Init /\ [][Next]_vars

================================================================================
