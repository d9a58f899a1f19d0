----------------------------- MODULE MCBusRegistry -----------------------------
(* Instance for TLC: one agent id opened twice, a connection and the reconnect *)
(* that races its cleanup.  Different ids share no state but the lock.        *)
EXTENDS BusRegistry

CONSTANT a1

MCOwner == [c \in Conns |-> a1]
================================================================================
