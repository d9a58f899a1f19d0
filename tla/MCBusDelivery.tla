----------------------------- MODULE MCBusDelivery -----------------------------
(* Instance for TLC: the Lead sends a guarded envelope that wants an ack, the *)
(* worker a guarded reply in the same conversation.                           *)
EXTENDS BusDelivery

CONSTANTS lead, worker, change, result, corr

MCFrom == [m \in Msgs |-> IF m = change THEN lead ELSE worker]
MCTo == [m \in Msgs |-> IF m = change THEN <<worker>> ELSE <<lead>>]
MCMaxBreaks == [a \in Agents |-> IF a = worker THEN 1 ELSE 0]
MCCorrOf == [m \in Msgs |-> corr]
================================================================================
