---------------------------- MODULE MCLeadDispatch ----------------------------
(* Instance for TLC: two roots, a join and a task behind it, a task nobody is *)
(* registered for, and a chain behind a task an earlier sprint left escalated. *)
EXTENDS LeadDispatch, TLC

CONSTANTS a, b, join, last, orphan, stuck, behind, ok, lost

MCDeps == [t \in Tasks |->
    CASE t = a -> <<ok>>
      [] t = b -> <<>>
      [] t = join -> <<a, b>>
      [] t = last -> <<join>>
      [] t = orphan -> <<b>>
      [] t = stuck -> <<a, lost>>
      [] t = behind -> <<b, stuck>>]
MCPrior == ok :> "Accepted" @@ lost :> "Escalated"
================================================================================
