------------------------------ MODULE MCAcceptance ------------------------------
(* Instance for TLC: two tasks of one worker.  The first asks three times for a
   command, once with an expect that does not parse; the second has a browser flow
   and a command that is refused. *)
EXTENDS Acceptance

CONSTANTS t1, t2, test, rm, page

MCCheck(by, run, expect) == [by |-> by, run |-> run, expect |-> expect]

MCDod ==
    [t \in Tasks |->
        IF t = t1
        THEN <<MCCheck("cmd", test, "?"), MCCheck("cmd", test, "0"), MCCheck("cmd", test, "1")>>
        ELSE <<MCCheck("browser", page, "0"), MCCheck("cmd", rm, "0")>>]
================================================================================
