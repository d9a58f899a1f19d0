------------------------------ MODULE Acceptance -------------------------------
(***************************************************************************)
(* The Lead of module ReviewLoop with the executors of DodExec: its runner   *)
(* handles one envelope at a time, and while it executes the checks of a      *)
(* result it takes no other result and no answer of the human.              *)
(***************************************************************************)
EXTENDS ReviewLoop, DodExec

CONSTANTS
    Dod,            \* the `dod` of a task
    None            \* no task

ASSUME DodAssumption == Dod \in [Tasks -> Seq(DodCheck)]
ASSUME NoneAssumption == None \notin Tasks

VARIABLE
    judging         \* the task whose result is being judged, or None

AcceptanceVars == <<vars, dodVars, judging>>

AcceptanceTypeOK == TypeOK /\ DodTypeOK /\ judging \in Tasks \cup {None}

AcceptanceInit == Init /\ DodInit /\ judging = None

\* The worker goes on whatever the Lead does.
WorkerTurn ==
    /\ stage # "dropped"
    /\ \E t \in Tasks : Turn(t)
    /\ UNCHANGED <<dodVars, judging>>

TakeResult ==
    \E t \in Tasks :
        /\ judging = None /\ lead \in up /\ phase[t] = "answered"
        /\ judging' = t
        /\ StartChecks(Dod[t])
        /\ UNCHANGED vars

\* handle_task_result
Decide ==
    /\ JudgeEnds
    /\ \E rest \in BOOLEAN :
           IF Passed(rest) THEN Accept(judging) ELSE Rework(judging) \/ Escalate(judging)
    /\ judging' = None
    /\ stage' = "idle"
    /\ dod' = <<>> /\ at' = 1 /\ outcomes' = [e \in Executors |-> <<>>]
    /\ judged' = NoVerdict
    /\ UNCHANGED <<procVars, left>>

HumanApproves ==
    /\ judging = None
    /\ \E t \in Tasks : Approve(t)
    /\ UNCHANGED <<dodVars, judging>>

\* The run is stopped: its tasks are aborted.
Stopped == Drop /\ UNCHANGED <<vars, judging>>

Checks == (Executor \/ Judge) /\ UNCHANGED <<vars, judging>>

AcceptanceNext ==
    \/ WorkerTurn \/ TakeResult \/ Decide \/ HumanApproves \/ Stopped
    \/ Checks
    \/ (Fault \/ Process) /\ UNCHANGED <<vars, judging>>

AcceptanceSpec == AcceptanceInit /\ [][AcceptanceNext]_AcceptanceVars

\* Both runners are polled and the timeouts fire.  A command need not end, and
\* nothing has to fail.
AcceptanceFairSpec ==
    /\ AcceptanceSpec
    /\ WF_AcceptanceVars(WorkerTurn) /\ WF_AcceptanceVars(TakeResult)
    /\ WF_AcceptanceVars(Decide) /\ WF_AcceptanceVars(Checks)
-------------------------------------------------------------------------------
(* Properties. *)

\* Every request comes to a verdict, whatever its commands do: the Lead is never
\* kept by one, unless the run is stopped, a browser that SIGKILL does not reach
\* goes on for ever, or the bus has stopped a runner (TwoRoundsARework says when).
Verdicts ==
    \A t \in Tasks : phase[t] = "asked" ~>
        \/ phase[t] \in {"Accepted", "Escalated"}
        \/ stage = "dropped" \/ child.at = "reaping"
        \/ up # {lead, worker}

\* cmd_exec.rs:260-263: no "awaiting `child.wait()` forever inside the very path
\* that exists to enforce `policy.timeout`". BrowserHang.cfg refutes it.
ChecksAreBounded ==
    stage \in Executors ~> stage \in {"judge", "dropped"}
================================================================================
