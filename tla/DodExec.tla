------------------------------- MODULE DodExec ----------------------------------
(***************************************************************************)
(* The Definition of Done of a task, executed by the Lead on a result: the  *)
(* commands (crew-lead cmd_exec.rs) and the browser flows (browser_exec.rs) *)
(* run one after the other, each a process group of its own under a         *)
(* timeout, and judge (dod_exec.rs) matches their outcomes with the checks  *)
(* again, by the text of the command.                                       *)
(*                                                                          *)
(* Requirement coverage and artifacts, which judge reads from the result,   *)
(* are a choice.  An outcome carries the place of its check, which the code *)
(* does not have; judge does not look at it.                                *)
(***************************************************************************)
EXTENDS Integers, Sequences

CONSTANTS
    Runs,           \* runs and flows
    Refused         \* those that the policy refuses

\* A check: an executor, what an outcome of it is matched by (the run of a command,
\* the flow and expect of a browser), and the exit it expects; "?" does not parse.
Executors == {"cmd", "browser"}
DodCheck == [by : Executors, run : Runs, expect : {"0", "1", "?"}]
ASSUME RefusedAssumption == Refused \subseteq Runs

VARIABLES
    dod,            \* of the task whose result is judged
    stage,          \* "idle", an executor's pass over dod, "judge", or "dropped"
    at,             \* the check the pass, or the loop of judge, is at
    child,          \* the process of this check and whether SIGKILL reaches it
    family,         \* it has descendants alive in its group
    armed,          \* ProcessGroupGuard
    outcomes,       \* cmd_outcomes and browser_outcomes
    judged,         \* judge: used_outcome by executor, failed and skipped checks
    left            \* (history) how process groups were left alive

procVars == <<child, family, armed>>
dodVars == <<dod, stage, at, procVars, outcomes, judged, left>>

NoChild == [at |-> "none", kill |-> "group"]
Codes == {"0", "1", "signal"}

DodTypeOK ==
    /\ dod \in Seq(DodCheck)
    /\ stage \in {"idle", "judge", "dropped"} \cup Executors
    /\ at \in 1..(Len(dod) + 1)
    /\ child \in [at : {"none", "running", "reaping"} \cup Codes, kill : {"group", "leader", "none"}]
    /\ family \in BOOLEAN /\ armed \in BOOLEAN
    /\ outcomes \in [Executors -> Seq([of : 1..Len(dod), run : Runs,
                        kind : Codes \cup {"refused", "timed out", "spawn failed", "no binary"}])]
    /\ judged \in [used : [Executors -> SUBSET Nat], failed : SUBSET Nat, skipped : SUBSET Nat]
    /\ left \subseteq {"ended", "refused", "killed"}

NoVerdict == [used |-> [e \in Executors |-> {}], failed |-> {}, skipped |-> {}]

DodInit ==
    /\ dod = <<>> /\ stage = "idle" /\ at = 1
    /\ child = NoChild /\ family = FALSE /\ armed = FALSE
    /\ outcomes = [e \in Executors |-> <<>>] /\ judged = NoVerdict /\ left = {}

-------------------------------------------------------------------------------
(* The executors.  A step is one await, or one check that needs none. *)

AtCheck == stage \in Executors /\ at <= Len(dod) /\ child.at = "none"
Parses(c) == c.expect # "?"                 \* parse_expect, parse_browser_expect
AllOf(c) == c.by = stage                    \* (mutant) an unparseable check runs
Executable(c) == c.by = stage /\ Parses(c)

Report(kind) ==
    /\ outcomes' = [outcomes EXCEPT ![stage] =
                        Append(@, [of |-> at, run |-> dod[at].run, kind |-> kind])]
    /\ at' = at + 1

\* on_envelope, with a result of an assigned task: its dod
StartChecks(d) ==
    /\ stage = "idle"
    /\ dod' = d /\ stage' = "cmd" /\ at' = 1
    /\ outcomes' = [e \in Executors |-> <<>>]
    /\ UNCHANGED <<procVars, judged, left>>

Skip ==
    /\ AtCheck /\ ~ Executable(dod[at])
    /\ at' = at + 1
    /\ UNCHANGED <<dod, stage, procVars, outcomes, judged, left>>

Refuse ==
    /\ AtCheck /\ Executable(dod[at]) /\ dod[at].run \in Refused
    /\ Report("refused")
    /\ UNCHANGED <<dod, stage, procVars, judged, left>>

\* The process leads a group of its own; a SIGKILL to the group may be refused
\* (EPERM), and so may one to the process.
Spawn ==
    /\ AtCheck /\ Executable(dod[at]) /\ dod[at].run \notin Refused
    /\ \E kill \in {"group", "leader", "none"} : child' = [at |-> "running", kill |-> kill]
    /\ armed' = TRUE /\ family' = FALSE
    /\ UNCHANGED <<dod, stage, at, outcomes, judged, left>>

\* spawn fails, or there is no browser to run
CannotRun ==
    /\ AtCheck /\ Executable(dod[at]) /\ dod[at].run \notin Refused
    /\ \/ Report("spawn failed")
       \/ stage = "browser" /\ Report("no binary")
    /\ UNCHANGED <<dod, stage, procVars, judged, left>>

PassEnds ==
    /\ stage \in Executors /\ at > Len(dod)
    /\ stage' = IF stage = "cmd" THEN "browser" ELSE "judge"
    /\ at' = 1
    /\ UNCHANGED <<dod, procVars, outcomes, judged, left>>

\* The handle of the child goes; `why` is kept if something of it still runs.
Forget(why, alive) ==
    /\ child' = NoChild /\ family' = FALSE /\ armed' = FALSE
    /\ left' = IF alive THEN left \cup {why} ELSE left

\* child.wait(): an exit leaves its descendants alone
WaitReturns ==
    /\ stage \in Executors /\ child.at \in Codes
    /\ Report(IF child.at = "signal" THEN "spawn failed" ELSE child.at)
    /\ Forget("ended", family)
    /\ UNCHANGED <<dod, stage, judged>>

KillLeader == [leader |-> child.kill = "none", family |-> family]   \* (mutant)
\* kill_group: what it leaves alive
KillGroup == [leader |-> child.kill # "group", family |-> family /\ child.kill # "group"]
Why == IF child.kill = "group" THEN "killed" ELSE "refused"
Alive(k) == k.leader \/ k.family

\* cleanup_unknown_state, when wait itself fails
WaitFails ==
    /\ stage \in Executors /\ child.at = "running"
    /\ Report("spawn failed")
    /\ Forget(Why, Alive(KillGroup))
    /\ UNCHANGED <<dod, stage, judged>>

NoTimeout == FALSE      \* (mutant)

\* cleanup_after_timeout: a refused killpg falls back on the process, and the
\* wait that follows is bounded.  browser_exec.rs ignores the refusal and waits.
Timeout ==
    /\ stage \in Executors /\ child.at = "running"
    /\ IF stage = "browser" /\ child.kill # "group"
         THEN /\ child' = [child EXCEPT !.at = "reaping"] /\ armed' = FALSE
              /\ UNCHANGED <<at, family, outcomes, left>>
         ELSE /\ Report(IF child.kill = "none" THEN "spawn failed" ELSE "timed out")
              /\ Forget(Why, child.kill = "none" \/ KillGroup.family)
    /\ UNCHANGED <<dod, stage, judged>>

\* ... until the process ends by itself.
Reaped ==
    /\ stage = "browser" /\ child.at = "reaping"
    /\ Report("timed out")
    /\ Forget(Why, family)
    /\ UNCHANGED <<dod, stage, judged>>

\* The Lead's task is aborted between two polls: the guard's Drop.
Drop ==
    /\ stage \in Executors
    /\ stage' = "dropped"
    /\ IF armed THEN Forget(Why, Alive(KillGroup))
       ELSE IF child.at # "none" THEN Forget(Why, TRUE)
       ELSE UNCHANGED <<procVars, left>>
    /\ UNCHANGED <<dod, at, outcomes, judged>>

Executor == Skip \/ Refuse \/ Spawn \/ PassEnds \/ WaitReturns \/ Timeout
Fault == CannotRun \/ WaitFails
-------------------------------------------------------------------------------
(* The command: it may leave descendants, end, or do neither. *)

Fork ==
    /\ child.at = "running" /\ ~ family
    /\ family' = TRUE
    /\ UNCHANGED <<dod, stage, at, child, armed, outcomes, judged, left>>

Exit ==
    /\ child.at = "running"
    /\ \E c \in Codes : child' = [child EXCEPT !.at = c]
    /\ UNCHANGED <<dod, stage, at, family, armed, outcomes, judged, left>>

Process == Fork \/ Exit \/ Reaped
-------------------------------------------------------------------------------
(* judge: a step is one turn of its loop over dod.  It awaits nothing: the Lead's
   task cannot be dropped in it. *)

\* The first outcome of the check's executor with its run that no check before it
\* has used; 0 when there is none.
Match(used, c) ==
    LET free == {i \in DOMAIN outcomes[c.by] :
                    i \notin used[c.by] /\ outcomes[c.by][i].run = c.run}
    IN  IF free = {} THEN 0 ELSE CHOOSE i \in free : \A j \in free : i <= j

Expected(c) == IF c.by = "browser" THEN "0" ELSE c.expect
Failed(c, kind) == kind \notin {Expected(c), "no binary"}

JudgeOne(v, k) ==
    LET c == dod[k]
        i == Match(v.used, c)
    IN  IF ~ Parses(c) \/ i = 0 THEN [v EXCEPT !.skipped = @ \cup {k}]
        ELSE LET kind == outcomes[c.by][i].kind IN
             [used    |-> [v.used EXCEPT ![c.by] = @ \cup {i}],
              failed  |-> IF Failed(c, kind) THEN v.failed \cup {k} ELSE v.failed,
              skipped |-> IF kind = "no binary" THEN v.skipped \cup {k} ELSE v.skipped]

Judge ==
    /\ stage = "judge" /\ at <= Len(dod)
    /\ judged' = JudgeOne(judged, at)
    /\ at' = at + 1
    /\ UNCHANGED <<dod, stage, procVars, outcomes, left>>

JudgeEnds == stage = "judge" /\ at > Len(dod)
Passed(rest) == rest /\ judged.failed = {}
-------------------------------------------------------------------------------
(* Properties. *)

OutcomeOf(k) == {i \in DOMAIN outcomes[dod[k].by] : outcomes[dod[k].by][i].of = k}

\* A check fails or passes by the outcome of its own execution, and is skipped when
\* it has none, although two checks may have the same command and expect different
\* things of it and judge has only the text to go by (dod_exec.rs:235-247).
JudgedByOwnRun ==
    stage = "judge" =>
        \A k \in 1..(at - 1) :
            LET own == OutcomeOf(k) IN
            /\ k \in judged.failed <=>
                   \E i \in own : Failed(dod[k], outcomes[dod[k].by][i].kind)
            /\ own = {} => k \in judged.skipped

\* The executor never leaves a process group that it could have killed: only a
\* command that has ended leaves descendants, or a kill that was refused.  Not when
\* the Lead is aborted either (cmd_exec.rs ProcessGroupGuard).
NoRunaway == "killed" \notin left
===============================================================================
