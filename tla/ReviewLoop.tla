------------------------------- MODULE ReviewLoop -------------------------------
(***************************************************************************)
(* The review conversations of the Lead with one worker: two budgets on the *)
(* same exchange.  The Lead (crew-lead accept.rs) counts the reworks of a   *)
(* task and starts afresh after a human approval; the bus (CorrGuard) counts*)
(* the reversals on the corr of the task, which all its assignments share,  *)
(* and forgets nothing.  The sender of a blocked hop is stopped: its runner *)
(* takes loop_blocked for fatal.                                            *)
(***************************************************************************)
EXTENDS CorrGuard

CONSTANTS
    Tasks,          \* the tasks of one worker
    lead, worker,
    MaxRework,      \* max_rework of the Lead
    MaxRounds,      \* max_rounds of the bus
    MaxApprovals    \* bound of the model: approvals of a task by the human

ASSUME PartiesAssumption == lead # worker
ASSUME BudgetAssumption == {MaxRework, MaxRounds, MaxApprovals} \subseteq Nat

VARIABLES
    phase,          \* who holds the task
    guard,          \* CorrGuard's state of its corr
    rounds_used,    \* AcceptanceLoop
    approvals,      \* of a task
    up              \* runners that have not returned

vars == <<phase, guard, rounds_used, approvals, up>>

TypeOK ==
    /\ phase \in [Tasks -> {"asked", "answered", "Accepted", "Escalated"}]
    /\ guard \in [Tasks -> [edges : Seq({<<worker, lead>>, <<lead, worker>>}), rounds : Nat,
                            verdict : {"Accepted", "CycleDetected", "ExceededRounds"}]]
    /\ rounds_used \in [Tasks -> 0..MaxRework]
    /\ approvals \in [Tasks -> 0..MaxApprovals]
    /\ up \subseteq {lead, worker}

\* on_start has sent a task.assign, which the guard does not see, for each task.
Init ==
    /\ phase = [t \in Tasks |-> "asked"]
    /\ guard = [t \in Tasks |-> NoHops]
    /\ rounds_used = [t \in Tasks |-> 0]
    /\ approvals = [t \in Tasks |-> 0]
    /\ up = {lead, worker}

\* A guarded hop of task t to a registered recipient: delivered, or returned to
\* its sender as an error.
Hop(t, from, to, delivered) ==
    LET g == Record(guard[t], from, to, MaxRounds) IN
    /\ to \in up
    /\ guard' = [guard EXCEPT ![t] = g]
    /\ IF g.verdict = "Accepted"
       THEN phase' = [phase EXCEPT ![t] = delivered] /\ UNCHANGED up
       ELSE up' = up \ {from} /\ UNCHANGED phase

\* The worker's turn ends in a task.result.
Result(t) ==
    /\ worker \in up /\ phase[t] = "asked"
    /\ Hop(t, worker, lead, "answered")
    /\ UNCHANGED <<rounds_used, approvals>>

\* The worker's turn ends in a `blocked`, which the guard does not see.
Blocked(t) ==
    /\ {worker, lead} \subseteq up /\ phase[t] = "asked"
    /\ phase' = [phase EXCEPT ![t] = "Escalated"]
    /\ UNCHANGED <<guard, rounds_used, approvals, up>>

\* decide on a result that passed
Accept(t) ==
    /\ lead \in up /\ phase[t] = "answered"
    /\ phase' = [phase EXCEPT ![t] = "Accepted"]
    /\ UNCHANGED <<guard, rounds_used, approvals, up>>

LateExhausted(t) == rounds_used[t] > MaxRework  \* mutant of Exhausted
Exhausted(t) == rounds_used[t] >= MaxRework

\* decide on a result that failed
Rework(t) ==
    /\ lead \in up /\ phase[t] = "answered" /\ ~Exhausted(t)
    /\ rounds_used' = [rounds_used EXCEPT ![t] = @ + 1]
    /\ Hop(t, lead, worker, "asked")
    /\ UNCHANGED approvals

Escalate(t) ==
    /\ lead \in up /\ phase[t] = "answered" /\ Exhausted(t)
    /\ phase' = [phase EXCEPT ![t] = "Escalated"]
    /\ UNCHANGED <<guard, rounds_used, approvals, up>>

\* approve_escalation: a fresh budget, the same corr.
Approve(t) ==
    /\ lead \in up /\ phase[t] = "Escalated" /\ approvals[t] < MaxApprovals
    /\ approvals' = [approvals EXCEPT ![t] = @ + 1]
    /\ rounds_used' = [rounds_used EXCEPT ![t] = 0]
    /\ phase' = [phase EXCEPT ![t] = "asked"]
    /\ UNCHANGED <<guard, up>>

Turn(t) == Result(t) \/ Blocked(t)
Verdict(t) == Accept(t) \/ Rework(t) \/ Escalate(t)

Next == \E t \in Tasks : Turn(t) \/ Verdict(t) \/ Approve(t)

Spec == Init /\ [][Next]_vars
--------------------------------------------------------------------------------
(***************************************************************************)
(* Properties.                                                              *)
(***************************************************************************)
\* The last hop of a conversation was a change.request.
ChangeIsLast(g) == g.edges # <<>> /\ g.edges[Len(g.edges)] = <<lead, worker>>

\* What the Lead has spent on t: every approval may have forgiven a whole budget.
Spent(t) == rounds_used[t] + MaxRework * approvals[t]

\* The change requests of task t, over all its assignments.
ChangesIn(edges) == Cardinality({i \in DOMAIN edges : edges[i] = <<lead, worker>>})
Reworks(t) == ChangesIn(guard[t].edges)

\* The two budgets count the same exchange: every rework within the Lead's budget
\* uses two rounds of its corr, its own and that of the result it asks for, while
\* approvals and blocked answers use none ("one violation consumes 2 of CorrGuard's
\* 3 rounds", accept.rs:6).  So a runner is stopped in the middle of the reworks of
\* a task and nowhere else, never for a cycle, but this may well be within the
\* budget of the Lead.
TwoRoundsARework ==
    /\ \A t \in Tasks :
        /\ guard[t].rounds + (IF ChangeIsLast(guard[t]) THEN 1 ELSE 0) = 2 * Reworks(t)
        /\ Reworks(t) <= Spent(t)
    /\ up # {lead, worker} =>
        \E t \in Tasks : guard[t].verdict = "ExceededRounds" /\ guard[t].rounds > MaxRounds

\* accept.rs:3-6 and crew-run config.rs: the Lead's budget ends a conversation
\* before CorrGuard blocks a hop of it, so that no runner is stopped by
\* loop_blocked.  ReworkBudget.cfg refutes it with the shipped defaults.
BudgetBindsFirst == up = {lead, worker}
================================================================================
