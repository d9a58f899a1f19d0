------------------------------ MODULE LeadDispatch ------------------------------
(***************************************************************************)
(* crew-lead dispatch.rs: the Lead's state machine over the tasks of one    *)
(* sprint, with the rework budget of accept.rs and the escalation timeout.  *)
(*                                                                          *)
(* A worker is represented by the requests it owes an answer to: a          *)
(* task.assign or a change.request is answered once, by a task.result that  *)
(* passes or fails the Definition of Done or by a `blocked`.  The human     *)
(* answers gates or does not.  The runner (crew-agent runner.rs) handles    *)
(* one event at a time and returns as soon as the behaviour is done.        *)
(***************************************************************************)
EXTENDS Integers, Sequences, FiniteSets

CONSTANTS
    Tasks,          \* the sprint
    Earlier,        \* tasks outside it that its tasks depend on
    Deps,           \* the dependencies of a task, in the order of its `deps`
    Prior,          \* prior_states
    Routed,         \* tasks whose role has a registered agent
    MaxRework,      \* max_rework
    Timeout,        \* escalation_timeout_ms, in tick intervals; 0 disables it
    MaxApprovals    \* bound of the model: approvals of the human

ASSUME SprintAssumption ==
    /\ IsFiniteSet(Tasks) /\ Tasks \cap Earlier = {}
    /\ Deps \in [Tasks -> Seq(Tasks \cup Earlier)]
    /\ Routed \subseteq Tasks
\* The controller carries over the states of sprints whose Lead returned Ok,
\* which are all terminal.
ASSUME PriorAssumption ==
    Prior \in [Earlier -> {"none", "Accepted", "Escalated", "Blocked"}]
ASSUME BudgetAssumption == MaxRework \in Nat /\ Timeout \in Nat /\ MaxApprovals \in Nat

VARIABLES
    started,                \* on_start has run
    states,
    rounds_used,            \* loops: the AcceptanceLoop of a task
    pending_escalations,    \* NoClock, Unseen or the age of the escalation
    asked,                  \* requests a task's worker has yet to answer
    approvals

vars == <<started, states, rounds_used, pending_escalations, asked, approvals>>

TaskState == {"Pending", "Assigned", "Accepted", "Escalated", "Blocked"}
Terminal == {"Accepted", "Escalated", "Blocked"}    \* is_terminal
NoClock == -2
Unseen == -1

TypeOK ==
    /\ started \in BOOLEAN
    /\ states \in [Tasks -> TaskState]
    /\ rounds_used \in [Tasks -> 0..MaxRework]
    /\ pending_escalations \in [Tasks -> {NoClock, Unseen} \cup 0..Timeout]
    /\ asked \in [Tasks -> Nat]
    /\ approvals \in 0..MaxApprovals

Init ==
    /\ started = FALSE
    /\ states = [t \in Tasks |-> "Pending"]
    /\ rounds_used = [t \in Tasks |-> 0]
    /\ pending_escalations = [t \in Tasks |-> NoClock]
    /\ asked = [t \in Tasks |-> 0]
    /\ approvals = 0

IsDone == \A t \in Tasks : states[t] \in Terminal
Running == started /\ ~IsDone

(***************************************************************************)
(* dep_readiness: the first dependency that is not satisfied decides.       *)
(***************************************************************************)
Dep(t) == {Deps[t][i] : i \in DOMAIN Deps[t]}

Met(st, d) ==
    \/ d \in Tasks /\ st[d] = "Accepted"
    \/ d \notin Tasks /\ Prior[d] \in {"none", "Accepted"}

FirstUnmet(st, t, i) ==
    /\ i \in DOMAIN Deps[t] /\ ~Met(st, Deps[t][i])
    /\ \A j \in 1..(i-1) : Met(st, Deps[t][j])

Dead(st, d) ==
    \/ d \in Tasks /\ st[d] = "Blocked"
    \/ d \notin Tasks /\ Prior[d] \in {"Escalated", "Blocked"}

ReadyOnAny(st, t) == Dep(t) = {} \/ \E d \in Dep(t) : Met(st, d)  \* mutant of Ready
Ready(st, t) == \A d \in Dep(t) : Met(st, d)

(***************************************************************************)
(* dispatch_ready.  Its passes run to a fixpoint: the tasks it blocks are   *)
(* the least set of pending tasks closed under dep_readiness, whatever the  *)
(* order of a pass.  A task is in the least set when every set without it   *)
(* fails to be closed.                                                      *)
(***************************************************************************)
BlockedByDep(st, B, t) ==
    \E i \in DOMAIN Deps[t] :
        FirstUnmet(st, t, i) /\ (Dead(st, Deps[t][i]) \/ Deps[t][i] \in B)

Pending(st) == {t \in Tasks : st[t] = "Pending"}

OnePass(st, t) == BlockedByDep(st, {}, t)  \* mutant of Doomed
Doomed(st, t) ==
    \A B \in SUBSET Pending(st) :
        t \notin B => \E u \in Pending(st) \ B : BlockedByDep(st, B, u)

Dispatched(st) ==
    [t \in Tasks |->
        IF st[t] # "Pending" THEN st[t]
        ELSE IF Doomed(st, t) THEN "Blocked"
        ELSE IF ~Ready(st, t) THEN "Pending"
        ELSE IF t \in Routed THEN "Assigned" ELSE "Escalated"]

NoTrack(t, clocks) == clocks[t]  \* mutant of Track

\* track_pending_escalation
Track(t, clocks) == IF Timeout > 0 /\ clocks[t] = NoClock THEN Unseen ELSE clocks[t]

\* dispatch_ready from the states st, the clocks and the requests so far
DispatchReady(st, clocks, requests) ==
    /\ states' = Dispatched(st)
    /\ pending_escalations' = [t \in Tasks |->
           IF st[t] = "Pending" /\ states'[t] = "Escalated" THEN Track(t, clocks) ELSE clocks[t]]
    /\ asked' = [t \in Tasks |->
           IF st[t] = "Pending" /\ states'[t] = "Assigned" THEN requests[t] + 1 ELSE requests[t]]

OnStart ==
    /\ ~started
    /\ started' = TRUE
    /\ DispatchReady(states, pending_escalations, asked)
    /\ UNCHANGED <<rounds_used, approvals>>

(***************************************************************************)
(* cascade_blocked: the least set with the roots closed under dependents.   *)
(***************************************************************************)
TransitivelyBlocked(roots, t) ==
    \A B \in SUBSET Tasks :
        (t \notin B /\ roots \subseteq B) => \E u \in Tasks \ B : Dep(u) \cap B # {}

CascadeBlocked(st, roots) ==
    [t \in Tasks |->
        IF st[t] \notin Terminal /\ t \notin roots /\ TransitivelyBlocked(roots, t)
        THEN "Blocked" ELSE st[t]]

(***************************************************************************)
(* The handlers.  resolve_task_result and handle_blocked act on an Assigned *)
(* task only.                                                               *)
(***************************************************************************)
Answers(t) == Running /\ states[t] = "Assigned" /\ asked[t] > 0
Answered(t) == [asked EXCEPT ![t] = @ - 1]

Exhausted(t) == rounds_used[t] >= MaxRework

\* task.result, AcceptDecision::Accept
Accept(t) ==
    /\ Answers(t)
    /\ DispatchReady([states EXCEPT ![t] = "Accepted"], pending_escalations, Answered(t))
    /\ UNCHANGED <<started, rounds_used, approvals>>

\* task.result, AcceptDecision::Rework: the change.request is the next request.
Rework(t) ==
    /\ Answers(t) /\ ~Exhausted(t)
    /\ rounds_used' = [rounds_used EXCEPT ![t] = @ + 1]
    /\ asked' = [asked EXCEPT ![t] = (@ - 1) + 1]
    /\ UNCHANGED <<started, states, pending_escalations, approvals>>

\* human.gate
Escalate(t) ==
    /\ states' = [states EXCEPT ![t] = "Escalated"]
    /\ pending_escalations' = [pending_escalations EXCEPT ![t] = Track(t, pending_escalations)]
    /\ asked' = Answered(t)
    /\ UNCHANGED <<started, rounds_used, approvals>>

\* task.result, AcceptDecision::Escalate
GiveUp(t) == Answers(t) /\ Exhausted(t) /\ Escalate(t)

\* handle_blocked
OnBlocked(t) == Answers(t) /\ Escalate(t)

\* handle_human_response acts on an Escalated task only.
AnyTerminal(t) == Running /\ states[t] \in Terminal  \* mutant of AwaitsHuman
AssignedToo(t) == Running /\ states[t] \in {"Assigned", "Escalated"}  \* mutant of AwaitsHuman
AwaitsHuman(t) == Running /\ states[t] = "Escalated"

DropClock(t) == [pending_escalations EXCEPT ![t] = NoClock]

\* approve_escalation
Approve(t) ==
    /\ AwaitsHuman(t) /\ approvals < MaxApprovals
    /\ approvals' = approvals + 1
    /\ rounds_used' = [rounds_used EXCEPT ![t] = 0]
    /\ DispatchReady([states EXCEPT ![t] = "Pending"], DropClock(t), asked)
    /\ UNCHANGED started

Reject(t) ==
    /\ AwaitsHuman(t)
    /\ pending_escalations' = DropClock(t)
    /\ states' = CascadeBlocked([states EXCEPT ![t] = "Blocked"], {t})
    /\ UNCHANGED <<started, rounds_used, asked, approvals>>

\* on_tick, `elapsed` intervals after the previous one
Expired(elapsed) ==
    {t \in Tasks : pending_escalations[t] >= 0 /\ pending_escalations[t] + elapsed >= Timeout}

OnTick(elapsed) ==
    /\ Running /\ Timeout > 0
    /\ pending_escalations' = [t \in Tasks |->
           IF pending_escalations[t] = NoClock \/ t \in Expired(elapsed) THEN NoClock
           ELSE IF pending_escalations[t] = Unseen THEN 0
           ELSE pending_escalations[t] + elapsed]
    /\ states' = CascadeBlocked(states, Expired(elapsed))
    /\ UNCHANGED <<started, rounds_used, asked, approvals>>

Tick == \E elapsed \in 1..Timeout : OnTick(elapsed)
OnAnswer(t) == Accept(t) \/ Rework(t) \/ GiveUp(t) \/ OnBlocked(t)

Next ==
    \/ OnStart
    \/ Tick
    \/ \E t \in Tasks : OnAnswer(t) \/ Approve(t) \/ Reject(t)

Spec == Init /\ [][Next]_vars

(***************************************************************************)
(* The runner starts the behaviour and its ticker fires; the crew keeps     *)
(* answering as long as something is asked of it, in no particular order.   *)
(* Nothing makes the human answer.                                          *)
(***************************************************************************)
Fairness == WF_vars(OnStart \/ \E t \in Tasks : OnAnswer(t)) /\ WF_vars(Tick)

FairSpec == Spec /\ Fairness
--------------------------------------------------------------------------------
(***************************************************************************)
(* Properties.                                                              *)
(***************************************************************************)
\* No task is handed to a worker or to the human before every dependency it has
\* in this sprint is accepted, and it stays so while the task is worked on.
DepsFirst ==
    \A t \in Tasks : states[t] \in {"Assigned", "Accepted", "Escalated"} =>
        \A d \in Dep(t) : Met(states, d)

\* Work in progress is not thrown away: cascades started by a human or by a
\* timeout never reach a task that a worker holds.
NoWorkDiscarded ==
    [][\A t \in Tasks : states[t] = "Assigned" => states'[t] # "Blocked"]_vars

\* Accepted and Blocked are final; only an Escalated task is reopened.
FinalStates ==
    [][\A t \in Tasks : states[t] \in {"Accepted", "Blocked"} => states'[t] = states[t]]_vars

\* An escalation clock runs only while its task is escalated: one left behind
\* would block the dependents of a task that is being worked on.
ClockOnlyWhileEscalated ==
    \A t \in Tasks : pending_escalations[t] # NoClock => states[t] = "Escalated"

\* The Lead waits for exactly one answer on each assigned task and for none on
\* any other, so that no task is forgotten and none is worked on twice.
AssignedIsAsked ==
    \A t \in Tasks : asked[t] = IF states[t] = "Assigned" THEN 1 ELSE 0

\* Between two events no pending task is ready or beyond help: one of its
\* dependencies in this sprint can still be accepted.
NoStranded ==
    started => \A t \in Tasks : states[t] = "Pending" =>
        \E d \in Dep(t) \cap Tasks : states[d] \in {"Pending", "Assigned", "Escalated"}

\* With an escalation timeout a sprint ends without the human, whatever the
\* workers answer.
Finishes == Timeout > 0 => <>IsDone
================================================================================
