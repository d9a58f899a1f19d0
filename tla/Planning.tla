------------------------------- MODULE Planning ---------------------------------
(***************************************************************************)
(* From a crew to sprints: LeadPlanner (crew-lead plan.rs) chains one task   *)
(* per role, TaskDag::validate (crew-proto dag.rs) checks and sorts the       *)
(* tasks with Kahn's algorithm, SprintSlicer cuts the order into sprints.     *)
(*                                                                          *)
(* A step is one iteration of a loop.  in_degree, the queue and the order go  *)
(* by a task's place in the list: validate has made sure by then that its id  *)
(* is its own.                                                              *)
(***************************************************************************)
EXTENDS Integers, Sequences, FiniteSets

CONSTANTS
    Dags,           \* lists of tasks that come from elsewhere than the planner
    Crews,          \* `roles`: the lists of roles a run may be started with
    Ids, Unknown,   \* task ids of Dags; ids that are nobody's
    SprintSizes     \* sizes of a sprint a run may be started with

Role == {"t-pm", "t-design", "t-publish", "t-dev", "t-qa"}      \* by their task's id
TaskSpec == [id : Ids \cup Role, deps : Seq(Ids \cup Role \cup Unknown)]

ASSUME DagsAssumption == Dags \subseteq Seq(TaskSpec)
ASSUME CrewsAssumption == Crews \subseteq Seq(Role)
ASSUME SprintAssumption == SprintSizes \subseteq Nat
ASSUME UnknownAssumption == Unknown \cap (Ids \cup Role) = {}

VARIABLES
    crew,           \* the roles the tasks were planned for, <<>> if they come from elsewhere
    tasks,          \* TaskDag
    max_per_sprint, \* as slice was called
    stage,          \* the loop validate is in
    at,             \* its iteration
    in_degree, queue, order,
    error,          \* DagError or PlanError
    sprints

vars == <<crew, tasks, max_per_sprint, stage, at, in_degree, queue, order, error, sprints>>

N == Len(tasks)
Dep(i) == {tasks[i].deps[j] : j \in DOMAIN tasks[i].deps}
\* places of the list where a task has k as a dependency
Occurrences(i, k) == {j \in DOMAIN tasks[i].deps : tasks[i].deps[j] = tasks[k].id}

DagError == {"DuplicateTaskId", "UnknownDep", "CycleDetected"}

TypeOK ==
    /\ crew \in Seq(Role) /\ tasks \in Seq(TaskSpec) /\ max_per_sprint \in SprintSizes
    /\ stage \in {"ids", "deps", "count", "sort", "visit", "sorted", "sliced", "failed"}
    /\ at \in 1..(N + 1)
    /\ in_degree \in [1..N -> Nat]
    /\ queue \in Seq(1..N) /\ order \in Seq(1..N)
    /\ error \in DagError \cup {"none", "InvalidSprintSize", "EmptyRoles", "DuplicateRole"}
    /\ sprints \in Seq(Seq(1..N))

-------------------------------------------------------------------------------
(* LeadPlanner::plan_dag_with. *)

HasRole(roles, r) == \E i \in DOMAIN roles : roles[i] = r
Repeats(roles) == \E i, j \in DOMAIN roles : i # j /\ roles[i] = roles[j]

Filtered(roles, r) == IF HasRole(roles, r) THEN <<r>> ELSE <<>>

\* (mutant) every role is planned
AllRoles(roles) == <<"t-pm", "t-design", "t-publish", "t-dev", "t-qa">>
\* ROLE_ORDER, filtered
Present(roles) ==
    Filtered(roles, "t-pm") \o Filtered(roles, "t-design") \o Filtered(roles, "t-publish")
        \o Filtered(roles, "t-dev") \o Filtered(roles, "t-qa")

\* The roles of the crew in canonical order, each after the one before it.
PlanDag(roles) ==
    [i \in 1..Len(Present(roles)) |->
        [id |-> Present(roles)[i], deps |-> IF i = 1 THEN <<>> ELSE <<Present(roles)[i - 1]>>]]

\* slice refuses a size of zero before it validates.
StartSlice ==
    IF max_per_sprint = 0 THEN stage = "failed" /\ error = "InvalidSprintSize"
                          ELSE stage = "ids" /\ error = "none"

\* slice, on a list of tasks; or the planner's refusal of the crew.  What the
\* planner makes of a crew it validates as well: that is the same loop once more.
Init ==
    /\ at = 1 /\ queue = <<>> /\ order = <<>> /\ sprints = <<>>
    /\ max_per_sprint \in SprintSizes
    /\ \/ crew = <<>> /\ tasks \in Dags /\ StartSlice
       \/ /\ crew \in Crews
          /\ IF crew = <<>> THEN tasks = <<>> /\ stage = "failed" /\ error = "EmptyRoles"
             ELSE IF Repeats(crew) THEN tasks = <<>> /\ stage = "failed" /\ error = "DuplicateRole"
             ELSE tasks = PlanDag(crew) /\ StartSlice
    /\ in_degree = [i \in 1..N |-> 0]

-------------------------------------------------------------------------------
(* TaskDag::validate. *)

Advance(same) == at' = at + 1 /\ UNCHANGED same
Loop(s, next) == stage = s /\ at > N /\ stage' = next /\ at' = 1
Err(e) == error' = e /\ stage' = "failed"

CheckId ==
    /\ stage = "ids" /\ at <= N
    /\ IF \E i \in 1..(at - 1) : tasks[i].id = tasks[at].id
         THEN Err("DuplicateTaskId") /\ UNCHANGED at
         ELSE Advance(<<stage, error>>)
    /\ UNCHANGED <<crew, tasks, max_per_sprint, in_degree, queue, order, sprints>>

CheckDeps ==
    /\ stage = "deps" /\ at <= N
    /\ IF Dep(at) \subseteq {tasks[i].id : i \in 1..N}
         THEN Advance(<<stage, error>>)
         ELSE Err("UnknownDep") /\ UNCHANGED at
    /\ UNCHANGED <<crew, tasks, max_per_sprint, in_degree, queue, order, sprints>>

\* in_degree and dependents, and the queue of the tasks that have none.
Count ==
    /\ stage = "count" /\ at <= N
    /\ in_degree' = [in_degree EXCEPT ![at] = Len(tasks[at].deps)]
    /\ queue' = IF tasks[at].deps = <<>> THEN Append(queue, at) ELSE queue
    /\ Advance(<<crew, tasks, max_per_sprint, stage, order, error, sprints>>)

EndOfLoop ==
    /\ \/ Loop("ids", "deps") \/ Loop("deps", "count") \/ Loop("count", "sort")
       \/ Loop("visit", "sort")
    /\ UNCHANGED <<crew, tasks, max_per_sprint, in_degree, queue, order, error, sprints>>

Pop ==
    /\ stage = "sort" /\ queue # <<>>
    /\ order' = Append(order, Head(queue)) /\ queue' = Tail(queue)
    /\ stage' = "visit" /\ at' = 1
    /\ UNCHANGED <<crew, tasks, max_per_sprint, in_degree, error, sprints>>

Popped == order[Len(order)]

\* (mutant) the first of its dependencies lets a task go
AllEdges(i) == IF Occurrences(i, Popped) = {} THEN 0 ELSE in_degree[i]
Edges(i) == Cardinality(Occurrences(i, Popped))

\* The dependents of the task popped: `dependents` has one once per occurrence, in
\* the order of the list, and it is queued when its last one is taken off.
Visit ==
    /\ stage = "visit" /\ at <= N
    /\ in_degree' = [in_degree EXCEPT ![at] = @ - Edges(at)]
    /\ queue' = IF Edges(at) > 0 /\ in_degree'[at] = 0 THEN Append(queue, at) ELSE queue
    /\ Advance(<<crew, tasks, max_per_sprint, stage, order, error, sprints>>)

Sorted ==
    /\ stage = "sort" /\ queue = <<>>
    /\ IF Len(order) = N THEN stage' = "sorted" /\ UNCHANGED error ELSE Err("CycleDetected")
    /\ UNCHANGED <<crew, tasks, max_per_sprint, at, in_degree, queue, order, sprints>>

-------------------------------------------------------------------------------
(* SprintSlicer::slice. *)

FullSprints == N \div max_per_sprint                  \* (mutant) chunks_exact
NumSprints == (N + max_per_sprint - 1) \div max_per_sprint

Chunk(k) ==
    SubSeq(order, (k - 1) * max_per_sprint + 1,
           IF k * max_per_sprint <= N THEN k * max_per_sprint ELSE N)

Slice ==
    /\ stage = "sorted"
    /\ sprints' = [k \in 1..NumSprints |-> Chunk(k)]
    /\ stage' = "sliced"
    /\ UNCHANGED <<crew, tasks, max_per_sprint, at, in_degree, queue, order, error>>

Next == CheckId \/ CheckDeps \/ Count \/ EndOfLoop \/ Pop \/ Visit \/ Sorted \/ Slice

Spec == Init /\ [][Next]_vars

-------------------------------------------------------------------------------
(* Properties. *)

\* A task is in the order once, after everything it depends on (dag.rs validate).
OrderRespectsDeps ==
    \A p \in DOMAIN order :
        /\ \A q \in DOMAIN order : order[p] = order[q] => p = q
        /\ \A d \in Dep(order[p]) : \E q \in 1..(p - 1) : tasks[order[q]].id = d

\* Reference: the list can be put in an order that respects its dependencies.
Distinct == \A i, j \in 1..N : tasks[i].id = tasks[j].id => i = j
Sortable ==
    \E f \in [1..N -> 1..N] :
        \A i \in 1..N :
            /\ \A j \in 1..N : f[i] = f[j] => i = j
            /\ \A d \in Dep(i) : \E j \in 1..N : tasks[j].id = d /\ f[j] < f[i]

\* validate accepts the lists that can be sorted, with an order of all the tasks,
\* and no other (dag.rs:55-124).
VerdictIsRight ==
    /\ stage \in {"sorted", "sliced"} =>
           Distinct /\ OrderRespectsDeps /\ {order[p] : p \in DOMAIN order} = 1..N
    /\ error \in DagError => ~ (Distinct /\ Sortable)

\* What the planner makes of a crew is sorted as it stands: validate does not refuse
\* it (plan.rs:157) and Kahn's queue does not change the order of the roles.
CrewIsPlanned ==
    crew # <<>> =>
        /\ error \notin DagError
        /\ \A p \in DOMAIN order : order[p] = p
        /\ stage = "sliced" => {tasks[i].id : i \in 1..N} = {crew[i] : i \in DOMAIN crew}

\* No task is in an earlier sprint than one it depends on, and every task is in one
\* (plan.rs:246-250).
SprintsInOrder ==
    stage = "sliced" =>
        /\ \A i \in 1..N : \E k \in DOMAIN sprints, j \in 1..max_per_sprint :
               j \in DOMAIN sprints[k] /\ sprints[k][j] = i
        /\ \A k, l \in DOMAIN sprints : \A i \in DOMAIN sprints[k], j \in DOMAIN sprints[l] :
               tasks[sprints[l][j]].id \in Dep(sprints[k][i]) => l < k \/ (l = k /\ j < i)

================================================================================
