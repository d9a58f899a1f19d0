----------------------------- MODULE PlanningProofs ------------------------------
(***************************************************************************)
(* Kahn's algorithm of TaskDag::validate is right for every list of tasks,   *)
(* every crew gets the plan that is its own, and the sprints keep the order. *)
(* The inductive invariant says what in_degree counts: the places of a task's *)
(* deps whose task has not been popped and taken off yet.                   *)
(***************************************************************************)
EXTENDS Planning, FiniteSetTheorems, SequenceTheorems, WellFoundedInduction, TLAPS

Places(s) == {s[p] : p \in DOMAIN s}
Inj(s) == \A p, q \in DOMAIN s : s[p] = s[q] => p = q

\* Tasks that have been taken off from i's in_degree.
Off(i) == Places(order) \ (IF stage = "visit" /\ at <= i THEN {Popped} ELSE {})
Open(i) == {j \in DOMAIN tasks[i].deps : \A k \in Off(i) : tasks[k].id # tasks[i].deps[j]}

Sorting == stage \in {"sort", "visit", "sorted", "sliced"}

Shape ==
    /\ TypeOK
    /\ stage \in {"ids", "deps", "count"} => order = <<>>
    /\ stage \in {"ids", "deps"} => queue = <<>>
    /\ stage = "visit" => order # <<>>
    /\ stage # "failed" => max_per_sprint # 0

IdsDistinct ==
    /\ stage = "ids" => \A i, j \in 1..(at - 1) : tasks[i].id = tasks[j].id => i = j
    /\ stage \notin {"ids", "failed"} => Distinct

Counted ==
    stage = "count" =>
        /\ \A i \in 1..(at - 1) : in_degree[i] = Len(tasks[i].deps)
        /\ \A i \in 1..N : i \in Places(queue) <=> i < at /\ tasks[i].deps = <<>>

Degrees ==
    Sorting => \A i \in 1..N :
        /\ in_degree[i] = Cardinality(Open(i))
        /\ i \in Places(queue) \cup Places(order) <=> in_degree[i] = 0

NoRepeats == Inj(queue) /\ Inj(order) /\ Places(queue) \cap Places(order) = {}

Complete == stage \in {"sorted", "sliced"} => Places(order) = 1..N

Rejected == error \in DagError => stage = "failed" /\ ~ (Distinct /\ Sortable)

IInv ==
    Shape /\ IdsDistinct /\ Counted /\ Degrees /\ NoRepeats /\ OrderRespectsDeps
    /\ Complete /\ Rejected

-------------------------------------------------------------------------------
(* Sequences and counting. *)

LEMMA AppendPlaces ==
    ASSUME NEW S, NEW s \in Seq(S), NEW x \in S
    PROVE  /\ Append(s, x) \in Seq(S)
           /\ Places(Append(s, x)) = Places(s) \cup {x}
           /\ x \notin Places(s) /\ Inj(s) => Inj(Append(s, x))
<1>1. /\ Append(s, x) \in Seq(S) /\ DOMAIN Append(s, x) = 1..(Len(s) + 1)
      /\ \A p \in 1..Len(s) : Append(s, x)[p] = s[p]
      /\ Append(s, x)[Len(s) + 1] = x /\ Len(s) \in Nat /\ DOMAIN s = 1..Len(s)
    OBVIOUS
<1>2. 1..(Len(s) + 1) = 1..Len(s) \cup {Len(s) + 1}
    BY <1>1
<1>3. Places(Append(s, x)) = Places(s) \cup {x}
    BY <1>1, <1>2 DEF Places
<1>4. x \notin Places(s) /\ Inj(s) => Inj(Append(s, x))
    BY <1>1, <1>2 DEF Places, Inj
<1> QED BY <1>1, <1>3, <1>4

LEMMA PlacesIn ==
    ASSUME NEW S, NEW s \in Seq(S)
    PROVE  Places(s) \subseteq S
<1>1. \A p \in DOMAIN s : s[p] \in S OBVIOUS
<1> QED BY <1>1 DEF Places

LEMMA AppendAt ==
    ASSUME NEW S, NEW s \in Seq(S), NEW x \in S
    PROVE  /\ Len(Append(s, x)) = Len(s) + 1 /\ Append(s, x)[Len(s) + 1] = x
           /\ Append(s, x) # <<>> /\ Len(s) \in Nat
           /\ DOMAIN Append(s, x) = 1..(Len(s) + 1) /\ DOMAIN s = 1..Len(s)
           /\ \A p \in 1..Len(s) : Append(s, x)[p] = s[p]
OBVIOUS

LEMMA TailPlaces ==
    ASSUME NEW S, NEW s \in Seq(S), s # <<>>
    PROVE  /\ Tail(s) \in Seq(S) /\ Head(s) \in S
           /\ Places(s) = Places(Tail(s)) \cup {Head(s)}
           /\ Inj(s) => Inj(Tail(s)) /\ Head(s) \notin Places(Tail(s))
<1>1. /\ Tail(s) \in Seq(S) /\ Head(s) \in S /\ Head(s) = s[1]
      /\ DOMAIN s = 1..Len(s) /\ Len(s) \in Nat \ {0} /\ DOMAIN Tail(s) = 1..(Len(s) - 1)
      /\ \A p \in 1..(Len(s) - 1) : Tail(s)[p] = s[p + 1]
    OBVIOUS
<1>2. \A p \in 2..Len(s) : p - 1 \in 1..(Len(s) - 1) /\ Tail(s)[p - 1] = s[p]
    BY <1>1
<1>3. \A p \in 1..Len(s) : p = 1 \/ p \in 2..Len(s)
    BY <1>1
<1>4. \A p \in 1..(Len(s) - 1) : p + 1 \in 2..Len(s) /\ p + 1 \in 1..Len(s) /\ p + 1 # 1
    BY <1>1
<1>5. Places(s) = Places(Tail(s)) \cup {Head(s)}
    <2>1. \A v \in Places(s) : v \in Places(Tail(s)) \cup {Head(s)}
        <3> SUFFICES ASSUME NEW p \in 1..Len(s)
                     PROVE  s[p] \in Places(Tail(s)) \cup {Head(s)}
            BY <1>1 DEF Places
        <3>1. CASE p = 1 BY <1>1, <3>1
        <3>2. CASE p \in 2..Len(s)
            BY <1>1, <1>2, <3>2 DEF Places
        <3> QED BY <1>3, <3>1, <3>2
    <2>2. \A v \in Places(Tail(s)) : v \in Places(s)
        BY <1>1, <1>4 DEF Places
    <2>3. Head(s) \in Places(s)
        BY <1>1 DEF Places
    <2> QED BY <2>1, <2>2, <2>3
<1>6. ASSUME Inj(s) PROVE Inj(Tail(s)) /\ Head(s) \notin Places(Tail(s))
    <2>1. ASSUME NEW p \in DOMAIN Tail(s), NEW q \in DOMAIN Tail(s), Tail(s)[p] = Tail(s)[q]
          PROVE  p = q
        <3>1. p + 1 = q + 1 BY <1>1, <1>4, <1>6, <2>1 DEF Inj
        <3> QED BY <1>1, <3>1
    <2>2. ASSUME NEW p \in DOMAIN Tail(s), Tail(s)[p] = Head(s) PROVE FALSE
        BY <1>1, <1>4, <1>6, <2>2 DEF Inj
    <2> QED BY <2>1, <2>2 DEF Inj, Places
<1> QED BY <1>1, <1>5, <1>6

\* Taking some of a finite set's elements off takes their number off.
LEMMA TakenOff ==
    ASSUME NEW S, IsFiniteSet(S), NEW T \in SUBSET S
    PROVE  /\ Cardinality(S \ T) = Cardinality(S) - Cardinality(T)
           /\ Cardinality(S) \in Nat /\ Cardinality(T) \in Nat /\ Cardinality(S \ T) \in Nat
           /\ Cardinality(T) > 0 <=> T # {}
           /\ Cardinality(S) = 0 <=> S = {}
<1>1. S \cap T = T OBVIOUS
<1>2. IsFiniteSet(T) BY FS_Subset
<1>3. IsFiniteSet(S \ T) /\ Cardinality(S \ T) = Cardinality(S) - Cardinality(T)
    BY <1>1, FS_Difference
<1>4. Cardinality(S) \in Nat /\ Cardinality(T) \in Nat /\ Cardinality(S \ T) \in Nat
    BY <1>2, <1>3, FS_CardinalityType
<1>5. (Cardinality(T) = 0 <=> T = {}) /\ (Cardinality(S) = 0 <=> S = {})
    BY <1>2, FS_EmptySet
<1> QED BY <1>3, <1>4, <1>5

LEMMA UpTo ==
    ASSUME NEW n \in Nat
    PROVE  IsFiniteSet(1..n) /\ Cardinality(1..n) = n
BY FS_Interval

\* A sequence of n of the numbers 1..n without repetition has them all.
LEMMA FullSequence ==
    ASSUME NEW n \in Nat, NEW s \in Seq(1..n), Inj(s)
    PROVE  Len(s) = n <=> Places(s) = 1..n
<1>1. s \in [1..Len(s) -> Places(s)] /\ Places(s) \subseteq 1..n /\ Len(s) \in Nat
    BY DEF Places
<1>2. s \in Surjection(1..Len(s), Places(s))
    BY <1>1 DEF Surjection, Places
<1>3. s \in Injection(1..Len(s), Places(s))
    BY <1>1 DEF Injection, IsInjective, Inj
<1>4. IsFiniteSet(1..Len(s)) /\ Cardinality(1..Len(s)) = Len(s)
    BY <1>1, UpTo
<1>5. Cardinality(Places(s)) = Len(s)
    BY <1>2, <1>3, <1>4, FS_Surjection
<1>6. IsFiniteSet(1..n) /\ Cardinality(1..n) = n
    BY FS_Interval
<1>7. Cardinality(1..n) = Cardinality(Places(s)) => 1..n = Places(s)
    BY <1>1, <1>6, FS_Subset
<1> QED BY <1>5, <1>6, <1>7


-------------------------------------------------------------------------------
(* Initial states. *)

LEMMA PlannedType ==
    ASSUME NEW roles \in Seq(Role)
    PROVE  PlanDag(roles) \in Seq(TaskSpec)
<1>1. \A r \in Role : Filtered(roles, r) \in Seq(Role)
    BY DEF Filtered
<1>2. Present(roles) \in Seq(Role)
    <2>1. \A s, t \in Seq(Role) : s \o t \in Seq(Role)
        OBVIOUS
    <2>2. {"t-pm", "t-design", "t-publish", "t-dev", "t-qa"} = Role
        BY DEF Role
    <2> QED BY <1>1, <2>1, <2>2 DEF Present
<1> DEFINE P == Present(roles)
<1>3. P \in Seq(Role) /\ Len(P) \in Nat /\ \A i \in 1..Len(P) : P[i] \in Role
    BY <1>2
<1> HIDE DEF P
<1>4. ASSUME NEW i \in 1..Len(P)
      PROVE  [id |-> P[i], deps |-> IF i = 1 THEN <<>> ELSE <<P[i - 1]>>] \in TaskSpec
    <2>1. (IF i = 1 THEN <<>> ELSE <<P[i - 1]>>) \in Seq(Ids \cup Role \cup Unknown)
        <3>1. CASE i = 1 BY <3>1
        <3>2. CASE i # 1
            <4>1. i - 1 \in 1..Len(P) BY <1>3, <3>2
            <4> QED BY <1>3, <3>2, <4>1
        <3> QED BY <3>1, <3>2
    <2> QED BY <1>3, <2>1 DEF TaskSpec
<1>5. PlanDag(roles) \in [1..Len(P) -> TaskSpec]
    BY <1>4 DEF PlanDag, P
<1> QED BY <1>3, <1>5, SeqDef

LEMMA TasksType ==
    ASSUME tasks \in Seq(TaskSpec)
    PROVE  /\ N \in Nat /\ DOMAIN tasks = 1..N
           /\ \A i \in 1..N : /\ tasks[i].deps \in Seq(Ids \cup Role \cup Unknown)
                              /\ Len(tasks[i].deps) \in Nat
                              /\ DOMAIN tasks[i].deps = 1..Len(tasks[i].deps)
                              /\ IsFiniteSet(DOMAIN tasks[i].deps)
                              /\ Cardinality(DOMAIN tasks[i].deps) = Len(tasks[i].deps)
<1>1. N \in Nat /\ DOMAIN tasks = 1..N
    BY DEF N
<1>2. \A i \in 1..N : tasks[i].deps \in Seq(Ids \cup Role \cup Unknown)
    <2>1. \A i \in 1..N : tasks[i] \in TaskSpec
        BY <1>1
    <2> QED BY <2>1 DEF TaskSpec
<1>3. \A i \in 1..N : Len(tasks[i].deps) \in Nat /\ DOMAIN tasks[i].deps = 1..Len(tasks[i].deps)
    BY <1>2
<1> QED BY <1>1, <1>2, <1>3, UpTo

LEMMA InitInv == Init => IInv
<1> SUFFICES ASSUME Init PROVE IInv
    OBVIOUS
<1>1. crew \in Seq(Role) /\ tasks \in Seq(TaskSpec)
    <2>1. CASE crew = <<>> /\ tasks \in Dags
        BY <2>1, DagsAssumption
    <2>2. CASE crew \in Crews
        <3>1. crew \in Seq(Role) BY <2>2, CrewsAssumption
        <3>2. tasks = <<>> \/ tasks = PlanDag(crew) \/ tasks \in Dags BY <2>2 DEF Init
        <3>3. PlanDag(crew) \in Seq(TaskSpec) BY <3>1, PlannedType
        <3>4. <<>> \in Seq(TaskSpec) OBVIOUS
        <3> QED BY <3>1, <3>2, <3>3, <3>4, DagsAssumption
    <2> QED BY <2>1, <2>2 DEF Init
<1>2. /\ at = 1 /\ queue = <<>> /\ order = <<>> /\ sprints = <<>> /\ stage \in {"ids", "failed"}
      /\ error \in {"none", "InvalidSprintSize", "EmptyRoles", "DuplicateRole"}
      /\ in_degree = [i \in 1..N |-> 0]
      /\ max_per_sprint \in SprintSizes /\ (stage # "failed" => max_per_sprint # 0)
    BY DEF Init, StartSlice
<1>3. N \in Nat
    BY <1>1, TasksType
<1>4. Shape
    BY <1>1, <1>2, <1>3 DEF Shape, TypeOK, DagError
<1>5. error \notin DagError
    BY <1>2 DEF DagError
<1> QED
    BY <1>2, <1>3, <1>4, <1>5 DEF IInv, IdsDistinct, Counted, Degrees, NoRepeats, Inj, Places,
                    OrderRespectsDeps, Complete, Rejected, Sorting

-------------------------------------------------------------------------------
(* The loops of validate. *)

USE DEF DagError

LEMMA SameTasks ==
    ASSUME tasks' = tasks
    PROVE  /\ N' = N /\ Distinct' = Distinct /\ Sortable' = Sortable
           /\ \A i : Dep(i)' = Dep(i)
<1>1. N' = N BY DEF N
<1>2. \A i : Dep(i)' = Dep(i) BY DEF Dep
<1>3. Distinct' = Distinct BY <1>1 DEF Distinct
<1>4. Sortable' => Sortable
    <2>1. SUFFICES ASSUME Sortable' PROVE Sortable OBVIOUS
    <2>2. PICK f \in [1..N' -> 1..N'] :
              \A i \in 1..N' :
                  /\ \A j \in 1..N' : f[i] = f[j] => i = j
                  /\ \A d \in Dep(i)' : \E j \in 1..N' : tasks'[j].id = d /\ f[j] < f[i]
        BY <2>1 DEF Sortable
    <2> QED BY <1>1, <1>2, <2>2, ZenonT(30) DEF Sortable
<1>5. Sortable => Sortable'
    <2>1. SUFFICES ASSUME Sortable PROVE Sortable' OBVIOUS
    <2>2. PICK f \in [1..N -> 1..N] :
              \A i \in 1..N :
                  /\ \A j \in 1..N : f[i] = f[j] => i = j
                  /\ \A d \in Dep(i) : \E j \in 1..N : tasks[j].id = d /\ f[j] < f[i]
        BY <2>1 DEF Sortable
    <2> QED BY <1>1, <1>2, <2>2 DEF Sortable
<1>6. Sortable \in BOOLEAN /\ Sortable' \in BOOLEAN BY DEF Sortable
<1> QED BY <1>1, <1>2, <1>3, <1>4, <1>5, <1>6

LEMMA CheckIdInv == IInv /\ CheckId => IInv'
<1> SUFFICES ASSUME IInv, CheckId PROVE IInv'
    OBVIOUS
<1>0. /\ tasks' = tasks /\ in_degree' = in_degree /\ queue' = queue /\ order' = order
      /\ crew' = crew /\ max_per_sprint' = max_per_sprint /\ sprints' = sprints /\ stage = "ids" /\ at <= N /\ N' = N
    BY DEF CheckId, N
<1>1. /\ tasks \in Seq(TaskSpec) /\ at \in 1..(N + 1) /\ N \in Nat /\ order = <<>> /\ queue = <<>>
    BY <1>0, TasksType DEF IInv, Shape, TypeOK
<1>2. CASE \E i \in 1..(at - 1) : tasks[i].id = tasks[at].id
    <2>1. stage' = "failed" /\ at' = at /\ error' = "DuplicateTaskId"
        BY <1>2 DEF CheckId, Err
    <2>2. ~ Distinct
        <3>1. PICK i \in 1..(at - 1) : tasks[i].id = tasks[at].id BY <1>2
        <3>2. i \in 1..N /\ at \in 1..N /\ i # at BY <1>0, <1>1
        <3> QED BY <3>1, <3>2 DEF Distinct
    <2>3. Shape' BY <1>0, <1>1, <2>1 DEF IInv, Shape, TypeOK
    <2>4. ~ Distinct' BY <1>0, <2>2, SameTasks
    <2> QED
        BY <1>0, <1>1, <2>1, <2>3, <2>4 DEF IInv, IdsDistinct, Counted, Degrees, Sorting, NoRepeats,
            Inj, Places, OrderRespectsDeps, Complete, Rejected
<1>3. CASE ~ \E i \in 1..(at - 1) : tasks[i].id = tasks[at].id
    <2>1. stage' = "ids" /\ at' = at + 1 /\ error' = error
        BY <1>0, <1>3 DEF CheckId, Advance
    <2>2. Shape' BY <1>0, <1>1, <2>1 DEF IInv, Shape, TypeOK
    <2>3. ASSUME NEW i \in 1..at, NEW j \in 1..at, tasks[i].id = tasks[j].id PROVE i = j
        <3>1. i = at \/ i \in 1..(at - 1) BY <1>1
        <3>2. j = at \/ j \in 1..(at - 1) BY <1>1
        <3> QED BY <1>0, <1>3, <2>3, <3>1, <3>2 DEF IInv, IdsDistinct
    <2>4. IdsDistinct' BY <1>0, <1>1, <2>1, <2>3 DEF IdsDistinct
    <2> QED
        BY <1>0, <1>1, <2>1, <2>2, <2>4 DEF IInv, Counted, Degrees, Sorting, NoRepeats,
            Inj, Places, OrderRespectsDeps, Complete, Rejected
<1> QED BY <1>2, <1>3

LEMMA CheckDepsInv == IInv /\ CheckDeps => IInv'
<1> SUFFICES ASSUME IInv, CheckDeps PROVE IInv'
    OBVIOUS
<1>0. /\ tasks' = tasks /\ in_degree' = in_degree /\ queue' = queue /\ order' = order
      /\ crew' = crew /\ max_per_sprint' = max_per_sprint /\ sprints' = sprints /\ stage = "deps" /\ at <= N /\ N' = N
    BY DEF CheckDeps, N
<1>1. /\ tasks \in Seq(TaskSpec) /\ at \in 1..(N + 1) /\ N \in Nat /\ order = <<>> /\ queue = <<>>
      /\ Distinct
    BY <1>0, TasksType DEF IInv, Shape, TypeOK, IdsDistinct
<1>2. CASE ~ (Dep(at) \subseteq {tasks[i].id : i \in 1..N})
    <2>1. stage' = "failed" /\ at' = at /\ error' = "UnknownDep"
        BY <1>2 DEF CheckDeps, Err
    <2>2. ~ Sortable
        <3>1. PICK d \in Dep(at) : \A i \in 1..N : tasks[i].id # d BY <1>2
        <3>2. at \in 1..N BY <1>0, <1>1
        <3> QED BY <3>1, <3>2 DEF Sortable
    <2>3. Shape' BY <1>0, <1>1, <2>1 DEF IInv, Shape, TypeOK
    <2>4. ~ Sortable' BY <1>0, <2>2, SameTasks
    <2> QED
        BY <1>0, <1>1, <2>1, <2>3, <2>4 DEF IInv, IdsDistinct, Counted, Degrees, Sorting, NoRepeats,
            Inj, Places, OrderRespectsDeps, Complete, Rejected
<1>3. CASE Dep(at) \subseteq {tasks[i].id : i \in 1..N}
    <2>1. stage' = "deps" /\ at' = at + 1 /\ error' = error
        BY <1>0, <1>3 DEF CheckDeps, Advance
    <2>2. Shape' BY <1>0, <1>1, <2>1 DEF IInv, Shape, TypeOK
    <2>3. Distinct' BY <1>0, <1>1, SameTasks
    <2> QED
        BY <1>0, <1>1, <2>1, <2>2, <2>3 DEF IInv, IdsDistinct, Counted, Degrees, Sorting, NoRepeats,
            Inj, Places, OrderRespectsDeps, Complete, Rejected
<1> QED BY <1>2, <1>3

LEMMA CountInv == IInv /\ Count => IInv'
<1> SUFFICES ASSUME IInv, Count PROVE IInv'
    OBVIOUS
<1>0. /\ tasks' = tasks /\ order' = order /\ stage' = stage /\ error' = error /\ at' = at + 1
      /\ crew' = crew /\ max_per_sprint' = max_per_sprint /\ sprints' = sprints /\ stage = "count" /\ at <= N /\ N' = N
      /\ in_degree' = [in_degree EXCEPT ![at] = Len(tasks[at].deps)]
      /\ queue' = IF tasks[at].deps = <<>> THEN Append(queue, at) ELSE queue
    BY DEF Count, Advance, N
<1>1. /\ tasks \in Seq(TaskSpec) /\ at \in 1..(N + 1) /\ at \in 1..N /\ N \in Nat /\ order = <<>>
      /\ queue \in Seq(1..N) /\ Distinct /\ in_degree \in [1..N -> Nat]
      /\ Len(tasks[at].deps) \in Nat /\ Inj(queue)
      /\ \A i \in 1..(at - 1) : in_degree[i] = Len(tasks[i].deps)
      /\ \A i \in 1..N : i \in Places(queue) <=> i < at /\ tasks[i].deps = <<>>
    <2>1. TypeOK BY DEF IInv, Shape
    <2>2. /\ tasks \in Seq(TaskSpec) /\ at \in 1..(N + 1) /\ in_degree \in [1..N -> Nat]
          /\ queue \in Seq(1..N)
        BY <2>1, Zenon DEF TypeOK
    <2>3. N \in Nat BY <2>2, TasksType, Zenon
    <2>4. at \in 1..N BY <1>0, <2>2, <2>3
    <2>5. Len(tasks[at].deps) \in Nat BY <2>2, <2>4, TasksType
    <2>6. order = <<>> /\ Distinct /\ Inj(queue)
        BY <1>0 DEF IInv, Shape, IdsDistinct, NoRepeats
    <2>7. /\ \A i \in 1..(at - 1) : in_degree[i] = Len(tasks[i].deps)
          /\ \A i \in 1..N : i \in Places(queue) <=> i < at /\ tasks[i].deps = <<>>
        BY <1>0 DEF IInv, Counted
    <2> QED BY <2>2, <2>3, <2>4, <2>5, <2>6, <2>7
<1>2. /\ queue' \in Seq(1..N) /\ Inj(queue')
      /\ Places(queue') = Places(queue) \cup (IF tasks[at].deps = <<>> THEN {at} ELSE {})
    <2>1. at \notin Places(queue) BY <1>1
    <2>2. CASE tasks[at].deps = <<>>
        <3>1. queue' = Append(queue, at) BY <1>0, <2>2
        <3>2. queue \in Seq(1..N) /\ at \in 1..N /\ Inj(queue) BY <1>1
        <3>3. /\ Append(queue, at) \in Seq(1..N)
              /\ Places(Append(queue, at)) = Places(queue) \cup {at}
              /\ at \notin Places(queue) /\ Inj(queue) => Inj(Append(queue, at))
            BY <3>2, AppendPlaces, Zenon
        <3> QED BY <2>1, <2>2, <3>1, <3>2, <3>3
    <2>3. CASE tasks[at].deps # <<>>
        <3>1. queue' = queue BY <1>0, <2>3
        <3>2. queue \in Seq(1..N) /\ Inj(queue) BY <1>1
        <3> QED BY <2>3, <3>1, <3>2
    <2> QED BY <2>2, <2>3
<1>3. Shape'
    <2>1. Shape /\ TypeOK BY DEF IInv, Shape
    <2>2. in_degree' \in [1..N -> Nat] BY <1>0, <1>1
    <2>3. at' \in 1..(N + 1) BY <1>0, <1>1
    <2>4. TypeOK' BY <1>0, <1>1, <1>2, <2>1, <2>2, <2>3 DEF TypeOK
    <2> QED BY <1>0, <1>1, <2>1, <2>4 DEF Shape
<1>4. Counted'
    <2>1. ASSUME NEW i \in 1..at PROVE in_degree'[i] = Len(tasks[i].deps)
        <3>1. i = at \/ i \in 1..(at - 1) BY <1>1
        <3>2. i \in 1..N BY <1>1
        <3> QED BY <1>0, <1>1, <3>1, <3>2
    <2>2. ASSUME NEW i \in 1..N
          PROVE  i \in Places(queue') <=> i < at + 1 /\ tasks[i].deps = <<>>
        <3>1. i < at + 1 <=> i < at \/ i = at BY <1>1
        <3> QED BY <1>1, <1>2, <3>1
    <2>3. at' - 1 = at BY <1>0, <1>1
    <2>4. Places(queue)' = Places(queue') BY DEF Places
    <2> QED BY <1>0, <2>1, <2>2, <2>3, <2>4 DEF Counted
<1>5. Distinct' /\ NoRepeats'
    <2>1. Places(order') = {} /\ Inj(order') BY <1>0, <1>1 DEF Places, Inj
    <2> QED BY <1>0, <1>1, <1>2, <2>1, SameTasks DEF NoRepeats, Inj, Places
<1> QED
    BY <1>0, <1>1, <1>3, <1>4, <1>5 DEF IInv, IdsDistinct, Degrees, Sorting, OrderRespectsDeps,
        Complete, Rejected

LEMMA EndOfLoopInv == IInv /\ EndOfLoop => IInv'
<1> SUFFICES ASSUME IInv, EndOfLoop PROVE IInv'
    OBVIOUS
<1>0. /\ tasks' = tasks /\ in_degree' = in_degree /\ queue' = queue /\ order' = order
      /\ crew' = crew /\ max_per_sprint' = max_per_sprint /\ sprints' = sprints /\ error' = error /\ at' = 1 /\ at > N
      /\ N' = N /\ Distinct' = Distinct
    BY SameTasks DEF EndOfLoop, Loop
<1>1. /\ tasks \in Seq(TaskSpec) /\ at = N + 1 /\ N \in Nat /\ in_degree \in [1..N -> Nat]
      /\ queue \in Seq(1..N) /\ order \in Seq(1..N)
    <2>1. TypeOK BY DEF IInv, Shape
    <2>2. /\ tasks \in Seq(TaskSpec) /\ at \in 1..(N + 1) /\ in_degree \in [1..N -> Nat]
          /\ queue \in Seq(1..N) /\ order \in Seq(1..N)
        BY <2>1, Zenon DEF TypeOK
    <2>3. N \in Nat BY <2>2, TasksType, Zenon
    <2>4. at = N + 1 BY <1>0, <2>2, <2>3
    <2> QED BY <2>2, <2>3, <2>4
<1>2. NoRepeats' /\ OrderRespectsDeps'
    BY <1>0, SameTasks DEF IInv, NoRepeats, Inj, Places, OrderRespectsDeps
<1>3. CASE stage = "ids" /\ stage' = "deps"
    <2>1. Distinct BY <1>1, <1>3 DEF IInv, IdsDistinct, Distinct
    <2>2. Shape' BY <1>0, <1>1, <1>3 DEF IInv, Shape, TypeOK
    <2> QED
        BY <1>0, <1>1, <1>2, <1>3, <2>1, <2>2 DEF IInv, IdsDistinct, Counted, Degrees, Sorting,
            Complete, Rejected
<1>4. CASE stage = "deps" /\ stage' = "count"
    <2>1. Shape' BY <1>0, <1>1, <1>4 DEF IInv, Shape, TypeOK
    <2>2. Counted'
        <3>1. Places(queue)' = {} BY <1>0, <1>4 DEF IInv, Shape, Places
        <3> QED BY <1>0, <1>1, <3>1 DEF Counted
    <2> QED
        BY <1>0, <1>1, <1>2, <1>4, <2>1, <2>2 DEF IInv, IdsDistinct, Degrees, Sorting,
            Complete, Rejected
<1>5. CASE stage = "count" /\ stage' = "sort"
    <2>1. Shape' BY <1>0, <1>1, <1>5 DEF IInv, Shape, TypeOK
    <2>2. ASSUME NEW i \in 1..N
          PROVE  /\ in_degree[i] = Cardinality(Open(i)')
                 /\ i \in Places(queue)' \cup Places(order)' <=> in_degree[i] = 0
        <3>1. Places(order)' = {} BY <1>0, <1>5 DEF IInv, Shape, Places
        <3>2. Open(i)' = DOMAIN tasks[i].deps BY <1>0, <3>1 DEF Open, Off, Places
        <3>3. in_degree[i] = Len(tasks[i].deps) BY <1>1, <1>5 DEF IInv, Counted
        <3>4. tasks[i].deps = <<>> <=> Len(tasks[i].deps) = 0 BY <1>1, TasksType
        <3>5. i \in Places(queue) <=> tasks[i].deps = <<>> BY <1>1, <1>5 DEF IInv, Counted
        <3>6. Places(queue)' = Places(queue) BY <1>0 DEF Places
        <3> QED BY <1>1, <3>1, <3>2, <3>3, <3>4, <3>5, <3>6, TasksType
    <2>3. Degrees' BY <1>0, <2>2 DEF Degrees
    <2> QED
        BY <1>0, <1>1, <1>2, <1>5, <2>1, <2>3 DEF IInv, IdsDistinct, Counted, Complete, Rejected
<1>6. CASE stage = "visit" /\ stage' = "sort"
    <2>1. Shape' BY <1>0, <1>1, <1>6 DEF IInv, Shape, TypeOK
    <2>2. ASSUME NEW i \in 1..N
          PROVE  Open(i)' = Open(i)
        <3>1. ~ (at <= i) BY <1>1
        <3>2. Off(i)' = Off(i) BY <1>0, <1>6, <3>1 DEF Off, Places
        <3> QED BY <1>0, <3>2 DEF Open
    <2>3. Degrees'
        <3>1. Places(queue)' = Places(queue) /\ Places(order)' = Places(order)
            BY <1>0 DEF Places
        <3> QED BY <1>0, <1>6, <2>2, <3>1 DEF IInv, Degrees, Sorting
    <2> QED
        BY <1>0, <1>1, <1>2, <1>6, <2>1, <2>3 DEF IInv, IdsDistinct, Counted, Complete, Rejected
<1> QED BY <1>3, <1>4, <1>5, <1>6 DEF EndOfLoop, Loop

\* A task in the queue has nothing open, and all its dependencies are in the order.
LEMMA QueuedIsReady ==
    ASSUME IInv, stage = "sort", NEW i \in Places(queue)
    PROVE  i \in 1..N /\ \A d \in Dep(i) : \E p \in DOMAIN order : tasks[order[p]].id = d
<1>1. queue \in Seq(1..N) /\ tasks \in Seq(TaskSpec)
    BY DEF IInv, Shape, TypeOK
<1>2. i \in 1..N
    BY <1>1, PlacesIn
<1>3. Cardinality(Open(i)) = 0
    BY <1>2 DEF IInv, Degrees, Sorting
<1>4. Open(i) = {}
    <2>1. IsFiniteSet(Open(i))
        BY <1>1, <1>2, TasksType, FS_Subset DEF Open
    <2> QED BY <1>3, <2>1, FS_EmptySet
<1>5. Off(i) = Places(order)
    BY DEF Off
<1>6. ASSUME NEW d \in Dep(i) PROVE \E p \in DOMAIN order : tasks[order[p]].id = d
    <2>1. PICK j \in DOMAIN tasks[i].deps : tasks[i].deps[j] = d
        BY DEF Dep
    <2>2. PICK k \in Off(i) : tasks[k].id = d
        BY <1>4, <2>1 DEF Open
    <2> QED BY <1>5, <2>2 DEF Places
<1> QED BY <1>2, <1>6

LEMMA PopInv == IInv /\ Pop => IInv'
<1> SUFFICES ASSUME IInv, Pop PROVE IInv'
    OBVIOUS
<1> DEFINE h == Head(queue)
<1>h. h = Head(queue) OBVIOUS
<1> HIDE DEF h
<1>0. /\ tasks' = tasks /\ in_degree' = in_degree /\ error' = error /\ at' = 1
      /\ crew' = crew /\ max_per_sprint' = max_per_sprint /\ sprints' = sprints /\ stage = "sort" /\ stage' = "visit" /\ queue # <<>>
      /\ order' = Append(order, h) /\ queue' = Tail(queue)
      /\ N' = N /\ Distinct' = Distinct
    BY <1>h, SameTasks DEF Pop
<1>1. /\ tasks \in Seq(TaskSpec) /\ N \in Nat /\ in_degree \in [1..N -> Nat]
      /\ queue \in Seq(1..N) /\ order \in Seq(1..N) /\ sprints \in Seq(Seq(1..N))
      /\ Inj(queue) /\ Inj(order) /\ Places(queue) \cap Places(order) = {}
    BY <1>0, TasksType DEF IInv, Shape, TypeOK, NoRepeats
<1>2. /\ queue' \in Seq(1..N) /\ h \in 1..N /\ Places(queue) = Places(queue') \cup {h}
      /\ Inj(queue') /\ h \notin Places(queue')
    BY <1>h, <1>0, <1>1, TailPlaces
<1>3. /\ order' \in Seq(1..N) /\ Places(order') = Places(order) \cup {h} /\ Inj(order')
    BY <1>0, <1>1, <1>2, AppendPlaces
<1>4. /\ Len(order') = Len(order) + 1 /\ order'[Len(order')] = h /\ order' # <<>>
      /\ Len(order) \in Nat /\ DOMAIN order' = 1..(Len(order) + 1) /\ DOMAIN order = 1..Len(order)
      /\ \A p \in 1..Len(order) : order'[p] = order[p]
    <2>1. order \in Seq(1..N) /\ h \in 1..N BY <1>1, <1>2
    <2>2. \A S : \A s \in Seq(S), x \in S :
            /\ Len(Append(s, x)) = Len(s) + 1 /\ Append(s, x)[Len(s) + 1] = x
            /\ Append(s, x) # <<>> /\ Len(s) \in Nat
            /\ DOMAIN Append(s, x) = 1..(Len(s) + 1) /\ DOMAIN s = 1..Len(s)
            /\ \A p \in 1..Len(s) : Append(s, x)[p] = s[p]
        BY AppendAt
    <2> QED BY ONLY <1>0, <2>1, <2>2
<1>5. Popped' = h BY <1>4 DEF Popped
<1>6. Shape'
    <2>1. /\ crew \in Seq(Role) /\ max_per_sprint \in SprintSizes /\ max_per_sprint # 0
          /\ 1 \in 1..(N + 1) /\ error \in DagError \cup {"none", "InvalidSprintSize", "EmptyRoles", "DuplicateRole"}
        BY <1>0, <1>1 DEF IInv, Shape, TypeOK
    <2>2. TypeOK'
        BY <1>0, <1>1, <1>2, <1>3, <2>1 DEF TypeOK
    <2> QED BY <1>0, <1>4, <2>1, <2>2 DEF Shape
<1>7. Places(queue)' = Places(queue') /\ Places(order)' = Places(order') BY DEF Places
<1>8. Degrees'
    <2>1. ASSUME NEW i \in 1..N PROVE Open(i)' = Open(i)
        <3>1. Off(i)' = Places(order') \ {h}
            BY <1>0, <1>5, <1>7 DEF Off
        <3>2. Off(i) = Places(order)
            BY <1>0 DEF Off
        <3>3. h \notin Places(order)
            BY <1>1, <1>2
        <3>4. Off(i)' = Off(i) BY <1>3, <3>1, <3>2, <3>3
        <3> QED BY <1>0, <3>4 DEF Open
    <2>2. Places(queue') \cup Places(order') = Places(queue) \cup Places(order)
        BY <1>2, <1>3
    <2> QED BY <1>0, <1>7, <2>1, <2>2 DEF IInv, Degrees, Sorting
<1>9. NoRepeats'
    BY <1>1, <1>2, <1>3, <1>7 DEF NoRepeats, Inj
<1>10. OrderRespectsDeps'
    <2>1. ASSUME NEW p \in DOMAIN order', NEW d \in Dep(order'[p])
          PROVE  \E q \in 1..(p - 1) : tasks[order'[q]].id = d
        <3>1. CASE p \in 1..Len(order)
            <4>1. order'[p] = order[p] BY <1>4, <3>1
            <4>2. PICK q \in 1..(p - 1) : tasks[order[q]].id = d
                BY <1>4, <2>1, <3>1, <4>1 DEF IInv, OrderRespectsDeps
            <4>3. q \in 1..Len(order) BY <1>4, <3>1
            <4> QED BY <1>4, <4>2, <4>3
        <3>2. CASE p = Len(order) + 1
            <4>1. order'[p] = h /\ h \in Places(queue) BY <1>2, <1>4, <3>2
            <4>2. PICK q \in DOMAIN order : tasks[order[q]].id = d
                BY <1>0, <2>1, <4>1, QueuedIsReady
            <4> QED BY <1>4, <3>2, <4>2
        <3> QED BY <1>4, <3>1, <3>2
    <2>3. \A p, q \in DOMAIN order' : order'[p] = order'[q] => p = q
        BY <1>3 DEF Inj
    <2>4. ASSUME NEW p \in DOMAIN order', NEW d \in Dep(order[p])'
          PROVE  \E q \in 1..(p - 1) : tasks'[order'[q]].id = d
        <3>1. d \in Dep(order'[p]) BY <1>0, <2>4 DEF Dep
        <3> QED BY <1>0, <2>1, <3>1, ZenonT(30)
    <2> QED BY <2>3, <2>4 DEF OrderRespectsDeps
<1> QED
    BY <1>0, <1>6, <1>8, <1>9, <1>10 DEF IInv, IdsDistinct, Counted, Complete, Rejected

LEMMA VisitInv == IInv /\ Visit => IInv'
<1> SUFFICES ASSUME IInv, Visit PROVE IInv'
    OBVIOUS
<1>0. /\ tasks' = tasks /\ order' = order /\ stage' = stage /\ error' = error /\ at' = at + 1
      /\ crew' = crew /\ max_per_sprint' = max_per_sprint /\ sprints' = sprints /\ stage = "visit" /\ at <= N
      /\ in_degree' = [in_degree EXCEPT ![at] = @ - Edges(at)]
      /\ queue' = IF Edges(at) > 0 /\ in_degree'[at] = 0 THEN Append(queue, at) ELSE queue
      /\ N' = N /\ Distinct' = Distinct
    BY SameTasks DEF Visit, Advance
<1>1. /\ tasks \in Seq(TaskSpec) /\ N \in Nat /\ at \in 1..N /\ in_degree \in [1..N -> Nat]
      /\ queue \in Seq(1..N) /\ order \in Seq(1..N) /\ order # <<>> /\ Distinct
      /\ Inj(queue) /\ Inj(order) /\ Places(queue) \cap Places(order) = {}
    BY <1>0, TasksType DEF IInv, Shape, TypeOK, NoRepeats, IdsDistinct
<1>2. Popped \in Places(order) /\ Popped \in 1..N /\ Places(order) \subseteq 1..N
    <2>1. Len(order) \in DOMAIN order BY <1>1
    <2> QED BY <1>1, <2>1, PlacesIn DEF Popped, Places
<1>3. /\ Places(order)' = Places(order) /\ Popped' = Popped
    BY <1>0 DEF Places, Popped
<1>4. \A i \in 1..N : i # at => Open(i)' = Open(i)
    <2> SUFFICES ASSUME NEW i \in 1..N, i # at PROVE Open(i)' = Open(i)
        OBVIOUS
    <2>1. at + 1 <= i <=> at <= i BY <1>1
    <2>2. Off(i)' = Off(i) BY <1>0, <1>3, <2>1 DEF Off
    <2> QED BY <1>0, <2>2 DEF Open
<1>a. PICK a \in 1..N : a = at
    BY <1>1
<1>5. Open(a)' = Open(a) \ Occurrences(a, Popped)
    <2>1. Off(a) = Places(order) \ {Popped} BY <1>0, <1>1, <1>a DEF Off
    <2>2. ~ (at + 1 <= a) BY <1>1, <1>a
    <2>3. Off(a)' = Places(order) BY <1>0, <1>1, <1>3, <2>2 DEF Off
    <2> QED BY <1>0, <1>2, <2>1, <2>3 DEF Open, Occurrences
<1>6. Occurrences(at, Popped) \subseteq Open(at)
    <2> SUFFICES ASSUME NEW j \in DOMAIN tasks[at].deps, tasks[at].deps[j] = tasks[Popped].id,
                        NEW k \in Off(at)
                 PROVE  tasks[k].id # tasks[at].deps[j]
        BY DEF Open, Occurrences
    <2>1. k \in Places(order) /\ k # Popped BY <1>0, <1>1 DEF Off
    <2> QED BY <1>1, <1>2, <2>1 DEF Distinct
<1>7. IsFiniteSet(Open(at))
    BY <1>1, TasksType, FS_Subset DEF Open
<1>8. in_degree[at] = Cardinality(Open(at))
    BY <1>0, <1>1 DEF IInv, Degrees, Sorting
<1>9. /\ in_degree[at] - Edges(at) = Cardinality(Open(a)')
      /\ Cardinality(Open(a)') \in Nat
      /\ Edges(at) \in Nat /\ (Edges(at) > 0 => in_degree[at] # 0)
      /\ in_degree[at] \in Nat
    <2>1. Edges(at) = Cardinality(Occurrences(at, Popped)) BY DEF Edges
    <2>2. Edges(at) > 0 => Open(at) # {}
        BY <1>6, <1>7, <2>1, TakenOff
    <2>3. Cardinality(Open(at)) = 0 <=> Open(at) = {}
        BY <1>7, FS_EmptySet
    <2> QED BY <1>a, <1>5, <1>6, <1>7, <1>8, <2>1, <2>2, <2>3, TakenOff
<1>10. /\ in_degree' \in [1..N -> Nat] /\ in_degree'[at] = in_degree[at] - Edges(at)
       /\ \A i \in 1..N : i # at => in_degree'[i] = in_degree[i]
    BY <1>0, <1>1, <1>9
<1>11. /\ queue' \in Seq(1..N) /\ Inj(queue') /\ Places(queue') \cap Places(order) = {}
       /\ \A i \in 1..N : i # at => (i \in Places(queue') <=> i \in Places(queue))
       /\ at \in Places(queue') \cup Places(order) <=> in_degree'[at] = 0
    <2>1. at \in Places(queue) \cup Places(order) <=> in_degree[at] = 0
        BY <1>0, <1>1 DEF IInv, Degrees, Sorting
    <2>2. CASE Edges(at) > 0 /\ in_degree'[at] = 0
        <3>1. at \notin Places(queue) \cup Places(order) BY <1>9, <2>1, <2>2
        <3>2. queue' = Append(queue, at) BY <1>0, <2>2
        <3>3. queue' \in Seq(1..N) /\ Inj(queue') /\ Places(queue') = Places(queue) \cup {at}
            BY <1>1, <3>1, <3>2, AppendPlaces
        <3> QED BY <1>1, <2>2, <3>1, <3>3
    <2>3. CASE Edges(at) > 0 /\ in_degree'[at] # 0
        <3>1. at \notin Places(queue) \cup Places(order) BY <1>9, <2>1, <2>3
        <3> QED BY <1>0, <1>1, <2>3, <3>1
    <2>4. CASE ~ (Edges(at) > 0)
        <3>1. in_degree'[at] = in_degree[at] BY <1>9, <1>10, <2>4
        <3> QED BY <1>0, <1>1, <2>1, <2>4, <3>1
    <2> QED BY <2>2, <2>3, <2>4
<1>12. Shape'
    <2>1. /\ crew \in Seq(Role) /\ sprints \in Seq(Seq(1..N)) /\ at + 1 \in 1..(N + 1)
          /\ max_per_sprint \in SprintSizes /\ max_per_sprint # 0
          /\ error \in DagError \cup {"none", "InvalidSprintSize", "EmptyRoles", "DuplicateRole"}
        BY <1>0, <1>1 DEF IInv, Shape, TypeOK
    <2>2. TypeOK' BY <1>0, <1>1, <1>10, <1>11, <2>1 DEF TypeOK
    <2> QED BY <1>0, <1>1, <2>1, <2>2 DEF Shape
<1>13. Places(queue)' = Places(queue') BY DEF Places
<1>14. Degrees'
    <2>1. ASSUME NEW i \in 1..N
          PROVE  /\ in_degree'[i] = Cardinality(Open(i)')
                 /\ i \in Places(queue') \cup Places(order) <=> in_degree'[i] = 0
        <3>1. CASE i = at
            BY <1>a, <1>9, <1>10, <1>11, <3>1
        <3>2. CASE i # at
            <4>1. /\ in_degree[i] = Cardinality(Open(i))
                  /\ i \in Places(queue) \cup Places(order) <=> in_degree[i] = 0
                BY <1>0 DEF IInv, Degrees, Sorting
            <4> QED BY <1>4, <1>10, <1>11, <3>2, <4>1
        <3> QED BY <3>1, <3>2
    <2> QED BY <1>0, <1>3, <1>13, <2>1 DEF Degrees
<1>15. NoRepeats' /\ OrderRespectsDeps'
    <2>1. NoRepeats' BY <1>0, <1>1, <1>3, <1>11, <1>13 DEF NoRepeats, Inj
    <2>2. OrderRespectsDeps' BY <1>0, SameTasks DEF IInv, OrderRespectsDeps
    <2> QED BY <2>1, <2>2
<1> QED
    BY <1>0, <1>1, <1>12, <1>14, <1>15 DEF IInv, IdsDistinct, Counted, Complete, Rejected

-------------------------------------------------------------------------------
(* The verdict. *)

LEMMA Smallest ==
    ASSUME NEW V \in SUBSET Nat, V # {}
    PROVE  \E v \in V : \A w \in V : ~ (w < v)
<1>1. PICK v \in V : \A w \in V : ~ (<<w, v>> \in OpToRel(<, Nat))
    BY NatLessThanWellFounded, WFMin
<1>2. \A w \in V : w < v => <<w, v>> \in OpToRel(<, Nat)
    BY DEF OpToRel
<1> QED BY <1>1, <1>2

\* Every task that is left waits for another that is left: with an order of them
\* all, one would have come first.
LEMMA LeftIsCyclic ==
    ASSUME IInv, stage = "sort", queue = <<>>, Len(order) # N
    PROVE  ~ Sortable
<1>1. /\ tasks \in Seq(TaskSpec) /\ N \in Nat /\ in_degree \in [1..N -> Nat]
      /\ order \in Seq(1..N) /\ Inj(order) /\ Distinct
    BY TasksType DEF IInv, Shape, TypeOK, NoRepeats, IdsDistinct
<1> DEFINE Left == 1..N \ Places(order)
<1>2. Left # {}
    <2>1. Places(order) \subseteq 1..N BY <1>1, PlacesIn
    <2>2. Places(order) # 1..N BY <1>1, FullSequence
    <2> QED BY <2>1, <2>2
<1>3. ASSUME NEW i \in Left PROVE \E d \in Dep(i) : \A k \in Places(order) : tasks[k].id # d
    <2>1. Places(queue) = {} BY DEF Places
    <2>2. in_degree[i] # 0 /\ in_degree[i] = Cardinality(Open(i))
        BY <2>1 DEF IInv, Degrees, Sorting
    <2>3. Open(i) # {} BY <2>2, FS_EmptySet
    <2>4. PICK j \in DOMAIN tasks[i].deps : \A k \in Off(i) : tasks[k].id # tasks[i].deps[j]
        BY <2>3 DEF Open
    <2>5. Off(i) = Places(order) BY DEF Off
    <2> QED BY <2>4, <2>5 DEF Dep
<1> SUFFICES ASSUME Sortable PROVE FALSE
    OBVIOUS
<1>4. PICK f \in [1..N -> 1..N] :
          \A i \in 1..N : \A d \in Dep(i) : \E j \in 1..N : tasks[j].id = d /\ f[j] < f[i]
    BY DEF Sortable
<1>5. {f[i] : i \in Left} \in SUBSET Nat /\ {f[i] : i \in Left} # {}
    <2>1. \A i \in Left : f[i] \in Nat BY <1>1, <1>4
    <2> QED BY <1>2, <2>1
<1>6. PICK v \in {f[i] : i \in Left} : \A w \in {f[i] : i \in Left} : ~ (w < v)
    BY <1>5, Smallest
<1>7. PICK i \in Left : \A k \in Left : ~ (f[k] < f[i])
    BY <1>6
<1>8. PICK d \in Dep(i) : \A k \in Places(order) : tasks[k].id # d
    BY <1>3
<1>9. PICK j \in 1..N : tasks[j].id = d /\ f[j] < f[i]
    BY <1>4, <1>8
<1>10. j \in Left
    BY <1>8, <1>9
<1> QED BY <1>7, <1>9, <1>10

LEMMA SortedInv == IInv /\ Sorted => IInv'
<1> SUFFICES ASSUME IInv, Sorted PROVE IInv'
    OBVIOUS
<1>0. /\ tasks' = tasks /\ in_degree' = in_degree /\ queue' = queue /\ order' = order
      /\ crew' = crew /\ max_per_sprint' = max_per_sprint /\ sprints' = sprints /\ at' = at /\ stage = "sort" /\ queue = <<>>
      /\ N' = N /\ Distinct' = Distinct /\ Sortable' = Sortable
    BY SameTasks DEF Sorted
<1>1. /\ tasks \in Seq(TaskSpec) /\ N \in Nat /\ order \in Seq(1..N) /\ Inj(order)
    BY TasksType DEF IInv, Shape, TypeOK, NoRepeats
<1>2. NoRepeats' /\ OrderRespectsDeps'
    BY <1>0, SameTasks DEF IInv, NoRepeats, Inj, Places, OrderRespectsDeps
<1>3. CASE Len(order) = N
    <2>1. stage' = "sorted" /\ error' = error BY <1>3 DEF Sorted
    <2>2. Shape' BY <1>0, <2>1 DEF IInv, Shape, TypeOK
    <2>3. Complete'
        <3>1. Places(order) = 1..N BY <1>1, <1>3, FullSequence
        <3>2. Places(order)' = Places(order) BY <1>0 DEF Places
        <3> QED BY <1>0, <3>1, <3>2 DEF Complete
    <2>4. Degrees'
        <3>1. \A i \in 1..N : Off(i)' = Off(i) BY <1>0, <2>1 DEF Off, Places
        <3>2. \A i \in 1..N : Open(i)' = Open(i) BY <1>0, <3>1 DEF Open
        <3>3. Places(order)' = Places(order) /\ Places(queue)' = Places(queue) BY <1>0 DEF Places
        <3> QED BY <1>0, <2>1, <3>2, <3>3 DEF IInv, Degrees, Sorting
    <2> QED
        BY <1>0, <1>2, <2>1, <2>2, <2>3, <2>4 DEF IInv, IdsDistinct, Counted, Rejected
<1>4. CASE Len(order) # N
    <2>1. stage' = "failed" /\ error' = "CycleDetected" BY <1>4 DEF Sorted, Err
    <2>2. Shape' BY <1>0, <2>1 DEF IInv, Shape, TypeOK
    <2>3. ~ Sortable' BY <1>0, <1>4, LeftIsCyclic
    <2> QED
        BY <1>0, <1>2, <2>1, <2>2, <2>3 DEF IInv, IdsDistinct, Counted, Degrees, Sorting,
            Complete, Rejected
<1> QED BY <1>3, <1>4

LEMMA SprintsType ==
    ASSUME NEW n \in Nat, NEW m \in Nat \ {0}, NEW s \in Seq(1..n), Len(s) = n
    PROVE  /\ (n + m - 1) \div m \in Nat
           /\ \A k \in 1..((n + m - 1) \div m) :
                  SubSeq(s, (k - 1) * m + 1, IF k * m <= n THEN k * m ELSE n) \in Seq(1..n)
<1>1. (n + m - 1) \div m \in Nat
    OBVIOUS
<1>2. ASSUME NEW k \in Nat \ {0}
      PROVE  SubSeq(s, (k - 1) * m + 1, IF k * m <= n THEN k * m ELSE n) \in Seq(1..n)
    <2> DEFINE lo == (k - 1) * m
    <2> DEFINE hi == IF k * m <= n THEN k * m ELSE n
    <2>1. lo \in Nat
        <3>1. \A x, y \in Nat : x * y \in Nat OBVIOUS
        <3>2. k - 1 \in Nat OBVIOUS
        <3> QED BY <3>1, <3>2
    <2>2. hi \in Int /\ hi <= n
        <3>1. k * m \in Int OBVIOUS
        <3> QED BY <3>1
    <2> HIDE DEF lo, hi
    <2>3. \A i \in (lo + 1)..hi : s[i] \in 1..n
        <3>1. \A i \in 1..n : s[i] \in 1..n OBVIOUS
        <3> QED BY <2>1, <2>2, <3>1
    <2>4. lo + 1 \in Int BY <2>1
    <2>5. SubSeq(s, lo + 1, hi) \in Seq(1..n) BY <2>2, <2>3, <2>4, SubSeqProperties
    <2> QED BY <2>5 DEF lo, hi
<1> QED BY <1>1, <1>2

LEMMA SliceInv == IInv /\ Slice => IInv'
<1> SUFFICES ASSUME IInv, Slice PROVE IInv'
    OBVIOUS
<1>0. /\ tasks' = tasks /\ in_degree' = in_degree /\ queue' = queue /\ order' = order
      /\ crew' = crew /\ max_per_sprint' = max_per_sprint /\ at' = at /\ stage = "sorted"
      /\ N' = N /\ Distinct' = Distinct /\ Sortable' = Sortable
    BY SameTasks DEF Slice
<1>1. /\ tasks \in Seq(TaskSpec) /\ N \in Nat /\ order \in Seq(1..N) /\ Inj(order)
      /\ Places(order) = 1..N
    BY <1>0, TasksType DEF IInv, Shape, TypeOK, NoRepeats, Complete
<1>2. NoRepeats' /\ OrderRespectsDeps' /\ Places(order)' = Places(order)
    BY <1>0, SameTasks DEF IInv, NoRepeats, Inj, Places, OrderRespectsDeps
<1>3. error \notin DagError
    BY <1>0 DEF IInv, Rejected
<1>4. /\ stage' = "sliced" /\ error' = error /\ max_per_sprint' = max_per_sprint
      /\ sprints' = [k \in 1..NumSprints |-> Chunk(k)]
    BY DEF Slice
<1>5. max_per_sprint \in Nat \ {0}
    BY <1>0, SprintAssumption DEF IInv, Shape, TypeOK
<1>6. sprints' \in Seq(Seq(1..N))
    <2>1. Len(order) = N BY <1>1, FullSequence
    <2>2. NumSprints \in Nat /\ \A k \in 1..NumSprints : Chunk(k) \in Seq(1..N)
        BY <1>1, <1>5, <2>1, SprintsType DEF NumSprints, Chunk
    <2>3. sprints' \in [1..NumSprints -> Seq(1..N)] BY <1>4, <2>2
    <2> QED BY <2>2, <2>3, SeqDef
<1>7. Shape' BY <1>0, <1>4, <1>6 DEF IInv, Shape, TypeOK
<1>8. Degrees'
    <2>1. \A i \in 1..N : Off(i)' = Off(i) BY <1>0, <1>4 DEF Off, Places
    <2>2. \A i \in 1..N : Open(i)' = Open(i) BY <1>0, <2>1 DEF Open
    <2>3. Places(queue)' = Places(queue) BY <1>0 DEF Places
    <2> QED BY <1>0, <1>2, <1>4, <2>2, <2>3 DEF IInv, Degrees, Sorting
<1> QED
    BY <1>0, <1>1, <1>2, <1>3, <1>4, <1>7, <1>8 DEF IInv, IdsDistinct, Counted,
        Complete, Rejected

LEMMA StutterInv == IInv /\ UNCHANGED vars => IInv'
<1> SUFFICES ASSUME IInv, UNCHANGED vars PROVE IInv'
    OBVIOUS
<1>0. /\ tasks' = tasks /\ in_degree' = in_degree /\ queue' = queue /\ order' = order
      /\ crew' = crew /\ at' = at /\ stage' = stage /\ sprints' = sprints /\ error' = error
      /\ max_per_sprint' = max_per_sprint
      /\ N' = N /\ Distinct' = Distinct /\ Sortable' = Sortable
    BY SameTasks DEF vars
<1>1. /\ Places(order)' = Places(order) /\ Places(queue)' = Places(queue)
      /\ \A i : Open(i)' = Open(i)
    BY <1>0 DEF Places, Open, Off, Popped
<1>2. OrderRespectsDeps' BY <1>0, SameTasks DEF IInv, OrderRespectsDeps
<1>3. Shape' BY <1>0 DEF IInv, Shape, TypeOK
<1>4. NoRepeats' BY <1>0, <1>1 DEF IInv, NoRepeats, Inj
<1>5. Degrees' /\ Counted' BY <1>0, <1>1 DEF IInv, Degrees, Counted, Sorting
<1> QED
    BY <1>0, <1>1, <1>2, <1>3, <1>4, <1>5 DEF IInv, IdsDistinct, Complete, Rejected

LEMMA SpecInv == Spec => []IInv
<1>1. IInv /\ [Next]_vars => IInv'
    BY CheckIdInv, CheckDepsInv, CountInv, EndOfLoopInv, PopInv, VisitInv, SortedInv, SliceInv,
       StutterInv DEF Next
<1> QED BY InitInv, <1>1, PTL DEF Spec

-------------------------------------------------------------------------------

\* The plan's variables have their types in every state (plan.rs, dag.rs).
THEOREM TypeCorrect == Spec => []TypeOK
<1>1. IInv => TypeOK BY DEF IInv, Shape
<1> QED BY SpecInv, <1>1, PTL

\* At every iteration of Kahn's loop, a task has been popped once at most and after
\* everything it depends on (dag.rs:101-112).
THEOREM TopologicalOrder == Spec => []OrderRespectsDeps
<1>1. IInv => OrderRespectsDeps BY DEF IInv
<1> QED BY SpecInv, <1>1, PTL

\* TaskDag::validate accepts a list exactly if its ids are distinct and it can be
\* sorted, and what it returns is an order of all of it (dag.rs:55-124).
THEOREM ValidateIsRight == Spec => []VerdictIsRight
<1>1. IInv => VerdictIsRight
    BY DEF IInv, IdsDistinct, Complete, Rejected, VerdictIsRight, Places
<1> QED BY SpecInv, <1>1, PTL


-------------------------------------------------------------------------------
(* A crew. *)

\* Filtered, once for each role: the roles present, without repetition.
LEMMA OneMore ==
    ASSUME NEW roles, NEW s \in Seq(Role), Inj(s), NEW r \in Role, r \notin Places(s)
    PROVE  /\ s \o Filtered(roles, r) \in Seq(Role) /\ Inj(s \o Filtered(roles, r))
           /\ Places(s \o Filtered(roles, r)) =
                  Places(s) \cup {x \in {r} : HasRole(roles, x)}
<1>1. CASE HasRole(roles, r)
    <2>1. Filtered(roles, r) = <<r>> BY <1>1 DEF Filtered
    <2>2. s \o <<r>> = Append(s, r) OBVIOUS
    <2>3. /\ Append(s, r) \in Seq(Role) /\ Inj(Append(s, r)) /\ Places(Append(s, r)) = Places(s) \cup {r}
        BY AppendPlaces
    <2> QED BY <1>1, <2>1, <2>2, <2>3
<1>2. CASE ~ HasRole(roles, r)
    <2>1. Filtered(roles, r) = <<>> BY <1>2 DEF Filtered
    <2>2. s \o <<>> = s OBVIOUS
    <2> QED BY <1>2, <2>1, <2>2
<1> QED BY <1>1, <1>2

LEMMA RolesPresent ==
    ASSUME NEW roles \in Seq(Role)
    PROVE  /\ Present(roles) \in Seq(Role) /\ Inj(Present(roles))
           /\ Places(Present(roles)) = {roles[i] : i \in DOMAIN roles}
<1> DEFINE s1 == Filtered(roles, "t-pm")
           s2 == s1 \o Filtered(roles, "t-design")
           s3 == s2 \o Filtered(roles, "t-publish")
           s4 == s3 \o Filtered(roles, "t-dev")
           s5 == s4 \o Filtered(roles, "t-qa")
           Has(S) == {x \in S : HasRole(roles, x)}
<1>1. s1 \in Seq(Role) /\ Inj(s1) /\ Places(s1) = Has({"t-pm"})
    <2>1. <<>> \in Seq(Role) /\ Inj(<<>>) /\ Places(<<>>) = {} BY DEF Inj, Places
    <2>2. <<>> \o s1 = s1 BY DEF Filtered
    <2>3. "t-pm" \in Role BY DEF Role
    <2> DEFINE s0 == <<>>
    <2>4. s0 \in Seq(Role) /\ Inj(s0) /\ "t-pm" \notin Places(s0) BY <2>1
    <2> HIDE DEF s0
    <2>5. /\ s0 \o Filtered(roles, "t-pm") \in Seq(Role) /\ Inj(s0 \o Filtered(roles, "t-pm"))
          /\ Places(s0 \o Filtered(roles, "t-pm")) = Places(s0) \cup Has({"t-pm"})
        BY <2>3, <2>4, OneMore
    <2> QED BY <2>1, <2>2, <2>5 DEF s0
<1>2. s2 \in Seq(Role) /\ Inj(s2) /\ Places(s2) = Has({"t-pm", "t-design"})
    <2>1. "t-design" \in Role /\ "t-design" \notin Places(s1) BY <1>1 DEF Role
    <2> HIDE DEF s1
    <2>2. s2 \in Seq(Role) /\ Inj(s2) /\ Places(s2) = Places(s1) \cup Has({"t-design"})
        BY <1>1, <2>1, OneMore
    <2> QED BY <1>1, <2>2
<1>3. s3 \in Seq(Role) /\ Inj(s3) /\ Places(s3) = Has({"t-pm", "t-design", "t-publish"})
    <2>1. "t-publish" \in Role /\ "t-publish" \notin Places(s2) BY <1>2 DEF Role
    <2> HIDE DEF s2
    <2>2. s3 \in Seq(Role) /\ Inj(s3) /\ Places(s3) = Places(s2) \cup Has({"t-publish"})
        BY <1>2, <2>1, OneMore
    <2> QED BY <1>2, <2>2
<1>4. s4 \in Seq(Role) /\ Inj(s4) /\ Places(s4) = Has({"t-pm", "t-design", "t-publish", "t-dev"})
    <2>1. "t-dev" \in Role /\ "t-dev" \notin Places(s3) BY <1>3 DEF Role
    <2> HIDE DEF s3
    <2>2. s4 \in Seq(Role) /\ Inj(s4) /\ Places(s4) = Places(s3) \cup Has({"t-dev"})
        BY <1>3, <2>1, OneMore
    <2> QED BY <1>3, <2>2
<1>5. s5 \in Seq(Role) /\ Inj(s5) /\ Places(s5) = Has(Role)
    <2>1. "t-qa" \in Role /\ "t-qa" \notin Places(s4) BY <1>4 DEF Role
    <2> HIDE DEF s4
    <2>2. s5 \in Seq(Role) /\ Inj(s5) /\ Places(s5) = Places(s4) \cup Has({"t-qa"})
        BY <1>4, <2>1, OneMore
    <2> QED BY <1>4, <2>2 DEF Role
<1>6. Present(roles) = s5 BY DEF Present
<1>7. Has(Role) = {roles[i] : i \in DOMAIN roles}
    <2>1. \A i \in DOMAIN roles : roles[i] \in Role OBVIOUS
    <2> QED BY <2>1 DEF HasRole
<1> HIDE DEF s5, Has
<1> QED BY <1>5, <1>6, <1>7

\* The planned tasks: their ids differ and each depends on the one before it only.
LEMMA Chain ==
    ASSUME crew \in Seq(Role), tasks = PlanDag(crew)
    PROVE  /\ N \in Nat /\ Distinct /\ {tasks[i].id : i \in 1..N} = {crew[i] : i \in DOMAIN crew}
           /\ \A i \in 1..N : Dep(i) = IF i = 1 THEN {} ELSE {tasks[i - 1].id}
<1> DEFINE p == Present(crew)
<1>1. p \in Seq(Role) /\ Inj(p) /\ Places(p) = {crew[i] : i \in DOMAIN crew}
    BY RolesPresent
<1> HIDE DEF p
<1>2. Len(p) \in Nat /\ DOMAIN p = 1..Len(p)
    BY <1>1
<1>3. tasks = [i \in 1..Len(p) |->
                  [id |-> p[i], deps |-> IF i = 1 THEN <<>> ELSE <<p[i - 1]>>]]
    BY DEF PlanDag, p
<1>4. N = Len(p)
    BY <1>2, <1>3 DEF N
<1>5. \A i \in 1..N : tasks[i].id = p[i] /\ tasks[i].deps = IF i = 1 THEN <<>> ELSE <<p[i - 1]>>
    BY <1>3, <1>4
<1>6. Distinct
    <2>1. ASSUME NEW i \in 1..N, NEW j \in 1..N, tasks[i].id = tasks[j].id PROVE i = j
        <3>1. p[i] = p[j] /\ i \in DOMAIN p /\ j \in DOMAIN p BY <1>2, <1>4, <1>5, <2>1
        <3> QED BY <1>1, <3>1 DEF Inj
    <2> QED BY <2>1 DEF Distinct
<1>7. {tasks[i].id : i \in 1..N} = {crew[i] : i \in DOMAIN crew}
    <2>1. {tasks[i].id : i \in 1..N} = {p[i] : i \in 1..N}
        <3>1. \A i \in 1..N : tasks[i].id = p[i] BY <1>5
        <3>2. ASSUME NEW x \in {tasks[i].id : i \in 1..N} PROVE x \in {p[i] : i \in 1..N}
            BY <3>1
        <3>3. ASSUME NEW x \in {p[i] : i \in 1..N} PROVE x \in {tasks[i].id : i \in 1..N}
            BY <3>1
        <3> QED BY <3>2, <3>3
    <2>2. 1..N = DOMAIN p BY <1>2, <1>4
    <2> QED BY <1>1, <2>1, <2>2 DEF Places
<1>8. ASSUME NEW i \in 1..N PROVE Dep(i) = IF i = 1 THEN {} ELSE {tasks[i - 1].id}
    <2>1. CASE i = 1
        <3>1. tasks[i].deps = <<>> BY <1>5, <2>1
        <3>2. Dep(i) = {} BY <3>1 DEF Dep
        <3> QED BY <2>1, <3>2
    <2>2. CASE i # 1
        <3>1. i - 1 \in 1..N BY <1>2, <1>4, <2>2
        <3>2. tasks[i].deps = <<tasks[i - 1].id>> BY <1>5, <2>2, <3>1
        <3> QED BY <2>2, <3>2 DEF Dep
    <2> QED BY <2>1, <2>2
<1> QED BY <1>2, <1>4, <1>6, <1>7, <1>8

LEMMA ChainSortable ==
    ASSUME crew \in Seq(Role), tasks = PlanDag(crew)
    PROVE  Sortable
<1>1. N \in Nat /\ \A i \in 1..N : Dep(i) = IF i = 1 THEN {} ELSE {tasks[i - 1].id}
    BY Chain
<1> DEFINE f == [i \in 1..N |-> i]
<1>2. f \in [1..N -> 1..N] /\ \A i \in 1..N : f[i] = i
    OBVIOUS
<1> HIDE DEF f
<1>3. ASSUME NEW i \in 1..N
      PROVE  /\ \A j \in 1..N : f[i] = f[j] => i = j
             /\ \A d \in Dep(i) : \E j \in 1..N : tasks[j].id = d /\ f[j] < f[i]
    <2>1. CASE i = 1 BY <1>1, <1>2, <2>1
    <2>2. CASE i # 1
        <3>1. i - 1 \in 1..N /\ i - 1 < i BY <1>1, <2>2
        <3>2. f[i - 1] < f[i] BY <1>2, <3>1
        <3> QED BY <1>1, <1>2, <2>2, <3>1, <3>2
    <2> QED BY <2>1, <2>2
<1> QED BY <1>2, <1>3 DEF Sortable

\* A crew that is refused has no tasks; of the others, Kahn's queue never has
\* another task than the one after the last that was popped.
Planned ==
    crew # <<>> =>
        /\ tasks = PlanDag(crew) \/ (stage = "failed" /\ error = "DuplicateRole")
        /\ \A p \in DOMAIN order : order[p] = p

LEMMA PlannedInit == Init => Planned
BY DEF Init, Planned

LEMMA PlannedPop ==
    ASSUME IInv, Planned, Pop
    PROVE  Planned'
<1> DEFINE h == Head(queue)
           m == Len(order)
<1>0. /\ tasks' = tasks /\ crew' = crew /\ stage = "sort" /\ queue # <<>>
      /\ order' = Append(order, h)
    BY DEF Pop
<1>1. /\ tasks \in Seq(TaskSpec) /\ queue \in Seq(1..N) /\ order \in Seq(1..N)
      /\ Places(queue) \cap Places(order) = {} /\ Distinct /\ crew \in Seq(Role)
    BY <1>0 DEF IInv, Shape, TypeOK, NoRepeats, IdsDistinct
<1>2. h \in Places(queue)
    <2>1. Places(queue) = Places(Tail(queue)) \cup {Head(queue)} BY <1>0, <1>1, TailPlaces
    <2> QED BY <2>1
<1>3. h \in 1..N /\ \A d \in Dep(h) : \E p \in DOMAIN order : tasks[order[p]].id = d
    BY <1>0, <1>2, QueuedIsReady
<1> HIDE DEF h
<1>4. /\ m \in Nat /\ DOMAIN order = 1..m /\ DOMAIN order' = 1..(m + 1)
      /\ order'[m + 1] = h /\ \A p \in 1..m : order'[p] = order[p]
    <2>1. \A S : \A s \in Seq(S), x \in S :
            /\ Len(Append(s, x)) = Len(s) + 1 /\ Append(s, x)[Len(s) + 1] = x
            /\ Append(s, x) # <<>> /\ Len(s) \in Nat
            /\ DOMAIN Append(s, x) = 1..(Len(s) + 1) /\ DOMAIN s = 1..Len(s)
            /\ \A p \in 1..Len(s) : Append(s, x)[p] = s[p]
        BY AppendAt
    <2> QED BY ONLY <1>0, <1>1, <1>3, <2>1
<1> HIDE DEF m
<1> SUFFICES ASSUME crew # <<>>
             PROVE  /\ tasks = PlanDag(crew) \/ (stage' = "failed" /\ error' = "DuplicateRole")
                    /\ \A p \in DOMAIN order' : order'[p] = p
    BY <1>0 DEF Planned
<1>5. tasks = PlanDag(crew) /\ \A p \in 1..m : order[p] = p
    BY <1>0, <1>4 DEF Planned
<1>6. N \in Nat /\ \A i \in 1..N : Dep(i) = IF i = 1 THEN {} ELSE {tasks[i - 1].id}
    BY <1>1, <1>5, Chain
<1>7. ASSUME h \in 1..m PROVE FALSE
    <2>1. h \in DOMAIN order /\ order[h] = h BY <1>4, <1>5, <1>7
    <2>2. h \in Places(order) BY <2>1 DEF Places
    <2> QED BY <1>1, <1>2, <2>2
<1>8. h = 1 \/ h - 1 \in 1..m
    <2> SUFFICES ASSUME h # 1 PROVE h - 1 \in 1..m
        OBVIOUS
    <2>1. h - 1 \in 1..N BY <1>3, <1>6
    <2>2. PICK p \in 1..m : tasks[order[p]].id = tasks[h - 1].id
        BY <1>3, <1>4, <1>6
    <2>3. order[p] = p /\ p \in 1..N
        <3>1. p \in DOMAIN order BY <1>4
        <3>2. order[p] \in Places(order) /\ Places(order) \subseteq 1..N
            BY <1>1, <3>1, PlacesIn DEF Places
        <3> QED BY <1>5, <3>1, <3>2
    <2> QED BY <1>1, <2>1, <2>2, <2>3 DEF Distinct
<1>9. h = m + 1
    BY <1>3, <1>4, <1>6, <1>7, <1>8
<1>10. \A p \in DOMAIN order' : order'[p] = p
    <2>1. \A p \in 1..(m + 1) : p \in 1..m \/ p = m + 1 BY <1>4
    <2> QED BY <1>4, <1>5, <1>9, <2>1
<1> QED BY <1>5, <1>10

LEMMA PlannedStep == IInv /\ Planned /\ [Next]_vars => Planned'
<1> SUFFICES ASSUME IInv, Planned, [Next]_vars PROVE Planned'
    OBVIOUS
<1>1. CASE Pop BY <1>1, PlannedPop
<1>2. CASE CheckId \/ CheckDeps \/ Count \/ EndOfLoop \/ Visit \/ Sorted \/ Slice
    <2>1. UNCHANGED <<crew, tasks, order>> /\ stage # "failed"
        BY <1>2 DEF CheckId, CheckDeps, Count, EndOfLoop, Visit, Sorted, Slice, Advance, Loop
    <2> QED BY <2>1 DEF Planned
<1>3. CASE UNCHANGED vars
    BY <1>3 DEF vars, Planned
<1> QED BY <1>1, <1>2, <1>3 DEF Next

\* For every crew: validate does not refuse what the planner makes of it and Kahn's
\* queue leaves the roles in their order; the sprints have exactly the crew's roles
\* (plan.rs:157).
THEOREM CrewGetsItsPlan == Spec => []CrewIsPlanned
<1>1. IInv /\ Planned => CrewIsPlanned
    <2> SUFFICES ASSUME IInv, Planned, crew # <<>>
                 PROVE  /\ error \notin DagError
                        /\ \A p \in DOMAIN order : order[p] = p
                        /\ stage = "sliced" => {tasks[i].id : i \in 1..N} = {crew[i] : i \in DOMAIN crew}
        BY DEF CrewIsPlanned
    <2>1. crew \in Seq(Role)
        BY DEF IInv, Shape, TypeOK
    <2>2. CASE tasks = PlanDag(crew)
        BY <2>1, <2>2, Chain, ChainSortable DEF IInv, Rejected, Planned
    <2>3. CASE stage = "failed" /\ error = "DuplicateRole"
        BY <2>3 DEF Planned, DagError
    <2> QED BY <2>2, <2>3 DEF Planned
<1>2. IInv /\ [Next]_vars => IInv'
    BY CheckIdInv, CheckDepsInv, CountInv, EndOfLoopInv, PopInv, VisitInv, SortedInv, SliceInv,
       StutterInv DEF Next
<1> QED BY InitInv, PlannedInit, PlannedStep, <1>1, <1>2, PTL DEF Spec

-------------------------------------------------------------------------------
(* The sprints. *)

\* A place is a sprint and a place in it, and the order of the places is that of
\* the sprints and then of the places in them.
LEMMA Place ==
    ASSUME NEW m \in Nat \ {0}, NEW p \in Nat \ {0}
    PROVE  \E k \in Nat \ {0}, j \in 1..m : p = (k - 1) * m + j
<1>1. /\ (p - 1) \div m \in Nat /\ (p - 1) % m \in 0..(m - 1)
      /\ p - 1 = (m * ((p - 1) \div m)) + ((p - 1) % m)
    OBVIOUS
<1> DEFINE q == (p - 1) \div m
           r == (p - 1) % m
<1>2. q \in Nat /\ r \in 0..(m - 1) /\ p - 1 = m * q + r BY <1>1
<1> HIDE DEF q, r
<1>3. (q + 1) - 1 = q /\ m * q = q * m BY <1>2
<1>4. p = ((q + 1) - 1) * m + (r + 1) BY <1>2, <1>3
<1>5. q + 1 \in Nat \ {0} /\ r + 1 \in 1..m BY <1>2
<1> QED BY <1>4, <1>5

LEMMA Times ==
    ASSUME NEW m \in Nat, NEW a \in Nat, NEW b \in Nat, a <= b
    PROVE  a * m <= b * m /\ a * m \in Nat
OBVIOUS

\* The last sprint begins before the end of the order, and the next would not.
LEMMA Sprints ==
    ASSUME NEW m \in Nat \ {0}, NEW n \in Nat, NEW k \in Nat \ {0}
    PROVE  k <= (n + m - 1) \div m <=> (k - 1) * m < n
<1> DEFINE q == (n + m - 1) \div m
           r == (n + m - 1) % m
<1>1. q \in Nat /\ r \in 0..(m - 1) /\ n + m - 1 = m * q + r
    OBVIOUS
<1> HIDE DEF q, r
<1>2. m * q = q * m BY <1>1
<1>3. ASSUME k <= q PROVE (k - 1) * m < n
    <2>1. k * m <= q * m BY <1>1, <1>3, Times
    <2>2. (k - 1) * m = k * m - m OBVIOUS
    <2>3. k * m \in Nat /\ q * m \in Nat BY <1>1
    <2> QED BY <1>1, <1>2, <2>1, <2>2, <2>3
<1>4. ASSUME ~ (k <= q) PROVE ~ ((k - 1) * m < n)
    <2>1. q <= k - 1 /\ k - 1 \in Nat BY <1>1, <1>4
    <2>2. q * m <= (k - 1) * m BY <1>1, <2>1, Times
    <2>3. (k - 1) * m \in Nat /\ q * m \in Nat BY <1>1, <2>1
    <2> QED BY <1>1, <1>2, <2>2, <2>3
<1> QED BY <1>3, <1>4 DEF q

\* The k-th sprint is the part of the order from place (k - 1) * m + 1 on.
Parts(n, m) == (n + m - 1) \div m
Before(m, k) == (k - 1) * m
Part(s, m, n, k) == SubSeq(s, Before(m, k) + 1, IF k * m <= n THEN k * m ELSE n)

LEMMA SprintIs ==
    ASSUME NEW n \in Nat, NEW m \in Nat \ {0}, NEW s \in Seq(1..n), Len(s) = n,
           NEW k \in 1..Parts(n, m)
    PROVE  /\ Before(m, k) \in Nat /\ Len(Part(s, m, n, k)) \in 1..m
           /\ Part(s, m, n, k) \in Seq(1..n)
           /\ \A j \in 1..m : Before(m, k) + j <= n <=> j \in DOMAIN Part(s, m, n, k)
           /\ \A j \in DOMAIN Part(s, m, n, k) :
                  Part(s, m, n, k)[j] = s[Before(m, k) + j] /\ Before(m, k) + j \in 1..n
<1> DEFINE lo == (k - 1) * m
           hi == IF k * m <= n THEN k * m ELSE n
           c == SubSeq(s, lo + 1, hi)
<1>1. k \in Nat \ {0} /\ k - 1 \in Nat /\ k <= (n + m - 1) \div m
    <2>1. Parts(n, m) \in Nat BY DEF Parts
    <2> QED BY <2>1 DEF Parts
<1>2. lo < n
    BY <1>1, Sprints
<1>3. lo \in Nat /\ k * m = lo + m
    <2>1. k - 1 <= k - 1 BY <1>1
    <2>2. lo \in Nat BY <1>1, <2>1, Times
    <2> QED BY <1>1, <2>2
<1>4. hi \in Nat /\ hi <= n /\ lo < hi /\ hi <= lo + m /\ (hi = lo + m \/ hi = n)
    BY <1>2, <1>3
<1> HIDE DEF lo, hi
<1>5. \A i \in (lo + 1)..hi : s[i] \in 1..n
    <2>1. \A i \in 1..n : s[i] \in 1..n OBVIOUS
    <2> QED BY <1>3, <1>4, <2>1
<1>6. /\ c \in Seq(1..n) /\ Len(c) = hi - lo
      /\ \A i \in 1..(hi - lo) : c[i] = s[lo + i]
    <2>1. lo + 1 \in Int /\ hi \in Int /\ lo + 1 <= hi /\ hi - (lo + 1) + 1 = hi - lo
        BY <1>3, <1>4
    <2>2. /\ c \in Seq(1..n) /\ Len(c) = IF lo + 1 <= hi THEN hi - (lo + 1) + 1 ELSE 0
          /\ \A i \in 1..(hi - (lo + 1) + 1) : c[i] = s[(lo + 1) + i - 1]
        BY <1>5, <2>1, SubSeqProperties
    <2> HIDE DEF c
    <2>3. ASSUME NEW i \in 1..(hi - lo) PROVE c[i] = s[lo + i]
        <3>1. (lo + 1) + i - 1 = lo + i BY <1>3, <1>4
        <3> QED BY <2>1, <2>2, <3>1
    <2> QED BY <2>1, <2>2, <2>3
<1> HIDE DEF c
<1>7. DOMAIN c = 1..(hi - lo) BY <1>6
<1>8. \A j \in 1..m : lo + j <= n <=> j \in 1..(hi - lo) BY <1>3, <1>4
<1>9. \A j \in 1..(hi - lo) : lo + j \in 1..n BY <1>3, <1>4
<1>10. Len(c) \in 1..m BY <1>3, <1>4, <1>6
<1>11. /\ lo \in Nat /\ Len(c) \in 1..m /\ c \in Seq(1..n)
       /\ \A j \in 1..m : lo + j <= n <=> j \in DOMAIN c
       /\ \A j \in DOMAIN c : c[j] = s[lo + j] /\ lo + j \in 1..n
    BY <1>3, <1>6, <1>7, <1>8, <1>9, <1>10
<1>12. lo = Before(m, k) /\ c = Part(s, m, n, k)
    BY DEF lo, hi, c, Before, Part
<1> QED BY <1>11, <1>12

Sliced ==
    stage = "sliced" => sprints = [k \in 1..NumSprints |-> Chunk(k)]

LEMMA SlicedStep == IInv /\ Sliced /\ [Next]_vars => Sliced'
<1> SUFFICES ASSUME IInv, Sliced, [Next]_vars PROVE Sliced'
    OBVIOUS
<1>1. CASE Slice
    <2>1. tasks' = tasks /\ order' = order /\ max_per_sprint' = max_per_sprint BY <1>1 DEF Slice
    <2>2. N' = N /\ NumSprints' = NumSprints /\ \A k : Chunk(k)' = Chunk(k)
        BY <2>1 DEF N, NumSprints, Chunk
    <2>3. stage' = "sliced" => sprints' = [k \in 1..NumSprints |-> Chunk(k)]
        BY <1>1 DEF Slice
    <2> QED BY <2>2, <2>3 DEF Sliced
<1>2. CASE CheckId \/ CheckDeps \/ Count \/ EndOfLoop \/ Pop \/ Visit \/ Sorted
    <2>1. stage' # "sliced"
        BY <1>2 DEF CheckId, CheckDeps, Count, EndOfLoop, Pop, Visit, Sorted, Advance, Loop, Err
    <2> QED BY <2>1 DEF Sliced
<1>3. CASE UNCHANGED vars
    <2>1. /\ tasks' = tasks /\ order' = order /\ stage' = stage /\ sprints' = sprints
          /\ max_per_sprint' = max_per_sprint
        BY <1>3 DEF vars
    <2>2. N' = N /\ NumSprints' = NumSprints /\ \A k : Chunk(k)' = Chunk(k)
        BY <2>1 DEF N, NumSprints, Chunk
    <2> QED BY <2>1, <2>2 DEF Sliced
<1> QED BY <1>1, <1>2, <1>3 DEF Next

LEMMA SlicedIsInOrder == IInv /\ Sliced => SprintsInOrder
<1> SUFFICES ASSUME IInv, Sliced, stage = "sliced" PROVE SprintsInOrder
    BY DEF SprintsInOrder
<1> DEFINE m == max_per_sprint
           s == order
           K == Parts(N, m)
           lo(k) == (k - 1) * m
<1>1. m \in Nat \ {0} /\ sprints = [k \in 1..NumSprints |-> Chunk(k)]
    BY SprintAssumption DEF Sliced, IInv, Shape, TypeOK
<1>2. /\ N \in Nat /\ s \in Seq(1..N) /\ Inj(s) /\ Places(s) = 1..N /\ Distinct
      /\ OrderRespectsDeps
    BY TasksType DEF IInv, Shape, TypeOK, NoRepeats, Complete, IdsDistinct
<1>3. Len(s) = N /\ DOMAIN s = 1..N /\ \A o \in 1..N : s[o] \in 1..N
    <2>1. Len(s) = N BY <1>2, FullSequence
    <2>2. DOMAIN s = 1..N BY <1>2, <2>1
    <2>3. \A o \in 1..N : s[o] \in Places(s) BY <2>2 DEF Places
    <2> QED BY <1>2, <2>1, <2>2, <2>3
<1>4. NumSprints = K /\ DOMAIN sprints = 1..K /\ K \in Nat
    BY <1>1, <1>2 DEF NumSprints, Parts
<1>5. ASSUME NEW k \in 1..K
      PROVE  /\ lo(k) \in Nat /\ sprints[k] \in Seq(1..N) /\ Len(sprints[k]) \in 1..m
             /\ \A j \in 1..m : lo(k) + j <= N <=> j \in DOMAIN sprints[k]
             /\ \A j \in DOMAIN sprints[k] : sprints[k][j] = s[lo(k) + j] /\ lo(k) + j \in 1..N
    <2>1. sprints[k] = Part(s, m, N, k) /\ lo(k) = Before(m, k)
        BY <1>1, <1>4 DEF Chunk, Part, Before
    <2> HIDE DEF m, s, lo
    <2>2. /\ Before(m, k) \in Nat /\ Len(Part(s, m, N, k)) \in 1..m
          /\ Part(s, m, N, k) \in Seq(1..N)
          /\ \A j \in 1..m : Before(m, k) + j <= N <=> j \in DOMAIN Part(s, m, N, k)
          /\ \A j \in DOMAIN Part(s, m, N, k) :
                 Part(s, m, N, k)[j] = s[Before(m, k) + j] /\ Before(m, k) + j \in 1..N
        BY <1>1, <1>2, <1>3, SprintIs
    <2> QED BY <2>1, <2>2
<1> HIDE DEF m, s
<1>6. ASSUME NEW i \in 1..N
      PROVE  \E k \in DOMAIN sprints, j \in 1..m : j \in DOMAIN sprints[k] /\ sprints[k][j] = i
    <2>1. PICK p \in 1..N : s[p] = i BY <1>2, <1>3 DEF Places
    <2>2. p \in Nat \ {0} BY <1>2
    <2>3. PICK k \in Nat \ {0}, j \in 1..m : p = lo(k) + j BY <1>1, <2>2, Place
    <2>4. lo(k) \in Nat
        <3>1. k - 1 \in Nat /\ k - 1 <= k - 1 OBVIOUS
        <3> QED BY <1>1, <3>1, Times
    <2>5. lo(k) < N BY <1>1, <1>2, <2>1, <2>3, <2>4
    <2>6. k <= K BY <1>1, <1>2, <2>5, Sprints DEF Parts
    <2> HIDE DEF K, lo
    <2>7. k \in 1..K BY <1>4, <2>6
    <2>8. j \in DOMAIN sprints[k] BY <1>2, <1>5, <2>1, <2>3, <2>7
    <2>9. sprints[k][j] = i BY <1>5, <2>1, <2>3, <2>7, <2>8
    <2> QED BY <1>4, <2>7, <2>8, <2>9
<1>7. ASSUME NEW k \in DOMAIN sprints, NEW l \in DOMAIN sprints,
             NEW i \in DOMAIN sprints[k], NEW j \in DOMAIN sprints[l],
             tasks[sprints[l][j]].id \in Dep(sprints[k][i])
      PROVE  l < k \/ (l = k /\ j < i)
    <2> DEFINE p == lo(k) + i
               q == lo(l) + j
    <2>1. /\ k \in 1..K /\ l \in 1..K /\ lo(k) \in Nat /\ lo(l) \in Nat
          /\ sprints[k][i] = s[p] /\ p \in 1..N /\ sprints[l][j] = s[q] /\ q \in 1..N
        BY <1>4, <1>5, <1>7
    <2>2. i \in 1..m /\ j \in 1..m
        <3>1. DOMAIN sprints[k] = 1..Len(sprints[k]) /\ DOMAIN sprints[l] = 1..Len(sprints[l])
            BY <1>5, <2>1
        <3>2. Len(sprints[k]) \in 1..m /\ Len(sprints[l]) \in 1..m
            BY <1>5, <2>1
        <3>3. i \in 1..Len(sprints[k]) /\ j \in 1..Len(sprints[l])
            BY <1>7, <3>1
        <3> QED BY ONLY <1>1, <3>2, <3>3
    <2> HIDE DEF p, q
    <2>3. PICK t \in 1..(p - 1) : tasks[s[t]].id = tasks[s[q]].id
        <3>1. \A o \in DOMAIN s : \A d \in Dep(s[o]) : \E t \in 1..(o - 1) : tasks[s[t]].id = d
            BY <1>2 DEF OrderRespectsDeps, s
        <3>2. tasks[s[q]].id \in Dep(s[p]) /\ p \in DOMAIN s BY <1>3, <1>7, <2>1
        <3> QED BY <3>1, <3>2
    <2>4. t = q
        <3>1. t \in 1..N
            <4>1. p \in 1..N BY <2>1
            <4> QED BY ONLY <1>2, <4>1, <2>3
        <3>2. s[t] \in 1..N /\ s[q] \in 1..N
            <4>1. q \in 1..N BY <2>1
            <4> QED BY <1>3, <3>1, <4>1
        <3>3. s[t] = s[q] BY <1>2, <2>3, <3>2 DEF Distinct
        <3> QED BY <1>2, <1>3, <2>1, <3>1, <3>3 DEF Inj
    <2>5. q < p BY <1>2, <2>1, <2>3, <2>4
    <2> USE DEF p, q
    <2>6. CASE l > k
        <3>1. k \in Nat /\ l - 1 \in Nat /\ k <= l - 1 /\ l \in Nat BY <1>4, <2>1, <2>6
        <3>2. k * m <= lo(l) BY <1>1, <3>1, Times
        <3>3. k * m = lo(k) + m BY <1>1, <3>1
        <3> HIDE DEF lo
        <3>4. lo(k) + m <= lo(l) BY <3>2, <3>3
        <3> QED BY <1>1, <2>1, <2>2, <2>5, <3>4
    <2>7. CASE l = k
        <3> HIDE DEF lo
        <3> QED BY <1>1, <2>1, <2>2, <2>5, <2>7
    <2> HIDE DEF lo, p, q
    <2> QED BY <1>4, <2>1, <2>6, <2>7
<1> QED BY <1>6, <1>7 DEF SprintsInOrder, m

\* However the order is cut: each task is in a sprint, and none in an earlier one
\* than a task it depends on, or before it in the same (plan.rs:246-250).
THEOREM SprintsKeepTheOrder == Spec => []SprintsInOrder
<1>1. Init => Sliced
    BY DEF Init, StartSlice, Sliced
<1>2. IInv /\ [Next]_vars => IInv'
    BY CheckIdInv, CheckDepsInv, CountInv, EndOfLoopInv, PopInv, VisitInv, SortedInv, SliceInv,
       StutterInv DEF Next
<1> QED BY InitInv, SlicedStep, SlicedIsInOrder, <1>1, <1>2, PTL DEF Spec
================================================================================
