--------------------------- MODULE LeadDispatchProofs ---------------------------
(***************************************************************************)
(* Proofs about LeadDispatch, for every finite sprint, every dependency     *)
(* relation (acyclic or not), every budget and every timeout.               *)
(***************************************************************************)
EXTENDS LeadDispatch, WellFoundedInduction, TLAPS

States == [Tasks -> TaskState]

\* DepsFirst and NoStranded of any assignment of states.
Ordered(st) ==
    \A t \in Tasks : st[t] \in {"Assigned", "Accepted", "Escalated"} =>
        \A d \in Dep(t) : Met(st, d)

Live(st, d) == d \in Tasks /\ st[d] \in {"Pending", "Assigned", "Escalated"}
Hopeful(st) == \A t \in Tasks : st[t] = "Pending" => \E d \in Dep(t) : Live(st, d)

(***************************************************************************)
(* dep_readiness                                                            *)
(***************************************************************************)
\* A task that is not ready has a first dependency that is not satisfied.
LEMMA FirstUnmetExists ==
  ASSUME NEW st, NEW t \in Tasks, ~Ready(st, t)
  PROVE  \E i \in DOMAIN Deps[t] : FirstUnmet(st, t, i)
<1> DEFINE U == {i \in DOMAIN Deps[t] : ~Met(st, Deps[t][i])}
           R == OpToRel(<, Nat)
<1>1. DOMAIN Deps[t] = 1..Len(Deps[t]) /\ Len(Deps[t]) \in Nat
  BY SprintAssumption
<1>2. U # {} /\ U \subseteq Nat
  BY <1>1 DEF Ready, Dep
<1>3. PICK i \in U : \A j \in U : ~(<<j, i>> \in R)
  <2> HIDE DEF U, R
  <2>1. IsWellFoundedOn(R, Nat)
    BY NatLessThanWellFounded DEF R
  <2> QED
    BY <1>2, <2>1, WFMin
<1>4. \A j \in U : ~(j < i)
  BY <1>2, <1>3 DEF OpToRel
<1>5. \A j \in 1..(i-1) : Met(st, Deps[t][j])
  BY <1>1, <1>4
<1> QED
  BY <1>5 DEF FirstUnmet

(***************************************************************************)
(* dispatch_ready                                                           *)
(***************************************************************************)
\* Only pending tasks move, and a dispatched one was ready.
LEMMA DispatchedSteps ==
  ASSUME NEW st \in States
  PROVE  /\ Dispatched(st) \in States
         /\ \A t \in Tasks : st[t] # "Pending" => Dispatched(st)[t] = st[t]
         /\ \A t \in Tasks : st[t] = "Pending" => Dispatched(st)[t] # "Accepted"
         /\ \A t \in Tasks : st[t] = "Pending" /\ Dispatched(st)[t] \in {"Assigned", "Escalated"}
                => Ready(st, t)
BY DEF Dispatched, States, TaskState

LEMMA DispatchedOrdered ==
  ASSUME NEW st \in States, Ordered(st)
  PROVE  Ordered(Dispatched(st))
<1> DEFINE new == Dispatched(st)
<1>1. \A d : Met(st, d) => Met(new, d)
  BY DispatchedSteps DEF Met
<1>2. ASSUME NEW t \in Tasks, new[t] \in {"Assigned", "Accepted", "Escalated"}
      PROVE  \A d \in Dep(t) : Met(st, d)
  <2>1. CASE st[t] = "Pending"
    BY <1>2, <2>1, DispatchedSteps DEF Ready
  <2>2. CASE st[t] # "Pending"
    BY <1>2, <2>2, DispatchedSteps DEF Ordered
  <2> QED
    BY <2>1, <2>2
<1> HIDE DEF new
<1>3. Ordered(new)
  BY <1>1, <1>2 DEF Ordered
<1> QED
  BY <1>3 DEF new

\* What dispatch_ready leaves pending waits for a dependency that is alive.
LEMMA DispatchedHopeful ==
  ASSUME NEW st \in States
  PROVE  Hopeful(Dispatched(st))
<1> DEFINE new == Dispatched(st)
<1> SUFFICES ASSUME NEW t \in Tasks, new[t] = "Pending"
             PROVE  \E d \in Dep(t) : Live(new, d)
  BY DEF Hopeful
<1>1. st[t] = "Pending" /\ ~Doomed(st, t) /\ ~Ready(st, t)
  BY DEF Dispatched
<1>2. PICK B \in SUBSET Pending(st) :
        t \notin B /\ \A u \in Pending(st) \ B : ~BlockedByDep(st, B, u)
  BY <1>1 DEF Doomed
<1>3. PICK i \in DOMAIN Deps[t] : FirstUnmet(st, t, i)
  BY <1>1, FirstUnmetExists
<1> DEFINE d == Deps[t][i]
<1>4. d \in Dep(t) /\ d \in Tasks \cup Earlier
  BY SprintAssumption DEF Dep
<1>5. ~Dead(st, d) /\ d \notin B /\ ~Met(st, d)
  BY <1>1, <1>2, <1>3 DEF BlockedByDep, Pending, FirstUnmet
<1>6. d \in Tasks
  BY <1>4, <1>5, PriorAssumption DEF Dead, Met
<1>7. st[d] \in {"Pending", "Assigned", "Escalated"}
  BY <1>5, <1>6 DEF Dead, Met, States, TaskState
<1>8. ~Doomed(st, d)
  BY <1>2, <1>5 DEF Doomed
<1>9. new[d] \in {"Pending", "Assigned", "Escalated"}
  BY <1>6, <1>7, <1>8 DEF Dispatched
<1> QED
  BY <1>4, <1>6, <1>9 DEF Live

(***************************************************************************)
(* cascade_blocked                                                          *)
(***************************************************************************)
\* A cascade moves tasks that are neither terminal nor roots, to Blocked.
LEMMA CascadeSteps ==
  ASSUME NEW st \in States, NEW roots
  PROVE  /\ CascadeBlocked(st, roots) \in States
         /\ \A t \in Tasks : CascadeBlocked(st, roots)[t] = st[t] \/
                (st[t] \in {"Pending", "Assigned"} /\ CascadeBlocked(st, roots)[t] = "Blocked"
                 /\ TransitivelyBlocked(roots, t))
BY DEF CascadeBlocked, States, TaskState, Terminal

\* A cascade from tasks that are not accepted reaches no task in progress: the
\* tasks neither accepted nor assigned are closed under dependents.
LEMMA CascadeSparesWork ==
  ASSUME NEW st \in States, Ordered(st), NEW roots \in SUBSET Tasks,
         \A r \in roots : st[r] \notin {"Accepted", "Assigned"},
         NEW t \in Tasks, TransitivelyBlocked(roots, t)
  PROVE  st[t] \notin {"Accepted", "Assigned"}
<1> DEFINE B == {u \in Tasks : st[u] \notin {"Accepted", "Assigned"}}
<1>1. ASSUME NEW u \in Tasks \ B
      PROVE  Dep(u) \cap B = {}
  BY <1>1 DEF Ordered, Met
<1>2. roots \subseteq B /\ B \in SUBSET Tasks
  OBVIOUS
<1>3. t \in B
  <2> HIDE DEF B
  <2> QED
    BY <1>1, <1>2 DEF TransitivelyBlocked
<1> QED
  BY <1>3

LEMMA CascadeOrdered ==
  ASSUME NEW st \in States, Ordered(st), NEW roots \in SUBSET Tasks
  PROVE  Ordered(CascadeBlocked(st, roots))
<1> DEFINE new == CascadeBlocked(st, roots)
<1>1. \A t \in Tasks : new[t] = st[t] \/ (st[t] # "Accepted" /\ new[t] = "Blocked")
  BY CascadeSteps
<1> HIDE DEF new
<1>2. Ordered(new)
  BY <1>1 DEF Ordered, Met
<1> QED
  BY <1>2 DEF new

\* Whatever a cascade leaves pending still waits for a dependency that is alive,
\* if the tasks that changed before are among its roots.
LEMMA CascadeHopeful ==
  ASSUME NEW old \in States, NEW st \in States, NEW roots \in SUBSET Tasks,
         Hopeful(old),
         \A t \in Tasks : t \notin roots => st[t] = old[t],
         \A r \in roots : st[r] # "Pending"
  PROVE  Hopeful(CascadeBlocked(st, roots))
<1> DEFINE new == CascadeBlocked(st, roots)
<1> SUFFICES ASSUME NEW t \in Tasks, new[t] = "Pending"
             PROVE  \E d \in Dep(t) : Live(new, d)
  BY DEF Hopeful
<1>1. st[t] = "Pending" /\ t \notin roots /\ ~TransitivelyBlocked(roots, t)
  BY DEF CascadeBlocked, Terminal
<1>2. PICK B \in SUBSET Tasks :
        /\ t \notin B /\ roots \subseteq B
        /\ \A u \in Tasks \ B : Dep(u) \cap B = {}
  BY <1>1 DEF TransitivelyBlocked
<1>3. PICK d \in Dep(t) : Live(old, d)
  BY <1>1 DEF Hopeful
<1>4. d \in Tasks /\ d \notin B /\ d \notin roots
  BY <1>2, <1>3 DEF Live
<1>5. ~TransitivelyBlocked(roots, d)
  BY <1>2, <1>4 DEF TransitivelyBlocked
<1>6. new[d] = old[d]
  BY <1>4, <1>5 DEF CascadeBlocked
<1> QED
  BY <1>3, <1>6 DEF Live

(***************************************************************************)
(* Type correctness.                                                        *)
(***************************************************************************)
Clocks == [Tasks -> {NoClock, Unseen} \cup 0..Timeout]

LEMMA DispatchReadyType ==
  ASSUME NEW st \in States, NEW clocks \in Clocks, NEW requests \in [Tasks -> Nat],
         DispatchReady(st, clocks, requests)
  PROVE  states' \in States /\ pending_escalations' \in Clocks /\ asked' \in [Tasks -> Nat]
<1>1. states' \in States
  BY DispatchedSteps DEF DispatchReady
<1>2. pending_escalations' \in Clocks
  BY DEF DispatchReady, Clocks, Track
<1>3. asked' \in [Tasks -> Nat]
  BY DEF DispatchReady
<1> QED
  BY <1>1, <1>2, <1>3

LEMMA NextTypeOK == TypeOK /\ [Next]_vars => TypeOK'
<1> SUFFICES ASSUME TypeOK, [Next]_vars
             PROVE  TypeOK'
  OBVIOUS
<1> USE BudgetAssumption
<1>0. /\ states \in States /\ pending_escalations \in Clocks
      /\ \A t \in Tasks : DropClock(t) \in Clocks
      /\ \A t \in Tasks, v \in TaskState : [states EXCEPT ![t] = v] \in States
  BY DEF TypeOK, States, Clocks, DropClock
<1>1. CASE OnStart
  BY <1>0, <1>1, DispatchReadyType DEF OnStart, TypeOK, States, Clocks
<1>2. ASSUME NEW elapsed \in 1..Timeout, OnTick(elapsed)
      PROVE  TypeOK'
  <2>1. states' \in States
    BY <1>0, <1>2, CascadeSteps DEF OnTick
  <2>2. pending_escalations' \in Clocks
    <3>1. \A t \in Tasks : pending_escalations[t] >= 0 /\ t \notin Expired(elapsed)
            => pending_escalations[t] + elapsed \in 0..Timeout
      BY <1>0 DEF Expired, Clocks, NoClock, Unseen
    <3>2. \A t \in Tasks : pending_escalations[t] \in {NoClock, Unseen} \/ pending_escalations[t] >= 0
      BY <1>0 DEF Clocks
    <3> QED
      BY <1>2, <3>1, <3>2 DEF OnTick, Clocks
  <2> QED
    BY <1>2, <2>1, <2>2 DEF OnTick, TypeOK, States, Clocks
<1>3. ASSUME NEW t \in Tasks, OnAnswer(t)
      PROVE  TypeOK'
  <2>1. Answers(t) /\ Answered(t) \in [Tasks -> Nat]
    BY <1>3 DEF OnAnswer, Accept, Rework, GiveUp, OnBlocked, Answers, Answered, TypeOK
  <2>2. CASE Accept(t)
    <3>1. [states EXCEPT ![t] = "Accepted"] \in States
      BY <1>0 DEF TaskState
    <3>2. states' \in States /\ pending_escalations' \in Clocks /\ asked' \in [Tasks -> Nat]
      BY <1>0, <2>1, <2>2, <3>1, DispatchReadyType DEF Accept
    <3> QED
      BY <2>2, <3>2 DEF Accept, TypeOK, States, Clocks
  <2>3. CASE Rework(t)
    BY <2>1, <2>3 DEF Rework, Exhausted, TypeOK
  <2>4. CASE Escalate(t)
    <3>1. Track(t, pending_escalations) \in {NoClock, Unseen} \cup 0..Timeout
      BY <1>0 DEF Track, Clocks
    <3> QED
      BY <2>1, <2>4, <3>1 DEF Escalate, TypeOK, TaskState
  <2> QED
    BY <1>3, <2>2, <2>3, <2>4 DEF OnAnswer, GiveUp, OnBlocked
<1>4. ASSUME NEW t \in Tasks, Approve(t)
      PROVE  TypeOK'
  <2>1. [states EXCEPT ![t] = "Pending"] \in States
    BY <1>0 DEF TaskState
  <2>2. states' \in States /\ pending_escalations' \in Clocks /\ asked' \in [Tasks -> Nat]
    BY <1>0, <1>4, <2>1, DispatchReadyType DEF Approve, TypeOK
  <2>3. rounds_used' \in [Tasks -> 0..MaxRework]
    BY <1>4 DEF Approve, TypeOK
  <2>4. approvals' \in 0..MaxApprovals /\ started' \in BOOLEAN
    BY <1>4 DEF Approve, TypeOK
  <2> QED
    BY <2>2, <2>3, <2>4 DEF TypeOK, States, Clocks
<1>5. ASSUME NEW t \in Tasks, Reject(t)
      PROVE  TypeOK'
  <2>1. [states EXCEPT ![t] = "Blocked"] \in States
    BY <1>0 DEF TaskState
  <2>2. states' \in States
    BY <1>5, <2>1, CascadeSteps DEF Reject
  <2> QED
    BY <1>0, <1>5, <2>2 DEF Reject, TypeOK, States, Clocks
<1>6. CASE UNCHANGED vars
  BY <1>6 DEF vars, TypeOK
<1> QED
  BY <1>1, <1>2, <1>3, <1>4, <1>5, <1>6 DEF Next, Tick

\* Every reachable state is well typed.
THEOREM TypeCorrect == Spec => []TypeOK
<1>1. Init => TypeOK
  <2> SUFFICES ASSUME Init PROVE TypeOK
    OBVIOUS
  <2>1. 0 \in 0..MaxRework /\ 0 \in 0..MaxApprovals
    BY BudgetAssumption
  <2> QED
    BY <2>1 DEF Init, TypeOK, TaskState
<1> QED
  BY <1>1, NextTypeOK, PTL DEF Spec

(***************************************************************************)
(* Dependencies come first.                                                 *)
(***************************************************************************)
\* Moving an escalated task back to pending, or to Blocked, or an assigned one
\* to Accepted or Escalated, leaves the order of the others alone.
LEMMA MoveOrdered ==
  ASSUME NEW st \in States, Ordered(st), NEW t \in Tasks,
         NEW v \in TaskState, st[t] \in {"Assigned", "Escalated"}
  PROVE  Ordered([st EXCEPT ![t] = v])
<1> DEFINE new == [st EXCEPT ![t] = v]
<1>1. \A d : Met(st, d) => Met(new, d)
  BY DEF Met, States
<1>2. \A u \in Tasks : new[u] \in {"Assigned", "Accepted", "Escalated"}
        => st[u] \in {"Assigned", "Accepted", "Escalated"}
  BY DEF States
<1> HIDE DEF new
<1>3. Ordered(new)
  BY <1>1, <1>2 DEF Ordered
<1> QED
  BY <1>3 DEF new

LEMMA NextOrdered == TypeOK /\ Ordered(states) /\ [Next]_vars => Ordered(states)'
<1> SUFFICES ASSUME TypeOK, Ordered(states), [Next]_vars
             PROVE  Ordered(states')
  BY DEF Ordered, Met
<1>0. states \in States
  BY DEF TypeOK, States
<1>1. CASE OnStart
  BY <1>0, <1>1, DispatchedOrdered DEF OnStart, DispatchReady
<1>2. ASSUME NEW elapsed \in 1..Timeout, OnTick(elapsed)
      PROVE  Ordered(states')
  BY <1>0, <1>2, CascadeOrdered DEF OnTick, Expired
<1>3. ASSUME NEW t \in Tasks, OnAnswer(t)
      PROVE  Ordered(states')
  <2>1. states[t] = "Assigned"
    BY <1>3 DEF OnAnswer, Accept, Rework, GiveUp, OnBlocked, Answers
  <2>2. CASE Accept(t)
    <3>1. [states EXCEPT ![t] = "Accepted"] \in States
      BY <1>0 DEF States, TaskState
    <3>2. Ordered([states EXCEPT ![t] = "Accepted"])
      BY <1>0, <2>1, MoveOrdered DEF TaskState
    <3> QED
      BY <2>2, <3>1, <3>2, DispatchedOrdered DEF Accept, DispatchReady
  <2>3. CASE Rework(t)
    BY <2>3 DEF Rework
  <2>4. CASE Escalate(t)
    BY <1>0, <2>1, <2>4, MoveOrdered DEF Escalate, TaskState
  <2> QED
    BY <1>3, <2>2, <2>3, <2>4 DEF OnAnswer, GiveUp, OnBlocked
<1>4. ASSUME NEW t \in Tasks, Approve(t)
      PROVE  Ordered(states')
  <2>1. [states EXCEPT ![t] = "Pending"] \in States
    BY <1>0 DEF States, TaskState
  <2>2. Ordered([states EXCEPT ![t] = "Pending"])
    BY <1>0, <1>4, MoveOrdered DEF Approve, AwaitsHuman, TaskState
  <2> QED
    BY <1>4, <2>1, <2>2, DispatchedOrdered DEF Approve, DispatchReady
<1>5. ASSUME NEW t \in Tasks, Reject(t)
      PROVE  Ordered(states')
  <2>1. [states EXCEPT ![t] = "Blocked"] \in States
    BY <1>0 DEF States, TaskState
  <2>2. Ordered([states EXCEPT ![t] = "Blocked"])
    BY <1>0, <1>5, MoveOrdered DEF Reject, AwaitsHuman, TaskState
  <2> QED
    BY <1>5, <2>1, <2>2, CascadeOrdered DEF Reject
<1>6. CASE UNCHANGED vars
  BY <1>6 DEF vars
<1> QED
  BY <1>1, <1>2, <1>3, <1>4, <1>5, <1>6 DEF Next, Tick

\* A task is assigned, accepted or escalated only after all its dependencies.
THEOREM DependenciesFirst == Spec => []DepsFirst
<1>1. Init => Ordered(states)
  BY DEF Init, Ordered
<1>2. Ordered(states) <=> DepsFirst
  BY DEF Ordered, DepsFirst
<1> QED
  BY <1>1, <1>2, NextOrdered, TypeCorrect, PTL DEF Spec

(***************************************************************************)
(* The steps as moves of the states: what the remaining theorems need.      *)
(***************************************************************************)
DispatchMove ==
    \E st \in States :
        /\ states' = Dispatched(st)
        /\ \/ st = states
           \/ \E t \in Tasks : states[t] = "Assigned" /\ st = [states EXCEPT ![t] = "Accepted"]
           \/ \E t \in Tasks : states[t] = "Escalated" /\ st = [states EXCEPT ![t] = "Pending"]

TimeoutMove ==
    \E roots \in SUBSET Tasks :
        /\ \A r \in roots : pending_escalations[r] # NoClock
        /\ states' = CascadeBlocked(states, roots)

RejectMove ==
    \E t \in Tasks :
        /\ states[t] = "Escalated"
        /\ states' = CascadeBlocked([states EXCEPT ![t] = "Blocked"], {t})

WorkerMove ==
    \E t \in Tasks :
        /\ states[t] = "Assigned"
        /\ states' = states \/ states' = [states EXCEPT ![t] = "Escalated"]

\* A step is a dispatch after at most one move, a cascade after at most one, or
\* one move alone.
LEMMA StepShape ==
  ASSUME TypeOK, Next
  PROVE  DispatchMove \/ TimeoutMove \/ RejectMove \/ WorkerMove
<1>0. /\ states \in States
      /\ \A t \in Tasks, v \in TaskState : [states EXCEPT ![t] = v] \in States
  BY DEF TypeOK, States
<1>1. CASE OnStart
  BY <1>0, <1>1 DEF OnStart, DispatchReady, DispatchMove
<1>2. ASSUME NEW elapsed \in 1..Timeout, OnTick(elapsed)
      PROVE  TimeoutMove
  <2>1. Expired(elapsed) \in SUBSET Tasks
    BY DEF Expired
  <2>2. \A r \in Expired(elapsed) : pending_escalations[r] # NoClock
    BY DEF Expired, NoClock
  <2> QED
    BY <1>2, <2>1, <2>2 DEF OnTick, TimeoutMove
<1>3. ASSUME NEW t \in Tasks, Accept(t)
      PROVE  DispatchMove
  <2>1. [states EXCEPT ![t] = "Accepted"] \in States
    BY <1>0 DEF TaskState
  <2> QED
    BY <1>3, <2>1 DEF Accept, Answers, DispatchReady, DispatchMove
<1>4. ASSUME NEW t \in Tasks, Approve(t)
      PROVE  DispatchMove
  <2>1. [states EXCEPT ![t] = "Pending"] \in States
    BY <1>0 DEF TaskState
  <2> QED
    BY <1>4, <2>1 DEF Approve, AwaitsHuman, DispatchReady, DispatchMove
<1>5. ASSUME NEW t \in Tasks, Rework(t) \/ GiveUp(t) \/ OnBlocked(t)
      PROVE  WorkerMove
  BY <1>5 DEF Rework, GiveUp, OnBlocked, Escalate, Answers, WorkerMove
<1>6. ASSUME NEW t \in Tasks, Reject(t)
      PROVE  RejectMove
  BY <1>6 DEF Reject, AwaitsHuman, RejectMove
<1> QED
  BY <1>1, <1>2, <1>3, <1>4, <1>5, <1>6 DEF Next, Tick, OnAnswer

(***************************************************************************)
(* Clocks and outstanding requests follow the states.                       *)
(***************************************************************************)
Synced == ClockOnlyWhileEscalated /\ AssignedIsAsked

\* dispatch_ready asks for what it assigns and times what it escalates.
LEMMA DispatchReadySynced ==
  ASSUME NEW st \in States, NEW clocks \in Clocks, NEW requests \in [Tasks -> Nat],
         \A t \in Tasks : clocks[t] # NoClock => st[t] = "Escalated",
         \A t \in Tasks : requests[t] = IF st[t] = "Assigned" THEN 1 ELSE 0,
         DispatchReady(st, clocks, requests)
  PROVE  Synced'
<1>1. states' \in States /\ \A t \in Tasks : st[t] # "Pending" => states'[t] = st[t]
  BY DispatchedSteps DEF DispatchReady
<1>2. ClockOnlyWhileEscalated'
  BY <1>1 DEF DispatchReady, ClockOnlyWhileEscalated, Track
<1>3. AssignedIsAsked'
  <2> SUFFICES ASSUME NEW t \in Tasks
               PROVE  asked'[t] = IF states'[t] = "Assigned" THEN 1 ELSE 0
    BY DEF AssignedIsAsked
  <2>1. CASE st[t] = "Pending"
    BY <2>1 DEF DispatchReady
  <2>2. CASE st[t] # "Pending"
    BY <1>1, <2>2 DEF DispatchReady
  <2> QED
    BY <2>1, <2>2
<1> QED
  BY <1>2, <1>3 DEF Synced

\* A cascade that spares assigned and escalated tasks needs no bookkeeping.
LEMMA CascadeSpares ==
  ASSUME NEW st \in States, Ordered(st), NEW roots \in SUBSET Tasks,
         \A r \in roots : st[r] \notin {"Accepted", "Assigned"}
  PROVE  \A t \in Tasks : CascadeBlocked(st, roots)[t] = st[t] \/
             (st[t] = "Pending" /\ CascadeBlocked(st, roots)[t] = "Blocked")
BY CascadeSteps, CascadeSparesWork

LEMMA NextSynced == TypeOK /\ Ordered(states) /\ Synced /\ [Next]_vars => Synced'
<1> SUFFICES ASSUME TypeOK, Ordered(states), Synced, [Next]_vars
             PROVE  Synced'
  OBVIOUS
<1>0. /\ states \in States /\ pending_escalations \in Clocks /\ asked \in [Tasks -> Nat]
      /\ \A t \in Tasks, v \in TaskState : [states EXCEPT ![t] = v] \in States
  BY DEF TypeOK, States, Clocks
<1> USE DEF Synced, ClockOnlyWhileEscalated, AssignedIsAsked
<1>1. CASE OnStart
  <2>1. DispatchReady(states, pending_escalations, asked)
    BY <1>1 DEF OnStart
  <2> QED
    BY <1>0, <2>1, DispatchReadySynced
<1>2. ASSUME NEW elapsed \in 1..Timeout, OnTick(elapsed)
      PROVE  Synced'
  <2>1. /\ Expired(elapsed) \in SUBSET Tasks
        /\ \A r \in Expired(elapsed) : states[r] \notin {"Accepted", "Assigned"}
    BY DEF Expired, NoClock
  <2>2. \A t \in Tasks : states'[t] = states[t] \/
          (states[t] = "Pending" /\ states'[t] = "Blocked")
    BY <1>0, <1>2, <2>1, CascadeSpares DEF OnTick
  <2>3. \A t \in Tasks : pending_escalations'[t] # NoClock => pending_escalations[t] # NoClock
    BY <1>2 DEF OnTick
  <2> QED
    BY <1>2, <2>2, <2>3 DEF OnTick
<1>3. ASSUME NEW t \in Tasks, OnAnswer(t)
      PROVE  Synced'
  <2>0. states[t] = "Assigned" /\ asked[t] = 1
    BY <1>3 DEF OnAnswer, Accept, Rework, GiveUp, OnBlocked, Answers
  <2>1. /\ states[t] = "Assigned" /\ asked[t] = 1
        /\ Answered(t) = [asked EXCEPT ![t] = 0] /\ Answered(t) \in [Tasks -> Nat]
    BY <1>0, <2>0 DEF Answered
  <2>2. CASE Accept(t)
    <3> DEFINE st == [states EXCEPT ![t] = "Accepted"]
               requests == Answered(t)
    <3>1. DispatchReady(st, pending_escalations, requests)
      BY <2>2 DEF Accept
    <3>2. st \in States /\ requests \in [Tasks -> Nat]
      BY <1>0, <2>1 DEF TaskState
    <3>3. \A u \in Tasks : pending_escalations[u] # NoClock => st[u] = "Escalated"
      BY <1>0, <2>1 DEF States
    <3>4. \A u \in Tasks : requests[u] = IF st[u] = "Assigned" THEN 1 ELSE 0
      BY <1>0, <2>1 DEF States
    <3> HIDE DEF st, requests
    <3> QED
      BY <1>0, <3>1, <3>2, <3>3, <3>4, DispatchReadySynced
  <2>3. CASE Rework(t)
    BY <1>0, <2>1, <2>3 DEF Rework
  <2>4. CASE Escalate(t)
    BY <1>0, <2>1, <2>4 DEF Escalate, States, Clocks
  <2> QED
    BY <1>3, <2>2, <2>3, <2>4 DEF OnAnswer, GiveUp, OnBlocked
<1>4. ASSUME NEW t \in Tasks, Approve(t)
      PROVE  Synced'
  <2>1. DispatchReady([states EXCEPT ![t] = "Pending"], DropClock(t), asked)
    BY <1>4 DEF Approve
  <2>2. [states EXCEPT ![t] = "Pending"] \in States /\ DropClock(t) \in Clocks
    BY <1>0 DEF TaskState, DropClock, Clocks
  <2>3. states[t] = "Escalated"
    BY <1>4 DEF Approve, AwaitsHuman
  <2>4. \A u \in Tasks : DropClock(t)[u] # NoClock
           => [states EXCEPT ![t] = "Pending"][u] = "Escalated"
    BY <1>0, <2>3 DEF States, DropClock, Clocks
  <2>5. \A u \in Tasks : asked[u] =
           IF [states EXCEPT ![t] = "Pending"][u] = "Assigned" THEN 1 ELSE 0
    BY <1>0, <2>3 DEF States
  <2> QED
    BY <1>0, <2>1, <2>2, <2>4, <2>5, DispatchReadySynced
<1>5. ASSUME NEW t \in Tasks, Reject(t)
      PROVE  Synced'
  <2> DEFINE st == [states EXCEPT ![t] = "Blocked"]
  <2>1. states[t] = "Escalated" /\ states' = CascadeBlocked(st, {t})
    BY <1>5 DEF Reject, AwaitsHuman
  <2>2. st \in States /\ Ordered(st)
    BY <1>0, <2>1, MoveOrdered DEF TaskState
  <2>3. \A u \in Tasks : st[u] = IF u = t THEN "Blocked" ELSE states[u]
    BY <1>0 DEF States
  <2>4. \A u \in Tasks : states'[u] = st[u] \/ (st[u] = "Pending" /\ states'[u] = "Blocked")
    <3> HIDE DEF st
    <3>1. \A r \in {t} : st[r] \notin {"Accepted", "Assigned"}
      BY <2>3
    <3> QED
      BY <2>1, <2>2, <3>1, CascadeSpares
  <2>5. \A u \in Tasks : u # t =>
           states'[u] = states[u] \/ (states[u] = "Pending" /\ states'[u] = "Blocked")
    BY <2>3, <2>4
  <2>6. states'[t] = "Blocked"
    BY <2>3, <2>4
  <2>7. /\ asked' = asked
        /\ \A u \in Tasks : pending_escalations'[u] = IF u = t THEN NoClock ELSE pending_escalations[u]
    BY <1>0, <1>5 DEF Reject, DropClock, Clocks
  <2> QED
    BY <2>1, <2>5, <2>6, <2>7
<1>6. CASE UNCHANGED vars
  BY <1>6 DEF vars
<1> QED
  BY <1>1, <1>2, <1>3, <1>4, <1>5, <1>6 DEF Next, Tick

LEMMA SyncedAlways == Spec => []Synced
<1>1. Init => Synced
  BY DEF Init, Synced, ClockOnlyWhileEscalated, AssignedIsAsked
<1>2. Init => Ordered(states)
  BY DEF Init, Ordered
<1> QED
  BY <1>1, <1>2, NextOrdered, NextSynced, TypeCorrect, PTL DEF Spec

\* No escalation clock survives its escalation.
THEOREM ClocksFollow == Spec => []ClockOnlyWhileEscalated
BY SyncedAlways, PTL DEF Synced

\* Exactly the assigned tasks have a request outstanding, exactly one.
THEOREM RequestsFollow == Spec => []AssignedIsAsked
BY SyncedAlways, PTL DEF Synced

(***************************************************************************)
(* What a step may never do.                                                *)
(***************************************************************************)
\* Moves that a step makes, given the invariants.
LEMMA StepMoves ==
  ASSUME TypeOK, Ordered(states), Synced, Next, NEW t \in Tasks
  PROVE  /\ states[t] = "Assigned" => states'[t] # "Blocked"
         /\ states[t] \in {"Accepted", "Blocked"} => states'[t] = states[t]
<1>0. states \in States
  BY DEF TypeOK, States
<1>1. CASE DispatchMove
  <2>1. PICK st \in States :
          /\ states' = Dispatched(st)
          /\ \/ st = states
             \/ \E u \in Tasks : states[u] = "Assigned" /\ st = [states EXCEPT ![u] = "Accepted"]
             \/ \E u \in Tasks : states[u] = "Escalated" /\ st = [states EXCEPT ![u] = "Pending"]
    BY <1>1 DEF DispatchMove
  <2>2. st[t] = states[t] \/ (states[t] = "Assigned" /\ st[t] = "Accepted") \/ states[t] = "Escalated"
    BY <1>0, <2>1 DEF States
  <2>3. st[t] # "Pending" => states'[t] = st[t]
    BY <2>1, DispatchedSteps
  <2> QED
    BY <2>2, <2>3
<1>2. CASE TimeoutMove
  <2>1. PICK roots \in SUBSET Tasks :
          /\ \A r \in roots : pending_escalations[r] # NoClock
          /\ states' = CascadeBlocked(states, roots)
    BY <1>2 DEF TimeoutMove
  <2>2. \A r \in roots : states[r] \notin {"Accepted", "Assigned"}
    BY <2>1 DEF Synced, ClockOnlyWhileEscalated
  <2> QED
    BY <1>0, <2>1, <2>2, CascadeSpares
<1>3. CASE RejectMove
  <2>1. PICK u \in Tasks :
          /\ states[u] = "Escalated"
          /\ states' = CascadeBlocked([states EXCEPT ![u] = "Blocked"], {u})
    BY <1>3 DEF RejectMove
  <2> DEFINE st == [states EXCEPT ![u] = "Blocked"]
  <2>2. st \in States /\ Ordered(st) /\ st[u] = "Blocked"
    BY <1>0, <2>1, MoveOrdered DEF States, TaskState
  <2>3. t # u => st[t] = states[t]
    BY <1>0 DEF States
  <2>4. states' = CascadeBlocked(st, {u})
    BY <2>1
  <2> HIDE DEF st
  <2>5. states'[t] = st[t] \/ (st[t] = "Pending" /\ states'[t] = "Blocked")
    <3>1. \A r \in {u} : st[r] \notin {"Accepted", "Assigned"}
      BY <2>2
    <3> QED
      BY <2>2, <2>4, <3>1, CascadeSpares
  <2> QED
    BY <2>1, <2>3, <2>5
<1>4. CASE WorkerMove
  BY <1>0, <1>4 DEF WorkerMove, States
<1> QED
  BY <1>1, <1>2, <1>3, <1>4, StepShape

LEMMA OrderedAlways == Spec => [](TypeOK /\ Ordered(states) /\ Synced)
<1>1. Init => Ordered(states)
  BY DEF Init, Ordered
<1> QED
  BY <1>1, NextOrdered, TypeCorrect, SyncedAlways, PTL DEF Spec

\* No cascade takes an assigned task away from its worker.
THEOREM WorkIsKept == Spec => NoWorkDiscarded
<1>1. TypeOK /\ Ordered(states) /\ Synced /\ [Next]_vars
        => [\A t \in Tasks : states[t] = "Assigned" => states'[t] # "Blocked"]_vars
  BY StepMoves
<1> QED
  BY <1>1, OrderedAlways, PTL DEF Spec, NoWorkDiscarded

\* Accepted and Blocked tasks never change state again.
THEOREM FinalIsFinal == Spec => FinalStates
<1>1. TypeOK /\ Ordered(states) /\ Synced /\ [Next]_vars
        => [\A t \in Tasks : states[t] \in {"Accepted", "Blocked"} => states'[t] = states[t]]_vars
  BY StepMoves
<1> QED
  BY <1>1, OrderedAlways, PTL DEF Spec, FinalStates

(***************************************************************************)
(* No task is stranded.                                                     *)
(***************************************************************************)
LEMMA NextHopeful ==
  ASSUME TypeOK, Synced, [Next]_vars, started => Hopeful(states)
  PROVE  started' => Hopeful(states')
<1>0. states \in States
  BY DEF TypeOK, States
<1>1. CASE DispatchMove
  BY <1>1, DispatchedHopeful DEF DispatchMove
<1>2. CASE UNCHANGED vars
  BY <1>2 DEF vars
<1>3. ASSUME Next, ~DispatchMove
      PROVE  Hopeful(states)
  <2>1. OnStart => DispatchMove
    BY <1>0 DEF OnStart, DispatchReady, DispatchMove
  <2> QED
    BY <1>3, <2>1 DEF Next, Tick, OnTick, OnAnswer, Accept, Rework, GiveUp, OnBlocked,
                      Answers, Approve, Reject, AwaitsHuman, Running
<1>4. CASE Next /\ ~DispatchMove /\ TimeoutMove
  <2>1. PICK roots \in SUBSET Tasks :
          /\ \A r \in roots : pending_escalations[r] # NoClock
          /\ states' = CascadeBlocked(states, roots)
    BY <1>4 DEF TimeoutMove
  <2>2. \A r \in roots : states[r] # "Pending"
    BY <2>1 DEF Synced, ClockOnlyWhileEscalated
  <2> QED
    BY <1>0, <1>3, <1>4, <2>1, <2>2, CascadeHopeful
<1>5. CASE Next /\ ~DispatchMove /\ RejectMove
  <2>1. PICK u \in Tasks :
          /\ states[u] = "Escalated"
          /\ states' = CascadeBlocked([states EXCEPT ![u] = "Blocked"], {u})
    BY <1>5 DEF RejectMove
  <2> DEFINE st == [states EXCEPT ![u] = "Blocked"]
  <2>2. /\ st \in States
        /\ \A t \in Tasks : t \notin {u} => st[t] = states[t]
        /\ \A r \in {u} : st[r] # "Pending"
    BY <1>0 DEF States, TaskState
  <2>3. states' = CascadeBlocked(st, {u})
    BY <2>1
  <2> HIDE DEF st
  <2> QED
    BY <1>0, <1>3, <1>5, <2>2, <2>3, CascadeHopeful
<1>6. CASE Next /\ ~DispatchMove /\ WorkerMove
  <2>1. PICK u \in Tasks :
          /\ states[u] = "Assigned"
          /\ states' = states \/ states' = [states EXCEPT ![u] = "Escalated"]
    BY <1>6 DEF WorkerMove
  <2>2. /\ \A t \in Tasks : states'[t] = "Pending" => states[t] = "Pending"
        /\ \A d : Live(states, d) => Live(states', d)
    BY <1>0, <2>1 DEF States, Live
  <2>3. Hopeful(states)
    BY <1>3, <1>6
  <2> QED
    BY <2>2, <2>3 DEF Hopeful
<1> QED
  BY <1>1, <1>2, <1>4, <1>5, <1>6, StepShape

\* Between two events every pending task waits for a task of the sprint that can
\* still be accepted.
THEOREM NothingStranded == Spec => []NoStranded
<1> DEFINE Inv == started => Hopeful(states)
<1>1. Init => Inv
  BY DEF Init
<1>2. TypeOK /\ Synced /\ Inv /\ [Next]_vars => Inv'
  <2> SUFFICES ASSUME TypeOK, Synced, Inv, [Next]_vars
               PROVE  started' => Hopeful(states')
    BY DEF Hopeful, Live
  <2> QED
    BY NextHopeful
<1>3. Inv <=> NoStranded
  BY DEF NoStranded, Hopeful, Live
<1> HIDE DEF Inv
<1> QED
  BY <1>1, <1>2, <1>3, TypeCorrect, SyncedAlways, PTL DEF Spec
================================================================================
