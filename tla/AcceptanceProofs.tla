---------------------------- MODULE AcceptanceProofs ----------------------------
(***************************************************************************)
(* Proofs about the acceptance of a result: the review conversation         *)
(* (ReviewLoop), the executors and judge (DodExec), and their composition.  *)
(*                                                                          *)
(*   1. how many rounds of the bus the reworks of the Lead use, for every   *)
(*      number of tasks and every pair of budgets;                          *)
(*   2. a process group is only left by an exit or by a refused kill;       *)
(*   3. judge, which knows an outcome only by its text, gives every check   *)
(*      the outcome of its own run;                                         *)
(*   4. the composition implements ReviewLoop, so 1 holds of it.            *)
(***************************************************************************)
EXTENDS Acceptance, FiniteSetTheorems, TLAPS

Parties == {<<worker, lead>>, <<lead, worker>>}
GuardState == [edges : Seq(Parties), rounds : Nat,
               verdict : {"Accepted", "CycleDetected", "ExceededRounds"}]

(***************************************************************************)
(* CorrGuard between two parties.                                           *)
(***************************************************************************)
\* Two parties never close a cycle: whatever the search visits, the only node
\* with an edge to one of them is the other, and that edge is the round trip.
LEMMA TwoPartiesNoCycle ==
  ASSUME NEW E \in SUBSET Parties, NEW from, NEW to, <<from, to>> \in Parties
  PROVE  ~CreatesMultiHopCycle(E, from, to)
BY PartiesAssumption DEF CreatesMultiHopCycle, Parties

\* A hop is accepted unless it exceeds the rounds, and only a reversal counts.
LEMMA TwoPartiesRecord ==
  ASSUME NEW g \in GuardState, NEW from, NEW to, <<from, to>> \in Parties
  PROVE  LET new == Record(g, from, to, MaxRounds) IN
         /\ new \in GuardState
         /\ new.edges = Append(g.edges, <<from, to>>)
         /\ new.rounds = IF IsReversal(g.edges, from, to) THEN g.rounds + 1 ELSE g.rounds
         /\ new.verdict = IF new.rounds > MaxRounds THEN "ExceededRounds" ELSE "Accepted"
<1> DEFINE E == {g.edges[i] : i \in DOMAIN g.edges}
<1>1. E \in SUBSET Parties
  BY DEF GuardState
<1>2. ~(from = to \/ CreatesMultiHopCycle(E, from, to))
  <2>1. from # to
    BY PartiesAssumption DEF Parties
  <2> HIDE DEF E
  <2> QED
    BY <1>1, <2>1, TwoPartiesNoCycle
<1>3. Append(g.edges, <<from, to>>) \in Seq(Parties)
  BY DEF GuardState
<1> QED
  BY <1>2, <1>3, BudgetAssumption DEF Record, GuardState

(***************************************************************************)
(* Type correctness.                                                        *)
(***************************************************************************)
LEMMA HopType ==
  ASSUME TypeOK, NEW t \in Tasks, NEW from, NEW to, NEW p \in {"asked", "answered"},
         <<from, to>> \in Parties, Hop(t, from, to, p)
  PROVE  /\ guard' \in [Tasks -> GuardState]
         /\ phase' \in [Tasks -> {"asked", "answered", "Accepted", "Escalated"}]
         /\ up' \subseteq {lead, worker}
<1>1. guard \in [Tasks -> GuardState]
  BY DEF TypeOK, GuardState, Parties
<1>2. Record(guard[t], from, to, MaxRounds) \in GuardState
  BY <1>1, TwoPartiesRecord
<1>3. guard' \in [Tasks -> GuardState]
  BY <1>1, <1>2 DEF Hop
<1> QED
  BY <1>3 DEF Hop, TypeOK

LEMMA NextTypeOK == TypeOK /\ [Next]_vars => TypeOK'
<1> SUFFICES ASSUME TypeOK, [Next]_vars
             PROVE  TypeOK'
  OBVIOUS
<1> USE BudgetAssumption
<1>0. <<worker, lead>> \in Parties /\ <<lead, worker>> \in Parties
  BY DEF Parties
<1>1. ASSUME NEW t \in Tasks, Result(t)
      PROVE  TypeOK'
  <2>1. Hop(t, worker, lead, "answered") /\ UNCHANGED <<rounds_used, approvals>>
    BY <1>1 DEF Result
  <2> QED
    BY <1>0, <2>1, HopType DEF TypeOK, GuardState, Parties
<1>2. ASSUME NEW t \in Tasks, Rework(t)
      PROVE  TypeOK'
  <2>1. Hop(t, lead, worker, "asked") /\ UNCHANGED approvals
    BY <1>2 DEF Rework
  <2>2. rounds_used' \in [Tasks -> 0..MaxRework]
    BY <1>2 DEF Rework, Exhausted, TypeOK
  <2> QED
    BY <1>0, <2>1, <2>2, HopType DEF TypeOK, GuardState, Parties
<1>3. ASSUME NEW t \in Tasks, Blocked(t) \/ Accept(t) \/ Escalate(t)
      PROVE  TypeOK'
  BY <1>3 DEF Blocked, Accept, Escalate, TypeOK
<1>4. ASSUME NEW t \in Tasks, Approve(t)
      PROVE  TypeOK'
  BY <1>4 DEF Approve, TypeOK
<1>5. CASE UNCHANGED vars
  BY <1>5 DEF vars, TypeOK
<1> QED
  BY <1>1, <1>2, <1>3, <1>4, <1>5 DEF Next, Turn, Verdict

LEMMA InitTypeOK == Init => TypeOK
<1> SUFFICES ASSUME Init PROVE TypeOK
  OBVIOUS
<1>1. NoHops \in GuardState
  BY DEF NoHops, GuardState
<1> QED
  BY <1>1, BudgetAssumption DEF Init, TypeOK, GuardState, Parties

\* Every reachable state of the review conversation is well typed.
THEOREM TypeCorrect == Spec => []TypeOK
BY InitTypeOK, NextTypeOK, PTL DEF Spec

(***************************************************************************)
(* The rounds of a conversation: every change.request uses two, its own and *)
(* that of the result it asks for.                                          *)
(***************************************************************************)
\* One more hop adds itself to the change requests counted, or nothing.
LEMMA ChangesInAppend ==
  ASSUME NEW s \in Seq(Parties), NEW e \in Parties
  PROVE  /\ ChangesIn(s) \in Nat
         /\ ChangesIn(Append(s, e)) = IF e = <<lead, worker>> THEN ChangesIn(s) + 1 ELSE ChangesIn(s)
<1> DEFINE C == {i \in DOMAIN s : s[i] = <<lead, worker>>}
           D == {i \in DOMAIN Append(s, e) : Append(s, e)[i] = <<lead, worker>>}
           n == Len(s) + 1
<1>0. /\ Len(s) \in Nat /\ DOMAIN s = 1..Len(s)
      /\ DOMAIN Append(s, e) = 1..(Len(s) + 1)
      /\ Append(s, e)[Len(s) + 1] = e
      /\ \A i \in 1..Len(s) : Append(s, e)[i] = s[i]
  OBVIOUS
<1>1. C \subseteq 1..Len(s) /\ IsFiniteSet(1..Len(s)) /\ n \notin C
  <2>1. IsFiniteSet(1..Len(s))
    BY <1>0, FS_Interval
  <2> QED
    BY <1>0, <2>1
<1>2. IsFiniteSet(C) /\ Cardinality(C) \in Nat
  BY <1>1, FS_Subset, FS_CardinalityType
<1>3. D = IF e = <<lead, worker>> THEN C \cup {n} ELSE C
  <2>1. \A i \in 1..Len(s) : i \in D <=> i \in C
    BY <1>0
  <2>2. n \in D <=> e = <<lead, worker>>
    <3>1. n \in DOMAIN Append(s, e) /\ Append(s, e)[n] = e
      BY <1>0
    <3> HIDE DEF n
    <3> QED
      BY <3>1
  <2>3. D \subseteq 1..n /\ C \subseteq 1..Len(s) /\ 1..n = (1..Len(s)) \cup {n} /\ n \notin 1..Len(s)
    BY <1>0
  <2> HIDE DEF C, D, n
  <2>4. CASE e = <<lead, worker>>
    <3>1. D = C \cup {n}
      BY <2>1, <2>2, <2>3, <2>4
    <3> QED
      BY <2>4, <3>1
  <2>5. CASE e # <<lead, worker>>
    <3>1. D = C
      BY <2>1, <2>2, <2>3, <2>5
    <3> QED
      BY <2>5, <3>1
  <2> QED
    BY <2>4, <2>5
<1>4. Cardinality(C \cup {n}) = Cardinality(C) + 1
  BY <1>1, <1>2, FS_AddElement
<1>5. ChangesIn(s) = Cardinality(C) /\ ChangesIn(Append(s, e)) = Cardinality(D)
  BY DEF ChangesIn
<1> HIDE DEF C, D
<1> QED
  BY <1>2, <1>3, <1>4, <1>5

RoundsExact ==
    \A t \in Tasks :
        guard[t].rounds + (IF ChangeIsLast(guard[t]) THEN 1 ELSE 0) = 2 * Reworks(t)

\* The Lead judges a result that was the last hop of its conversation.
ResultIsLast ==
    \A t \in Tasks : lead \in up /\ phase[t] = "answered" =>
        guard[t].edges # <<>> /\ guard[t].edges[Len(guard[t].edges)] = <<worker, lead>>

\* How one hop moves the count of the rounds.
LEMMA HopRounds ==
  ASSUME NEW g \in GuardState, NEW from, NEW to, <<from, to>> \in Parties,
         g.rounds + (IF ChangeIsLast(g) THEN 1 ELSE 0) = 2 * ChangesIn(g.edges),
         from = lead => g.edges # <<>> /\ g.edges[Len(g.edges)] = <<worker, lead>>
  PROVE  LET new == Record(g, from, to, MaxRounds) IN
         /\ new.rounds + (IF ChangeIsLast(new) THEN 1 ELSE 0) = 2 * ChangesIn(new.edges)
         /\ ChangesIn(new.edges) = IF from = lead THEN ChangesIn(g.edges) + 1 ELSE ChangesIn(g.edges)
         /\ new.edges # <<>> /\ new.edges[Len(new.edges)] = <<from, to>>
<1> DEFINE new == Record(g, from, to, MaxRounds)
<1>1. /\ new.edges = Append(g.edges, <<from, to>>)
      /\ new.rounds = IF IsReversal(g.edges, from, to) THEN g.rounds + 1 ELSE g.rounds
  BY TwoPartiesRecord
<1>2. g.rounds \in Nat /\ g.edges \in Seq(Parties)
  BY DEF GuardState
<1>3. new.edges # <<>> /\ new.edges[Len(new.edges)] = <<from, to>>
  BY <1>1, <1>2
<1>4. /\ ChangesIn(g.edges) \in Nat
      /\ ChangesIn(new.edges) = IF <<from, to>> = <<lead, worker>> THEN ChangesIn(g.edges) + 1
                                ELSE ChangesIn(g.edges)
  BY <1>1, <1>2, ChangesInAppend
<1>5. /\ lead # worker
      /\ \/ from = worker /\ to = lead
         \/ from = lead /\ to = worker
  BY PartiesAssumption DEF Parties
<1> HIDE DEF new
<1>6. CASE from = worker /\ to = lead
  <2>1. ~ChangeIsLast(new) /\ (IsReversal(g.edges, from, to) <=> ChangeIsLast(g))
    BY <1>3, <1>5, <1>6 DEF ChangeIsLast, IsReversal
  <2>2. new.rounds = g.rounds + (IF ChangeIsLast(g) THEN 1 ELSE 0)
    BY <1>1, <1>2, <2>1
  <2>3. ChangesIn(new.edges) = ChangesIn(g.edges)
    BY <1>4, <1>5, <1>6
  <2> QED
    BY <1>2, <1>3, <1>4, <1>5, <1>6, <2>1, <2>2, <2>3 DEF new
<1>7. CASE from = lead /\ to = worker
  <2>1. ChangeIsLast(new) /\ IsReversal(g.edges, from, to) /\ ~ChangeIsLast(g)
    BY <1>3, <1>5, <1>7 DEF ChangeIsLast, IsReversal
  <2>2. new.rounds = g.rounds + 1
    BY <1>1, <2>1
  <2>3. ChangesIn(new.edges) = ChangesIn(g.edges) + 1
    BY <1>4, <1>7
  <2> QED
    BY <1>2, <1>3, <1>4, <1>7, <2>1, <2>2, <2>3 DEF new
<1> QED
  BY <1>5, <1>6, <1>7

WithinBudget == \A t \in Tasks : Reworks(t) <= Spent(t)

\* Only a guard over its rounds stops a runner, and it stays over them.
Over(t) == guard[t].verdict = "ExceededRounds" /\ guard[t].rounds > MaxRounds
StoppedOver == up # {lead, worker} => \E t \in Tasks : Over(t)

RoundsIInv == RoundsExact /\ ResultIsLast /\ WithinBudget /\ StoppedOver

\* What the steps of a task do to its guard: nothing, or one hop.
LEMMA HopOrNothing ==
  ASSUME TypeOK, [Next]_vars, NEW t \in Tasks
  PROVE  \/ guard'[t] = guard[t]
         \/ Result(t) /\ guard'[t] = Record(guard[t], worker, lead, MaxRounds)
         \/ Rework(t) /\ guard'[t] = Record(guard[t], lead, worker, MaxRounds)
<1>1. ASSUME NEW u \in Tasks, Turn(u) \/ Verdict(u) \/ Approve(u)
      PROVE  \/ guard'[t] = guard[t]
             \/ Result(t) /\ guard'[t] = Record(guard[t], worker, lead, MaxRounds)
             \/ Rework(t) /\ guard'[t] = Record(guard[t], lead, worker, MaxRounds)
  BY <1>1 DEF Turn, Verdict, Result, Blocked, Accept, Rework, Escalate, Approve, Hop, TypeOK
<1> QED
  BY <1>1 DEF Next, vars

LEMMA GuardTyped ==
  ASSUME TypeOK, NEW t \in Tasks
  PROVE  /\ guard[t] \in GuardState /\ guard[t].edges \in Seq(Parties) /\ guard[t].rounds \in Nat
         /\ <<worker, lead>> \in Parties /\ <<lead, worker>> \in Parties /\ worker # lead
BY PartiesAssumption DEF TypeOK, GuardState, Parties

LEMMA RoundsExactStep ==
  TypeOK /\ RoundsExact /\ ResultIsLast /\ [Next]_vars => RoundsExact'
<1> SUFFICES ASSUME TypeOK, RoundsExact, ResultIsLast, [Next]_vars, NEW t \in Tasks
             PROVE  guard'[t].rounds + (IF ChangeIsLast(guard'[t]) THEN 1 ELSE 0)
                        = 2 * ChangesIn(guard'[t].edges)
  BY DEF RoundsExact, Reworks, ChangeIsLast
<1>1. guard[t].rounds + (IF ChangeIsLast(guard[t]) THEN 1 ELSE 0) = 2 * ChangesIn(guard[t].edges)
  BY DEF RoundsExact, Reworks
<1>2. CASE Result(t) /\ guard'[t] = Record(guard[t], worker, lead, MaxRounds)
  BY <1>1, <1>2, GuardTyped, HopRounds
<1>3. CASE Rework(t) /\ guard'[t] = Record(guard[t], lead, worker, MaxRounds)
  <2>1. guard[t].edges # <<>> /\ guard[t].edges[Len(guard[t].edges)] = <<worker, lead>>
    BY <1>3 DEF Rework, ResultIsLast
  <2> QED
    BY <1>1, <1>3, <2>1, GuardTyped, HopRounds
<1> QED
  BY <1>1, <1>2, <1>3, HopOrNothing

LEMMA ResultIsLastStep ==
  TypeOK /\ RoundsExact /\ ResultIsLast /\ [Next]_vars => ResultIsLast'
<1> SUFFICES ASSUME TypeOK, RoundsExact, ResultIsLast, [Next]_vars, NEW t \in Tasks,
                    lead \in up', phase'[t] = "answered"
             PROVE  guard'[t].edges # <<>> /\ guard'[t].edges[Len(guard'[t].edges)] = <<worker, lead>>
  BY DEF ResultIsLast
<1>0. lead \in up
  BY DEF Next, Turn, Verdict, Result, Blocked, Accept, Rework, Escalate, Approve, Hop, vars
<1>1. CASE Result(t) /\ guard'[t] = Record(guard[t], worker, lead, MaxRounds)
  <2>1. guard[t].rounds + (IF ChangeIsLast(guard[t]) THEN 1 ELSE 0) = 2 * ChangesIn(guard[t].edges)
    BY DEF RoundsExact, Reworks
  <2> QED
    BY <1>1, <2>1, GuardTyped, HopRounds
<1>2. CASE Rework(t) /\ guard'[t] = Record(guard[t], lead, worker, MaxRounds)
  <2>1. Hop(t, lead, worker, "asked")
    BY <1>2 DEF Rework
  <2>2. phase'[t] = "asked" \/ lead \notin up'
    BY <2>1 DEF Hop, TypeOK
  <2> QED
    BY <2>2
<1>3. CASE guard'[t] = guard[t] /\ ~Result(t)
  <2>1. ASSUME NEW u \in Tasks, Turn(u) \/ Verdict(u) \/ Approve(u)
        PROVE  phase[t] = "answered"
    BY <1>3, <2>1 DEF Turn, Verdict, Result, Blocked, Accept, Rework, Escalate, Approve, Hop, TypeOK
  <2>2. phase[t] = "answered"
    BY <2>1 DEF Next, vars
  <2> QED
    BY <1>0, <1>3, <2>2 DEF ResultIsLast
<1>4. Result(t) => guard'[t] = Record(guard[t], worker, lead, MaxRounds)
  BY DEF Result, Hop, TypeOK
<1> QED
  BY <1>1, <1>2, <1>3, <1>4, HopOrNothing

\* What an approval adds covers the reworks it forgives.
LEMMA SpentArithmetic ==
  ASSUME NEW A \in Nat, NEW R \in 0..MaxRework, NEW A2, NEW R2,
         \/ R2 = R /\ A2 = A
         \/ R2 = R + 1 /\ A2 = A
         \/ R2 = 0 /\ A2 = A + 1
  PROVE  /\ R + MaxRework * A \in Nat
         /\ R2 + MaxRework * A2 >= R + MaxRework * A
         /\ R2 = R + 1 /\ A2 = A => R2 + MaxRework * A2 = R + MaxRework * A + 1
<1>1. MaxRework \in Nat
  BY BudgetAssumption
<1>2. MaxRework * A \in Nat /\ MaxRework * (A + 1) = MaxRework * A + MaxRework
  BY <1>1
<1> QED
  BY <1>1, <1>2

LEMMA SpentStep ==
  ASSUME TypeOK, [Next]_vars, NEW t \in Tasks
  PROVE  /\ Spent(t) \in Nat
         /\ Spent(t)' >= Spent(t)
         /\ Rework(t) => Spent(t)' = Spent(t) + 1
<1>1. approvals[t] \in Nat /\ rounds_used[t] \in 0..MaxRework
  BY BudgetAssumption DEF TypeOK
<1>2. \/ rounds_used'[t] = rounds_used[t] /\ approvals'[t] = approvals[t]
      \/ rounds_used'[t] = rounds_used[t] + 1 /\ approvals'[t] = approvals[t]
      \/ rounds_used'[t] = 0 /\ approvals'[t] = approvals[t] + 1
  <2>1. ASSUME NEW u \in Tasks, Turn(u) \/ Verdict(u) \/ Approve(u)
        PROVE  \/ rounds_used'[t] = rounds_used[t] /\ approvals'[t] = approvals[t]
               \/ rounds_used'[t] = rounds_used[t] + 1 /\ approvals'[t] = approvals[t]
               \/ rounds_used'[t] = 0 /\ approvals'[t] = approvals[t] + 1
    BY <2>1 DEF Turn, Verdict, Result, Blocked, Accept, Rework, Escalate, Approve, TypeOK
  <2> QED
    BY <2>1 DEF Next, vars
<1>3. Rework(t) => rounds_used'[t] = rounds_used[t] + 1 /\ approvals'[t] = approvals[t]
  BY DEF Rework, TypeOK
<1>4. Spent(t) = rounds_used[t] + MaxRework * approvals[t]
      /\ Spent(t)' = rounds_used'[t] + MaxRework * approvals'[t]
  BY DEF Spent
<1> QED
  BY <1>1, <1>2, <1>3, <1>4, SpentArithmetic

LEMMA WithinBudgetStep ==
  TypeOK /\ RoundsExact /\ ResultIsLast /\ WithinBudget /\ [Next]_vars => WithinBudget'
<1> SUFFICES ASSUME TypeOK, RoundsExact, ResultIsLast, WithinBudget, [Next]_vars, NEW t \in Tasks
             PROVE  ChangesIn(guard'[t].edges) <= Spent(t)'
  BY DEF WithinBudget, Reworks
<1>1. /\ guard[t].rounds + (IF ChangeIsLast(guard[t]) THEN 1 ELSE 0) = 2 * ChangesIn(guard[t].edges)
      /\ ChangesIn(guard[t].edges) <= Spent(t)
      /\ ChangesIn(guard[t].edges) \in Nat
  BY GuardTyped, ChangesInAppend DEF RoundsExact, WithinBudget, Reworks
<1>2. Spent(t) \in Nat /\ Spent(t)' >= Spent(t) /\ (Rework(t) => Spent(t)' = Spent(t) + 1)
  BY SpentStep
<1>3. Spent(t)' \in Nat
  <2>1. TypeOK'
    BY NextTypeOK
  <2>2. rounds_used'[t] \in Nat /\ approvals'[t] \in Nat /\ MaxRework \in Nat
    BY <2>1, BudgetAssumption DEF TypeOK
  <2> QED
    BY <2>2 DEF Spent
<1>4. CASE Result(t) /\ guard'[t] = Record(guard[t], worker, lead, MaxRounds)
  <2>1. ChangesIn(guard'[t].edges) = ChangesIn(guard[t].edges)
    BY <1>1, <1>4, GuardTyped, HopRounds
  <2> QED
    BY <1>1, <1>2, <1>3, <2>1
<1>5. CASE Rework(t) /\ guard'[t] = Record(guard[t], lead, worker, MaxRounds)
  <2>1. guard[t].edges # <<>> /\ guard[t].edges[Len(guard[t].edges)] = <<worker, lead>>
    BY <1>5 DEF Rework, ResultIsLast
  <2>2. ChangesIn(guard'[t].edges) = ChangesIn(guard[t].edges) + 1
    BY <1>1, <1>5, <2>1, GuardTyped, HopRounds
  <2> QED
    BY <1>1, <1>2, <1>3, <1>5, <2>2
<1>6. CASE guard'[t] = guard[t]
  BY <1>1, <1>2, <1>3, <1>6
<1> QED
  BY <1>4, <1>5, <1>6, HopOrNothing

LEMMA StoppedOverStep == TypeOK /\ StoppedOver /\ [Next]_vars => StoppedOver'
<1> SUFFICES ASSUME TypeOK, StoppedOver, [Next]_vars, up' # {lead, worker}
             PROVE  \E t \in Tasks : Over(t)'
  BY DEF StoppedOver
<1>1. ASSUME NEW t \in Tasks, Over(t)
      PROVE  Over(t)'
  <2>1. ASSUME NEW from, NEW to, <<from, to>> \in Parties,
               guard'[t] = Record(guard[t], from, to, MaxRounds)
        PROVE  Over(t)'
    <3>1. guard[t] \in GuardState /\ guard[t].rounds \in Nat /\ MaxRounds \in Nat
      BY GuardTyped, BudgetAssumption
    <3>2. /\ guard'[t].rounds \in Nat /\ guard'[t].rounds >= guard[t].rounds
          /\ guard'[t].rounds > MaxRounds => guard'[t].verdict = "ExceededRounds"
      BY <2>1, <3>1, TwoPartiesRecord
    <3> QED
      BY <1>1, <3>1, <3>2 DEF Over
  <2>2. guard'[t] = guard[t] => Over(t)'
    BY <1>1 DEF Over
  <2> QED
    BY <2>1, <2>2, HopOrNothing, GuardTyped
<1>2. CASE up # {lead, worker}
  BY <1>1, <1>2 DEF StoppedOver
<1>3. CASE up = {lead, worker}
  <2>1. PICK t \in Tasks : \/ Hop(t, worker, lead, "answered")
                           \/ Hop(t, lead, worker, "asked")
    BY <1>3 DEF Next, Turn, Verdict, Result, Blocked, Accept, Rework, Escalate, Approve, vars
  <2>2. ASSUME NEW from, NEW to, NEW p, <<from, to>> \in Parties, Hop(t, from, to, p)
        PROVE  Over(t)'
    <3>1. guard[t] \in GuardState /\ guard'[t] = Record(guard[t], from, to, MaxRounds)
      BY <2>2, GuardTyped DEF Hop, TypeOK
    <3>2. guard'[t].verdict # "Accepted"
      BY <1>3, <2>2, <3>1 DEF Hop
    <3>3. guard'[t].rounds \in Nat /\ MaxRounds \in Nat
          /\ (guard'[t].rounds <= MaxRounds => guard'[t].verdict = "Accepted")
          /\ (guard'[t].rounds > MaxRounds => guard'[t].verdict = "ExceededRounds")
      BY <2>2, <3>1, TwoPartiesRecord, BudgetAssumption DEF GuardState
    <3> QED
      BY <3>2, <3>3 DEF Over
  <2> QED
    BY <2>1, <2>2, GuardTyped
<1> QED
  BY <1>2, <1>3

(***************************************************************************)
(* Whatever the budgets are: a rework uses two rounds, so how many of them  *)
(* the bus lets pass depends on the rounds alone, and only a conversation   *)
(* that has used them up stops a runner.                                    *)
(***************************************************************************)
THEOREM ReworksUseRounds == Spec => []TwoRoundsARework
<1>1. Init => RoundsIInv
  <2> SUFFICES ASSUME Init
               PROVE  RoundsIInv
    OBVIOUS
  <2>1. up = {lead, worker} /\ StoppedOver
    BY DEF Init, StoppedOver
  <2>2. ASSUME NEW t \in Tasks
        PROVE  guard[t].rounds = 0 /\ guard[t].edges = <<>> /\ phase[t] = "asked"
    BY DEF Init, NoHops
  <2>3. ChangesIn(<<>>) = 0
    BY FS_EmptySet DEF ChangesIn
  <2>4. ASSUME NEW t \in Tasks
        PROVE  Spent(t) \in Nat
    BY BudgetAssumption DEF Init, Spent
  <2> QED
    BY <2>1, <2>2, <2>3, <2>4
    DEF RoundsIInv, RoundsExact, ResultIsLast, WithinBudget, Reworks, ChangeIsLast
<1>2. TypeOK /\ RoundsIInv /\ [Next]_vars => RoundsIInv'
  BY RoundsExactStep, ResultIsLastStep, WithinBudgetStep, StoppedOverStep DEF RoundsIInv
<1>3. RoundsIInv => TwoRoundsARework
  BY DEF RoundsIInv, RoundsExact, WithinBudget, StoppedOver, Over, TwoRoundsARework
<1> QED
  BY <1>1, <1>2, <1>3, TypeCorrect, PTL DEF Spec
--------------------------------------------------------------------------------
(***************************************************************************)
(* The inductive invariant of the executors and judge.                      *)
(***************************************************************************)
\* A child belongs to a check that an executor runs now, and the guard is armed
\* until the child is known to have ended or SIGKILL to its group was refused.
ChildOK ==
    /\ child.at # "none" => stage \in Executors /\ at <= Len(dod) /\ Executable(dod[at])
    /\ child.at \in {"running"} \cup Codes => armed
    /\ child.at = "reaping" => child.kill # "group" /\ ~ armed
    /\ child.at = "none" => ~ armed /\ ~ family

\* The first check that executor e has not been at.
Reach(e) ==
    IF stage = e THEN at
    ELSE IF stage = "judge" \/ (stage = "browser" /\ e = "cmd") THEN Len(dod) + 1
    ELSE 1

\* The outcomes of an executor are those of its own checks that parse, in the order
\* of dod, and each of these that it is past has one.
Own(e) ==
    \A i \in DOMAIN outcomes[e] :
        LET o == outcomes[e][i] IN
        /\ o.of < Reach(e) /\ o.run = dod[o.of].run
        /\ dod[o.of].by = e /\ Parses(dod[o.of])
Ordered(e) ==
    \A i, j \in DOMAIN outcomes[e] : i < j => outcomes[e][i].of < outcomes[e][j].of
Complete(e) ==
    \A k \in 1..(Reach(e) - 1) :
        dod[k].by = e /\ Parses(dod[k]) =>
            \E i \in DOMAIN outcomes[e] : outcomes[e][i].of = k
OutcomesOK ==
    stage # "dropped" => \A e \in Executors : Own(e) /\ Ordered(e) /\ Complete(e)

\* judge has used the outcomes of the checks before the one it is at, and has not
\* yet said anything of the others.
UsedOK ==
    \A e \in Executors :
        judged.used[e] = {i \in DOMAIN outcomes[e] : outcomes[e][i].of < at}
JudgedOK ==
    IF stage = "judge" THEN UsedOK /\ judged.failed \subseteq 1..(at - 1)
                       ELSE judged = NoVerdict

\* Checks are executed for a task, and idle is the Lead without one.
JudgingOK ==
    /\ stage \in Executors \cup {"judge"} => judging \in Tasks
    /\ stage = "idle" <=> judging = None

DodIInv ==
    /\ DodTypeOK /\ ChildOK /\ OutcomesOK /\ JudgedOK /\ JudgedByOwnRun /\ NoRunaway

Kinds == Codes \cup {"refused", "timed out", "spawn failed", "no binary"}
Outcome == [of : 1..Len(dod), run : Runs, kind : Kinds]

\* What a report appends.
LEMMA ReportAppends ==
  ASSUME DodTypeOK, stage \in Executors, at <= Len(dod),
         NEW kind \in Kinds, Report(kind), dod' = dod
  PROVE  LET s == outcomes[stage]
             new == outcomes'[stage]
         IN  /\ at' = at + 1 /\ at' \in 1..(Len(dod') + 1)
             /\ outcomes' \in [Executors -> Seq(Outcome')]
             /\ \A e \in Executors : e # stage => outcomes'[e] = outcomes[e]
             /\ Len(s) \in Nat /\ DOMAIN s = 1..Len(s) /\ DOMAIN new = 1..(Len(s) + 1)
             /\ \A i \in 1..Len(s) : new[i] = s[i]
             /\ new[Len(s) + 1] = [of |-> at, run |-> dod[at].run, kind |-> kind]
<1> DEFINE o == [of |-> at, run |-> dod[at].run, kind |-> kind]
<1>0. dod \in Seq(DodCheck) /\ at \in 1..(Len(dod) + 1)
  BY DEF DodTypeOK
<1>1. at \in 1..Len(dod) /\ Len(dod) \in Nat
  BY <1>0
<1>2. dod[at] \in DodCheck
  BY <1>0, <1>1
<1>3. o \in Outcome
  BY <1>1, <1>2 DEF Outcome, DodCheck
<1>4. outcomes \in [Executors -> Seq(Outcome)]
  BY DEF DodTypeOK, Outcome, Kinds
<1>5. outcomes' = [outcomes EXCEPT ![stage] = Append(@, o)] /\ at' = at + 1
  BY DEF Report
<1>6. outcomes[stage] \in Seq(Outcome) /\ outcomes'[stage] = Append(outcomes[stage], o)
  BY <1>4, <1>5
<1>7. Outcome' = Outcome
  BY DEF Outcome, Kinds
<1> HIDE DEF o
<1>8. Append(outcomes[stage], o) \in Seq(Outcome)
  BY <1>3, <1>6
<1>9. outcomes' \in [Executors -> Seq(Outcome)]
  BY <1>4, <1>5, <1>8
<1>10. /\ Len(outcomes[stage]) \in Nat /\ DOMAIN outcomes[stage] = 1..Len(outcomes[stage])
       /\ DOMAIN outcomes'[stage] = 1..(Len(outcomes[stage]) + 1)
       /\ \A i \in 1..Len(outcomes[stage]) : outcomes'[stage][i] = outcomes[stage][i]
       /\ outcomes'[stage][Len(outcomes[stage]) + 1] = o
  BY <1>3, <1>6
<1>11. \A e \in Executors : e # stage => outcomes'[e] = outcomes[e]
  BY <1>4, <1>5
<1> QED
  BY <1>1, <1>5, <1>7, <1>9, <1>10, <1>11 DEF o

\* The steps of DodExec, and what Decide does to its state.
Finish ==
    /\ JudgeEnds
    /\ stage' = "idle" /\ dod' = <<>> /\ at' = 1
    /\ outcomes' = [e \in Executors |-> <<>>] /\ judged' = NoVerdict
    /\ UNCHANGED <<procVars, left>>

DodStep ==
    \/ Executor \/ Fault \/ Process \/ Drop \/ Judge \/ Finish
    \/ \E t \in Tasks : StartChecks(Dod[t])

\* The steps of a check that append its outcome.
Reporting ==
    /\ stage \in Executors /\ at <= Len(dod) /\ Executable(dod[at])
    /\ \E kind \in Kinds : Report(kind)
    /\ UNCHANGED <<dod, stage, judged>>

LEMMA WhoReports ==
  ASSUME DodTypeOK, ChildOK,
         Refuse \/ CannotRun \/ WaitReturns \/ WaitFails \/ Reaped
           \/ (Timeout /\ child'.at # "reaping")
  PROVE  Reporting
<1>1. stage \in Executors /\ at <= Len(dod) /\ Executable(dod[at]) /\ UNCHANGED <<dod, stage, judged>>
  BY DEF Refuse, CannotRun, WaitReturns, WaitFails, Reaped, Timeout, AtCheck, ChildOK, Codes, Executors
<1>2. \E kind \in Kinds : Report(kind)
  <2>1. CASE Refuse
    BY <2>1 DEF Refuse, Kinds
  <2>2. CASE CannotRun
    BY <2>2 DEF CannotRun, Kinds
  <2>3. CASE WaitReturns
    BY <2>3 DEF WaitReturns, Kinds
  <2>4. CASE WaitFails
    BY <2>4 DEF WaitFails, Kinds
  <2>5. CASE Reaped
    BY <2>5 DEF Reaped, Kinds
  <2>6. CASE Timeout /\ child'.at # "reaping"
    <3>1. ~(stage = "browser" /\ child.kill # "group")
      BY <2>6 DEF Timeout, DodTypeOK
    <3> QED
      BY <2>6, <3>1 DEF Timeout, Kinds
  <2> QED
    BY <2>1, <2>2, <2>3, <2>4, <2>5, <2>6
<1> QED
  BY <1>1, <1>2 DEF Reporting

(***************************************************************************)
(* Type correctness of the executors and judge.                             *)
(***************************************************************************)
ProcType ==
    /\ child \in [at : {"none", "running", "reaping"} \cup Codes, kill : {"group", "leader", "none"}]
    /\ family \in BOOLEAN /\ armed \in BOOLEAN
    /\ left \subseteq {"ended", "refused", "killed"}

ListType ==
    /\ dod \in Seq(DodCheck)
    /\ stage \in {"idle", "judge", "dropped"} \cup Executors
    /\ at \in 1..(Len(dod) + 1)
    /\ outcomes \in [Executors -> Seq(Outcome)]

VerdictType == [used : [Executors -> SUBSET Nat], failed : SUBSET Nat, skipped : SUBSET Nat]

LEMMA DodTypeParts == DodTypeOK <=> ProcType /\ ListType /\ judged \in VerdictType
BY DEF DodTypeOK, ProcType, ListType, VerdictType, Outcome, Kinds

LEMMA ForgetType ==
  ASSUME ProcType, NEW why \in {"ended", "refused", "killed"}, NEW alive, Forget(why, alive)
  PROVE  ProcType'
BY DEF Forget, ProcType, NoChild

LEMMA WhyType == Why \in {"ended", "refused", "killed"}
BY DEF Why

LEMMA ProcTypeStep ==
  ASSUME DodTypeOK, DodStep
  PROVE  ProcType'
<1>0. ProcType
  BY DodTypeParts
<1>1. CASE Skip \/ Refuse \/ CannotRun \/ PassEnds \/ Judge \/ Finish
           \/ \E t \in Tasks : StartChecks(Dod[t])
  <2>1. UNCHANGED <<child, family, armed, left>>
    BY <1>1 DEF Skip, Refuse, CannotRun, PassEnds, Judge, Finish, StartChecks, procVars
  <2> QED
    BY <1>0, <2>1 DEF ProcType
<1>2. CASE Spawn
  <2>1. PICK kill \in {"group", "leader", "none"} : child' = [at |-> "running", kill |-> kill]
    BY <1>2 DEF Spawn
  <2>2. armed' = TRUE /\ family' = FALSE /\ left' = left
    BY <1>2 DEF Spawn
  <2> QED
    BY <1>0, <2>1, <2>2 DEF ProcType
<1>3. CASE WaitReturns \/ WaitFails \/ Reaped
  BY <1>0, <1>3, ForgetType, WhyType DEF WaitReturns, WaitFails, Reaped
<1>4. CASE Timeout
  <2>1. CASE stage = "browser" /\ child.kill # "group"
    BY <1>0, <1>4, <2>1 DEF Timeout, ProcType
  <2>2. CASE ~(stage = "browser" /\ child.kill # "group")
    BY <1>0, <1>4, <2>2, ForgetType, WhyType DEF Timeout
  <2> QED
    BY <2>1, <2>2
<1>5. CASE Fork \/ Exit
  BY <1>0, <1>5 DEF Fork, Exit, ProcType
<1>6. CASE Drop
  <2>1. CASE armed
    BY <1>0, <1>6, <2>1, ForgetType, WhyType DEF Drop
  <2>2. CASE ~armed /\ child.at # "none"
    BY <1>0, <1>6, <2>2, ForgetType, WhyType DEF Drop
  <2>3. CASE ~armed /\ child.at = "none"
    <3>1. UNCHANGED <<procVars, left>>
      BY <1>6, <2>3 DEF Drop
    <3>2. UNCHANGED <<child, family, armed, left>>
      BY <3>1 DEF procVars
    <3> QED
      BY <1>0, <3>2 DEF ProcType
  <2> QED
    BY <2>1, <2>2, <2>3
<1> QED
  BY <1>1, <1>2, <1>3, <1>4, <1>5, <1>6 DEF DodStep, Executor, Fault, Process

\* Who moves the pass and its outcomes, and how.
Quiet == UNCHANGED <<dod, at, outcomes>>
Steps ==
    \/ Reporting
    \/ Quiet /\ UNCHANGED stage
    \/ Quiet /\ stage \in Executors /\ stage' = "dropped"
    \/ Skip \/ PassEnds \/ Judge \/ Finish
    \/ \E t \in Tasks : StartChecks(Dod[t])

LEMMA StepKinds ==
  ASSUME DodTypeOK, ChildOK, DodStep
  PROVE  Steps
<1>1. CASE Refuse \/ CannotRun \/ WaitReturns \/ WaitFails \/ Reaped
  BY <1>1, WhoReports DEF Steps
<1>2. CASE Timeout
  <2>1. CASE child'.at # "reaping"
    BY <1>2, <2>1, WhoReports DEF Steps
  <2>2. CASE child'.at = "reaping"
    <3>1. ASSUME ~(stage = "browser" /\ child.kill # "group")
          PROVE  FALSE
      <4>1. child' = NoChild
        BY <1>2, <3>1 DEF Timeout, Forget
      <4> QED
        BY <2>2, <4>1 DEF NoChild
    <3> QED
      BY <1>2, <3>1 DEF Timeout, Steps, Quiet
  <2> QED
    BY <2>1, <2>2
<1>3. CASE Spawn \/ Fork \/ Exit
  BY <1>3 DEF Spawn, Fork, Exit, Steps, Quiet
<1>4. CASE Drop
  BY <1>4 DEF Drop, Steps, Quiet
<1>5. CASE Skip \/ PassEnds \/ Judge \/ Finish \/ \E t \in Tasks : StartChecks(Dod[t])
  BY <1>5 DEF Steps
<1> QED
  BY <1>1, <1>2, <1>3, <1>4, <1>5 DEF DodStep, Executor, Fault, Process

LEMMA ListTypeStep ==
  ASSUME DodTypeOK, Steps
  PROVE  ListType'
<1>0. ListType
  BY DodTypeParts
<1>1. dod \in Seq(DodCheck) /\ Len(dod) \in Nat /\ at \in Nat
  BY <1>0 DEF ListType
<1>2. CASE Reporting
  <2>1. PICK kind \in Kinds : Report(kind)
    BY <1>2 DEF Reporting
  <2>2. at' \in 1..(Len(dod') + 1) /\ outcomes' \in [Executors -> Seq(Outcome')]
    BY <1>2, <2>1, ReportAppends DEF Reporting
  <2> QED
    BY <1>0, <1>2, <2>2 DEF Reporting, ListType
<1>3. ASSUME dod' = dod, outcomes' = outcomes, at' \in 1..(Len(dod) + 1),
             stage' \in {"idle", "judge", "dropped"} \cup Executors
      PROVE  ListType'
  BY <1>0, <1>3 DEF ListType, Outcome
<1>4. CASE Quiet /\ (UNCHANGED stage \/ stage' = "dropped")
  BY <1>0, <1>3, <1>4 DEF Quiet, ListType
<1>5. CASE Skip \/ Judge
  <2>1. at <= Len(dod)
    BY <1>5 DEF Skip, Judge, AtCheck
  <2>2. at' \in 1..(Len(dod) + 1)
    BY <1>1, <1>5, <2>1, <1>0 DEF Skip, Judge, ListType
  <2>3. dod' = dod /\ outcomes' = outcomes /\ stage' = stage
    BY <1>5 DEF Skip, Judge
  <2> QED
    BY <1>0, <1>3, <2>2, <2>3 DEF ListType
<1>6. CASE PassEnds
  <2>1. dod' = dod /\ outcomes' = outcomes /\ stage' \in {"browser", "judge"} /\ at' = 1
    BY <1>6 DEF PassEnds
  <2> QED
    BY <1>1, <1>3, <2>1 DEF Executors
<1>7. ASSUME dod' \in Seq(DodCheck), at' = 1, stage' \in {"idle", "cmd"},
             outcomes' = [e \in Executors |-> <<>>]
      PROVE  ListType'
  <2>1. Len(dod') \in Nat /\ <<>> \in Seq(Outcome')
    BY <1>7
  <2> QED
    BY <1>7, <2>1 DEF ListType, Executors
<1>8. CASE Finish
  <2>1. <<>> \in Seq(DodCheck)
    OBVIOUS
  <2> QED
    BY <1>7, <1>8, <2>1 DEF Finish
<1>9. CASE \E t \in Tasks : StartChecks(Dod[t])
  BY <1>7, <1>9, DodAssumption DEF StartChecks
<1> QED
  BY <1>2, <1>4, <1>5, <1>6, <1>8, <1>9 DEF Steps

(***************************************************************************)
(* The child and its group.                                                 *)
(***************************************************************************)
\* What kill_group, or its fallback, left alive was not SIGKILL's to kill.
LEMMA KilledIsDead ==
  ASSUME DodTypeOK, NoRunaway, NEW alive \in BOOLEAN,
         child.kill = "group" => ~ alive, Forget(Why, alive)
  PROVE  NoRunaway'
<1>1. CASE child.kill = "group"
  BY <1>1 DEF Forget, NoRunaway
<1>2. CASE child.kill # "group"
  <2>1. Why = "refused"
    BY <1>2 DEF Why
  <2> QED
    BY <2>1 DEF Forget, NoRunaway
<1> QED
  BY <1>1, <1>2

LEMMA GroupKillLeavesNothing ==
  /\ child.kill = "group" => ~ Alive(KillGroup) /\ ~ KillGroup.family
  /\ Alive(KillGroup) \in BOOLEAN
BY DEF Alive, KillGroup

LEMMA ChildOKStep ==
  ASSUME DodTypeOK, ChildOK, DodStep
  PROVE  ChildOK'
<1>0. /\ child \in [at : {"none", "running", "reaping"} \cup Codes, kill : {"group", "leader", "none"}]
      /\ "none" \notin {"running"} \cup Codes /\ "reaping" \notin {"running"} \cup Codes
  BY DEF DodTypeOK, Codes
<1>1. ASSUME NEW why, NEW alive, Forget(why, alive)
      PROVE  ChildOK'
  <2>1. child' = [at |-> "none", kill |-> "group"] /\ ~ family' /\ ~ armed'
    BY <1>1 DEF Forget, NoChild
  <2> QED
    BY <1>0, <2>1 DEF ChildOK
<1>2. ASSUME child.at = "none", UNCHANGED <<child, family, armed>>
      PROVE  ChildOK'
  BY <1>0, <1>2 DEF ChildOK
<1>3. CASE Skip \/ Refuse \/ CannotRun
  <2>1. child.at = "none"
    BY <1>3 DEF Skip, Refuse, CannotRun, AtCheck
  <2> QED
    BY <1>2, <1>3, <2>1 DEF Skip, Refuse, CannotRun, procVars
<1>4. CASE PassEnds \/ Judge \/ Finish \/ \E t \in Tasks : StartChecks(Dod[t])
  <2>1. Len(dod) \in Nat /\ at \in Nat
    <3>1. dod \in Seq(DodCheck) /\ at \in 1..(Len(dod) + 1)
      BY DEF DodTypeOK
    <3> QED
      BY <3>1
  <2>2. ~(stage \in Executors /\ at <= Len(dod))
    BY <1>4, <2>1 DEF PassEnds, Judge, Finish, JudgeEnds, StartChecks, Executors
  <2>3. child.at = "none"
    BY <2>2 DEF ChildOK
  <2> QED
    BY <1>2, <1>4, <2>3 DEF PassEnds, Judge, Finish, StartChecks, procVars
<1>5. CASE Spawn
  <2>1. PICK kill \in {"group", "leader", "none"} : child' = [at |-> "running", kill |-> kill]
    BY <1>5 DEF Spawn
  <2>2. /\ stage \in Executors /\ at <= Len(dod) /\ Executable(dod[at])
        /\ armed' = TRUE /\ UNCHANGED <<dod, stage, at>>
    BY <1>5 DEF Spawn, AtCheck
  <2>3. child'.at = "running"
    BY <2>1
  <2> QED
    BY <1>0, <2>2, <2>3 DEF ChildOK, Executable
<1>6. CASE WaitReturns \/ WaitFails \/ Reaped
  BY <1>1, <1>6 DEF WaitReturns, WaitFails, Reaped
<1>7. CASE Timeout
  <2>1. CASE stage = "browser" /\ child.kill # "group"
    <3>1. /\ child' = [child EXCEPT !.at = "reaping"] /\ armed' = FALSE
          /\ UNCHANGED <<dod, stage, at>> /\ child.at # "none"
      BY <1>7, <2>1 DEF Timeout
    <3>2. child'.at = "reaping" /\ child'.kill = child.kill
      BY <1>0, <3>1
    <3> QED
      BY <1>0, <2>1, <3>1, <3>2 DEF ChildOK, Executable
  <2>2. CASE ~(stage = "browser" /\ child.kill # "group")
    BY <1>1, <1>7, <2>2 DEF Timeout
  <2> QED
    BY <2>1, <2>2
<1>8. CASE Fork \/ Exit
  <2>1. child.at = "running" /\ UNCHANGED <<dod, stage, at, armed>>
    BY <1>8 DEF Fork, Exit
  <2>2. child'.at \in {"running"} \cup Codes
    BY <1>0, <1>8 DEF Fork, Exit
  <2> QED
    BY <1>0, <2>1, <2>2 DEF ChildOK, Executable
<1>9. CASE Drop
  <2>1. CASE armed \/ child.at # "none"
    BY <1>1, <1>9, <2>1 DEF Drop
  <2>2. CASE ~armed /\ child.at = "none"
    <3>1. UNCHANGED <<procVars, left>>
      BY <1>9, <2>2 DEF Drop
    <3> QED
      BY <1>2, <2>2, <3>1 DEF procVars
  <2> QED
    BY <2>1, <2>2
<1> QED
  BY <1>3, <1>4, <1>5, <1>6, <1>7, <1>8, <1>9 DEF DodStep, Executor, Fault, Process

LEMMA NoRunawayStep ==
  ASSUME DodTypeOK, ChildOK, NoRunaway, DodStep
  PROVE  NoRunaway'
<1>0. child.kill \in {"group", "leader", "none"} /\ family \in BOOLEAN
  BY DEF DodTypeOK
<1>1. CASE UNCHANGED left
  BY <1>1 DEF NoRunaway
<1>2. CASE Skip \/ Refuse \/ CannotRun \/ PassEnds \/ Judge \/ Finish \/ Spawn \/ Fork \/ Exit
           \/ \E t \in Tasks : StartChecks(Dod[t])
  BY <1>1, <1>2 DEF Skip, Refuse, CannotRun, PassEnds, Judge, Finish, Spawn, Fork, Exit, StartChecks
<1>3. CASE WaitReturns
  BY <1>3 DEF WaitReturns, Forget, NoRunaway
<1>4. CASE WaitFails
  BY <1>4, KilledIsDead, GroupKillLeavesNothing DEF WaitFails
<1>5. CASE Timeout
  <2>1. CASE stage = "browser" /\ child.kill # "group"
    BY <1>1, <1>5, <2>1 DEF Timeout
  <2>2. CASE ~(stage = "browser" /\ child.kill # "group")
    <3> DEFINE alive == child.kill = "none" \/ KillGroup.family
    <3>1. Forget(Why, alive)
      BY <1>5, <2>2 DEF Timeout
    <3>2. child.kill = "group" => ~ alive
      BY GroupKillLeavesNothing
    <3>3. alive \in BOOLEAN
      BY <1>0 DEF KillGroup
    <3> HIDE DEF alive
    <3> QED
      BY <3>1, <3>2, <3>3, KilledIsDead
  <2> QED
    BY <2>1, <2>2
<1>6. CASE Reaped
  <2>1. child.kill # "group"
    BY <1>6 DEF Reaped, ChildOK
  <2> QED
    BY <1>0, <1>6, <2>1, KilledIsDead DEF Reaped
<1>7. CASE Drop
  <2>1. CASE armed
    BY <1>7, <2>1, KilledIsDead, GroupKillLeavesNothing DEF Drop
  <2>2. CASE ~armed /\ child.at # "none"
    <3>1. child.at = "reaping"
      BY <2>2 DEF ChildOK, DodTypeOK
    <3>2. child.kill # "group" /\ Forget(Why, TRUE)
      BY <1>7, <2>2, <3>1 DEF ChildOK, Drop
    <3> QED
      BY <3>2, KilledIsDead
  <2>3. CASE ~armed /\ child.at = "none"
    BY <1>1, <1>7, <2>3 DEF Drop
  <2> QED
    BY <2>1, <2>2, <2>3
<1> QED
  BY <1>2, <1>3, <1>4, <1>5, <1>6, <1>7 DEF DodStep, Executor, Fault, Process

(***************************************************************************)
(* The outcomes of a pass.                                                  *)
(***************************************************************************)
LEMMA Places ==
  ASSUME DodTypeOK
  PROVE  /\ Len(dod) \in Nat /\ at \in Nat /\ 1 <= at /\ at <= Len(dod) + 1
         /\ \A e \in Executors :
                /\ Reach(e) \in Nat
                /\ outcomes[e] \in Seq(Outcome)
                /\ \A i \in DOMAIN outcomes[e] : i \in Nat /\ outcomes[e][i].of \in 1..Len(dod)
<1>1. dod \in Seq(DodCheck) /\ at \in 1..(Len(dod) + 1) /\ outcomes \in [Executors -> Seq(Outcome)]
  BY DodTypeParts DEF ListType
<1>2. Len(dod) \in Nat /\ at \in Nat /\ 1 <= at /\ at <= Len(dod) + 1
  BY <1>1
<1>3. ASSUME NEW e \in Executors
      PROVE  /\ Reach(e) \in Nat
             /\ outcomes[e] \in Seq(Outcome)
             /\ \A i \in DOMAIN outcomes[e] : i \in Nat /\ outcomes[e][i].of \in 1..Len(dod)
  <2>1. outcomes[e] \in Seq(Outcome)
    BY <1>1
  <2>2. ASSUME NEW i \in DOMAIN outcomes[e]
        PROVE  i \in Nat /\ outcomes[e][i] \in Outcome
    BY <2>1
  <2> QED
    BY <1>2, <2>1, <2>2 DEF Reach, Outcome
<1> QED
  BY <1>2, <1>3

LEMMA ReportingOutcomes ==
  ASSUME DodTypeOK, OutcomesOK, Reporting
  PROVE  OutcomesOK'
<1> DEFINE s == outcomes[stage]
           n == Len(s)
<1>1. PICK kind \in Kinds : Report(kind)
  BY DEF Reporting
<1>2. stage \in Executors /\ at <= Len(dod) /\ Executable(dod[at]) /\ dod' = dod /\ stage' = stage
  BY DEF Reporting
<1>3. /\ at' = at + 1
      /\ \A e \in Executors : e # stage => outcomes'[e] = outcomes[e]
      /\ n \in Nat /\ DOMAIN s = 1..n /\ DOMAIN outcomes'[stage] = 1..(n + 1)
      /\ \A i \in 1..n : outcomes'[stage][i] = s[i]
      /\ outcomes'[stage][n + 1] = [of |-> at, run |-> dod[at].run, kind |-> kind]
  BY <1>1, <1>2, ReportAppends
<1> HIDE DEF s, n
<1>4. stage # "dropped" /\ stage # "judge"
  BY <1>2 DEF Executors
<1>5. Reach(stage) = at /\ Reach(stage)' = at + 1
  BY <1>2, <1>3 DEF Reach
<1>6. at \in Nat /\ \A i \in 1..n : s[i].of \in Nat
  BY <1>2, <1>3, Places DEF s
<1>7. Own(stage) /\ Ordered(stage) /\ Complete(stage)
  BY <1>2, <1>4 DEF OutcomesOK
<1>8. Own(stage)'
  <2> SUFFICES ASSUME NEW i \in 1..(n + 1)
               PROVE  LET o == outcomes'[stage][i] IN
                      /\ o.of < at + 1 /\ o.run = dod[o.of].run
                      /\ dod[o.of].by = stage /\ Parses(dod[o.of])
    BY <1>2, <1>3, <1>5 DEF Own, Parses
  <2>1. CASE i \in 1..n
    <3>1. outcomes'[stage][i] = s[i] /\ i \in DOMAIN outcomes[stage]
      BY <1>3, <2>1 DEF s
    <3>2. s[i].of < at
      BY <1>5, <1>7, <3>1 DEF Own, s
    <3>3. s[i].run = dod[s[i].of].run /\ dod[s[i].of].by = stage /\ Parses(dod[s[i].of])
      BY <1>7, <3>1 DEF Own, s
    <3> QED
      BY <1>6, <2>1, <3>1, <3>2, <3>3
  <2>2. CASE i = n + 1
    BY <1>2, <1>3, <1>6, <2>2 DEF Executable
  <2> QED
    BY <1>3, <2>1, <2>2
<1>9. Ordered(stage)'
  <2> SUFFICES ASSUME NEW i \in 1..(n + 1), NEW j \in 1..(n + 1), i < j
               PROVE  outcomes'[stage][i].of < outcomes'[stage][j].of
    BY <1>2, <1>3 DEF Ordered
  <2>1. i \in 1..n /\ i \in DOMAIN outcomes[stage] /\ outcomes'[stage][i] = s[i]
    BY <1>3 DEF s
  <2>2. CASE j \in 1..n
    <3>1. outcomes'[stage][j] = s[j] /\ j \in DOMAIN outcomes[stage]
      BY <1>3, <2>2 DEF s
    <3> QED
      BY <1>7, <2>1, <3>1 DEF Ordered, s
  <2>3. CASE j = n + 1
    <3>1. s[i].of < at
      BY <1>5, <1>7, <2>1 DEF Own, s
    <3> QED
      BY <1>3, <2>1, <2>3, <3>1
  <2> QED
    BY <1>3, <2>2, <2>3
<1>10. Complete(stage)'
  <2> SUFFICES ASSUME NEW k \in 1..at, dod[k].by = stage, Parses(dod[k])
               PROVE  \E i \in 1..(n + 1) : outcomes'[stage][i].of = k
    <3>1. 1..(Reach(stage)' - 1) = 1..at
      BY <1>5, <1>6
    <3> QED
      BY <1>2, <1>3, <3>1 DEF Complete, Parses
  <2>1. CASE k = at
    <3>1. outcomes'[stage][n + 1].of = k /\ n + 1 \in 1..(n + 1)
      BY <1>3, <2>1
    <3> QED
      BY <3>1
  <2>2. CASE k \in 1..(at - 1)
    <3>1. PICK i \in DOMAIN outcomes[stage] : outcomes[stage][i].of = k
      BY <1>5, <1>7, <2>2 DEF Complete
    <3>2. i \in 1..(n + 1) /\ outcomes'[stage][i] = s[i]
      BY <1>3, <3>1 DEF s
    <3> QED
      BY <3>1, <3>2 DEF s
  <2> QED
    BY <1>6, <2>1, <2>2
<1>11. ASSUME NEW e \in Executors, e # stage
       PROVE  (Own(e) /\ Ordered(e) /\ Complete(e))'
  <2>1. outcomes'[e] = outcomes[e] /\ Reach(e)' = Reach(e)
    BY <1>2, <1>3, <1>11 DEF Reach
  <2>2. Own(e) /\ Ordered(e) /\ Complete(e)
    BY <1>4 DEF OutcomesOK
  <2>3. Own(e)'
    BY <1>2, <2>1, <2>2 DEF Own, Parses
  <2>4. Ordered(e)'
    BY <1>2, <2>1, <2>2 DEF Ordered
  <2>5. Complete(e)'
    BY <1>2, <2>1, <2>2 DEF Complete, Parses
  <2> QED
    BY <2>3, <2>4, <2>5
<1> QED
  BY <1>2, <1>8, <1>9, <1>10, <1>11 DEF OutcomesOK

\* A pass that leaves outcomes alone may move on when the check at hand is none of
\* its own, or when it has been at all of them.
LEMMA MovingOn ==
  ASSUME DodTypeOK, OutcomesOK, stage # "dropped", dod' = dod, outcomes' = outcomes,
         \A e \in Executors :
            /\ Reach(e)' \in Nat /\ Reach(e) <= Reach(e)'
            /\ \A k \in Reach(e)..(Reach(e)' - 1) : ~(dod[k].by = e /\ Parses(dod[k]))
  PROVE  OutcomesOK'
<1> SUFFICES ASSUME NEW e \in Executors
             PROVE  (Own(e) /\ Ordered(e) /\ Complete(e))'
  BY DEF OutcomesOK
<1>1. Own(e) /\ Ordered(e) /\ Complete(e)
  BY DEF OutcomesOK
<1>2. Reach(e) \in Nat /\ \A i \in DOMAIN outcomes[e] : outcomes[e][i].of \in Nat
  BY Places
<1>3. Own(e)'
  BY <1>1, <1>2 DEF Own, Parses
<1>4. Ordered(e)'
  BY <1>1 DEF Ordered
<1>5. Complete(e)'
  <2> SUFFICES ASSUME NEW k \in 1..(Reach(e)' - 1), dod[k].by = e, Parses(dod[k])
               PROVE  \E i \in DOMAIN outcomes[e] : outcomes[e][i].of = k
    BY DEF Complete, Parses
  <2>1. k \in 1..(Reach(e) - 1)
    BY <1>2
  <2> QED
    BY <1>1, <2>1 DEF Complete
<1> QED
  BY <1>3, <1>4, <1>5

LEMMA OutcomesOKStep ==
  ASSUME DodTypeOK, OutcomesOK, Steps
  PROVE  OutcomesOK'
<1>0. Len(dod) \in Nat /\ at \in Nat /\ 1 <= at /\ at <= Len(dod) + 1
      /\ \A e \in Executors : Reach(e) \in Nat
  BY Places
<1>1. CASE Reporting
  BY <1>1, ReportingOutcomes
<1>2. CASE stage' = "dropped"
  BY <1>2 DEF OutcomesOK
<1>3. CASE stage' # "dropped" /\ (Judge \/ (Quiet /\ UNCHANGED stage))
  <2>1. dod' = dod /\ outcomes' = outcomes /\ stage' = stage /\ stage # "dropped"
    BY <1>3 DEF Judge, Quiet
  <2>2. ASSUME NEW e \in Executors
        PROVE  Reach(e)' = Reach(e)
    <3>1. stage = "judge" => stage # e
      BY DEF Executors
    <3> QED
      BY <1>3, <2>1, <3>1 DEF Reach, Judge, Quiet
  <2>3. \A e \in Executors : Reach(e)..(Reach(e) - 1) = {}
    BY <1>0
  <2> QED
    BY <1>0, <2>1, <2>2, <2>3, MovingOn
<1>4. CASE Skip
  <2>1. /\ dod' = dod /\ outcomes' = outcomes /\ stage' = stage /\ at' = at + 1
        /\ stage \in Executors /\ ~ Executable(dod[at])
    BY <1>4 DEF Skip, AtCheck
  <2>2. stage # "dropped" /\ stage # "judge"
    BY <2>1 DEF Executors
  <2>3. ASSUME NEW e \in Executors
        PROVE  /\ Reach(e)' \in Nat /\ Reach(e) <= Reach(e)'
               /\ \A k \in Reach(e)..(Reach(e)' - 1) : ~(dod[k].by = e /\ Parses(dod[k]))
    <3>1. CASE e = stage
      <4>1. Reach(e) = at /\ Reach(e)' = at + 1
        BY <2>1, <3>1 DEF Reach
      <4>2. \A k \in at..(at + 1 - 1) : k = at
        BY <1>0
      <4> QED
        BY <1>0, <2>1, <3>1, <4>1, <4>2 DEF Executable
    <3>2. CASE e # stage
      <4>1. Reach(e)' = Reach(e)
        BY <2>1, <3>2 DEF Reach
      <4> QED
        BY <1>0, <4>1
    <3> QED
      BY <3>1, <3>2
  <2> QED
    BY <2>1, <2>2, <2>3, MovingOn
<1>5. CASE PassEnds
  <2>1. /\ dod' = dod /\ outcomes' = outcomes /\ at' = 1
        /\ stage \in {"cmd", "browser"} /\ at = Len(dod) + 1
        /\ stage' = IF stage = "cmd" THEN "browser" ELSE "judge"
    BY <1>0, <1>5 DEF PassEnds, Executors
  <2>2. ASSUME NEW e \in Executors
        PROVE  Reach(e)' = Reach(e)
    BY <2>1 DEF Reach, Executors
  <2>3. \A e \in Executors : Reach(e)..(Reach(e) - 1) = {}
    BY <1>0
  <2> QED
    BY <1>0, <2>1, <2>2, <2>3, MovingOn
<1>6. CASE Finish \/ \E t \in Tasks : StartChecks(Dod[t])
  <2>1. outcomes' = [e \in Executors |-> <<>>] /\ at' = 1 /\ stage' \in {"idle", "cmd"}
    BY <1>6 DEF Finish, StartChecks
  <2>2. ASSUME NEW e \in Executors
        PROVE  (Own(e) /\ Ordered(e) /\ Complete(e))'
    <3>1. DOMAIN outcomes'[e] = {} /\ Reach(e)' = 1
      BY <2>1 DEF Reach
    <3> QED
      BY <3>1 DEF Own, Ordered, Complete
  <2> QED
    BY <2>2 DEF OutcomesOK
<1> QED
  BY <1>1, <1>2, <1>3, <1>4, <1>5, <1>6 DEF Steps, Skip, PassEnds, Judge, Quiet

(***************************************************************************)
(* judge.                                                                   *)
(***************************************************************************)
LEMMA CheckType ==
  ASSUME DodTypeOK, at <= Len(dod)
  PROVE  at \in 1..Len(dod) /\ dod[at].by \in Executors
<1>1. dod \in Seq(DodCheck)
  BY DEF DodTypeOK
<1>2. at \in 1..Len(dod)
  BY Places
<1>3. dod[at] \in DodCheck
  BY <1>1, <1>2
<1> QED
  BY <1>2, <1>3 DEF DodCheck

\* The first unused outcome with the text of a check is its own: it has exactly one,
\* and whatever comes before it belongs to checks that have been judged.
LEMMA MatchIsOwn ==
  ASSUME DodTypeOK, OutcomesOK, UsedOK, stage = "judge", at <= Len(dod), Parses(dod[at])
  PROVE  LET i == Match(judged.used, dod[at]) IN
         /\ i \in DOMAIN outcomes[dod[at].by] /\ i # 0
         /\ OutcomeOf(at) = {i}
<1> DEFINE c == dod[at]
           s == outcomes[c.by]
           free == {i \in DOMAIN s : i \notin judged.used[c.by] /\ s[i].run = c.run}
<1>1. c.by \in Executors /\ at \in 1..Len(dod)
  BY CheckType
<1>2. Own(c.by) /\ Ordered(c.by) /\ Complete(c.by)
  BY <1>1 DEF OutcomesOK
<1>3. \A i \in DOMAIN s : i \in Nat /\ s[i].of \in Nat
  BY <1>1, Places
<1>4. judged.used[c.by] = {i \in DOMAIN s : s[i].of < at}
  BY <1>1 DEF UsedOK
<1>5. PICK i \in DOMAIN s : s[i].of = at
  <2>1. Reach(c.by) = Len(dod) + 1
    BY <1>1 DEF Reach, Executors
  <2>2. at \in 1..(Reach(c.by) - 1)
    BY <1>1, <2>1, Places
  <2> QED
    BY <1>2, <2>2 DEF Complete
<1>6. i \in free
  BY <1>2, <1>3, <1>4, <1>5, Places DEF Own
<1>7. \A j \in DOMAIN s : s[j].of = at => j = i
  BY <1>2, <1>3, <1>5 DEF Ordered
<1>8. \A j \in free : i <= j
  <2> SUFFICES ASSUME NEW j \in free, j < i
               PROVE  FALSE
    BY <1>3, <1>5
  <2>1. s[j].of < at
    BY <1>2, <1>5 DEF Ordered
  <2> QED
    BY <1>4, <2>1
<1>9. \A j \in free : (\A k \in free : j <= k) => j = i
  BY <1>3, <1>6, <1>8
<1>10. Match(judged.used, c) = i
  <2>1. free # {} /\ Match(judged.used, c) = CHOOSE j \in free : \A k \in free : j <= k
    BY <1>6 DEF Match
  <2> HIDE DEF free
  <2> QED
    BY <1>6, <1>8, <1>9, <2>1
<1>11. OutcomeOf(at) = {j \in DOMAIN s : s[j].of = at}
  BY DEF OutcomeOf
<1>12. i # 0
  <2>1. s \in Seq(Outcome)
    BY <1>1, Places
  <2> QED
    BY <1>5, <2>1
<1> HIDE DEF free, s
<1> QED
  BY <1>5, <1>7, <1>10, <1>11, <1>12 DEF s

\* What is said of a check, and that it is the truth.
Right(v, k) ==
    /\ k \in v.failed <=> \E i \in OutcomeOf(k) : Failed(dod[k], outcomes[dod[k].by][i].kind)
    /\ OutcomeOf(k) = {} => k \in v.skipped

LEMMA JudgeOneRight ==
  ASSUME DodTypeOK, OutcomesOK, JudgedOK, JudgedByOwnRun, stage = "judge", at <= Len(dod)
  PROVE  LET v == JudgeOne(judged, at) IN
         /\ v \in VerdictType
         /\ \A e \in Executors : v.used[e] = {i \in DOMAIN outcomes[e] : outcomes[e][i].of < at + 1}
         /\ v.failed \subseteq 1..at
         /\ \A k \in 1..at : Right(v, k)
<1> DEFINE c == dod[at]
           i == Match(judged.used, c)
           kind == outcomes[c.by][i].kind
           v == JudgeOne(judged, at)
<1>0. UsedOK /\ judged.failed \subseteq 1..(at - 1)
  BY DEF JudgedOK
<1>1. judged \in VerdictType /\ at \in Nat /\ 1 <= at /\ at \notin judged.failed
  BY <1>0, Places, DodTypeParts
<1>2. \A k \in 1..(at - 1) : Right(judged, k)
  BY DEF JudgedByOwnRun, Right
<1>3. \A e \in Executors : \A j \in DOMAIN outcomes[e] : outcomes[e][j].of \in Nat
  BY Places
<1>4. CASE ~ Parses(c)
  <2>1. v = [judged EXCEPT !.skipped = @ \cup {at}]
    BY <1>4 DEF JudgeOne
  <2>2. v.used = judged.used /\ v.failed = judged.failed /\ v.skipped = judged.skipped \cup {at}
    BY <1>1, <2>1 DEF VerdictType
  <2>3. ASSUME NEW e \in Executors, NEW j \in DOMAIN outcomes[e]
        PROVE  outcomes[e][j].of # at
    BY <1>4, <2>3 DEF OutcomesOK, Own
  <2>4. OutcomeOf(at) = {}
    <3>1. c.by \in Executors
      BY CheckType
    <3> QED
      BY <2>3, <3>1 DEF OutcomeOf
  <2>5. \A e \in Executors : v.used[e] = {j \in DOMAIN outcomes[e] : outcomes[e][j].of < at + 1}
    BY <1>0, <1>1, <1>3, <2>2, <2>3 DEF UsedOK
  <2>6. v \in VerdictType
    BY <1>1, <2>1 DEF VerdictType
  <2> HIDE DEF v
  <2>7. \A k \in 1..at : Right(v, k)
    <3> SUFFICES ASSUME NEW k \in 1..at PROVE Right(v, k)
      OBVIOUS
    <3>1. CASE k = at
      BY <1>1, <2>2, <2>4, <3>1 DEF Right
    <3>2. CASE k \in 1..(at - 1)
      BY <1>2, <2>2, <3>2 DEF Right
    <3> QED
      BY <1>1, <3>1, <3>2
  <2> QED
    BY <1>0, <1>1, <2>2, <2>5, <2>6, <2>7 DEF v
<1>5. CASE Parses(c)
  <2>1. i \in DOMAIN outcomes[c.by] /\ i # 0 /\ OutcomeOf(at) = {i}
    BY <1>0, <1>5, MatchIsOwn
  <2>2. c.by \in Executors
    BY CheckType
  <2>3. i \in Nat
    BY <2>1, <2>2, Places
  <2>4. v = [used    |-> [judged.used EXCEPT ![c.by] = @ \cup {i}],
             failed  |-> IF Failed(c, kind) THEN judged.failed \cup {at} ELSE judged.failed,
             skipped |-> IF kind = "no binary" THEN judged.skipped \cup {at} ELSE judged.skipped]
    BY <1>5, <2>1 DEF JudgeOne
  <2> HIDE DEF i, v, kind, c
  <2>5. /\ v.used = [judged.used EXCEPT ![c.by] = @ \cup {i}]
        /\ v.failed = IF Failed(c, kind) THEN judged.failed \cup {at} ELSE judged.failed
        /\ v.skipped = IF kind = "no binary" THEN judged.skipped \cup {at} ELSE judged.skipped
    BY <2>4
  <2>6. judged.used \in [Executors -> SUBSET Nat] /\ judged.failed \subseteq Nat /\ judged.skipped \subseteq Nat
    BY <1>1 DEF VerdictType
  <2>7. v \in VerdictType
    <3>1. v.used \in [Executors -> SUBSET Nat] /\ v.failed \subseteq Nat /\ v.skipped \subseteq Nat
      BY <1>1, <2>3, <2>5, <2>6
    <3> QED
      BY <2>4, <3>1 DEF VerdictType
  <2>8. \A j \in DOMAIN outcomes[c.by] : outcomes[c.by][j].of = at <=> j = i
    BY <2>1 DEF OutcomeOf, c
  <2>9. ASSUME NEW e \in Executors, e # c.by, NEW j \in DOMAIN outcomes[e]
        PROVE  outcomes[e][j].of # at
    BY <2>9 DEF OutcomesOK, Own, c
  <2>10. \A e \in Executors : v.used[e] = {j \in DOMAIN outcomes[e] : outcomes[e][j].of < at + 1}
    <3> SUFFICES ASSUME NEW e \in Executors
                 PROVE  v.used[e] = {j \in DOMAIN outcomes[e] : outcomes[e][j].of < at + 1}
      OBVIOUS
    <3>1. judged.used[e] = {j \in DOMAIN outcomes[e] : outcomes[e][j].of < at}
      BY <1>0 DEF UsedOK
    <3>2. CASE e = c.by
      <4>1. v.used[e] = judged.used[e] \cup {i}
        BY <2>5, <2>6, <3>2
      <4>2. \A j \in DOMAIN outcomes[e] : outcomes[e][j].of < at + 1 <=> outcomes[e][j].of < at \/ j = i
        BY <1>1, <1>3, <2>8, <3>2
      <4> QED
        BY <2>1, <3>1, <3>2, <4>1, <4>2
    <3>3. CASE e # c.by
      <4>1. v.used[e] = judged.used[e]
        BY <2>5, <2>6, <3>3
      <4>2. \A j \in DOMAIN outcomes[e] : outcomes[e][j].of < at + 1 <=> outcomes[e][j].of < at
        BY <1>1, <1>3, <2>9, <3>3
      <4> QED
        BY <3>1, <4>1, <4>2
    <3> QED
      BY <3>2, <3>3
  <2>11. v.failed \subseteq 1..at
    <3>1. 1..(at - 1) \subseteq 1..at /\ at \in 1..at
      BY <1>1
    <3>2. v.failed \subseteq judged.failed \cup {at}
      BY <2>5
    <3> QED
      BY <1>0, <3>1, <3>2
  <2>12. \A k \in 1..at : Right(v, k)
    <3> SUFFICES ASSUME NEW k \in 1..at PROVE Right(v, k)
      OBVIOUS
    <3>1. CASE k = at
      <4>1. at \in v.failed <=> Failed(c, kind)
        BY <1>1, <2>5
      <4>2. (\E j \in OutcomeOf(at) : Failed(dod[at], outcomes[dod[at].by][j].kind)) <=> Failed(c, kind)
        BY <2>1 DEF c, kind
      <4>3. OutcomeOf(at) # {}
        BY <2>1
      <4> QED
        BY <3>1, <4>1, <4>2, <4>3 DEF Right
    <3>2. CASE k \in 1..(at - 1)
      <4>1. k # at
        BY <1>1, <3>2
      <4>2. (k \in v.failed <=> k \in judged.failed) /\ (k \in judged.skipped => k \in v.skipped)
        BY <2>5, <4>1
      <4> QED
        BY <1>2, <3>2, <4>2 DEF Right
    <3> QED
      BY <1>1, <3>1, <3>2
  <2> QED
    BY <2>7, <2>10, <2>11, <2>12 DEF v
<1> QED
  BY <1>4, <1>5

\* judge and what it has said stay right: a step of its loop adds what it says of
\* one check, and nothing else changes dod or the outcomes while it runs.
LEMMA JudgedStep ==
  ASSUME DodTypeOK, ChildOK, OutcomesOK, JudgedOK, JudgedByOwnRun, DodStep
  PROVE  judged' \in VerdictType /\ JudgedOK' /\ JudgedByOwnRun'
<1>0. judged \in VerdictType /\ at \in Nat /\ 1 <= at /\ at <= Len(dod) + 1 /\ Len(dod) \in Nat
  BY DodTypeParts, Places
<1>1. CASE Judge
  <2> DEFINE v == JudgeOne(judged, at)
  <2>1. /\ judged' = v /\ at' = at + 1 /\ stage = "judge" /\ stage' = "judge"
        /\ dod' = dod /\ outcomes' = outcomes /\ at <= Len(dod)
    BY <1>1 DEF Judge
  <2>2. /\ v \in VerdictType /\ v.failed \subseteq 1..at
        /\ \A e \in Executors : v.used[e] = {i \in DOMAIN outcomes[e] : outcomes[e][i].of < at + 1}
        /\ \A k \in 1..at : Right(v, k)
    BY <2>1, JudgeOneRight
  <2> HIDE DEF v
  <2>3. 1..(at' - 1) = 1..at
    BY <1>0, <2>1
  <2>4. JudgedOK'
    BY <2>1, <2>2, <2>3 DEF JudgedOK, UsedOK
  <2>5. JudgedByOwnRun'
    <3>1. \A k \in 1..at :
             /\ OutcomeOf(k)' = OutcomeOf(k)
             /\ \A kind : Failed(dod[k], kind)' <=> Failed(dod[k], kind)
      BY <2>1 DEF OutcomeOf
    <3>2. SUFFICES ASSUME NEW k \in 1..at
                   PROVE  /\ k \in v.failed <=> \E i \in OutcomeOf(k) : Failed(dod[k], outcomes[dod[k].by][i].kind)
                          /\ OutcomeOf(k) = {} => k \in v.skipped
      BY <2>1, <2>3, <3>1 DEF JudgedByOwnRun
    <3> QED
      BY <2>2, <3>2 DEF Right
  <2> QED
    BY <2>1, <2>2, <2>4, <2>5
<1>2. CASE Finish
  <2>1. judged' = NoVerdict /\ stage' = "idle"
    BY <1>2 DEF Finish
  <2>2. NoVerdict \in VerdictType
    BY DEF NoVerdict, VerdictType
  <2> QED
    BY <2>1, <2>2 DEF JudgedOK, JudgedByOwnRun
<1>3. CASE PassEnds /\ stage' = "judge"
  <2>1. judged' = NoVerdict /\ at' = 1 /\ outcomes' = outcomes /\ dod' = dod
    <3>1. stage # "judge"
      BY <1>3 DEF PassEnds, Executors
    <3> QED
      BY <1>3, <3>1 DEF PassEnds, JudgedOK
  <2>2. \A e \in Executors : \A i \in DOMAIN outcomes[e] : ~(outcomes[e][i].of < 1)
    BY Places
  <2>3. /\ \A e \in Executors : judged'.used[e] = {}
        /\ judged'.failed = {}
    BY <2>1 DEF NoVerdict
  <2>4. JudgedOK'
    BY <1>3, <2>1, <2>2, <2>3 DEF JudgedOK, UsedOK
  <2>5. JudgedByOwnRun'
    BY <2>1 DEF JudgedByOwnRun
  <2> QED
    BY <1>0, <1>3, <2>1, <2>4, <2>5 DEF PassEnds
<1>4. ASSUME UNCHANGED judged, stage # "judge", stage' # "judge"
      PROVE  judged' \in VerdictType /\ JudgedOK' /\ JudgedByOwnRun'
  BY <1>0, <1>4 DEF JudgedOK, JudgedByOwnRun
<1>5. CASE \E t \in Tasks : StartChecks(Dod[t])
  BY <1>4, <1>5 DEF StartChecks
<1>6. CASE stage \in Executors /\ UNCHANGED judged /\ (UNCHANGED stage \/ stage' \in {"browser", "dropped"})
  BY <1>4, <1>6 DEF Executors
<1>7. CASE PassEnds /\ stage' # "judge"
  BY <1>6, <1>7 DEF PassEnds
<1>8. CASE Skip \/ Refuse \/ Spawn \/ CannotRun
  BY <1>6, <1>8 DEF Skip, Refuse, Spawn, CannotRun, AtCheck
<1>9. CASE WaitReturns \/ WaitFails \/ Timeout \/ Reaped \/ Drop
  BY <1>6, <1>9 DEF WaitReturns, WaitFails, Timeout, Reaped, Drop, Executors
<1>10. CASE Fork \/ Exit
  <2>1. child.at # "none"
    BY <1>10 DEF Fork, Exit
  <2> QED
    BY <1>6, <1>10, <2>1 DEF ChildOK, Fork, Exit
<1> QED
  BY <1>1, <1>2, <1>3, <1>5, <1>7, <1>8, <1>9, <1>10 DEF DodStep, Executor, Fault, Process

LEMMA DodIInvStep == DodIInv /\ (DodStep \/ UNCHANGED dodVars) => DodIInv'
<1>1. CASE UNCHANGED dodVars
  <2> SUFFICES ASSUME DodIInv
               PROVE  DodIInv'
    OBVIOUS
  <2>1. UNCHANGED <<dod, stage, at, child, family, armed, outcomes, judged, left>>
    BY <1>1 DEF dodVars, procVars
  <2>2. DodTypeOK' /\ ChildOK' /\ NoRunaway'
    BY <2>1 DEF DodIInv, DodTypeOK, ChildOK, Executable, Parses, NoRunaway
  <2>3. OutcomesOK'
    BY <2>1 DEF DodIInv, OutcomesOK, Own, Ordered, Complete, Reach, Parses
  <2>4. JudgedOK'
    BY <2>1 DEF DodIInv, JudgedOK, UsedOK
  <2>5. JudgedByOwnRun'
    <3>1. \A k : OutcomeOf(k)' = OutcomeOf(k)
      BY <2>1 DEF OutcomeOf
    <3> QED
      BY <2>1, <3>1 DEF DodIInv, JudgedByOwnRun, Failed, Expected
  <2> QED
    BY <2>2, <2>3, <2>4, <2>5 DEF DodIInv
<1>2. ASSUME DodIInv, DodStep
      PROVE  DodIInv'
  <2> USE <1>2 DEF DodIInv
  <2>1. Steps
    BY StepKinds
  <2>2. ProcType' /\ ListType'
    BY <2>1, ProcTypeStep, ListTypeStep
  <2>3. ChildOK' /\ OutcomesOK' /\ NoRunaway'
    BY <2>1, ChildOKStep, OutcomesOKStep, NoRunawayStep
  <2>4. judged' \in VerdictType /\ JudgedOK' /\ JudgedByOwnRun'
    BY JudgedStep
  <2>5. DodTypeOK'
    BY <2>2, <2>4 DEF DodTypeOK, ProcType, ListType, VerdictType, Outcome, Kinds
  <2> QED
    BY <2>3, <2>4, <2>5
<1> QED
  BY <1>1, <1>2

(***************************************************************************)
(* The composition.                                                         *)
(***************************************************************************)
\* A step of the Lead and its worker is a step of the executors or leaves them
\* alone; Decide is the only one that reads what judge said.
LEMMA AcceptanceDodStep == AcceptanceNext => DodStep \/ UNCHANGED dodVars
BY DEF AcceptanceNext, WorkerTurn, TakeResult, Decide, HumanApproves, Stopped, Checks,
       DodStep, Finish

LEMMA JudgingOKStep ==
  ASSUME DodTypeOK, ChildOK, JudgingOK, AcceptanceNext
  PROVE  JudgingOK'
<1>1. CASE WorkerTurn \/ HumanApproves
  BY <1>1 DEF WorkerTurn, HumanApproves, dodVars, JudgingOK
<1>2. CASE TakeResult
  BY <1>2, NoneAssumption DEF TakeResult, StartChecks, JudgingOK, Executors
<1>3. CASE Decide
  BY <1>3 DEF Decide, JudgingOK, Executors
<1>4. CASE Stopped
  <2>1. stage \in Executors /\ stage' = "dropped" /\ judging' = judging
    BY <1>4 DEF Stopped, Drop
  <2> QED
    BY <2>1, NoneAssumption DEF JudgingOK, Executors
<1>5. ASSUME stage \in Executors \cup {"judge"}, stage' \in Executors \cup {"judge"},
             judging' = judging
      PROVE  JudgingOK'
  BY <1>5, NoneAssumption DEF JudgingOK, Executors
<1>6. CASE Checks \/ ((Fault \/ Process) /\ UNCHANGED <<vars, judging>>)
  <2>1. judging' = judging
    BY <1>6 DEF Checks
  <2>2. CASE Skip \/ Refuse \/ Spawn \/ CannotRun \/ PassEnds \/ Judge
    BY <1>5, <2>1, <2>2 DEF Skip, Refuse, Spawn, CannotRun, PassEnds, Judge, AtCheck, Executors
  <2>3. CASE WaitReturns \/ WaitFails \/ Timeout \/ Reaped
    BY <1>5, <2>1, <2>3 DEF WaitReturns, WaitFails, Timeout, Reaped, Executors
  <2>4. CASE Fork \/ Exit
    <3>1. stage \in Executors /\ stage' = stage
      BY <2>4 DEF Fork, Exit, ChildOK
    <3> QED
      BY <1>5, <2>1, <3>1
  <2> QED
    BY <1>6, <2>2, <2>3, <2>4 DEF Checks, Executor, Fault, Process
<1> QED
  BY <1>1, <1>2, <1>3, <1>4, <1>6 DEF AcceptanceNext

\* Every step of the composition is one of the review conversation, or a stutter.
LEMMA AcceptanceStepIsReviewStep ==
  JudgingOK /\ [AcceptanceNext]_AcceptanceVars => [Next]_vars
<1> SUFFICES ASSUME JudgingOK, [AcceptanceNext]_AcceptanceVars
             PROVE  [Next]_vars
  OBVIOUS
<1>1. CASE WorkerTurn
  BY <1>1 DEF WorkerTurn, Next
<1>2. CASE Decide
  <2>1. judging \in Tasks
    BY <1>2 DEF Decide, JudgeEnds, JudgingOK
  <2>2. Verdict(judging)
    BY <1>2 DEF Decide, Verdict
  <2> QED
    BY <2>1, <2>2 DEF Next
<1>3. CASE HumanApproves
  BY <1>3 DEF HumanApproves, Next
<1>4. CASE TakeResult \/ Stopped \/ Checks \/ ((Fault \/ Process) /\ UNCHANGED <<vars, judging>>)
  BY <1>4 DEF TakeResult, Stopped, Checks
<1>5. CASE UNCHANGED AcceptanceVars
  BY <1>5 DEF AcceptanceVars
<1> QED
  BY <1>1, <1>2, <1>3, <1>4, <1>5 DEF AcceptanceNext

AcceptanceIInv == DodIInv /\ JudgingOK

LEMMA AcceptanceIInvAlways == AcceptanceSpec => []AcceptanceIInv
<1>1. AcceptanceInit => AcceptanceIInv
  <2> SUFFICES ASSUME DodInit, judging = None
               PROVE  AcceptanceIInv
    BY DEF AcceptanceInit
  <2>1. DodTypeOK
    <3>1. dod = <<>> /\ Len(dod) = 0 /\ dod \in Seq(DodCheck) /\ at \in 1..(Len(dod) + 1)
      BY DEF DodInit
    <3>2. \A S : outcomes \in [Executors -> Seq(S)]
      BY DEF DodInit
    <3>3. judged \in VerdictType /\ ProcType /\ stage = "idle"
      BY DEF DodInit, NoVerdict, NoChild, VerdictType, ProcType
    <3> QED
      BY <3>1, <3>2, <3>3, DodTypeParts DEF ListType
  <2>2. ChildOK /\ JudgedOK /\ JudgedByOwnRun /\ NoRunaway /\ JudgingOK
    BY DEF DodInit, ChildOK, JudgedOK, JudgedByOwnRun, NoRunaway, JudgingOK, NoChild, Codes, Executors
  <2>3. \A e \in Executors : DOMAIN outcomes[e] = {} /\ Reach(e) = 1
    BY DEF DodInit, Reach, Executors
  <2>4. OutcomesOK
    BY <2>3 DEF OutcomesOK, Own, Ordered, Complete
  <2> QED
    BY <2>1, <2>2, <2>4 DEF AcceptanceIInv, DodIInv
<1>2. AcceptanceIInv /\ [AcceptanceNext]_AcceptanceVars => AcceptanceIInv'
  <2> SUFFICES ASSUME AcceptanceIInv, [AcceptanceNext]_AcceptanceVars
               PROVE  AcceptanceIInv'
    OBVIOUS
  <2>1. DodIInv'
    BY AcceptanceDodStep, DodIInvStep DEF AcceptanceIInv, AcceptanceVars
  <2>2. JudgingOK'
    BY JudgingOKStep DEF AcceptanceIInv, DodIInv, AcceptanceVars, dodVars, JudgingOK
  <2> QED
    BY <2>1, <2>2 DEF AcceptanceIInv
<1> QED
  BY <1>1, <1>2, PTL DEF AcceptanceSpec

(***************************************************************************)
(* The theorems of the composition.                                         *)
(***************************************************************************)
\* For every dod of every task, judge gives each check the outcome of its own run,
\* although it matches them by text (dod_exec.rs judge): the executors run the very
\* checks that judge takes an outcome for, in the same order.
THEOREM OwnRunJudged == AcceptanceSpec => []JudgedByOwnRun
<1>1. AcceptanceIInv => JudgedByOwnRun
  BY DEF AcceptanceIInv, DodIInv
<1> QED
  BY <1>1, AcceptanceIInvAlways, PTL

\* Whatever a command does and whenever it ends, its timeout fires or the Lead is
\* aborted, no group is left that SIGKILL would have reached (cmd_exec.rs
\* ProcessGroupGuard, cleanup_after_timeout, browser_exec.rs).
THEOREM NoGroupLeft == AcceptanceSpec => []NoRunaway
<1>1. AcceptanceIInv => NoRunaway
  BY DEF AcceptanceIInv, DodIInv
<1> QED
  BY <1>1, AcceptanceIInvAlways, PTL

\* The state of the composition is well typed.
THEOREM AcceptanceTypeCorrect == AcceptanceSpec => []AcceptanceTypeOK
<1>1. AcceptanceInit => Init
  BY DEF AcceptanceInit
<1>2. AcceptanceIInv /\ [AcceptanceNext]_AcceptanceVars => [Next]_vars
  BY AcceptanceStepIsReviewStep DEF AcceptanceIInv
<1>3. AcceptanceIInv => DodTypeOK
  BY DEF AcceptanceIInv, DodIInv
<1>4. Init => TypeOK
  BY InitTypeOK
<1>5. AcceptanceInit => judging \in Tasks \cup {None}
  BY DEF AcceptanceInit
<1>6. judging \in Tasks \cup {None} /\ [AcceptanceNext]_AcceptanceVars => (judging \in Tasks \cup {None})'
  BY DEF AcceptanceNext, AcceptanceVars, WorkerTurn, TakeResult, Decide, HumanApproves, Stopped, Checks
<1>7. TypeOK /\ DodTypeOK /\ judging \in Tasks \cup {None} => AcceptanceTypeOK
  BY DEF AcceptanceTypeOK
<1> QED
  BY <1>1, <1>2, <1>3, <1>4, <1>5, <1>6, <1>7, NextTypeOK, AcceptanceIInvAlways, PTL
  DEF AcceptanceSpec

\* The Lead that executes checks is the Lead of the review conversation: it takes
\* one result at a time and decides on the one it took (dispatch.rs on_envelope).
THEOREM ImplementsReviewLoop == AcceptanceSpec => Spec
<1>1. AcceptanceInit => Init
  BY DEF AcceptanceInit
<1>2. AcceptanceIInv /\ [AcceptanceNext]_AcceptanceVars => [Next]_vars
  BY AcceptanceStepIsReviewStep DEF AcceptanceIInv
<1> QED
  BY <1>1, <1>2, AcceptanceIInvAlways, PTL DEF AcceptanceSpec, Spec

\* So every rework uses two rounds of the bus whatever the checks do, and only
\* reworks stop a runner.
THEOREM AcceptanceReworksUseRounds == AcceptanceSpec => []TwoRoundsARework
BY ReworksUseRounds, ImplementsReviewLoop, PTL
================================================================================
