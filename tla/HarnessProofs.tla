------------------------------ MODULE HarnessProofs ------------------------------
(***************************************************************************)
(* Proofs about the harnesses: the slot pool (HarnessPool), for every finite *)
(* set of workers and every limit, backoff and cooldown, and a worker's turn  *)
(* on a CLI session under its runner (HarnessTurn, AgentRunner), for every    *)
(* channel capacity and any number of turns, lines, swaps and faults.        *)
(***************************************************************************)
EXTENDS HarnessPool, AgentRunner, FiniteSetTheorems, TLAPS

(***************************************************************************)
(* The pool.                                                                *)
(***************************************************************************)
Holders == {w \in Workers : pc[w] \in {"got", "turn"}}

\* What sums up the slots: their number is right, and whoever parks leaves at
\* least one of them taken.
Slots ==
    /\ active = Cardinality(Holders)
    /\ \A w \in Workers : pc[w] = "parked" => active >= 1

\* The numbers of the limit and the places, without the bound on `active` that
\* needs Slots.
LEMMA HoldersFinite == IsFiniteSet(Holders) /\ Cardinality(Holders) \in Nat
<1>1. Holders \subseteq Workers
  BY DEF Holders
<1> QED
  BY <1>1, PoolAssumption, FS_Subset, FS_CardinalityType

\* A recovery raises the limit to at most its base.
LEMMA RecoveredRange ==
  ASSUME PoolTypeOK
  PROVE  /\ Recovered \in 1..Base /\ current <= Recovered
         /\ RecoveredReport \in {None} \cup 0..Enough
<1>1. /\ current \in 1..Base /\ Base \in Nat \ {0} /\ Recovery \in Nat \ {0}
      /\ last_report = None \/ last_report \in 0..Enough
  BY PoolAssumption DEF PoolTypeOK
<1>2. Steps \in Nat
  BY <1>1 DEF Steps
<1>3. Recovered \in 1..Base /\ current <= Recovered
  BY <1>1, <1>2 DEF Recovered, Least
<1>4. last_report # None => last_report % Recovery \in 0..Enough
  <2>1. Recovery * Base >= Recovery
    BY <1>1
  <2>2. ASSUME last_report # None PROVE last_report % Recovery \in 0..(Recovery - 1)
    BY <1>1, <2>2 DEF Enough
  <2> QED
    BY <1>1, <2>1, <2>2 DEF Enough
<1> QED
  BY <1>3, <1>4 DEF RecoveredReport

(***************************************************************************)
(* Type correctness and the slots are one invariant: `active` stays in its  *)
(* range because it counts the holders.                                     *)
(***************************************************************************)
PoolInv == PoolTypeOK /\ Slots

\* The other variables of an action that leaves the slots alone.
LEMMA HoldersKept ==
  ASSUME Holders' = Holders, UNCHANGED active, Slots,
         \A w \in Workers : pc'[w] = "parked" => pc[w] = "parked"
  PROVE  Slots'
BY DEF Slots

\* Releasing a slot: the holder gives it up and nobody stays parked.
LEMMA ReleaseKeeps ==
  ASSUME PoolInv, NEW w \in Workers, pc[w] = "turn",
         NEW place \in {"idle", "limited"}, Release(w, place)
  PROVE  PoolInv'
<1>1. w \in Holders /\ IsFiniteSet(Holders) /\ active = Cardinality(Holders)
  BY HoldersFinite DEF Holders, PoolInv, Slots
<1>2. /\ Cardinality(Holders \ {w}) = Cardinality(Holders) - 1
      /\ Cardinality(Holders \ {w}) \in Nat
  BY <1>1, FS_RemoveElement, FS_CardinalityType
<1>3. /\ pc' \in [Workers -> Place]
      /\ \A v \in Workers : pc'[v] = IF v = w THEN place ELSE Woken(pc[v])
  BY DEF Release, Woken, PoolInv, PoolTypeOK, Place
<1>4. Holders' = Holders \ {w}
  BY <1>3 DEF Holders, Woken, PoolInv, PoolTypeOK, Place
<1>5. active' = active - 1 /\ active' \in 0..Base
  BY <1>1, <1>2, PoolAssumption DEF Release, Returned, PoolInv, PoolTypeOK
<1>6. Slots'
  BY <1>1, <1>2, <1>3, <1>4, <1>5 DEF Slots, Woken
<1>7. PoolTypeOK'
  BY <1>3, <1>5 DEF Release, PoolInv, PoolTypeOK, backoff
<1> QED
  BY <1>6, <1>7 DEF PoolInv

\* Taking a slot, or parking because all are taken.
LEMMA TryKeeps ==
  ASSUME PoolInv, NEW w \in Workers, Try(w)
  PROVE  PoolInv'
<1>1. /\ Recovered \in 1..Base /\ RecoveredReport \in {None} \cup 0..Enough
      /\ current' = Recovered /\ last_report' = RecoveredReport
  BY RecoveredRange DEF PoolInv, Try
<1>2. w \in Workers \ Holders /\ IsFiniteSet(Holders) /\ active = Cardinality(Holders)
      /\ active \in 0..Base /\ Base \in Nat \ {0}
  BY HoldersFinite, PoolAssumption DEF Holders, PoolInv, Slots, PoolTypeOK, Try
<1>3. CASE Free(Recovered)
  <2>1. /\ pc' = [pc EXCEPT ![w] = "got"] /\ active' = active + 1
        /\ pc' \in [Workers -> Place]
    BY <1>3 DEF Try, Go, PoolInv, PoolTypeOK, Place
  <2>2. Holders' = Holders \cup {w}
    BY <2>1 DEF Holders, PoolInv, PoolTypeOK, Place
  <2>3. Cardinality(Holders \cup {w}) = Cardinality(Holders) + 1
    BY <1>2, FS_AddElement
  <2>4. active' \in 0..Base /\ active' >= 1
    BY <1>1, <1>2, <1>3, <2>1 DEF Free
  <2>5. installed' \in 0..BackoffCap
    BY <1>3, PoolAssumption DEF Try, PoolInv, PoolTypeOK
  <2>6. Slots'
    BY <1>2, <2>1, <2>2, <2>3, <2>4 DEF Slots
  <2>7. PoolTypeOK'
    BY <1>1, <2>1, <2>4, <2>5 DEF Try, PoolInv, PoolTypeOK, backoff
  <2> QED
    BY <2>6, <2>7 DEF PoolInv
<1>4. CASE ~Free(Recovered)
  <2>1. /\ pc' = [pc EXCEPT ![w] = "parked"] /\ UNCHANGED <<active, installed>>
        /\ pc' \in [Workers -> Place]
    BY <1>4 DEF Try, Go, PoolInv, PoolTypeOK, Place
  <2>2. Holders' = Holders
    BY <1>2, <2>1 DEF Holders, PoolInv, PoolTypeOK, Place
  <2>3. active >= 1
    BY <1>1, <1>2, <1>4 DEF Free
  <2>4. Slots'
    BY <1>2, <2>1, <2>2, <2>3 DEF Slots
  <2>5. PoolTypeOK'
    BY <1>1, <2>1 DEF Try, PoolInv, PoolTypeOK, backoff
  <2> QED
    BY <2>4, <2>5 DEF PoolInv
<1> QED
  BY <1>3, <1>4

LEMMA PoolInvStep == PoolInv /\ [PoolNext]_poolVars => PoolInv'
<1> SUFFICES ASSUME PoolInv, [PoolNext]_poolVars
             PROVE  PoolInv'
  OBVIOUS
<1> USE PoolAssumption
<1>1. CASE Tick
  <2>1. Slots'
    BY <1>1 DEF Tick, PoolInv, Slots, Holders
  <2>2. last_report' \in {None} \cup 0..Enough
    <3>1. Enough \in Nat
      BY DEF Enough
    <3> QED
      BY <1>1, <3>1 DEF Tick, PoolInv, PoolTypeOK, Least, None
  <2>3. /\ until' \in [Workers -> 0..BackoffCap]
        /\ owed' \in [Workers -> {None} \cup 0..BackoffCap]
    BY <1>1 DEF Tick, PoolInv, PoolTypeOK, Less, None
  <2>4. /\ deadline' \in {None} \cup 0..BackoffCap
        /\ installed' \in 0..BackoffCap /\ since_lowered' \in 0..Recovery
    BY <1>1 DEF Tick, PoolInv, PoolTypeOK, Less, Least, None
  <2> QED
    BY <1>1, <2>1, <2>2, <2>3, <2>4 DEF Tick, PoolInv, PoolTypeOK
<1>2. ASSUME NEW w \in Workers, Call(w)
      PROVE  PoolInv'
  <2>1. PoolTypeOK'
    BY <1>2 DEF Call, Go, PoolInv, PoolTypeOK, Place, backoff, limit
  <2>2. Holders' = Holders /\ \A v \in Workers : pc'[v] = "parked" => pc[v] = "parked"
    BY <1>2 DEF Call, Go, Holders, PoolInv, PoolTypeOK, Place
  <2> QED
    BY <1>2, <2>1, <2>2, HoldersKept DEF Call, PoolInv, limit
<1>3. ASSUME NEW w \in Workers, Wake(w) \/ Reset(w)
      PROVE  PoolInv'
  <2>1. PoolTypeOK'
    BY <1>3 DEF Wake, Reset, Go, PoolInv, PoolTypeOK, Place, backoff, limit, history
  <2>2. Holders' = Holders /\ \A v \in Workers : pc'[v] = "parked" => pc[v] = "parked"
    BY <1>3 DEF Wake, Reset, Go, Holders, PoolInv, PoolTypeOK, Place
  <2> QED
    BY <1>3, <2>1, <2>2, HoldersKept DEF Wake, Reset, PoolInv, limit, history
<1>4. ASSUME NEW w \in Workers, EndTurn(w)
      PROVE  PoolInv'
  BY <1>4, ReleaseKeeps DEF EndTurn, TurnEnds, RateLimited
<1>5. ASSUME NEW w \in Workers, ReportBackoff(w)
      PROVE  PoolInv'
  <2>1. delay' \in 1..BackoffCap
    BY <1>5 DEF ReportBackoff, Least, PoolInv, PoolTypeOK
  <2>2. PoolTypeOK'
    BY <1>5, <2>1 DEF ReportBackoff, Go, PoolInv, PoolTypeOK, Place, limit
  <2>3. Holders' = Holders /\ \A v \in Workers : pc'[v] = "parked" => pc[v] = "parked"
    BY <1>5 DEF ReportBackoff, Go, Holders, PoolInv, PoolTypeOK, Place
  <2> QED
    BY <1>5, <2>2, <2>3, HoldersKept DEF ReportBackoff, PoolInv, limit
<1>6. ASSUME NEW w \in Workers, ReportLimit(w)
      PROVE  PoolInv'
  <2>1. current' \in 1..Base /\ since_lowered' \in 0..Recovery /\ last_report' \in 0..Enough
    <3>1. Enough \in Nat
      BY DEF Enough
    <3> QED
      BY <1>6, <3>1 DEF ReportLimit, PoolInv, PoolTypeOK
  <2>2. PoolTypeOK'
    BY <1>6, <2>1 DEF ReportLimit, Go, PoolInv, PoolTypeOK, Place, backoff
  <2>3. Holders' = Holders /\ \A v \in Workers : pc'[v] = "parked" => pc[v] = "parked"
    BY <1>6 DEF ReportLimit, Go, Holders, PoolInv, PoolTypeOK, Place
  <2> QED
    BY <1>6, <2>2, <2>3, HoldersKept DEF ReportLimit, PoolInv, limit
<1>7. ASSUME NEW w \in Workers, Abort(w)
      PROVE  PoolInv'
  <2>1. CASE pc[w] = "turn" /\ Release(w, "idle")
    BY <2>1, ReleaseKeeps
  <2>2. CASE pc[w] \in {"sleep", "try", "parked"} /\ Go(w, "idle")
             /\ until' = [until EXCEPT ![w] = 0] /\ owed' = [owed EXCEPT ![w] = None]
             /\ UNCHANGED <<backoff, limit, installed, since_lowered>>
    <3>1. PoolTypeOK'
      BY <2>2 DEF Go, PoolInv, PoolTypeOK, Place, backoff, limit
    <3>2. Holders' = Holders /\ \A v \in Workers : pc'[v] = "parked" => pc[v] = "parked"
      BY <2>2 DEF Go, Holders, PoolInv, PoolTypeOK, Place
    <3> QED
      BY <2>2, <3>1, <3>2, HoldersKept DEF PoolInv, limit
  <2> QED
    BY <1>7, <2>1, <2>2 DEF Abort
<1>8. CASE UNCHANGED poolVars
  BY <1>8 DEF poolVars, backoff, limit, history, PoolInv, PoolTypeOK, Slots, Holders
<1> QED
  BY <1>1, <1>2, <1>3, <1>4, <1>5, <1>6, <1>7, <1>8, TryKeeps DEF PoolNext, Acquire, Report

LEMMA PoolInvAlways == PoolSpec => []PoolInv
<1>1. PoolInit => PoolInv
  <2> SUFFICES ASSUME PoolInit PROVE PoolInv
    OBVIOUS
  <2>1. Holders = {} /\ Cardinality(Holders) = 0
    BY FS_EmptySet DEF PoolInit, Holders
  <2> QED
    BY <2>1, PoolAssumption DEF PoolInit, PoolInv, PoolTypeOK, Slots, Place
<1> QED
  BY <1>1, PoolInvStep, PTL DEF PoolSpec

\* Every reachable state is well typed: the limit stays between 1 and its base,
\* and the slots in use below it.
THEOREM PoolTypeCorrect == PoolSpec => []PoolTypeOK
BY PoolInvAlways, PTL DEF PoolInv

\* No slot leaks and none is returned twice.
THEOREM NoSlotLeaks == PoolSpec => []SlotsAccounted
<1>1. PoolInv => SlotsAccounted
  BY DEF PoolInv, Slots, Holders, SlotsAccounted
<1> QED
  BY <1>1, PoolInvAlways, PTL

\* Whoever is parked is woken by a release that is still to come.
THEOREM NoLostWakeup == PoolSpec => []ParkedHasHolder
<1>1. PoolInv => ParkedHasHolder
  <2> SUFFICES ASSUME PoolInv, NEW w \in Workers, pc[w] = "parked"
               PROVE  Holders # {}
    BY DEF ParkedHasHolder, Holders
  <2>1. active >= 1 /\ active = Cardinality(Holders)
    BY DEF PoolInv, Slots
  <2> QED
    BY <2>1, FS_EmptySet
<1> QED
  BY <1>1, PoolInvAlways, PTL

(***************************************************************************)
(* The cooldown.  Every report moves last_report, lowering or not, and a     *)
(* recovery moves it back; what bounds the lowering is the time since one.   *)
(***************************************************************************)
CooldownOK ==
    /\ last_report = None \/ current = Base => since_lowered = Recovery
    /\ last_report # None => Least(last_report, Recovery) <= since_lowered

\* A recovery that takes a step has waited for a cooldown, and none ends between two.
LEMMA RecoveryKeepsCooldown ==
  ASSUME PoolTypeOK, CooldownOK, current' = Recovered, last_report' = RecoveredReport,
         UNCHANGED since_lowered
  PROVE  CooldownOK'
<1>1. /\ Recovery \in Nat \ {0} /\ Base \in Nat \ {0} /\ None = -1
      /\ current \in 1..Base /\ since_lowered \in 0..Recovery
      /\ last_report = None \/ last_report \in Nat
  BY PoolAssumption DEF PoolTypeOK, Enough, None
<1>2. CASE last_report = None
  BY <1>1, <1>2 DEF CooldownOK, RecoveredReport
<1>3. CASE last_report # None /\ last_report < Recovery
  <2>1. last_report \div Recovery = 0 /\ last_report % Recovery = last_report
    BY <1>1, <1>3
  <2>2. Recovered = current
    BY <1>1, <1>3, <2>1 DEF Recovered, Steps, Least
  <2>3. RecoveredReport = IF current >= Base THEN None ELSE last_report
    BY <1>3, <2>1, <2>2 DEF RecoveredReport
  <2> QED
    BY <1>1, <1>3, <2>2, <2>3 DEF CooldownOK
<1>4. CASE last_report # None /\ last_report >= Recovery
  <2>1. since_lowered = Recovery
    BY <1>1, <1>4 DEF CooldownOK, Least
  <2>2. RecoveredReport = None \/ RecoveredReport \in 0..(Recovery - 1)
    <3>1. last_report % Recovery \in 0..(Recovery - 1)
      BY <1>1, <1>4
    <3> QED
      BY <3>1 DEF RecoveredReport
  <2> QED
    BY <1>1, <2>1, <2>2 DEF CooldownOK, Least
<1> QED
  BY <1>1, <1>2, <1>3, <1>4

LEMMA CooldownStep == PoolTypeOK /\ CooldownOK /\ [PoolNext]_poolVars => CooldownOK'
<1> SUFFICES ASSUME PoolTypeOK, CooldownOK, [PoolNext]_poolVars
             PROVE  CooldownOK'
  OBVIOUS
<1>0. /\ Recovery \in Nat \ {0} /\ Base \in Nat \ {0} /\ None = -1
      /\ current \in 1..Base /\ since_lowered \in 0..Recovery
      /\ last_report = None \/ last_report \in 0..Enough
      /\ Enough \in Nat /\ Enough >= Recovery
  <2>1. Recovery \in Nat \ {0} /\ Base \in Nat \ {0}
    BY PoolAssumption
  <2>2. Recovery * Base \in Nat /\ Recovery * Base >= Recovery
    BY <2>1
  <2> QED
    BY <2>1, <2>2 DEF PoolTypeOK, Enough, None
<1>1. CASE UNCHANGED <<current, last_report, since_lowered>>
  BY <1>1 DEF CooldownOK
<1>2. ASSUME NEW w \in Workers, Try(w)
      PROVE  CooldownOK'
  BY <1>2, RecoveryKeepsCooldown DEF Try
<1>3. ASSUME NEW w \in Workers, ReportLimit(w)
      PROVE  CooldownOK'
  <2>1. /\ last_report' = 0 /\ since_lowered' \in {0, since_lowered} /\ current' \in 1..Base
        /\ (current' = current /\ since_lowered' = since_lowered) \/ current' < current
    BY <1>0, <1>3 DEF ReportLimit
  <2> QED
    BY <1>0, <2>1 DEF CooldownOK, Least
<1>4. CASE Tick
  <2>1. /\ current' = current
        /\ since_lowered' = Least(since_lowered + 1, Recovery)
        /\ last_report' = IF last_report = None THEN None ELSE Least(last_report + 1, Enough)
    BY <1>4 DEF Tick
  <2> QED
    BY <1>0, <2>1 DEF CooldownOK, Least
<1>5. ASSUME NEW w \in Workers, Call(w) \/ Wake(w) \/ Reset(w) \/ ReportBackoff(w) \/ EndTurn(w) \/ Abort(w)
      PROVE  UNCHANGED <<current, last_report, since_lowered>>
  BY <1>5 DEF Call, Wake, Reset, ReportBackoff, EndTurn, TurnEnds, RateLimited, Abort, Release,
              limit, history
<1>6. CASE UNCHANGED poolVars
  BY <1>1, <1>6 DEF poolVars, limit, history
<1> QED
  BY <1>1, <1>2, <1>3, <1>4, <1>5, <1>6 DEF PoolNext, Acquire, Report

\* However many workers report and however their reports, recoveries and acquires
\* interleave, the limit is lowered at most once in any Recovery (pool.rs
\* report_rate_limit).
THEOREM OneLoweringPerCooldown == PoolSpec => LoweredOncePerCooldown
<1>1. PoolInit => CooldownOK
  BY DEF PoolInit, CooldownOK
<1>2. PoolTypeOK /\ CooldownOK /\ [PoolNext]_poolVars =>
          [current' < current => since_lowered = Recovery]_poolVars
  <2> SUFFICES ASSUME PoolTypeOK, CooldownOK, PoolNext, current' < current
               PROVE  since_lowered = Recovery
    OBVIOUS
  <2>0. /\ Recovery \in Nat \ {0} /\ since_lowered \in 0..Recovery /\ current \in 1..Base
        /\ Base \in Nat /\ (last_report = None \/ last_report \in Nat)
    BY PoolAssumption DEF PoolTypeOK, Enough
  <2>1. ASSUME NEW w \in Workers, ReportLimit(w)
        PROVE  since_lowered = Recovery
    <3>1. ~ WithinCooldown
      BY <2>0, <2>1 DEF ReportLimit
    <3> QED
      BY <2>0, <3>1 DEF WithinCooldown, CooldownOK, Least
  <2>2. ASSUME NEW w \in Workers, Try(w)
        PROVE  FALSE
    BY <2>0, <2>2, RecoveredRange DEF Try
  <2>3. ASSUME NEW w \in Workers, Call(w) \/ Wake(w) \/ Reset(w) \/ ReportBackoff(w) \/ EndTurn(w) \/ Abort(w)
        PROVE  FALSE
    <3>1. UNCHANGED current
      BY <2>3 DEF Call, Wake, Reset, ReportBackoff, EndTurn, TurnEnds, RateLimited, Abort, Release,
                  limit
    <3> QED
      BY <2>0, <3>1
  <2>4. CASE Tick
    BY <2>0, <2>4 DEF Tick
  <2> QED
    BY <2>1, <2>2, <2>3, <2>4 DEF PoolNext, Acquire, Report
<1> QED
  BY <1>1, <1>2, CooldownStep, PoolTypeCorrect, PTL DEF PoolSpec, LoweredOncePerCooldown
--------------------------------------------------------------------------------
(***************************************************************************)
(* The turn.                                                                *)
(***************************************************************************)
(* Lines in a pipe or a channel. *)
Raw(s) == \A i \in DOMAIN s : s[i].kind = "raw"
Has(s, kind) == \E i \in DOMAIN s : s[i].kind = kind
OkLast(s) == \A i, j \in DOMAIN s : i < j /\ s[i].kind = "ok" => s[j].kind = "raw"
About(s, n) == \A i \in DOMAIN s : s[i].kind # "raw" => s[i].turn = n
OnlyResults(s) == \A i \in DOMAIN s : s[i].kind \in Results

LEMMA NoLines ==
  ASSUME NEW n
  PROVE  /\ <<>> \in Seq(Lines) /\ Len(<<>>) = 0
         /\ Raw(<<>>) /\ OkLast(<<>>) /\ About(<<>>, n) /\ OnlyResults(<<>>)
         /\ \A kind : ~ Has(<<>>, kind)
BY DEF Raw, OkLast, About, OnlyResults, Has

LEMMA RawLines ==
  ASSUME NEW s, Raw(s), NEW n
  PROVE  OkLast(s) /\ About(s, n) /\ ~ Has(s, "ok") /\ ~ Has(s, "failed")
BY DEF Raw, OkLast, About, Has

LEMMA NoOkLines ==
  ASSUME NEW s, ~ Has(s, "ok")
  PROVE  OkLast(s)
BY DEF OkLast, Has

LEMMA AppendLine ==
  ASSUME NEW s \in Seq(Lines), NEW x \in Lines, NEW n
  PROVE  LET new == Append(s, x) IN
         /\ new \in Seq(Lines) /\ new # <<>> /\ Len(new) = Len(s) + 1
         /\ Raw(new) <=> Raw(s) /\ x.kind = "raw"
         /\ OkLast(s) /\ (Has(s, "ok") => x.kind = "raw") => OkLast(new)
         /\ About(s, n) /\ (x.kind # "raw" => x.turn = n) => About(new, n)
         /\ OnlyResults(s) /\ x.kind \in Results => OnlyResults(new)
         /\ \A kind : Has(new, kind) <=> Has(s, kind) \/ x.kind = kind
         /\ Head(new) = IF s = <<>> THEN x ELSE Head(s)
<1> DEFINE new == Append(s, x)
           n1 == Len(s)
<1>1. /\ new \in Seq(Lines) /\ n1 \in Nat /\ Len(new) = n1 + 1
      /\ DOMAIN s = 1..n1 /\ DOMAIN new = 1..(n1 + 1)
      /\ \A i \in 1..n1 : new[i] = s[i]
      /\ new[n1 + 1] = x /\ new # <<>>
  OBVIOUS
<1>2. Head(new) = IF s = <<>> THEN x ELSE Head(s)
  OBVIOUS
<1> HIDE DEF new, n1
<1>3. \A i \in 1..(n1 + 1) : i \in 1..n1 \/ i = n1 + 1
  BY <1>1
<1>4. 1..n1 \subseteq 1..(n1 + 1) /\ n1 + 1 \in 1..(n1 + 1)
  BY <1>1
<1>5. Raw(new) <=> Raw(s) /\ x.kind = "raw"
  BY <1>1, <1>3, <1>4 DEF Raw
<1>6. ASSUME OkLast(s), Has(s, "ok") => x.kind = "raw"
      PROVE  OkLast(new)
  <2> SUFFICES ASSUME NEW i \in 1..(n1 + 1), NEW j \in 1..(n1 + 1), i < j, new[i].kind = "ok"
               PROVE  new[j].kind = "raw"
    BY <1>1 DEF OkLast
  <2>1. i \in 1..n1
    BY <1>1
  <2>2. s[i].kind = "ok"
    BY <1>1, <2>1
  <2>3. CASE j \in 1..n1
    BY <1>1, <1>6, <2>1, <2>2, <2>3 DEF OkLast
  <2>4. CASE j = n1 + 1
    BY <1>1, <1>6, <2>1, <2>2, <2>4 DEF Has
  <2> QED
    BY <1>3, <2>3, <2>4
<1>7. ASSUME About(s, n), x.kind # "raw" => x.turn = n
      PROVE  About(new, n)
  BY <1>1, <1>3, <1>7 DEF About
<1>8. ASSUME OnlyResults(s), x.kind \in Results
      PROVE  OnlyResults(new)
  BY <1>1, <1>3, <1>8 DEF OnlyResults
<1>9. \A kind : Has(new, kind) <=> Has(s, kind) \/ x.kind = kind
  BY <1>1, <1>3, <1>4 DEF Has
<1> QED
  BY <1>1, <1>2, <1>5, <1>6, <1>7, <1>8, <1>9 DEF new, n1

LEMMA TakeLine ==
  ASSUME NEW s \in Seq(Lines), s # <<>>, NEW n
  PROVE  /\ Head(s) \in Lines /\ Tail(s) \in Seq(Lines) /\ Len(Tail(s)) = Len(s) - 1
         /\ Raw(s) => Head(s).kind = "raw" /\ Raw(Tail(s))
         /\ OkLast(s) => OkLast(Tail(s)) /\ (Head(s).kind = "ok" => Raw(Tail(s)))
         /\ About(s, n) => About(Tail(s), n) /\ (Head(s).kind # "raw" => Head(s).turn = n)
         /\ OnlyResults(s) => OnlyResults(Tail(s)) /\ Head(s).kind \in Results
         /\ \A kind : Has(s, kind) <=> Head(s).kind = kind \/ Has(Tail(s), kind)
<1> DEFINE t == Tail(s)
           k == Len(s) - 1
<1>1. /\ t \in Seq(Lines) /\ k \in Nat /\ Len(t) = k
      /\ DOMAIN s = 1..(k + 1) /\ DOMAIN t = 1..k
      /\ \A i \in 1..k : t[i] = s[i + 1]
      /\ Head(s) = s[1] /\ s[1] \in Lines
  OBVIOUS
<1> HIDE DEF t, k
<1>2. 1 \in 1..(k + 1) /\ \A i \in 1..k : i + 1 \in 1..(k + 1) /\ 1 < i + 1
  BY <1>1
<1>3. \A i \in 1..(k + 1) : i = 1 \/ (i - 1 \in 1..k /\ s[i] = t[i - 1])
  BY <1>1
<1>4. Raw(s) => Head(s).kind = "raw" /\ Raw(t)
  BY <1>1, <1>2 DEF Raw
<1>5. ASSUME OkLast(s)
      PROVE  OkLast(t) /\ (Head(s).kind = "ok" => Raw(t))
  <2>1. ASSUME NEW i \in 1..k, NEW j \in 1..k, i < j, t[i].kind = "ok"
        PROVE  t[j].kind = "raw"
    <3>1. i + 1 < j + 1 /\ s[i + 1].kind = "ok" /\ s[j + 1] = t[j]
      BY <1>1, <2>1
    <3> QED
      BY <1>1, <1>2, <1>5, <3>1 DEF OkLast
  <2>2. ASSUME Head(s).kind = "ok", NEW j \in 1..k
        PROVE  t[j].kind = "raw"
    BY <1>1, <1>2, <1>5, <2>2 DEF OkLast
  <2> QED
    BY <1>1, <2>1, <2>2 DEF OkLast, Raw
<1>6. About(s, n) => About(t, n) /\ (Head(s).kind # "raw" => Head(s).turn = n)
  BY <1>1, <1>2 DEF About
<1>7. OnlyResults(s) => OnlyResults(t) /\ Head(s).kind \in Results
  BY <1>1, <1>2 DEF OnlyResults
<1>8. ASSUME NEW kind
      PROVE  Has(s, kind) <=> Head(s).kind = kind \/ Has(t, kind)
  <2>1. ASSUME NEW i \in 1..(k + 1), s[i].kind = kind
        PROVE  Head(s).kind = kind \/ Has(t, kind)
    BY <1>1, <1>3, <2>1 DEF Has
  <2>2. ASSUME NEW i \in 1..k, t[i].kind = kind
        PROVE  Has(s, kind)
    BY <1>1, <1>2, <2>2 DEF Has
  <2>3. Head(s).kind = kind => Has(s, kind)
    BY <1>1, <1>2 DEF Has
  <2> QED
    BY <1>1, <2>1, <2>2, <2>3 DEF Has
<1> QED
  BY <1>1, <1>4, <1>5, <1>6, <1>7, <1>8 DEF t, k

LEMMA RawResults ==
  ASSUME NEW s \in Seq(Lines), Raw(s), OnlyResults(s)
  PROVE  s = <<>>
<1>1. s # <<>> => 1 \in DOMAIN s
  OBVIOUS
<1> QED
  BY <1>1 DEF Raw, OnlyResults, Results

(***************************************************************************)
(* The inductive invariant of a turn.                                       *)
(***************************************************************************)
Held == reader.at \in {"event", "outcome"}      \* the reader has a line in hand
HeldRaw == Held => reader.line.kind = "raw"
Holds(kind) == Held /\ reader.line.kind = kind

\* A session that is not live is empty; a reader that has ended has read
\* everything; what works, works for the request in hand.
SessionOK ==
    /\ ~ session.live =>
           child.at = "none" /\ reader.at = "ended" /\ events = <<>> /\ outcomes = <<>>
    /\ session.live => child.at # "none"
    /\ reader.at = "ended" => stdout = <<>> /\ child.at \in {"none", "dead"}
    /\ child.at = "working" => child.turn = turn /\ turn > 0
    /\ OnlyResults(outcomes)
    /\ reader.at = "outcome" => reader.line.kind \in Results

\* What a session that is kept has in its pipe and channels: nothing but raw lines,
\* in the events too when no turn is under way.
Spent == outcomes = <<>> /\ HeldRaw /\ Raw(stdout) /\ child.at # "working"
Quiet == Spent /\ Raw(events)

\* Whatever is not raw is about this request.
Tagged ==
    /\ About(stdout, turn) /\ About(events, turn) /\ About(outcomes, turn)
    /\ Held /\ reader.line.kind # "raw" => reader.line.turn = turn
    /\ text \subseteq {turn}

\* After the line of a success, wherever it is, come only raw ones.
OkIsLast ==
    /\ OkLast(stdout) /\ OkLast(events) /\ OkLast(outcomes)
    /\ Has(stdout, "ok") => child.at # "working"
    /\ Holds("ok") => Raw(stdout) /\ child.at # "working"
    /\ Has(events, "ok") =>
           Raw(stdout) /\ child.at # "working" /\ (reader.at = "event" => reader.line.kind = "raw")
    /\ Has(outcomes, "ok") => Raw(stdout) /\ child.at # "working" /\ HeldRaw

NoFailed ==
    ~ Has(stdout, "failed") /\ ~ Has(events, "failed") /\ ~ Has(outcomes, "failed") /\ ~ Holds("failed")

\* The first result that `send` will see is a failure.
FailedFirst ==
    IF outcomes # <<>> THEN Head(outcomes).kind = "failed"
    ELSE IF Held /\ reader.line.kind \in Results THEN reader.line.kind = "failed"
    ELSE Has(stdout, "failed")

Awaiting ==
    /\ Tagged /\ OkIsLast /\ session.live /\ drain \in {"on", "done"}
    /\ NoFailed \/ FailedFirst
    /\ NoFailed /\ drain = "done" =>
           Raw(events) /\ Raw(stdout) /\ (reader.at = "event" => reader.line.kind = "raw")
    /\ drain = "done" \/ Has(events, "ok") \/ Has(events, "failed") =>
           outcomes # <<>> \/ reader.at \in {"outcome", "ended"}

Succeeded ==
    /\ Spent /\ Tagged /\ OkLast(events) /\ ~ Has(events, "failed")
    /\ session.live /\ outcome.turn = turn /\ turn > 0
    /\ drain = "done" => Raw(events)

Resting == phase \in {"idle", "permit", "start", "reply", "dead"}
Won == phase = "join" /\ outcome.kind = "ok"
TurnOK ==
    /\ Resting => Quiet
    /\ phase = "write" => Quiet /\ Awaiting
    /\ phase = "await" => Awaiting
    /\ Won => Succeeded
    /\ phase # "idle" => turn > 0

\* The context is kept until a turn that it was part of has succeeded.
ContextKept ==
    /\ injected \in {0, version}
    /\ injected = 0 => won
    /\ (phase = "await" \/ Won) /\ injected # 0 => session.knows = version

TurnIInv == TurnTypeOK /\ SessionOK /\ TurnOK /\ ContextKept /\ AnswerIsOwn /\ ContextReachesModel

\* The steps of a turn and, as one, those of the runner that move it.
Replied ==
    /\ phase = "reply" /\ phase' \in {"idle", "reply", "dead"}
    /\ UNCHANGED <<turn, injected, outcome, answer, session, childVars, readVars, drainVars,
                   version, won, lines, faults>>
TurnStep == (phase = "idle" /\ TakeRequest) \/ Behaviour \/ Swap \/ Machinery \/ Replied

(***************************************************************************)
(* Types.                                                                   *)
(***************************************************************************)
BehaviourType ==
    /\ phase \in {"idle", "permit", "start", "write", "await", "join", "discard", "reply", "dead"}
    /\ turn \in 0..MaxTurns /\ version \in 1..(MaxSwaps + 1) /\ injected \in {0, version}
    /\ outcome \in [turn : 0..MaxTurns, kind : Results \cup {"none", "timeout", "error"}]
    /\ answer \in [kind : {"none", "result", "blocked"}, from : SUBSET TurnNos, informed : BOOLEAN]
    /\ session \in [live : BOOLEAN, knows : 0..(MaxSwaps + 1)]
    /\ drain \in {"off", "on", "done"} /\ text \subseteq TurnNos
    /\ won \in BOOLEAN /\ lines \in 0..MaxLines /\ faults \in 0..MaxFaults

PipeType ==
    /\ child \in [at : {"none", "ready", "working", "hung", "dead"}, turn : 0..MaxTurns]
    /\ held \in BOOLEAN /\ stdout \in Seq(Lines)
    /\ reader \in [at : {"read", "event", "outcome", "ended"}, line : Lines]
    /\ events \in Seq(Lines) /\ Len(events) <= Capacity
    /\ outcomes \in Seq(Lines)

LEMMA TurnTypeParts == TurnTypeOK <=> BehaviourType /\ PipeType
BY DEF TurnTypeOK, BehaviourType, PipeType

LEMMA EmptyPipe ==
  ASSUME EndSession
  PROVE  PipeType'
<1>1. NoLine \in Lines
  BY TurnBounds DEF NoLine, Lines, TurnNos
<1>2. 0 \in 0..MaxTurns /\ 0 <= Capacity
  BY TurnBounds, CapacityAssumption
<1>3. child' = [at |-> "none", turn |-> 0] /\ held' = FALSE /\ stdout' = <<>>
      /\ reader' = [at |-> "ended", line |-> NoLine] /\ events' = <<>> /\ outcomes' = <<>>
  BY DEF EndSession
<1>4. child' \in [at : {"none", "ready", "working", "hung", "dead"}, turn : 0..MaxTurns]
      /\ reader' \in [at : {"read", "event", "outcome", "ended"}, line : Lines]
  BY <1>1, <1>2, <1>3
<1> QED
  BY <1>2, <1>3, <1>4, NoLines DEF PipeType

LEMMA PipeTypeStep ==
  ASSUME TurnIInv, TurnStep
  PROVE  PipeType'
<1>0. PipeType /\ SessionOK /\ turn \in 0..MaxTurns /\ MaxTurns \in Nat
  BY TurnTypeParts, TurnBounds DEF TurnIInv, BehaviourType
<1>1. CASE UNCHANGED <<childVars, readVars>>
  BY <1>0, <1>1 DEF PipeType, childVars, readVars
<1>2. CASE TakeRequest \/ Acquired \/ SpawnFails \/ ProcessExited \/ Joined \/ Replied \/ DrainEof
  <2>1. UNCHANGED <<childVars, readVars>>
    BY <1>2 DEF TakeRequest, Acquired, SpawnFails, ProcessExited, SendEnds, Joined, Replied,
                DrainEof, childVars, readVars
  <2> QED
    BY <1>1, <2>1
<1>3. CASE DiscardSession \/ Swap
  BY <1>3, EmptyPipe DEF DiscardSession, Swap
<1>4. CASE Start
  <2>1. child' \in [at : {"none", "ready", "working", "hung", "dead"}, turn : 0..MaxTurns]
    BY <1>0, <1>4, TurnBounds DEF Start, Prompt, Pending, Spawned, PipeType
  <2>2. CASE session.live
    BY <1>0, <1>4, <2>1, <2>2 DEF Start, PipeType, readVars
  <2>3. CASE ~ session.live
    <3>1. /\ held' = FALSE /\ stdout' = <<>> /\ reader' = [reader EXCEPT !.at = "read"]
          /\ events' = <<>> /\ outcomes' = <<>>
      BY <1>4, <2>3 DEF Start
    <3>2. reader' \in [at : {"read", "event", "outcome", "ended"}, line : Lines]
      BY <1>0, <3>1 DEF PipeType
    <3>3. events' \in Seq(Lines) /\ Len(events') <= Capacity
      BY <3>1, NoLines, CapacityAssumption
    <3> QED
      BY <2>1, <3>1, <3>2, <3>3, NoLines DEF PipeType
  <2> QED
    BY <2>2, <2>3
<1>5. CASE SendReturns
  <2>1. outcomes # <<>> /\ outcomes' = Tail(outcomes) /\ UNCHANGED <<childVars, reader, events>>
    BY <1>5 DEF SendReturns, SendEnds, childVars
  <2> QED
    BY <1>0, <2>1, TakeLine DEF PipeType, childVars
<1>6. CASE Timeout
  BY <1>0, <1>6 DEF Timeout, SendEnds, PipeType, readVars
<1>7. CASE ReadLine
  <2>1. Head(stdout) \in Lines /\ Tail(stdout) \in Seq(Lines)
    BY <1>0, <1>7, TakeLine DEF ReadLine, PipeType
  <2> QED
    BY <1>0, <1>7, <2>1 DEF ReadLine, PipeType
<1>8. CASE ReadEof
  BY <1>0, <1>8 DEF ReadEof, PipeType, childVars
<1>9. CASE PushEvent
  <2>1. Append(events, reader.line) \in Seq(Lines) /\ Len(Append(events, reader.line)) = Len(events) + 1
    BY <1>0, AppendLine DEF PipeType
  <2>2. Len(events) \in Nat /\ Capacity \in Nat
    BY <1>0, CapacityAssumption DEF PipeType
  <2>3. events' \in Seq(Lines) /\ Len(events') <= Capacity
    BY <1>9, <2>1, <2>2 DEF PushEvent
  <2>4. reader' \in [at : {"read", "event", "outcome", "ended"}, line : Lines]
    BY <1>0, <1>9 DEF PushEvent, PipeType
  <2> QED
    BY <1>0, <1>9, <2>3, <2>4 DEF PushEvent, PipeType, childVars
<1>10. CASE PushOutcome
  <2>1. Append(outcomes, reader.line) \in Seq(Lines)
    BY <1>0, AppendLine DEF PipeType
  <2> QED
    BY <1>0, <1>10, <2>1 DEF PushOutcome, PipeType, childVars
<1>11. CASE DrainEvent
  <2>1. Tail(events) \in Seq(Lines) /\ Len(Tail(events)) = Len(events) - 1 /\ Len(events) \in Nat
        /\ Capacity \in Nat
    BY <1>0, <1>11, TakeLine, CapacityAssumption DEF DrainEvent, PipeType
  <2>2. events' \in Seq(Lines) /\ Len(events') <= Capacity
    BY <1>0, <1>11, <2>1 DEF DrainEvent, PipeType
  <2> QED
    BY <1>0, <1>11, <2>2 DEF DrainEvent, PipeType, childVars
<1>12. ASSUME NEW kind \in {"text", "raw", "ok", "failed"}, Writes(kind), child.turn > 0
       PROVE  stdout' \in Seq(Lines)
  <2>1. [turn |-> child.turn, kind |-> kind] \in Lines
    BY <1>0, <1>12 DEF PipeType, Lines, TurnNos
  <2> QED
    BY <1>0, <1>12, <2>1, AppendLine DEF Writes, PipeType
<1>13. CASE ChildWrites
  <2>1. stdout' \in Seq(Lines)
    BY <1>0, <1>12, <1>13 DEF ChildWrites, SessionOK
  <2> QED
    BY <1>0, <1>13, <2>1 DEF ChildWrites, ChildOnly, PipeType, readVars
<1>14. CASE ChildAnswers
  <2>1. stdout' \in Seq(Lines)
    BY <1>0, <1>12, <1>14 DEF ChildAnswers, SessionOK
  <2>2. child' \in [at : {"none", "ready", "working", "hung", "dead"}, turn : 0..MaxTurns]
    BY <1>0, <1>14 DEF ChildAnswers, PipeType
  <2> QED
    BY <1>0, <1>14, <2>1, <2>2 DEF ChildAnswers, ChildOnly, PipeType, readVars
<1>15. CASE ChildFails \/ ChildLeavesStdout
  BY <1>0, <1>15 DEF ChildFails, ChildLeavesStdout, ChildOnly, PipeType, readVars
<1>16. CASE WriteEnds
  BY <1>0, <1>16, TurnBounds DEF WriteEnds, Prompt, PipeType, readVars
<1> QED
  BY <1>2, <1>3, <1>4, <1>5, <1>6, <1>7, <1>8, <1>9, <1>10, <1>11, <1>13, <1>14, <1>15, <1>16
  DEF TurnStep, Behaviour, Machinery, WriteFails, ChildReads

Answers == [kind : {"none", "result", "blocked"}, from : SUBSET TurnNos, informed : BOOLEAN]
SendOutcomes == [turn : 0..MaxTurns, kind : Results \cup {"none", "timeout", "error"}]

LEMMA ReplyType ==
  ASSUME NEW kind \in {"none", "result", "blocked"}, NEW from \in SUBSET TurnNos,
         NEW informed \in BOOLEAN, Reply(kind, from, informed)
  PROVE  answer' \in Answers /\ phase' = "reply"
BY DEF Reply, Answers

LEMMA SendOutcomeType ==
  ASSUME NEW n \in 0..MaxTurns, NEW kind \in Results \cup {"none", "timeout", "error"}
  PROVE  Outcome(n, kind) \in SendOutcomes
BY DEF Outcome, SendOutcomes

\* The prompt is written, fails, or waits for room in the pipe.
LEMMA PromptType ==
  ASSUME TurnIInv, NEW c, NEW knows \in 0..(MaxSwaps + 1), Prompt(c, knows) \/ Pending(c, knows)
  PROVE  /\ session' \in [live : BOOLEAN, knows : 0..(MaxSwaps + 1)]
         /\ phase' \in {"join", "await", "write"} /\ injected' = injected
         /\ outcome' \in SendOutcomes
<1>0. /\ turn \in 0..MaxTurns /\ version \in 1..(MaxSwaps + 1) /\ injected \in {0, version}
      /\ outcome \in SendOutcomes /\ MaxSwaps \in Nat
  BY TurnTypeParts, TurnBounds DEF TurnIInv, BehaviourType, SendOutcomes
<1>1. Told(knows) \in 0..(MaxSwaps + 1)
  BY <1>0 DEF Told
<1>2. CASE Prompt(c, knows) /\ c.at = "dead"
  <2>1. /\ outcome' = Outcome(turn, "error") /\ phase' = "join" /\ injected' = injected
        /\ session' = [live |-> TRUE, knows |-> knows]
    BY <1>2 DEF Prompt
  <2> QED
    BY <1>0, <2>1, SendOutcomeType
<1>3. CASE Prompt(c, knows) /\ c.at # "dead"
  <2>1. /\ outcome' = outcome /\ phase' = "await" /\ injected' = injected
        /\ session' = [live |-> TRUE, knows |-> Told(knows)]
    BY <1>3 DEF Prompt, KeepContext
  <2> QED
    BY <1>0, <1>1, <2>1
<1>4. CASE Pending(c, knows)
  <2>1. /\ outcome' = outcome /\ phase' = "write" /\ injected' = injected
        /\ session' = [live |-> TRUE, knows |-> knows]
    BY <1>4 DEF Pending
  <2> QED
    BY <1>0, <2>1
<1> QED
  BY <1>2, <1>3, <1>4

LEMMA BehaviourTypeStep ==
  ASSUME TurnIInv, TurnStep
  PROVE  BehaviourType'
<1>0. /\ BehaviourType /\ PipeType /\ outcome \in SendOutcomes /\ answer \in Answers
      /\ turn \in 0..MaxTurns /\ version \in 1..(MaxSwaps + 1)
      /\ lines \in 0..MaxLines /\ faults \in 0..MaxFaults
      /\ MaxTurns \in Nat /\ MaxSwaps \in Nat /\ MaxLines \in Nat /\ MaxFaults \in Nat
  BY TurnTypeParts, TurnBounds DEF TurnIInv, BehaviourType, SendOutcomes, Answers
<1>00. {} \in SUBSET TurnNos /\ TRUE \in BOOLEAN
  OBVIOUS
<1>1. CASE ReadLine \/ ReadEof \/ PushEvent \/ PushOutcome \/ DrainEof \/ ChildLeavesStdout
  <2>1. UNCHANGED <<turnVars, session, text, version, won, lines, faults>> /\ drain' \in {drain, "done"}
    BY <1>1 DEF ReadLine, ReadEof, PushEvent, PushOutcome, DrainEof, ChildLeavesStdout, ChildOnly, drainVars
  <2> QED
    BY <1>0, <2>1 DEF BehaviourType, turnVars
<1>2. CASE DrainEvent
  <2>1. Head(events).turn \in TurnNos
    BY <1>0, <1>2, TakeLine DEF DrainEvent, PipeType, Lines
  <2>2. text' \subseteq TurnNos /\ drain' \in {"on", "done"}
    BY <1>0, <1>2, <2>1 DEF DrainEvent, BehaviourType
  <2> QED
    BY <1>0, <1>2, <2>2 DEF DrainEvent, BehaviourType, turnVars
<1>3. CASE ChildWrites \/ ChildAnswers
  <2>1. lines' \in 0..MaxLines
    <3>1. CASE ChildWrites
      BY <1>0, <3>1 DEF ChildWrites
    <3>2. CASE ChildAnswers
      <4>1. child.at = "working" /\ (child' = [child EXCEPT !.at = "ready"] \/ lines < MaxLines)
            /\ lines' = IF child' = child THEN lines + 1 ELSE lines
        BY <3>2 DEF ChildAnswers
      <4>2. child' = [child EXCEPT !.at = "ready"] => child'.at = "ready"
        BY <1>0 DEF PipeType
      <4> QED
        BY <1>0, <4>1, <4>2
    <3> QED
      BY <1>3, <3>1, <3>2
  <2>2. UNCHANGED <<turnVars, session, drainVars, version, won, faults>>
    BY <1>3 DEF ChildWrites, ChildAnswers, ChildOnly
  <2> QED
    BY <1>0, <2>1, <2>2 DEF BehaviourType, turnVars, drainVars
<1>4. CASE ChildFails
  BY <1>0, <1>4 DEF ChildFails, ChildOnly, BehaviourType, turnVars, drainVars
<1>5. CASE Replied
  <2>1. /\ phase' \in {"idle", "reply", "dead"}
        /\ UNCHANGED <<turn, injected, outcome, answer, session, drain, text, version, won, lines, faults>>
    BY <1>5 DEF Replied, drainVars
  <2> QED
    BY <1>0, <2>1 DEF BehaviourType
<1>6. CASE phase = "idle" /\ TakeRequest
  <2>1. answer' \in Answers /\ phase' \in {"permit", "reply"}
    BY <1>0, <1>00, <1>6, ReplyType DEF TakeRequest
  <2>2. turn' \in 0..MaxTurns
    BY <1>0, <1>6 DEF TakeRequest
  <2>3. UNCHANGED <<injected, outcome, session, drain, text, version, won, lines, faults>>
    BY <1>6 DEF TakeRequest, drainVars
  <2> QED
    BY <1>0, <2>1, <2>2, <2>3 DEF BehaviourType, Answers
<1>7. CASE Swap
  <2>1. /\ version' \in 1..(MaxSwaps + 1) /\ injected' = version' /\ won' = FALSE
    BY <1>0, <1>7 DEF Swap
  <2>2. session' \in [live : BOOLEAN, knows : 0..(MaxSwaps + 1)]
    BY <1>0, <1>7 DEF Swap, EndSession, NoSession
  <2>3. UNCHANGED <<phase, turn, outcome, answer, drain, text, lines, faults>>
    BY <1>7 DEF Swap, drainVars
  <2> QED
    BY <1>0, <2>1, <2>2, <2>3 DEF BehaviourType
<1>8. CASE Acquired \/ SpawnFails
  <2>1. answer' \in Answers /\ phase' \in {"start", "reply"}
    BY <1>0, <1>00, <1>8, ReplyType DEF Acquired, SpawnFails
  <2>2. faults' \in 0..MaxFaults
    <3>1. CASE Acquired
      BY <1>0, <3>1 DEF Acquired
    <3>2. CASE SpawnFails
      <4>1. faults < MaxFaults /\ faults' = faults + 1
        BY <3>2 DEF SpawnFails
      <4> QED
        BY <1>0, <4>1
    <3> QED
      BY <1>8, <3>1, <3>2
  <2>3. UNCHANGED <<turn, injected, outcome, session, drain, text, version, won, lines>>
    BY <1>8 DEF Acquired, SpawnFails, drainVars
  <2> QED
    BY <1>0, <2>1, <2>2, <2>3 DEF BehaviourType, Answers
<1>9. CASE Start \/ WriteEnds
  <2>1. /\ session.knows \in 0..(MaxSwaps + 1) /\ 0 \in 0..(MaxSwaps + 1)
    BY <1>0 DEF BehaviourType
  <2>2. \/ Prompt(child, session.knows) \/ Pending(child, session.knows)
        \/ Prompt(Spawned, 0) \/ Pending(Spawned, 0)
    BY <1>9 DEF Start, WriteEnds
  <2>3. /\ session' \in [live : BOOLEAN, knows : 0..(MaxSwaps + 1)]
        /\ phase' \in {"join", "await", "write"} /\ injected' = injected
        /\ outcome' \in SendOutcomes
    BY <2>1, <2>2, PromptType
  <2>4. /\ drain' \in {"on", drain} /\ text' \in {text, {}}
        /\ UNCHANGED <<turn, answer, version, won, lines, faults>>
    BY <1>9 DEF Start, WriteEnds, DrainOn, drainVars
  <2> QED
    BY <1>0, <2>3, <2>4 DEF BehaviourType, SendOutcomes
<1>10. ASSUME NEW o \in SendOutcomes, SendEnds(o)
       PROVE  BehaviourType'
  <2>1. /\ outcome' = o /\ phase' = "join" /\ drain' \in {"on", drain}
        /\ UNCHANGED <<turn, injected, answer, session, text, version, won, lines, faults>>
    BY <1>10 DEF SendEnds
  <2> QED
    BY <1>0, <1>10, <2>1 DEF BehaviourType, SendOutcomes
<1>11. CASE SendReturns
  <2>1. Head(outcomes) \in Lines /\ Head(outcomes).kind \in Results
    BY <1>0, <1>11, TakeLine DEF SendReturns, PipeType, TurnIInv, SessionOK
  <2>2. Head(outcomes).turn \in 0..MaxTurns
    BY <1>0, <2>1 DEF Lines, TurnNos
  <2>3. Outcome(Head(outcomes).turn, Head(outcomes).kind) \in SendOutcomes
    BY <2>1, <2>2, SendOutcomeType
  <2> QED
    BY <1>10, <1>11, <2>3 DEF SendReturns
<1>12. CASE ProcessExited \/ Timeout
  <2>1. Outcome(turn, "error") \in SendOutcomes /\ Outcome(turn, "timeout") \in SendOutcomes
    BY <1>0, SendOutcomeType
  <2> QED
    BY <1>10, <1>12, <2>1 DEF ProcessExited, Timeout
<1>13. CASE Joined
  <2>1. CASE outcome.kind = "ok"
    <3>1. outcome.turn \in TurnNos
      BY <1>0, <1>13, <2>1 DEF Joined, TurnIInv, TurnOK, Won, Succeeded, BehaviourType, TurnNos
    <3>2. injected' = 0 /\ won' = (won \/ session.knows = version)
          /\ (Reply("result", text \cup {outcome.turn}, won') \/ Reply("blocked", {}, TRUE))
      BY <1>13, <2>1 DEF Joined
    <3>3. won' \in BOOLEAN
      BY <3>2
    <3>4. text \cup {outcome.turn} \in SUBSET TurnNos
      BY <1>0, <3>1 DEF BehaviourType
    <3>5. answer' \in Answers /\ phase' = "reply"
      BY <1>00, <3>2, <3>3, <3>4, ReplyType
    <3>6. UNCHANGED <<turn, outcome, session, drain, text, version, lines, faults>>
      BY <1>13 DEF Joined, drainVars
    <3> QED
      BY <1>0, <3>2, <3>3, <3>5, <3>6 DEF BehaviourType, Answers
  <2>2. CASE outcome.kind # "ok"
    BY <1>0, <1>13, <2>2 DEF Joined, BehaviourType, drainVars
  <2> QED
    BY <2>1, <2>2
<1>14. CASE DiscardSession
  <2>1. answer' \in Answers /\ phase' = "reply"
    BY <1>00, <1>14, ReplyType DEF DiscardSession
  <2>2. session' \in [live : BOOLEAN, knows : 0..(MaxSwaps + 1)]
    BY <1>0, <1>14 DEF DiscardSession, EndSession, NoSession
  <2>3. UNCHANGED <<turn, injected, outcome, drain, text, version, won, lines, faults>>
    BY <1>14 DEF DiscardSession, drainVars
  <2> QED
    BY <1>0, <2>1, <2>2, <2>3 DEF BehaviourType, Answers
<1> QED
  BY <1>1, <1>2, <1>3, <1>4, <1>5, <1>6, <1>7, <1>8, <1>9, <1>11, <1>12, <1>13, <1>14
  DEF TurnStep, Behaviour, Machinery, WriteFails, ChildReads

(***************************************************************************)
(* The session.                                                             *)
(***************************************************************************)
LEMMA SessionStep ==
  ASSUME TurnIInv, TurnStep
  PROVE  SessionOK'
<1>0. /\ SessionOK /\ PipeType /\ TurnOK /\ turn \in Nat
      /\ session \in [live : BOOLEAN, knows : 0..(MaxSwaps + 1)]
  BY TurnTypeParts, TurnBounds DEF TurnIInv, BehaviourType
<1>1. CASE UNCHANGED <<turn, session, childVars, readVars>>
  <2>1. UNCHANGED <<turn, session, child, stdout, reader, events, outcomes>>
    BY <1>1 DEF childVars, readVars
  <2> QED
    BY <1>0, <2>1 DEF SessionOK
<1>2. CASE Acquired \/ SpawnFails \/ ProcessExited \/ Joined \/ Replied \/ DrainEof
  <2>1. UNCHANGED <<turn, session, childVars, readVars>>
    BY <1>2 DEF Acquired, SpawnFails, ProcessExited, SendEnds, Joined, Replied, DrainEof,
                childVars, readVars, turnVars
  <2> QED
    BY <1>1, <2>1
<1>3. CASE DiscardSession \/ Swap
  <2>1. EndSession
    BY <1>3 DEF DiscardSession, Swap
  <2>2. /\ ~ session'.live /\ child'.at = "none" /\ stdout' = <<>>
        /\ reader'.at = "ended" /\ events' = <<>> /\ outcomes' = <<>>
    BY <2>1 DEF EndSession, NoSession
  <2> QED
    BY <2>2, NoLines DEF SessionOK
<1>4. CASE phase = "idle" /\ TakeRequest
  <2>1. child.at # "working"
    BY <1>0, <1>4 DEF TurnOK, Resting, Quiet, Spent
  <2>2. UNCHANGED <<session, child, stdout, reader, events, outcomes>>
    BY <1>4 DEF TakeRequest, childVars, readVars
  <2> QED
    BY <1>0, <2>1, <2>2 DEF SessionOK
<1>5. CASE Start \/ WriteEnds
  <2>0. turn > 0 /\ turn' = turn
    BY <1>0, <1>5 DEF Start, WriteEnds, TurnOK
  <2>1. ASSUME NEW c, NEW knows, Prompt(c, knows) \/ Pending(c, knows)
        PROVE  /\ session'.live
               /\ \/ child' = c
                  \/ /\ c.at # "dead" /\ child'.at \in {"hung", "working"}
                     /\ child'.at = "working" => child'.turn = turn
    <3>1. CASE Prompt(c, knows) /\ c.at = "dead"
      BY <3>1 DEF Prompt
    <3>2. CASE Prompt(c, knows) /\ c.at # "dead"
      BY <3>2 DEF Prompt
    <3>3. CASE Pending(c, knows)
      BY <3>3 DEF Pending
    <3> QED
      BY <2>1, <3>1, <3>2, <3>3
  <2>2. CASE WriteEnds \/ session.live
    <3>1. /\ Prompt(child, session.knows) \/ Pending(child, session.knows)
          /\ UNCHANGED <<stdout, reader, events, outcomes>>
      BY <1>5, <2>2 DEF Start, WriteEnds, readVars
    <3>2. session.live
      BY <1>0, <2>2 DEF WriteEnds, TurnOK, Awaiting
    <3>3. reader.at = "ended" => child.at = "dead"
      BY <1>0, <3>2 DEF SessionOK
    <3> QED
      BY <1>0, <2>0, <2>1, <3>1, <3>2, <3>3 DEF SessionOK
  <2>3. CASE Start /\ ~ session.live
    <3>1. /\ Prompt(Spawned, 0) \/ Pending(Spawned, 0)
          /\ stdout' = <<>> /\ reader' = [reader EXCEPT !.at = "read"]
          /\ events' = <<>> /\ outcomes' = <<>>
      BY <2>3 DEF Start
    <3>2. reader'.at = "read"
      BY <1>0, <3>1 DEF PipeType
    <3>3. /\ session'.live /\ child'.at \in {"hung", "working", "ready"}
          /\ child'.at = "working" => child'.turn = turn
      BY <2>1, <3>1 DEF Spawned
    <3> QED
      BY <2>0, <3>1, <3>2, <3>3, NoLines DEF SessionOK
  <2> QED
    BY <1>5, <2>2, <2>3
<1>6. CASE SendReturns
  <2>1. outcomes # <<>> /\ outcomes' = Tail(outcomes) /\ UNCHANGED <<turn, session, child, stdout, reader, events>>
    BY <1>6 DEF SendReturns, SendEnds
  <2>2. session.live
    BY <1>0, <2>1 DEF SessionOK
  <2>3. OnlyResults(outcomes')
    BY <1>0, <2>1, TakeLine DEF SessionOK, PipeType
  <2> QED
    BY <1>0, <2>1, <2>2, <2>3 DEF SessionOK
<1>7. CASE Timeout
  <2>1. /\ child' = [child EXCEPT !.at = "dead"]
        /\ UNCHANGED <<turn, session, stdout, reader, events, outcomes>>
    BY <1>7 DEF Timeout, SendEnds, readVars
  <2>2. child'.at = "dead"
    BY <1>0, <2>1 DEF PipeType
  <2>3. session.live
    BY <1>0, <1>7 DEF Timeout, SendEnds, TurnOK, Awaiting
  <2> QED
    BY <1>0, <2>1, <2>2, <2>3 DEF SessionOK
<1>8. CASE ReadLine \/ ReadEof
  <2>1. /\ reader.at = "read" /\ reader'.at \in {"event", "ended"}
        /\ reader'.at = "ended" => stdout' = <<>> /\ child.at = "dead"
        /\ UNCHANGED <<turn, session, child, events, outcomes>>
    BY <1>0, <1>8 DEF ReadLine, ReadEof, turnVars, childVars, PipeType
  <2> QED
    BY <1>0, <2>1 DEF SessionOK
<1>9. CASE PushEvent
  <2>1. /\ reader.at = "event" /\ reader'.at \in {"outcome", "read"}
        /\ reader'.at = "outcome" => reader'.line.kind \in Results
        /\ UNCHANGED <<turn, session, child, stdout, outcomes>>
    BY <1>0, <1>9 DEF PushEvent, turnVars, childVars, PipeType
  <2> QED
    BY <1>0, <2>1 DEF SessionOK
<1>10. CASE PushOutcome
  <2>1. /\ reader.at = "outcome" /\ reader'.at = "read" /\ reader.line \in Lines
        /\ outcomes' = Append(outcomes, reader.line)
        /\ UNCHANGED <<turn, session, child, stdout, events>>
    BY <1>0, <1>10 DEF PushOutcome, turnVars, childVars, PipeType
  <2>2. OnlyResults(outcomes')
    BY <1>0, <2>1, AppendLine DEF SessionOK, PipeType
  <2> QED
    BY <1>0, <2>1, <2>2 DEF SessionOK
<1>11. CASE DrainEvent
  <2>1. events # <<>> /\ UNCHANGED <<turn, session, child, stdout, reader, outcomes>>
    BY <1>11 DEF DrainEvent, turnVars, childVars
  <2>2. session.live
    BY <1>0, <2>1 DEF SessionOK
  <2> QED
    BY <1>0, <2>1, <2>2 DEF SessionOK
<1>12. CASE ChildWrites \/ ChildAnswers \/ ChildFails \/ ChildLeavesStdout
  <2>1. /\ child.at \in {"ready", "working"}
        /\ UNCHANGED <<turn, session, reader, events, outcomes>>
    BY <1>12 DEF ChildWrites, ChildAnswers, ChildFails, ChildLeavesStdout, ChildOnly, turnVars, readVars
  <2>2. child' = child \/ child'.at \in {"ready", "hung", "dead"}
    BY <1>0, <1>12 DEF ChildWrites, ChildAnswers, ChildFails, ChildLeavesStdout, PipeType
  <2>3. session.live /\ reader.at # "ended"
    BY <1>0, <2>1 DEF SessionOK
  <2> QED
    BY <1>0, <2>1, <2>2, <2>3 DEF SessionOK
<1> QED
  BY <1>2, <1>3, <1>4, <1>5, <1>6, <1>7, <1>8, <1>9, <1>10, <1>11, <1>12
  DEF TurnStep, Behaviour, Machinery, WriteFails, ChildReads

(***************************************************************************)
(* What the reader, the drain and the child do to the lines.  Each of their *)
(* steps is one of eight moves of a line.                                  *)
(***************************************************************************)
LineRead ==
    /\ reader.at = "read" /\ stdout # <<>>
    /\ reader'.at = "event" /\ reader'.line = Head(stdout) /\ stdout' = Tail(stdout)
    /\ UNCHANGED <<child, events, outcomes, drain, text>>
PipeEnded ==
    /\ reader.at = "read" /\ stdout = <<>> /\ reader'.at = "ended"
    /\ UNCHANGED <<child, stdout, events, outcomes, drain, text>>
LinePushed ==
    /\ reader.at = "event" /\ events' = Append(events, reader.line)
    /\ reader'.at = IF reader.line.kind \in Results THEN "outcome" ELSE "read"
    /\ reader'.line = reader.line
    /\ UNCHANGED <<child, stdout, outcomes, drain, text>>
ResultPushed ==
    /\ reader.at = "outcome" /\ outcomes' = Append(outcomes, reader.line)
    /\ reader'.at = "read"
    /\ UNCHANGED <<child, stdout, events, drain, text>>
LineDrained ==
    /\ drain = "on" /\ events # <<>> /\ events' = Tail(events)
    /\ text' = IF Head(events).kind = "text" THEN text \cup {Head(events).turn} ELSE text
    /\ drain' = IF Head(events).kind \in Results THEN "done" ELSE "on"
    /\ UNCHANGED <<child, stdout, reader, outcomes>>
DrainStopped ==
    /\ drain = "on" /\ events = <<>> /\ reader.at = "ended" /\ drain' = "done"
    /\ UNCHANGED <<child, stdout, reader, events, outcomes, text>>
LineWritten(x) ==
    /\ stdout' = Append(stdout, x) /\ x.turn = child.turn
    /\ x.kind = "raw" \/ child.at = "working"
    /\ x.kind = "ok" => child'.at # "working"
    /\ child'.at = "working" => child.at = "working"
    /\ child.at \in {"ready", "working"}
    /\ UNCHANGED <<reader, events, outcomes, drain, text>>
ChildMoved ==
    /\ child.at \in {"ready", "working"}
    /\ child'.at = "working" => child.at = "working"
    /\ UNCHANGED <<stdout, reader, events, outcomes, drain, text>>
Moves ==
    \/ LineRead \/ PipeEnded \/ LinePushed \/ ResultPushed \/ LineDrained \/ DrainStopped
    \/ (\E x \in Lines : LineWritten(x)) \/ ChildMoved

LEMMA WrittenLine ==
  ASSUME NEW kind \in {"text", "raw", "ok", "failed"}, Writes(kind), SessionOK, PipeType,
         child.turn > 0, MaxTurns \in Nat
  PROVE  \E x \in Lines : stdout' = Append(stdout, x) /\ x.turn = child.turn /\ x.kind = kind
<1>1. [turn |-> child.turn, kind |-> kind] \in Lines
  BY DEF PipeType, Lines, TurnNos
<1> QED
  BY <1>1 DEF Writes

LEMMA MachineryMoves ==
  ASSUME TurnIInv, Machinery, ~ ChildReads
  PROVE  Moves /\ UNCHANGED <<phase, turn, injected, outcome, answer, session, version, won>>
<1>0. SessionOK /\ PipeType /\ MaxTurns \in Nat
  BY TurnTypeParts, TurnBounds DEF TurnIInv
<1>1. UNCHANGED <<phase, turn, injected, outcome, answer, session, version, won>>
  BY DEF Machinery, ReadLine, ReadEof, PushEvent, PushOutcome, DrainEvent, DrainEof, ChildWrites,
         ChildAnswers, ChildFails, ChildLeavesStdout, ChildOnly, turnVars
<1>2. reader \in [at : {"read", "event", "outcome", "ended"}, line : Lines]
  BY <1>0 DEF PipeType
<1>3. /\ ReadLine => LineRead
      /\ ReadEof => PipeEnded
      /\ PushEvent => LinePushed
      /\ PushOutcome => ResultPushed
      /\ DrainEvent => LineDrained
      /\ DrainEof => DrainStopped
  <2>1. ReadLine => LineRead
    BY <1>2 DEF ReadLine, LineRead, drainVars
  <2>2. ReadEof => PipeEnded
    BY <1>2 DEF ReadEof, PipeEnded, drainVars, childVars
  <2>3. PushEvent => LinePushed
    BY <1>2 DEF PushEvent, LinePushed, drainVars, childVars
  <2>4. PushOutcome => ResultPushed
    BY <1>2 DEF PushOutcome, ResultPushed, drainVars, childVars
  <2>5. DrainEvent => LineDrained
    BY DEF DrainEvent, LineDrained, childVars
  <2>6. DrainEof => DrainStopped
    BY DEF DrainEof, DrainStopped, readVars, childVars
  <2> QED
    BY <2>1, <2>2, <2>3, <2>4, <2>5, <2>6
<1>5. CASE ChildFails \/ ChildLeavesStdout
  <2>1. UNCHANGED <<stdout, reader, events, outcomes, drain, text>> /\ child.at \in {"ready", "working"}
    BY <1>5 DEF ChildFails, ChildLeavesStdout, ChildOnly, readVars, drainVars
  <2>2. child' = child \/ child'.at \in {"hung", "dead"}
    BY <1>0, <1>5 DEF ChildFails, ChildLeavesStdout, PipeType
  <2>3. ChildMoved
    BY <2>1, <2>2 DEF ChildMoved
  <2> QED
    BY <1>1, <2>3 DEF Moves
<1>6. CASE ChildWrites
  <2>1. /\ child.at \in {"ready", "working"} /\ child' = child
        /\ UNCHANGED <<reader, events, outcomes, drain, text>>
    BY <1>6 DEF ChildWrites, ChildOnly, readVars, drainVars
  <2>2. PICK kind \in {"text", "raw"} :
           Writes(kind) /\ child.turn > 0 /\ (kind = "raw" \/ child.at = "working")
    BY <1>0, <1>6 DEF ChildWrites, SessionOK
  <2>3. PICK x \in Lines : stdout' = Append(stdout, x) /\ x.turn = child.turn /\ x.kind = kind
    BY <1>0, <2>2, WrittenLine
  <2>4. LineWritten(x)
    BY <2>1, <2>2, <2>3 DEF LineWritten
  <2> QED
    BY <1>1, <2>4 DEF Moves
<1>7. CASE ChildAnswers
  <2>1. child.at = "working" /\ UNCHANGED <<reader, events, outcomes, drain, text>>
    BY <1>7 DEF ChildAnswers, ChildOnly, readVars, drainVars
  <2>2. PICK kind \in {"ok", "failed"} :
           Writes(kind) /\ child.turn > 0 /\ (kind = "ok" => child' = [child EXCEPT !.at = "ready"])
    BY <1>0, <1>7 DEF ChildAnswers, SessionOK
  <2>3. PICK x \in Lines : stdout' = Append(stdout, x) /\ x.turn = child.turn /\ x.kind = kind
    BY <1>0, <2>2, WrittenLine
  <2>4. kind = "ok" => child'.at = "ready"
    BY <1>0, <2>2 DEF PipeType
  <2>5. LineWritten(x)
    BY <2>1, <2>2, <2>3, <2>4 DEF LineWritten
  <2> QED
    BY <1>1, <2>5 DEF Moves
<1> QED
  BY <1>1, <1>3, <1>5, <1>6, <1>7 DEF Machinery, Moves

LEMMA SpentStep ==
  ASSUME PipeType, SessionOK, Moves, Spent
  PROVE  Spent' /\ (Raw(events) => Raw(events'))
<1>0. outcomes = <<>> /\ HeldRaw /\ Raw(stdout) /\ child.at # "working"
      /\ stdout \in Seq(Lines) /\ events \in Seq(Lines) /\ reader.line \in Lines
  BY DEF Spent, PipeType
<1>1. CASE LineRead
  BY <1>0, <1>1, TakeLine DEF LineRead, Spent, HeldRaw, Held
<1>2. CASE LinePushed
  <2>1. reader.line.kind = "raw"
    BY <1>0, <1>2 DEF LinePushed, HeldRaw, Held
  <2>2. Raw(events) => Raw(events')
    BY <1>0, <1>2, <2>1, AppendLine DEF LinePushed
  <2> QED
    BY <1>0, <1>2, <2>1, <2>2 DEF LinePushed, Spent, HeldRaw, Held
<1>3. ASSUME NEW x \in Lines, LineWritten(x)
      PROVE  Spent' /\ (Raw(events) => Raw(events'))
  <2>1. Raw(stdout')
    BY <1>0, <1>3, AppendLine DEF LineWritten
  <2> QED
    BY <1>0, <1>3, <2>1 DEF LineWritten, Spent, HeldRaw, Held
<1>4. reader.at # "outcome"
  BY <1>0 DEF SessionOK, HeldRaw, Held, Results
<1>5. CASE LineDrained
  BY <1>0, <1>5, TakeLine DEF LineDrained, Spent, HeldRaw, Held
<1>6. CASE PipeEnded \/ DrainStopped \/ ChildMoved
  BY <1>0, <1>6 DEF PipeEnded, DrainStopped, ChildMoved, Spent, HeldRaw, Held
<1> QED
  BY <1>1, <1>2, <1>3, <1>4, <1>5, <1>6 DEF Moves, ResultPushed

LEMMA TaggedStep ==
  ASSUME PipeType, SessionOK, Moves, Tagged, UNCHANGED turn
  PROVE  Tagged'
<1>0. /\ About(stdout, turn) /\ About(events, turn) /\ About(outcomes, turn)
      /\ Held /\ reader.line.kind # "raw" => reader.line.turn = turn
      /\ text \subseteq {turn} /\ turn' = turn
      /\ stdout \in Seq(Lines) /\ events \in Seq(Lines) /\ outcomes \in Seq(Lines)
      /\ reader.line \in Lines
  BY DEF Tagged, PipeType
<1>1. CASE LineRead
  <2>1. About(stdout', turn) /\ (reader'.line.kind # "raw" => reader'.line.turn = turn)
    BY <1>0, <1>1, TakeLine DEF LineRead
  <2> QED
    BY <1>0, <1>1, <2>1 DEF LineRead, Tagged
<1>2. CASE LinePushed
  <2>1. reader.line.kind # "raw" => reader.line.turn = turn
    BY <1>0, <1>2 DEF LinePushed, Held
  <2>2. About(events', turn)
    BY <1>0, <1>2, <2>1, AppendLine DEF LinePushed
  <2> QED
    BY <1>0, <1>2, <2>1, <2>2 DEF LinePushed, Tagged
<1>3. CASE ResultPushed
  <2>1. reader.line.kind # "raw" => reader.line.turn = turn
    BY <1>0, <1>3 DEF ResultPushed, Held
  <2>2. About(outcomes', turn)
    BY <1>0, <1>3, <2>1, AppendLine DEF ResultPushed
  <2> QED
    BY <1>0, <1>3, <2>2 DEF ResultPushed, Tagged, Held
<1>4. CASE LineDrained
  <2>1. About(events', turn) /\ (Head(events).kind # "raw" => Head(events).turn = turn)
    BY <1>0, <1>4, TakeLine DEF LineDrained
  <2>2. text' \subseteq {turn}
    BY <1>0, <1>4, <2>1 DEF LineDrained
  <2> QED
    BY <1>0, <1>4, <2>1, <2>2 DEF LineDrained, Tagged, Held
<1>5. ASSUME NEW x \in Lines, LineWritten(x)
      PROVE  Tagged'
  <2>1. x.kind # "raw" => x.turn = turn
    BY <1>5 DEF LineWritten, SessionOK
  <2>2. About(stdout', turn)
    BY <1>0, <1>5, <2>1, AppendLine DEF LineWritten
  <2> QED
    BY <1>0, <1>5, <2>2 DEF LineWritten, Tagged, Held
<1>6. CASE PipeEnded \/ DrainStopped \/ ChildMoved
  BY <1>0, <1>6 DEF PipeEnded, DrainStopped, ChildMoved, Tagged, Held
<1> QED
  BY <1>1, <1>2, <1>3, <1>4, <1>5, <1>6 DEF Moves

LEMMA OkIsLastStep ==
  ASSUME PipeType, SessionOK, Moves, OkIsLast
  PROVE  OkIsLast'
<1>0. /\ stdout \in Seq(Lines) /\ events \in Seq(Lines) /\ outcomes \in Seq(Lines)
      /\ reader.line \in Lines
  BY DEF PipeType
<1>1. /\ OkLast(stdout) /\ OkLast(events) /\ OkLast(outcomes)
      /\ Has(stdout, "ok") => child.at # "working"
      /\ Holds("ok") => Raw(stdout) /\ child.at # "working"
      /\ Has(events, "ok") =>
             Raw(stdout) /\ child.at # "working" /\ (reader.at = "event" => reader.line.kind = "raw")
      /\ Has(outcomes, "ok") => Raw(stdout) /\ child.at # "working" /\ HeldRaw
  BY DEF OkIsLast
<1>2. CASE LineRead
  <2>1. /\ Head(stdout) = reader'.line /\ stdout # <<>> /\ stdout' = Tail(stdout) /\ reader'.at = "event"
        /\ UNCHANGED <<child, events, outcomes>>
    BY <1>2 DEF LineRead
  <2>2. /\ OkLast(stdout') /\ (reader'.line.kind = "ok" => Raw(stdout') /\ Has(stdout, "ok"))
        /\ Has(stdout', "ok") => Has(stdout, "ok")
        /\ Raw(stdout) => Raw(stdout') /\ reader'.line.kind = "raw"
    BY <1>0, <1>1, <2>1, TakeLine
  <2>3. Holds("ok")' => Raw(stdout') /\ child'.at # "working"
    BY <1>1, <2>1, <2>2 DEF Holds
  <2> QED
    BY <1>1, <2>1, <2>2, <2>3 DEF OkIsLast, HeldRaw
<1>3. CASE LinePushed
  <2>1. /\ reader.at = "event" /\ events' = Append(events, reader.line)
        /\ reader'.at = (IF reader.line.kind \in Results THEN "outcome" ELSE "read")
        /\ reader'.line = reader.line
        /\ UNCHANGED <<child, stdout, outcomes>>
    BY <1>3 DEF LinePushed
  <2>2. OkLast(events') /\ (Has(events', "ok") => Has(events, "ok") \/ reader.line.kind = "ok")
    BY <1>0, <1>1, <2>1, AppendLine
  <2>3. reader.line.kind = "ok" => Holds("ok")
    BY <2>1 DEF Holds, Held
  <2>4. HeldRaw => HeldRaw'
    BY <2>1 DEF HeldRaw, Held
  <2>5. Holds("ok")' => Holds("ok")
    BY <2>1 DEF Holds, Held
  <2> QED
    BY <1>1, <2>1, <2>2, <2>3, <2>4, <2>5 DEF OkIsLast
<1>4. CASE ResultPushed
  <2>1. /\ reader.at = "outcome" /\ outcomes' = Append(outcomes, reader.line) /\ reader'.at = "read"
        /\ UNCHANGED <<child, stdout, events>>
    BY <1>4 DEF ResultPushed
  <2>2. ~ Held' /\ Held
    BY <2>1 DEF Held
  <2>3. Has(outcomes, "ok") => reader.line.kind = "raw"
    BY <1>1, <2>2 DEF HeldRaw
  <2>4. OkLast(outcomes') /\ (Has(outcomes', "ok") => Has(outcomes, "ok") \/ reader.line.kind = "ok")
    BY <1>0, <1>1, <2>1, <2>3, AppendLine
  <2>5. reader.line.kind = "ok" => Holds("ok")
    BY <2>2 DEF Holds
  <2>6. HeldRaw' /\ ~ Holds("ok")'
    BY <2>2 DEF HeldRaw, Holds
  <2> QED
    BY <1>1, <2>1, <2>4, <2>5, <2>6 DEF OkIsLast
<1>5. CASE LineDrained
  <2>1. events # <<>> /\ events' = Tail(events) /\ UNCHANGED <<child, stdout, reader, outcomes>>
    BY <1>5 DEF LineDrained
  <2>2. OkLast(events') /\ (Has(events', "ok") => Has(events, "ok"))
    BY <1>0, <1>1, <2>1, TakeLine
  <2> QED
    BY <1>1, <2>1, <2>2 DEF OkIsLast, Holds, HeldRaw, Held
<1>6. ASSUME NEW x \in Lines, LineWritten(x)
      PROVE  OkIsLast'
  <2>1. /\ stdout' = Append(stdout, x) /\ (x.kind = "raw" \/ child.at = "working")
        /\ (x.kind = "ok" => child'.at # "working")
        /\ (child'.at = "working" => child.at = "working")
        /\ UNCHANGED <<reader, events, outcomes>>
    BY <1>6 DEF LineWritten
  <2>2. /\ (Has(stdout, "ok") => x.kind = "raw")
        /\ (Has(stdout', "ok") => Has(stdout, "ok") \/ x.kind = "ok")
        /\ (Raw(stdout) /\ child.at # "working" => Raw(stdout'))
        /\ OkLast(stdout')
    BY <1>0, <1>1, <2>1, AppendLine
  <2> QED
    BY <1>1, <2>1, <2>2 DEF OkIsLast, Holds, HeldRaw, Held
<1>7. CASE PipeEnded \/ DrainStopped \/ ChildMoved
  <2>1. /\ UNCHANGED <<stdout, events, outcomes>> /\ (reader' = reader \/ reader'.at = "ended")
        /\ (child'.at = "working" => child.at = "working")
    BY <1>7 DEF PipeEnded, DrainStopped, ChildMoved
  <2> QED
    BY <1>1, <2>1 DEF OkIsLast, Holds, HeldRaw, Held
<1> QED
  BY <1>2, <1>3, <1>4, <1>5, <1>6, <1>7 DEF Moves

\* The two ways the results of a turn can be: none of them a failure, or a failure
\* first.
LEMMA NoResults ==
  ASSUME NEW s \in Seq(Lines), OnlyResults(s), ~ Has(s, "ok"), ~ Has(s, "failed")
  PROVE  s = <<>>
<1>1. s # <<>> => 1 \in DOMAIN s
  OBVIOUS
<1> QED
  BY <1>1 DEF Has, OnlyResults, Results

LEMMA FailedFirstFails ==
  ASSUME PipeType, FailedFirst
  PROVE  ~ NoFailed
<1>1. CASE outcomes # <<>>
  BY <1>1, TakeLine DEF FailedFirst, NoFailed, PipeType
<1>2. CASE outcomes = <<>>
  BY <1>2 DEF FailedFirst, NoFailed, Holds
<1> QED
  BY <1>1, <1>2

LEMMA NoFailedStep ==
  ASSUME PipeType, SessionOK, Moves, OkIsLast, NoFailed
  PROVE  NoFailed' \/ FailedFirst'
<1>0. /\ stdout \in Seq(Lines) /\ events \in Seq(Lines) /\ outcomes \in Seq(Lines)
      /\ reader.line \in Lines
      /\ ~ Has(stdout, "failed") /\ ~ Has(events, "failed") /\ ~ Has(outcomes, "failed")
      /\ ~ Holds("failed")
  BY DEF PipeType, NoFailed
<1>1. CASE LineRead
  <2>1. /\ Head(stdout) = reader'.line /\ stdout # <<>> /\ stdout' = Tail(stdout) /\ reader'.at = "event"
        /\ UNCHANGED <<events, outcomes>>
    BY <1>1 DEF LineRead
  <2>2. ~ Has(stdout', "failed") /\ reader'.line.kind # "failed"
    BY <1>0, <2>1, TakeLine
  <2> QED
    BY <1>0, <2>1, <2>2 DEF NoFailed, Holds
<1>2. CASE LinePushed
  <2>1. /\ reader.at = "event" /\ events' = Append(events, reader.line)
        /\ reader'.line = reader.line /\ UNCHANGED <<stdout, outcomes>>
    BY <1>2 DEF LinePushed
  <2>2. reader.line.kind # "failed"
    BY <1>0, <2>1 DEF Holds, Held
  <2>3. ~ Has(events', "failed")
    BY <1>0, <2>1, <2>2, AppendLine
  <2> QED
    BY <1>0, <2>1, <2>2, <2>3 DEF NoFailed, Holds
<1>3. CASE ResultPushed
  <2>1. /\ reader.at = "outcome" /\ outcomes' = Append(outcomes, reader.line) /\ reader'.at = "read"
        /\ UNCHANGED <<stdout, events>>
    BY <1>3 DEF ResultPushed
  <2>2. reader.line.kind # "failed"
    BY <1>0, <2>1 DEF Holds, Held
  <2>3. ~ Has(outcomes', "failed")
    BY <1>0, <2>1, <2>2, AppendLine
  <2> QED
    BY <1>0, <2>1, <2>2, <2>3 DEF NoFailed, Holds, Held
<1>4. CASE LineDrained
  <2>1. events # <<>> /\ events' = Tail(events) /\ UNCHANGED <<stdout, reader, outcomes>>
    BY <1>4 DEF LineDrained
  <2>2. ~ Has(events', "failed")
    BY <1>0, <2>1, TakeLine
  <2> QED
    BY <1>0, <2>1, <2>2 DEF NoFailed, Holds, Held
<1>5. ASSUME NEW x \in Lines, LineWritten(x)
      PROVE  NoFailed' \/ FailedFirst'
  <2>1. /\ stdout' = Append(stdout, x) /\ (x.kind = "raw" \/ child.at = "working")
        /\ UNCHANGED <<reader, events, outcomes>>
    BY <1>5 DEF LineWritten
  <2>2. Has(stdout', "failed") <=> x.kind = "failed"
    BY <1>0, <2>1, AppendLine
  <2>3. CASE x.kind = "failed"
    <3>1. child.at = "working"
      BY <2>1, <2>3
    <3>2. ~ Has(outcomes, "ok") /\ ~ Holds("ok")
      BY <3>1 DEF OkIsLast
    <3>3. outcomes = <<>>
      BY <1>0, <3>2, NoResults DEF SessionOK
    <3>4. ~ (Held /\ reader.line.kind \in Results)
      BY <1>0, <3>2 DEF Holds, Results
    <3> QED
      BY <2>1, <2>2, <2>3, <3>3, <3>4 DEF FailedFirst, Held
  <2>4. CASE x.kind # "failed"
    BY <1>0, <2>1, <2>2, <2>4 DEF NoFailed, Holds, Held
  <2> QED
    BY <2>3, <2>4
<1>6. CASE PipeEnded \/ DrainStopped \/ ChildMoved
  <2>1. UNCHANGED <<stdout, events, outcomes>> /\ (reader' = reader \/ reader'.at = "ended")
    BY <1>6 DEF PipeEnded, DrainStopped, ChildMoved
  <2> QED
    BY <1>0, <2>1 DEF NoFailed, Holds, Held
<1> QED
  BY <1>1, <1>2, <1>3, <1>4, <1>5, <1>6 DEF Moves

LEMMA FailedFirstStep ==
  ASSUME PipeType, SessionOK, Moves, OkIsLast, FailedFirst
  PROVE  FailedFirst'
<1>0. /\ stdout \in Seq(Lines) /\ events \in Seq(Lines) /\ outcomes \in Seq(Lines)
      /\ reader.line \in Lines
  BY DEF PipeType
<1>1. CASE LineRead
  <2>1. /\ Head(stdout) = reader'.line /\ stdout # <<>> /\ stdout' = Tail(stdout)
        /\ reader.at = "read" /\ reader'.at = "event" /\ outcomes' = outcomes
    BY <1>1 DEF LineRead
  <2>2. CASE outcomes # <<>>
    BY <2>1, <2>2 DEF FailedFirst
  <2>3. CASE outcomes = <<>>
    <3>1. Has(stdout, "failed")
      BY <2>1, <2>3 DEF FailedFirst, Held
    <3>2. reader'.line.kind = "failed" \/ Has(stdout', "failed")
      BY <1>0, <2>1, <3>1, TakeLine
    <3>3. reader'.line.kind = "ok" => ~ Has(stdout', "failed")
      <4>1. ASSUME reader'.line.kind = "ok" PROVE Raw(stdout')
        BY <1>0, <2>1, <4>1, TakeLine DEF OkIsLast
      <4> QED
        BY <4>1, RawLines
    <3>4. reader'.line.kind \in Results => reader'.line.kind = "failed"
      BY <3>2, <3>3 DEF Results
    <3> QED
      BY <2>1, <2>3, <3>2, <3>4 DEF FailedFirst, Held, Results
  <2> QED
    BY <2>2, <2>3
<1>2. CASE LinePushed
  BY <1>2 DEF LinePushed, FailedFirst, Held
<1>3. CASE ResultPushed
  <2>1. /\ reader.at = "outcome" /\ outcomes' = Append(outcomes, reader.line)
        /\ reader.line.kind \in Results
    BY <1>3 DEF ResultPushed, SessionOK
  <2>2. outcomes' # <<>> /\ Head(outcomes') = IF outcomes = <<>> THEN reader.line ELSE Head(outcomes)
    BY <1>0, <2>1, AppendLine
  <2> QED
    BY <2>1, <2>2 DEF FailedFirst, Held
<1>4. ASSUME NEW x \in Lines, LineWritten(x)
      PROVE  FailedFirst'
  <2>1. stdout' = Append(stdout, x) /\ UNCHANGED <<reader, outcomes>>
    BY <1>4 DEF LineWritten
  <2>2. Has(stdout, "failed") => Has(stdout', "failed")
    BY <1>0, <2>1, AppendLine
  <2> QED
    BY <2>1, <2>2 DEF FailedFirst, Held
<1>5. CASE PipeEnded
  <2>1. UNCHANGED <<stdout, outcomes>> /\ reader.at = "read" /\ reader'.at = "ended"
    BY <1>5 DEF PipeEnded
  <2> QED
    BY <2>1 DEF FailedFirst, Held
<1>6. CASE LineDrained \/ DrainStopped \/ ChildMoved
  BY <1>6 DEF LineDrained, DrainStopped, ChildMoved, FailedFirst, Held
<1> QED
  BY <1>1, <1>2, <1>3, <1>4, <1>5, <1>6 DEF Moves

\* When the drain has come back after a turn without a failure, or stands before the
\* end, the rest is raw.
DrainedRaw == Raw(events) /\ Raw(stdout) /\ (reader.at = "event" => reader.line.kind = "raw")
ResultAhead == outcomes # <<>> \/ reader.at \in {"outcome", "ended"}

LEMMA AheadIsOk ==
  ASSUME PipeType, SessionOK, OkIsLast, NoFailed, ResultAhead
  PROVE  child.at # "working"
<1>1. CASE outcomes # <<>>
  <2>1. Has(outcomes, "ok")
    BY <1>1, NoResults DEF PipeType, SessionOK, NoFailed
  <2> QED
    BY <2>1 DEF OkIsLast
<1>2. CASE reader.at = "outcome"
  <2>1. reader.line.kind = "ok"
    BY <1>2 DEF SessionOK, NoFailed, Holds, Held, Results
  <2> QED
    BY <1>2, <2>1 DEF OkIsLast, Holds, Held
<1>3. CASE reader.at = "ended"
  BY <1>3 DEF SessionOK
<1> QED
  BY <1>1, <1>2, <1>3 DEF ResultAhead

LEMMA DrainedRawStep ==
  ASSUME PipeType, SessionOK, Moves, Awaiting, NoFailed, drain' = "done"
  PROVE  DrainedRaw'
<1>0. /\ stdout \in Seq(Lines) /\ events \in Seq(Lines) /\ outcomes \in Seq(Lines)
      /\ reader.line \in Lines /\ OkIsLast
  BY DEF PipeType, Awaiting
<1>1. CASE drain = "done"
  <2>0. /\ Raw(events) /\ Raw(stdout) /\ (reader.at = "event" => reader.line.kind = "raw")
        /\ ResultAhead
    BY <1>1 DEF Awaiting, ResultAhead
  <2>1. CASE LineRead
    <3>1. Head(stdout) = reader'.line /\ stdout # <<>> /\ stdout' = Tail(stdout) /\ events' = events
      BY <2>1 DEF LineRead
    <3> QED
      BY <1>0, <2>0, <3>1, TakeLine DEF DrainedRaw
  <2>2. CASE LinePushed
    <3>1. /\ reader.at = "event" /\ events' = Append(events, reader.line)
          /\ reader'.line = reader.line /\ stdout' = stdout
      BY <2>2 DEF LinePushed
    <3>2. Raw(events')
      BY <1>0, <2>0, <3>1, AppendLine
    <3> QED
      BY <2>0, <3>1, <3>2 DEF DrainedRaw
  <2>3. ASSUME NEW x \in Lines, LineWritten(x)
        PROVE  DrainedRaw'
    <3>1. child.at # "working"
      BY <1>0, <2>0, AheadIsOk
    <3>2. stdout' = Append(stdout, x) /\ x.kind = "raw" /\ UNCHANGED <<reader, events>>
      BY <2>3, <3>1 DEF LineWritten
    <3>3. Raw(stdout')
      BY <1>0, <2>0, <3>2, AppendLine
    <3> QED
      BY <2>0, <3>2, <3>3 DEF DrainedRaw
  <2>4. CASE PipeEnded \/ ResultPushed \/ ChildMoved
    <3>1. UNCHANGED <<stdout, events>> /\ (reader' = reader \/ reader'.at \in {"ended", "read"})
      BY <2>4 DEF PipeEnded, ResultPushed, ChildMoved
    <3> QED
      BY <2>0, <3>1 DEF DrainedRaw
  <2> QED
    BY <1>1, <2>1, <2>2, <2>3, <2>4 DEF Moves, LineDrained, DrainStopped
<1>2. CASE LineDrained
  <2>1. events # <<>> /\ events' = Tail(events) /\ Head(events).kind \in Results
        /\ UNCHANGED <<stdout, reader>>
    BY <1>2 DEF LineDrained
  <2>2. Has(events, Head(events).kind)
    BY <1>0, <2>1, TakeLine
  <2>3. Head(events).kind = "ok" /\ Has(events, "ok")
    BY <2>1, <2>2 DEF NoFailed, Results
  <2>4. Raw(events')
    BY <1>0, <2>1, <2>3, TakeLine DEF OkIsLast
  <2>5. Raw(stdout) /\ (reader.at = "event" => reader.line.kind = "raw")
    BY <1>0, <2>3 DEF OkIsLast
  <2> QED
    BY <2>1, <2>4, <2>5 DEF DrainedRaw
<1>3. CASE DrainStopped
  <2>1. events = <<>> /\ reader.at = "ended" /\ UNCHANGED <<stdout, reader, events>>
    BY <1>3 DEF DrainStopped
  <2>2. stdout = <<>>
    BY <2>1 DEF SessionOK
  <2> QED
    BY <2>1, <2>2, NoLines DEF DrainedRaw
<1>4. drain' = drain \/ LineDrained \/ DrainStopped
  BY DEF Moves, LineRead, PipeEnded, LinePushed, ResultPushed, LineWritten, ChildMoved
<1> QED
  BY <1>1, <1>2, <1>3, <1>4

LEMMA ResultAheadStep ==
  ASSUME PipeType, SessionOK, Moves, Awaiting,
         drain' = "done" \/ Has(events', "ok") \/ Has(events', "failed")
  PROVE  ResultAhead'
<1>0. /\ events \in Seq(Lines) /\ outcomes \in Seq(Lines) /\ reader.line \in Lines
      /\ (drain = "done" \/ Has(events, "ok") \/ Has(events, "failed")) => ResultAhead
  BY DEF PipeType, Awaiting, ResultAhead
<1>1. CASE LinePushed
  <2>1. /\ reader.at = "event" /\ events' = Append(events, reader.line)
        /\ reader'.at = (IF reader.line.kind \in Results THEN "outcome" ELSE "read")
        /\ drain' = drain /\ outcomes' = outcomes
    BY <1>1 DEF LinePushed
  <2>2. CASE reader.line.kind \in Results
    BY <2>1, <2>2 DEF ResultAhead
  <2>3. CASE reader.line.kind \notin Results
    <3>1. (Has(events', "ok") => Has(events, "ok")) /\ (Has(events', "failed") => Has(events, "failed"))
      BY <1>0, <2>1, <2>3, AppendLine DEF Results
    <3> QED
      BY <1>0, <2>1, <3>1 DEF ResultAhead
  <2> QED
    BY <2>2, <2>3
<1>2. CASE ResultPushed
  BY <1>0, <1>2, AppendLine DEF ResultPushed, ResultAhead
<1>3. CASE LineDrained
  <2>1. /\ events # <<>> /\ events' = Tail(events) /\ UNCHANGED <<reader, outcomes>>
        /\ (drain' = "done" => Head(events).kind \in Results)
    BY <1>3 DEF LineDrained
  <2>2. Has(events, "ok") \/ Has(events, "failed")
    BY <1>0, <2>1, TakeLine DEF Results
  <2> QED
    BY <1>0, <2>1, <2>2 DEF ResultAhead
<1>4. CASE PipeEnded \/ DrainStopped
  BY <1>4 DEF PipeEnded, DrainStopped, ResultAhead
<1>5. CASE LineRead
  BY <1>0, <1>5 DEF LineRead, ResultAhead
<1>6. CASE ChildMoved \/ (\E x \in Lines : LineWritten(x))
  BY <1>0, <1>6 DEF ChildMoved, LineWritten, ResultAhead
<1> QED
  BY <1>1, <1>2, <1>3, <1>4, <1>5, <1>6 DEF Moves

LEMMA AwaitingStep ==
  ASSUME PipeType, SessionOK, Moves, UNCHANGED <<turn, session>>, Awaiting, PipeType'
  PROVE  Awaiting'
<1>1. Tagged' /\ OkIsLast'
  BY TaggedStep, OkIsLastStep DEF Awaiting
<1>2. NoFailed' \/ FailedFirst'
  BY NoFailedStep, FailedFirstStep DEF Awaiting
<1>3. NoFailed' => NoFailed
  <2>1. FailedFirst' => ~ NoFailed'
    BY FailedFirstFails, PTL
  <2> QED
    BY <2>1, FailedFirstStep DEF Awaiting
<1>4. session'.live /\ drain' \in {"on", "done"}
  BY DEF Awaiting, Moves, LineRead, PipeEnded, LinePushed, ResultPushed, LineDrained, DrainStopped,
         LineWritten, ChildMoved
<1>5. NoFailed' /\ drain' = "done" => DrainedRaw'
  BY <1>3, DrainedRawStep
<1>6. drain' = "done" \/ Has(events', "ok") \/ Has(events', "failed") => ResultAhead'
  BY ResultAheadStep
<1> QED
  BY <1>1, <1>2, <1>4, <1>5, <1>6 DEF Awaiting, DrainedRaw, ResultAhead

LEMMA SucceededStep ==
  ASSUME PipeType, SessionOK, Moves, UNCHANGED <<turn, session, outcome>>, Succeeded
  PROVE  Succeeded'
<1>0. /\ events \in Seq(Lines) /\ reader.line \in Lines /\ OkLast(events) /\ ~ Has(events, "failed")
      /\ session.live /\ outcome.turn = turn /\ turn > 0
      /\ drain = "done" => Raw(events)
  BY DEF PipeType, Succeeded
<1>1. Spent' /\ (Raw(events) => Raw(events')) /\ Tagged'
  BY SpentStep, TaggedStep DEF Succeeded
<1>2. OkLast(events') /\ ~ Has(events', "failed") /\ (drain' = "done" => Raw(events'))
  <2>1. CASE LinePushed
    <3>1. events' = Append(events, reader.line) /\ drain' = drain
      BY <2>1 DEF LinePushed
    <3>2. reader.line.kind = "raw"
      BY <2>1 DEF LinePushed, Succeeded, Spent, HeldRaw, Held
    <3> QED
      BY <1>0, <1>1, <3>1, <3>2, AppendLine
  <2>2. CASE LineDrained
    <3>1. events # <<>> /\ events' = Tail(events) /\ (drain' = "done" => Head(events).kind \in Results)
      BY <2>2 DEF LineDrained
    <3> QED
      BY <1>0, <3>1, TakeLine DEF Results
  <2>3. CASE DrainStopped
    BY <1>0, <2>3, NoLines DEF DrainStopped
  <2>4. CASE UNCHANGED <<events, drain>>
    BY <1>0, <2>4
  <2> QED
    BY <2>1, <2>2, <2>3, <2>4 DEF Moves, LineRead, PipeEnded, ResultPushed, LineWritten, ChildMoved
<1> QED
  BY <1>0, <1>1, <1>2 DEF Succeeded

(***************************************************************************)
(* The behaviour's own steps.                                              *)
(***************************************************************************)
\* A session with nothing but raw lines in it, and a drain, is one to await the
\* outcome of.
RawSession ==
    /\ Raw(events) /\ Raw(stdout) /\ outcomes = <<>> /\ HeldRaw
    /\ text \subseteq {turn} /\ session.live
    /\ drain \in {"on", "done"}
    /\ drain = "done" => reader.at \in {"outcome", "ended"}

LEMMA RawAwaits == RawSession => Awaiting
<1> SUFFICES ASSUME RawSession PROVE Awaiting
  OBVIOUS
<1>1. /\ OkLast(stdout) /\ OkLast(events) /\ OkLast(outcomes)
      /\ About(stdout, turn) /\ About(events, turn) /\ About(outcomes, turn)
      /\ ~ Has(stdout, "ok") /\ ~ Has(events, "ok") /\ ~ Has(outcomes, "ok")
      /\ ~ Has(stdout, "failed") /\ ~ Has(events, "failed") /\ ~ Has(outcomes, "failed")
  BY RawLines, NoLines DEF RawSession
<1>2. ~ Holds("ok") /\ ~ Holds("failed") /\ (Held => reader.line.kind = "raw")
  BY DEF RawSession, Holds, HeldRaw
<1>3. Tagged /\ OkIsLast /\ NoFailed
  BY <1>1, <1>2 DEF RawSession, Tagged, OkIsLast, NoFailed
<1>4. reader.at = "event" => reader.line.kind = "raw"
  BY <1>2 DEF Held
<1> QED
  BY <1>1, <1>3, <1>4 DEF RawSession, Awaiting

LEMMA StartAwaits ==
  ASSUME TurnIInv, Start
  PROVE  \/ phase' = "join" /\ outcome'.kind = "error"
         \/ phase' = "await" /\ Awaiting'
         \/ phase' = "write" /\ Quiet' /\ Awaiting'
<1>0. PipeType /\ SessionOK /\ Quiet /\ turn \in Nat
  BY TurnTypeParts, TurnBounds DEF TurnIInv, TurnOK, Resting, Start, BehaviourType
<1>1. drain' = "on" /\ text' = {} /\ turn' = turn
  BY DEF Start, DrainOn
<1>2. ASSUME NEW c, NEW knows, Prompt(c, knows) \/ Pending(c, knows)
      PROVE  \/ phase' = "join" /\ outcome'.kind = "error"
             \/ phase' = "await" /\ session'.live
             \/ phase' = "write" /\ session'.live /\ child' = c
  <2>1. CASE Prompt(c, knows) /\ c.at = "dead"
    BY <2>1 DEF Prompt, Outcome
  <2>2. CASE Prompt(c, knows) /\ c.at # "dead"
    BY <2>2 DEF Prompt
  <2>3. CASE Pending(c, knows)
    BY <2>3 DEF Pending
  <2> QED
    BY <1>2, <2>1, <2>2, <2>3
<1>3. /\ \/ phase' = "join" /\ outcome'.kind = "error"
         \/ phase' = "await" /\ session'.live
         \/ phase' = "write" /\ session'.live /\ child'.at # "working"
      /\ Raw(events') /\ Raw(stdout') /\ outcomes' = <<>> /\ HeldRaw'
  <2>1. CASE session.live
    <3>1. /\ Prompt(child, session.knows) \/ Pending(child, session.knows)
          /\ UNCHANGED <<stdout, reader, events, outcomes>>
      BY <2>1 DEF Start, readVars
    <3> QED
      BY <1>0, <1>2, <3>1 DEF Quiet, Spent, HeldRaw, Held
  <2>2. CASE ~ session.live
    <3>1. /\ Prompt(Spawned, 0) \/ Pending(Spawned, 0)
          /\ stdout' = <<>> /\ reader' = [reader EXCEPT !.at = "read"]
          /\ events' = <<>> /\ outcomes' = <<>>
      BY <2>2 DEF Start
    <3>2. reader'.at = "read"
      BY <1>0, <3>1 DEF PipeType
    <3> QED
      BY <1>2, <3>1, <3>2, NoLines DEF HeldRaw, Held, Spawned
  <2> QED
    BY <2>1, <2>2
<1>4. ASSUME session'.live
      PROVE  Awaiting'
  <2>1. RawSession'
    BY <1>1, <1>3, <1>4 DEF RawSession
  <2>2. RawSession' => Awaiting'
    BY RawAwaits, PTL
  <2> QED
    BY <2>1, <2>2
<1>5. phase' = "write" => Quiet'
  BY <1>3 DEF Quiet, Spent
<1> QED
  BY <1>3, <1>4, <1>5

LEMMA WriteAwaits ==
  ASSUME TurnIInv, WriteEnds
  PROVE  \/ phase' = "join" /\ outcome'.kind = "error"
         \/ phase' = "await" /\ Awaiting'
<1>0. Quiet /\ Awaiting
  BY DEF TurnIInv, TurnOK, WriteEnds
<1>1. /\ Prompt(child, session.knows)
      /\ UNCHANGED <<turn, stdout, reader, events, outcomes, drain, text>>
  BY DEF WriteEnds, readVars, drainVars
<1>2. CASE child.at = "dead"
  BY <1>1, <1>2 DEF Prompt, Outcome
<1>3. CASE child.at # "dead"
  <2>1. phase' = "await" /\ session'.live
    BY <1>1, <1>3 DEF Prompt
  <2>2. /\ Raw(events) /\ Raw(stdout) /\ outcomes = <<>> /\ HeldRaw
        /\ text \subseteq {turn} /\ drain \in {"on", "done"}
        /\ drain = "done" => reader.at \in {"outcome", "ended"}
    BY <1>0 DEF Quiet, Spent, Awaiting, Tagged
  <2>3. /\ Raw(events') /\ Raw(stdout') /\ outcomes' = <<>> /\ HeldRaw'
        /\ text' \subseteq {turn'} /\ drain' \in {"on", "done"}
        /\ drain' = "done" => reader'.at \in {"outcome", "ended"}
    BY <1>1, <2>2 DEF HeldRaw, Held
  <2>4. RawSession'
    BY <2>1, <2>3 DEF RawSession
  <2>5. RawSession' => Awaiting'
    BY RawAwaits, PTL
  <2> QED
    BY <2>1, <2>4, <2>5
<1> QED
  BY <1>2, <1>3

LEMMA SuccessReturned ==
  ASSUME TurnIInv, SendReturns, Head(outcomes).kind = "ok"
  PROVE  Succeeded' /\ outcome'.turn = turn
<1>0. /\ PipeType /\ SessionOK /\ Awaiting /\ turn > 0
      /\ outcomes \in Seq(Lines) /\ outcomes # <<>> /\ OkIsLast /\ Tagged
  BY TurnTypeParts DEF TurnIInv, TurnOK, SendReturns, SendEnds, PipeType, Awaiting
<1>1. /\ outcomes' = Tail(outcomes) /\ outcome' = Outcome(Head(outcomes).turn, Head(outcomes).kind)
      /\ drain' = drain
      /\ UNCHANGED <<turn, session, child, stdout, reader, events, text>>
  BY <1>0 DEF SendReturns, SendEnds, Awaiting
<1>2. NoFailed
  BY <1>0 DEF Awaiting, FailedFirst
<1>3. Has(outcomes, "ok")
  BY <1>0, TakeLine
<1>4. outcomes' = <<>>
  <2>1. Raw(Tail(outcomes)) /\ OnlyResults(Tail(outcomes)) /\ Tail(outcomes) \in Seq(Lines)
    BY <1>0, TakeLine DEF OkIsLast, SessionOK
  <2> QED
    BY <1>1, <2>1, RawResults
<1>5. Spent'
  BY <1>0, <1>1, <1>3, <1>4 DEF OkIsLast, Spent, HeldRaw, Held
<1>6. outcome'.turn = turn
  <2>1. Head(outcomes).turn = turn
    BY <1>0, TakeLine DEF Tagged
  <2> QED
    BY <1>1, <2>1 DEF Outcome
<1>7. Tagged'
  BY <1>0, <1>1, <1>4, NoLines DEF Tagged, Held
<1>8. OkLast(events') /\ ~ Has(events', "failed") /\ (drain' = "done" => Raw(events'))
  BY <1>0, <1>1, <1>2 DEF OkIsLast, NoFailed, Awaiting
<1> QED
  BY <1>0, <1>1, <1>5, <1>6, <1>7, <1>8 DEF Succeeded, Awaiting

LEMMA TurnOKStep ==
  ASSUME TurnIInv, TurnStep, PipeType'
  PROVE  TurnOK'
<1>0. PipeType /\ SessionOK /\ TurnOK /\ turn \in Nat
  BY TurnTypeParts, TurnBounds DEF TurnIInv, BehaviourType
<1>1. ASSUME phase' \in {"permit", "start", "reply", "idle", "dead"}, Quiet,
             UNCHANGED <<child, stdout, readVars>>, turn' > 0
      PROVE  TurnOK'
  <2>1. Quiet'
    BY <1>1 DEF readVars, Quiet, Spent, HeldRaw, Held
  <2> QED
    BY <1>1, <2>1 DEF TurnOK, Won
<1>2. CASE (phase = "idle" /\ TakeRequest) \/ Acquired \/ SpawnFails \/ Replied
  <2>1. Quiet
    BY <1>0, <1>2 DEF TurnOK, Resting, Acquired, SpawnFails, Replied
  <2>2. UNCHANGED <<child, stdout, readVars>>
    BY <1>2 DEF TakeRequest, Acquired, SpawnFails, Replied, childVars
  <2>5. phase' \in {"permit", "start", "reply", "idle", "dead"}
    BY <1>2 DEF TakeRequest, Acquired, SpawnFails, Replied, Reply
  <2>3. turn' > 0
    <3>1. turn' = turn + 1 \/ (turn' = turn /\ phase # "idle")
      BY <1>2 DEF TakeRequest, Acquired, SpawnFails, Replied
    <3> QED
      BY <1>0, <3>1 DEF TurnOK
  <2> QED
    BY <1>1, <2>1, <2>2, <2>3, <2>5
<1>3. CASE Swap \/ DiscardSession
  <2>1. EndSession /\ turn' = turn /\ phase' \in {phase, "reply"} /\ phase \in {"idle", "discard"}
        /\ (phase' # "idle" => phase # "idle")
    BY <1>3 DEF Swap, DiscardSession, Reply
  <2>2. Quiet'
    BY <2>1, NoLines DEF EndSession, Quiet, Spent, HeldRaw, Held
  <2>3. phase' \in {"idle", "reply"}
    BY <1>3 DEF Swap, DiscardSession, Reply
  <2> QED
    BY <1>0, <2>1, <2>2, <2>3 DEF TurnOK, Won
<1>4. CASE Start
  <2>1. turn' = turn /\ turn > 0
    BY <1>0, <1>4 DEF Start, TurnOK
  <2> QED
    BY <1>4, <2>1, StartAwaits DEF TurnOK, Won, Resting
<1>5. CASE SendReturns \/ ProcessExited \/ Timeout
  <2>1. phase' = "join" /\ turn' = turn /\ turn > 0
    BY <1>0, <1>5 DEF SendReturns, ProcessExited, Timeout, SendEnds, TurnOK
  <2>2. outcome'.kind = "ok" => Succeeded'
    <3>1. CASE SendReturns
      BY <3>1, SuccessReturned DEF SendReturns, SendEnds, Outcome
    <3>2. CASE ProcessExited \/ Timeout
      BY <3>2 DEF ProcessExited, Timeout, SendEnds, Outcome
    <3> QED
      BY <1>5, <3>1, <3>2
  <2> QED
    BY <2>1, <2>2 DEF TurnOK, Won, Resting
<1>6. CASE Joined
  <2>1. phase = "join" /\ drain = "done" /\ turn' = turn /\ turn > 0
        /\ UNCHANGED <<child, stdout, readVars>>
    BY <1>0, <1>6 DEF Joined, TurnOK, childVars
  <2>2. CASE outcome.kind = "ok"
    <3>1. Quiet
      BY <1>0, <2>1, <2>2 DEF TurnOK, Won, Succeeded, Quiet
    <3>2. phase' = "reply"
      BY <1>6, <2>2 DEF Joined, Reply
    <3> QED
      BY <1>1, <2>1, <3>1, <3>2
  <2>3. CASE outcome.kind # "ok"
    BY <1>6, <2>1, <2>3 DEF Joined, TurnOK, Won, Resting
  <2> QED
    BY <2>2, <2>3
<1>8. CASE WriteEnds
  <2>1. turn' = turn /\ turn > 0
    BY <1>0, <1>8 DEF WriteEnds, TurnOK
  <2> QED
    BY <1>8, <2>1, WriteAwaits DEF TurnOK, Won, Resting
<1>7. CASE Machinery /\ ~ ChildReads
  <2>1. Moves /\ UNCHANGED <<phase, turn, outcome, session>>
    BY <1>7, MachineryMoves
  <2>2. Resting => Quiet'
    BY <1>0, <2>1, SpentStep DEF TurnOK, Quiet
  <2>5. phase = "write" => Quiet' /\ Awaiting'
    BY <1>0, <2>1, SpentStep, AwaitingStep DEF TurnOK, Quiet
  <2>3. phase = "await" => Awaiting'
    BY <1>0, <2>1, AwaitingStep DEF TurnOK
  <2>4. Won => Succeeded'
    BY <1>0, <2>1, SucceededStep DEF TurnOK
  <2> QED
    BY <1>0, <2>1, <2>2, <2>3, <2>4, <2>5 DEF TurnOK, Won, Resting
<1> QED
  BY <1>2, <1>3, <1>4, <1>5, <1>6, <1>7, <1>8 DEF TurnStep, Behaviour, WriteFails, ChildReads

(***************************************************************************)
(* The context and the answer.                                             *)
(***************************************************************************)
LEMMA ContextStep ==
  ASSUME TurnIInv, TurnStep
  PROVE  ContextKept' /\ ContextReachesModel' /\ AnswerIsOwn'
<1>0. /\ ContextKept /\ ContextReachesModel /\ AnswerIsOwn /\ TurnOK
      /\ session \in [live : BOOLEAN, knows : 0..(MaxSwaps + 1)] /\ won \in BOOLEAN
      /\ version \in 1..(MaxSwaps + 1) /\ MaxSwaps \in Nat
  BY TurnTypeParts, TurnBounds DEF TurnIInv, BehaviourType
<1>1. ASSUME UNCHANGED <<injected, version, won, session, answer>>,
             phase' = "await" => phase = "await", Won' => phase = "await" \/ Won,
             phase' = "reply" => phase = "reply" /\ turn' = turn
      PROVE  ContextKept' /\ ContextReachesModel' /\ AnswerIsOwn'
  BY <1>0, <1>1 DEF ContextKept, ContextReachesModel, AnswerIsOwn
<1>2. CASE Machinery /\ ~ ChildReads
  BY <1>1, <1>2, MachineryMoves DEF Won
<1>3. CASE Acquired \/ SendReturns \/ ProcessExited \/ Timeout
  <2>1. UNCHANGED <<injected, version, won, session, answer>> /\ phase' \in {"start", "join"}
        /\ (phase' = "join" => phase = "await")
    BY <1>3 DEF Acquired, SendReturns, ProcessExited, Timeout, SendEnds
  <2> QED
    BY <1>1, <2>1 DEF Won
<1>4. CASE Replied
  BY <1>1, <1>4 DEF Replied, Won
<1>5. CASE (phase = "idle" /\ TakeRequest) \/ SpawnFails \/ DiscardSession
  <2>1. /\ UNCHANGED <<injected, version, won>> /\ phase' \in {"permit", "reply"}
        /\ (answer' = answer /\ phase' = "permit") \/ answer' = [kind |-> "blocked", from |-> {}, informed |-> TRUE]
    BY <1>5 DEF TakeRequest, SpawnFails, DiscardSession, Reply
  <2> QED
    BY <1>0, <2>1 DEF ContextKept, ContextReachesModel, AnswerIsOwn, Won
<1>6. CASE Swap
  <2>1. phase = "idle" /\ UNCHANGED <<phase, answer>> /\ injected' = version' /\ version' = version + 1
    BY <1>6 DEF Swap
  <2> QED
    BY <1>0, <2>1 DEF ContextKept, ContextReachesModel, AnswerIsOwn, Won
<1>7. CASE Start \/ WriteEnds
  <2>1. UNCHANGED <<version, won, answer>>
    BY <1>7 DEF Start, WriteEnds
  <2>2. ASSUME NEW c, NEW knows, Prompt(c, knows) \/ Pending(c, knows)
        PROVE  /\ injected' = injected
               /\ \/ phase' = "join" /\ outcome'.kind = "error"
                  \/ phase' = "await" /\ (injected # 0 => session'.knows = injected)
                  \/ phase' = "write"
    <3>1. CASE Prompt(c, knows) /\ c.at = "dead"
      BY <3>1 DEF Prompt, Outcome
    <3>2. CASE Prompt(c, knows) /\ c.at # "dead"
      BY <3>2 DEF Prompt, KeepContext, Told
    <3>3. CASE Pending(c, knows)
      BY <3>3 DEF Pending
    <3> QED
      BY <2>2, <3>1, <3>2, <3>3
  <2>3. /\ injected' = injected
        /\ \/ phase' = "join" /\ outcome'.kind = "error"
           \/ phase' = "await" /\ (injected # 0 => session'.knows = injected)
           \/ phase' = "write"
    BY <1>7, <2>2 DEF Start, WriteEnds
  <2> QED
    BY <1>0, <2>1, <2>3 DEF ContextKept, ContextReachesModel, AnswerIsOwn, Won
<1>8. CASE Joined
  <2>1. CASE outcome.kind = "ok"
    <3>1. Succeeded /\ Won
      BY <1>0, <1>8, <2>1 DEF Joined, TurnOK, Won
    <3>2. injected' = 0 /\ won' = (won \/ session.knows = version) /\ turn' = turn /\ version' = version
          /\ (Reply("result", text \cup {outcome.turn}, won') \/ Reply("blocked", {}, TRUE))
      BY <1>8, <2>1 DEF Joined
    <3>3. won'
      BY <1>0, <3>1, <3>2 DEF ContextKept
    <3>4. text \cup {outcome.turn} \subseteq {turn}
      BY <3>1 DEF Succeeded, Tagged
    <3>5. phase' = "reply" /\ answer'.informed /\ (answer'.kind = "result" => answer'.from \subseteq {turn'})
      BY <3>2, <3>3, <3>4 DEF Reply
    <3> QED
      BY <1>0, <3>2, <3>3, <3>5 DEF ContextKept, ContextReachesModel, AnswerIsOwn, Won
  <2>2. CASE outcome.kind # "ok"
    <3>1. phase' = "discard" /\ UNCHANGED <<answer, injected, won, session, version>>
      BY <1>8, <2>2 DEF Joined
    <3> QED
      BY <1>1, <3>1 DEF Won
  <2> QED
    BY <2>1, <2>2
<1> QED
  BY <1>2, <1>3, <1>4, <1>5, <1>6, <1>7, <1>8 DEF TurnStep, Behaviour, WriteFails, ChildReads

LEMMA TurnInvStep ==
  ASSUME TurnIInv, TurnStep
  PROVE  TurnIInv'
<1>1. BehaviourType' /\ PipeType'
  BY BehaviourTypeStep, PipeTypeStep
<1>2. TurnTypeOK'
  BY <1>1 DEF TurnTypeOK, BehaviourType, PipeType
<1> QED
  BY <1>1, <1>2, SessionStep, TurnOKStep, ContextStep DEF TurnIInv

LEMMA TurnInvStutter ==
  ASSUME TurnIInv, UNCHANGED vars0
  PROVE  TurnIInv'
<1>1. UNCHANGED <<turnVars, childVars, readVars, drainVars>>
      /\ UNCHANGED <<session, version, won, lines, faults>>
  BY DEF vars0
<1>2. /\ UNCHANGED <<phase, turn, injected, outcome, answer>> /\ UNCHANGED <<child, held, stdout>>
      /\ UNCHANGED <<reader, events, outcomes>> /\ UNCHANGED <<drain, text>>
  BY <1>1 DEF turnVars, childVars, readVars, drainVars
<1>3. TurnTypeOK'
  BY <1>1, <1>2 DEF TurnIInv, TurnTypeOK
<1>4. SessionOK' /\ ContextKept' /\ AnswerIsOwn' /\ ContextReachesModel'
  BY <1>1, <1>2 DEF TurnIInv, SessionOK, ContextKept, AnswerIsOwn, ContextReachesModel, Won
<1>5. /\ Quiet => Quiet'
      /\ Awaiting => Awaiting'
      /\ Succeeded => Succeeded'
  <2>1. /\ Spent => Spent'
        /\ Tagged => Tagged'
        /\ OkIsLast => OkIsLast'
        /\ NoFailed = NoFailed'
        /\ FailedFirst => FailedFirst'
    BY <1>1, <1>2 DEF Spent, Tagged, OkIsLast, NoFailed, FailedFirst, Holds, HeldRaw, Held
  <2> QED
    BY <1>1, <1>2, <2>1 DEF Quiet, Awaiting, Succeeded
<1>6. TurnOK'
  BY <1>2, <1>5 DEF TurnIInv, TurnOK, Resting, Won
<1> QED
  BY <1>3, <1>4, <1>6 DEF TurnIInv

LEMMA TurnInvInit ==
  ASSUME TurnInit
  PROVE  TurnIInv
<1>0. /\ phase = "idle" /\ turn = 0 /\ injected = 1 /\ version = 1
      /\ outcome = [turn |-> 0, kind |-> "none"]
      /\ answer = [kind |-> "none", from |-> {}, informed |-> TRUE]
      /\ session = [live |-> FALSE, knows |-> 0] /\ child = [at |-> "none", turn |-> 0] /\ held = FALSE
      /\ stdout = <<>> /\ reader = [at |-> "ended", line |-> NoLine]
      /\ events = <<>> /\ outcomes = <<>> /\ drain = "off" /\ text = {}
      /\ won = FALSE /\ lines = 0 /\ faults = 0
  BY DEF TurnInit, NoSession, Outcome
<1>1. MaxTurns \in Nat \ {0} /\ MaxLines \in Nat /\ MaxSwaps \in Nat /\ MaxFaults \in Nat
      /\ Capacity \in Nat
  BY TurnBounds, CapacityAssumption
<1>2. NoLine \in Lines
  BY <1>1 DEF NoLine, Lines, TurnNos
<1>3. BehaviourType
  <2>1. outcome \in SendOutcomes
    BY <1>0, <1>1 DEF SendOutcomes
  <2>2. answer \in Answers
    BY <1>0 DEF Answers
  <2>3. session \in [live : BOOLEAN, knows : 0..(MaxSwaps + 1)]
    BY <1>0, <1>1
  <2>4. turn \in 0..MaxTurns /\ version \in 1..(MaxSwaps + 1) /\ lines \in 0..MaxLines
        /\ faults \in 0..MaxFaults
    BY <1>0, <1>1
  <2>5. phase = "idle" /\ injected = version /\ drain = "off" /\ text \subseteq TurnNos /\ won \in BOOLEAN
    BY <1>0
  <2> QED
    BY <2>1, <2>2, <2>3, <2>4, <2>5 DEF BehaviourType, SendOutcomes, Answers
<1>4. PipeType
  <2>1. child \in [at : {"none", "ready", "working", "hung", "dead"}, turn : 0..MaxTurns]
        /\ reader \in [at : {"read", "event", "outcome", "ended"}, line : Lines]
    BY <1>0, <1>1, <1>2
  <2>2. <<>> \in Seq(Lines) /\ Len(<<>>) <= Capacity
    BY <1>1, NoLines
  <2>3. held \in BOOLEAN /\ stdout = <<>> /\ events = <<>> /\ outcomes = <<>>
    BY <1>0
  <2> QED
    BY <2>1, <2>2, <2>3 DEF PipeType
<1>5. SessionOK /\ Quiet
  BY <1>0, NoLines DEF SessionOK, Quiet, Spent, HeldRaw, Held
<1>6. TurnOK /\ ContextKept /\ AnswerIsOwn /\ ContextReachesModel
  BY <1>0, <1>5 DEF TurnOK, Won, ContextKept, AnswerIsOwn, ContextReachesModel
<1> QED
  BY <1>3, <1>4, <1>5, <1>6, TurnTypeParts DEF TurnIInv

\* OutputMoves is what Awaiting says of a drain that has come back: the result it
\* came back for is ahead of the reader.
LEMMA DrainedAhead ==
  ASSUME TurnIInv
  PROVE  OutputMoves
BY DEF TurnIInv, TurnOK, Awaiting, OutputMoves

(***************************************************************************)
(* The runner.                                                              *)
(***************************************************************************)
Sending == [at : {"no", "write", "wait"}, attempt : 0..Attempts, receipt : BOOLEAN]
RunType ==
    /\ stream \in Seq(Ids \cup {Envelope}) /\ Len(stream) <= SocketCapacity + 1 /\ acked \in BOOLEAN
    /\ unread \in Seq(Ids \cup {NoReply}) /\ Len(unread) <= SocketCapacity
    /\ inbox \in 0..InboxCapacity /\ presence \in 0..3 /\ left \in 0..2
    /\ frames \in 0..MaxFrames
    /\ sending \in Sending
    /\ unacked \in Seq(Ids)

\* Only a reply is being sent, and then there is an answer left to send.
SendOK ==
    /\ phase \notin {"reply", "dead"} => left = 0 /\ sending = NoSend
    /\ phase = "reply" => IF sending.attempt = 0 THEN sending.at = "no" ELSE left >= 1
    /\ phase = "dead" => sending = NoSend

RunIInv == TurnIInv /\ RunType /\ SendOK

LEMMA RunTypeParts == TypeOK <=> TurnTypeOK /\ RunType
BY DEF TypeOK, RunType, Sending

LEMMA RunNumbers ==
  ASSUME RunIInv
  PROVE  /\ turn \in 0..MaxTurns /\ MaxTurns \in Nat /\ left \in 0..2 /\ Attempts \in Nat \ {0}
         /\ sending.at \in {"no", "write", "wait"} /\ sending.receipt \in BOOLEAN
         /\ sending.attempt \in 0..Attempts
         /\ phase \in {"idle", "permit", "start", "write", "await", "join", "discard", "reply", "dead"}
<1>1. turn \in 0..MaxTurns /\ MaxTurns \in Nat
      /\ phase \in {"idle", "permit", "start", "write", "await", "join", "discard", "reply", "dead"}
  BY TurnBounds, TurnTypeParts DEF RunIInv, TurnIInv, BehaviourType
<1>2. left \in 0..2 /\ Attempts \in Nat \ {0}
  BY InboxAssumption DEF RunIInv, RunType
<1>3. sending.at \in {"no", "write", "wait"} /\ sending.receipt \in BOOLEAN
      /\ sending.attempt \in 0..Attempts
  BY DEF RunIInv, RunType, Sending
<1> QED
  BY <1>1, <1>2, <1>3

\* The answer being sent has an id of this turn.
LEMMA SendingReplies ==
  ASSUME RunIInv, sending.at # "no"
  PROVE  phase = "reply" /\ sending.attempt >= 1 /\ left >= 1 /\ Id \in Ids
<1>1. phase = "reply" /\ sending.attempt # 0 /\ left >= 1
  BY RunNumbers DEF RunIInv, SendOK, NoSend
<1>2. turn > 0
  BY <1>1 DEF RunIInv, TurnIInv, TurnOK
<1>3. 2 * turn + 1 - left \in 1..(2 * MaxTurns)
  BY <1>1, <1>2, RunNumbers
<1> QED
  BY <1>1, <1>3, RunNumbers DEF Id, Ids

LEMMA RunnerTurn ==
  ASSUME RunIInv, Next
  PROVE  TurnStep \/ UNCHANGED vars0
<1>1. CASE Delivered \/ ReceiptTimeout
  <2>1. phase = "reply"
    BY <1>1, SendingReplies DEF Delivered, ReceiptTimeout
  <2>2. Replied
    BY <1>1, <2>1 DEF Delivered, ReceiptTimeout, Replied
  <2> QED
    BY <2>2 DEF TurnStep
<1>2. CASE TakeEnvelope
  BY <1>2 DEF TakeEnvelope, TurnStep
<1>3. CASE TakeControl \/ OnEnvelope \/ (Machinery /\ UNCHANGED runVars)
  BY <1>3 DEF TakeControl, OnEnvelope, TurnStep
<1>4. CASE BusSends \/ BusAnswers \/ BusReads \/ AckFrame \/ ReadFrame
           \/ WritePresence \/ Attempt \/ WriteSend
  BY <1>4 DEF BusSends, BusAnswers, BusReads, AckFrame, ReadFrame, WritePresence, Attempt, WriteSend
<1> QED
  BY <1>1, <1>2, <1>3, <1>4 DEF Next

LEMMA SendStep ==
  ASSUME RunIInv, Next
  PROVE  SendOK'
<1>0. /\ left \in 0..2 /\ sending \in Sending /\ SendOK
      /\ sending.at \in {"no", "write", "wait"} /\ sending.attempt \in 0..Attempts /\ Attempts \in Nat
      /\ phase \in {"idle", "permit", "start", "write", "await", "join", "discard", "reply", "dead"}
  BY RunNumbers DEF RunIInv, RunType
<1>1. CASE UNCHANGED <<left, sending, phase>>
  BY <1>0, <1>1 DEF SendOK
<1>2. CASE BusSends \/ BusAnswers \/ BusReads \/ AckFrame \/ WritePresence
  <2>1. UNCHANGED vars0 /\ UNCHANGED <<left, sending>>
    BY <1>2 DEF BusSends, BusAnswers, BusReads, AckFrame, WritePresence
  <2>2. phase' = phase
    BY <2>1 DEF vars0, turnVars
  <2> QED
    BY <1>1, <2>1, <2>2
<1>3. CASE ReadFrame \/ WriteSend
  <2>1. UNCHANGED <<left, phase>>
    BY <1>3 DEF ReadFrame, WriteSend, vars0, turnVars
  <2>2. \/ sending' = sending
        \/ sending.at # "no" /\ sending' = [sending EXCEPT !.receipt = TRUE]
        \/ sending.at = "write" /\ sending' = [sending EXCEPT !.at = "wait"]
    BY <1>3 DEF ReadFrame, WriteSend
  <2>3. sending' = sending \/ (sending.at # "no" /\ sending'.attempt = sending.attempt)
    BY <1>0, <2>2 DEF Sending
  <2>4. CASE sending.at # "no"
    <3>1. phase = "reply" /\ sending.attempt >= 1 /\ left >= 1
      BY <2>4, SendingReplies
    <3>2. sending'.attempt = sending.attempt
      BY <2>3, <2>4
    <3> QED
      BY <1>0, <2>1, <3>1, <3>2 DEF SendOK
  <2>5. CASE sending' = sending
    BY <1>1, <2>1, <2>5
  <2> QED
    BY <2>3, <2>4, <2>5
<1>4. CASE TakeEnvelope
  <2>1. CASE TakeRequest
    <3>1. phase = "idle" /\ phase' \in {"permit", "reply"} /\ UNCHANGED <<left, sending>>
      BY <1>4, <2>1 DEF TakeEnvelope, TakeRequest, Reply
    <3> QED
      BY <1>0, <3>1 DEF SendOK, NoSend
  <2>2. CASE UNCHANGED vars0
    <3>1. UNCHANGED <<left, sending, phase>>
      BY <1>4, <2>2 DEF TakeEnvelope, vars0, turnVars
    <3> QED
      BY <1>1, <3>1
  <2> QED
    BY <1>4, <2>1, <2>2 DEF TakeEnvelope
<1>5. CASE TakeControl
  <2>1. UNCHANGED <<left, sending, phase>>
    BY <1>5 DEF TakeControl, Swap, runVars
  <2> QED
    BY <1>1, <2>1
<1>6. CASE Attempt
  <2>1. /\ phase = "reply" /\ phase' = phase
        /\ left' = (IF left = 0 THEN Replies ELSE left)
        /\ sending' = [at |-> "write", attempt |-> sending.attempt + 1, receipt |-> FALSE]
    BY <1>6 DEF Attempt, vars0, turnVars
  <2>2. Replies \in 1..2
    BY DEF Replies
  <2>3. sending'.attempt = sending.attempt + 1 /\ left' >= 1
    BY <1>0, <2>1, <2>2
  <2> QED
    BY <1>0, <2>1, <2>3 DEF SendOK
<1>7. CASE Delivered
  <2>1. phase = "reply" /\ left >= 1
    BY <1>7, SendingReplies DEF Delivered
  <2>2. sending' = NoSend /\ left' = left - 1 /\ phase' = (IF left = 1 THEN "idle" ELSE "reply")
    BY <1>7 DEF Delivered
  <2> QED
    BY <1>0, <2>1, <2>2 DEF SendOK, NoSend
<1>8. CASE ReceiptTimeout
  <2>1. phase = "reply" /\ sending.attempt >= 1 /\ left >= 1
    BY <1>8, SendingReplies DEF ReceiptTimeout
  <2>2. left' = left
    BY <1>8 DEF ReceiptTimeout
  <2>3. CASE sending.attempt < Attempts
    <3>1. sending' = [sending EXCEPT !.at = "no"] /\ phase' = phase
      BY <1>8, <2>3 DEF ReceiptTimeout
    <3>2. sending'.attempt = sending.attempt
      BY <1>0, <3>1 DEF Sending
    <3> QED
      BY <1>0, <2>1, <2>2, <3>1, <3>2 DEF SendOK
  <2>4. CASE ~ (sending.attempt < Attempts)
    BY <1>8, <2>4 DEF ReceiptTimeout, SendOK, NoSend
  <2> QED
    BY <2>3, <2>4
<1>9. CASE Machinery /\ ~ ChildReads /\ UNCHANGED runVars
  <2>1. UNCHANGED <<left, sending, phase>>
    BY <1>9, MachineryMoves DEF RunIInv, runVars
  <2> QED
    BY <1>1, <2>1
<1>10. CASE OnEnvelope \/ (ChildReads /\ UNCHANGED runVars)
  <2>1. UNCHANGED <<left, sending>>
    BY <1>10 DEF OnEnvelope, runVars
  <2>2. CASE WriteEnds
    <3>1. phase = "write" /\ phase' \in {"await", "join"}
      BY <2>2 DEF WriteEnds, Prompt
    <3> QED
      BY <1>0, <2>1, <3>1 DEF SendOK, NoSend
  <2>3. CASE Start
    <3>1. phase = "start" /\ phase' \in {"await", "join", "write"}
      BY <2>3 DEF Start, Prompt, Pending
    <3> QED
      BY <1>0, <2>1, <3>1 DEF SendOK, NoSend
  <2>4. CASE Acquired \/ SpawnFails \/ SendReturns \/ ProcessExited \/ Timeout \/ Joined \/ DiscardSession
    <3>1. phase \in {"permit", "start", "await", "join", "discard"}
      BY <2>4 DEF Acquired, SpawnFails, SendReturns, ProcessExited, Timeout, SendEnds, Joined,
                  DiscardSession
    <3>2. phase' \in {"start", "join", "discard", "reply"}
      BY <2>4 DEF Acquired, SpawnFails, SendReturns, ProcessExited, Timeout, SendEnds, Joined,
                  DiscardSession, Reply
    <3> QED
      BY <1>0, <2>1, <3>1, <3>2 DEF SendOK, NoSend
  <2> QED
    BY <1>10, <2>2, <2>3, <2>4 DEF OnEnvelope, Behaviour, WriteFails, ChildReads
<1> QED
  BY <1>2, <1>3, <1>4, <1>5, <1>6, <1>7, <1>8, <1>9, <1>10 DEF Next

LEMMA QueueType ==
  ASSUME NEW S, NEW s \in Seq(S)
  PROVE  /\ Len(s) \in Nat
         /\ \A x \in S : Append(s, x) \in Seq(S) /\ Len(Append(s, x)) = Len(s) + 1
         /\ s # <<>> => Head(s) \in S /\ Tail(s) \in Seq(S) /\ Len(Tail(s)) = Len(s) - 1
OBVIOUS

LEMMA WriteType ==
  ASSUME RunType, NEW id \in Ids \cup {NoReply}, Write(id)
  PROVE  unread' \in Seq(Ids \cup {NoReply}) /\ Len(unread') <= SocketCapacity
<1>1. Len(unread) < SocketCapacity /\ unread' = Append(unread, id)
      /\ unread \in Seq(Ids \cup {NoReply}) /\ SocketCapacity \in Nat
  BY SocketAssumption DEF Write, RunType
<1>2. unread' \in Seq(Ids \cup {NoReply}) /\ Len(unread') = Len(unread) + 1 /\ Len(unread) \in Nat
  BY <1>1, QueueType
<1> QED
  BY <1>1, <1>2

LEMMA RunTypeStep ==
  ASSUME RunIInv, Next
  PROVE  RunType'
<1>0. /\ RunType /\ MaxFrames \in Nat /\ InboxCapacity \in Nat \ {0} /\ SocketCapacity \in Nat \ {0}
      /\ sending \in Sending
  BY FramesAssumption, InboxAssumption, SocketAssumption DEF RunIInv, RunType
<1>1. CASE UNCHANGED runVars
  <2>1. UNCHANGED <<stream, acked, unread, inbox, presence, left, sending, unacked, frames>>
    BY <1>1 DEF runVars, socketVars
  <2> QED
    BY <1>0, <2>1 DEF RunType
<1>2. ASSUME NEW x \in Ids \cup {Envelope}, ~ BusStuck, stream' = Append(stream, x)
      PROVE  stream' \in Seq(Ids \cup {Envelope}) /\ Len(stream') <= SocketCapacity + 1
  <2>1. stream \in Seq(Ids \cup {Envelope})
    BY <1>0 DEF RunType
  <2>2. stream' \in Seq(Ids \cup {Envelope}) /\ Len(stream') = Len(stream) + 1 /\ Len(stream) \in Nat
    BY <1>2, <2>1, QueueType
  <2> QED
    BY <1>0, <1>2, <2>2 DEF BusStuck
<1>3. CASE BusSends
  <2>1. /\ ~ BusStuck /\ stream' = Append(stream, Envelope) /\ frames < MaxFrames /\ frames' = frames + 1
        /\ UNCHANGED <<acked, unread, inbox, presence, left, sending, unacked>>
    BY <1>3 DEF BusSends
  <2>2. stream' \in Seq(Ids \cup {Envelope}) /\ Len(stream') <= SocketCapacity + 1
    BY <1>2, <2>1
  <2>3. frames' \in 0..MaxFrames
    BY <1>0, <2>1 DEF RunType
  <2> QED
    BY <1>0, <2>1, <2>2, <2>3 DEF RunType
<1>4. CASE BusAnswers
  <2>1. /\ ~ BusStuck /\ unacked # <<>> /\ stream' = Append(stream, Head(unacked))
        /\ unacked' = Tail(unacked)
        /\ UNCHANGED <<acked, unread, inbox, presence, left, sending, frames>>
    BY <1>4 DEF BusAnswers
  <2>2. unacked \in Seq(Ids)
    BY <1>0 DEF RunType
  <2>3. Head(unacked) \in Ids /\ unacked' \in Seq(Ids)
    BY <2>1, <2>2, QueueType
  <2>4. stream' \in Seq(Ids \cup {Envelope}) /\ Len(stream') <= SocketCapacity + 1
    BY <1>2, <2>1, <2>3
  <2> QED
    BY <1>0, <2>1, <2>3, <2>4 DEF RunType
<1>5. CASE BusReads
  <2>1. /\ unread # <<>> /\ unread' = Tail(unread)
        /\ unacked' = (IF Head(unread) = NoReply THEN unacked ELSE Append(unacked, Head(unread)))
        /\ UNCHANGED <<stream, acked, inbox, presence, left, sending, frames>>
    BY <1>5 DEF BusReads
  <2>2. unread \in Seq(Ids \cup {NoReply}) /\ unacked \in Seq(Ids) /\ Len(unread) <= SocketCapacity
    BY <1>0 DEF RunType
  <2>3. /\ Head(unread) \in Ids \cup {NoReply} /\ unread' \in Seq(Ids \cup {NoReply})
        /\ Len(unread') = Len(unread) - 1 /\ Len(unread) \in Nat
    BY <2>1, <2>2, QueueType
  <2>4. unacked' \in Seq(Ids)
    BY <2>1, <2>2, <2>3, QueueType
  <2>5. Len(unread') <= SocketCapacity
    BY <1>0, <2>2, <2>3
  <2> QED
    BY <1>0, <2>1, <2>3, <2>4, <2>5 DEF RunType
<1>6. CASE AckFrame \/ WritePresence
  <2>1. /\ Write(NoReply) /\ acked' \in {TRUE, acked}
        /\ presence' = presence \/ (presence > 0 /\ presence' = presence - 1)
        /\ UNCHANGED <<stream, inbox, left, sending, unacked, frames>>
    BY <1>6 DEF AckFrame, WritePresence
  <2>2. unread' \in Seq(Ids \cup {NoReply}) /\ Len(unread') <= SocketCapacity
    BY <1>0, <2>1, WriteType
  <2>3. presence \in 0..3 /\ acked \in BOOLEAN
    BY <1>0 DEF RunType
  <2>4. presence' \in 0..3
    BY <2>1, <2>3
  <2>5. acked' \in BOOLEAN
    BY <2>1, <2>3, Zenon
  <2> QED
    BY <1>0, <2>1, <2>2, <2>4, <2>5 DEF RunType
<1>7. CASE ReadFrame
  <2>1. /\ stream # <<>> /\ stream' = Tail(stream) /\ ~ Blocked /\ acked' = FALSE
        /\ UNCHANGED <<unread, presence, left, unacked, frames>>
    BY <1>7 DEF ReadFrame
  <2>2. stream \in Seq(Ids \cup {Envelope}) /\ Len(stream) <= SocketCapacity + 1
    BY <1>0 DEF RunType
  <2>3. stream' \in Seq(Ids \cup {Envelope}) /\ Len(stream') = Len(stream) - 1 /\ Len(stream) \in Nat
    BY <2>1, <2>2, QueueType
  <2>4. Len(stream') <= SocketCapacity + 1
    BY <1>0, <2>2, <2>3
  <2>5. sending' = sending \/ sending' = [sending EXCEPT !.receipt = TRUE]
    BY <1>7 DEF ReadFrame
  <2>6. sending' \in Sending
    BY <1>0, <2>5 DEF Sending
  <2>7. inbox' = inbox \/ (inbox' = inbox + 1 /\ AtEnvelope /\ acked)
    BY <1>7 DEF ReadFrame
  <2>8. inbox' \in 0..InboxCapacity
    BY <1>0, <2>1, <2>7 DEF Blocked, RunType
  <2> QED
    BY <1>0, <2>1, <2>3, <2>4, <2>6, <2>8 DEF RunType
<1>8. CASE TakeEnvelope
  <2>1. /\ inbox > 0 /\ inbox' = inbox - 1 /\ presence' \in {presence, 2, 3}
        /\ UNCHANGED socketVars /\ UNCHANGED <<left, sending, unacked, frames>>
    BY <1>8 DEF TakeEnvelope
  <2>2. inbox' \in 0..InboxCapacity /\ presence' \in 0..3
    BY <1>0, <2>1 DEF RunType
  <2> QED
    BY <1>0, <2>1, <2>2 DEF RunType, socketVars
<1>9. CASE OnEnvelope
  <2>1. presence' \in 0..3 /\ UNCHANGED socketVars /\ UNCHANGED <<inbox, left, sending, unacked, frames>>
    BY <1>9 DEF OnEnvelope
  <2> QED
    BY <1>0, <2>1 DEF RunType, socketVars
<1>10. CASE Attempt
  <2>1. /\ sending.attempt < Attempts /\ left' = (IF left = 0 THEN Replies ELSE left)
        /\ sending' = [at |-> "write", attempt |-> sending.attempt + 1, receipt |-> FALSE]
        /\ UNCHANGED socketVars /\ UNCHANGED <<inbox, presence, unacked, frames>>
    BY <1>10 DEF Attempt
  <2>2. left' \in 0..2
    BY <1>0, <2>1 DEF Replies, RunType
  <2>3. sending.attempt + 1 \in 0..Attempts
    BY <2>1, RunNumbers
  <2>4. sending' \in Sending
    BY <2>1, <2>3 DEF Sending
  <2> QED
    BY <1>0, <2>1, <2>2, <2>4 DEF RunType, socketVars
<1>11. CASE WriteSend
  <2>1. /\ sending.at = "write" /\ sending' = [sending EXCEPT !.at = "wait"] /\ Write(Id)
        /\ UNCHANGED <<stream, acked, inbox, presence, left, unacked, frames>>
    BY <1>11 DEF WriteSend
  <2>2. Id \in Ids
    BY <2>1, SendingReplies
  <2>3. unread' \in Seq(Ids \cup {NoReply}) /\ Len(unread') <= SocketCapacity
    BY <1>0, <2>1, <2>2, WriteType
  <2>4. sending' \in Sending
    BY <1>0, <2>1 DEF Sending
  <2> QED
    BY <1>0, <2>1, <2>3, <2>4 DEF RunType
<1>12. NoSend \in Sending
  BY InboxAssumption DEF NoSend, Sending
<1>13. CASE Delivered
  <2>1. left >= 1
    BY <1>13, SendingReplies DEF Delivered
  <2>2. /\ left' \in 0..2 /\ sending' = NoSend
        /\ UNCHANGED socketVars /\ UNCHANGED <<inbox, presence, unacked, frames>>
    BY <1>13, <2>1, RunNumbers DEF Delivered
  <2> QED
    BY <1>0, <1>12, <2>2 DEF RunType, socketVars
<1>14. CASE ReceiptTimeout
  <2>1. sending' = [sending EXCEPT !.at = "no"] \/ sending' = NoSend
    BY <1>14 DEF ReceiptTimeout
  <2>2. sending' \in Sending
    BY <1>0, <1>12, <2>1 DEF Sending
  <2>3. UNCHANGED socketVars /\ UNCHANGED <<inbox, presence, left, unacked, frames>>
    BY <1>14 DEF ReceiptTimeout
  <2> QED
    BY <1>0, <2>2, <2>3 DEF RunType, socketVars
<1> QED
  BY <1>1, <1>3, <1>4, <1>5, <1>6, <1>7, <1>8, <1>9, <1>10, <1>11, <1>13, <1>14 DEF Next, TakeControl

LEMMA RunnerInvariant == Spec => []RunIInv
<1>1. Init => RunIInv
  <2> SUFFICES ASSUME Init PROVE RunIInv
    OBVIOUS
  <2>1. TurnIInv
    BY TurnInvInit DEF Init
  <2>2. phase = "idle" /\ stream = <<>> /\ acked = FALSE /\ unread = <<>> /\ inbox = 0 /\ presence = 0
        /\ left = 0 /\ sending = NoSend /\ unacked = <<>> /\ frames = 0
    BY DEF Init, TurnInit
  <2>3. /\ <<>> \in Seq(Ids \cup {Envelope}) /\ <<>> \in Seq(Ids \cup {NoReply}) /\ <<>> \in Seq(Ids)
        /\ Len(<<>>) = 0
    OBVIOUS
  <2>4. Attempts \in Nat /\ MaxFrames \in Nat /\ InboxCapacity \in Nat /\ SocketCapacity \in Nat
    BY InboxAssumption, FramesAssumption, SocketAssumption
  <2>5. NoSend \in Sending
    BY <2>4 DEF NoSend, Sending
  <2>6. RunType
    <3>1. /\ stream \in Seq(Ids \cup {Envelope}) /\ Len(stream) = 0 /\ acked \in BOOLEAN
          /\ unread \in Seq(Ids \cup {NoReply}) /\ Len(unread) = 0
          /\ unacked \in Seq(Ids) /\ sending \in Sending
      BY <2>2, <2>3, <2>5, Zenon
    <3>2. /\ Len(stream) <= SocketCapacity + 1 /\ Len(unread) <= SocketCapacity
          /\ inbox \in 0..InboxCapacity /\ presence \in 0..3 /\ left \in 0..2 /\ frames \in 0..MaxFrames
      BY <2>2, <2>4, <3>1
    <3> QED
      BY <3>1, <3>2 DEF RunType
  <2>7. SendOK
    BY <2>2 DEF SendOK
  <2> QED
    BY <2>1, <2>6, <2>7 DEF RunIInv
<1>2. RunIInv /\ [Next]_vars => RunIInv'
  <2> SUFFICES ASSUME RunIInv, [Next]_vars PROVE RunIInv'
    OBVIOUS
  <2>1. CASE Next
    <3>1. TurnIInv'
      BY <2>1, RunnerTurn, TurnInvStep, TurnInvStutter DEF RunIInv
    <3> QED
      BY <2>1, <3>1, SendStep, RunTypeStep DEF RunIInv
  <2>2. CASE UNCHANGED vars
    <3>1. UNCHANGED vars0 /\ UNCHANGED runVars
      BY <2>2 DEF vars
    <3>2. UNCHANGED turnVars /\ UNCHANGED socketVars
      BY <3>1 DEF vars0, runVars
    <3>3. UNCHANGED phase
          /\ UNCHANGED <<stream, acked, unread, inbox, presence, left, sending, unacked, frames>>
      BY <3>1, <3>2 DEF turnVars, runVars, socketVars
    <3>4. TurnIInv'
      BY <3>1, TurnInvStutter DEF RunIInv
    <3>5. RunType' /\ SendOK'
      BY <3>3 DEF RunIInv, RunType, SendOK
    <3> QED
      BY <3>4, <3>5 DEF RunIInv
  <2> QED
    BY <2>1, <2>2
<1> QED
  BY <1>1, <1>2, PTL DEF Spec

(***************************************************************************)
(* The theorems.                                                            *)
(***************************************************************************)
\* The worker, its session, its pipes and channels and its connection are in a state
\* the types describe: no channel and no socket runs over its capacity.
THEOREM RunnerTypeCorrect == Spec => []TypeOK
<1>1. RunIInv => TypeOK
  BY RunTypeParts DEF RunIInv, TurnIInv
<1> QED
  BY <1>1, RunnerInvariant, PTL

\* A result is made from what the session said on the request it answers, whatever
\* failed, hung, died or was swapped before it.
THEOREM OwnAnswer == Spec => []AnswerIsOwn
<1>1. RunIInv => AnswerIsOwn
  BY DEF RunIInv, TurnIInv
<1> QED
  BY <1>1, RunnerInvariant, PTL

\* No result before the newest context has been part of a successful turn.
THEOREM ContextArrives == Spec => []ContextReachesModel
<1>1. RunIInv => ContextReachesModel
  BY DEF RunIInv, TurnIInv
<1> QED
  BY <1>1, RunnerInvariant, PTL

\* While `send` has nothing to return, a full event channel is being emptied.
THEOREM OutputAlwaysMoves == Spec => []OutputMoves
<1>1. RunIInv => OutputMoves
  BY DrainedAhead DEF RunIInv
<1> QED
  BY <1>1, RunnerInvariant, PTL
================================================================================
