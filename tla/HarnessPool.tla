------------------------------ MODULE HarnessPool ------------------------------
(***************************************************************************)
(* crew-harness pool.rs: the slots of one registered harness, its backoff   *)
(* and its adaptive limit, with the turn of a role worker (crew-agent       *)
(* harness_behavior.rs) as the user of a slot.                              *)
(*                                                                          *)
(* The backoff and the limit sit under two mutexes; an action is one        *)
(* critical section.  Time is kept as the time that remains to a deadline   *)
(* or has passed since a report, so that it needs no bound.                 *)
(***************************************************************************)
EXTENDS Integers, FiniteSets

CONSTANTS
    Workers,
    Base,           \* configured concurrency of the harness
    BackoffCap,     \* BACKOFF_CAP, in units of BACKOFF_BASE
    Recovery        \* RATE_RECOVERY_SECS, in the same units

ASSUME PoolAssumption ==
    /\ IsFiniteSet(Workers)
    /\ {Base, BackoffCap, Recovery} \subseteq Nat \ {0}

VARIABLES
    pc,             \* where a worker is in acquire and in its turn
    until,          \* what remains of the sleep of an acquire
    delay,          \* BackoffState::attempts, as the delay of the next report
    deadline,       \* BackoffState::deadline: the time to it, or None
    current, active,
    last_report,    \* the time since LimitState::last_report, or None
    installed,      \* history: time to the deadline of the last report while
                    \* no acquire called after that report has taken a slot
    owed,           \* history: what an acquire had to wait when it was called
    since_lowered   \* history: time since the limit was lowered

backoff == <<delay, deadline>>
limit == <<current, active, last_report>>
history == <<installed, owed, since_lowered>>
poolVars == <<pc, until, backoff, limit, history>>

None == -1
Place == {"idle", "sleep", "try", "parked", "got", "turn", "limited", "lower"}
Enough == Recovery * Base   \* more time since a report makes no difference

PoolTypeOK ==
    /\ pc \in [Workers -> Place]
    /\ until \in [Workers -> 0..BackoffCap]
    /\ delay \in 1..BackoffCap
    /\ deadline \in {None} \cup 0..BackoffCap
    /\ current \in 1..Base
    /\ active \in 0..Base
    /\ last_report \in {None} \cup 0..Enough
    /\ installed \in 0..BackoffCap
    /\ owed \in [Workers -> {None} \cup 0..BackoffCap]
    /\ since_lowered \in 0..Recovery

PoolInit ==
    /\ pc = [w \in Workers |-> "idle"]
    /\ until = [w \in Workers |-> 0]
    /\ delay = 1 /\ deadline = None
    /\ current = Base /\ active = 0 /\ last_report = None
    /\ installed = 0
    /\ owed = [w \in Workers |-> None]
    /\ since_lowered = Recovery

Least(m, n) == IF m < n THEN m ELSE n
Go(w, place) == pc' = [pc EXCEPT ![w] = place]

(***************************************************************************)
(* acquire                                                                  *)
(***************************************************************************)
\* The deadline is read once, when acquire is called.
Call(w) ==
    /\ pc[w] = "idle"
    /\ IF deadline = None
       THEN Go(w, "try") /\ UNCHANGED until
       ELSE Go(w, "sleep") /\ until' = [until EXCEPT ![w] = deadline]
    /\ owed' = [owed EXCEPT ![w] = installed]
    /\ UNCHANGED <<backoff, limit, installed, since_lowered>>

Wake(w) ==
    /\ pc[w] = "sleep" /\ until[w] = 0
    /\ Go(w, "try")
    /\ UNCHANGED <<until, backoff, limit, history>>

\* apply_lazy_recovery
Steps == IF last_report = None THEN 0 ELSE last_report \div Recovery
Recovered == Least(current + Steps, Base)
RecoveredReport ==
    IF last_report = None \/ Recovered >= Base THEN None ELSE last_report % Recovery

Free(n) == active < n

\* One turn of the loop: the Notified exists before the check, so that a worker
\* that parks misses no notify_waiters.
Try(w) ==
    /\ pc[w] = "try"
    /\ current' = Recovered
    /\ last_report' = RecoveredReport
    /\ IF Free(Recovered)
       THEN /\ active' = active + 1
            /\ Go(w, "got")
            /\ installed' = IF owed[w] # None THEN 0 ELSE installed
       ELSE /\ Go(w, "parked")
            /\ UNCHANGED <<active, installed>>
    /\ UNCHANGED <<until, backoff, owed, since_lowered>>

\* The backoff is reset, whenever this acquire was called.
Reset(w) ==
    /\ pc[w] = "got"
    /\ Go(w, "turn")
    /\ delay' = 1 /\ deadline' = None
    /\ UNCHANGED <<until, limit, history>>

(***************************************************************************)
(* The permit is dropped: at the end of the turn, before a rate limit is    *)
(* reported.  notify_waiters wakes every parked acquire; they race.         *)
(***************************************************************************)
StillParked(p) == p  \* mutant of Woken
Woken(p) == IF p = "parked" THEN "try" ELSE p

Leaked == active  \* mutant of Returned
Returned == active - 1

Release(w, place) ==
    /\ active' = Returned
    /\ pc' = [v \in Workers |-> IF v = w THEN place ELSE Woken(pc[v])]
    /\ owed' = [owed EXCEPT ![w] = None]
    /\ UNCHANGED <<until, backoff, current, last_report, installed, since_lowered>>

TurnEnds(w) == pc[w] = "turn" /\ Release(w, "idle")
RateLimited(w) == pc[w] = "turn" /\ Release(w, "limited")

\* The worker's task is aborted at an await of acquire or of its turn.
Abort(w) ==
    \/ pc[w] = "turn" /\ Release(w, "idle")
    \/ /\ pc[w] \in {"sleep", "try", "parked"}
       /\ Go(w, "idle")
       /\ until' = [until EXCEPT ![w] = 0]
       /\ owed' = [owed EXCEPT ![w] = None]
       /\ UNCHANGED <<backoff, limit, installed, since_lowered>>

(***************************************************************************)
(* report_rate_limit: the backoff first, its delay doubling up to the cap,  *)
(* then the limit.                                                          *)
(***************************************************************************)
ReportBackoff(w) ==
    /\ pc[w] = "limited"
    /\ Go(w, "lower")
    /\ deadline' = delay
    /\ delay' = Least(2 * delay, BackoffCap)
    /\ installed' = delay
    /\ owed' = [v \in Workers |-> None]
    /\ UNCHANGED <<until, limit, since_lowered>>

NeverWithinCooldown == FALSE  \* mutant of WithinCooldown
WithinCooldown == last_report # None /\ last_report < Recovery

ReportLimit(w) ==
    /\ pc[w] = "lower"
    /\ Go(w, "idle")
    /\ current' = IF WithinCooldown \/ current = 1 THEN current ELSE current - 1
    /\ since_lowered' = IF current' < current THEN 0 ELSE since_lowered
    /\ last_report' = 0
    /\ UNCHANGED <<until, backoff, active, installed, owed>>

(***************************************************************************)
(* Time passes.                                                             *)
(***************************************************************************)
Less(n) == IF n > 0 THEN n - 1 ELSE n

Tick ==
    /\ until' = [w \in Workers |-> Less(until[w])]
    /\ deadline' = Less(deadline)
    /\ last_report' = IF last_report = None THEN None ELSE Least(last_report + 1, Enough)
    /\ installed' = Less(installed)
    /\ owed' = [w \in Workers |-> Less(owed[w])]
    /\ since_lowered' = Least(since_lowered + 1, Recovery)
    /\ UNCHANGED <<pc, delay, current, active>>

Acquire(w) == Wake(w) \/ Try(w) \/ Reset(w)
EndTurn(w) == TurnEnds(w) \/ RateLimited(w)
Report(w) == ReportBackoff(w) \/ ReportLimit(w)

PoolNext ==
    \/ Tick
    \/ \E w \in Workers : Call(w) \/ Acquire(w) \/ EndTurn(w) \/ Report(w) \/ Abort(w)

PoolSpec == PoolInit /\ [][PoolNext]_poolVars

\* The runtime polls every woken task, a turn ends (it has a timeout), and time
\* passes.  Nothing makes a worker start a turn.
PoolFairSpec ==
    /\ PoolSpec /\ WF_poolVars(Tick)
    /\ \A w \in Workers : WF_poolVars(Acquire(w)) /\ WF_poolVars(EndTurn(w)) /\ WF_poolVars(Report(w))
--------------------------------------------------------------------------------
(***************************************************************************)
(* Properties.                                                              *)
(***************************************************************************)
\* The slots in use are exactly the acquires that took one and the turns that
\* hold one: no abort, release or report leaks a slot or returns one twice.
SlotsAccounted == active = Cardinality({w \in Workers : pc[w] \in {"got", "turn"}})

\* A parked acquire is never forgotten: some worker holds a slot, and its release
\* will wake the parked one, although the limit moves while it is parked.
ParkedHasHolder ==
    \A w \in Workers : pc[w] = "parked" => \E v \in Workers : pc[v] \in {"got", "turn"}

\* However many turns report a rate limit together, the limit falls once per
\* cooldown.
LoweredOncePerCooldown ==
    [][current' < current => since_lowered = Recovery]_poolVars

\* A parked acquire is woken to try again.
ParkedIsWoken == \A w \in Workers : (pc[w] = "parked") ~> (pc[w] # "parked")

\* pool.rs: a report installs a backoff that the next acquire waits out before
\* it takes a slot.
BackoffObserved ==
    \A w \in Workers : pc[w] = "got" => owed[w] \in {None, 0}
================================================================================
