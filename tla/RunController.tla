----------------------------- MODULE RunController -----------------------------
(***************************************************************************)
(* crew-run controller.rs: the finisher task that takes a run from sprint to *)
(* sprint, the crew it connects and aborts, the control channels through     *)
(* which a harness swap reaches a live worker, and the app commands that race *)
(* with all of it (core.rs holds the `runs` lock across a swap and a gate, so *)
(* one command at a time).                                                  *)
(*                                                                          *)
(* A step of a task is one poll: from an await to the next.  An aborted task  *)
(* (`asked`) is dropped by the runtime at its next await; the finisher can    *)
(* complete the poll it is in, a worker may run on until it is dropped.       *)
(***************************************************************************)
EXTENDS Integers, Sequences, FiniteSets

CONSTANTS
    Workers,        \* agent ids of crew_agents(roster)
    Lead,           \* "agent:lead"
    Sprints,        \* number of sprints the slicer made
    Harnesses,
    Default,        \* the harness of every slot when the run starts
    NoAgent, NoHarness,
    ControlCapacity,\* of a worker's control channel (mpsc::channel(4))
    MaxSwaps,       \* bound: swap commands
    MaxFaults,      \* bound: failures of a task or a connect, and events a receiver loses
    MaxBoth         \* bound: swaps and faults together

Crew == Workers \cup {Lead}
SprintNos == 1..Sprints

ASSUME SprintsAssumption == Sprints \in Nat \ {0}
ASSUME CapacityAssumption == ControlCapacity \in Nat \ {0}
ASSUME BoundsAssumption == MaxSwaps \in Nat /\ MaxFaults \in Nat /\ MaxBoth \in Nat
ASSUME AgentsAssumption ==
    /\ IsFiniteSet(Workers) /\ Workers # {}
    /\ {Lead, NoAgent} \cap Workers = {} /\ NoAgent # Lead
ASSUME HarnessAssumption == Default \in Harnesses /\ NoHarness \notin Harnesses

VARIABLES
    \* the finisher task (sprint 1 is connected by `start` itself)
    at, asked,      \* where it is; whether `abort_all` aborted it
    sprint,
    todo,           \* agents spawn_sprint has yet to connect
    plan,           \* the roster snapshot spawn_sprint was given
    heard,          \* ids whose Unregistered the receiver of this boundary got
    \* what it started
    task,           \* per worker, its last task
    ended,          \* the sprints whose task of a worker has ended, its inbox inherited
    lead,
    human,          \* the human proxy; its connection is not followed
    \* LiveHandles
    live,           \* the sprint whose abort handles it holds, 0 before the first
    controls,       \* per worker, the sprint of the registered channel, or 0
    reapers,        \* armed reap_controls_entry tasks: <<worker, sprint>>
    \* the bus, as the controller sees it
    conn,           \* none, open, stale: registered though the client is gone
    events,         \* Unregistered events subscription_loop has not taken
    \* the app
    roster,
    cmd,            \* the command in progress
    mail,           \* controls queued in the workers' channels
    replies,        \* per swap: told (Ok, an error, its own timeout) or the ack dropped
    stopped,
    \* histories and bounds
    gaveUp,         \* a wait for Unregistered timed out
    refused,        \* a connect was answered duplicate_agent
    faults

finVars == <<at, asked, sprint, todo, plan, heard>>
liveVars == <<live, controls, reapers>>
busVars == <<conn, events>>
appVars == <<roster, cmd, mail, replies, stopped>>
histVars == <<gaveUp, refused, faults>>
vars == <<finVars, task, ended, lead, human, liveVars, busVars, appVars, histVars>>

NoTask == [state |-> "none", sprint |-> 0, asked |-> FALSE, harness |-> NoHarness, swap |-> 0]
Idle == [kind |-> "idle", n |-> 0, w |-> NoAgent, h |-> NoHarness, chan |-> 0]
Swaps == 1..MaxSwaps
Running(w) == task[w].state \in {"idle", "serving"}
\* The bounds.
Spent == faults + Cardinality({n \in Swaps : replies[n] # "unused"})
Fault == faults < MaxFaults /\ Spent < MaxBoth /\ faults' = faults + 1

Mail == [n : Swaps, w : Workers, chan : SprintNos, h : Harnesses]
TypeOK ==
    /\ at \in {"spawn", "arm", "lead", "drain", "wait", "close", "end", "human",
               "endDrain", "endWait", "over", "aborted"}
    /\ asked \in BOOLEAN /\ sprint \in SprintNos /\ todo \subseteq Crew
    /\ plan \in [Workers -> Harnesses] /\ heard \subseteq Crew
    /\ task \in [Workers -> [state : {"none", "idle", "serving", "gone"}, sprint : 0..Sprints,
                             asked : BOOLEAN, harness : Harnesses \cup {NoHarness},
                             swap : 0..MaxSwaps]]
    /\ ended \in [Workers -> SUBSET SprintNos]
    /\ lead \in {"off", "up", "ok", "failed"}
    /\ human \in {"up", "publishing", "down"}
    /\ live \in 0..Sprints /\ controls \in [Workers -> 0..Sprints]
    /\ reapers \subseteq Workers \X SprintNos
    /\ conn \in [Crew -> {"none", "open", "stale"}] /\ events \in Seq(Crew)
    /\ roster \in [Workers -> Harnesses]
    /\ cmd \in [kind : {"idle", "lookup", "send", "ack", "gate"}, n : 0..MaxSwaps,
                w : Workers \cup {NoAgent}, h : Harnesses \cup {NoHarness}, chan : 0..Sprints]
    /\ mail \subseteq Mail
    /\ replies \in [Swaps -> {"unused", "open", "told", "dropped"}]
    /\ stopped \in BOOLEAN
    /\ gaveUp \in BOOLEAN /\ refused \in BOOLEAN
    /\ faults \in 0..MaxFaults

Init ==
    /\ at = "spawn" /\ asked = FALSE /\ sprint = 1 /\ todo = Crew
    /\ plan = [w \in Workers |-> Default] /\ heard = {}
    /\ task = [w \in Workers |-> NoTask]
    /\ ended = [w \in Workers |-> {}]
    /\ lead = "off" /\ human = "up"
    /\ live = 0 /\ controls = [w \in Workers |-> 0] /\ reapers = {}
    /\ conn = [a \in Crew |-> "none"] /\ events = <<>>
    /\ roster = plan /\ cmd = Idle /\ mail = {} /\ stopped = FALSE
    /\ replies = [n \in Swaps |-> "unused"]
    /\ gaveUp = FALSE /\ refused = FALSE /\ faults = 0

-------------------------------------------------------------------------------
(* The finisher. *)

\* The poll it is in runs to its end even when abort_all has aborted it.
Go(p) == at' = IF asked THEN "aborted" ELSE p

\* spawn_sprint has its last connection: LiveHandles is replaced wholesale, the
\* reapers are armed, and (but for the first sprint) the receiver of the boundary
\* is taken in the same poll.
InstallLive ==
    /\ live' = sprint
    /\ controls' = [w \in Workers |-> sprint]
    /\ reapers' = reapers \cup {<<w, sprint>> : w \in Workers}
    /\ Go(IF sprint = 1 THEN "arm" ELSE "lead")
    /\ heard' = {}

Admit(a) ==
    /\ conn' = [conn EXCEPT ![a] = "open"]
    /\ todo' = todo \ {a}
    /\ IF a = Lead
         THEN /\ lead' = "up"
              /\ InstallLive
              /\ UNCHANGED task
         ELSE /\ task' = [task EXCEPT ![a] = [state |-> "idle", sprint |-> sprint, asked |-> FALSE,
                                              harness |-> plan[a], swap |-> 0]]
              /\ Go("spawn")
              /\ UNCHANGED <<lead, liveVars, heard>>

\* The lead is the last one spawn_sprint connects.
Turn(a) == a \in todo /\ (a = Lead => todo = {Lead})

Connect(a) ==
    /\ at = "spawn" /\ Turn(a)
    /\ conn[a] = "none"
    /\ Admit(a)
    /\ UNCHANGED <<asked, sprint, plan, ended, human, events, appVars, histVars>>

\* BusConn::connect(..)? : spawn_sprint returns, and whoever it has already
\* spawned runs on.  In the first sprint `start` itself fails.
SpawnFails ==
    /\ Go(IF live = 0 THEN "aborted" ELSE "end")
    /\ UNCHANGED <<asked, sprint, todo, plan, heard, task, ended, lead, human,
                   liveVars, busVars, appVars, gaveUp>>

Duplicate(a) ==
    /\ at = "spawn" /\ Turn(a)
    /\ conn[a] # "none"
    /\ refused' = TRUE
    /\ SpawnFails
    /\ UNCHANGED faults

ConnectFails ==
    /\ at = "spawn"
    /\ Fault
    /\ SpawnFails
    /\ UNCHANGED refused

\* The finisher's own task starts after `start` installed the first crew.
Subscribe ==
    /\ at = "arm"
    /\ heard' = {}
    /\ Go("lead")
    /\ UNCHANGED <<asked, sprint, todo, plan, task, ended, lead, human, liveVars,
                   busVars, appVars, histVars>>

AbortWorkers(s) ==
    task' = [w \in Workers |-> IF task[w].sprint = s /\ Running(w)
                                THEN [task[w] EXCEPT !.asked = TRUE] ELSE task[w]]

LeadJoined ==
    /\ at = "lead"
    /\ lead \in {"ok", "failed"}
    /\ AbortWorkers(sprint)
    /\ controls' = [w \in Workers |-> 0]
    /\ Go("drain")
    /\ UNCHANGED <<asked, sprint, todo, plan, heard, ended, lead, human, live, reapers,
                   busVars, appVars, histVars>>

\* subscription_loop answers a drain request once it has republished all the bus
\* has broadcast so far, or at the first event it lost: what follows that one waits
\* for the loop.
Drain ==
    /\ at \in {"drain", "endDrain"}
    /\ ~ stopped
    /\ \/ /\ heard' = IF at = "drain" THEN heard \cup {events[i] : i \in DOMAIN events} ELSE heard
          /\ events' = <<>> /\ UNCHANGED faults
       \/ /\ events # <<>> /\ events' = Tail(events)
          /\ Fault
          /\ UNCHANGED heard
    /\ Go(IF at = "endDrain" THEN "endWait" ELSE IF sprint = Sprints THEN "close" ELSE "wait")
    /\ UNCHANGED <<asked, sprint, todo, plan, task, ended, lead, human, liveVars, conn,
                   appVars, gaveUp, refused>>

\* (mutant) the boundary waits for the lead's id only
HeardLead == Lead \in heard

Heard == Crew \subseteq heard

\* (mutant) without SPRINT_UNREGISTER_TIMEOUT
WaitForever ==
    /\ at = "wait" /\ Heard
    /\ Go("close")
    /\ UNCHANGED <<asked, sprint, todo, plan, heard, task, ended, lead, human, liveVars,
                   busVars, appVars, histVars>>

\* wait_for_bus_lifecycle_all: every id was heard, or SPRINT_UNREGISTER_TIMEOUT.
WaitForCrew ==
    /\ at = "wait"
    /\ \/ Heard /\ UNCHANGED gaveUp
       \/ ~ Heard /\ gaveUp' = TRUE
    /\ Go("close")
    /\ UNCHANGED <<asked, sprint, todo, plan, heard, task, ended, lead, human, liveVars,
                   busVars, appVars, refused, faults>>

\* The sprint's summary and its git phase (module GitFlow), then the next sprint
\* with the roster of this moment, or the end of the run.
CloseSprint ==
    /\ at = "close"
    /\ IF lead = "ok" /\ sprint < Sprints
         THEN /\ sprint' = sprint + 1
              /\ plan' = roster
              /\ todo' = Crew
              /\ Go("spawn")
         ELSE /\ Go("end")
              /\ UNCHANGED <<sprint, plan, todo>>
    /\ heard' = {}
    /\ UNCHANGED <<asked, task, ended, lead, human, liveVars, busVars, appVars,
                   histVars>>

EndRun ==
    /\ at = "end"
    /\ Go("human")
    /\ UNCHANGED <<asked, sprint, todo, plan, heard, task, ended, lead, human, liveVars, busVars, appVars,
                   histVars>>

HumanJoined ==
    /\ at = "human" /\ human = "down"
    /\ Go("endDrain")
    /\ UNCHANGED <<asked, sprint, todo, plan, heard, task, ended, lead, human, liveVars,
                   busVars, appVars, histVars>>

\* The bounded wait for the proxy's Unregistered, then RunFinished.
Finish ==
    /\ at = "endWait"
    /\ Go("over")
    /\ UNCHANGED <<asked, sprint, todo, plan, heard, task, ended, lead, human, liveVars,
                   busVars, appVars, histVars>>

\* The runtime drops the aborted future, and human_shutdown_tx with it.
FinisherDropped ==
    /\ asked /\ at \notin {"over", "aborted"}
    /\ at' = "aborted"
    /\ UNCHANGED <<asked, sprint, todo, plan, heard, task, ended, lead, human, liveVars, busVars,
                   appVars, histVars>>

-------------------------------------------------------------------------------
(* The crew, its control channels and the human proxy. *)

\* What the caller of swap n gets, if it still waits for the ack.
Answer(n, r) ==
    IF cmd.kind = "ack" /\ cmd.n = n
      THEN /\ replies' = [replies EXCEPT ![n] = r]
           /\ cmd' = Idle
      ELSE UNCHANGED <<cmd, replies>>

\* The run loop takes the next control of its channel; what the worker spends on
\* it (snapshot and shutdown of the old session) has no bound of its own.
TakeControl(w, m) ==
    /\ task[w].state = "idle"
    /\ m \in mail /\ m.w = w /\ m.chan = task[w].sprint
    /\ \A o \in mail : o.w = w /\ o.chan = m.chan => m.n <= o.n
    /\ mail' = mail \ {m}
    /\ task' = [task EXCEPT ![w] = [@ EXCEPT !.state = "serving", !.harness = m.h, !.swap = m.n]]
    /\ UNCHANGED <<finVars, ended, lead, human, liveVars, busVars, roster, cmd, replies, stopped,
                   histVars>>

\* The new harness is in place and the ack is sent, Ok or the session's error.
ServeControl(w) ==
    /\ task[w].state = "serving"
    /\ task' = [task EXCEPT ![w] = [@ EXCEPT !.state = "idle", !.swap = 0]]
    /\ Answer(task[w].swap, "told")
    /\ UNCHANGED <<finVars, ended, lead, human, liveVars, busVars, roster, mail, stopped,
                   histVars>>

\* (mutant) the receiver is dropped with the task, and what was queued in it
ForgetInbox(w) ==
    /\ mail' = {m \in mail : m.w # w \/ m.chan # task[w].sprint}
    /\ IF cmd.kind = "ack" /\ (cmd.n = task[w].swap \/ \E m \in mail \ mail' : m.n = cmd.n)
         THEN Answer(cmd.n, "dropped") ELSE UNCHANGED <<cmd, replies>>

\* Drop of CtrlInbox: the receiver goes to a task of its own, the queue with it;
\* a control being served dies with its ack.
LeaveInbox(w) ==
    /\ mail' = mail
    /\ IF task[w].state = "serving" THEN Answer(task[w].swap, "dropped")
                                    ELSE UNCHANGED <<cmd, replies>>

TaskEnds(w) ==
    /\ task' = [task EXCEPT ![w] = [@ EXCEPT !.state = "gone", !.swap = 0]]
    /\ ended' = [ended EXCEPT ![w] = @ \cup {task[w].sprint}]
    /\ conn' = [conn EXCEPT ![w] = "stale"]
    /\ LeaveInbox(w)
    /\ UNCHANGED <<finVars, lead, human, liveVars, events, roster, stopped, gaveUp,
                   refused>>

WorkerDropped(w) ==
    /\ Running(w) /\ task[w].asked
    /\ TaskEnds(w)
    /\ UNCHANGED faults

\* A failed send, a fatal bus error or a lost connection.
WorkerFails(w) ==
    /\ task[w].state = "idle"
    /\ Fault
    /\ TaskEnds(w)

\* The task that inherited the channel answers: Ok for an aborted worker, the
\* worker's error for a failed one.
AnswerUnserved(m) ==
    /\ m \in mail
    /\ m.chan \in ended[m.w]
    /\ mail' = mail \ {m}
    /\ Answer(m.n, "told")
    /\ UNCHANGED <<finVars, task, ended, lead, human, liveVars, busVars, roster, stopped,
                   histVars>>

\* (mutant) without the same_channel test
EvictAny(w, s) ==
    /\ <<w, s>> \in reapers
    /\ s \in ended[w]
    /\ reapers' = reapers \ {<<w, s>>}
    /\ controls' = [controls EXCEPT ![w] = 0]
    /\ UNCHANGED <<finVars, task, ended, lead, human, live, busVars, appVars, histVars>>

\* reap_controls_entry, once the task it awaits has ended: the entry goes only if
\* it is still the channel it was armed with.
ReapControls(w, s) ==
    /\ <<w, s>> \in reapers
    /\ s \in ended[w]
    /\ reapers' = reapers \ {<<w, s>>}
    /\ controls' = IF controls[w] = s THEN [controls EXCEPT ![w] = 0] ELSE controls
    /\ UNCHANGED <<finVars, task, ended, lead, human, live, busVars, appVars, histVars>>

\* The lead's own run: every task of the sprint is terminal, or it failed.
LeadReturns ==
    /\ lead = "up"
    /\ lead' \in {"ok", "failed"}
    /\ conn' = [conn EXCEPT ![Lead] = "stale"]
    /\ UNCHANGED <<finVars, task, ended, human, liveVars, events, appVars, histVars>>

\* The server's own task sees the closed socket and removes the registration (after
\* `shutdown` nobody watches).
Unregister(a) ==
    /\ ~ stopped
    /\ conn[a] = "stale"
    /\ conn' = [conn EXCEPT ![a] = "none"]
    /\ events' = Append(events, a)
    /\ UNCHANGED <<finVars, task, ended, lead, human, liveVars, appVars, histVars>>

\* From its subscription to the end of the loop body the finisher has a receiver.
Listening == at \in {"lead", "drain", "wait", "close"}

\* subscription_loop republishes the next event.
Publish ==
    /\ ~ stopped /\ events # <<>>
    /\ events' = Tail(events)
    /\ heard' = IF Listening THEN heard \cup {Head(events)} ELSE heard
    /\ UNCHANGED <<at, asked, sprint, todo, plan, task, ended, lead, human, liveVars, conn, appVars,
                   histVars>>

\* Its receiver lagged (or the finisher's did): the event is gone.
Lagged ==
    /\ ~ stopped /\ events # <<>>
    /\ Fault
    /\ events' = Tail(events)
    /\ UNCHANGED <<finVars, task, ended, lead, human, liveVars, conn, appVars, gaveUp, refused>>

HumanEnds ==
    /\ human' = "down"
    /\ IF cmd.kind = "gate" THEN cmd' = Idle ELSE UNCHANGED cmd
    /\ UNCHANGED <<finVars, task, ended, lead, liveVars, busVars, roster, mail, replies, stopped,
                   gaveUp, refused>>

\* The shutdown arm is the last of a biased select: a queued gate goes first.
HumanShutdown ==
    /\ human = "up"
    /\ at \in {"human", "aborted"}
    /\ cmd.kind # "gate"
    /\ HumanEnds
    /\ UNCHANGED faults

HumanFails ==
    /\ human = "up"
    /\ Fault
    /\ HumanEnds

HumanTakesGate ==
    /\ human = "up" /\ cmd.kind = "gate"
    /\ human' = "publishing"
    /\ UNCHANGED <<finVars, task, ended, lead, liveVars, busVars, appVars, histVars>>

\* conn.send came back, Ok or not, and the caller is told.
HumanPublished ==
    /\ human = "publishing"
    /\ human' = "up"
    /\ cmd' = Idle
    /\ UNCHANGED <<finVars, task, ended, lead, liveVars, busVars, roster, mail, replies, stopped,
                   histVars>>

-------------------------------------------------------------------------------
(* The app's commands, one at a time, on a run that `start` returned. *)

CanCommand == cmd = Idle /\ live > 0 /\ ~ stopped

\* swap_harness up to RosterChanged.
SwapHarness(w, h) ==
    /\ CanCommand
    /\ h # roster[w] /\ Spent < MaxBoth
    /\ \E n \in Swaps :
         /\ replies[n] = "unused"
         /\ \A k \in 1..(n - 1) : replies[k] # "unused"
         /\ replies' = [replies EXCEPT ![n] = "open"]
         /\ cmd' = [kind |-> "lookup", n |-> n, w |-> w, h |-> h, chan |-> 0]
    /\ roster' = [roster EXCEPT ![w] = h]
    /\ UNCHANGED <<finVars, task, ended, lead, human, liveVars, busVars, mail, stopped,
                   histVars>>

\* Step 3: the sender, or Ok when there is none.
LookUpSender ==
    /\ cmd.kind = "lookup"
    /\ IF controls[cmd.w] = 0
         THEN /\ replies' = [replies EXCEPT ![cmd.n] = "told"]
              /\ cmd' = Idle
         ELSE /\ cmd' = [cmd EXCEPT !.kind = "send", !.chan = controls[cmd.w]]
              /\ UNCHANGED replies
    /\ UNCHANGED <<finVars, task, ended, lead, human, liveVars, busVars, roster, mail, stopped,
                   histVars>>

Queued(w, s) == {m \in mail : m.w = w /\ m.chan = s}

\* The channel is open as long as this sender lives: the run loop has the
\* receiver, or the task that inherited it.  While it is full the sender waits, and
\* SWAP_ACK_TIMEOUT_MS does not run yet.
SendSwapControl ==
    /\ cmd.kind = "send"
    /\ Cardinality(Queued(cmd.w, cmd.chan)) < ControlCapacity
    /\ mail' = mail \cup {[n |-> cmd.n, w |-> cmd.w, chan |-> cmd.chan, h |-> cmd.h]}
    /\ cmd' = [cmd EXCEPT !.kind = "ack"]
    /\ UNCHANGED <<finVars, task, ended, lead, human, liveVars, busVars, roster, replies, stopped,
                   histVars>>

\* (mutant) without SWAP_ACK_TIMEOUT_MS
NoAckTimeout == FALSE

\* SWAP_ACK_TIMEOUT_MS.
AckTimeout ==
    /\ cmd.kind = "ack"
    /\ Answer(cmd.n, "told")
    /\ UNCHANGED <<finVars, task, ended, lead, human, liveVars, busVars, roster, mail, stopped,
                   histVars>>

ResolveGate ==
    /\ CanCommand
    /\ human = "up"
    /\ cmd' = [Idle EXCEPT !.kind = "gate"]
    /\ UNCHANGED <<finVars, task, ended, lead, human, liveVars, busVars, roster, mail, replies,
                   stopped, histVars>>

\* stop_run takes the handle out of the map and shuts it down: abort_all aborts
\* the finisher and whatever LiveHandles holds.  The aborted lead and the proxy,
\* whose last poll concerns nobody here, are gone at once.
StopRun ==
    /\ CanCommand
    /\ stopped' = TRUE
    /\ asked' = (at # "over")
    /\ AbortWorkers(live)
    /\ lead' = IF lead = "up" THEN "failed" ELSE lead
    /\ conn' = IF lead = "up" THEN [conn EXCEPT ![Lead] = "stale"] ELSE conn
    /\ human' = "down"
    /\ UNCHANGED <<at, sprint, todo, plan, heard, ended, liveVars, events, roster, cmd, mail,
                   replies, histVars>>

Next ==
    \/ \E a \in Crew : Connect(a) \/ Duplicate(a)
    \/ ConnectFails \/ Subscribe \/ LeadJoined \/ Drain \/ WaitForCrew \/ CloseSprint
    \/ EndRun \/ HumanJoined \/ Finish \/ FinisherDropped
    \/ \E w \in Workers :
         \/ \E m \in mail : TakeControl(w, m)
         \/ ServeControl(w) \/ WorkerDropped(w) \/ WorkerFails(w)
         \/ \E s \in SprintNos : ReapControls(w, s)
         \/ \E h \in Harnesses : SwapHarness(w, h)
    \/ \E m \in mail : AnswerUnserved(m)
    \/ LeadReturns
    \/ \E a \in Crew : Unregister(a)
    \/ Publish \/ Lagged
    \/ HumanShutdown \/ HumanFails \/ HumanTakesGate \/ HumanPublished
    \/ LookUpSender \/ SendSwapControl \/ AckTimeout \/ ResolveGate \/ StopRun

Spec == Init /\ [][Next]_vars

(***************************************************************************)
(* Fairness: the runtime polls what is ready, timeouts fire, the bus server  *)
(* notices closed sockets.  Nobody has to issue a command, a lead need not   *)
(* return, and a worker need not take a control (it is in a turn, which is   *)
(* part of its "idle" here) nor finish with one.  The proxy looks at          *)
(* its shutdown signal whenever it finds no gate queued, and gates do not      *)
(* always come in time to prevent that (strong fairness of HumanShutdown).     *)
(***************************************************************************)
Fairness ==
    /\ WF_vars(\/ \E a \in Crew : Connect(a) \/ Duplicate(a)
               \/ Subscribe \/ LeadJoined \/ Drain \/ WaitForCrew \/ CloseSprint \/ EndRun
               \/ HumanJoined \/ Finish \/ FinisherDropped)
    /\ \A w \in Workers :
         WF_vars(WorkerDropped(w)) /\ WF_vars(\E m \in mail : m.w = w /\ AnswerUnserved(m))
    /\ \A a \in Crew : WF_vars(Unregister(a))
    /\ WF_vars(Publish)
    /\ SF_vars(HumanShutdown) /\ WF_vars(HumanTakesGate \/ HumanPublished)
    /\ WF_vars(LookUpSender \/ SendSwapControl \/ AckTimeout)

FairSpec == Spec /\ Fairness

-------------------------------------------------------------------------------
(* Properties. *)

\* The registry of control channels and the live crew match: while the lead of a
\* sprint is awaited, a worker that still runs is reachable through the channel
\* of its own task (no late reaper of an earlier sprint evicts it), and outside
\* that window nobody is (LiveHandles.controls, reap_controls_entry).
ControlsMatchCrew ==
    /\ at = "lead" => \A w \in Workers :
                         Running(w) /\ ~ task[w].asked => controls[w] = task[w].sprint
    /\ \A w \in Workers : controls[w] # 0 =>
         /\ at \in {"arm", "lead", "aborted"}
         /\ controls[w] = sprint

\* A swap control no worker began to serve is never dropped: whatever ended the
\* worker, the caller gets an answer or gives up by itself (CtrlInbox; the hazard
\* of a swap that reaches a worker between its abort and the next spawn).
UnservedIsAnswered ==
    [][\A n \in Swaps : replies[n] = "open" /\ replies'[n] = "dropped" =>
         \E w \in Workers : task[w].state = "serving" /\ task[w].swap = n]_vars

\* The next sprint finds an id of the last one still registered only if the wait
\* for the Unregistered events had given up.
RefusedOnlyAfterGivingUp == refused => gaveUp

\* The sender waits for room in the channel of a worker that takes nothing out of
\* it, and that runs on because the lead of its sprint does.
Crowded ==
    /\ cmd.kind = "send"
    /\ Cardinality(Queued(cmd.w, cmd.chan)) = ControlCapacity
    /\ Running(cmd.w) /\ task[cmd.w].sprint = cmd.chan /\ ~ task[cmd.w].asked
    /\ at = "lead" /\ lead = "up"

\* Every command returns to the app, which holds its `runs` lock meanwhile (core.rs:
\* 494): a boundary, a dying worker or the end of the run cannot keep it.  A busy
\* worker can, once controls that timed out fill its channel, for as long as it takes
\* none of them and its lead has not returned.
CommandsReturn == []<>(cmd = Idle) \/ <>[]Crowded

\* controller.rs:43: SWAP_ACK_TIMEOUT_MS bounds a swap's wait for the worker.  The
\* wait for room in the channel comes before it.
SwapsAreBounded == cmd.kind = "send" ~> cmd.kind # "send"

\* The run always gets back to a sprint's lead, or to its end: no boundary keeps it,
\* whatever bus events were lost and whoever failed.
BoundaryPasses == []<>(at \in {"lead", "over", "aborted"})

\* controller.rs:1931: "Worker/lead/relay/subscription tasks abort, then the bus
\* shuts down": after shutdown no worker is left that nobody aborted.
StopAbortsCrew ==
    stopped => \A w \in Workers : Running(w) => task[w].asked

===============================================================================
