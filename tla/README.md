# linkly-crew in TLA+

linkly-crew runs a crew of AI workers on one goal. A *run* plans a DAG of tasks,
cuts it into sprints, and for each sprint starts a Lead and one worker per role.
They talk over a local WebSocket bus; each worker drives a CLI harness; after each
sprint the accepted work is committed and merged into the user's repository; a
desktop app shows what happens. This directory models the parts of the program
that decide whether a run is correct. TLC checks the models on small instances
(`*.cfg`), TLAPS proves the most important safety results for every value of the
constants (`*Proofs.tla`).

    tlc -workers 2 -config BusDelivery.cfg MCBusDelivery.tla
    tlapm LeadDispatchProofs.tla

## The system

| Component (`src/crates/...`) | State it keeps | Operations | Hard because |
|---|---|---|---|
| bus connections, `crew-bus/connection.rs` | one task per WebSocket, its outbound channel | upgrade, welcome, write, read, ping, cleanup | tasks share the registry by agent id and outlive their entry |
| bus registry, `crew-bus/state.rs` | agent id to outbound sender | `send_to`, `unregister` | eviction on a full channel in the middle of someone else's send; events broadcast after the unlock |
| bus routing, `crew-bus/routing.rs` | `seen`, `pending`, `guard`, retry tasks | accept, route, track, redeliver, clear, fail | retry tasks, receipts and resubmissions race for one entry |
| CorrGuard, `crew-proto/guard.rs` | hops and reversals of each `corr` | `record` | never reset, blocked hops count |
| bus client, `crew-agent/bus.rs` | pending receipts, the ids seen on a connection | `connect`, `send`, `send_best_effort`, reader loop | timeouts against late receipts, dedup dies with the connection, bounded inbox |
| AgentRunner, `crew-agent/runner.rs` | the behaviour, its ticker, its control inbox | start, receive, tick, control, stop | one thing at a time: nobody empties the inbox during a send |
| role worker, `crew-agent/harness_behavior.rs` | session, injected context | a turn per request, swap | a failed turn costs the session; abort at any await |
| harness adapters, `crew-harness/{claude,pi,opencode}.rs` | a child process, its reader task | spawn, send, events, shutdown | two bounded channels, timeouts, a CLI that hangs or dies |
| harness pool, `crew-harness/pool.rs` | slots, limit, backoff | acquire, release, report, lazy recovery | wakeups, aborts, simultaneous reports |
| Lead dispatch, `crew-lead/dispatch.rs` | task states, budgets, escalation clocks | start, result, blocked, human response, tick | cascades against work in progress, reopened tasks, silence |
| acceptance budget, `crew-lead/accept.rs` | reworks used | `decide` | counts the same exchange as CorrGuard, differently |
| DoD executors, `crew-lead/{dod,cmd,browser}_exec.rs` | a process group | run checks, judge | process trees, timeouts, refused kills, aborts |
| planning, `crew-lead/plan.rs`, `crew-proto/dag.rs` | none | plan, validate, slice | dependencies across sprints, malformed lists |
| run controller, `crew-run/controller.rs` | live controls, snapshot, gates | start, sprint boundary, swap, gate, finish, shutdown | ids reconnect while the bus may still hold them; commands at a boundary |
| run lock and git flow, `crew-run/gitflow.rs`, `worktree.rs` | lock file, phase mutex, branches | acquire, steal, commit, merge, push, release | starters race for a stale lock; a blocking phase outlives an abort |
| ledger, `crew-ledger` | events, messages | append, read | written twice by a reconnect, read while it grows |
| desktop app, `apps/crew-app` | one active run, a view of its events | start, stop, resync, render | snapshot against live stream |

A worker's `send` goes to its connection task, which routes it to the outbound
channel of the recipient; the recipient's reader loop acknowledges it, hands it
to the runner once, and the receipt travels back. The runner gives a behaviour one
event at a time. The Lead answers with assignments, change requests and human
gates; a worker answers a request with the outcome of one turn of its CLI. The
controller observes the bus through a broadcast, writes the ledger, owns the tasks
of a sprint and calls the git flow between sprints. The app sends it commands and
follows its events.

What makes each part correct: the registry names live connections only and its
events add up; an accepted envelope reaches its recipient once or its sender is
told, and a tracked delivery has one outcome; the Lead keeps dependency order,
loses no work, strands no task and finishes; the two budgets of a rework count the
same exchange, and nothing but a rework stops a runner;
a result is judged by its own checks; no slot leaks and no waiter is forgotten; an
answer is made of its own turn and with the context it should have; a boundary lets
no swap or gate vanish; at most one run works in a project root, and what it
reports completed is on main; a resync makes the screen show the ledger without a
seam; a DAG is
cut in dependency order.

## Modules

| Module | Models | Checked by | Proofs |
|---|---|---|---|
| `BusRegistry` | connections and registry | `BusRegistry.cfg`, `WelcomeFirst.cfg`, `StaleCleanup.cfg`, `HungClient.cfg` on `MCBusRegistry` | `BusRegistryProofs` |
| `Delivery` | abstract: what acknowledged delivery promises | as a property of `BusDelivery` | |
| `CorrGuard` | the guard of one corr, as operators | through its users | |
| `BusDelivery` | an envelope from `send` to its outcome | `BusDelivery.cfg`, `AckedButFailed.cfg` on `MCBusDelivery` | `BusDeliveryProofs` |
| `LeadDispatch` | the Lead over one sprint | `LeadDispatch.cfg` on `MCLeadDispatch` | `LeadDispatchProofs` |
| `ReviewLoop` | rework budget against CorrGuard | part of `Acceptance` | `AcceptanceProofs` |
| `DodExec` | the checks of a task as processes, and judge | part of `Acceptance` | `AcceptanceProofs` |
| `Acceptance` | composes `ReviewLoop` and `DodExec` | `Acceptance.cfg`, `ReworkBudget.cfg`, `BrowserHang.cfg` on `MCAcceptance` | `AcceptanceProofs` |
| `HarnessPool` | slots, backoff, adaptive limit | `HarnessPool.cfg`, `PoolBackoff.cfg` | `HarnessProofs` |
| `HarnessTurn` | a turn: worker, reader task, child | part of `AgentRunner` | `HarnessProofs` |
| `AgentRunner` | composes `HarnessTurn` with inbox, socket and receipts | `AgentRunner.cfg`, `HeldStdout.cfg`, `WedgedInbox.cfg`, `StuckSend.cfg`, `DeafChild.cfg` | `HarnessProofs` |
| `RunController` | a run from sprint to sprint | `RunController.cfg`, `StopInSpawn.cfg`, `FullControls.cfg` | `RunProofs` |
| `RunLock` | the lock file of a project root | part of `GitFlow` | `GitFlowProofs` |
| `GitFlow` | composes `RunLock` with the git phases of a run | `GitFlow.cfg`, `ThreeStarters.cfg` on `MCGitFlow` | `GitFlowProofs` |
| `RunFeed` | ledger, broadcast, pump, resync, screen | `RunFeed.cfg`, `TwoResyncs.cfg`, `LateGenesis.cfg`, `LaggingPump.cfg` on `MCRunFeed` | `RunProofs` |
| `Planning` | plan, validate, slice | `Planning.cfg` on `MCPlanning` | `PlanningProofs` |

**BusRegistry.** `registry` is `Shared::registry` with a sender named by the
connection that owns the receiver; `outbound` is the channel. `task` is the
program counter of `handle_socket`: `registered` between the insertion and the
Welcome, `serving` in the select loop, `stuck` in a blocked write, `leaving` after
the loop. A blocked write ends when the client reads or has closed its socket; a
client that does neither (`peer` is `silent`) can keep it for good. An action is
the code between two acquisitions of the registry lock.
`owed` counts removals whose broadcast is still to come, `net` what observers have
been told, `first` what `BusConn::connect` reads first.

**BusDelivery.** `chan` is a connection seen from the bus, `toBus` what the client
wrote and its connection task has yet to read. `routing` is the envelope a
connection task is in the middle of: handing it off and inserting its `pending`
entry are two steps, as are the last redelivery and the removal that declares the
delivery failed. `retry[k]` lists the retry tasks of a key, since an id evicted
from the dedup window can start a second one. `submit` is the `send` call, `got`
and `handed` belong to the reader loop of the current connection. The registered
check, the guard and the hand-off of one recipient are one step: a disconnect in
between has the outcome of the branch the code takes for it.

**Delivery** knows nothing of connections, windows and timers: an envelope is
accepted, a delivery handed over at most once in a life of its recipient, tracked,
and cleared by somebody who has it or failed. `BusDelivery!KeepsPromise`
instantiates it with a mapping of its variables: `open` is the set of keys with a
pending entry, `tracked` counts the retry tasks started for a key.

**LeadDispatch.** The variables are the fields of `LeadBehavior`. `dispatch_ready`
loops until a pass changes nothing; its result is stated as the least set of tasks
closed under `dep_readiness` (`Doomed`), which does not depend on the order of a
pass. A `HashMap` of tasks becomes a function and the clock of a task `NoClock`,
`Unseen` or an age. `asked` is what its workers owe: a request is answered once,
which is what `RoleHarnessBehavior::on_envelope` does on each of its return paths.
The verdict of the DoD judge is a choice here. Actions need `Running`, because the
runner returns as soon as the behaviour is done.

**ReviewLoop, DodExec, Acceptance.** `ReviewLoop` is the exchange about one task:
`guard` is the CorrGuard state of its corr, `rounds_used` the Lead's budget, `up`
the runners that no `loop_blocked` has ended. `DodExec` is the two passes of
executors over `dod` (`stage`, `at`), the one process they may have (`child`, whose
`kill` says what a SIGKILL would reach, with `family` for its descendants) and
`outcomes`. judge then goes over the checks again, one step each, and matches them
with the outcomes by text; `judged` is what it has found so far. `Acceptance` puts
all this inside the Lead's handling of a result in `ReviewLoop`.

**HarnessPool.** An action is one critical section of `acquire`, of the permit's
drop or of `report_rate_limit`; the drop and its `notify_waiters` are one step,
since a waiter exists before it checks and so misses no notification. Deadlines
and reports are kept as time left and time passed, so no clock grows. `delay`
stands for `attempts` through the delay the next report installs.

**HarnessTurn, AgentRunner.** `phase` is where `on_envelope` is. A line of the
child, an event and an outcome carry the turn whose prompt they answer, and `text`
and `answer` the turns they were made from, so that a late line of an earlier turn
is told apart. `injected` and `session.told` are versions of the context a session
has to have seen. `reader` is the task in the adapter, which blocks on the full
event channel; `drain` empties it. Writing the prompt is over at once or pending
(`phase` is `write`) until the child reads or dies. `AgentRunner` adds the reader
loop of the bus client (`stream`, `acked`, `inbox`, where it blocks too), the socket
in the other direction (`unread`), presence, and the sends of the answers
(`sending`, `unacked`), each of which writes and then waits for a receipt the same
loop must read. A write of either side waits while the socket is full, and the task
of this connection on the bus's side reads nothing while it writes (`BusStuck`).

**RunController.** `at` is the program counter of the finisher task; `start`
connects sprint 1 with the same code. `task[w]` is a worker's task with the sprint
it belongs to, `controls` the registry of control channels that `swap_harness` looks
into and a reaper removes from, `conn` what the bus knows of the crew's connections. A step is one poll, from an
await to the next: an aborted task is dropped only then, and what it holds with it.
A swap is one app command in steps (`LookUpSender`, `SendSwapControl`, which waits
for room in the channel, `AckTimeout`) with its answer in `replies`; `mail` is what
lies in the control channels; the human proxy, its queue and its join at the end are
actions of their own.

**RunLock, GitFlow.** In `RunLock` a file is named by its creator and each action is
one file-system call, because nothing else orders starters of different processes:
`lockfile` is what stands at the path, `aside[s]` what `s` renamed away. A lock
whose owner is dead, and a file its creator has not written yet, are there from the
start. In `GitFlow` a commit is the set of the pieces of work in it, `stage` is the
finisher and `git` the blocking task it started, which goes on when the finisher is
aborted; both are needed to say when the lock may be released.

**RunFeed.** The backend's two writers of messages (`handle_bus_event` from the
subscription loop and from a swap), the relay of task states and `snapshot`; the
wire, from which a lagging pump drops events (`PumpLags`); and the front end's
`resync` with its `replaying` flag, `buffered` events, `last` sequence number and
`channel`, which is what the screen shows. Nothing orders `RunStarted` before the
reply of `start_run`, so `StartChannel` may come at any time, and the channel may be
selected as often as one likes. Three histories say what may be expected of the
screen: `lost` is what the pump dropped and no replay has made up for, `alone`
whether the latest resync has had no other beside it, `clean` whether the screen
shows the replay of such a resync and what came after. A step is one
turn of the front end's event loop, except that the flush at the end of a resync
delivers one buffered event per step; `TurnOver` keeps the rest of the front end
out until it is done, while the backend goes on.

**Planning.** `stage` and `at` walk the loops of `validate`, `queue`, `in_degree` and
`order` are Kahn's algorithm. A loop iteration is a step, which makes the theorem
about it an invariant. `slice` is checked for every size of `SprintSizes`, zero included
(`StartSlice`, before anything is sorted).

## Runs

| Run | Shows | Instance and why it is enough |
|---|---|---|
| `bus_registry` | `NoGhostRegistration`, `EventsAccounted`, `DeadPeerReleased`: a closed client loses its id, a silent one unless a write to it is blocked | two connections of one id: the smallest race of a cleanup with a reconnect; ids share only the lock. Channel of 2 so that it overflows |
| `bus_delivery` | `FirstTryIsEndToEnd`, `KeepsPromise`, `TrackedResolves`, `ReachedOrTold` | one acknowledged and one best-effort message on one corr, one death of the recipient, a dedup window of 1 (an eviction needs a second id), a channel of 2, 3 deliveries, 2 attempts of `send`, rounds 0 so that the reply is blocked |
| `acked_but_failed` | violation: `delivery_failed` for an acknowledged envelope | the same |
| `lead_dispatch` | `DepsFirst`, `AssignedIsAsked`, `NoStranded`, `NoWorkDiscarded`, `FinalStates`, `Finishes` | seven tasks: two roots, a join, a task behind it, an unrouted role, a chain behind a task an earlier sprint left escalated; 2 reworks (the default), a timeout of 2 ticks so that a clock has an age, 2 approvals |
| `acceptance` | `TwoRoundsARework`, `JudgedByOwnRun`, `NoRunaway`, `Verdicts` | two tasks of one worker, the shipped budgets of 2 reworks and 3 rounds, 1 approval: the bus stops the worker within the Lead's budget, and the approval gives the Lead a second one. One task asks three times for one command with different expectations, one of which does not parse; the other has a browser flow and a refused command |
| `harness_pool` | `SlotsAccounted`, `ParkedHasHolder`, `LoweredOncePerCooldown`, `ParkedIsWoken` | three workers on three slots: two reports can lower the limit twice, and a waiter parks under the lowered limit |
| `agent_runner` | `AnswerIsOwn`, `ContextReachesModel`, `OutputMoves`, `RunnerReturns` | two turns (a line of one can arrive in the other), every channel and the socket of 1 so that each blocks, 3 frames (one in hand, one in the inbox, one blocked), one swap, one fault, 2 attempts of a send. About 1 170 000 states |
| `run_controller` | `ControlsMatchCrew`, `RefusedOnlyAfterGivingUp`, `UnservedIsAnswered`, `CommandsReturn`, `BoundaryPasses` | one worker and the Lead, two sprints (one boundary), two swaps over a control channel of 1, so that the first, timed out, can fill it, a gate at any moment, one fault: a lost bus event, a failed connect or a task that ends by itself; swaps and faults are two together at most. About 720 000 states |
| `run_feed` | `BroadcastInOrder`, `NoHole`, `SettledIsComplete` | two writers, three messages (one dropped, one below and one above it), a task state, one dropped event, any number of resyncs of which two are under way at a time, `RunStarted` at any time. About 4 270 000 states, with writers and resyncs symmetric |
| `gitflow` | `Exclusive`, `CompletedMeansLanded`, `RepoOnlyUnderLock`, `StoppedRunLetsGo` | two starters and a stale lock, one role, two sprints, so that what the first could not land is counted and lies on the branch in the second; one run goes through all phases while the other (`Brief`) ends after its set-up. About 330 000 states. Several roles in a sprint are covered by the theorems |
| `run_lock_three` | violation: two runs hold the root | three starters, all brief |
| `planning` | `VerdictIsRight`, `SprintsInOrder`, `CrewIsPlanned` | all lists of three tasks with up to two dependencies each, 256 lists of four, shorter ones with unknown and repeated ids, all crews of up to three roles; sprints of 0 (refused), 1 and 2 tasks |

Bounds that are of the models and not of the code: `Conns`, `MaxBreaks`,
`MaxApprovals`, `MaxTurns`, `MaxLines`, `MaxSwaps`, `MaxFaults`, `MaxFrames`,
`MaxBoth`, `MaxRows`, `MaxState`, `MaxLost`, `Resyncs`, `Brief`, `SprintSizes`, the length of what TLC takes from `Dags`
and `Crews`. `MaxFrames` reaches past `InboxCapacity`; the real capacities (64
envelopes, 4 controls, what a socket holds) change how much it takes to block, not
what happens then.

The runs stop where a sprint, a conversation, a run or the connections are over, so
deadlock is not checked there; `HarnessPool` never stops and is checked for it.
Each state module has a type invariant, which is proved (of `Delivery` it is part of
the refinement); modules that are composed or proved about together name theirs
apart (`PoolTypeOK`, `AcceptanceTypeOK`, `FeedTypeOK`).

Fifteen more configurations reproduce disagreements listed below; each is expected
to end in a counterexample:

| `tlc -config ...` | Violates |
|---|---|
| `WelcomeFirst.cfg MCBusRegistry.tla` | `WelcomeIsFirst` |
| `HungClient.cfg MCBusRegistry.tla` | `SilentPeerReleased` |
| `StaleCleanup.cfg MCBusRegistry.tla` | `CleanupIsOwn` |
| `ReworkBudget.cfg MCAcceptance.tla` | `BudgetBindsFirst`, with the shipped defaults |
| `PoolBackoff.cfg HarnessPool.tla` | `BackoffObserved` |
| `StopInSpawn.cfg RunController.tla` | `StopAbortsCrew` |
| `FullControls.cfg RunController.tla` | `SwapsAreBounded` |
| `TwoResyncs.cfg MCRunFeed.tla` | `QueuedNotDropped`, with overlapping resyncs |
| `LateGenesis.cfg MCRunFeed.tla` | `NothingMissing`, with one resync and nothing dropped |
| `LaggingPump.cfg MCRunFeed.tla` | `NoneSkipped`, with one dropped event |
| `WedgedInbox.cfg AgentRunner.tla` | `ReceiptResolves` |
| `StuckSend.cfg AgentRunner.tla` | `SendIsBounded` |
| `DeafChild.cfg AgentRunner.tla` | `WritesAreBounded` |
| `HeldStdout.cfg AgentRunner.tla` | `TurnsAreBounded` (one frame is enough) |
| `BrowserHang.cfg MCAcceptance.tla` | `ChecksAreBounded` |

**Fairness.** Everywhere: the runtime polls a task that is ready, a timeout that is
armed fires. Nowhere: that somebody issues a command, sends, dies, fails, crashes
or comes back.

* `BusRegistry`: select! picks its ready branches at random; a write to a client that
  has closed its socket fails in the end. A write to one that is merely silent need
  neither end nor fail: its kernel may go on answering for it.
* `BusDelivery`: the runtime does not stop while anything can make progress; nothing
  is said about which task runs.
* `LeadDispatch`: `on_start` runs, the ticker fires, outstanding requests go on being
  answered in some order (a turn has a timeout and ends in an answer, up to the
  exceptions `agent_runner` names), the human may stay silent.
* `Acceptance`: both runners handle what they received. A command need not end.
* `HarnessPool`: a woken task runs, a turn ends, time passes; nobody is forced to
  start a turn, and nothing is promised among waiters.
* `AgentRunner`: reader, drain, behaviour and runner are polled, and a write ends if
  there is room. The child need not read, write, end or close its output; the bus need
  not send or answer, only read when it is not writing.
* `RunController`: the finisher (one condition for all its steps), the workers' ends
  with the answers to the controls they leave, the bus's removals and the app's
  command go on; a Lead need not return, and a worker need not take a control. Strong fairness is asked of `HumanShutdown`
  only: the proxy's select sees its shutdown signal unless a gate is queued at every
  single look, and gates come finitely often.
* `GitFlow`: file-system calls return and git commands end (they have deadlines).

## What is proved

For every instance of the constants that meets the assumptions of the module:

* `BusRegistryProofs`: `TypeCorrect`, `NoGhost`, `NoDisplacement`, `Accounted`.
  Assumed: finitely many connections, each with an owner, a channel of at least
  one frame. An entry belongs to a connection whose task has not ended; this is
  inductive only together with the program counters, because `Leave` removes by
  id: it may remove too much, never too little. `Accounted` counts, per agent, the
  entries of the registry, the greetings and the owed broadcasts.
* `BusDeliveryProofs`: `TypeCorrect`, `FirstTry`, and `Implements`: every step of the
  concrete bus is a step of `Delivery` or a stutter. `IInv` says of each place an
  envelope or a receipt can be (frames in a channel, the wire to the bus, the routing
  step, a retry task, the dedup windows, what a client was told) that the envelope
  has been accepted, and of each receipt that somebody has the envelope; that is
  what a `Clear` or a `Confirm` of the abstraction needs. `SubmitsKept` says when an
  action leaves the part about the calls of `send` alone, and similar lemmas do so
  for the other parts. `NoForgottenDelivery`: a delivery in the pending map has a
  retry task that has not ended, although tasks of overlapping hand-offs share its
  entry and any of them may remove it.
* `LeadDispatchProofs`: `TypeCorrect`, `DependenciesFirst`, `ClocksFollow`,
  `RequestsFollow`, `WorkIsKept`, `FinalIsFinal`, `NothingStranded`. Assumed: a
  finite sprint with dependency lists over it and earlier tasks. The invariants
  rest on each other: a dependency of a task that has left `Pending` is accepted,
  hence no cascade started at an escalated or rejected task can reach a task being
  worked on, hence no work is discarded. A blocked task and its least set are
  handled through the closure property of `Doomed` and `TransitivelyBlocked`, with
  no induction on passes.
* `AcceptanceProofs`: of `ReviewLoop`, `TypeCorrect` and `ReworksUseRounds`, for any
  budgets and any number of approvals: each change request uses two rounds of its
  corr, approvals and blocked answers none, the Lead stays within its budget for each
  assignment, and a runner is stopped only by a corr past its rounds. It needs no
  relation between the budgets, since the code enforces none; with the shipped ones
  two reworks take four rounds of three, which is what `ReworkBudget.cfg` shows. The
  invariant follows who spoke last on a corr, whether the request that is out is the
  change or an assignment, and that two parties never close a multi-hop cycle. Of the
  composition, `ImplementsReviewLoop`, whence `AcceptanceReworksUseRounds`;
  `AcceptanceTypeCorrect`; `OwnRunJudged` for lists of checks of any length and any
  repetition in them; `NoGroupLeft`. The invariant behind `OwnRunJudged` is that the
  outcomes of an executor are of its own checks, in their order and without a gap
  (`Own`, `Ordered`, `Complete`), and that judge has used exactly those of the
  checks it is past (`UsedOK`). Only then is the first unused outcome with the text
  of a check the check's own; an executor that ran a check judge skips would shift
  all that follow.
* `HarnessProofs`: of the pool, `PoolTypeCorrect`, `NoSlotLeaks`, `NoLostWakeup`,
  `OneLoweringPerCooldown`. `active` stays in range because it counts the holders,
  so types and slots are one invariant; it also bounds the limit whatever recovery
  is owed. A worker parks only when a slot is taken and every release wakes all, so
  a parked worker always has a holder to wake it, whatever the limit does meanwhile.
  Of the worker, `RunnerTypeCorrect`, `OwnAnswer`, `ContextArrives`,
  `OutputAlwaysMoves`, for any number of turns and swaps and channels of any
  capacity. The invariant follows a line from the child to the answer: in each
  place it can be (the child, the pipe, the event channel, the drain, the outcome
  channel) everything but raw output is about the turn the session was last sent,
  a success is the last thing said of a turn, and a session whose turn failed is
  never asked again. That the newest context reaches the model needs, besides,
  what each session was told and knows, also while its prompt is being written.
  Bounds on what is sent (`SendOK`: two envelopes a turn) complete the types.
* `GitFlowProofs`: `TwoNeverBothHold` of the lock alone and, through `RunsUseTheLock`
  (`GitFlow` implements `RunLock`'s specification), `TwoRunsExclude` of whole runs,
  both under the premise `TwoAtMost`; `RunsChangeOnlyUnderLock`, `NoAbandonedLock`,
  `GitTypeCorrect` and `CompletedHasLanded` for any number of starters, sprints and roles. With two
  starters at most one can have found the old lock in time to rename a live one
  aside, and while it holds that file nobody else is left to take the free path:
  that is the invariant, and `run_lock_three` shows that the premise cannot be
  dropped. The others do not need it. A held lock always has somebody left
  who takes it out of its slot: a set-up, a finisher, or the waiter a stop has armed.
  The invariant of `CompletedHasLanded` says where a piece of
  accepted work is as long as nothing was counted against the run (`Safe`): on main,
  in a worktree whose role is still to be committed, on a branch before the merges,
  on a branch still to be merged; every way to lose it on the way counts something,
  and what is counted forbids `Completed`.
* `RunProofs`: of the controller, `TypeCorrect`, `ChannelsFollowCrew`, `RefusedOnlyAfterWait`,
  `Answered`. Assumed: a finite non-empty crew, at least one sprint. The strengthening
  relates the program counter to the tasks (whose sprint they are of, what is still
  to connect), the channels to the tasks and both to the bus's registrations: a task
  the finisher has finished with is gone or asked to go, an id still registered at a
  connect is one whose removal nobody waited for. Of the feed, `FeedTypeCorrect` and
  `BroadcastKeepsOrder`, `ScreenHasNoHole` and `ScreenIsComplete`, for any number of
  writers and of overlapping resyncs, any drops of the pump and any time of
  `RunStarted`. Taken together, buffer and wire are one stream the front end has yet to
  apply, and a replay, a flush, a live event or a drop only takes from its head; the
  messages on it are in order, and above everything an open gate has let through, so
  the screen stays in order whatever happens. While a resync is alone its buffer
  and the wire hold everything its snapshot will lack (`SnapshotFits`), hence after
  its replay everything the screen lacks (`ScreenFits`), but for what was dropped; a
  `RunStarted` on the stream comes before anything a snapshot can contain, or else
  ends `clean`.
* `PlanningProofs`: `TypeCorrect`, `TopologicalOrder`, `ValidateIsRight`,
  `CrewGetsItsPlan`, `SprintsKeepTheOrder`. Kahn's
  algorithm on lists of any length: a degree is the number of dependencies not yet
  placed, counted with multiplicity, so the order respects dependencies at each
  step; what it leaves over is a set each of whose members has a dependency in it,
  which no sorting of the list can have. The planner's list is a chain, whose queue
  never holds more than the next task, so the order is the list's; `slice` cuts an
  order into intervals, and a task's place in it gives its sprint, for every size that is
  not refused.

So every invariant, every action property and every refinement that a passing run
checks is also proved. Left to TLC is liveness (`DeadPeerReleased`,
`TrackedResolves`, `ReachedOrTold`, `Finishes`, `Verdicts`, `ParkedIsWoken`,
`RunnerReturns`, `CommandsReturn`, `BoundaryPasses`, `StoppedRunLetsGo`): each rests on
fairness, hence on ENABLED, which the prover does not treat. Of some the safety half is
a theorem, that whoever has to act is there: `NoForgottenDelivery` of
`TrackedResolves`, `NothingStranded` of `Finishes`, `NoLostWakeup` of `ParkedIsWoken`,
`NoAbandonedLock` of `StoppedRunLetsGo`. The runs also say what
the theorems cannot: that the states the theorems speak of are reached.

The proofs asked for three changes of form. judge and the flush of a resync were
folds over a sequence, about which only an induction over data could have said
anything; they are loops of steps now, as in the code. And the tasks a Lead returns
are a sequence of roles of bounded length (`TasksOf`).

## Where code and documentation disagree

With a run or a configuration:

1. **Acknowledged, yet failed** (`acked_but_failed`, routing.rs:238): the last
   redelivery has no time to be acknowledged. HANDOFF.md records the outcome as an
   unexplained flake.
2. **Three starters, two holders** (`run_lock_three`, gitflow.rs:1309): a starter that
   read a stale lock renames the live lock of a second one aside, and a third takes
   the free path before it is put back.
3. **Welcome is not always first** (`WelcomeFirst.cfg`, connection.rs:58): wire.rs says
   it is; the id is in the registry before Welcome is queued.
4. **unregister is not safe as a cleanup** (`StaleCleanup.cfg`, connection.rs:123):
   state.rs says both paths may call it; by id, the late one removes its successor.
5. **The default budgets do not fit** (`ReworkBudget.cfg`, accept.rs:72): accept.rs and
   config.rs say that the Lead's budget is exhausted first.
6. **A reported backoff can be skipped** (`PoolBackoff.cfg`, pool.rs:156): pool.rs says
   that the next acquire waits.
7. **Shutdown can leave workers** (`StopInSpawn.cfg`, controller.rs:1950): a finisher
   aborted while it spawns a sprint leaves its workers detached.
8. **Overlapping resyncs drop events** (`TwoResyncs.cfg`, tauri-source.ts:118): they
   share one buffer and one flag; the second empties the buffer of the first, and the
   first to finish opens the gate for both. A resync that is alone repairs it.
9. **A late RunStarted empties the screen** (`LateGenesis.cfg`, store.ts:88): one that a
   resync has buffered, or that comes after it, resets the channel the replay filled.
   So does the replay of a finished run with its end.
10. **What the pump drops is missing until the next resync** (`LaggingPump.cfg`,
    tauri-source.ts:231, core.rs:249): the listener looks at the last message it has
    seen, not at the gap before the next.
11. **A receipt behind a full inbox** (`WedgedInbox.cfg`, agent bus.rs:247): a send times
    out although the bus has answered.
12. **A send without bound** (`StuckSend.cfg`, agent bus.rs:148): the write of an attempt
    has no timeout, and agent and bus can each be in a write the other does not read.
13. **A prompt without bound** (`DeafChild.cfg`, claude.rs:268): the write to a CLI that
    does not read its stdin is outside the turn's timeout.
14. **A held stdout has no timeout** (`HeldStdout.cfg`, harness_behavior.rs:559): the
    drain waits for the end of an output that a descendant of the CLI keeps open.
15. **A swap without bound** (`FullControls.cfg`, controller.rs:1658): controls that timed
    out fill the channel of a busy worker, and the next swap waits for it under the
    app's `runs` lock before its own timeout starts.
16. **A browser check can hang the Lead** (`BrowserHang.cfg`, browser_exec.rs:338): it
    waits without bound for a child whose kill was refused, which cmd_exec.rs avoids.

`HungClient.cfg` contradicts no document, but the purpose of the ping: a client that
stops reading while its kernel goes on answering keeps its id for as long as a write to
it is blocked (connection.rs:92), because select! does not look at the ticker meanwhile.

Visible in the modules, without a configuration of their own:

17. A swap between the roster snapshot of a boundary and the new senders is told Ok
    and does not take effect in that sprint, or ever (controller.rs:1132).
18. A control being served when the boundary aborts its worker loses its ack
    (runner.rs:69); `UnservedIsAnswered` is what is left of the claim.
19. Events follow `RunFinished` (controller.rs:1378).
20. pi can deliver two outcomes for one turn (pi.rs:204).
21. `role_req_ids` asks for five requirements at most, while every spec says that all
    of them are covered (plan.rs:193).

And three in comments: dispatch.rs says that `Blocked` is reached only by cascade and
that a terminal task does not change state again, while `Reject` and `Approve` do
just that; pool.rs calls the pool FIFO-fair, while `notify_waiters` lets the waiters
race. One thing no document excludes is worth knowing: the injected context is
dropped after its first success (harness_behavior.rs:572) and the session that heard
it by the next failure, so that later turns of the sprint run without it.
`ContextReachesModel` therefore speaks of the first success only.

## Not modelled

* **Bus**: frames rejected as `bad_frame` or `from_mismatch` (no state change),
  authentication, the text of messages. The instance has envelopes with one recipient;
  partial acceptance by several is in the definitions but not in the run.
* **Worker**: who sees presence (writing it is modelled), the text of prompts, the parsing of
  answers, arguments and normalisation of each CLI's lines. `DesignerHarnessBehavior` is the same turn
  without pool, context and controls. A worker aborted before its first poll drops
  its control channel without `CtrlInbox`; the abort is modelled from the first poll
  on.
* **Lead**: the coverage and artifact rules of judge and the vetting of commands and
  URLs are functions of text and appear as choices. A refused kill of a command falls
  back on `child.kill()`, which waits as well; descendants of a command that ends by
  itself are left running by the code and by the model.
* **Run controller**: the checks that make `start` or a swap refuse before any state
  changes; a `start` that fails midway, which leaves workers it has spawned;
  `shutdown_and_wait`; the JSON file of the sprint summaries; adapters unknown to
  `RealCli`, which it skips. The app holds its `runs` lock across a swap:
  `CommandsReturn` says that it is released, unless its channel stays full, and not
  how soon (120 s for the ack alone). Swaps come one at a time, because of that lock.
* **Git flow**: `commit_steps` commits the whole worktree, which is the work of its
  role in the model; the check before a merge and the merge are one step; the files
  of a conflict. A lock file renamed aside by a starter that died stays as an orphan.
* **Feed**: presence, `closeChannel`, a `run_snapshot` that fails, rendering. A drop is a
  step per event, at the head of the wire; that it takes 256 events to lag is not
  modelled.
* **Ledger**: full-text search and `subscribe.rs`, which only tests call.
* **Planning**: texts, and the planner that asks a model and ends in the same
  `plan_dag_with`.
* **Scripted behaviours** are test doubles of a worker; **wire types** are data;
  **sprint summaries** are text under a budget of characters; the rest of the
  **desktop shell and front end** is input, output and presentation.

## Plan

What would come next, in this order:

1. `RunController` with two workers, and composed with `BusRegistry` in place of
   `conn` and `events`.
2. `shutdown_and_wait` and a `start` that fails midway, with the git phases.
3. Envelopes to several recipients in the instance of `BusDelivery`.
4. A run of `Planning` handed to `LeadDispatch`, for the prior states that one sprint
   leaves to the next.
