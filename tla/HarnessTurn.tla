------------------------------ MODULE HarnessTurn ------------------------------
(***************************************************************************)
(* One turn of a role worker (crew-agent harness_behavior.rs) on a live CLI    *)
(* session (crew-harness claude.rs and pi.rs): the behaviour writes a prompt,  *)
(* a reader task turns the child's lines into events (a bounded channel) and    *)
(* outcomes (another one), a drain task empties the first while `send` waits    *)
(* on the second, and a failed turn costs the session.                        *)
(*                                                                          *)
(* A line, an event and an outcome carry the turn whose prompt they answer.    *)
(* What an answer says is abstracted to the turns it was made from.           *)
(***************************************************************************)
EXTENDS Integers, Sequences

CONSTANTS
    Capacity,       \* EVENTS_CHANNEL_CAPACITY
    MaxTurns,       \* bound: requests
    MaxLines,       \* bound: lines a child writes besides its results
    MaxSwaps,       \* bound: harness swaps
    MaxFaults       \* bound: a child that dies or hangs, a spawn that fails

ASSUME CapacityAssumption == Capacity \in Nat \ {0}
ASSUME TurnBounds == MaxTurns \in Nat \ {0} /\ {MaxLines, MaxSwaps, MaxFaults} \subseteq Nat

VARIABLES
    \* RoleHarnessBehavior
    phase,          \* where on_envelope is; "idle" and "reply" are the runner's
    turn,           \* number of the request in hand
    injected,       \* injected_context: its version, or 0
    outcome,        \* what `send` returned
    answer,         \* the last answer: its kind and what it was made from
    \* Session
    session,        \* whether there is one, and the newest context it was told
    child,          \* the CLI process
    held,           \* a descendant has its stdout
    stdout,         \* lines not read
    reader,         \* read_events: at a read, with an event, with an outcome, or ended
    events, outcomes,
    drain,          \* drain_until_terminal
    text,           \* the turns whose text it has gathered
    \* histories and bounds
    version,        \* contexts injected so far
    won,            \* the newest one has been part of a successful turn
    lines, faults

turnVars == <<phase, turn, injected, outcome, answer>>
childVars == <<child, held, stdout>>
readVars == <<reader, events, outcomes>>
drainVars == <<drain, text>>
vars0 == <<turnVars, session, childVars, readVars, drainVars, version, won, lines, faults>>

TurnNos == 1..MaxTurns
Lines == [turn : TurnNos, kind : {"text", "raw", "ok", "failed"}]
Results == {"ok", "failed"}
NoLine == [turn |-> 1, kind |-> "raw"]

TurnTypeOK ==
    /\ phase \in {"idle", "permit", "start", "write", "await", "join", "discard", "reply", "dead"}
    /\ turn \in 0..MaxTurns /\ version \in 1..(MaxSwaps + 1) /\ injected \in {0, version}
    /\ outcome \in [turn : 0..MaxTurns, kind : Results \cup {"none", "timeout", "error"}]
    /\ answer \in [kind : {"none", "result", "blocked"}, from : SUBSET TurnNos, informed : BOOLEAN]
    /\ session \in [live : BOOLEAN, knows : 0..(MaxSwaps + 1)]
    /\ child \in [at : {"none", "ready", "working", "hung", "dead"}, turn : 0..MaxTurns]
    /\ held \in BOOLEAN /\ stdout \in Seq(Lines)
    /\ reader \in [at : {"read", "event", "outcome", "ended"}, line : Lines]
    /\ events \in Seq(Lines) /\ Len(events) <= Capacity
    /\ outcomes \in Seq(Lines)
    /\ drain \in {"off", "on", "done"} /\ text \subseteq TurnNos
    /\ won \in BOOLEAN /\ lines \in 0..MaxLines /\ faults \in 0..MaxFaults

NoSession == [live |-> FALSE, knows |-> 0]
Outcome(n, kind) == [turn |-> n, kind |-> kind]

\* with_injected_context, as spawn_sprint gives it to a worker.
TurnInit ==
    /\ phase = "idle" /\ turn = 0 /\ injected = 1 /\ version = 1
    /\ outcome = Outcome(0, "none")
    /\ answer = [kind |-> "none", from |-> {}, informed |-> TRUE]
    /\ session = NoSession /\ child = [at |-> "none", turn |-> 0] /\ held = FALSE
    /\ stdout = <<>> /\ reader = [at |-> "ended", line |-> NoLine]
    /\ events = <<>> /\ outcomes = <<>> /\ drain = "off" /\ text = {}
    /\ won = FALSE /\ lines = 0 /\ faults = 0

-------------------------------------------------------------------------------
(* The behaviour.  A step is one poll. *)

Reply(kind, from, informed) ==
    /\ answer' = [kind |-> kind, from |-> from, informed |-> informed]
    /\ phase' = "reply"

\* on_envelope up to the slot; a body that does not parse is blocked at once.
TakeRequest ==
    /\ turn < MaxTurns
    /\ turn' = turn + 1
    /\ \/ phase' = "permit" /\ UNCHANGED answer
       \/ Reply("blocked", {}, TRUE)
    /\ UNCHANGED <<injected, outcome, session, childVars, readVars, drainVars, version, won,
                   lines, faults>>

\* HarnessPool::acquire (module HarnessPool).
Acquired ==
    /\ phase = "permit"
    /\ phase' = "start"
    /\ UNCHANGED <<turn, injected, outcome, answer, session, childVars, readVars, drainVars,
                   version, won, lines, faults>>

\* The prompt carries the context if there is one, and does not consume it.
Told(knows) == IF injected # 0 THEN injected ELSE knows
TakeContext == 0        \* (mutant) the prompt takes the context with it
KeepContext == injected

\* The write is over: the child is gone (HarnessError::Write), or has the prompt in
\* its pipe.
Prompt(c, knows) ==
    IF c.at = "dead"
      THEN /\ outcome' = Outcome(turn, "error")
           /\ phase' = "join"
           /\ UNCHANGED injected
           /\ child' = c /\ session' = [live |-> TRUE, knows |-> knows]
      ELSE /\ child' = [at |-> IF c.at = "hung" THEN "hung" ELSE "working", turn |-> turn]
           /\ session' = [live |-> TRUE, knows |-> Told(knows)]
           /\ injected' = KeepContext
           /\ phase' = "await"
           /\ UNCHANGED outcome

\* The prompt is more than the pipe takes: the write waits, under no timeout, for
\* the child to read.
Pending(c, knows) ==
    /\ c.at # "dead"
    /\ phase' = "write"
    /\ child' = c /\ session' = [live |-> TRUE, knows |-> knows]
    /\ UNCHANGED <<injected, outcome>>

DrainLater == "off"     \* (mutant) the drain starts when `send` has returned
DrainOn == "on"

Spawned == [at |-> "ready", turn |-> 0]

\* ensure_session, the drain, and the write of the prompt.
Start ==
    /\ phase = "start"
    /\ drain' = DrainOn /\ text' = {}
    /\ IF session.live
         THEN /\ Prompt(child, session.knows) \/ Pending(child, session.knows)
              /\ UNCHANGED <<held, stdout, readVars>>
         ELSE /\ Prompt(Spawned, 0) \/ Pending(Spawned, 0)
              /\ held' = FALSE /\ stdout' = <<>>
              /\ reader' = [reader EXCEPT !.at = "read"] /\ events' = <<>> /\ outcomes' = <<>>
    /\ UNCHANGED <<turn, answer, version, won, lines, faults>>

WriteEnds ==
    /\ phase = "write"
    /\ Prompt(child, session.knows)
    /\ UNCHANGED <<turn, answer, held, stdout, readVars, drainVars, version, won, lines, faults>>

\* The child has died, so its end of the pipe is closed.
WriteFails == child.at = "dead" /\ WriteEnds

SpawnFails ==
    /\ phase = "start" /\ ~ session.live
    /\ faults < MaxFaults /\ faults' = faults + 1
    /\ Reply("blocked", {}, TRUE)
    /\ UNCHANGED <<turn, injected, outcome, session, childVars, readVars, drainVars, version,
                   won, lines>>

SendEnds(o) ==
    /\ phase = "await"
    /\ outcome' = o
    /\ phase' = "join"
    /\ drain' = IF drain = "off" THEN "on" ELSE drain
    /\ UNCHANGED <<turn, injected, answer, session, held, stdout, text, version, won, lines, faults>>

SendReturns ==
    /\ outcomes # <<>>
    /\ SendEnds(Outcome(Head(outcomes).turn, Head(outcomes).kind))
    /\ outcomes' = Tail(outcomes)
    /\ UNCHANGED <<child, reader, events>>

ProcessExited ==
    /\ outcomes = <<>> /\ reader.at = "ended"
    /\ SendEnds(Outcome(turn, "error"))
    /\ UNCHANGED <<child, readVars>>

Timeout ==
    /\ SendEnds(Outcome(turn, "timeout"))
    /\ child' = [child EXCEPT !.at = "dead"]
    /\ UNCHANGED readVars

\* (mutant) a failed turn is answered and its session kept
JoinedKeepingSession ==
    /\ phase = "join" /\ drain = "done"
    /\ IF outcome.kind = "ok"
         THEN /\ injected' = 0
              /\ won' = (won \/ session.knows = version)
              /\ Reply("result", text \cup {outcome.turn}, won')
         ELSE Reply("blocked", {}, TRUE) /\ UNCHANGED <<injected, won>>
    /\ UNCHANGED <<turn, outcome, session, childVars, readVars, drainVars, version, lines, faults>>

\* The drain has come back.  A success uses the context up; the text may hold no
\* JSON.
Joined ==
    /\ phase = "join" /\ drain = "done"
    /\ IF outcome.kind = "ok"
         THEN /\ injected' = 0
              /\ won' = (won \/ session.knows = version)
              /\ \/ Reply("result", text \cup {outcome.turn}, won')
                 \/ Reply("blocked", {}, TRUE)
         ELSE phase' = "discard" /\ UNCHANGED <<answer, injected, won>>
    /\ UNCHANGED <<turn, outcome, session, childVars, readVars, drainVars, version, lines, faults>>

\* Harness::shutdown: reader aborted, child killed and waited for.
EndSession ==
    /\ session' = NoSession
    /\ child' = [at |-> "none", turn |-> 0] /\ held' = FALSE /\ stdout' = <<>>
    /\ reader' = [at |-> "ended", line |-> NoLine] /\ events' = <<>> /\ outcomes' = <<>>

DiscardSession ==
    /\ phase = "discard"
    /\ EndSession
    /\ Reply("blocked", {}, TRUE)
    /\ UNCHANGED <<turn, injected, outcome, drainVars, version, won, lines, faults>>

\* on_control between two envelopes: the old session goes, the context with the
\* handoff pack replaces the one there was.
Swap ==
    /\ phase = "idle"
    /\ version <= MaxSwaps
    /\ EndSession
    /\ version' = version + 1 /\ injected' = version + 1
    /\ won' = FALSE
    /\ UNCHANGED <<phase, turn, outcome, answer, drainVars, lines, faults>>

-------------------------------------------------------------------------------
(* The reader task and the drain. *)

ReadLine ==
    /\ reader.at = "read" /\ stdout # <<>>
    /\ reader' = [at |-> "event", line |-> Head(stdout)]
    /\ stdout' = Tail(stdout)
    /\ UNCHANGED <<turnVars, session, child, held, events, outcomes, drainVars, version, won,
                   lines, faults>>

ReadEof ==
    /\ reader.at = "read" /\ stdout = <<>>
    /\ child.at = "dead" /\ ~ held
    /\ reader' = [reader EXCEPT !.at = "ended"]
    /\ UNCHANGED <<turnVars, session, childVars, events, outcomes, drainVars, version, won,
                   lines, faults>>

\* The event first; a result is judged and delivered after it.
PushEvent ==
    /\ reader.at = "event" /\ Len(events) < Capacity
    /\ events' = Append(events, reader.line)
    /\ reader' = [reader EXCEPT !.at = IF reader.line.kind \in Results THEN "outcome" ELSE "read"]
    /\ UNCHANGED <<turnVars, session, childVars, outcomes, drainVars, version, won, lines, faults>>

PushOutcome ==
    /\ reader.at = "outcome"
    /\ outcomes' = Append(outcomes, reader.line)
    /\ reader' = [reader EXCEPT !.at = "read"]
    /\ UNCHANGED <<turnVars, session, childVars, events, drainVars, version, won, lines, faults>>

DrainEvent ==
    /\ drain = "on" /\ events # <<>>
    /\ events' = Tail(events)
    /\ text' = IF Head(events).kind = "text" THEN text \cup {Head(events).turn} ELSE text
    /\ drain' = IF Head(events).kind \in Results THEN "done" ELSE "on"
    /\ UNCHANGED <<turnVars, session, childVars, reader, outcomes, version, won, lines, faults>>

DrainEof ==
    /\ drain = "on" /\ events = <<>> /\ reader.at = "ended"
    /\ drain' = "done"
    /\ UNCHANGED <<turnVars, session, childVars, readVars, text, version, won, lines, faults>>

-------------------------------------------------------------------------------
(* The CLI process. *)

\* It reads its stdin to the end of the prompt.
ChildReads == child.at \in {"ready", "working"} /\ WriteEnds

Writes(kind) == stdout' = Append(stdout, [turn |-> child.turn, kind |-> kind])
ChildOnly == UNCHANGED <<turnVars, session, readVars, drainVars, version, won>>

\* Lines that are no result; also after one (its text is always before it).
ChildWrites ==
    /\ lines < MaxLines /\ lines' = lines + 1
    /\ \/ child.at = "working" /\ (Writes("text") \/ Writes("raw"))
       \/ child.at = "ready" /\ child.turn > 0 /\ Writes("raw")
    /\ ChildOnly /\ UNCHANGED <<child, held, faults>>

\* pi goes on after a failure it means to retry, and reports again.
ChildAnswers ==
    /\ child.at = "working"
    /\ \/ Writes("ok") /\ child' = [child EXCEPT !.at = "ready"]
       \/ /\ Writes("failed")
          /\ \/ child' = [child EXCEPT !.at = "ready"]
             \/ lines < MaxLines /\ UNCHANGED child
    /\ lines' = IF child' = child THEN lines + 1 ELSE lines
    /\ ChildOnly /\ UNCHANGED <<held, faults>>

ChildFails ==
    /\ child.at \in {"ready", "working"}
    /\ faults < MaxFaults /\ faults' = faults + 1
    /\ \E at \in {"hung", "dead"} : child' = [child EXCEPT !.at = at]
    /\ ChildOnly /\ UNCHANGED <<held, stdout, lines>>

\* A process the child has started keeps its stdout open.
ChildLeavesStdout ==
    /\ child.at = "working" /\ ~ held
    /\ held' = TRUE
    /\ ChildOnly /\ UNCHANGED <<child, stdout, lines, faults>>

Machinery ==
    \/ ReadLine \/ ReadEof \/ PushEvent \/ PushOutcome \/ DrainEvent \/ DrainEof
    \/ ChildReads \/ ChildWrites \/ ChildAnswers \/ ChildFails \/ ChildLeavesStdout
Behaviour ==
    \/ Acquired \/ Start \/ WriteFails \/ SpawnFails \/ SendReturns \/ ProcessExited \/ Timeout
    \/ Joined \/ DiscardSession

-------------------------------------------------------------------------------
(* Properties. *)

\* A result is made from what the session said on this very request: nothing a
\* failed, timed out or swapped turn left in a pipe or a channel gets into it
\* (harness_behavior.rs discard_session, the two channels of a session).
AnswerIsOwn == answer.kind = "result" /\ phase = "reply" => answer.from \subseteq {turn}

\* No result before the newest context (sprint summary, handoff pack) has been
\* part of a successful turn: a failed attempt or a swap does not lose it
\* (harness_behavior.rs:355-358).
ContextReachesModel == answer.informed

\* While `send` has no outcome to return, a full event channel is being emptied, so
\* the result line behind it can be read (drain_until_terminal's comment).
OutputMoves ==
    phase = "await" /\ outcomes = <<>> /\ reader.at = "event" /\ Len(events) = Capacity
      => drain = "on"

===============================================================================
