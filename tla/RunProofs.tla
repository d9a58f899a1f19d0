------------------------------- MODULE RunProofs -------------------------------
(***************************************************************************)
(* What holds of the run controller for any crew, any number of sprints and  *)
(* any number of swaps and faults: the registry of control channels follows   *)
(* the live crew, a sprint is refused its connections only after a wait that  *)
(* gave up, and an unserved swap is answered.  And what holds of the way from *)
(* the ledger to the screen: messages travel in order and are shown in order,  *)
(* and what is missing on the screen was dropped by the pump, once a resync    *)
(* has had no other beside it.                                               *)
(***************************************************************************)
EXTENDS RunController, RunFeed, TLAPS

-------------------------------------------------------------------------------
\* The type invariant, by groups of variables; a command under way names its swap.

Places == {"spawn", "arm", "lead", "drain", "wait", "close", "end", "human",
           "endDrain", "endWait", "over", "aborted"}
FinType ==
    /\ at \in Places /\ asked \in BOOLEAN /\ sprint \in SprintNos /\ todo \subseteq Crew
    /\ heard \subseteq Crew
RosterType == plan \in [Workers -> Harnesses] /\ roster \in [Workers -> Harnesses]
Task == [state : {"none", "idle", "serving", "gone"}, sprint : 0..Sprints,
         asked : BOOLEAN, harness : Harnesses \cup {NoHarness}, swap : 0..MaxSwaps]
TaskType == task \in [Workers -> Task] /\ ended \in [Workers -> SUBSET SprintNos]
LiveType ==
    /\ lead \in {"off", "up", "ok", "failed"} /\ human \in {"up", "publishing", "down"}
    /\ live \in 0..Sprints /\ controls \in [Workers -> 0..Sprints]
    /\ reapers \subseteq Workers \X SprintNos
BusType == conn \in [Crew -> {"none", "open", "stale"}] /\ events \in Seq(Crew)
Cmd == [kind : {"idle", "lookup", "send", "ack", "gate"}, n : 0..MaxSwaps,
        w : Workers \cup {NoAgent}, h : Harnesses \cup {NoHarness}, chan : 0..Sprints]
CmdType ==
    /\ cmd \in Cmd
    /\ (cmd.kind \in {"lookup", "send", "ack"} => cmd.n \in Swaps /\ cmd.w \in Workers
                                                /\ cmd.h \in Harnesses)
    /\ (cmd.kind \in {"send", "ack"} => cmd.chan \in SprintNos)
MailType ==
    /\ mail \subseteq Mail
    /\ replies \in [Swaps -> {"unused", "open", "told", "dropped"}]
HistType ==
    stopped \in BOOLEAN /\ gaveUp \in BOOLEAN /\ refused \in BOOLEAN /\ faults \in 0..MaxFaults
Typed ==
    /\ FinType /\ RosterType /\ TaskType /\ LiveType /\ BusType /\ CmdType /\ MailType /\ HistType

-------------------------------------------------------------------------------
\* The inductive invariant.

\* A sprint's task of a worker ends once, and the tasks of a worker follow the sprints.
TasksFollow ==
    \A w \in Workers :
        /\ task[w].sprint <= sprint
        /\ \A s \in ended[w] : s <= task[w].sprint
        /\ Running(w) => task[w].sprint \in SprintNos \ ended[w]

Spawning ==
    at = "spawn" =>
        \A w \in Workers : IF w \in todo THEN task[w].sprint < sprint ELSE task[w].sprint = sprint

Crewed ==
    at \in {"arm", "lead"} =>
        \A w \in Workers :
            /\ task[w].sprint = sprint
            /\ Running(w) /\ ~ task[w].asked => controls[w] = sprint

Registered ==
    \A w \in Workers : controls[w] # 0 => at \in {"arm", "lead", "aborted"} /\ controls[w] = sprint

Alive ==
    /\ lead = "up" => conn[Lead] = "open"
    /\ \A w \in Workers : Running(w) => conn[w] = "open"

Pending(a) == \E i \in DOMAIN events : events[i] = a

\* As long as no wait gave up, an Unregistered event under way or heard is of the
\* latest connection of its id, and there is one of them.
Told ==
    ~ gaveUp =>
        /\ \A a \in Crew : Pending(a) => conn[a] = "none" /\ a \notin heard
        /\ \A i, j \in DOMAIN events : events[i] = events[j] => i = j
        /\ \A a \in heard : conn[a] = "none"
        /\ at = "spawn" => heard = {} /\ \A a \in todo : conn[a] = "none" /\ ~ Pending(a)
        /\ at = "close" /\ sprint < Sprints => Crew \subseteq heard

IInv ==
    /\ Typed /\ TasksFollow /\ Spawning /\ Crewed /\ Registered /\ Alive /\ Told
    /\ RefusedOnlyAfterGivingUp

-------------------------------------------------------------------------------
(* The steps. *)

\* What a step writes into a worker's task keeps its type.
LEMMA Marked ==
  ASSUME NEW r \in Task, NEW n \in 0..MaxSwaps
  PROVE  /\ [r EXCEPT !.state = "idle", !.swap = n] \in Task
         /\ [r EXCEPT !.state = "gone", !.swap = n] \in Task
         /\ \A h \in Harnesses : [r EXCEPT !.state = "serving", !.harness = h, !.swap = n] \in Task
  BY DEF Task


LEMMA StepConnect ==
  ASSUME IInv, NEW a \in Crew, Connect(a)
  PROVE  IInv'
  <1> USE AgentsAssumption, SprintsAssumption, BoundsAssumption, HarnessAssumption
      DEF IInv, Typed, vars, finVars, liveVars, busVars, appVars, histVars,
          Connect, Admit, InstallLive, Go, Turn
  <1> DEFINE t == [state |-> "idle", sprint |-> sprint, asked |-> FALSE,
                  harness |-> plan[a], swap |-> 0]
  <1>0. a # Lead => a \in Workers /\ task' = [task EXCEPT ![a] = t] /\ t \in Task
    BY DEF Crew, Task, RosterType, FinType, SprintNos
  <1>1. (FinType /\ RosterType)'
    BY DEF FinType, RosterType, Places, SprintNos, Crew
  <1>2. (LiveType /\ HistType)'
    BY DEF LiveType, HistType, FinType, SprintNos
  <1>3. TaskType'
    <2> HIDE DEF t
    <2> QED
      BY <1>0 DEF TaskType
  <1>4. BusType'
    BY DEF BusType, Crew
  <1>5. CmdType'
    BY DEF CmdType, Cmd, LiveType, TaskType, Task, Swaps, SprintNos
  <1>6. MailType'
    BY DEF MailType, Mail, CmdType, Cmd, TaskType, Task, Swaps, SprintNos
  <1>7. (TasksFollow /\ Spawning)'
    <2>1. a # Lead => /\ task'[a].sprint = sprint
                      /\ \A w \in Workers \ {a} : task'[w] = task[w]
      BY <1>0 DEF TaskType
    <2> HIDE DEF t
    <2> QED
      BY <1>0, <2>1 DEF TasksFollow, Spawning, Running, FinType, TaskType, SprintNos, Task
  <1>8. (Crewed /\ Registered /\ Alive)'
    <2>1. a # Lead => /\ at' \in {"spawn", "aborted"} /\ UNCHANGED <<controls, lead>>
                      /\ \A w \in Workers \ {a} : task'[w] = task[w]
      BY <1>0 DEF TaskType
    <2>2. a = Lead => /\ task' = task /\ at' \in {"arm", "lead", "aborted"}
                      /\ controls' = [w \in Workers |-> sprint] /\ todo = {Lead} /\ lead' = "up"
      OBVIOUS
    <2>3. a = Lead => \A w \in Workers : task[w].sprint = sprint
      BY <2>2 DEF Spawning
    <2> HIDE DEF t
    <2>4. Crewed' /\ Registered'
      BY <2>1, <2>2, <2>3 DEF Crewed, Registered, Running
    <2>5. Alive'
      BY <2>1, <2>2 DEF Alive, Running, BusType, Crew
    <2> QED
      BY <2>4, <2>5
  <1>9. (Told /\ RefusedOnlyAfterGivingUp)'
    BY DEF Told, Pending, RefusedOnlyAfterGivingUp, FinType, BusType, SprintNos, Crew
  <1> QED
    BY <1>1, <1>2, <1>3, <1>4, <1>5, <1>6, <1>7, <1>8, <1>9

LEMMA StepDuplicate ==
  ASSUME IInv, NEW a \in Crew, Duplicate(a)
  PROVE  IInv'
  <1> USE AgentsAssumption, SprintsAssumption, BoundsAssumption, HarnessAssumption
      DEF IInv, Typed, vars, finVars, liveVars, busVars, appVars, histVars,
          Duplicate, SpawnFails, Go, Turn
  <1>1. (FinType /\ RosterType)'
    BY DEF FinType, RosterType, Places, SprintNos, Crew
  <1>2. (LiveType /\ HistType)'
    BY DEF LiveType, HistType, FinType, SprintNos
  <1>3. TaskType'
    BY DEF TaskType, Task, MailType, Mail, RosterType, FinType, Swaps, SprintNos, NoTask
  <1>4. BusType'
    BY DEF BusType, Crew
  <1>5. CmdType'
    BY DEF CmdType, Cmd, LiveType, TaskType, Task, Swaps, SprintNos
  <1>6. MailType'
    BY DEF MailType, Mail, CmdType, Cmd, TaskType, Task, Swaps, SprintNos
  <1>7. (TasksFollow /\ Spawning)'
    BY DEF TasksFollow, Spawning, Running, FinType, TaskType, SprintNos, Task
  <1>8. (Crewed /\ Registered /\ Alive)'
    BY DEF Crewed, Registered, Alive, Running, LiveType, FinType, BusType, TaskType, Task,
       SprintNos, Crew
  <1>9. (Told /\ RefusedOnlyAfterGivingUp)'
    BY DEF Told, Pending, RefusedOnlyAfterGivingUp, FinType, BusType, SprintNos, Crew
  <1> QED
    BY <1>1, <1>2, <1>3, <1>4, <1>5, <1>6, <1>7, <1>8, <1>9

LEMMA StepConnectFails ==
  ASSUME IInv, ConnectFails
  PROVE  IInv'
  <1> USE AgentsAssumption, SprintsAssumption, BoundsAssumption, HarnessAssumption
      DEF IInv, Typed, vars, finVars, liveVars, busVars, appVars, histVars,
          ConnectFails, Fault, SpawnFails, Go
  <1>1. (FinType /\ RosterType)'
    BY DEF FinType, RosterType, Places, SprintNos, Crew
  <1>2. (LiveType /\ HistType)'
    BY DEF LiveType, HistType, FinType, SprintNos
  <1>3. TaskType'
    BY DEF TaskType, Task, MailType, Mail, RosterType, FinType, Swaps, SprintNos, NoTask
  <1>4. BusType'
    BY DEF BusType, Crew
  <1>5. CmdType'
    BY DEF CmdType, Cmd, LiveType, TaskType, Task, Swaps, SprintNos
  <1>6. MailType'
    BY DEF MailType, Mail, CmdType, Cmd, TaskType, Task, Swaps, SprintNos
  <1>7. (TasksFollow /\ Spawning)'
    BY DEF TasksFollow, Spawning, Running, FinType, TaskType, SprintNos, Task
  <1>8. (Crewed /\ Registered /\ Alive)'
    BY DEF Crewed, Registered, Alive, Running, LiveType, FinType, BusType, TaskType, Task,
       SprintNos, Crew
  <1>9. (Told /\ RefusedOnlyAfterGivingUp)'
    BY DEF Told, Pending, RefusedOnlyAfterGivingUp, FinType, BusType, SprintNos, Crew
  <1> QED
    BY <1>1, <1>2, <1>3, <1>4, <1>5, <1>6, <1>7, <1>8, <1>9

LEMMA StepSubscribe ==
  ASSUME IInv, Subscribe
  PROVE  IInv'
  <1> USE AgentsAssumption, SprintsAssumption, BoundsAssumption, HarnessAssumption
      DEF IInv, Typed, vars, finVars, liveVars, busVars, appVars, histVars,
          Subscribe, Go
  <1>1. (FinType /\ RosterType)'
    BY DEF FinType, RosterType, Places, SprintNos, Crew
  <1>2. (LiveType /\ HistType)'
    BY DEF LiveType, HistType, FinType, SprintNos
  <1>3. TaskType'
    BY DEF TaskType, Task, MailType, Mail, RosterType, FinType, Swaps, SprintNos, NoTask
  <1>4. BusType'
    BY DEF BusType, Crew
  <1>5. CmdType'
    BY DEF CmdType, Cmd, LiveType, TaskType, Task, Swaps, SprintNos
  <1>6. MailType'
    BY DEF MailType, Mail, CmdType, Cmd, TaskType, Task, Swaps, SprintNos
  <1>7. (TasksFollow /\ Spawning)'
    BY DEF TasksFollow, Spawning, Running, FinType, TaskType, SprintNos, Task
  <1>8. (Crewed /\ Registered /\ Alive)'
    BY DEF Crewed, Registered, Alive, Running, LiveType, FinType, BusType, TaskType, Task,
       SprintNos, Crew
  <1>9. (Told /\ RefusedOnlyAfterGivingUp)'
    BY DEF Told, Pending, RefusedOnlyAfterGivingUp, FinType, BusType, SprintNos, Crew
  <1> QED
    BY <1>1, <1>2, <1>3, <1>4, <1>5, <1>6, <1>7, <1>8, <1>9

LEMMA StepLeadJoined ==
  ASSUME IInv, LeadJoined
  PROVE  IInv'
  <1> USE AgentsAssumption, SprintsAssumption, BoundsAssumption, HarnessAssumption
      DEF IInv, Typed, vars, finVars, liveVars, busVars, appVars, histVars,
          LeadJoined, AbortWorkers, Running, Go
  <1>1. (FinType /\ RosterType)'
    BY DEF FinType, RosterType, Places, SprintNos, Crew
  <1>2. (LiveType /\ HistType)'
    BY DEF LiveType, HistType, FinType, SprintNos
  <1>3. TaskType'
    BY ZenonT(30) DEF TaskType, Task, MailType, Mail, RosterType, FinType, Swaps, SprintNos, NoTask
  <1>4. BusType'
    BY DEF BusType, Crew
  <1>5. CmdType'
    BY DEF CmdType, Cmd, LiveType, TaskType, Task, Swaps, SprintNos
  <1>6. MailType'
    BY DEF MailType, Mail, CmdType, Cmd, TaskType, Task, Swaps, SprintNos
  <1>7. (TasksFollow /\ Spawning)'
    BY DEF TasksFollow, Spawning, Running, FinType, TaskType, SprintNos, Task
  <1>8. (Crewed /\ Registered /\ Alive)'
    BY DEF Crewed, Registered, Alive, Running, LiveType, FinType, BusType, TaskType, Task,
       SprintNos, Crew
  <1>9. (Told /\ RefusedOnlyAfterGivingUp)'
    BY DEF Told, Pending, RefusedOnlyAfterGivingUp, FinType, BusType, SprintNos, Crew
  <1> QED
    BY <1>1, <1>2, <1>3, <1>4, <1>5, <1>6, <1>7, <1>8, <1>9

LEMMA StepDrain ==
  ASSUME IInv, Drain
  PROVE  IInv'
  <1>0. BusType'
    <2>1. BusType
      BY DEF IInv, Typed
    <2>2. conn' = conn /\ (events' = <<>> \/ (events # <<>> /\ events' = Tail(events)))
      BY DEF Drain
    <2>3. events \in Seq(Crew)
      BY <2>1 DEF BusType
    <2>4. events # <<>> => Tail(events) \in Seq(Crew)
      BY <2>3
    <2>5. <<>> \in Seq(Crew)
      OBVIOUS
    <2>6. events' \in Seq(Crew)
      BY <2>2, <2>4, <2>5
    <2> QED
      BY <2>1, <2>2, <2>6 DEF BusType
  <1> USE AgentsAssumption, SprintsAssumption, BoundsAssumption, HarnessAssumption
      DEF IInv, Typed, vars, finVars, liveVars, busVars, appVars, histVars,
          Drain, Fault, Go
  <1>1. (FinType /\ RosterType)'
    <2>1. {events[i] : i \in DOMAIN events} \subseteq Crew
      BY DEF BusType
    <2>2. heard' \subseteq heard \cup {events[i] : i \in DOMAIN events}
      OBVIOUS
    <2>3. heard' \subseteq Crew
      BY <2>1, <2>2 DEF FinType
    <2> QED
      BY <2>3 DEF FinType, RosterType, Places
  <1>2. (LiveType /\ HistType)'
    BY DEF LiveType, HistType, FinType, SprintNos
  <1>3. TaskType'
    BY DEF TaskType, Task, MailType, Mail, RosterType, FinType, Swaps, SprintNos, NoTask
  <1>5. CmdType'
    BY DEF CmdType, Cmd, LiveType, TaskType, Task, Swaps, SprintNos
  <1>6. MailType'
    BY DEF MailType, Mail, CmdType, Cmd, TaskType, Task, Swaps, SprintNos
  <1>7. (TasksFollow /\ Spawning)'
    BY DEF TasksFollow, Spawning, Running, FinType, TaskType, SprintNos, Task
  <1>8. (Crewed /\ Registered /\ Alive)'
    BY DEF Crewed, Registered, Alive, Running, LiveType, FinType, BusType, TaskType, Task,
       SprintNos, Crew
  <1>9. (Told /\ RefusedOnlyAfterGivingUp)'
    BY SMTT(60) DEF Told, Pending, RefusedOnlyAfterGivingUp, FinType, BusType, SprintNos, Crew
  <1> QED
    BY <1>0, <1>1, <1>2, <1>3, <1>5, <1>6, <1>7, <1>8, <1>9

LEMMA StepWaitForCrew ==
  ASSUME IInv, WaitForCrew
  PROVE  IInv'
  <1> USE AgentsAssumption, SprintsAssumption, BoundsAssumption, HarnessAssumption
      DEF IInv, Typed, vars, finVars, liveVars, busVars, appVars, histVars,
          WaitForCrew, Heard, Go
  <1>1. (FinType /\ RosterType)'
    BY DEF FinType, RosterType, Places, SprintNos, Crew
  <1>2. (LiveType /\ HistType)'
    BY DEF LiveType, HistType, FinType, SprintNos
  <1>3. TaskType'
    BY DEF TaskType, Task, MailType, Mail, RosterType, FinType, Swaps, SprintNos, NoTask
  <1>4. BusType'
    BY DEF BusType, Crew
  <1>5. CmdType'
    BY DEF CmdType, Cmd, LiveType, TaskType, Task, Swaps, SprintNos
  <1>6. MailType'
    BY DEF MailType, Mail, CmdType, Cmd, TaskType, Task, Swaps, SprintNos
  <1>7. (TasksFollow /\ Spawning)'
    BY DEF TasksFollow, Spawning, Running, FinType, TaskType, SprintNos, Task
  <1>8. (Crewed /\ Registered /\ Alive)'
    BY DEF Crewed, Registered, Alive, Running, LiveType, FinType, BusType, TaskType, Task,
       SprintNos, Crew
  <1>9. (Told /\ RefusedOnlyAfterGivingUp)'
    BY DEF Told, Pending, RefusedOnlyAfterGivingUp, FinType, BusType, SprintNos, Crew
  <1> QED
    BY <1>1, <1>2, <1>3, <1>4, <1>5, <1>6, <1>7, <1>8, <1>9

LEMMA StepCloseSprint ==
  ASSUME IInv, CloseSprint
  PROVE  IInv'
  <1> USE AgentsAssumption, SprintsAssumption, BoundsAssumption, HarnessAssumption
      DEF IInv, Typed, vars, finVars, liveVars, busVars, appVars, histVars,
          CloseSprint, Go
  <1>1. (FinType /\ RosterType)'
    BY DEF FinType, RosterType, Places, SprintNos, Crew
  <1>2. (LiveType /\ HistType)'
    BY DEF LiveType, HistType, FinType, SprintNos
  <1>3. TaskType'
    BY DEF TaskType, Task, MailType, Mail, RosterType, FinType, Swaps, SprintNos, NoTask
  <1>4. BusType'
    BY DEF BusType, Crew
  <1>5. CmdType'
    BY DEF CmdType, Cmd, LiveType, TaskType, Task, Swaps, SprintNos
  <1>6. MailType'
    BY DEF MailType, Mail, CmdType, Cmd, TaskType, Task, Swaps, SprintNos
  <1>7. (TasksFollow /\ Spawning)'
    <2>1. sprint' \in {sprint, sprint + 1} /\ UNCHANGED <<task, ended>>
      BY DEF FinType, SprintNos
    <2>2. TasksFollow'
      BY <2>1 DEF TasksFollow, Running, FinType, TaskType, Task, SprintNos
    <2>3. \A w \in Workers : task[w].sprint < sprint + 1
      BY DEF TasksFollow, FinType, TaskType, Task, SprintNos
    <2>4. Spawning'
      BY <2>3 DEF Spawning, Crew
    <2> QED
      BY <2>2, <2>4
  <1>8. (Crewed /\ Registered /\ Alive)'
    BY DEF Crewed, Registered, Alive, Running, LiveType, FinType, BusType, TaskType, Task,
       SprintNos, Crew
  <1>9. (Told /\ RefusedOnlyAfterGivingUp)'
    BY DEF Told, Pending, RefusedOnlyAfterGivingUp, FinType, BusType, SprintNos, Crew
  <1> QED
    BY <1>1, <1>2, <1>3, <1>4, <1>5, <1>6, <1>7, <1>8, <1>9

LEMMA StepEndRun ==
  ASSUME IInv, EndRun
  PROVE  IInv'
  <1> USE AgentsAssumption, SprintsAssumption, BoundsAssumption, HarnessAssumption
      DEF IInv, Typed, vars, finVars, liveVars, busVars, appVars, histVars,
          EndRun, Go
  <1>1. (FinType /\ RosterType)'
    BY DEF FinType, RosterType, Places, SprintNos, Crew
  <1>2. (LiveType /\ HistType)'
    BY DEF LiveType, HistType, FinType, SprintNos
  <1>3. TaskType'
    BY DEF TaskType, Task, MailType, Mail, RosterType, FinType, Swaps, SprintNos, NoTask
  <1>4. BusType'
    BY DEF BusType, Crew
  <1>5. CmdType'
    BY DEF CmdType, Cmd, LiveType, TaskType, Task, Swaps, SprintNos
  <1>6. MailType'
    BY DEF MailType, Mail, CmdType, Cmd, TaskType, Task, Swaps, SprintNos
  <1>7. (TasksFollow /\ Spawning)'
    BY DEF TasksFollow, Spawning, Running, FinType, TaskType, SprintNos, Task
  <1>8. (Crewed /\ Registered /\ Alive)'
    BY DEF Crewed, Registered, Alive, Running, LiveType, FinType, BusType, TaskType, Task,
       SprintNos, Crew
  <1>9. (Told /\ RefusedOnlyAfterGivingUp)'
    BY DEF Told, Pending, RefusedOnlyAfterGivingUp, FinType, BusType, SprintNos, Crew
  <1> QED
    BY <1>1, <1>2, <1>3, <1>4, <1>5, <1>6, <1>7, <1>8, <1>9

LEMMA StepHumanJoined ==
  ASSUME IInv, HumanJoined
  PROVE  IInv'
  <1> USE AgentsAssumption, SprintsAssumption, BoundsAssumption, HarnessAssumption
      DEF IInv, Typed, vars, finVars, liveVars, busVars, appVars, histVars,
          HumanJoined, Go
  <1>1. (FinType /\ RosterType)'
    BY DEF FinType, RosterType, Places, SprintNos, Crew
  <1>2. (LiveType /\ HistType)'
    BY DEF LiveType, HistType, FinType, SprintNos
  <1>3. TaskType'
    BY DEF TaskType, Task, MailType, Mail, RosterType, FinType, Swaps, SprintNos, NoTask
  <1>4. BusType'
    BY DEF BusType, Crew
  <1>5. CmdType'
    BY DEF CmdType, Cmd, LiveType, TaskType, Task, Swaps, SprintNos
  <1>6. MailType'
    BY DEF MailType, Mail, CmdType, Cmd, TaskType, Task, Swaps, SprintNos
  <1>7. (TasksFollow /\ Spawning)'
    BY DEF TasksFollow, Spawning, Running, FinType, TaskType, SprintNos, Task
  <1>8. (Crewed /\ Registered /\ Alive)'
    BY DEF Crewed, Registered, Alive, Running, LiveType, FinType, BusType, TaskType, Task,
       SprintNos, Crew
  <1>9. (Told /\ RefusedOnlyAfterGivingUp)'
    BY DEF Told, Pending, RefusedOnlyAfterGivingUp, FinType, BusType, SprintNos, Crew
  <1> QED
    BY <1>1, <1>2, <1>3, <1>4, <1>5, <1>6, <1>7, <1>8, <1>9

LEMMA StepFinish ==
  ASSUME IInv, Finish
  PROVE  IInv'
  <1> USE AgentsAssumption, SprintsAssumption, BoundsAssumption, HarnessAssumption
      DEF IInv, Typed, vars, finVars, liveVars, busVars, appVars, histVars,
          Finish, Go
  <1>1. (FinType /\ RosterType)'
    BY DEF FinType, RosterType, Places, SprintNos, Crew
  <1>2. (LiveType /\ HistType)'
    BY DEF LiveType, HistType, FinType, SprintNos
  <1>3. TaskType'
    BY DEF TaskType, Task, MailType, Mail, RosterType, FinType, Swaps, SprintNos, NoTask
  <1>4. BusType'
    BY DEF BusType, Crew
  <1>5. CmdType'
    BY DEF CmdType, Cmd, LiveType, TaskType, Task, Swaps, SprintNos
  <1>6. MailType'
    BY DEF MailType, Mail, CmdType, Cmd, TaskType, Task, Swaps, SprintNos
  <1>7. (TasksFollow /\ Spawning)'
    BY DEF TasksFollow, Spawning, Running, FinType, TaskType, SprintNos, Task
  <1>8. (Crewed /\ Registered /\ Alive)'
    BY DEF Crewed, Registered, Alive, Running, LiveType, FinType, BusType, TaskType, Task,
       SprintNos, Crew
  <1>9. (Told /\ RefusedOnlyAfterGivingUp)'
    BY DEF Told, Pending, RefusedOnlyAfterGivingUp, FinType, BusType, SprintNos, Crew
  <1> QED
    BY <1>1, <1>2, <1>3, <1>4, <1>5, <1>6, <1>7, <1>8, <1>9

LEMMA StepFinisherDropped ==
  ASSUME IInv, FinisherDropped
  PROVE  IInv'
  <1> USE AgentsAssumption, SprintsAssumption, BoundsAssumption, HarnessAssumption
      DEF IInv, Typed, vars, finVars, liveVars, busVars, appVars, histVars,
          FinisherDropped
  <1>1. (FinType /\ RosterType)'
    BY DEF FinType, RosterType, Places, SprintNos, Crew
  <1>2. (LiveType /\ HistType)'
    BY DEF LiveType, HistType, FinType, SprintNos
  <1>3. TaskType'
    BY DEF TaskType, Task, MailType, Mail, RosterType, FinType, Swaps, SprintNos, NoTask
  <1>4. BusType'
    BY DEF BusType, Crew
  <1>5. CmdType'
    BY DEF CmdType, Cmd, LiveType, TaskType, Task, Swaps, SprintNos
  <1>6. MailType'
    BY DEF MailType, Mail, CmdType, Cmd, TaskType, Task, Swaps, SprintNos
  <1>7. (TasksFollow /\ Spawning)'
    BY DEF TasksFollow, Spawning, Running, FinType, TaskType, SprintNos, Task
  <1>8. (Crewed /\ Registered /\ Alive)'
    BY DEF Crewed, Registered, Alive, Running, LiveType, FinType, BusType, TaskType, Task,
       SprintNos, Crew
  <1>9. (Told /\ RefusedOnlyAfterGivingUp)'
    BY DEF Told, Pending, RefusedOnlyAfterGivingUp, FinType, BusType, SprintNos, Crew
  <1> QED
    BY <1>1, <1>2, <1>3, <1>4, <1>5, <1>6, <1>7, <1>8, <1>9

LEMMA StepTakeControl ==
  ASSUME IInv, NEW w \in Workers, NEW m \in mail, TakeControl(w, m)
  PROVE  IInv'
  <1> USE AgentsAssumption, SprintsAssumption, BoundsAssumption, HarnessAssumption
      DEF IInv, Typed, vars, finVars, liveVars, busVars, appVars, histVars,
          TakeControl
  <1>1. (FinType /\ RosterType)'
    BY DEF FinType, RosterType, Places, SprintNos, Crew
  <1>2. (LiveType /\ HistType)'
    BY DEF LiveType, HistType, FinType, SprintNos
  <1>3. TaskType'
    <2> DEFINE t == [task[w] EXCEPT !.state = "serving", !.harness = m.h, !.swap = m.n]
    <2>1. task[w] \in Task /\ m.h \in Harnesses /\ m.n \in 0..MaxSwaps
      BY DEF TaskType, MailType, Mail, Swaps
    <2>2. t \in Task
      BY <2>1, Marked
    <2>3. task' = [task EXCEPT ![w] = t]
      OBVIOUS
    <2> HIDE DEF t
    <2> QED
      BY <2>2, <2>3 DEF TaskType
  <1>4. BusType'
    BY DEF BusType, Crew
  <1>5. CmdType'
    BY DEF CmdType, Cmd, LiveType, TaskType, Task, Swaps, SprintNos
  <1>6. MailType'
    BY DEF MailType, Mail, CmdType, Cmd, TaskType, Task, Swaps, SprintNos
  <1>7. (TasksFollow /\ Spawning)'
    BY DEF TasksFollow, Spawning, Running, FinType, TaskType, SprintNos, Task
  <1>8. (Crewed /\ Registered /\ Alive)'
    BY SMTT(30) DEF Crewed, Registered, Alive, Running, LiveType, FinType, BusType, TaskType, Task,
       SprintNos, Crew
  <1>9. (Told /\ RefusedOnlyAfterGivingUp)'
    BY DEF Told, Pending, RefusedOnlyAfterGivingUp, FinType, BusType, SprintNos, Crew
  <1> QED
    BY <1>1, <1>2, <1>3, <1>4, <1>5, <1>6, <1>7, <1>8, <1>9

LEMMA StepServeControl ==
  ASSUME IInv, NEW w \in Workers, ServeControl(w)
  PROVE  IInv'
  <1> USE AgentsAssumption, SprintsAssumption, BoundsAssumption, HarnessAssumption
      DEF IInv, Typed, vars, finVars, liveVars, busVars, appVars, histVars,
          ServeControl, Answer, Idle
  <1>1. (FinType /\ RosterType)'
    BY DEF FinType, RosterType, Places, SprintNos, Crew
  <1>2. (LiveType /\ HistType)'
    BY DEF LiveType, HistType, FinType, SprintNos
  <1>3. TaskType'
    <2> DEFINE t == [task[w] EXCEPT !.state = "idle", !.swap = 0]
    <2>1. task[w] \in Task /\ 0 \in 0..MaxSwaps
      BY DEF TaskType
    <2>2. t \in Task
      BY <2>1, Marked DEF MailType, Mail, Swaps
    <2>3. task' = [task EXCEPT ![w] = t]
      OBVIOUS
    <2> HIDE DEF t
    <2> QED
      BY <2>2, <2>3 DEF TaskType
  <1>4. BusType'
    BY DEF BusType, Crew
  <1>5. CmdType'
    BY DEF CmdType, Cmd, LiveType, TaskType, Task, Swaps, SprintNos
  <1>6. MailType'
    BY DEF MailType, Mail, CmdType, Cmd, TaskType, Task, Swaps, SprintNos
  <1>7. (TasksFollow /\ Spawning)'
    BY DEF TasksFollow, Spawning, Running, FinType, TaskType, SprintNos, Task
  <1>8. (Crewed /\ Registered /\ Alive)'
    BY SMTT(60) DEF Crewed, Registered, Alive, Running, LiveType, FinType, BusType, TaskType, Task,
       SprintNos, Crew
  <1>9. (Told /\ RefusedOnlyAfterGivingUp)'
    BY DEF Told, Pending, RefusedOnlyAfterGivingUp, FinType, BusType, SprintNos, Crew
  <1> QED
    BY <1>1, <1>2, <1>3, <1>4, <1>5, <1>6, <1>7, <1>8, <1>9

LEMMA StepWorkerDropped ==
  ASSUME IInv, NEW w \in Workers, WorkerDropped(w)
  PROVE  IInv'
  <1> USE AgentsAssumption, SprintsAssumption, BoundsAssumption, HarnessAssumption
      DEF IInv, Typed, vars, finVars, liveVars, busVars, appVars, histVars,
          WorkerDropped, TaskEnds, LeaveInbox, Answer, Idle, Running
  <1>0. task[w].sprint \in SprintNos /\ conn[w] = "open" /\ w \in Crew
    BY DEF TaskType, Task, SprintNos, Running, Alive, Crew, TasksFollow
  <1>1. (FinType /\ RosterType)'
    BY DEF FinType, RosterType, Places, SprintNos, Crew
  <1>2. (LiveType /\ HistType)'
    BY DEF LiveType, HistType, FinType, SprintNos
  <1>3. TaskType'
    <2> DEFINE t == [task[w] EXCEPT !.state = "gone", !.swap = 0]
    <2>1. task[w] \in Task /\ 0 \in 0..MaxSwaps
      BY DEF TaskType
    <2>2. t \in Task
      BY <2>1, Marked
    <2>3. task' = [task EXCEPT ![w] = t] /\ ended' = [ended EXCEPT ![w] = @ \cup {task[w].sprint}]
      OBVIOUS
    <2>4. task[w].sprint \in SprintNos
      BY <1>0
    <2> HIDE DEF t
    <2> QED
      BY <2>2, <2>3, <2>4 DEF TaskType
  <1>4. BusType'
    BY DEF BusType, Crew
  <1>5. CmdType'
    BY DEF CmdType, Cmd, LiveType, TaskType, Task, Swaps, SprintNos
  <1>6. MailType'
    BY DEF MailType, Mail, CmdType, Cmd, TaskType, Task, Swaps, SprintNos
  <1>7. (TasksFollow /\ Spawning)'
    BY DEF TasksFollow, Spawning, Running, FinType, TaskType, SprintNos, Task
  <1>8. (Crewed /\ Registered /\ Alive)'
    BY SMTT(60) DEF Crewed, Registered, Alive, Running, LiveType, FinType, BusType, TaskType, Task,
       SprintNos, Crew
  <1>9. (Told /\ RefusedOnlyAfterGivingUp)'
    <2>1. conn' = [conn EXCEPT ![w] = "stale"]
      OBVIOUS
    <2> QED
      BY <1>0, <2>1 DEF Told, Pending, RefusedOnlyAfterGivingUp, BusType, Crew
  <1> QED
    BY <1>1, <1>2, <1>3, <1>4, <1>5, <1>6, <1>7, <1>8, <1>9

LEMMA StepWorkerFails ==
  ASSUME IInv, NEW w \in Workers, WorkerFails(w)
  PROVE  IInv'
  <1> USE AgentsAssumption, SprintsAssumption, BoundsAssumption, HarnessAssumption
      DEF IInv, Typed, vars, finVars, liveVars, busVars, appVars, histVars,
          WorkerFails, Fault, TaskEnds, LeaveInbox, Answer, Idle
  <1>0. task[w].sprint \in SprintNos /\ conn[w] = "open" /\ w \in Crew
    BY DEF TaskType, Task, SprintNos, Running, Alive, Crew, TasksFollow
  <1>1. (FinType /\ RosterType)'
    BY DEF FinType, RosterType, Places, SprintNos, Crew
  <1>2. (LiveType /\ HistType)'
    BY DEF LiveType, HistType, FinType, SprintNos
  <1>3. TaskType'
    <2> DEFINE t == [task[w] EXCEPT !.state = "gone", !.swap = 0]
    <2>1. task[w] \in Task /\ 0 \in 0..MaxSwaps
      BY DEF TaskType
    <2>2. t \in Task
      BY <2>1, Marked
    <2>3. task' = [task EXCEPT ![w] = t] /\ ended' = [ended EXCEPT ![w] = @ \cup {task[w].sprint}]
      OBVIOUS
    <2>4. task[w].sprint \in SprintNos
      BY <1>0
    <2> HIDE DEF t
    <2> QED
      BY <2>2, <2>3, <2>4 DEF TaskType
  <1>4. BusType'
    BY DEF BusType, Crew
  <1>5. CmdType'
    BY DEF CmdType, Cmd, LiveType, TaskType, Task, Swaps, SprintNos
  <1>6. MailType'
    BY DEF MailType, Mail, CmdType, Cmd, TaskType, Task, Swaps, SprintNos
  <1>7. (TasksFollow /\ Spawning)'
    BY DEF TasksFollow, Spawning, Running, FinType, TaskType, SprintNos, Task
  <1>8. (Crewed /\ Registered /\ Alive)'
    BY SMTT(60) DEF Crewed, Registered, Alive, Running, LiveType, FinType, BusType, TaskType, Task,
       SprintNos, Crew
  <1>9. (Told /\ RefusedOnlyAfterGivingUp)'
    <2>1. conn' = [conn EXCEPT ![w] = "stale"]
      OBVIOUS
    <2> QED
      BY <1>0, <2>1 DEF Told, Pending, RefusedOnlyAfterGivingUp, BusType, Crew
  <1> QED
    BY <1>1, <1>2, <1>3, <1>4, <1>5, <1>6, <1>7, <1>8, <1>9

LEMMA StepReapControls ==
  ASSUME IInv, NEW w \in Workers, NEW s \in SprintNos, ReapControls(w, s)
  PROVE  IInv'
  <1> USE AgentsAssumption, SprintsAssumption, BoundsAssumption, HarnessAssumption
      DEF IInv, Typed, vars, finVars, liveVars, busVars, appVars, histVars,
          ReapControls
  <1>1. (FinType /\ RosterType)'
    BY DEF FinType, RosterType, Places, SprintNos, Crew
  <1>2. (LiveType /\ HistType)'
    BY DEF LiveType, HistType, FinType, SprintNos
  <1>3. TaskType'
    BY DEF TaskType, Task, MailType, Mail, RosterType, FinType, Swaps, SprintNos, NoTask
  <1>4. BusType'
    BY DEF BusType, Crew
  <1>5. CmdType'
    BY DEF CmdType, Cmd, LiveType, TaskType, Task, Swaps, SprintNos
  <1>6. MailType'
    BY DEF MailType, Mail, CmdType, Cmd, TaskType, Task, Swaps, SprintNos
  <1>7. (TasksFollow /\ Spawning)'
    BY DEF TasksFollow, Spawning, Running, FinType, TaskType, SprintNos, Task
  <1>8. (Crewed /\ Registered /\ Alive)'
    <2>1. ASSUME NEW v \in Workers, at \in {"arm", "lead"}, Running(v), ~ task[v].asked
          PROVE  controls'[v] = sprint
      BY <2>1 DEF Crewed, TasksFollow, LiveType
    <2>2. Crewed'
      BY <2>1 DEF Crewed, Running
    <2>3. Registered' /\ Alive'
      BY DEF Registered, Alive, Running, LiveType, SprintNos
    <2> QED
      BY <2>2, <2>3
  <1>9. (Told /\ RefusedOnlyAfterGivingUp)'
    BY DEF Told, Pending, RefusedOnlyAfterGivingUp, FinType, BusType, SprintNos, Crew
  <1> QED
    BY <1>1, <1>2, <1>3, <1>4, <1>5, <1>6, <1>7, <1>8, <1>9

LEMMA StepSwapHarness ==
  ASSUME IInv, NEW w \in Workers, NEW h \in Harnesses, SwapHarness(w, h)
  PROVE  IInv'
  <1> USE AgentsAssumption, SprintsAssumption, BoundsAssumption, HarnessAssumption
      DEF IInv, Typed, vars, finVars, liveVars, busVars, appVars, histVars,
          SwapHarness, Idle
  <1>1. (FinType /\ RosterType)'
    BY DEF FinType, RosterType, Places, SprintNos, Crew
  <1>2. (LiveType /\ HistType)'
    BY DEF LiveType, HistType, FinType, SprintNos
  <1>3. TaskType'
    BY DEF TaskType, Task, MailType, Mail, RosterType, FinType, Swaps, SprintNos, NoTask
  <1>4. BusType'
    BY DEF BusType, Crew
  <1>5. CmdType'
    BY DEF CmdType, Cmd, LiveType, TaskType, Task, Swaps, SprintNos
  <1>6. MailType'
    BY DEF MailType, Mail, CmdType, Cmd, TaskType, Task, Swaps, SprintNos
  <1>7. (TasksFollow /\ Spawning)'
    BY DEF TasksFollow, Spawning, Running, FinType, TaskType, SprintNos, Task
  <1>8. (Crewed /\ Registered /\ Alive)'
    BY DEF Crewed, Registered, Alive, Running, LiveType, FinType, BusType, TaskType, Task,
       SprintNos, Crew
  <1>9. (Told /\ RefusedOnlyAfterGivingUp)'
    BY DEF Told, Pending, RefusedOnlyAfterGivingUp, FinType, BusType, SprintNos, Crew
  <1> QED
    BY <1>1, <1>2, <1>3, <1>4, <1>5, <1>6, <1>7, <1>8, <1>9

LEMMA StepAnswerUnserved ==
  ASSUME IInv, NEW m \in mail, AnswerUnserved(m)
  PROVE  IInv'
  <1> USE AgentsAssumption, SprintsAssumption, BoundsAssumption, HarnessAssumption
      DEF IInv, Typed, vars, finVars, liveVars, busVars, appVars, histVars,
          AnswerUnserved, Answer, Idle
  <1>1. (FinType /\ RosterType)'
    BY DEF FinType, RosterType, Places, SprintNos, Crew
  <1>2. (LiveType /\ HistType)'
    BY DEF LiveType, HistType, FinType, SprintNos
  <1>3. TaskType'
    BY DEF TaskType, Task, MailType, Mail, RosterType, FinType, Swaps, SprintNos, NoTask
  <1>4. BusType'
    BY DEF BusType, Crew
  <1>5. CmdType'
    BY DEF CmdType, Cmd, LiveType, TaskType, Task, Swaps, SprintNos
  <1>6. MailType'
    BY DEF MailType, Mail, CmdType, Cmd, TaskType, Task, Swaps, SprintNos
  <1>7. (TasksFollow /\ Spawning)'
    BY DEF TasksFollow, Spawning, Running, FinType, TaskType, SprintNos, Task
  <1>8. (Crewed /\ Registered /\ Alive)'
    BY DEF Crewed, Registered, Alive, Running, LiveType, FinType, BusType, TaskType, Task,
       SprintNos, Crew
  <1>9. (Told /\ RefusedOnlyAfterGivingUp)'
    BY DEF Told, Pending, RefusedOnlyAfterGivingUp, FinType, BusType, SprintNos, Crew
  <1> QED
    BY <1>1, <1>2, <1>3, <1>4, <1>5, <1>6, <1>7, <1>8, <1>9

LEMMA StepLeadReturns ==
  ASSUME IInv, LeadReturns
  PROVE  IInv'
  <1> USE AgentsAssumption, SprintsAssumption, BoundsAssumption, HarnessAssumption
      DEF IInv, Typed, vars, finVars, liveVars, busVars, appVars, histVars,
          LeadReturns
  <1>1. (FinType /\ RosterType)'
    BY DEF FinType, RosterType, Places, SprintNos, Crew
  <1>2. (LiveType /\ HistType)'
    BY DEF LiveType, HistType, FinType, SprintNos
  <1>3. TaskType'
    BY DEF TaskType, Task, MailType, Mail, RosterType, FinType, Swaps, SprintNos, NoTask
  <1>4. BusType'
    BY DEF BusType, Crew
  <1>5. CmdType'
    BY DEF CmdType, Cmd, LiveType, TaskType, Task, Swaps, SprintNos
  <1>6. MailType'
    BY DEF MailType, Mail, CmdType, Cmd, TaskType, Task, Swaps, SprintNos
  <1>7. (TasksFollow /\ Spawning)'
    BY DEF TasksFollow, Spawning, Running, FinType, TaskType, SprintNos, Task
  <1>8. (Crewed /\ Registered /\ Alive)'
    BY DEF Crewed, Registered, Alive, Running, LiveType, FinType, BusType, TaskType, Task,
       SprintNos, Crew
  <1>9. (Told /\ RefusedOnlyAfterGivingUp)'
    <2>1. conn[Lead] = "open" /\ conn' = [conn EXCEPT ![Lead] = "stale"] /\ Lead \in Crew
      BY DEF Alive, Crew
    <2> QED
      BY <2>1 DEF Told, Pending, RefusedOnlyAfterGivingUp, BusType, Crew
  <1> QED
    BY <1>1, <1>2, <1>3, <1>4, <1>5, <1>6, <1>7, <1>8, <1>9

LEMMA StepUnregister ==
  ASSUME IInv, NEW a \in Crew, Unregister(a)
  PROVE  IInv'
  <1> USE AgentsAssumption, SprintsAssumption, BoundsAssumption, HarnessAssumption
      DEF IInv, Typed, vars, finVars, liveVars, busVars, appVars, histVars,
          Unregister
  <1>1. (FinType /\ RosterType)'
    BY DEF FinType, RosterType, Places, SprintNos, Crew
  <1>2. (LiveType /\ HistType)'
    BY DEF LiveType, HistType, FinType, SprintNos
  <1>3. TaskType'
    BY DEF TaskType, Task, MailType, Mail, RosterType, FinType, Swaps, SprintNos, NoTask
  <1>4. BusType'
    BY DEF BusType, Crew
  <1>5. CmdType'
    BY DEF CmdType, Cmd, LiveType, TaskType, Task, Swaps, SprintNos
  <1>6. MailType'
    BY DEF MailType, Mail, CmdType, Cmd, TaskType, Task, Swaps, SprintNos
  <1>7. (TasksFollow /\ Spawning)'
    BY DEF TasksFollow, Spawning, Running, FinType, TaskType, SprintNos, Task
  <1>8. (Crewed /\ Registered /\ Alive)'
    BY DEF Crewed, Registered, Alive, Running, LiveType, FinType, BusType, TaskType, Task,
       SprintNos, Crew
  <1>9. (Told /\ RefusedOnlyAfterGivingUp)'
    BY DEF Told, Pending, RefusedOnlyAfterGivingUp, FinType, BusType, SprintNos, Crew
  <1> QED
    BY <1>1, <1>2, <1>3, <1>4, <1>5, <1>6, <1>7, <1>8, <1>9

LEMMA StepPublish ==
  ASSUME IInv, Publish
  PROVE  IInv'
  <1> USE AgentsAssumption, SprintsAssumption, BoundsAssumption, HarnessAssumption
      DEF IInv, Typed, vars, finVars, liveVars, busVars, appVars, histVars,
          Publish
  <1>1. (FinType /\ RosterType)'
    <2>1. Head(events) \in Crew
      BY DEF BusType
    <2> QED
      BY <2>1 DEF FinType, RosterType
  <1>2. (LiveType /\ HistType)'
    BY DEF LiveType, HistType, FinType, SprintNos
  <1>3. TaskType'
    BY DEF TaskType, Task, MailType, Mail, RosterType, FinType, Swaps, SprintNos, NoTask
  <1>4. BusType'
    BY DEF BusType, Crew
  <1>5. CmdType'
    BY DEF CmdType, Cmd, LiveType, TaskType, Task, Swaps, SprintNos
  <1>6. MailType'
    BY DEF MailType, Mail, CmdType, Cmd, TaskType, Task, Swaps, SprintNos
  <1>7. (TasksFollow /\ Spawning)'
    BY DEF TasksFollow, Spawning, Running, FinType, TaskType, SprintNos, Task
  <1>8. (Crewed /\ Registered /\ Alive)'
    BY DEF Crewed, Registered, Alive, Running, LiveType, FinType, BusType, TaskType, Task,
       SprintNos, Crew
  <1>9. (Told /\ RefusedOnlyAfterGivingUp)'
    <2>1. Head(events) = events[1] /\ Head(events) \in Crew /\ Tail(events) \in Seq(Crew)
      BY DEF BusType
    <2>2. /\ \A i \in DOMAIN Tail(events) : i + 1 \in DOMAIN events /\ Tail(events)[i] = events[i + 1]
          /\ 1 \in DOMAIN events
          /\ DOMAIN events \subseteq Nat
      BY DEF BusType
    <2>3. ~ gaveUp => \A i \in DOMAIN Tail(events) : Tail(events)[i] # Head(events)
      BY <2>1, <2>2 DEF Told
    <2> QED
      BY <2>1, <2>2, <2>3 DEF Told, Pending, RefusedOnlyAfterGivingUp, Listening
  <1> QED
    BY <1>1, <1>2, <1>3, <1>4, <1>5, <1>6, <1>7, <1>8, <1>9

LEMMA StepLagged ==
  ASSUME IInv, Lagged
  PROVE  IInv'
  <1> USE AgentsAssumption, SprintsAssumption, BoundsAssumption, HarnessAssumption
      DEF IInv, Typed, vars, finVars, liveVars, busVars, appVars, histVars,
          Lagged, Fault
  <1>1. (FinType /\ RosterType)'
    BY DEF FinType, RosterType, Places, SprintNos, Crew
  <1>2. (LiveType /\ HistType)'
    BY DEF LiveType, HistType, FinType, SprintNos
  <1>3. TaskType'
    BY DEF TaskType, Task, MailType, Mail, RosterType, FinType, Swaps, SprintNos, NoTask
  <1>4. BusType'
    BY DEF BusType, Crew
  <1>5. CmdType'
    BY DEF CmdType, Cmd, LiveType, TaskType, Task, Swaps, SprintNos
  <1>6. MailType'
    BY DEF MailType, Mail, CmdType, Cmd, TaskType, Task, Swaps, SprintNos
  <1>7. (TasksFollow /\ Spawning)'
    BY DEF TasksFollow, Spawning, Running, FinType, TaskType, SprintNos, Task
  <1>8. (Crewed /\ Registered /\ Alive)'
    BY DEF Crewed, Registered, Alive, Running, LiveType, FinType, BusType, TaskType, Task,
       SprintNos, Crew
  <1>9. (Told /\ RefusedOnlyAfterGivingUp)'
    BY DEF Told, Pending, RefusedOnlyAfterGivingUp, FinType, BusType, SprintNos, Crew
  <1> QED
    BY <1>1, <1>2, <1>3, <1>4, <1>5, <1>6, <1>7, <1>8, <1>9

LEMMA StepHumanShutdown ==
  ASSUME IInv, HumanShutdown
  PROVE  IInv'
  <1> USE AgentsAssumption, SprintsAssumption, BoundsAssumption, HarnessAssumption
      DEF IInv, Typed, vars, finVars, liveVars, busVars, appVars, histVars,
          HumanShutdown, HumanEnds, Idle
  <1>1. (FinType /\ RosterType)'
    BY DEF FinType, RosterType, Places, SprintNos, Crew
  <1>2. (LiveType /\ HistType)'
    BY DEF LiveType, HistType, FinType, SprintNos
  <1>3. TaskType'
    BY DEF TaskType, Task, MailType, Mail, RosterType, FinType, Swaps, SprintNos, NoTask
  <1>4. BusType'
    BY DEF BusType, Crew
  <1>5. CmdType'
    BY DEF CmdType, Cmd, LiveType, TaskType, Task, Swaps, SprintNos
  <1>6. MailType'
    BY DEF MailType, Mail, CmdType, Cmd, TaskType, Task, Swaps, SprintNos
  <1>7. (TasksFollow /\ Spawning)'
    BY DEF TasksFollow, Spawning, Running, FinType, TaskType, SprintNos, Task
  <1>8. (Crewed /\ Registered /\ Alive)'
    BY DEF Crewed, Registered, Alive, Running, LiveType, FinType, BusType, TaskType, Task,
       SprintNos, Crew
  <1>9. (Told /\ RefusedOnlyAfterGivingUp)'
    BY DEF Told, Pending, RefusedOnlyAfterGivingUp, FinType, BusType, SprintNos, Crew
  <1> QED
    BY <1>1, <1>2, <1>3, <1>4, <1>5, <1>6, <1>7, <1>8, <1>9

LEMMA StepHumanFails ==
  ASSUME IInv, HumanFails
  PROVE  IInv'
  <1> USE AgentsAssumption, SprintsAssumption, BoundsAssumption, HarnessAssumption
      DEF IInv, Typed, vars, finVars, liveVars, busVars, appVars, histVars,
          HumanFails, Fault, HumanEnds, Idle
  <1>1. (FinType /\ RosterType)'
    BY DEF FinType, RosterType, Places, SprintNos, Crew
  <1>2. (LiveType /\ HistType)'
    BY DEF LiveType, HistType, FinType, SprintNos
  <1>3. TaskType'
    BY DEF TaskType, Task, MailType, Mail, RosterType, FinType, Swaps, SprintNos, NoTask
  <1>4. BusType'
    BY DEF BusType, Crew
  <1>5. CmdType'
    BY DEF CmdType, Cmd, LiveType, TaskType, Task, Swaps, SprintNos
  <1>6. MailType'
    BY DEF MailType, Mail, CmdType, Cmd, TaskType, Task, Swaps, SprintNos
  <1>7. (TasksFollow /\ Spawning)'
    BY DEF TasksFollow, Spawning, Running, FinType, TaskType, SprintNos, Task
  <1>8. (Crewed /\ Registered /\ Alive)'
    BY DEF Crewed, Registered, Alive, Running, LiveType, FinType, BusType, TaskType, Task,
       SprintNos, Crew
  <1>9. (Told /\ RefusedOnlyAfterGivingUp)'
    BY DEF Told, Pending, RefusedOnlyAfterGivingUp, FinType, BusType, SprintNos, Crew
  <1> QED
    BY <1>1, <1>2, <1>3, <1>4, <1>5, <1>6, <1>7, <1>8, <1>9

LEMMA StepHumanTakesGate ==
  ASSUME IInv, HumanTakesGate
  PROVE  IInv'
  <1> USE AgentsAssumption, SprintsAssumption, BoundsAssumption, HarnessAssumption
      DEF IInv, Typed, vars, finVars, liveVars, busVars, appVars, histVars,
          HumanTakesGate
  <1>1. (FinType /\ RosterType)'
    BY DEF FinType, RosterType, Places, SprintNos, Crew
  <1>2. (LiveType /\ HistType)'
    BY DEF LiveType, HistType, FinType, SprintNos
  <1>3. TaskType'
    BY DEF TaskType, Task, MailType, Mail, RosterType, FinType, Swaps, SprintNos, NoTask
  <1>4. BusType'
    BY DEF BusType, Crew
  <1>5. CmdType'
    BY DEF CmdType, Cmd, LiveType, TaskType, Task, Swaps, SprintNos
  <1>6. MailType'
    BY DEF MailType, Mail, CmdType, Cmd, TaskType, Task, Swaps, SprintNos
  <1>7. (TasksFollow /\ Spawning)'
    BY DEF TasksFollow, Spawning, Running, FinType, TaskType, SprintNos, Task
  <1>8. (Crewed /\ Registered /\ Alive)'
    BY DEF Crewed, Registered, Alive, Running, LiveType, FinType, BusType, TaskType, Task,
       SprintNos, Crew
  <1>9. (Told /\ RefusedOnlyAfterGivingUp)'
    BY DEF Told, Pending, RefusedOnlyAfterGivingUp, FinType, BusType, SprintNos, Crew
  <1> QED
    BY <1>1, <1>2, <1>3, <1>4, <1>5, <1>6, <1>7, <1>8, <1>9

LEMMA StepHumanPublished ==
  ASSUME IInv, HumanPublished
  PROVE  IInv'
  <1> USE AgentsAssumption, SprintsAssumption, BoundsAssumption, HarnessAssumption
      DEF IInv, Typed, vars, finVars, liveVars, busVars, appVars, histVars,
          HumanPublished, Idle
  <1>1. (FinType /\ RosterType)'
    BY DEF FinType, RosterType, Places, SprintNos, Crew
  <1>2. (LiveType /\ HistType)'
    BY DEF LiveType, HistType, FinType, SprintNos
  <1>3. TaskType'
    BY DEF TaskType, Task, MailType, Mail, RosterType, FinType, Swaps, SprintNos, NoTask
  <1>4. BusType'
    BY DEF BusType, Crew
  <1>5. CmdType'
    BY DEF CmdType, Cmd, LiveType, TaskType, Task, Swaps, SprintNos
  <1>6. MailType'
    BY DEF MailType, Mail, CmdType, Cmd, TaskType, Task, Swaps, SprintNos
  <1>7. (TasksFollow /\ Spawning)'
    BY DEF TasksFollow, Spawning, Running, FinType, TaskType, SprintNos, Task
  <1>8. (Crewed /\ Registered /\ Alive)'
    BY DEF Crewed, Registered, Alive, Running, LiveType, FinType, BusType, TaskType, Task,
       SprintNos, Crew
  <1>9. (Told /\ RefusedOnlyAfterGivingUp)'
    BY DEF Told, Pending, RefusedOnlyAfterGivingUp, FinType, BusType, SprintNos, Crew
  <1> QED
    BY <1>1, <1>2, <1>3, <1>4, <1>5, <1>6, <1>7, <1>8, <1>9

LEMMA StepLookUpSender ==
  ASSUME IInv, LookUpSender
  PROVE  IInv'
  <1> USE AgentsAssumption, SprintsAssumption, BoundsAssumption, HarnessAssumption
      DEF IInv, Typed, vars, finVars, liveVars, busVars, appVars, histVars,
          LookUpSender, Idle
  <1>1. (FinType /\ RosterType)'
    BY DEF FinType, RosterType, Places, SprintNos, Crew
  <1>2. (LiveType /\ HistType)'
    BY DEF LiveType, HistType, FinType, SprintNos
  <1>3. TaskType'
    BY DEF TaskType, Task, MailType, Mail, RosterType, FinType, Swaps, SprintNos, NoTask
  <1>4. BusType'
    BY DEF BusType, Crew
  <1>5. CmdType'
    <2>1. CASE controls[cmd.w] = 0
      BY <2>1 DEF CmdType, Cmd
    <2>2. CASE controls[cmd.w] # 0
      <3>1. cmd.w \in Workers /\ controls[cmd.w] \in SprintNos /\ controls[cmd.w] \in 0..Sprints
        BY <2>2 DEF CmdType, LiveType, SprintNos
      <3>2. cmd' = [cmd EXCEPT !.kind = "send", !.chan = controls[cmd.w]]
        BY <2>2
      <3>3. cmd' \in Cmd
        BY <3>1, <3>2 DEF CmdType, Cmd
      <3> QED
        BY <3>1, <3>2, <3>3 DEF CmdType, Cmd
    <2> QED
      BY <2>1, <2>2
  <1>6. MailType'
    BY DEF MailType, Mail, CmdType, Cmd, TaskType, Task, Swaps, SprintNos
  <1>7. (TasksFollow /\ Spawning)'
    BY DEF TasksFollow, Spawning, Running, FinType, TaskType, SprintNos, Task
  <1>8. (Crewed /\ Registered /\ Alive)'
    BY DEF Crewed, Registered, Alive, Running, LiveType, FinType, BusType, TaskType, Task,
       SprintNos, Crew
  <1>9. (Told /\ RefusedOnlyAfterGivingUp)'
    BY DEF Told, Pending, RefusedOnlyAfterGivingUp, FinType, BusType, SprintNos, Crew
  <1> QED
    BY <1>1, <1>2, <1>3, <1>4, <1>5, <1>6, <1>7, <1>8, <1>9

LEMMA StepSendSwapControl ==
  ASSUME IInv, SendSwapControl
  PROVE  IInv'
  <1> USE AgentsAssumption, SprintsAssumption, BoundsAssumption, HarnessAssumption
      DEF IInv, Typed, vars, finVars, liveVars, busVars, appVars, histVars,
          SendSwapControl
  <1>1. (FinType /\ RosterType)'
    BY DEF FinType, RosterType, Places, SprintNos, Crew
  <1>2. (LiveType /\ HistType)'
    BY DEF LiveType, HistType, FinType, SprintNos
  <1>3. TaskType'
    BY DEF TaskType, Task, MailType, Mail, RosterType, FinType, Swaps, SprintNos, NoTask
  <1>4. BusType'
    BY DEF BusType, Crew
  <1>5. CmdType'
    BY DEF CmdType, Cmd, LiveType, TaskType, Task, Swaps, SprintNos
  <1>6. MailType'
    BY DEF MailType, Mail, CmdType, Cmd, TaskType, Task, Swaps, SprintNos
  <1>7. (TasksFollow /\ Spawning)'
    BY DEF TasksFollow, Spawning, Running, FinType, TaskType, SprintNos, Task
  <1>8. (Crewed /\ Registered /\ Alive)'
    BY DEF Crewed, Registered, Alive, Running, LiveType, FinType, BusType, TaskType, Task,
       SprintNos, Crew
  <1>9. (Told /\ RefusedOnlyAfterGivingUp)'
    BY DEF Told, Pending, RefusedOnlyAfterGivingUp, FinType, BusType, SprintNos, Crew
  <1> QED
    BY <1>1, <1>2, <1>3, <1>4, <1>5, <1>6, <1>7, <1>8, <1>9

LEMMA StepAckTimeout ==
  ASSUME IInv, AckTimeout
  PROVE  IInv'
  <1> USE AgentsAssumption, SprintsAssumption, BoundsAssumption, HarnessAssumption
      DEF IInv, Typed, vars, finVars, liveVars, busVars, appVars, histVars,
          AckTimeout, Answer, Idle
  <1>1. (FinType /\ RosterType)'
    BY DEF FinType, RosterType, Places, SprintNos, Crew
  <1>2. (LiveType /\ HistType)'
    BY DEF LiveType, HistType, FinType, SprintNos
  <1>3. TaskType'
    BY DEF TaskType, Task, MailType, Mail, RosterType, FinType, Swaps, SprintNos, NoTask
  <1>4. BusType'
    BY DEF BusType, Crew
  <1>5. CmdType'
    BY DEF CmdType, Cmd, LiveType, TaskType, Task, Swaps, SprintNos
  <1>6. MailType'
    BY DEF MailType, Mail, CmdType, Cmd, TaskType, Task, Swaps, SprintNos
  <1>7. (TasksFollow /\ Spawning)'
    BY DEF TasksFollow, Spawning, Running, FinType, TaskType, SprintNos, Task
  <1>8. (Crewed /\ Registered /\ Alive)'
    BY DEF Crewed, Registered, Alive, Running, LiveType, FinType, BusType, TaskType, Task,
       SprintNos, Crew
  <1>9. (Told /\ RefusedOnlyAfterGivingUp)'
    BY DEF Told, Pending, RefusedOnlyAfterGivingUp, FinType, BusType, SprintNos, Crew
  <1> QED
    BY <1>1, <1>2, <1>3, <1>4, <1>5, <1>6, <1>7, <1>8, <1>9

LEMMA StepResolveGate ==
  ASSUME IInv, ResolveGate
  PROVE  IInv'
  <1> USE AgentsAssumption, SprintsAssumption, BoundsAssumption, HarnessAssumption
      DEF IInv, Typed, vars, finVars, liveVars, busVars, appVars, histVars,
          ResolveGate, Idle
  <1>1. (FinType /\ RosterType)'
    BY DEF FinType, RosterType, Places, SprintNos, Crew
  <1>2. (LiveType /\ HistType)'
    BY DEF LiveType, HistType, FinType, SprintNos
  <1>3. TaskType'
    BY DEF TaskType, Task, MailType, Mail, RosterType, FinType, Swaps, SprintNos, NoTask
  <1>4. BusType'
    BY DEF BusType, Crew
  <1>5. CmdType'
    BY DEF CmdType, Cmd, LiveType, TaskType, Task, Swaps, SprintNos
  <1>6. MailType'
    BY DEF MailType, Mail, CmdType, Cmd, TaskType, Task, Swaps, SprintNos
  <1>7. (TasksFollow /\ Spawning)'
    BY DEF TasksFollow, Spawning, Running, FinType, TaskType, SprintNos, Task
  <1>8. (Crewed /\ Registered /\ Alive)'
    BY DEF Crewed, Registered, Alive, Running, LiveType, FinType, BusType, TaskType, Task,
       SprintNos, Crew
  <1>9. (Told /\ RefusedOnlyAfterGivingUp)'
    BY DEF Told, Pending, RefusedOnlyAfterGivingUp, FinType, BusType, SprintNos, Crew
  <1> QED
    BY <1>1, <1>2, <1>3, <1>4, <1>5, <1>6, <1>7, <1>8, <1>9

LEMMA StepStopRun ==
  ASSUME IInv, StopRun
  PROVE  IInv'
  <1> USE AgentsAssumption, SprintsAssumption, BoundsAssumption, HarnessAssumption
      DEF IInv, Typed, vars, finVars, liveVars, busVars, appVars, histVars,
          StopRun, AbortWorkers, Running
  <1>1. (FinType /\ RosterType)'
    BY DEF FinType, RosterType, Places, SprintNos, Crew
  <1>2. (LiveType /\ HistType)'
    BY DEF LiveType, HistType, FinType, SprintNos
  <1>3. TaskType'
    BY ZenonT(30) DEF TaskType, Task, MailType, Mail, RosterType, FinType, Swaps, SprintNos, NoTask
  <1>4. BusType'
    BY DEF BusType, Crew
  <1>5. CmdType'
    BY DEF CmdType, Cmd, LiveType, TaskType, Task, Swaps, SprintNos
  <1>6. MailType'
    BY DEF MailType, Mail, CmdType, Cmd, TaskType, Task, Swaps, SprintNos
  <1>7. (TasksFollow /\ Spawning)'
    BY DEF TasksFollow, Spawning, Running, FinType, TaskType, SprintNos, Task
  <1>8. (Crewed /\ Registered /\ Alive)'
    BY DEF Crewed, Registered, Alive, Running, LiveType, FinType, BusType, TaskType, Task,
       SprintNos, Crew
  <1>9. (Told /\ RefusedOnlyAfterGivingUp)'
    <2>1. \/ conn' = conn
          \/ conn[Lead] = "open" /\ conn' = [conn EXCEPT ![Lead] = "stale"]
      BY DEF Alive
    <2>2. Lead \in Crew
      BY DEF Crew
    <2> QED
      BY <2>1, <2>2 DEF Told, Pending, RefusedOnlyAfterGivingUp, BusType, Crew
  <1> QED
    BY <1>1, <1>2, <1>3, <1>4, <1>5, <1>6, <1>7, <1>8, <1>9

-------------------------------------------------------------------------------
LEMMA InitInv == Init => IInv
  <1> SUFFICES ASSUME Init PROVE IInv
    OBVIOUS
  <1> USE AgentsAssumption, SprintsAssumption, BoundsAssumption, HarnessAssumption
      DEF Init, Crew, SprintNos
  <1>0. 1 \in 1..Sprints /\ 0 \in 0..Sprints /\ 0 \in 0..MaxFaults
    OBVIOUS
  <1>1. FinType
    BY <1>0 DEF FinType, Places
  <1>2. BusType
    BY DEF BusType
  <1>3. RosterType
    BY DEF RosterType
  <1>4. LiveType
    BY <1>0 DEF LiveType
  <1>5. HistType
    BY <1>0 DEF HistType
  <1>6. TaskType
    BY DEF TaskType, Task, NoTask
  <1>7. CmdType /\ MailType
    BY DEF CmdType, Cmd, MailType, Idle
  <1>8. TasksFollow /\ Spawning /\ Crewed /\ Registered /\ Alive
    BY DEF TasksFollow, Spawning, Crewed, Registered, Alive, Running, NoTask
  <1>9. Told /\ RefusedOnlyAfterGivingUp
    BY DEF Told, Pending, RefusedOnlyAfterGivingUp
  <1> QED
    BY <1>1, <1>2, <1>3, <1>4, <1>5, <1>6, <1>7, <1>8, <1>9 DEF IInv, Typed

LEMMA StepInv == IInv /\ [Next]_vars => IInv'
  <1> SUFFICES ASSUME IInv, [Next]_vars PROVE IInv'
    OBVIOUS
  <1>0. CASE UNCHANGED vars
    BY <1>0 DEF IInv, Typed, vars, finVars, liveVars, busVars, appVars, histVars, FinType,
       RosterType, TaskType, LiveType, BusType, CmdType, MailType, HistType, TasksFollow,
       Spawning, Crewed, Registered, Alive, Running, Told, Pending, RefusedOnlyAfterGivingUp
  <1>1. CASE \E a \in Crew : Connect(a) \/ Duplicate(a) \/ Unregister(a)
    BY <1>1, StepConnect, StepDuplicate, StepUnregister
  <1>2. CASE ConnectFails \/ Subscribe \/ LeadJoined \/ Drain \/ WaitForCrew \/ CloseSprint
    BY <1>2, StepConnectFails, StepSubscribe, StepLeadJoined, StepDrain, StepWaitForCrew,
       StepCloseSprint
  <1>3. CASE EndRun \/ HumanJoined \/ Finish \/ FinisherDropped
    BY <1>3, StepEndRun, StepHumanJoined, StepFinish, StepFinisherDropped
  <1>4. CASE \E w \in Workers, m \in mail : TakeControl(w, m)
    BY <1>4, StepTakeControl
  <1>5. CASE \E w \in Workers : ServeControl(w) \/ WorkerDropped(w) \/ WorkerFails(w)
    BY <1>5, StepServeControl, StepWorkerDropped, StepWorkerFails
  <1>6. CASE \E w \in Workers, s \in SprintNos : ReapControls(w, s)
    BY <1>6, StepReapControls
  <1>7. CASE \E w \in Workers, h \in Harnesses : SwapHarness(w, h)
    BY <1>7, StepSwapHarness
  <1>8. CASE \E m \in mail : AnswerUnserved(m)
    BY <1>8, StepAnswerUnserved
  <1>9. CASE LeadReturns \/ Publish \/ Lagged
    BY <1>9, StepLeadReturns, StepPublish, StepLagged
  <1>10. CASE HumanShutdown \/ HumanFails \/ HumanTakesGate \/ HumanPublished
    BY <1>10, StepHumanShutdown, StepHumanFails, StepHumanTakesGate, StepHumanPublished
  <1>11. CASE LookUpSender \/ SendSwapControl \/ AckTimeout \/ ResolveGate \/ StopRun
    BY <1>11, StepLookUpSender, StepSendSwapControl, StepAckTimeout, StepResolveGate,
       StepStopRun
  <1> QED
    BY <1>0, <1>1, <1>2, <1>3, <1>4, <1>5, <1>6, <1>7, <1>8, <1>9, <1>10, <1>11 DEF Next

LEMMA Inductive == Spec => []IInv
  BY InitInv, StepInv, PTL DEF Spec

-------------------------------------------------------------------------------
(* The theorems. *)

\* Every variable keeps its type, for any crew, sprints, harnesses and bounds.
THEOREM TypeCorrect == Spec => []TypeOK
  <1>1. IInv => TypeOK
    BY DEF IInv, Typed, TypeOK, FinType, RosterType, TaskType, LiveType, BusType, CmdType,
       MailType, HistType, Places, Task, Cmd
  <1> QED
    BY <1>1, Inductive, PTL

\* While a sprint's lead is awaited every worker that still runs is reachable through
\* the channel of its own task, and no channel is registered outside that window.
THEOREM ChannelsFollowCrew == Spec => []ControlsMatchCrew
  <1>1. IInv => ControlsMatchCrew
    BY DEF IInv, Crewed, Registered, ControlsMatchCrew
  <1> QED
    BY <1>1, Inductive, PTL

\* A sprint's connection is refused as a duplicate only after a boundary gave up
\* waiting for the Unregistered events of the sprint before.
THEOREM RefusedOnlyAfterWait == Spec => []RefusedOnlyAfterGivingUp
  <1>1. IInv => RefusedOnlyAfterGivingUp
    BY DEF IInv
  <1> QED
    BY <1>1, Inductive, PTL

\* A pending reply is lost in one way only: with the worker that is serving it.
LEMMA Lost ==
  ASSUME IInv, Next, NEW n \in Swaps, replies[n] = "open", replies'[n] = "dropped"
  PROVE  \E w \in Workers : task[w].state = "serving" /\ task[w].swap = n
  <1> USE DEF IInv, Typed, MailType, finVars, liveVars, busVars, appVars, histVars
  <1>1. ASSUME NEW w \in Workers, LeaveInbox(w)
        PROVE  task[w].state = "serving" /\ task[w].swap = n
    BY <1>1 DEF LeaveInbox, Answer
  <1>2. CASE \E w \in Workers : WorkerDropped(w) \/ WorkerFails(w)
    BY <1>1, <1>2 DEF WorkerDropped, WorkerFails, TaskEnds
  <1>3. CASE \/ \E w \in Workers : ServeControl(w)
             \/ \E m \in mail : AnswerUnserved(m)
             \/ AckTimeout
    BY <1>3 DEF ServeControl, AnswerUnserved, AckTimeout, Answer
  <1>4. CASE \/ \E w \in Workers, h \in Harnesses : SwapHarness(w, h)
             \/ LookUpSender
    BY <1>4 DEF SwapHarness, LookUpSender
  <1>5. CASE \/ \E a \in Crew : Connect(a) \/ Duplicate(a) \/ Unregister(a)
             \/ ConnectFails \/ Subscribe \/ LeadJoined \/ Drain \/ WaitForCrew \/ CloseSprint
             \/ EndRun \/ HumanJoined \/ Finish \/ FinisherDropped
    BY <1>5 DEF Connect, Admit, InstallLive, Duplicate, SpawnFails, ConnectFails, Subscribe,
       LeadJoined, Drain, WaitForCrew, CloseSprint, EndRun, HumanJoined, Finish,
       FinisherDropped, Unregister
  <1>6. CASE \/ \E w \in Workers, m \in mail : TakeControl(w, m)
             \/ \E w \in Workers, s \in SprintNos : ReapControls(w, s)
             \/ LeadReturns \/ Publish \/ Lagged
             \/ HumanShutdown \/ HumanFails \/ HumanTakesGate \/ HumanPublished
             \/ SendSwapControl \/ ResolveGate \/ StopRun
    BY <1>6 DEF TakeControl, ReapControls, LeadReturns, Publish, Lagged, HumanShutdown,
       HumanFails, HumanTakesGate, HumanPublished, HumanEnds, SendSwapControl, ResolveGate,
       StopRun
  <1> QED
    BY <1>2, <1>3, <1>4, <1>5, <1>6 DEF Next

\* A swap no worker began to serve is answered, however its worker ended.
THEOREM Answered == Spec => UnservedIsAnswered
  <1> DEFINE Served == \A n \in Swaps : replies[n] = "open" /\ replies'[n] = "dropped" =>
                         \E w \in Workers : task[w].state = "serving" /\ task[w].swap = n
  <1>1. IInv /\ [Next]_vars => [Served]_vars
    BY Lost
  <1> QED
    BY <1>1, Inductive, PTL DEF Spec, UnservedIsAnswered

-------------------------------------------------------------------------------
\* The way from the ledger to the screen, for any number of writers, messages,
\* task states and resyncs.

\* What the front end has yet to apply, in the order it will.
Stream == buffered \o wire
\* The newest state of the task that was sent.
Sent == IF relay = "updated" THEN state - 1 ELSE state

HasType(q, type) == \E i \in DOMAIN q : q[i].type = type
Waits(q, type, n) == \E i \in DOMAIN q : q[i] = Event(type, n)
\* What waits, and what the pump dropped instead.
Due(q, type, n) == Waits(q, type, n) \/ Event(type, n) \in lost

\* Messages, and states, travel in increasing order,
Ordered(q) ==
    \A i, j \in DOMAIN q :
       i < j /\ q[i].type = q[j].type /\ q[i].type \in {"message", "state"} => q[i].n < q[j].n
\* none newer than the newest that was sent,
Sendable(q, message, newest) ==
    \A i \in DOMAIN q : /\ q[i].type = "message" => q[i].n <= message
                        /\ q[i].type = "state" => q[i].n <= newest
\* and of the states the newest is the last to arrive, if it was not dropped.
NewestLast(q) == HasType(q, "state") => Due(q, "state", Sent)
InOrder(q) == Ordered(q) /\ Sendable(q, lastSeq, Sent) /\ NewestLast(q)

\* The backend: what last_seq has not reached is about to be broadcast.
BackInv ==
    /\ relay = "updated" => state >= 1
    /\ lastSeq # rows => \E t \in Writers : writer[t] = "appended"
    /\ InOrder(wire)

\* A view that covers the messages up to `upTo` and shows the state `shown` lacks
\* only what is on its way, or was dropped there.
Covers(q, upTo) == \A m \in (upTo + 1)..lastSeq : Due(q, "message", m)
UpToDate(q, shown) == Due(q, "state", Sent) \/ shown = Sent \/ shown = state

OneReplay ==
    /\ \A r \in Resyncs : InFlight(r) => open
    /\ replaying => \E r \in Resyncs : InFlight(r)
    /\ alone => \A r, o \in Resyncs : InFlight(r) /\ InFlight(o) => r = o /\ replaying
    /\ ~ open => channel = Empty /\ buffered = <<>> /\ ~ clean
SnapshotFits(r) ==
    /\ resync[r].rows <= rows
    /\ Covers(Stream, resync[r].rows) /\ UpToDate(Stream, resync[r].state)
NoneAhead == \A n \in Shown(channel) : n <= last
ScreenFits ==
    /\ last <= rows /\ \A n \in 1..last : ~ Missed(n)
    /\ Covers(Stream, last) /\ UpToDate(Stream, channel.state)
FrontInv ==
    /\ OneReplay /\ InOrder(Stream) /\ NoHole
    /\ alone => \A r \in Resyncs : resync[r].at = "answered" => SnapshotFits(r)
    /\ ~ replaying => NoneAhead
    /\ clean /\ ~ replaying => ScreenFits

-------------------------------------------------------------------------------
(* Sequences of events. *)

\* An event is of one of the four kinds, and numbered within the bounds.
LEMMA EventKinds ==
    /\ \A e \in Events : /\ e.type \in {"started", "finished", "message", "state"}
                         /\ e.type = "message" => e.n \in 1..MaxRows
                         /\ e.type = "state" => e.n \in 1..MaxState
                         /\ e = Event(e.type, e.n)
    /\ \A n \in 1..MaxRows : Event("message", n) \in Events
    /\ \A n \in 1..MaxState : Event("state", n) \in Events
    /\ Event("started", 0) \in Events /\ Event("finished", 0) \in Events
    /\ \A type, n : Event(type, n).type = type /\ Event(type, n).n = n
BY FeedBoundsAssumption DEF Events, Event

\* Taking the first event off keeps the order, and what waited is the first event
\* or still waits, behind it.
LEMMA FirstTaken ==
    ASSUME NEW q \in Seq(Events), q # <<>>
    PROVE  /\ Tail(q) \in Seq(Events) /\ Head(q) \in Events
           /\ Ordered(q) => Ordered(Tail(q))
           /\ \A a, b : Sendable(q, a, b) => Sendable(Tail(q), a, b)
           /\ \A a, b : Sendable(q, a, b) /\ Head(q).type = "message" => Head(q).n <= a
           /\ \A a, b : Sendable(q, a, b) /\ Head(q).type = "state" => Head(q).n <= b
           /\ \A type : HasType(q, type) <=> Head(q).type = type \/ HasType(Tail(q), type)
           /\ \A type, n : Waits(q, type, n) <=> Head(q) = Event(type, n) \/ Waits(Tail(q), type, n)
           /\ \A type \in {"message", "state"} : \A n :
                 Ordered(q) /\ Head(q).type = type /\ Waits(Tail(q), type, n) => Head(q).n < n
<1> DEFINE t == Tail(q)
           h == Head(q)
<1>1. /\ t \in Seq(Events) /\ h \in Events /\ h = q[1]
      /\ Len(q) \in Nat \ {0} /\ Len(t) = Len(q) - 1
      /\ DOMAIN q = 1..Len(q) /\ DOMAIN t = 1..Len(t)
      /\ \A i \in 1..Len(t) : t[i] = q[i + 1]
    OBVIOUS
<1> HIDE DEF t, h
<1>2. \A i \in DOMAIN t : i + 1 \in DOMAIN q /\ t[i] = q[i + 1] /\ i \in Nat \ {0}
    BY <1>1
<1>3. \A i \in DOMAIN q : i \in Nat \ {0} /\ (i = 1 \/ (i - 1 \in DOMAIN t /\ q[i] = t[i - 1]))
    BY <1>1
<1>4. 1 \in DOMAIN q
    BY <1>1
<1>5. Ordered(q) => Ordered(t)
    <2> SUFFICES ASSUME Ordered(q), NEW i \in DOMAIN t, NEW j \in DOMAIN t, i < j,
                        t[i].type = t[j].type, t[i].type \in {"message", "state"}
                 PROVE  t[i].n < t[j].n
        BY DEF Ordered
    <2>1. i + 1 < j + 1
        BY <1>2
    <2> QED BY <1>2, <2>1 DEF Ordered
<1>6. ASSUME NEW a, NEW b, Sendable(q, a, b)
      PROVE  /\ Sendable(t, a, b) /\ (h.type = "message" => h.n <= a)
             /\ (h.type = "state" => h.n <= b)
    BY <1>1, <1>2, <1>4, <1>6 DEF Sendable
<1>7. ASSUME NEW type PROVE HasType(q, type) <=> h.type = type \/ HasType(t, type)
    BY <1>1, <1>2, <1>3, <1>4 DEF HasType
<1>8. ASSUME NEW type, NEW n
      PROVE  Waits(q, type, n) <=> h = Event(type, n) \/ Waits(t, type, n)
    <2> DEFINE e == Event(type, n)
    <2> HIDE DEF e
    <2>1. (\E i \in DOMAIN q : q[i] = e) <=> h = e \/ \E i \in DOMAIN t : t[i] = e
        BY <1>1, <1>2, <1>3, <1>4
    <2> QED BY <2>1 DEF e, Waits
<1>9. ASSUME NEW type \in {"message", "state"}, NEW n, Ordered(q), h.type = type,
             Waits(t, type, n)
      PROVE  h.n < n
    <2>1. PICK i \in DOMAIN t : t[i] = Event(type, n)
        BY <1>9 DEF Waits
    <2>2. i + 1 \in DOMAIN q /\ q[i + 1].type = type /\ q[i + 1].n = n /\ 1 < i + 1
        BY <1>2, <2>1, EventKinds
    <2> QED BY <1>1, <1>4, <1>9, <2>2 DEF Ordered
<1> QED BY <1>1, <1>5, <1>6, <1>7, <1>8, <1>9 DEF t, h

\* What is sent is behind what was, and newer.
LEMMA SentBehind ==
    ASSUME NEW q \in Seq(Events), NEW e \in Seq(Events)
    PROVE  /\ q \o e \in Seq(Events)
           /\ \A type : HasType(q \o e, type) <=> HasType(q, type) \/ HasType(e, type)
           /\ \A type, n : Waits(q \o e, type, n) <=> Waits(q, type, n) \/ Waits(e, type, n)
           /\ \A a, b : Sendable(q \o e, a, b) <=> Sendable(q, a, b) /\ Sendable(e, a, b)
           /\ \A a, b \in Int :
                 /\ Ordered(q) /\ Ordered(e) /\ Sendable(q, a, b)
                 /\ \A i \in DOMAIN e : /\ e[i].type = "message" => a < e[i].n
                                        /\ e[i].type = "state" => b < e[i].n
                 => Ordered(q \o e)
<1> DEFINE c == q \o e
           k == Len(q)
<1>1. /\ c \in Seq(Events) /\ k \in Nat /\ Len(e) \in Nat
      /\ DOMAIN q = 1..k /\ DOMAIN e = 1..Len(e) /\ DOMAIN c = 1..(k + Len(e))
      /\ \A i \in 1..k : c[i] = q[i]
      /\ \A i \in 1..Len(e) : c[k + i] = e[i]
    OBVIOUS
<1> HIDE DEF c, k
<1>2. \A i \in DOMAIN c : \/ i \in DOMAIN q /\ c[i] = q[i]
                          \/ i - k \in DOMAIN e /\ c[i] = e[i - k] /\ i > k
    <2> TAKE i \in DOMAIN c
    <2>1. CASE i <= k
        BY <1>1, <2>1
    <2>2. CASE i > k
        <3>1. i - k \in 1..Len(e) /\ k + (i - k) = i
            BY <1>1, <2>2
        <3> QED BY <1>1, <2>2, <3>1
    <2> QED BY <1>1, <2>1, <2>2
<1>3. \A i \in DOMAIN q : i \in DOMAIN c /\ c[i] = q[i] /\ i <= k
    BY <1>1
<1>4. \A i \in DOMAIN e : k + i \in DOMAIN c /\ c[k + i] = e[i]
    BY <1>1
<1>5. ASSUME NEW type PROVE HasType(c, type) <=> HasType(q, type) \/ HasType(e, type)
    BY <1>2, <1>3, <1>4 DEF HasType
<1>6. ASSUME NEW type, NEW n
      PROVE  Waits(c, type, n) <=> Waits(q, type, n) \/ Waits(e, type, n)
    <2> DEFINE x == Event(type, n)
    <2> HIDE DEF x
    <2>1. (\E i \in DOMAIN c : c[i] = x) <=> \/ \E i \in DOMAIN q : q[i] = x
                                             \/ \E i \in DOMAIN e : e[i] = x
        BY <1>2, <1>3, <1>4
    <2> QED BY <2>1 DEF x, Waits
<1>7. ASSUME NEW a, NEW b PROVE Sendable(c, a, b) <=> Sendable(q, a, b) /\ Sendable(e, a, b)
    <2>1. Sendable(c, a, b) => Sendable(q, a, b)
        BY <1>3 DEF Sendable
    <2>2. Sendable(c, a, b) => Sendable(e, a, b)
        <3> SUFFICES ASSUME Sendable(c, a, b), NEW i \in DOMAIN e
                     PROVE  /\ e[i].type = "message" => e[i].n <= a
                            /\ e[i].type = "state" => e[i].n <= b
            BY DEF Sendable
        <3> QED BY <1>4 DEF Sendable
    <2>3. Sendable(q, a, b) /\ Sendable(e, a, b) => Sendable(c, a, b)
        <3> SUFFICES ASSUME Sendable(q, a, b), Sendable(e, a, b), NEW i \in DOMAIN c
                     PROVE  /\ c[i].type = "message" => c[i].n <= a
                            /\ c[i].type = "state" => c[i].n <= b
            BY DEF Sendable
        <3> QED BY <1>2 DEF Sendable
    <2> QED BY <2>1, <2>2, <2>3
<1>8. ASSUME NEW a \in Int, NEW b \in Int, Ordered(q), Ordered(e), Sendable(q, a, b),
             \A i \in DOMAIN e : /\ e[i].type = "message" => a < e[i].n
                                 /\ e[i].type = "state" => b < e[i].n
      PROVE  Ordered(c)
    <2> SUFFICES ASSUME NEW i \in DOMAIN c, NEW j \in DOMAIN c, i < j,
                        c[i].type = c[j].type, c[i].type \in {"message", "state"}
                 PROVE  c[i].n < c[j].n
        BY DEF Ordered
    <2>0. i \in Int /\ j \in Int /\ k \in Int /\ c[i] \in Events /\ c[j] \in Events
        BY <1>1
    <2>1. CASE j \in DOMAIN q
        <3>1. i \in DOMAIN q
            BY <1>1, <2>0, <2>1
        <3> QED BY <1>3, <1>8, <2>1, <3>1 DEF Ordered
    <2>2. CASE i \in DOMAIN q /\ ~ j \in DOMAIN q
        <3>1. c[i] = q[i] /\ j - k \in DOMAIN e /\ c[j] = e[j - k]
            BY <1>2, <1>3, <2>2
        <3>2. c[i].n \in Int /\ c[j].n \in Int
            BY <2>0, EventKinds, FeedBoundsAssumption
        <3>3. CASE c[i].type = "message"
            <4>1. c[i].n <= a /\ a < c[j].n
                BY <1>8, <2>2, <3>1, <3>3 DEF Sendable
            <4> QED BY <3>2, <4>1
        <3>4. CASE c[i].type = "state"
            <4>1. c[i].n <= b /\ b < c[j].n
                BY <1>8, <2>2, <3>1, <3>4 DEF Sendable
            <4> QED BY <3>2, <4>1
        <3> QED BY <3>3, <3>4
    <2>3. CASE ~ i \in DOMAIN q
        <3>1. ~ j \in DOMAIN q
            BY <1>1, <2>0, <2>3
        <3>2. /\ i - k \in DOMAIN e /\ c[i] = e[i - k]
              /\ j - k \in DOMAIN e /\ c[j] = e[j - k] /\ i - k < j - k
            BY <1>2, <2>0, <2>3, <3>1
        <3> QED BY <1>8, <3>2 DEF Ordered
    <2> QED BY <2>1, <2>2, <2>3
<1> QED BY <1>1, <1>5, <1>6, <1>7, <1>8 DEF c

\* An event that is lost leaves the others as they were.
LEMMA OneLost ==
    ASSUME NEW b \in Seq(Events), NEW w \in Seq(Events), w # <<>>
    PROVE  LET q == b \o w
               r == b \o Tail(w)
           IN  /\ r \in Seq(Events)
               /\ Ordered(q) => Ordered(r)
               /\ \A x, y : Sendable(q, x, y) => Sendable(r, x, y)
               /\ \A type : HasType(r, type) => HasType(q, type)
               /\ \A type, n : Waits(q, type, n) => Waits(r, type, n) \/ Event(type, n) = Head(w)
<1> DEFINE q == b \o w
           t == Tail(w)
           r == b \o t
           k == Len(b)
<1>1. t \in Seq(Events)
    BY FirstTaken
<1>2. /\ q \in Seq(Events) /\ r \in Seq(Events) /\ k \in Nat
      /\ Len(w) \in Nat \ {0} /\ DOMAIN q = 1..(k + Len(w)) /\ DOMAIN r = 1..(k + Len(w) - 1)
      /\ \A i \in 1..(k + Len(w) - 1) : /\ i <= k => r[i] = q[i]
                                        /\ i > k => r[i] = q[i + 1]
    OBVIOUS
<1> DEFINE from(i) == IF i <= k THEN i ELSE i + 1
<1>3. \A i \in DOMAIN r : from(i) \in DOMAIN q /\ r[i] = q[from(i)] /\ i \in Int
    <2> HIDE DEF q, r, k
    <2> QED BY <1>2
<1>4. \A i, j \in DOMAIN r : i < j => from(i) < from(j)
    <2> HIDE DEF q, r, k
    <2> QED BY <1>2
<1>5. Ordered(q) => Ordered(r)
    <2> HIDE DEF q, r, from
    <2> SUFFICES ASSUME Ordered(q), NEW i \in DOMAIN r, NEW j \in DOMAIN r, i < j,
                        r[i].type = r[j].type, r[i].type \in {"message", "state"}
                 PROVE  r[i].n < r[j].n
        BY DEF Ordered
    <2> QED BY <1>3, <1>4 DEF Ordered
<1>6. ASSUME NEW x, NEW y, Sendable(q, x, y) PROVE Sendable(r, x, y)
    <2> HIDE DEF q, r, from
    <2> QED BY <1>3, <1>6 DEF Sendable
<1>7. ASSUME NEW type, HasType(r, type) PROVE HasType(q, type)
    <2> HIDE DEF q, r, from
    <2> QED BY <1>3, <1>7 DEF HasType
<1>8. ASSUME NEW type, NEW n, Waits(q, type, n)
      PROVE  Waits(r, type, n) \/ Event(type, n) = Head(w)
    <2>1. Waits(b, type, n) \/ Waits(w, type, n)
        BY <1>8, SentBehind
    <2>2. Waits(b, type, n) \/ Waits(t, type, n) \/ Event(type, n) = Head(w)
        BY <2>1, FirstTaken
    <2> QED BY <1>1, <2>2, SentBehind
<1> QED BY <1>2, <1>5, <1>6, <1>7, <1>8

\* One event.
LEMMA OneEvent ==
    ASSUME NEW x \in Events
    PROVE  /\ <<x>> \in Seq(Events) /\ Ordered(<<x>>)
           /\ \A type : HasType(<<x>>, type) <=> x.type = type
           /\ \A type, n : Waits(<<x>>, type, n) <=> x = Event(type, n)
           /\ \A a, b : Sendable(<<x>>, a, b) <=> /\ (x.type = "message" => x.n <= a)
                                                  /\ (x.type = "state" => x.n <= b)
           /\ DOMAIN <<x>> = {1} /\ <<x>>[1] = x
<1>1. <<x>> \in Seq(Events) /\ DOMAIN <<x>> = {1} /\ <<x>>[1] = x
    OBVIOUS
<1>2. Ordered(<<x>>)
    BY <1>1 DEF Ordered
<1> QED BY <1>1, <1>2 DEF HasType, Waits, Sendable

\* The rows a broadcast sends: the messages after `from`, up to `to`.
LEMMA RowsSent ==
    ASSUME NEW from \in 0..MaxRows, NEW to \in 0..MaxRows, from <= to
    PROVE  LET e == Messages(from, to)
           IN  /\ e \in Seq(Events) /\ Ordered(e)
               /\ \A type : HasType(e, type) => type = "message"
               /\ \A m \in (from + 1)..to : Waits(e, "message", m)
               /\ \A b : Sendable(e, to, b)
               /\ \A i \in DOMAIN e : e[i].type = "message" /\ from < e[i].n
<1> DEFINE e == Messages(from, to)
<1>0. MaxRows \in Nat
    BY FeedBoundsAssumption
<1>1. /\ DOMAIN e = 1..(to - from) /\ to - from \in Nat
      /\ \A i \in 1..(to - from) : /\ e[i] = Event("message", from + i)
                                   /\ from + i \in 1..MaxRows /\ from + i <= to /\ i \in Int
    BY <1>0 DEF Messages
<1>2. \A i \in 1..(to - from) : e[i] \in Events /\ e[i].type = "message" /\ e[i].n = from + i
    BY <1>1, EventKinds
<1>3. e \in Seq(Events)
    <2>1. e = [i \in 1..(to - from) |-> Event("message", from + i)]
        BY DEF Messages
    <2>2. e \in [1..(to - from) -> Events]
        BY <1>1, <1>2, <2>1
    <2> HIDE DEF e
    <2> QED BY <1>1, <2>2
<1> HIDE DEF e
<1>4. Ordered(e)
    BY <1>1, <1>2 DEF Ordered
<1>5. \A m \in (from + 1)..to : Waits(e, "message", m)
    <2> TAKE m \in (from + 1)..to
    <2>1. m - from \in 1..(to - from) /\ from + (m - from) = m
        BY <1>0
    <2> QED BY <1>1, <2>1 DEF Waits
<1>6. \A b : Sendable(e, to, b)
    BY <1>1, <1>2 DEF Sendable
<1>7. \A i \in DOMAIN e : e[i].type = "message" /\ from < e[i].n
    BY <1>1, <1>2
<1>8. \A type : HasType(e, type) => type = "message"
    BY <1>1, <1>2 DEF HasType
<1> QED BY <1>3, <1>4, <1>5, <1>6, <1>7, <1>8 DEF e

-------------------------------------------------------------------------------
(* Types. *)

Channels == [messages : Seq(1..MaxRows), state : 0..MaxState, finished : BOOLEAN]
Snapshots == [at : {"off", "asked", "answered"}, rows : 0..MaxRows, state : 0..MaxState]
BackTypeOK ==
    /\ rows \in 0..MaxRows /\ lastSeq \in 0..MaxRows /\ lastSeq <= rows
    /\ writer \in [Writers -> {"idle", "appended"}]
    /\ state \in 0..MaxState /\ relay \in {"idle", "updated"} /\ finished \in BOOLEAN
FrontTypeOK ==
    /\ buffered \in Seq(Events)
    /\ open \in BOOLEAN /\ replaying \in BOOLEAN /\ last \in 0..MaxRows
    /\ resync \in [Resyncs -> Snapshots]
    /\ channel \in Channels
SeamTypeOK ==
    /\ wire \in Seq(Events)
    /\ lost \subseteq Events /\ alone \in BOOLEAN /\ clean \in BOOLEAN

LEMMA FeedTypeParts == FeedTypeOK <=> BackTypeOK /\ FrontTypeOK /\ SeamTypeOK
BY DEF FeedTypeOK, BackTypeOK, FrontTypeOK, SeamTypeOK, Channels, Snapshots

\* What an event does to the screen, and to the number of the last message.
LEMMA Delivery ==
    ASSUME FeedTypeOK, NEW ev \in Events, Deliver(ev)
    PROVE  /\ last' \in 0..MaxRows /\ channel' \in Channels
           /\ ~ open => channel' = channel
           /\ ev.type \notin {"message"} => last' = last
           /\ ev.type = "message" /\ ev.n <= last => last' = last /\ channel' = channel
           /\ ev.type = "message" /\ ~ ev.n <= last => last' = ev.n
           /\ ev.type = "message" /\ ~ ev.n <= last /\ open /\ ev.n \notin Shown(channel) =>
                 /\ channel'.messages = Append(channel.messages, ev.n)
                 /\ channel'.state = channel.state
           /\ ev.type = "state" /\ open =>
                 channel'.messages = channel.messages /\ channel'.state = ev.n
           /\ ev.type = "finished" /\ open =>
                 channel'.messages = channel.messages /\ channel'.state = channel.state
           /\ ev.type = "started" /\ open => channel'.messages = <<>> /\ channel'.state = 0
<1>1. channel \in Channels /\ last \in 0..MaxRows /\ MaxRows \in Nat /\ MaxState \in Nat
    BY FeedTypeParts, FeedBoundsAssumption DEF FrontTypeOK
<1>2. /\ ev.type \in {"started", "finished", "message", "state"}
      /\ ev.type = "message" => ev.n \in 1..MaxRows
      /\ ev.type = "state" => ev.n \in 1..MaxState
    BY EventKinds
<1> DEFINE view == DeliverLive(<<last, channel>>, ev)
<1>3. last' = view[1] /\ channel' = IF open THEN view[2] ELSE channel
    BY DEF Deliver
<1>4. Empty \in Channels /\ Empty.messages = <<>> /\ Empty.state = 0
    BY <1>1 DEF Empty, Channels
<1>5. CASE ev.type = "started"
    <2>1. view = <<last, Empty>>
        BY <1>5 DEF DeliverLive, Apply
    <2> QED BY <1>1, <1>3, <1>4, <1>5, <2>1
<1>6. CASE ev.type = "finished"
    <2> DEFINE c == [channel EXCEPT !.finished = TRUE]
    <2>1. view = <<last, c>>
        BY <1>6 DEF DeliverLive, Apply
    <2>2. c \in Channels /\ c.messages = channel.messages /\ c.state = channel.state
        BY <1>1 DEF Channels
    <2> HIDE DEF c
    <2> QED BY <1>1, <1>3, <1>6, <2>1, <2>2
<1>7. CASE ev.type = "state"
    <2> DEFINE c == [channel EXCEPT !.state = ev.n]
    <2>1. view = <<last, c>>
        BY <1>7 DEF DeliverLive, Apply
    <2>2. c \in Channels /\ c.messages = channel.messages /\ c.state = ev.n
        <3>1. ev.n \in 0..MaxState
            BY <1>1, <1>2, <1>7
        <3>2. channel \in Channels
            BY <1>1
        <3> QED BY <3>1, <3>2 DEF Channels
    <2> HIDE DEF c
    <2> QED BY <1>1, <1>3, <1>7, <2>1, <2>2
<1>8. CASE ev.type = "message" /\ ev.n <= last
    <2>1. view = <<last, channel>>
        BY <1>8 DEF DeliverLive
    <2> QED BY <1>1, <1>3, <1>8, <2>1
<1>9. CASE ev.type = "message" /\ ~ ev.n <= last
    <2> DEFINE c == [channel EXCEPT !.messages = Append(@, ev.n)]
    <2>1. view = <<ev.n, IF ev.n \in Shown(channel) THEN channel ELSE c>>
        BY <1>9 DEF DeliverLive, Apply
    <2>2. Append(channel.messages, ev.n) \in Seq(1..MaxRows)
        BY <1>1, <1>2, <1>9 DEF Channels
    <2>3. /\ c \in Channels /\ c.messages = Append(channel.messages, ev.n)
          /\ c.state = channel.state
        BY <1>1, <2>2 DEF Channels
    <2> HIDE DEF c
    <2>4. ev.n \in 0..MaxRows
        BY <1>1, <1>2, <1>9
    <2> QED BY <1>1, <1>3, <1>9, <2>1, <2>3, <2>4
<1> HIDE DEF view
<1> QED BY <1>2, <1>5, <1>6, <1>7, <1>8, <1>9

LEMMA DeliverySeam ==
    ASSUME FeedTypeOK, NEW ev \in Events, Deliver(ev)
    PROVE  /\ clean' \in BOOLEAN /\ (clean' => clean) /\ UNCHANGED <<lost, alone>>
           /\ ev.type = "started" /\ clean' => channel.messages = <<>> /\ channel.state = 0
<1>1. /\ clean' = (clean /\ (ev.type = "started" => channel.messages = <<>> /\ channel.state = 0))
      /\ UNCHANGED <<lost, alone>>
    BY Zenon DEF Deliver
<1> QED BY <1>1, Zenon

LEMMA FeedTypeInit == FeedInit => FeedTypeOK
<1> SUFFICES ASSUME FeedInit PROVE FeedTypeOK
    OBVIOUS
<1>0. MaxRows \in Nat /\ MaxState \in Nat
    BY FeedBoundsAssumption
<1>1. BackTypeOK
    <2>1. /\ rows = 0 /\ lastSeq = 0 /\ writer = [t \in Writers |-> "idle"]
          /\ state = 0 /\ relay = "idle" /\ finished \in BOOLEAN
        BY DEF FeedInit
    <2> QED BY <1>0, <2>1 DEF BackTypeOK
<1>2. SeamTypeOK
    <2>1. wire \in Seq(Events)
        BY EventKinds, OneEvent DEF FeedInit
    <2>2. lost = {} /\ alone \in BOOLEAN /\ clean \in BOOLEAN
        BY DEF FeedInit
    <2> QED BY <2>1, <2>2 DEF SeamTypeOK
<1>3. Off \in Snapshots /\ Empty \in Channels
    BY <1>0 DEF Off, Snapshots, Empty, Channels
<1>4. FrontTypeOK
    <2>1. resync \in [Resyncs -> Snapshots] /\ channel \in Channels
        BY <1>3 DEF FeedInit
    <2>2. buffered = <<>> /\ open \in BOOLEAN /\ replaying \in BOOLEAN /\ last = 0
        BY DEF FeedInit
    <2> QED BY <1>0, <2>1, <2>2 DEF FrontTypeOK
<1> QED BY <1>1, <1>2, <1>4, FeedTypeParts

LEMMA FeedTypeStep == FeedTypeOK /\ BackInv /\ [FeedNext]_feedVars => FeedTypeOK'
<1> SUFFICES ASSUME FeedTypeOK, BackInv, [FeedNext]_feedVars PROVE FeedTypeOK'
    OBVIOUS
<1> USE FeedBoundsAssumption
<1> DEFINE Goal == BackTypeOK' /\ FrontTypeOK' /\ SeamTypeOK'
<1>0. BackTypeOK /\ FrontTypeOK /\ SeamTypeOK
    BY FeedTypeParts
<1>q. SUFFICES Goal
    BY DEF FeedTypeOK, BackTypeOK, FrontTypeOK, SeamTypeOK, Channels, Snapshots
<1>k. UNCHANGED frontVars => FrontTypeOK'
    BY <1>0 DEF frontVars, FrontTypeOK
<1>b. UNCHANGED backVars => BackTypeOK'
    BY <1>0 DEF backVars, BackTypeOK
<1>s. wire' \in Seq(Events) /\ UNCHANGED seamVars => SeamTypeOK'
    BY <1>0 DEF seamVars, SeamTypeOK
<1>w. wire \in Seq(Events)
    BY <1>0 DEF SeamTypeOK
<1>1. ASSUME NEW t \in Writers, Append1(t) PROVE Goal
    BY <1>0, <1>1, <1>k, <1>s, <1>w DEF Append1, BackTypeOK
<1>2. ASSUME NEW t \in Writers, Broadcast(t) PROVE Goal
    <2>1. Messages(lastSeq, rows) \in Seq(Events)
        BY <1>0, RowsSent DEF BackTypeOK
    <2>2. wire' \in Seq(Events)
        BY <1>w, <1>2, <2>1, SentBehind DEF Broadcast
    <2>3. BackTypeOK'
        BY <1>0, <1>2 DEF Broadcast, BackTypeOK
    <2> QED BY <1>2, <1>k, <1>s, <2>2, <2>3 DEF Broadcast
<1>3. ASSUME RelayUpdate PROVE Goal
    BY <1>0, <1>3, <1>k, <1>s, <1>w DEF RelayUpdate, BackTypeOK
<1>4. ASSUME RelaySend PROVE Goal
    <2>1. state \in 1..MaxState
        BY <1>0, <1>4 DEF RelaySend, BackTypeOK, BackInv
    <2>2. wire' \in Seq(Events)
        BY <1>w, <1>4, <2>1, EventKinds DEF RelaySend
    <2>3. BackTypeOK'
        BY <1>0, <1>4 DEF RelaySend, BackTypeOK
    <2> QED BY <1>4, <1>k, <1>s, <2>2, <2>3 DEF RelaySend
<1>5. ASSUME FinishRun PROVE Goal
    <2>1. wire' \in Seq(Events)
        BY <1>w, <1>5, EventKinds DEF FinishRun
    <2>2. BackTypeOK'
        BY <1>0, <1>5 DEF FinishRun, BackTypeOK
    <2> QED BY <1>5, <1>k, <1>s, <2>1, <2>2 DEF FinishRun
<1>6. ASSUME NEW r \in Resyncs, Snapshot(r) PROVE Goal
    <2>1. [at |-> "answered", rows |-> rows, state |-> state] \in Snapshots
        BY <1>0 DEF BackTypeOK, Snapshots
    <2>2. resync' \in [Resyncs -> Snapshots]
        BY <1>0, <1>6, <2>1 DEF Snapshot, FrontTypeOK
    <2> QED BY <1>0, <1>6, <1>b, <1>s, <1>w, <2>2 DEF Snapshot, FrontTypeOK
<1>7. ASSUME NEW r \in Resyncs, StartChannel(r) \/ SelectChannel(r) PROVE Goal
    <2>1. [resync[r] EXCEPT !.at = "asked"] \in Snapshots
        BY <1>0 DEF FrontTypeOK, Snapshots
    <2>2. resync' \in [Resyncs -> Snapshots]
        BY <1>0, <1>7, <2>1 DEF StartChannel, SelectChannel, BeginResync, FrontTypeOK
    <2>3. /\ UNCHANGED <<backVars, wire, channel, lost, clean>> /\ last' = 0
          /\ replaying' = TRUE /\ buffered' = <<>>
        BY <1>7 DEF StartChannel, SelectChannel, BeginResync
    <2>4. open' \in BOOLEAN
        BY <1>7, <1>0 DEF StartChannel, SelectChannel, FrontTypeOK
    <2>5. alone' \in BOOLEAN
        BY <1>7 DEF StartChannel, SelectChannel, BeginResync
    <2>6. SeamTypeOK'
        BY <1>0, <2>3, <2>5 DEF SeamTypeOK
    <2> QED BY <1>0, <1>b, <2>2, <2>3, <2>4, <2>6 DEF FrontTypeOK
<1>8. ASSUME NEW r \in Resyncs, FinishResync(r) PROVE Goal
    <2>1. resync[r] \in Snapshots /\ Off \in Snapshots
        BY <1>0 DEF FrontTypeOK, Off, Snapshots
    <2>2. resync[r].rows \in 0..MaxRows /\ resync[r].state \in 0..MaxState
        BY <2>1 DEF Snapshots
    <2>3. Replay(resync[r]) \in Channels
        <3>1. [i \in 1..resync[r].rows |-> i] \in Seq(1..MaxRows)
            <4> DEFINE k == resync[r].rows
            <4> HIDE DEF k
            <4>1. k \in Nat /\ k <= MaxRows
                BY <2>2 DEF k
            <4>2. [i \in 1..k |-> i] \in [1..k -> 1..MaxRows]
                BY <4>1
            <4>3. [i \in 1..k |-> i] \in Seq(1..MaxRows)
                BY <4>1, <4>2
            <4> QED BY <4>3 DEF k
        <3> QED BY <2>2, <3>1 DEF Replay, Channels
    <2>4. resync' \in [Resyncs -> Snapshots]
        BY <1>0, <1>8, <2>1 DEF FinishResync, ShowReplay, FrontTypeOK
    <2>5. UNCHANGED <<backVars, wire, open, buffered>> /\ last' = resync[r].rows
          /\ replaying' = FALSE /\ channel' = Replay(resync[r])
        BY <1>8 DEF FinishResync, ShowReplay
    <2>6. lost' \subseteq lost /\ clean' = alone /\ alone' = alone
        BY <1>8 DEF FinishResync, ShowReplay
    <2>7. SeamTypeOK'
        BY <1>0, <2>5, <2>6 DEF SeamTypeOK
    <2> QED BY <1>0, <1>b, <2>2, <2>3, <2>4, <2>5, <2>7 DEF FrontTypeOK
<1>d. ASSUME NEW ev \in Events, Deliver(ev), wire' \in Seq(Events)
      PROVE  last' \in 0..MaxRows /\ channel' \in Channels /\ SeamTypeOK'
    BY <1>0, <1>d, Delivery, DeliverySeam DEF SeamTypeOK
<1>9. ASSUME Flush PROVE Goal
    <2>1. buffered # <<>> /\ buffered \in Seq(Events)
        BY <1>0, <1>9 DEF Flush, TurnOver, FrontTypeOK
    <2>2. Tail(buffered) \in Seq(Events) /\ Head(buffered) \in Events
        BY <2>1, FirstTaken
    <2>3. /\ UNCHANGED <<backVars, wire, open, replaying, resync>>
          /\ buffered' = Tail(buffered) /\ Deliver(Head(buffered))
        BY <1>9 DEF Flush
    <2>4. last' \in 0..MaxRows /\ channel' \in Channels /\ SeamTypeOK'
        BY <1>d, <1>w, <2>2, <2>3
    <2> QED BY <1>0, <1>b, <2>2, <2>3, <2>4 DEF FrontTypeOK
<1>10. ASSUME Route PROVE Goal
    <2>1. Tail(wire) \in Seq(Events) /\ Head(wire) \in Events
        BY <1>w, <1>10, FirstTaken DEF Route
    <2>2. Append(buffered, Head(wire)) \in Seq(Events)
        BY <1>0, <2>1 DEF FrontTypeOK
    <2>3. UNCHANGED <<backVars, open, replaying, resync>> /\ wire' = Tail(wire)
        BY <1>10 DEF Route
    <2>4. CASE replaying
        <3>1. UNCHANGED <<last, channel, seamVars>> /\ buffered' = Append(buffered, Head(wire))
            BY <1>10, <2>4 DEF Route
        <3> QED BY <1>0, <1>b, <1>s, <2>1, <2>2, <2>3, <3>1 DEF FrontTypeOK
    <2>5. CASE ~ replaying
        <3>1. UNCHANGED buffered /\ Deliver(Head(wire))
            BY <1>10, <2>5 DEF Route
        <3>2. last' \in 0..MaxRows /\ channel' \in Channels /\ SeamTypeOK'
            BY <1>d, <2>1, <2>3, <3>1
        <3> QED BY <1>0, <1>b, <2>3, <3>1, <3>2 DEF FrontTypeOK
    <2> QED BY <2>4, <2>5
<1>11. ASSUME PumpLags PROVE Goal
    <2>1. Tail(wire) \in Seq(Events) /\ Head(wire) \in Events
        BY <1>w, <1>11, FirstTaken DEF PumpLags
    <2>2. SeamTypeOK'
        BY <1>0, <1>11, <2>1 DEF PumpLags, SeamTypeOK
    <2> QED BY <1>11, <1>b, <1>k, <2>2 DEF PumpLags
<1>12. CASE UNCHANGED feedVars
    BY <1>0, <1>12, <1>k, <1>b, <1>s, <1>w DEF feedVars
<1> QED BY <1>1, <1>2, <1>3, <1>4, <1>5, <1>6, <1>7, <1>8, <1>9, <1>10, <1>11, <1>12 DEF FeedNext

-------------------------------------------------------------------------------
(* The backend. *)

\* What a step of the backend sends comes after, and is newer than, all that was
\* sent before, and there is a gap neither in the messages nor in the states.
Sends(e) ==
    /\ wire' = wire \o e
    /\ Ordered(e) /\ Sendable(e, lastSeq', Sent')
    /\ \A i \in DOMAIN e : /\ e[i].type = "message" => lastSeq < e[i].n
                           /\ e[i].type = "state" => Sent < e[i].n
    /\ lastSeq <= lastSeq' /\ rows <= rows' /\ Sent <= Sent'
    /\ \A m \in (lastSeq + 1)..lastSeq' : Waits(e, "message", m)
    /\ HasType(e, "state") => Waits(e, "state", Sent')
    /\ HasType(e, "state") \/ (Sent' = Sent /\ state \in {Sent', state'})
Backend ==
    \/ \E t \in Writers : Append1(t) \/ Broadcast(t)
    \/ RelayUpdate \/ RelaySend \/ FinishRun
Settles ==
    /\ relay = "updated" => state >= 1
    /\ lastSeq # rows => \E t \in Writers : writer[t] = "appended"

LEMMA NothingSent ==
    /\ <<>> \in Seq(Events) /\ DOMAIN <<>> = {} /\ Ordered(<<>>)
    /\ \A a, b : Sendable(<<>>, a, b)
    /\ \A type : ~ HasType(<<>>, type)
    /\ \A q \in Seq(Events) : q \o <<>> = q /\ <<>> \o q = q
<1>1. <<>> \in Seq(Events) /\ DOMAIN <<>> = {}
    OBVIOUS
<1>2. \A q \in Seq(Events) : q \o <<>> = q /\ <<>> \o q = q
    OBVIOUS
<1> QED BY <1>1, <1>2 DEF Ordered, Sendable, HasType

LEMMA BackSends ==
    ASSUME FeedTypeOK, BackInv, Backend
    PROVE  /\ \E e \in Seq(Events) : Sends(e)
           /\ UNCHANGED <<frontVars, seamVars>> /\ Settles'
<1>0. BackTypeOK /\ wire \in Seq(Events) /\ Settles /\ Sent \in Int
    BY FeedTypeParts DEF BackInv, Settles, BackTypeOK, SeamTypeOK, Sent
<1> DEFINE Goal == (\E e \in Seq(Events) : Sends(e)) /\ UNCHANGED <<frontVars, seamVars>> /\ Settles'
<1>1. ASSUME UNCHANGED <<wire, lastSeq>>, rows <= rows', Sent' = Sent, state \in {Sent', state'}
      PROVE  \E e \in Seq(Events) : Sends(e)
    <2>1. lastSeq \in Int /\ wire' = wire \o <<>> /\ (lastSeq + 1)..lastSeq' = {}
        BY <1>0, <1>1, NothingSent DEF BackTypeOK
    <2>2. lastSeq <= lastSeq' /\ Sent <= Sent'
        BY <1>0, <1>1, <2>1
    <2>3. Sends(<<>>)
        BY <1>1, <2>1, <2>2, NothingSent DEF Sends
    <2> QED BY <2>3, NothingSent
<1>2. ASSUME NEW t \in Writers, Append1(t) PROVE Goal
    <2>1. UNCHANGED <<wire, lastSeq, state, relay>> /\ rows <= rows' /\ UNCHANGED <<frontVars, seamVars>>
        BY <1>0, <1>2 DEF Append1, BackTypeOK
    <2>2. Sent' = Sent /\ state \in {Sent', state'}
        BY <2>1 DEF Sent
    <2>3. writer'[t] = "appended"
        BY <1>0, <1>2 DEF Append1, BackTypeOK
    <2>4. Settles'
        BY <1>0, <2>1, <2>3 DEF Settles
    <2> QED BY <1>1, <2>1, <2>2, <2>4
<1>3. ASSUME NEW t \in Writers, Broadcast(t) PROVE Goal
    <2> DEFINE e == Messages(lastSeq, rows)
    <2>1. /\ wire' = wire \o e /\ lastSeq' = rows /\ UNCHANGED <<rows, state, relay, frontVars, seamVars>>
        BY <1>3 DEF Broadcast
    <2>2. /\ e \in Seq(Events) /\ Ordered(e)
          /\ \A type : HasType(e, type) => type = "message"
          /\ \A m \in (lastSeq + 1)..rows : Waits(e, "message", m)
          /\ \A b : Sendable(e, rows, b)
          /\ \A i \in DOMAIN e : e[i].type = "message" /\ lastSeq < e[i].n
        BY <1>0, RowsSent DEF BackTypeOK
    <2>3. Sent' = Sent /\ state \in {Sent', state'}
        BY <2>1 DEF Sent
    <2>4. lastSeq <= lastSeq' /\ rows <= rows' /\ Sent <= Sent'
        BY <1>0, <2>1, <2>3 DEF BackTypeOK
    <2>5. Settles'
        BY <1>0, <2>1 DEF Settles
    <2> HIDE DEF e
    <2>6. Sends(e)
        BY <2>1, <2>2, <2>3, <2>4 DEF Sends
    <2> QED BY <2>1, <2>2, <2>5, <2>6
<1>4. ASSUME RelayUpdate PROVE Goal
    <2>1. UNCHANGED <<wire, lastSeq, rows, writer, frontVars, seamVars>> /\ state' = state + 1 /\ relay = "idle" /\ relay' = "updated"
        BY <1>4 DEF RelayUpdate
    <2>2. Sent' = Sent /\ state \in {Sent', state'}
        BY <1>0, <2>1 DEF Sent, BackTypeOK
    <2>3. Settles'
        BY <1>0, <2>1 DEF Settles, BackTypeOK
    <2>4. rows <= rows'
        BY <1>0, <2>1 DEF BackTypeOK
    <2> QED BY <1>1, <2>1, <2>2, <2>3, <2>4
<1>5. ASSUME NEW x \in Events, wire' = Append(wire, x), x.type \in {"state", "finished"},
             UNCHANGED <<rows, lastSeq, writer, state, frontVars, seamVars>>, Sent <= Sent', relay' = "idle",
             \/ x = Event("state", state) /\ Sent < state /\ Sent' = state
             \/ x.type = "finished" /\ Sent' = Sent /\ state = Sent
      PROVE  Goal
    <2>1. wire' = wire \o <<x>>
        BY <1>0, <1>5
    <2>2. lastSeq <= lastSeq' /\ rows <= rows' /\ (lastSeq + 1)..lastSeq' = {} /\ state \in Int
        BY <1>0, <1>5 DEF BackTypeOK
    <2>3. x.type = "state" => x.n = state /\ Sent < x.n /\ x = Event("state", Sent') /\ Sent' = state
        BY <1>5, EventKinds
    <2>g. Sendable(<<x>>, lastSeq', Sent')
        BY <1>5, <2>2, <2>3, OneEvent
    <2> DEFINE e == <<x>>
    <2>a. /\ e \in Seq(Events) /\ Ordered(e) /\ DOMAIN e = {1} /\ e[1] = x
          /\ \A type : HasType(e, type) <=> x.type = type
          /\ \A type, n : Waits(e, type, n) <=> x = Event(type, n)
        BY OneEvent
    <2>b. Sendable(e, lastSeq', Sent') /\ wire' = wire \o e
        BY <2>1, <2>g
    <2> HIDE DEF e
    <2>c. HasType(e, "state") => Waits(e, "state", Sent')
        BY <1>5, <2>3, <2>a
    <2>d. \A i \in DOMAIN e : /\ e[i].type = "message" => lastSeq < e[i].n
                             /\ e[i].type = "state" => Sent < e[i].n
        BY <1>5, <2>3, <2>a
    <2>e. HasType(e, "state") \/ (Sent' = Sent /\ state \in {Sent', state'})
        BY <1>5, <2>a, EventKinds
    <2>f. \A m \in (lastSeq + 1)..lastSeq' : Waits(e, "message", m)
        BY <2>2
    <2>4. Sends(e)
        BY <1>5, <2>2, <2>a, <2>b, <2>c, <2>d, <2>e, <2>f DEF Sends
    <2>5. Settles'
        BY <1>0, <1>5 DEF Settles
    <2> QED BY <1>5, <2>4, <2>5, <2>a
<1>6. ASSUME RelaySend PROVE Goal
    <2>1. /\ wire' = Append(wire, Event("state", state)) /\ relay' = "idle" /\ relay = "updated"
          /\ UNCHANGED <<rows, lastSeq, writer, state, frontVars, seamVars>>
        BY <1>6 DEF RelaySend
    <2>2. state \in 1..MaxState
        BY <1>0, <2>1 DEF BackTypeOK, Settles
    <2>3. Sent = state - 1 /\ Sent' = state
        BY <2>1 DEF Sent
    <2> QED BY <1>5, <2>1, <2>2, <2>3, EventKinds
<1>7. ASSUME FinishRun PROVE Goal
    <2>1. /\ wire' = Append(wire, Event("finished", 0)) /\ relay = "idle"
          /\ UNCHANGED <<rows, lastSeq, writer, state, relay, frontVars, seamVars>>
        BY <1>7 DEF FinishRun
    <2>2. Sent = state /\ Sent' = state /\ Sent <= Sent'
        BY <1>0, <2>1 DEF Sent, BackTypeOK
    <2> QED BY <1>5, <2>1, <2>2, EventKinds
<1> QED BY <1>2, <1>3, <1>4, <1>6, <1>7 DEF Backend

\* A bound may be raised.
LEMMA Raised ==
    ASSUME NEW q \in Seq(Events), NEW a \in Int, NEW b \in Int, NEW c \in Int, NEW d \in Int,
           a <= c, b <= d, Sendable(q, a, b)
    PROVE  Sendable(q, c, d)
<1> SUFFICES ASSUME NEW i \in DOMAIN q
             PROVE  /\ q[i].type = "message" => q[i].n <= c
                    /\ q[i].type = "state" => q[i].n <= d
    BY DEF Sendable
<1>1. q[i] \in Events
    OBVIOUS
<1>2. q[i].type \in {"message", "state"} => q[i].n \in Int
    BY <1>1, EventKinds, FeedBoundsAssumption
<1>3. /\ q[i].type = "message" => q[i].n <= a
      /\ q[i].type = "state" => q[i].n <= b
    BY DEF Sendable
<1> QED BY <1>2, <1>3

\* A sequence of events, all that was sent, stays in order.
LEMMA SendKeeps ==
    ASSUME FeedTypeOK, FeedTypeOK', NEW q \in Seq(Events), NEW e \in Seq(Events), Sends(e),
           InOrder(q), UNCHANGED lost
    PROVE  LET c == q \o e
           IN  /\ Ordered(c) /\ Sendable(c, lastSeq', Sent')
               /\ HasType(c, "state") => Waits(c, "state", Sent') \/ Event("state", Sent') \in lost'
<1>1. lastSeq \in Int /\ lastSeq' \in Int /\ Sent \in Int /\ Sent' \in Int
    BY FeedBoundsAssumption DEF FeedTypeOK, Sent
<1>2. Ordered(q) /\ Sendable(q, lastSeq, Sent) /\ NewestLast(q)
    BY DEF InOrder
<1>3. Sendable(q, lastSeq', Sent')
    BY <1>1, <1>2, Raised DEF Sends
<1>4. Ordered(q \o e) /\ Sendable(q \o e, lastSeq', Sent')
    BY <1>1, <1>2, <1>3, SentBehind DEF Sends
<1>5. HasType(q \o e, "state") => Waits(q \o e, "state", Sent') \/ Event("state", Sent') \in lost'
    <2>1. /\ HasType(e, "state") => Waits(e, "state", Sent')
          /\ HasType(e, "state") \/ Sent' = Sent
        BY DEF Sends
    <2>2. HasType(q, "state") => Waits(q, "state", Sent) \/ Event("state", Sent) \in lost
        BY <1>2 DEF NewestLast, Due
    <2>3. HasType(q \o e, "state") <=> HasType(q, "state") \/ HasType(e, "state")
        BY SentBehind
    <2>4. Waits(q \o e, "state", Sent') <=> Waits(q, "state", Sent') \/ Waits(e, "state", Sent')
        BY SentBehind
    <2> QED BY <2>1, <2>2, <2>3, <2>4
<1> QED BY <1>4, <1>5

\* The first event is taken: what is left is in order.
LEMMA TakenKeeps ==
    ASSUME FeedTypeOK, NEW q \in Seq(Events), q # <<>>, InOrder(q)
    PROVE  InOrder(Tail(q))
<1> DEFINE t == Tail(q)
           h == Head(q)
<1>1. Ordered(q) /\ Sendable(q, lastSeq, Sent) /\ NewestLast(q)
    BY DEF InOrder
<1>2. Ordered(t) /\ Sendable(t, lastSeq, Sent)
    BY <1>1, FirstTaken
<1>3. NewestLast(t)
    <2> SUFFICES ASSUME HasType(t, "state"), Event("state", Sent) \notin lost
                 PROVE  Waits(t, "state", Sent)
        BY DEF NewestLast, Due
    <2>1. Waits(q, "state", Sent)
        BY <1>1, FirstTaken DEF NewestLast, Due
    <2>2. CASE h = Event("state", Sent)
        <3>1. h.type = "state" /\ h.n = Sent
            BY <2>2, EventKinds
        <3>2. PICK i \in DOMAIN t : t[i].type = "state"
            BY DEF HasType
        <3>3. t \in Seq(Events) /\ t[i] \in Events /\ h \in Events
            BY FirstTaken
        <3>4. t[i] = Event("state", t[i].n) /\ t[i].n \in Int /\ h.n \in Int
            BY <3>1, <3>2, <3>3, EventKinds, FeedBoundsAssumption
        <3>5. t[i].n <= Sent
            BY <1>2, <3>2 DEF Sendable
        <3>6. Waits(t, "state", t[i].n)
            BY <3>4 DEF Waits
        <3>7. h.n < t[i].n
            BY <1>1, <3>1, <3>6, FirstTaken
        <3> QED BY <3>1, <3>4, <3>5, <3>7
    <2>3. CASE h # Event("state", Sent)
        BY <2>1, <2>3, FirstTaken
    <2> QED BY <2>2, <2>3
<1> QED BY <1>2, <1>3 DEF InOrder

LEMMA BackInit == FeedInit => BackInv
<1> SUFFICES ASSUME FeedInit PROVE BackInv
    OBVIOUS
<1>1. relay = "idle" /\ lastSeq = 0 /\ rows = 0 /\ wire = <<Event("started", 0)>>
    BY DEF FeedInit
<1>2. Ordered(wire) /\ Sendable(wire, lastSeq, Sent) /\ ~ HasType(wire, "state")
    BY <1>1, OneEvent, EventKinds
<1> QED BY <1>1, <1>2 DEF BackInv, InOrder, NewestLast

\* The pump drops an event from the wire.
LEMMA LagKeeps ==
    ASSUME FeedTypeOK, PumpLags, NEW b \in Seq(Events), InOrder(b \o wire)
    PROVE  LET c == b \o Tail(wire)
           IN  /\ Ordered(c) /\ Sendable(c, lastSeq, Sent)
               /\ HasType(c, "state") => Waits(c, "state", Sent) \/ Event("state", Sent) \in lost'
<1>1. wire # <<>> /\ wire \in Seq(Events) /\ lost' = lost \cup {Head(wire)}
    BY DEF PumpLags, FeedTypeOK
<1> DEFINE q == b \o wire
           c == b \o Tail(wire)
<1>2. Ordered(q) /\ Sendable(q, lastSeq, Sent) /\ NewestLast(q)
    BY DEF InOrder
<1>3. /\ Ordered(c) /\ Sendable(c, lastSeq, Sent)
      /\ HasType(c, "state") => HasType(q, "state")
      /\ Waits(q, "state", Sent) => Waits(c, "state", Sent) \/ Event("state", Sent) = Head(wire)
    BY <1>1, <1>2, OneLost
<1> HIDE DEF q, c
<1>4. HasType(c, "state") => Waits(c, "state", Sent) \/ Event("state", Sent) \in lost'
    BY <1>1, <1>2, <1>3 DEF NewestLast, Due
<1> QED BY <1>3, <1>4 DEF c

LEMMA BackStep ==
    ASSUME FeedTypeOK, FeedTypeOK', BackInv, [FeedNext]_feedVars
    PROVE  BackInv'
<1>0. wire \in Seq(Events)
    BY DEF FeedTypeOK
<1> DEFINE Fine == /\ Ordered(wire') /\ Sendable(wire', lastSeq', Sent')
                   /\ HasType(wire', "state") =>
                         Waits(wire', "state", Sent') \/ Event("state", Sent') \in lost'
<1>f. Fine => InOrder(wire)'
    BY DEF InOrder, NewestLast, Due, Ordered, Sendable, HasType, Waits
<1>1. CASE Backend
    <2>1. PICK e \in Seq(Events) : Sends(e)
        BY <1>1, BackSends
    <2>2. Settles' /\ wire' = wire \o e /\ UNCHANGED seamVars
        BY <1>1, <2>1, BackSends DEF Sends
    <2>3. UNCHANGED lost
        BY <2>2 DEF seamVars
    <2>4. Fine
        BY <1>0, <2>1, <2>2, <2>3, SendKeeps DEF BackInv
    <2> QED BY <1>f, <2>2, <2>4 DEF BackInv, Settles
<1>k. UNCHANGED backVars => UNCHANGED <<rows, lastSeq, writer, state, relay>> /\ Sent' = Sent
    BY DEF backVars, Sent
<1>2. CASE PumpLags
    <2>1. UNCHANGED backVars /\ wire' = Tail(wire)
        BY <1>2 DEF PumpLags
    <2>2. <<>> \in Seq(Events) /\ InOrder(<<>> \o wire) /\ <<>> \o wire' = wire' /\ wire' \in Seq(Events)
        BY <1>0, NothingSent DEF BackInv, FeedTypeOK
    <2>3. Fine
        BY <1>2, <1>k, <2>1, <2>2, LagKeeps
    <2> QED BY <1>f, <1>k, <2>1, <2>3 DEF BackInv
<1> DEFINE Moves == /\ UNCHANGED backVars /\ (wire' = wire \/ (wire # <<>> /\ wire' = Tail(wire)))
                    /\ \A n : Event("state", n) \in lost => Event("state", n) \in lost'
<1>3. CASE Moves
    <2>1. InOrder(wire')
        BY <1>0, <1>3, TakenKeeps DEF BackInv
    <2>2. Ordered(wire') /\ Sendable(wire', lastSeq, Sent)
          /\ (HasType(wire', "state") => Waits(wire', "state", Sent) \/ Event("state", Sent) \in lost)
        BY <2>1 DEF InOrder, NewestLast, Due
    <2>3. Fine
        BY <1>3, <1>k, <2>2
    <2> QED BY <1>3, <1>f, <1>k, <2>3 DEF BackInv
<1>4. ASSUME NEW r \in Resyncs, FinishResync(r)
      PROVE  \A n : Event("state", n) \in lost => Event("state", n) \in lost'
    <2>1. lost' = {e \in lost : e.type = "message" => e.n > resync[r].rows}
        BY <1>4 DEF FinishResync, ShowReplay
    <2> QED BY <2>1, EventKinds
<1>5. Flush \/ Route => UNCHANGED lost
    BY Zenon DEF Flush, Route, Deliver, seamVars
<1>6. Backend \/ PumpLags \/ Moves
    <2>1. CASE FeedNext
        <3>1. ASSUME NEW r \in Resyncs, FinishResync(r)
              PROVE  UNCHANGED <<backVars, wire>>
            BY <3>1 DEF FinishResync
        <3> QED BY <2>1, <1>4, <1>5, <3>1
              DEF FeedNext, Backend, Snapshot, StartChannel, SelectChannel, BeginResync, Flush,
                  Route, seamVars
    <2>2. CASE UNCHANGED feedVars
        BY <2>2 DEF feedVars, seamVars
    <2> QED BY <2>1, <2>2
<1> QED BY <1>1, <1>2, <1>3, <1>6

LEMMA FeedBack == FeedSpec => [](FeedTypeOK /\ BackInv)
<1>1. FeedInit => FeedTypeOK /\ BackInv
    BY FeedTypeInit, BackInit
<1>2. FeedTypeOK /\ BackInv /\ [FeedNext]_feedVars => (FeedTypeOK /\ BackInv)'
    BY FeedTypeStep, BackStep
<1> QED BY <1>1, <1>2, PTL DEF FeedSpec

\* Type correctness of the feed: of the rows, the events under way, the calls of
\* resync and the channel on the screen.
THEOREM FeedTypeCorrect == FeedSpec => []FeedTypeOK
BY FeedBack, PTL

\* However the writers race between append and broadcast (handle_bus_event), the
\* messages under way are in the order of the ledger, none twice.
THEOREM BroadcastKeepsOrder == FeedSpec => []BroadcastInOrder
<1>1. FeedTypeOK /\ BackInv => BroadcastInOrder
    BY DEF BackInv, InOrder, Ordered, BroadcastInOrder
<1> QED BY <1>1, FeedBack, PTL

-------------------------------------------------------------------------------
(* The screen. *)

LEMMA SameEvents ==
    ASSUME NEW u \in Seq(Events), NEW v \in Seq(Events), Len(u) = Len(v),
           \A i \in 1..Len(u) : u[i] = v[i]
    PROVE  u = v
OBVIOUS

LEMMA Joined ==
    ASSUME NEW b \in Seq(Events), NEW w \in Seq(Events)
    PROVE  /\ b \o w \in Seq(Events)
           /\ b # <<>> => /\ b \o w # <<>> /\ Head(b \o w) = Head(b)
                          /\ Tail(b) \o w = Tail(b \o w)
           /\ w # <<>> => Append(b, Head(w)) \o Tail(w) = b \o w
           /\ \A e \in Seq(Events) : b \o (w \o e) = (b \o w) \o e
<1>1. b \o w \in Seq(Events)
    OBVIOUS
<1>2. ASSUME b # <<>>
      PROVE  b \o w # <<>> /\ Head(b \o w) = Head(b) /\ Tail(b) \o w = Tail(b \o w)
    <2>1. Len(b) > 0 /\ Len(b) \in Nat /\ Len(b \o w) = Len(b) + Len(w) /\ Len(w) \in Nat
        BY <1>2
    <2>2. b \o w # <<>> /\ Head(b \o w) = Head(b)
        BY <1>2, <2>1
    <2> DEFINE u == Tail(b) \o w
               v == Tail(b \o w)
    <2>3. u \in Seq(Events) /\ v \in Seq(Events) /\ Len(u) = Len(v)
        BY <1>1, <1>2, <2>1, <2>2
    <2>4. \A i \in 1..Len(u) : u[i] = v[i]
        BY <1>1, <1>2, <2>1, <2>2
    <2> HIDE DEF u, v
    <2>5. u = v
        BY <2>3, <2>4, SameEvents
    <2> QED BY <2>2, <2>5 DEF u, v
<1>3. ASSUME w # <<>> PROVE Append(b, Head(w)) \o Tail(w) = b \o w
    <2> DEFINE u == Append(b, Head(w)) \o Tail(w)
               v == b \o w
    <2>1. Len(w) > 0 /\ Len(b) \in Nat /\ Len(w) \in Nat
        BY <1>3
    <2>2. u \in Seq(Events) /\ v \in Seq(Events) /\ Len(u) = Len(v)
        BY <1>3, <2>1
    <2>3. \A i \in 1..Len(u) : u[i] = v[i]
        BY <1>3, <2>1
    <2> HIDE DEF u, v
    <2>4. u = v
        BY <2>2, <2>3, SameEvents
    <2> QED BY <2>4 DEF u, v
<1>4. ASSUME NEW e \in Seq(Events) PROVE b \o (w \o e) = (b \o w) \o e
    <2> DEFINE u == b \o (w \o e)
               v == (b \o w) \o e
    <2>1. u \in Seq(Events) /\ v \in Seq(Events) /\ Len(u) = Len(v)
        OBVIOUS
    <2>2. \A i \in 1..Len(u) : u[i] = v[i]
        OBVIOUS
    <2> HIDE DEF u, v
    <2>3. u = v
        BY <2>1, <2>2, SameEvents
    <2> QED BY <2>3 DEF u, v
<1> QED BY <1>1, <1>2, <1>3, <1>4

\* What a message adds to those shown.
Ascending(m) == \A i, j \in DOMAIN m : i < j => m[i] < m[j]
LEMMA Ascends ==
    ASSUME NEW m \in Seq(1..MaxRows), NEW n \in 1..MaxRows, \A i \in DOMAIN m : m[i] < n, Ascending(m)
    PROVE  LET a == Append(m, n)
           IN  /\ Ascending(a)
               /\ \A i \in DOMAIN a : a[i] = n \/ \E j \in DOMAIN m : a[i] = m[j]
               /\ \A j \in DOMAIN m : \E i \in DOMAIN a : a[i] = m[j]
               /\ \E i \in DOMAIN a : a[i] = n
<1> DEFINE a == Append(m, n)
<1>1. /\ Len(m) \in Nat /\ DOMAIN m = 1..Len(m) /\ DOMAIN a = 1..(Len(m) + 1)
      /\ a[Len(m) + 1] = n /\ \A i \in 1..Len(m) : a[i] = m[i]
    OBVIOUS
<1> HIDE DEF a
<1>2. \A i \in DOMAIN a : i \in Int /\ (i \in DOMAIN m \/ i = Len(m) + 1)
    BY <1>1
<1>3. Ascending(a)
    BY <1>1, <1>2 DEF Ascending
<1> QED BY <1>1, <1>2, <1>3 DEF a

\* The next event is applied, to the screen if the store has the channel.
Takes ==
    /\ Stream # <<>> /\ Deliver(Head(Stream)) /\ Stream' = Tail(Stream)
    /\ ~ replaying
    /\ open \/ UNCHANGED buffered
    /\ UNCHANGED <<backVars, open, replaying, resync>>
\* Nothing is applied.
Waiting ==
    /\ Stream' = Stream /\ open
    /\ UNCHANGED <<backVars, open, replaying, resync, last, channel, lost, alone, clean>>

LEMMA FrontTakes ==
    ASSUME FeedTypeOK, OneReplay, Flush \/ Route PROVE Takes \/ Waiting
<1>0. buffered \in Seq(Events) /\ wire \in Seq(Events) /\ replaying \in BOOLEAN /\ open \in BOOLEAN
    BY DEF FeedTypeOK
<1>1. CASE Flush
    <2>1. /\ buffered # <<>> /\ ~ replaying /\ buffered' = Tail(buffered)
          /\ Deliver(Head(buffered)) /\ UNCHANGED <<backVars, wire, open, replaying, resync>>
        BY <1>1 DEF Flush, TurnOver
    <2>2. /\ Stream # <<>> /\ Head(Stream) = Head(buffered) /\ Tail(Stream) = Tail(buffered) \o wire
        BY <1>0, <2>1, Joined DEF Stream
    <2>3. Stream' = Tail(Stream)
        BY <2>1, <2>2 DEF Stream
    <2>4. open
        BY <2>1 DEF OneReplay
    <2> QED BY <2>1, <2>2, <2>3, <2>4 DEF Takes
<1>2. CASE Route /\ replaying
    <2>1. /\ wire # <<>> /\ wire' = Tail(wire) /\ buffered' = Append(buffered, Head(wire))
          /\ UNCHANGED <<backVars, open, replaying, resync, last, channel, seamVars>>
        BY <1>2 DEF Route
    <2>2. Stream' = Stream
        BY <1>0, <2>1, Joined DEF Stream
    <2>3. open
        BY <1>2 DEF OneReplay
    <2> QED BY <2>1, <2>2, <2>3 DEF Waiting, seamVars
<1>3. CASE Route /\ ~ replaying
    <2>1. /\ wire # <<>> /\ wire' = Tail(wire) /\ buffered = <<>> /\ buffered' = buffered
          /\ Deliver(Head(wire)) /\ UNCHANGED <<backVars, open, replaying, resync>>
        BY <1>3 DEF Route, TurnOver
    <2>2. Stream = wire /\ Stream' = wire'
        BY <1>0, <2>1, NothingSent, FirstTaken DEF Stream
    <2> QED BY <1>3, <2>1, <2>2 DEF Takes
<1> QED BY <1>1, <1>2, <1>3

LEMMA StreamType == FeedTypeOK => Stream \in Seq(Events)
BY Joined DEF FeedTypeOK, Stream

\* What was sent and not yet applied, when the next event is.
LEMMA StreamTaken ==
    ASSUME FeedTypeOK, InOrder(Stream), Takes
    PROVE  InOrder(Stream)'
<1>0. Stream \in Seq(Events) /\ Stream # <<>> /\ Stream' = Tail(Stream)
    BY StreamType DEF Takes
<1>1. Head(Stream) \in Events /\ Deliver(Head(Stream))
    BY <1>0, FirstTaken DEF Takes
<1>2. UNCHANGED <<lastSeq, relay, state>> /\ Sent' = Sent
    BY DEF Takes, backVars, Sent
<1>3. UNCHANGED lost
    BY <1>1, DeliverySeam
<1>4. InOrder(Stream')
    BY <1>0, TakenKeeps
<1> QED BY <1>2, <1>3, <1>4 DEF InOrder, Ordered, Sendable, NewestLast, Due, HasType, Waits

\* The next event on an open screen.
LEMMA ScreenTakes ==
    ASSUME FeedTypeOK, FrontInv, Takes, open
    PROVE  NoHole' /\ NoneAhead' /\ (clean' => ScreenFits')
<1> DEFINE q == Stream
           t == Tail(Stream)
           h == Head(Stream)
           shown == channel.messages
           Gone(n) == Event("message", n) \in lost
<1>0. q \in Seq(Events) /\ q # <<>> /\ Stream' = t /\ h \in Events /\ t \in Seq(Events)
    BY StreamType, FirstTaken DEF Takes
<1>1. /\ UNCHANGED <<lastSeq, open, relay, state, rows>> /\ Sent' = Sent
      /\ ~ replaying /\ Deliver(h)
    BY DEF Takes, backVars, Sent
<1>c. (clean' => clean) /\ UNCHANGED lost
    BY <1>0, <1>1, DeliverySeam
<1>2. Ordered(q) /\ Sendable(q, lastSeq, Sent) /\ NewestLast(q)
    BY DEF FrontInv, InOrder
<1>3. /\ Ascending(shown) /\ (\A n \in Shown(channel) : n <= last)
      /\ clean => /\ last <= rows /\ Covers(q, last) /\ UpToDate(q, channel.state)
                  /\ \A n \in 1..last : n \in Shown(channel) \/ Gone(n)
    BY <1>1 DEF FrontInv, ScreenFits, NoHole, NoneAhead, Ascending, Missed
<1>4. /\ lastSeq \in Int /\ rows \in Int /\ last \in Nat /\ lastSeq <= rows /\ rows <= MaxRows /\ MaxRows \in Nat
      /\ shown \in Seq(1..MaxRows) /\ Sent \in Int
    BY FeedTypeParts, FeedBoundsAssumption DEF BackTypeOK, FrontTypeOK, Channels, Sent
<1>5. /\ h.type \in {"started", "finished", "message", "state"}
      /\ h.type = "message" => h.n \in 1..MaxRows /\ h.n <= lastSeq
      /\ h = Event(h.type, h.n)
    BY <1>0, <1>2, EventKinds, FirstTaken
<1>6. ASSUME NEW upTo \in Nat, Covers(q, upTo), h.type = "message" => h.n <= upTo
      PROVE  Covers(t, upTo)
    <2> SUFFICES ASSUME NEW m \in (upTo + 1)..lastSeq PROVE Due(t, "message", m)
        BY DEF Covers
    <2>1. Due(q, "message", m)
        BY <1>6 DEF Covers
    <2>2. h # Event("message", m)
        BY <1>4, <1>6, EventKinds
    <2> QED BY <1>0, <2>1, <2>2, FirstTaken DEF Due
<1>7. ASSUME h.type # "state", NEW c, UpToDate(q, c) PROVE UpToDate(t, c)
    <2>1. h # Event("state", Sent)
        BY <1>7, EventKinds
    <2> QED BY <1>0, <1>7, <2>1, FirstTaken DEF UpToDate, Due
<1> DEFINE Fits(c, l) == /\ l <= rows /\ Covers(t, l) /\ UpToDate(t, c.state)
                         /\ \A n \in 1..l : n \in Shown(c) \/ Gone(n)
           Goal == /\ Ascending(channel'.messages) /\ (\A n \in Shown(channel') : n <= last')
                   /\ clean' => Fits(channel', last')
<1>8. SUFFICES Goal
    <2> SUFFICES ASSUME Goal PROVE NoHole' /\ NoneAhead' /\ (clean' => ScreenFits')
        OBVIOUS
    <2>0. channel' \in Channels /\ last' \in 0..MaxRows
        BY <1>0, <1>1, Delivery
    <2>1. NoneAhead' /\ (\A i, j \in DOMAIN channel.messages : i < j => channel.messages[i] < channel.messages[j])'
        BY DEF NoneAhead, Shown, Ascending
    <2>2. ASSUME clean' PROVE ScreenFits' /\ \A n \in 1..last' : ~ Missed(n)'
        <3>1. Covers(Stream', last') /\ UpToDate(Stream', channel'.state)
            BY <1>0, <2>2
        <3>2. Covers(Stream, last)' /\ UpToDate(Stream, channel.state)'
            BY <1>1, <1>c, <3>1 DEF Covers, UpToDate, Due, Waits
        <3>3. \A n \in 1..last' : ~ Missed(n)'
            BY <1>c, <2>2 DEF Missed, Shown
        <3> QED BY <1>1, <2>2, <3>2, <3>3 DEF ScreenFits
    <2>3. ASSUME clean' PROVE (\A i \in DOMAIN channel.messages :
                                 \A n \in 1..channel.messages[i] : ~ Missed(n))'
        <3> SUFFICES ASSUME NEW i \in DOMAIN channel'.messages, NEW n \in 1..channel'.messages[i]
                     PROVE  ~ Missed(n)'
            OBVIOUS
        <3>0. channel'.messages[i] \in Shown(channel') /\ channel'.messages \in Seq(1..MaxRows)
            BY <2>0 DEF Shown, Channels
        <3>1. channel'.messages[i] <= last' /\ channel'.messages[i] \in Int
            BY <3>0, <1>4
        <3>2. n \in 1..last'
            BY <2>0, <3>1, <1>4
        <3> QED BY <2>2, <2>3, <3>2
    <2> QED BY <2>1, <2>2, <2>3 DEF NoHole
<1>9. CASE h.type = "message" /\ h.n <= last
    <2>1. last' = last /\ channel' = channel
        BY <1>0, <1>1, <1>9, Delivery
    <2> QED BY <1>3, <1>4, <1>6, <1>7, <1>9, <1>c, <2>1
<1>10. CASE h.type = "message" /\ ~ h.n <= last
    <2>1. h.n \notin Shown(channel)
        BY <1>3, <1>10
    <2>2. last' = h.n /\ channel'.messages = Append(shown, h.n) /\ channel'.state = channel.state
        BY <1>0, <1>1, <1>10, <2>1, Delivery
    <2>3. h.n \in 1..MaxRows /\ h.n <= lastSeq /\ last < h.n /\ h.n \in Int
        BY <1>4, <1>5, <1>10
    <2>4. \A i \in DOMAIN shown : shown[i] <= last /\ shown[i] \in Int
        BY <1>3, <1>4 DEF Shown
    <2>5. \A i \in DOMAIN shown : shown[i] < h.n
        BY <1>4, <2>3, <2>4
    <2> DEFINE a == Append(shown, h.n)
    <2>a. /\ Ascending(a)
          /\ \A i \in DOMAIN a : a[i] = h.n \/ \E j \in DOMAIN shown : a[i] = shown[j]
          /\ \A j \in DOMAIN shown : \E i \in DOMAIN a : a[i] = shown[j]
          /\ \E i \in DOMAIN a : a[i] = h.n
        <3>1. shown \in Seq(1..MaxRows) /\ h.n \in 1..MaxRows /\ Ascending(shown)
            BY <1>3, <1>4, <2>3
        <3> HIDE DEF shown, h
        <3> QED BY <2>5, <3>1, Ascends
    <2>b. channel'.messages = a
        BY <2>2
    <2> HIDE DEF a
    <2>6. /\ Ascending(channel'.messages)
          /\ \A n \in Shown(channel') : n = h.n \/ n \in Shown(channel)
          /\ \A n : (n = h.n \/ n \in Shown(channel)) => n \in Shown(channel')
        BY <2>a, <2>b DEF Shown
    <2>7. \A n \in Shown(channel') : n <= last'
        BY <2>2, <2>3, <2>4, <2>6, <1>4 DEF Shown
    <2>8. ASSUME clean' PROVE Fits(channel', last')
        <3>0. clean
            BY <1>c, <2>8
        <3>1. h.n <= rows
            BY <1>4, <2>3
        <3>2. Covers(q, h.n)
            BY <1>3, <1>4, <2>3, <3>0 DEF Covers
        <3>3. Covers(t, h.n)
            BY <1>6, <2>3, <3>2
        <3>4. UpToDate(t, channel'.state)
            BY <1>3, <1>7, <1>10, <2>2, <3>0
        <3>5. ASSUME NEW n \in 1..h.n PROVE n \in Shown(channel') \/ Gone(n)
            <4>1. CASE n <= last
                BY <1>3, <1>4, <2>6, <3>0, <4>1
            <4>2. CASE n = h.n
                BY <2>6, <4>2
            <4>3. CASE last < n /\ n < h.n
                <5>1. n \in (last + 1)..lastSeq
                    BY <1>4, <2>3, <4>3
                <5>2. Waits(q, "message", n) \/ Gone(n)
                    BY <1>3, <3>0, <5>1 DEF Covers, Due
                <5>3. h # Event("message", n)
                    BY <2>3, <4>3, EventKinds
                <5>4. Waits(t, "message", n) => h.n < n
                    BY <1>0, <1>2, <1>10, FirstTaken
                <5>5. Waits(q, "message", n) => Waits(t, "message", n)
                    BY <1>0, <5>3, FirstTaken
                <5> QED BY <2>3, <4>3, <5>2, <5>4, <5>5
            <4> QED BY <1>4, <2>3, <4>1, <4>2, <4>3
        <3> QED BY <2>2, <3>1, <3>3, <3>4, <3>5
    <2> QED BY <2>6, <2>7, <2>8
<1>11. CASE h.type = "state"
    <2>1. last' = last /\ channel'.messages = shown /\ channel'.state = h.n
        BY <1>0, <1>1, <1>11, Delivery
    <2>2. UpToDate(t, h.n)
        <3>1. Due(q, "state", Sent)
            BY <1>0, <1>2, <1>11, FirstTaken DEF NewestLast
        <3>2. Due(t, "state", Sent) \/ h = Event("state", Sent)
            BY <1>0, <3>1, FirstTaken DEF Due
        <3> QED BY <3>2, EventKinds DEF UpToDate
    <2>3. Shown(channel') = Shown(channel)
        BY <2>1 DEF Shown
    <2> QED BY <1>3, <1>4, <1>6, <1>11, <1>c, <2>1, <2>2, <2>3
<1>12. CASE h.type = "finished"
    <2>1. last' = last /\ channel'.messages = shown /\ channel'.state = channel.state
        BY <1>0, <1>1, <1>12, Delivery
    <2>2. Shown(channel') = Shown(channel)
        BY <2>1 DEF Shown
    <2> QED BY <1>3, <1>4, <1>6, <1>7, <1>12, <1>c, <2>1, <2>2
<1>13. CASE h.type = "started"
    <2>1. last' = last /\ channel'.messages = <<>> /\ channel'.state = 0
        BY <1>0, <1>1, <1>13, Delivery
    <2>2. Ascending(channel'.messages) /\ Shown(channel') = {}
        BY <2>1 DEF Ascending, Shown
    <2>3. ASSUME clean' PROVE Fits(channel', last')
        <3>1. shown = <<>> /\ channel.state = 0 /\ clean
            BY <1>0, <1>1, <1>13, <1>c, <2>3, DeliverySeam
        <3>2. Shown(channel) = {}
            BY <3>1 DEF Shown
        <3> QED BY <1>3, <1>4, <1>6, <1>7, <1>13, <2>1, <2>2, <3>1, <3>2
    <2> QED BY <2>2, <2>3
<1> QED BY <1>5, <1>9, <1>10, <1>11, <1>12, <1>13

\* A step that applies nothing and asks for nothing: what the screen, or a snapshot,
\* lacks is still only what is on its way or was dropped there.
LEMMA FrontKeeps ==
    ASSUME FeedTypeOK, FeedTypeOK', FrontInv, InOrder(Stream)',
           UNCHANGED <<open, replaying, resync, last, channel, alone, clean>>,
           open \/ UNCHANGED buffered,
           rows <= rows', lost \subseteq lost',
           \A type, n : Waits(Stream, type, n) =>
                          Waits(Stream', type, n) \/ Event(type, n) \in lost',
           \A m \in (lastSeq + 1)..lastSeq' : Waits(Stream', "message", m),
           Waits(Stream', "state", Sent') \/ (Sent' = Sent /\ state \in {Sent', state'})
    PROVE  FrontInv'
<1>0. lastSeq \in Int /\ lastSeq' \in Int /\ rows \in Int /\ rows' \in Int
    BY DEF FeedTypeOK
<1>1. ASSUME NEW upTo \in Int, Covers(Stream, upTo)
      PROVE  \A m \in (upTo + 1)..lastSeq' :
                Waits(Stream', "message", m) \/ Event("message", m) \in lost'
    <2> TAKE m \in (upTo + 1)..lastSeq'
    <2>1. m \in (upTo + 1)..lastSeq \/ m \in (lastSeq + 1)..lastSeq'
        BY <1>0
    <2> QED BY <1>1, <2>1 DEF Covers, Due
<1>2. ASSUME NEW c, UpToDate(Stream, c)
      PROVE  \/ Waits(Stream', "state", Sent') \/ Event("state", Sent') \in lost'
             \/ c = Sent' \/ c = state'
    BY <1>2 DEF UpToDate, Due
<1>3. \A n : ~ Missed(n) => ~ Missed(n)'
    BY DEF Missed
<1>4. OneReplay'
    BY DEF FrontInv, OneReplay, InFlight
<1>5. NoHole' /\ (~ replaying' => NoneAhead')
    BY <1>3 DEF FrontInv, NoHole, NoneAhead
<1>6. ASSUME alone', NEW r \in Resyncs, (resync[r].at = "answered")' PROVE SnapshotFits(r)'
    <2>1. SnapshotFits(r) /\ resync[r].rows \in Int
        BY <1>6 DEF FrontInv, FeedTypeOK
    <2>2. /\ Covers(Stream, resync[r].rows) /\ UpToDate(Stream, resync[r].state)
          /\ resync[r].rows <= rows
        BY <2>1 DEF SnapshotFits
    <2>3. resync'[r].rows <= rows'
        BY <1>0, <2>1, <2>2
    <2>4. (Covers(Stream, resync[r].rows) /\ UpToDate(Stream, resync[r].state))'
        BY <1>1, <1>2, <2>1, <2>2 DEF Covers, UpToDate, Due, Waits
    <2> QED BY <2>3, <2>4 DEF SnapshotFits
<1>7. ASSUME clean', ~ replaying' PROVE ScreenFits'
    <2>1. ScreenFits /\ last \in Int
        BY <1>7 DEF FrontInv, FeedTypeOK
    <2>2. /\ Covers(Stream, last) /\ UpToDate(Stream, channel.state) /\ last <= rows
          /\ \A n \in 1..last : ~ Missed(n)
        BY <2>1 DEF ScreenFits
    <2>3. last' <= rows' /\ \A n \in 1..last' : ~ Missed(n)'
        BY <1>0, <1>3, <2>1, <2>2
    <2>4. (Covers(Stream, last) /\ UpToDate(Stream, channel.state))'
        BY <1>1, <1>2, <2>1, <2>2 DEF Covers, UpToDate, Due, Waits
    <2> QED BY <2>3, <2>4 DEF ScreenFits
<1> QED BY <1>4, <1>5, <1>6, <1>7 DEF FrontInv

LEMMA FrontSends ==
    ASSUME FeedTypeOK, FeedTypeOK', BackInv, FrontInv, Backend
    PROVE  FrontInv'
<1>1. PICK e \in Seq(Events) : Sends(e)
    BY BackSends
<1>2. UNCHANGED <<open, replaying, buffered, last, resync, channel, lost, alone, clean>>
    BY BackSends DEF frontVars, seamVars
<1> DEFINE q == Stream
<1>3. q \in Seq(Events) /\ Stream' = q \o e
    <2>1. buffered \in Seq(Events) /\ wire \in Seq(Events) /\ wire' = wire \o e /\ buffered' = buffered
        BY <1>1, <1>2 DEF FeedTypeOK, Sends
    <2>2. Stream' = buffered \o (wire \o e)
        BY <2>1 DEF Stream
    <2> QED BY <2>1, <2>2, Joined DEF Stream
<1>4. InOrder(q)
    BY DEF FrontInv
<1> HIDE DEF q
<1>5. InOrder(Stream)'
    <2>1. /\ Ordered(Stream') /\ Sendable(Stream', lastSeq', Sent')
          /\ HasType(Stream', "state") =>
                Waits(Stream', "state", Sent') \/ Event("state", Sent') \in lost'
        BY <1>1, <1>2, <1>3, <1>4, SendKeeps
    <2> QED BY <2>1 DEF InOrder, Ordered, Sendable, NewestLast, Due, HasType, Waits
<1>6. \A type, n : Waits(q, type, n) \/ Waits(e, type, n) => Waits(Stream', type, n)
    BY <1>3, SentBehind
<1>7. /\ rows <= rows' /\ \A m \in (lastSeq + 1)..lastSeq' : Waits(e, "message", m)
      /\ Waits(e, "state", Sent') \/ (Sent' = Sent /\ state \in {Sent', state'})
    BY <1>1 DEF Sends
<1>8. \A type, n : Waits(Stream, type, n) => Waits(Stream', type, n)
    BY <1>6 DEF q
<1> QED BY <1>2, <1>5, <1>6, <1>7, <1>8, FrontKeeps

\* The pump drops the event that is next on the wire.
LEMMA FrontLags ==
    ASSUME FeedTypeOK, FeedTypeOK', FrontInv, PumpLags
    PROVE  FrontInv'
<1>1. /\ wire # <<>> /\ wire' = Tail(wire) /\ lost' = lost \cup {Head(wire)}
      /\ UNCHANGED <<backVars, frontVars, alone, clean>>
    BY DEF PumpLags
<1>2. /\ UNCHANGED <<open, replaying, resync, last, channel, buffered, alone, clean>>
      /\ UNCHANGED <<rows, lastSeq, relay, state>> /\ Sent' = Sent
    BY <1>1 DEF backVars, frontVars, Sent
<1>3. /\ buffered \in Seq(Events) /\ wire \in Seq(Events) /\ lastSeq \in Int /\ rows \in Int
    BY DEF FeedTypeOK
<1>4. Stream' = buffered \o Tail(wire) /\ Stream = buffered \o wire
    BY <1>1, <1>2 DEF Stream
<1>5. InOrder(buffered \o wire)
    BY <1>4 DEF FrontInv
<1>6. InOrder(Stream)'
    <2>1. /\ Ordered(Stream') /\ Sendable(Stream', lastSeq, Sent)
          /\ HasType(Stream', "state") =>
                Waits(Stream', "state", Sent) \/ Event("state", Sent) \in lost'
        BY <1>3, <1>4, <1>5, LagKeeps
    <2> QED BY <1>2, <2>1 DEF InOrder, Ordered, Sendable, NewestLast, Due, HasType, Waits
<1>7. \A type, n : Waits(Stream, type, n) => Waits(Stream', type, n) \/ Event(type, n) \in lost'
    BY <1>1, <1>3, <1>4, OneLost
<1>8. rows <= rows' /\ lost \subseteq lost' /\ (lastSeq + 1)..lastSeq' = {} /\ state \in {Sent', state'}
    BY <1>1, <1>2, <1>3
<1> QED BY <1>2, <1>6, <1>7, <1>8, FrontKeeps

LEMMA FrontWaits ==
    ASSUME FeedTypeOK, FeedTypeOK', FrontInv, Stream' = Stream,
           UNCHANGED <<backVars, open, replaying, resync, last, channel, lost, alone, clean>>,
           open \/ UNCHANGED buffered
    PROVE  FrontInv'
<1>1. UNCHANGED <<lastSeq, rows, state, relay>> /\ Sent' = Sent /\ lastSeq \in Int /\ rows \in Int
    BY DEF backVars, Sent, FeedTypeOK
<1>2. InOrder(Stream)'
    BY <1>1 DEF FrontInv, InOrder, Ordered, Sendable, NewestLast, Due, HasType, Waits
<1>3. rows <= rows' /\ (lastSeq + 1)..lastSeq' = {} /\ state \in {Sent', state'} /\ lost \subseteq lost'
    BY <1>1
<1> QED BY <1>1, <1>2, <1>3, FrontKeeps

LEMMA FrontTaken ==
    ASSUME FeedTypeOK, FrontInv, Takes
    PROVE  FrontInv'
<1>1. UNCHANGED <<open, replaying, resync>> /\ ~ replaying /\ (open \/ UNCHANGED buffered)
    BY DEF Takes
<1>2. Head(Stream) \in Events /\ Deliver(Head(Stream))
    BY StreamType, FirstTaken DEF Takes
<1>3. alone' = alone /\ (clean' => clean)
    BY <1>2, DeliverySeam
<1>4. alone => \A r \in Resyncs : ~ InFlight(r)
    BY <1>1 DEF FrontInv, OneReplay
<1>5. alone' => \A r \in Resyncs : (resync[r].at = "answered")' => SnapshotFits(r)'
    BY <1>1, <1>3, <1>4 DEF InFlight
<1>6. InOrder(Stream)'
    BY StreamTaken DEF FrontInv
<1>7. CASE open
    <2>1. NoHole' /\ NoneAhead' /\ (clean' => ScreenFits')
        BY <1>7, ScreenTakes
    <2>2. OneReplay'
        BY <1>1, <1>3, <1>7 DEF FrontInv, OneReplay, InFlight
    <2> QED BY <1>5, <1>6, <2>1, <2>2 DEF FrontInv
<1>8. CASE ~ open
    <2>1. channel' = channel /\ buffered' = buffered /\ channel = Empty /\ ~ clean
        BY <1>1, <1>2, <1>8, Delivery DEF FrontInv, OneReplay
    <2>2. OneReplay'
        BY <1>1, <1>3, <1>8, <2>1 DEF FrontInv, OneReplay, InFlight
    <2>3. NoHole' /\ NoneAhead'
        <3>1. channel'.messages = <<>>
            BY <2>1 DEF Empty
        <3> QED BY <3>1 DEF NoHole, NoneAhead, Shown
    <2> QED BY <1>3, <1>5, <1>6, <2>1, <2>2, <2>3 DEF FrontInv
<1> QED BY <1>7, <1>8

LEMMA FrontAnswered ==
    ASSUME FeedTypeOK, FrontInv, NEW r \in Resyncs, Snapshot(r)
    PROVE  FrontInv'
<1>1. /\ resync[r].at = "asked"
      /\ resync' = [resync EXCEPT ![r] = [at |-> "answered", rows |-> rows, state |-> state]]
      /\ UNCHANGED <<backVars, wire, open, replaying, buffered, last, channel, seamVars>>
    BY DEF Snapshot
<1>2. UNCHANGED <<lastSeq, rows, state, relay, lost, alone, clean>> /\ Sent' = Sent
    BY <1>1 DEF backVars, seamVars, Sent
<1>3. Stream' = Stream
    BY <1>1 DEF Stream
<1>4. /\ resync'[r] = [at |-> "answered", rows |-> rows, state |-> state]
      /\ \A o \in Resyncs : o # r => resync'[o] = resync[o]
    BY <1>1 DEF FeedTypeOK
<1>5. \A o \in Resyncs : InFlight(o)' <=> InFlight(o)
    BY <1>1, <1>4 DEF InFlight
<1>6. OneReplay'
    BY <1>1, <1>2, <1>5 DEF FrontInv, OneReplay
<1>7. NoHole' /\ (~ replaying' => NoneAhead')
    BY <1>1, <1>2 DEF FrontInv, NoHole, NoneAhead, Missed
<1>8. InOrder(Stream)'
    BY <1>2, <1>3 DEF FrontInv, InOrder, Ordered, Sendable, NewestLast, Due, HasType, Waits
<1>9. ASSUME alone', NEW o \in Resyncs, (resync[o].at = "answered")' PROVE SnapshotFits(o)'
    <2>1. CASE o = r
        <3>1. resync'[o].rows = rows /\ resync'[o].state = state
            BY <1>4, <2>1
        <3>2. rows <= rows /\ (rows + 1)..lastSeq = {}
            BY DEF FeedTypeOK
        <3> QED BY <1>2, <1>3, <3>1, <3>2 DEF SnapshotFits, Covers, UpToDate
    <2>2. CASE o # r
        <3>1. SnapshotFits(o) /\ resync'[o] = resync[o]
            BY <1>2, <1>4, <1>9, <2>2 DEF FrontInv
        <3> QED BY <1>2, <1>3, <3>1 DEF SnapshotFits, Covers, UpToDate, Due, Waits
    <2> QED BY <2>1, <2>2
<1>10. clean' /\ ~ replaying' => ScreenFits'
    <2>1. ASSUME ScreenFits PROVE ScreenFits'
        BY <1>1, <1>2, <1>3, <2>1 DEF ScreenFits, Covers, UpToDate, Due, Waits, Missed
    <2> QED BY <1>1, <1>2, <2>1 DEF FrontInv
<1> QED BY <1>6, <1>7, <1>8, <1>9, <1>10 DEF FrontInv

\* A resync begins: what was buffered for another is dropped, and the screen stays
\* as it is.
LEMMA FrontBegins ==
    ASSUME FeedTypeOK, BackInv, FrontInv, NEW r \in Resyncs, StartChannel(r) \/ SelectChannel(r)
    PROVE  FrontInv'
<1>1. /\ alone' = ~ \E o \in Resyncs : InFlight(o)
      /\ resync' = [resync EXCEPT ![r].at = "asked"]
      /\ replaying' = TRUE /\ buffered' = <<>>
      /\ UNCHANGED <<backVars, wire, channel, lost, clean>>
    BY DEF StartChannel, SelectChannel, BeginResync
<1>2. open'
    BY DEF StartChannel, SelectChannel
<1>3. UNCHANGED <<lastSeq, rows, state, relay>> /\ Sent' = Sent
    BY <1>1 DEF backVars, Sent
<1>4. Stream' = wire
    BY <1>1, NothingSent DEF Stream, FeedTypeOK
<1>5. InOrder(Stream)'
    BY <1>1, <1>3, <1>4 DEF BackInv, InOrder, Ordered, Sendable, NewestLast, Due, HasType, Waits
<1>6. resync'[r].at = "asked" /\ \A o \in Resyncs : o # r => resync'[o] = resync[o]
    BY <1>1 DEF FeedTypeOK
<1>7. alone' => \A o \in Resyncs : (InFlight(o)' => o = r) /\ resync'[o].at # "answered"
    BY <1>1, <1>6 DEF InFlight
<1>8. InFlight(r)'
    BY <1>6 DEF InFlight
<1>9. OneReplay'
    BY <1>1, <1>2, <1>7, <1>8 DEF OneReplay
<1>10. NoHole'
    BY <1>1 DEF FrontInv, NoHole, Missed
<1> QED BY <1>1, <1>5, <1>7, <1>9, <1>10 DEF FrontInv

\* The replay: of the messages the pump dropped it covers those up to its own last.
LEMMA FrontFinishes ==
    ASSUME FeedTypeOK, FrontInv, NEW r \in Resyncs, FinishResync(r)
    PROVE  FrontInv'
<1>1. /\ resync[r].at = "answered" /\ last' = resync[r].rows /\ channel' = Replay(resync[r])
      /\ replaying' = FALSE
      /\ resync' = [resync EXCEPT ![r] = Off]
      /\ lost' = {e \in lost : e.type = "message" => e.n > resync[r].rows}
      /\ clean' = alone /\ alone' = alone
      /\ UNCHANGED <<backVars, wire, open, buffered>>
    BY DEF FinishResync, ShowReplay
<1>2. UNCHANGED <<lastSeq, rows, state, relay>> /\ Sent' = Sent
    BY <1>1 DEF backVars, Sent
<1>3. Stream' = Stream
    BY <1>1 DEF Stream
<1>4. /\ \A n : Event("state", n) \in lost => Event("state", n) \in lost'
      /\ \A n : Event("message", n) \in lost /\ n > resync[r].rows => Event("message", n) \in lost'
    BY <1>1, EventKinds
<1>5. resync'[r].at = "off" /\ \A o \in Resyncs : o # r => resync'[o] = resync[o]
    BY <1>1 DEF FeedTypeOK, Off
<1>6. InFlight(r) /\ open /\ \A o \in Resyncs : InFlight(o)' => InFlight(o) /\ o # r
    BY <1>1, <1>5 DEF FrontInv, OneReplay, InFlight
<1>7. alone => \A o \in Resyncs : ~ InFlight(o)'
    BY <1>6 DEF FrontInv, OneReplay
<1>8. OneReplay'
    BY <1>1, <1>6, <1>7 DEF FrontInv, OneReplay
<1>9. InOrder(Stream)'
    BY <1>2, <1>3, <1>4 DEF FrontInv, InOrder, Ordered, Sendable, NewestLast, Due, HasType, Waits
<1>10. alone' => \A o \in Resyncs : (resync[o].at = "answered")' => SnapshotFits(o)'
    BY <1>1, <1>7 DEF InFlight
<1>11. resync[r].rows \in Nat
    BY DEF FeedTypeOK
<1> DEFINE k == resync[r].rows
           m == [i \in 1..k |-> i]
<1>12. channel'.messages = m /\ channel'.state = resync[r].state
    BY <1>1 DEF Replay
<1>13. DOMAIN m = 1..k /\ \A i \in 1..k : m[i] = i
    BY <1>11
<1> HIDE DEF m
<1>14. Shown(channel') = 1..k /\ Shown(channel)' = 1..k
    BY <1>12, <1>13 DEF Shown
<1>15. NoHole'
    <2>1. \A i, j \in DOMAIN channel'.messages : i < j => channel'.messages[i] < channel'.messages[j]
        BY <1>12, <1>13
    <2>2. ASSUME NEW i \in DOMAIN channel'.messages, NEW n \in 1..channel'.messages[i]
          PROVE  ~ Missed(n)'
        <3>1. n \in 1..k
            BY <1>11, <1>12, <1>13
        <3> QED BY <1>14, <3>1 DEF Missed
    <2> QED BY <2>1, <2>2 DEF NoHole
<1>16. NoneAhead'
    BY <1>1, <1>11, <1>14 DEF NoneAhead
<1>17. ASSUME clean' PROVE ScreenFits'
    <2>1. SnapshotFits(r)
        BY <1>1, <1>17 DEF FrontInv
    <2>2. k <= rows /\ Covers(Stream, k) /\ UpToDate(Stream, resync[r].state)
        BY <2>1 DEF SnapshotFits
    <2>3. last' <= rows' /\ \A n \in 1..last' : ~ Missed(n)'
        BY <1>1, <1>2, <1>14, <2>2 DEF Missed
    <2>4. \A i \in (k + 1)..lastSeq : Waits(Stream, "message", i) \/ Event("message", i) \in lost'
        <3> TAKE i \in (k + 1)..lastSeq
        <3>1. i > k
            BY <1>11 DEF FeedTypeOK
        <3> QED BY <1>4, <2>2, <3>1 DEF Covers, Due
    <2>5. \/ Waits(Stream, "state", Sent) \/ Event("state", Sent) \in lost'
          \/ channel'.state = Sent \/ channel'.state = state
        BY <1>4, <1>12, <2>2 DEF UpToDate, Due
    <2>6. (Covers(Stream, last) /\ UpToDate(Stream, channel.state))'
        BY <1>1, <1>2, <1>3, <2>4, <2>5 DEF Covers, UpToDate, Due, Waits
    <2> QED BY <2>3, <2>6 DEF ScreenFits
<1> QED BY <1>8, <1>9, <1>10, <1>15, <1>16, <1>17 DEF FrontInv

LEMMA FrontInit == FeedInit => FrontInv
<1> SUFFICES ASSUME FeedInit PROVE FrontInv
    OBVIOUS
<1>1. /\ relay = "idle" /\ lastSeq = 0 /\ state = 0 /\ wire = <<Event("started", 0)>>
      /\ buffered = <<>> /\ ~ open /\ ~ replaying /\ channel = Empty /\ ~ clean
      /\ resync = [r \in Resyncs |-> Off]
    BY DEF FeedInit
<1>2. Stream = wire
    BY <1>1, NothingSent, OneEvent, EventKinds DEF Stream
<1>3. \A r \in Resyncs : resync[r].at = "off"
    BY <1>1 DEF Off
<1>4. InOrder(Stream)
    BY <1>2, BackInit DEF BackInv
<1>5. OneReplay
    BY <1>1, <1>3 DEF OneReplay, InFlight
<1>6. NoHole /\ NoneAhead
    <2>1. channel.messages = <<>>
        BY <1>1 DEF Empty
    <2> QED BY <2>1 DEF NoHole, NoneAhead, Shown
<1> QED BY <1>1, <1>3, <1>4, <1>5, <1>6 DEF FrontInv

LEMMA FrontStep ==
    ASSUME FeedTypeOK, FeedTypeOK', BackInv, FrontInv, [FeedNext]_feedVars
    PROVE  FrontInv'
<1>1. CASE Backend
    BY <1>1, FrontSends
<1>2. ASSUME NEW r \in Resyncs, Snapshot(r) PROVE FrontInv'
    BY <1>2, FrontAnswered
<1>3. ASSUME NEW r \in Resyncs, StartChannel(r) \/ SelectChannel(r) PROVE FrontInv'
    BY <1>3, FrontBegins
<1>4. ASSUME NEW r \in Resyncs, FinishResync(r) PROVE FrontInv'
    BY <1>4, FrontFinishes
<1>5. CASE Flush \/ Route
    <2>1. Takes \/ Waiting
        BY <1>5, FrontTakes DEF FrontInv
    <2>2. CASE Takes
        BY <2>2, FrontTaken
    <2>3. CASE Waiting
        BY <2>3, FrontWaits DEF Waiting
    <2> QED BY <2>1, <2>2, <2>3
<1>6. CASE PumpLags
    BY <1>6, FrontLags
<1>7. CASE UNCHANGED feedVars
    <2>1. UNCHANGED <<backVars, wire, open, replaying, buffered, last, resync, channel, lost, alone, clean>>
        BY <1>7 DEF feedVars, frontVars, seamVars
    <2>2. Stream' = Stream
        BY <2>1 DEF Stream
    <2> QED BY <2>1, <2>2, FrontWaits
<1> QED BY <1>1, <1>2, <1>3, <1>4, <1>5, <1>6, <1>7 DEF FeedNext, Backend

LEMMA FeedFront == FeedSpec => [](FeedTypeOK /\ BackInv /\ FrontInv)
<1>1. FeedInit => FeedTypeOK /\ BackInv /\ FrontInv
    BY FeedTypeInit, BackInit, FrontInit
<1>2. FeedTypeOK /\ BackInv /\ FrontInv /\ [FeedNext]_feedVars => (FeedTypeOK /\ BackInv /\ FrontInv)'
    BY FeedTypeStep, BackStep, FrontStep
<1> QED BY <1>1, <1>2, PTL DEF FeedSpec

\* Where snapshot, buffer and live stream join (resync, route, deliverLive), and
\* however resyncs overlap, the pump lags and RunStarted is late: messages are shown
\* in the order of the ledger, none twice; and below any that is shown none is
\* missing but what the pump dropped, once a resync has had no other beside it.
THEOREM ScreenHasNoHole == FeedSpec => []NoHole
<1>1. FeedTypeOK /\ BackInv /\ FrontInv => NoHole
    BY DEF FrontInv
<1> QED BY <1>1, FeedFront, PTL

\* After such a resync, with nothing under way, the screen shows every row of the
\* ledger and the latest task state, but for what the pump dropped since.
THEOREM ScreenIsComplete == FeedSpec => []SettledIsComplete
<1>1. FeedTypeOK /\ BackInv /\ FrontInv => SettledIsComplete
    <2> SUFFICES ASSUME FeedTypeOK, BackInv, FrontInv, Settled, clean
                 PROVE  /\ \A n \in 1..rows : ~ Missed(n)
                        /\ channel.state = state \/ Event("state", state) \in lost
        BY DEF SettledIsComplete
    <2>1. /\ open /\ wire = <<>> /\ buffered = <<>> /\ relay = "idle"
          /\ \A r \in Resyncs : ~ InFlight(r)
          /\ \A t \in Writers : writer[t] = "idle"
        BY DEF Settled
    <2>2. Stream = <<>> /\ lastSeq = rows /\ Sent = state
        BY <2>1 DEF Stream, BackInv, Sent
    <2>3. \A type, n : ~ Waits(Stream, type, n)
        BY <2>2, NothingSent DEF Waits
    <2>4. ScreenFits
        BY <2>1 DEF FrontInv, OneReplay
    <2>5. last \in Nat /\ rows \in Nat
        BY DEF FeedTypeOK
    <2>6. ASSUME NEW n \in 1..rows PROVE ~ Missed(n)
        <3>1. CASE n <= last
            BY <2>4, <2>5, <3>1 DEF ScreenFits
        <3>2. CASE n > last
            <4>1. n \in (last + 1)..lastSeq
                BY <2>2, <2>5, <3>2
            <4>2. Event("message", n) \in lost
                BY <2>3, <2>4, <4>1 DEF ScreenFits, Covers, Due
            <4> QED BY <4>2 DEF Missed
        <3> QED BY <2>5, <3>1, <3>2
    <2>7. channel.state = state \/ Event("state", state) \in lost
        BY <2>2, <2>3, <2>4 DEF ScreenFits, UpToDate, Due
    <2> QED BY <2>6, <2>7
<1> QED BY <1>1, FeedFront, PTL

================================================================================
