----------------------------- MODULE GitFlowProofs -----------------------------
(***************************************************************************)
(* Proofs about RunLock and GitFlow: two starters never both hold the lock,  *)
(* the runs of GitFlow use the lock as RunLock has it, a run changes the     *)
(* repository only while it holds it, and a run that reports Completed has   *)
(* landed all its accepted work.                                            *)
(***************************************************************************)
EXTENDS GitFlow, TLAPS

-------------------------------------------------------------------------------
\* The lock alone.

Fresh == {"start", "reading", "again", "probing", "stealing", "comparing", "restoring"}
Busy == {"writing", "holding", "removing"}
Moving == {"comparing", "restoring", "crashed"}

\* A starter has no file before it creates one.
NoFileYet == \A t \in Starters : at[t] \in Fresh =>
    lockfile # t /\ \A s \in Starters : aside[s] # t

\* A file stands in one place only.
OnePlace == \A s \in Starters : aside[s] # NoFile =>
    aside[s] # lockfile /\ \A t \in Starters : t # s => aside[t] # aside[s]

\* What a starter is about to steal was the lock of a dead process.
StealsDead == \A s \in Starters : at[s] \in {"stealing", "comparing"} =>
    observed[s] # Empty /\ ~Alive(observed[s])

\* The file of a starter that is at work with it is at its place, or in the
\* hands of the one that has moved it, who may have died over it, with nothing
\* put in its place.
Custody == \A t \in Starters : at[t] \in Busy =>
    \/ lockfile = t
    \/ lockfile = NoFile /\ \E s \in Starters : at[s] \in Moving /\ aside[s] = t

LockInv == LockTypeOK /\ NoFileYet /\ OnePlace /\ StealsDead /\ Custody

\* Two processes race for the lock, as the test two_racers_never_both_hold has it.
TwoAtMost == \A s, t, u \in Starters : s = t \/ s = u \/ t = u

LEMMA LockInitInv == LockInit => LockInv
  <1> SUFFICES ASSUME LockInit PROVE LockInv
    OBVIOUS
  <1> USE DEF LockInit, Files, At, NoFile, Empty
  <1>1. LockTypeOK
    BY DEF LockTypeOK
  <1>2. NoFileYet /\ OnePlace
    BY NamesDiffer, OldIsNoStarter DEF NoFileYet, OnePlace
  <1>3. StealsDead /\ Custody
    BY DEF StealsDead, Custody, Busy
  <1>4. QED
    BY <1>1, <1>2, <1>3 DEF LockInv

LEMMA LockStepInv == TwoAtMost /\ LockInv /\ [LockNext]_lockVars => LockInv'
  <1> SUFFICES ASSUME TwoAtMost, LockInv, [LockNext]_lockVars PROVE LockInv'
    OBVIOUS
  <1> USE DEF LockInv
  <1>0. ASSUME UNCHANGED lockVars PROVE LockInv'
    BY <1>0 DEF lockVars, LockTypeOK, NoFileYet, OnePlace, StealsDead, Custody, Alive
  <1>t. ASSUME NEW s \in Starters,
               \/ Acquiring(s) \/ Releasing(s) \/ Die(s)
               \/ TakeSlot(s) /\ UNCHANGED <<lockfile, written, aside, observed>>
        PROVE  LockTypeOK'
    BY <1>t DEF Acquiring, Releasing, Die, TakeSlot, Create, Write, WriteFails, Read, Probe,
       Rename, Compare, Restore, ReadOwn, Remove, Go, LockTypeOK, At, Content, Files
  <1>1. ASSUME NEW s \in Starters, Create(s) PROVE LockInv'
    <2>1. NoFileYet'
      BY <1>1 DEF Create, Go, LockTypeOK, NoFileYet, Fresh, At
    <2>2. OnePlace'
      BY <1>1 DEF Create, Go, LockTypeOK, OnePlace, NoFileYet, Fresh, At
    <2>3. StealsDead'
      BY <1>1 DEF Create, Go, LockTypeOK, StealsDead, Alive
    <2>4. Custody'
      BY <1>1, NamesDiffer DEF Create, Go, LockTypeOK, Custody, Busy, Moving, TwoAtMost, Files
    <2>5. QED
      BY <1>1, <1>t, <2>1, <2>2, <2>3, <2>4 DEF Acquiring
  <1>2. ASSUME NEW s \in Starters, Write(s) PROVE LockInv'
    BY <1>2, <1>t, ZenonT(30) DEF Acquiring, Write, Go, LockTypeOK, NoFileYet, OnePlace, StealsDead, Custody,
       Fresh, Busy, Moving, Alive
  <1>3. ASSUME NEW s \in Starters, WriteFails(s) PROVE LockInv'
    <2>1. NoFileYet' /\ OnePlace' /\ StealsDead'
      BY <1>3, NamesDiffer DEF WriteFails, Go, LockTypeOK, NoFileYet, OnePlace, StealsDead, Fresh,
         Alive, Files
    <2>2. Custody'
      BY <1>3, NamesDiffer DEF WriteFails, Go, LockTypeOK, Custody, Busy, Moving, TwoAtMost, Files
    <2>3. QED
      BY <1>3, <1>t, <2>1, <2>2 DEF Acquiring
  <1>4. ASSUME NEW s \in Starters, Read(s) PROVE LockInv'
    BY <1>4, <1>t DEF Acquiring, Read, Go, LockTypeOK, NoFileYet, OnePlace, StealsDead, Custody,
       Fresh, Busy, Moving, Alive
  <1>5. ASSUME NEW s \in Starters, Probe(s) PROVE LockInv'
    BY <1>5, <1>t DEF Acquiring, Probe, Go, LockTypeOK, NoFileYet, OnePlace, StealsDead, Custody,
       Fresh, Busy, Moving, Alive
  <1>6. ASSUME NEW s \in Starters, Rename(s) PROVE LockInv'
    <2>1. NoFileYet' /\ StealsDead'
      BY <1>6, NamesDiffer DEF Rename, Go, LockTypeOK, NoFileYet, StealsDead, Fresh, Alive, Files
    <2>2. OnePlace'
      BY <1>6, NamesDiffer DEF Rename, Go, LockTypeOK, OnePlace, Files
    <2>3. Custody'
      BY <1>6, NamesDiffer DEF Rename, Go, LockTypeOK, Custody, Busy, Moving, TwoAtMost, Files
    <2>4. QED
      BY <1>6, <1>t, <2>1, <2>2, <2>3 DEF Acquiring
  <1>7. ASSUME NEW s \in Starters, Compare(s) PROVE LockInv'
    <2>1. NoFileYet' /\ OnePlace' /\ StealsDead'
      BY <1>7, NamesDiffer DEF Compare, Go, LockTypeOK, NoFileYet, OnePlace, StealsDead, Fresh,
         Alive, Files
    <2>2. ASSUME NEW t \in Starters, at[t] \in Busy, aside[s] = t
          PROVE  Content(aside[s]) # observed[s]
      BY <1>7, <2>2 DEF Compare, StealsDead, Content, Alive, Busy
    <2>3. Custody'
      BY <1>7, <2>2, NamesDiffer DEF Compare, Go, LockTypeOK, Custody, Busy, Moving, Files
    <2>4. QED
      BY <1>7, <1>t, <2>1, <2>3 DEF Acquiring
  <1>8. ASSUME NEW s \in Starters, Restore(s) PROVE LockInv'
    <2>1. NoFileYet' /\ StealsDead'
      BY <1>8, NamesDiffer DEF Restore, Go, LockTypeOK, NoFileYet, StealsDead, Fresh, Alive, Files
    <2>2. OnePlace'
      BY <1>8, NamesDiffer DEF Restore, Go, LockTypeOK, OnePlace, Files
    <2>3. Custody'
      BY <1>8, NamesDiffer DEF Restore, Go, LockTypeOK, Custody, Busy, Moving, TwoAtMost, Files
    <2>4. QED
      BY <1>8, <1>t, <2>1, <2>2, <2>3 DEF Acquiring
  <1>9. ASSUME NEW s \in Starters, ReadOwn(s) PROVE LockInv'
    BY <1>9, <1>t, ZenonT(30) DEF Releasing, ReadOwn, Go, LockTypeOK, NoFileYet, OnePlace, StealsDead, Custody,
       Fresh, Busy, Moving, Alive
  <1>10. ASSUME NEW s \in Starters, Remove(s) PROVE LockInv'
    <2>1. NoFileYet' /\ OnePlace' /\ StealsDead'
      BY <1>10, NamesDiffer DEF Remove, Go, LockTypeOK, NoFileYet, OnePlace, StealsDead, Fresh,
         Alive, Files
    <2>2. Custody'
      BY <1>10, NamesDiffer DEF Remove, Go, LockTypeOK, Custody, Busy, Moving, TwoAtMost, Files
    <2>3. QED
      BY <1>10, <1>t, <2>1, <2>2 DEF Releasing
  <1>11. ASSUME NEW s \in Starters, Die(s) PROVE LockInv'
    <2>1. NoFileYet' /\ OnePlace' /\ StealsDead'
      BY <1>11 DEF Die, Go, LockTypeOK, NoFileYet, OnePlace, StealsDead, Fresh, Alive
    <2>2. Custody'
      BY <1>11 DEF Die, Go, LockTypeOK, Custody, Busy, Moving
    <2>3. QED
      BY <1>11, <1>t, <2>1, <2>2
  <1>12. ASSUME NEW s \in Starters,
                TakeSlot(s) /\ UNCHANGED <<lockfile, written, aside, observed>>
         PROVE  LockInv'
    BY <1>12, <1>t, ZenonT(30) DEF TakeSlot, Go, LockTypeOK, NoFileYet, OnePlace, StealsDead, Custody,
       Fresh, Busy, Moving, Alive
  <1>13. QED
    BY <1>0, <1>1, <1>2, <1>3, <1>4, <1>5, <1>6, <1>7, <1>8, <1>9, <1>10, <1>11, <1>12
       DEF LockNext, Acquiring, Releasing

LEMMA CustodyExcludes == TwoAtMost /\ LockInv => Exclusive
  BY NamesDiffer DEF LockInv, LockTypeOK, Custody, Exclusive, Has, Busy, Moving, TwoAtMost, Files

\* Of two processes that race for the lock, over a stale file or none, at most one
\* has it, whichever dies and wherever the other stands (acquire, steal_with, Drop).
THEOREM TwoNeverBothHold == TwoAtMost => (LockSpec => []Exclusive)
  <1> SUFFICES ASSUME TwoAtMost PROVE LockSpec => []Exclusive
    OBVIOUS
  <1>1. LockInit => LockInv
    BY LockInitInv
  <1>2. LockInv /\ [LockNext]_lockVars => LockInv'
    BY LockStepInv
  <1>3. LockInv => Exclusive
    BY CustodyExcludes
  <1>4. QED
    BY <1>1, <1>2, <1>3, PTL DEF LockSpec

-------------------------------------------------------------------------------
\* GitFlow uses the lock as RunLock has it.

LEMMA ReleaseIsTake == ASSUME NEW s, Release(s), FileSystem
                       PROVE  (TakeSlot(s) /\ FileSystem) \/ UNCHANGED lockVars
  BY DEF Release, FileSystem, lockVars

LEMMA FinisherKeepsLock == ASSUME NEW s \in Starters, Finisher(s) PROVE [LockNext]_lockVars
  <1>1. ASSUME SetUp(s) PROVE [LockNext]_lockVars
    BY <1>1 DEF SetUp, NoWorktree, FileSystem, LockNext
  <1>2. ASSUME Finish(s) PROVE [LockNext]_lockVars
    BY <1>2, ReleaseIsTake DEF Finish, FileSystem, LockNext
  <1>3. ASSUME LeadReturns(s) \/ SpawnFails(s) \/ EnterPhase(s) \/ PhaseReturns(s)
               \/ Gate(s) \/ EnterPush(s) \/ PushReturns(s)
        PROVE  UNCHANGED lockVars
    BY <1>3 DEF LeadReturns, SpawnFails, EnterPhase, PhaseReturns, Gate, EnterPush, PushReturns,
       Enter
  <1>4. QED
    BY <1>1, <1>2, <1>3 DEF Finisher

LEMMA GitKeepsLock == ASSUME NEW s \in Starters, GitStep(s) PROVE UNCHANGED lockVars
  BY DEF GitStep, CommitAccepted, MergeSprint, MergesOver, MergeAbort, PushMain, NothingToMerge,
     MergeRefused, MergesSkipped, SkipMerges, Merge, MergeUnclear

LEMMA NextIsLockNext == [Next]_vars => [LockNext]_lockVars
  <1> SUFFICES ASSUME [Next]_vars PROVE [LockNext]_lockVars
    OBVIOUS
  <1>1. CASE UNCHANGED vars
    BY <1>1 DEF vars, lockVars
  <1>2. CASE User
    BY <1>2 DEF User
  <1>3. ASSUME NEW s \in Starters, Lock(s) PROVE [LockNext]_lockVars
    BY <1>3 DEF Lock, LockNext
  <1>4. ASSUME NEW s \in Starters, Stop(s) PROVE UNCHANGED lockVars
    BY <1>4 DEF Stop, Abort
  <1>5. ASSUME NEW s \in Starters, ReleaseAfterPhase(s) PROVE [LockNext]_lockVars
    BY <1>5, ReleaseIsTake DEF ReleaseAfterPhase, ReleaseWhen, FileSystem, LockNext
  <1>6. ASSUME NEW s \in Starters, Crash(s) PROVE [LockNext]_lockVars
    BY <1>6 DEF Crash, LockNext
  <1>7. QED
    BY <1>1, <1>2, <1>3, <1>4, <1>5, <1>6, FinisherKeepsLock, GitKeepsLock DEF Next

\* Whatever the runs, their users and their ends do, the lock file goes through
\* the steps of RunLock only.
THEOREM RunsUseTheLock == Spec => LockSpec
  <1>1. Init => LockInit
    BY DEF Init
  <1>2. QED
    BY <1>1, NextIsLockNext, PTL DEF Spec, LockSpec

\* Two runs never work in a project root at the same time.
THEOREM TwoRunsExclude == TwoAtMost => (Spec => []Exclusive)
  BY RunsUseTheLock, TwoNeverBothHold, PTL

-------------------------------------------------------------------------------
\* A run and the repository.

\* A context is a record of its five fields.
IsCtx(c) ==
    /\ c = [cancelled |-> c.cancelled, merges_blocked |-> c.merges_blocked,
            has_main |-> c.has_main, excluded |-> c.excluded, sprint_ok |-> c.sprint_ok]
    /\ c.cancelled \in BOOLEAN
CtxOK == ctx = [s \in Starters |-> ctx[s]] /\ \A s \in Starters : IsCtx(ctx[s])

RunTypeOK ==
    /\ stage \in [Starters -> Stages]
    /\ git \in [Starters -> {"idle", "commit", "merge", "abort", "push"}]
    /\ CtxOK
    /\ releaser \in [Starters -> {"off", "waiting", "done"}]
    /\ at \in [Starters -> At]

\* `acquire` has not returned yet.
Before == {"start", "writing", "reading", "again", "probing", "stealing", "comparing", "restoring"}

\* Whoever has the lock is still to be set up, has a finisher that will come to its
\* end, or has been stopped and has a waiter that takes the lock out of its slot.
WillLetGo(s) ==
    Has(s) => \/ stage[s] = "off"
              \/ stage[s] \notin {"off", "over", "aborted"} /\ ~ctx[s].cancelled
              \/ releaser[s] = "waiting"

\* A run that has not been stopped has the lock from its set-up to its end; once it
\* is stopped, only the blocking task it was in the middle of still has it.
RunInv(s) ==
    /\ stage[s] \notin {"off", "over", "aborted"} /\ ~ctx[s].cancelled => Has(s)
    /\ git[s] # "idle" => Has(s) \/ (ctx[s].cancelled /\ git[s] # "abort")
    /\ git[s] # "idle" => stage[s] \in {"phase", "pushing", "aborted"}
    /\ ctx[s].cancelled => stage[s] \in {"enter", "enter_push", "aborted"}
    /\ releaser[s] = "waiting" => ctx[s].cancelled
    /\ at[s] \in Before => stage[s] = "off" /\ ~ctx[s].cancelled
    /\ WillLetGo(s)

KeepsLock == RunTypeOK /\ \A s \in Starters : RunInv(s)

\* The context of one run changes, and its stop flag does not.
CtxKept(s) == /\ CtxOK'
              /\ ctx'[s].cancelled = ctx[s].cancelled
              /\ \A t \in Starters : t # s => ctx'[t] = ctx[t]

LEMMA CtxBlocked == ASSUME NEW s \in Starters, RunTypeOK, NEW b,
                           ctx' = [ctx EXCEPT ![s].merges_blocked = b]
                    PROVE  CtxKept(s)
  BY DEF RunTypeOK, CtxKept, CtxOK, IsCtx

LEMMA CtxSprint == ASSUME NEW s \in Starters, RunTypeOK, NEW b,
                          ctx' = [ctx EXCEPT ![s].sprint_ok = b]
                   PROVE  CtxKept(s)
  BY DEF RunTypeOK, CtxKept, CtxOK, IsCtx

LEMMA CtxExcluded == ASSUME NEW s \in Starters, RunTypeOK, NEW x,
                            ctx' = [ctx EXCEPT ![s].excluded = x]
                     PROVE  CtxKept(s)
  BY DEF RunTypeOK, CtxKept, CtxOK, IsCtx

\* A context is built anew, with its stop flag at b.
CtxBuilt(s, b) == /\ CtxOK'
                  /\ ctx'[s].cancelled = b
                  /\ \A t \in Starters : t # s => ctx'[t] = ctx[t]

LEMMA CtxNew == ASSUME NEW s \in Starters, RunTypeOK, NEW b \in BOOLEAN, NEW m, NEW x,
                       ctx' = [ctx EXCEPT ![s] = Ctx(b, m, x)]
                PROVE  CtxBuilt(s, b)
  BY DEF RunTypeOK, CtxBuilt, CtxOK, IsCtx, Ctx

LEMMA CtxReset == ASSUME NEW s \in Starters, RunTypeOK, ctx' = [ctx EXCEPT ![s] = NewCtx]
                  PROVE  CtxBuilt(s, FALSE)
  BY CtxNew DEF NewCtx

LEMMA CtxSame == ASSUME NEW s \in Starters, RunTypeOK, UNCHANGED ctx PROVE CtxKept(s)
  BY DEF RunTypeOK, CtxKept, CtxOK

LEMMA InitKeepsLock == Init => KeepsLock
  <1> SUFFICES ASSUME Init PROVE KeepsLock
    OBVIOUS
  <1>1. CtxOK /\ \A s \in Starters : ctx[s].cancelled = FALSE
    BY DEF Init, NewCtx, Ctx, CtxOK, IsCtx
  <1>2. RunTypeOK
    BY <1>1 DEF Init, LockInit, RunTypeOK, Stages, At
  <1>3. QED
    BY <1>1, <1>2 DEF Init, KeepsLock, RunInv, Before, WillLetGo

\* A step of one run, given by what it may do to that run.
Touches(s) == \A t \in Starters : t # s =>
    /\ stage'[t] = stage[t] /\ git'[t] = git[t] /\ ctx'[t] = ctx[t]
    /\ releaser'[t] = releaser[t] /\ at'[t] = at[t]

LEMMA OneRun == ASSUME NEW s \in Starters, KeepsLock, RunTypeOK', Touches(s), RunInv(s)'
                PROVE  KeepsLock'
  BY DEF KeepsLock, Touches, RunInv, Before, WillLetGo, Has

LEMMA LockStepKeeps == ASSUME NEW s \in Starters, KeepsLock, Lock(s) PROVE KeepsLock'
  <1>1. Acquiring(s) \/ Releasing(s)
    BY DEF Lock
  <1>2. ~Has(s)
    BY <1>1 DEF Acquiring, Releasing, Create, Write, WriteFails, Read, Probe, Rename, Compare,
       Restore, ReadOwn, Remove, Has
  <1>3. at' \in [Starters -> At] /\ \A t \in Starters : t # s => at'[t] = at[t]
    BY <1>1 DEF KeepsLock, RunTypeOK, At, Acquiring, Releasing, Create, Write, WriteFails, Read,
       Probe, Rename, Compare, Restore, ReadOwn, Remove, Go
  <1>4. RunTypeOK' /\ Touches(s)
    BY <1>3 DEF KeepsLock, RunTypeOK, CtxOK, Touches, Lock, runVars
  <1>5. RunInv(s)'
    <2>1. at'[s] \in Before \/ Has(s)' => at[s] \in Before
      BY <1>1, <1>3 DEF KeepsLock, RunTypeOK, Acquiring, Releasing, Create, Write, WriteFails, Read, Probe, Rename,
         Compare, Restore, ReadOwn, Remove, Go, Has, Before
    <2>2. /\ stage' = stage /\ git' = git /\ ctx' = ctx /\ releaser' = releaser
      BY DEF Lock, runVars
    <2>3. RunInv(s)
      BY DEF KeepsLock
    <2>4. WillLetGo(s)'
      BY <2>1, <2>2, <2>3 DEF RunInv, WillLetGo
    <2>5. QED
      BY <1>2, <2>1, <2>2, <2>3, <2>4 DEF RunInv
  <1>6. QED
    BY <1>4, <1>5, OneRun

LEMMA FinisherKeeps == ASSUME NEW s \in Starters, KeepsLock, Finisher(s) PROVE KeepsLock'
  <1> USE DEF KeepsLock, RunTypeOK, Stages, At
  <1>1. CASE SetUp(s)
    <2>1. (CtxBuilt(s, FALSE) /\ Has(s) /\ stage[s] = "off") \/ CtxKept(s)
      BY <1>1, CtxNew, CtxSame DEF SetUp, NoWorktree
    <2>2. RunTypeOK' /\ Touches(s)
      BY <1>1, <2>1 DEF SetUp, NoWorktree, Stage, Has, TakeSlot, Go, FileSystem, lockVars, CtxBuilt, CtxKept, Touches
    <2>3. RunInv(s)'
      <3>1. Has(s) /\ stage[s] = "off" /\ ctx'[s].cancelled = FALSE
            /\ UNCHANGED <<git, releaser>>
        BY <1>1, <2>1 DEF SetUp, RunInv, CtxBuilt, CtxKept
      <3>2. \/ stage'[s] = "sprint" /\ at'[s] = "holding"
            \/ stage'[s] = "over" /\ at'[s] = "releasing"
        BY <1>1 DEF SetUp, NoWorktree, Stage, Has, TakeSlot, Go, lockVars
      <3>3. git[s] = "idle" /\ releaser[s] # "waiting"
        BY <2>1, <3>1 DEF RunInv, CtxBuilt, CtxKept
      <3>4. QED
        BY <3>1, <3>2, <3>3 DEF RunInv, Before, WillLetGo, Has
    <2>4. QED
      BY <2>2, <2>3, OneRun
  <1>2. CASE LeadReturns(s)
    <2>1. CtxKept(s) /\ stage[s] = "sprint" /\ stage' = [stage EXCEPT ![s] = "enter"]
          /\ UNCHANGED <<at, git, releaser>>
      BY <1>2, CtxSprint DEF LeadReturns, Stage, lockVars
    <2>2. RunTypeOK' /\ Touches(s)
      BY <2>1 DEF CtxKept, Touches
    <2>3. RunInv(s)'
      BY <2>1 DEF CtxKept, RunInv, Before, WillLetGo, Has
    <2>4. QED
      BY <2>2, <2>3, OneRun
  <1>3. CASE SpawnFails(s)
    <2>1. CtxKept(s)
      BY <1>3, CtxSprint DEF SpawnFails
    <2>2. RunTypeOK'
      BY <1>3, <2>1 DEF SpawnFails, Stage, Has, lockVars, CtxKept
    <2>3. Touches(s)
      BY <1>3, <2>1 DEF SpawnFails, Stage, Has, lockVars, CtxKept, Touches
    <2>4. RunInv(s)'
      BY <1>3, <2>1 DEF SpawnFails, Stage, Has, lockVars, CtxKept, RunInv, Before, WillLetGo
    <2>5. QED
      BY <2>2, <2>3, <2>4, OneRun
  <1>4. CASE EnterPhase(s) \/ EnterPush(s)
    <2>1. CtxKept(s)
      BY <1>4, CtxSame DEF EnterPhase, EnterPush, Enter
    <2>2. RunTypeOK' /\ Touches(s)
      BY <1>4, <2>1 DEF EnterPhase, EnterPush, Enter, Stage, Git, Has, lockVars, CtxKept, Touches
    <2>3. RunInv(s)'
      BY <1>4, <2>1 DEF EnterPhase, EnterPush, Enter, Stage, Git, Has, lockVars, CtxKept, RunInv, Before, WillLetGo
    <2>4. QED
      BY <2>2, <2>3, OneRun
  <1>5. CASE PhaseReturns(s) \/ PushReturns(s)
    <2>1. CtxKept(s)
      BY <1>5, CtxSame DEF PhaseReturns, PushReturns
    <2>2. RunTypeOK' /\ Touches(s)
      BY <1>5, <2>1 DEF PhaseReturns, PushReturns, Stage, Has, lockVars, CtxKept, Touches
    <2>3. RunInv(s)'
      BY <1>5, <2>1 DEF PhaseReturns, PushReturns, Stage, Has, lockVars, CtxKept, RunInv, Before, WillLetGo
    <2>4. QED
      BY <2>2, <2>3, OneRun
  <1>6. CASE Gate(s)
    <2>1. CtxKept(s)
      BY <1>6, CtxSame DEF Gate
    <2>2. RunTypeOK' /\ Touches(s)
      BY <1>6, <2>1 DEF Gate, Stage, Has, lockVars, CtxKept, Touches
    <2>3. RunInv(s)'
      BY <1>6, <2>1 DEF Gate, Stage, Has, lockVars, CtxKept, RunInv, Before, WillLetGo
    <2>4. QED
      BY <2>2, <2>3, OneRun
  <1>7. CASE Finish(s)
    <2>1. CtxBuilt(s, FALSE)
      BY <1>7, CtxReset DEF Finish
    <2>2. RunTypeOK' /\ Touches(s)
      BY <1>7, <2>1 DEF Finish, Stage, Has, Release, TakeSlot, Go, FileSystem, CtxBuilt, Touches
    <2>3. RunInv(s)'
      BY <1>7, <2>1 DEF Finish, Stage, Has, Release, TakeSlot, Go, FileSystem, CtxBuilt, RunInv, Before, WillLetGo
    <2>4. QED
      BY <2>2, <2>3, OneRun
  <1>8. QED
    BY <1>1, <1>2, <1>3, <1>4, <1>5, <1>6, <1>7 DEF Finisher

LEMMA GitKeeps == ASSUME NEW s \in Starters, KeepsLock, GitStep(s) PROVE KeepsLock'
  <1> USE DEF KeepsLock, RunTypeOK, Git, Has
  <1>1. CASE CommitAccepted(s)
    <2>1. CtxKept(s)
      BY <1>1, CtxExcluded, CtxSame DEF CommitAccepted
    <2>2. RunTypeOK'
      BY <1>1, <2>1 DEF CommitAccepted, lockVars, CtxKept
    <2>3. Touches(s)
      BY <1>1, <2>1 DEF CommitAccepted, lockVars, CtxKept, Touches
    <2>4. RunInv(s)'
      BY <1>1, <2>1 DEF CommitAccepted, lockVars, CtxKept, RunInv, Before, WillLetGo
    <2>5. QED
      BY <2>2, <2>3, <2>4, OneRun
  <1>2. CASE MergeSprint(s) \/ MergesOver(s) \/ PushMain(s)
    <2>1. CtxKept(s)
      BY <1>2, CtxSame DEF MergeSprint, MergesOver, PushMain
    <2>2. RunTypeOK' /\ Touches(s)
      BY <1>2, <2>1 DEF MergeSprint, MergesOver, PushMain, lockVars, CtxKept, Touches
    <2>3. RunInv(s)'
      BY <1>2, <2>1 DEF MergeSprint, MergesOver, PushMain, lockVars, CtxKept, RunInv, Before, WillLetGo
    <2>4. QED
      BY <2>2, <2>3, OneRun
  <1>3. CASE MergeAbort(s)
    <2>1. CtxKept(s)
      BY <1>3, CtxBlocked, CtxSame DEF MergeAbort
    <2>2. RunTypeOK'
      BY <1>3, <2>1 DEF MergeAbort, lockVars, CtxKept
    <2>3. Touches(s)
      BY <1>3, <2>1 DEF MergeAbort, lockVars, CtxKept, Touches
    <2>4. RunInv(s)'
      BY <1>3, <2>1 DEF MergeAbort, lockVars, CtxKept, RunInv, Before, WillLetGo
    <2>5. QED
      BY <2>2, <2>3, <2>4, OneRun
  <1>4. ASSUME NEW r \in Roles,
               NothingToMerge(s, r) \/ MergeRefused(s, r) \/ MergesSkipped(s, r) \/ Merge(s, r)
               \/ MergeUnclear(s, r)
        PROVE  KeepsLock'
    <2>1. CtxKept(s)
      BY <1>4, CtxBlocked, CtxSame DEF NothingToMerge, MergeRefused, MergesSkipped, SkipMerges,
         Merge, MergeUnclear
    <2>2. RunTypeOK'
      BY <1>4, <2>1 DEF NothingToMerge, MergeRefused, MergesSkipped, SkipMerges, Merge, MergeUnclear,
         Considers, lockVars, CtxKept
    <2>3. Touches(s)
      BY <1>4, <2>1 DEF NothingToMerge, MergeRefused, MergesSkipped, SkipMerges, Merge, MergeUnclear,
         Considers, lockVars, CtxKept, Touches
    <2>4. RunInv(s)'
      BY <1>4, <2>1 DEF NothingToMerge, MergeRefused, MergesSkipped, SkipMerges, Merge, MergeUnclear,
         Considers, lockVars, CtxKept, RunInv, Before, WillLetGo
    <2>5. QED
      BY <2>2, <2>3, <2>4, OneRun
  <1>5. QED
    BY <1>1, <1>2, <1>3, <1>4 DEF GitStep

LEMMA EndsKeep == ASSUME NEW s \in Starters, KeepsLock,
                         Stop(s) \/ ReleaseAfterPhase(s) \/ Crash(s)
                  PROVE  KeepsLock'
  <1> USE DEF KeepsLock, RunTypeOK, Stages, At, Stage, Git, Has
  <1>1. CASE Stop(s)
    <2>1. CtxBuilt(s, TRUE)
      BY <1>1, CtxNew DEF Stop, Abort
    <2>2. RunTypeOK' /\ Touches(s)
      BY <1>1, <2>1 DEF Stop, Abort, lockVars, CtxBuilt, Touches
    <2>3. RunInv(s)'
      BY <1>1, <2>1 DEF Stop, Abort, lockVars, CtxBuilt, RunInv, Before, WillLetGo
    <2>4. QED
      BY <2>2, <2>3, OneRun
  <1>2. CASE ReleaseAfterPhase(s)
    <2>1. CtxKept(s)
      BY <1>2, CtxSame DEF ReleaseAfterPhase, ReleaseWhen
    <2>2. RunTypeOK' /\ Touches(s)
      BY <1>2, <2>1 DEF ReleaseAfterPhase, ReleaseWhen, Release, TakeSlot, Go, CtxKept, Touches
    <2>3. RunInv(s)'
      BY <1>2, <2>1 DEF ReleaseAfterPhase, ReleaseWhen, Release, TakeSlot, Go, CtxKept, RunInv, Before, WillLetGo
    <2>4. QED
      BY <2>2, <2>3, OneRun
  <1>3. CASE Crash(s)
    <2>1. CtxBuilt(s, FALSE)
      BY <1>3, CtxReset DEF Crash
    <2>2. RunTypeOK' /\ Touches(s)
      BY <1>3, <2>1 DEF Crash, Die, Go, CtxBuilt, Touches
    <2>3. RunInv(s)'
      BY <1>3, <2>1 DEF Crash, Die, Go, CtxBuilt, RunInv, Before, WillLetGo
    <2>4. QED
      BY <2>2, <2>3, OneRun
  <1>4. QED
    BY <1>1, <1>2, <1>3

LEMMA NextKeepsLock == KeepsLock /\ [Next]_vars => KeepsLock'
  <1> SUFFICES ASSUME KeepsLock, [Next]_vars PROVE KeepsLock'
    OBVIOUS
  <1>1. CASE UNCHANGED vars
    BY <1>1 DEF vars, lockVars, runVars, KeepsLock, RunTypeOK, CtxOK, RunInv, Before, WillLetGo, Has
  <1>2. CASE User
    BY <1>2 DEF User, lockVars, runVars, KeepsLock, RunTypeOK, CtxOK, RunInv, Before, WillLetGo, Has
  <1>3. QED
    BY <1>1, <1>2, LockStepKeeps, FinisherKeeps, GitKeeps, EndsKeep DEF Next

\* A step that changes the repository is one of a run that has the lock.
LEMMA RepoStepHasLock == ASSUME KeepsLock, NEW s \in Starters,
                                GitStep(s) \/ Finisher(s), repoVars' # repoVars
                         PROVE  Has(s)
  <1> USE DEF KeepsLock, RunInv
  <1>1. CASE Finisher(s)
    <2>1. LeadReturns(s)
      BY <1>1 DEF Finisher, SetUp, NoWorktree, SpawnFails, EnterPhase, PhaseReturns, Gate, EnterPush,
         PushReturns, Finish, Enter, repoVars
    <2>2. QED
      BY <2>1 DEF LeadReturns
  <1>2. CASE GitStep(s)
    <2>1. git[s] = "abort" \/ (git[s] # "idle" /\ ~ctx[s].cancelled)
      BY <1>2 DEF GitStep, CommitAccepted, MergeSprint, MergesOver, MergeAbort, PushMain,
         NothingToMerge, MergeRefused, MergesSkipped, SkipMerges, Merge, MergeUnclear, Considers,
         repoVars
    <2>2. QED
      BY <2>1
  <1>3. QED
    BY <1>1, <1>2

\* However a run is stopped - in the middle of a merge, right before a phase, or
\* after it - no commit, merge, abort or push of it happens without the lock.
THEOREM RunsChangeOnlyUnderLock == Spec => RepoOnlyUnderLock
  <1>1. Init => KeepsLock
    BY InitKeepsLock
  <1>2. KeepsLock /\ [Next]_vars => KeepsLock'
    BY NextKeepsLock
  <1>3. KeepsLock => [\A s \in Starters :
            (GitStep(s) \/ Finisher(s)) /\ repoVars' # repoVars => Has(s)]_vars
    BY RepoStepHasLock
  <1>4. QED
    BY <1>1, <1>2, <1>3, PTL DEF Spec, RepoOnlyUnderLock

\* No run keeps the project root for ever by its own doing: however stops, crashes,
\* ends and the blocking task come together, a lock that is held has somebody left who
\* releases it.  This is the safety half of StoppedRunLetsGo: the release is armed by
\* the stop and by nothing else, and the slot is never filled after it.
HeldLockHasReleaser == \A s \in Starters : WillLetGo(s)

THEOREM NoAbandonedLock == Spec => []HeldLockHasReleaser
  <1>1. KeepsLock => HeldLockHasReleaser
    BY DEF KeepsLock, RunInv, HeldLockHasReleaser
  <1>2. QED
    BY <1>1, InitKeepsLock, NextKeepsLock, PTL DEF Spec

-------------------------------------------------------------------------------
\* What a run has landed.

Clean(s) == ~tally[s].failed /\ ~tally[s].not_landed
Going(s) == stage[s] \notin {"off", "over", "aborted"} /\ ~ctx[s].cancelled
Left(s) == {todo[s][i] : i \in DOMAIN todo[s]}
Committing(s) == stage[s] = "enter" \/ git[s] = "commit"

\* Where a piece of accepted work is: on main, in a worktree whose role is still to be
\* committed, on a branch before the merges begin or on one still to be merged.
Safe(s, p) ==
    \/ p \in main
    \/ Committing(s) /\ \E r \in Left(s) : p \in tree[r]
    \/ Committing(s) /\ \E r \in Roles : p \in branch[r]
    \/ git[s] = "merge" /\ \E r \in Left(s) : p \in branch[r]

\* As long as nothing has been counted against the run, none of its accepted work
\* has got lost on the way and it has left no merge behind.
Landing(s) ==
    Going(s) /\ ctx[s].sprint_ok /\ Clean(s) /\ git[s] # "abort" =>
        /\ \A p \in accepted[s] : Safe(s, p)
        /\ merging # s
        /\ git[s] = "merge" => ctx[s].excluded = {}

Order(s) ==
    /\ git[s] # "idle" => stage[s] \in {"phase", "pushing", "aborted"}
    /\ stage[s] = "phase" => git[s] # "push"
    /\ stage[s] = "pushing" => git[s] \in {"idle", "push"}
    /\ stage[s] = "sprint" => sprint[s] < Sprints /\ ctx[s].sprint_ok
    /\ stage[s] = "off" => accepted[s] = {} /\ sprint[s] = 0 /\ merging # s
    /\ outcome[s] = "Completed" =>
           Clean(s) /\ ctx[s].sprint_ok /\ Going(s) /\ stage[s] \in {"enter_push", "pushing", "ending"}

LandInv == TypeOK /\ \A s \in Starters : Landing(s) /\ Order(s)

Ctxs == [cancelled : BOOLEAN, merges_blocked : BOOLEAN, has_main : BOOLEAN,
         excluded : SUBSET Roles, sprint_ok : BOOLEAN]
Tallies == [failed : BOOLEAN, not_landed : BOOLEAN, merged : BOOLEAN]
RepoTypeOK ==
    /\ tree \in [Roles -> SUBSET Work] /\ branch \in [Roles -> SUBSET Work]
    /\ main \subseteq Work /\ origin \subseteq Work
    /\ merging \in Files \cup {Nobody}
TaskTypeOK ==
    /\ stage \in [Starters -> Stages]
    /\ git \in [Starters -> {"idle", "commit", "merge", "abort", "push"}]
    /\ todo \in [Starters -> Seq(Roles)]
    /\ releaser \in [Starters -> {"off", "waiting", "done"}]
CountTypeOK ==
    /\ sprint \in [Starters -> 0..Sprints]
    /\ accepted \in [Starters -> SUBSET Work]
    /\ ctx \in [Starters -> Ctxs]
    /\ tally \in [Starters -> Tallies]
    /\ outcome \in [Starters -> {"none", "Completed", "Failed"}]

LEMMA TypeParts == TypeOK <=> LockTypeOK /\ RepoTypeOK /\ TaskTypeOK /\ CountTypeOK
  BY DEF TypeOK, RepoTypeOK, TaskTypeOK, CountTypeOK, Ctxs, Tallies

LEMMA LockTypeStep == LockTypeOK /\ [LockNext]_lockVars => LockTypeOK'
  <1> SUFFICES ASSUME LockTypeOK, [LockNext]_lockVars PROVE LockTypeOK'
    OBVIOUS
  <1>1. CASE UNCHANGED lockVars
    BY <1>1 DEF lockVars, LockTypeOK
  <1>2. ASSUME NEW s \in Starters,
               \/ Acquiring(s) \/ Releasing(s) \/ Die(s)
               \/ TakeSlot(s) /\ UNCHANGED <<lockfile, written, aside, observed>>
        PROVE  LockTypeOK'
    BY <1>2 DEF Acquiring, Releasing, Die, TakeSlot, Create, Write, WriteFails, Read, Probe,
       Rename, Compare, Restore, ReadOwn, Remove, Go, LockTypeOK, At, Content, Files
  <1>3. QED
    BY <1>1, <1>2 DEF LockNext

-------------------------------------------------------------------------------
\* Steps of one run, told by what they do to its own records and to the repository.

\* The repository only gains work: what leaves a worktree is on the branch.
RepoMoves(s) ==
    /\ main \subseteq main'
    /\ \A r \in Roles : branch[r] \subseteq branch'[r] /\ tree[r] \subseteq tree'[r] \cup branch'[r]
    /\ merging' \in {merging, Nobody, s}

OthersStay(s) == \A t \in Starters : t # s =>
    /\ stage'[t] = stage[t] /\ git'[t] = git[t] /\ todo'[t] = todo[t]
    /\ sprint'[t] = sprint[t] /\ accepted'[t] = accepted[t] /\ ctx'[t] = ctx[t]
    /\ tally'[t] = tally[t] /\ outcome'[t] = outcome[t]

LEMMA OthersLand ==
  ASSUME NEW s, LandInv, RepoMoves(s), OthersStay(s), NEW t \in Starters, t # s
  PROVE  Landing(t)' /\ Order(t)'
  <1>1. /\ stage'[t] = stage[t] /\ git'[t] = git[t] /\ todo'[t] = todo[t]
        /\ sprint'[t] = sprint[t] /\ accepted'[t] = accepted[t] /\ ctx'[t] = ctx[t]
        /\ tally'[t] = tally[t] /\ outcome'[t] = outcome[t]
    BY DEF OthersStay
  <1>2. Landing(t) /\ Order(t) /\ todo[t] \in Seq(Roles)
    BY TypeParts DEF LandInv, TaskTypeOK
  <1>3. merging # t => merging' # t
    BY NobodyAssumption DEF RepoMoves, Files
  <1>4. Left(t)' = Left(t) /\ Left(t) \subseteq Roles
    BY <1>1, <1>2 DEF Left
  <1>5. ASSUME NEW p, Safe(t, p) PROVE Safe(t, p)'
    <2>1. Committing(t)' = Committing(t)
      BY <1>1 DEF Committing
    <2>2. CASE p \in main
      BY <2>2 DEF RepoMoves, Safe
    <2>3. ASSUME Committing(t), NEW r \in Left(t), p \in tree[r] PROVE Safe(t, p)'
      BY <1>4, <2>1, <2>3 DEF RepoMoves, Safe
    <2>4. ASSUME Committing(t), NEW r \in Roles, p \in branch[r] PROVE Safe(t, p)'
      BY <2>1, <2>4 DEF RepoMoves, Safe
    <2>5. ASSUME git[t] = "merge", NEW r \in Left(t), p \in branch[r] PROVE Safe(t, p)'
      BY <1>1, <1>4, <2>5 DEF RepoMoves, Safe
    <2>6. QED
      BY <1>5, <2>2, <2>3, <2>4, <2>5 DEF Safe
  <1>6. Clean(t)' = Clean(t) /\ Going(t)' = Going(t)
    BY <1>1 DEF Clean, Going
  <1>7. Landing(t)'
    BY <1>1, <1>2, <1>3, <1>5, <1>6 DEF Landing
  <1>8. Order(t)'
    BY <1>1, <1>2, <1>3, <1>6 DEF Order
  <1>9. QED
    BY <1>7, <1>8

LEMMA OneLands ==
  ASSUME NEW s \in Starters, LandInv, [Next]_vars, RepoMoves(s), OthersStay(s),
         RepoTypeOK', TaskTypeOK', CountTypeOK', Landing(s)', Order(s)'
  PROVE  LandInv'
  <1>1. LockTypeOK'
    BY TypeParts, NextIsLockNext, LockTypeStep DEF LandInv
  <1>2. TypeOK'
    BY <1>1 DEF TypeOK, RepoTypeOK, TaskTypeOK, CountTypeOK, Ctxs, Tallies
  <1>3. \A t \in Starters : Landing(t)' /\ Order(t)'
    BY OthersLand
  <1>4. QED
    BY <1>2, <1>3 DEF LandInv

-------------------------------------------------------------------------------
\* The updates the actions are made of.

LEMMA TaskList ==
  ASSUME NEW done \in SUBSET Roles, NEW tasks \in TasksOf(done)
  PROVE  tasks \in Seq(Roles) /\ \A r \in done : \E i \in DOMAIN tasks : tasks[i] = r
  <1>1. PICK n \in 0..Len(RoleOrder) : tasks \in [1..n -> done]
    BY DEF TasksOf
  <1>2. n \in Nat /\ tasks \in [1..n -> Roles]
    BY <1>1, RolesAssumption
  <1>3. QED
    BY <1>2 DEF TasksOf

LEMMA NextRole ==
  ASSUME NEW q \in Seq(Roles), q # <<>>
  PROVE  /\ Head(q) \in Roles /\ Tail(q) \in Seq(Roles)
         /\ \A i \in DOMAIN q : q[i] = Head(q) \/ \E j \in DOMAIN Tail(q) : Tail(q)[j] = q[i]
  <1> DEFINE k == Len(q) - 1
             t == Tail(q)
  <1>1. /\ t \in Seq(Roles) /\ k \in Nat /\ DOMAIN q = 1..(k + 1) /\ DOMAIN t = 1..k
        /\ Head(q) = q[1] /\ q[1] \in Roles
        /\ \A i \in 1..k : t[i] = q[i + 1]
    OBVIOUS
  <1> HIDE DEF k, t
  <1>2. ASSUME NEW i \in 1..(k + 1), i # 1 PROVE i - 1 \in 1..k /\ t[i - 1] = q[i]
    BY <1>1, <1>2
  <1>3. QED
    BY <1>1, <1>2 DEF t

LEMMA EveryRole ==
  /\ RoleOrder \in Seq(Roles) /\ \A r \in Roles : \E i \in DOMAIN RoleOrder : RoleOrder[i] = r
  /\ <<>> \in Seq(Roles)
  BY RolesAssumption DEF Roles

\* `todo` of one run.
LEMMA TodoSet ==
  ASSUME NEW s \in Starters, TaskTypeOK, NEW q \in Seq(Roles), todo' = [todo EXCEPT ![s] = q]
  PROVE  /\ todo' \in [Starters -> Seq(Roles)] /\ todo'[s] = q
         /\ \A t \in Starters : t # s => todo'[t] = todo[t]
  BY DEF TaskTypeOK

LEMMA Popped ==
  ASSUME NEW s \in Starters, TaskTypeOK, todo[s] # <<>>, Pop(s)
  PROVE  /\ Head(todo[s]) \in Roles
         /\ todo' \in [Starters -> Seq(Roles)]
         /\ \A r \in Left(s) : r = Head(todo[s]) \/ r \in Left(s)'
         /\ \A t \in Starters : t # s => todo'[t] = todo[t]
  <1>1. todo[s] \in Seq(Roles) /\ todo' = [todo EXCEPT ![s] = Tail(todo[s])]
    BY DEF TaskTypeOK, Pop
  <1>2. Head(todo[s]) \in Roles /\ Tail(todo[s]) \in Seq(Roles)
    BY <1>1, NextRole
  <1>3. /\ todo' \in [Starters -> Seq(Roles)] /\ todo'[s] = Tail(todo[s])
        /\ \A t \in Starters : t # s => todo'[t] = todo[t]
    BY <1>1, <1>2, TodoSet
  <1>4. \A r \in Left(s) : r = Head(todo[s]) \/ r \in Left(s)'
    BY <1>1, <1>3, NextRole DEF Left
  <1>5. QED
    BY <1>2, <1>3, <1>4

LEMMA StageSet ==
  ASSUME NEW s \in Starters, TaskTypeOK, NEW to \in Stages, Stage(s, to)
  PROVE  /\ stage' \in [Starters -> Stages] /\ stage'[s] = to
         /\ \A t \in Starters : t # s => stage'[t] = stage[t]
  BY DEF TaskTypeOK, Stage

LEMMA GitSet ==
  ASSUME NEW s \in Starters, TaskTypeOK, NEW to \in {"idle", "commit", "merge", "abort", "push"},
         Git(s, to)
  PROVE  /\ git' \in [Starters -> {"idle", "commit", "merge", "abort", "push"}] /\ git'[s] = to
         /\ \A t \in Starters : t # s => git'[t] = git[t]
  BY DEF TaskTypeOK, Git

LEMMA CtxSet ==
  ASSUME NEW s \in Starters, CountTypeOK, NEW c \in Ctxs, ctx' = [ctx EXCEPT ![s] = c]
  PROVE  /\ ctx' \in [Starters -> Ctxs] /\ ctx'[s] = c
         /\ \A t \in Starters : t # s => ctx'[t] = ctx[t]
  BY DEF CountTypeOK

\* One field of the context changes, and the stop flag stays.
CtxField(s, blocked, x, ok) ==
    /\ ctx' \in [Starters -> Ctxs]
    /\ ctx'[s].cancelled = ctx[s].cancelled /\ ctx'[s].merges_blocked = blocked
    /\ ctx'[s].excluded = x /\ ctx'[s].sprint_ok = ok /\ ctx'[s].has_main = ctx[s].has_main
    /\ \A t \in Starters : t # s => ctx'[t] = ctx[t]

LEMMA CtxFields ==
  ASSUME NEW s \in Starters, CountTypeOK
  PROVE  /\ \A b \in BOOLEAN : ctx' = [ctx EXCEPT ![s].merges_blocked = b] =>
                CtxField(s, b, ctx[s].excluded, ctx[s].sprint_ok)
         /\ \A x \in SUBSET Roles : ctx' = [ctx EXCEPT ![s].excluded = x] =>
                CtxField(s, ctx[s].merges_blocked, x, ctx[s].sprint_ok)
         /\ \A b \in BOOLEAN : ctx' = [ctx EXCEPT ![s].sprint_ok = b] =>
                CtxField(s, ctx[s].merges_blocked, ctx[s].excluded, b)
         /\ ctx' = ctx => CtxField(s, ctx[s].merges_blocked, ctx[s].excluded, ctx[s].sprint_ok)
  <1>0. ctx \in [Starters -> Ctxs] /\ ctx[s] \in Ctxs
    BY DEF CountTypeOK
  <1>1. ASSUME NEW b \in BOOLEAN, ctx' = [ctx EXCEPT ![s].merges_blocked = b]
        PROVE  CtxField(s, b, ctx[s].excluded, ctx[s].sprint_ok)
    BY <1>0, <1>1 DEF CtxField, Ctxs
  <1>2. ASSUME NEW x \in SUBSET Roles, ctx' = [ctx EXCEPT ![s].excluded = x]
        PROVE  CtxField(s, ctx[s].merges_blocked, x, ctx[s].sprint_ok)
    BY <1>0, <1>2 DEF CtxField, Ctxs
  <1>3. ASSUME NEW b \in BOOLEAN, ctx' = [ctx EXCEPT ![s].sprint_ok = b]
        PROVE  CtxField(s, ctx[s].merges_blocked, ctx[s].excluded, b)
    BY <1>0, <1>3 DEF CtxField, Ctxs
  <1>4. ASSUME ctx' = ctx
        PROVE  CtxField(s, ctx[s].merges_blocked, ctx[s].excluded, ctx[s].sprint_ok)
    BY <1>0, <1>4 DEF CtxField, Ctxs
  <1>5. QED
    BY <1>1, <1>2, <1>3, <1>4

LEMMA FreshCtx ==
  ASSUME NEW b \in BOOLEAN, NEW m \in BOOLEAN, NEW x \in SUBSET Roles
  PROVE  Ctx(b, m, x) \in Ctxs /\ Ctx(b, m, x).cancelled = b /\ Ctx(b, m, x).sprint_ok
  BY DEF Ctx, Ctxs

LEMMA NewIsCtx == NewCtx \in Ctxs /\ ~ NewCtx.cancelled
  BY FreshCtx DEF NewCtx

\* What a phase reports is folded into the counts of a run that has not been stopped.
LEMMA TallySet ==
  ASSUME NEW s \in Starters, CountTypeOK, NEW c \in Tallies, Tally(s, c)
  PROVE  /\ tally' \in [Starters -> Tallies]
         /\ ctx[s].cancelled => tally'[s] = tally[s]
         /\ ~ ctx[s].cancelled => tally'[s] = c
         /\ \A t \in Starters : t # s => tally'[t] = tally[t]
  BY DEF CountTypeOK, Tally

LEMMA Counted ==
  ASSUME NEW s \in Starters, CountTypeOK, Failed(s) \/ NotLanded(s)
  PROVE  /\ tally' \in [Starters -> Tallies]
         /\ ~ ctx[s].cancelled => ~ Clean(s)'
         /\ \A t \in Starters : t # s => tally'[t] = tally[t]
  <1>1. tally[s] \in Tallies
    BY DEF CountTypeOK
  <1>2. CASE Failed(s)
    <2>1. [tally[s] EXCEPT !.failed = TRUE] \in Tallies /\ [tally[s] EXCEPT !.failed = TRUE].failed = TRUE
      BY <1>1 DEF Tallies
    <2>2. QED
      BY <1>2, <2>1, TallySet DEF Failed, Clean
  <1>3. CASE NotLanded(s)
    <2>1. [tally[s] EXCEPT !.not_landed = TRUE] \in Tallies
          /\ [tally[s] EXCEPT !.not_landed = TRUE].not_landed = TRUE
      BY <1>1 DEF Tallies
    <2>2. QED
      BY <1>3, <2>1, TallySet DEF NotLanded, Clean
  <1>4. QED
    BY <1>2, <1>3

LEMMA GoneSet ==
  ASSUME NEW s \in Starters, CountTypeOK, FinisherGone(s)
  PROVE  /\ sprint' \in [Starters -> 0..Sprints] /\ accepted' \in [Starters -> SUBSET Work]
         /\ tally' \in [Starters -> Tallies] /\ outcome' \in [Starters -> {"none", "Completed", "Failed"}]
         /\ accepted'[s] = {} /\ outcome'[s] = "none" /\ sprint'[s] = 0
         /\ \A t \in Starters : t # s =>
               sprint'[t] = sprint[t] /\ accepted'[t] = accepted[t] /\ tally'[t] = tally[t]
               /\ outcome'[t] = outcome[t]
  <1>1. NoTally \in Tallies /\ 0 \in 0..Sprints /\ {} \in SUBSET Work
    BY SprintsAssumption DEF NoTally, Tallies
  <1>2. QED
    BY <1>1 DEF CountTypeOK, FinisherGone

\* A run that is over, or has been stopped, has nothing to land.
LEMMA NotGoing ==
  ASSUME NEW s \in Starters, stage[s] \in {"over", "aborted"} \/ ctx[s].cancelled
  PROVE  Landing(s)
  BY DEF Landing, Going

-------------------------------------------------------------------------------
\* Steps that are nobody's: the lock, the release after a phase, the user.

LEMMA NobodyLands ==
  ASSUME LandInv, [Next]_vars, releaser' \in [Starters -> {"off", "waiting", "done"}],
         UNCHANGED <<tree, branch, main, origin>>, merging' \in {merging, Nobody},
         UNCHANGED <<stage, git, todo, sprint, accepted, ctx, tally, outcome>>
  PROVE  LandInv'
  <1>1. RepoMoves(Nobody) /\ OthersStay(Nobody)
    BY DEF RepoMoves, OthersStay
  <1>2. \A t \in Starters : Landing(t)' /\ Order(t)'
    <2>1. ASSUME NEW t \in Starters PROVE t # Nobody
      BY NobodyAssumption DEF Files
    <2>2. QED
      BY <1>1, <2>1, OthersLand
  <1>3. LockTypeOK'
    BY TypeParts, NextIsLockNext, LockTypeStep DEF LandInv
  <1>4. RepoTypeOK' /\ TaskTypeOK' /\ CountTypeOK'
    BY TypeParts DEF LandInv, RepoTypeOK, TaskTypeOK, CountTypeOK
  <1>5. TypeOK'
    BY <1>3, <1>4 DEF TypeOK, RepoTypeOK, TaskTypeOK, CountTypeOK, Ctxs, Tallies
  <1>6. QED
    BY <1>2, <1>5 DEF LandInv

LEMMA StutterLands == ASSUME LandInv, UNCHANGED vars PROVE LandInv'
  <1>1. UNCHANGED repoVars /\ UNCHANGED runVars
    BY DEF vars
  <1>2. UNCHANGED <<tree, branch, main, origin, merging>>
        /\ UNCHANGED <<stage, git, todo, sprint, accepted, ctx, tally, outcome, releaser>>
    BY <1>1 DEF repoVars, runVars
  <1>3. releaser' \in [Starters -> {"off", "waiting", "done"}]
    BY <1>2, TypeParts DEF LandInv, TaskTypeOK
  <1>4. QED
    BY <1>2, <1>3, NobodyLands

LEMMA LockLands == ASSUME NEW s \in Starters, LandInv, Next, Lock(s) PROVE LandInv'
  <1>1. UNCHANGED repoVars /\ UNCHANGED runVars
    BY DEF Lock
  <1>2. UNCHANGED <<tree, branch, main, origin, merging>>
        /\ UNCHANGED <<stage, git, todo, sprint, accepted, ctx, tally, outcome, releaser>>
    BY <1>1 DEF repoVars, runVars
  <1>3. releaser' \in [Starters -> {"off", "waiting", "done"}]
    BY <1>2, TypeParts DEF LandInv, TaskTypeOK
  <1>4. QED
    BY <1>2, <1>3, NobodyLands

LEMMA UserLands == ASSUME LandInv, Next, User PROVE LandInv'
  <1>1. UNCHANGED <<tree, branch, main, origin>> /\ merging' = Nobody /\ UNCHANGED runVars
    BY DEF User
  <1>2. UNCHANGED <<stage, git, todo, sprint, accepted, ctx, tally, outcome, releaser>>
    BY <1>1 DEF runVars
  <1>3. releaser' \in [Starters -> {"off", "waiting", "done"}]
    BY <1>2, TypeParts DEF LandInv, TaskTypeOK
  <1>4. QED
    BY <1>1, <1>2, <1>3, NobodyLands

LEMMA ReleaseLands == ASSUME NEW s \in Starters, LandInv, Next, ReleaseAfterPhase(s) PROVE LandInv'
  <1>1. UNCHANGED repoVars /\ UNCHANGED <<stage, git, todo, sprint, accepted, ctx, tally, outcome>>
        /\ releaser' = [releaser EXCEPT ![s] = "done"]
    BY DEF ReleaseAfterPhase, ReleaseWhen
  <1>2. UNCHANGED <<tree, branch, main, origin, merging>>
    BY <1>1 DEF repoVars
  <1>3. releaser' \in [Starters -> {"off", "waiting", "done"}]
    BY <1>1, TypeParts DEF LandInv, TaskTypeOK
  <1>4. QED
    BY <1>1, <1>2, <1>3, NobodyLands

-------------------------------------------------------------------------------
\* The finisher.

\* What every step of a run starts from.
LEMMA LandFacts ==
  ASSUME NEW s \in Starters, LandInv
  PROVE  /\ RepoTypeOK /\ TaskTypeOK /\ CountTypeOK /\ Landing(s) /\ Order(s)
         /\ todo[s] \in Seq(Roles) /\ ctx[s] \in Ctxs /\ tally[s] \in Tallies
         /\ accepted[s] \subseteq Work /\ sprint[s] \in 0..Sprints /\ Sprints \in Nat \ {0}
         /\ git[s] \in {"idle", "commit", "merge", "abort", "push"} /\ stage[s] \in Stages
  BY TypeParts, SprintsAssumption DEF LandInv, RepoTypeOK, TaskTypeOK, CountTypeOK

\* The repository as it was.
LEMMA RepoStays ==
  ASSUME NEW s, LandInv, UNCHANGED repoVars
  PROVE  RepoTypeOK' /\ RepoMoves(s) /\ UNCHANGED <<tree, branch, main, origin, merging>>
  <1>1. UNCHANGED <<tree, branch, main, origin, merging>>
    BY DEF repoVars
  <1>2. QED
    BY <1>1, TypeParts DEF LandInv, RepoTypeOK, RepoMoves

LEMMA SetUpLands == ASSUME NEW s \in Starters, LandInv, Next, SetUp(s) PROVE LandInv'
  <1>0. /\ RepoTypeOK /\ TaskTypeOK /\ CountTypeOK /\ Landing(s) /\ Order(s)
        /\ sprint[s] \in 0..Sprints /\ Sprints \in Nat \ {0}
    BY LandFacts
  <1>1. /\ stage[s] = "off" /\ UNCHANGED repoVars
        /\ UNCHANGED <<git, todo, sprint, accepted, tally, outcome, releaser>>
    BY DEF SetUp
  <1>2. RepoTypeOK' /\ RepoMoves(s) /\ merging' = merging
    BY <1>1, RepoStays
  <1>3. git[s] = "idle" /\ accepted[s] = {} /\ sprint[s] = 0 /\ merging # s /\ outcome[s] # "Completed"
    BY <1>0, <1>1, Zenon DEF Order
  <1>4. CASE NoWorktree(s)
    <2>1. Stage(s, "over") /\ UNCHANGED ctx
      BY <1>4 DEF NoWorktree
    <2>2. /\ stage' \in [Starters -> Stages] /\ stage'[s] = "over"
          /\ \A t \in Starters : t # s => stage'[t] = stage[t]
      BY <1>0, <2>1, StageSet DEF Stages
    <2>3. TaskTypeOK' /\ CountTypeOK' /\ OthersStay(s)
      BY <1>0, <1>1, <2>1, <2>2 DEF TaskTypeOK, CountTypeOK, OthersStay
    <2>4. Landing(s)' /\ Order(s)'
      BY <1>1, <1>3, <2>2 DEF Landing, Going, Order
    <2>5. QED
      BY <1>2, <2>3, <2>4, OneLands
  <1>5. CASE Stage(s, "sprint") /\ \E has_main \in BOOLEAN, excluded \in Untrusted :
                ctx' = [ctx EXCEPT ![s] = Ctx(FALSE, has_main, excluded)]
    <2>1. PICK has_main \in BOOLEAN, excluded \in Untrusted :
                ctx' = [ctx EXCEPT ![s] = Ctx(FALSE, has_main, excluded)]
      BY <1>5
    <2>2. excluded \in SUBSET Roles
      BY DEF Untrusted
    <2>3. Ctx(FALSE, has_main, excluded) \in Ctxs /\ Ctx(FALSE, has_main, excluded).sprint_ok
      BY <2>2, FreshCtx
    <2>4. /\ ctx' \in [Starters -> Ctxs] /\ ctx'[s].sprint_ok
          /\ \A t \in Starters : t # s => ctx'[t] = ctx[t]
      BY <1>0, <2>1, <2>3, CtxSet
    <2>5. /\ stage' \in [Starters -> Stages] /\ stage'[s] = "sprint"
          /\ \A t \in Starters : t # s => stage'[t] = stage[t]
      BY <1>0, <1>5, StageSet DEF Stages
    <2>6. TaskTypeOK' /\ CountTypeOK' /\ OthersStay(s)
      BY <1>0, <1>1, <2>4, <2>5 DEF TaskTypeOK, CountTypeOK, OthersStay
    <2>7. Landing(s)' /\ Order(s)'
      BY <1>0, <1>1, <1>2, <1>3, <2>4, <2>5 DEF Landing, Going, Order
    <2>8. QED
      BY <1>2, <2>6, <2>7, OneLands
  <1>6. QED
    BY <1>4, <1>5 DEF SetUp

LEMMA LeadLands == ASSUME NEW s \in Starters, LandInv, Next, LeadReturns(s) PROVE LandInv'
  <1>0. /\ RepoTypeOK /\ TaskTypeOK /\ CountTypeOK /\ Landing(s) /\ Order(s)
        /\ sprint[s] \in 0..Sprints /\ Sprints \in Nat \ {0} /\ accepted[s] \subseteq Work
    BY LandFacts
  <1>1. /\ stage[s] = "sprint" /\ sprint' = [sprint EXCEPT ![s] = @ + 1] /\ Stage(s, "enter")
        /\ UNCHANGED <<branch, main, origin, merging, git, tally, outcome, releaser>>
    BY DEF LeadReturns
  <1>2. PICK touched \in SUBSET Roles, done \in SUBSET Roles, ok \in BOOLEAN :
          LET piece(r) == <<s, sprint[s] + 1, r>> IN
          /\ tree' = [r \in Roles |-> tree[r] \cup (IF r \in touched THEN {piece(r)} ELSE {})]
          /\ accepted' = [accepted EXCEPT ![s] = @ \cup {piece(r) : r \in touched \cap done}]
          /\ \E tasks \in TasksOf(done) : todo' = [todo EXCEPT ![s] = tasks]
          /\ ctx' = [ctx EXCEPT ![s].sprint_ok = ok]
    BY DEF LeadReturns
  <1> DEFINE piece(r) == <<s, sprint[s] + 1, r>>
             new == {piece(r) : r \in touched \cap done}
  <1>3. PICK tasks \in TasksOf(done) : todo' = [todo EXCEPT ![s] = tasks]
    BY <1>2
  <1>4. tasks \in Seq(Roles) /\ \A r \in done : \E i \in DOMAIN tasks : tasks[i] = r
    BY TaskList
  <1>5. /\ todo' \in [Starters -> Seq(Roles)] /\ todo'[s] = tasks
        /\ \A t \in Starters : t # s => todo'[t] = todo[t]
    BY <1>0, <1>3, <1>4, TodoSet
  <1>6. sprint[s] + 1 \in 1..Sprints /\ sprint[s] + 1 \in 0..Sprints
    BY <1>0, <1>1 DEF Order
  <1>7. \A r \in Roles : piece(r) \in Work
    BY <1>6 DEF Work, Files
  <1>8. /\ tree' \in [Roles -> SUBSET Work]
        /\ \A r \in Roles : tree[r] \subseteq tree'[r] /\ (r \in touched => piece(r) \in tree'[r])
    BY <1>0, <1>2, <1>7 DEF RepoTypeOK
  <1>9. /\ accepted' \in [Starters -> SUBSET Work] /\ accepted'[s] = accepted[s] \cup new
        /\ \A t \in Starters : t # s => accepted'[t] = accepted[t]
    <2>1. accepted' = [accepted EXCEPT ![s] = accepted[s] \cup new]
      BY <1>2
    <2>2. accepted[s] \cup new \in SUBSET Work
      BY <1>0, <1>7
    <2> HIDE DEF new
    <2>3. QED
      BY <1>0, <2>1, <2>2 DEF CountTypeOK
  <1>10. CtxField(s, ctx[s].merges_blocked, ctx[s].excluded, ok)
    BY <1>0, <1>2, CtxFields
  <1>11. /\ stage' \in [Starters -> Stages] /\ stage'[s] = "enter"
         /\ \A t \in Starters : t # s => stage'[t] = stage[t]
    BY <1>0, <1>1, StageSet DEF Stages
  <1>12. sprint' \in [Starters -> 0..Sprints] /\ \A t \in Starters : t # s => sprint'[t] = sprint[t]
    BY <1>0, <1>1, <1>6 DEF CountTypeOK
  <1> HIDE DEF new, piece
  <1>13. RepoTypeOK' /\ RepoMoves(s)
    BY <1>0, <1>1, <1>8 DEF RepoTypeOK, RepoMoves
  <1>14. TaskTypeOK' /\ CountTypeOK' /\ OthersStay(s)
    BY <1>0, <1>1, <1>5, <1>9, <1>10, <1>11, <1>12 DEF TaskTypeOK, CountTypeOK, OthersStay, CtxField
  <1>15. git[s] = "idle" /\ outcome[s] # "Completed" /\ ctx[s].sprint_ok
    BY <1>0, <1>1, Zenon DEF Order
  <1>16. Order(s)'
    BY <1>1, <1>11, <1>15 DEF Order
  <1>17. ASSUME Going(s)', Clean(s)' PROVE /\ \A p \in accepted'[s] : Safe(s, p)'
                                           /\ merging' # s
    <2>1. Going(s) /\ Clean(s)
      BY <1>1, <1>10, <1>17 DEF Going, Clean, CtxField
    <2>2. (\A p \in accepted[s] : Safe(s, p)) /\ merging # s
      BY <1>0, <1>15, <2>1 DEF Landing
    <2>3. accepted[s] \subseteq main
      BY <1>1, <1>15, <2>2 DEF Safe, Committing
    <2>4. Committing(s)'
      BY <1>11 DEF Committing
    <2>5. ASSUME NEW p \in new PROVE Safe(s, p)'
      <3>1. PICK r \in touched \cap done : p = piece(r)
        BY DEF new
      <3>2. p \in tree'[r] /\ r \in Left(s)'
        BY <1>4, <1>5, <1>8, <3>1 DEF Left
      <3>3. QED
        BY <2>4, <3>2 DEF Safe
    <2>6. ASSUME NEW p \in accepted[s] PROVE Safe(s, p)'
      BY <1>1, <2>3 DEF Safe
    <2>7. QED
      BY <1>1, <1>9, <2>2, <2>5, <2>6
  <1>18. Landing(s)'
    BY <1>1, <1>15, <1>17 DEF Landing
  <1>19. QED
    BY <1>13, <1>14, <1>16, <1>18, OneLands

LEMMA SpawnLands == ASSUME NEW s \in Starters, LandInv, Next, SpawnFails(s) PROVE LandInv'
  <1>0. /\ RepoTypeOK /\ TaskTypeOK /\ CountTypeOK /\ Order(s)
    BY LandFacts
  <1>1. /\ stage[s] = "sprint" /\ Stage(s, "end") /\ ctx' = [ctx EXCEPT ![s].sprint_ok = FALSE]
        /\ UNCHANGED repoVars
        /\ UNCHANGED <<git, todo, sprint, accepted, tally, outcome, releaser>>
    BY DEF SpawnFails
  <1>2. RepoTypeOK' /\ RepoMoves(s)
    BY <1>1, RepoStays
  <1>3. /\ stage' \in [Starters -> Stages] /\ stage'[s] = "end"
        /\ \A t \in Starters : t # s => stage'[t] = stage[t]
    BY <1>0, <1>1, StageSet DEF Stages
  <1>4. CtxField(s, ctx[s].merges_blocked, ctx[s].excluded, FALSE)
    BY <1>0, <1>1, CtxFields
  <1>5. TaskTypeOK' /\ CountTypeOK' /\ OthersStay(s)
    BY <1>0, <1>1, <1>3, <1>4 DEF TaskTypeOK, CountTypeOK, OthersStay, CtxField
  <1>6. git[s] = "idle" /\ outcome[s] # "Completed"
    BY <1>0, <1>1, Zenon DEF Order
  <1>7. Landing(s)' /\ Order(s)'
    BY <1>1, <1>3, <1>4, <1>6 DEF Landing, Order, CtxField
  <1>8. QED
    BY <1>2, <1>5, <1>7, OneLands

LEMMA EnterLands == ASSUME NEW s \in Starters, LandInv, Next, EnterPhase(s) \/ EnterPush(s)
                    PROVE  LandInv'
  <1>0. /\ RepoTypeOK /\ TaskTypeOK /\ CountTypeOK /\ Landing(s) /\ Order(s)
    BY LandFacts
  <1>1. PICK from \in {"enter", "enter_push"}, task \in {"commit", "push"}, waits \in {"phase", "pushing"} :
          /\ Enter(s, from, task, waits)
          /\ <<from, task, waits>> \in {<<"enter", "commit", "phase">>, <<"enter_push", "push", "pushing">>}
    BY DEF EnterPhase, EnterPush
  <1> DEFINE to == IF ctx[s].cancelled THEN "aborted" ELSE waits
  <1>2. /\ stage[s] = from /\ git[s] = "idle" /\ Git(s, task) /\ Stage(s, to) /\ UNCHANGED repoVars
        /\ UNCHANGED <<todo, sprint, accepted, ctx, tally, outcome, releaser>>
    BY <1>1 DEF Enter
  <1>3. RepoTypeOK' /\ RepoMoves(s) /\ UNCHANGED <<tree, branch, main, merging>>
    BY <1>2, RepoStays
  <1>4. to \in Stages
    BY DEF Stages
  <1>5. /\ stage' \in [Starters -> Stages] /\ stage'[s] = to
        /\ \A t \in Starters : t # s => stage'[t] = stage[t]
    BY <1>0, <1>2, <1>4, StageSet
  <1>6. /\ git' \in [Starters -> {"idle", "commit", "merge", "abort", "push"}] /\ git'[s] = task
        /\ \A t \in Starters : t # s => git'[t] = git[t]
    BY <1>0, <1>2, GitSet
  <1>7. TaskTypeOK' /\ CountTypeOK' /\ OthersStay(s)
    BY <1>0, <1>2, <1>5, <1>6 DEF TaskTypeOK, CountTypeOK, OthersStay
  <1>8. outcome[s] = "Completed" => Clean(s) /\ ctx[s].sprint_ok /\ ~ ctx[s].cancelled /\ from = "enter_push"
    BY <1>0, <1>1, <1>2 DEF Order, Going
  <1>9. Order(s)'
    BY <1>1, <1>2, <1>5, <1>6, <1>8 DEF Order, Clean, Going
  <1>10. ASSUME Going(s)', ctx[s].sprint_ok, Clean(s)
         PROVE  (\A p \in accepted[s] : Safe(s, p)') /\ merging # s
    <2>1. Going(s)
      BY <1>1, <1>2, <1>10 DEF Going
    <2>2. (\A p \in accepted[s] : Safe(s, p)) /\ merging # s
      BY <1>0, <1>2, <1>10, <2>1 DEF Landing
    <2>3. ASSUME NEW p, Safe(s, p) PROVE Safe(s, p)'
      <3>1. CASE from = "enter"
        <4>1. Committing(s)' /\ Left(s)' = Left(s)
          BY <1>1, <1>2, <1>6, <3>1 DEF Committing, Left
        <4>2. QED
          BY <1>2, <1>3, <2>3, <4>1 DEF Safe
      <3>2. CASE from = "enter_push"
        <4>1. ~ Committing(s)
          BY <1>2, <3>2 DEF Committing
        <4>2. QED
          BY <1>2, <1>3, <2>3, <4>1 DEF Safe
      <3>3. QED
        BY <1>1, <3>1, <3>2
    <2>4. QED
      BY <2>2, <2>3
  <1>11. Landing(s)'
    BY <1>1, <1>2, <1>3, <1>6, <1>10 DEF Landing, Clean
  <1>12. QED
    BY <1>3, <1>7, <1>9, <1>11, OneLands

\* Between two git tasks whatever a clean run has accepted is on main.
LEMMA OnMain ==
  ASSUME NEW s \in Starters, LandInv, git[s] = "idle", stage[s] # "enter"
  PROVE  \A p : Safe(s, p) <=> p \in main
  BY DEF Safe, Committing

\* The finisher goes on from one await to another.
LEMMA WaitOverLands ==
  ASSUME NEW s \in Starters, LandInv, Next, PhaseReturns(s) \/ PushReturns(s)
  PROVE  LandInv'
  <1>0. /\ RepoTypeOK /\ TaskTypeOK /\ CountTypeOK /\ Landing(s) /\ Order(s)
    BY LandFacts
  <1>1. PICK to \in {"sprint", "end", "ending"} :
        /\ Stage(s, to) /\ git[s] = "idle"
        /\ to \in {"sprint", "end"} => stage[s] = "phase"
        /\ to = "sprint" => ctx[s].sprint_ok /\ sprint[s] < Sprints
        /\ to = "ending" => stage[s] = "pushing"
    BY DEF PhaseReturns, PushReturns
  <1>2. UNCHANGED repoVars /\ UNCHANGED <<git, todo, sprint, accepted, ctx, tally, outcome, releaser>>
    BY DEF PhaseReturns, PushReturns
  <1>3. RepoTypeOK' /\ RepoMoves(s) /\ UNCHANGED <<tree, branch, main, merging>>
    BY <1>2, RepoStays
  <1>4. /\ stage' \in [Starters -> Stages] /\ stage'[s] = to
        /\ \A t \in Starters : t # s => stage'[t] = stage[t]
    BY <1>0, <1>1, StageSet DEF Stages
  <1>5. TaskTypeOK' /\ CountTypeOK' /\ OthersStay(s)
    BY <1>0, <1>2, <1>4 DEF TaskTypeOK, CountTypeOK, OthersStay
  <1>6. outcome[s] = "Completed" => to = "ending"
    BY <1>0, <1>1 DEF Order
  <1>7. outcome[s] = "Completed" => Clean(s) /\ ctx[s].sprint_ok /\ ~ ctx[s].cancelled
    BY <1>0 DEF Order, Going
  <1>8. Order(s)'
    BY <1>1, <1>2, <1>4, <1>6, <1>7 DEF Order, Clean, Going
  <1>9. ASSUME Going(s)', ctx[s].sprint_ok, Clean(s)
        PROVE  (\A p \in accepted[s] : p \in main) /\ merging # s
    <2>1. Going(s) /\ stage[s] # "enter"
      BY <1>1, <1>2, <1>9 DEF Going
    <2>2. QED
      BY <1>0, <1>1, <1>9, <2>1, OnMain DEF Landing
  <1>10. Landing(s)'
    BY <1>1, <1>2, <1>3, <1>9 DEF Landing, Clean, Safe
  <1>11. QED
    BY <1>3, <1>5, <1>8, <1>10, OneLands

LEMMA GateLands ==
  ASSUME NEW s \in Starters, LandInv, Next, Gate(s), ctx[s].cancelled => stage[s] # "end"
  PROVE  LandInv'
  <1>0. /\ RepoTypeOK /\ TaskTypeOK /\ CountTypeOK /\ Landing(s) /\ Order(s)
    BY LandFacts
  <1>1. /\ stage[s] = "end" /\ Stage(s, "enter_push") /\ UNCHANGED repoVars
        /\ UNCHANGED <<git, todo, sprint, accepted, ctx, tally, releaser>>
    BY DEF Gate
  <1>2. PICK o \in {"Completed", "Failed"} :
          /\ outcome' = [outcome EXCEPT ![s] = o]
          /\ o = "Completed" => ctx[s].sprint_ok /\ Clean(s)
    BY DEF Gate, Clean
  <1>3. RepoTypeOK' /\ RepoMoves(s) /\ UNCHANGED <<tree, branch, main, merging>>
    BY <1>1, RepoStays
  <1>4. /\ stage' \in [Starters -> Stages] /\ stage'[s] = "enter_push"
        /\ \A t \in Starters : t # s => stage'[t] = stage[t]
    BY <1>0, <1>1, StageSet DEF Stages
  <1>5. /\ outcome' \in [Starters -> {"none", "Completed", "Failed"}] /\ outcome'[s] = o
        /\ \A t \in Starters : t # s => outcome'[t] = outcome[t]
    BY <1>0, <1>2 DEF CountTypeOK
  <1>6. TaskTypeOK' /\ CountTypeOK' /\ OthersStay(s)
    BY <1>0, <1>1, <1>4, <1>5 DEF TaskTypeOK, CountTypeOK, OthersStay
  <1>7. git[s] = "idle" /\ Going(s) /\ Going(s)'
    BY <1>0, <1>1, <1>4 DEF Order, Going
  <1>8. Order(s)'
    BY <1>1, <1>2, <1>4, <1>5, <1>7 DEF Order, Clean
  <1>9. ASSUME ctx[s].sprint_ok, Clean(s)
        PROVE  (\A p \in accepted[s] : p \in main) /\ merging # s
    BY <1>0, <1>1, <1>7, <1>9, OnMain DEF Landing
  <1>10. Landing(s)'
    BY <1>1, <1>3, <1>7, <1>9 DEF Landing, Clean, Safe
  <1>11. QED
    BY <1>3, <1>6, <1>8, <1>10, OneLands

LEMMA FinishLands == ASSUME NEW s \in Starters, LandInv, Next, Finish(s) PROVE LandInv'
  <1>0. /\ RepoTypeOK /\ TaskTypeOK /\ CountTypeOK /\ Order(s)
    BY LandFacts
  <1>1. /\ stage[s] = "ending" /\ Stage(s, "over") /\ FinisherGone(s) /\ UNCHANGED repoVars
        /\ ctx' = [ctx EXCEPT ![s] = NewCtx] /\ UNCHANGED <<git, todo, releaser>>
    BY DEF Finish
  <1>2. RepoTypeOK' /\ RepoMoves(s)
    BY <1>1, RepoStays
  <1>3. /\ stage' \in [Starters -> Stages] /\ stage'[s] = "over"
        /\ \A t \in Starters : t # s => stage'[t] = stage[t]
    BY <1>0, <1>1, StageSet DEF Stages
  <1>4. ctx' \in [Starters -> Ctxs] /\ \A t \in Starters : t # s => ctx'[t] = ctx[t]
    BY <1>0, <1>1, NewIsCtx, CtxSet
  <1>5. /\ sprint' \in [Starters -> 0..Sprints] /\ accepted' \in [Starters -> SUBSET Work]
        /\ tally' \in [Starters -> Tallies] /\ outcome' \in [Starters -> {"none", "Completed", "Failed"}]
        /\ outcome'[s] = "none"
        /\ \A t \in Starters : t # s =>
               sprint'[t] = sprint[t] /\ accepted'[t] = accepted[t] /\ tally'[t] = tally[t]
               /\ outcome'[t] = outcome[t]
    BY <1>0, <1>1, GoneSet
  <1>6. TaskTypeOK' /\ CountTypeOK' /\ OthersStay(s)
    BY <1>0, <1>1, <1>3, <1>4, <1>5 DEF TaskTypeOK, CountTypeOK, OthersStay
  <1>7. git[s] = "idle"
    BY <1>0, <1>1, Zenon DEF Order
  <1>8. Landing(s)' /\ Order(s)'
    BY <1>1, <1>3, <1>5, <1>7 DEF Landing, Going, Order
  <1>9. QED
    BY <1>2, <1>6, <1>8, OneLands

-------------------------------------------------------------------------------
\* The blocking task of a phase.

\* What its steps do to the records of their run: the stop flag and the verdict on
\* the sprint are not theirs, and the counts only grow.
GitMoves(s) ==
    /\ UNCHANGED <<stage, sprint, accepted, outcome, releaser>>
    /\ git' \in [Starters -> {"idle", "commit", "merge", "abort", "push"}] /\ git'[s] # "push"
    /\ todo' \in [Starters -> Seq(Roles)]
    /\ ctx' \in [Starters -> Ctxs]
    /\ ctx'[s].cancelled = ctx[s].cancelled /\ ctx'[s].sprint_ok = ctx[s].sprint_ok
    /\ tally' \in [Starters -> Tallies]
    /\ ~ ctx[s].cancelled => (Clean(s)' => Clean(s))
    /\ \A t \in Starters : t # s => /\ git'[t] = git[t] /\ todo'[t] = todo[t]
                                    /\ ctx'[t] = ctx[t] /\ tally'[t] = tally[t]

\* What is left to show of a step of a run that goes on, with nothing counted
\* against it.
Lands(s) == /\ \A p \in accepted[s] : Safe(s, p) => Safe(s, p)'
            /\ git'[s] = "merge" => ctx'[s].excluded = {}

LEMMA GitLands ==
  ASSUME NEW s \in Starters, LandInv, Next, git[s] \in {"commit", "merge", "abort"},
         GitMoves(s), RepoTypeOK', RepoMoves(s),
         Going(s) /\ ctx[s].sprint_ok /\ Clean(s)' /\ git'[s] # "abort" =>
             git[s] # "abort" /\ merging' # s /\ Lands(s)
  PROVE  LandInv'
  <1>0. /\ RepoTypeOK /\ TaskTypeOK /\ CountTypeOK /\ Landing(s) /\ Order(s)
    BY LandFacts
  <1>1. TaskTypeOK' /\ CountTypeOK' /\ OthersStay(s)
    BY <1>0 DEF GitMoves, TaskTypeOK, CountTypeOK, OthersStay
  <1>2. stage[s] \in {"phase", "aborted"} /\ outcome[s] # "Completed"
    BY <1>0 DEF Order
  <1>3. Order(s)'
    BY <1>0, <1>2 DEF Order, GitMoves
  <1>4. Landing(s)'
    <2> SUFFICES ASSUME Going(s)', ctx'[s].sprint_ok, Clean(s)', git'[s] # "abort"
                 PROVE  /\ \A p \in accepted'[s] : Safe(s, p)'
                        /\ merging' # s
                        /\ git'[s] = "merge" => ctx'[s].excluded = {}
      BY DEF Landing
    <2>1. Going(s) /\ ctx[s].sprint_ok /\ Clean(s)
      BY DEF Going, GitMoves
    <2>2. git[s] # "abort" /\ merging' # s /\ Lands(s)
      BY <2>1
    <2>3. \A p \in accepted[s] : Safe(s, p)
      BY <1>0, <2>1, <2>2 DEF Landing
    <2>4. QED
      BY <2>2, <2>3 DEF Lands, GitMoves
  <1>5. QED
    BY <1>1, <1>3, <1>4, OneLands

\* A step that counts a failure, or a piece of work that did not land.
LEMMA CountedLands ==
  ASSUME NEW s \in Starters, LandInv, Next, git[s] \in {"commit", "merge", "abort"},
         GitMoves(s), RepoTypeOK', RepoMoves(s), ~ ctx[s].cancelled => ~ Clean(s)'
  PROVE  LandInv'
  BY GitLands DEF Going

LEMMA LeftAreRoles == ASSUME NEW s \in Starters, TaskTypeOK PROVE Left(s) \subseteq Roles
  <1>1. todo[s] \in Seq(Roles)
    BY DEF TaskTypeOK
  <1>2. QED
    BY <1>1 DEF Left

LEMMA CommitLands == ASSUME NEW s \in Starters, LandInv, Next, CommitAccepted(s) PROVE LandInv'
  <1> DEFINE r == Head(todo[s])
  <1>0. /\ RepoTypeOK /\ TaskTypeOK /\ CountTypeOK /\ Landing(s) /\ ctx[s] \in Ctxs
    BY LandFacts
  <1>1. /\ git[s] = "commit" /\ todo[s] # <<>> /\ Pop(s)
        /\ UNCHANGED <<main, origin, merging, stage, git, sprint, accepted, outcome, releaser>>
    BY DEF CommitAccepted
  <1>2. /\ r \in Roles /\ todo' \in [Starters -> Seq(Roles)]
        /\ \A q \in Left(s) : q = r \/ q \in Left(s)'
        /\ \A t \in Starters : t # s => todo'[t] = todo[t]
    BY <1>0, <1>1, Popped
  <1> HIDE DEF r
  <1>3. Committing(s) /\ Committing(s)'
    BY <1>1 DEF Committing
  <1>4. CASE /\ ctx[s].cancelled \/ tree[r] = {}
             /\ UNCHANGED <<tree, branch, ctx, tally>>
    <2>1. CtxField(s, ctx[s].merges_blocked, ctx[s].excluded, ctx[s].sprint_ok)
      BY <1>0, <1>4, CtxFields
    <2>2. GitMoves(s)
      BY <1>0, <1>1, <1>2, <1>4, <2>1 DEF GitMoves, CtxField, TaskTypeOK, CountTypeOK, Clean
    <2>3. RepoTypeOK' /\ RepoMoves(s)
      BY <1>0, <1>1, <1>4 DEF RepoTypeOK, RepoMoves
    <2>4. ASSUME ~ ctx[s].cancelled, NEW p, Safe(s, p) PROVE Safe(s, p)'
      BY <1>1, <1>2, <1>3, <1>4, <2>4 DEF Safe
    <2>5. ASSUME Going(s), ctx[s].sprint_ok, Clean(s)' PROVE merging' # s /\ Lands(s)
      <3>1. Clean(s)
        BY <1>4, <2>5 DEF Clean
      <3>2. QED
        BY <1>0, <1>1, <2>4, <2>5, <3>1 DEF Landing, Lands, Going
    <2>6. QED
      BY <1>1, <2>2, <2>3, <2>5, GitLands
  <1>5. CASE /\ ~ctx[s].cancelled /\ Failed(s) /\ UNCHANGED <<tree, branch>>
             /\ \E x \in SUBSET Roles : ctx' = [ctx EXCEPT ![s].excluded = x]
    <2>1. PICK x \in SUBSET Roles : CtxField(s, ctx[s].merges_blocked, x, ctx[s].sprint_ok)
      BY <1>0, <1>5, CtxFields
    <2>2. tally' \in [Starters -> Tallies] /\ ~ Clean(s)' /\ \A t \in Starters : t # s => tally'[t] = tally[t]
      BY <1>0, <1>5, Counted
    <2>3. GitMoves(s)
      BY <1>0, <1>1, <1>2, <2>1, <2>2 DEF GitMoves, CtxField, TaskTypeOK
    <2>4. RepoTypeOK' /\ RepoMoves(s)
      BY <1>0, <1>1, <1>5 DEF RepoTypeOK, RepoMoves
    <2>5. QED
      BY <1>1, <2>2, <2>3, <2>4, CountedLands
  <1>6. CASE /\ ~ctx[s].cancelled
             /\ tree' = [tree EXCEPT ![r] = {}] /\ branch' = [branch EXCEPT ![r] = @ \cup tree[r]]
             /\ Failed(s) \/ UNCHANGED tally
             /\ UNCHANGED ctx
    <2>1. CtxField(s, ctx[s].merges_blocked, ctx[s].excluded, ctx[s].sprint_ok)
      BY <1>0, <1>6, CtxFields
    <2>2. tree' \in [Roles -> SUBSET Work] /\ branch' \in [Roles -> SUBSET Work]
          /\ branch'[r] = branch[r] \cup tree[r]
          /\ \A q \in Roles : q # r => tree'[q] = tree[q] /\ branch'[q] = branch[q]
      BY <1>0, <1>2, <1>6 DEF RepoTypeOK
    <2>3. RepoTypeOK' /\ RepoMoves(s)
      <3>1. RepoTypeOK'
        BY <1>0, <1>1, <2>2 DEF RepoTypeOK
      <3>2. \A q \in Roles : branch[q] \subseteq branch'[q] /\ tree[q] \subseteq tree'[q] \cup branch'[q]
        BY <2>2
      <3>3. QED
        BY <1>1, <3>1, <3>2 DEF RepoMoves
    <2>4. CASE Failed(s)
      <3>1. tally' \in [Starters -> Tallies] /\ ~ Clean(s)' /\ \A t \in Starters : t # s => tally'[t] = tally[t]
        BY <1>0, <1>6, <2>4, Counted
      <3>2. GitMoves(s)
        BY <1>0, <1>1, <1>2, <2>1, <3>1 DEF GitMoves, CtxField, TaskTypeOK
      <3>3. QED
        BY <1>1, <2>3, <3>1, <3>2, CountedLands
    <2>5. CASE UNCHANGED tally
      <3>1. GitMoves(s)
        BY <1>0, <1>1, <1>2, <2>1, <2>5 DEF GitMoves, CtxField, TaskTypeOK, CountTypeOK, Clean
      <3>2. ASSUME NEW p, Safe(s, p) PROVE Safe(s, p)'
        <4>1. CASE p \in main
          BY <1>1, <4>1 DEF Safe
        <4>2. ASSUME NEW q \in Left(s), p \in tree[q] PROVE Safe(s, p)'
          <5>1. CASE q = r
            BY <1>2, <1>3, <2>2, <4>2, <5>1 DEF Safe
          <5>2. CASE q # r
            <6>1. q \in Left(s)' /\ q \in Roles
              BY <1>0, <1>2, <4>2, <5>2, LeftAreRoles
            <6>2. p \in tree'[q]
              BY <2>2, <4>2, <5>2, <6>1
            <6>3. QED
              BY <1>3, <6>1, <6>2 DEF Safe
          <5>3. QED
            BY <5>1, <5>2
        <4>3. ASSUME NEW q \in Roles, p \in branch[q] PROVE Safe(s, p)'
          <5>1. p \in branch'[q]
            BY <2>2, <4>3
          <5>2. QED
            BY <1>3, <5>1 DEF Safe
        <4>4. QED
          BY <1>1, <3>2, <4>1, <4>2, <4>3 DEF Safe
      <3>3. ASSUME Going(s), ctx[s].sprint_ok, Clean(s)' PROVE merging' # s /\ Lands(s)
        <4>1. Clean(s)
          BY <2>5, <3>3 DEF Clean
        <4>2. QED
          BY <1>0, <1>1, <3>2, <3>3, <4>1 DEF Landing, Lands
      <3>4. QED
        BY <1>1, <2>3, <3>1, <3>3, GitLands
    <2>6. QED
      BY <1>6, <2>4, <2>5
  <1>7. QED
    <2>1. ctx[s].excluded \in SUBSET Roles /\ ctx[s].excluded \cup {r} \in SUBSET Roles
      BY <1>0, <1>2 DEF Ctxs
    <2>2. QED
      BY <1>4, <1>5, <1>6, <2>1 DEF CommitAccepted, r

\* What is to be merged is on the branches, of every role.
LEMMA MergeSprintLands ==
  ASSUME NEW s \in Starters, LandInv, Next, MergeSprint(s) PROVE LandInv'
  <1>0. /\ RepoTypeOK /\ TaskTypeOK /\ CountTypeOK /\ Landing(s)
        /\ ctx[s] \in Ctxs /\ tally[s] \in Tallies
    BY LandFacts
  <1>1. /\ git[s] = "commit" /\ todo[s] = <<>> /\ UNCHANGED repoVars
        /\ UNCHANGED <<stage, sprint, accepted, ctx, outcome, releaser>>
    BY DEF MergeSprint
  <1>2. RepoTypeOK' /\ RepoMoves(s) /\ UNCHANGED <<tree, branch, main, merging>>
    BY <1>1, RepoStays
  <1>3. CtxField(s, ctx[s].merges_blocked, ctx[s].excluded, ctx[s].sprint_ok)
    BY <1>0, <1>1, CtxFields
  <1>4. Left(s) = {}
    BY <1>1 DEF Left
  <1>5. CASE ctx[s].cancelled /\ Git(s, "idle") /\ UNCHANGED <<todo, tally>>
    <2>1. /\ git' \in [Starters -> {"idle", "commit", "merge", "abort", "push"}] /\ git'[s] = "idle"
          /\ \A t \in Starters : t # s => git'[t] = git[t]
      BY <1>0, <1>5, GitSet
    <2>2. GitMoves(s)
      BY <1>0, <1>1, <1>3, <1>5, <2>1 DEF GitMoves, CtxField, TaskTypeOK, CountTypeOK
    <2>3. QED
      BY <1>1, <1>2, <1>5, <2>2, GitLands DEF Going
  <1>6. CASE /\ ~ctx[s].cancelled
             /\ LET merges == ctx[s].sprint_ok /\ ctx[s].has_main IN
                /\ Git(s, IF merges THEN "merge" ELSE "idle")
                /\ todo' = [todo EXCEPT ![s] = IF merges THEN RoleOrder ELSE <<>>]
             /\ \E unlanded \in {\E r \in Roles : Ahead(r), TRUE} :
                   Tally(s, [tally[s] EXCEPT
                       !.failed = @ \/ ctx[s].excluded # {},
                       !.not_landed = @ \/ (ctx[s].sprint_ok /\ ~ctx[s].has_main /\ unlanded)])
    <2> DEFINE merges == ctx[s].sprint_ok /\ ctx[s].has_main
               to == IF merges THEN "merge" ELSE "idle"
               roles == IF merges THEN RoleOrder ELSE <<>>
    <2>1. /\ git' \in [Starters -> {"idle", "commit", "merge", "abort", "push"}] /\ git'[s] = to
          /\ \A t \in Starters : t # s => git'[t] = git[t]
      <3>1. Git(s, to) /\ to \in {"idle", "commit", "merge", "abort", "push"}
        BY <1>6
      <3>2. QED
        BY <1>0, <3>1, GitSet
    <2>2. /\ todo' \in [Starters -> Seq(Roles)] /\ todo'[s] = roles
          /\ \A t \in Starters : t # s => todo'[t] = todo[t]
      <3>1. roles \in Seq(Roles) /\ todo' = [todo EXCEPT ![s] = roles]
        BY <1>6, EveryRole
      <3>2. QED
        BY <1>0, <3>1, TodoSet
    <2>3. PICK unlanded \in {\E r \in Roles : Ahead(r), TRUE} :
             Tally(s, [tally[s] EXCEPT
                 !.failed = @ \/ ctx[s].excluded # {},
                 !.not_landed = @ \/ (ctx[s].sprint_ok /\ ~ctx[s].has_main /\ unlanded)])
      BY <1>6
    <2> DEFINE c == [tally[s] EXCEPT
                 !.failed = @ \/ ctx[s].excluded # {},
                 !.not_landed = @ \/ (ctx[s].sprint_ok /\ ~ctx[s].has_main /\ unlanded)]
    <2>4. /\ c \in Tallies
          /\ c.failed = (tally[s].failed \/ ctx[s].excluded # {})
          /\ c.not_landed = (tally[s].not_landed \/ (ctx[s].sprint_ok /\ ~ctx[s].has_main /\ unlanded))
      BY <1>0 DEF Tallies
    <2>5. Tally(s, c)
      BY <2>3
    <2> HIDE DEF c
    <2>6. tally' \in [Starters -> Tallies] /\ tally'[s] = c /\ \A t \in Starters : t # s => tally'[t] = tally[t]
      BY <1>0, <1>6, <2>4, <2>5, TallySet
    <2>7. Clean(s)' => /\ Clean(s) /\ ctx[s].excluded = {}
                       /\ ~ (ctx[s].sprint_ok /\ ~ctx[s].has_main /\ unlanded)
      BY <2>4, <2>6 DEF Clean
    <2>8. GitMoves(s)
      BY <1>1, <1>3, <2>1, <2>2, <2>6, <2>7 DEF GitMoves, CtxField
    <2>9. ASSUME Going(s), ctx[s].sprint_ok, Clean(s)' PROVE merging' # s /\ Lands(s)
      <3>1. merging # s
        BY <1>0, <1>1, <2>7, <2>9 DEF Landing
      <3>2. ASSUME NEW p, Safe(s, p) PROVE Safe(s, p)'
        <4>1. p \in main \/ \E r \in Roles : p \in branch[r]
          BY <1>1, <1>4, <3>2 DEF Safe
        <4>2. CASE p \in main
          BY <1>2, <4>2 DEF Safe
        <4>3. ASSUME NEW r \in Roles, p \in branch[r] PROVE Safe(s, p)'
          <5>1. CASE ctx[s].has_main
            <6>1. git'[s] = "merge" /\ todo'[s] = RoleOrder
              BY <2>1, <2>2, <2>9, <5>1
            <6>2. r \in Left(s)'
              BY <6>1, EveryRole DEF Left
            <6>3. QED
              BY <1>2, <4>3, <6>1, <6>2 DEF Safe
          <5>2. CASE ~ ctx[s].has_main
            <6>1. ~ unlanded
              BY <2>7, <2>9, <5>2
            <6>2. ~ \E q \in Roles : Ahead(q)
              BY <6>1
            <6>3. QED
              BY <1>2, <4>3, <6>2 DEF Ahead, Safe
          <5>3. QED
            BY <5>1, <5>2
        <4>4. QED
          BY <4>1, <4>2, <4>3
      <3>3. QED
        BY <1>2, <1>3, <2>7, <2>9, <3>1, <3>2 DEF Lands, CtxField
    <2>10. QED
      BY <1>1, <1>2, <2>8, <2>9, GitLands
  <1>7. QED
    BY <1>5, <1>6 DEF MergeSprint

\* The loop over the roles ends.
LEMMA GitOver ==
  ASSUME NEW s \in Starters, TaskTypeOK, Git(s, "idle"), todo' = [todo EXCEPT ![s] = <<>>]
  PROVE  /\ git' \in [Starters -> {"idle", "commit", "merge", "abort", "push"}] /\ git'[s] = "idle"
         /\ todo' \in [Starters -> Seq(Roles)]
         /\ \A t \in Starters : t # s => git'[t] = git[t] /\ todo'[t] = todo[t]
  BY GitSet, TodoSet, EveryRole

LEMMA MergesOverLands == ASSUME NEW s \in Starters, LandInv, Next, MergesOver(s) PROVE LandInv'
  <1>0. TaskTypeOK /\ CountTypeOK /\ Landing(s)
    BY LandFacts
  <1>1. /\ git[s] = "merge" /\ (todo[s] = <<>> \/ ctx[s].cancelled) /\ UNCHANGED repoVars
        /\ UNCHANGED <<stage, sprint, accepted, ctx, tally, outcome, releaser>>
    BY DEF MergesOver
  <1>2. RepoTypeOK' /\ RepoMoves(s) /\ UNCHANGED <<tree, branch, main, merging>>
    BY <1>1, RepoStays
  <1>3. CtxField(s, ctx[s].merges_blocked, ctx[s].excluded, ctx[s].sprint_ok)
    BY <1>0, <1>1, CtxFields
  <1>4. /\ git' \in [Starters -> {"idle", "commit", "merge", "abort", "push"}] /\ git'[s] = "idle"
        /\ todo' \in [Starters -> Seq(Roles)]
        /\ \A t \in Starters : t # s => git'[t] = git[t] /\ todo'[t] = todo[t]
    BY <1>0, GitOver DEF MergesOver
  <1>5. GitMoves(s)
    BY <1>0, <1>1, <1>3, <1>4 DEF GitMoves, CtxField, CountTypeOK, Clean
  <1>6. ASSUME Going(s), ctx[s].sprint_ok, Clean(s)' PROVE merging' # s /\ Lands(s)
    <2>1. Clean(s) /\ ~ ctx[s].cancelled /\ stage[s] # "enter"
      <3>1. stage[s] # "enter"
        BY <1>1, LandFacts DEF Order
      <3>2. QED
        BY <1>1, <1>6, <3>1 DEF Clean, Going
    <2>2. Left(s) = {} /\ ~ Committing(s)
      BY <1>1, <2>1 DEF Left, Committing
    <2>3. ASSUME NEW p, Safe(s, p) PROVE Safe(s, p)'
      BY <1>2, <2>2, <2>3 DEF Safe
    <2>4. QED
      BY <1>0, <1>1, <1>2, <1>4, <1>6, <2>1, <2>3 DEF Landing, Lands
  <1>7. QED
    BY <1>1, <1>2, <1>5, <1>6, GitLands

LEMMA NothingLands ==
  ASSUME NEW s \in Starters, NEW r \in Roles, LandInv, Next, NothingToMerge(s, r) PROVE LandInv'
  <1>0. TaskTypeOK /\ CountTypeOK /\ Landing(s) /\ Order(s)
    BY LandFacts
  <1>1. /\ git[s] = "merge" /\ todo[s] # <<>> /\ r = Head(todo[s]) /\ Pop(s)
        /\ r \in ctx[s].excluded \/ ~Ahead(r)
        /\ UNCHANGED repoVars
        /\ UNCHANGED <<stage, git, sprint, accepted, ctx, tally, outcome, releaser>>
    BY DEF NothingToMerge, Considers
  <1>2. RepoTypeOK' /\ RepoMoves(s) /\ UNCHANGED <<tree, branch, main, merging>>
    BY <1>1, RepoStays
  <1>3. CtxField(s, ctx[s].merges_blocked, ctx[s].excluded, ctx[s].sprint_ok)
    BY <1>0, <1>1, CtxFields
  <1>4. /\ todo' \in [Starters -> Seq(Roles)]
        /\ \A q \in Left(s) : q = r \/ q \in Left(s)'
        /\ \A t \in Starters : t # s => todo'[t] = todo[t]
    BY <1>0, <1>1, Popped
  <1>5. GitMoves(s)
    BY <1>0, <1>1, <1>3, <1>4 DEF GitMoves, CtxField, CountTypeOK, TaskTypeOK, Clean
  <1>6. ASSUME Going(s), ctx[s].sprint_ok, Clean(s)' PROVE merging' # s /\ Lands(s)
    <2>1. Clean(s) /\ stage[s] # "enter"
      BY <1>0, <1>1, <1>6 DEF Clean, Order
    <2>2. ctx[s].excluded = {} /\ merging # s
      BY <1>0, <1>1, <1>6, <2>1 DEF Landing
    <2>3. branch[r] \subseteq main
      BY <1>1, <2>2 DEF Ahead
    <2>4. ASSUME NEW p, Safe(s, p) PROVE Safe(s, p)'
      <3>1. p \in main \/ \E q \in Left(s) : p \in branch[q]
        BY <1>1, <2>1, <2>4 DEF Safe, Committing
      <3>2. QED
        BY <1>1, <1>2, <1>4, <2>3, <3>1 DEF Safe
    <2>5. QED
      BY <1>1, <1>2, <2>2, <2>4 DEF Lands
  <1>7. QED
    BY <1>1, <1>2, <1>5, <1>6, GitLands

\* The loop goes on or ends over a role that is counted against the run.
LEMMA RefusedLands ==
  ASSUME NEW s \in Starters, NEW r \in Roles, LandInv, Next,
         MergeRefused(s, r) \/ MergesSkipped(s, r)
  PROVE  LandInv'
  <1>0. TaskTypeOK /\ CountTypeOK
    BY LandFacts
  <1>1. /\ git[s] = "merge" /\ todo[s] # <<>> /\ UNCHANGED repoVars
        /\ UNCHANGED <<stage, sprint, accepted, ctx, outcome, releaser>>
    BY DEF MergeRefused, MergesSkipped, SkipMerges, Considers
  <1>2. RepoTypeOK' /\ RepoMoves(s)
    BY <1>1, RepoStays
  <1>3. CtxField(s, ctx[s].merges_blocked, ctx[s].excluded, ctx[s].sprint_ok)
    BY <1>0, <1>1, CtxFields
  <1>4. Failed(s) \/ NotLanded(s)
    BY DEF MergeRefused, MergesSkipped, SkipMerges
  <1>5. /\ tally' \in [Starters -> Tallies]
        /\ ~ ctx[s].cancelled => ~ Clean(s)'
        /\ \A t \in Starters : t # s => tally'[t] = tally[t]
    BY <1>0, <1>4, Counted
  <1>6. /\ git' \in [Starters -> {"idle", "commit", "merge", "abort", "push"}] /\ git'[s] # "push"
        /\ todo' \in [Starters -> Seq(Roles)]
        /\ \A t \in Starters : t # s => git'[t] = git[t] /\ todo'[t] = todo[t]
    <2>1. CASE MergeRefused(s, r)
      <3>1. Pop(s) /\ UNCHANGED git
        BY <2>1 DEF MergeRefused
      <3>2. todo' \in [Starters -> Seq(Roles)] /\ \A t \in Starters : t # s => todo'[t] = todo[t]
        BY <1>0, <1>1, <3>1, Popped
      <3>3. QED
        BY <1>0, <1>1, <3>1, <3>2 DEF TaskTypeOK
    <2>2. CASE MergesSkipped(s, r)
      BY <1>0, <2>2, GitOver DEF MergesSkipped, SkipMerges
    <2>3. QED
      BY <2>1, <2>2
  <1>7. GitMoves(s)
    BY <1>1, <1>3, <1>5, <1>6 DEF GitMoves, CtxField
  <1>8. QED
    BY <1>1, <1>2, <1>5, <1>7, CountedLands

LEMMA MergeLands ==
  ASSUME NEW s \in Starters, NEW r \in Roles, LandInv, Next, Merge(s, r) PROVE LandInv'
  <1>0. /\ RepoTypeOK /\ TaskTypeOK /\ CountTypeOK /\ Landing(s) /\ Order(s) /\ tally[s] \in Tallies
    BY LandFacts
  <1>1. /\ git[s] = "merge" /\ todo[s] # <<>> /\ r = Head(todo[s]) /\ Pop(s)
        /\ ~ ctx[s].cancelled
        /\ UNCHANGED <<tree, branch, origin, stage, sprint, accepted, ctx, outcome, releaser>>
    BY DEF Merge, Considers
  <1>2. CtxField(s, ctx[s].merges_blocked, ctx[s].excluded, ctx[s].sprint_ok)
    BY <1>0, <1>1, CtxFields
  <1>3. /\ todo' \in [Starters -> Seq(Roles)]
        /\ \A q \in Left(s) : q = r \/ q \in Left(s)'
        /\ \A t \in Starters : t # s => todo'[t] = todo[t]
    BY <1>0, <1>1, Popped
  <1>4. CASE merging' = s /\ Git(s, "abort") /\ UNCHANGED <<main, tally>>
    <2>1. /\ git' \in [Starters -> {"idle", "commit", "merge", "abort", "push"}] /\ git'[s] = "abort"
          /\ \A t \in Starters : t # s => git'[t] = git[t]
      BY <1>0, <1>4, GitSet
    <2>2. GitMoves(s)
      BY <1>0, <1>1, <1>2, <1>3, <1>4, <2>1 DEF GitMoves, CtxField, CountTypeOK, Clean
    <2>3. RepoTypeOK' /\ RepoMoves(s)
      BY <1>0, <1>1, <1>4 DEF RepoTypeOK, RepoMoves, Files
    <2>4. QED
      BY <1>1, <2>1, <2>2, <2>3, GitLands
  <1>5. CASE /\ main' = main \cup branch[r] /\ UNCHANGED <<merging, git>>
             /\ \E sha_read \in BOOLEAN :
                   Tally(s, [tally[s] EXCEPT !.merged = @ \/ sha_read,
                                             !.failed = @ \/ ~sha_read])
    <2>1. PICK c \in Tallies : /\ Tally(s, c) /\ c.not_landed = tally[s].not_landed
                               /\ tally[s].failed => c.failed
      <3>1. PICK sha_read \in BOOLEAN :
               Tally(s, [tally[s] EXCEPT !.merged = @ \/ sha_read, !.failed = @ \/ ~sha_read])
        BY <1>5
      <3> DEFINE d == [tally[s] EXCEPT !.merged = @ \/ sha_read, !.failed = @ \/ ~sha_read]
      <3>2. d \in Tallies /\ d.not_landed = tally[s].not_landed /\ (tally[s].failed => d.failed)
        BY <1>0 DEF Tallies
      <3>3. Tally(s, d)
        BY <3>1
      <3> HIDE DEF d
      <3>4. QED
        BY <3>2, <3>3
    <2>2. tally' \in [Starters -> Tallies] /\ tally'[s] = c /\ \A t \in Starters : t # s => tally'[t] = tally[t]
      BY <1>0, <1>1, <2>1, TallySet
    <2>3. Clean(s)' => Clean(s)
      BY <2>1, <2>2 DEF Clean
    <2>4. GitMoves(s)
      BY <1>0, <1>1, <1>2, <1>3, <1>5, <2>2, <2>3 DEF GitMoves, CtxField, TaskTypeOK
    <2>5. RepoTypeOK' /\ RepoMoves(s)
      BY <1>0, <1>1, <1>5 DEF RepoTypeOK, RepoMoves
    <2>6. ASSUME Going(s), ctx[s].sprint_ok, Clean(s)' PROVE merging' # s /\ Lands(s)
      <3>1. Clean(s) /\ stage[s] # "enter"
        BY <1>0, <1>1, <2>3, <2>6 DEF Order
      <3>2. ctx[s].excluded = {} /\ merging # s
        BY <1>0, <1>1, <2>6, <3>1 DEF Landing
      <3>3. ASSUME NEW p, Safe(s, p) PROVE Safe(s, p)'
        <4>1. p \in main \/ \E q \in Left(s) : p \in branch[q]
          BY <1>1, <3>1, <3>3 DEF Safe, Committing
        <4>2. QED
          BY <1>1, <1>3, <1>5, <4>1 DEF Safe
      <3>4. QED
        BY <1>1, <1>5, <3>2, <3>3 DEF Lands
    <2>7. QED
      BY <1>1, <2>4, <2>5, <2>6, GitLands
  <1>6. QED
    BY <1>4, <1>5 DEF Merge

LEMMA UnclearLands ==
  ASSUME NEW s \in Starters, NEW r \in Roles, LandInv, Next, MergeUnclear(s, r) PROVE LandInv'
  <1>0. RepoTypeOK /\ TaskTypeOK /\ CountTypeOK
    BY LandFacts
  <1>1. /\ git[s] = "merge" /\ main' \in {main, main \cup branch[r]}
        /\ ctx' = [ctx EXCEPT ![s].merges_blocked = TRUE]
        /\ Failed(s) /\ Git(s, "idle") /\ todo' = [todo EXCEPT ![s] = <<>>]
        /\ UNCHANGED <<tree, branch, origin, merging, stage, sprint, accepted, outcome, releaser>>
    BY DEF MergeUnclear, Considers
  <1>2. CtxField(s, TRUE, ctx[s].excluded, ctx[s].sprint_ok)
    BY <1>0, <1>1, CtxFields
  <1>3. /\ tally' \in [Starters -> Tallies]
        /\ ~ ctx[s].cancelled => ~ Clean(s)'
        /\ \A t \in Starters : t # s => tally'[t] = tally[t]
    BY <1>0, <1>1, Counted
  <1>4. /\ git' \in [Starters -> {"idle", "commit", "merge", "abort", "push"}] /\ git'[s] = "idle"
        /\ todo' \in [Starters -> Seq(Roles)]
        /\ \A t \in Starters : t # s => git'[t] = git[t] /\ todo'[t] = todo[t]
    BY <1>0, <1>1, GitOver
  <1>5. GitMoves(s)
    BY <1>1, <1>2, <1>3, <1>4 DEF GitMoves, CtxField
  <1>6. RepoTypeOK' /\ RepoMoves(s)
    BY <1>0, <1>1 DEF RepoTypeOK, RepoMoves
  <1>7. QED
    BY <1>1, <1>3, <1>5, <1>6, CountedLands

LEMMA AbortLands == ASSUME NEW s \in Starters, LandInv, Next, MergeAbort(s) PROVE LandInv'
  <1>0. RepoTypeOK /\ TaskTypeOK /\ CountTypeOK
    BY LandFacts
  <1>1. /\ git[s] = "abort" /\ Failed(s) /\ merging' \in {merging, Nobody}
        /\ UNCHANGED <<tree, branch, main, origin, stage, sprint, accepted, outcome, releaser>>
    BY DEF MergeAbort
  <1>2. PICK b \in BOOLEAN : CtxField(s, b, ctx[s].excluded, ctx[s].sprint_ok)
    <2>1. ctx[s].merges_blocked \in BOOLEAN
      BY LandFacts DEF Ctxs
    <2>2. QED
      BY <1>0, <2>1, CtxFields DEF MergeAbort
  <1>3. /\ tally' \in [Starters -> Tallies]
        /\ ~ ctx[s].cancelled => ~ Clean(s)'
        /\ \A t \in Starters : t # s => tally'[t] = tally[t]
    BY <1>0, <1>1, Counted
  <1>4. /\ git' \in [Starters -> {"idle", "commit", "merge", "abort", "push"}] /\ git'[s] # "push"
        /\ todo' \in [Starters -> Seq(Roles)]
        /\ \A t \in Starters : t # s => git'[t] = git[t] /\ todo'[t] = todo[t]
    <2>1. CASE Git(s, "merge") /\ UNCHANGED todo
      <3>1. /\ git' \in [Starters -> {"idle", "commit", "merge", "abort", "push"}] /\ git'[s] = "merge"
            /\ \A t \in Starters : t # s => git'[t] = git[t]
        BY <1>0, <2>1, GitSet
      <3>2. QED
        BY <1>0, <2>1, <3>1 DEF TaskTypeOK
    <2>2. CASE Git(s, "idle") /\ todo' = [todo EXCEPT ![s] = <<>>]
      BY <1>0, <2>2, GitOver
    <2>3. QED
      BY <2>1, <2>2 DEF MergeAbort
  <1>5. GitMoves(s)
    BY <1>1, <1>2, <1>3, <1>4 DEF GitMoves, CtxField
  <1>6. RepoTypeOK' /\ RepoMoves(s)
    BY <1>0, <1>1 DEF RepoTypeOK, RepoMoves
  <1>7. QED
    BY <1>1, <1>3, <1>5, <1>6, CountedLands

LEMMA PushLands == ASSUME NEW s \in Starters, LandInv, Next, PushMain(s) PROVE LandInv'
  <1>0. RepoTypeOK /\ TaskTypeOK /\ CountTypeOK /\ Landing(s) /\ Order(s)
    BY LandFacts
  <1>1. /\ git[s] = "push" /\ origin' \in {origin, main} /\ Git(s, "idle")
        /\ UNCHANGED <<tree, branch, main, merging, stage, todo, sprint, accepted, ctx, tally,
                       outcome, releaser>>
    BY DEF PushMain
  <1>2. /\ git' \in [Starters -> {"idle", "commit", "merge", "abort", "push"}] /\ git'[s] = "idle"
        /\ \A t \in Starters : t # s => git'[t] = git[t]
    BY <1>0, <1>1, GitSet
  <1>3. RepoTypeOK' /\ RepoMoves(s)
    BY <1>0, <1>1 DEF RepoTypeOK, RepoMoves
  <1>4. TaskTypeOK' /\ CountTypeOK' /\ OthersStay(s)
    BY <1>0, <1>1, <1>2 DEF TaskTypeOK, CountTypeOK, OthersStay
  <1>5. stage[s] \in {"pushing", "aborted"}
    BY <1>0, <1>1 DEF Order
  <1>6. Order(s)'
    BY <1>0, <1>1, <1>2, <1>5 DEF Order, Clean, Going
  <1>7. \A p : Safe(s, p) => p \in main
    BY <1>1, <1>5 DEF Safe, Committing
  <1>8. Landing(s)'
    BY <1>0, <1>1, <1>2, <1>7 DEF Landing, Going, Clean, Safe
  <1>9. QED
    BY <1>3, <1>4, <1>6, <1>8, OneLands

LEMMA GitStepLands == ASSUME NEW s \in Starters, LandInv, Next, GitStep(s) PROVE LandInv'
  BY CommitLands, MergeSprintLands, MergesOverLands, NothingLands, RefusedLands, MergeLands,
     UnclearLands, AbortLands, PushLands DEF GitStep

-------------------------------------------------------------------------------
\* The ends of a run that does not finish.

\* A finisher that is gone has nothing to show.
LEMMA GoneLands ==
  ASSUME NEW s \in Starters, LandInv, [Next]_vars, UNCHANGED repoVars, FinisherGone(s),
         TaskTypeOK', ctx' \in [Starters -> Ctxs],
         \A t \in Starters : t # s => /\ stage'[t] = stage[t] /\ git'[t] = git[t]
                                      /\ todo'[t] = todo[t] /\ ctx'[t] = ctx[t],
         ~ Going(s)', stage'[s] # "off" /\ stage'[s] # "sprint",
         git'[s] # "idle" => stage'[s] \in {"phase", "pushing", "aborted"},
         stage'[s] = "phase" => git'[s] # "push",
         stage'[s] = "pushing" => git'[s] \in {"idle", "push"}
  PROVE  LandInv'
  <1>0. CountTypeOK
    BY LandFacts
  <1>1. RepoTypeOK' /\ RepoMoves(s)
    BY RepoStays
  <1>2. /\ sprint' \in [Starters -> 0..Sprints] /\ accepted' \in [Starters -> SUBSET Work]
        /\ tally' \in [Starters -> Tallies] /\ outcome' \in [Starters -> {"none", "Completed", "Failed"}]
        /\ outcome'[s] = "none"
        /\ \A t \in Starters : t # s =>
               sprint'[t] = sprint[t] /\ accepted'[t] = accepted[t] /\ tally'[t] = tally[t]
               /\ outcome'[t] = outcome[t]
    BY <1>0, GoneSet
  <1>3. CountTypeOK' /\ OthersStay(s)
    BY <1>2 DEF CountTypeOK, OthersStay
  <1>4. Landing(s)' /\ Order(s)'
    BY <1>2 DEF Landing, Order
  <1>5. QED
    BY <1>1, <1>3, <1>4, OneLands

LEMMA StopLands == ASSUME NEW s \in Starters, LandInv, Next, Stop(s) PROVE LandInv'
  <1>0. TaskTypeOK /\ CountTypeOK /\ Order(s)
    BY LandFacts
  <1>1. /\ stage[s] # "off" /\ FinisherGone(s) /\ UNCHANGED <<git, todo>> /\ UNCHANGED repoVars
        /\ ctx' = [ctx EXCEPT ![s] = Ctx(TRUE, TRUE, {})]
        /\ releaser' = [releaser EXCEPT ![s] = "waiting"]
    BY DEF Stop, Abort
  <1>2. /\ ctx' \in [Starters -> Ctxs] /\ ctx'[s].cancelled
        /\ \A t \in Starters : t # s => ctx'[t] = ctx[t]
    <2>1. Ctx(TRUE, TRUE, {}) \in Ctxs /\ Ctx(TRUE, TRUE, {}).cancelled
      BY FreshCtx
    <2>2. QED
      BY <1>0, <1>1, <2>1, CtxSet
  <1>3. /\ stage' \in [Starters -> Stages]
        /\ stage'[s] = "aborted" \/ (stage[s] \in {"enter", "enter_push"} /\ stage'[s] = stage[s])
        /\ \A t \in Starters : t # s => stage'[t] = stage[t]
    <2>1. CASE Stage(s, "aborted")
      BY <1>0, <2>1, StageSet DEF Stages
    <2>2. CASE stage[s] \in {"enter", "enter_push"} /\ UNCHANGED stage
      BY <1>0, <2>2 DEF TaskTypeOK
    <2>3. QED
      BY <2>1, <2>2 DEF Stop, Abort
  <1>4. TaskTypeOK'
    BY <1>0, <1>1, <1>3 DEF TaskTypeOK
  <1>5. git'[s] # "idle" => stage'[s] = "aborted"
    BY <1>0, <1>1, <1>3 DEF Order
  <1>6. ~ Going(s)'
    BY <1>2 DEF Going
  <1>7. QED
    BY <1>1, <1>2, <1>3, <1>4, <1>5, <1>6, GoneLands

LEMMA CrashLands == ASSUME NEW s \in Starters, LandInv, Next, Crash(s) PROVE LandInv'
  <1>0. TaskTypeOK /\ CountTypeOK
    BY LandFacts
  <1>1. /\ Stage(s, "aborted") /\ Git(s, "idle") /\ FinisherGone(s) /\ UNCHANGED repoVars
        /\ ctx' = [ctx EXCEPT ![s] = NewCtx] /\ todo' = [todo EXCEPT ![s] = <<>>]
        /\ releaser' = [releaser EXCEPT ![s] = "off"]
    BY DEF Crash
  <1>2. ctx' \in [Starters -> Ctxs] /\ \A t \in Starters : t # s => ctx'[t] = ctx[t]
    BY <1>0, <1>1, NewIsCtx, CtxSet
  <1>3. /\ stage' \in [Starters -> Stages] /\ stage'[s] = "aborted"
        /\ \A t \in Starters : t # s => stage'[t] = stage[t]
    BY <1>0, <1>1, StageSet DEF Stages
  <1>4. /\ git' \in [Starters -> {"idle", "commit", "merge", "abort", "push"}] /\ git'[s] = "idle"
        /\ todo' \in [Starters -> Seq(Roles)]
        /\ \A t \in Starters : t # s => git'[t] = git[t] /\ todo'[t] = todo[t]
    BY <1>0, <1>1, GitOver
  <1>5. TaskTypeOK'
    BY <1>0, <1>1, <1>3, <1>4 DEF TaskTypeOK
  <1>6. ~ Going(s)'
    BY <1>3 DEF Going
  <1>7. QED
    BY <1>1, <1>2, <1>3, <1>4, <1>5, <1>6, GoneLands

-------------------------------------------------------------------------------

RunsInv == KeepsLock /\ LandInv

LEMMA FinisherLands ==
  ASSUME NEW s \in Starters, RunsInv, Next, Finisher(s) PROVE LandInv'
  <1>1. ctx[s].cancelled => stage[s] # "end"
    BY DEF RunsInv, KeepsLock, RunInv
  <1>2. QED
    BY <1>1, SetUpLands, LeadLands, SpawnLands, EnterLands, WaitOverLands, GateLands, FinishLands
       DEF Finisher, RunsInv

LEMMA InitLands == Init => LandInv
  <1> SUFFICES ASSUME Init PROVE LandInv
    OBVIOUS
  <1>1. LockTypeOK
    BY LockInitInv DEF Init, LockInv
  <1>2. RepoTypeOK
    BY <1>1, SprintsAssumption DEF Init, RepoTypeOK, Work, Files, LockTypeOK
  <1>3. TaskTypeOK
    BY EveryRole DEF Init, TaskTypeOK, Stages
  <1>4. CountTypeOK
    <2>1. NoTally \in Tallies /\ 0 \in 0..Sprints
      BY SprintsAssumption DEF NoTally, Tallies
    <2>2. QED
      BY <2>1, NewIsCtx DEF Init, CountTypeOK
  <1>5. \A s \in Starters : merging # s
    BY NobodyAssumption, OldIsNoStarter DEF Init, Files
  <1>6. ASSUME NEW s \in Starters PROVE Landing(s) /\ Order(s)
    BY <1>5, <1>6 DEF Init, Landing, Order, Going
  <1>7. QED
    BY <1>1, <1>2, <1>3, <1>4, <1>6, TypeParts DEF LandInv

LEMMA StepLands == RunsInv /\ [Next]_vars => LandInv'
  <1> SUFFICES ASSUME RunsInv, [Next]_vars PROVE LandInv'
    OBVIOUS
  <1>1. LandInv
    BY DEF RunsInv
  <1>2. CASE UNCHANGED vars
    BY <1>1, <1>2, StutterLands
  <1>3. CASE Next
    <2>1. CASE User
      BY <1>1, <1>3, <2>1, UserLands
    <2>2. ASSUME NEW s \in Starters,
                 Lock(s) \/ Finisher(s) \/ GitStep(s) \/ Stop(s) \/ ReleaseAfterPhase(s) \/ Crash(s)
          PROVE  LandInv'
      BY <1>1, <1>3, <2>2, LockLands, FinisherLands, GitStepLands, StopLands, ReleaseLands, CrashLands
    <2>3. QED
      BY <1>3, <2>1, <2>2 DEF Next
  <1>4. QED
    BY <1>2, <1>3

LEMMA RunsKeepInv == Spec => []RunsInv
  <1>1. Init => RunsInv
    BY InitKeepsLock, InitLands DEF RunsInv
  <1>2. RunsInv /\ [Next]_vars => RunsInv'
    BY NextKeepsLock, StepLands DEF RunsInv
  <1>3. QED
    BY <1>1, <1>2, PTL DEF Spec

\* The types of the variables of the runs, their locks and their repository hold.
THEOREM GitTypeCorrect == Spec => []TypeOK
  <1>1. RunsInv => TypeOK
    BY DEF RunsInv, LandInv
  <1>2. QED
    BY <1>1, RunsKeepInv, PTL

\* However many runs take turns on a root, and whatever git, the users and the
\* crashes of the runs do: a run that reports Completed has everything its Lead
\* accepted on main and no merge of its own in progress (completed_gate_met,
\* merge_sprint, commit_accepted).
THEOREM CompletedHasLanded == Spec => []CompletedMeansLanded
  <1>1. RunsInv => CompletedMeansLanded
    <2> SUFFICES ASSUME RunsInv, NEW s \in Starters, stage[s] = "ending", outcome[s] = "Completed"
                 PROVE  accepted[s] \subseteq main /\ merging # s
      BY DEF CompletedMeansLanded
    <2>1. LandInv /\ Landing(s) /\ Order(s)
      BY LandFacts DEF RunsInv
    <2>2. git[s] = "idle" /\ Clean(s) /\ ctx[s].sprint_ok /\ Going(s)
      BY <2>1, Zenon DEF Order
    <2>3. (\A p \in accepted[s] : Safe(s, p)) /\ merging # s
      BY <2>1, <2>2 DEF Landing
    <2>4. QED
      BY <2>1, <2>2, <2>3, OnMain
  <1>2. QED
    BY <1>1, RunsKeepInv, PTL
===============================================================================
