-------------------------------- MODULE GitFlow --------------------------------
(***************************************************************************)
(* crew-run gitflow.rs, worktree.rs and the git part of controller.rs: the   *)
(* runs on one project root.  A run takes the root's lock, makes a worktree  *)
(* per role, and after each sprint commits the accepted work on the role     *)
(* branches and merges them into the user's main branch; at its end it       *)
(* decides whether it completed and pushes.                                  *)
(*                                                                          *)
(* A commit is the set of the pieces of work it contains, a branch the union *)
(* of its commits.  A git command is one step with the outcomes the code     *)
(* tells apart; the blocking task that issues them (`git`) outlives the      *)
(* finisher task (`stage`) that started it.                                 *)
(***************************************************************************)
EXTENDS RunLock, Sequences

CONSTANTS
    RoleOrder,      \* ROLE_ORDER
    Sprints,        \* sprints of a run
    Brief           \* starters whose runs never get past their set-up (a bound)

Roles == {RoleOrder[i] : i \in DOMAIN RoleOrder}
Work == Files \X (1..Sprints) \X Roles

ASSUME SprintsAssumption == Sprints \in Nat \ {0}
ASSUME RolesAssumption == RoleOrder \in Seq(Roles)
ASSUME BriefAssumption == Brief \subseteq Starters

VARIABLES
    \* the repository
    tree,           \* uncommitted work in a role's worktree
    branch,         \* crew/<role>
    main,
    origin,
    merging,        \* the run that left MERGE_HEAD in the user's checkout, or Nobody
    \* a run
    stage,          \* where its finisher is
    git,            \* what its blocking git task does; it holds `phase` meanwhile
    todo,           \* roles the task has yet to handle
    sprint,
    accepted,       \* work of tasks the Lead accepted
    ctx,            \* GitFlowCtx, and sprint_ok of the last sprint
    tally,          \* git_failures > 0, not_landed, merged_any
    outcome,
    releaser        \* release_after_phase: off, waiting, done

repoVars == <<tree, branch, main, origin, merging>>
runVars == <<stage, git, todo, sprint, accepted, ctx, tally, outcome, releaser>>
vars == <<lockVars, repoVars, runVars>>

Nobody == "nobody"
ASSUME NobodyAssumption == Nobody \notin Files
Stages == {"off", "sprint", "enter", "phase", "end", "enter_push", "pushing", "ending",
           "over", "aborted"}

TypeOK ==
    /\ LockTypeOK
    /\ tree \in [Roles -> SUBSET Work] /\ branch \in [Roles -> SUBSET Work]
    /\ main \subseteq Work /\ origin \subseteq Work
    /\ merging \in Files \cup {Nobody}
    /\ stage \in [Starters -> Stages]
    /\ git \in [Starters -> {"idle", "commit", "merge", "abort", "push"}]
    /\ todo \in [Starters -> Seq(Roles)]
    /\ sprint \in [Starters -> 0..Sprints]
    /\ accepted \in [Starters -> SUBSET Work]
    /\ ctx \in [Starters -> [cancelled : BOOLEAN, merges_blocked : BOOLEAN,
                             has_main : BOOLEAN, excluded : SUBSET Roles, sprint_ok : BOOLEAN]]
    /\ tally \in [Starters -> [failed : BOOLEAN, not_landed : BOOLEAN, merged : BOOLEAN]]
    /\ outcome \in [Starters -> {"none", "Completed", "Failed"}]
    /\ releaser \in [Starters -> {"off", "waiting", "done"}]

Ctx(stopped, m, x) == [cancelled |-> stopped, merges_blocked |-> FALSE, has_main |-> m,
                       excluded |-> x, sprint_ok |-> TRUE]
NewCtx == Ctx(FALSE, TRUE, {})
NoTally == [failed |-> FALSE, not_landed |-> FALSE, merged |-> FALSE]

\* A run that died has left more than its lock: a commit it had yet to merge, and
\* a merge it had yet to abort.
Init ==
    /\ LockInit
    /\ tree = [r \in Roles |-> {}]
    /\ branch = [r \in Roles |-> IF lockfile = Old THEN {<<Old, 1, r>>} ELSE {}]
    /\ merging = IF lockfile = Old THEN Old ELSE Nobody
    /\ main = {} /\ origin = {}
    /\ stage = [s \in Starters |-> "off"]
    /\ git = [s \in Starters |-> "idle"]
    /\ todo = [s \in Starters |-> <<>>]
    /\ sprint = [s \in Starters |-> 0]
    /\ accepted = [s \in Starters |-> {}]
    /\ ctx = [s \in Starters |-> NewCtx]
    /\ tally = [s \in Starters |-> NoTally]
    /\ outcome = [s \in Starters |-> "none"]
    /\ releaser = [s \in Starters |-> "off"]

Stage(s, to) == stage' = [stage EXCEPT ![s] = to]
Git(s, to) == git' = [git EXCEPT ![s] = to]
\* The finisher folds what a phase reports into its counts, if it is still there.
Tally(s, t) == tally' = IF ctx[s].cancelled THEN tally ELSE [tally EXCEPT ![s] = t]
Failed(s) == Tally(s, [tally[s] EXCEPT !.failed = TRUE])
NotLanded(s) == Tally(s, [tally[s] EXCEPT !.not_landed = TRUE])
\* The finisher's local variables are gone with it.
FinisherGone(s) ==
    /\ sprint' = [sprint EXCEPT ![s] = 0]
    /\ accepted' = [accepted EXCEPT ![s] = {}]
    /\ tally' = [tally EXCEPT ![s] = NoTally]
    /\ outcome' = [outcome EXCEPT ![s] = "none"]
FileSystem == UNCHANGED <<lockfile, written, aside, observed>>

-------------------------------------------------------------------------------
\* start: worktrees and context under the lock; a later error drops the slot.

\* The roles whose worktree is not the run's own, as far as the run knows.
Untrusted == {{}} \cup {{r} : r \in Roles}

\* No worktree to be had: the root is no repository, or ignores the artifacts of
\* the crew, or a git command fails.
NoWorktree(s) == Stage(s, "over") /\ TakeSlot(s) /\ FileSystem /\ UNCHANGED ctx

SetUp(s) ==
    /\ Has(s) /\ stage[s] = "off"
    /\ \/ /\ s \notin Brief
          /\ Stage(s, "sprint")
          /\ \E has_main \in BOOLEAN, excluded \in Untrusted :
                ctx' = [ctx EXCEPT ![s] = Ctx(FALSE, has_main, excluded)]
          /\ UNCHANGED lockVars
       \/ NoWorktree(s)
    /\ UNCHANGED <<repoVars, git, todo, sprint, accepted, tally, outcome, releaser>>

\* The accepted tasks of a sprint in its order, by role: one or more of each.
TasksOf(done) == {tasks \in UNION {[1..n -> done] : n \in 0..Len(RoleOrder)} :
                     \A r \in done : \E i \in DOMAIN tasks : tasks[i] = r}

\* A sprint's Lead returns.  Workers leave work in the worktrees; the Lead has
\* accepted the tasks of the roles in `done`.
LeadReturns(s) ==
    /\ stage[s] = "sprint"
    /\ sprint' = [sprint EXCEPT ![s] = @ + 1]
    /\ \E touched, done \in SUBSET Roles, ok \in BOOLEAN :
          LET piece(r) == <<s, sprint[s] + 1, r>> IN
          /\ tree' = [r \in Roles |-> tree[r] \cup (IF r \in touched THEN {piece(r)} ELSE {})]
          /\ accepted' = [accepted EXCEPT ![s] = @ \cup {piece(r) : r \in touched \cap done}]
          /\ \E tasks \in TasksOf(done) : todo' = [todo EXCEPT ![s] = tasks]
          /\ ctx' = [ctx EXCEPT ![s].sprint_ok = ok]
    /\ Stage(s, "enter")
    /\ UNCHANGED <<lockVars, branch, main, origin, merging, git, tally, outcome, releaser>>

\* The next sprint's crew cannot be spawned: the run ends early.
SpawnFails(s) ==
    /\ stage[s] = "sprint" /\ sprint[s] > 0
    /\ ctx' = [ctx EXCEPT ![s].sprint_ok = FALSE]
    /\ Stage(s, "end")
    /\ UNCHANGED <<lockVars, repoVars, git, todo, sprint, accepted, tally, outcome, releaser>>

\* The finisher takes `phase`, starts the blocking task and awaits it.  Once
\* aborted it does not come back from the await.
Enter(s, from, task, waits) ==
    /\ stage[s] = from /\ git[s] = "idle"
    /\ Git(s, task)
    /\ Stage(s, IF ctx[s].cancelled THEN "aborted" ELSE waits)
    /\ UNCHANGED <<lockVars, repoVars, todo, sprint, accepted, ctx, tally, outcome, releaser>>

EnterPhase(s) == Enter(s, "enter", "commit", "phase")
EnterPush(s) == Enter(s, "enter_push", "push", "pushing")

PhaseReturns(s) ==
    /\ stage[s] = "phase" /\ git[s] = "idle"
    /\ Stage(s, IF ctx[s].sprint_ok /\ sprint[s] < Sprints THEN "sprint" ELSE "end")
    /\ UNCHANGED <<lockVars, repoVars, git, todo, sprint, accepted, ctx, tally, outcome, releaser>>

-------------------------------------------------------------------------------
\* commit_accepted: one commit per accepted task, of all its worktree holds.

Pop(s) == todo' = [todo EXCEPT ![s] = Tail(@)]

CommitAccepted(s) ==
    /\ git[s] = "commit" /\ todo[s] # <<>>
    /\ Pop(s)
    /\ LET r == Head(todo[s]) IN
       \/ /\ ctx[s].cancelled \/ (tree[r] = {} /\ r \notin ctx[s].excluded)
          /\ UNCHANGED <<tree, branch, ctx, tally>>
       \/ /\ ~ctx[s].cancelled
          /\ \E x \in {ctx[s].excluded, ctx[s].excluded \cup {r}} :
                ctx' = [ctx EXCEPT ![s].excluded = x]
          /\ Failed(s)
          /\ UNCHANGED <<tree, branch>>
       \/ /\ ~ctx[s].cancelled /\ r \notin ctx[s].excluded /\ tree[r] # {}
          /\ tree' = [tree EXCEPT ![r] = {}]
          /\ branch' = [branch EXCEPT ![r] = @ \cup tree[r]]
          /\ Failed(s) \/ UNCHANGED tally
          /\ UNCHANGED ctx
    /\ UNCHANGED <<lockVars, main, origin, merging, stage, git, sprint, accepted,
                   outcome, releaser>>

-------------------------------------------------------------------------------
\* merge_sprint

Ahead(r) == ~(branch[r] \subseteq main)

\* Its part before the loop.  An excluded role is an error of the run.
MergeSprint(s) ==
    /\ git[s] = "commit" /\ todo[s] = <<>>
    /\ \/ ctx[s].cancelled /\ Git(s, "idle") /\ UNCHANGED <<todo, tally>>
       \/ /\ ~ctx[s].cancelled
          /\ LET merges == ctx[s].sprint_ok /\ ctx[s].has_main IN
             /\ Git(s, IF merges THEN "merge" ELSE "idle")
             /\ todo' = [todo EXCEPT ![s] = IF merges THEN RoleOrder ELSE <<>>]
          /\ \E unlanded \in {\E r \in Roles : Ahead(r), TRUE} :
                Tally(s, [tally[s] EXCEPT
                    !.failed = @ \/ ctx[s].excluded # {},
                    !.not_landed = @ \/ (ctx[s].sprint_ok /\ ~ctx[s].has_main /\ unlanded)])
    /\ UNCHANGED <<lockVars, repoVars, stage, sprint, accepted, ctx, outcome, releaser>>

MergesOver(s) ==
    /\ git[s] = "merge" /\ (todo[s] = <<>> \/ ctx[s].cancelled)
    /\ Git(s, "idle")
    /\ todo' = [todo EXCEPT ![s] = <<>>]
    /\ UNCHANGED <<lockVars, repoVars, stage, sprint, accepted, ctx, tally, outcome, releaser>>

Considers(s, r) ==
    /\ git[s] = "merge" /\ ~ctx[s].cancelled
    /\ todo[s] # <<>> /\ r = Head(todo[s])

\* merge_preconditions finds no fault with the checkout.
MayMerge(s) == ~ctx[s].merges_blocked /\ merging = Nobody

\* The role is excluded or has nothing new.
NothingToMerge(s, r) ==
    /\ Considers(s, r)
    /\ r \in ctx[s].excluded \/ ~Ahead(r)
    /\ Pop(s)
    /\ UNCHANGED <<lockVars, repoVars, stage, git, sprint, accepted, ctx, tally, outcome, releaser>>

\* A read fails or the merge is refused; or it would overwrite a file of the
\* user that git does not track.  The next role is tried.
MergeRefused(s, r) ==
    /\ Considers(s, r) /\ r \notin ctx[s].excluded
    /\ Pop(s)
    /\ Failed(s) \/ (Ahead(r) /\ MayMerge(s) /\ NotLanded(s))
    /\ UNCHANGED <<lockVars, repoVars, stage, git, sprint, accepted, ctx, outcome, releaser>>

\* Merges are blocked for the run, or merge_preconditions finds the user on
\* another branch, edits or a merge in the checkout, or cannot look: the sprint
\* merges nothing more.
SkipMerges(s, r, reported) ==
    /\ Considers(s, r) /\ r \notin ctx[s].excluded /\ Ahead(r)
    /\ reported \/ (~ctx[s].merges_blocked /\ Failed(s))
    /\ Git(s, "idle")
    /\ todo' = [todo EXCEPT ![s] = <<>>]
    /\ UNCHANGED <<lockVars, repoVars, stage, sprint, accepted, ctx, outcome, releaser>>

\* mutant: skipped merges are not counted
MergesSkippedSilently(s, r) == SkipMerges(s, r, UNCHANGED tally)

MergesSkipped(s, r) == SkipMerges(s, r, NotLanded(s))

\* merge_one: `git merge` succeeds, or stops with MERGE_HEAD set.
Merge(s, r) ==
    /\ Considers(s, r) /\ r \notin ctx[s].excluded /\ Ahead(r) /\ MayMerge(s)
    /\ Pop(s)
    /\ \/ /\ main' = main \cup branch[r]
          /\ \E sha_read \in BOOLEAN :
                Tally(s, [tally[s] EXCEPT !.merged = @ \/ sha_read,
                                          !.failed = @ \/ ~sha_read])
          /\ UNCHANGED <<merging, git>>
       \/ merging' = s /\ Git(s, "abort") /\ UNCHANGED <<main, tally>>
    /\ UNCHANGED <<lockVars, tree, branch, origin, stage, sprint, accepted, ctx,
                   outcome, releaser>>

\* A failed merge that left no MERGE_HEAD, yet moved HEAD or hid where it is.
MergeUnclear(s, r) ==
    /\ Considers(s, r) /\ r \notin ctx[s].excluded /\ Ahead(r) /\ MayMerge(s)
    /\ main' \in {main, main \cup branch[r]}
    /\ ctx' = [ctx EXCEPT ![s].merges_blocked = TRUE]
    /\ Failed(s) /\ Git(s, "idle")
    /\ todo' = [todo EXCEPT ![s] = <<>>]
    /\ UNCHANGED <<lockVars, tree, branch, origin, merging, stage, sprint, accepted,
                   outcome, releaser>>

\* merge --abort, and the check that it restored the checkout.
MergeAbort(s) ==
    /\ git[s] = "abort"
    /\ Failed(s)
    /\ \/ /\ merging = s /\ merging' = Nobody
          /\ Git(s, "merge") /\ UNCHANGED <<ctx, todo>>
       \/ /\ merging' \in {merging, Nobody}
          /\ ctx' = [ctx EXCEPT ![s].merges_blocked = TRUE]
          /\ Git(s, "idle")
          /\ todo' = [todo EXCEPT ![s] = <<>>]
    /\ UNCHANGED <<lockVars, tree, branch, main, origin, stage, sprint, accepted,
                   outcome, releaser>>

-------------------------------------------------------------------------------
\* The end of the run: the gate on Completed, the push, the release.

Gate(s) ==
    /\ stage[s] = "end"
    /\ \E met \in BOOLEAN :                            \* completed_gate_met
          outcome' = [outcome EXCEPT ![s] =
              IF /\ ctx[s].sprint_ok /\ met
                 /\ ~tally[s].failed /\ ~tally[s].not_landed
              THEN "Completed" ELSE "Failed"]
    /\ Stage(s, "enter_push")
    /\ UNCHANGED <<lockVars, repoVars, git, todo, sprint, accepted, ctx, tally, releaser>>

\* push_main: pushed, or skipped or failed.
PushMain(s) ==
    /\ git[s] = "push"
    /\ \/ /\ ~ctx[s].cancelled /\ ctx[s].has_main
          /\ outcome[s] = "Completed" /\ tally[s].merged
          /\ origin' = main
       \/ UNCHANGED origin
    /\ Git(s, "idle")
    /\ UNCHANGED <<lockVars, tree, branch, main, merging, stage, todo, sprint,
                   accepted, ctx, tally, outcome, releaser>>

PushReturns(s) ==
    /\ stage[s] = "pushing" /\ git[s] = "idle"
    /\ Stage(s, "ending")
    /\ UNCHANGED <<lockVars, repoVars, git, todo, sprint, accepted, ctx, tally, outcome, releaser>>

\* `release`: a no-op on an empty slot.
Release(s) == IF Has(s) THEN TakeSlot(s) ELSE UNCHANGED at

\* The lock is released right before RunFinished.
Finish(s) ==
    /\ stage[s] = "ending"
    /\ Release(s) /\ FileSystem
    /\ Stage(s, "over") /\ FinisherGone(s)
    /\ ctx' = [ctx EXCEPT ![s] = NewCtx]
    /\ UNCHANGED <<repoVars, git, todo, releaser>>

\* abort_all.  A finisher that is being polled at that moment runs on to its
\* next await, which may be the one on the blocking task it has just started; a
\* cancelled phase reads nothing of its context but that.
Abort(s, waiter) ==
    /\ stage[s] \notin {"off", "over", "aborted"} /\ ~ctx[s].cancelled
    /\ ctx' = [ctx EXCEPT ![s] = Ctx(TRUE, TRUE, {})]
    /\ releaser' = [releaser EXCEPT ![s] = waiter]
    /\ \/ Stage(s, "aborted")
       \/ stage[s] \in {"enter", "enter_push"} /\ UNCHANGED stage
    /\ FinisherGone(s)
    /\ UNCHANGED <<lockVars, repoVars, git, todo>>

\* mutant: nobody takes the lock out of its slot
StopOnly(s) == Abort(s, "off")

Stop(s) == Abort(s, "waiting")

ReleaseWhen(s, idle) ==
    /\ releaser[s] = "waiting" /\ idle
    /\ Release(s) /\ FileSystem
    /\ releaser' = [releaser EXCEPT ![s] = "done"]
    /\ UNCHANGED <<repoVars, stage, git, todo, sprint, accepted, ctx, tally, outcome>>

\* mutant: the lock goes at once
ReleaseAtOnce(s) == ReleaseWhen(s, TRUE)

ReleaseAfterPhase(s) == ReleaseWhen(s, git[s] = "idle")

-------------------------------------------------------------------------------
\* The environment.

\* The app dies: nothing of its runs goes on, the lock file and the repository
\* stay as they are.
Crash(s) ==
    /\ Die(s)
    /\ Stage(s, "aborted") /\ Git(s, "idle")
    /\ releaser' = [releaser EXCEPT ![s] = "off"]
    /\ ctx' = [ctx EXCEPT ![s] = NewCtx] /\ todo' = [todo EXCEPT ![s] = <<>>]
    /\ FinisherGone(s)
    /\ UNCHANGED repoVars

\* The user ends a merge left in the main checkout.
User ==
    /\ merging' = Nobody
    /\ UNCHANGED <<lockVars, tree, branch, main, origin, runVars>>

Lock(s) == (Acquiring(s) \/ Releasing(s)) /\ UNCHANGED <<repoVars, runVars>>

GitStep(s) ==
    \/ CommitAccepted(s) \/ MergeSprint(s) \/ MergesOver(s) \/ MergeAbort(s) \/ PushMain(s)
    \/ \E r \in Roles : \/ NothingToMerge(s, r) \/ MergeRefused(s, r) \/ MergesSkipped(s, r)
                        \/ Merge(s, r) \/ MergeUnclear(s, r)

Finisher(s) ==
    \/ SetUp(s) \/ LeadReturns(s) \/ SpawnFails(s) \/ EnterPhase(s) \/ PhaseReturns(s)
    \/ Gate(s) \/ EnterPush(s) \/ PushReturns(s) \/ Finish(s)

Next ==
    \/ \E s \in Starters :
          Lock(s) \/ Finisher(s) \/ GitStep(s) \/ Stop(s) \/ ReleaseAfterPhase(s) \/ Crash(s)
    \/ User

\* File-system calls return, git commands are bounded by their deadlines, the
\* runtime polls what it has spawned.  Nobody has to start, stop or crash.
Fairness == \A s \in Starters :
    /\ WF_vars(Lock(s)) /\ WF_vars(GitStep(s)) /\ WF_vars(ReleaseAfterPhase(s))
    /\ WF_vars(Finisher(s))

Spec == Init /\ [][Next]_vars
FairSpec == Spec /\ Fairness

-------------------------------------------------------------------------------
\* Properties

\* A run changes the repository only while it has the root's lock: the blocking
\* git task that outlives the finisher `shutdown` aborts either keeps the lock
\* from being released or finds itself cancelled.
RepoOnlyUnderLock ==
    [][\A s \in Starters :
         (GitStep(s) \/ Finisher(s)) /\ repoVars' # repoVars => Has(s)]_vars

\* A run that reports Completed has landed on main every piece of work its Lead
\* accepted, whatever was excluded, refused, skipped or aborted on the way, and
\* has left no merge in progress in the user's checkout.
CompletedMeansLanded ==
    \A s \in Starters : stage[s] = "ending" /\ outcome[s] = "Completed" =>
        accepted[s] \subseteq main /\ merging # s

\* A run that is stopped lets go of the root in the end.
StoppedRunLetsGo ==
    \A s \in Starters : stage[s] = "aborted" ~> at[s] \in {"released", "crashed"}
===============================================================================
