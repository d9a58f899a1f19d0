-------------------------------- MODULE RunLock --------------------------------
(***************************************************************************)
(* crew-run gitflow.rs: the lock file of a project root.  Each starter is a *)
(* run in a process of its own; an action is one file-system call, since    *)
(* nothing but the file system orders the starters.                         *)
(*                                                                          *)
(* A file is named by the starter that created it.  `lockfile` is the file   *)
(* that stands at the lock path, `aside[s]` the one `s` renamed to its      *)
(* `.stale-<uuid>` name.  A file is empty until its creator has written it; *)
(* its content then names its creator's run and pid.                        *)
(***************************************************************************)
EXTENDS Naturals, FiniteSets

CONSTANTS
    Starters,
    Old             \* a run whose process died before, leaving its lock

ASSUME OldIsNoStarter == Old \notin Starters

VARIABLES
    at,             \* where a starter is in acquire, steal_with or Drop
    lockfile,
    written,        \* files whose content has been written
    aside,
    observed        \* content `acquire` read: a file's name, or Empty

lockVars == <<at, lockfile, written, aside, observed>>

NoFile == "none"
Empty == "empty"
Files == Starters \cup {Old}

ASSUME NamesDiffer == NoFile \notin Files /\ Empty \notin Files

At == {"start", "writing", "reading", "again", "probing", "stealing", "comparing",
       "restoring", "holding", "releasing", "removing", "refused", "released", "crashed"}

LockTypeOK ==
    /\ at \in [Starters -> At]
    /\ lockfile \in Files \cup {NoFile}
    /\ written \subseteq Files
    /\ aside \in [Starters -> Files \cup {NoFile}]
    /\ observed \in [Starters -> Files \cup {NoFile, Empty}]

Content(f) == IF f \in written THEN f ELSE Empty

Alive(f) == f \in Starters /\ at[f] # "crashed"                   \* pid_alive

LockInit ==
    /\ at = [s \in Starters |-> "start"]
    /\ lockfile \in {NoFile, Old}
    /\ written = {Old}
    /\ aside = [s \in Starters |-> NoFile]
    /\ observed = [s \in Starters |-> NoFile]

Go(s, place) == at' = [at EXCEPT ![s] = place]

-------------------------------------------------------------------------------
\* acquire and create_lock.  Only the first attempt looks at a file it finds.

Create(s) ==
    /\ at[s] \in {"start", "again"}
    /\ \/ /\ lockfile = NoFile
          /\ lockfile' = s
          /\ Go(s, "writing")
       \/ /\ lockfile # NoFile
          /\ Go(s, IF at[s] = "start" THEN "reading" ELSE "refused")
          /\ UNCHANGED lockfile
    /\ UNCHANGED <<written, aside, observed>>

Write(s) ==
    /\ at[s] = "writing"
    /\ written' = written \cup {s}
    /\ Go(s, "holding")
    /\ UNCHANGED <<lockfile, aside, observed>>

\* A failed write removes what stands at the lock path.
WriteFails(s) ==
    /\ at[s] = "writing"
    /\ lockfile' = NoFile
    /\ Go(s, "refused")
    /\ UNCHANGED <<written, aside, observed>>

Read(s) ==
    /\ at[s] = "reading"
    /\ IF lockfile = NoFile
       THEN Go(s, "again") /\ UNCHANGED observed
       ELSE Go(s, "probing") /\ observed' = [observed EXCEPT ![s] = Content(lockfile)]
    /\ UNCHANGED <<lockfile, written, aside>>

\* No pid, or a live one, or no answer from kill: busy.
Probe(s) ==
    /\ at[s] = "probing"
    /\ \/ Go(s, "refused")
       \/ observed[s] # Empty /\ ~Alive(observed[s]) /\ Go(s, "stealing")
    /\ UNCHANGED <<lockfile, written, aside, observed>>

-------------------------------------------------------------------------------
\* steal_with: rename the file aside, compare, then create anew or put it back.

Rename(s) ==
    /\ at[s] = "stealing"
    /\ IF lockfile = NoFile
       THEN Go(s, "again") /\ UNCHANGED aside
       ELSE Go(s, "comparing") /\ aside' = [aside EXCEPT ![s] = lockfile]
    /\ lockfile' = NoFile
    /\ UNCHANGED <<written, observed>>

\* mutant: any file moved aside is taken for the stale one
CompareNothing(s) ==
    /\ at[s] = "comparing"
    /\ Go(s, "again") /\ aside' = [aside EXCEPT ![s] = NoFile]
    /\ UNCHANGED <<lockfile, written, observed>>

Compare(s) ==
    /\ at[s] = "comparing"
    /\ IF Content(aside[s]) = observed[s]
       THEN Go(s, "again") /\ aside' = [aside EXCEPT ![s] = NoFile]
       ELSE Go(s, "restoring") /\ UNCHANGED aside
    /\ UNCHANGED <<lockfile, written, observed>>

\* hard_link fails rather than replace a newer lock.
Restore(s) ==
    /\ at[s] = "restoring"
    /\ IF lockfile = NoFile
       THEN lockfile' = aside[s] /\ aside' = [aside EXCEPT ![s] = NoFile]
       ELSE UNCHANGED <<lockfile, aside>>
    /\ Go(s, "refused")
    /\ UNCHANGED <<written, observed>>

-------------------------------------------------------------------------------
\* Drop of the RunLock: read, then remove if the file still names this run.

ReadOwn(s) ==
    /\ at[s] = "releasing"
    /\ Go(s, IF lockfile = s THEN "removing" ELSE "released")
    /\ UNCHANGED <<lockfile, written, aside, observed>>

Remove(s) ==
    /\ at[s] = "removing"
    /\ lockfile' = NoFile
    /\ Go(s, "released")
    /\ UNCHANGED <<written, aside, observed>>

\* `release` and `release_after_phase` take the lock out of its slot.
TakeSlot(s) ==
    /\ at[s] = "holding"
    /\ Go(s, "releasing")

Die(s) ==
    /\ at[s] \notin {"refused", "released", "crashed"}
    /\ Go(s, "crashed")
    /\ UNCHANGED <<lockfile, written, aside, observed>>

Acquiring(s) ==
    \/ Create(s) \/ Write(s) \/ WriteFails(s) \/ Read(s) \/ Probe(s)
    \/ Rename(s) \/ Compare(s) \/ Restore(s)

Releasing(s) == ReadOwn(s) \/ Remove(s)

LockNext == \E s \in Starters :
    \/ Acquiring(s) \/ Releasing(s) \/ Die(s)
    \/ TakeSlot(s) /\ UNCHANGED <<lockfile, written, aside, observed>>

LockSpec == LockInit /\ [][LockNext]_lockVars

-------------------------------------------------------------------------------
\* A run has the lock from the moment `acquire` returns until its Drop begins.
Has(s) == at[s] = "holding"

\* "Held from RunController::start until the finisher's end": at most one run
\* at a time works in a project root.  `steal_with` moves a live lock away for a
\* moment when it finds out too late that the stale one has been replaced.
Exclusive == \A s, t \in Starters : Has(s) /\ Has(t) => s = t
===============================================================================
