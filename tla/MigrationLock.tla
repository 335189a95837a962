------------------------------ MODULE MigrationLock ----------------------------
(***************************************************************************)
(* The lock file that keeps two migrations apart: .migrating.lock, made    *)
(* with O_EXCL, the owner's pid written into it afterwards, and cleared by *)
(* a later run once the pid names no process.                              *)
(*                                                                         *)
(* A run is a process, and its name stands for its pid: a run that died    *)
(* with the lock leaves it behind, and a process that starts later can have *)
(* the same pid.                                                           *)
(***************************************************************************)
EXTENDS Naturals, FiniteSets

CONSTANTS
    Runs,   \* processes that migrate
    None

LockFile == [by : Runs, pid : BOOLEAN]

ASSUME NoneIsNoRun == None \notin Runs \cup LockFile

VARIABLES
    lock,   \* the lock file: who made it, and whether its pid is in it; or None
    at,     \* where each run is
    owner,  \* the pid a run has read and asks after
    seen,   \* (ghost) who has read the pid of the very file that is there now
    robbed  \* (ghost) whose lock was removed by a run that had read another file

lockVars == <<lock, at, owner, seen, robbed>>
ghosts == <<seen, robbed>>

Places == {"idle", "found", "probing", "clearing", "cleared", "claimed", "in"}

LockInit ==
    /\ lock = None
    /\ at = [r \in Runs |-> "idle"]
    /\ owner = [r \in Runs |-> None]
    /\ seen = {} /\ robbed = {}

Go(r, there) == at' = [at EXCEPT ![r] = there]
Has(r) == at[r] \in {"claimed", "in"}

\* A run unlinks whatever file is there: one that went by another file, or that
\* has lost its own, robs whoever has it by now.
Unlinked(r, entitled) ==
    /\ lock' = None
    /\ seen' = {}
    /\ robbed' = {q \in Runs \ {r} :
          q \in robbed \/ (~ entitled /\ lock # None /\ lock.by = q /\ Has(q))}

\* (mutant) The lock is opened without O_EXCL.
Claimed_Shared(r) == Go(r, "claimed") /\ lock' = [by |-> r, pid |-> FALSE]

\* _claim: only one process can make the file.
Claimed(r) == lock = None /\ Go(r, "claimed") /\ lock' = [by |-> r, pid |-> FALSE]

\* _exclusive: claim the lock, or look at the one that is there.
Claim(r) ==
    /\ at[r] = "idle"
    /\ \/ Claimed(r)
       \/ lock # None /\ Go(r, "found") /\ UNCHANGED lock
    /\ UNCHANGED <<owner, ghosts>>

\* (mutant) A lock without a pid is taken for a leftover.
Read_Unwritten(r) ==
    /\ at[r] = "found"
    /\ IF lock = None THEN Go(r, "idle") /\ UNCHANGED <<owner, seen>>
       ELSE /\ Go(r, IF lock.pid THEN "probing" ELSE "clearing")
            /\ owner' = [owner EXCEPT ![r] = lock.by]
            /\ seen' = seen \cup {r}
    /\ UNCHANGED <<lock, robbed>>

\* _owner_is_gone reads the pid.  A file that has gone meanwhile or holds nothing
\* yet counts as held.
Read(r) ==
    /\ at[r] = "found"
    /\ IF lock = None \/ ~ lock.pid THEN Go(r, "idle") /\ UNCHANGED <<owner, seen>>
       ELSE /\ Go(r, "probing")
            /\ owner' = [owner EXCEPT ![r] = lock.by]
            /\ seen' = seen \cup {r}
    /\ UNCHANGED <<lock, robbed>>

\* os.kill(pid, 0): a process has that pid, or none does.  By now the file may be
\* gone, or another's.
Probe(r) ==
    /\ at[r] = "probing"
    /\ IF at[owner[r]] = "idle" THEN Go(r, "clearing") /\ UNCHANGED seen
       ELSE Go(r, "idle") /\ seen' = seen \ {r}
    /\ owner' = [owner EXCEPT ![r] = None]
    /\ UNCHANGED <<lock, robbed>>

\* lock.unlink(missing_ok=True): whatever file is there by now.
Clear(r) ==
    /\ at[r] = "clearing"
    /\ Unlinked(r, r \in seen)
    /\ Go(r, "cleared")
    /\ UNCHANGED owner

\* The second attempt is the last.
Reclaim(r) ==
    /\ at[r] = "cleared"
    /\ \/ Claimed(r)
       \/ lock # None /\ Go(r, "idle") /\ UNCHANGED lock
    /\ UNCHANGED <<owner, ghosts>>

\* The pid goes to the file this run opened, which may no longer be the one
\* under that name.
WritePid(r) ==
    /\ at[r] = "claimed"
    /\ Go(r, "in")
    /\ lock' = IF lock # None /\ lock.by = r THEN [lock EXCEPT !.pid = TRUE] ELSE lock
    /\ UNCHANGED <<owner, ghosts>>

\* The finally: after the migration, or when the pid could not be written.  The
\* unlink does not ask whose file it is.
Release(r) ==
    /\ Has(r)
    /\ Unlinked(r, r \notin robbed)
    /\ Go(r, "idle")
    /\ UNCHANGED owner

\* A process dies, or its unlink fails, or all of them die in a power cut: the
\* lock stays.
Die(dead) ==
    /\ at' = [r \in Runs |-> IF r \in dead THEN "idle" ELSE at[r]]
    /\ owner' = [r \in Runs |-> IF r \in dead THEN None ELSE owner[r]]
    /\ seen' = seen \ dead
    /\ robbed' = robbed \ dead
    /\ UNCHANGED lock

LockStep(r) ==
    \/ Claim(r) \/ Read(r) \/ Probe(r) \/ Clear(r) \/ Reclaim(r) \/ WritePid(r)
    \/ Release(r)

LockNext == (\E r \in Runs : LockStep(r)) \/ \E dead \in SUBSET Runs : Die(dead)
LockSpec == LockInit /\ [][LockNext]_lockVars
--------------------------------------------------------------------------------
\* Type correctness of the lock.
LockTypeOK ==
    /\ lock \in LockFile \cup {None}
    /\ at \in [Runs -> Places]
    /\ owner \in [Runs -> Runs \cup {None}]
    /\ \A r \in Runs : at[r] = "probing" => owner[r] \in Runs
    /\ seen \subseteq Runs /\ robbed \subseteq Runs

\* "two migrations share one staging directory" is what the lock is there to
\* prevent (__init__.py:124-126, 148-157): of two runs that are in at once, one
\* has been robbed of its lock.  A third run did that, which read a pid, found no
\* such process and removed the file: in between the lock had become another's,
\* because its owner had finished (no crash is needed), or because a second run
\* had cleared the same leftover; or a run did that was robbed itself.
Exclusive ==
    \A q, r \in Runs \ robbed : at[q] = "in" /\ at[r] = "in" => q = r
================================================================================
