-------------------------------- MODULE Migration ------------------------------
(***************************************************************************)
(* The migration engine: how `holm migrate` brings the state directory to  *)
(* the schema this build understands, one file-system call at a time, with *)
(* crashes between any two calls and calls that fail.                      *)
(*                                                                         *)
(* The content of a migrated name is represented by the schema version it  *)
(* is in: a step takes content of the version before its own and nothing   *)
(* else, and what it makes of anything else is Bad.  A folder is Empty when *)
(* it is there and holds nothing.  One run at a time: the lock file that   *)
(* sees to it is not modelled here.                                        *)
(***************************************************************************)
EXTENDS Naturals, FiniteSets

CONSTANTS
    Names,      \* MIGRATED: the names a step may rewrite
    Folders,    \* those that are directories; a rename cannot replace them
    Target,     \* CURRENT_VERSION
    Origins,    \* the versions a state directory can start in
    Starts,     \* the sets of names it can start with
    OldBackup,  \* whether a migration that finished before left its backup
    None,
    Empty,      \* a folder without a file in it
    Bad,        \* content in no version's shape
    MaxCrashes, \* bound: runs that die (SIGKILL, power cut)
    MaxErrors,  \* bound: calls that raise OSError, and steps that fail
    MaxFaults   \* bound: both together

ASSUME StartsAreStates ==
    Origins \subseteq 0 .. Target /\ Starts \subseteq SUBSET Names /\ OldBackup \in BOOLEAN
ASSUME FoldersAreNames == Folders \subseteq Names
\* MIGRATED names one folder, policies/.  With two, the rollback of a resumed swap
\* could remove the staging copy while names an earlier run put in stay live.
ASSUME OneFolder == \A m, n \in Folders : m = n
ASSUME MarksAreNotVersions ==
    /\ {None, Empty, Bad} \cap Nat = {}
    /\ None # Empty /\ None # Bad /\ Empty # Bad
ASSUME BoundsAreNaturals ==
    Target \in Nat \ {0} /\ MaxCrashes \in Nat /\ MaxErrors \in Nat /\ MaxFaults \in Nat

VARIABLES
    live,       \* name -> content in the state directory
    marker,     \* migrations/version, None when there is no such file
    area,       \* the working directories and the backup
    pc, run,    \* where the run is, and its local variables
    outcome,    \* how the last run ended
    stranded,   \* names an error message has said are only in the backup
    had,        \* the names the state started with
    crashes, errors

disk == <<live, marker, area>>
ghosts == <<stranded, had>>
vars == <<disk, pc, run, outcome, ghosts, crashes, errors>>

Steps == 1 .. Target
Versions == 0 .. Target
Content == Versions \cup {Bad, Empty, None}
NoFiles == [n \in Names |-> None]

(***************************************************************************)
(* backup is .pre-migration, Staging(s) .migrating-v<s> and Scratch(s)     *)
(* .displaced-v<s>.  marker is the migrations/version inside.              *)
(***************************************************************************)
Backup == <<"backup", 0>>
Staging(s) == <<"staging", s>>
Scratch(s) == <<"scratch", s>>
Areas == {Backup} \cup {Staging(s) : s \in Steps} \cup {Scratch(s) : s \in Steps}
Gone == [exists |-> FALSE, files |-> NoFiles, marker |-> None]
Area == [exists : BOOLEAN, files : [Names -> Content], marker : Steps \cup {None}]

Idle == [step |-> 0, first |-> FALSE, to |-> Backup, todo |-> {}, cur |-> None,
         moved |-> {}, rm |-> Backup, then |-> "idle", tried |-> {}]
Run == [step : 0 .. Target, first : BOOLEAN, to : Areas, todo : SUBSET Names,
        cur : Names \cup {None}, moved : SUBSET Names, rm : Areas,
        then : {"idle", "copy", "mkdir", "applied", "next", "discard"},
        tried : SUBSET Areas]   \* what the clean-up has been at
Pcs == {"idle", "start", "apply", "copy", "convert", "mark", "mkdir", "swap", "in", "commit",
        "applied", "next", "discard", "rollback", "remove"}

\* resolve_version: no marker is the baseline.
Version == IF marker = None THEN 0 ELSE marker

\* (mutant) Every run redoes the step.
Resumable_Never(s) == FALSE

\* _resumable: a staging copy that carries its marker was finished by its step.
Resumable(s) == area[Staging(s)].marker = s

\* _refuse_if_stranded, for a run whose first step is s.
Pending(s) == {n \in Names : \E r \in s .. Target :
                 Resumable(r) /\ area[Staging(r)].files[n] # None}
Missing(s) ==
    IF \A n \in Names : live[n] = None THEN {}
    ELSE {n \in Names : area[Backup].files[n] # None /\ live[n] = None} \ Pending(s)

\* Any version this or an earlier build left, and the backup of a migration
\* that finished before.
Init ==
    /\ had \in Starts
    /\ \E origin \in Origins :
          /\ live = [n \in Names |-> IF n \in had THEN origin ELSE None]
          /\ marker = IF origin = 0 THEN None ELSE origin
          /\ \E old \in {Gone} \cup
                (IF origin = 0 \/ ~ OldBackup THEN {}
                 ELSE {[exists |-> TRUE, marker |-> IF origin = 1 THEN None ELSE origin - 1,
                        files |-> [n \in Names |-> IF n \in had THEN origin - 1 ELSE None]]}) :
                area = [a \in Areas |-> IF a = Backup THEN old ELSE Gone]
    /\ pc = "idle"
    /\ run = Idle
    /\ outcome = "none"
    /\ stranded = {}
    /\ crashes = 0
    /\ errors = 0

--------------------------------------------------------------------------------
(* Control.                                                                *)

Goto(there, locals) == pc' = there /\ run' = locals
End(result) == Goto("idle", Idle) /\ outcome' = result

\* shutil.rmtree(a), and what follows it.
Remove(a, then, locals) == Goto("remove", [locals EXCEPT !.rm = a, !.then = then])

\* An error the bound still allows.
Error ==
    /\ errors < MaxErrors
    /\ crashes + errors < MaxFaults
    /\ errors' = errors + 1

\* Every holm command, `holm migrate` among them, makes a ConfigManager as it is
\* imported: _ensure_dirs creates the folders that are missing, and _stamp_if_new
\* marks a state without a file in it as current.
Import ==
    /\ pc = "idle"
    /\ outcome \notin {"ok", "refused"}
    /\ live' = [n \in Names |-> IF n \in Folders /\ live[n] = None THEN Empty ELSE live[n]]
    /\ marker' = IF marker = None /\ \A n \in Names : live[n] \in {None, Empty}
                 THEN Target ELSE marker
    /\ Goto("start", Idle)
    /\ UNCHANGED <<area, outcome, ghosts, crashes, errors>>

\* _run_locked: refuse a newer or a stranded state, or take the first step.
Begin ==
    /\ pc = "start"
    /\ \/ /\ Version = Target
          /\ Goto("discard", [Idle EXCEPT !.step = Target])
          /\ UNCHANGED outcome
       \/ /\ Version < Target
          /\ Missing(Version + 1) = {}
          /\ Goto("apply", [Idle EXCEPT !.step = Version + 1, !.first = TRUE])
          /\ UNCHANGED outcome
       \/ /\ Version < Target
          /\ Missing(Version + 1) # {}
          /\ End("refused")
    /\ UNCHANGED <<disk, ghosts, crashes, errors>>

\* (mutant) A resumed step displaces to where its position in this run says.
Apply_ByPosition ==
    /\ pc = "apply"
    /\ LET locals == [run EXCEPT !.to = IF run.first THEN Backup ELSE Scratch(run.step)]
       IN  IF Resumable(run.step) THEN Goto("mkdir", locals)
           ELSE Remove(Staging(run.step), "copy", locals)
    /\ UNCHANGED <<disk, outcome, ghosts, crashes, errors>>

\* _apply: where the displaced files go, and whether the swap is resumed.
Apply ==
    /\ pc = "apply"
    /\ LET resuming == Resumable(run.step)
           scratch == IF resuming /\ area[Scratch(run.step)].exists THEN TRUE ELSE ~ run.first
           locals == [run EXCEPT !.to = IF scratch THEN Scratch(run.step) ELSE Backup]
       IN  IF resuming THEN Goto("mkdir", locals)
           ELSE Remove(Staging(run.step), "copy", locals)
    /\ UNCHANGED <<disk, outcome, ghosts, crashes, errors>>

\* rmtree removes one entry after the other, then the directory.
RemoveEntry ==
    /\ pc = "remove"
    /\ \/ \E n \in Names :
             /\ area[run.rm].files[n] # None
             /\ area' = [area EXCEPT ![run.rm].files[n] = None]
       \/ /\ area[run.rm].marker # None
          /\ area' = [area EXCEPT ![run.rm].marker = None]
    /\ UNCHANGED <<live, marker, pc, run, outcome, ghosts, crashes, errors>>

Removed ==
    /\ pc = "remove"
    /\ IF area[run.rm].files = NoFiles /\ area[run.rm].marker = None
         THEN area' = [area EXCEPT ![run.rm] = Gone] /\ UNCHANGED errors
         ELSE Error /\ UNCHANGED area       \* ignore_errors=True
    /\ IF run.then = "idle" THEN End("failed")
       ELSE Goto(run.then, run) /\ UNCHANGED outcome
    /\ UNCHANGED <<live, marker, ghosts, crashes>>

--------------------------------------------------------------------------------
(* _rebuild_staging.                                                       *)

\* _stage: a fresh copy, without a marker.
Copy ==
    /\ pc = "copy"
    /\ area' = [area EXCEPT ![Staging(run.step)] = [Gone EXCEPT !.exists = TRUE, !.files = live]]
    /\ Goto("convert", run)
    /\ UNCHANGED <<live, marker, outcome, ghosts, crashes, errors>>

\* (mutant) The step writes the next schema.
Converted_TooFar(files, s) ==
    [n \in Names |-> IF files[n] \in {None, Empty} THEN files[n] ELSE s + 1]

\* The step rewrites the copy.
Converted(files, s) ==
    [n \in Names |-> IF files[n] \in {None, Empty} THEN files[n]
                     ELSE IF files[n] = s - 1 THEN s ELSE Bad]
Convert ==
    /\ pc = "convert"
    /\ area' = [area EXCEPT ![Staging(run.step)].files = Converted(@, run.step)]
    /\ Goto("mark", run)
    /\ UNCHANGED <<live, marker, outcome, ghosts, crashes, errors>>

\* The staged marker says that the step is through.  The directory the swap
\* will fill is emptied after that.
Mark ==
    /\ pc = "mark"
    /\ area' = [area EXCEPT ![Staging(run.step)].marker = run.step]
    /\ Remove(run.to, "mkdir", run)
    /\ UNCHANGED <<live, marker, outcome, ghosts, crashes, errors>>

\* The copy, the step or the staged marker fails: staging goes.
StepFails ==
    /\ pc \in {"copy", "convert", "mark"}
    /\ Error
    /\ Remove(Staging(run.step), "idle", run)
    /\ UNCHANGED <<disk, outcome, ghosts, crashes>>

--------------------------------------------------------------------------------
(* _swap.                                                                  *)

MakeDir ==
    /\ pc = "mkdir"
    /\ area' = [area EXCEPT ![run.to].exists = TRUE]
    /\ Goto("swap", [run EXCEPT !.todo = Names, !.moved = {}])
    /\ UNCHANGED <<live, marker, outcome, ghosts, crashes, errors>>

Staged(n) == area[Staging(run.step)].files[n]

\* MIGRATED's order: config.json before policies/.
Turn(n) == n \in run.todo /\ (n \in Folders => run.todo \subseteq Folders)

\* A name staging does not hold is in already, or was never there.
Skip(n) ==
    /\ pc = "swap"
    /\ Turn(n)
    /\ Staged(n) = None
    /\ Goto("swap", [run EXCEPT !.todo = @ \ {n}])
    /\ UNCHANGED <<disk, outcome, ghosts, crashes, errors>>

\* os.replace cannot put a folder over one that holds something.
Blocked(n) ==
    n \in Folders /\ live[n] # None /\ area[run.to].files[n] \notin {None, Empty}

\* live -> displaced.
Displace(n) ==
    /\ pc = "swap"
    /\ Turn(n)
    /\ Staged(n) # None
    /\ live[n] # None
    /\ ~ Blocked(n)
    /\ area' = [area EXCEPT ![run.to].files[n] = live[n]]
    /\ live' = [live EXCEPT ![n] = None]
    /\ Goto("in", [run EXCEPT !.cur = n, !.moved = @ \cup {n}])
    /\ UNCHANGED <<marker, outcome, ghosts, crashes, errors>>

\* staged -> live.
PutIn(n) ==
    /\ \/ pc = "swap" /\ Turn(n) /\ Staged(n) # None /\ live[n] = None
       \/ pc = "in" /\ n = run.cur
    /\ live' = [live EXCEPT ![n] = Staged(n)]
    /\ area' = [area EXCEPT ![Staging(run.step)].files[n] = None]
    /\ Goto("swap", [run EXCEPT !.todo = @ \ {n}, !.cur = None])
    /\ UNCHANGED <<marker, outcome, ghosts, crashes, errors>>

\* (mutant) The marker is committed as soon as one name is in.
KeepMarker_Early ==
    /\ pc = "swap"
    /\ run.todo # Names
    /\ area' = IF marker = None THEN area ELSE [area EXCEPT ![run.to].marker = marker]
    /\ Goto("commit", run)
    /\ UNCHANGED <<live, marker, outcome, ghosts, crashes, errors>>

\* _commit_marker: the old marker is copied beside the displaced files ...
KeepMarker ==
    /\ pc = "swap"
    /\ run.todo = {}
    /\ area' = IF marker = None THEN area ELSE [area EXCEPT ![run.to].marker = marker]
    /\ Goto("commit", run)
    /\ UNCHANGED <<live, marker, outcome, ghosts, crashes, errors>>

\* ... and the staged one replaces it.  Staging is spent.
Commit ==
    /\ pc = "commit"
    /\ marker' = run.step
    /\ area' = [area EXCEPT ![Staging(run.step)].marker = None]
    /\ Remove(Staging(run.step), "applied", run)
    /\ UNCHANGED <<live, outcome, ghosts, crashes, errors>>

\* What a later step displaced is nobody's state, and goes.
Applied ==
    /\ pc = "applied"
    /\ IF run.to = Backup THEN Goto("next", run) ELSE Remove(run.to, "next", run)
    /\ UNCHANGED <<disk, outcome, ghosts, crashes, errors>>

NextStep ==
    /\ pc = "next"
    /\ IF run.step = Target THEN Goto("discard", run)
       ELSE Goto("apply", [Idle EXCEPT !.step = run.step + 1])
    /\ UNCHANGED <<disk, outcome, ghosts, crashes, errors>>

\* (mutant) Only the steps that ran just now are cleaned up after.
Spent_Never == {}

\* _discard_spent_work: staging and scratch of every step that is in, each of them once.
Spent == {a \in Areas \ {Backup} : area[a].exists /\ a[2] <= Version}
Discard ==
    /\ pc = "discard"
    /\ \/ \E a \in Spent \ run.tried :
             /\ Remove(a, "discard", [run EXCEPT !.tried = @ \cup {a}])
             /\ UNCHANGED outcome
       \/ /\ Spent \subseteq run.tried
          /\ Goto("idle", [Idle EXCEPT !.tried = run.tried])
          /\ outcome' = "ok"
    /\ UNCHANGED <<disk, ghosts, crashes, errors>>

--------------------------------------------------------------------------------
(* _swap's `except OSError`.                                               *)

\* (mutant) The displaced originals are left where they are.
SwapFails_NoRollback ==
    /\ pc \in {"mkdir", "swap", "in", "commit"} /\ Error
    /\ Goto("rollback", [run EXCEPT !.todo = {}, !.cur = None])
    /\ UNCHANGED <<disk, outcome, ghosts, crashes>>

\* Making the directory, a rename or the marker's copy or replacement fails.
SwapFails ==
    /\ \/ pc \in {"mkdir", "swap", "in", "commit"} /\ Error
       \/ /\ pc = "swap"
          /\ \E n \in Names : Turn(n) /\ Staged(n) # None /\ Blocked(n)
          /\ UNCHANGED errors
    /\ Goto("rollback", [run EXCEPT !.todo = run.moved, !.cur = None])
    /\ UNCHANGED <<disk, outcome, ghosts, crashes>>

\* The other way round: reversed(moved).
TurnBack(n) == n \in run.todo /\ (n \notin Folders => run.todo \cap Folders = {})

\* A migrated folder at the live path is deleted first ...
ClearLive(n) ==
    /\ pc = "rollback"
    /\ TurnBack(n)
    /\ n \in Folders
    /\ area[run.to].files[n] # None
    /\ live[n] # None
    /\ live' = [live EXCEPT ![n] = None]
    /\ UNCHANGED <<marker, area, pc, run, outcome, ghosts, crashes, errors>>

\* ... and the displaced original put back, or reported as left in the backup
\* (PutBackFails).
PutBack(n) ==
    /\ pc = "rollback"
    /\ TurnBack(n)
    /\ area[run.to].files[n] # None
    /\ n \in Folders => live[n] = None
    /\ live' = [live EXCEPT ![n] = area[run.to].files[n]]
    /\ area' = [area EXCEPT ![run.to].files[n] = None]
    /\ run' = [run EXCEPT !.todo = @ \ {n}]
    /\ UNCHANGED <<marker, pc, outcome, ghosts, crashes, errors>>

\* (mutant) The error message does not name what it could not put back.
PutBackFails_Untold(n) ==
    /\ pc = "rollback"
    /\ TurnBack(n)
    /\ area[run.to].files[n] # None
    /\ Error
    /\ run' = [run EXCEPT !.todo = @ \ {n}]
    /\ UNCHANGED <<disk, pc, outcome, ghosts, crashes>>

\* The error message names what is only in the backup now.
PutBackFails(n) ==
    /\ pc = "rollback"
    /\ TurnBack(n)
    /\ area[run.to].files[n] # None
    /\ Error
    /\ stranded' = stranded \cup {n}
    /\ run' = [run EXCEPT !.todo = @ \ {n}]
    /\ UNCHANGED <<disk, pc, outcome, had, crashes>>

\* (mutant) A retry resumes from the staging copy the rollback has consumed.
RolledBack_KeepsStaging ==
    /\ pc = "rollback"
    /\ run.todo = {}
    /\ End("failed")
    /\ UNCHANGED <<disk, ghosts, crashes, errors>>

\* Staging is kept only when nothing had been displaced.
RolledBack ==
    /\ pc = "rollback"
    /\ run.todo = {}
    /\ IF run.moved = {} THEN End("failed")
       ELSE Remove(Staging(run.step), "idle", run) /\ UNCHANGED outcome
    /\ UNCHANGED <<disk, ghosts, crashes, errors>>

--------------------------------------------------------------------------------
(* The world.                                                              *)

\* The process dies between two calls.
Crash ==
    /\ pc # "idle"
    /\ crashes < MaxCrashes
    /\ crashes + errors < MaxFaults
    /\ crashes' = crashes + 1
    /\ End("none")
    /\ UNCHANGED <<disk, ghosts, errors>>

\* What the refusal asks for: move the names back out of the backup.
UserRestores ==
    /\ pc = "idle"
    /\ outcome = "refused"
    /\ LET back == Missing(Version + 1)
       IN  /\ live' = [n \in Names |-> IF n \in back THEN area[Backup].files[n] ELSE live[n]]
           /\ area' = [area EXCEPT ![Backup].files =
                          [n \in Names |-> IF n \in back THEN None ELSE @[n]]]
    /\ outcome' = "none"
    /\ UNCHANGED <<marker, pc, run, ghosts, crashes, errors>>

Engine ==
    \/ Import \/ Begin \/ Apply \/ RemoveEntry \/ Removed
    \/ Copy \/ Convert \/ Mark \/ StepFails
    \/ MakeDir \/ KeepMarker \/ Commit \/ Applied \/ NextStep \/ Discard
    \/ SwapFails \/ RolledBack
    \/ \E n \in Names : Skip(n) \/ Displace(n) \/ PutIn(n)
                        \/ ClearLive(n) \/ PutBack(n) \/ PutBackFails(n)

Next == Engine \/ Crash \/ UserRestores

Spec == Init /\ [][Next]_vars

\* A run that started goes on, and one that failed or died is tried again.
FairSpec == Spec /\ WF_vars(Engine) /\ WF_vars(UserRestores)
--------------------------------------------------------------------------------
(* Correctness.  What the engine promises is promised against one fault: a run *)
(* that dies, or one call that fails.  A second one before the first has been  *)
(* repaired is outside it.                                                     *)

OneFault == crashes + errors <= 1

\* Type correctness of the state directory and of the run.
TypeOK ==
    /\ live \in [Names -> Content]
    /\ marker \in Steps \cup {None}
    /\ area \in [Areas -> Area]
    /\ pc \in Pcs
    /\ run \in Run
    /\ outcome \in {"none", "ok", "failed", "refused"}
    /\ stranded \subseteq Names /\ had \subseteq Names
    /\ crashes \in 0 .. MaxCrashes /\ errors \in 0 .. MaxErrors

\* "The one ordering that cannot leave the marker ahead of the data"
\* (__init__.py:436-441): what is live is never older than the marker says,
\* wherever a run dies or fails.
MarkerNotAhead ==
    OneFault => \A n \in had : live[n] \in (Version .. Target) \cup {Empty, None}

\* "The engine guarantees it is never handed its own output"
\* (__init__.py:67-69): a step only sees the version before it, so no step
\* makes anything of a state it was not written for.
NeverItsOwnOutput ==
    OneFault => \A s \in Steps, n \in Names : area[Staging(s)].files[n] # Bad

\* Between runs, a name whose content is not in the state directory is one the
\* next run will put in, or one an error message has sent the user to the backup
\* for; even after two failed calls, one of them in the rollback.
NoSilentLoss ==
    pc = "idle" /\ (crashes = 0 \/ errors = 0) => \A n \in had :
        live[n] \in {None, Empty} => n \in Pending(Version + 1) \cup stranded

\* Whatever the state started with is somewhere in the state directory, in this
\* version or another ("or the grants it holds will be lost",
\* __init__.py:270-277 and 306-311).
NothingLost ==
    OneFault =>
        \A n \in had : \/ live[n] \notin {None, Empty}
                       \/ \E a \in Areas : area[a].files[n] \notin {None, Empty}

\* A migration that ends well leaves no working copy of the state behind
\* (__init__.py:247-257), but for one whose removal by the clean-up itself has failed, which
\* nobody is told; and a backup that says itself which schema it holds.
CleanEnd ==
    outcome = "ok" /\ OneFault =>
        /\ \A a \in Areas \ {Backup} : area[a].exists => a \in run.tried /\ errors = 1
        /\ LET b == area[Backup]
           IN  \A n \in Names :
                  b.files[n] \in {None, Empty, IF b.marker = None THEN 0 ELSE b.marker}

\* The engine implements StateDir: files of two schemas are live only between the
\* first rename of a swap and the commit of its marker or the end of its
\* rollback, and the marker goes up one step at a time.
Mixed == \E n \in had : live[n] # Version
Promise == INSTANCE StateDir WITH version <- Version, mixed <- Mixed
StepsAsPromised ==
    [][had # {} /\ OneFault' => Promise!StateDirNext]_<<Version, Mixed>>

\* However often a run dies or fails, trying again gets there
\* (__init__.py:353-361).
Migrates == <>[](Version = Target /\ outcome = "ok")

\* A finished step waits in staging with a folder whose original is displaced and
\* whose place has been taken since: the swap can neither go on nor go back.
Jammed ==
    \E n \in Folders : /\ n \in Pending(Version + 1)
                       /\ live[n] = Empty
                       /\ area[Backup].files[n] \notin {Empty, None}

\* Trying again after a fault gets there, unless the run died between the two
\* renames of a folder and a command has made the folder again since: the one way
\* to jam.
MigratesOrJams == Migrates \/ <>[]Jammed \/ <>~ OneFault
================================================================================
