------------------------------ MODULE Update_proofs ----------------------------
(***************************************************************************)
(* The updater, the installer and the `holm migrate` they run use the lock *)
(* as MigrationLock says, so what is proved of it holds of them: whichever *)
(* releases there are, however many processes, of two that migrate at once *)
(* one has been robbed of its lock.                                        *)
(***************************************************************************)
EXTENDS Update, MigrationLock_proofs

\* What a `holm migrate` does to the lock.
LEMMA MigratesLocks ==
    ASSUME NEW r \in Runs, Migrates(r)
    PROVE  [LockNext]_lockVars
<1>1. CASE PortCheck(r)
    BY <1>1 DEF PortCheck, lockVars
<1>2. CASE TakeLock(r)
    BY <1>2 DEF TakeLock, LockNext, LockStep
<1>3. CASE MigrateStep(r)
    BY <1>3 DEF MigrateStep, lockVars
<1>4. CASE MigrateEnds(r)
    BY <1>4 DEF MigrateEnds, LockNext, LockStep
<1>5. QED BY <1>1, <1>2, <1>3, <1>4 DEF Migrates

\* A death is a death of the lock's processes, or touches no lock.
LEMMA TroubleLocks == ASSUME TypeOK, Trouble PROVE [LockNext]_lockVars
<1>1. CASE Interrupt
  <2>1. CASE inst.run = None
      BY <1>1, <2>1 DEF Interrupt, lockVars
  <2>2. CASE inst.run # None
      BY <1>1, <2>2 DEF Interrupt, LockNext, TypeOK, Install
  <2>3. QED BY <2>1, <2>2
<1>2. CASE InstallerKilled
    BY <1>2 DEF InstallerKilled, lockVars
<1>3. CASE PowerCut
    BY <1>3 DEF PowerCut, LockNext
<1>4. ASSUME NEW d \in Daemons, DaemonDies(d) PROVE UNCHANGED lockVars
    BY <1>4 DEF DaemonDies, lockVars
<1>5. ASSUME NEW r \in Runs, JobDies(r) PROVE LockNext
    BY <1>5 DEF JobDies, LockNext
<1>6. QED BY <1>1, <1>2, <1>3, <1>4, <1>5 DEF Trouble

\* Every step is a step of the lock or leaves it alone.
LEMMA StepLocks == TypeOK /\ [Next]_vars => [LockNext]_lockVars
<1> SUFFICES ASSUME TypeOK, [Next]_vars PROVE [LockNext]_lockVars
    OBVIOUS
<1>1. CASE Installer
    BY <1>1 DEF Installer, Download, Verify, StopDaemon, Drain, Swap, StartService,
                RunMigrate, lockVars
<1>2. CASE UnitStarts
    BY <1>2 DEF UnitStarts, lockVars
<1>3. CASE User
    BY <1>3 DEF User, InstallTag, ServeCmd, StartCmd, StopCmd, MigrateCmd, lockVars
<1>4. CASE Trouble
    BY <1>4, TroubleLocks
<1>5. ASSUME NEW r \in Runs, UpdateCmd(r) \/ Migrates(r) PROVE [LockNext]_lockVars
    BY <1>5, MigratesLocks DEF UpdateCmd, lockVars
<1>6. ASSUME NEW d \in Daemons, Serves(d) PROVE UNCHANGED lockVars
    BY <1>6 DEF Serves, RootCheck, ServeCheck, Bind, lockVars
<1>7. CASE UNCHANGED vars
    BY <1>7 DEF vars, lockVars
<1>8. QED BY <1>1, <1>2, <1>3, <1>4, <1>5, <1>6, <1>7 DEF Next
--------------------------------------------------------------------------------
(* Types.                                                                  *)

\* What lets a binary in is an archive that was verified.
Verified == inst.pc \in {"stop", "drain", "swap"} => inst.file = "good"

TypeInv == TypeOK /\ Verified

LEMMA NewestIsABuild == Newest \in Builds /\ \A b \in Builds : b <= Newest
    BY BuildsAreSchemas DEF Newest

LEMMA Starts ==
    /\ NoInstall \in Install
    /\ NoJob \in Job
    /\ NoDaemon \in Daemon
    BY NewestIsABuild DEF NoInstall, Install, NoJob, Job, NoDaemon, Daemon

\* The two counters stay within their bounds.
LEMMA BoundsTyping ==
    ASSUME commands \in 0 .. MaxCommands, faults \in 0 .. MaxFaults,
           Command \/ Fault \/ UNCHANGED bounds
    PROVE  commands' \in 0 .. MaxCommands /\ faults' \in 0 .. MaxFaults
    BY BoundsAreNaturals DEF Command, Fault, bounds

\* The installer's own steps.
LEMMA InstallerTyping == ASSUME TypeInv, Installer PROVE TypeInv'
<1> USE DEF TypeInv, TypeOK, Verified
<1>0. inst \in Install /\ NoInstall \in Install /\ NoInstall.pc = "off"
    BY Starts DEF NoInstall
<1>1. CASE Download
  <2>1. (Command \/ Fault \/ UNCHANGED bounds) /\ wanted' \in BOOLEAN
      BY <1>1 DEF Download, Installing, InstallerEnds
  <2>2. inst' \in Install /\ Verified'
      BY <1>0, <1>1 DEF Download, Installing, InstallerEnds, Install
  <2>3. QED BY <1>1, <2>1, <2>2, BoundsTyping DEF Download, lockVars, stateDir, LockTypeOK
<1>2. CASE Verify
  <2>1. (Command \/ Fault \/ UNCHANGED bounds) /\ wanted' \in BOOLEAN
      BY <1>2 DEF Verify, Accept, Installing, InstallerEnds
  <2>2. inst' \in Install /\ Verified'
    <3>1. CASE inst.file = "good" /\ Accept
      <4>1. CASE inst.pc = "script"
          BY <3>1, <4>1 DEF Accept, Installing, Install
      <4>2. CASE inst.pc # "script"
          BY <3>1, <4>2 DEF Accept, Installing, Install
      <4>3. QED BY <4>1, <4>2
    <3>2. CASE InstallerEnds(FALSE)
        BY <1>0, <3>2 DEF InstallerEnds
    <3>3. QED BY <1>2, <3>1, <3>2 DEF Verify
  <2>3. QED BY <1>2, <2>1, <2>2, BoundsTyping DEF Verify, lockVars, stateDir, LockTypeOK
<1>3. CASE StopDaemon
  <2>1. inst' \in Install /\ Verified'
      BY <1>0, <1>3 DEF StopDaemon, Install
  <2>2. daemon' \in [Daemons -> Daemon] /\ wanted' \in BOOLEAN
      BY <1>3, Starts DEF StopDaemon
  <2>3. Command \/ Fault \/ UNCHANGED bounds
      BY <1>3 DEF StopDaemon
  <2>4. QED BY <1>3, <2>1, <2>2, <2>3, BoundsTyping DEF StopDaemon, lockVars, stateDir, LockTypeOK
<1>4. CASE Drain
  <2>1. inst' \in Install /\ Verified' /\ wanted' \in BOOLEAN
      BY <1>0, <1>4 DEF Drain, Installing, InstallerEnds, Install
  <2>2. QED BY <1>4, <2>1 DEF Drain, lockVars, stateDir, bounds, LockTypeOK
<1>5. CASE Swap
  <2>1. (Command \/ Fault \/ UNCHANGED bounds) /\ wanted' \in BOOLEAN
      BY <1>5 DEF Swap, Installing, InstallerEnds
  <2>2. inst' \in Install /\ Verified' /\ binary' \in Builds
      BY <1>0, <1>5 DEF Swap, Installing, InstallerEnds, Install
  <2>3. QED BY <1>5, <2>1, <2>2, BoundsTyping DEF Swap, lockVars, stateDir, LockTypeOK
<1>6. CASE StartService
  <2>1. wanted' \in BOOLEAN /\ daemon' \in [Daemons -> Daemon]
      BY <1>6, Starts DEF StartService
  <2>2. QED BY <1>0, <1>6, <2>1 DEF StartService, lockVars, stateDir, bounds, LockTypeOK
<1>7. ASSUME NEW r \in Runs, RunMigrate(r) PROVE TypeInv'
  <2>1. inst' \in Install /\ Verified'
      BY <1>0, <1>7 DEF RunMigrate, Installing, Install
  <2>2. job' \in [Runs -> Job]
      BY <1>7 DEF RunMigrate, Job
  <2>3. QED BY <1>7, <2>1, <2>2 DEF RunMigrate, Installing, lockVars, stateDir, bounds, LockTypeOK
<1>8. QED BY <1>1, <1>2, <1>3, <1>4, <1>5, <1>6, <1>7 DEF Installer

\* A process that is over leaves its installer typed.
LEMMA JobEndsTyping ==
    ASSUME TypeInv, NEW r \in Runs, NEW ok \in BOOLEAN, JobEnds(r, ok)
    PROVE  /\ inst' \in Install /\ Verified' /\ wanted' \in BOOLEAN
           /\ job' \in [Runs -> Job]
<1> USE DEF TypeInv, TypeOK, Verified
<1>1. NoInstall \in Install /\ NoInstall.pc = "off" /\ NoJob \in Job
    BY Starts DEF NoInstall
<1>2. job' \in [Runs -> Job]
    BY <1>1 DEF JobEnds
<1>3. CASE UNCHANGED <<inst, wanted>>
    BY <1>2, <1>3
<1>4. CASE Installing([inst EXCEPT !.pc = "start", !.run = None])
    BY <1>2, <1>4 DEF Installing, Install
<1>5. CASE InstallerEnds(FALSE)
    BY <1>1, <1>2, <1>5 DEF InstallerEnds
<1>6. QED BY <1>3, <1>4, <1>5 DEF JobEnds

\* The steps of a `holm migrate`.
LEMMA MigratesTyping == ASSUME TypeInv, NEW r \in Runs, Migrates(r) PROVE TypeInv'
<1> USE DEF TypeInv, TypeOK
<1>0. LockTypeOK'
    BY MigratesLocks, LockTyping
<1>1. CASE PortCheck(r)
  <2>1. CASE JobEnds(r, FALSE) /\ UNCHANGED daemon
      BY <1>0, <1>1, <2>1, JobEndsTyping DEF PortCheck, stateDir, bounds
  <2>2. CASE /\ job' = [job EXCEPT ![r].pc = "lock"]
             /\ daemon' = [d \in Daemons |->
                   [daemon[d] EXCEPT !.late = @ \/ (Starting(d) /\ daemon[d].build < job[r].build)]]
             /\ UNCHANGED <<inst, wanted>>
    <3>1. job' \in [Runs -> Job]
        BY <2>2 DEF Job
    <3>2. ASSUME NEW d \in Daemons PROVE daemon'[d] \in Daemon
        BY <2>2, <3>2 DEF Daemon, Starting
    <3>3. daemon' \in [Daemons -> Daemon]
        BY <2>2, <3>2
    <3>4. QED BY <1>0, <1>1, <2>2, <3>1, <3>3 DEF PortCheck, stateDir, bounds, Verified
  <2>3. QED BY <1>1, <2>1, <2>2 DEF PortCheck
<1>2. CASE TakeLock(r)
  <2>1. CASE JobEnds(r, FALSE)
      BY <1>0, <1>2, <2>1, JobEndsTyping DEF TakeLock, stateDir, bounds
  <2>2. CASE UNCHANGED <<inst, job, wanted>>
      BY <1>0, <1>2, <2>2 DEF TakeLock, stateDir, bounds, Verified
  <2>3. QED BY <1>2, <2>1, <2>2 DEF TakeLock
<1>3. CASE MigrateStep(r)
  <2>1. (version' = version \/ version' = version + 1) /\ mixed' \in BOOLEAN
      BY <1>3 DEF MigrateStep, BeginSwap, CommitStep
  <2>2. version' \in Nat
      BY <2>1
  <2>3. QED BY <1>0, <1>3, <2>1, <2>2 DEF MigrateStep, processes, bounds, Verified
<1>4. CASE MigrateEnds(r)
  <2>1. PICK ok \in BOOLEAN : JobEnds(r, ok)
      BY <1>4 DEF MigrateEnds
  <2>2. Command \/ Fault \/ UNCHANGED bounds
      BY <1>4 DEF MigrateEnds
  <2>3. version' \in Nat /\ mixed' \in BOOLEAN /\ jammed' \in BOOLEAN
      BY <1>4 DEF MigrateEnds, MayJam, UndoSwap, stateDir
  <2>4. QED BY <1>0, <1>4, <2>1, <2>2, <2>3, JobEndsTyping, BoundsTyping DEF MigrateEnds
<1>5. QED BY <1>1, <1>2, <1>3, <1>4 DEF Migrates

\* A daemon that starts is a daemon.
LEMMA ExecTyping ==
    ASSUME TypeInv, NEW d \in Daemons, NEW default \in BOOLEAN, Exec(d, default)
    PROVE  daemon' \in [Daemons -> Daemon]
<1> USE DEF TypeInv, TypeOK
<1> DEFINE late == \E r \in Runs : job[r].pc = "lock" /\ binary < job[r].build
<1>1. [pc |-> "exec", build |-> binary, default |-> default, late |-> late] \in Daemon
    BY DEF Daemon
<1>2. QED BY <1>1 DEF Exec

\* The steps of a daemon on its way up.
LEMMA ServesTyping == ASSUME TypeInv, NEW d \in Daemons, Serves(d) PROVE TypeInv'
<1> USE DEF TypeInv, TypeOK
<1>1. UNCHANGED <<lockVars, stateDir, jammed, binary, inst, job, bounds>>
    BY DEF Serves, RootCheck, ServeCheck, Bind
<1>2. daemon' \in [Daemons -> Daemon] /\ wanted' \in BOOLEAN
  <2>1. ASSUME NEW pc \in {"serving", "binding", "up"}, Become(d, pc)
        PROVE  daemon' \in [Daemons -> Daemon] /\ wanted' \in BOOLEAN
      BY <2>1 DEF Become, Daemon
  <2>2. ASSUME NEW restart \in BOOLEAN, Exit(d, restart)
        PROVE  daemon' \in [Daemons -> Daemon] /\ wanted' \in BOOLEAN
      BY <2>2, Starts DEF Exit
  <2>3. QED BY <2>1, <2>2 DEF Serves, RootCheck, ServeCheck, Bind
<1>3. QED BY <1>1, <1>2 DEF lockVars, stateDir, bounds, LockTypeOK, Verified

\* What a user asks for.
LEMMA UserTyping == ASSUME TypeInv, User PROVE TypeInv'
<1> USE DEF TypeInv, TypeOK
<1>0. commands' \in 0 .. MaxCommands /\ faults' \in 0 .. MaxFaults
    BY BoundsTyping DEF User, InstallTag, ServeCmd, StartCmd, StopCmd, MigrateCmd
<1> USE DEF lockVars, stateDir, LockTypeOK
<1>1. ASSUME NEW tag \in Builds, InstallTag(tag) PROVE TypeInv'
  <2>1. PICK pc \in {"script", "archive"} : BeginInstall(tag, pc)
      BY <1>1 DEF InstallTag
  <2>2. inst' \in Install /\ Verified'
      BY <2>1, Starts DEF BeginInstall, Installing, Install, Verified
  <2>3. QED BY <1>0, <1>1, <2>1, <2>2 DEF InstallTag, BeginInstall, Installing
<1>2. CASE ServeCmd
    BY <1>0, <1>2, ExecTyping DEF ServeCmd, Verified, Daemons
<1>3. CASE StartCmd
    BY <1>0, <1>3 DEF StartCmd, Verified
<1>4. CASE StopCmd
    BY <1>0, <1>4, Starts DEF StopCmd, Exit, Verified
<1>5. ASSUME NEW r \in Runs, MigrateCmd(r) PROVE TypeInv'
    BY <1>0, <1>5 DEF MigrateCmd, Verified, Job
<1>6. QED BY <1>1, <1>2, <1>3, <1>4, <1>5 DEF User

\* What goes wrong.
LEMMA TroubleTyping == ASSUME TypeInv, Trouble PROVE TypeInv'
<1> USE DEF TypeInv, TypeOK
<1>0. commands' \in 0 .. MaxCommands /\ faults' \in 0 .. MaxFaults
    BY BoundsTyping DEF Trouble, Interrupt, InstallerKilled, PowerCut, DaemonDies, JobDies
<1>1. LockTypeOK'
    BY TroubleLocks, LockTyping
<1> USE Starts DEF lockVars, stateDir
<1>2. CASE Interrupt
  <2>1. inst' \in Install /\ Verified' /\ wanted' \in BOOLEAN
      BY <1>2 DEF Interrupt, InstallerEnds, NoInstall, Verified
  <2>2. job' \in [Runs -> Job] /\ jammed' \in BOOLEAN
      BY <1>2 DEF Interrupt, MayJam
  <2>3. QED BY <1>0, <1>1, <1>2, <2>1, <2>2 DEF Interrupt
<1>3. CASE InstallerKilled
    BY <1>0, <1>1, <1>3 DEF InstallerKilled, NoInstall, Verified
<1>4. CASE PowerCut
    BY <1>0, <1>1, <1>4 DEF PowerCut, MayJam, NoInstall, Verified
<1>5. ASSUME NEW d \in Daemons, DaemonDies(d) PROVE TypeInv'
    BY <1>0, <1>1, <1>5 DEF DaemonDies, Exit, Verified
<1>6. ASSUME NEW r \in Runs, JobDies(r) PROVE TypeInv'
    BY <1>0, <1>1, <1>6, JobEndsTyping DEF JobDies, MayJam
<1>7. QED BY <1>2, <1>3, <1>4, <1>5, <1>6 DEF Trouble

\* The types, and Verified, are inductive.
LEMMA TypeStep == TypeInv /\ [Next]_vars => TypeInv'
<1> SUFFICES ASSUME TypeInv, [Next]_vars PROVE TypeInv'
    OBVIOUS
<1>1. CASE UnitStarts
    BY <1>1, ExecTyping DEF UnitStarts, TypeInv, TypeOK, Verified, lockVars, stateDir, bounds,
                            LockTypeOK, Daemons
<1>2. ASSUME NEW r \in Runs, UpdateCmd(r) PROVE TypeInv'
  <2>1. inst' \in Install /\ Verified' /\ wanted' \in BOOLEAN
      BY <1>2, Starts, NewestIsABuild
      DEF UpdateCmd, BeginInstall, Installing, Install, TypeInv, TypeOK, Verified
  <2>2. job' \in [Runs -> Job]
      BY <1>2 DEF UpdateCmd, Job, TypeInv, TypeOK
  <2>3. QED BY <1>2, <2>1, <2>2
            DEF UpdateCmd, TypeInv, TypeOK, lockVars, stateDir, bounds, LockTypeOK
<1>3. CASE UNCHANGED vars
    BY <1>3 DEF vars, processes, bounds, lockVars, stateDir, TypeInv, TypeOK, LockTypeOK, Verified
<1>4. QED BY <1>1, <1>2, <1>3, InstallerTyping, MigratesTyping, ServesTyping, UserTyping,
             TroubleTyping DEF Next

\* The initial states are typed.
LEMMA TypeInit == Init => TypeInv
<1> SUFFICES ASSUME Init PROVE TypeInv
    OBVIOUS
<1>1. version \in Nat /\ commands \in 0 .. MaxCommands /\ faults \in 0 .. MaxFaults
    BY BuildsAreSchemas, BoundsAreNaturals DEF Init
<1>2. LockTypeOK
    BY DEF Init, LockInit, LockTypeOK, Places
<1>3. inst \in Install /\ job \in [Runs -> Job] /\ daemon \in [Daemons -> Daemon] /\ Verified
    BY Starts DEF Init, NoInstall, Verified
<1>4. QED BY <1>1, <1>2, <1>3 DEF Init, TypeInv, TypeOK

\* No binary goes in that was not verified (TypeOK, updater.py:242-243).
THEOREM UpdateTypes == Spec => []TypeOK
<1>1. TypeInv => TypeOK
    BY DEF TypeInv
<1>2. QED BY <1>1, TypeInit, TypeStep, PTL DEF Spec

\* Updates, installs and migrations keep to the lock's protocol (LockSpec,
\* __init__.py:148-190).
THEOREM UpdateLocks == Spec => LockSpec
<1>1. Init => LockInit
    BY DEF Init
<1>2. TypeInv /\ [Next]_vars => [LockNext]_lockVars
    BY StepLocks DEF TypeInv
<1>3. QED BY <1>1, <1>2, TypeInit, TypeStep, PTL DEF Spec, LockSpec

\* So two of them are not in at once (Exclusive, __init__.py:124-126).
THEOREM UpdateExcludes == Spec => []Exclusive
    BY UpdateLocks, LockExcludes
--------------------------------------------------------------------------------
(* Whoever answers serves a state of its own schema.                       *)

\* Past both checks, and on its way to the default port or on it.
Checked(d) == daemon[d].pc \in {"serving", "binding"} \/ d \in Up

\* Asking for the port and noting the daemons that do not hold it yet comes first,
\* migrating second: a migration on its way finds no daemon of an older build
\* but the late ones.
Settled ==
    /\ \A r \in Runs : at[r] # "idle" => job[r].pc = "lock"
    /\ \A r \in Runs, d \in Daemons :
          job[r].pc = "lock" /\ (Starting(d) \/ d \in Up) /\ daemon[d].build < job[r].build
          => daemon[d].late
    /\ \A d \in Daemons : Checked(d) /\ ~ daemon[d].late => version = daemon[d].build
    /\ mixed => version < Newest

\* Nothing the daemons look at changes.
StillSettled == UNCHANGED <<stateDir, at, job, daemon>>

LEMMA Still == ASSUME Settled, StillSettled PROVE Settled'
    BY DEF Settled, StillSettled, stateDir, Checked, Up, Starting

\* A daemon that ends is neither starting nor up.
LEMMA FewerDaemons ==
    ASSUME TypeInv, Settled, UNCHANGED <<stateDir, at, job>>,
           \A d \in Daemons : daemon'[d] = daemon[d] \/ daemon'[d] = NoDaemon
    PROVE  Settled'
    BY DEF Settled, stateDir, Checked, Up, Starting, NoDaemon

\* A process that is over, or has not asked for the port yet, holds nobody up.
LEMMA NoNewJobs ==
    ASSUME Settled, UNCHANGED <<stateDir, daemon>>,
           \A r \in Runs : /\ at'[r] # "idle" => job'[r].pc = "lock"
                           /\ job'[r].pc = "lock" => job'[r] = job[r]
    PROVE  Settled'
<1>1. UNCHANGED <<version, mixed, daemon>>
    BY DEF stateDir
<1>2. ASSUME NEW r \in Runs, NEW d \in Daemons,
             job'[r].pc = "lock", (Starting(d) \/ d \in Up)', (daemon[d].build < job[r].build)'
      PROVE  daemon'[d].late
    BY <1>1, <1>2 DEF Settled, Starting, Up
<1>3. ASSUME NEW d \in Daemons, Checked(d)', ~ daemon'[d].late
      PROVE  version' = daemon'[d].build
    BY <1>1, <1>3 DEF Settled, Checked, Up
<1>4. (mixed => version < Newest)'
    BY <1>1 DEF Settled
<1>5. \A r \in Runs : (at[r] # "idle" => job[r].pc = "lock")'
    OBVIOUS
<1>6. QED BY <1>1, <1>2, <1>3, <1>4, <1>5 DEF Settled

\* A daemon goes one step further; one that is past a check served its own schema
\* when it was checked.
LEMMA Becomes ==
    ASSUME TypeInv, Settled, UNCHANGED <<stateDir, at, job>>, NEW d \in Daemons,
           NEW pc \in {"serving", "binding", "up"}, Become(d, pc), Starting(d),
           version = daemon[d].build
    PROVE  Settled'
<1>1. /\ daemon'[d] = [daemon[d] EXCEPT !.pc = pc]
      /\ daemon[d] \in Daemon
      /\ \A e \in Daemons : e # d => daemon'[e] = daemon[e]
    BY DEF Become, TypeInv, TypeOK
<1>2. daemon'[d].build = daemon[d].build /\ daemon'[d].late = daemon[d].late
    BY <1>1 DEF Daemon
<1>3. ASSUME NEW e \in Daemons, (Starting(e) \/ e \in Up)' PROVE Starting(e) \/ e \in Up
  <2>1. CASE e = d BY <2>1
  <2>2. CASE e # d BY <1>1, <1>3, <2>2 DEF Starting, Up
  <2>3. QED BY <2>1, <2>2
<1>4. ASSUME NEW e \in Daemons, e # d PROVE Checked(e)' = Checked(e)
    BY <1>1, <1>4 DEF Checked, Up
<1>5. QED BY <1>1, <1>2, <1>3, <1>4 DEF Settled, stateDir

\* A daemon that starts is late for every migration past the port.
LEMMA Execs ==
    ASSUME TypeInv, Settled, UNCHANGED <<stateDir, at, job>>, NEW d \in Daemons,
           NEW default \in BOOLEAN, Exec(d, default)
    PROVE  Settled'
<1>1. /\ daemon'[d].pc = "exec" /\ daemon'[d].build = binary
      /\ daemon'[d].late = \E r \in Runs : job[r].pc = "lock" /\ binary < job[r].build
      /\ \A e \in Daemons : e # d => daemon'[e] = daemon[e]
    BY DEF Exec, TypeInv, TypeOK
<1>2. ~ Checked(d)'
    BY <1>1 DEF Checked, Up
<1>3. \A e \in Daemons : e # d =>
          Checked(e)' = Checked(e) /\ (Starting(e) \/ e \in Up)' = (Starting(e) \/ e \in Up)
    BY <1>1 DEF Checked, Starting, Up
<1>4. QED BY <1>1, <1>2, <1>3 DEF Settled, stateDir

\* What a migration changes, nobody serves but who is late.
LEMMA MigrateStepSettled ==
    ASSUME TypeInv, Settled, NEW r \in Runs, MigrateStep(r)
    PROVE  Settled'
<1>1. job[r].pc = "lock" /\ version < job[r].build
    BY DEF MigrateStep, Settled
<1>2. ASSUME NEW d \in Daemons, Checked(d), ~ daemon[d].late PROVE FALSE
  <2>1. version = daemon[d].build /\ (Starting(d) \/ d \in Up)
      BY <1>2 DEF Settled, Checked, Starting
  <2>2. daemon[d].build < job[r].build
      BY <1>1, <2>1
  <2>3. QED BY <1>1, <1>2, <2>1, <2>2 DEF Settled
<1>3. mixed' => version' < Newest
  <2>0. job[r].build \in Builds
      BY DEF TypeInv, TypeOK, Job
  <2>1. job[r].build <= Newest /\ job[r].build \in Nat /\ Newest \in Nat /\ version \in Nat
      BY <2>0, NewestIsABuild, BuildsAreSchemas DEF TypeInv, TypeOK
  <2>2. mixed' => version' = version
      BY DEF MigrateStep, BeginSwap, CommitStep
  <2>3. version < Newest
      BY <1>1, <2>1
  <2>4. QED BY <2>2, <2>3
<1>4. UNCHANGED <<at, job, daemon>>
    BY DEF MigrateStep, lockVars, processes
<1>5. QED BY <1>2, <1>3, <1>4 DEF Settled, Checked, Starting, Up

\* The steps of a `holm migrate`.
LEMMA MigratesSettled ==
    ASSUME TypeInv, Settled, NEW r \in Runs, Migrates(r)
    PROVE  Settled'
<1> USE DEF lockVars, stateDir
<1>1. CASE PortCheck(r)
  <2>1. CASE JobEnds(r, FALSE) /\ UNCHANGED daemon
    <3>1. CASE at[r] = "idle"
        BY <1>1, <2>1, <3>1, NoNewJobs
        DEF PortCheck, JobEnds, NoJob, Settled, TypeInv, TypeOK
    <3>2. CASE at[r] # "idle"
        BY <1>1, <3>2 DEF PortCheck, Settled
    <3>3. QED BY <3>1, <3>2
  <2>2. CASE /\ Up = {}
             /\ job' = [job EXCEPT ![r].pc = "lock"]
             /\ daemon' = [d \in Daemons |->
                   [daemon[d] EXCEPT !.late = @ \/ (Starting(d) /\ daemon[d].build < job[r].build)]]
    <3>1. /\ job'[r].pc = "lock" /\ job'[r].build = job[r].build
          /\ \A q \in Runs : q # r => job'[q] = job[q]
        BY <2>2 DEF TypeInv, TypeOK, Job
    <3>2. ASSUME NEW d \in Daemons
          PROVE  /\ daemon'[d].pc = daemon[d].pc /\ daemon'[d].build = daemon[d].build
                 /\ daemon'[d].default = daemon[d].default
                 /\ daemon[d].late => daemon'[d].late
                 /\ Starting(d) /\ daemon[d].build < job[r].build => daemon'[d].late
        BY <2>2 DEF TypeInv, TypeOK, Daemon
    <3>3. Up' = {}
        BY <2>2, <3>2 DEF Up
    <3>4. \A d \in Daemons : Starting(d)' = Starting(d)
        BY <3>2 DEF Starting
    <3>5. \A d \in Daemons : Checked(d)' => Checked(d)
        BY <3>2, <3>3 DEF Checked
    <3>6. UNCHANGED <<version, mixed, at>>
        BY <1>1 DEF PortCheck
    <3>7. QED BY <3>1, <3>2, <3>3, <3>4, <3>5, <3>6 DEF Settled
  <2>3. QED BY <1>1, <2>1, <2>2 DEF PortCheck
<1>2. CASE TakeLock(r)
  <2>1. \A q \in Runs : q # r => at'[q] = at[q]
      BY <1>2 DEF TakeLock, Claim, Claimed, Read, Probe, Clear, Reclaim, WritePid, Go, TypeInv, TypeOK,
                  LockTypeOK
  <2>2. CASE at'[r] = "idle" /\ JobEnds(r, FALSE)
      BY <1>2, <2>1, <2>2, NoNewJobs
      DEF TakeLock, JobEnds, NoJob, Settled, TypeInv, TypeOK
  <2>3. CASE UNCHANGED <<inst, job, wanted>>
      BY <1>2, <2>1, <2>3, NoNewJobs DEF TakeLock, Settled
  <2>4. QED BY <1>2, <2>2, <2>3 DEF TakeLock
<1>3. CASE MigrateStep(r)
    BY <1>3, MigrateStepSettled
<1>4. CASE MigrateEnds(r)
  <2>1. PICK ok \in BOOLEAN : JobEnds(r, ok)
      BY <1>4 DEF MigrateEnds
  <2>2. \A q \in Runs : /\ at'[q] # "idle" => job'[q].pc = "lock"
                        /\ job'[q].pc = "lock" => job'[q] = job[q]
      BY <1>4, <2>1 DEF MigrateEnds, Release, Go, JobEnds, NoJob, Settled, TypeInv, TypeOK, LockTypeOK
  <2>3. CASE UNCHANGED <<version, mixed>>
      BY <1>4, <2>2, <2>3, NoNewJobs DEF MigrateEnds
  <2>4. CASE UndoSwap
      BY <1>4, <2>2, <2>4 DEF MigrateEnds, UndoSwap, Settled, Checked, Up, Starting
  <2>5. QED BY <1>4, <2>3, <2>4 DEF MigrateEnds
<1>5. QED BY <1>1, <1>2, <1>3, <1>4 DEF Migrates
\* The steps of a daemon on its way up.
LEMMA ServesSettled ==
    ASSUME TypeInv, Settled, NEW d \in Daemons, Serves(d)
    PROVE  Settled'
<1>1. UNCHANGED <<stateDir, at, job>> /\ Starting(d)
    BY DEF Serves, RootCheck, ServeCheck, Bind, Starting, lockVars
<1>2. ASSUME NEW restart \in BOOLEAN, Exit(d, restart) PROVE Settled'
    BY <1>1, <1>2, FewerDaemons DEF Exit, TypeInv, TypeOK
<1>3. CASE RootCheck(d)
    BY <1>1, <1>2, <1>3, Becomes DEF RootCheck, SchemaOk
<1>4. CASE ServeCheck(d)
    BY <1>1, <1>2, <1>4, Becomes DEF ServeCheck, SchemaOk
<1>5. CASE Bind(d)
  <2>1. CASE ~ daemon[d].late
    <3>1. version = daemon[d].build
        BY <1>5, <2>1 DEF Bind, Settled, Checked
    <3>2. QED BY <1>1, <1>2, <1>5, <3>1, Becomes DEF Bind
  <2>2. CASE daemon[d].late /\ Become(d, "up")
    <3>1. /\ daemon'[d] = [daemon[d] EXCEPT !.pc = "up"]
          /\ daemon[d] \in Daemon
          /\ \A e \in Daemons : e # d => daemon'[e] = daemon[e]
        BY <2>2 DEF Become, TypeInv, TypeOK
    <3>2. daemon'[d].late
        BY <2>2, <3>1 DEF Daemon
    <3>3. \A e \in Daemons : e # d =>
              Checked(e)' = Checked(e) /\ (Starting(e) \/ e \in Up)' = (Starting(e) \/ e \in Up)
        BY <3>1 DEF Checked, Starting, Up
    <3>4. QED BY <1>1, <3>1, <3>2, <3>3 DEF Settled, stateDir
  <2>3. QED BY <1>2, <1>5, <2>1, <2>2 DEF Bind
<1>6. QED BY <1>3, <1>4, <1>5 DEF Serves

\* Settled is inductive.
LEMMA SettledStep == TypeInv /\ Settled /\ [Next]_vars => Settled'
<1> SUFFICES ASSUME TypeInv, Settled, [Next]_vars PROVE Settled'
    OBVIOUS
<1> USE DEF lockVars
<1>1. CASE Installer
  <2>1. ASSUME NEW r \in Runs, RunMigrate(r) PROVE Settled'
      BY <2>1, NoNewJobs DEF RunMigrate, Settled, TypeInv, TypeOK
  <2>2. CASE Download \/ Verify \/ Drain \/ Swap
      BY <2>2, Still DEF Download, Verify, Drain, Swap, StillSettled
  <2>3. CASE StopDaemon \/ StartService
      BY <2>3, FewerDaemons DEF StopDaemon, StartService, TypeInv, TypeOK
  <2>4. QED BY <1>1, <2>1, <2>2, <2>3 DEF Installer
<1>2. CASE UnitStarts
    BY <1>2, Execs DEF UnitStarts, Daemons
<1>3. CASE User
  <2>1. ASSUME NEW r \in Runs, MigrateCmd(r) PROVE Settled'
      BY <2>1, NoNewJobs DEF MigrateCmd, Settled, TypeInv, TypeOK
  <2>2. CASE ServeCmd
      BY <2>2, Execs DEF ServeCmd, Daemons
  <2>3. CASE StopCmd
      BY <2>3, FewerDaemons DEF StopCmd, Exit, TypeInv, TypeOK
  <2>4. CASE StartCmd \/ \E tag \in Builds : InstallTag(tag)
      BY <2>4, Still DEF StartCmd, InstallTag, StillSettled
  <2>5. QED BY <1>3, <2>1, <2>2, <2>3, <2>4 DEF User
<1>4. CASE Trouble
  <2>1. CASE Interrupt
    <3>1. \A r \in Runs : /\ at'[r] # "idle" => job'[r].pc = "lock"
                          /\ job'[r].pc = "lock" => job'[r] = job[r]
        BY <2>1 DEF Interrupt, Die, NoJob, Settled, TypeInv, TypeOK, LockTypeOK
    <3>2. QED BY <2>1, <3>1, NoNewJobs DEF Interrupt
  <2>2. CASE InstallerKilled
      BY <2>2, Still DEF InstallerKilled, StillSettled
  <2>3. CASE PowerCut
      BY <2>3 DEF PowerCut, Die, NoJob, NoDaemon, Settled, stateDir, Checked, Up, Starting
  <2>4. ASSUME NEW d \in Daemons, DaemonDies(d) PROVE Settled'
      BY <2>4, FewerDaemons DEF DaemonDies, Exit, TypeInv, TypeOK
  <2>5. ASSUME NEW r \in Runs, JobDies(r) PROVE Settled'
    <3>1. \A q \in Runs : /\ at'[q] # "idle" => job'[q].pc = "lock"
                          /\ job'[q].pc = "lock" => job'[q] = job[q]
        BY <2>5 DEF JobDies, JobEnds, Die, NoJob, Settled, TypeInv, TypeOK, LockTypeOK
    <3>2. QED BY <2>5, <3>1, NoNewJobs DEF JobDies
  <2>6. QED BY <1>4, <2>1, <2>2, <2>3, <2>4, <2>5 DEF Trouble
<1>5. ASSUME NEW r \in Runs, UpdateCmd(r) PROVE Settled'
    BY <1>5, NoNewJobs DEF UpdateCmd, Settled, TypeInv, TypeOK
<1>6. CASE UNCHANGED vars
    BY <1>6, Still DEF vars, processes, StillSettled
<1>7. QED BY <1>1, <1>2, <1>3, <1>4, <1>5, <1>6, MigratesSettled, ServesSettled DEF Next

\* Settled says of whoever answers what is wanted.
LEMMA SettledServes == TypeInv /\ Settled => ServesItsSchema
<1> SUFFICES ASSUME TypeInv, Settled, NEW d \in Up, ~ daemon[d].late
             PROVE  version = daemon[d].build /\ (daemon[d].build = Newest => ~ mixed)
    BY DEF ServesItsSchema
<1>1. version = daemon[d].build
    BY DEF Settled, Checked, Up
<1>2. ASSUME version = Newest, mixed PROVE FALSE
    BY <1>2, NewestIsABuild, BuildsAreSchemas DEF Settled
<1>3. QED BY <1>1, <1>2

\* Whatever dies and whoever interferes, the daemon on the default port serves a
\* state of its own schema (ServesItsSchema, main.py:621-622).
THEOREM UpdateServes == Spec => []ServesItsSchema
<1>1. Init => Settled
    BY DEF Init, LockInit, NoJob, NoDaemon, Settled, Checked, Up, Starting
<1>2. QED BY <1>1, TypeInit, TypeStep, SettledStep, SettledServes, PTL DEF Spec
================================================================================
