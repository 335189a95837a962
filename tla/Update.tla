--------------------------------- MODULE Update --------------------------------
(***************************************************************************)
(* How a new release gets in: the updater and the installer, `holm migrate` *)
(* run under the lock by either, and the daemons that must not serve a     *)
(* state of another schema meanwhile.                                      *)
(*                                                                         *)
(* A build is the schema it understands.  Two daemons: the one the service *)
(* manager keeps (systemd: Restart=on-failure, not after EX_CONFIG), and a *)
(* `holm serve` somebody runs by hand, on the default port or another.     *)
(***************************************************************************)
EXTENDS MigrationLock, StateDir

CONSTANTS
    Builds,         \* the releases; the newest is the latest one
    Bad,            \* what a torn or forged download would install
    Unit, Hand,     \* the two daemons
    MaxCommands,    \* bound: commands a user gives of their own accord
    MaxFaults       \* bound: downloads and calls that fail, and things that die

ASSUME BuildsAreSchemas ==
    /\ Builds \subseteq Nat /\ Bad \notin Builds
    /\ \E b \in Builds : \A c \in Builds : c <= b
ASSUME TwoDaemons == Unit # Hand
ASSUME BoundsAreNaturals == MaxCommands \in Nat /\ MaxFaults \in Nat

VARIABLES
    binary,     \* ~/.local/bin/holm
    inst,       \* the installer: where it is and its variables
    job,        \* each process that runs `holm migrate`
    daemon,     \* each daemon
    wanted,     \* whether the service manager wants the unit up
    jammed,     \* whether no run can finish the swap that is half done
    commands, faults

processes == <<inst, job, daemon, wanted>>
bounds == <<commands, faults>>
vars == <<lockVars, stateDir, jammed, binary, processes, bounds>>

Newest == CHOOSE b \in Builds : \A c \in Builds : c <= b
Daemons == {Unit, Hand}

NoInstall == [pc |-> "off", tag |-> Newest, file |-> None, stopped |-> FALSE, run |-> None]
NoJob == [pc |-> "off", build |-> Newest]
NoDaemon == [pc |-> "off", build |-> Newest, default |-> TRUE, late |-> FALSE]

Install == [pc : {"off", "script", "archive", "stop", "drain", "swap", "migrate", "wait", "start"},
            tag : Builds, file : {None, "good", "bad"}, stopped : BOOLEAN,
            run : Runs \cup {None}]
Job == [pc : {"off", "port", "lock"}, build : Builds]
Daemon == [pc : {"off", "exec", "serving", "binding", "up"}, build : Builds,
           default : BOOLEAN, late : BOOLEAN]

\* A state of some release, with or without its daemon.
Init ==
    /\ LockInit
    /\ version \in Builds /\ mixed = FALSE /\ jammed = FALSE
    /\ binary = version
    /\ wanted \in BOOLEAN
    /\ inst = NoInstall
    /\ job = [r \in Runs |-> NoJob]
    /\ daemon = [d \in Daemons |-> NoDaemon]
    /\ commands = 0 /\ faults = 0

Command == commands < MaxCommands /\ commands' = commands + 1 /\ UNCHANGED faults
Fault == faults < MaxFaults /\ faults' = faults + 1 /\ UNCHANGED commands

\* Who holds the default port: _port_in_use asks by binding it.
Up == {d \in Daemons : daemon[d].pc = "up" /\ daemon[d].default}
Starting(d) == daemon[d].pc \in {"exec", "serving", "binding"}

\* (mutant) A daemon takes any state that is not newer.
SchemaOk_NotNewer(build) == version <= build

\* verify_schema: the marker says exactly the schema the build understands.
SchemaOk(build) == version = build
--------------------------------------------------------------------------------
(* The updater and the installer.                                          *)

\* What an installer that ends, not killed, does: the EXIT trap starts the daemon
\* it stopped again.
InstallerEnds(restart) ==
    /\ inst' = NoInstall
    /\ wanted' = IF restart /\ inst.stopped THEN TRUE ELSE wanted

Installing(locals) == inst' = locals /\ UNCHANGED wanted

BeginInstall(tag, pc) == Installing([NoInstall EXCEPT !.pc = pc, !.tag = tag])

\* `curl | bash`, or `holm update --tag`: any release, a downgrade too.
InstallTag(tag) ==
    /\ inst.pc = "off"
    /\ Command
    /\ \E pc \in {"script", "archive"} : BeginInstall(tag, pc)
    /\ UNCHANGED <<lockVars, stateDir, jammed, binary, job, daemon>>

\* (mutant) A current binary is all there is to update.
UpdateCmd_BinaryOnly(r) ==
    /\ inst.pc = "off" /\ binary < Newest
    /\ BeginInstall(Newest, "script") /\ UNCHANGED job
    /\ UNCHANGED <<lockVars, stateDir, jammed, binary, daemon, bounds>>

\* update(): the latest release through its installer; when the binary is the
\* latest and its state is behind, the migration the installer did not get to.
\* Whoever repeats it waits for the one before (MigrateCmd does not).
UpdateCmd(r) ==
    /\ inst.pc = "off"
    /\ \/ binary < Newest /\ BeginInstall(Newest, "script") /\ UNCHANGED job
       \/ /\ binary = Newest
          /\ version < binary
          /\ \A q \in Runs : job[q].pc = "off"
          /\ job' = [job EXCEPT ![r] = [pc |-> "port", build |-> binary]]
          /\ UNCHANGED <<inst, wanted>>
    /\ UNCHANGED <<lockVars, stateDir, jammed, binary, daemon, bounds>>

\* _download, of the installer script and then, by the script, of the archive.
Download ==
    /\ inst.pc \in {"script", "archive"}
    /\ inst.file = None
    /\ \/ Installing([inst EXCEPT !.file = "good"]) /\ UNCHANGED bounds
       \/ Installing([inst EXCEPT !.file = "bad"]) /\ Fault
       \/ InstallerEnds(FALSE) /\ Fault
    /\ UNCHANGED <<lockVars, stateDir, jammed, binary, job, daemon>>

\* What follows a file that is taken for good.
Accept == Installing(IF inst.pc = "script" THEN [inst EXCEPT !.pc = "archive", !.file = None]
                     ELSE [inst EXCEPT !.pc = "stop"])

\* (mutant) Without checksums.txt there is nothing to compare with.
Verify_IfPublished ==
    /\ inst.pc \in {"script", "archive"} /\ inst.file # None
    /\ \/ inst.file = "good" /\ Accept /\ UNCHANGED bounds
       \/ inst.file = "bad" /\ InstallerEnds(FALSE) /\ UNCHANGED bounds
       \/ Accept /\ Fault
    /\ UNCHANGED <<lockVars, stateDir, jammed, binary, job, daemon>>

\* The digest must be the one in checksums.txt; without that file (a fault)
\* nothing is run or installed.
Verify ==
    /\ inst.pc \in {"script", "archive"} /\ inst.file # None
    /\ \/ inst.file = "good" /\ Accept /\ UNCHANGED bounds
       \/ inst.file = "bad" /\ InstallerEnds(FALSE) /\ UNCHANGED bounds
       \/ InstallerEnds(FALSE) /\ Fault
    /\ UNCHANGED <<lockVars, stateDir, jammed, binary, job, daemon>>

\* stop_daemon: the service manager ends the unit and forgets any restart of it,
\* or fails, which nobody is told.
StopDaemon ==
    /\ inst.pc = "stop"
    /\ inst' = [inst EXCEPT !.pc = "drain", !.stopped = TRUE]
    /\ \/ /\ wanted' = FALSE
          /\ daemon' = [daemon EXCEPT ![Unit] = NoDaemon]
          /\ UNCHANGED bounds
       \/ Fault /\ UNCHANGED <<wanted, daemon>>
    /\ UNCHANGED <<lockVars, stateDir, jammed, binary, job>>

\* drain_daemon: an answer on the default port within the ten seconds ends the
\* installation; a daemon too busy to answer is taken for none.
Drain ==
    /\ inst.pc = "drain"
    /\ \/ Installing([inst EXCEPT !.pc = "swap"])
       \/ Up # {} /\ InstallerEnds(TRUE)
    /\ UNCHANGED <<lockVars, stateDir, jammed, binary, job, daemon, bounds>>

Swap ==
    /\ inst.pc = "swap"
    /\ \/ /\ binary' = IF inst.file = "good" THEN inst.tag ELSE Bad
          /\ Installing([inst EXCEPT !.pc = "migrate"])
          /\ UNCHANGED bounds
       \/ InstallerEnds(TRUE) /\ Fault /\ UNCHANGED binary
    /\ UNCHANGED <<lockVars, stateDir, jammed, job, daemon>>

\* The new binary migrates, in a process of its own.
RunMigrate(r) ==
    /\ inst.pc = "migrate"
    /\ job[r].pc = "off"
    /\ Installing([inst EXCEPT !.pc = "wait", !.run = r])
    /\ job' = [job EXCEPT ![r] = [pc |-> "port", build |-> binary]]
    /\ UNCHANGED <<lockVars, stateDir, jammed, binary, daemon, bounds>>

\* Step 5: the unit is enabled and restarted, unless STEERHOLM_NO_SERVICE.
StartService ==
    /\ inst.pc = "start"
    /\ inst' = NoInstall
    /\ \/ wanted' = TRUE /\ daemon' = [daemon EXCEPT ![Unit] = NoDaemon]
       \/ UNCHANGED <<wanted, daemon>>
    /\ UNCHANGED <<lockVars, stateDir, jammed, binary, job, bounds>>
--------------------------------------------------------------------------------
(* `holm migrate`.                                                         *)

\* The process is over; the installer that waits for it goes on, or ends without
\* restarting the daemon (DAEMON_STOPPED=0).
JobEnds(r, ok) ==
    /\ job' = [job EXCEPT ![r] = NoJob]
    /\ IF inst.run # r THEN UNCHANGED <<inst, wanted>>
       ELSE IF ok THEN Installing([inst EXCEPT !.pc = "start", !.run = None])
       ELSE InstallerEnds(FALSE)

\* `holm migrate` by hand.
MigrateCmd(r) ==
    /\ job[r].pc = "off"
    /\ Command
    /\ job' = [job EXCEPT ![r] = [pc |-> "port", build |-> binary]]
    /\ UNCHANGED <<lockVars, stateDir, jammed, binary, inst, daemon, wanted>>

\* (mutant) `migrate` relies on the installer having stopped the daemon.
PortCheck_Never(r) ==
    /\ job[r].pc = "port"
    /\ job' = [job EXCEPT ![r].pc = "lock"]
    /\ UNCHANGED <<lockVars, stateDir, jammed, binary, inst, daemon, wanted, bounds>>

\* _port_in_use.  A daemon still starting does not hold the port yet: those of an
\* older build are noted as late.
PortCheck(r) ==
    /\ job[r].pc = "port"
    /\ \/ Up # {} /\ JobEnds(r, FALSE) /\ UNCHANGED daemon
       \/ /\ Up = {}
          /\ job' = [job EXCEPT ![r].pc = "lock"]
          /\ daemon' = [d \in Daemons |->
                [daemon[d] EXCEPT !.late = @ \/ (Starting(d) /\ daemon[d].build < job[r].build)]]
          /\ UNCHANGED <<inst, wanted>>
    /\ UNCHANGED <<lockVars, stateDir, jammed, binary, bounds>>

\* (mutant) The finally unlinks the lock of the run that refused this one.
TakeLock_Unlinks(r) ==
    /\ job[r].pc = "lock"
    /\ \/ Claim(r) \/ Read(r) \/ Probe(r) \/ Clear(r) \/ Reclaim(r) \/ WritePid(r)
       \/ at[r] = "found" /\ Go(r, "idle") /\ lock' = None /\ UNCHANGED <<owner, ghosts>>
    /\ IF at'[r] = "idle" THEN JobEnds(r, FALSE) ELSE UNCHANGED <<inst, job, wanted>>
    /\ UNCHANGED <<stateDir, jammed, binary, daemon, bounds>>

\* _exclusive, on the way in: a run that is refused is over.
TakeLock(r) ==
    /\ job[r].pc = "lock"
    /\ Claim(r) \/ Read(r) \/ Probe(r) \/ Clear(r) \/ Reclaim(r) \/ WritePid(r)
    /\ IF at'[r] = "idle" THEN JobEnds(r, FALSE) ELSE UNCHANGED <<inst, job, wanted>>
    /\ UNCHANGED <<stateDir, jammed, binary, daemon, bounds>>

\* What a run that stops in the middle of a swap may leave: a folder displaced,
\* and its place taken again by the next command to start (_ensure_dirs), or a name
\* the rollback could not put back.  The rename, or the refusal, then fails for
\* every run to come.
MayJam(stopped) ==
    \/ UNCHANGED jammed
    \/ mixed /\ (\E r \in stopped : at[r] = "in") /\ jammed' = TRUE

\* A step's files go in.
MigrateStep(r) ==
    /\ at[r] = "in"
    /\ version < job[r].build
    /\ ~ jammed
    /\ BeginSwap \/ CommitStep
    /\ UNCHANGED <<lockVars, jammed, binary, processes, bounds>>

\* run() ends: nothing left to do, a state newer than the build, a swap that is
\* jammed, a step that failed before its swap or in it and was put back or not, or
\* Ctrl-C, which puts nothing back.
MigrateEnds(r) ==
    /\ Has(r)
    /\ Release(r)
    /\ \/ at[r] = "in" /\ version = job[r].build
          /\ JobEnds(r, TRUE) /\ UNCHANGED <<stateDir, jammed, bounds>>
       \/ at[r] = "in" /\ (version > job[r].build \/ (version < job[r].build /\ jammed))
          /\ JobEnds(r, FALSE) /\ UNCHANGED <<stateDir, jammed, bounds>>
       \/ /\ at[r] = "claimed" \/ version < job[r].build
          /\ Fault /\ JobEnds(r, FALSE)
          /\ \/ at[r] = "in" /\ ~ jammed /\ UndoSwap /\ UNCHANGED jammed
             \/ UNCHANGED stateDir /\ MayJam({r})
    /\ UNCHANGED <<binary, daemon>>
--------------------------------------------------------------------------------
(* The daemons.                                                            *)

Become(d, pc) == daemon' = [daemon EXCEPT ![d].pc = pc] /\ UNCHANGED wanted

\* A process ends; the service manager starts its unit again only if it is to.
Exit(d, restart) ==
    /\ daemon' = [daemon EXCEPT ![d] = NoDaemon]
    /\ wanted' = IF d = Unit /\ ~ restart THEN FALSE ELSE wanted

\* The process starts with the binary of now.  One of an older build than a
\* migration that has already asked for the port is late as well.
Exec(d, default) ==
    /\ daemon[d].pc = "off"
    /\ daemon' = [daemon EXCEPT ![d] =
          [pc |-> "exec", build |-> binary, default |-> default,
           late |-> \E r \in Runs : job[r].pc = "lock" /\ binary < job[r].build]]

UnitStarts ==
    /\ wanted
    /\ Exec(Unit, TRUE)
    /\ UNCHANGED <<lockVars, stateDir, jammed, binary, inst, job, wanted, bounds>>

\* `holm serve [--port]` in a terminal.
ServeCmd ==
    /\ Command
    /\ \E default \in BOOLEAN : Exec(Hand, default)
    /\ UNCHANGED <<lockVars, stateDir, jammed, binary, inst, job, wanted>>

\* `holm start`: not exempt from the root callback's verify_schema.
StartCmd ==
    /\ Command
    /\ SchemaOk(binary)
    /\ wanted' = TRUE
    /\ UNCHANGED <<lockVars, stateDir, jammed, binary, inst, job, daemon>>

\* `holm stop`, or Ctrl-C.
StopCmd ==
    /\ Command
    /\ \E d \in Daemons : Exit(d, FALSE)
    /\ UNCHANGED <<lockVars, stateDir, jammed, binary, inst, job>>

\* (mutant) A refusal is an ordinary failure.
RootCheck_PlainExit(d) ==
    /\ daemon[d].pc = "exec"
    /\ IF SchemaOk(daemon[d].build) THEN Become(d, "serving") ELSE Exit(d, TRUE)
    /\ UNCHANGED <<lockVars, stateDir, jammed, binary, inst, job, bounds>>

\* The root callback: `serve` refuses with EX_CONFIG, on which the unit is not
\* restarted.
RootCheck(d) ==
    /\ daemon[d].pc = "exec"
    /\ IF SchemaOk(daemon[d].build) THEN Become(d, "serving") ELSE Exit(d, FALSE)
    /\ UNCHANGED <<lockVars, stateDir, jammed, binary, inst, job, bounds>>

\* SteerholmGateway.serve checks again, and its refusal is an ordinary failure.
ServeCheck(d) ==
    /\ daemon[d].pc = "serving"
    /\ IF SchemaOk(daemon[d].build) THEN Become(d, "binding") ELSE Exit(d, TRUE)
    /\ UNCHANGED <<lockVars, stateDir, jammed, binary, inst, job, bounds>>

\* The port is free, or the process ends.
Bind(d) ==
    /\ daemon[d].pc = "binding"
    /\ IF daemon[d].default /\ Up # {} THEN Exit(d, TRUE) ELSE Become(d, "up")
    /\ UNCHANGED <<lockVars, stateDir, jammed, binary, inst, job, bounds>>
--------------------------------------------------------------------------------
(* What goes wrong.                                                        *)

DaemonDies(d) ==
    /\ daemon[d].pc # "off"
    /\ Fault
    /\ Exit(d, TRUE)
    /\ UNCHANGED <<lockVars, stateDir, jammed, binary, inst, job>>

\* A `holm migrate` is killed: its lock and its half-done swap stay.
JobDies(r) ==
    /\ job[r].pc # "off"
    /\ Fault
    /\ Die({r})
    /\ MayJam({r})
    /\ JobEnds(r, FALSE)
    /\ UNCHANGED <<stateDir, binary, daemon>>

\* Ctrl-C ends the installer, by its trap, and the migration it runs.
Interrupt ==
    /\ inst.pc # "off"
    /\ Fault
    /\ InstallerEnds(TRUE)
    /\ IF inst.run = None THEN UNCHANGED <<job, lockVars, jammed>>
       ELSE /\ job' = [job EXCEPT ![inst.run] = NoJob]
            /\ Die({inst.run})
            /\ MayJam({inst.run})
    /\ UNCHANGED <<stateDir, binary, daemon>>

\* The installer alone is killed: no trap runs, and its migration goes on.
InstallerKilled ==
    /\ inst.pc # "off"
    /\ Fault
    /\ inst' = NoInstall
    /\ UNCHANGED <<lockVars, stateDir, jammed, binary, job, daemon, wanted>>

\* The power goes: nothing runs, and the enabled unit starts at the next login.
PowerCut ==
    /\ Fault
    /\ Die(Runs)
    /\ MayJam(Runs)
    /\ inst' = NoInstall
    /\ job' = [r \in Runs |-> NoJob]
    /\ daemon' = [d \in Daemons |-> NoDaemon]
    /\ wanted' = TRUE
    /\ UNCHANGED <<stateDir, binary>>

Installer == Download \/ Verify \/ StopDaemon \/ Drain \/ Swap \/ StartService
             \/ \E r \in Runs : RunMigrate(r)
Migrates(r) == PortCheck(r) \/ TakeLock(r) \/ MigrateStep(r) \/ MigrateEnds(r)
Serves(d) == RootCheck(d) \/ ServeCheck(d) \/ Bind(d)
User == (\E tag \in Builds : InstallTag(tag)) \/ ServeCmd \/ StartCmd \/ StopCmd
        \/ \E r \in Runs : MigrateCmd(r)
Trouble == Interrupt \/ InstallerKilled \/ PowerCut
           \/ (\E d \in Daemons : DaemonDies(d)) \/ \E r \in Runs : JobDies(r)

Next == Installer \/ UnitStarts \/ User \/ Trouble
        \/ \E r \in Runs : UpdateCmd(r) \/ Migrates(r)
        \/ \E d \in Daemons : Serves(d)

Spec == Init /\ [][Next]_vars

\* Processes go on; the unit is started when it is wanted; and whoever wanted the
\* update repeats `holm update`, with another pid from time to time.
FairSpec ==
    /\ Spec
    /\ WF_vars(Installer) /\ WF_vars(UnitStarts)
    /\ \A r \in Runs : WF_vars(Migrates(r)) /\ SF_vars(UpdateCmd(r))
    /\ \A d \in Daemons : WF_vars(Serves(d))
--------------------------------------------------------------------------------
(* Correctness.                                                            *)

\* Type correctness; a binary that is in Builds was verified before it went in
\* ("exactly when the installer must not run unverified", updater.py:242-243).
TypeOK ==
    /\ LockTypeOK
    /\ version \in Nat /\ mixed \in BOOLEAN /\ jammed \in BOOLEAN
    /\ binary \in Builds
    /\ inst \in Install
    /\ job \in [Runs -> Job]
    /\ daemon \in [Daemons -> Daemon]
    /\ wanted \in BOOLEAN
    /\ commands \in 0 .. MaxCommands /\ faults \in 0 .. MaxFaults

\* "guessing 'down' means moving config.json out from under a live daemon"
\* (main.py:621-622): whoever answers on the default port serves a state of its
\* own schema, and the newest build a whole one; unless it was on its way up,
\* unseen, when a newer build's migration asked for the port.
ServesItsSchema ==
    \A d \in Up : ~ daemon[d].late =>
        version = daemon[d].build /\ (daemon[d].build = Newest => ~ mixed)

\* "this would loop every few seconds" (main.py:585-587, entry_holmd.py:43-46):
\* a unit that cannot serve the state is not started over and over.  One whose
\* port is taken is.
NoRestartLoop ==
    <>[](daemon[Unit].pc # "exec") \/ []<>(daemon[Hand].pc = "up" /\ daemon[Hand].default)

\* "re-running `holm update` is the obvious thing to try" (main.py:48-51): an
\* update that was interrupted anywhere is finished by it, unless the default port
\* is held for good, by a daemon somebody runs by hand or by a unit of the older
\* build that could not be stopped or was started again behind the installer's
\* back; the interruption jammed the swap; or the lock was left without a pid.
UpdateFinishes ==
    \/ <>[](binary = Newest /\ version = Newest /\ ~ mixed)
    \/ <>[](\E d \in Up : d = Hand \/ daemon[d].build < Newest)
    \/ <>[]jammed
    \/ <>[](lock # None /\ ~ lock.pid)
================================================================================
