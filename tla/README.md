# Steerholm in TLA+

Steerholm is a local gateway between agents and MCP servers. A daemon (`holmd`)
keeps one connection per configured server and shares it among the agents that
call tools through it; a command line (`holm`) edits the configuration and the
agents' policies, migrates the state directory when its schema changes, and
tells the daemon over HTTP that something changed. This directory holds TLA+
models of that program, the TLC configurations that check them, and theorems
checked by TLAPS. All paths below are relative to `src/steerholm/` unless they
start with `docs/`, `tests/` or `src/`.

```
tlc -workers 2 -config ServerLifecycle_safety.cfg MCServerLifecycle.tla
tlc -workers 2 -config Migration_faults.cfg MCMigration.tla
tlc -workers 2 -config Update_interrupted.cfg MCUpdate.tla
tlc -workers 2 -config GrantMigration_policies.cfg MCGrantMigration.tla
tlc -workers 2 -config Gateway_calls.cfg MCGateway.tla
tlc -workers 2 -config AuditLog_follow.cfg MCAuditLog.tla
tlapm ServerLifecycle_proofs.tla
tlapm ServerPromises_proofs.tla
tlapm Migration_proofs.tla
tlapm MigrationLock_proofs.tla
tlapm Update_proofs.tla
tlapm Gateway_proofs.tla
tlapm AuditLog_proofs.tla
tlapm GrantMigration_proofs.tla
```

## 1. Inventory

| Component | Source | State | Operations |
|---|---|---|---|
| Server processes | `process_manager.py` | session, task, `_stop` and `_ready` events, session lock | start, stop, call, list, run (the connection task) |
| Reconciliation | `gateway.py:356-560`, `serve` | `shared_processes`, `server_health`, `_reconcile_lock`, background tasks | reconcile, supervise, health check, control plane, status, shutdown |
| Tool calls | `gateway.py:60-355` | session table, `_auth_cache` | authenticate, list tools, find the tool's server, check, call, record |
| Permission patterns | `permissions.py` | none | first match of tool patterns, glob matching, grants on resources |
| Configuration store | `config.py`, `models.py`, `files.py` | `config.json`, `policies/<agent id>.json`, control token | add, remove, rotate, grant, revoke, atomic write |
| State directory at start-up | `config.py` | folders, `migrations/version` | make folders, stamp a new state, refuse a wrong version |
| Schema migration | `migrations/__init__.py` | staging, scratch and backup folders, marker, lock file | resume, apply steps, swap, roll back, refuse, clean up |
| Migration steps | `migrations/m0001*`, `m0002*`, `store.py` | the copy of one state directory | convert and import |
| Audit log files | `events.py` | segment files, `_current`, the retention settings | append, roll, prune, repair a torn line, resume |
| Audit log reader | `main.py:988-1174` | the file open, the position in it | print the history, follow |
| Command line | the rest of `main.py` | none of its own | refuse a wrong schema, update, migrate, serve, start, stop; arguments, output, the calls into the store and the control plane |
| Updater and installers | `updater.py`, `src/scripts` | an executable, the service's unit | download, verify, stop, drain, replace, migrate, start; undo on exit |
| Entry points, environment, errors | `entry_*.py`, `childenv.py`, `errors.py` | none | start a process; make an error |

How they interact. `holm` and `holmd` are two processes that share only the
state directory: each command replaces files, then posts to the control plane;
the post may be lost. The daemon rereads `config.json` when a request is
authenticated, when the control plane is called and every time its supervisor
wakes. Inside the daemon there is one thread: tasks interleave at `await`, and
`_reconcile_lock` serialises everything that starts or stops servers. A tool
call takes no lock but the session lock of one process. Every `ServerProcess`
runs its connection in a task of its own, which `start()` and `stop()` follow
through events and time-outs. The daemon appends every call to the audit log;
`holm log` reads the same files with nothing to tell it when they change. An
update runs the installer in one process and the new build's `holm migrate` in
another; what keeps them from a daemon is that the service manager has stopped
it, that the default port is free, and that every process compares the schema
marker with its own build before it serves. What keeps two migrations apart is a
lock file.

What is hard, and what makes each part correct:

- **Server processes and reconciliation.** A start that times out, fails or is
  cancelled; the supervisor, which looks without the lock and acts under it; a
  shutdown that cancels any task at any `await`. Correct: no connection is
  leaked, none is doubled, the status reported is true, a reconcile applies what
  it planned, every change is applied in the end even when its announcement is
  lost, the shutdown ends.
- **Schema migration.** A kill between any two file-system calls, a call that
  fails in the swap and then in the rollback, and the commands that run before
  the retry. Correct: the marker never runs ahead of the data, no step sees its
  own output, nothing is lost without a word, retrying succeeds, two migrations
  do not run at once.
- **Migration steps.** The file system decides what a policy file is called, a
  step may be handed its own output, and the keyring may be locked. Correct: no
  agent gets another's grants, none loses its own, nothing unconverted looks
  converted.
- **Update.** The binary, the state and the daemon change one after the other, in
  three processes, any of which may die. Correct: no daemon serves a state of
  another schema, a refusal does not become a restart loop, repeating the update
  finishes it.
- **Tool calls.** Every step reads something that may have changed since the
  previous one: a cached key, the policy, the names, the processes, the
  configuration the audit record is written from. Correct: a key is worth what
  `config.json` says now, a call is allowed only by a grant on that very server,
  an outage is not reported as a denial, every call leaves a record that names
  the right ids.
- **Configuration store.** Removals write two files. Correct: the policies of the agents there
  are say what was granted to them, whatever a removal left on the disk.
- **Audit log.** Rolling, pruning and reading at one time, torn lines. Correct:
  no record is swallowed by another, a reader sees each record once and in order.
- **Permission patterns.** First match wins; the translation of globs at its
  edges. Correct: a pattern without `**` stays at its depth, and no value leads
  out of the folder its pattern names.

`PROJECT.json` lists the components with what is modelled of each, and the
hazards, line by line, with the properties that cover them.

## 2. Modules

| Module | Models | Abstract specification |
|---|---|---|
| `ServerLifecycle` | server processes, reconciliation, supervisor, shutdown | `ServerSlots` |
| `ServerSlots` | what the daemon promises about each server | |
| `Migration` | the engine, the start-up of the state directory, faults | `StateDir` |
| `StateDir` | what a migration run promises of the directory | |
| `MigrationLock` | the lock file between migrations | |
| `Update` | updater, installer, `holm migrate`, daemons, service manager; extends `MigrationLock` and `StateDir` | `MigrationLock!LockSpec` |
| `Permissions` | the permission engine and its globs | |
| `GrantMigration` | the two migration steps and the decisions after them; extends `Permissions` | |
| `Gateway` | authentication, policy, routing, check and record of a call; the store's commands | |
| `AuditLog` | the daemon's log files and `holm log --follow` | |
| `ServerLifecycle_proofs` | theorems about `ServerLifecycle`: what is never leaked or doubled | |
| `ServerPromises_proofs` | what it promises of the status, of a reconcile and of each server; extends `ServerLifecycle_proofs` | |
| `Migration_proofs` | theorems about `Migration`, and that it implements `StateDir` | |
| `MigrationLock_proofs`, `Update_proofs` | theorems about `MigrationLock` and `Update` | |
| `Gateway_proofs`, `AuditLog_proofs` | theorems about `Gateway` and `AuditLog` | |
| `GrantMigration_proofs` | theorems about `GrantMigration` and the globs of `Permissions` | |
| `MC...` | symmetry sets, and the states and calls of `GrantMigration`; constants are given in the `.cfg` files | |

The migration is modelled at three depths that meet at `StateDir`. `Migration` has
every file-system call and shows that, seen from outside, the directory only does
what `StateDir` allows. `Update` runs those three `StateDir` actions, under the
lock, among processes that start, serve and die. `GrantMigration` has the content
that `Migration` represents by a number: what a step writes, when the engine does to
it any of the things `Migration` shows it can do.

### ServerLifecycle

State. `disk` is the set of entries in `config.json` (or `Broken`), `mem` the
daemon's copy. `proc` holds the `ServerProcess` objects: name, spec, phase of
the connection task (`opening`, `up`, `broken`, `dying`, ended) and whether its
`_stop` event is set. `table` is `shared_processes`, `health` is
`server_health`, `lock` is `_reconcile_lock`. `pc` and `job` hold where each
task is and the local variables of its reconcile; `probe` those of the health
check.

Atomicity is asyncio's: a task between two awaits is in `run` or `probe`, and
every other action requires `Settled`. Each remaining `pc` is an `await` of the
code:

| `pc` | await |
|---|---|
| `queued`, `wait` | entering `async with self._reconcile_lock` |
| `stopping`, `killing` | the two waits of `stop()`: ten seconds, then the cancelled task |
| `starting` | `start()` waiting for ready, failure or the connect time-out |
| `aborting`, `abortkill` | the `stop()` a failed or cancelled start makes |
| `probing` | `list_tools` with its time-out |
| `sleep` | the supervisor's sleep |

`Acquire` takes the lock and makes the whole plan (`PlanStop`, `PlanStart`, as
`_reconcile_plan`); `StopAtOnce`, `StopBegin`, `StopKill` and `StopEnd` are
`stop()`; `StartBegin`, `StartSucceeds`, `StartFails` and `StartTimesOut` are
`start()` with what the reconcile does with each outcome; `Finish` gives the lock
back. `Wake`, `ProbeNext`, `ProbeAnswers`, `ProbeFails`, `ProbesOver` and
`AcquireToDrop` are the supervisor; `ControlReconcile` is the control plane's
reload and background task. `Shutdown` and `Cancel` are `serve()`'s `finally`:
`Cancel` delivers a cancellation at whichever await the task is in, including
the last wait of `stop()`, where the code suppresses it. `Opened`, `OpenFails`,
`Lost` and `Unwind` are the connection task and the server on its other end.

Two entries of `config.json` are one spec when the code's comparison finds them
equal. Left out: the cached tool list, uptimes, logging. The lock is given to
any waiter, not to the first: more behaviours than asyncio's, for safety.

### Migration

State. `live` maps each migrated name to its content; the content is the schema
version it is in, or `Empty` for a folder with nothing in it, or `Bad` for what
a step makes of something it was not written for. `area` is the backup, and per
step the staging and scratch folders, each with its own marker. `pc` and `run`
are the position and the local variables of the run. Every action makes at most
one call that changes the disk, so `Crash` falls between any two of them, and
the actions named `...Fails` are the same calls raising `OSError`. `Import`
starts every attempt the way every `holm` command starts: missing folders are
made and a state that looks new is stamped. `UserRestores` is the manual step
that the refusal asks for.

`stranded` and `had` are history: what an error message has said is
only in the backup, and the names the state started with. The
deletion of a live folder during a rollback is one step; the deletion of a
working folder is entry by entry. Process crashes only: what was renamed stays
renamed. One run at a time, which is `MigrationLock`'s to see to.

The module assumes what the code has: at least one step, and one folder among the
names (`OneFolder`, `migrations/__init__.py:90`). With two folders the engine would
not keep its promise: a rollback of a swap that was resumed puts back only what the
resumed run moved, and a folder an earlier run had put in would stay live while the
staging copy goes.

`OneFault` names what the engine promises against: one crash or one failing call.
`NoSilentLoss` goes further, to several faults of one kind, runs that die or calls
that fail, since the rollback reports what it could not put back. Of deaths and
failing calls mixed the code promises nothing, and neither does the model.

### MigrationLock and Update

State. `lock` is `.migrating.lock`: who made it and whether the pid is in it yet.
`at` is where a run is inside `_exclusive`, and a run's name is its pid, so a pid
can be reused. `version` and `mixed` are `StateDir`'s. `binary` is
`~/.local/bin/holm`; a build is represented by the schema it understands. `inst`
is the one installer, with `DAEMON_STOPPED` (`stopped`) and the archive (`file`);
`job` the `holm migrate` processes; `daemon` the service manager's (`Unit`) and one
started by hand (`Hand`); `wanted` is what systemd would do when the unit's process
is gone.

| Actions | Code |
|---|---|
| `Claim`, `Read`, `Clear`, `Reclaim`, `WritePid`, `Release` | `_exclusive`, one call on the file each |
| `Probe` | `os.kill(pid, 0)` in `_owner_is_gone`, with the pid read before |
| `Download`, `Verify` | `updater.py` for the installer, `install.sh` for the archive |
| `StopDaemon`, `Drain`, `Swap`, `RunMigrate`, `StartService` | the installer's steps 3 to 5 |
| `InstallerEnds` | the EXIT trap: the daemon it stopped is started again |
| `UpdateCmd`, `MigrateCmd`, `StartCmd`, `ServeCmd`, `StopCmd` | the commands |
| `PortCheck`, `TakeLock`, `MigrateStep`, `MigrateEnds` | `migrate`, `run` |
| `Exec`, `RootCheck`, `ServeCheck`, `Bind` | a daemon from its start to the open port: the schema is read twice, the port taken last |
| `DaemonDies`, `JobDies`, `Interrupt`, `InstallerKilled`, `PowerCut` | faults |

`late`, `seen` and `robbed` are history and name what the code does not exclude. A
daemon is `late` when it was on its way up, not yet holding the port, while a newer
build's migration asked for it (`main.py:702`; a bind that `serve` makes to test the
port at `gateway.py:643` is released before uvicorn makes its own). `seen` is who has read
the pid of the very file that is there now. A run that unlinks the lock without being one of them
robs whoever has it by then (`robbed`), and both migrate: the reading of the pid
(`migrations/__init__.py:131`), its probe (140) and the unlink (170) are three calls, and the
lock may change hands between any two. It takes no crash: the owner finishes and another run
claims the lock in between. Or two runs judge one leftover lock, and the slower removes the
faster one's new one. A run that was robbed may rob the next when it ends, since the last
`unlink` (188) does not ask whose file it is. `Exclusive` says that there is no other way: two runs
that were not robbed are never in at once. Without the exception it fails in a few steps.

`jammed` says that no run can finish the swap that is half done. `Migration` shows how: killed
between the two renames of `policies/`, a run leaves none; the retry, like every command, makes
an empty one first (`config.py:289`), which the resumed swap cannot rename over the backup's
full one (`migrations/__init__.py:462`). Or a rollback could not put a name back, and
`_refuse_if_stranded` refuses every run. `MayJam` lets any interruption of a half-done
swap do this.

What the model also shows, without a property to fail: a `holm serve --port` is not
seen by the port check, which asks for the default port only; a lock whose maker
died before it wrote its pid is refused for ever, and by hand is the only way on;
and a build that is put back after a newer one left a swap half-way serves files
of two schemas, since only the marker is compared.

Linux with systemd is modelled. launchd (`KeepAlive`) restarts after EX_CONFIG too,
and on Windows the daemon is `entry_holmd.py`, which gives EX_CONFIG for the second
check as well. Left out: `--check`, `--force`, names of assets, a second
installer at once, the old updater that `install.sh` ends.

### Permissions and GrantMigration

`Permissions` has no state. A pattern or a value is a sequence of characters.
`Glob` is `_glob_regex`: the sequence of what each piece may match, `One` character
of a set or `Many`; `Matches` is the anchored match. `HasDotDot`, `ClassEnd` and
`CheckPermission` are the functions of those names. A tool name pattern is the set of
tools it matches, a regex the set of values. Left out: ranges in a class, and
that Windows ignores case.

`GrantMigration` starts from a `world`, a 0.1.x state: agents, servers, policy
files by stem with the owner written in them. `live`, `staged` and `marker` are the
state directory, the copy a step works on (`NoCopy` when there is none), and the version. `StartRekey` and
`RekeyPolicy` are m0001, one policy file a step and in any order (the code sorts
them); `CarryHashes` is m0002. `SwapIn`, `SwapInPart` and `Crash` are what the engine
does with the copy: a part of it may come to be live before the step is run again,
which takes two faults in `Migration`. `Ask` is one call, decided as the gateway
decides it, from the key to the glob; deciding changes nothing, so one call is
enough.

An agent that 0.1.x had named like an id (`agt_` and sixteen digits) is not among
the worlds. Files that removed agents left are, also under another form of a present
agent's name. Two files may then be taken for one agent, and the later of them in sorted
order overwrites the other; so `StillGranted` is about an agent that has one file
(`OnlyFileOf`). The refusal of the `identities` key is left out.

### Gateway

State. `config` and `policies` are the files; `holm` is what a running command
has still to write; `mem` is the daemon's copy; `cache` is `_auth_cache`;
`table` is the id each running process was started with; `call` holds the
local variables of each tool call. Ids and keys are minted once and names are
reused: what a removed agent's name means later is the point of the model. A
bcrypt hash is represented by its key. What a policy says to a call is reduced to
one value here; `Permissions` computes it.

`Authenticate` and `Unauthorized` are the request's middleware (reload, cache,
search, least-recently-used eviction; any entry may be the oldest). `Load` and `Resolve` are
the two readings of the agent's policy (`gateway.py:295` and 264): no other task of the daemon
runs between them (`AtAwait`), but a `holm` command in its own process may write in between.
`ListAnswers`, `ListFails` and `Found` are `_call_tool_for_agent` and
`_resolve_tool_server` between their awaits; `Send` and `CallOver` the call
under the process's session lock; `Recorded` is the `finally` that writes the
audit record. The `holm` commands are an action each, with the removals' later
writes in `CutPolicy`, where an agent's file may stay because the failing `unlink` is
passed over (`config.py:557-560`); `HolmDies` kills a command between two writes, or a policy
cannot be rewritten, and `HandEdit` leaves a file that does not load.

`given`, and in a call `granted`, `answered`, `silent`, `sid` and `ran`, are history. `given` is
what was granted to each agent id on each server id and neither revoked nor removed since;
`granted` is what the files have granted, since the call began, to the id that
authenticated; `ran` is the id of the server whose process ran the call, which is not the id that was
checked when the name has changed hands.

A grant is reduced to what it says to the one tool called: `none`, `other` (the
server is listed, the tool is not allowed) or `match`. `ServerUp` and
`ServerDown` stand for everything `ServerLifecycle` does to a process. One
`holm` command runs at a time. Left out: sessions, `list_tools`, agents of old
state directories without an id, policy files that do not parse, `modify_server`.

### AuditLog

State. `dir` maps the ordinals to files and `data` a file to its content, which
a reader that has the file open can read after it was unlinked. The content is a
sequence of records, torn beginnings of records and the newlines that close
those; a record that follows a torn beginning on its line is unreadable
(`Whole`). `writer` is the `EventLog`: `cur` is `_current`, `None` when the
directory could not be listed; `doomed` is `_prune`'s list. `reader` holds the
local variables of `_read_event_history` and `_tail_event_log`.

`Record` is `record()` up to the `open` that creates a segment, `Write` the write
and `WriteFails` the same write failing; `Recover` is the resume and repair of
the `except` clause and of the constructor. `Prune` makes the list of segments to
delete and `Unlink` deletes one, so the follower runs between any two. `Configure`
is the reconcile's call with other settings, `GrowOld` the clock, `Stop` the end
or death of the daemon and `Start` its next start. `Follow` and `ReadHistory` are
the history, one segment a step; `List`, `Attach`, `Read` and `Stat` are one round
of the tail, which goes by the listing made at its top.

The size limit is counted in records. A line half written and then finished is,
to a reader, one not yet written. Left out: the in-memory ring, the windows
`_newest_event_time` reads in, a clock that steps back (records are made in the
order of their time stamps), filters and the number of lines to print.

`blind` and `trouble` are history, and excuse by name what the code does not do:

- The follower has lost its place (`blind`, and for good): the history passed a segment that
  was there and could not be read; the tail began at the end of a file, for want of a
  position; the segment it was to go on with had gone; or the file it had open was
  replaced or pruned and it took the newest. In the last two it goes on past any segments
  in between (`main.py:1129`), although the comment at `main.py:1154-1156` expects it to work
  "even if `current` has since been pruned". A segment of the history that was pruned before
  its turn is passed as the code passes it and is not an excuse. `NothingSkipped` and `CatchesUp` say
  nothing of a blind follower.
- `"number"`: when retention has deleted every segment, a restarted
  daemon counts from 1 again, and a position or an ordinal the follower has kept
  is that of another file.
- `"unlink"`: a segment that could not be deleted outlives a newer one, and a
  follower that reopens may print it again.
- `"repair"`: while the disk stays full the torn line cannot be closed, and the
  next record fuses onto it.

## 3. What the runs check

Passing runs:

| Run | Instance | Shows |
|---|---|---|
| `servers_safety` | 2 servers, 2 specs, 4 process objects, supervisor and 1 background task, 1 configuration change, 1 fault | `NoOrphan`, `OneInstance`, `StatusTruthful`, `ReconcileApplies`, and that the daemon implements `ServerSlots` (`SlotsSpec`) |
| `servers_live` | 1 server, 2 specs, otherwise the same | `ConfigApplied`, `ReconcileEnds`, `ShutdownEnds` |
| `migration_faults` | `config.json` and `policies/`, two steps, a new state or a full one at each version, with and without an old backup, 1 crash, or 2 failing calls, or both of one | `MarkerNotAhead`, `NeverItsOwnOutput`, `NoSilentLoss`, `NothingLost`, `CleanEnd`, that the engine implements `StateDir` (`StepsAsPromised`), and `MigratesOrJams` |
| `update` | schemas 1 and 3, 3 migration processes, 2 daemons, 1 command of the user's own beside the update, 2 faults | `Exclusive`, `ServesItsSchema`, `NoRestartLoop`, `UpdateFinishes`; `TypeOK` says that only a verified binary is installed |
| `policies` | names that differ in case or in their canonical form, 0 to 3 agents with and without files, files of removed agents, a torn file, a locked keyring, 1 half swap; every glob of up to three pieces and some longer, on both kinds of separator, against every path of up to four characters and some longer | `NoTransferAmongAgents`, `StillGranted`, `NoneLooksCurrent`, `KeepsToItsLevel`, `StaysUnder` |
| `gateway_calls` | 1 agent name, 2 agent ids, 2 keys, 2 servers, 2 server ids, 1 call, a cache of 1, 3 edits | `OnlyWhatIsGranted`, `OutageIsNotDenial`, `GrantsAsGiven`, `AuthenticatesTheHolder` |
| `log_follow` | 3 records, segments of 2, keeping 2 segments or 1 and an age limit, 1 failing call or kill, any number of restarts, 1 follower | `LogInOrder`, `NothingFused`, `PrunesByTheLimits`, and for the follower `ShownOnce`, `NothingSkipped`, `CatchesUp` |

Runs that end in a counterexample, each a place where the code does not do what
its documentation says (`findings` in `PROJECT.json` quotes the lines):

| Run | Property | What happens |
|---|---|---|
| `servers_drop` | `DropsOnlyTheProbed` | The supervisor keeps a broken server's name while it waits for the lock. A reconcile restarts that server; then the supervisor stops the healthy process. |
| `migration_stamped` | `NoSilentLoss` | A state with only `config.json`, killed between its two renames, looks new: it is stamped current and the converted copy is discarded. |
| `keyring` | `PickedUpLater` | Migrated with a locked keyring: the warning says to unlock it and run `holm migrate` again, which takes no step at schema 2. The agents skipped have to be rotated. |
| `gateway_recorded` | `EveryCallRecorded` | While a server runs a call, `config.json` stops loading. The record looks the agent up and raises: no record, and an error for a call that succeeded. |
| `log_first` | `FollowsFromTheFirst` | A follower started before there is a log takes the absence of a position for an unreadable file and begins at the end of the first segment: the first decision is never printed. |

Others have no run of their own. Killed between the two renames of `policies/`, a
migration leaves no `policies/`; the retry, like every command, first makes an empty
one, which the resumed swap can never rename over the backup's full one: the
disjunct `Jammed` of `MigratesOrJams`, without which that property fails. After
two failing calls, one of them in the rollback, `policies/` is only in the backup;
the next command makes an empty one, `_refuse_if_stranded` sees nothing missing and
the run clears the backup (`migrations/__init__.py:303`): `NothingLost` fails
without its `OneFault`. The race for a lock is in section 2. When step 2 of a two-step
migration fails, the retry starts at step 2 and replaces the backup of the original files by the intermediate
state (`migrations/__init__.py:378`; the comment at 375-377 says it replaces only
what "belongs to a run that finished"). And an agent that is removed and added
again under its name during one of its calls is recorded with the new id, since the
record looks the name up at the end (`gateway.py:353`).

A policy file under a present agent's name may have been written by an agent that is gone. m0001
sets it aside only if both names are real (`m0001_id_keyed_grants.py:155-160`); otherwise the
agent the file is named after gets its grants, where `docs/reference/policy-format.mdx:110-112` says
that a file "whose file and contents name different agents" is "moved to
`policies/unmigrated/` rather than guessed at". The same happens when the writer's name is
a canonical form of two agents', and when it is one of the file's own agent's, since the
name in a document is looked up in its other forms too (157). So `NoTransferAmongAgents` claims no more than
the code does: nobody gets what was written for another agent there still is (`MeantBy`).
The worlds of the run include such files; without its last disjunct the property fails.

A call that is under way when its agent or its server is removed may be decided for the
namesake that is added meanwhile. The process is looked up by name (`gateway.py:309`) and the
id that is checked is the one the configuration has under that name then (314-315): while a
new server's grant is checked, the process of the old one may still be running, and it runs the
call. It takes three edits, a removal, an addition and a grant. `OnlyWhatIsGranted` therefore
speaks of agents and servers that are still in `config.json`: for those, the process that
ran the call is of a server granted to the agent that authenticated.

A removal that is killed, or whose `unlink` fails unnoticed (`config.py:557-560`), leaves a policy on
the disk, where `docs/reference/policy-format.mdx:80` says "Removing an agent deletes its policy
file". No property says that the file goes, since it need not. What the code does ensure is that the
leftovers attach to nobody: they are keyed by ids that are not given again
(`GrantsAsGiven`).

The clean-up after a migration tries each working directory once and ignores errors
(`migrations/__init__.py:259-267`): one that cannot be removed stays, with the secrets of the
configuration in it, and the run reports success. `CleanEnd` excepts a directory whose removal was
the call that failed.

Why the bounds are enough. A reconcile's interaction with another task is over
one name, and two names with two specs let one be restarted while another is
added or removed; four process objects are one old and one new per name. One
configuration change and one fault already reach restarts during restarts,
because a start may also time out, fail or be cancelled without spending the
bound. In `Migration` two steps are what the code has; a file and a folder are
the two kinds of name the swap treats differently, taken in the code's order.
Every single fault is tried at every call, and every pair. `OneFault`
is not a convenience: without it `MarkerNotAhead`, `NeverItsOwnOutput`,
`NothingLost` and `CleanEnd` fail, on paths like those of the findings, and the
code claims no more than one. In `Update` two steps lie between the schemas, so a
migration can die with one of them in; three migration processes are a holder, a
run that reads its pid and one that comes in between; the second daemon is
the one no service manager stops; two faults are an update that is interrupted and
an interrupted second attempt. In `GrantMigration` two names that are one file are
the whole of the ambiguity a file system adds, and three characters, a letter, the
separator and the dot, are what the glob tells apart; a dot twice between
separators takes four of them. In `Gateway` reuse takes two ids for one name, and three edits
are a removal, an addition and a grant; two servers make one answer while the
other is down. With one agent name the uniqueness of keys across agents is an
assumption of `Init` kept by `AddAgent`, and not exercised. Symmetry is used in
the safety runs only, over sets whose members the specification treats alike.

In `AuditLog` three records in segments of two give a roll by size, one by age, and
a torn line with a record after it; either retention setting may replace the
other while the follower reads. Four records with one fault and three with two
were also explored without a violation of the safety properties.

Deadlock is checked in `ServerLifecycle`, `Gateway` and `AuditLog`; in `ServerLifecycle` the
daemon that has exited is the one state that may stutter (`Terminated`). The
`Migration`, `Update` and `GrantMigration` configurations set `CHECK_DEADLOCK
FALSE`: a migrated state directory, or a machine whose user gives no more commands,
has nothing left to do.

### Fairness

`ServerLifecycle!Fairness`: the event loop returns to every task that can go on,
and timers fire: the ten seconds of `stop()`, the connect time-out, the probe's,
the supervisor's interval. It is strong fairness because a task is enabled only
while none is between two awaits, and because `asyncio.Lock` serves its waiters
in turn. A cancelled connection task unwinds. Nothing is assumed of the servers: a
handshake may hang for ever, a server may ignore everything but the
cancellation. Nothing is assumed of the control plane: `Reload`,
`ControlReconcile` and `Edit` are not fair, so `ConfigApplied` rests on the
supervisor alone. It asks that a server be up or on its way up again and again, so a start that
failed is tried again, however often it fails.

`ShutdownEnds` excepts one behaviour by name, `Swallowed`. The last wait of
`stop()` suppresses `CancelledError` (`process_manager.py:134-135`), so a
supervisor cancelled there carries on, and `serve()` (`gateway.py:669-675`)
waits for a task that does not end.

`Migration!FairSpec`: a run that started goes on, a run that failed or died is
tried again, and a user who is told to restore does so. The tries are the user's,
and the property says what they lead to, not that they happen.

`Update!FairSpec`: a process that runs goes on, and systemd starts a unit that is
wanted (weak fairness of `Installer`, `Migrates(r)`, `Serves(d)`, `UnitStarts`).
`UpdateCmd` is strongly fair: whoever wanted the update repeats it, as the root callback's
comment expects (`main.py:48-51`). Nothing is asked of the other commands or of
faults. `UpdateFinishes` excepts by name: a daemon that holds the default port for good, one run
by hand or a unit of the older build that was not stopped (`systemctl stop ... || true`,
`install.sh:193`) or was started again behind the installer's back; a swap that an
interruption has jammed; and a lock left without a pid, which every later run takes for held.
`NoRestartLoop` excepts a port that another daemon holds again and again, where the unit does restart.

`AuditLog!FairSpec`: the follower polls. Nothing is asked of the daemon, which may
stop in the middle of anything.

## 4. Theorems

`ServerLifecycle_proofs.tla` proves, for all sets of names, specs, process
objects and background tasks and all bounds:

- `TypeCorrect`: `Spec => []TypeOK`;
- `NothingLeaked`: `Spec => []NoOrphan`;
- `NeverTwice`: `Spec => []OneInstance`.

They assume only the named `ASSUME`s of `ServerLifecycle`: the supervisor is not
a background task, `None` and `Broken` are not values of anything else, the
bounds are natural numbers.

Neither of the two safety properties is inductive. `NoOrphan` mentions the holder
of the lock, so one has to know who holds it (`LockHeld`: exactly the task that is
inside a reconcile). A stop removes the table's entry when the process is over,
so the process waited for must still be the one registered (`Waits`), under its
own name (`Registered`); a start registers what it created, so nothing else may
have been registered meanwhile (`Waits` again: the table has no entry while a
start is pending). `Planned` says that what is still to be started has an entry
in the configuration planned from: it types the new process. `Probing` types the
supervisor's probe. `OneInstance` needs `Accounted`: a process that is not over,
told to stop or not, is registered or is being started by some task. Two
processes of one name are then two entries of one table, or an entry and a start,
which `Waits` excludes, or two starts, which `LockHeld` excludes.

`Inv` is the conjunction. Types come first (`NextTypeOK`, one step per action).
Then steps are grouped by what they disturb: `Frame` for those that take no
task into a reconcile or out of one and start no process, `EnterInv` and `LeaveInv` for taking
and giving back the lock, `InsideInv` for a step of the holder, `ReconcileInv`
and `CancelInv` for the reconcile's actions and the cancellations, one step per
action and under it one per conjunct it can break. `NextInv` puts them together
and `Invariance` lifts it to the specification.

`ServerPromises_proofs.tla` goes on from `Inv`, for the same constants and from the
same assumptions:

- `StatusIsTruthful`: `Spec => []StatusTruthful`;
- `ReconcileAppliesItsPlan`: `Spec => ReconcileApplies`, an action property;
- `ImplementsSlots`: `Spec => SlotsSpec`, the refinement of `ServerSlots`.

What they need beside `Inv` is `Promises`. The health map is a dictionary written in
several places of `reconcile_servers`, and a status is right only if "starting" stands in
it for exactly the names being started (`StartingTold`), however the start ends or is
cancelled. A registered process is past its handshake (`RegisteredOpen`). And a
reconcile works from lists it made once, while servers break and start or stop under it:
`Applying` says that at every await each name is as the plan wants it, failed, ended
since, or still on one of the lists (`Sorted`), and that the process being started has
the spec the plan wants. `ReconcileApplies` is that with the lists empty. Under the mapping, a
slot's connection is the process that is registered or being started; `Inv` has that
there is one of them. Each action is then a step of a slot or a stutter.

`Migration_proofs.tla` proves, for every set of names with one folder, every set of
states to start from, any number of steps and all bounds:

- `TypeCorrect`: `Spec => []TypeOK`;
- `MarkerIsNeverAhead`, `StepsSeeOneVersion`, `NoNameIsLost` and `SuccessIsClean`:
  `Spec => []P` for `MarkerNotAhead`, `NeverItsOwnOutput`, `NothingLost`, `CleanEnd`;
- `ImplementsStateDir`: `Spec => StepsAsPromised`, the refinement of `StateDir`, for
  states that do not have exactly one name. For one name it is false, and the run
  `migration_stamped` shows why: a crash between that name's two renames leaves a
  state that looks new, and a stamp is a change of version `StateDir` does not have;
- `NothingIsLostSilently`: `Spec => []NoSilentLoss`, for any number of deaths or any
  number of failing calls. It takes a state that is empty or has both a file and
  the folder: `migration_stamped` shows it false for one file alone.

But for the first none of these is inductive, and no simple strengthening is: the disk a run finds
after a crash is whatever some earlier call left. `IInv` is `Typed`, `Tried` and, while there is
at most one fault, `Core`, which describes the disk at each stage of a run:

- Where a name is in a swap. `Old`: not displaced yet, its new content in staging.
  `Out`: displaced, its new content still in staging. `In`: its new content live and the old
  one displaced. A swap that stopped (`Interrupted`) has every name at one of these,
  relative to the directory a resumed run will choose for what it displaces
  (`Displaced`), at most one of them out, and names before folders.
- `SwapShape` is the same for a swap under way, with what its local variables know.
  A swap that was resumed after the one fault can fail once more without a new
  fault, when a rename meets a folder another command has made (`Blocked`); `Resumed`
  has what is needed to show that nothing it would have to put back was moved by the
  earlier run.
- `UndoShape`: in a rollback each displaced name's old content is where it was put.
- `Stamped` is the one-name state above. It is part of the invariant, not excluded
  from it: the four safety properties hold of it.
- `Future`, `StagedFiles`: a step that is not reached has no directory, and a staging copy holds
  what its step takes or makes. That is why a marked staging copy can be trusted.
- `Backed`: when the backup's marker and files agree. They disagree while the backup
  is being removed or filled, and then either the run displaces to it or a
  scratch directory does not exist and the next run will.
- `Ends`, `StepInHand`, `Locals`, `NeverThere`: the run's variables against the disk.

`Tried`, the third part, says that a directory the clean-up has been at is gone unless its removal failed.

TLC checked `IInv` on the instance of `migration_faults` before
the proof. The proof has a lemma for the effect of each action (`...Does`), in the words of
the invariant, and one for each part of `Core` (`StepInHandKept`, `LocalsKept`,
`NeverThereKept`, `StagedFilesKept`, `FutureKept`, `ShapeKept`, `BackedKept`, `EndsKept`) with a step
per action; `NextIInv` puts them together, and `EveryStage` reads the properties off
it. Only a commit and the stamp write the marker (`OnlyTwoWriteTheMarker`), so for the
refinement only these two need an argument: at a commit every name is in, and a state of more
than one name never looks new, since at most one name is out at a time (`NeverStamped`).

After two faults little of `Core` is left: versions mix, a backup is not what its
marker says. `NothingIsLostSilently` therefore has an invariant of its own,
`LossInv`, which says of each name where it is and not in which version:

- `Course`: what the run's variables are in step with, which no fault disturbs.
- `Covered`: a swap works from a marked staging copy, which holds nothing of the
  names the swap is through with.
- `Safe(n)`, for each name no error message has spoken of. What a run has displaced
  is where its rollback looks. While only calls have failed, the name is live but for the
  moment it is on its way in or back (`Live`). While runs have only died, it is live or
  the next run puts it in (`LiveOrNext`). The folder is why that needs an argument: a
  rollback deletes what is live of it before it puts the old one back. But the folder goes
  last, and a run that resumes and finds it gone has put nothing else in; so if that
  run is blocked (`Blocked`) it has nothing to put back and keeps the staging copy.
- `Unstranded`: without a failing call nothing is stranded, and no rollback puts a
  folder back.

TLC checked `LossInv` with up to five deaths, up to four failing calls, and on three
names before the proof. `...Safe` are its lemmas, one per action or group of actions;
`CoveredKept`, `UnstrandedKept` and `AccountedKept` put them together. The file is needed
so that a state with its folder out never looks new.

They assume the `ASSUME`s of `Migration`: the states to start from are made of the
names and of versions up to the target, one folder at most, at least one step,
`None`, `Empty` and `Bad` are no versions, the bounds are natural numbers.

`MigrationLock_proofs.tla` proves `LockExcludes`: `LockSpec => []Exclusive`, for any
number of runs that claim, read, probe, clear and die. It does not say that two runs are
never in at once, which is false of the code (section 2), but that of any two that are one
was robbed. `LockInv` strengthens it: whoever is between the claim and the release, and was
not robbed, made the lock that is there (`Held`); and who has read the pid of the file that
is there asks after its maker, and is about to clear it only when its maker does not use it
(`Judged`). So what such a run removes is never somebody's, and what another removes it
robs.

`Update_proofs.tla` proves, for all sets of builds with a newest one, any number of
migration processes and all bounds:

- `UpdateTypes`: `Spec => []TypeOK`, and with it that `Bad` is never installed, since what
  is past the checks was verified (`Verified`);
- `UpdateLocks`: `Spec => LockSpec`. Each step is shown to be a lock step or to
  leave the lock alone (`TakeLock` ends in the lock's own actions, `JobDies`,
  `Interrupt` and `PowerCut` in `Die`);
- `UpdateExcludes`: `Spec => []Exclusive`, from `UpdateLocks` and `LockExcludes`:
  the composition inherits what was proved of the lock alone, with its exception;
- `UpdateServes`: `Spec => []ServesItsSchema`. The invariant is `Settled`. A daemon
  reads the marker twice and answers later, so what it read must still hold: each
  daemon past a check that is not late has the marker's schema (`Checked`). A
  migration moves the marker only after it has seen the port free and marked as late
  whatever was on its way, so while one of a newer build is past the port check
  nothing that is not late may be up or on its way with an older build.

They assume the `ASSUME`s of `MigrationLock` and `Update`: builds are numbers with a
newest, `Bad` and `None` are nothing else, the two daemons differ, the bounds are
natural numbers.

`Gateway_proofs.tla` proves, for all sets of names, ids, keys and calls, any cache size
and any number of edits (the run has one agent name and one call):

- `GatewayTypes`: `Spec => []TypeOK`. `TypeInv` adds that the set of cached keys is
  finite, which its size needs, and that a call under way has an agent and, past its
  first await, a server (`Named`). `RememberTypes` shows that a full cache gives up an
  entry before it takes one;
- `OnlyTheHolder`: `Spec => AuthenticatesTheHolder`, from the types: a cached name is
  used only while its agent has that key, and else the holder is looked up;
- `OnlyGrantedCallsGoOut`: `Spec => []OnlyWhatIsGranted`, of the process that runs the call and
  the agent that authenticated, both by id, while `config.json` still has them. The call checks
  a policy it read before its awaits, for a name, by an id it looks up in a copy of the
  configuration that may be old, and then awaits a process found by a name. `Watched` follows
  the grant along that way: all that the files grant to the id is remembered as granted;
  all that the policy to be checked with allows is, once it is read; and a process that is waited
  for is of the id that was checked. That rests on `IdInv`: ids in use were minted (`Minted`) and
  are of one name (`OneName`), and while a server or an agent is in `config.json` it has the
  same name in the daemon's copy, among the processes and in the calls (`Stay`, `Own`), since an
  id once removed never comes back. `Loaded` says that nothing of the daemon runs
  between a call's two readings of its policy;
- `GrantsStayAsGiven`: `Spec => []GrantsAsGiven`. `GivenInv` adds that what is on the disk, a
  leftover too, is on ids that were minted, so that a new one starts with nothing, and that
  what a removal has still to cut has lost one of its sides already, so that cutting it late,
  never, or after something else was added takes nothing from anybody;
- `DenialsAreAnswered`: `Spec => []OutageIsNotDenial`. The search drops a server from
  its list when it goes on to it, when it finds it not running and when it passes it over.
  `Asking` says that every granted server is still on the list, is the one being
  asked, has answered, or is put down as unreachable, which makes the end of the list an
  error. It needs that a server id stands under one name in the file, in the daemon's
  copy and in the names the call read (`OneName`, `Distinct`), or taking one off the list would
  take two; `SearchInv` is both.

They assume the `ASSUME`s of `Gateway`: `None` is no name, id, key or agent, the cache has
room for one, the bound is a natural number.

`AuditLog_proofs.tla` proves all the safety properties of `AuditLog`, for any segment
size, set of retention settings, number of records and number of failures:

- `TypeCorrect` and `LogStaysInOrder`: `Spec => []TypeOK` and `Spec => []LogInOrder`;
- `NothingFusesOntoATornLine` and `DeletesByTheLimits`: `Spec => NothingFused` and
  `Spec => PrunesByTheLimits`, action properties;
- `NothingIsShownTwice` and `NothingIsMissed`: `Spec => []ShownOnce` and
  `Spec => []NothingSkipped`.

`LogInv` says what holds of the files, whoever reads them. `Files`: a file stands at
one ordinal, is named by the record that created it and was empty before. `Place`:
nothing is newer than the segment the writer appends to, so what it writes goes
to the end of the log; this is what a restart, a roll and a directory that could not be
listed each have to establish again. `Made`: the record being written is in no file
yet. With these, `FilesInOrder` (of deleted files too, which a follower may have open)
and `SegmentsInOrder` are inductive. `Position` is the follower's: the file it has
open is at the ordinal it believes, if it is anywhere.

`NoneOpen` is behind `NothingFused`: wherever the writer may append, no torn line is open
that it has not failed to close. `DoomedByTheLimits` is behind `PrunesByTheLimits`: the list is
made at one moment and worked off one file at a time, while time passes and older segments
go or stay, and each entry must still be condemned when its turn comes. The count of newer
ones holds because it goes from the oldest: nothing newer than an entry goes before it.

`ShownOnce` and `NothingSkipped` need invariants of their own, each under the excuse
the property names. `OrderInv`: in every phase of the follower all it can still
print is newer than all it has printed. What "still" means depends on the phase: the
segments of the history's list from the next one on (`InHistory`), the segment it is to open
and those above (`ToAttach`), the rest of the open file and then the segments above
it, or all of them once it was deleted (`Attached`). The last case needs `DoomedAreOldest`: a
segment is deleted only when no older one that has records is left, unless a deletion failed. `MissInv` is
the converse: every record of a segment below the follower's place has been shown
(`Behind`, `ShownUpTo`), as long as the log goes on from that place at all
(`GoesOnFrom`), and the listing it works from lacks only segments that are newer than
all in it (`Listed`). TLC checked `LogInv`, `OrderInv`, `MissInv` and the other parts on
the instance of `log_follow` before the proof.

The proof has a lemma for the effect of each action, put together for the daemon as
`DaemonDoes` (the log grows at its end, a segment is created at the top, or one is
removed) and `DaemonChanges`, so that the follower's invariants are shown against these few
kinds of change and not against each action; then one lemma for each step of the
follower, `Order...` and `Miss...`. What a round prints (`Picked`) is a recursive function
over a file's content. `Induction` over a set of numbers, from the well-foundedness of
`<`, shows that the function exists and what its values are (`PickedWalks`, `PickedIs`,
`PrintedIs`). The theorems assume the `ASSUME`s of `AuditLog`: a segment holds at least one
record, the marks are no numbers and differ, the bounds are natural numbers.

`GrantMigration_proofs.tla` proves every invariant of the `policies` run, for all 0.1.x states
whose ids are their owners' own, all names and canonical forms, all calls and globs:

- `TypeCorrect`: `Spec => []TypeOK`;
- `NothingIsTransferred`, `GrantsSurvive` and `NoNamesAreLeft`: `Spec => []P` for
  `NoTransferAmongAgents`, `StillGranted` and `NoneLooksCurrent`;
- `KeepsLevels` and `StaysUnderFolder`: `Spec => []P` for `KeepsToItsLevel` and `StaysUnder`.

The properties speak of a decision at the end, so the invariant, `GrantInv`, says what each
state on the way has to do with the 0.1.x state it comes from. `Live` lists what the live
state can be: untouched, ids next to the old policies (a swap that stopped half-way),
or converted; `Copy` is the same for the copy a step works on. Between the two,
`Sorted(s, left)` is what a step that is run again finds: each policy is still a file of
0.1.x that is left to look at, or is the conversion of a file that fits its agent, and
each file is left, converted or set aside, and set aside only if it is unfit. A document the
step made is under an id, which is never a name, so a second run leaves it alone. `HasIds`:
an id is the one the entry had or one derived from its name, so ids of two names differ
and a grant looked up under an id is the one that stood under the name (`DecidedAsBefore`).
`Hashes`: once the keyring could be read no hash is missing. `Asked`: the decision was made
of the state there is. TLC checked `GrantInv` on worlds without a glob before the proof.

The glob theorems are about three recursive functions: which pieces a pattern has, what a
sequence of pieces matches, and where a path leads. `Induction` over a set of numbers shows
that each exists and what its values are (`GlobIs`, `MatchesIs`, `ResolvedIs`).
`MatchGoesThrough` is then the one induction over a match: a set of pairs of a place in the
pattern and a place in the value that holds the start, and with a pair every pair one piece further
on, holds the end. `DepthIsKept` takes for the set the pairs with as many
separators on either side. For `StaysUnder`, up to the last separator before a wildcard
the value is the pattern (`LiteralsAreMatched`), and from there on a walk without `..` never takes a
segment off (`WalkGoesOn`).

They assume the `ASSUME`s of `GrantMigration`: a canonical form is a form of the same text
and the same for all its forms, a 0.1.x state has only ids minted for their owners and no
hashes, `None` is no id, rules are lists and globs and values sequences of
characters, the bound is a natural number.

Only model-checked: liveness, and everything that rests on fairness or `ENABLED`. Every
invariant of a passing run is a theorem.

## 5. Not modelled

- The order in which a power cut persists renames, and `fsync`.
- Sessions: a session is bound to its agent after the response that announces it.
- `list_tools`, and the end of a tool call that a server never answers: the code
  sets no limit.
- Of the audit log, the ring, filters and clock steps.
- Two `holm` commands at once: each replaces the file it read, and the code
  promises nothing else.
- `install.ps1`, launchd, two installers at once, the entry points, the child
  environment, output.

## 6. Plan

The order is by what a fault would cost.

1. Sessions and `list_tools` in `Gateway`; two commands at once in a
   `ConfigStore` of its own, of which `Gateway`'s commands are the sequential case.
2. An abstract log (a growing sequence, its oldest part forgotten, and a reader
   that lags behind it) that `AuditLog` implements.
3. Theorems: that `AuditLog` implements the abstract log, once it is there.
