---------------------------- MODULE ServerLifecycle ----------------------------
(***************************************************************************)
(* The shared MCP servers of the daemon: the ServerProcess connections,    *)
(* the table and the health map of SteerholmDaemon, and the tasks that     *)
(* change them under the reconcile lock - the background reconciles        *)
(* (startup and control plane), the supervisor loop and the shutdown that  *)
(* cancels them.                                                           *)
(*                                                                         *)
(* asyncio runs one task at a time until it awaits.  A task in "run" or    *)
(* "probe" is between two awaits, and nothing else moves until it leaves   *)
(* (Settled); every other value of pc is an await.                         *)
(*                                                                         *)
(* A spec is a whole entry of config.json for a server: command, url, env  *)
(* and id.  Two entries are the same spec when the code finds them equal.  *)
(***************************************************************************)
EXTENDS Naturals, FiniteSets

CONSTANTS
    Names,      \* server names
    Specs,      \* the entries a name can have in config.json
    Procs,      \* ServerProcess objects that exist at one time
    Jobs,       \* background reconcile tasks that exist at one time
    Sup,        \* the supervisor task
    None,
    Broken,     \* a config.json that cannot be read
    MaxEdits,   \* bound: changes of config.json
    MaxFaults   \* bound: connections lost, and calls answered with an error

ASSUME SupIsNoJob == Sup \notin Jobs
ASSUME NoneIsNothing == None \notin Procs \cup Specs \cup Names \cup Jobs \cup {Sup}
ASSUME BrokenIsNoConfig == Broken \notin [Names -> Specs \cup {None}]
ASSUME BoundsAreNaturals == MaxEdits \in Nat /\ MaxFaults \in Nat

VARIABLES
    disk,       \* the servers in config.json, or Broken
    mem,        \* the daemon's copy of them, or Broken
    proc,       \* the ServerProcess objects
    table,      \* shared_processes: name -> process
    health,     \* server_health: name -> state
    lock,       \* the task holding _reconcile_lock
    pc,         \* where each task is
    job,        \* the local variables of each task's reconcile
    probe,      \* the local variables of the supervisor's health check
    serving,    \* uvicorn has not returned
    cancelled,  \* tasks the shutdown has cancelled
    edits, faults

taskVars == <<lock, pc, job>>
daemonVars == <<proc, table, health>>
configVars == <<disk, mem, edits>>
downVars == <<serving, cancelled>>
vars == <<configVars, daemonVars, taskVars, probe, downVars, faults>>

Tasks == Jobs \cup {Sup}
Configs == [Names -> Specs \cup {None}]

(***************************************************************************)
(* A process is "opening" until its handshake is over, "up" while its      *)
(* session answers, "broken" when the session is still there but its calls *)
(* fail, "dying" once its task was cancelled, "ended" when its task is     *)
(* over.  told is its _stop event.                                         *)
(***************************************************************************)
Ended == [name |-> None, spec |-> None, phase |-> "ended", told |-> FALSE]
Phases == {"opening", "up", "broken", "dying"}
Process == {Ended} \cup [name : Names, spec : Specs, phase : Phases, told : BOOLEAN]

\* `session is not None`, for a process that got one.
HasSession(p) == proc[p].phase \in {"up", "broken", "dying"}

\* (mutant) A changed entry does not restart its server.
Current_AnySpec(n, config) == table[n] # None /\ HasSession(table[n])

\* _reconcile_plan's current(): running, connected, with the wanted spec.
Current(n, config) ==
    /\ table[n] # None
    /\ HasSession(table[n])
    /\ proc[table[n]].spec = config[n]

\* _reconcile_plan's two halves.
PlanStop(config) == {n \in Names : table[n] # None /\ config[n] = None}

\* (mutant) Every name that is not running is started.
PlanStart_AnyName(config) == {n \in Names : ~ Current(n, config)}

\* (mutant) A server that could not be started is left at that.
PlanStart_NotFailed(config) ==
    {n \in Names : config[n] # None /\ ~ Current(n, config) /\ health[n] # "failed"}

PlanStart(config) == {n \in Names : config[n] # None /\ ~ Current(n, config)}

NoJob == [stop |-> {}, start |-> {}, want |-> None, drop |-> FALSE,
          name |-> None, proc |-> None]
Job == [stop : SUBSET Names, start : SUBSET Names, want : Configs \cup {None},
        drop : BOOLEAN, name : Names \cup {None}, proc : Procs \cup {None}]
NoProbe == [todo |-> {}, now |-> None, dead |-> {}, blamed |-> {}]
Probe == [todo : SUBSET (Names \X Procs), now : (Names \X Procs) \cup {None},
          dead : SUBSET Names, blamed : SUBSET Procs]

JobPcs == {"idle", "queued", "run", "stopping", "killing", "starting",
           "aborting", "abortkill"}
SupPcs == (JobPcs \ {"idle"}) \cup {"sleep", "probe", "probing", "wait", "done"}

\* Every task is at an await: the event loop may run any of them.
Settled == \A t \in Tasks : pc[t] \notin {"run", "probe"}

\* Nothing refers to the object any more, so the slot can hold a new one.
Free(p) ==
    /\ proc[p] = Ended
    /\ \A n \in Names : table[n] # p
    /\ \A t \in Tasks : job[t].proc # p
    /\ \A n \in Names : <<n, p>> \notin probe.todo /\ probe.now # <<n, p>>

--------------------------------------------------------------------------------
(* serve(): the configuration loaded, nothing running, the supervisor      *)
(* asleep and the first reconcile already in the background.               *)

Init ==
    /\ disk \in Configs
    /\ mem = disk
    /\ proc = [p \in Procs |-> Ended]
    /\ table = [n \in Names |-> None]
    /\ health = [n \in Names |-> "none"]
    /\ lock = None
    /\ \E j \in Jobs :
          pc = [t \in Tasks |-> CASE t = Sup -> "sleep"
                                  [] t = j -> "queued"
                                  [] OTHER -> "idle"]
    /\ job = [t \in Tasks |-> NoJob]
    /\ probe = NoProbe
    /\ serving = TRUE
    /\ cancelled = {}
    /\ edits = 0
    /\ faults = 0

--------------------------------------------------------------------------------
(* The configuration.                                                      *)

\* A CLI command, or an editor, replaces config.json.
Edit ==
    /\ Settled
    /\ edits < MaxEdits
    /\ disk' \in (Configs \cup {Broken}) \ {disk}
    /\ edits' = edits + 1
    /\ UNCHANGED <<mem, daemonVars, taskVars, probe, downVars, faults>>

\* An agent's request reloads the configuration before it authenticates.
Reload ==
    /\ Settled
    /\ serving
    /\ mem' = disk
    /\ UNCHANGED <<disk, edits, daemonVars, taskVars, probe, downVars, faults>>

\* POST /control/reconcile: reload, then a reconcile in the background.  With
\* a broken configuration the plan raises and no task is created.
ControlReconcile(j) ==
    /\ Settled
    /\ serving
    /\ pc[j] = "idle"
    /\ mem' = disk
    /\ pc' = IF disk = Broken THEN pc ELSE [pc EXCEPT ![j] = "queued"]
    /\ UNCHANGED <<disk, edits, daemonVars, lock, job, probe, downVars, faults>>

--------------------------------------------------------------------------------
(* ServerProcess._run: one task for each connection.                       *)

Opened(p) ==
    /\ Settled
    /\ proc[p].phase = "opening"
    /\ proc' = [proc EXCEPT ![p].phase = "up"]
    /\ UNCHANGED <<configVars, table, health, taskVars, probe, downVars, faults>>

OpenFails(p) ==
    /\ Settled
    /\ proc[p].phase = "opening"
    /\ proc' = [proc EXCEPT ![p] = Ended]
    /\ UNCHANGED <<configVars, table, health, taskVars, probe, downVars, faults>>

\* The server goes away: the task may notice and end, or only its calls fail.
Lost(p) ==
    /\ Settled
    /\ faults < MaxFaults
    /\ proc[p].phase = "up"
    /\ \/ proc' = [proc EXCEPT ![p].phase = "broken"]
       \/ proc' = [proc EXCEPT ![p] = Ended]
    /\ faults' = faults + 1
    /\ UNCHANGED <<configVars, table, health, taskVars, probe, downVars>>

\* Told to stop while serving, or cancelled: the contexts close.
Unwind(p) ==
    /\ Settled
    /\ \/ proc[p].phase \in {"up", "broken"} /\ proc[p].told
       \/ proc[p].phase = "dying"
    /\ proc' = [proc EXCEPT ![p] = Ended]
    /\ UNCHANGED <<configVars, table, health, taskVars, probe, downVars, faults>>

--------------------------------------------------------------------------------
(* reconcile_servers, by a background task or by the supervisor.           *)

AfterReconcile(t) == IF t = Sup THEN "sleep" ELSE "idle"

\* (mutant) The supervisor reconciles against the copy it has.
ReloadAndQueue_NoReload ==
    /\ pc' = [pc EXCEPT ![Sup] = "queued"]
    /\ UNCHANGED mem

\* The supervisor reloads and asks for its reconcile.  A configuration that does
\* not load raises there, once the lock is held.
ReloadAndQueue ==
    /\ mem' = disk
    /\ pc' = [pc EXCEPT ![Sup] = "queued"]

\* The lock is taken and the plan made before the first await.  A broken
\* configuration raises there, and the lock is given back.
Acquire(t) ==
    /\ Settled
    /\ pc[t] = "queued"
    /\ lock = None
    /\ IF mem = Broken
         THEN /\ pc' = [pc EXCEPT ![t] = AfterReconcile(t)]
              /\ UNCHANGED <<lock, job>>
         ELSE /\ lock' = t
              /\ pc' = [pc EXCEPT ![t] = "run"]
              /\ job' = [job EXCEPT ![t] =
                    [NoJob EXCEPT
                       !.want = mem,
                       !.stop = PlanStop(mem),
                       !.start = PlanStart(mem)]]
    /\ UNCHANGED <<configVars, daemonVars, probe, downVars, faults>>

\* The name whose process the task stops next: one the plan removes, and once
\* those are gone one it restarts.
StopNext(t, n) ==
    /\ pc[t] = "run"
    /\ \/ n \in job[t].stop
       \/ job[t].stop = {} /\ n \in job[t].start /\ table[n] # None

Forget(n) ==
    /\ table' = [table EXCEPT ![n] = None]
    /\ health' = [health EXCEPT ![n] = "none"]

\* stop_shared_server with nothing to wait for: no process, or one whose task
\* is over.
StopAtOnce(t, n) ==
    /\ StopNext(t, n)
    /\ table[n] # None => proc[table[n]] = Ended
    /\ Forget(n)
    /\ job' = [job EXCEPT ![t].stop = @ \ {n}]
    /\ UNCHANGED <<configVars, proc, lock, pc, probe, downVars, faults>>

\* stop_shared_server: signal the process, then wait for its task.
StopBegin(t, n) ==
    /\ StopNext(t, n)
    /\ table[n] # None
    /\ proc[table[n]] # Ended
    /\ proc' = [proc EXCEPT ![table[n]].told = TRUE]
    /\ pc' = [pc EXCEPT ![t] = "stopping"]
    /\ job' = [job EXCEPT ![t].name = n, ![t].proc = table[n]]
    /\ UNCHANGED <<configVars, table, health, lock, probe, downVars, faults>>

\* (mutant) The process's task is awaited and not cancelled.
StopKill_Gentle(t) ==
    /\ Settled
    /\ pc[t] \in {"stopping", "aborting"}
    /\ proc[job[t].proc] # Ended
    /\ pc' = [pc EXCEPT ![t] = IF @ = "stopping" THEN "killing" ELSE "abortkill"]
    /\ UNCHANGED <<configVars, proc, table, health, lock, job, probe, downVars, faults>>

\* Ten seconds passed: the process's task is cancelled and awaited.
StopKill(t) ==
    /\ Settled
    /\ pc[t] \in {"stopping", "aborting"}
    /\ proc[job[t].proc] # Ended
    /\ proc' = [proc EXCEPT ![job[t].proc].phase = "dying"]
    /\ pc' = [pc EXCEPT ![t] = IF @ = "stopping" THEN "killing" ELSE "abortkill"]
    /\ UNCHANGED <<configVars, table, health, lock, job, probe, downVars, faults>>

\* (mutant) The process is forgotten before its task is over.
StopEnd_TooSoon(t) ==
    /\ Settled
    /\ pc[t] \in {"stopping", "killing"}
    /\ Forget(job[t].name)
    /\ pc' = [pc EXCEPT ![t] = "run"]
    /\ job' = [job EXCEPT ![t].stop = @ \ {job[t].name}, ![t].name = None, ![t].proc = None]
    /\ UNCHANGED <<configVars, proc, lock, probe, downVars, faults>>

StopEnd(t) ==
    /\ Settled
    /\ pc[t] \in {"stopping", "killing"}
    /\ proc[job[t].proc] = Ended
    /\ Forget(job[t].name)
    /\ pc' = [pc EXCEPT ![t] = "run"]
    /\ job' = [job EXCEPT ![t].stop = @ \ {job[t].name}, ![t].name = None, ![t].proc = None]
    /\ UNCHANGED <<configVars, proc, lock, probe, downVars, faults>>

\* start_shared_server: create the process and wait until it is ready.
StartBegin(t, n, p) ==
    /\ pc[t] = "run"
    /\ job[t].stop = {}
    /\ n \in job[t].start
    /\ table[n] = None
    /\ Free(p)
    /\ proc' = [proc EXCEPT ![p] =
          [name |-> n, spec |-> job[t].want[n], phase |-> "opening", told |-> FALSE]]
    /\ health' = [health EXCEPT ![n] = "starting"]
    /\ pc' = [pc EXCEPT ![t] = "starting"]
    /\ job' = [job EXCEPT ![t].name = n, ![t].proc = p]
    /\ UNCHANGED <<configVars, table, lock, probe, downVars, faults>>

\* The start is over, one way or the other, and the loop goes on.
StartOver(t) ==
    /\ pc' = [pc EXCEPT ![t] = "run"]
    /\ job' = [job EXCEPT ![t].start = @ \ {job[t].name}, ![t].name = None, ![t].proc = None]
    /\ UNCHANGED <<configVars, proc, lock, probe, downVars, faults>>

StartSucceeds(t) ==
    /\ Settled
    /\ pc[t] = "starting"
    /\ proc[job[t].proc].phase \in {"up", "broken"}
    /\ table' = [table EXCEPT ![job[t].name] = job[t].proc]
    /\ health' = [health EXCEPT ![job[t].name] = "healthy"]
    /\ StartOver(t)

\* The handshake failed, or the process that timed out has been stopped.
StartFails(t) ==
    /\ Settled
    /\ pc[t] \in {"starting", "aborting", "abortkill"}
    /\ proc[job[t].proc] = Ended
    /\ table' = [table EXCEPT ![job[t].name] = None]
    /\ health' = [health EXCEPT ![job[t].name] = "failed"]
    /\ StartOver(t)

\* (mutant) The start gives up and leaves the process to itself.
StartTimesOut_Leaks(t) ==
    /\ Settled
    /\ pc[t] = "starting"
    /\ proc[job[t].proc].phase = "opening"
    /\ health' = [health EXCEPT ![job[t].name] = "failed"]
    /\ UNCHANGED table
    /\ StartOver(t)

\* CONNECT_TIMEOUT: start() stops the process it was waiting for.
StartTimesOut(t) ==
    /\ Settled
    /\ pc[t] = "starting"
    /\ proc[job[t].proc].phase = "opening"
    /\ proc' = [proc EXCEPT ![job[t].proc].told = TRUE]
    /\ pc' = [pc EXCEPT ![t] = "aborting"]
    /\ UNCHANGED <<configVars, table, health, lock, job, probe, downVars, faults>>

\* The lock is released.  After the unhealthy servers are dropped the
\* supervisor goes on to its own reconcile.
Finish(t) ==
    /\ pc[t] = "run"
    /\ job[t].stop = {}
    /\ job[t].start = {}
    /\ lock' = None
    /\ job' = [job EXCEPT ![t] = NoJob]
    /\ IF job[t].drop
         THEN ReloadAndQueue
         ELSE pc' = [pc EXCEPT ![t] = AfterReconcile(t)] /\ UNCHANGED mem
    /\ probe' = IF job[t].drop THEN NoProbe ELSE probe
    /\ UNCHANGED <<disk, edits, daemonVars, downVars, faults>>

--------------------------------------------------------------------------------
(* The supervisor: every 30 seconds, _restart_unhealthy_servers, a reload  *)
(* and a reconcile.                                                        *)

\* The table is copied once, before the first probe is awaited.
Wake ==
    /\ Settled
    /\ pc[Sup] = "sleep"
    /\ pc' = [pc EXCEPT ![Sup] = "probe"]
    /\ probe' = [NoProbe EXCEPT !.todo = {e \in Names \X Procs : table[e[1]] = e[2]}]
    /\ UNCHANGED <<configVars, daemonVars, lock, job, downVars, faults>>

\* The next process of the copy, skipped when it has no session.
ProbeNext(e) ==
    /\ pc[Sup] = "probe"
    /\ e \in probe.todo
    /\ IF HasSession(e[2])
         THEN /\ pc' = [pc EXCEPT ![Sup] = "probing"]
              /\ probe' = [probe EXCEPT !.todo = @ \ {e}, !.now = e]
         ELSE /\ probe' = [probe EXCEPT !.todo = @ \ {e}]
              /\ UNCHANGED pc
    /\ UNCHANGED <<configVars, daemonVars, lock, job, downVars, faults>>

\* list_tools answers, or ten seconds pass: slow but alive.
ProbeAnswers ==
    /\ Settled
    /\ pc[Sup] = "probing"
    /\ proc[probe.now[2]].phase \in {"up", "dying"}
    /\ pc' = [pc EXCEPT ![Sup] = "probe"]
    /\ probe' = [probe EXCEPT !.now = None]
    /\ UNCHANGED <<configVars, daemonVars, lock, job, downVars, faults>>

\* list_tools raises: the session is broken or was closed under it, or the
\* server answers with an error.  The NAME goes on the list.
ProbeFails ==
    /\ Settled
    /\ pc[Sup] = "probing"
    /\ \/ proc[probe.now[2]].phase = "up" /\ ~ proc[probe.now[2]].told
          /\ faults < MaxFaults /\ faults' = faults + 1
       \/ ~ (proc[probe.now[2]].phase = "up" /\ ~ proc[probe.now[2]].told)
          /\ UNCHANGED faults
    /\ pc' = [pc EXCEPT ![Sup] = "probe"]
    /\ probe' = [probe EXCEPT !.now = None,
                              !.dead = @ \cup {probe.now[1]},
                              !.blamed = @ \cup {probe.now[2]}]
    /\ UNCHANGED <<configVars, daemonVars, lock, job, downVars>>

\* All probed.  With nothing dead: reload and reconcile.
ProbesOver ==
    /\ pc[Sup] = "probe"
    /\ probe.todo = {}
    /\ IF probe.dead = {}
         THEN ReloadAndQueue
         ELSE pc' = [pc EXCEPT ![Sup] = "wait"] /\ UNCHANGED mem
    /\ UNCHANGED <<disk, edits, daemonVars, lock, job, probe, downVars, faults>>

\* The lock is taken to stop the servers on the list.
AcquireToDrop ==
    /\ Settled
    /\ pc[Sup] = "wait"
    /\ lock = None
    /\ lock' = Sup
    /\ pc' = [pc EXCEPT ![Sup] = "run"]
    /\ job' = [job EXCEPT ![Sup] = [NoJob EXCEPT !.stop = probe.dead, !.drop = TRUE]]
    /\ UNCHANGED <<configVars, daemonVars, probe, downVars, faults>>

--------------------------------------------------------------------------------
(* serve()'s finally: cancel the supervisor, wait for it, then each        *)
(* background task in turn.                                                *)

Over(t) == pc[t] \in {"idle", "done"}

Shutdown ==
    /\ Settled
    /\ serving
    /\ serving' = FALSE
    /\ UNCHANGED <<configVars, daemonVars, taskVars, probe, cancelled, faults>>

\* The task ends where it awaits, and its lock with it.
EndTask(t) ==
    /\ pc' = [pc EXCEPT ![t] = IF t = Sup THEN "done" ELSE "idle"]
    /\ lock' = IF lock = t THEN None ELSE lock
    /\ job' = [job EXCEPT ![t] = NoJob]
    /\ probe' = IF t = Sup THEN NoProbe ELSE probe

\* (mutant) The cancelled start keeps its "starting".
AbortStart_Untidy(t) == EndTask(t) /\ UNCHANGED health

\* start_shared_server cancelled before its process is ready.
AbortStart(t) ==
    /\ health' = [health EXCEPT ![job[t].name] = "none"]
    /\ EndTask(t)

\* CancelledError is raised where the task awaits.  Mid-start the process is
\* told to stop and its task cancelled; in the last wait of stop() the error
\* is suppressed and the task carries on.
Cancel(t) ==
    /\ Settled
    /\ ~ serving
    /\ t \notin cancelled
    /\ \A u \in cancelled : Over(u)
    /\ t # Sup => Sup \in cancelled
    /\ cancelled' = cancelled \cup {t}
    /\ CASE Over(t) \/ pc[t] \in {"killing", "abortkill"} ->
              UNCHANGED <<proc, health, taskVars, probe>>
         [] pc[t] = "starting" ->
              /\ proc' = IF proc[job[t].proc] = Ended THEN proc
                         ELSE [proc EXCEPT ![job[t].proc].told = TRUE,
                                           ![job[t].proc].phase = "dying"]
              /\ AbortStart(t)
         [] pc[t] = "aborting" ->
              AbortStart(t) /\ UNCHANGED proc
         [] OTHER ->
              EndTask(t) /\ UNCHANGED <<proc, health>>
    /\ UNCHANGED <<configVars, table, serving, faults>>

\* serve() returns and the process exits.
Exited == ~ serving /\ cancelled = Tasks /\ \A t \in Tasks : Over(t)
Terminated == Exited /\ UNCHANGED vars

--------------------------------------------------------------------------------
ProcNext(p) == Opened(p) \/ OpenFails(p) \/ Lost(p) \/ Unwind(p)

ReconcileNext(t) ==
    \/ Acquire(t) \/ StopKill(t) \/ StopEnd(t)
    \/ StartSucceeds(t) \/ StartFails(t) \/ StartTimesOut(t) \/ Finish(t)
    \/ \E n \in Names : StopAtOnce(t, n) \/ StopBegin(t, n)
    \/ \E n \in Names, p \in Procs : StartBegin(t, n, p)

SupNext ==
    \/ Wake \/ ProbeAnswers \/ ProbeFails \/ ProbesOver \/ AcquireToDrop
    \/ \E e \in Names \X Procs : ProbeNext(e)

Next ==
    \/ Edit \/ Reload \/ \E j \in Jobs : ControlReconcile(j)
    \/ \E p \in Procs : ProcNext(p)
    \/ \E t \in Tasks : ReconcileNext(t) \/ Cancel(t)
    \/ SupNext
    \/ Shutdown
    \/ Terminated

Spec == Init /\ [][Next]_vars

\* The event loop comes back to every task that can go on, and timers fire: the
\* ten-second and the connect time-outs, the probe's, the supervisor's sleep.
\* Fairness is strong because a task can go on only while no other is running,
\* and because asyncio.Lock serves its waiters in turn.  A cancelled process
\* task unwinds; a handshake may never end, and contexts may never close by
\* themselves.
Fairness ==
    /\ \A p \in Procs : SF_vars(proc[p].phase = "dying" /\ Unwind(p))
    /\ \A t \in Tasks : SF_vars(ReconcileNext(t)) /\ SF_vars(Cancel(t))
    /\ SF_vars(SupNext)

FairSpec == Spec /\ Fairness

--------------------------------------------------------------------------------
(* Correctness.                                                            *)

\* Type correctness of the tables, the tasks and the processes.
TypeOK ==
    /\ disk \in Configs \cup {Broken} /\ mem \in Configs \cup {Broken}
    /\ proc \in [Procs -> Process]
    /\ table \in [Names -> Procs \cup {None}]
    /\ health \in [Names -> {"none", "starting", "healthy", "failed"}]
    /\ lock \in Tasks \cup {None}
    /\ pc \in [Tasks -> JobPcs \cup SupPcs]
    /\ job \in [Tasks -> Job]
    /\ probe \in Probe
    /\ serving \in BOOLEAN /\ cancelled \subseteq Tasks
    /\ edits \in 0 .. MaxEdits /\ faults \in 0 .. MaxFaults

\* No process is leaked (process_manager.py:58-63): one that was never told to
\* stop is registered under its own name, or is the one the holder of the lock
\* is still starting - through restarts, time-outs, failures and a shutdown in
\* the middle of any of them.
NoOrphan ==
    \A p \in Procs : proc[p] # Ended /\ ~ proc[p].told =>
        \/ table[proc[p].name] = p
        \/ /\ lock # None
           /\ pc[lock] = "starting"
           /\ job[lock].proc = p
           /\ job[lock].name = proc[p].name

\* A server is never running twice: its old process is gone before the new one
\* is created, whichever of reconcile, supervisor and time-out ends it.
OneInstance ==
    serving => \A p, q \in Procs :
        proc[p] # Ended /\ proc[q] # Ended /\ proc[p].name = proc[q].name => p = q

\* server_status(): what `holm status` and the control plane are told.
Status(n) ==
    CASE table[n] # None /\ HasSession(table[n]) -> "running"
      [] ~ (table[n] # None /\ HasSession(table[n]))
         /\ health[n] \in {"starting", "failed"} -> health[n]
      [] OTHER -> "stopped"

\* The status of a server, which is read from three places, is the truth about
\* its process: "starting" exactly while a reconcile starts it, even when that
\* start times out or is cancelled, and one that is "failed" or "stopped" has no
\* process left running.
StatusTruthful ==
    \A n \in Names :
        /\ Status(n) = "starting" <=>
              lock # None /\ job[lock].name = n /\ pc[lock] \in {"starting", "aborting", "abortkill"}
        /\ serving /\ Status(n) \in {"failed", "stopped"} =>
              \A p \in Procs : proc[p].name # n

\* A reconcile that ends has applied the configuration it planned from: what
\* it did not want is gone, and what it wanted is registered with that spec, or
\* failed to start, or has lost its connection since.
ReconcileApplies ==
    [][\A t \in Tasks : Finish(t) /\ ~ job[t].drop =>
          \A n \in Names :
             IF job[t].want[n] = None THEN table[n] = None
             ELSE IF table[n] = None THEN health[n] = "failed"
             ELSE proc[table[n]] = Ended \/ proc[table[n]].spec = job[t].want[n]]_vars

\* The supervisor drops a server because its session broke
\* (gateway.py:502-504): the process it stops is one whose probe failed.
DropsOnlyTheProbed ==
    [][\A n \in Names : StopBegin(Sup, n) /\ job[Sup].drop => table[n] \in probe.blamed]_vars

\* Every change of the configuration is applied in the end - by the control
\* plane or, when its call is lost, by the supervisor - and a server that died or
\* could not be started is tried again ("The periodic reconcile tries again",
\* gateway.py:440): again and again each server is up or being started as
\* config.json has it, or gone when it has none.
Applied(n) ==
    IF disk[n] = None THEN table[n] = None
    ELSE \E p \in Procs :
            /\ proc[p].name = n /\ proc[p].spec = disk[n]
            /\ proc[p].phase \in {"opening", "up"} /\ ~ proc[p].told
ConfigApplied ==
    \A n \in Names : []<>(~ serving \/ disk = Broken \/ Applied(n))

\* A background reconcile ends, whatever the servers it waits for do.
ReconcileEnds == \A j \in Jobs : pc[j] = "queued" ~> pc[j] = "idle"

\* The daemon shuts down (CHANGELOG.md:254, "The daemon shuts down cleanly"), or
\* the supervisor was cancelled in the last wait of a stop(), which swallows the
\* error: serve() then waits for a task that goes on.
Swallowed == Sup \in cancelled /\ ~ Over(Sup)
ShutdownEnds == ~ serving ~> (Exited \/ Swallowed)

\* The promise of ServerSlots, kept by the processes that were not told to stop.
SlotOf(n) ==
    LET mine == {p \in Procs : proc[p].name = n /\ proc[p].phase # "dying" /\ ~ proc[p].told}
    IN  IF mine = {} THEN [spec |-> None, open |-> FALSE]
        ELSE LET p == CHOOSE q \in mine : TRUE
             IN  [spec |-> proc[p].spec, open |-> proc[p].phase # "opening"]
Slots == INSTANCE ServerSlots WITH slot <- [n \in Names |-> SlotOf(n)]

\* The daemon implements ServerSlots: through restarts, probes, time-outs and
\* cancellations a server has one connection, and a change of its entry never
\* reaches a connection that is already there.
SlotsSpec == Slots!Spec
================================================================================
