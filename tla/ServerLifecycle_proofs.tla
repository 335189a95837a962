------------------------- MODULE ServerLifecycle_proofs -------------------------
(***************************************************************************)
(* Theorems about ServerLifecycle, for every set of names, specs, process  *)
(* objects and background tasks.                                           *)
(***************************************************************************)
EXTENDS ServerLifecycle, TLAPS

--------------------------------------------------------------------------------
(* The inductive invariant.                                                *)

Working == {"run", "stopping", "killing", "starting", "aborting", "abortkill"}
StopPcs == {"stopping", "killing"}
StartPcs == {"starting", "aborting", "abortkill"}

\* The reconcile lock is held exactly by the task that is inside a reconcile.
LockHeld == \A t \in Tasks : lock = t <=> pc[t] \in Working

\* What a task still has to start has an entry in the configuration it planned
\* from; only the supervisor drops servers.
Planned ==
    \A t \in Tasks :
        /\ job[t].drop => t = Sup
        /\ \A n \in job[t].start : job[t].want \in Configs /\ job[t].want[n] \in Specs

\* A task that waits for a process to stop waits for the registered one; a task
\* that waits for one to start waits for an unregistered process of that name,
\* which it has told to stop unless it still expects it to be ready.
AtStop(t) ==
    /\ job[t].name \in Names
    /\ job[t].proc \in Procs
    /\ table[job[t].name] = job[t].proc
AtStart(t) ==
    /\ job[t].name \in Names
    /\ job[t].proc \in Procs
    /\ table[job[t].name] = None
    /\ proc[job[t].proc] # Ended =>
          /\ proc[job[t].proc].name = job[t].name
          /\ (pc[t] # "starting" => proc[job[t].proc].told)
Waits ==
    \A t \in Tasks : /\ pc[t] \in StopPcs => AtStop(t)
                     /\ pc[t] \in StartPcs => AtStart(t)

\* The supervisor that waits for a probe remembers whom it asked.
Probing == pc[Sup] = "probing" => probe.now \in Names \X Procs

\* A process is registered under its own name.
Registered ==
    \A n \in Names : table[n] # None /\ proc[table[n]] # Ended => proc[table[n]].name = n

\* Until the shutdown, a process that is not over is registered or is the one a
\* reconcile is starting.
Accounted ==
    serving => \A p \in Procs : proc[p] # Ended =>
        \/ table[proc[p].name] = p
        \/ \E t \in Tasks : pc[t] \in StartPcs /\ job[t].proc = p

Inv == TypeOK /\ LockHeld /\ Planned /\ Waits /\ Probing /\ Registered /\ NoOrphan /\ Accounted

--------------------------------------------------------------------------------
(* Types.                                                                  *)

\* The fields of a process that is not over.
LEMMA ProcessFields ==
    ASSUME TypeOK, NEW p \in Procs
    PROVE  /\ proc[p] \in Process
           /\ proc[p] # Ended => /\ proc[p].name \in Names /\ proc[p].spec \in Specs
                                 /\ proc[p].phase \in Phases /\ proc[p].told \in BOOLEAN
                                 /\ proc[p] \in [name : Names, spec : Specs,
                                                 phase : Phases, told : BOOLEAN]
           /\ proc[p].phase \in Phases => proc[p] # Ended
BY DEF TypeOK, Process, Phases, Ended

\* What a step may write to a process that is not over.
LEMMA ProcUpdate ==
    ASSUME TypeOK, NEW p \in Procs, proc[p] # Ended, NEW h \in Phases, NEW b \in BOOLEAN
    PROVE  /\ [proc EXCEPT ![p].phase = h] \in [Procs -> Process]
           /\ [proc EXCEPT ![p].told = b] \in [Procs -> Process]
           /\ [proc EXCEPT ![p].told = b, ![p].phase = h] \in [Procs -> Process]
<1>1. proc[p] \in [name : Names, spec : Specs, phase : Phases, told : BOOLEAN]
    BY ProcessFields
<1>2. /\ [proc[p] EXCEPT !.phase = h] \in Process
      /\ [proc[p] EXCEPT !.told = b] \in Process
      /\ [proc[p] EXCEPT !.told = b, !.phase = h] \in Process
    BY <1>1 DEF Process
<1> QED  BY <1>2 DEF TypeOK

\* The fields of a task's reconcile.
LEMMA JobFields ==
    ASSUME TypeOK, NEW t \in Tasks
    PROVE  /\ job[t] \in Job
           /\ job[t].stop \subseteq Names /\ job[t].start \subseteq Names
           /\ job[t].want \in Configs \cup {None} /\ job[t].drop \in BOOLEAN
           /\ job[t].name \in Names \cup {None} /\ job[t].proc \in Procs \cup {None}
BY DEF TypeOK, Job

\* A step may set the name and the process a task waits for.
LEMMA JobWaits ==
    ASSUME TypeOK, NEW t \in Tasks, NEW m \in Names \cup {None}, NEW q \in Procs \cup {None}
    PROVE  [job EXCEPT ![t].name = m, ![t].proc = q] \in [Tasks -> Job]
<1>1. [job[t] EXCEPT !.name = m, !.proc = q] \in Job
    BY JobFields DEF Job
<1> QED  BY <1>1 DEF TypeOK

\* A step may take a name off the list of those to stop ...
LEMMA JobStops ==
    ASSUME TypeOK, NEW t \in Tasks, NEW P \in SUBSET Names
    PROVE  /\ [job EXCEPT ![t].stop = P] \in [Tasks -> Job]
           /\ [job EXCEPT ![t].stop = P, ![t].name = None, ![t].proc = None] \in [Tasks -> Job]
<1>1. /\ [job[t] EXCEPT !.stop = P] \in Job
      /\ [job[t] EXCEPT !.stop = P, !.name = None, !.proc = None] \in Job
    BY JobFields DEF Job
<1> QED  BY <1>1 DEF TypeOK

\* ... or off the list of those to start.
LEMMA JobStarts ==
    ASSUME TypeOK, NEW t \in Tasks, NEW P \in SUBSET Names
    PROVE  [job EXCEPT ![t].start = P, ![t].name = None, ![t].proc = None] \in [Tasks -> Job]
<1>1. [job[t] EXCEPT !.start = P, !.name = None, !.proc = None] \in Job
    BY JobFields DEF Job
<1> QED  BY <1>1 DEF TypeOK

\* What a task without a reconcile, and a health check over, hold.
LEMMA NoJobIsJob == NoJob \in Job /\ NoProbe \in Probe
BY DEF NoJob, Job, NoProbe, Probe

\* The supervisor and the background reconciles are the tasks.
LEMMA SupIsTask == Sup \in Tasks /\ Jobs \subseteq Tasks
BY DEF Tasks

\* Init gives every variable a value of its type.
LEMMA InitTypeOK == Init => TypeOK
<1> SUFFICES ASSUME Init PROVE TypeOK
    OBVIOUS
<1>1. pc \in [Tasks -> JobPcs \cup SupPcs]
    BY DEF Init, JobPcs, SupPcs, Tasks
<1>2. proc \in [Procs -> Process] /\ job \in [Tasks -> Job] /\ probe \in Probe
    BY NoJobIsJob DEF Init, Process
<1>3. edits \in 0 .. MaxEdits /\ faults \in 0 .. MaxFaults
    BY BoundsAreNaturals DEF Init
<1> QED
    BY <1>1, <1>2, <1>3 DEF Init, TypeOK

\* The steps of a reconcile keep the types.
LEMMA ReconcileTypeOK ==
    ASSUME TypeOK, Planned, Waits, NEW t \in Tasks, ReconcileNext(t) PROVE TypeOK'
<1> USE DEF configVars, daemonVars, downVars
<1>1. CASE Acquire(t)
    <2>1. job' \in [Tasks -> Job]
        <3>1. CASE mem = Broken  BY <1>1, <3>1 DEF Acquire, PlanStop, PlanStart, TypeOK
        <3>2. CASE mem # Broken
            <4>1. mem \in Configs  BY <3>2 DEF TypeOK
            <4>2. [NoJob EXCEPT
                     !.want = mem,
                     !.stop = PlanStop(mem),
                     !.start = PlanStart(mem)] \in Job
                BY <4>1 DEF NoJob, Job, PlanStop, PlanStart
            <4> QED  BY <1>1, <3>2, <4>2 DEF Acquire, PlanStop, PlanStart, TypeOK
        <3> QED  BY <3>1, <3>2
    <2>2. pc' \in [Tasks -> JobPcs \cup SupPcs]
        BY <1>1 DEF Acquire, PlanStop, PlanStart, AfterReconcile, TypeOK, JobPcs, SupPcs
    <2>3. lock' \in Tasks \cup {None}
        BY <1>1 DEF Acquire, PlanStop, PlanStart, TypeOK
    <2> QED  BY <1>1, <2>1, <2>2, <2>3 DEF Acquire, PlanStop, PlanStart, TypeOK
<1>2. CASE StopKill(t)
    <2>1. proc' \in [Procs -> Process]
        <3>1. CASE job[t].proc \in Procs
            <4>1. proc[job[t].proc] # Ended
                BY <1>2 DEF StopKill
            <4>2. [proc EXCEPT ![job[t].proc].phase = "dying"] \in [Procs -> Process]
                BY <3>1, <4>1, ProcUpdate DEF Phases
            <4> QED  BY <1>2, <4>2 DEF StopKill
        <3>2. CASE job[t].proc \notin Procs
            <4>1. proc' = proc
                BY <1>2, <3>2 DEF StopKill, TypeOK
            <4> QED  BY <4>1 DEF TypeOK
        <3> QED  BY <3>1, <3>2
    <2>2. pc' \in [Tasks -> JobPcs \cup SupPcs]
        BY <1>2 DEF StopKill, TypeOK, JobPcs
    <2> QED  BY <1>2, <2>1, <2>2 DEF StopKill, TypeOK
<1>3. CASE StopEnd(t)
    <2>1. job' \in [Tasks -> Job]
        <3>1. job[t].stop \ {job[t].name} \in SUBSET Names
            BY JobFields
        <3>2. [job EXCEPT ![t].stop = job[t].stop \ {job[t].name}, ![t].name = None,
                          ![t].proc = None] \in [Tasks -> Job]
            BY <3>1, JobStops
        <3> QED  BY <1>3, <3>2 DEF StopEnd
    <2>2. pc' \in [Tasks -> JobPcs \cup SupPcs]
        BY <1>3 DEF StopEnd, TypeOK, JobPcs
    <2> QED  BY <1>3, <2>1, <2>2 DEF StopEnd, Forget, TypeOK
<1>4. CASE StartSucceeds(t) \/ StartFails(t)
    <2>1. StartOver(t)
        BY <1>4 DEF StartSucceeds, StartFails
    <2>2. job' \in [Tasks -> Job]
        <3>1. job[t].start \ {job[t].name} \in SUBSET Names
            BY JobFields
        <3>2. [job EXCEPT ![t].start = job[t].start \ {job[t].name}, ![t].name = None,
                          ![t].proc = None] \in [Tasks -> Job]
            BY <3>1, JobStarts
        <3> QED  BY <2>1, <3>2 DEF StartOver
    <2>3. pc' \in [Tasks -> JobPcs \cup SupPcs]
        BY <2>1 DEF StartOver, TypeOK, JobPcs
    <2>4. table' \in [Names -> Procs \cup {None}]
        BY <1>4, JobFields DEF StartSucceeds, StartFails, TypeOK
    <2>5. health' \in [Names -> {"none", "starting", "healthy", "failed"}]
        BY <1>4 DEF StartSucceeds, StartFails, TypeOK
    <2> QED  BY <2>1, <2>2, <2>3, <2>4, <2>5 DEF StartOver, TypeOK
<1>5. CASE StartTimesOut(t)
    <2>1. proc' \in [Procs -> Process]
        <3>1. job[t].proc \in Procs
            BY <1>5 DEF StartTimesOut, Waits, AtStart, StartPcs
        <3>2. proc[job[t].proc] # Ended
            BY <1>5, <3>1, ProcessFields DEF StartTimesOut, Phases
        <3>3. [proc EXCEPT ![job[t].proc].told = TRUE] \in [Procs -> Process]
            BY <3>1, <3>2, ProcUpdate DEF Phases
        <3> QED  BY <1>5, <3>3 DEF StartTimesOut
    <2>2. pc' \in [Tasks -> JobPcs \cup SupPcs]
        BY <1>5 DEF StartTimesOut, TypeOK, JobPcs
    <2> QED  BY <1>5, <2>1, <2>2 DEF StartTimesOut, TypeOK
<1>6. CASE Finish(t)
    <2>1. pc' \in [Tasks -> JobPcs \cup SupPcs]
        BY <1>6 DEF Finish, ReloadAndQueue, AfterReconcile, TypeOK, JobPcs, SupPcs
    <2> QED  BY <1>6, <2>1, NoJobIsJob DEF Finish, ReloadAndQueue, TypeOK
<1>7. ASSUME NEW n \in Names, StopAtOnce(t, n) PROVE TypeOK'
    <2>1. job' \in [Tasks -> Job]
        BY <1>7, JobFields, JobStops DEF StopAtOnce
    <2> QED  BY <1>7, <2>1 DEF StopAtOnce, Forget, TypeOK
<1>8. ASSUME NEW n \in Names, StopBegin(t, n) PROVE TypeOK'
    <2>1. table[n] \in Procs
        BY <1>8 DEF StopBegin, TypeOK
    <2>2. job' \in [Tasks -> Job]
        <3>1. [job EXCEPT ![t].name = n, ![t].proc = table[n]] \in [Tasks -> Job]
            BY <2>1, JobWaits
        <3> QED  BY <1>8, <3>1 DEF StopBegin
    <2>3. proc' \in [Procs -> Process]
        <3>1. [proc EXCEPT ![table[n]].told = TRUE] \in [Procs -> Process]
            BY <1>8, <2>1, ProcUpdate DEF StopBegin, Phases
        <3> QED  BY <1>8, <3>1 DEF StopBegin
    <2>4. pc' \in [Tasks -> JobPcs \cup SupPcs]
        BY <1>8 DEF StopBegin, TypeOK, JobPcs
    <2> QED  BY <1>8, <2>2, <2>3, <2>4 DEF StopBegin, TypeOK
<1>9. ASSUME NEW n \in Names, NEW p \in Procs, StartBegin(t, n, p) PROVE TypeOK'
    <2>1. job' \in [Tasks -> Job]
        <3>1. [job EXCEPT ![t].name = n, ![t].proc = p] \in [Tasks -> Job]
            BY JobWaits
        <3> QED  BY <1>9, <3>1 DEF StartBegin
    <2>2. job[t].want[n] \in Specs
        BY <1>9 DEF StartBegin, Planned
    <2>3. proc' \in [Procs -> Process]
        BY <1>9, <2>2 DEF StartBegin, TypeOK, Process, Phases
    <2>4. pc' \in [Tasks -> JobPcs \cup SupPcs]
        BY <1>9 DEF StartBegin, TypeOK, JobPcs
    <2> QED  BY <1>9, <2>1, <2>3, <2>4 DEF StartBegin, TypeOK
<1> QED
    BY <1>1, <1>2, <1>3, <1>4, <1>5, <1>6, <1>7, <1>8, <1>9 DEF ReconcileNext

\* The shutdown's cancellation keeps the types.
LEMMA CancelTypeOK ==
    ASSUME TypeOK, NEW t \in Tasks, Cancel(t) PROVE TypeOK'
<1> USE DEF configVars, taskVars
<1>1. cancelled' \subseteq Tasks
    BY DEF Cancel, AbortStart, TypeOK
<1>2. EndTask(t) => /\ pc' \in [Tasks -> JobPcs \cup SupPcs] /\ lock' \in Tasks \cup {None}
                    /\ job' \in [Tasks -> Job] /\ probe' \in Probe
    BY NoJobIsJob DEF EndTask, TypeOK, JobPcs, SupPcs
<1>3. health' \in [Names -> {"none", "starting", "healthy", "failed"}]
    BY DEF Cancel, AbortStart, TypeOK
<1>4. CASE Over(t) \/ pc[t] \in {"killing", "abortkill"}
    BY <1>1, <1>3, <1>4 DEF Cancel, AbortStart, Over, TypeOK
<1>5. CASE ~ (Over(t) \/ pc[t] \in {"killing", "abortkill"})
    <2>1. EndTask(t)
        BY <1>5 DEF Cancel, AbortStart
    <2>2. proc' \in [Procs -> Process]
        <3>1. CASE pc[t] = "starting" /\ proc[job[t].proc] # Ended
            <4>1. proc' = [proc EXCEPT ![job[t].proc].told = TRUE,
                                       ![job[t].proc].phase = "dying"]
                BY <1>5, <3>1 DEF Cancel, AbortStart
            <4>2. CASE job[t].proc \in Procs
                BY <3>1, <4>1, <4>2, ProcUpdate DEF Phases
            <4>3. CASE job[t].proc \notin Procs
                BY <4>1, <4>3 DEF TypeOK
            <4> QED  BY <4>2, <4>3
        <3>2. CASE ~ (pc[t] = "starting" /\ proc[job[t].proc] # Ended)
            BY <1>5, <3>2 DEF Cancel, AbortStart, TypeOK
        <3> QED  BY <3>1, <3>2
    <2> QED  BY <1>1, <1>2, <1>3, <2>1, <2>2 DEF Cancel, AbortStart, TypeOK
<1> QED
    BY <1>4, <1>5

\* No step leaves the types.
LEMMA NextTypeOK == TypeOK /\ Planned /\ Waits /\ Probing /\ [Next]_vars => TypeOK'
<1> SUFFICES ASSUME TypeOK, Planned, Waits, Probing, [Next]_vars PROVE TypeOK'
    OBVIOUS
<1>1. CASE UNCHANGED vars
    BY <1>1 DEF vars, configVars, daemonVars, taskVars, downVars, TypeOK
<1>2. CASE Edit
    BY <1>2, BoundsAreNaturals DEF Edit, TypeOK, daemonVars, taskVars, downVars
<1>3. CASE Reload
    BY <1>3 DEF Reload, TypeOK, daemonVars, taskVars, downVars
<1>4. ASSUME NEW j \in Jobs, ControlReconcile(j) PROVE TypeOK'
    BY <1>4, SupIsTask DEF ControlReconcile, TypeOK, daemonVars, downVars, JobPcs
<1>5. ASSUME NEW p \in Procs, ProcNext(p) PROVE TypeOK'
    <2> USE ProcessFields DEF configVars, taskVars, downVars
    <2>1. proc' \in [Procs -> Process]
        BY <1>5 DEF ProcNext, Opened, OpenFails, Lost, Unwind, TypeOK, Process, Phases
    <2>2. faults' \in 0 .. MaxFaults
        BY <1>5, BoundsAreNaturals
        DEF ProcNext, Opened, OpenFails, Lost, Unwind, TypeOK
    <2> QED  BY <1>5, <2>1, <2>2 DEF ProcNext, Opened, OpenFails, Lost, Unwind, TypeOK
<1>6. CASE SupNext
    <2> USE SupIsTask DEF configVars, daemonVars, downVars
    <2>1. CASE Wake
        BY <2>1 DEF Wake, TypeOK, NoProbe, Probe, SupPcs
    <2>2. CASE ProbeAnswers
        BY <2>2 DEF ProbeAnswers, TypeOK, Probe, SupPcs
    <2>3. CASE ProbeFails
        <3>1. faults' \in 0 .. MaxFaults
            BY <2>3, BoundsAreNaturals DEF ProbeFails, TypeOK
        <3>2. probe' \in Probe
            <4>1. probe.now[1] \in Names /\ probe.now[2] \in Procs
                BY <2>3 DEF ProbeFails, Probing
            <4> QED  BY <2>3, <4>1 DEF ProbeFails, TypeOK, Probe
        <3>3. pc' \in [Tasks -> JobPcs \cup SupPcs]
            BY <2>3 DEF ProbeFails, TypeOK, SupPcs
        <3> QED  BY <2>3, <3>1, <3>2, <3>3 DEF ProbeFails, TypeOK
    <2>4. CASE ProbesOver
        BY <2>4 DEF ProbesOver, ReloadAndQueue, TypeOK, JobPcs, SupPcs
    <2>5. CASE AcquireToDrop
        <3>1. job' \in [Tasks -> Job]
            BY <2>5 DEF AcquireToDrop, TypeOK, NoJob, Job, Probe
        <3> QED  BY <2>5, <3>1 DEF AcquireToDrop, TypeOK, JobPcs
    <2>6. ASSUME NEW e \in Names \X Procs, ProbeNext(e) PROVE TypeOK'
        <3>1. /\ [probe EXCEPT !.todo = @ \ {e}, !.now = e] \in Probe
              /\ [probe EXCEPT !.todo = @ \ {e}] \in Probe
            BY DEF TypeOK, Probe
        <3>2. probe' \in Probe
            BY <2>6, <3>1 DEF ProbeNext
        <3>3. pc' \in [Tasks -> JobPcs \cup SupPcs]
            BY <2>6 DEF ProbeNext, TypeOK, SupPcs
        <3> QED  BY <2>6, <3>2, <3>3 DEF ProbeNext, TypeOK
    <2> QED  BY <1>6, <2>1, <2>2, <2>3, <2>4, <2>5, <2>6 DEF SupNext
<1>7. CASE Shutdown
    BY <1>7 DEF Shutdown, configVars, daemonVars, taskVars, TypeOK
<1>8. CASE Terminated
    BY <1>1, <1>8 DEF Terminated
<1> QED
    BY <1>1, <1>2, <1>3, <1>4, <1>5, <1>6, <1>7, <1>8, ReconcileTypeOK, CancelTypeOK DEF Next

--------------------------------------------------------------------------------
(* The invariant is inductive.                                             *)

\* The initial states satisfy it.
LEMMA InitInv == Init => Inv
<1> SUFFICES ASSUME Init PROVE Inv
    OBVIOUS
<1>1. TypeOK
    BY InitTypeOK
<1>2. \A t \in Tasks : pc[t] \in {"sleep", "queued", "idle"} /\ job[t] = NoJob
    BY DEF Init
<1>3. \A t \in Tasks : t # None
    BY NoneIsNothing DEF Tasks
<1>4. LockHeld
    BY <1>2, <1>3 DEF Init, LockHeld, Working
<1>5. Planned /\ Waits /\ Probing
    BY <1>2, SupIsTask DEF Planned, Waits, Probing, NoJob, StopPcs, StartPcs
<1>6. Registered /\ NoOrphan /\ Accounted
    BY DEF Init, Registered, NoOrphan, Accounted
<1> QED
    BY <1>1, <1>4, <1>5, <1>6 DEF Inv

\* The steps that take nobody into a reconcile, out of one or on in one, and that
\* at most end a process, move its phase or tell it to stop.
LEMMA Frame ==
    ASSUME Inv,
           \A p \in Procs : \/ proc'[p] = Ended
                            \/ /\ proc[p] # Ended
                               /\ proc'[p].name = proc[p].name
                               /\ proc[p].told => proc'[p].told,
           \A t \in Tasks : pc'[t] # pc[t] => pc[t] \notin Working /\ pc'[t] \notin Working,
           UNCHANGED <<table, lock, job>>,
           serving' => serving
    PROVE  LockHeld' /\ Planned' /\ Waits' /\ Registered' /\ NoOrphan' /\ Accounted'
<1>1. LockHeld'
    BY DEF Inv, LockHeld
<1>2. Planned'
    BY DEF Inv, Planned
<1>3. \A t \in Tasks : pc'[t] \in StopPcs \cup StartPcs => pc[t] = pc'[t]
    BY DEF StopPcs, StartPcs, Working
<1>4. Waits'
    <2> SUFFICES ASSUME NEW t \in Tasks
                 PROVE  /\ pc'[t] \in StopPcs => AtStop(t)'
                        /\ pc'[t] \in StartPcs => AtStart(t)'
        BY DEF Waits
    <2>1. pc'[t] \in StopPcs => AtStop(t)'
        BY <1>3 DEF Inv, Waits, AtStop
    <2>2. pc'[t] \in StartPcs => AtStart(t)'
        BY <1>3 DEF Inv, Waits, AtStart
    <2> QED  BY <2>1, <2>2
<1>5. Registered'
    <2> SUFFICES ASSUME NEW n \in Names, table[n] # None, proc'[table[n]] # Ended
                 PROVE  proc'[table[n]].name = n
        BY DEF Registered
    <2> table[n] \in Procs
        BY DEF Inv, TypeOK
    <2> QED  BY DEF Inv, Registered
<1>6. NoOrphan'
    <2> SUFFICES ASSUME NEW p \in Procs, proc'[p] # Ended, ~ proc'[p].told
                 PROVE  \/ table[proc'[p].name] = p
                        \/ /\ lock # None
                           /\ pc'[lock] = "starting"
                           /\ job[lock].proc = p
                           /\ job[lock].name = proc'[p].name
        BY DEF NoOrphan
    <2>1. proc[p] # Ended /\ ~ proc[p].told /\ proc'[p].name = proc[p].name
        OBVIOUS
    <2>2. lock # None => lock \in Tasks
        BY DEF Inv, TypeOK
    <2>3. lock # None /\ pc[lock] = "starting" => pc'[lock] = "starting"
        BY <2>2 DEF Working
    <2> QED  BY <2>1, <2>3 DEF Inv, NoOrphan
<1>7. Accounted'
    <2> SUFFICES ASSUME serving', NEW p \in Procs, proc'[p] # Ended
                 PROVE  \/ table[proc'[p].name] = p
                        \/ \E t \in Tasks : pc'[t] \in StartPcs /\ job[t].proc = p
        BY DEF Accounted
    <2>1. proc[p] # Ended /\ proc'[p].name = proc[p].name
        OBVIOUS
    <2>2. \A t \in Tasks : pc[t] \in StartPcs => pc'[t] \in StartPcs
        BY DEF StartPcs, Working
    <2> QED  BY <2>1, <2>2 DEF Inv, Accounted
<1> QED
    BY <1>1, <1>2, <1>4, <1>5, <1>6, <1>7

\* Only the holder of the lock is inside a reconcile.
LEMMA Alone ==
    ASSUME Inv, NEW t \in Tasks, pc[t] \in Working
    PROVE  lock = t /\ lock # None /\ \A u \in Tasks \ {t} : pc[u] \notin Working
BY NoneIsNothing DEF Inv, LockHeld, Tasks

\* A reconcile is entered: nobody is inside one.
LEMMA EnterInv ==
    ASSUME Inv, NEW t \in Tasks, lock = None, lock' = t,
           pc' = [pc EXCEPT ![t] = "run"],
           \E r \in Job : /\ job' = [job EXCEPT ![t] = r]
                          /\ r.drop => t = Sup
                          /\ \A n \in r.start : r.want \in Configs /\ r.want[n] \in Specs,
           UNCHANGED <<proc, table, probe, serving>>
    PROVE  LockHeld' /\ Planned' /\ Waits' /\ Probing' /\ Registered' /\ NoOrphan' /\ Accounted'
<1>1. \A u \in Tasks : u # None /\ pc[u] \notin Working
    BY NoneIsNothing DEF Inv, LockHeld, Tasks
<1>2. pc'[t] = "run" /\ \A u \in Tasks \ {t} : pc'[u] = pc[u] /\ job'[u] = job[u]
    BY DEF Inv, TypeOK
<1>3. \A u \in Tasks : pc'[u] \notin StopPcs \cup StartPcs
    BY <1>1, <1>2 DEF Working, StopPcs, StartPcs
<1>4. LockHeld'
    BY <1>1, <1>2 DEF LockHeld, Working
<1>5. Planned'
    BY <1>2 DEF Inv, TypeOK, Planned
<1>6. Waits' /\ Probing'
    BY <1>2, <1>3 DEF Inv, Waits, Probing, StopPcs, StartPcs
<1>7. Registered'
    BY DEF Inv, Registered
<1>8. NoOrphan' /\ Accounted'
    BY <1>1 DEF Inv, NoOrphan, Accounted, StartPcs, Working
<1> QED
    BY <1>4, <1>5, <1>6, <1>7, <1>8

\* A reconcile is left: by its end, or by the shutdown's cancellation, which
\* leaves the process it was starting told to stop.
LEMMA LeaveInv ==
    ASSUME Inv, NEW t \in Tasks,
           lock' = IF lock = t THEN None ELSE lock,
           pc' \in [Tasks -> JobPcs \cup SupPcs], pc'[t] \notin Working \cup {"probing"},
           \A u \in Tasks \ {t} : pc'[u] = pc[u],
           job' = [job EXCEPT ![t] = NoJob],
           \A p \in Procs : \/ proc'[p] = proc[p]
                            \/ /\ proc'[p].name = proc[p].name
                               /\ proc'[p].told
                               /\ proc[p] # Ended,
           \A p \in Procs : pc[t] \in StartPcs /\ job[t].proc = p =>
                               proc'[p] = Ended \/ (proc'[p].told /\ ~ serving'),
           t # Sup => UNCHANGED probe,
           table' = table, serving' => serving,
           ~ serving' \/ pc[t] \notin StartPcs
    PROVE  LockHeld' /\ Planned' /\ Waits' /\ Probing' /\ Registered' /\ NoOrphan' /\ Accounted'
<1>1. \A u \in Tasks : u # None
    BY NoneIsNothing DEF Tasks
<1>2. job'[t] = NoJob /\ \A u \in Tasks \ {t} : job'[u] = job[u]
    BY DEF Inv, TypeOK
<1>3. LockHeld'
    BY <1>1 DEF Inv, LockHeld
<1>4. Planned'
    BY <1>2 DEF Inv, Planned, NoJob
<1>5. Waits'
    <2> SUFFICES ASSUME NEW u \in Tasks
                 PROVE  /\ pc'[u] \in StopPcs => AtStop(u)'
                        /\ pc'[u] \in StartPcs => AtStart(u)'
        BY DEF Waits
    <2>1. CASE u = t
        BY <2>1 DEF StopPcs, StartPcs, Working
    <2>2. CASE u # t
        <3>1. pc'[u] \in StopPcs => AtStop(u)'
            BY <1>2, <2>2 DEF Inv, Waits, AtStop
        <3>2. ASSUME pc'[u] \in StartPcs PROVE AtStart(u)'
            BY <1>2, <2>2, <3>2 DEF Inv, Waits, AtStart
        <3> QED  BY <3>1, <3>2
    <2> QED  BY <2>1, <2>2
<1>6. Probing'
    BY SupIsTask DEF Inv, Probing
<1>7. Registered'
    <2> SUFFICES ASSUME NEW n \in Names, table[n] # None, proc'[table[n]] # Ended
                 PROVE  proc'[table[n]].name = n
        BY DEF Registered
    <2> table[n] \in Procs
        BY DEF Inv, TypeOK
    <2> QED  BY DEF Inv, Registered
<1>8. NoOrphan'
    <2> SUFFICES ASSUME NEW p \in Procs, proc'[p] # Ended, ~ proc'[p].told
                 PROVE  \/ table[proc'[p].name] = p
                        \/ /\ lock' # None
                           /\ pc'[lock'] = "starting"
                           /\ job'[lock'].proc = p
                           /\ job'[lock'].name = proc'[p].name
        BY DEF NoOrphan
    <2>1. proc'[p] = proc[p]
        OBVIOUS
    <2>2. CASE table[proc[p].name] = p
        BY <2>1, <2>2
    <2>3. CASE table[proc[p].name] # p
        <3>1. /\ lock # None /\ pc[lock] = "starting" /\ job[lock].proc = p
              /\ job[lock].name = proc[p].name
            BY <2>1, <2>3 DEF Inv, NoOrphan
        <3>2. lock # t
            BY <3>1 DEF StartPcs
        <3>3. lock \in Tasks \ {t}
            BY <3>1, <3>2 DEF Inv, TypeOK
        <3> QED  BY <1>2, <2>1, <3>1, <3>2, <3>3
    <2> QED  BY <2>2, <2>3
<1>9. Accounted'
    <2> SUFFICES ASSUME serving', NEW p \in Procs, proc'[p] # Ended
                 PROVE  \/ table[proc'[p].name] = p
                        \/ \E u \in Tasks : pc'[u] \in StartPcs /\ job'[u].proc = p
        BY DEF Accounted
    <2>1. proc[p] # Ended /\ proc'[p].name = proc[p].name
        OBVIOUS
    <2>2. \/ table[proc[p].name] = p
          \/ \E u \in Tasks \ {t} : pc[u] \in StartPcs /\ job[u].proc = p
        BY <2>1 DEF Inv, Accounted
    <2> QED  BY <1>2, <2>1, <2>2
<1> QED
    BY <1>3, <1>4, <1>5, <1>6, <1>7, <1>8, <1>9

\* The holder goes on inside its reconcile: what is left of the invariant is what
\* the step does to the processes, the table and the holder's own wait.
LEMMA InsideInv ==
    ASSUME Inv, NEW t \in Tasks, pc[t] \in Working, pc'[t] \in Working,
           lock' = lock, UNCHANGED <<probe, serving>>,
           \A u \in Tasks \ {t} : pc'[u] = pc[u] /\ job'[u] = job[u],
           job'[t].want = job[t].want, job'[t].drop = job[t].drop, job'[t].start \subseteq job[t].start,
           pc'[t] \in StopPcs => AtStop(t)',
           pc'[t] \in StartPcs => AtStart(t)',
           Registered',
           \A p \in Procs : proc'[p] # Ended /\ ~ proc'[p].told =>
              \/ table'[proc'[p].name] = p
              \/ pc'[t] = "starting" /\ job'[t].proc = p /\ job'[t].name = proc'[p].name,
           serving => \A p \in Procs : proc'[p] # Ended =>
              \/ table'[proc'[p].name] = p
              \/ pc'[t] \in StartPcs /\ job'[t].proc = p
    PROVE  LockHeld' /\ Planned' /\ Waits' /\ Probing' /\ Registered' /\ NoOrphan' /\ Accounted'
<1>1. lock = t /\ lock # None /\ \A u \in Tasks \ {t} : pc[u] \notin Working
    BY Alone
<1>2. LockHeld'
    BY <1>1 DEF Inv, LockHeld
<1>3. Planned'
    BY DEF Inv, Planned
<1>4. Waits'
    BY <1>1 DEF Waits, StopPcs, StartPcs, Working
<1>5. Probing'
    BY SupIsTask DEF Inv, Probing, Working
<1>6. NoOrphan'
    BY <1>1 DEF NoOrphan
<1>7. Accounted'
    BY DEF Accounted
<1> QED
    BY <1>2, <1>3, <1>4, <1>5, <1>6, <1>7

\* Nobody but the holder of the lock is starting a process.
LEMMA OnlyHolderStarts ==
    ASSUME Inv, NEW t \in Tasks, pc[t] \in Working, NEW p \in Procs, proc[p] # Ended
    PROVE  /\ proc[p].name \in Names
           /\ ~ proc[p].told =>
                 \/ table[proc[p].name] = p
                 \/ pc[t] = "starting" /\ job[t].proc = p /\ job[t].name = proc[p].name
           /\ serving =>
                 \/ table[proc[p].name] = p
                 \/ pc[t] \in StartPcs /\ job[t].proc = p
<1>1. lock = t /\ \A u \in Tasks \ {t} : pc[u] \notin Working
    BY Alone
<1>2. proc[p].name \in Names
    BY ProcessFields DEF Inv
<1>3. ~ proc[p].told =>
         \/ table[proc[p].name] = p
         \/ pc[t] = "starting" /\ job[t].proc = p /\ job[t].name = proc[p].name
    BY <1>1 DEF Inv, NoOrphan
<1>4. serving => \/ table[proc[p].name] = p
                 \/ pc[t] \in StartPcs /\ job[t].proc = p
    BY <1>1 DEF Inv, Accounted, StartPcs, Working
<1> QED
    BY <1>2, <1>3, <1>4

\* The steps of a reconcile keep the invariant.
LEMMA ReconcileInv ==
    ASSUME Inv, NEW t \in Tasks, ReconcileNext(t)
    PROVE  LockHeld' /\ Planned' /\ Waits' /\ Probing' /\ Registered' /\ NoOrphan' /\ Accounted'
<1>0. TypeOK
    BY DEF Inv
<1> USE DEF configVars, daemonVars, downVars
<1>1. CASE Acquire(t)
    <2>1. CASE mem = Broken
        <3>1. \A u \in Tasks : pc'[u] # pc[u] => pc[u] \notin Working /\ pc'[u] \notin Working
            BY <1>0, <1>1, <2>1 DEF Acquire, PlanStop, PlanStart, AfterReconcile, TypeOK, Working
        <3>2. Probing'
            BY <1>0, <1>1, <2>1, SupIsTask
            DEF Acquire, PlanStop, PlanStart, AfterReconcile, TypeOK, Inv, Probing
        <3> QED  BY <1>1, <2>1, <3>1, <3>2, Frame DEF Acquire, PlanStop, PlanStart
    <2>2. CASE mem # Broken
        <3> DEFINE r == [NoJob EXCEPT
                           !.want = mem,
                           !.stop = PlanStop(mem),
                           !.start = PlanStart(mem)]
        <3>1. mem \in Configs
            BY <1>0, <2>2 DEF TypeOK
        <3>2. r \in Job
            BY <3>1 DEF NoJob, Job, PlanStop, PlanStart
        <3>3. ~ r.drop /\ \A n \in r.start : r.want \in Configs /\ r.want[n] \in Specs
            BY <3>1 DEF NoJob, Configs, PlanStart
        <3>4. lock = None /\ lock' = t /\ pc' = [pc EXCEPT ![t] = "run"]
              /\ job' = [job EXCEPT ![t] = r] /\ UNCHANGED <<proc, table, probe, serving>>
            BY <1>1, <2>2 DEF Acquire, PlanStop, PlanStart
        <3> HIDE DEF r
        <3>5. \E q \in Job : /\ job' = [job EXCEPT ![t] = q]
                             /\ q.drop => t = Sup
                             /\ \A n \in q.start : q.want \in Configs /\ q.want[n] \in Specs
            BY <3>2, <3>3, <3>4
        <3> QED  BY <3>4, <3>5, EnterInv
    <2> QED  BY <2>1, <2>2
<1>2. CASE StopKill(t)
    <2>1. job[t].proc \in Procs /\ pc[t] \in Working
        BY <1>2 DEF StopKill, Inv, Waits, AtStop, AtStart, StopPcs, StartPcs, Working
    <2>2. \A p \in Procs : /\ proc'[p].name = proc[p].name /\ proc'[p].told = proc[p].told
                           /\ proc[p] = Ended => proc'[p] = Ended
        BY <1>0, <1>2, <2>1, ProcessFields DEF StopKill, TypeOK
    <2>3. pc'[t] \in Working /\ job'[t] = job[t]
          /\ (pc'[t] \in StopPcs => pc[t] \in StopPcs)
          /\ (pc'[t] \in StartPcs => pc[t] \in StartPcs /\ pc[t] # "starting")
          /\ (pc[t] \in StartPcs => pc'[t] \in StartPcs) /\ pc[t] # "starting"
        BY <1>0, <1>2 DEF StopKill, TypeOK, Working, StopPcs, StartPcs
    <2>4. \A u \in Tasks \ {t} : pc'[u] = pc[u] /\ job'[u] = job[u]
        BY <1>0, <1>2 DEF StopKill, TypeOK
    <2>5. pc'[t] \in StopPcs => AtStop(t)'
        BY <1>2, <2>3 DEF StopKill, Inv, Waits, AtStop
    <2>6. pc'[t] \in StartPcs => AtStart(t)'
        BY <1>2, <2>1, <2>2, <2>3 DEF StopKill, Inv, Waits, AtStart
    <2>7. Registered'
        BY <1>0, <1>2, <2>2 DEF StopKill, Inv, Registered, TypeOK
    <2>8. \A p \in Procs : proc'[p] # Ended =>
             /\ ~ proc'[p].told =>
                   \/ table'[proc'[p].name] = p
                   \/ pc'[t] = "starting" /\ job'[t].proc = p /\ job'[t].name = proc'[p].name
             /\ serving => \/ table'[proc'[p].name] = p
                           \/ pc'[t] \in StartPcs /\ job'[t].proc = p
        BY <1>2, <2>1, <2>2, <2>3, OnlyHolderStarts DEF StopKill
    <2> QED  BY <1>2, <2>1, <2>3, <2>4, <2>5, <2>6, <2>7, <2>8, InsideInv DEF StopKill
<1>3. CASE StopEnd(t)
    <2> DEFINE n == job[t].name
    <2>1. /\ pc[t] \in Working /\ pc[t] \notin StartPcs /\ n \in Names
          /\ table[n] = job[t].proc /\ table[n] \in Procs /\ proc[table[n]] = Ended
        BY <1>3 DEF StopEnd, Inv, Waits, AtStop, StopPcs, StartPcs, Working
    <2>2. /\ pc'[t] = "run" /\ job'[t].want = job[t].want
          /\ job'[t].drop = job[t].drop /\ job'[t].start = job[t].start
          /\ \A u \in Tasks \ {t} : pc'[u] = pc[u] /\ job'[u] = job[u]
        BY <1>0, <1>3, JobFields DEF StopEnd, TypeOK, Job
    <2>3. proc' = proc /\ lock' = lock /\ UNCHANGED <<probe, serving>>
          /\ table' = [table EXCEPT ![n] = None]
        BY <1>3 DEF StopEnd, Forget
    <2>4. \A p \in Procs : proc[p] # Ended => proc[p].name # n \/ table[n] # p
        BY <2>1
    <2>5. \A p \in Procs : proc'[p] # Ended =>
             /\ ~ proc'[p].told => table'[proc'[p].name] = p
             /\ serving => table'[proc'[p].name] = p
        BY <1>0, <1>3, <2>1, <2>3, <2>4, OnlyHolderStarts DEF TypeOK, StartPcs
    <2>6. Registered'
        BY <1>0, <2>1, <2>3 DEF Inv, Registered, TypeOK
    <2> HIDE DEF n
    <2> QED  BY <2>1, <2>2, <2>3, <2>5, <2>6, InsideInv DEF Working, StopPcs, StartPcs
<1>4. CASE StartSucceeds(t)
    <2> DEFINE n == job[t].name
               q == job[t].proc
    <2>1. /\ pc[t] = "starting" /\ n \in Names /\ q \in Procs /\ table[n] = None
          /\ proc[q] # Ended /\ proc[q].name = n
        BY <1>4, NoneIsNothing DEF StartSucceeds, Inv, Waits, AtStart, StartPcs, Ended
    <2>2. /\ pc'[t] = "run" /\ job'[t].want = job[t].want
          /\ job'[t].drop = job[t].drop /\ job'[t].start \subseteq job[t].start
          /\ \A u \in Tasks \ {t} : pc'[u] = pc[u] /\ job'[u] = job[u]
        BY <1>0, <1>4, JobFields DEF StartSucceeds, StartOver, TypeOK, Job
    <2>3. proc' = proc /\ lock' = lock /\ UNCHANGED <<probe, serving>>
          /\ table' = [table EXCEPT ![n] = q]
        BY <1>4 DEF StartSucceeds, StartOver
    <2>4. \A p \in Procs : proc'[p] # Ended =>
             /\ ~ proc'[p].told => table'[proc'[p].name] = p
             /\ serving => table'[proc'[p].name] = p
        <3> SUFFICES ASSUME NEW p \in Procs, proc[p] # Ended, ~ proc[p].told \/ serving
                     PROVE  table'[proc[p].name] = p
            BY <2>3
        <3>1. proc[p].name \in Names /\ (table[proc[p].name] = p \/ q = p)
            BY <2>1, OnlyHolderStarts DEF Working
        <3>2. p # None
            BY NoneIsNothing
        <3>3. CASE q = p
            BY <1>0, <2>1, <2>3, <3>3 DEF TypeOK
        <3>4. CASE table[proc[p].name] = p
            <4>1. proc[p].name # n
                BY <2>1, <3>2, <3>4
            <4> QED  BY <1>0, <2>3, <3>1, <3>4, <4>1 DEF TypeOK
        <3> QED  BY <3>1, <3>3, <3>4
    <2>5. Registered'
        BY <1>0, <2>1, <2>3 DEF Inv, Registered, TypeOK
    <2> HIDE DEF n, q
    <2> QED  BY <2>1, <2>2, <2>3, <2>4, <2>5, InsideInv DEF Working, StopPcs, StartPcs
<1>5. CASE StartFails(t)
    <2> DEFINE n == job[t].name
               q == job[t].proc
    <2>1. /\ pc[t] \in StartPcs /\ pc[t] \in Working
          /\ n \in Names /\ q \in Procs /\ table[n] = None /\ proc[q] = Ended
        BY <1>5 DEF StartFails, Inv, Waits, AtStart, StartPcs, Working
    <2>2. /\ pc'[t] = "run" /\ job'[t].want = job[t].want
          /\ job'[t].drop = job[t].drop /\ job'[t].start \subseteq job[t].start
          /\ \A u \in Tasks \ {t} : pc'[u] = pc[u] /\ job'[u] = job[u]
        BY <1>0, <1>5, JobFields DEF StartFails, StartOver, TypeOK, Job
    <2>3. proc' = proc /\ table' = table /\ lock' = lock /\ UNCHANGED <<probe, serving>>
        BY <1>0, <1>5, <2>1 DEF StartFails, StartOver, TypeOK
    <2>4. \A p \in Procs : proc'[p] # Ended =>
             /\ ~ proc'[p].told => table'[proc'[p].name] = p
             /\ serving => table'[proc'[p].name] = p
        BY <2>1, <2>3, OnlyHolderStarts
    <2>5. Registered'
        BY <2>3 DEF Inv, Registered
    <2> HIDE DEF n, q
    <2> QED  BY <2>1, <2>2, <2>3, <2>4, <2>5, InsideInv DEF Working, StopPcs, StartPcs
<1>6. CASE StartTimesOut(t)
    <2>1. pc[t] = "starting" /\ AtStart(t) /\ job[t].proc \in Procs
        BY <1>6 DEF StartTimesOut, Inv, Waits, AtStart, StartPcs
    <2>2. proc[job[t].proc] # Ended
        BY <1>6 DEF StartTimesOut, Ended
    <2>3. \A p \in Procs : /\ proc'[p].name = proc[p].name /\ (proc[p].told => proc'[p].told)
                           /\ proc[p] = Ended => proc'[p] = Ended
        BY <1>0, <1>6, <2>1, <2>2, ProcessFields DEF StartTimesOut, TypeOK
    <2>4. proc'[job[t].proc].told
        BY <1>0, <1>6, <2>1, <2>2, ProcessFields DEF StartTimesOut, TypeOK
    <2>5. /\ pc'[t] = "aborting" /\ job' = job /\ table' = table /\ lock' = lock
          /\ UNCHANGED <<probe, serving>> /\ \A u \in Tasks \ {t} : pc'[u] = pc[u]
        BY <1>0, <1>6 DEF StartTimesOut, TypeOK
    <2>6. AtStart(t)'
        BY <2>1, <2>2, <2>3, <2>4, <2>5 DEF AtStart
    <2>7. Registered'
        BY <1>0, <2>3, <2>5 DEF Inv, Registered, TypeOK
    <2>8. \A p \in Procs : proc'[p] # Ended =>
             /\ ~ proc'[p].told => table'[proc'[p].name] = p
             /\ serving => \/ table'[proc'[p].name] = p
                           \/ pc'[t] \in StartPcs /\ job'[t].proc = p
        BY <2>1, <2>3, <2>4, <2>5, OnlyHolderStarts DEF Working, StartPcs
    <2> QED  BY <2>1, <2>5, <2>6, <2>7, <2>8, InsideInv DEF Working, StopPcs, StartPcs
<1>7. CASE Finish(t)
    <2>1. pc' \in [Tasks -> JobPcs \cup SupPcs]
        BY <1>0, ReconcileTypeOK DEF Inv, TypeOK
    <2>2. pc[t] = "run" /\ pc'[t] \in {"queued", "sleep", "idle"}
          /\ \A u \in Tasks \ {t} : pc'[u] = pc[u]
        BY <1>0, <1>7 DEF Finish, ReloadAndQueue, AfterReconcile, TypeOK, Inv, Planned
    <2>3. lock = t
        BY <2>2, Alone DEF Working
    <2>4. /\ lock' = None /\ job' = [job EXCEPT ![t] = NoJob]
          /\ proc' = proc /\ table' = table /\ serving' = serving
          /\ job[t].drop \/ UNCHANGED probe
        BY <1>7 DEF Finish
    <2>5. t # Sup => UNCHANGED probe
        BY <1>7 DEF Finish, Inv, Planned
    <2> QED  BY <2>1, <2>2, <2>3, <2>4, <2>5, LeaveInv DEF Working, StartPcs
<1>8. ASSUME NEW n \in Names, StopAtOnce(t, n)
      PROVE  LockHeld' /\ Planned' /\ Waits' /\ Probing' /\ Registered' /\ NoOrphan' /\ Accounted'
    <2>1. pc[t] = "run" /\ pc' = pc /\ (table[n] # None => proc[table[n]] = Ended)
        BY <1>8 DEF StopAtOnce, StopNext
    <2>2. /\ job'[t].want = job[t].want /\ job'[t].drop = job[t].drop
          /\ job'[t].start = job[t].start /\ \A u \in Tasks \ {t} : job'[u] = job[u]
        BY <1>0, <1>8, JobFields DEF StopAtOnce, TypeOK, Job
    <2>3. proc' = proc /\ lock' = lock /\ UNCHANGED <<probe, serving>>
          /\ table' = [table EXCEPT ![n] = None]
        BY <1>8 DEF StopAtOnce, Forget
    <2>4. \A p \in Procs : proc'[p] # Ended =>
             /\ ~ proc'[p].told => table'[proc'[p].name] = p
             /\ serving => table'[proc'[p].name] = p
        <3> SUFFICES ASSUME NEW p \in Procs, proc[p] # Ended, ~ proc[p].told \/ serving
                     PROVE  table'[proc[p].name] = p
            BY <2>3
        <3>1. proc[p].name \in Names /\ table[proc[p].name] = p
            BY <2>1, OnlyHolderStarts DEF Working, StartPcs
        <3>2. proc[p].name # n
            BY <2>1, <3>1, NoneIsNothing
        <3> QED  BY <1>0, <2>3, <3>1, <3>2 DEF TypeOK
    <2>5. Registered'
        BY <1>0, <2>3 DEF Inv, Registered, TypeOK
    <2> QED  BY <2>1, <2>2, <2>3, <2>4, <2>5, InsideInv DEF Working, StopPcs, StartPcs
<1>9. ASSUME NEW n \in Names, StopBegin(t, n)
      PROVE  LockHeld' /\ Planned' /\ Waits' /\ Probing' /\ Registered' /\ NoOrphan' /\ Accounted'
    <2>1. pc[t] = "run" /\ table[n] \in Procs /\ proc[table[n]] # Ended
        BY <1>0, <1>9 DEF StopBegin, StopNext, TypeOK
    <2>2. \A p \in Procs : /\ proc'[p].name = proc[p].name /\ (proc[p].told => proc'[p].told)
                           /\ proc[p] = Ended => proc'[p] = Ended
        BY <1>0, <1>9, <2>1, ProcessFields DEF StopBegin, TypeOK
    <2>3. /\ job'[t].want = job[t].want /\ job'[t].drop = job[t].drop
          /\ job'[t].start = job[t].start /\ job'[t].name = n /\ job'[t].proc = table[n]
          /\ \A u \in Tasks \ {t} : job'[u] = job[u]
        BY <1>0, <1>9, JobFields DEF StopBegin, TypeOK, Job
    <2>4. /\ pc'[t] = "stopping" /\ table' = table /\ lock' = lock
          /\ UNCHANGED <<probe, serving>> /\ \A u \in Tasks \ {t} : pc'[u] = pc[u]
        BY <1>0, <1>9 DEF StopBegin, TypeOK
    <2>5. AtStop(t)'
        BY <2>1, <2>3, <2>4 DEF AtStop
    <2>6. Registered'
        BY <1>0, <2>2, <2>4 DEF Inv, Registered, TypeOK
    <2>7. \A p \in Procs : proc'[p] # Ended =>
             /\ ~ proc'[p].told => table'[proc'[p].name] = p
             /\ serving => table'[proc'[p].name] = p
        BY <2>1, <2>2, <2>4, OnlyHolderStarts DEF Working, StartPcs
    <2> QED  BY <2>1, <2>3, <2>4, <2>5, <2>6, <2>7, InsideInv DEF Working, StopPcs, StartPcs
<1>10. ASSUME NEW n \in Names, NEW q \in Procs, StartBegin(t, n, q)
       PROVE  LockHeld' /\ Planned' /\ Waits' /\ Probing' /\ Registered' /\ NoOrphan' /\ Accounted'
    <2>1. pc[t] = "run" /\ table[n] = None /\ proc[q] = Ended /\ \A m \in Names : table[m] # q
        BY <1>10 DEF StartBegin, Free
    <2>2. /\ proc'[q].name = n /\ ~ proc'[q].told /\ proc'[q] # Ended
          /\ \A p \in Procs \ {q} : proc'[p] = proc[p]
        BY <1>0, <1>10, NoneIsNothing DEF StartBegin, TypeOK, Ended
    <2>3. /\ job'[t].want = job[t].want /\ job'[t].drop = job[t].drop
          /\ job'[t].start = job[t].start /\ job'[t].name = n /\ job'[t].proc = q
          /\ \A u \in Tasks \ {t} : job'[u] = job[u]
        BY <1>0, <1>10, JobFields DEF StartBegin, TypeOK, Job
    <2>4. /\ pc'[t] = "starting" /\ table' = table /\ lock' = lock
          /\ UNCHANGED <<probe, serving>> /\ \A u \in Tasks \ {t} : pc'[u] = pc[u]
        BY <1>0, <1>10 DEF StartBegin, TypeOK
    <2>5. AtStart(t)'
        BY <2>1, <2>2, <2>3, <2>4 DEF AtStart
    <2>6. Registered'
        BY <1>0, <2>1, <2>2, <2>4 DEF Inv, Registered, TypeOK
    <2>7. \A p \in Procs \ {q} : proc'[p] # Ended =>
             /\ ~ proc'[p].told => table'[proc'[p].name] = p
             /\ serving => table'[proc'[p].name] = p
        BY <2>1, <2>2, <2>4, OnlyHolderStarts DEF Working, StartPcs
    <2>8. pc'[t] = "starting" /\ job'[t].proc = q /\ job'[t].name = proc'[q].name
        BY <2>2, <2>3, <2>4
    <2> QED
        BY <2>1, <2>3, <2>4, <2>5, <2>6, <2>7, <2>8, InsideInv DEF Working, StopPcs, StartPcs
<1> QED
    BY <1>1, <1>2, <1>3, <1>4, <1>5, <1>6, <1>7, <1>8, <1>9, <1>10 DEF ReconcileNext

\* The shutdown's cancellation keeps it.
LEMMA CancelInv ==
    ASSUME Inv, NEW t \in Tasks, Cancel(t)
    PROVE  LockHeld' /\ Planned' /\ Waits' /\ Probing' /\ Registered' /\ NoOrphan' /\ Accounted'
<1>0. TypeOK
    BY DEF Inv
<1>1. ~ serving /\ ~ serving' /\ table' = table
    BY DEF Cancel, AbortStart
<1>2. CASE Over(t) \/ pc[t] \in {"killing", "abortkill"}
    <2>1. UNCHANGED <<proc, pc, lock, job, probe>>
        BY <1>2 DEF Cancel, AbortStart, Over, taskVars
    <2>2. Probing'
        BY <2>1 DEF Inv, Probing
    <2> QED  BY <1>1, <2>1, <2>2, Frame
<1>3. CASE ~ (Over(t) \/ pc[t] \in {"killing", "abortkill"})
    <2>1. EndTask(t)
        BY <1>3 DEF Cancel, AbortStart
    <2>2. /\ pc' \in [Tasks -> JobPcs \cup SupPcs] /\ pc'[t] \in {"done", "idle"}
          /\ \A u \in Tasks \ {t} : pc'[u] = pc[u]
        BY <1>0, <2>1 DEF EndTask, TypeOK, JobPcs, SupPcs
    <2>3. CASE pc[t] = "starting"
        <3>1. AtStart(t)
            BY <2>3 DEF Inv, Waits, StartPcs
        <3>2. CASE proc[job[t].proc] = Ended
            <4>1. proc' = proc
                BY <1>3, <2>3, <3>2 DEF Cancel, AbortStart
            <4> QED  BY <1>1, <2>1, <2>2, <3>2, <4>1, LeaveInv DEF EndTask, Working
        <3>3. CASE proc[job[t].proc] # Ended
            <4>1. proc' = [proc EXCEPT ![job[t].proc].told = TRUE,
                                       ![job[t].proc].phase = "dying"]
                BY <1>3, <2>3, <3>3 DEF Cancel, AbortStart
            <4>2. proc[job[t].proc] \in [name : Names, spec : Specs, phase : Phases, told : BOOLEAN]
                BY <1>0, <3>1, <3>3, ProcessFields DEF AtStart
            <4>3. /\ \A p \in Procs \ {job[t].proc} : proc'[p] = proc[p]
                  /\ proc'[job[t].proc].name = proc[job[t].proc].name
                  /\ proc'[job[t].proc].told
                BY <1>0, <3>1, <4>1, <4>2 DEF AtStart, TypeOK
            <4> QED  BY <1>1, <2>1, <2>2, <3>3, <4>3, LeaveInv DEF EndTask, Working
        <3> QED  BY <3>2, <3>3
    <2>4. CASE pc[t] # "starting"
        <3>1. proc' = proc
            BY <1>3, <2>4 DEF Cancel, AbortStart
        <3>2. pc[t] \in StartPcs => AtStart(t) /\ pc[t] # "starting"
            BY <2>4 DEF Inv, Waits
        <3> QED  BY <1>1, <2>1, <2>2, <3>1, <3>2, LeaveInv DEF EndTask, Working, AtStart
    <2> QED  BY <2>3, <2>4
<1> QED
    BY <1>2, <1>3

\* Every step keeps the invariant.
LEMMA NextInv == Inv /\ [Next]_vars => Inv'
<1> SUFFICES ASSUME Inv, [Next]_vars PROVE Inv'
    OBVIOUS
<1>0. TypeOK /\ TypeOK'
    BY NextTypeOK DEF Inv
<1> DEFINE Rest == LockHeld /\ Planned /\ Waits /\ Registered /\ NoOrphan /\ Accounted
<1>1. ASSUME UNCHANGED <<proc, table, lock, job>>, serving' => serving,
             \A t \in Tasks : pc'[t] # pc[t] => pc[t] \notin Working /\ pc'[t] \notin Working
      PROVE  Rest'
    BY <1>1, Frame
<1>2. CASE UNCHANGED vars
    <2>1. Rest'
        BY <1>1, <1>2 DEF vars, daemonVars, taskVars, downVars
    <2>2. Probing'
        BY <1>2 DEF vars, taskVars, Inv, Probing
    <2> QED  BY <1>0, <2>1, <2>2 DEF Inv
<1>3. CASE Edit \/ Reload \/ Shutdown
    <2>1. UNCHANGED <<proc, table, lock, job, pc, probe>> /\ (serving' => serving)
        BY <1>3 DEF Edit, Reload, Shutdown, daemonVars, taskVars, downVars
    <2>2. Rest' /\ Probing'
        BY <1>1, <2>1 DEF Inv, Probing
    <2> QED  BY <1>0, <2>2 DEF Inv
<1>4. ASSUME NEW j \in Jobs, ControlReconcile(j) PROVE Inv'
    <2>1. UNCHANGED <<proc, table, lock, job, probe, serving>>
        BY <1>4 DEF ControlReconcile, daemonVars, downVars
    <2>2. \A t \in Tasks : pc'[t] # pc[t] => pc[t] = "idle" /\ pc'[t] = "queued"
        BY <1>0, <1>4, SupIsTask DEF ControlReconcile, TypeOK
    <2>3. Rest' /\ Probing'
        BY <1>1, <2>1, <2>2, SupIsTask DEF Inv, Probing, Working
    <2> QED  BY <1>0, <2>3 DEF Inv
<1>5. ASSUME NEW p \in Procs, ProcNext(p) PROVE Inv'
    <2>1. UNCHANGED <<table, lock, job, pc, probe, serving>>
        BY <1>5 DEF ProcNext, Opened, OpenFails, Lost, Unwind, taskVars, downVars
    <2>2. \A q \in Procs : \/ proc'[q] = Ended
                           \/ /\ proc[q] # Ended /\ proc'[q].name = proc[q].name
                              /\ proc[q].told => proc'[q].told
        BY <1>0, <1>5, ProcessFields
        DEF ProcNext, Opened, OpenFails, Lost, Unwind, TypeOK, Phases
    <2>3. Rest' /\ Probing'
        BY <2>1, <2>2, Frame DEF Inv, Probing
    <2> QED  BY <1>0, <2>3 DEF Inv
<1>6. ASSUME NEW t \in Tasks, ReconcileNext(t) PROVE Inv'
    BY <1>0, <1>6, ReconcileInv DEF Inv
<1>7. ASSUME NEW t \in Tasks, Cancel(t) PROVE Inv'
    BY <1>0, <1>7, CancelInv DEF Inv
<1>8. CASE SupNext
    <2> USE SupIsTask DEF configVars, daemonVars, downVars
    <2>1. CASE AcquireToDrop
        <3> DEFINE r == [NoJob EXCEPT !.stop = probe.dead, !.drop = TRUE]
        <3>1. r \in Job
            BY <1>0 DEF TypeOK, Probe, NoJob, Job
        <3>2. \A n \in r.start : r.want \in Configs /\ r.want[n] \in Specs
            BY DEF NoJob
        <3>3. lock = None /\ lock' = Sup /\ pc' = [pc EXCEPT ![Sup] = "run"]
              /\ job' = [job EXCEPT ![Sup] = r] /\ UNCHANGED <<proc, table, probe, serving>>
            BY <2>1 DEF AcquireToDrop
        <3> HIDE DEF r
        <3>4. Rest' /\ Probing'
            BY <3>1, <3>2, <3>3, EnterInv
        <3> QED  BY <1>0, <3>4 DEF Inv
    <2>2. CASE Wake \/ ProbeAnswers \/ ProbeFails \/ ProbesOver
        <3>1. UNCHANGED <<proc, table, lock, job, serving>>
            BY <2>2 DEF Wake, ProbeAnswers, ProbeFails, ProbesOver
        <3>2. /\ pc[Sup] \in {"sleep", "probing", "probe"}
              /\ pc'[Sup] \in {"probe", "queued", "sleep", "wait"}
              /\ \A t \in Tasks \ {Sup} : pc'[t] = pc[t]
            BY <1>0, <2>2 DEF Wake, ProbeAnswers, ProbeFails, ProbesOver, ReloadAndQueue, TypeOK
        <3>3. Rest' /\ Probing'
            BY <1>1, <3>1, <3>2 DEF Inv, Probing, Working
        <3> QED  BY <1>0, <3>3 DEF Inv
    <2>3. ASSUME NEW e \in Names \X Procs, ProbeNext(e) PROVE Inv'
        <3>1. UNCHANGED <<proc, table, lock, job, serving>>
            BY <2>3 DEF ProbeNext
        <3>2. /\ pc[Sup] = "probe" /\ pc'[Sup] \in {"probe", "probing"}
              /\ \A t \in Tasks \ {Sup} : pc'[t] = pc[t]
              /\ pc'[Sup] = "probing" => probe' = [probe EXCEPT !.todo = @ \ {e}, !.now = e]
            BY <1>0, <2>3 DEF ProbeNext, TypeOK
        <3>3. Probing'
            BY <1>0, <3>2 DEF Probing, TypeOK, Probe
        <3>4. Rest'
            BY <1>1, <3>1, <3>2 DEF Working
        <3> QED  BY <1>0, <3>3, <3>4 DEF Inv
    <2> QED  BY <1>8, <2>1, <2>2, <2>3 DEF SupNext
<1>9. CASE Terminated
    BY <1>2, <1>9 DEF Terminated
<1> QED
    BY <1>2, <1>3, <1>4, <1>5, <1>6, <1>7, <1>8, <1>9 DEF Next

\* The invariant holds for ever.
LEMMA Invariance == Spec => []Inv
BY InitInv, NextInv, PTL DEF Spec

--------------------------------------------------------------------------------
(* What follows.                                                           *)

\* The daemon's tables, tasks and processes keep their types for ever.
THEOREM TypeCorrect == Spec => []TypeOK
BY Invariance, PTL DEF Inv

\* No connection is ever leaked by the reconciles, the supervisor or the
\* shutdown: one nobody told to stop can be found in shared_processes, or is
\* being started under the lock.
THEOREM NothingLeaked == Spec => []NoOrphan
BY Invariance, PTL DEF Inv

\* While the daemon serves, no server runs twice.
THEOREM NeverTwice == Spec => []OneInstance
<1>1. Inv => OneInstance
    <2> SUFFICES ASSUME Inv, serving, NEW p \in Procs, NEW q \in Procs,
                        proc[p] # Ended, proc[q] # Ended, proc[p].name = proc[q].name
                 PROVE  p = q
        BY DEF OneInstance
    <2>1. \A r \in Procs : proc[r] # Ended =>
             \/ table[proc[r].name] = r
             \/ \E t \in Tasks : /\ pc[t] \in StartPcs /\ job[t].proc = r
                                 /\ lock = t /\ table[proc[r].name] = None
        <3> SUFFICES ASSUME NEW r \in Procs, proc[r] # Ended, table[proc[r].name] # r
                     PROVE  \E t \in Tasks : /\ pc[t] \in StartPcs /\ job[t].proc = r
                                             /\ lock = t /\ table[proc[r].name] = None
            OBVIOUS
        <3>1. PICK t \in Tasks : pc[t] \in StartPcs /\ job[t].proc = r
            BY DEF Inv, Accounted
        <3>2. lock = t /\ AtStart(t)
            BY <3>1 DEF Inv, LockHeld, Waits, StartPcs, Working
        <3> QED  BY <3>1, <3>2 DEF AtStart
    <2>2. p # None /\ q # None
        BY NoneIsNothing
    <2> QED  BY <2>1, <2>2
<1> QED
    BY <1>1, Invariance, PTL
================================================================================
