-------------------------- MODULE ServerPromises_proofs -------------------------
(***************************************************************************)
(* What the daemon promises about its servers, for every set of names,     *)
(* specs, process objects and background tasks: the status it reports is   *)
(* the truth, a reconcile applies the configuration it planned from, and   *)
(* each server has one connection at a time (ServerSlots).                 *)
(***************************************************************************)
EXTENDS ServerLifecycle_proofs

--------------------------------------------------------------------------------
(* The strengthening of Inv that the status and the reconcile need.        *)

\* The health map says "starting" exactly of the names being started.
StartingTold ==
    \A n \in Names :
        health[n] = "starting" <=> \E t \in Tasks : pc[t] \in StartPcs /\ job[t].name = n

\* A process is registered only once its handshake is over.
RegisteredOpen ==
    \A n \in Names : table[n] # None => proc[table[n]].phase # "opening"

\* A name is as the reconcile of t wants it, or still on one of its lists.
Sorted(t, n) ==
    IF job[t].want[n] = None
      THEN n \in job[t].stop \/ table[n] = None
      ELSE /\ n \notin job[t].stop
           /\ \/ n \in job[t].start
              \/ table[n] = None /\ health[n] = "failed"
              \/ table[n] # None /\ proc[table[n]] = Ended
              \/ table[n] # None /\ proc[table[n]].spec = job[t].want[n]

\* A reconcile is on its way: what it waits for is on its lists, and the process
\* it is starting has the wanted spec.
OnItsWay(t) ==
    /\ job[t].want \in Configs
    /\ \A n \in Names : Sorted(t, n)
    /\ pc[t] \in StopPcs => job[t].name \in job[t].stop \cup job[t].start
    /\ pc[t] \in StartPcs =>
          /\ job[t].name \in job[t].start
          /\ proc[job[t].proc] # Ended => proc[job[t].proc].spec = job[t].want[job[t].name]
Applying == \A t \in Tasks : pc[t] \in Working /\ ~ job[t].drop => OnItsWay(t)

Promises == StartingTold /\ RegisteredOpen /\ Applying

--------------------------------------------------------------------------------
(* The strengthening is inductive.                                         *)

\* The initial states satisfy it.
LEMMA InitPromises == Init => Promises
<1> SUFFICES ASSUME Init PROVE Promises
    OBVIOUS
<1>1. \A t \in Tasks : pc[t] \in {"sleep", "queued", "idle"}
    BY DEF Init
<1> QED
    BY <1>1 DEF Init, Promises, StartingTold, RegisteredOpen, Applying, Working, StartPcs

\* The steps that take nobody into a reconcile or on to another name in one, and
\* that at most end a process or move it past its handshake.
LEMMA PromisesFrame ==
    ASSUME Inv, Promises,
           \A p \in Procs : \/ proc'[p] = Ended
                            \/ /\ proc[p] # Ended
                               /\ proc'[p].spec = proc[p].spec
                               /\ proc'[p].phase = "opening" => proc[p].phase = "opening",
           \A t \in Tasks : pc'[t] \in Working =>
                               /\ pc[t] \in Working
                               /\ job'[t] = job[t]
                               /\ pc'[t] \in StopPcs => pc[t] \in StopPcs
                               /\ pc'[t] \in StartPcs => pc[t] \in StartPcs,
           \A t \in Tasks : pc[t] \in StartPcs => pc'[t] \in StartPcs,
           UNCHANGED <<table, health>>
    PROVE  Promises'
<1>1. \A n \in Names : table[n] # None => table[n] \in Procs
    BY DEF Inv, TypeOK
<1>2. \A t \in Tasks : pc[t] \in StartPcs <=> pc'[t] \in StartPcs
    BY DEF StartPcs, Working
<1>3. \A t \in Tasks : pc'[t] \in StartPcs => job'[t] = job[t]
    BY DEF StartPcs, Working
<1>4. StartingTold'
    BY <1>2, <1>3 DEF Promises, StartingTold
<1>5. RegisteredOpen'
    <2> SUFFICES ASSUME NEW n \in Names, table[n] # None
                 PROVE  proc'[table[n]].phase # "opening"
        BY DEF RegisteredOpen
    <2>1. table[n] \in Procs /\ proc[table[n]].phase # "opening"
        BY <1>1 DEF Promises, RegisteredOpen
    <2> QED  BY <2>1 DEF Ended
<1>6. Applying'
    <2> SUFFICES ASSUME NEW t \in Tasks, pc'[t] \in Working, ~ job'[t].drop
                 PROVE  OnItsWay(t)'
        BY DEF Applying
    <2>1. OnItsWay(t) /\ job'[t] = job[t]
        BY DEF Promises, Applying
    <2>2. \A n \in Names : Sorted(t, n)'
        BY <1>1, <2>1 DEF OnItsWay, Sorted
    <2>3. pc'[t] \in StartPcs => job[t].proc \in Procs
        BY <1>2 DEF Inv, Waits, AtStart
    <2> QED  BY <2>1, <2>2, <2>3 DEF OnItsWay
<1> QED
    BY <1>4, <1>5, <1>6 DEF Promises

\* A step inside the reconcile of t, or into it: nobody else is in one, and what
\* is left to show is what the step does to t's own names.
LEMMA PromisesInside ==
    ASSUME Inv, Promises, NEW t \in Tasks,
           \A u \in Tasks \ {t} : pc[u] \notin Working /\ pc'[u] = pc[u],
           \A n \in Names : health'[n] = "starting" <=> pc'[t] \in StartPcs /\ job'[t].name = n,
           \A n \in Names : table'[n] # None => proc'[table'[n]].phase # "opening",
           pc'[t] \in Working /\ ~ job'[t].drop => OnItsWay(t)'
    PROVE  Promises'
<1>1. \A u \in Tasks \ {t} : pc'[u] \notin StartPcs
    BY DEF Working, StartPcs
<1>2. StartingTold'
    BY <1>1 DEF StartingTold
<1>3. RegisteredOpen'
    BY DEF RegisteredOpen
<1>4. Applying'
    BY DEF Applying
<1> QED
    BY <1>2, <1>3, <1>4 DEF Promises

\* What a task inside a reconcile may count on.
LEMMA Inside ==
    ASSUME Inv, Promises, NEW t \in Tasks, pc[t] \in Working
    PROVE  /\ \A u \in Tasks \ {t} : pc[u] \notin Working
           /\ \A n \in Names : health[n] = "starting" <=> pc[t] \in StartPcs /\ job[t].name = n
           /\ ~ job[t].drop => OnItsWay(t)
<1>1. \A u \in Tasks \ {t} : pc[u] \notin Working
    BY Alone
<1>2. \A u \in Tasks \ {t} : pc[u] \notin StartPcs
    BY <1>1 DEF Working, StartPcs
<1>3. \A n \in Names : health[n] = "starting" <=> pc[t] \in StartPcs /\ job[t].name = n
    BY <1>2 DEF Promises, StartingTold
<1> QED
    BY <1>1, <1>3 DEF Promises, Applying

\* A reconcile begins: everything it wants is on a list or as it wants it.
LEMMA AcquirePromises ==
    ASSUME Inv, Promises, NEW t \in Tasks, Acquire(t)
    PROVE  Promises'
<1> USE DEF configVars, daemonVars, downVars
<1>0. TypeOK
    BY DEF Inv
<1>1. CASE mem = Broken
    <2>1. UNCHANGED <<proc, table, health, job>>
        BY <1>1 DEF Acquire, PlanStop, PlanStart
    <2>2. \A u \in Tasks : pc'[u] = pc[u] \/ (pc[u] \notin Working /\ pc'[u] \notin Working)
        BY <1>0, <1>1 DEF Acquire, PlanStop, PlanStart, AfterReconcile, TypeOK, Working
    <2> QED  BY <2>1, <2>2, PromisesFrame DEF Working, StartPcs
<1>2. CASE mem # Broken
    <2>1. mem \in Configs
        BY <1>0, <1>2 DEF TypeOK
    <2>2. \A u \in Tasks : pc[u] \notin Working
        BY NoneIsNothing DEF Acquire, Inv, LockHeld, Tasks
    <2>3. pc'[t] = "run" /\ (\A u \in Tasks \ {t} : pc'[u] = pc[u]) /\ UNCHANGED <<proc, table, health>>
        BY <1>0, <1>2 DEF Acquire, PlanStop, PlanStart, TypeOK
    <2>4. job'[t].want = mem /\ job'[t].stop = PlanStop(mem) /\ job'[t].start = PlanStart(mem)
        BY <1>0, <1>2 DEF Acquire, PlanStop, PlanStart, TypeOK, NoJob
    <2>5. \A n \in Names : Sorted(t, n)'
        BY <2>1, <2>3, <2>4 DEF Sorted, PlanStop, PlanStart, Current
    <2>6. OnItsWay(t)'
        BY <2>1, <2>3, <2>4, <2>5 DEF OnItsWay, StopPcs, StartPcs
    <2>7. \A n \in Names : health'[n] # "starting"
        BY <2>2, <2>3 DEF Promises, StartingTold, StartPcs, Working
    <2> QED  BY <2>2, <2>3, <2>6, <2>7, PromisesInside DEF Promises, RegisteredOpen, StartPcs
<1> QED
    BY <1>1, <1>2

\* A name is stopped: at once, or when its process is over.
LEMMA ForgetPromises ==
    ASSUME Inv, Promises, NEW t \in Tasks, NEW n \in Names,
           pc[t] \in Working \ StartPcs, pc'[t] = "run",
           Forget(n), proc' = proc,
           \A u \in Tasks \ {t} : pc'[u] = pc[u],
           ~ job[t].drop => n \in job[t].stop \cup job[t].start,
           job'[t].want = job[t].want, job'[t].drop = job[t].drop,
           job'[t].start = job[t].start, job'[t].stop = job[t].stop \ {n}
    PROVE  Promises'
<1>1. /\ table' \in [Names -> Procs \cup {None}] /\ table'[n] = None
      /\ \A m \in Names \ {n} : table'[m] = table[m] /\ health'[m] = health[m]
      /\ health'[n] = "none"
    BY DEF Inv, TypeOK, Forget
<1>2. \A m \in Names : health'[m] # "starting"
    BY <1>1, Inside
<1>3. ASSUME ~ job[t].drop PROVE OnItsWay(t)'
    <2>1. OnItsWay(t)
        BY <1>3, Inside
    <2>2. ASSUME NEW m \in Names PROVE Sorted(t, m)'
        <3>1. Sorted(t, m)
            BY <2>1 DEF OnItsWay
        <3>2. CASE m = n
            <4>1. Sorted(t, m)' <=> (job[t].want[m] # None => m \in job[t].start)
                BY <1>1, <1>2, <3>2 DEF Sorted
            <4>2. n \in job[t].stop \cup job[t].start
                BY <1>3
            <4> QED  BY <3>1, <3>2, <4>1, <4>2 DEF Sorted
        <3>3. CASE m # n
            BY <1>1, <3>1, <3>3 DEF Sorted
        <3> QED  BY <3>2, <3>3
    <2> QED  BY <2>1, <2>2 DEF OnItsWay, StopPcs, StartPcs
<1>4. \A m \in Names : table'[m] # None => proc'[table'[m]].phase # "opening"
    BY <1>1 DEF Promises, RegisteredOpen
<1>5. \A u \in Tasks \ {t} : pc[u] \notin Working
    BY Inside
<1> QED
    BY <1>2, <1>3, <1>4, <1>5, PromisesInside DEF StartPcs

\* The stop of a name begins: it stays on its list.
LEMMA StopBeginPromises ==
    ASSUME Inv, Promises, NEW t \in Tasks, NEW n \in Names, StopBegin(t, n)
    PROVE  Promises'
<1> USE DEF configVars
<1>0. TypeOK /\ pc[t] = "run" /\ table[n] \in Procs /\ proc[table[n]] # Ended
    BY DEF Inv, TypeOK, StopBegin, StopNext
<1>1. pc[t] \in Working /\ pc[t] \notin StartPcs
    BY <1>0 DEF Working, StartPcs
<1>2. \A p \in Procs : /\ proc'[p].spec = proc[p].spec /\ proc'[p].phase = proc[p].phase
                       /\ proc[p] = Ended => proc'[p] = Ended
    BY <1>0, ProcessFields DEF StopBegin, TypeOK
<1>3. /\ job'[t].want = job[t].want /\ job'[t].drop = job[t].drop /\ job'[t].stop = job[t].stop
      /\ job'[t].start = job[t].start /\ job'[t].name = n
    BY <1>0, JobFields DEF StopBegin, TypeOK, Job
<1>4. /\ pc'[t] = "stopping" /\ \A u \in Tasks \ {t} : pc'[u] = pc[u]
      /\ UNCHANGED <<table, health>>
    BY <1>0 DEF StopBegin, TypeOK
<1>5. ASSUME ~ job[t].drop PROVE OnItsWay(t)'
    <2>1. OnItsWay(t)
        BY <1>1, <1>5, Inside
    <2>2. \A m \in Names : Sorted(t, m)'
        BY <1>0, <1>2, <1>3, <1>4, <2>1 DEF OnItsWay, Sorted, TypeOK
    <2>3. n \in job[t].stop \cup job[t].start
        BY DEF StopBegin, StopNext
    <2> QED  BY <1>3, <1>4, <2>1, <2>2, <2>3 DEF OnItsWay, StartPcs
<1>6. \A m \in Names : table'[m] # None => proc'[table'[m]].phase # "opening"
    BY <1>0, <1>2, <1>4 DEF Promises, RegisteredOpen, TypeOK
<1>7. \A m \in Names : health'[m] # "starting"
    BY <1>1, <1>4, Inside
<1>8. \A u \in Tasks \ {t} : pc[u] \notin Working
    BY <1>1, Inside
<1> QED
    BY <1>3, <1>4, <1>5, <1>6, <1>7, <1>8, PromisesInside DEF StartPcs

\* A start begins: the new process has the wanted spec, and the name is "starting".
LEMMA StartBeginPromises ==
    ASSUME Inv, Promises, NEW t \in Tasks, NEW n \in Names, NEW q \in Procs, StartBegin(t, n, q)
    PROVE  Promises'
<1> USE DEF configVars
<1>0. TypeOK /\ pc[t] = "run" /\ table[n] = None /\ n \in job[t].start
      /\ \A m \in Names : table[m] # q
    BY DEF Inv, StartBegin, Free
<1>1. pc[t] \in Working /\ pc[t] \notin StartPcs
    BY <1>0 DEF Working, StartPcs
<1>2. /\ proc'[q].spec = job[t].want[n]
      /\ \A p \in Procs \ {q} : proc'[p] = proc[p]
    BY <1>0 DEF StartBegin, TypeOK
<1>3. /\ job'[t].want = job[t].want /\ job'[t].drop = job[t].drop /\ job'[t].stop = job[t].stop
      /\ job'[t].start = job[t].start /\ job'[t].name = n /\ job'[t].proc = q
    BY <1>0, JobFields DEF StartBegin, TypeOK, Job
<1>4. /\ pc'[t] = "starting" /\ table' = table
      /\ \A u \in Tasks \ {t} : pc'[u] = pc[u]
      /\ health'[n] = "starting"
      /\ \A m \in Names \ {n} : health'[m] = health[m]
    BY <1>0 DEF StartBegin, TypeOK
<1>5. ASSUME ~ job[t].drop PROVE OnItsWay(t)'
    <2>1. OnItsWay(t)
        BY <1>1, <1>5, Inside
    <2>2. ASSUME NEW m \in Names PROVE Sorted(t, m)'
        <3>1. Sorted(t, m)
            BY <2>1 DEF OnItsWay
        <3>2. CASE m = n
            BY <1>0, <1>3, <1>4, <3>1, <3>2 DEF Sorted
        <3>3. CASE m # n
            <4>1. table[m] # None => table[m] \in Procs \ {q}
                BY <1>0 DEF TypeOK
            <4> QED  BY <1>2, <1>3, <1>4, <3>1, <3>3, <4>1 DEF Sorted
        <3> QED  BY <3>2, <3>3
    <2> QED  BY <1>0, <1>2, <1>3, <1>4, <2>1, <2>2 DEF OnItsWay, StopPcs
<1>6. \A m \in Names : table'[m] # None => proc'[table'[m]].phase # "opening"
    <2>1. \A m \in Names : table[m] # None => table[m] \in Procs \ {q}
        BY <1>0 DEF TypeOK
    <2> QED  BY <1>2, <1>4, <2>1 DEF Promises, RegisteredOpen
<1>7. \A m \in Names : health'[m] = "starting" <=> m = n
    BY <1>1, <1>4, Inside
<1>8. \A u \in Tasks \ {t} : pc[u] \notin Working
    BY <1>1, Inside
<1> QED
    BY <1>3, <1>4, <1>5, <1>6, <1>7, <1>8, PromisesInside DEF StartPcs

\* A start ends: the process is registered, or the name is "failed".
LEMMA StartOverPromises ==
    ASSUME Inv, Promises, NEW t \in Tasks, StartSucceeds(t) \/ StartFails(t)
    PROVE  Promises'
<1> USE DEF configVars
<1> DEFINE n == job[t].name
           q == job[t].proc
<1>0. TypeOK /\ pc[t] \in StartPcs /\ pc[t] \in Working /\ AtStart(t)
    BY DEF Inv, Waits, StartSucceeds, StartFails, StartPcs, Working
<1>1. n \in Names /\ q \in Procs /\ table[n] = None
    BY <1>0 DEF AtStart
<1>2. /\ pc'[t] = "run" /\ \A u \in Tasks \ {t} : pc'[u] = pc[u]
      /\ job'[t].want = job[t].want /\ job'[t].drop = job[t].drop /\ job'[t].stop = job[t].stop
      /\ job'[t].start = job[t].start \ {n} /\ proc' = proc
    BY <1>0, JobFields DEF StartSucceeds, StartFails, StartOver, TypeOK, Job
<1>3. \A m \in Names \ {n} : table'[m] = table[m] /\ health'[m] = health[m]
    BY <1>0 DEF StartSucceeds, StartFails, TypeOK
<1>4. \/ /\ table'[n] = q /\ health'[n] = "healthy"
         /\ proc[q].phase \in {"up", "broken"} /\ proc[q] # Ended
      \/ table'[n] = None /\ health'[n] = "failed"
    BY <1>0, <1>1, ProcessFields DEF StartSucceeds, StartFails, TypeOK, Phases
<1>5. q # None
    BY <1>1, NoneIsNothing
<1> HIDE DEF n, q
<1>6. ASSUME ~ job[t].drop PROVE OnItsWay(t)'
    <2>1. OnItsWay(t)
        BY <1>0, <1>6, Inside
    <2>2. n \in job[t].start /\ (proc[q] # Ended => proc[q].spec = job[t].want[n])
        BY <1>0, <2>1 DEF OnItsWay, n, q
    <2>3. ASSUME NEW m \in Names PROVE Sorted(t, m)'
        <3>1. Sorted(t, m)
            BY <2>1 DEF OnItsWay
        <3>2. CASE m = n
            <4>1. job[t].want[n] # None
                BY <1>0, <2>2, NoneIsNothing DEF Inv, Planned
            <4> QED  BY <1>2, <1>4, <1>5, <2>2, <3>1, <3>2, <4>1 DEF Sorted
        <3>3. CASE m # n
            BY <1>2, <1>3, <3>1, <3>3 DEF Sorted
        <3> QED  BY <3>2, <3>3
    <2> QED  BY <1>2, <2>1, <2>3 DEF OnItsWay, StopPcs, StartPcs
<1>7. \A m \in Names : table'[m] # None => proc'[table'[m]].phase # "opening"
    BY <1>2, <1>3, <1>4 DEF Promises, RegisteredOpen
<1>8. \A m \in Names : health'[m] # "starting"
    <2>1. \A m \in Names \ {n} : health[m] # "starting"
        BY <1>0, Inside DEF n
    <2> QED  BY <1>3, <1>4, <2>1
<1>9. \A u \in Tasks \ {t} : pc[u] \notin Working
    BY <1>0, Inside
<1> QED
    BY <1>2, <1>6, <1>7, <1>8, <1>9, PromisesInside DEF StartPcs

\* Every step of a reconcile keeps the promises.
LEMMA ReconcilePromises ==
    ASSUME Inv, Promises, NEW t \in Tasks, ReconcileNext(t)
    PROVE  Promises'
<1> USE DEF configVars, daemonVars, downVars
<1>0. TypeOK
    BY DEF Inv
<1>1. CASE StopKill(t)
    <2>1. job[t].proc \in Procs
        BY <1>1 DEF StopKill, Inv, Waits, AtStop, AtStart, StopPcs, StartPcs
    <2>2. \A p \in Procs : \/ proc'[p] = Ended
                           \/ /\ proc[p] # Ended /\ proc'[p].spec = proc[p].spec
                              /\ proc'[p].phase = "opening" => proc[p].phase = "opening"
        BY <1>0, <1>1, <2>1, ProcessFields DEF StopKill, TypeOK
    <2>3. /\ \A u \in Tasks \ {t} : pc'[u] = pc[u]
          /\ \/ pc[t] = "stopping" /\ pc'[t] = "killing"
             \/ pc[t] = "aborting" /\ pc'[t] = "abortkill"
          /\ UNCHANGED <<table, health, job>>
        BY <1>0, <1>1 DEF StopKill, TypeOK
    <2> QED  BY <2>2, <2>3, PromisesFrame DEF Working, StopPcs, StartPcs
<1>2. CASE StopEnd(t)
    <2>1. pc[t] \in Working \ StartPcs /\ pc[t] \in StopPcs /\ job[t].name \in Names
        BY <1>2 DEF StopEnd, Inv, Waits, AtStop, StopPcs, StartPcs, Working
    <2>2. /\ pc'[t] = "run" /\ Forget(job[t].name) /\ proc' = proc
          /\ \A u \in Tasks \ {t} : pc'[u] = pc[u]
          /\ job'[t].want = job[t].want /\ job'[t].drop = job[t].drop
          /\ job'[t].start = job[t].start /\ job'[t].stop = job[t].stop \ {job[t].name}
        BY <1>0, <1>2, JobFields DEF StopEnd, TypeOK, Job
    <2>3. ~ job[t].drop => job[t].name \in job[t].stop \cup job[t].start
        BY <2>1, Inside DEF OnItsWay
    <2> QED  BY <2>1, <2>2, <2>3, ForgetPromises
<1>3. CASE StartTimesOut(t)
    <2>1. pc[t] = "starting" /\ job[t].proc \in Procs /\ proc[job[t].proc].phase = "opening"
        BY <1>3 DEF StartTimesOut, Inv, Waits, AtStart, StartPcs
    <2>2. \A p \in Procs : \/ proc'[p] = Ended
                           \/ /\ proc[p] # Ended /\ proc'[p].spec = proc[p].spec
                              /\ proc'[p].phase = "opening" => proc[p].phase = "opening"
        BY <1>0, <1>3, <2>1, ProcessFields DEF StartTimesOut, TypeOK, Phases
    <2>3. /\ \A u \in Tasks \ {t} : pc'[u] = pc[u]
          /\ pc'[t] = "aborting" /\ UNCHANGED <<table, health, job>>
        BY <1>0, <1>3 DEF StartTimesOut, TypeOK
    <2> QED  BY <2>1, <2>2, <2>3, PromisesFrame DEF Working, StopPcs, StartPcs
<1>4. CASE Finish(t)
    <2>1. /\ pc[t] = "run" /\ pc'[t] \in {"queued", "sleep", "idle"}
          /\ \A u \in Tasks \ {t} : pc'[u] = pc[u] /\ job'[u] = job[u]
        BY <1>0, <1>4 DEF Finish, ReloadAndQueue, AfterReconcile, TypeOK, Inv, Planned
    <2>2. UNCHANGED <<proc, table, health>>
        BY <1>4 DEF Finish
    <2> QED  BY <2>1, <2>2, PromisesFrame DEF Working, StartPcs
<1>5. ASSUME NEW n \in Names, StopAtOnce(t, n) PROVE Promises'
    <2>1. pc[t] = "run" /\ pc' = pc /\ Forget(n) /\ proc' = proc
          /\ (~ job[t].drop => n \in job[t].stop \cup job[t].start)
        BY <1>5 DEF StopAtOnce, StopNext
    <2>2. /\ job'[t].want = job[t].want /\ job'[t].drop = job[t].drop
          /\ job'[t].start = job[t].start /\ job'[t].stop = job[t].stop \ {n}
        BY <1>0, <1>5, JobFields DEF StopAtOnce, TypeOK, Job
    <2> QED  BY <2>1, <2>2, ForgetPromises DEF Working, StartPcs
<1> QED
    BY <1>1, <1>2, <1>3, <1>4, <1>5, AcquirePromises, StopBeginPromises, StartBeginPromises,
       StartOverPromises DEF ReconcileNext

\* The shutdown's cancellation keeps them: a start cut off is "none" again.
LEMMA CancelPromises ==
    ASSUME Inv, Promises, NEW t \in Tasks, Cancel(t)
    PROVE  Promises'
<1>0. TypeOK
    BY DEF Inv
<1>1. table' = table
    BY DEF Cancel
<1>2. CASE Over(t) \/ pc[t] \in {"killing", "abortkill"}
    <2>1. UNCHANGED <<proc, health, pc, job>>
        BY <1>2 DEF Cancel, AbortStart, Over, taskVars
    <2> QED  BY <1>1, <2>1, PromisesFrame
<1>3. CASE ~ (Over(t) \/ pc[t] \in {"killing", "abortkill"})
    <2>1. EndTask(t)
        BY <1>3 DEF Cancel, AbortStart
    <2>2. /\ pc'[t] \in {"done", "idle"} /\ \A u \in Tasks \ {t} : pc'[u] = pc[u] /\ job'[u] = job[u]
        BY <1>0, <2>1 DEF EndTask, TypeOK
    <2>3. CASE pc[t] \notin {"starting", "aborting"}
        <3>1. UNCHANGED <<proc, health>>
            BY <1>3, <2>3 DEF Cancel, AbortStart
        <3>2. pc[t] \notin StartPcs
            BY <1>3, <2>3 DEF StartPcs
        <3> QED  BY <1>1, <2>2, <3>1, <3>2, PromisesFrame DEF Working
    <2>4. CASE pc[t] \in {"starting", "aborting"}
        <3>1. AtStart(t) /\ pc[t] \in Working /\ pc[t] \in StartPcs
            BY <2>4 DEF Inv, Waits, StartPcs, Working
        <3>2. health' = [health EXCEPT ![job[t].name] = "none"]
            BY <1>3, <2>4 DEF Cancel, AbortStart
        <3>3. \A n \in Names : health'[n] # "starting"
            BY <1>0, <3>1, <3>2, Inside DEF AtStart, TypeOK
        <3>4. \A p \in Procs : proc'[p] = proc[p] \/ proc'[p].phase = "dying"
            BY <1>0, <1>3, <2>4, <3>1, ProcessFields DEF Cancel, AbortStart, AtStart, TypeOK
        <3>5. \A n \in Names : table'[n] # None => proc'[table'[n]].phase # "opening"
            BY <1>0, <1>1, <3>4 DEF Promises, RegisteredOpen, TypeOK
        <3>6. \A u \in Tasks \ {t} : pc[u] \notin Working
            BY <3>1, Inside
        <3> QED  BY <2>2, <3>3, <3>5, <3>6, PromisesInside DEF Working, StartPcs
    <2> QED  BY <2>3, <2>4
<1> QED
    BY <1>2, <1>3

\* Every step keeps the promises.
LEMMA NextPromises == Inv /\ Promises /\ [Next]_vars => Promises'
<1> SUFFICES ASSUME Inv, Promises, [Next]_vars PROVE Promises'
    OBVIOUS
<1>0. TypeOK
    BY DEF Inv
<1>1. ASSUME UNCHANGED <<proc, table, health, job>>,
             \A t \in Tasks : pc'[t] # pc[t] => pc[t] \notin Working /\ pc'[t] \notin Working
      PROVE  Promises'
    <2>1. \A t \in Tasks : pc[t] \in StartPcs => pc'[t] \in StartPcs
        BY <1>1 DEF StartPcs, Working
    <2>2. \A t \in Tasks : pc'[t] \in Working => pc'[t] = pc[t]
        BY <1>1
    <2> QED  BY <1>1, <2>1, <2>2, PromisesFrame
<1>2. CASE UNCHANGED vars \/ Edit \/ Reload \/ Shutdown \/ Terminated
    <2>1. UNCHANGED <<proc, table, health, job, pc>>
        BY <1>2 DEF vars, Edit, Reload, Shutdown, Terminated, daemonVars, taskVars
    <2> QED  BY <1>1, <2>1
<1>3. ASSUME NEW j \in Jobs, ControlReconcile(j) PROVE Promises'
    <2>1. UNCHANGED <<proc, table, health, job>>
        BY <1>3 DEF ControlReconcile, daemonVars
    <2>2. \A t \in Tasks : pc'[t] # pc[t] => pc[t] = "idle" /\ pc'[t] = "queued"
        BY <1>0, <1>3, SupIsTask DEF ControlReconcile, TypeOK
    <2> QED  BY <1>1, <2>1, <2>2 DEF Working
<1>4. ASSUME NEW p \in Procs, ProcNext(p) PROVE Promises'
    <2>1. UNCHANGED <<table, health, job, pc>>
        BY <1>4 DEF ProcNext, Opened, OpenFails, Lost, Unwind, taskVars
    <2>2. \A q \in Procs : \/ proc'[q] = Ended
                           \/ /\ proc[q] # Ended /\ proc'[q].spec = proc[q].spec
                              /\ proc'[q].phase = "opening" => proc[q].phase = "opening"
        BY <1>0, <1>4, ProcessFields
        DEF ProcNext, Opened, OpenFails, Lost, Unwind, TypeOK, Phases
    <2> QED  BY <2>1, <2>2, PromisesFrame
<1>5. CASE SupNext
    <2> USE SupIsTask DEF configVars, daemonVars, downVars
    <2>1. CASE AcquireToDrop
        <3>1. /\ pc'[Sup] = "run" /\ job'[Sup].drop /\ UNCHANGED <<proc, table, health>>
              /\ \A u \in Tasks \ {Sup} : pc'[u] = pc[u]
            BY <1>0, <2>1 DEF AcquireToDrop, TypeOK
        <3>2. \A u \in Tasks : pc[u] \notin Working
            BY <2>1, NoneIsNothing DEF AcquireToDrop, Inv, LockHeld, Tasks
        <3>3. \A n \in Names : health[n] # "starting"
            BY <3>2 DEF Promises, StartingTold, Working, StartPcs
        <3>4. \A n \in Names : table'[n] # None => proc'[table'[n]].phase # "opening"
            BY <3>1 DEF Promises, RegisteredOpen
        <3> QED  BY <3>1, <3>2, <3>3, <3>4, PromisesInside DEF StartPcs
    <2>2. CASE Wake \/ ProbeAnswers \/ ProbeFails \/ ProbesOver
        <3>1. UNCHANGED <<proc, table, health, job>>
            BY <2>2 DEF Wake, ProbeAnswers, ProbeFails, ProbesOver
        <3>2. /\ pc[Sup] \in {"sleep", "probing", "probe"}
              /\ pc'[Sup] \in {"probe", "queued", "sleep", "wait"}
              /\ \A t \in Tasks \ {Sup} : pc'[t] = pc[t]
            BY <1>0, <2>2 DEF Wake, ProbeAnswers, ProbeFails, ProbesOver, ReloadAndQueue, TypeOK
        <3> QED  BY <1>1, <3>1, <3>2 DEF Working
    <2>3. ASSUME NEW e \in Names \X Procs, ProbeNext(e) PROVE Promises'
        <3>1. UNCHANGED <<proc, table, health, job>>
            BY <2>3 DEF ProbeNext
        <3>2. /\ pc[Sup] = "probe" /\ pc'[Sup] \in {"probe", "probing"}
              /\ \A t \in Tasks \ {Sup} : pc'[t] = pc[t]
            BY <1>0, <2>3 DEF ProbeNext, TypeOK
        <3> QED  BY <1>1, <3>1, <3>2 DEF Working
    <2> QED  BY <1>5, <2>1, <2>2, <2>3 DEF SupNext
<1> QED
    BY <1>2, <1>3, <1>4, <1>5, ReconcilePromises, CancelPromises DEF Next

\* Both invariants hold for ever.
LEMMA PromisesKept == Spec => [](Inv /\ Promises)
<1>1. Init => Inv /\ Promises
    BY InitInv, InitPromises
<1>2. Inv /\ Promises /\ [Next]_vars => (Inv /\ Promises)'
    BY NextInv, NextPromises
<1> QED
    BY <1>1, <1>2, PTL DEF Spec

--------------------------------------------------------------------------------
(* What follows for the status and the reconcile.                          *)

\* `holm status` tells the truth: "starting" exactly while a reconcile starts the
\* server, whatever becomes of that start, and a server told "failed" or
\* "stopped" has no process left.
THEOREM StatusIsTruthful == Spec => []StatusTruthful
<1>1. Inv /\ Promises => StatusTruthful
    <2> SUFFICES ASSUME Inv, Promises, NEW n \in Names
                 PROVE  /\ Status(n) = "starting" <=>
                              lock # None /\ job[lock].name = n /\ pc[lock] \in StartPcs
                        /\ serving /\ Status(n) \in {"failed", "stopped"} =>
                              \A p \in Procs : proc[p].name # n
        BY DEF StatusTruthful, StartPcs
    <2>0. None \notin Tasks /\ (lock = None \/ lock \in Tasks)
        BY NoneIsNothing DEF Inv, TypeOK, Tasks
    <2>1. \A t \in Tasks : pc[t] \in StartPcs => lock = t /\ lock # None /\ AtStart(t)
        BY Alone DEF Inv, Waits, StartPcs, Working
    <2>2. health[n] = "starting" <=> lock # None /\ job[lock].name = n /\ pc[lock] \in StartPcs
        BY <2>0, <2>1 DEF Promises, StartingTold
    <2>3. health[n] = "starting" => table[n] = None
        BY <2>1 DEF Promises, StartingTold, AtStart
    <2>4. Status(n) = "starting" <=> health[n] = "starting"
        BY <2>3 DEF Status
    <2>5. ASSUME serving, Status(n) \in {"failed", "stopped"}, NEW p \in Procs, proc[p].name = n
          PROVE  FALSE
        <3>1. proc[p] # Ended
            BY <2>5, NoneIsNothing DEF Ended
        <3>2. table[n] # p
            <4>1. ASSUME table[n] = p PROVE FALSE
                <5>1. p # None
                    BY NoneIsNothing
                <5>2. HasSession(p)
                    BY <3>1, <4>1, <5>1, ProcessFields
                    DEF Inv, Promises, RegisteredOpen, Phases, HasSession
                <5> QED  BY <2>5, <4>1, <5>1, <5>2 DEF Status
            <4> QED  BY <4>1
        <3>3. PICK t \in Tasks : pc[t] \in StartPcs /\ job[t].proc = p
            BY <2>5, <3>1, <3>2 DEF Inv, Accounted
        <3>4. job[t].name = n
            BY <2>1, <2>5, <3>1, <3>3 DEF AtStart
        <3>5. Status(n) = "starting"
            BY <2>4, <3>3, <3>4 DEF Promises, StartingTold
        <3> QED  BY <2>5, <3>5
    <2> QED  BY <2>2, <2>4, <2>5
<1> QED
    BY <1>1, PromisesKept, PTL

\* A reconcile that ends has applied the configuration it planned from, although
\* servers fail, break and time out under it and the configuration changes.
THEOREM ReconcileAppliesItsPlan == Spec => ReconcileApplies
<1>1. ASSUME Inv, Promises, NEW t \in Tasks, Finish(t), ~ job[t].drop, NEW n \in Names
      PROVE  IF job[t].want[n] = None THEN table[n] = None
             ELSE IF table[n] = None THEN health[n] = "failed"
             ELSE proc[table[n]] = Ended \/ proc[table[n]].spec = job[t].want[n]
    <2>1. pc[t] \in Working /\ job[t].stop = {} /\ job[t].start = {}
        BY <1>1 DEF Finish, Working
    <2>2. Sorted(t, n)
        BY <1>1, <2>1 DEF Promises, Applying, OnItsWay
    <2> QED  BY <2>1, <2>2 DEF Sorted
<1>2. Inv /\ Promises =>
          [\A t \in Tasks : Finish(t) /\ ~ job[t].drop =>
              \A n \in Names :
                 IF job[t].want[n] = None THEN table[n] = None
                 ELSE IF table[n] = None THEN health[n] = "failed"
                 ELSE proc[table[n]] = Ended \/ proc[table[n]].spec = job[t].want[n]]_vars
    BY <1>1
<1> QED
    BY <1>2, PromisesKept, PTL DEF ReconcileApplies

--------------------------------------------------------------------------------
(* The daemon implements ServerSlots.                                      *)

\* The connections a slot may show, and what it shows of one.
Mine(n) == {p \in Procs : proc[p].name = n /\ proc[p].phase # "dying" /\ ~ proc[p].told}
Connection(p) == [spec |-> proc[p].spec, open |-> proc[p].phase # "opening"]

\* A slot has at most one connection to show, and shows it.
SlotShows ==
    \A n \in Names :
        /\ \A p, q \in Mine(n) : p = q
        /\ Mine(n) = {} => SlotOf(n) = Slots!Off
        /\ \A p \in Mine(n) : SlotOf(n) = Connection(p) /\ proc[p].spec \in Specs

\* It has: a process nobody told to stop is registered, or being started by the
\* holder of the lock, and the name being started is not registered.
LEMMA SlotShowsOne == Inv => SlotShows
<1> SUFFICES ASSUME Inv, NEW n \in Names
             PROVE  /\ \A p, q \in Mine(n) : p = q
                    /\ Mine(n) = {} => SlotOf(n) = Slots!Off
                    /\ \A p \in Mine(n) : SlotOf(n) = Connection(p) /\ proc[p].spec \in Specs
    BY DEF SlotShows
<1>1. ASSUME NEW p \in Mine(n)
      PROVE  /\ p \in Procs /\ p # None /\ proc[p] # Ended /\ proc[p].name = n
             /\ proc[p].spec \in Specs
             /\ \/ table[n] = p
                \/ table[n] = None /\ lock # None /\ job[lock].proc = p
    <2>1. p \in Procs /\ proc[p].name = n /\ ~ proc[p].told
        BY DEF Mine
    <2>2. p # None /\ proc[p] # Ended
        BY <2>1, NoneIsNothing DEF Ended
    <2>3. proc[p].spec \in Specs
        BY <2>1, <2>2, ProcessFields DEF Inv
    <2>4. \/ table[n] = p
          \/ lock # None /\ pc[lock] = "starting" /\ job[lock].proc = p /\ job[lock].name = n
        BY <2>1, <2>2 DEF Inv, NoOrphan
    <2>5. lock # None /\ pc[lock] = "starting" => table[job[lock].name] = None
        <3>1. lock # None => lock \in Tasks
            BY DEF Inv, TypeOK
        <3> QED  BY <3>1 DEF Inv, Waits, AtStart, StartPcs
    <2> QED  BY <2>1, <2>2, <2>3, <2>4, <2>5
<1>2. \A p, q \in Mine(n) : p = q
    BY <1>1
<1>3. Mine(n) = {} => SlotOf(n) = Slots!Off
    BY DEF Mine, SlotOf, Slots!Off
<1>4. ASSUME NEW p \in Mine(n) PROVE SlotOf(n) = Connection(p)
    <2>1. (CHOOSE q \in Mine(n) : TRUE) = p
        BY <1>2
    <2>2. Mine(n) # {}
        OBVIOUS
    <2>3. SlotOf(n) = IF Mine(n) = {} THEN [spec |-> None, open |-> FALSE]
                      ELSE Connection(CHOOSE q \in Mine(n) : TRUE)
        BY DEF Mine, SlotOf, Connection
    <2> QED  BY <2>1, <2>2, <2>3
<1> QED
    BY <1>1, <1>2, <1>3, <1>4

\* The state of all slots.
slots == [n \in Names |-> SlotOf(n)]

\* A step that leaves the processes alone leaves the slots alone.
LEMMA SlotsKept == proc' = proc => slots' = slots
BY DEF slots, SlotOf

\* What ServerSlots!Open makes of a slot.
LEMMA OpenSlot ==
    ASSUME NEW s, NEW b
    PROVE  [[spec |-> s, open |-> b] EXCEPT !.open = TRUE] = [spec |-> s, open |-> TRUE]
<1>1. \A o : [[spec |-> s, open |-> b] EXCEPT !.open = o] = [spec |-> s, open |-> o]
    OBVIOUS
<1> QED  BY <1>1

\* A step that changes one process changes its slot as ServerSlots allows.
LEMMA SlotsStep ==
    ASSUME SlotShows, SlotShows', NEW q \in Procs,
           \A p \in Procs \ {q} : proc'[p] = proc[p],
           \/ proc'[q] = Ended
           \/ /\ proc[q].name \in Names
              /\ proc'[q].name = proc[q].name /\ proc'[q].spec = proc[q].spec
              /\ proc[q].told => proc'[q].told
              /\ proc[q].phase = "dying" => proc'[q].phase = "dying"
              /\ proc'[q].phase = "opening" => proc[q].phase = "opening"
           \/ /\ proc[q] = Ended
              /\ proc'[q].phase = "opening" /\ ~ proc'[q].told
    PROVE  [Slots!Next]_slots
<1>0. Ended.name \notin Names
    BY NoneIsNothing DEF Ended
<1>1. ASSUME NEW n \in Names, q \notin Mine(n), q \notin Mine(n)'
      PROVE  SlotOf(n)' = SlotOf(n)
    <2>1. Mine(n)' = Mine(n) /\ \A p \in Mine(n) : proc'[p] = proc[p]
        BY <1>1 DEF Mine
    <2>2. CASE Mine(n) = {}
        BY <2>1, <2>2 DEF SlotShows, Slots!Off
    <2>3. CASE Mine(n) # {}
        <3>1. PICK p \in Mine(n) : TRUE
            BY <2>3
        <3>2. SlotOf(n) = Connection(p) /\ SlotOf(n)' = Connection(p)'
            BY <2>1, <3>1 DEF SlotShows
        <3> QED  BY <2>1, <3>1, <3>2 DEF Connection
    <2> QED  BY <2>2, <2>3
<1>2. CASE \E n \in Names : q \in Mine(n) \/ q \in Mine(n)'
    <2>1. PICK n \in Names : q \in Mine(n) \/ q \in Mine(n)'
        BY <1>2
    <2>2. \A m \in Names \ {n} : q \notin Mine(m) /\ q \notin Mine(m)'
        BY <1>0, <2>1 DEF Mine
    <2>3. slots' = [slots EXCEPT ![n] = SlotOf(n)'] /\ slots[n] = SlotOf(n)
        BY <1>1, <2>2 DEF slots
    <2>4. CASE q \in Mine(n) /\ q \notin Mine(n)'
        <3>1. Mine(n)' = {}
            BY <2>4 DEF SlotShows, Mine
        <3>2. SlotOf(n)' = Slots!Off
            BY <3>1 DEF SlotShows, Slots!Off
        <3> QED  BY <2>3, <3>2 DEF Slots!Next, Slots!End, slots
    <2>5. CASE q \in Mine(n) /\ q \in Mine(n)'
        <3>1. proc'[q].spec = proc[q].spec /\ (proc'[q].phase = "opening" => proc[q].phase = "opening")
            BY <1>0, <2>5 DEF Mine
        <3>2. SlotOf(n) = Connection(q) /\ SlotOf(n)' = Connection(q)' /\ proc[q].spec \in Specs
            BY <2>5 DEF SlotShows
        <3>3. SlotOf(n) # Slots!Off
            BY <3>2, NoneIsNothing DEF Connection, Slots!Off
        <3>4. CASE SlotOf(n)' = SlotOf(n)
            BY <2>3, <3>4 DEF slots
        <3>5. CASE SlotOf(n)' # SlotOf(n)
            <4>1. Connection(q) = [spec |-> proc[q].spec, open |-> proc[q].phase # "opening"]
                BY DEF Connection
            <4>2. Connection(q)' = [spec |-> proc[q].spec, open |-> proc'[q].phase # "opening"]
                BY <3>1 DEF Connection
            <4>3. (proc[q].phase # "opening") = FALSE /\ (proc'[q].phase # "opening") = TRUE
                BY <3>1, <3>2, <3>5 DEF Connection
            <4>4. Connection(q) = [spec |-> proc[q].spec, open |-> FALSE]
                BY <4>1, <4>3, Zenon
            <4>5. Connection(q)' = [spec |-> proc[q].spec, open |-> TRUE]
                BY <4>2, <4>3, Zenon
            <4>6. [[spec |-> proc[q].spec, open |-> FALSE] EXCEPT !.open = TRUE]
                     = [spec |-> proc[q].spec, open |-> TRUE]
                BY OpenSlot
            <4>7. slots' = [slots EXCEPT ![n].open = TRUE]
                BY <2>3, <3>2, <4>4, <4>5, <4>6, Zenon
            <4> QED  BY <2>3, <3>3, <4>7 DEF Slots!Next, Slots!Open, slots
        <3> QED  BY <3>4, <3>5
    <2>6. CASE q \notin Mine(n) /\ q \in Mine(n)'
        <3>1. proc'[q] # Ended /\ proc[q] = Ended /\ proc'[q].phase = "opening"
            BY <1>0, <2>6 DEF Mine
        <3>2. Mine(n) = {}
            <4>1. \A p \in Mine(n) : p \in Mine(n)'
                BY <2>6 DEF Mine
            <4> QED  BY <2>6, <4>1 DEF SlotShows
        <3>3. SlotOf(n) = Slots!Off
            BY <3>2 DEF SlotShows
        <3>4. SlotOf(n)' = Connection(q)' /\ proc'[q].spec \in Specs
            BY <2>6 DEF SlotShows
        <3>5. SlotOf(n)' = [spec |-> proc'[q].spec, open |-> FALSE]
            BY <3>1, <3>4 DEF Connection
        <3>6. Slots!Start(n, proc'[q].spec)
            BY <2>3, <3>3, <3>5 DEF Slots!Start, slots
        <3> QED  BY <3>4, <3>6 DEF Slots!Next
    <2> QED  BY <2>1, <2>4, <2>5, <2>6
<1>3. CASE ~ \E n \in Names : q \in Mine(n) \/ q \in Mine(n)'
    BY <1>1, <1>3 DEF slots
<1> QED
    BY <1>2, <1>3

\* The steps of a reconcile that touch a process are steps of its slot.
LEMMA ReconcileSlots ==
    ASSUME Inv, SlotShows, SlotShows', NEW t \in Tasks, ReconcileNext(t)
    PROVE  [Slots!Next]_slots
<1>0. TypeOK
    BY DEF Inv
<1>1. CASE proc' = proc
    BY <1>1, SlotsKept
<1>2. CASE StopKill(t) /\ proc[job[t].proc] # Ended
    <2>1. job[t].proc \in Procs
        BY <1>2 DEF StopKill, Inv, Waits, AtStop, AtStart, StopPcs, StartPcs
    <2>2. \A p \in Procs \ {job[t].proc} : proc'[p] = proc[p]
        BY <1>0, <1>2, <2>1 DEF StopKill, TypeOK
    <2>3. /\ proc[job[t].proc].name \in Names
          /\ proc'[job[t].proc].name = proc[job[t].proc].name
          /\ proc'[job[t].proc].spec = proc[job[t].proc].spec
          /\ proc'[job[t].proc].told = proc[job[t].proc].told
          /\ proc'[job[t].proc].phase = "dying"
        BY <1>0, <1>2, <2>1, ProcessFields DEF StopKill, TypeOK
    <2> QED  BY <2>1, <2>2, <2>3, SlotsStep
<1>3. CASE StartTimesOut(t)
    <2>1. job[t].proc \in Procs /\ proc[job[t].proc] # Ended
        BY <1>0, <1>3, ProcessFields DEF StartTimesOut, Inv, Waits, AtStart, StartPcs, Phases, Ended
    <2>2. \A p \in Procs \ {job[t].proc} : proc'[p] = proc[p]
        BY <1>0, <1>3, <2>1 DEF StartTimesOut, TypeOK
    <2>3. /\ proc[job[t].proc].name \in Names
          /\ proc'[job[t].proc].name = proc[job[t].proc].name
          /\ proc'[job[t].proc].spec = proc[job[t].proc].spec
          /\ proc'[job[t].proc].told
          /\ proc'[job[t].proc].phase = proc[job[t].proc].phase
        BY <1>0, <1>3, <2>1, ProcessFields DEF StartTimesOut, TypeOK
    <2> QED  BY <2>1, <2>2, <2>3, SlotsStep
<1>4. ASSUME NEW n \in Names, StopBegin(t, n) PROVE [Slots!Next]_slots
    <2>1. table[n] \in Procs /\ proc[table[n]] # Ended
        BY <1>0, <1>4 DEF StopBegin, TypeOK
    <2>2. \A p \in Procs \ {table[n]} : proc'[p] = proc[p]
        BY <1>0, <1>4, <2>1 DEF StopBegin, TypeOK
    <2>3. /\ proc[table[n]].name \in Names
          /\ proc'[table[n]].name = proc[table[n]].name
          /\ proc'[table[n]].spec = proc[table[n]].spec
          /\ proc'[table[n]].told
          /\ proc'[table[n]].phase = proc[table[n]].phase
        BY <1>0, <1>4, <2>1, ProcessFields DEF StopBegin, TypeOK
    <2> QED  BY <2>1, <2>2, <2>3, SlotsStep
<1>5. ASSUME NEW n \in Names, NEW q \in Procs, StartBegin(t, n, q) PROVE [Slots!Next]_slots
    <2>1. /\ proc[q] = Ended /\ proc'[q].phase = "opening" /\ ~ proc'[q].told
          /\ \A p \in Procs \ {q} : proc'[p] = proc[p]
        BY <1>0, <1>5 DEF StartBegin, Free, TypeOK
    <2> QED  BY <2>1, SlotsStep
<1>6. CASE Acquire(t) \/ StopEnd(t) \/ StartSucceeds(t) \/ StartFails(t) \/ Finish(t)
    <2>1. proc' = proc
        BY <1>6 DEF Acquire, PlanStop, PlanStart, StopEnd, StartSucceeds, StartFails, StartOver,
                    Finish, daemonVars
    <2> QED  BY <1>1, <2>1
<1>7. ASSUME NEW n \in Names, StopAtOnce(t, n) PROVE [Slots!Next]_slots
    BY <1>1, <1>7 DEF StopAtOnce
<1> QED
    BY <1>2, <1>3, <1>4, <1>5, <1>6, <1>7 DEF ReconcileNext, StopKill

\* Every step of the daemon is a step of one slot, or of none.
LEMMA NextSlots == Inv /\ SlotShows /\ SlotShows' /\ [Next]_vars => [Slots!Next]_slots
<1> SUFFICES ASSUME Inv, SlotShows, SlotShows', [Next]_vars PROVE [Slots!Next]_slots
    OBVIOUS
<1>0. TypeOK
    BY DEF Inv
<1>1. CASE proc' = proc
    BY <1>1, SlotsKept
<1>2. CASE UNCHANGED vars \/ Edit \/ Reload \/ Shutdown \/ Terminated
    <2>1. proc' = proc
        BY <1>2 DEF vars, Edit, Reload, Shutdown, Terminated, daemonVars
    <2> QED  BY <1>1, <2>1
<1>3. ASSUME NEW j \in Jobs, ControlReconcile(j) PROVE [Slots!Next]_slots
    BY <1>1, <1>3 DEF ControlReconcile, daemonVars
<1>4. ASSUME NEW q \in Procs, ProcNext(q) PROVE [Slots!Next]_slots
    <2>1. \A p \in Procs \ {q} : proc'[p] = proc[p]
        BY <1>0, <1>4 DEF ProcNext, Opened, OpenFails, Lost, Unwind, TypeOK
    <2>2. \/ proc'[q] = Ended
          \/ /\ proc[q].name \in Names
             /\ proc'[q].name = proc[q].name /\ proc'[q].spec = proc[q].spec
             /\ proc'[q].told = proc[q].told
             /\ proc[q].phase # "dying" /\ proc'[q].phase # "opening"
        BY <1>0, <1>4, ProcessFields
        DEF ProcNext, Opened, OpenFails, Lost, Unwind, TypeOK, Phases
    <2> QED  BY <2>1, <2>2, SlotsStep
<1>5. ASSUME NEW t \in Tasks, Cancel(t) PROVE [Slots!Next]_slots
    <2>1. CASE pc[t] = "starting" /\ proc[job[t].proc] # Ended
        <3> DEFINE q == job[t].proc
        <3>1. q \in Procs
            BY <2>1 DEF Inv, Waits, AtStart, StartPcs
        <3>2. proc' = [proc EXCEPT ![q].told = TRUE, ![q].phase = "dying"]
            BY <1>5, <2>1 DEF Cancel, Over
        <3>3. \A p \in Procs \ {q} : proc'[p] = proc[p]
            BY <1>0, <3>1, <3>2 DEF TypeOK
        <3>4. /\ proc[q].name \in Names /\ proc'[q].name = proc[q].name
              /\ proc'[q].spec = proc[q].spec /\ proc'[q].told /\ proc'[q].phase = "dying"
            BY <1>0, <2>1, <3>1, <3>2, ProcessFields DEF TypeOK
        <3> HIDE DEF q
        <3> QED  BY <3>1, <3>3, <3>4, SlotsStep
    <2>2. CASE ~ (pc[t] = "starting" /\ proc[job[t].proc] # Ended)
        BY <1>1, <1>5, <2>2 DEF Cancel, Over
    <2> QED  BY <2>1, <2>2
<1>6. CASE SupNext
    <2>1. proc' = proc
        BY <1>6 DEF SupNext, Wake, ProbeAnswers, ProbeFails, ProbesOver, AcquireToDrop, ProbeNext,
                    daemonVars
    <2> QED  BY <1>1, <2>1
<1> QED
    BY <1>2, <1>3, <1>4, <1>5, <1>6, ReconcileSlots DEF Next

\* The daemon implements ServerSlots: a server has one connection at a time, and
\* a change of its entry in config.json reaches it only by way of a restart.
THEOREM ImplementsSlots == Spec => SlotsSpec
<1>1. Init => Slots!Init
    <2> SUFFICES ASSUME Init PROVE Slots!Init
        OBVIOUS
    <2>1. \A n \in Names : Mine(n) = {}
        BY NoneIsNothing DEF Init, Mine, Ended
    <2>2. \A n \in Names : SlotOf(n) = Slots!Off
        BY <2>1, InitInv, SlotShowsOne DEF SlotShows
    <2> QED  BY <2>2 DEF Slots!Init
<1>2. Inv /\ SlotShows /\ SlotShows' /\ [Next]_vars => [Slots!Next]_slots
    BY NextSlots
<1>3. [](Inv => SlotShows)
    BY SlotShowsOne, PTL
<1>4. Spec => [][Slots!Next]_slots
    BY <1>2, <1>3, Invariance, PTL DEF Spec
<1> QED
    BY <1>1, <1>4, PTL DEF Spec, SlotsSpec, Slots!Spec, slots
================================================================================
