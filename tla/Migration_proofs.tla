---------------------------- MODULE Migration_proofs ----------------------------
(***************************************************************************)
(* Theorems about Migration, for every set of names, target schema and     *)
(* state to start from.                                                    *)
(***************************************************************************)
EXTENDS Migration, TLAPS

--------------------------------------------------------------------------------
(* Areas.                                                                  *)

\* The working directories and the backup are different places.
LEMMA Places ==
    /\ Backup \in Areas
    /\ \A r \in Steps : Staging(r) \in Areas /\ Scratch(r) \in Areas
    /\ \A r, q \in Steps : /\ Staging(r) # Backup /\ Scratch(r) # Backup
                           /\ Staging(r) # Scratch(q)
                           /\ r # q => Staging(r) # Staging(q) /\ Scratch(r) # Scratch(q)
    /\ \A a \in Areas : a = Backup \/ \E r \in Steps : a = Staging(r) \/ a = Scratch(r)
BY DEF Areas, Backup, Staging, Scratch

\* The schema versions, and the values that are none.
LEMMA Numbers ==
    /\ Target \in Nat /\ Target >= 1 /\ Target \in Steps /\ 0 \in Versions
    /\ Steps \subseteq Versions /\ Versions \subseteq Nat
    /\ None \notin Nat /\ Empty \notin Nat /\ Bad \notin Nat
    /\ None # Empty /\ None # Bad /\ Empty # Bad
<1>1. None \notin Nat /\ Empty \notin Nat /\ Bad \notin Nat
    BY MarksAreNotVersions
<1> QED
    BY <1>1, BoundsAreNaturals, MarksAreNotVersions DEF Steps, Versions

\* A removed directory, and one with nothing in it, are values an area has.
LEMMA GoneIsArea == Gone \in Area /\ NoFiles \in [Names -> Content]
BY DEF Gone, Area, NoFiles, Content

\* The fields of an area.
LEMMA AreaFields ==
    ASSUME TypeOK, NEW a \in Areas
    PROVE  /\ area[a] \in Area /\ area[a].exists \in BOOLEAN
           /\ area[a].files \in [Names -> Content] /\ area[a].marker \in Steps \cup {None}
           /\ \A n \in Names : area[a].files[n] \in Content
BY DEF TypeOK, Area

\* The effect of a write of one file in one area.
LEMMA FileWrite ==
    ASSUME TypeOK, NEW a \in Areas, NEW n \in Names, NEW v \in Content,
           area' = [area EXCEPT ![a].files[n] = v]
    PROVE  /\ area' \in [Areas -> Area]
           /\ \A b \in Areas \ {a} : area'[b] = area[b]
           /\ area'[a].exists = area[a].exists /\ area'[a].marker = area[a].marker
           /\ area'[a].files = [area[a].files EXCEPT ![n] = v]
           /\ area'[a].files[n] = v
           /\ \A m \in Names \ {n} : area'[a].files[m] = area[a].files[m]
<1>1. area[a] \in Area /\ area[a].files \in [Names -> Content]
    BY AreaFields
<1>2. [area[a].files EXCEPT ![n] = v] \in [Names -> Content]
    BY <1>1
<1>3. [area[a] EXCEPT !.files = [area[a].files EXCEPT ![n] = v]] \in Area
    BY <1>1, <1>2 DEF Area
<1>4. area'[a] = [area[a] EXCEPT !.files = [area[a].files EXCEPT ![n] = v]]
    BY DEF TypeOK
<1>5. area'[a].files = [area[a].files EXCEPT ![n] = v]
    BY <1>1, <1>4 DEF Area
<1>6. area'[a].exists = area[a].exists /\ area'[a].marker = area[a].marker
    BY <1>1, <1>4 DEF Area
<1>7. area' \in [Areas -> Area]
    BY <1>3 DEF TypeOK
<1>8. \A b \in Areas \ {a} : area'[b] = area[b]
    BY DEF TypeOK
<1> QED
    BY <1>1, <1>5, <1>6, <1>7, <1>8

\* The file it writes.
LEMMA FileWritten ==
    ASSUME TypeOK, NEW a \in Areas, NEW n \in Names, NEW v,
           area' = [area EXCEPT ![a].files[n] = v]
    PROVE  area'[a].files[n] = v
<1>1. area[a].files \in [Names -> Content] /\ area[a] \in Area
    BY AreaFields
<1>2. area'[a] = [area[a] EXCEPT !.files[n] = v]
    BY DEF TypeOK
<1>3. area'[a].files = [area[a].files EXCEPT ![n] = v]
    BY <1>1, <1>2 DEF Area
<1> QED  BY <1>1, <1>3

\* The effect of a write of an area's marker.
LEMMA MarkerWrite ==
    ASSUME TypeOK, NEW a \in Areas, NEW v \in Steps \cup {None},
           area' = [area EXCEPT ![a].marker = v]
    PROVE  /\ area' \in [Areas -> Area]
           /\ \A b \in Areas \ {a} : area'[b] = area[b]
           /\ area'[a].exists = area[a].exists /\ area'[a].files = area[a].files
           /\ area'[a].marker = v
<1>1. area[a] \in Area
    BY AreaFields
<1>2. area'[a] = [area[a] EXCEPT !.marker = v]
    BY DEF TypeOK
<1>3. [area[a] EXCEPT !.marker = v] \in Area
    BY <1>1 DEF Area
<1>4. /\ area'[a].exists = area[a].exists /\ area'[a].files = area[a].files
      /\ area'[a].marker = v
    BY <1>1, <1>2 DEF Area
<1> QED
    BY <1>2, <1>3, <1>4 DEF TypeOK

\* The effect of a write of all of an area's files.
LEMMA FilesWrite ==
    ASSUME TypeOK, NEW a \in Areas, NEW v \in [Names -> Content],
           area' = [area EXCEPT ![a].files = v]
    PROVE  /\ area' \in [Areas -> Area]
           /\ \A b \in Areas \ {a} : area'[b] = area[b]
           /\ area'[a].exists = area[a].exists /\ area'[a].marker = area[a].marker
           /\ area'[a].files = v
<1>1. area[a] \in Area
    BY AreaFields
<1>2. area'[a] = [area[a] EXCEPT !.files = v]
    BY DEF TypeOK
<1>3. [area[a] EXCEPT !.files = v] \in Area
    BY <1>1 DEF Area
<1>4. /\ area'[a].exists = area[a].exists /\ area'[a].files = v
      /\ area'[a].marker = area[a].marker
    BY <1>1, <1>2 DEF Area
<1> QED
    BY <1>2, <1>3, <1>4 DEF TypeOK

\* The effect of making a directory.
LEMMA ExistsWrite ==
    ASSUME TypeOK, NEW a \in Areas, area' = [area EXCEPT ![a].exists = TRUE]
    PROVE  /\ area' \in [Areas -> Area]
           /\ \A b \in Areas \ {a} : area'[b] = area[b]
           /\ area'[a].exists /\ area'[a].files = area[a].files
           /\ area'[a].marker = area[a].marker
<1>1. area[a] \in Area
    BY AreaFields
<1>2. area'[a] = [area[a] EXCEPT !.exists = TRUE]
    BY DEF TypeOK
<1>3. [area[a] EXCEPT !.exists = TRUE] \in Area
    BY <1>1 DEF Area
<1>4. /\ area'[a].exists /\ area'[a].files = area[a].files
      /\ area'[a].marker = area[a].marker
    BY <1>1, <1>2 DEF Area
<1> QED
    BY <1>2, <1>3, <1>4 DEF TypeOK

--------------------------------------------------------------------------------
(* Types.                                                                  *)

\* The types, and the locals a run has when it uses them.
Typed ==
    /\ TypeOK
    /\ pc \notin {"idle", "start"} => run.step \in Steps
    /\ pc = "in" => run.cur \in Names

\* The fields of a run.
LEMMA RunFields ==
    ASSUME TypeOK
    PROVE  /\ run \in Run /\ run.step \in 0 .. Target /\ run.first \in BOOLEAN
           /\ run.to \in Areas /\ run.rm \in Areas /\ run.todo \subseteq Names
           /\ run.moved \subseteq Names /\ run.cur \in Names \cup {None}
           /\ run.then \in {"idle", "copy", "mkdir", "applied", "next", "discard"}
           /\ run.tried \subseteq Areas
BY DEF TypeOK, Run

\* The locals of no run, and of one that starts a step.
LEMMA IdleIsRun ==
    /\ Idle \in Run
    /\ \A s \in Steps, b \in BOOLEAN : [Idle EXCEPT !.step = s, !.first = b] \in Run
    /\ \A s \in Steps : [Idle EXCEPT !.step = s] \in Run
    /\ \A t \in SUBSET Areas : [Idle EXCEPT !.tried = t] \in Run
<1>1. Backup \in Areas /\ Target \in Nat /\ 0 \in 0 .. Target /\ Steps \subseteq 0 .. Target
    BY Places, Numbers DEF Steps
<1> QED
    BY <1>1 DEF Idle, Run

\* What a run keeps when it goes to remove a directory.
LEMMA RemoveIsRun ==
    ASSUME NEW r \in Run, NEW a \in Areas,
           NEW w \in {"idle", "copy", "mkdir", "applied", "next", "discard"}
    PROVE  [r EXCEPT !.rm = a, !.then = w] \in Run
BY DEF Run

\* The version a state is in.
LEMMA VersionType == TypeOK => Version \in 0 .. Target /\ Version \in Nat
BY Numbers DEF TypeOK, Version, Steps

\* Init gives every variable a value of its type.
LEMMA InitTyped == Init => Typed
<1> SUFFICES ASSUME Init PROVE Typed
    OBVIOUS
<1>1. PICK origin \in Origins :
         /\ live = [n \in Names |-> IF n \in had THEN origin ELSE None]
         /\ marker = IF origin = 0 THEN None ELSE origin
         /\ \E old \in {Gone} \cup
               (IF origin = 0 \/ ~ OldBackup THEN {}
                ELSE {[exists |-> TRUE, marker |-> IF origin = 1 THEN None ELSE origin - 1,
                       files |-> [n \in Names |-> IF n \in had THEN origin - 1 ELSE None]]}) :
               area = [a \in Areas |-> IF a = Backup THEN old ELSE Gone]
    BY DEF Init
<1>2. origin \in 0 .. Target /\ origin \in Versions /\ had \subseteq Names
    BY StartsAreStates DEF Init, Versions
<1>3. live \in [Names -> Content] /\ marker \in Steps \cup {None}
    BY <1>1, <1>2, Numbers DEF Content, Steps
<1>4. area \in [Areas -> Area]
    <2>1. PICK old \in {Gone} \cup
               (IF origin = 0 \/ ~ OldBackup THEN {}
                ELSE {[exists |-> TRUE, marker |-> IF origin = 1 THEN None ELSE origin - 1,
                       files |-> [n \in Names |-> IF n \in had THEN origin - 1 ELSE None]]}) :
               area = [a \in Areas |-> IF a = Backup THEN old ELSE Gone]
        BY <1>1
    <2>2. CASE old = Gone
        BY <2>1, <2>2, GoneIsArea
    <2>3. CASE old # Gone
        <3>1. /\ origin # 0
              /\ old = [exists |-> TRUE, marker |-> IF origin = 1 THEN None ELSE origin - 1,
                        files |-> [n \in Names |-> IF n \in had THEN origin - 1 ELSE None]]
            BY <2>1, <2>3
        <3>2. origin - 1 \in Versions /\ (origin # 1 => origin - 1 \in Steps)
            BY <1>2, <3>1, Numbers DEF Versions, Steps
        <3>3. [n \in Names |-> IF n \in had THEN origin - 1 ELSE None] \in [Names -> Content]
            BY <3>2 DEF Content
        <3>4. (IF origin = 1 THEN None ELSE origin - 1) \in Steps \cup {None}
            BY <3>2
        <3>5. old \in Area
            BY <3>1, <3>3, <3>4 DEF Area
        <3> QED  BY <2>1, <3>5, GoneIsArea
    <2> QED  BY <2>2, <2>3
<1>5. crashes \in 0 .. MaxCrashes /\ errors \in 0 .. MaxErrors
    BY BoundsAreNaturals DEF Init
<1> QED
    BY <1>2, <1>3, <1>4, <1>5, IdleIsRun DEF Init, Typed, TypeOK, Pcs

\* The steps before the swap keep the types.
LEMMA PrepareTyped ==
    ASSUME Typed,
           \/ Import \/ Begin \/ Apply \/ Copy \/ Convert \/ Mark \/ StepFails
    PROVE  Typed'
<1> USE DEF disk, ghosts, Goto, End, Pcs
<1>0. TypeOK
    BY DEF Typed
<1>1. CASE Import
    <2>1. live' \in [Names -> Content] /\ marker' \in Steps \cup {None}
        BY <1>0, <1>1, Numbers DEF Import, TypeOK, Content
    <2> QED  BY <1>0, <1>1, <2>1, IdleIsRun DEF Import, Typed, TypeOK
<1>2. CASE Begin
    <2>1. Version < Target => Version + 1 \in Steps
        BY <1>0, VersionType, Numbers DEF Steps
    <2>2. CASE pc' = "discard"
        <3>1. run' = [Idle EXCEPT !.step = Target]
            BY <1>2, <2>2 DEF Begin
        <3>2. run' \in Run /\ run'.step \in Steps
            BY <3>1, IdleIsRun, Numbers DEF Idle
        <3> QED  BY <1>0, <1>2, <2>2, <3>2 DEF Begin, Typed, TypeOK
    <2>3. CASE pc' = "apply"
        <3>1. run' = [Idle EXCEPT !.step = Version + 1, !.first = TRUE] /\ Version < Target
            BY <1>2, <2>3 DEF Begin
        <3>2. run' \in Run /\ run'.step \in Steps
            BY <2>1, <3>1, IdleIsRun DEF Idle
        <3> QED  BY <1>0, <1>2, <2>3, <3>2 DEF Begin, Typed, TypeOK
    <2>4. CASE pc' = "idle"
        BY <1>0, <1>2, <2>4, IdleIsRun DEF Begin, Typed, TypeOK
    <2> QED  BY <1>2, <2>2, <2>3, <2>4 DEF Begin
<1>3. CASE Apply
    <2>1. run.step \in Steps
        BY <1>3 DEF Apply, Typed
    <2>2. \E b \in BOOLEAN, l \in Run :
             /\ l = [run EXCEPT !.to = IF b THEN Scratch(run.step) ELSE Backup]
             /\ \/ pc' = "mkdir" /\ run' = l
                \/ pc' = "remove" /\ run' = [l EXCEPT !.rm = Staging(run.step), !.then = "copy"]
        <3> DEFINE b == IF Resumable(run.step) /\ area[Scratch(run.step)].exists THEN TRUE
                        ELSE ~ run.first
                   l == [run EXCEPT !.to = IF b THEN Scratch(run.step) ELSE Backup]
        <3>1. b \in BOOLEAN
            BY <1>0, RunFields
        <3>2. l \in Run
            BY <1>0, <2>1, Places, RunFields DEF Run
        <3>3. \/ pc' = "mkdir" /\ run' = l
              \/ pc' = "remove" /\ run' = [l EXCEPT !.rm = Staging(run.step), !.then = "copy"]
            BY <1>3 DEF Apply, Remove
        <3> QED  BY <3>1, <3>2, <3>3
    <2>3. run' \in Run /\ run'.step = run.step
        <3>1. PICK b \in BOOLEAN, l \in Run :
                 /\ l = [run EXCEPT !.to = IF b THEN Scratch(run.step) ELSE Backup]
                 /\ \/ run' = l
                    \/ run' = [l EXCEPT !.rm = Staging(run.step), !.then = "copy"]
            BY <2>2
        <3>2. l.step = run.step
            BY <1>0, <3>1, RunFields DEF Run
        <3>3. CASE run' = l
            BY <3>2, <3>3
        <3>4. CASE run' = [l EXCEPT !.rm = Staging(run.step), !.then = "copy"]
            <4>1. [l EXCEPT !.rm = Staging(run.step), !.then = "copy"] \in Run
                BY <2>1, Places, RemoveIsRun
            <4>2. run'.step = l.step
                BY <3>4 DEF Run
            <4> QED  BY <3>2, <3>4, <4>1, <4>2
        <3> QED  BY <3>1, <3>3, <3>4
    <2>4. pc' \in {"mkdir", "remove"}
        BY <2>2
    <2> QED  BY <1>0, <1>3, <2>1, <2>3, <2>4 DEF Apply, Typed, TypeOK
<1>4. CASE Copy
    <2>1. run.step \in Steps /\ Staging(run.step) \in Areas
        BY <1>4, Places DEF Copy, Typed
    <2>2. [Gone EXCEPT !.exists = TRUE, !.files = live] \in Area
        BY <1>0, GoneIsArea DEF TypeOK, Area
    <2>3. area' \in [Areas -> Area]
        BY <1>0, <1>4, <2>1, <2>2 DEF Copy, TypeOK
    <2> QED  BY <1>0, <1>4, <2>1, <2>3 DEF Copy, Typed, TypeOK
<1>5. CASE Convert
    <2>1. run.step \in Steps /\ Staging(run.step) \in Areas
        BY <1>5, Places DEF Convert, Typed
    <2>2. Converted(area[Staging(run.step)].files, run.step) \in [Names -> Content]
        BY <1>0, <2>1, AreaFields, Numbers DEF Converted, Content
    <2>3. area' = [area EXCEPT ![Staging(run.step)].files =
                      Converted(area[Staging(run.step)].files, run.step)]
        BY <1>5 DEF Convert
    <2>4. area' \in [Areas -> Area]
        BY <1>0, <2>1, <2>2, <2>3, FilesWrite
    <2> QED  BY <1>0, <1>5, <2>1, <2>4 DEF Convert, Typed, TypeOK
<1>6. CASE Mark
    <2>1. run.step \in Steps /\ Staging(run.step) \in Areas
        BY <1>6, Places DEF Mark, Typed
    <2>2. area' \in [Areas -> Area]
        BY <1>0, <1>6, <2>1, MarkerWrite DEF Mark
    <2>3. run' \in Run /\ run'.step = run.step
        BY <1>0, <1>6, RunFields, RemoveIsRun DEF Mark, Remove, Run
    <2> QED  BY <1>0, <1>6, <2>1, <2>2, <2>3 DEF Mark, Remove, Typed, TypeOK
<1>7. CASE StepFails
    <2>1. run.step \in Steps /\ Staging(run.step) \in Areas
        BY <1>7, Places DEF StepFails, Typed
    <2>2. run' \in Run /\ run'.step = run.step
        BY <1>0, <1>7, <2>1, RunFields, RemoveIsRun DEF StepFails, Remove, Run
    <2>3. errors' \in 0 .. MaxErrors
        BY <1>0, <1>7, BoundsAreNaturals DEF StepFails, Error, TypeOK
    <2> QED  BY <1>0, <1>7, <2>1, <2>2, <2>3 DEF StepFails, Remove, Typed, TypeOK
<1> QED
    BY <1>1, <1>2, <1>3, <1>4, <1>5, <1>6, <1>7

\* The removals, and the steps after the swap, keep them.
LEMMA FinishTyped ==
    ASSUME Typed,
           \/ RemoveEntry \/ Removed \/ Applied \/ NextStep \/ Discard \/ Crash \/ UserRestores
    PROVE  Typed'
<1> USE DEF disk, ghosts, Goto, End, Pcs
<1>0. TypeOK
    BY DEF Typed
<1>1. CASE RemoveEntry
    <2>1. run.rm \in Areas
        BY <1>0, RunFields
    <2>2. area' \in [Areas -> Area]
        BY <1>0, <1>1, <2>1, FileWrite, MarkerWrite DEF RemoveEntry, Content
    <2> QED  BY <1>0, <1>1, <2>2 DEF RemoveEntry, Typed, TypeOK
<1>2. CASE Removed
    <2>1. area' \in [Areas -> Area]
        BY <1>0, <1>2, GoneIsArea DEF Removed, TypeOK
    <2>2. errors' \in 0 .. MaxErrors
        BY <1>0, <1>2, BoundsAreNaturals DEF Removed, Error, TypeOK
    <2>3. /\ pc' \in {"idle", "copy", "mkdir", "applied", "next", "discard"} /\ run' \in Run
          /\ outcome' \in {"none", "ok", "failed", "refused"}
          /\ pc' # "idle" => run' = run
        BY <1>0, <1>2, RunFields, IdleIsRun DEF Removed, TypeOK
    <2> QED  BY <1>0, <1>2, <2>1, <2>2, <2>3 DEF Removed, Typed, TypeOK
<1>3. CASE Applied
    <2>1. run' \in Run /\ run'.step = run.step /\ pc' \in {"next", "remove"}
        <3>1. [run EXCEPT !.rm = run.to, !.then = "next"] \in Run
            BY <1>0, RunFields, RemoveIsRun
        <3>2. [run EXCEPT !.rm = run.to, !.then = "next"].step = run.step
            BY <1>0, RunFields DEF Run
        <3> QED  BY <1>0, <1>3, <3>1, <3>2, RunFields DEF Applied, Remove
    <2> QED  BY <1>0, <1>3, <2>1 DEF Applied, Typed, TypeOK
<1>4. CASE NextStep
    <2>1. run.step \in Steps
        BY <1>4 DEF NextStep, Typed
    <2>2. CASE run.step = Target
        BY <1>0, <1>4, <2>1, <2>2 DEF NextStep, Typed, TypeOK
    <2>3. CASE run.step # Target
        <3>1. run.step + 1 \in Steps
            BY <2>1, <2>3, Numbers DEF Steps
        <3>2. run' = [Idle EXCEPT !.step = run.step + 1] /\ pc' = "apply"
            BY <1>4, <2>3 DEF NextStep
        <3>3. run' \in Run /\ run'.step \in Steps
            BY <3>1, <3>2, IdleIsRun DEF Idle
        <3> QED  BY <1>0, <1>4, <3>2, <3>3 DEF NextStep, Typed, TypeOK
    <2> QED  BY <2>2, <2>3
<1>5. CASE Discard
    <2>1. \/ run' \in Run /\ run'.step = run.step /\ pc' = "remove" /\ UNCHANGED outcome
          \/ run' \in Run /\ pc' = "idle" /\ outcome' = "ok"
        <3>1. ASSUME NEW a \in Spent, UNCHANGED outcome,
                     Remove(a, "discard", [run EXCEPT !.tried = @ \cup {a}])
              PROVE  run' \in Run /\ run'.step = run.step /\ pc' = "remove" /\ UNCHANGED outcome
            <4>1. a \in Areas
                BY DEF Spent
            <4>2. [run EXCEPT !.tried = @ \cup {a}] \in Run
                BY <1>0, <4>1, RunFields DEF Run
            <4>3. /\ run' = [[run EXCEPT !.tried = @ \cup {a}] EXCEPT !.rm = a, !.then = "discard"]
                  /\ pc' = "remove"
                BY <3>1 DEF Remove, Goto
            <4> QED
                BY <1>0, <3>1, <4>1, <4>2, <4>3, RunFields, RemoveIsRun DEF Run
        <3>2. [Idle EXCEPT !.tried = run.tried] \in Run
            BY <1>0, RunFields, IdleIsRun
        <3> QED  BY <1>5, <3>1, <3>2 DEF Discard, Goto
    <2>2. run.step \in Steps
        BY <1>5 DEF Discard, Typed
    <2> QED  BY <1>0, <1>5, <2>1, <2>2, IdleIsRun DEF Discard, Typed, TypeOK
<1>6. CASE Crash
    <2>1. crashes' \in 0 .. MaxCrashes
        BY <1>0, <1>6, BoundsAreNaturals DEF Crash, TypeOK
    <2> QED  BY <1>0, <1>6, <2>1, IdleIsRun DEF Crash, Typed, TypeOK
<1>7. CASE UserRestores
    <2> DEFINE back == Missing(Version + 1)
    <2>1. live' = [n \in Names |-> IF n \in back THEN area[Backup].files[n] ELSE live[n]]
        BY <1>7 DEF UserRestores
    <2>2. area' = [area EXCEPT ![Backup].files =
                      [n \in Names |-> IF n \in back THEN None ELSE area[Backup].files[n]]]
        BY <1>7 DEF UserRestores
    <2>3. UNCHANGED <<marker, pc, run, ghosts, crashes, errors>> /\ outcome' = "none"
        BY <1>7 DEF UserRestores
    <2> HIDE DEF back
    <2>4. live' \in [Names -> Content]
        BY <1>0, <2>1, Places, AreaFields DEF TypeOK
    <2>5. [n \in Names |-> IF n \in back THEN None ELSE area[Backup].files[n]] \in [Names -> Content]
        BY <1>0, Places, AreaFields DEF Content
    <2>6. area' \in [Areas -> Area]
        BY <1>0, <2>2, <2>5, Places, FilesWrite
    <2> QED  BY <1>0, <2>3, <2>4, <2>6 DEF Typed, TypeOK
<1> QED
    BY <1>1, <1>2, <1>3, <1>4, <1>5, <1>6, <1>7

\* The steps of the swap and of its undoing keep them.
LEMMA SwapTyped ==
    ASSUME Typed,
           \/ MakeDir \/ KeepMarker \/ Commit \/ SwapFails \/ RolledBack
           \/ \E n \in Names : \/ Skip(n) \/ Displace(n) \/ PutIn(n)
                               \/ ClearLive(n) \/ PutBack(n) \/ PutBackFails(n)
    PROVE  Typed'
<1> USE DEF disk, ghosts, Goto, End, Pcs
<1>0. TypeOK
    BY DEF Typed
<1>a. run.to \in Areas
    BY <1>0, RunFields
<1>b. pc \in {"mkdir", "swap", "in", "commit", "rollback"} =>
         run.step \in Steps /\ Staging(run.step) \in Areas
    BY Places DEF Typed
<1>1. CASE MakeDir
    <2>1. area' \in [Areas -> Area]
        BY <1>0, <1>1, <1>a, ExistsWrite DEF MakeDir
    <2>2. run' \in Run /\ run'.step = run.step
        BY <1>0, <1>1, RunFields DEF MakeDir, Run
    <2> QED  BY <1>0, <1>1, <1>b, <2>1, <2>2 DEF MakeDir, Typed, TypeOK
<1>2. CASE KeepMarker
    <2>1. area' \in [Areas -> Area]
        <3>1. CASE marker = None
            BY <1>0, <1>2, <3>1 DEF KeepMarker, TypeOK
        <3>2. CASE marker # None
            <4>1. area' = [area EXCEPT ![run.to].marker = marker] /\ marker \in Steps \cup {None}
                BY <1>0, <1>2, <3>2 DEF KeepMarker, TypeOK
            <4> QED  BY <1>0, <1>a, <4>1, MarkerWrite
        <3> QED  BY <3>1, <3>2
    <2> QED  BY <1>0, <1>2, <1>b, <2>1 DEF KeepMarker, Typed, TypeOK
<1>3. CASE Commit
    <2>1. run.step \in Steps /\ area' = [area EXCEPT ![Staging(run.step)].marker = None]
        BY <1>3, <1>b DEF Commit
    <2>2. area' \in [Areas -> Area]
        BY <1>0, <1>b, <1>3, <2>1, MarkerWrite DEF Commit
    <2>3. run' \in Run /\ run'.step = run.step
        BY <1>0, <1>3, <1>b, RunFields, RemoveIsRun DEF Commit, Remove, Run
    <2> QED  BY <1>0, <1>3, <2>1, <2>2, <2>3 DEF Commit, Remove, Typed, TypeOK
<1>4. CASE SwapFails
    <2>1. run' \in Run /\ run'.step = run.step
        BY <1>0, <1>4, RunFields DEF SwapFails, Run
    <2>2. errors' \in 0 .. MaxErrors
        BY <1>0, <1>4, BoundsAreNaturals DEF SwapFails, Error, TypeOK
    <2>3. pc' = "rollback" /\ UNCHANGED <<disk, outcome, ghosts, crashes>> /\ run.step \in Steps
        BY <1>4, <1>b DEF SwapFails
    <2> QED  BY <1>0, <2>1, <2>2, <2>3 DEF Typed, TypeOK
<1>5. CASE RolledBack
    <2>1. CASE run.moved = {}
        BY <1>0, <1>5, <2>1, IdleIsRun DEF RolledBack, Typed, TypeOK
    <2>2. CASE run.moved # {}
        <3>1. run' = [run EXCEPT !.rm = Staging(run.step), !.then = "idle"] /\ pc' = "remove"
            BY <1>5, <2>2 DEF RolledBack, Remove
        <3>2. run' \in Run /\ run'.step = run.step
            BY <1>0, <1>5, <1>b, <3>1, RunFields, RemoveIsRun DEF RolledBack, Run
        <3> QED  BY <1>0, <1>5, <1>b, <2>2, <3>1, <3>2 DEF RolledBack, Remove, Typed, TypeOK
    <2> QED  BY <2>1, <2>2
<1>6. ASSUME NEW n \in Names,
             \/ Skip(n) \/ Displace(n) \/ PutIn(n) \/ ClearLive(n) \/ PutBack(n) \/ PutBackFails(n)
      PROVE  Typed'
    <2>a. live[n] \in Content /\ area[run.to].files[n] \in Content /\ None \in Content
        BY <1>0, <1>a, AreaFields DEF TypeOK, Content
    <2>1. CASE Skip(n)
        <3>1. run' \in Run /\ run'.step = run.step
            BY <1>0, <2>1, RunFields DEF Skip, Run
        <3> QED  BY <1>0, <1>b, <2>1, <3>1 DEF Skip, Typed, TypeOK
    <2>2. CASE Displace(n)
        <3>1. area' \in [Areas -> Area]
            BY <1>0, <1>a, <2>a, <2>2, FileWrite DEF Displace
        <3>2. live' \in [Names -> Content]
            BY <1>0, <2>a, <2>2 DEF Displace, TypeOK
        <3>3. run' \in Run /\ run'.step = run.step /\ run'.cur = n
            BY <1>0, <2>2, RunFields DEF Displace, Run
        <3> QED  BY <1>0, <1>b, <2>2, <3>1, <3>2, <3>3 DEF Displace, Typed, TypeOK
    <2>3. CASE PutIn(n)
        <3>0. run.step \in Steps /\ Staging(run.step) \in Areas /\ Staged(n) \in Content
            BY <1>0, <1>b, <2>3, AreaFields DEF PutIn, Staged
        <3>1. area' \in [Areas -> Area]
            BY <1>0, <3>0, <2>a, <2>3, FileWrite DEF PutIn
        <3>2. live' \in [Names -> Content]
            BY <1>0, <3>0, <2>3 DEF PutIn, TypeOK
        <3>3. run' \in Run /\ run'.step = run.step
            BY <1>0, <2>3, RunFields DEF PutIn, Run
        <3> QED  BY <1>0, <3>0, <2>3, <3>1, <3>2, <3>3 DEF PutIn, Typed, TypeOK
    <2>4. CASE ClearLive(n)
        <3>1. live' \in [Names -> Content]
            BY <1>0, <2>a, <2>4 DEF ClearLive, TypeOK
        <3> QED  BY <1>0, <1>b, <2>4, <3>1 DEF ClearLive, Typed, TypeOK
    <2>5. CASE PutBack(n)
        <3>1. area' \in [Areas -> Area]
            BY <1>0, <1>a, <2>a, <2>5, FileWrite DEF PutBack
        <3>2. live' \in [Names -> Content]
            BY <1>0, <2>a, <2>5 DEF PutBack, TypeOK
        <3>3. run' \in Run /\ run'.step = run.step
            BY <1>0, <2>5, RunFields DEF PutBack, Run
        <3> QED  BY <1>0, <1>b, <2>5, <3>1, <3>2, <3>3 DEF PutBack, Typed, TypeOK
    <2>6. CASE PutBackFails(n)
        <3>1. run' \in Run /\ run'.step = run.step
            BY <1>0, <2>6, RunFields DEF PutBackFails, Run
        <3>2. errors' \in 0 .. MaxErrors
            BY <1>0, <2>6, BoundsAreNaturals DEF PutBackFails, Error, TypeOK
        <3>3. stranded' \subseteq Names
            BY <1>0, <2>6 DEF PutBackFails, TypeOK
        <3> QED  BY <1>0, <1>b, <2>6, <3>1, <3>2, <3>3 DEF PutBackFails, Typed, TypeOK
    <2> QED  BY <1>6, <2>1, <2>2, <2>3, <2>4, <2>5, <2>6
<1> QED
    BY <1>1, <1>2, <1>3, <1>4, <1>5, <1>6

\* Every step keeps the types.
LEMMA NextTyped == Typed /\ [Next]_vars => Typed'
<1> SUFFICES ASSUME Typed, [Next]_vars PROVE Typed'
    OBVIOUS
<1>1. CASE UNCHANGED vars
    BY <1>1 DEF vars, disk, ghosts, Typed, TypeOK
<1>2. CASE Next
    BY <1>2, PrepareTyped, FinishTyped, SwapTyped DEF Next, Engine
<1> QED
    BY <1>1, <1>2

\* The state directory and the run keep their types.
THEOREM TypeCorrect == Spec => []TypeOK
<1>1. Typed => TypeOK
    BY DEF Typed
<1> QED
    BY <1>1, InitTyped, NextTyped, PTL DEF Spec

--------------------------------------------------------------------------------
(* What holds of the state directory at every stage of a run, as long as at *)
(* most one run has died or one call has failed.                            *)

Faults == crashes + errors

Removing(there) == pc = "remove" /\ run.then = there

\* The stages of a run.
Resting == pc \in {"idle", "start"}
Copying == pc \in {"copy", "convert", "mark"} \/ Removing("copy") \/ Removing("mkdir")
Swapping == pc \in {"mkdir", "swap", "in", "commit"}
Undoing == pc = "rollback" \/ Removing("idle")
Over == pc \in {"applied", "next"} \/ Removing("applied") \/ Removing("next")
Tidying == pc = "discard" \/ Removing("discard")
Later == pc = "apply" /\ ~ run.first

\* The step under way is the one after the marker, until the marker is committed.
StepInHand ==
    /\ pc = "apply" \/ Copying \/ Swapping \/ Undoing =>
          Version < Target /\ run.step = Version + 1
    /\ Over => run.step = Version /\ marker # None
    /\ Tidying => Version = Target
    /\ Later => Version >= 1

\* What a run displaces to and removes, and how far its loops are.
Locals ==
    /\ Copying \/ Swapping \/ Undoing \/ Over =>
          \/ run.to = Backup
          \/ run.to = Scratch(run.step) /\ run.step > 1
    /\ Removing("copy") \/ Removing("applied") \/ Removing("idle") => run.rm = Staging(run.step)
    /\ Removing("mkdir") => run.rm = run.to
    /\ Removing("next") => run.rm = Scratch(run.step)
    /\ Removing("discard") => run.rm # Backup
    /\ pc = "apply" \/ Copying \/ pc = "mkdir" => run.moved = {}
    /\ pc = "swap" => run.todo \cap run.moved = {}
    /\ pc = "in" => /\ Turn(run.cur) /\ live[run.cur] = None /\ run.cur \in run.moved
                    /\ run.todo \cap run.moved \subseteq {run.cur}
    /\ pc = "commit" => run.todo = {}
    /\ pc = "rollback" => run.todo \subseteq run.moved

\* A name the state did not start with holds nothing, anywhere.
NeverThere ==
    \A n \in Names \ had :
        /\ live[n] \in {None, Empty}
        /\ \A a \in Areas : area[a].files[n] \in {None, Empty}
        /\ n \notin Folders => live[n] = None /\ \A a \in Areas : area[a].files[n] = None

\* A staging copy holds what its step takes or makes, and its own marker.
StagedFiles ==
    \A r \in Steps : /\ \A n \in Names : area[Staging(r)].files[n] \in {r - 1, r, Empty, None}
                     /\ area[Staging(r)].marker \in {r, None}

\* No step after k has a directory.
Unborn(k) == \A r \in Steps : r > k => area[Staging(r)] = Gone /\ area[Scratch(r)] = Gone

Future ==
    /\ Unborn(Version + 1)
    /\ Over \/ Later => Unborn(Version)
    /\ Faults = 0 /\ pc \in {"idle", "start", "apply"} => Unborn(Version)
    /\ ~ area[Scratch(1)].exists
    /\ Faults = 0 /\ (Copying \/ pc = "mkdir") => ~ area[Scratch(Version + 1)].exists
    /\ Faults = 0 /\ Swapping /\ area[Scratch(Version + 1)].exists =>
          run.to = Scratch(Version + 1)

\* Where a name of the state is during the swap that displaces to d.
StagedFor(n) == area[Staging(Version + 1)].files[n]
Old(n) == live[n] = Version /\ StagedFor(n) = Version + 1
Out(n, d) == /\ live[n] = None \/ (n \in Folders /\ live[n] = Empty)
             /\ StagedFor(n) = Version + 1 /\ area[d].files[n] = Version
In(n, d) == live[n] = Version + 1 /\ StagedFor(n) = None /\ area[d].files[n] = Version

Ready == Version < Target /\ Resumable(Version + 1)
Unready == Version < Target => ~ Resumable(Version + 1)
Plain == \A n \in had : live[n] = Version
Between(d) == \A n \in had : Old(n) \/ Out(n, d) \/ In(n, d)
Ordered(d) == \A q \in had \cap Folders : ~ Old(q) => \A n \in had \ Folders : In(n, d)
Untouched(d) == \A n \in had : Old(n) => area[d].files[n] = None
Fresh(m) == \A n \in had \ m : Old(n)
OneOut(d) == \A m, n \in had : Out(m, d) /\ Out(n, d) => m = n

\* Where a run that is resumed displaces to.
Displaced == IF area[Scratch(Version + 1)].exists THEN Scratch(Version + 1) ELSE Backup

\* A swap that stopped and can be resumed.
Interrupted ==
    /\ Ready /\ Between(Displaced) /\ OneOut(Displaced)
    /\ \/ Fresh({})
       \/ Faults = 1 /\ Untouched(Displaced) /\ Ordered(Displaced)

\* The only name was out when the run died, and the next command has taken the
\* state for a new one.
Stamped ==
    /\ Version = Target
    /\ \A n \in had : live[n] \in {None, Empty} /\ area[Backup].files[n] = 0
    /\ area[Backup].marker = None

\* A swap that a run resumed: its own names are all it will have to put back.
Resumed ==
    /\ Faults = 1 /\ Untouched(run.to) /\ run.to = Displaced
    /\ (\E q \in had \cap Folders : live[q] = Empty) => run.moved = {}

SwapShape ==
    /\ Ready /\ Between(run.to) /\ Ordered(run.to)
    /\ Fresh(run.moved) \/ Resumed
    /\ \A n \in had \cap run.moved : ~ Old(n)
    /\ run.moved = {} => OneOut(run.to)
    /\ Faults = 0 => /\ Fresh(run.moved) /\ Untouched(run.to)
                     /\ \A n \in had : Out(n, run.to) => pc = "in" /\ n = run.cur
    /\ pc # "mkdir" => area[run.to].exists /\ \A n \in had \ run.todo : In(n, run.to)

UndoShape ==
    /\ Faults = 1
    /\ \/ run.moved = {} /\ Interrupted
       \/ /\ run.moved # {}
          /\ \A n \in had \ run.todo : live[n] = Version
          /\ \A n \in had \cap run.todo :
                /\ area[run.to].files[n] = Version
                /\ live[n] \in {None, Empty, Version, Version + 1}

Shape ==
    /\ Resting => (Plain /\ Unready) \/ Interrupted \/ Stamped
    /\ pc = "apply" => (Plain /\ Unready) \/ Interrupted
    /\ pc \in {"copy", "convert", "mark"} \/ Removing("copy") => Plain /\ Unready
    /\ pc = "convert" => \A n \in had : StagedFor(n) = Version
    /\ pc = "mark" => \A n \in had : StagedFor(n) = Version + 1
    /\ Removing("mkdir") => Ready /\ Fresh({})
    /\ Swapping => SwapShape
    /\ pc = "rollback" => UndoShape
    /\ Removing("idle") => Plain /\ Faults = 1
    /\ Over => Plain
    /\ Tidying => Plain \/ Stamped

\* The backup says itself which schema it holds.
BackupOK ==
    LET b == area[Backup]
    IN  \A n \in Names : b.files[n] \in {None, Empty, IF b.marker = None THEN 0 ELSE b.marker}

Backed ==
    /\ Version = 0 => area[Backup].marker = None
    /\ Resting \/ (pc = "apply" /\ run.first) =>
          BackupOK \/ (Version < Target /\ (~ Ready \/ ~ area[Scratch(Version + 1)].exists))
    /\ Copying \/ Swapping \/ Undoing => run.to = Backup \/ BackupOK
    /\ Later \/ pc = "commit" \/ Over \/ Tidying => BackupOK
    /\ Swapping /\ run.to = Backup =>
          \/ ~ area[Scratch(Version + 1)].exists
          \/ Faults = 1 /\ Fresh(run.moved) /\ Untouched(run.to)
    /\ pc = "rollback" /\ run.to = Backup => ~ area[Scratch(Version + 1)].exists

Ends ==
    /\ outcome # "refused"
    /\ outcome = "ok" => /\ pc = "idle" /\ Version = Target
                         /\ \A a \in Areas \ {Backup} : area[a].exists => a \in run.tried
    /\ pc = "start" => \A n \in Folders : live[n] # None

Core == StepInHand /\ Locals /\ NeverThere /\ StagedFiles /\ Future /\ Shape /\ Backed /\ Ends

\* What the clean-up has been at is gone, or its removal has failed or is going on.
Tried ==
    /\ run.tried # {} => pc = "idle" \/ Tidying
    /\ \A a \in run.tried : area[a].exists => errors # 0 \/ (Removing("discard") /\ run.rm = a)

IInv == Typed /\ Tried /\ (OneFault => Core)

--------------------------------------------------------------------------------
(* What each action does, in the words of the invariant.                   *)

\* The numbers of versions, steps and faults.
LEMMA Bounds ==
    ASSUME TypeOK
    PROVE  /\ Version \in 0 .. Target /\ Version \in Nat /\ Faults \in Nat
           /\ Version < Target => Version + 1 \in Steps
           /\ OneFault <=> Faults \in {0, 1}
           /\ Version \notin {None, Empty} /\ Version + 1 \notin {None, Empty}
<1>1. Version \in 0 .. Target /\ Version \in Nat
    BY VersionType
<1>2. crashes \in Nat /\ errors \in Nat
    BY BoundsAreNaturals DEF TypeOK
<1>3. Version \notin {None, Empty} /\ Version + 1 \notin {None, Empty}
    BY <1>1, Numbers
<1> QED
    BY <1>1, <1>2, <1>3, Numbers DEF Steps, Faults, OneFault

LEMMA ErrorDoes ==
    ASSUME TypeOK, Error, crashes' = crashes
    PROVE  Faults' = Faults + 1
BY BoundsAreNaturals DEF TypeOK, Error, Faults

LEMMA ImportDoes ==
    ASSUME Typed, Import
    PROVE  /\ pc = "idle" /\ outcome \notin {"ok", "refused"}
           /\ pc' = "start" /\ run' = Idle /\ area' = area /\ outcome' = outcome
           /\ had' = had /\ Faults' = Faults
           /\ \A n \in Names : live'[n] = IF n \in Folders /\ live[n] = None THEN Empty ELSE live[n]
           /\ \/ marker' = marker /\ Version' = Version
              \/ /\ marker = None /\ (\A n \in Names : live[n] \in {None, Empty})
                 /\ Version = 0 /\ marker' = Target /\ Version' = Target
BY Numbers DEF Typed, TypeOK, Import, Goto, ghosts, Faults, Version

LEMMA BeginDoes ==
    ASSUME Typed, Begin
    PROVE  /\ pc = "start" /\ UNCHANGED <<disk, had>> /\ Version' = Version /\ Faults' = Faults
           /\ \/ /\ Version = Target /\ pc' = "discard" /\ outcome' = outcome
                 /\ run' = [Idle EXCEPT !.step = Target]
              \/ /\ Version < Target /\ pc' = "apply" /\ outcome' = outcome
                 /\ run'.step = Version + 1 /\ run'.first /\ run'.moved = {}
              \/ /\ Version < Target /\ Missing(Version + 1) # {}
                 /\ pc' = "idle" /\ outcome' = "refused"
<1>1. pc' = "apply" => run' = [Idle EXCEPT !.step = Version + 1, !.first = TRUE]
    BY DEF Begin, Goto, End
<1>2. pc' = "apply" => run'.step = Version + 1 /\ run'.first /\ run'.moved = {}
    <2>1. \A s, b : LET r == [Idle EXCEPT !.step = s, !.first = b]
                    IN  r.step = s /\ r.first = b /\ r.moved = {}
        BY DEF Idle
    <2> QED  BY <1>1, <2>1
<1> QED
    BY <1>2 DEF Begin, Goto, End, disk, ghosts, Version, Faults

LEMMA ApplyDoes ==
    ASSUME Typed, Apply
    PROVE  /\ pc = "apply" /\ UNCHANGED <<disk, had, outcome>> /\ Version' = Version
           /\ Faults' = Faults
           /\ run'.step = run.step /\ run'.moved = run.moved /\ run'.todo = run.todo
           /\ run'.to = IF (Resumable(run.step) /\ area[Scratch(run.step)].exists) \/ ~ run.first
                        THEN Scratch(run.step) ELSE Backup
           /\ \/ Resumable(run.step) /\ pc' = "mkdir"
              \/ /\ ~ Resumable(run.step) /\ pc' = "remove"
                 /\ run'.rm = Staging(run.step) /\ run'.then = "copy"
<1> DEFINE d == IF (Resumable(run.step) /\ area[Scratch(run.step)].exists) \/ ~ run.first
                THEN Scratch(run.step) ELSE Backup
<1>1. pc = "apply" /\ UNCHANGED <<disk, had, outcome, crashes, errors>>
    BY DEF Apply, disk, ghosts
<1>2. \/ Resumable(run.step) /\ pc' = "mkdir" /\ run' = [run EXCEPT !.to = d]
      \/ /\ ~ Resumable(run.step) /\ pc' = "remove"
         /\ run' = [[run EXCEPT !.to = d] EXCEPT !.rm = Staging(run.step), !.then = "copy"]
    BY DEF Apply, Goto, Remove
<1>3. run \in Run
    BY RunFields DEF Typed
<1> HIDE DEF d
<1>4. run'.step = run.step /\ run'.moved = run.moved /\ run'.todo = run.todo /\ run'.to = d
    BY <1>2, <1>3 DEF Run
<1>5. pc' = "remove" => run'.rm = Staging(run.step) /\ run'.then = "copy"
    BY <1>2, <1>3 DEF Run
<1>6. Version' = Version /\ Faults' = Faults
    BY <1>1 DEF disk, Version, Faults
<1> QED
    BY <1>1, <1>2, <1>4, <1>5, <1>6 DEF d

LEMMA RemoveEntryDoes ==
    ASSUME Typed, RemoveEntry
    PROVE  /\ pc = "remove" /\ UNCHANGED <<live, marker, pc, run, had, outcome>>
           /\ Version' = Version /\ Faults' = Faults /\ run.rm \in Areas
           /\ \A a \in Areas \ {run.rm} : area'[a] = area[a]
           /\ area[run.rm] # Gone
           /\ area'[run.rm].exists = area[run.rm].exists
           /\ area'[run.rm].marker \in {area[run.rm].marker, None}
           /\ \A n \in Names : area'[run.rm].files[n] \in {area[run.rm].files[n], None}
<1>1. TypeOK /\ run.rm \in Areas /\ None \in Content
    BY RunFields DEF Typed, Content
<1>2. pc = "remove" /\ UNCHANGED <<live, marker, pc, run, had, outcome>> /\ Version' = Version
      /\ Faults' = Faults
    BY DEF RemoveEntry, ghosts, Version, Faults
<1>3. area[run.rm] # Gone
    BY DEF RemoveEntry, Gone, NoFiles
<1>4. CASE \E n \in Names : /\ area[run.rm].files[n] # None
                            /\ area' = [area EXCEPT ![run.rm].files[n] = None]
    <2>1. PICK n \in Names : area' = [area EXCEPT ![run.rm].files[n] = None]
        BY <1>4
    <2>2a. \A b \in Areas \ {run.rm} : area'[b] = area[b]
        BY <1>1, <2>1, FileWrite
    <2>2b. area'[run.rm].marker = area[run.rm].marker
        BY <1>1, <2>1, FileWrite
    <2>2c. area'[run.rm].files[n] = None
        BY <1>1, <2>1, FileWritten
    <2>2d. \A m \in Names \ {n} : area'[run.rm].files[m] = area[run.rm].files[m]
        BY <1>1, <2>1, FileWrite
    <2>3. area'[run.rm].exists = area[run.rm].exists
        BY <1>1, <2>1, FileWrite
    <2> QED  BY <1>1, <1>2, <1>3, <2>2a, <2>2b, <2>2c, <2>2d, <2>3
<1>5. CASE area' = [area EXCEPT ![run.rm].marker = None]
    <2>1. /\ \A b \in Areas \ {run.rm} : area'[b] = area[b]
          /\ area'[run.rm].exists = area[run.rm].exists
          /\ area'[run.rm].files = area[run.rm].files
          /\ area'[run.rm].marker = None
        BY <1>1, <1>5, MarkerWrite
    <2> QED  BY <1>1, <1>2, <1>3, <2>1
<1> QED
    BY <1>4, <1>5 DEF RemoveEntry

LEMMA RemovedDoes ==
    ASSUME Typed, Removed
    PROVE  /\ pc = "remove" /\ UNCHANGED <<live, marker, had>> /\ Version' = Version
           /\ run.rm \in Areas
           /\ \A a \in Areas \ {run.rm} : area'[a] = area[a]
           /\ \/ area'[run.rm] = Gone /\ Faults' = Faults
              \/ area' = area /\ Faults' = Faults + 1
           /\ \/ Removing("idle") /\ pc' = "idle" /\ outcome' = "failed"
              \/ /\ pc' = run.then /\ run' = run /\ outcome' = outcome
                 /\ run.then \in {"copy", "mkdir", "applied", "next", "discard"}
<1>1. TypeOK /\ run.rm \in Areas
    BY RunFields DEF Typed
<1>2. pc = "remove" /\ UNCHANGED <<live, marker, had, crashes>> /\ Version' = Version
    BY DEF Removed, ghosts, Version
<1>3. \/ area' = [area EXCEPT ![run.rm] = Gone] /\ Faults' = Faults
      \/ area' = area /\ Faults' = Faults + 1
    BY <1>1, <1>2, ErrorDoes DEF Removed, Faults
<1>4. \/ area'[run.rm] = Gone /\ Faults' = Faults
      \/ area' = area /\ Faults' = Faults + 1
    BY <1>1, <1>3 DEF TypeOK
<1>5. \A a \in Areas \ {run.rm} : area'[a] = area[a]
    BY <1>1, <1>3 DEF TypeOK
<1>6. \/ Removing("idle") /\ pc' = "idle" /\ outcome' = "failed"
      \/ /\ pc' = run.then /\ run' = run /\ outcome' = outcome
         /\ run.then \in {"copy", "mkdir", "applied", "next", "discard"}
    BY <1>1, RunFields DEF Removed, Removing, Goto, End
<1> QED
    BY <1>1, <1>2, <1>4, <1>5, <1>6

LEMMA CopyDoes ==
    ASSUME Typed, Copy
    PROVE  /\ pc = "copy" /\ pc' = "convert" /\ run' = run /\ run.step \in Steps
           /\ UNCHANGED <<live, marker, had, outcome>> /\ Version' = Version /\ Faults' = Faults
           /\ \A a \in Areas \ {Staging(run.step)} : area'[a] = area[a]
           /\ area'[Staging(run.step)].files = live /\ area'[Staging(run.step)].marker = None
<1>1. run.step \in Steps /\ Staging(run.step) \in Areas
    BY Places DEF Copy, Typed
<1>2. /\ pc = "copy" /\ pc' = "convert" /\ run' = run
      /\ UNCHANGED <<live, marker, had, outcome>> /\ Version' = Version /\ Faults' = Faults
    BY DEF Copy, Goto, ghosts, Version, Faults
<1>3. area' = [area EXCEPT ![Staging(run.step)] = [Gone EXCEPT !.exists = TRUE, !.files = live]]
    BY DEF Copy
<1>4. \A a \in Areas \ {Staging(run.step)} : area'[a] = area[a]
    BY <1>1, <1>3 DEF Typed, TypeOK
<1>5. area'[Staging(run.step)] = [Gone EXCEPT !.exists = TRUE, !.files = live]
    BY <1>1, <1>3 DEF Typed, TypeOK
<1>6. area'[Staging(run.step)].files = live /\ area'[Staging(run.step)].marker = None
    BY <1>5 DEF Gone
<1> QED
    BY <1>1, <1>2, <1>4, <1>6

LEMMA ConvertDoes ==
    ASSUME Typed, Convert
    PROVE  /\ pc = "convert" /\ pc' = "mark" /\ run' = run /\ run.step \in Steps
           /\ UNCHANGED <<live, marker, had, outcome>> /\ Version' = Version /\ Faults' = Faults
           /\ \A a \in Areas \ {Staging(run.step)} : area'[a] = area[a]
           /\ area'[Staging(run.step)].marker = area[Staging(run.step)].marker
           /\ \A n \in Names : LET old == area[Staging(run.step)].files[n]
                               IN  area'[Staging(run.step)].files[n] =
                                      IF old \in {None, Empty} THEN old
                                      ELSE IF old = run.step - 1 THEN run.step ELSE Bad
<1>1. TypeOK /\ run.step \in Steps /\ Staging(run.step) \in Areas
    BY Places DEF Convert, Typed
<1>2. /\ pc = "convert" /\ pc' = "mark" /\ run' = run
      /\ UNCHANGED <<live, marker, had, outcome>> /\ Version' = Version /\ Faults' = Faults
    BY DEF Convert, Goto, ghosts, Version, Faults
<1> DEFINE files == area[Staging(run.step)].files
           made == Converted(files, run.step)
<1>3. area' = [area EXCEPT ![Staging(run.step)].files = made]
    BY DEF Convert
<1>4. made \in [Names -> Content]
    BY <1>1, AreaFields, Numbers DEF Converted, Content
<1>5. \A n \in Names : made[n] = IF files[n] \in {None, Empty} THEN files[n]
                                 ELSE IF files[n] = run.step - 1 THEN run.step ELSE Bad
    BY DEF Converted
<1> HIDE DEF made
<1>6. /\ \A a \in Areas \ {Staging(run.step)} : area'[a] = area[a]
      /\ area'[Staging(run.step)].marker = area[Staging(run.step)].marker
      /\ area'[Staging(run.step)].files = made
    BY <1>1, <1>3, <1>4, FilesWrite
<1> QED
    BY <1>1, <1>2, <1>5, <1>6

LEMMA MarkDoes ==
    ASSUME Typed, Mark
    PROVE  /\ pc = "mark" /\ run.step \in Steps
           /\ pc' = "remove" /\ run'.then = "mkdir" /\ run'.rm = run.to
           /\ run'.step = run.step /\ run'.to = run.to /\ run'.moved = run.moved
           /\ UNCHANGED <<live, marker, had, outcome>> /\ Version' = Version /\ Faults' = Faults
           /\ \A a \in Areas \ {Staging(run.step)} : area'[a] = area[a]
           /\ area'[Staging(run.step)].files = area[Staging(run.step)].files
           /\ area'[Staging(run.step)].marker = run.step
<1>1. TypeOK /\ run.step \in Steps /\ Staging(run.step) \in Areas /\ run \in Run
    BY Places, RunFields DEF Mark, Typed
<1>2. /\ pc = "mark" /\ pc' = "remove"
      /\ UNCHANGED <<live, marker, had, outcome>> /\ Version' = Version /\ Faults' = Faults
      /\ run' = [run EXCEPT !.rm = run.to, !.then = "mkdir"]
      /\ area' = [area EXCEPT ![Staging(run.step)].marker = run.step]
    BY DEF Mark, Remove, Goto, ghosts, Version, Faults
<1>3. /\ run'.then = "mkdir" /\ run'.rm = run.to
      /\ run'.step = run.step /\ run'.to = run.to /\ run'.moved = run.moved
    BY <1>1, <1>2 DEF Run
<1>4. /\ \A a \in Areas \ {Staging(run.step)} : area'[a] = area[a]
      /\ area'[Staging(run.step)].files = area[Staging(run.step)].files
      /\ area'[Staging(run.step)].marker = run.step
    BY <1>1, <1>2, MarkerWrite
<1> QED
    BY <1>1, <1>2, <1>3, <1>4

LEMMA StepFailsDoes ==
    ASSUME Typed, StepFails
    PROVE  /\ pc \in {"copy", "convert", "mark"}
           /\ pc' = "remove" /\ run'.then = "idle" /\ run'.rm = Staging(run.step)
           /\ run'.step = run.step /\ run'.to = run.to /\ run'.moved = run.moved
           /\ UNCHANGED <<disk, had, outcome>> /\ Version' = Version /\ Faults' = Faults + 1
<1>1. TypeOK /\ run \in Run
    BY RunFields DEF Typed
<1>2. /\ pc \in {"copy", "convert", "mark"} /\ pc' = "remove" /\ UNCHANGED <<disk, had, outcome>>
      /\ Error /\ crashes' = crashes
      /\ run' = [run EXCEPT !.rm = Staging(run.step), !.then = "idle"]
    BY DEF StepFails, Remove, Goto, ghosts, disk
<1>3. /\ run'.then = "idle" /\ run'.rm = Staging(run.step)
      /\ run'.step = run.step /\ run'.to = run.to /\ run'.moved = run.moved
    BY <1>1, <1>2 DEF Run
<1>4. Version' = Version /\ Faults' = Faults + 1
    BY <1>1, <1>2, ErrorDoes DEF Version, disk
<1> QED
    BY <1>2, <1>3, <1>4

LEMMA MakeDirDoes ==
    ASSUME Typed, MakeDir
    PROVE  /\ pc = "mkdir" /\ pc' = "swap" /\ run.to \in Areas
           /\ run'.step = run.step /\ run'.to = run.to /\ run'.moved = {} /\ run'.todo = Names
           /\ UNCHANGED <<live, marker, had, outcome>> /\ Version' = Version /\ Faults' = Faults
           /\ \A a \in Areas \ {run.to} : area'[a] = area[a]
           /\ area'[run.to].files = area[run.to].files
           /\ area'[run.to].marker = area[run.to].marker
           /\ area'[run.to].exists
<1>1. TypeOK /\ run.to \in Areas /\ run \in Run
    BY RunFields DEF Typed
<1>2. /\ pc = "mkdir" /\ pc' = "swap" /\ UNCHANGED <<live, marker, had, outcome>>
      /\ Version' = Version /\ Faults' = Faults
      /\ run' = [run EXCEPT !.todo = Names, !.moved = {}]
      /\ area' = [area EXCEPT ![run.to].exists = TRUE]
    BY DEF MakeDir, Goto, ghosts, Version, Faults
<1>3. run'.step = run.step /\ run'.to = run.to /\ run'.moved = {} /\ run'.todo = Names
    BY <1>1, <1>2 DEF Run
<1>4. /\ \A a \in Areas \ {run.to} : area'[a] = area[a]
      /\ area'[run.to].files = area[run.to].files
      /\ area'[run.to].marker = area[run.to].marker
      /\ area'[run.to].exists
    BY <1>1, <1>2, ExistsWrite
<1> QED
    BY <1>1, <1>2, <1>3, <1>4

LEMMA SkipDoes ==
    ASSUME Typed, NEW n \in Names, Skip(n)
    PROVE  /\ pc = "swap" /\ pc' = "swap" /\ Turn(n) /\ Staged(n) = None
           /\ run'.step = run.step /\ run'.to = run.to /\ run'.moved = run.moved
           /\ run'.todo = run.todo \ {n}
           /\ UNCHANGED <<disk, had, outcome>> /\ Version' = Version /\ Faults' = Faults
<1>1. run \in Run
    BY RunFields DEF Typed
<1>2. run' = [run EXCEPT !.todo = run.todo \ {n}]
    BY DEF Skip, Goto
<1>3. /\ run'.step = run.step /\ run'.to = run.to /\ run'.moved = run.moved
      /\ run'.todo = run.todo \ {n}
    BY <1>1, <1>2 DEF Run
<1> QED
    BY <1>3 DEF Skip, Goto, disk, ghosts, Version, Faults

LEMMA DisplaceDoes ==
    ASSUME Typed, NEW n \in Names, Displace(n)
    PROVE  /\ pc = "swap" /\ pc' = "in" /\ Turn(n) /\ Staged(n) # None /\ live[n] # None
           /\ ~ Blocked(n) /\ run.to \in Areas
           /\ run'.step = run.step /\ run'.to = run.to /\ run'.moved = run.moved \cup {n}
           /\ run'.todo = run.todo /\ run'.cur = n
           /\ UNCHANGED <<marker, had, outcome>> /\ Version' = Version /\ Faults' = Faults
           /\ live'[n] = None /\ \A m \in Names \ {n} : live'[m] = live[m]
           /\ \A a \in Areas \ {run.to} : area'[a] = area[a]
           /\ area'[run.to].exists = area[run.to].exists
           /\ area'[run.to].marker = area[run.to].marker
           /\ area'[run.to].files[n] = live[n]
           /\ \A m \in Names \ {n} : area'[run.to].files[m] = area[run.to].files[m]
<1>1. TypeOK /\ run.to \in Areas /\ run \in Run /\ live[n] \in Content
    BY RunFields DEF Typed, TypeOK
<1>2. /\ pc = "swap" /\ pc' = "in" /\ Turn(n) /\ Staged(n) # None /\ live[n] # None
      /\ ~ Blocked(n) /\ UNCHANGED <<marker, had, outcome>>
      /\ Version' = Version /\ Faults' = Faults
      /\ run' = [run EXCEPT !.cur = n, !.moved = run.moved \cup {n}]
      /\ area' = [area EXCEPT ![run.to].files[n] = live[n]]
      /\ live' = [live EXCEPT ![n] = None]
    BY DEF Displace, Goto, ghosts, Version, Faults
<1>3. /\ run'.step = run.step /\ run'.to = run.to /\ run'.moved = run.moved \cup {n}
      /\ run'.todo = run.todo /\ run'.cur = n
    BY <1>1, <1>2 DEF Run
<1>4. live'[n] = None /\ \A m \in Names \ {n} : live'[m] = live[m]
    BY <1>1, <1>2 DEF TypeOK
<1>5. /\ \A a \in Areas \ {run.to} : area'[a] = area[a]
      /\ area'[run.to].marker = area[run.to].marker
      /\ \A m \in Names \ {n} : area'[run.to].files[m] = area[run.to].files[m]
    BY <1>1, <1>2, FileWrite
<1>6. area'[run.to].exists = area[run.to].exists
    BY <1>1, <1>2, FileWrite
<1>7. area'[run.to].files[n] = live[n]
    BY <1>1, <1>2, FileWritten
<1> QED
    BY <1>1, <1>2, <1>3, <1>4, <1>5, <1>6, <1>7

LEMMA PutInDoes ==
    ASSUME Typed, NEW n \in Names, PutIn(n)
    PROVE  /\ \/ pc = "swap" /\ Turn(n) /\ Staged(n) # None /\ live[n] = None
              \/ pc = "in" /\ n = run.cur
           /\ pc' = "swap" /\ run.step \in Steps
           /\ run'.step = run.step /\ run'.to = run.to /\ run'.moved = run.moved
           /\ run'.todo = run.todo \ {n}
           /\ UNCHANGED <<marker, had, outcome>> /\ Version' = Version /\ Faults' = Faults
           /\ live'[n] = Staged(n) /\ \A m \in Names \ {n} : live'[m] = live[m]
           /\ \A a \in Areas \ {Staging(run.step)} : area'[a] = area[a]
           /\ area'[Staging(run.step)].exists = area[Staging(run.step)].exists
           /\ area'[Staging(run.step)].marker = area[Staging(run.step)].marker
           /\ area'[Staging(run.step)].files[n] = None
           /\ \A m \in Names \ {n} :
                 area'[Staging(run.step)].files[m] = area[Staging(run.step)].files[m]
<1>1. TypeOK /\ run.step \in Steps /\ Staging(run.step) \in Areas /\ run \in Run /\ None \in Content
    BY RunFields, Places DEF Typed, PutIn, Content
<1>2. /\ \/ pc = "swap" /\ Turn(n) /\ Staged(n) # None /\ live[n] = None
         \/ pc = "in" /\ n = run.cur
      /\ pc' = "swap" /\ UNCHANGED <<marker, had, outcome>>
      /\ Version' = Version /\ Faults' = Faults
      /\ run' = [run EXCEPT !.todo = run.todo \ {n}, !.cur = None]
      /\ area' = [area EXCEPT ![Staging(run.step)].files[n] = None]
      /\ live' = [live EXCEPT ![n] = Staged(n)]
    BY DEF PutIn, Goto, ghosts, Version, Faults
<1>3. /\ run'.step = run.step /\ run'.to = run.to /\ run'.moved = run.moved
      /\ run'.todo = run.todo \ {n}
    BY <1>1, <1>2 DEF Run
<1>4. live'[n] = Staged(n) /\ \A m \in Names \ {n} : live'[m] = live[m]
    BY <1>1, <1>2 DEF TypeOK
<1>5. /\ \A a \in Areas \ {Staging(run.step)} : area'[a] = area[a]
      /\ area'[Staging(run.step)].marker = area[Staging(run.step)].marker
      /\ \A m \in Names \ {n} :
            area'[Staging(run.step)].files[m] = area[Staging(run.step)].files[m]
    BY <1>1, <1>2, FileWrite
<1>6. area'[Staging(run.step)].exists = area[Staging(run.step)].exists
    BY <1>1, <1>2, FileWrite
<1>7. area'[Staging(run.step)].files[n] = None
    BY <1>1, <1>2, FileWritten
<1> QED
    BY <1>1, <1>2, <1>3, <1>4, <1>5, <1>6, <1>7

LEMMA KeepMarkerDoes ==
    ASSUME Typed, KeepMarker
    PROVE  /\ pc = "swap" /\ pc' = "commit" /\ run' = run /\ run.todo = {} /\ run.to \in Areas
           /\ UNCHANGED <<live, marker, had, outcome>> /\ Version' = Version /\ Faults' = Faults
           /\ \A a \in Areas \ {run.to} : area'[a] = area[a]
           /\ area'[run.to].exists = area[run.to].exists
           /\ area'[run.to].files = area[run.to].files
           /\ area'[run.to].marker = IF marker = None THEN area[run.to].marker ELSE marker
<1>1. TypeOK /\ run.to \in Areas /\ marker \in Steps \cup {None}
    BY RunFields DEF Typed, TypeOK
<1>2. /\ pc = "swap" /\ pc' = "commit" /\ run' = run /\ run.todo = {}
      /\ UNCHANGED <<live, marker, had, outcome>> /\ Version' = Version /\ Faults' = Faults
    BY DEF KeepMarker, Goto, ghosts, Version, Faults
<1>3. CASE marker = None
    <2>1. area' = area
        BY <1>3 DEF KeepMarker
    <2> QED  BY <1>1, <1>2, <1>3, <2>1
<1>4. CASE marker # None
    <2>1. area' = [area EXCEPT ![run.to].marker = marker]
        BY <1>4 DEF KeepMarker
    <2>2. /\ \A a \in Areas \ {run.to} : area'[a] = area[a]
          /\ area'[run.to].files = area[run.to].files
          /\ area'[run.to].marker = marker
        BY <1>1, <2>1, MarkerWrite
    <2>3. area'[run.to].exists = area[run.to].exists
        BY <1>1, <2>1, MarkerWrite
    <2> QED  BY <1>1, <1>2, <1>4, <2>2, <2>3
<1> QED
    BY <1>3, <1>4

LEMMA CommitDoes ==
    ASSUME Typed, Commit
    PROVE  /\ pc = "commit" /\ pc' = "remove" /\ run'.then = "applied"
           /\ run.step \in Steps /\ run'.rm = Staging(run.step)
           /\ run'.step = run.step /\ run'.to = run.to /\ run'.moved = run.moved
           /\ UNCHANGED <<live, had, outcome>> /\ Faults' = Faults
           /\ marker' = run.step /\ Version' = run.step
           /\ \A a \in Areas \ {Staging(run.step)} : area'[a] = area[a]
           /\ area'[Staging(run.step)].files = area[Staging(run.step)].files
           /\ area'[Staging(run.step)].marker = None
<1>1. TypeOK /\ run.step \in Steps /\ Staging(run.step) \in Areas /\ run \in Run
    BY RunFields, Places DEF Typed, Commit
<1>2. /\ pc = "commit" /\ pc' = "remove" /\ marker' = run.step
      /\ UNCHANGED <<live, had, outcome>> /\ Faults' = Faults
      /\ run' = [run EXCEPT !.rm = Staging(run.step), !.then = "applied"]
      /\ area' = [area EXCEPT ![Staging(run.step)].marker = None]
    BY DEF Commit, Remove, Goto, ghosts, Faults
<1>3. /\ run'.then = "applied" /\ run'.rm = Staging(run.step)
      /\ run'.step = run.step /\ run'.to = run.to /\ run'.moved = run.moved
    BY <1>1, <1>2 DEF Run
<1>4. Version' = run.step
    BY <1>1, <1>2, Numbers DEF Version
<1>5. /\ \A a \in Areas \ {Staging(run.step)} : area'[a] = area[a]
      /\ area'[Staging(run.step)].files = area[Staging(run.step)].files
      /\ area'[Staging(run.step)].marker = None
    BY <1>1, <1>2, MarkerWrite
<1> QED
    BY <1>1, <1>2, <1>3, <1>4, <1>5

LEMMA AppliedDoes ==
    ASSUME Typed, Applied
    PROVE  /\ pc = "applied" /\ run'.step = run.step /\ run'.to = run.to
           /\ \/ pc' = "next"
              \/ run.to # Backup /\ pc' = "remove" /\ run'.then = "next" /\ run'.rm = run.to
           /\ UNCHANGED <<disk, had, outcome>> /\ Version' = Version /\ Faults' = Faults
<1>1. run \in Run
    BY RunFields DEF Typed
<1>2. /\ pc = "applied" /\ UNCHANGED <<disk, had, outcome>> /\ Version' = Version
      /\ Faults' = Faults
      /\ \/ pc' = "next" /\ run' = run
         \/ /\ run.to # Backup /\ pc' = "remove"
            /\ run' = [run EXCEPT !.rm = run.to, !.then = "next"]
    BY DEF Applied, Remove, Goto, ghosts, disk, Version, Faults
<1>3. CASE run' = run /\ pc' = "next"
    BY <1>2, <1>3
<1>4. CASE run.to # Backup /\ pc' = "remove" /\ run' = [run EXCEPT !.rm = run.to, !.then = "next"]
    <2>1. run'.step = run.step /\ run'.to = run.to /\ run'.then = "next" /\ run'.rm = run.to
        BY <1>1, <1>4 DEF Run
    <2> QED  BY <1>2, <1>4, <2>1
<1> QED
    BY <1>2, <1>3, <1>4

LEMMA NextStepDoes ==
    ASSUME Typed, NextStep
    PROVE  /\ pc = "next" /\ run.step \in Steps
           /\ \/ run.step = Target /\ pc' = "discard" /\ run' = run
              \/ /\ run.step # Target /\ pc' = "apply"
                 /\ run'.step = run.step + 1 /\ ~ run'.first /\ run'.moved = {}
           /\ UNCHANGED <<disk, had, outcome>> /\ Version' = Version /\ Faults' = Faults
<1>1. /\ pc = "next" /\ UNCHANGED <<disk, had, outcome>> /\ Version' = Version /\ Faults' = Faults
      /\ \/ run.step = Target /\ pc' = "discard" /\ run' = run
         \/ /\ run.step # Target /\ pc' = "apply" /\ run' = [Idle EXCEPT !.step = run.step + 1]
    BY DEF NextStep, Goto, ghosts, disk, Version, Faults
<1>2. \A s : LET r == [Idle EXCEPT !.step = s]
             IN  r.step = s /\ ~ r.first /\ r.moved = {}
    BY DEF Idle
<1> QED
    BY <1>1, <1>2 DEF Typed

LEMMA DiscardDoes ==
    ASSUME Typed, Discard
    PROVE  /\ pc = "discard" /\ UNCHANGED <<disk, had>> /\ Version' = Version /\ Faults' = Faults
           /\ \/ /\ pc' = "remove" /\ run'.then = "discard" /\ run'.rm # Backup
                 /\ outcome' = outcome
              \/ pc' = "idle" /\ outcome' = "ok" /\ Spent \subseteq run'.tried
<1>1. run \in Run
    BY RunFields DEF Typed
<1>2. pc = "discard" /\ UNCHANGED <<disk, had>> /\ Version' = Version /\ Faults' = Faults
    BY DEF Discard, ghosts, disk, Version, Faults
<1>3. \/ \E a \in Spent : /\ Remove(a, "discard", [run EXCEPT !.tried = @ \cup {a}])
                            /\ UNCHANGED outcome
      \/ pc' = "idle" /\ outcome' = "ok" /\ Spent \subseteq run'.tried
    <2>1. [Idle EXCEPT !.tried = run.tried].tried = run.tried
        BY DEF Idle
    <2> QED  BY <2>1 DEF Discard, Goto
<1>4. ASSUME NEW a \in Spent, UNCHANGED outcome,
             Remove(a, "discard", [run EXCEPT !.tried = @ \cup {a}])
      PROVE  /\ pc' = "remove" /\ run'.then = "discard" /\ run'.rm # Backup
             /\ outcome' = outcome
    <2>1. /\ run' = [[run EXCEPT !.tried = @ \cup {a}] EXCEPT !.rm = a, !.then = "discard"]
          /\ pc' = "remove" /\ outcome' = outcome
        BY <1>4 DEF Remove, Goto
    <2>2. run'.then = "discard" /\ run'.rm = a
        BY <1>1, <2>1 DEF Run
    <2>3. a # Backup
        BY DEF Spent
    <2> QED  BY <2>1, <2>2, <2>3
<1> QED
    BY <1>2, <1>3, <1>4

LEMMA SwapFailsDoes ==
    ASSUME Typed, SwapFails
    PROVE  /\ \/ pc \in {"mkdir", "swap", "in", "commit"} /\ Faults' = Faults + 1
              \/ /\ pc = "swap" /\ Faults' = Faults
                 /\ \E n \in Names : Turn(n) /\ Staged(n) # None /\ Blocked(n)
           /\ pc' = "rollback" /\ run'.step = run.step /\ run'.to = run.to
           /\ run'.moved = run.moved /\ run'.todo = run.moved
           /\ UNCHANGED <<disk, had, outcome>> /\ Version' = Version
<1>1. TypeOK /\ run \in Run
    BY RunFields DEF Typed
<1>2. /\ pc' = "rollback" /\ run' = [run EXCEPT !.todo = run.moved, !.cur = None]
      /\ UNCHANGED <<disk, had, outcome, crashes>> /\ Version' = Version
    BY DEF SwapFails, Goto, ghosts, disk, Version
<1>3. /\ run'.step = run.step /\ run'.to = run.to /\ run'.moved = run.moved
      /\ run'.todo = run.moved
    BY <1>1, <1>2 DEF Run
<1>4. \/ pc \in {"mkdir", "swap", "in", "commit"} /\ Faults' = Faults + 1
      \/ /\ pc = "swap" /\ Faults' = Faults
         /\ \E n \in Names : Turn(n) /\ Staged(n) # None /\ Blocked(n)
    BY <1>1, <1>2, ErrorDoes DEF SwapFails, Faults
<1> QED
    BY <1>2, <1>3, <1>4

LEMMA ClearLiveDoes ==
    ASSUME Typed, NEW n \in Names, ClearLive(n)
    PROVE  /\ pc = "rollback" /\ pc' = "rollback" /\ n \in run.todo /\ n \in Folders
           /\ UNCHANGED <<marker, area, run, had, outcome>>
           /\ Version' = Version /\ Faults' = Faults
           /\ live'[n] = None /\ \A m \in Names \ {n} : live'[m] = live[m]
BY DEF Typed, TypeOK, ClearLive, TurnBack, ghosts, Version, Faults

LEMMA PutBackDoes ==
    ASSUME Typed, NEW n \in Names, PutBack(n)
    PROVE  /\ pc = "rollback" /\ pc' = "rollback" /\ n \in run.todo /\ run.to \in Areas
           /\ UNCHANGED <<marker, had, outcome>> /\ Version' = Version /\ Faults' = Faults
           /\ run'.step = run.step /\ run'.to = run.to /\ run'.moved = run.moved
           /\ run'.todo = run.todo \ {n}
           /\ live'[n] = area[run.to].files[n] /\ \A m \in Names \ {n} : live'[m] = live[m]
           /\ \A a \in Areas \ {run.to} : area'[a] = area[a]
           /\ area'[run.to].exists = area[run.to].exists
           /\ area'[run.to].marker = area[run.to].marker
           /\ area'[run.to].files[n] = None
           /\ \A m \in Names \ {n} : area'[run.to].files[m] = area[run.to].files[m]
<1>1. TypeOK /\ run.to \in Areas /\ run \in Run /\ None \in Content
    BY RunFields DEF Typed, Content
<1>2. /\ pc = "rollback" /\ pc' = "rollback" /\ n \in run.todo
      /\ UNCHANGED <<marker, had, outcome>> /\ Version' = Version /\ Faults' = Faults
      /\ run' = [run EXCEPT !.todo = run.todo \ {n}]
      /\ area' = [area EXCEPT ![run.to].files[n] = None]
      /\ live' = [live EXCEPT ![n] = area[run.to].files[n]]
    BY DEF PutBack, TurnBack, ghosts, Version, Faults
<1>3. /\ run'.step = run.step /\ run'.to = run.to /\ run'.moved = run.moved
      /\ run'.todo = run.todo \ {n}
    BY <1>1, <1>2 DEF Run
<1>4. live'[n] = area[run.to].files[n] /\ \A m \in Names \ {n} : live'[m] = live[m]
    BY <1>1, <1>2 DEF TypeOK
<1>5. /\ \A a \in Areas \ {run.to} : area'[a] = area[a]
      /\ area'[run.to].marker = area[run.to].marker
      /\ \A m \in Names \ {n} : area'[run.to].files[m] = area[run.to].files[m]
    BY <1>1, <1>2, FileWrite
<1>6. area'[run.to].exists = area[run.to].exists
    BY <1>1, <1>2, FileWrite
<1>7. area'[run.to].files[n] = None
    BY <1>1, <1>2, FileWritten
<1> QED
    BY <1>1, <1>2, <1>3, <1>4, <1>5, <1>6, <1>7

LEMMA PutBackFailsDoes ==
    ASSUME Typed, NEW n \in Names, PutBackFails(n)
    PROVE  /\ pc = "rollback" /\ pc' = "rollback" /\ n \in run.todo /\ Faults' = Faults + 1
           /\ UNCHANGED <<disk, had, outcome>> /\ Version' = Version
           /\ run'.step = run.step /\ run'.to = run.to /\ run'.moved = run.moved
           /\ run'.todo = run.todo \ {n} /\ stranded' = stranded \cup {n}
<1>1. run \in Run
    BY RunFields DEF Typed
<1>2. run' = [run EXCEPT !.todo = run.todo \ {n}]
    BY DEF PutBackFails
<1>3. /\ run'.step = run.step /\ run'.to = run.to /\ run'.moved = run.moved
      /\ run'.todo = run.todo \ {n}
    BY <1>1, <1>2 DEF Run
<1> QED
    BY <1>3, ErrorDoes DEF Typed, PutBackFails, TurnBack, disk, Version

LEMMA RolledBackDoes ==
    ASSUME Typed, RolledBack
    PROVE  /\ pc = "rollback" /\ run.todo = {}
           /\ \/ run.moved = {} /\ pc' = "idle" /\ outcome' = "failed"
              \/ /\ run.moved # {} /\ pc' = "remove" /\ run'.then = "idle" /\ outcome' = outcome
                 /\ run'.rm = Staging(run.step) /\ run'.step = run.step /\ run'.to = run.to
           /\ UNCHANGED <<disk, had>> /\ Version' = Version /\ Faults' = Faults
<1>1. run \in Run
    BY RunFields DEF Typed
<1>2. /\ pc = "rollback" /\ run.todo = {} /\ UNCHANGED <<disk, had>> /\ Version' = Version
      /\ Faults' = Faults
    BY DEF RolledBack, ghosts, disk, Version, Faults
<1>3. CASE run.moved = {}
    BY <1>2, <1>3 DEF RolledBack, End, Goto
<1>4. CASE run.moved # {}
    <2>1. /\ pc' = "remove" /\ outcome' = outcome
          /\ run' = [run EXCEPT !.rm = Staging(run.step), !.then = "idle"]
        BY <1>4 DEF RolledBack, Remove, Goto
    <2>2. /\ run'.then = "idle" /\ run'.rm = Staging(run.step) /\ run'.step = run.step
          /\ run'.to = run.to
        BY <1>1, <2>1 DEF Run
    <2> QED  BY <1>2, <1>4, <2>1, <2>2
<1> QED
    BY <1>3, <1>4

LEMMA CrashDoes ==
    ASSUME Typed, Crash
    PROVE  /\ pc # "idle" /\ pc' = "idle" /\ outcome' = "none" /\ Faults' = Faults + 1
           /\ UNCHANGED <<disk, had>> /\ Version' = Version
BY BoundsAreNaturals DEF Typed, TypeOK, Crash, End, Goto, ghosts, disk, Version, Faults

LEMMA UserRestoresDoes ==
    ASSUME Typed, UserRestores
    PROVE  /\ pc = "idle" /\ pc' = "idle" /\ run' = run
           /\ UNCHANGED <<marker, had>> /\ Version' = Version
           /\ \A n \in Names \ Missing(Version + 1) : live'[n] = live[n]
           /\ \A a \in Areas \ {Backup} : area'[a] = area[a]
           /\ \A a \in Areas : area'[a].exists = area[a].exists
<1>1. TypeOK /\ Backup \in Areas
    BY Places DEF Typed
<1> DEFINE left == [n \in Names |-> IF n \in Missing(Version + 1) THEN None
                                     ELSE area[Backup].files[n]]
<1>2. area' = [area EXCEPT ![Backup].files = left]
    BY DEF UserRestores
<1>3. left \in [Names -> Content]
    BY <1>1, AreaFields DEF Content
<1> HIDE DEF left
<1>4. /\ \A a \in Areas \ {Backup} : area'[a] = area[a]
      /\ area'[Backup].exists = area[Backup].exists
    BY <1>1, <1>2, <1>3, FilesWrite
<1>5. \A n \in Names \ Missing(Version + 1) : live'[n] = live[n]
    BY DEF UserRestores
<1> QED
    BY <1>4, <1>5 DEF UserRestores, ghosts, Version

--------------------------------------------------------------------------------
(* The invariant is inductive: one lemma for each of its parts.            *)

\* A step from a state in which the invariant holds to one with at most one fault.
Good == Typed /\ OneFault /\ Core /\ OneFault' /\ Next

\* Neither a second fault nor the user's repair is such a step.
LEMMA Steady ==
    ASSUME Good
    PROVE  \/ Import \/ Begin \/ Apply \/ RemoveEntry \/ Removed
           \/ Copy \/ Convert \/ Mark \/ StepFails
           \/ MakeDir \/ KeepMarker \/ Commit \/ Applied \/ NextStep \/ Discard
           \/ SwapFails \/ RolledBack \/ Crash
           \/ \E n \in Names : Skip(n) \/ Displace(n) \/ PutIn(n) \/ ClearLive(n) \/ PutBack(n)
<1>1. ASSUME NEW n \in Names, PutBackFails(n)
      PROVE  FALSE
    <2>1. pc = "rollback" /\ Faults' = Faults + 1
        BY <1>1, PutBackFailsDoes DEF Good
    <2>2. Faults = 1
        BY <2>1 DEF Good, Core, Shape, UndoShape
    <2>3. Faults' <= 1
        BY DEF Good, OneFault, Faults
    <2> QED  BY <2>1, <2>2, <2>3
<1>2. ~ UserRestores
    BY DEF Good, Core, Ends, UserRestores
<1> QED
    BY <1>1, <1>2 DEF Good, Next, Engine

\* The numbers of such a step.
LEMMA GoodNumbers ==
    ASSUME Good
    PROVE  /\ Typed /\ TypeOK /\ Core /\ Faults \in {0, 1} /\ Faults' \in {0, 1}
           /\ Version \in Nat /\ Version <= Target /\ Target \in Nat /\ Target >= 1
           /\ run.step \in Nat
           /\ Version \notin {None, Empty} /\ Version + 1 \notin {None, Empty} /\ None # Empty
           /\ Version < Target => Version + 1 \in Steps
<1>1. Typed /\ TypeOK /\ Core /\ OneFault /\ OneFault' /\ Typed'
    BY NextTyped DEF Good, Typed
<1>2. Faults \in {0, 1}
    BY <1>1, Bounds
<1>3. TypeOK'
    BY <1>1 DEF Typed
<1>4. crashes' \in Nat /\ errors' \in Nat
    BY <1>3, BoundsAreNaturals DEF TypeOK
<1>5. Faults' \in {0, 1}
    <2>1. crashes' + errors' <= 1
        BY <1>1 DEF OneFault
    <2>2. Faults' = crashes' + errors'
        BY DEF Faults
    <2>3. \A a, b \in Nat : a + b <= 1 => a + b \in {0, 1}
        OBVIOUS
    <2> QED  BY <1>4, <2>1, <2>2, <2>3
<1>6. run.step \in Nat
    BY <1>1, RunFields, Numbers
<1> QED
    BY <1>1, <1>2, <1>5, <1>6, Bounds, Numbers

\* A run's step is the one after the marker.
LEMMA StepInHandKept == ASSUME Typed, StepInHand, Next PROVE StepInHand'
<1> USE DEF disk, Copying, Swapping, Undoing, Over, Tidying, Later, Removing, StepInHand
<1>0. Typed /\ StepInHand /\ TypeOK
    BY DEF Typed
<1>a. /\ Version \in Nat /\ Version <= Target /\ Target \in Nat /\ Target >= 1
      /\ run.step \in Nat /\ None \notin Nat
    BY <1>0, Bounds, RunFields, Numbers
<1>b. Version >= 1 => marker # None
    BY DEF Version
<1>1. CASE Import
    BY <1>0, <1>a, <1>1, ImportDoes
<1>2. CASE Begin
    BY <1>0, <1>a, <1>2, BeginDoes
<1>3. CASE Apply
    BY <1>0, <1>a, <1>3, ApplyDoes
<1>4. CASE RemoveEntry
    BY <1>0, <1>a, <1>4, RemoveEntryDoes
<1>5. CASE Removed
    BY <1>0, <1>a, <1>5, RemovedDoes
<1>6. CASE Copy
    BY <1>0, <1>a, <1>6, CopyDoes
<1>7. CASE Convert
    BY <1>0, <1>a, <1>7, ConvertDoes
<1>8. CASE Mark
    BY <1>0, <1>a, <1>8, MarkDoes
<1>9. CASE StepFails
    BY <1>0, <1>a, <1>9, StepFailsDoes
<1>10. CASE MakeDir
    BY <1>0, <1>a, <1>10, MakeDirDoes
<1>11. CASE KeepMarker
    BY <1>0, <1>a, <1>11, KeepMarkerDoes
<1>12. CASE Commit
    BY <1>0, <1>a, <1>12, CommitDoes
<1>13. CASE Applied
    BY <1>0, <1>a, <1>13, AppliedDoes
<1>14. CASE NextStep
    <2>1. run.step = Version /\ marker # None /\ Version' = Version /\ run.step \in Steps
        BY <1>0, <1>14, NextStepDoes
    <2>2. Version >= 1
        BY <2>1 DEF Steps
    <2>3. CASE run.step = Target
        BY <1>0, <1>14, <2>1, <2>3, NextStepDoes
    <2>4. CASE run.step # Target
        <3>1. Version < Target
            BY <1>a, <2>1, <2>4
        <3>2. run'.step = Version + 1 /\ pc' = "apply"
            BY <1>0, <1>14, <2>1, <2>4, NextStepDoes
        <3> QED  BY <2>1, <2>2, <3>1, <3>2
    <2> QED  BY <2>3, <2>4
<1>15. CASE Discard
    BY <1>0, <1>a, <1>15, DiscardDoes
<1>16. CASE SwapFails
    BY <1>0, <1>a, <1>16, SwapFailsDoes
<1>17. CASE RolledBack
    BY <1>0, <1>a, <1>17, RolledBackDoes
<1>18. CASE Crash
    BY <1>0, <1>a, <1>18, CrashDoes
<1>19. ASSUME NEW n \in Names,
               \/ Skip(n) \/ Displace(n) \/ PutIn(n)
               \/ ClearLive(n) \/ PutBack(n) \/ PutBackFails(n)
       PROVE  StepInHand'
    <2>1. /\ pc \in {"swap", "in", "rollback"} /\ pc' \in {"swap", "in", "rollback"}
          /\ run'.step = run.step /\ Version' = Version
        BY <1>0, <1>19, SkipDoes, DisplaceDoes, PutInDoes, ClearLiveDoes, PutBackDoes,
           PutBackFailsDoes
    <2> QED  BY <1>0, <2>1
<1>20. CASE UserRestores
    BY <1>0, <1>20, UserRestoresDoes
<1> QED
    BY <1>1, <1>2, <1>3, <1>4, <1>5, <1>6, <1>7, <1>8, <1>9, <1>10, <1>11, <1>12, <1>13, <1>14, <1>15, <1>16, <1>17, <1>18, <1>19, <1>20
    DEF Next, Engine

\* So are its working directories and the progress of its loops.
LEMMA LocalsKept ==
    ASSUME Typed, StepInHand, Locals, ~ area[Scratch(1)].exists, Next
    PROVE  Locals'
<1> USE DEF disk, Copying, Swapping, Undoing, Over, Removing, Locals
<1>0. Typed /\ Locals /\ TypeOK /\ Version \in Nat
    BY Bounds DEF Typed
<1>1. CASE Import
    BY <1>0, <1>1, ImportDoes
<1>2. CASE Begin
    BY <1>0, <1>2, BeginDoes
<1>3. CASE Apply
    <2>1. run.step \in Steps /\ run.step \in Nat /\ pc = "apply"
        BY <1>0, <1>3, ApplyDoes, Numbers DEF Typed
    <2>2. ~ run.first => run.step > 1
        BY <1>0, <2>1 DEF StepInHand, Later
    <2>3. area[Scratch(run.step)].exists => run.step > 1
        BY <2>1 DEF Steps
    <2>4. run'.to = Backup \/ (run'.to = Scratch(run'.step) /\ run'.step > 1)
        BY <1>0, <1>3, <2>2, <2>3, ApplyDoes
    <2> QED  BY <1>0, <1>3, <2>4, ApplyDoes
<1>4. CASE RemoveEntry
    BY <1>0, <1>4, RemoveEntryDoes
<1>5. CASE Removed
    BY <1>0, <1>5, RemovedDoes
<1>6. CASE Copy
    BY <1>0, <1>6, CopyDoes
<1>7. CASE Convert
    BY <1>0, <1>7, ConvertDoes
<1>8. CASE Mark
    BY <1>0, <1>8, MarkDoes
<1>9. CASE StepFails
    BY <1>0, <1>9, StepFailsDoes
<1>10. CASE MakeDir
    BY <1>0, <1>10, MakeDirDoes
<1>11. CASE KeepMarker
    BY <1>0, <1>11, KeepMarkerDoes
<1>12. CASE Commit
    BY <1>0, <1>12, CommitDoes
<1>13. CASE Applied
    BY <1>0, <1>13, AppliedDoes
<1>14. CASE NextStep
    BY <1>0, <1>14, NextStepDoes
<1>15. CASE Discard
    BY <1>0, <1>15, DiscardDoes
<1>16. CASE SwapFails
    BY <1>0, <1>16, SwapFailsDoes
<1>17. CASE RolledBack
    BY <1>0, <1>17, RolledBackDoes
<1>18. CASE Crash
    BY <1>0, <1>18, CrashDoes
<1>19. ASSUME NEW n \in Names, Skip(n)
       PROVE  Locals'
    BY <1>0, <1>19, SkipDoes
<1>20. ASSUME NEW n \in Names, Displace(n)
       PROVE  Locals'
    <2>1. \A m : Turn(m)' <=> Turn(m)
        BY <1>0, <1>20, DisplaceDoes DEF Turn
    <2>2. run'.cur \in run'.moved /\ run'.todo \cap run'.moved \subseteq {run'.cur}
        BY <1>0, <1>20, DisplaceDoes
    <2> QED  BY <1>0, <1>20, <2>1, <2>2, DisplaceDoes
<1>21. ASSUME NEW n \in Names, PutIn(n)
       PROVE  Locals'
    BY <1>0, <1>21, PutInDoes
<1>22. ASSUME NEW n \in Names, ClearLive(n) \/ PutBack(n)
       PROVE  Locals'
    BY <1>0, <1>22, ClearLiveDoes, PutBackDoes
<1>23. ASSUME NEW n \in Names, PutBackFails(n)
       PROVE  Locals'
    BY <1>0, <1>23, PutBackFailsDoes
<1>24. CASE UserRestores
    BY <1>0, <1>24, UserRestoresDoes
<1> QED
    BY <1>1, <1>2, <1>3, <1>4, <1>5, <1>6, <1>7, <1>8, <1>9, <1>10, <1>11, <1>12, <1>13, <1>14, <1>15, <1>16, <1>17, <1>18, <1>19, <1>20, <1>21, <1>22, <1>23, <1>24
    DEF Next, Engine

\* A state that a run starts from has no name that is only in the backup.
LEMMA NothingMissing ==
    ASSUME Good, pc = "start", Version < Target
    PROVE  Missing(Version + 1) = {}
<1> SUFFICES ASSUME NEW n \in Names, live[n] = None, area[Backup].files[n] # None,
                    n \notin Pending(Version + 1)
             PROVE  FALSE
    BY DEF Missing
<1>1. n \notin Folders
    BY DEF Good, Core, Ends
<1>2. n \in had
    BY <1>1, Places DEF Good, Core, NeverThere
<1>3. Version \notin {None, Empty} /\ Version + 1 # None /\ Version + 1 \in Version + 1 .. Target
      /\ Version \in Nat
    BY GoodNumbers
<1>4. CASE Plain
    BY <1>2, <1>3, <1>4 DEF Plain
<1>5. CASE Interrupted
    <2>1. StagedFor(n) = Version + 1 /\ Resumable(Version + 1)
        BY <1>2, <1>3, <1>5 DEF Interrupted, Between, Ready, Old, Out, In
    <2> QED  BY <1>3, <2>1 DEF Pending, StagedFor
<1>6. CASE Stamped
    BY <1>6, GoodNumbers DEF Stamped
<1> QED
    BY <1>4, <1>5, <1>6 DEF Good, Core, Shape, Resting

\* How a run ends, and what it starts with.
LEMMA EndsKept == ASSUME Good PROVE Ends'
<1>0. Typed /\ Ends
    BY DEF Good, Core
<1>1. CASE Import
    BY <1>0, <1>1, ImportDoes, FoldersAreNames, Numbers DEF Ends
<1>2. CASE Begin
    <2>1. Version < Target => Missing(Version + 1) = {}
        BY <1>0, <1>2, NothingMissing, BeginDoes
    <2> QED  BY <1>0, <1>2, <2>1, BeginDoes DEF Ends
<1>3. CASE Apply
    BY <1>0, <1>3, ApplyDoes DEF Ends
<1>4. CASE RemoveEntry
    BY <1>0, <1>4, RemoveEntryDoes DEF Ends
<1>5. CASE Removed
    BY <1>0, <1>5, RemovedDoes DEF Ends
<1>6. CASE Copy
    BY <1>0, <1>6, CopyDoes DEF Ends
<1>7. CASE Convert
    BY <1>0, <1>7, ConvertDoes DEF Ends
<1>8. CASE Mark
    BY <1>0, <1>8, MarkDoes DEF Ends
<1>9. CASE StepFails
    BY <1>0, <1>9, StepFailsDoes DEF Ends
<1>10. CASE MakeDir
    BY <1>0, <1>10, MakeDirDoes DEF Ends
<1>11. CASE KeepMarker
    BY <1>0, <1>11, KeepMarkerDoes DEF Ends
<1>12. CASE Commit
    BY <1>0, <1>12, CommitDoes DEF Ends
<1>13. CASE Applied
    BY <1>0, <1>13, AppliedDoes DEF Ends
<1>14. CASE NextStep
    BY <1>0, <1>14, NextStepDoes DEF Ends
<1>15. CASE Discard
    <2>1. Version = Target
        BY <1>0, <1>15, DiscardDoes DEF Good, Core, StepInHand, Tidying
    <2>2. CASE Spent \subseteq run'.tried /\ pc' = "idle"
        <3>1. ASSUME NEW a \in Areas \ {Backup}, area[a].exists
              PROVE  a \in run'.tried
            <4>1. a[2] \in Steps
                BY <3>1 DEF Areas, Backup, Staging, Scratch
            <4>2. a[2] <= Version
                BY <2>1, <4>1, Numbers DEF Steps
            <4> QED  BY <2>2, <3>1, <4>2 DEF Spent
        <3> QED  BY <1>0, <1>15, <2>1, <2>2, <3>1, DiscardDoes DEF Ends, disk
    <2> QED  BY <1>0, <1>15, <2>2, DiscardDoes DEF Ends
<1>16. CASE SwapFails
    BY <1>0, <1>16, SwapFailsDoes DEF Ends
<1>17. CASE RolledBack
    BY <1>0, <1>17, RolledBackDoes DEF Ends
<1>18. CASE Crash
    BY <1>0, <1>18, CrashDoes DEF Ends
<1>19. ASSUME NEW n \in Names,
               Skip(n) \/ Displace(n) \/ PutIn(n) \/ ClearLive(n) \/ PutBack(n)
       PROVE  Ends'
    <2>1. /\ pc \in {"swap", "in", "rollback"} /\ pc' \in {"swap", "in", "rollback"}
          /\ outcome' = outcome
        BY <1>0, <1>19, SkipDoes, DisplaceDoes, PutInDoes, ClearLiveDoes, PutBackDoes
    <2> QED  BY <1>0, <2>1 DEF Ends
<1> QED
    BY Steady, <1>1, <1>2, <1>3, <1>4, <1>5, <1>6, <1>7, <1>8, <1>9, <1>10, <1>11, <1>12, <1>13, <1>14, <1>15, <1>16, <1>17, <1>18, <1>19

\* A name the state did not start with still holds nothing.
LEMMA NeverThereKept == ASSUME Good PROVE NeverThere'
<1>0. Typed /\ TypeOK /\ NeverThere /\ None # Empty
    BY Numbers DEF Good, Core, Typed
<1>a. ASSUME UNCHANGED <<live, had>>,
             \A a \in Areas, n \in Names : area'[a].files[n] \in {area[a].files[n], None}
      PROVE  NeverThere'
    BY <1>0, <1>a DEF NeverThere
<1>1. CASE Import
    <2>1. area' = area /\ had' = had
        BY <1>0, <1>1, ImportDoes
    <2>2. \A n \in Names : live'[n] = IF n \in Folders /\ live[n] = None THEN Empty ELSE live[n]
        BY <1>0, <1>1, ImportDoes
    <2> QED  BY <1>0, <2>1, <2>2 DEF NeverThere
<1>2. CASE RemoveEntry
    BY <1>0, <1>a, <1>2, RemoveEntryDoes
<1>3. CASE Removed
    <2>1. \A n \in Names : Gone.files[n] = None
        BY DEF Gone, NoFiles
    <2> QED  BY <1>0, <1>a, <1>3, <2>1, RemovedDoes
<1>4. CASE Copy
    <2>1. \A a \in Areas : area'[a] = area[a] \/ area'[a].files = live
        BY <1>0, <1>4, CopyDoes
    <2>2. UNCHANGED <<live, had>>
        BY <1>0, <1>4, CopyDoes
    <2> QED  BY <1>0, <2>1, <2>2 DEF NeverThere
<1>5. CASE Convert
    <2>1. \A a \in Areas, n \in Names :
             area[a].files[n] \in {None, Empty} => area'[a].files[n] = area[a].files[n]
        BY <1>0, <1>5, ConvertDoes
    <2>2. UNCHANGED <<live, had>>
        BY <1>0, <1>5, ConvertDoes
    <2> QED  BY <1>0, <2>1, <2>2 DEF NeverThere
<1>6. CASE Mark
    <2>1. \A a \in Areas : area'[a].files = area[a].files
        BY <1>0, <1>6, MarkDoes
    <2> QED  BY <1>0, <1>a, <1>6, <2>1, MarkDoes
<1>7. CASE MakeDir
    <2>1. \A a \in Areas : area'[a].files = area[a].files
        BY <1>0, <1>7, MakeDirDoes
    <2> QED  BY <1>0, <1>a, <1>7, <2>1, MakeDirDoes
<1>8. CASE KeepMarker
    <2>1. \A a \in Areas : area'[a].files = area[a].files
        BY <1>0, <1>8, KeepMarkerDoes
    <2> QED  BY <1>0, <1>a, <1>8, <2>1, KeepMarkerDoes
<1>9. CASE Commit
    <2>1. \A a \in Areas : area'[a].files = area[a].files
        BY <1>0, <1>9, CommitDoes
    <2> QED  BY <1>0, <1>a, <1>9, <2>1, CommitDoes
<1>10. CASE Begin \/ Apply \/ StepFails \/ Applied \/ NextStep
            \/ Discard \/ SwapFails \/ RolledBack \/ Crash
    <2>1. UNCHANGED <<disk, had>>
        BY <1>0, <1>10, BeginDoes, ApplyDoes, StepFailsDoes, AppliedDoes, NextStepDoes,
           DiscardDoes, SwapFailsDoes, RolledBackDoes, CrashDoes
    <2> QED  BY <1>a, <2>1 DEF disk
<1>11. ASSUME NEW n \in Names, Skip(n)
       PROVE  NeverThere'
    BY <1>0, <1>a, <1>11, SkipDoes DEF disk
<1>12. ASSUME NEW n \in Names, Displace(n)
       PROVE  NeverThere'
    <2>1. had' = had /\ run.to \in Areas
        BY <1>0, <1>12, DisplaceDoes
    <2>2. \A m \in Names : live'[m] \in {live[m], None}
        BY <1>0, <1>12, DisplaceDoes
    <2>3. \A a \in Areas, m \in Names : area'[a].files[m] \in {area[a].files[m], live[m]}
        BY <1>0, <1>12, DisplaceDoes
    <2> QED  BY <1>0, <2>1, <2>2, <2>3 DEF NeverThere
<1>13. ASSUME NEW n \in Names, PutIn(n)
       PROVE  NeverThere'
    <2>1. had' = had /\ Staging(run.step) \in Areas
        BY <1>0, <1>13, PutInDoes, Places
    <2>2. \A m \in Names : live'[m] \in {live[m], area[Staging(run.step)].files[m]}
        BY <1>0, <1>13, PutInDoes DEF Staged
    <2>3. \A a \in Areas, m \in Names : area'[a].files[m] \in {area[a].files[m], None}
        BY <1>0, <1>13, PutInDoes
    <2> QED  BY <1>0, <2>1, <2>2, <2>3 DEF NeverThere
<1>14. ASSUME NEW n \in Names, ClearLive(n)
       PROVE  NeverThere'
    <2>1. \A m \in Names : live'[m] \in {live[m], None}
        BY <1>0, <1>14, ClearLiveDoes
    <2> QED  BY <1>0, <1>14, <2>1, ClearLiveDoes DEF NeverThere
<1>15. ASSUME NEW n \in Names, PutBack(n)
       PROVE  NeverThere'
    <2>1. had' = had /\ run.to \in Areas
        BY <1>0, <1>15, PutBackDoes
    <2>2. \A m \in Names : live'[m] \in {live[m], area[run.to].files[m]}
        BY <1>0, <1>15, PutBackDoes
    <2>3. \A a \in Areas, m \in Names : area'[a].files[m] \in {area[a].files[m], None}
        BY <1>0, <1>15, PutBackDoes
    <2> QED  BY <1>0, <2>1, <2>2, <2>3 DEF NeverThere
<1> QED
    BY Steady, <1>1, <1>2, <1>3, <1>4, <1>5, <1>6, <1>7, <1>8, <1>9, <1>10, <1>11, <1>12, <1>13, <1>14, <1>15

\* A staging copy still holds what its step takes or makes: the copy is taken
\* from a state that is all in the version before the step.
LEMMA StagedFilesKept == ASSUME Good PROVE StagedFiles'
<1>0. Typed /\ TypeOK /\ StagedFiles /\ NeverThere
    BY DEF Good, Core, Typed
<1>a. ASSUME \A r \in Steps : /\ area'[Staging(r)].marker \in {area[Staging(r)].marker, None}
                              /\ \A n \in Names : area'[Staging(r)].files[n]
                                                     \in {area[Staging(r)].files[n], None}
      PROVE  StagedFiles'
    BY <1>0, <1>a DEF StagedFiles
<1>b. \A r \in Steps : /\ Staging(r) \in Areas
                       /\ \A q \in Steps : r # q => Staging(r) # Staging(q)
    BY Places
<1>c. ASSUME \A a \in Areas : /\ area'[a].marker \in {area[a].marker, None}
                              /\ \A n \in Names : area'[a].files[n] \in {area[a].files[n], None}
      PROVE  StagedFiles'
    BY <1>a, <1>b, <1>c
<1>d. pc \in {"mkdir", "swap", "in", "commit", "rollback"} =>
         \A r \in Steps : Staging(r) # run.to
    <2> SUFFICES ASSUME pc \in {"mkdir", "swap", "in", "commit", "rollback"}
                 PROVE  \A r \in Steps : Staging(r) # run.to
        OBVIOUS
    <2>1. run.to = Backup \/ run.to = Scratch(run.step)
        BY DEF Good, Core, Locals, Swapping, Undoing
    <2>2. run.step \in Steps
        BY DEF Good, Typed
    <2> QED  BY <2>1, <2>2, Places
<1>1. CASE Import
    BY <1>0, <1>c, <1>1, ImportDoes
<1>2. CASE RemoveEntry
    BY <1>0, <1>c, <1>2, RemoveEntryDoes
<1>3. CASE Removed
    <2>1. Gone.marker = None /\ \A n \in Names : Gone.files[n] = None
        BY DEF Gone, NoFiles
    <2> QED  BY <1>0, <1>c, <1>3, <2>1, RemovedDoes
<1>4. CASE Copy
    <2>1. run.step \in Steps /\ run.step = Version + 1 /\ Plain
        BY <1>0, <1>4, CopyDoes DEF Good, Core, StepInHand, Shape, Copying
    <2>2. \A n \in Names : live[n] \in {run.step - 1, None, Empty}
        BY <1>0, <2>1, GoodNumbers DEF Plain, NeverThere
    <2>3. \A r \in Steps : \/ area'[Staging(r)] = area[Staging(r)]
                          \/ /\ r = run.step /\ area'[Staging(r)].files = live
                             /\ area'[Staging(r)].marker = None
        BY <1>0, <1>b, <1>4, CopyDoes
    <2> QED  BY <1>0, <2>2, <2>3 DEF StagedFiles
<1>5. CASE Convert
    <2>1. run.step \in Steps
        BY <1>0, <1>5, ConvertDoes
    <2>2. \A r \in Steps : \/ area'[Staging(r)] = area[Staging(r)]
                          \/ /\ r = run.step
                             /\ area'[Staging(r)].marker = area[Staging(r)].marker
        BY <1>0, <1>b, <1>5, ConvertDoes
    <2>3. \A n \in Names : area[Staging(run.step)].files[n]
                             \in {run.step - 1, run.step, Empty, None}
        BY <1>0, <2>1 DEF StagedFiles
    <2>4. pc = "convert" /\ run.step = Version + 1
        BY <1>0, <1>5, ConvertDoes DEF Good, Core, StepInHand, Copying
    <2>5. \A n \in Names : area[Staging(run.step)].files[n] \in {run.step - 1, Empty, None}
        <3>1. \A n \in had : area[Staging(run.step)].files[n] = Version
            BY <2>4 DEF Good, Core, Shape, StagedFor
        <3>2. \A n \in Names \ had : area[Staging(run.step)].files[n] \in {None, Empty}
            BY <1>0, <1>b, <2>1 DEF NeverThere
        <3> QED  BY <2>4, <3>1, <3>2, GoodNumbers
    <2>6. \A n \in Names : area'[Staging(run.step)].files[n] \in {run.step, Empty, None}
        BY <1>0, <2>5, <1>5, ConvertDoes
    <2> QED  BY <1>0, <2>2, <2>6 DEF StagedFiles
<1>6. CASE Mark
    <2>1. \A r \in Steps : \/ area'[Staging(r)] = area[Staging(r)]
                          \/ /\ r = run.step /\ area'[Staging(r)].marker = r
                             /\ area'[Staging(r)].files = area[Staging(r)].files
        BY <1>0, <1>b, <1>6, MarkDoes
    <2> QED  BY <1>0, <2>1 DEF StagedFiles
<1>7. CASE MakeDir
    <2>1. \A r \in Steps : area'[Staging(r)] = area[Staging(r)]
        BY <1>0, <1>b, <1>d, <1>7, MakeDirDoes
    <2> QED  BY <1>a, <2>1
<1>8. CASE KeepMarker
    <2>1. \A r \in Steps : area'[Staging(r)] = area[Staging(r)]
        BY <1>0, <1>b, <1>d, <1>8, KeepMarkerDoes
    <2> QED  BY <1>a, <2>1
<1>9. CASE Commit
    <2>1. \A a \in Areas : /\ area'[a].marker \in {area[a].marker, None}
                          /\ area'[a].files = area[a].files
        BY <1>0, <1>9, CommitDoes
    <2> QED  BY <1>c, <2>1
<1>10. CASE Begin \/ Apply \/ StepFails \/ Applied \/ NextStep
            \/ Discard \/ SwapFails \/ RolledBack \/ Crash
    <2>1. UNCHANGED <<disk, had>>
        BY <1>0, <1>10, BeginDoes, ApplyDoes, StepFailsDoes, AppliedDoes, NextStepDoes,
           DiscardDoes, SwapFailsDoes, RolledBackDoes, CrashDoes
    <2> QED  BY <1>c, <2>1 DEF disk
<1>11. ASSUME NEW n \in Names, Skip(n)
       PROVE  StagedFiles'
    BY <1>0, <1>c, <1>11, SkipDoes DEF disk
<1>12. ASSUME NEW n \in Names, Displace(n)
       PROVE  StagedFiles'
    <2>1. \A r \in Steps : area'[Staging(r)] = area[Staging(r)]
        BY <1>0, <1>b, <1>d, <1>12, DisplaceDoes
    <2> QED  BY <1>a, <2>1
<1>13. ASSUME NEW n \in Names, PutBack(n)
       PROVE  StagedFiles'
    <2>1. \A r \in Steps : area'[Staging(r)] = area[Staging(r)]
        BY <1>0, <1>b, <1>d, <1>13, PutBackDoes
    <2> QED  BY <1>a, <2>1
<1>14. ASSUME NEW n \in Names, PutIn(n)
       PROVE  StagedFiles'
    <2>1. \A a \in Areas : /\ area'[a].marker = area[a].marker
                          /\ \A m \in Names : area'[a].files[m] \in {area[a].files[m], None}
        BY <1>0, <1>14, PutInDoes
    <2> QED  BY <1>c, <2>1
<1>15. ASSUME NEW n \in Names, ClearLive(n)
       PROVE  StagedFiles'
    BY <1>0, <1>c, <1>15, ClearLiveDoes
<1> QED
    BY Steady, <1>1, <1>2, <1>3, <1>4, <1>5, <1>6, <1>7, <1>8, <1>9, <1>10, <1>11, <1>12, <1>13, <1>14, <1>15

\* No directory exists of a step that has not begun.
LEMMA FutureKept == ASSUME Good PROVE Future'
<1> USE DEF Copying, Swapping, Over, Later, Removing
<1>0. Typed /\ TypeOK /\ Future /\ Faults \in {0, 1} /\ Faults' \in {0, 1}
    BY GoodNumbers DEF Good, Core
<1>a. /\ Version \in Nat /\ Version <= Target /\ Target \in Nat /\ Target >= 1 /\ 1 \in Steps
      /\ Version < Target => Version + 1 \in Steps
    BY GoodNumbers DEF Steps
<1>b. \A r \in Steps : /\ Staging(r) \in Areas /\ Scratch(r) \in Areas
                       /\ Staging(r) # Backup /\ Scratch(r) # Backup
                       /\ \A q \in Steps : /\ Staging(r) # Scratch(q)
                                           /\ r # q => /\ Staging(r) # Staging(q)
                                                      /\ Scratch(r) # Scratch(q)
    BY Places
<1>c. Steps \subseteq Nat /\ \A r \in Steps : r <= Target
    BY Numbers DEF Steps
<1>d. ~ Gone.exists /\ Gone.exists = FALSE
    BY DEF Gone
<1>e. ASSUME \A a \in Areas : area'[a] \in {area[a], Gone}
      PROVE  \A k : Unborn(k) => Unborn(k)'
    BY <1>b, <1>e DEF Unborn
<1>f. ASSUME \A a \in Areas : area'[a].exists \in {area[a].exists, FALSE}
      PROVE  /\ ~ area'[Scratch(1)].exists
             /\ \A r \in Steps : area'[Scratch(r)].exists => area[Scratch(r)].exists
    BY <1>0, <1>a, <1>b, <1>f DEF Future
\* A step that works on its own directories only.
<1>g. ASSUME Version' = Version, run.step = Version + 1, Version + 1 \in Steps,
             \A a \in Areas \ {Backup, Staging(run.step), Scratch(run.step)} : area'[a] = area[a]
      PROVE  Unborn(Version + 1)'
    <2>1. \A r \in Steps : r > Version + 1 => area'[Staging(r)] = area[Staging(r)]
                                             /\ area'[Scratch(r)] = area[Scratch(r)]
        BY <1>a, <1>b, <1>c, <1>g
    <2> QED  BY <1>0, <1>g, <2>1 DEF Future, Unborn
\* The step of a run that copies, swaps or undoes.
<1>h. pc = "apply" \/ Copying \/ Swapping \/ Undoing =>
         Version < Target /\ run.step = Version + 1 /\ run.step \in Steps
    BY <1>a DEF Good, Core, StepInHand
<1>i. Copying \/ Swapping \/ Undoing => run.to = Backup \/ (run.to = Scratch(run.step) /\ run.step > 1)
    BY DEF Good, Core, Locals
<1>1. CASE Import
    <2>1. area' = area /\ pc = "idle" /\ pc' = "start" /\ Faults' = Faults
        BY <1>0, <1>1, ImportDoes
    <2>2. Version' = Version \/ Version' = Target
        BY <1>0, <1>1, ImportDoes
    <2>3. \A k : Unborn(k)' <=> Unborn(k)
        BY <2>1 DEF Unborn
    <2>4. Unborn(Target) /\ Unborn(Target + 1)
        BY <1>a, <1>c DEF Unborn
    <2> QED  BY <1>0, <2>1, <2>2, <2>3, <2>4 DEF Future
<1>2. CASE Begin
    <2>1. area' = area /\ Version' = Version
        BY <1>0, <1>2, BeginDoes DEF disk
    <2>2. \A k : Unborn(k)' <=> Unborn(k)
        BY <2>1 DEF Unborn
    <2> QED  BY <1>0, <1>2, <2>1, <2>2, BeginDoes DEF Future
<1>3. CASE Apply
    <2>1. area' = area /\ Version' = Version /\ Faults' = Faults /\ run'.moved = run.moved
        BY <1>0, <1>3, ApplyDoes DEF disk
    <2>2. \A k : Unborn(k)' <=> Unborn(k)
        BY <2>1 DEF Unborn
    <2>3. pc = "apply" /\ (pc' = "mkdir" \/ (pc' = "remove" /\ run'.then = "copy"))
        BY <1>0, <1>3, ApplyDoes
    <2>4. Version + 1 \in Steps /\ Version + 1 > Version
        BY <1>a, <1>h, <2>3
    <2>5. Faults = 0 => ~ area[Scratch(Version + 1)].exists
        BY <1>0, <1>d, <2>3, <2>4 DEF Future, Unborn
    <2> QED  BY <1>0, <2>1, <2>2, <2>3, <2>5 DEF Future
<1>4. CASE RemoveEntry
    <2>1. /\ UNCHANGED <<pc, run>> /\ Version' = Version /\ Faults' = Faults
          /\ \A a \in Areas : area'[a].exists = area[a].exists
          /\ \A a \in Areas : area[a] = Gone => area'[a] = Gone
        BY <1>0, <1>4, RemoveEntryDoes
    <2>2. \A k : Unborn(k) => Unborn(k)'
        BY <1>b, <2>1 DEF Unborn
    <2>3. /\ ~ area'[Scratch(1)].exists
          /\ \A r \in Steps : area'[Scratch(r)].exists => area[Scratch(r)].exists
        BY <1>f, <2>1
    <2>4. Copying \/ Swapping => Version + 1 \in Steps
        BY <1>a, <1>h
    <2> QED  BY <1>0, <2>1, <2>2, <2>3, <2>4 DEF Future
<1>5. CASE Removed
    <2>1. /\ pc = "remove" /\ Version' = Version
          /\ Faults' = 0 => Faults = 0
          /\ \A a \in Areas : area'[a] \in {area[a], Gone}
        BY <1>0, <1>5, RemovedDoes
    <2>2. \/ Removing("idle") /\ pc' = "idle"
          \/ /\ pc' = run.then /\ run' = run
             /\ run.then \in {"copy", "mkdir", "applied", "next", "discard"}
        BY <1>0, <1>5, RemovedDoes
    <2>3. \A k : Unborn(k) => Unborn(k)'
        BY <1>e, <2>1
    <2>4. \A a \in Areas : area'[a].exists \in {area[a].exists, FALSE}
        BY <1>d, <2>1
    <2>5. /\ ~ area'[Scratch(1)].exists
          /\ \A r \in Steps : area'[Scratch(r)].exists => area[Scratch(r)].exists
        BY <1>f, <2>4
    <2>6. Copying => Version + 1 \in Steps
        BY <1>a, <1>h
    <2>7. Removing("idle") => Faults = 1
        BY DEF Good, Core, Shape
    <2> QED  BY <1>0, <2>1, <2>2, <2>3, <2>5, <2>6, <2>7 DEF Future
<1>6. CASE Copy
    <2>1. /\ Version' = Version /\ Faults' = Faults /\ run'.to = run.to
          /\ \A b \in Areas \ {Staging(run.step)} : area'[b] = area[b]
        BY <1>0, <1>6, CopyDoes
    <2>2. Copying
        BY <1>0, <1>6, CopyDoes
    <2>3. Unborn(Version + 1)'
        BY <1>g, <1>h, <2>1, <2>2
    <2>4. \A r \in Steps : area'[Scratch(r)] = area[Scratch(r)]
        BY <1>b, <1>h, <2>1, <2>2
    <2>5. Version + 1 \in Steps
        BY <1>h, <2>2
    <2> QED  BY <1>0, <1>a, <1>6, <2>1, <2>2, <2>3, <2>4, <2>5, CopyDoes DEF Future
<1>7. CASE Convert
    <2>1. /\ Version' = Version /\ Faults' = Faults /\ run'.to = run.to
          /\ \A b \in Areas \ {Staging(run.step)} : area'[b] = area[b]
        BY <1>0, <1>7, ConvertDoes
    <2>2. Copying
        BY <1>0, <1>7, ConvertDoes
    <2>3. Unborn(Version + 1)'
        BY <1>g, <1>h, <2>1, <2>2
    <2>4. \A r \in Steps : area'[Scratch(r)] = area[Scratch(r)]
        BY <1>b, <1>h, <2>1, <2>2
    <2>5. Version + 1 \in Steps
        BY <1>h, <2>2
    <2> QED  BY <1>0, <1>a, <1>7, <2>1, <2>2, <2>3, <2>4, <2>5, ConvertDoes DEF Future
<1>8. CASE Mark
    <2>1. /\ Version' = Version /\ Faults' = Faults /\ run'.to = run.to
          /\ \A b \in Areas \ {Staging(run.step)} : area'[b] = area[b]
        BY <1>0, <1>8, MarkDoes
    <2>2. Copying
        BY <1>0, <1>8, MarkDoes
    <2>3. Unborn(Version + 1)'
        BY <1>g, <1>h, <2>1, <2>2
    <2>4. \A r \in Steps : area'[Scratch(r)] = area[Scratch(r)]
        BY <1>b, <1>h, <2>1, <2>2
    <2>5. Version + 1 \in Steps
        BY <1>h, <2>2
    <2> QED  BY <1>0, <1>a, <1>8, <2>1, <2>2, <2>3, <2>4, <2>5, MarkDoes DEF Future
<1>9. CASE StepFails
    <2>1. area' = area /\ Version' = Version
        BY <1>0, <1>9, StepFailsDoes DEF disk
    <2>2. \A k : Unborn(k)' <=> Unborn(k)
        BY <2>1 DEF Unborn
    <2> QED  BY <1>0, <1>9, <2>1, <2>2, StepFailsDoes DEF Future
<1>10. CASE MakeDir
    <2>1. /\ Version' = Version /\ Faults' = Faults /\ run'.to = run.to
          /\ \A b \in Areas \ {run.to} : area'[b] = area[b]
        BY <1>0, <1>10, MakeDirDoes
    <2>2. Swapping /\ pc = "mkdir" /\ pc' = "swap"
        BY <1>0, <1>10, MakeDirDoes
    <2>3. Unborn(Version + 1)'
        BY <1>g, <1>h, <1>i, <2>1, <2>2
    <2>4. \A r \in Steps : Scratch(r) # run.to => area'[Scratch(r)] = area[Scratch(r)]
        BY <1>b, <2>1
    <2>5. Version + 1 \in Steps /\ run.step = Version + 1 /\ Scratch(1) # run.to
        BY <1>a, <1>b, <1>h, <1>i, <2>2
    <2>6. ~ area'[Scratch(1)].exists
        BY <1>0, <1>a, <2>4, <2>5 DEF Future
    <2>7. Faults' = 0 /\ area'[Scratch(Version + 1)].exists => run.to = Scratch(Version + 1)
        BY <1>0, <2>1, <2>2, <2>4, <2>5 DEF Future
    <2> QED  BY <2>1, <2>2, <2>3, <2>6, <2>7 DEF Future
<1>11. CASE KeepMarker
    <2>1. /\ Version' = Version /\ Faults' = Faults /\ run'.to = run.to
          /\ \A b \in Areas \ {run.to} : area'[b] = area[b]
        BY <1>0, <1>11, KeepMarkerDoes
    <2>2. Swapping /\ Swapping' /\ pc' # "mkdir"
        BY <1>0, <1>11, KeepMarkerDoes
    <2>3. Unborn(Version + 1)'
        BY <1>g, <1>h, <1>i, <2>1, <2>2
    <2>4. \A b \in Areas : area'[b].exists = area[b].exists
        BY <1>0, <1>11, KeepMarkerDoes
    <2>5. Version + 1 \in Steps /\ Scratch(Version + 1) \in Areas /\ Scratch(1) \in Areas
        BY <1>a, <1>b, <1>h, <2>2
    <2> QED  BY <1>0, <2>1, <2>2, <2>3, <2>4, <2>5 DEF Future
<1>12. CASE Commit
    <2>1. /\ Version' = run.step /\ Faults' = Faults /\ run.step = Version + 1
          /\ run.step \in Steps /\ pc' = "remove" /\ run'.then = "applied"
          /\ \A b \in Areas \ {Staging(run.step)} : area'[b] = area[b]
        BY <1>0, <1>h, <1>12, CommitDoes
    <2>2. \A r \in Steps : r > Version + 1 => r # run.step
        BY <1>a, <1>c, <2>1
    <2>3. \A r \in Steps : r > Version + 1 => area'[Staging(r)] = area[Staging(r)]
                                             /\ area'[Scratch(r)] = area[Scratch(r)]
        BY <1>b, <2>1, <2>2
    <2>4. Unborn(Version + 1) /\ \A r \in Steps : r > Version + 2 => r > Version + 1
        BY <1>0, <1>a, <1>c DEF Future
    <2>5. \A k : (k = Version + 1 \/ k = Version + 2) => Unborn(k)'
        BY <2>3, <2>4 DEF Unborn
    <2>6. Unborn(Version)' /\ Unborn(Version + 1)'
        BY <1>a, <2>1, <2>5
    <2>7. ~ area'[Scratch(1)].exists
        BY <1>0, <1>a, <1>b, <2>1 DEF Future
    <2> QED  BY <2>1, <2>6, <2>7 DEF Future
<1>13. CASE Applied
    <2>1. area' = area /\ Version' = Version
        BY <1>0, <1>13, AppliedDoes DEF disk
    <2>2. \A k : Unborn(k)' <=> Unborn(k)
        BY <2>1 DEF Unborn
    <2> QED  BY <1>0, <1>13, <2>1, <2>2, AppliedDoes DEF Future
<1>14. CASE NextStep
    <2>1. area' = area /\ Version' = Version
        BY <1>0, <1>14, NextStepDoes DEF disk
    <2>2. \A k : Unborn(k)' <=> Unborn(k)
        BY <2>1 DEF Unborn
    <2> QED  BY <1>0, <1>14, <2>1, <2>2, NextStepDoes DEF Future
<1>15. CASE Discard
    <2>1. area' = area /\ Version' = Version
        BY <1>0, <1>15, DiscardDoes DEF disk
    <2>2. \A k : Unborn(k)' <=> Unborn(k)
        BY <2>1 DEF Unborn
    <2>3. Unborn(Target)
        BY <1>a, <1>c DEF Unborn
    <2>4. Version = Target
        BY <1>0, <1>15, DiscardDoes DEF Good, Core, StepInHand, Tidying
    <2> QED  BY <1>0, <1>15, <2>1, <2>2, <2>3, <2>4, DiscardDoes DEF Future
<1>16. CASE SwapFails
    <2>1. area' = area /\ Version' = Version
        BY <1>0, <1>16, SwapFailsDoes DEF disk
    <2>2. \A k : Unborn(k)' <=> Unborn(k)
        BY <2>1 DEF Unborn
    <2> QED  BY <1>0, <1>16, <2>1, <2>2, SwapFailsDoes DEF Future
<1>17. CASE RolledBack
    <2>1. area' = area /\ Version' = Version
        BY <1>0, <1>17, RolledBackDoes DEF disk
    <2>2. \A k : Unborn(k)' <=> Unborn(k)
        BY <2>1 DEF Unborn
    <2>3. Faults = 1 /\ Faults' = 1
        BY <1>0, <1>17, RolledBackDoes DEF Good, Core, Shape, UndoShape
    <2> QED  BY <1>0, <1>17, <2>1, <2>2, <2>3, RolledBackDoes DEF Future
<1>18. CASE Crash
    <2>1. area' = area /\ Version' = Version
        BY <1>0, <1>18, CrashDoes DEF disk
    <2>2. \A k : Unborn(k)' <=> Unborn(k)
        BY <2>1 DEF Unborn
    <2> QED  BY <1>0, <1>18, <2>1, <2>2, CrashDoes DEF Future
<1>19. ASSUME NEW n \in Names, Skip(n)
       PROVE  Future'
    <2>1. area' = area /\ Version' = Version
        BY <1>0, <1>19, SkipDoes DEF disk
    <2>2. \A k : Unborn(k)' <=> Unborn(k)
        BY <2>1 DEF Unborn
    <2> QED  BY <1>0, <1>19, <2>1, <2>2, SkipDoes DEF Future
<1>20. ASSUME NEW n \in Names, Displace(n)
       PROVE  Future'
    <2>1. /\ Version' = Version /\ Faults' = Faults /\ run'.to = run.to
          /\ \A b \in Areas \ {run.to} : area'[b] = area[b]
        BY <1>0, <1>20, DisplaceDoes
    <2>2. Swapping /\ Swapping' /\ pc' # "mkdir"
        BY <1>0, <1>20, DisplaceDoes
    <2>3. Unborn(Version + 1)'
        BY <1>g, <1>h, <1>i, <2>1, <2>2
    <2>4. \A b \in Areas : area'[b].exists = area[b].exists
        BY <1>0, <1>20, DisplaceDoes
    <2>5. Version + 1 \in Steps /\ Scratch(Version + 1) \in Areas /\ Scratch(1) \in Areas
        BY <1>a, <1>b, <1>h, <2>2
    <2> QED  BY <1>0, <2>1, <2>2, <2>3, <2>4, <2>5 DEF Future
<1>21. ASSUME NEW n \in Names, PutIn(n)
       PROVE  Future'
    <2>1. /\ Version' = Version /\ Faults' = Faults /\ run'.to = run.to
          /\ \A b \in Areas \ {Staging(run.step)} : area'[b] = area[b]
        BY <1>0, <1>21, PutInDoes
    <2>2. Swapping /\ Swapping' /\ pc' # "mkdir"
        BY <1>0, <1>21, PutInDoes
    <2>3. Unborn(Version + 1)'
        BY <1>g, <1>h, <1>i, <2>1, <2>2
    <2>4. \A b \in Areas : area'[b].exists = area[b].exists
        BY <1>0, <1>21, PutInDoes
    <2>5. Version + 1 \in Steps /\ Scratch(Version + 1) \in Areas /\ Scratch(1) \in Areas
        BY <1>a, <1>b, <1>h, <2>2
    <2> QED  BY <1>0, <2>1, <2>2, <2>3, <2>4, <2>5 DEF Future
<1>22. ASSUME NEW n \in Names, ClearLive(n)
       PROVE  Future'
    <2>1. area' = area /\ Version' = Version
        BY <1>0, <1>22, ClearLiveDoes DEF disk
    <2>2. \A k : Unborn(k)' <=> Unborn(k)
        BY <2>1 DEF Unborn
    <2> QED  BY <1>0, <1>22, <2>1, <2>2, ClearLiveDoes DEF Future
<1>23. ASSUME NEW n \in Names, PutBack(n)
       PROVE  Future'
    <2>1. /\ Version' = Version /\ Faults' = Faults /\ run'.to = run.to
          /\ \A b \in Areas \ {run.to} : area'[b] = area[b]
        BY <1>0, <1>23, PutBackDoes
    <2>2. Undoing /\ pc' = "rollback"
        BY <1>0, <1>23, PutBackDoes DEF Undoing
    <2>3. Unborn(Version + 1)'
        BY <1>g, <1>h, <1>i, <2>1, <2>2
    <2>4. \A b \in Areas : area'[b].exists = area[b].exists
        BY <1>0, <1>23, PutBackDoes
    <2>5. Scratch(1) \in Areas
        BY <1>a, <1>b
    <2> QED  BY <1>0, <2>2, <2>3, <2>4, <2>5 DEF Future
<1> QED
    BY Steady, <1>1, <1>2, <1>3, <1>4, <1>5, <1>6, <1>7, <1>8, <1>9, <1>10, <1>11, <1>12, <1>13, <1>14, <1>15, <1>16, <1>17, <1>18, <1>19, <1>20, <1>21, <1>22, <1>23

--------------------------------------------------------------------------------
(* Where the names are.                                                    *)

\* A step that writes none of the places a name can be in leaves it there.
LEMMA SamePlace ==
    ASSUME NEW n, NEW d, Version' = Version, live'[n] = live[n],
           area'[Staging(Version + 1)].files[n] = area[Staging(Version + 1)].files[n],
           area'[d].files[n] = area[d].files[n]
    PROVE  /\ Old(n)' <=> Old(n)
           /\ Out(n, d)' <=> Out(n, d)
           /\ In(n, d)' <=> In(n, d)
BY DEF Old, Out, In, StagedFor

\* A step that leaves the disk alone leaves everything that is said of it.
LEMMA SameDisk ==
    ASSUME UNCHANGED <<disk, had>>
    PROVE  /\ Version' = Version /\ Displaced' = Displaced
           /\ Plain' <=> Plain
           /\ Ready' <=> Ready
           /\ Unready' <=> Unready
           /\ Stamped' <=> Stamped
           /\ BackupOK' <=> BackupOK
           /\ \A m : Fresh(m)' <=> Fresh(m)
           /\ \A d : /\ Between(d)' <=> Between(d)
                     /\ OneOut(d)' <=> OneOut(d)
                     /\ Untouched(d)' <=> Untouched(d)
                     /\ Ordered(d)' <=> Ordered(d)
           /\ \A n : Old(n)' <=> Old(n)
           /\ \A n, d : Out(n, d)' <=> Out(n, d)
           /\ \A n, d : In(n, d)' <=> In(n, d)
<1>1. UNCHANGED <<live, marker, area, had>> /\ Version' = Version
    BY DEF disk, Version
<1>2. /\ Displaced' = Displaced
      /\ Plain' <=> Plain
      /\ Ready' <=> Ready
      /\ Unready' <=> Unready
      /\ Stamped' <=> Stamped
      /\ BackupOK' <=> BackupOK
    BY <1>1 DEF Displaced, Plain, Ready, Unready, Resumable, Stamped, BackupOK
<1>3. /\ \A n : Old(n)' <=> Old(n)
      /\ \A n, d : Out(n, d)' <=> Out(n, d)
      /\ \A n, d : In(n, d)' <=> In(n, d)
    BY <1>1 DEF Old, Out, In, StagedFor
<1>4. /\ \A m : Fresh(m)' <=> Fresh(m)
      /\ \A d : Untouched(d)' <=> Untouched(d)
    BY <1>1, <1>3 DEF Fresh, Untouched
<1>5. \A d : Between(d)' <=> Between(d)
    BY <1>1, <1>3 DEF Between
<1>6. \A d : OneOut(d)' <=> OneOut(d)
    BY <1>1, <1>3 DEF OneOut
<1>7. \A d : Ordered(d)' <=> Ordered(d)
    BY <1>1, <1>3 DEF Ordered
<1> QED
    BY <1>1, <1>2, <1>3, <1>4, <1>5, <1>6, <1>7

\* A step that leaves the disk alone leaves an interrupted swap.
LEMMA SameInterrupted ==
    ASSUME UNCHANGED <<disk, had>>, Faults = 1 => Faults' = 1, Interrupted
    PROVE  Interrupted'
<1>1. Displaced' = Displaced
    BY SameDisk
<1> QED
    BY <1>1, SameDisk DEF Interrupted

\* Where a step swaps, and to.
LEMMA SwapPlaces ==
    ASSUME Good, Swapping \/ Undoing \/ Copying
    PROVE  /\ run.step = Version + 1 /\ Version < Target /\ Version + 1 \in Steps
           /\ run.to \in Areas /\ Staging(Version + 1) \in Areas
           /\ Staging(Version + 1) # run.to /\ Staging(Version + 1) # Backup
           /\ Scratch(Version + 1) \in Areas /\ Scratch(Version + 1) # Backup
           /\ Scratch(Version + 1) # Staging(Version + 1)
           /\ run.to = Backup \/ run.to = Scratch(Version + 1)
<1>1. run.step = Version + 1 /\ Version < Target
    BY DEF Good, Core, StepInHand
<1>2. Version + 1 \in Steps
    BY <1>1, GoodNumbers
<1>3. run.to = Backup \/ run.to = Scratch(Version + 1)
    BY <1>1 DEF Good, Core, Locals
<1> QED
    BY <1>1, <1>2, <1>3, Places

\* Making the directory and keeping the marker move no name.
LEMMA StillPlaces ==
    ASSUME Good, MakeDir \/ KeepMarker
    PROVE  /\ Ready' <=> Ready
           /\ \A n : (Old(n)' <=> Old(n))
           /\ \A n, d : d \in Areas => (Out(n, d)' <=> Out(n, d))
           /\ \A n, d : d \in Areas => (In(n, d)' <=> In(n, d))
<1>1. Swapping
    BY MakeDirDoes, KeepMarkerDoes DEF Good, Swapping
<1>2. /\ live' = live /\ Version' = Version
      /\ \A a \in Areas : area'[a].files = area[a].files
      /\ \A a \in Areas \ {run.to} : area'[a] = area[a]
    BY MakeDirDoes, KeepMarkerDoes DEF Good
<1>3. area'[Staging(Version + 1)] = area[Staging(Version + 1)] /\ Staging(Version + 1) \in Areas
    BY <1>1, <1>2, SwapPlaces
<1>4. Ready' <=> Ready
    BY <1>2, <1>3 DEF Ready, Resumable
<1>5. \A n : Old(n)' <=> Old(n)
    BY <1>2, <1>3 DEF Old, StagedFor
<1>6. \A n, d : d \in Areas => (Out(n, d)' <=> Out(n, d)) /\ (In(n, d)' <=> In(n, d))
    BY <1>2, <1>3 DEF Out, In, StagedFor
<1> QED
    BY <1>4, <1>5, <1>6

\* Displacing a name that is old puts it out, and moves no other.
LEMMA DisplacePlaces ==
    ASSUME Good, NEW n \in Names, Displace(n)
    PROVE  /\ Ready' <=> Ready
           /\ \A m \in Names \ {n} : /\ Old(m)' <=> Old(m)
                                     /\ Out(m, run.to)' <=> Out(m, run.to)
                                     /\ In(m, run.to)' <=> In(m, run.to)
           /\ n \in had => Old(n) /\ ~ Old(n)' /\ Out(n, run.to)'
<1>0. Typed /\ Swapping /\ SwapShape
    BY DisplaceDoes DEF Good, Core, Shape, Swapping
<1>1. area'[Staging(Version + 1)] = area[Staging(Version + 1)] /\ Version' = Version
    BY <1>0, DisplaceDoes, SwapPlaces
<1>2. Ready' <=> Ready
    BY <1>1 DEF Ready, Resumable
<1>3. ASSUME NEW m \in Names \ {n}
      PROVE  /\ Old(m)' <=> Old(m)
             /\ Out(m, run.to)' <=> Out(m, run.to)
             /\ In(m, run.to)' <=> In(m, run.to)
    <2>1. /\ run'.to = run.to /\ live'[m] = live[m]
          /\ area'[run.to].files[m] = area[run.to].files[m]
        BY <1>0, DisplaceDoes
    <2> QED  BY <1>1, <2>1 DEF Old, Out, In, StagedFor
<1>4. ASSUME n \in had
      PROVE  Old(n) /\ ~ Old(n)' /\ Out(n, run.to)'
    <2>1. Version \notin {None, Empty} /\ Version + 1 \notin {None, Empty}
        BY GoodNumbers
    <2>2. /\ live[n] # None /\ ~ Blocked(n) /\ Staged(n) # None /\ run.step = Version + 1
          /\ run'.to = run.to /\ live'[n] = None /\ area'[run.to].files[n] = live[n]
        BY <1>0, DisplaceDoes, SwapPlaces
    <2>3. ~ In(n, run.to)
        BY <2>2 DEF In, StagedFor, Staged
    <2>4. ~ Out(n, run.to)
        BY <2>1, <2>2 DEF Out, Blocked
    <2>5. Old(n)
        BY <1>0, <1>4, <2>3, <2>4 DEF SwapShape, Between
    <2>6. Out(n, run.to)' /\ ~ Old(n)'
        BY <1>1, <2>1, <2>2, <2>5 DEF Old, Out, StagedFor
    <2> QED  BY <2>5, <2>6
<1>5. \A m \in Names \ {n} : /\ Old(m)' <=> Old(m)
                             /\ Out(m, run.to)' <=> Out(m, run.to)
                             /\ In(m, run.to)' <=> In(m, run.to)
    BY <1>3
<1> QED
    BY <1>2, <1>4, <1>5

\* Putting in a name that is out finishes it, and moves no other.
LEMMA PutInPlaces ==
    ASSUME Good, NEW n \in Names, PutIn(n)
    PROVE  /\ Ready' <=> Ready
           /\ \A m \in Names \ {n}, d \in Areas : /\ Old(m)' <=> Old(m)
                                                  /\ Out(m, d)' <=> Out(m, d)
                                                  /\ In(m, d)' <=> In(m, d)
           /\ n \in had => Out(n, run.to) /\ ~ Old(n)' /\ In(n, run.to)'
<1>0. Typed /\ Swapping /\ SwapShape /\ Locals
    BY PutInDoes DEF Good, Core, Shape, Swapping
<1>1. /\ area'[Staging(Version + 1)].marker = area[Staging(Version + 1)].marker
      /\ Version' = Version /\ Staging(Version + 1) # run.to /\ run.to \in Areas
      /\ run.step = Version + 1
    BY <1>0, PutInDoes, SwapPlaces
<1>2. Ready' <=> Ready
    BY <1>1 DEF Ready, Resumable
<1>3. ASSUME NEW m \in Names \ {n}, NEW d \in Areas
      PROVE  /\ Old(m)' <=> Old(m)
             /\ Out(m, d)' <=> Out(m, d)
             /\ In(m, d)' <=> In(m, d)
    <2>1. /\ live'[m] = live[m] /\ area'[d].files[m] = area[d].files[m]
          /\ area'[Staging(Version + 1)].files[m] = area[Staging(Version + 1)].files[m]
        BY <1>0, <1>1, PutInDoes
    <2> QED  BY <1>1, <2>1, SamePlace
<1>4. ASSUME n \in had
      PROVE  Out(n, run.to) /\ ~ Old(n)' /\ In(n, run.to)'
    <2>1. Version \notin {None, Empty} /\ Version + 1 \notin {None, Empty}
        BY GoodNumbers
    <2>2. live[n] = None
        BY <1>0, PutInDoes DEF Locals
    <2>3. Out(n, run.to)
        BY <1>0, <1>4, <2>1, <2>2 DEF SwapShape, Between, Old, In
    <2>4. /\ live'[n] = StagedFor(n) /\ area'[Staging(Version + 1)].files[n] = None
          /\ area'[run.to].files[n] = area[run.to].files[n] /\ run'.to = run.to
        BY <1>0, <1>1, PutInDoes DEF Staged, StagedFor
    <2>5. In(n, run.to)' /\ ~ Old(n)'
        BY <1>1, <2>1, <2>3, <2>4 DEF Old, Out, In, StagedFor
    <2> QED  BY <2>3, <2>5
<1>5. \A m \in Names \ {n}, d \in Areas : /\ Old(m)' <=> Old(m)
                                          /\ Out(m, d)' <=> Out(m, d)
                                          /\ In(m, d)' <=> In(m, d)
    BY <1>3
<1> QED
    BY <1>2, <1>4, <1>5

--------------------------------------------------------------------------------
(* The swap.                                                               *)

\* What has to be shown of a step of the swap that moves no name of the state.
LEMMA StillSwap ==
    ASSUME Good, Swapping, run'.to = run.to, run'.moved = run.moved, had' = had, live' = live,
           Faults' = Faults, Ready' <=> Ready,
           area'[run.to].files = area[run.to].files,
           run.to = Displaced => (run.to = Displaced)',
           \A n \in had : /\ Old(n)' <=> Old(n)
                          /\ Out(n, run.to)' <=> Out(n, run.to)
                          /\ In(n, run.to)' <=> In(n, run.to),
           pc # "in",
           pc' # "mkdir" => area'[run.to].exists /\ \A n \in had \ run'.todo : In(n, run.to)
    PROVE  SwapShape'
<1>0. SwapShape
    BY DEF Good, Core, Shape
<1>1. (Ready /\ Between(run.to) /\ Ordered(run.to))'
    BY <1>0 DEF SwapShape, Between, Ordered
<1>2. Fresh(run.moved) => Fresh(run.moved)'
    BY DEF Fresh
<1>3. Untouched(run.to) => Untouched(run.to)'
    BY DEF Untouched
<1>4. Resumed => Resumed'
    BY <1>3 DEF Resumed
<1>5. (\A n \in had \cap run.moved : ~ Old(n))'
    BY <1>0 DEF SwapShape
<1>6. (run.moved = {} => OneOut(run.to))'
    BY <1>0 DEF SwapShape, OneOut
<1>7. (Faults = 0 => /\ Fresh(run.moved) /\ Untouched(run.to)
                     /\ \A n \in had : Out(n, run.to) => pc = "in" /\ n = run.cur)'
    <2>1. Faults = 0 => /\ Fresh(run.moved) /\ Untouched(run.to)
                        /\ \A n \in had : ~ Out(n, run.to)
        BY <1>0 DEF SwapShape
    <2> QED  BY <1>2, <1>3, <2>1
<1>8. (pc # "mkdir" => area[run.to].exists /\ \A n \in had \ run.todo : In(n, run.to))'
    OBVIOUS
<1>9. (Fresh(run.moved) \/ Resumed)'
    BY <1>0, <1>2, <1>4 DEF SwapShape
<1> QED
    BY <1>1, <1>5, <1>6, <1>7, <1>8, <1>9 DEF SwapShape

\* The names of the state.
LEMMA HadNames == ASSUME Good PROVE \A n \in had : n \in Names
BY DEF Good, Typed, TypeOK

LEMMA MakeDirSwaps == ASSUME Good, MakeDir PROVE SwapShape'
<1>1. Typed /\ Locals /\ Swapping /\ pc = "mkdir" /\ pc' = "swap"
    BY MakeDirDoes DEF Good, Core, Swapping
<1>2. run.moved = {} /\ run'.moved = {} /\ run'.to = run.to /\ run.to \in Areas /\ run'.todo = Names
    BY <1>1, MakeDirDoes DEF Locals
<1>3. /\ had' = had /\ live' = live /\ Faults' = Faults /\ Version' = Version
      /\ area'[run.to].files = area[run.to].files /\ area'[run.to].exists
      /\ \A a \in Areas \ {run.to} : area'[a] = area[a]
    BY <1>1, MakeDirDoes
<1>4. run.to = Displaced => (run.to = Displaced)'
    BY <1>1, <1>2, <1>3, SwapPlaces DEF Displaced
<1>5. \A n \in had \ run'.todo : In(n, run.to)
    BY <1>2, HadNames
<1> QED
    BY <1>1, <1>2, <1>3, <1>4, <1>5, StillPlaces, StillSwap

LEMMA KeepMarkerSwaps == ASSUME Good, KeepMarker PROVE SwapShape'
<1>1. Typed /\ SwapShape /\ Swapping /\ pc = "swap" /\ pc' = "commit"
    BY KeepMarkerDoes DEF Good, Core, Shape, Swapping
<1>2. run' = run /\ run.to \in Areas
    BY <1>1, KeepMarkerDoes
<1>3. /\ had' = had /\ live' = live /\ Faults' = Faults /\ Version' = Version
      /\ area'[run.to].files = area[run.to].files
      /\ \A a \in Areas \ {run.to} : area'[a] = area[a]
    BY <1>1, KeepMarkerDoes
<1>4. area'[run.to].exists = area[run.to].exists
    BY <1>1, KeepMarkerDoes
<1>5. run.to = Displaced => (run.to = Displaced)'
    BY <1>1, <1>2, <1>3, <1>4, SwapPlaces DEF Displaced
<1>6. area'[run.to].exists /\ \A n \in had \ run'.todo : In(n, run.to)
    BY <1>1, <1>2, <1>4 DEF SwapShape
<1> QED
    BY <1>1, <1>2, <1>3, <1>5, <1>6, StillPlaces, StillSwap

LEMMA SkipSwaps == ASSUME Good, NEW n \in Names, Skip(n) PROVE SwapShape'
<1>1. Typed /\ SwapShape /\ Swapping /\ pc = "swap" /\ pc' = "swap"
    BY SkipDoes DEF Good, Core, Shape, Swapping
<1>2. /\ run'.to = run.to /\ run'.moved = run.moved /\ run'.todo = run.todo \ {n}
      /\ Faults' = Faults /\ UNCHANGED <<disk, had>> /\ live' = live /\ area' = area
      /\ Staged(n) = None /\ run.step = Version + 1
    BY <1>1, SkipDoes, SwapPlaces DEF disk
<1>3. run.to = Displaced => (run.to = Displaced)'
    BY <1>2, SameDisk
<1>4. n \in had => In(n, run.to)
    <2>1. Version + 1 # None
        BY GoodNumbers
    <2>2. StagedFor(n) = None
        BY <1>2 DEF Staged, StagedFor
    <2> QED  BY <1>1, <2>1, <2>2 DEF SwapShape, Between, Old, Out
<1>5. area'[run.to].exists /\ \A m \in had \ run'.todo : In(m, run.to)
    BY <1>1, <1>2, <1>4 DEF SwapShape
<1>6. \A m \in had : /\ Old(m)' <=> Old(m)
                     /\ Out(m, run.to)' <=> Out(m, run.to)
                     /\ In(m, run.to)' <=> In(m, run.to)
    BY <1>2, SameDisk
<1>7. Ready' <=> Ready
    BY <1>2, SameDisk
<1> QED
    BY <1>1, <1>2, <1>3, <1>5, <1>6, <1>7, StillSwap

LEMMA DisplaceSwaps == ASSUME Good, NEW n \in Names, Displace(n) PROVE SwapShape'
<1>1. Typed /\ SwapShape /\ Swapping /\ pc = "swap" /\ pc' = "in"
    BY DisplaceDoes DEF Good, Core, Shape, Swapping
<1>2. /\ run'.to = run.to /\ run'.moved = run.moved \cup {n} /\ run'.todo = run.todo
      /\ run'.cur = n /\ had' = had /\ Faults' = Faults /\ Version' = Version
      /\ run.to \in Areas /\ Turn(n)
    BY <1>1, DisplaceDoes
<1>3. /\ live'[n] = None /\ \A m \in Names \ {n} : live'[m] = live[m]
      /\ \A m \in Names \ {n} : area'[run.to].files[m] = area[run.to].files[m]
      /\ \A a \in Areas \ {run.to} : area'[a] = area[a]
    BY <1>1, DisplaceDoes
<1>4. area'[run.to].exists = area[run.to].exists
    BY <1>1, DisplaceDoes
<1>5. /\ Ready' <=> Ready
      /\ \A m \in had \ {n} : /\ Old(m)' <=> Old(m)
                              /\ Out(m, run.to)' <=> Out(m, run.to)
                              /\ In(m, run.to)' <=> In(m, run.to)
      /\ n \in had => Old(n) /\ ~ Old(n)' /\ Out(n, run.to)'
    BY DisplacePlaces, HadNames
<1>6. n \in had => ~ In(n, run.to)
    BY <1>5, GoodNumbers DEF Old, In
<1>7. (Ready /\ Between(run.to))'
    BY <1>1, <1>2, <1>5 DEF SwapShape, Between
<1>8. Ordered(run.to)'
    <2>1. SUFFICES ASSUME NEW q \in had \cap Folders, ~ Old(q)', NEW m \in had \ Folders
                   PROVE  In(m, run.to)'
        BY <1>2 DEF Ordered
    <2>2. CASE q = n
        <3>1. m \notin run.todo /\ m # n
            BY <1>2, <2>2 DEF Turn
        <3> QED  BY <1>1, <1>5, <3>1 DEF SwapShape
    <2>3. CASE q # n
        <3>1. ~ Old(q)
            BY <1>5, <2>1, <2>3
        <3>2. In(m, run.to)
            BY <1>1, <3>1 DEF SwapShape, Ordered
        <3> QED  BY <1>5, <1>6, <3>2
    <2> QED  BY <2>2, <2>3
<1>9. Fresh(run.moved) => Fresh(run.moved)'
    BY <1>2, <1>5 DEF Fresh
<1>10. Untouched(run.to) => Untouched(run.to)'
    BY <1>2, <1>3, <1>5, HadNames DEF Untouched
<1>11. Resumed => Resumed'
    <2>1. run.to = Displaced => (run.to = Displaced)'
        BY <1>1, <1>2, <1>3, <1>4, SwapPlaces DEF Displaced
    <2>2. ASSUME NEW q \in had \cap Folders, live'[q] = Empty
          PROVE  FALSE
        <3>1. q # n /\ live[q] = Empty
            BY <1>3, <2>2, HadNames, Numbers
        <3>2. ~ Old(q)
            BY <3>1, GoodNumbers DEF Old
        <3>3. n \notin Folders
            BY <3>1, OneFolder
        <3>4. CASE n \in had
            BY <1>1, <1>6, <3>2, <3>3, <3>4 DEF SwapShape, Ordered
        <3>5. CASE n \notin had
            BY <1>1, <3>3, <3>5, DisplaceDoes DEF Good, Core, NeverThere
        <3> QED  BY <3>4, <3>5
    <2> QED  BY <1>2, <1>10, <2>1, <2>2 DEF Resumed
<1>12. (\A m \in had \cap run.moved : ~ Old(m))'
    BY <1>1, <1>2, <1>5 DEF SwapShape
<1>13. (Faults = 0 => /\ Fresh(run.moved) /\ Untouched(run.to)
                      /\ \A m \in had : Out(m, run.to) => pc = "in" /\ m = run.cur)'
    <2>1. Faults = 0 => /\ Fresh(run.moved) /\ Untouched(run.to)
                        /\ \A m \in had : ~ Out(m, run.to)
        BY <1>1 DEF SwapShape
    <2> QED  BY <1>1, <1>2, <1>5, <1>9, <1>10, <2>1
<1>14. (area[run.to].exists /\ \A m \in had \ run.todo : In(m, run.to))'
    <2>1. n \in run.todo
        BY <1>2 DEF Turn
    <2> QED  BY <1>1, <1>2, <1>4, <1>5, <2>1 DEF SwapShape
<1>15. (Fresh(run.moved) \/ Resumed)'
    BY <1>1, <1>9, <1>11 DEF SwapShape
<1>16. run'.moved # {}
    BY <1>2
<1> QED
    BY <1>7, <1>8, <1>12, <1>13, <1>14, <1>15, <1>16 DEF SwapShape

LEMMA PutInSwaps == ASSUME Good, NEW n \in Names, PutIn(n) PROVE SwapShape'
<1>1. Typed /\ SwapShape /\ Swapping /\ pc \in {"swap", "in"} /\ pc' = "swap"
    BY PutInDoes DEF Good, Core, Shape, Swapping
<1>2. /\ run'.to = run.to /\ run'.moved = run.moved /\ run'.todo = run.todo \ {n}
      /\ had' = had /\ Faults' = Faults /\ Version' = Version
      /\ run.to \in Areas /\ run.step = Version + 1 /\ Staging(Version + 1) # run.to
    BY <1>1, PutInDoes, SwapPlaces
<1>3. /\ live'[n] = Staged(n) /\ \A m \in Names \ {n} : live'[m] = live[m]
      /\ \A a \in Areas \ {Staging(Version + 1)} : area'[a] = area[a]
    BY <1>1, <1>2, PutInDoes
<1>4. area'[run.to] = area[run.to] /\ run.to \in Areas
    BY <1>2, <1>3
<1>5. /\ Ready' <=> Ready
      /\ \A m \in had \ {n} : /\ Old(m)' <=> Old(m)
                              /\ Out(m, run.to)' <=> Out(m, run.to)
                              /\ In(m, run.to)' <=> In(m, run.to)
      /\ n \in had => Out(n, run.to) /\ ~ Old(n)' /\ In(n, run.to)'
    <2>1. \A m \in Names \ {n} : /\ Old(m)' <=> Old(m)
                                 /\ Out(m, run.to)' <=> Out(m, run.to)
                                 /\ In(m, run.to)' <=> In(m, run.to)
        BY <1>2, PutInPlaces
    <2> QED  BY <2>1, PutInPlaces, HadNames
<1>6. n \in had => ~ Old(n) /\ ~ In(n, run.to) /\ ~ Out(n, run.to)'
    <2>1. Version # None /\ Version + 1 \notin {None, Empty} /\ Version # Empty
        BY GoodNumbers
    <2> QED  BY <1>2, <1>5, <2>1 DEF Old, Out, In
<1>7. (Ready /\ Between(run.to))'
    BY <1>1, <1>2, <1>5 DEF SwapShape, Between
<1>8. Ordered(run.to)'
    <2>1. SUFFICES ASSUME NEW q \in had \cap Folders, ~ Old(q)', NEW m \in had \ Folders
                   PROVE  In(m, run.to)'
        BY <1>2 DEF Ordered
    <2>2. ~ Old(q)
        BY <1>5, <1>6, <2>1
    <2>3. In(m, run.to)
        BY <1>1, <2>2 DEF SwapShape, Ordered
    <2> QED  BY <1>5, <2>3
<1>9. Fresh(run.moved) => Fresh(run.moved)'
    BY <1>2, <1>5, <1>6 DEF Fresh
<1>10. Untouched(run.to) => Untouched(run.to)'
    BY <1>2, <1>4, <1>5 DEF Untouched
<1>11. Resumed => Resumed'
    <2>1. run.to = Displaced => (run.to = Displaced)'
        <3>1. area'[Scratch(Version + 1)] = area[Scratch(Version + 1)]
            BY <1>1, <1>3, SwapPlaces
        <3> QED  BY <1>2, <3>1 DEF Displaced
    <2>2. ASSUME NEW q \in had \cap Folders, live'[q] = Empty
          PROVE  live[q] = Empty
        <3>1. q # n
            BY <1>2, <1>5, <2>2, GoodNumbers DEF In
        <3> QED  BY <1>3, <2>2, <3>1, HadNames
    <2> QED  BY <1>2, <1>10, <2>1, <2>2 DEF Resumed
<1>12. (\A m \in had \cap run.moved : ~ Old(m))'
    BY <1>1, <1>2, <1>5 DEF SwapShape
<1>13. (run.moved = {} => OneOut(run.to))'
    BY <1>1, <1>2, <1>5, <1>6 DEF SwapShape, OneOut
<1>14. (Faults = 0 => /\ Fresh(run.moved) /\ Untouched(run.to)
                      /\ \A m \in had : Out(m, run.to) => pc = "in" /\ m = run.cur)'
    <2>1. Faults = 0 => /\ Fresh(run.moved) /\ Untouched(run.to)
                        /\ \A m \in had : Out(m, run.to) => pc = "in" /\ m = run.cur
        BY <1>1 DEF SwapShape
    <2>2. pc = "in" => n = run.cur
        BY <1>1, PutInDoes
    <2>3. Faults = 0 => \A m \in had : ~ Out(m, run.to)'
        BY <1>5, <1>6, <2>1, <2>2
    <2> QED  BY <1>2, <1>9, <1>10, <2>1, <2>3
<1>15. (area[run.to].exists /\ \A m \in had \ run.todo : In(m, run.to))'
    BY <1>1, <1>2, <1>4, <1>5 DEF SwapShape
<1>16. (Fresh(run.moved) \/ Resumed)'
    BY <1>1, <1>9, <1>11 DEF SwapShape
<1> QED
    BY <1>7, <1>8, <1>12, <1>13, <1>14, <1>15, <1>16 DEF SwapShape

\* A swap that is entered with every name old.
LEMMA AllOld ==
    ASSUME Typed, NEW d, Fresh({})
    PROVE  Between(d) /\ Ordered(d) /\ OneOut(d) /\ \A n \in had : ~ Out(n, d)
<1>1. \A n \in had : Old(n)
    BY DEF Fresh
<1>2. \A n \in had : ~ Out(n, d)
    BY <1>1, Bounds DEF Typed, Old, Out
<1> QED
    BY <1>1, <1>2 DEF Between, Ordered, OneOut

\* A run that resumes a step starts from an interrupted swap, and after a fault.
LEMMA ResumesInterrupted ==
    ASSUME Good, pc = "apply", Resumable(run.step)
    PROVE  Interrupted /\ Faults = 1 /\ run.first
<1>1. run.step = Version + 1 /\ Version < Target /\ Version + 1 \in Steps /\ Version + 1 > Version
    BY GoodNumbers DEF Good, Core, StepInHand
<1>2. Ready /\ ~ Unready
    BY <1>1 DEF Ready, Unready
<1>3. Interrupted
    BY <1>2 DEF Good, Core, Shape
<1>4. ~ Unborn(Version)
    <2>1. area[Staging(Version + 1)].marker = Version + 1 /\ Version + 1 # None
        BY <1>1, GoodNumbers DEF Resumable
    <2>2. Gone.marker = None
        BY DEF Gone
    <2> QED  BY <1>1, <2>1, <2>2 DEF Unborn
<1>5. Faults = 1 /\ run.first
    BY <1>4, GoodNumbers DEF Good, Core, Future, Later
<1> QED
    BY <1>3, <1>5

LEMMA ApplySwaps ==
    ASSUME Good, Apply, pc' = "mkdir"
    PROVE  SwapShape'
<1>1. /\ Typed /\ pc = "apply" /\ Resumable(run.step) /\ UNCHANGED <<disk, had>>
      /\ run'.moved = run.moved /\ Faults' = Faults
      /\ run'.to = IF (Resumable(run.step) /\ area[Scratch(run.step)].exists) \/ ~ run.first
                   THEN Scratch(run.step) ELSE Backup
    BY ApplyDoes DEF Good
<1>2. Interrupted /\ Faults = 1 /\ run.first
    BY <1>1, ResumesInterrupted
<1>3. run.step = Version + 1 /\ run.moved = {}
    BY <1>1 DEF Good, Core, StepInHand, Locals
<1>4. run'.to = Displaced /\ run'.to = Displaced'
    BY <1>1, <1>2, <1>3, SameDisk DEF Displaced
<1>5. Ready' /\ Between(run.to)' /\ OneOut(run.to)'
    <2>1. Ready /\ Between(Displaced) /\ OneOut(Displaced)
        BY <1>2 DEF Interrupted
    <2> QED  BY <1>1, <1>4, <2>1, SameDisk
<1>6. Ordered(run.to)'
    <2>1. Ordered(Displaced)
        BY <1>1, <1>2, AllOld DEF Interrupted
    <2> QED  BY <1>1, <1>4, <2>1, SameDisk
<1>7. (Fresh(run.moved) \/ Resumed)'
    <2>1. CASE Fresh({})
        BY <1>1, <1>3, <2>1, SameDisk
    <2>2. CASE Untouched(Displaced)
        <3>1. Untouched(run.to)'
            BY <1>1, <1>4, <2>2, SameDisk
        <3> QED  BY <1>1, <1>2, <1>3, <1>4, <3>1 DEF Resumed
    <2> QED  BY <1>2, <2>1, <2>2 DEF Interrupted
<1> QED
    BY <1>1, <1>2, <1>3, <1>5, <1>6, <1>7 DEF SwapShape

LEMMA RemovedSwaps ==
    ASSUME Good, Removed, pc' = "mkdir"
    PROVE  SwapShape'
<1>1. /\ Typed /\ pc = "remove" /\ run' = run /\ run.then = "mkdir" /\ UNCHANGED <<live, had>>
      /\ Version' = Version /\ \A a \in Areas \ {run.rm} : area'[a] = area[a]
      /\ Faults' = 0 => area'[run.rm] = Gone
    BY RemovedDoes, GoodNumbers DEF Good
<1>2. Removing("mkdir") /\ Copying
    BY <1>1 DEF Removing, Copying
<1>3. Ready /\ Fresh({}) /\ run.rm = run.to /\ run.moved = {}
    BY <1>2 DEF Good, Core, Shape, Locals
<1>4. area'[Staging(Version + 1)] = area[Staging(Version + 1)]
    BY <1>1, <1>2, <1>3, SwapPlaces
<1>5. Ready'
    BY <1>1, <1>3, <1>4 DEF Ready, Resumable
<1>6. Fresh({})'
    BY <1>1, <1>3, <1>4 DEF Fresh, Old, StagedFor
<1>7. \A n \in had : Old(n)' /\ ~ Out(n, run.to)'
    <2>1. \A n \in had : Old(n) /\ Old(n)'
        BY <1>1, <1>3, <1>6 DEF Fresh
    <2> QED  BY <1>1, <2>1, GoodNumbers DEF Old, Out
<1>8. Between(run.to)' /\ Ordered(run.to)' /\ OneOut(run.to)'
    BY <1>1, <1>7 DEF Between, Ordered, OneOut
<1>9. Faults' = 0 => Untouched(run.to)'
    BY <1>1, <1>3, HadNames DEF Untouched, Gone, NoFiles
<1>10. Fresh(run.moved)'
    BY <1>1, <1>3, <1>6
<1> QED
    BY <1>1, <1>3, <1>5, <1>7, <1>8, <1>9, <1>10 DEF SwapShape

--------------------------------------------------------------------------------
(* A swap that fails, and one whose run dies.                              *)

\* A folder blocks a swap that was resumed, and then nothing was displaced in it,
\* or one whose scratch an earlier step has left.
LEMMA BlockedMeans ==
    ASSUME Good, pc = "swap", NEW n \in Names, Turn(n), Staged(n) # None, Blocked(n)
    PROVE  /\ Faults = 1 /\ n \in had
           /\ Untouched(run.to) => Out(n, run.to) /\ live[n] = Empty
           /\ run.moved # {} => Fresh(run.moved)
<1>1. SwapShape /\ Swapping /\ NeverThere
    BY DEF Good, Core, Shape, Swapping
<1>2. run.step = Version + 1 /\ run.to \in Areas
    BY <1>1, SwapPlaces
<1>3. n \in Folders /\ live[n] # None /\ area[run.to].files[n] \notin {None, Empty}
    BY DEF Blocked
<1>4. n \in had
    BY <1>1, <1>2, <1>3 DEF NeverThere
<1>5. Old(n) \/ Out(n, run.to)
    BY <1>1, <1>2, <1>4 DEF SwapShape, Between, In, Staged, StagedFor
<1>6. Untouched(run.to) => Out(n, run.to) /\ live[n] = Empty
    BY <1>3, <1>4, <1>5 DEF Untouched, Out
<1>7. Faults = 1
    <2>1. Faults # 0
        BY <1>1, <1>4, <1>6 DEF SwapShape
    <2> QED  BY <2>1, GoodNumbers
<1>8. run.moved # {} => Fresh(run.moved)
    BY <1>1, <1>3, <1>4, <1>6 DEF SwapShape, Resumed
<1> QED
    BY <1>4, <1>6, <1>7, <1>8

LEMMA SwapFailsUndoes == ASSUME Good, SwapFails PROVE UndoShape'
<1>1. /\ Typed /\ SwapShape /\ Swapping /\ pc' = "rollback"
      /\ run'.to = run.to /\ run'.moved = run.moved /\ run'.todo = run.moved
      /\ UNCHANGED <<disk, had>>
    BY SwapFailsDoes DEF Good, Core, Shape, Swapping
<1>2. UNCHANGED <<live, area>>
    BY <1>1 DEF disk
<1>3. Faults' = 1 /\ (Faults = 0 \/ (pc = "swap" /\ \E n \in Names : Turn(n) /\ Staged(n) # None /\ Blocked(n)))
    <2>1. CASE Faults' = Faults + 1
        BY <2>1, GoodNumbers
    <2>2. CASE /\ pc = "swap" /\ Faults' = Faults
               /\ \E n \in Names : Turn(n) /\ Staged(n) # None /\ Blocked(n)
        BY <2>2, BlockedMeans
    <2> QED  BY <1>1, <2>1, <2>2, SwapFailsDoes
<1>4. run.moved # {} => Fresh(run.moved)
    BY <1>1, <1>3, BlockedMeans DEF SwapShape
<1>5. CASE run.moved = {}
    <2>1. Ready /\ Between(run.to) /\ OneOut(run.to) /\ Ordered(run.to)
        BY <1>1, <1>5 DEF SwapShape
    <2>2. CASE Fresh({})
        <3>1. Ready' /\ Between(Displaced)' /\ OneOut(Displaced)' /\ Fresh({})'
            BY <1>1, <2>1, <2>2, AllOld, SameDisk
        <3> QED  BY <1>1, <1>3, <1>5, <3>1 DEF UndoShape, Interrupted
    <2>3. CASE Resumed
        <3>1. run.to = Displaced /\ Untouched(Displaced)
            BY <2>3 DEF Resumed
        <3>2. /\ Ready' /\ Between(Displaced)' /\ OneOut(Displaced)'
              /\ Untouched(Displaced)' /\ Ordered(Displaced)'
            BY <1>1, <2>1, <3>1, SameDisk
        <3> QED  BY <1>1, <1>3, <1>5, <3>2 DEF UndoShape, Interrupted
    <2> QED  BY <1>1, <1>5, <2>2, <2>3 DEF SwapShape
<1>6. CASE run.moved # {}
    <2>1. \A n \in had \ run.moved : live[n] = Version
        BY <1>4, <1>6 DEF Fresh, Old
    <2>2. \A n \in had \cap run.moved : /\ area[run.to].files[n] = Version
                                        /\ live[n] \in {None, Empty, Version, Version + 1}
        BY <1>1 DEF SwapShape, Between, Out, In
    <2> QED  BY <1>1, <1>2, <1>3, <1>6, <2>1, <2>2, SameDisk DEF UndoShape
<1> QED
    BY <1>5, <1>6

LEMMA UndoGoesOn ==
    ASSUME Good, NEW n \in Names, ClearLive(n) \/ PutBack(n)
    PROVE  UndoShape'
<1>1. /\ Typed /\ UndoShape /\ Locals /\ pc = "rollback" /\ n \in run.todo
      /\ run'.to = run.to /\ run'.moved = run.moved /\ run'.todo \in {run.todo, run.todo \ {n}}
      /\ had' = had /\ Version' = Version /\ Faults' = Faults
    BY ClearLiveDoes, PutBackDoes DEF Good, Core, Shape
<1>2. run.moved # {} /\ Faults = 1
    BY <1>1 DEF Locals, UndoShape
<1>3. /\ \A m \in had \ run.todo : live[m] = Version
      /\ \A m \in had \cap run.todo : /\ area[run.to].files[m] = Version
                                      /\ live[m] \in {None, Empty, Version, Version + 1}
    BY <1>1, <1>2 DEF UndoShape
<1>4. \A m \in Names \ {n} : live'[m] = live[m] /\ area'[run.to].files[m] = area[run.to].files[m]
    BY <1>1, ClearLiveDoes, PutBackDoes
<1>5. CASE ClearLive(n)
    <2>1. run' = run /\ area' = area /\ live'[n] = None
        BY <1>1, <1>5, ClearLiveDoes
    <2> QED  BY <1>1, <1>2, <1>3, <1>4, <2>1, HadNames DEF UndoShape
<1>6. CASE PutBack(n)
    <2>1. live'[n] = area[run.to].files[n] /\ run'.todo = run.todo \ {n}
        BY <1>1, <1>6, PutBackDoes
    <2>2. \A m \in had \ run'.todo : live'[m] = Version
        BY <1>1, <1>3, <1>4, <2>1, HadNames
    <2>3. \A m \in had \cap run'.todo : /\ area'[run.to].files[m] = Version
                                        /\ live'[m] \in {None, Empty, Version, Version + 1}
        BY <1>1, <1>3, <1>4, <2>1, HadNames
    <2> QED  BY <1>1, <1>2, <2>2, <2>3 DEF UndoShape
<1> QED
    BY <1>5, <1>6

\* A swap without a fault is one a run can resume.
LEMMA SwapStops ==
    ASSUME Good, Swapping, Faults = 0
    PROVE  /\ Ready /\ Between(Displaced) /\ OneOut(Displaced)
           /\ Fresh({}) \/ (Untouched(Displaced) /\ Ordered(Displaced))
<1>1. Typed /\ SwapShape
    BY DEF Good, Core, Shape
<1>2. CASE pc = "mkdir"
    <2>1. run.moved = {}
        BY <1>2 DEF Good, Core, Locals
    <2>2. Fresh({}) /\ Ready
        BY <1>1, <2>1 DEF SwapShape
    <2> QED  BY <1>1, <2>2, AllOld
<1>3. CASE pc # "mkdir"
    <2>1. area[run.to].exists
        BY <1>1, <1>3 DEF SwapShape
    <2>2. run.to = Displaced
        <3>1. area[Scratch(Version + 1)].exists => run.to = Scratch(Version + 1)
            BY DEF Good, Core, Future
        <3> QED  BY <2>1, <3>1, SwapPlaces DEF Displaced
    <2>3. /\ Ready /\ Between(run.to) /\ Ordered(run.to) /\ Untouched(run.to)
          /\ \A n \in had : Out(n, run.to) => n = run.cur
        BY <1>1 DEF SwapShape
    <2>4. OneOut(run.to)
        BY <2>3 DEF OneOut
    <2> QED  BY <2>2, <2>3, <2>4
<1> QED
    BY <1>2, <1>3

\* Before its step has begun nothing can be resumed.
LEMMA UnbornUnready == ASSUME Good, Unborn(Version) PROVE Unready
<1>1. Version < Target => Version + 1 \in Steps /\ Version + 1 > Version /\ Version + 1 # None
    BY GoodNumbers, Numbers
<1>2. Gone.marker = None
    BY DEF Gone
<1> QED
    BY <1>1, <1>2 DEF Unready, Unborn, Resumable

\* The stages of a run.
LEMMA Stages ==
    ASSUME TypeOK
    PROVE  Resting \/ pc = "apply" \/ Copying \/ Swapping \/ Undoing \/ Over \/ Tidying
BY RunFields DEF TypeOK, Pcs, Resting, Copying, Swapping, Undoing, Over, Tidying, Removing

LEMMA CrashRests ==
    ASSUME Good, Crash
    PROVE  (Plain' /\ Unready') \/ Interrupted' \/ Stamped'
<1>1. /\ Typed /\ TypeOK /\ Shape /\ UNCHANGED <<disk, had>> /\ pc # "idle" /\ Faults = 0
      /\ Faults' = 1
    BY GoodNumbers, CrashDoes DEF Good, Core
<1>2. Interrupted => Interrupted'
    BY <1>1, SameInterrupted
<1>3. (Plain /\ Unready => Plain' /\ Unready') /\ (Stamped => Stamped')
    BY <1>1, SameDisk
<1>4. ASSUME Ready, Between(Displaced), OneOut(Displaced),
             Fresh({}) \/ (Untouched(Displaced) /\ Ordered(Displaced))
      PROVE  Interrupted'
    <2>1. /\ Ready' /\ Between(Displaced)' /\ OneOut(Displaced)'
          /\ (Fresh({}) \/ (Untouched(Displaced) /\ Ordered(Displaced)))'
        BY <1>1, <1>4, SameDisk
    <2> QED  BY <1>1, <2>1 DEF Interrupted
<1>5. CASE Resting
    BY <1>1, <1>2, <1>3, <1>5 DEF Shape
<1>6. CASE pc = "apply"
    BY <1>1, <1>2, <1>3, <1>6 DEF Shape
<1>7. CASE Copying
    <2>1. CASE Removing("mkdir")
        BY <1>1, <1>4, <2>1, AllOld DEF Shape
    <2>2. CASE ~ Removing("mkdir")
        BY <1>1, <1>3, <1>7, <2>2 DEF Shape, Copying
    <2> QED  BY <2>1, <2>2
<1>8. CASE Swapping
    BY <1>1, <1>4, <1>8, SwapStops
<1>9. CASE Undoing
    BY <1>1, <1>9 DEF Shape, Undoing, UndoShape
<1>10. CASE Over
    <2>1. Plain
        BY <1>1, <1>10 DEF Shape
    <2>2. Unready
        BY <1>10, UnbornUnready DEF Good, Core, Future
    <2> QED  BY <1>3, <2>1, <2>2
<1>11. CASE Tidying
    <2>1. Version = Target
        BY <1>11 DEF Good, Core, StepInHand
    <2>2. Unready
        BY <2>1, GoodNumbers DEF Unready
    <2> QED  BY <1>1, <1>3, <1>11, <2>2 DEF Shape
<1> QED
    BY <1>1, <1>5, <1>6, <1>7, <1>8, <1>9, <1>10, <1>11, Stages

\* The commands that make missing folders, and take an empty state for a new one.
LEMMA ImportRests ==
    ASSUME Good, Import
    PROVE  (Plain' /\ Unready') \/ Interrupted' \/ Stamped'
<1>0. /\ Version \in Nat /\ Target >= 1 /\ Version \notin {None, Empty}
      /\ Version + 1 \notin {None, Empty} /\ None # Empty
    BY GoodNumbers
<1>1. /\ Typed /\ pc = "idle" /\ area' = area /\ had' = had /\ Faults' = Faults
      /\ \A n \in had : live'[n] = IF n \in Folders /\ live[n] = None THEN Empty ELSE live[n]
    BY ImportDoes, HadNames DEF Good
<1>2. (Plain /\ Unready) \/ Interrupted \/ Stamped
    BY <1>1 DEF Good, Core, Shape, Resting
<1>3. CASE marker' = marker /\ Version' = Version
    <2>1. CASE Plain /\ Unready
        <3>1. Plain'
            BY <1>0, <1>1, <1>3, <2>1 DEF Plain
        <3>2. Unready'
            BY <1>1, <1>3, <2>1 DEF Unready, Resumable
        <3> QED  BY <3>1, <3>2
    <2>2. CASE Interrupted
        <3>1. Displaced' = Displaced /\ (Ready' <=> Ready)
            BY <1>1, <1>3 DEF Displaced, Ready, Resumable
        <3>2. \A n \in had : Old(n)' <=> Old(n)
            BY <1>0, <1>1, <1>3 DEF Old, StagedFor
        <3>3. \A n \in had : \A d : Out(n, d)' <=> Out(n, d)
            BY <1>0, <1>1, <1>3 DEF Out, StagedFor
        <3>4. \A n \in had : \A d : In(n, d)' <=> In(n, d)
            BY <1>0, <1>1, <1>3 DEF In, StagedFor
        <3>5. Between(Displaced)' /\ OneOut(Displaced)'
            <4>1. Between(Displaced) /\ OneOut(Displaced)
                BY <2>2 DEF Interrupted
            <4>2. Between(Displaced)'
                BY <1>1, <3>1, <3>2, <3>3, <3>4, <4>1 DEF Between
            <4>3. OneOut(Displaced)'
                BY <1>1, <3>1, <3>3, <4>1 DEF OneOut
            <4> QED  BY <4>2, <4>3
        <3>6. Fresh({}) => Fresh({})'
            BY <1>1, <3>2 DEF Fresh
        <3>7. Untouched(Displaced) => Untouched(Displaced)'
            BY <1>1, <3>1, <3>2 DEF Untouched
        <3>8. Ordered(Displaced) => Ordered(Displaced)'
            BY <1>1, <3>1, <3>2, <3>4 DEF Ordered
        <3> QED  BY <1>1, <2>2, <3>1, <3>5, <3>6, <3>7, <3>8 DEF Interrupted
    <2>3. CASE Stamped
        BY <1>1, <1>3, <2>3 DEF Stamped
    <2> QED  BY <1>2, <2>1, <2>2, <2>3
<1>4. CASE /\ marker = None /\ Version = 0 /\ Version' = Target
           /\ \A n \in Names : live[n] \in {None, Empty}
    <2>1. CASE had = {}
        <3>1. Plain'
            BY <1>1, <2>1 DEF Plain
        <3>2. Unready'
            BY <1>4, GoodNumbers DEF Unready
        <3> QED  BY <3>1, <3>2
    <2>2. CASE had # {}
        <3>1. \A n \in had : live[n] \in {None, Empty} /\ ~ Old(n) /\ \A d : ~ In(n, d)
            BY <1>0, <1>4, HadNames DEF Old, In
        <3>2. ~ Plain /\ ~ Stamped
            BY <1>0, <1>4, <2>2, <3>1 DEF Plain, Stamped
        <3>3. \A n \in had : area[Displaced].files[n] = 0
            BY <1>2, <1>4, <3>1, <3>2 DEF Interrupted, Between, Out
        <3>4. Displaced = Backup
            BY <1>4 DEF Good, Core, Future, Displaced
        <3>5. area[Backup].marker = None
            BY <1>4 DEF Good, Core, Backed
        <3>6. \A n \in had : live'[n] \in {None, Empty}
            BY <1>1, <3>1
        <3> QED  BY <1>1, <1>4, <3>3, <3>4, <3>5, <3>6 DEF Stamped
    <2> QED  BY <2>1, <2>2
<1> QED
    BY <1>1, <1>3, <1>4, ImportDoes

\* The names of the state are where the stage of the run says.
LEMMA ShapeKept == ASSUME Good PROVE Shape'
<1> USE DEF Resting, Swapping, Over, Tidying, Removing
<1>0. Typed /\ TypeOK /\ Shape /\ Faults \in {0, 1} /\ Faults' \in {0, 1}
    BY GoodNumbers DEF Good, Core
<1>a. /\ Version \in Nat /\ Version <= Target /\ Target \in Nat
      /\ Version + 1 # None /\ Version \notin {None, Empty} /\ None # Empty
    BY GoodNumbers
<1>1. CASE Import
    <2>1. pc' = "start"
        BY <1>0, <1>1, ImportDoes
    <2> QED  BY <1>1, <2>1, ImportRests DEF Shape
<1>2. CASE Begin
    <2>1. pc = "start" /\ UNCHANGED <<disk, had>> /\ pc' \in {"discard", "apply", "idle"}
          /\ Faults' = Faults
        BY <1>0, <1>2, BeginDoes
    <2>2. /\ Interrupted => Interrupted'
          /\ (Plain /\ Unready => Plain' /\ Unready') /\ (Stamped => Stamped')
        BY <2>1, SameDisk, SameInterrupted
    <2>3. pc' = "discard" => Plain' \/ Stamped'
        <3>1. pc' = "discard" => Version = Target
            BY <1>0, <1>2, BeginDoes
        <3>2. Version = Target => ~ Interrupted
            BY <1>a DEF Interrupted, Ready
        <3> QED  BY <1>0, <2>1, <2>2, <3>1, <3>2 DEF Shape
    <2>4. pc' = "apply" => (Plain' /\ Unready') \/ Interrupted'
        <3>1. pc' = "apply" => Version < Target
            BY <1>0, <1>2, BeginDoes
        <3>2. Version < Target => ~ Stamped
            BY <1>a DEF Stamped
        <3> QED  BY <1>0, <2>1, <2>2, <3>1, <3>2 DEF Shape
    <2>5. pc' = "idle" => (Plain' /\ Unready') \/ Interrupted' \/ Stamped'
        BY <1>0, <2>1, <2>2 DEF Shape
    <2> QED  BY <2>1, <2>3, <2>4, <2>5 DEF Shape
<1>3. CASE Apply
    <2>1. pc = "apply" /\ UNCHANGED <<disk, had>> /\ run.step = Version + 1
        BY <1>0, <1>3, ApplyDoes DEF Good, Core, StepInHand
    <2>2. CASE pc' = "mkdir"
        BY <1>3, <2>2, ApplySwaps DEF Shape
    <2>3. CASE pc' # "mkdir"
        <3>1. ~ Resumable(run.step) /\ pc' = "remove" /\ run'.then = "copy"
            BY <1>0, <1>3, <2>3, ApplyDoes
        <3>2. ~ Interrupted
            BY <2>1, <3>1 DEF Interrupted, Ready
        <3>3. Plain' /\ Unready'
            BY <1>0, <2>1, <3>2, SameDisk DEF Shape
        <3> QED  BY <3>1, <3>3 DEF Shape
    <2> QED  BY <2>2, <2>3
<1>4. CASE RemoveEntry
    <2>1. /\ pc = "remove" /\ UNCHANGED <<live, marker, pc, run, had>>
          /\ Version' = Version /\ Faults' = Faults
          /\ \A a \in Areas \ {run.rm} : area'[a] = area[a]
          /\ \A a \in Areas : area'[a].marker \in {area[a].marker, None}
        BY <1>0, <1>4, RemoveEntryDoes
    <2>2. Plain => Plain'
        BY <2>1 DEF Plain
    <2>3. Version < Target => Staging(Version + 1) \in Areas
        BY GoodNumbers, Places
    <2>4. Unready => Unready'
        BY <1>a, <2>1, <2>3 DEF Unready, Resumable
    <2>5. Removing("mkdir") => Ready' /\ Fresh({})'
        <3>1. ASSUME Removing("mkdir")
              PROVE  area'[Staging(Version + 1)] = area[Staging(Version + 1)]
            <4>1. Copying /\ run.rm = run.to
                BY <3>1 DEF Good, Core, Locals, Copying
            <4> QED  BY <2>1, <4>1, SwapPlaces
        <3> QED  BY <1>0, <2>1, <3>1 DEF Shape, Ready, Resumable, Fresh, Old, StagedFor
    <2>6. Removing("discard") => Plain' \/ Stamped'
        <3>1. Removing("discard") => area'[Backup] = area[Backup]
            BY <2>1, Places DEF Good, Core, Locals
        <3>2. Removing("discard") /\ Stamped => Stamped'
            BY <2>1, <3>1 DEF Stamped
        <3> QED  BY <1>0, <2>2, <3>2 DEF Shape
    <2> QED  BY <1>0, <2>1, <2>2, <2>4, <2>5, <2>6 DEF Shape
<1>5. CASE Removed
    <2>1. /\ pc = "remove" /\ UNCHANGED <<live, marker, had>> /\ Version' = Version
          /\ run.rm \in Areas /\ \A a \in Areas \ {run.rm} : area'[a] = area[a]
          /\ area'[run.rm] \in {area[run.rm], Gone}
        BY <1>0, <1>5, RemovedDoes
    <2>2. \/ Removing("idle") /\ pc' = "idle"
          \/ /\ pc' = run.then /\ run' = run
             /\ run.then \in {"copy", "mkdir", "applied", "next", "discard"}
        BY <1>0, <1>5, RemovedDoes
    <2>3. Plain => Plain'
        BY <2>1 DEF Plain
    <2>4. CASE Removing("idle") /\ pc' = "idle"
        <3>1. run.rm = Staging(Version + 1) /\ Plain /\ Faults = 1
            <4>1. Undoing
                BY <2>4 DEF Undoing
            <4> QED  BY <1>0, <2>4, <4>1, SwapPlaces DEF Good, Core, Locals, Shape
        <3>2. area'[run.rm] = Gone
            BY <1>0, <1>5, <3>1, RemovedDoes
        <3>3. Unready'
            BY <1>a, <2>1, <3>1, <3>2 DEF Unready, Resumable, Gone
        <3> QED  BY <2>3, <2>4, <3>1, <3>3 DEF Shape
    <2>5. CASE run.then = "copy" /\ pc' = "copy"
        <3>1. Version < Target => Staging(Version + 1) \in Areas
            BY GoodNumbers, Places
        <3>2. \A a \in Areas : area'[a].marker \in {area[a].marker, None}
            BY <2>1 DEF Gone
        <3>3. Unready => Unready'
            BY <1>a, <2>1, <3>1, <3>2 DEF Unready, Resumable
        <3> QED  BY <1>0, <2>1, <2>3, <2>5, <3>3 DEF Shape
    <2>6. CASE pc' = "mkdir"
        BY <1>5, <2>6, RemovedSwaps DEF Shape
    <2>7. CASE run.then \in {"applied", "next"} /\ pc' = run.then
        BY <1>0, <2>1, <2>3, <2>7 DEF Shape
    <2>8. CASE run.then = "discard" /\ pc' = "discard"
        <3>1. area'[Backup] = area[Backup]
            BY <2>1, <2>8, Places DEF Good, Core, Locals
        <3>2. Stamped => Stamped'
            BY <2>1, <3>1 DEF Stamped
        <3> QED  BY <1>0, <2>1, <2>3, <2>8, <3>2 DEF Shape
    <2> QED  BY <2>2, <2>4, <2>5, <2>6, <2>7, <2>8
<1>6. CASE Copy
    <2>1. /\ pc = "copy" /\ pc' = "convert" /\ UNCHANGED <<live, had>> /\ Version' = Version
          /\ area'[Staging(run.step)].files = live /\ area'[Staging(run.step)].marker = None
          /\ run.step = Version + 1
        BY <1>0, <1>6, CopyDoes DEF Good, Core, StepInHand, Copying
    <2>2. Plain' /\ Unready'
        BY <1>0, <1>a, <2>1 DEF Shape, Plain, Unready, Resumable
    <2>3. (\A n \in had : StagedFor(n) = Version)'
        BY <2>1, <2>2 DEF Plain, StagedFor
    <2> QED  BY <2>1, <2>2, <2>3 DEF Shape
<1>7. CASE Convert
    <2>1. /\ pc = "convert" /\ pc' = "mark" /\ UNCHANGED <<live, had>> /\ Version' = Version
          /\ area'[Staging(run.step)].marker = area[Staging(run.step)].marker
          /\ run.step = Version + 1
        BY <1>0, <1>7, ConvertDoes DEF Good, Core, StepInHand, Copying
    <2>2. Plain' /\ Unready'
        BY <1>0, <2>1 DEF Shape, Plain, Unready, Resumable
    <2>3. ASSUME NEW n \in had
          PROVE  area'[Staging(run.step)].files[n] = Version + 1
        <3>1. area[Staging(run.step)].files[n] = Version
            BY <1>0, <2>1 DEF Shape, StagedFor
        <3> QED  BY <1>0, <1>a, <1>7, <2>1, <3>1, HadNames, ConvertDoes
    <2>4. (\A n \in had : StagedFor(n) = Version + 1)'
        BY <2>1, <2>3 DEF StagedFor
    <2> QED  BY <2>1, <2>2, <2>4 DEF Shape
<1>8. CASE Mark
    <2>1. /\ pc = "mark" /\ pc' = "remove" /\ run'.then = "mkdir"
          /\ UNCHANGED <<live, had>> /\ Version' = Version
          /\ area'[Staging(run.step)].files = area[Staging(run.step)].files
          /\ area'[Staging(run.step)].marker = run.step
          /\ run.step = Version + 1 /\ Version < Target
        BY <1>0, <1>8, MarkDoes DEF Good, Core, StepInHand, Copying
    <2>2. Ready'
        BY <2>1 DEF Ready, Resumable
    <2>3. Fresh({})'
        BY <1>0, <2>1 DEF Shape, Plain, Fresh, Old, StagedFor
    <2> QED  BY <2>1, <2>2, <2>3 DEF Shape
<1>9. CASE StepFails
    <2>1. /\ pc \in {"copy", "convert", "mark"} /\ pc' = "remove" /\ run'.then = "idle"
          /\ UNCHANGED <<disk, had>> /\ Faults' = Faults + 1
        BY <1>0, <1>9, StepFailsDoes
    <2>2. Plain'
        BY <1>0, <2>1, SameDisk DEF Shape
    <2> QED  BY <1>0, <2>1, <2>2 DEF Shape
<1>10. CASE MakeDir
    <2>1. pc' = "swap"
        BY <1>0, <1>10, MakeDirDoes
    <2> QED  BY <1>10, <2>1, MakeDirSwaps DEF Shape
<1>11. CASE KeepMarker
    <2>1. pc' = "commit"
        BY <1>0, <1>11, KeepMarkerDoes
    <2> QED  BY <1>11, <2>1, KeepMarkerSwaps DEF Shape
<1>12. CASE Commit
    <2>1. /\ pc = "commit" /\ pc' = "remove" /\ run'.then = "applied" /\ UNCHANGED <<live, had>>
          /\ Version' = run.step
        BY <1>0, <1>12, CommitDoes
    <2>2. run.step = Version + 1 /\ run.todo = {} /\ SwapShape
        BY <1>0, <2>1 DEF Good, Core, StepInHand, Locals, Shape
    <2>3. Plain'
        BY <2>1, <2>2 DEF SwapShape, Plain, In
    <2> QED  BY <2>1, <2>3 DEF Shape
<1>13. CASE Applied
    <2>1. /\ pc = "applied" /\ UNCHANGED <<disk, had>>
          /\ pc' = "next" \/ (pc' = "remove" /\ run'.then = "next")
        BY <1>0, <1>13, AppliedDoes
    <2> QED  BY <1>0, <2>1, SameDisk DEF Shape
<1>14. CASE NextStep
    <2>1. pc = "next" /\ UNCHANGED <<disk, had>> /\ pc' \in {"discard", "apply"}
        BY <1>0, <1>14, NextStepDoes
    <2>2. Unready
        BY <2>1, UnbornUnready DEF Good, Core, Future
    <2> QED  BY <1>0, <2>1, <2>2, SameDisk DEF Shape
<1>15. CASE Discard
    <2>1. /\ pc = "discard" /\ UNCHANGED <<disk, had>>
          /\ pc' = "idle" \/ (pc' = "remove" /\ run'.then = "discard")
        BY <1>0, <1>15, DiscardDoes
    <2>2. Version = Target
        BY <2>1 DEF Good, Core, StepInHand
    <2>3. Unready
        BY <1>a, <2>2 DEF Unready
    <2> QED  BY <1>0, <2>1, <2>3, SameDisk DEF Shape
<1>16. CASE SwapFails
    <2>1. pc' = "rollback"
        BY <1>0, <1>16, SwapFailsDoes
    <2> QED  BY <1>16, <2>1, SwapFailsUndoes DEF Shape
<1>17. CASE RolledBack
    <2>1. /\ pc = "rollback" /\ run.todo = {} /\ UNCHANGED <<disk, had>> /\ Faults' = Faults
          /\ \/ run.moved = {} /\ pc' = "idle"
             \/ run.moved # {} /\ pc' = "remove" /\ run'.then = "idle"
        BY <1>0, <1>17, RolledBackDoes
    <2>2. UndoShape
        BY <1>0, <2>1 DEF Shape
    <2>3. CASE run.moved = {} /\ pc' = "idle"
        BY <2>1, <2>2, <2>3, SameInterrupted DEF UndoShape, Shape
    <2>4. CASE run.moved # {} /\ pc' = "remove" /\ run'.then = "idle"
        <3>1. Plain
            BY <2>1, <2>2, <2>4 DEF UndoShape, Plain
        <3> QED  BY <2>1, <2>2, <2>4, <3>1, SameDisk DEF UndoShape, Shape
    <2> QED  BY <2>1, <2>3, <2>4
<1>18. CASE Crash
    <2>1. pc' = "idle"
        BY <1>0, <1>18, CrashDoes
    <2> QED  BY <1>18, <2>1, CrashRests DEF Shape
<1>19. ASSUME NEW n \in Names, Skip(n)
       PROVE  Shape'
    <2>1. pc' = "swap"
        BY <1>0, <1>19, SkipDoes
    <2> QED  BY <1>19, <2>1, SkipSwaps DEF Shape
<1>20. ASSUME NEW n \in Names, Displace(n)
       PROVE  Shape'
    <2>1. pc' = "in"
        BY <1>0, <1>20, DisplaceDoes
    <2> QED  BY <1>20, <2>1, DisplaceSwaps DEF Shape
<1>21. ASSUME NEW n \in Names, PutIn(n)
       PROVE  Shape'
    <2>1. pc' = "swap"
        BY <1>0, <1>21, PutInDoes
    <2> QED  BY <1>21, <2>1, PutInSwaps DEF Shape
<1>22. ASSUME NEW n \in Names, ClearLive(n) \/ PutBack(n)
       PROVE  Shape'
    <2>1. pc' = "rollback"
        BY <1>0, <1>22, ClearLiveDoes, PutBackDoes
    <2> QED  BY <1>22, <2>1, UndoGoesOn DEF Shape
<1> QED
    BY Steady, <1>1, <1>2, <1>3, <1>4, <1>5, <1>6, <1>7, <1>8, <1>9, <1>10, <1>11, <1>12, <1>13, <1>14, <1>15, <1>16, <1>17, <1>18, <1>19, <1>20, <1>21, <1>22

--------------------------------------------------------------------------------
(* The backup.                                                             *)

\* A backup that says its schema does so as long as its marker stays.
LEMMA BackupStays ==
    ASSUME area'[Backup].marker = area[Backup].marker, BackupOK,
           \A n \in Names : area'[Backup].files[n] \in {area[Backup].files[n], None}
    PROVE  BackupOK'
BY DEF BackupOK

\* What a swap has displaced stays fresh and its directory untouched.
LEMMA FreshStays ==
    ASSUME Good, NEW n \in Names, Displace(n) \/ PutIn(n)
    PROVE  /\ Fresh(run.moved) => Fresh(run.moved)'
           /\ Untouched(run.to) => Untouched(run.to)'
<1>1. CASE Displace(n)
    <2>1. /\ run'.to = run.to /\ run'.moved = run.moved \cup {n} /\ had' = had
          /\ \A m \in Names \ {n} : area'[run.to].files[m] = area[run.to].files[m]
        BY <1>1, DisplaceDoes DEF Good
    <2>2. /\ \A m \in had \ {n} : Old(m)' <=> Old(m)
          /\ n \in had => ~ Old(n)'
        BY <1>1, DisplacePlaces, HadNames
    <2> QED  BY <2>1, <2>2, HadNames DEF Fresh, Untouched
<1>2. CASE PutIn(n)
    <2>1. /\ run'.to = run.to /\ run'.moved = run.moved /\ had' = had
          /\ pc \in {"swap", "in"}
          /\ \A a \in Areas \ {Staging(run.step)} : area'[a] = area[a]
        BY <1>2, PutInDoes DEF Good
    <2>2. area'[run.to] = area[run.to] /\ run.to \in Areas
        BY <2>1, SwapPlaces DEF Swapping
    <2>3. \A m \in Names \ {n} : Old(m)' <=> Old(m)
        BY <1>2, <2>2, PutInPlaces
    <2>4. n \in had => ~ Old(n)' /\ ~ Old(n)
        BY <1>2, PutInPlaces, GoodNumbers DEF Old, Out
    <2> QED  BY <2>1, <2>2, <2>3, <2>4, HadNames DEF Fresh, Untouched
<1> QED
    BY <1>1, <1>2

\* The backup never comes to hold files of a schema it does not name.
LEMMA BackedKept == ASSUME Good PROVE Backed'
<1> USE DEF Resting, Copying, Swapping, Undoing, Over, Tidying, Later, Removing
<1>0. Typed /\ TypeOK /\ Backed /\ Faults \in {0, 1} /\ Faults' \in {0, 1}
    BY GoodNumbers DEF Good, Core
<1>a. Version \in Nat /\ Version <= Target /\ Target \in Nat /\ Target >= 1
    BY GoodNumbers
<1>b. Backup \in Areas
    BY Places
<1>c. ASSUME area'[Backup] = area[Backup]
      PROVE  BackupOK => BackupOK'
    BY <1>c DEF BackupOK
<1>1. CASE Import
    <2>1. pc = "idle" /\ pc' = "start" /\ area' = area /\ had' = had
        BY <1>0, <1>1, ImportDoes
    <2>2. BackupOK => BackupOK'
        BY <1>c, <2>1
    <2>3. CASE marker' = marker /\ Version' = Version
        <3>1. Ready' <=> Ready
            BY <2>1, <2>3 DEF Ready, Resumable
        <3> QED  BY <1>0, <2>1, <2>2, <2>3, <3>1 DEF Backed
    <2>4. CASE /\ marker = None /\ Version = 0 /\ Version' = Target
               /\ \A n \in Names : live[n] \in {None, Empty}
        <3>1. area[Backup].marker = None
            BY <1>0, <2>4 DEF Backed
        <3>2. ~ Ready'
            BY <1>a, <2>4 DEF Ready
        <3>3. \A n \in had : live'[n] \in {None, Empty}
            BY <1>0, <1>1, <2>4, ImportDoes, HadNames
        <3>4. \A n \in had : area[Backup].files[n] = 0
            <4>1. CASE Plain'
                BY <2>1, <2>4, <3>3, <4>1, Numbers DEF Plain
            <4>2. CASE Stamped'
                BY <2>1, <4>2 DEF Stamped
            <4> QED  BY <1>1, <3>2, <4>1, <4>2, ImportRests DEF Interrupted
        <3>5. \A n \in Names \ had : area[Backup].files[n] \in {None, Empty}
            BY <1>b DEF Good, Core, NeverThere
        <3>6. BackupOK'
            BY <2>1, <3>1, <3>4, <3>5 DEF BackupOK
        <3> QED  BY <1>a, <2>1, <2>4, <3>6 DEF Backed
    <2> QED  BY <1>0, <1>1, <2>3, <2>4, ImportDoes
<1>2. CASE Begin
    <2>1. /\ pc = "start" /\ UNCHANGED <<disk, had>> /\ area' = area /\ Version' = Version
          /\ \/ Version = Target /\ pc' = "discard"
             \/ pc' = "apply" /\ run'.first
             \/ pc' = "idle"
        BY <1>0, <1>2, BeginDoes DEF disk
    <2>2. BackupOK \/ (Version < Target /\ (~ Ready \/ ~ area[Scratch(Version + 1)].exists))
        BY <1>0, <2>1 DEF Backed
    <2>3. (BackupOK' <=> BackupOK) /\ (Ready' <=> Ready)
        BY <2>1, SameDisk
    <2> QED  BY <1>0, <1>a, <2>1, <2>2, <2>3 DEF Backed
<1>3. CASE Apply
    <2>1. /\ pc = "apply" /\ UNCHANGED <<disk, had>> /\ area' = area /\ Version' = Version
          /\ run'.to = IF (Resumable(run.step) /\ area[Scratch(run.step)].exists) \/ ~ run.first
                       THEN Scratch(run.step) ELSE Backup
          /\ \/ Resumable(run.step) /\ pc' = "mkdir"
             \/ pc' = "remove" /\ run'.then = "copy"
        BY <1>0, <1>3, ApplyDoes DEF disk
    <2>2. /\ run.step = Version + 1 /\ Version < Target
          /\ Scratch(Version + 1) # Backup
        BY <2>1, GoodNumbers, Places DEF Good, Core, StepInHand
    <2>3. run'.to = Backup \/ BackupOK
        <3>1. CASE ~ run.first
            BY <1>0, <2>1, <3>1 DEF Backed
        <3>2. CASE run.first /\ Resumable(run.step) /\ area[Scratch(run.step)].exists
            BY <1>0, <2>1, <2>2, <3>2 DEF Backed, Ready
        <3> QED  BY <2>1, <3>1, <3>2
    <2>4. pc' = "mkdir" /\ run'.to = Backup => ~ area[Scratch(Version + 1)].exists
        BY <2>1, <2>2
    <2>5. BackupOK' <=> BackupOK
        BY <2>1, SameDisk
    <2> QED  BY <1>0, <2>1, <2>3, <2>4, <2>5 DEF Backed
<1>4. CASE RemoveEntry
    <2>1. /\ pc = "remove" /\ UNCHANGED <<pc, run>> /\ Version' = Version
          /\ \A a \in Areas \ {run.rm} : area'[a] = area[a]
          /\ \A a \in Areas : area'[a].marker \in {area[a].marker, None}
        BY <1>0, <1>4, RemoveEntryDoes
    <2>2. run.rm # Backup \/ (Removing("mkdir") /\ run.to = Backup) \/ run.then \notin
             {"copy", "mkdir", "applied", "idle", "next", "discard"}
        BY <2>1, Places DEF Good, Core, Locals, Typed
    <2>3. run.then \in {"copy", "mkdir", "applied", "idle", "next", "discard"}
        BY <1>0, RunFields
    <2>4. run.rm # Backup => (BackupOK => BackupOK')
        BY <1>b, <1>c, <2>1
    <2>5. Version' = 0 => area'[Backup].marker = None
        BY <1>0, <1>b, <2>1 DEF Backed
    <2>6. CASE run.rm # Backup
        BY <1>0, <2>1, <2>4, <2>5, <2>6 DEF Backed
    <2>7. CASE Removing("mkdir") /\ run.to = Backup
        BY <1>0, <2>1, <2>5, <2>7 DEF Backed
    <2> QED  BY <2>2, <2>3, <2>6, <2>7
<1>5. CASE Removed
    <2>1. /\ pc = "remove" /\ Version' = Version /\ UNCHANGED <<live, marker, had>>
          /\ run.rm \in Areas /\ \A a \in Areas \ {run.rm} : area'[a] = area[a]
          /\ area'[run.rm] \in {area[run.rm], Gone}
        BY <1>0, <1>5, RemovedDoes
    <2>2. \/ Removing("idle") /\ pc' = "idle"
          \/ /\ pc' = run.then /\ run' = run
             /\ run.then \in {"copy", "mkdir", "applied", "next", "discard"}
        BY <1>0, <1>5, RemovedDoes
    <2>3. run.rm # Backup => (BackupOK => BackupOK')
        BY <1>b, <1>c, <2>1
    <2>4. Version' = 0 => area'[Backup].marker = None
        BY <1>0, <1>b, <2>1 DEF Backed, Gone
    <2>5. CASE Removing("idle") /\ pc' = "idle"
        <3>1. /\ run.rm = Staging(Version + 1) /\ Version < Target /\ Version + 1 \in Steps
              /\ Version + 1 # None /\ Removing("idle")
            BY <2>5, SwapPlaces, GoodNumbers, Numbers DEF Good, Core, Locals
        <3>2. area'[run.rm] = Gone
            BY <1>0, <1>5, <3>1, RemovedDoes DEF Good, Core, Shape
        <3>3. ~ Ready'
            BY <2>1, <3>1, <3>2 DEF Ready, Resumable, Gone
        <3> QED  BY <2>1, <2>4, <2>5, <3>1, <3>3 DEF Backed
    <2>6. CASE run.then = "copy" /\ pc' = "copy" /\ run' = run
        <3>1. run.rm # Backup
            BY <2>1, <2>6, Places DEF Good, Core, Locals, Typed
        <3> QED  BY <1>0, <2>1, <2>3, <2>4, <2>6, <3>1 DEF Backed
    <2>7. CASE run.then = "mkdir" /\ pc' = "mkdir" /\ run' = run
        <3>1. Copying /\ run.rm = run.to /\ run.moved = {} /\ Removing("mkdir")
            BY <2>1, <2>7 DEF Good, Core, Locals
        <3>2. run.to = Backup \/ BackupOK'
            BY <1>0, <2>3, <3>1 DEF Backed
        <3>3. ASSUME run.to = Backup
              PROVE  \/ ~ area'[Scratch(Version + 1)].exists
                     \/ (Faults = 1 /\ Fresh(run.moved) /\ Untouched(run.to))'
            <4>1. CASE Faults = 0
                <5>1. ~ area[Scratch(Version + 1)].exists
                    BY <3>1, <4>1 DEF Good, Core, Future
                <5>2. area'[Scratch(Version + 1)] = area[Scratch(Version + 1)]
                    BY <2>1, <3>1, <3>3, SwapPlaces
                <5> QED  BY <5>1, <5>2
            <4>2. CASE Faults = 1
                <5>1. Faults' = 1 /\ area'[Backup] = Gone
                    BY <1>0, <1>5, <3>1, <3>3, <4>2, RemovedDoes
                <5>2. Untouched(run.to)'
                    BY <2>1, <2>7, <3>3, <5>1, HadNames DEF Untouched, Gone, NoFiles
                <5>3. Fresh(run.moved)'
                    <6>1. area'[Staging(Version + 1)] = area[Staging(Version + 1)]
                        BY <2>1, <3>1, SwapPlaces
                    <6>2. Fresh({})
                        BY <3>1 DEF Good, Core, Shape
                    <6> QED  BY <2>1, <2>7, <3>1, <6>1, <6>2 DEF Fresh, Old, StagedFor
                <5> QED  BY <5>1, <5>2, <5>3
            <4> QED  BY <1>0, <4>1, <4>2
        <3> QED  BY <2>1, <2>4, <2>7, <3>2, <3>3 DEF Backed
    <2>8. CASE run.then \in {"applied", "next", "discard"} /\ pc' = run.then /\ run' = run
        <3>1. run.rm # Backup
            BY <2>1, <2>8, Places DEF Good, Core, Locals, Typed
        <3> QED  BY <1>0, <2>1, <2>3, <2>4, <2>8, <3>1 DEF Backed
    <2> QED  BY <2>2, <2>5, <2>6, <2>7, <2>8
<1>6. CASE Copy
    <2>1. Copying /\ Copying' /\ pc' \in {"convert", "mark", "remove"} /\ run'.to = run.to
          /\ (pc' = "remove" => run'.then = "mkdir")
        BY <1>0, <1>6, CopyDoes
    <2>2. area'[Backup] = area[Backup] /\ Version' = Version
        BY <1>0, <1>b, <1>6, <2>1, CopyDoes, SwapPlaces
    <2> QED  BY <1>0, <1>c, <2>1, <2>2 DEF Backed
<1>7. CASE Convert
    <2>1. Copying /\ Copying' /\ pc' \in {"convert", "mark", "remove"} /\ run'.to = run.to
          /\ (pc' = "remove" => run'.then = "mkdir")
        BY <1>0, <1>7, ConvertDoes
    <2>2. area'[Backup] = area[Backup] /\ Version' = Version
        BY <1>0, <1>b, <1>7, <2>1, ConvertDoes, SwapPlaces
    <2> QED  BY <1>0, <1>c, <2>1, <2>2 DEF Backed
<1>8. CASE Mark
    <2>1. Copying /\ Copying' /\ pc' \in {"convert", "mark", "remove"} /\ run'.to = run.to
          /\ (pc' = "remove" => run'.then = "mkdir")
        BY <1>0, <1>8, MarkDoes
    <2>2. area'[Backup] = area[Backup] /\ Version' = Version
        BY <1>0, <1>b, <1>8, <2>1, MarkDoes, SwapPlaces
    <2> QED  BY <1>0, <1>c, <2>1, <2>2 DEF Backed
<1>9. CASE StepFails
    <2>1. /\ Copying /\ pc' = "remove" /\ run'.then = "idle" /\ run'.to = run.to
          /\ UNCHANGED <<disk, had>> /\ area' = area
        BY <1>0, <1>9, StepFailsDoes DEF disk
    <2> QED  BY <1>0, <2>1, SameDisk DEF Backed
<1>10. CASE MakeDir
    <2>1. /\ pc = "mkdir" /\ pc' = "swap" /\ run'.to = run.to /\ run.to \in Areas
          /\ run'.moved = {} /\ run.moved = {} /\ had' = had /\ Version' = Version
          /\ Faults' = Faults
          /\ \A a \in Areas : area'[a].files = area[a].files /\ area'[a].marker = area[a].marker
          /\ \A a \in Areas \ {run.to} : area'[a] = area[a]
        BY <1>0, <1>10, MakeDirDoes DEF Good, Core, Locals
    <2>2. BackupOK => BackupOK'
        BY <1>b, <2>1, BackupStays
    <2>3. run.to = Backup => area'[Scratch(Version + 1)] = area[Scratch(Version + 1)]
        BY <2>1, SwapPlaces
    <2>4. /\ Fresh(run.moved) => Fresh(run.moved)'
          /\ Untouched(run.to) => Untouched(run.to)'
        BY <1>10, <2>1, StillPlaces DEF Fresh, Untouched
    <2> QED  BY <1>0, <1>b, <2>1, <2>2, <2>3, <2>4 DEF Backed
<1>11. CASE KeepMarker
    <2>1. /\ pc = "swap" /\ pc' = "commit" /\ run' = run /\ run.to \in Areas /\ run.todo = {}
          /\ had' = had /\ Version' = Version /\ Faults' = Faults /\ marker' = marker
          /\ \A a \in Areas : area'[a].files = area[a].files
          /\ \A a \in Areas \ {run.to} : area'[a] = area[a]
          /\ area'[run.to].marker = IF marker = None THEN area[run.to].marker ELSE marker
        BY <1>0, <1>11, KeepMarkerDoes
    <2>2. marker = None => Version = 0
        BY DEF Version
    <2>3. marker # None => Version = marker /\ Version # 0
        BY <1>0 DEF Version, TypeOK, Steps
    <2>4. Version' = 0 => area'[Backup].marker = None
        BY <1>0, <1>b, <2>1, <2>3 DEF Backed
    <2>5. BackupOK'
        <3>1. CASE run.to # Backup
            BY <1>0, <1>b, <1>c, <2>1, <3>1 DEF Backed
        <3>2. CASE run.to = Backup
            <4>1. \A n \in had : area[Backup].files[n] = Version
                BY <2>1, <3>2 DEF Good, Core, Shape, SwapShape, In
            <4>2. \A n \in Names \ had : area[Backup].files[n] \in {None, Empty}
                BY <1>b DEF Good, Core, NeverThere
            <4>3. Version = IF area'[Backup].marker = None THEN 0 ELSE area'[Backup].marker
                BY <1>0, <2>1, <2>2, <2>3, <3>2 DEF Backed
            <4> QED  BY <1>b, <2>1, <4>1, <4>2, <4>3 DEF BackupOK
        <3> QED  BY <3>1, <3>2
    <2>6. run.to = Backup => area'[Scratch(Version + 1)] = area[Scratch(Version + 1)]
        BY <2>1, SwapPlaces
    <2>7. /\ Fresh(run.moved) => Fresh(run.moved)'
          /\ Untouched(run.to) => Untouched(run.to)'
        BY <1>11, <2>1, StillPlaces DEF Fresh, Untouched
    <2> QED  BY <1>0, <2>1, <2>4, <2>5, <2>6, <2>7 DEF Backed
<1>12. CASE Commit
    <2>1. /\ pc = "commit" /\ pc' = "remove" /\ run'.then = "applied" /\ Version' = run.step
          /\ run.step \in Steps /\ \A a \in Areas \ {Staging(run.step)} : area'[a] = area[a]
        BY <1>0, <1>12, CommitDoes
    <2>2. area'[Backup] = area[Backup] /\ Version' # 0
        BY <1>b, <2>1, Places DEF Steps
    <2> QED  BY <1>0, <1>c, <2>1, <2>2 DEF Backed
<1>13. CASE Applied
    <2>1. /\ pc = "applied" /\ UNCHANGED <<disk, had>> /\ area' = area
          /\ pc' = "next" \/ (pc' = "remove" /\ run'.then = "next")
        BY <1>0, <1>13, AppliedDoes DEF disk
    <2> QED  BY <1>0, <2>1, SameDisk DEF Backed
<1>14. CASE NextStep
    <2>1. /\ pc = "next" /\ UNCHANGED <<disk, had>> /\ area' = area
          /\ pc' = "discard" \/ (pc' = "apply" /\ ~ run'.first)
        BY <1>0, <1>14, NextStepDoes DEF disk
    <2> QED  BY <1>0, <2>1, SameDisk DEF Backed
<1>15. CASE Discard
    <2>1. /\ pc = "discard" /\ UNCHANGED <<disk, had>> /\ area' = area
          /\ pc' = "idle" \/ (pc' = "remove" /\ run'.then = "discard")
        BY <1>0, <1>15, DiscardDoes DEF disk
    <2> QED  BY <1>0, <2>1, SameDisk DEF Backed
<1>16. CASE SwapFails
    <2>1. /\ Swapping /\ pc' = "rollback" /\ run'.to = run.to /\ UNCHANGED <<disk, had>>
          /\ area' = area
          /\ \/ Faults' = Faults + 1
             \/ pc = "swap" /\ \E n \in Names : Turn(n) /\ Staged(n) # None /\ Blocked(n)
        BY <1>0, <1>16, SwapFailsDoes DEF disk
    <2>2. run.to = Backup => ~ area[Scratch(Version + 1)].exists
        <3>1. CASE Faults' = Faults + 1
            BY <1>0, <2>1, <3>1 DEF Backed
        <3>2. ASSUME pc = "swap", NEW n \in Names, Turn(n), Staged(n) # None, Blocked(n),
                     Fresh(run.moved), Untouched(run.to)
              PROVE  FALSE
            <4>1. n \in had /\ Out(n, run.to) /\ live[n] = Empty
                BY <3>2, BlockedMeans
            <4>2. n \in run.moved
                BY <3>2, <4>1, GoodNumbers DEF Fresh, Old
            <4>3. n \in run.todo /\ run.todo \cap run.moved = {}
                BY <3>2 DEF Turn, Good, Core, Locals
            <4> QED  BY <4>2, <4>3
        <3> QED  BY <1>0, <2>1, <3>1, <3>2 DEF Backed
    <2> QED  BY <1>0, <2>1, <2>2, SameDisk DEF Backed
<1>17. CASE RolledBack
    <2>1. /\ pc = "rollback" /\ UNCHANGED <<disk, had>> /\ area' = area
          /\ \/ pc' = "idle"
             \/ pc' = "remove" /\ run'.then = "idle" /\ run'.to = run.to
        BY <1>0, <1>17, RolledBackDoes DEF disk
    <2>2. Version < Target
        BY <2>1, SwapPlaces
    <2> QED  BY <1>0, <2>1, <2>2, SameDisk DEF Backed
<1>18. CASE Crash
    <2>1. /\ pc' = "idle" /\ UNCHANGED <<disk, had>> /\ area' = area /\ Faults = 0
        BY <1>0, <1>18, CrashDoes, GoodNumbers DEF disk
    <2>2. BackupOK \/ (Version < Target /\ (~ Ready \/ ~ area[Scratch(Version + 1)].exists))
        <3>1. CASE Resting \/ pc = "apply" \/ Over \/ Tidying
            BY <1>0, <3>1 DEF Backed
        <3>2. CASE Copying
            <4>1. Version < Target
                BY <3>2, SwapPlaces
            <4>2. ~ area[Scratch(Version + 1)].exists
                BY <2>1, <3>2 DEF Good, Core, Future
            <4> QED  BY <4>1, <4>2
        <3>3. CASE Swapping
            BY <1>0, <2>1, <3>3, SwapPlaces DEF Backed
        <3>4. CASE Undoing
            BY <2>1, <3>4 DEF Good, Core, Shape, UndoShape
        <3> QED  BY <1>0, <3>1, <3>2, <3>3, <3>4, Stages
    <2> QED  BY <1>0, <2>1, <2>2, SameDisk DEF Backed
<1>19. ASSUME NEW n \in Names, Skip(n)
       PROVE  Backed'
    <2>1. /\ pc = "swap" /\ pc' = "swap" /\ run'.to = run.to /\ run'.moved = run.moved
          /\ UNCHANGED <<disk, had>> /\ area' = area /\ Faults' = Faults
        BY <1>0, <1>19, SkipDoes DEF disk
    <2> QED  BY <1>0, <2>1, SameDisk DEF Backed
<1>20. ASSUME NEW n \in Names, Displace(n)
       PROVE  Backed'
    <2>1. /\ pc = "swap" /\ pc' = "in" /\ run'.to = run.to /\ Version' = Version
          /\ Faults' = Faults
          /\ \A a \in Areas \ {run.to} : area'[a] = area[a]
          /\ \A a \in Areas : area'[a].marker = area[a].marker
        BY <1>0, <1>20, DisplaceDoes
    <2>2. run.to # Backup => area'[Backup] = area[Backup]
        BY <1>b, <2>1, SwapPlaces
    <2>3. run.to = Backup => area'[Scratch(Version + 1)] = area[Scratch(Version + 1)]
        BY <2>1, SwapPlaces
    <2>4. /\ Fresh(run.moved) => Fresh(run.moved)'
          /\ Untouched(run.to) => Untouched(run.to)'
        BY <1>20, FreshStays
    <2> QED  BY <1>0, <1>b, <1>c, <2>1, <2>2, <2>3, <2>4 DEF Backed
<1>21. ASSUME NEW n \in Names, PutIn(n)
       PROVE  Backed'
    <2>1. /\ pc \in {"swap", "in"} /\ pc' = "swap" /\ run'.to = run.to /\ Version' = Version
          /\ Faults' = Faults
          /\ \A a \in Areas \ {Staging(run.step)} : area'[a] = area[a]
          /\ \A a \in Areas : area'[a].marker = area[a].marker
        BY <1>0, <1>21, PutInDoes
    <2>2. run.to # Backup => area'[Backup] = area[Backup]
        BY <1>b, <2>1, SwapPlaces
    <2>3. run.to = Backup => area'[Scratch(Version + 1)] = area[Scratch(Version + 1)]
        BY <2>1, SwapPlaces
    <2>4. /\ Fresh(run.moved) => Fresh(run.moved)'
          /\ Untouched(run.to) => Untouched(run.to)'
        BY <1>21, FreshStays
    <2> QED  BY <1>0, <1>b, <1>c, <2>1, <2>2, <2>3, <2>4 DEF Backed
<1>22. ASSUME NEW n \in Names, ClearLive(n)
       PROVE  Backed'
    <2>1. pc = "rollback" /\ pc' = "rollback" /\ area' = area /\ run' = run /\ Version' = Version
        BY <1>0, <1>22, ClearLiveDoes
    <2> QED  BY <1>0, <1>c, <2>1 DEF Backed
<1>23. ASSUME NEW n \in Names, PutBack(n)
       PROVE  Backed'
    <2>1. /\ pc = "rollback" /\ pc' = "rollback" /\ run'.to = run.to /\ Version' = Version
          /\ \A a \in Areas \ {run.to} : area'[a] = area[a]
          /\ \A a \in Areas : area'[a].marker = area[a].marker
        BY <1>0, <1>23, PutBackDoes
    <2>2. run.to # Backup => area'[Backup] = area[Backup]
        BY <1>b, <2>1
    <2>3. run.to = Backup => area'[Scratch(Version + 1)] = area[Scratch(Version + 1)]
        BY <2>1, SwapPlaces
    <2> QED  BY <1>0, <1>b, <1>c, <2>1, <2>2, <2>3 DEF Backed
<1> QED
    BY Steady, <1>1, <1>2, <1>3, <1>4, <1>5, <1>6, <1>7, <1>8, <1>9, <1>10, <1>11, <1>12, <1>13, <1>14, <1>15, <1>16, <1>17, <1>18, <1>19, <1>20, <1>21, <1>22, <1>23

--------------------------------------------------------------------------------
(* The invariant holds at first and at every step.                         *)

\* What an initial state looks like.
LEMMA InitLooks ==
    ASSUME Init
    PROVE  /\ \A n \in Names : live[n] = IF n \in had THEN Version ELSE None
           /\ \A r \in Steps : area[Staging(r)] = Gone /\ area[Scratch(r)] = Gone
           /\ area[Backup].marker \in {None} \cup Steps
           /\ \A n \in Names :
                 \/ area[Backup].files[n] = None
                 \/ /\ n \in had
                    /\ area[Backup].files[n] =
                          IF area[Backup].marker = None THEN 0 ELSE area[Backup].marker
           /\ Version = 0 => area[Backup].marker = None
           /\ had \subseteq Names
<1>1. PICK origin \in Origins :
         /\ live = [n \in Names |-> IF n \in had THEN origin ELSE None]
         /\ marker = IF origin = 0 THEN None ELSE origin
         /\ \E old \in {Gone} \cup
               (IF origin = 0 \/ ~ OldBackup THEN {}
                ELSE {[exists |-> TRUE, marker |-> IF origin = 1 THEN None ELSE origin - 1,
                       files |-> [n \in Names |-> IF n \in had THEN origin - 1 ELSE None]]}) :
               area = [a \in Areas |-> IF a = Backup THEN old ELSE Gone]
    BY DEF Init
<1>2. PICK old \in {Gone} \cup
               (IF origin = 0 \/ ~ OldBackup THEN {}
                ELSE {[exists |-> TRUE, marker |-> IF origin = 1 THEN None ELSE origin - 1,
                       files |-> [n \in Names |-> IF n \in had THEN origin - 1 ELSE None]]}) :
               area = [a \in Areas |-> IF a = Backup THEN old ELSE Gone]
    BY <1>1
<1>3. origin \in 0 .. Target /\ origin \in Nat /\ had \subseteq Names
    BY StartsAreStates, Numbers DEF Init
<1>4. Version = origin
    BY <1>1, <1>3, Numbers DEF Version
<1>5. area[Backup] = old /\ \A r \in Steps : area[Staging(r)] = Gone /\ area[Scratch(r)] = Gone
    BY <1>2, Places
<1>6. CASE old = Gone
    <2>1. old.marker = None /\ \A n \in Names : old.files[n] = None
        BY <1>6 DEF Gone, NoFiles
    <2>2. \A n \in Names : area[Backup].files[n] = None
        BY <1>5, <1>6, <2>1
    <2>3. area[Backup].marker = None
        BY <1>5, <1>6, <2>1
    <2>4. \A n \in Names : live[n] = IF n \in had THEN Version ELSE None
        BY <1>1, <1>4
    <2> QED  BY <1>3, <1>5, <2>2, <2>3, <2>4
<1>7. CASE old # Gone
    <2>1. /\ origin # 0
          /\ old = [exists |-> TRUE, marker |-> IF origin = 1 THEN None ELSE origin - 1,
                    files |-> [n \in Names |-> IF n \in had THEN origin - 1 ELSE None]]
        BY <1>2, <1>7
    <2>2. /\ old.marker = IF origin = 1 THEN None ELSE origin - 1
          /\ \A n \in Names : old.files[n] = IF n \in had THEN origin - 1 ELSE None
        BY <2>1
    <2>3. /\ origin = 1 => old.marker = None /\ origin - 1 = 0
          /\ origin # 1 => old.marker = origin - 1 /\ origin - 1 \in Steps /\ origin - 1 # None
        BY <1>3, <2>1, <2>2, Numbers DEF Steps
    <2>4. old.marker \in {None} \cup Steps
        BY <2>3
    <2>5. (IF old.marker = None THEN 0 ELSE old.marker) = origin - 1
        BY <2>3
    <2>6. \A n \in Names : live[n] = IF n \in had THEN Version ELSE None
        BY <1>1, <1>4
    <2>7. \A n \in Names : \/ area[Backup].files[n] = None
                           \/ /\ n \in had
                              /\ area[Backup].files[n] =
                                    IF area[Backup].marker = None THEN 0 ELSE area[Backup].marker
        BY <1>5, <2>2, <2>5
    <2> QED  BY <1>3, <1>4, <1>5, <2>1, <2>4, <2>6, <2>7
<1> QED
    BY <1>6, <1>7

LEMMA InitCore == Init => Core
<1> SUFFICES ASSUME Init PROVE Core
    OBVIOUS
<1>1. pc = "idle" /\ run = Idle /\ outcome = "none" /\ Typed
    BY InitTyped DEF Init
<1>2. /\ \A r \in Steps : area[Staging(r)].files = NoFiles /\ area[Staging(r)].marker = None
      /\ \A r \in Steps : area[Scratch(r)].files = NoFiles /\ area[Scratch(r)].exists = FALSE
    BY InitLooks DEF Gone
<1>3. Version \in 0 .. Target /\ Version \in Nat /\ 1 \in Steps
    BY <1>1, VersionType, Numbers DEF Typed, Steps
<1>4. StepInHand /\ Locals
    BY <1>1 DEF StepInHand, Locals, Copying, Swapping, Undoing, Over, Tidying, Later, Removing
<1>5. NeverThere
    <2>1. ASSUME NEW n \in Names \ had, NEW a \in Areas
          PROVE  area[a].files[n] = None
        <3>1. CASE a = Backup
            BY <2>1, <3>1, InitLooks
        <3>2. CASE a # Backup
            BY <1>2, <2>1, <3>2, Places DEF NoFiles
        <3> QED  BY <3>1, <3>2
    <2> QED  BY <2>1, InitLooks DEF NeverThere
<1>6. StagedFiles
    BY <1>2 DEF StagedFiles, NoFiles
<1>7. Future
    BY <1>1, <1>2, <1>3, InitLooks
    DEF Future, Unborn, Over, Later, Copying, Swapping, Removing
<1>8. Plain /\ Unready
    <2>1. Plain
        BY InitLooks DEF Plain
    <2>2. Unready
        BY <1>2, <1>3, Numbers DEF Unready, Resumable, Steps
    <2> QED  BY <2>1, <2>2
<1>9. Shape
    BY <1>1, <1>8 DEF Shape, Resting, Copying, Swapping, Undoing, Over, Tidying, Removing
<1>10. BackupOK
    BY InitLooks DEF BackupOK
<1>11. Backed
    BY <1>1, <1>10, InitLooks
    DEF Backed, Resting, Copying, Swapping, Undoing, Over, Tidying, Later, Removing
<1>12. Ends
    BY <1>1 DEF Ends
<1> QED
    BY <1>4, <1>5, <1>6, <1>7, <1>9, <1>11, <1>12 DEF Core

LEMMA InitIInv == Init => IInv
BY InitTyped, InitCore DEF IInv, Tried, Init, Idle

\* Faults are never taken back.
LEMMA FaultsOnlyGrow == Typed /\ Next /\ OneFault' => OneFault
<1> SUFFICES ASSUME Typed, Next, OneFault' PROVE OneFault
    OBVIOUS
<1>1. crashes \in Nat /\ errors \in Nat
    BY BoundsAreNaturals DEF Typed, TypeOK
<1>2. \/ UNCHANGED <<crashes, errors>>
      \/ crashes' = crashes /\ errors' = errors + 1
      \/ crashes' = crashes + 1 /\ errors' = errors
    BY DEF Next, Engine, Import, Begin, Apply, RemoveEntry, Removed, Copy, Convert, Mark, StepFails,
           MakeDir, KeepMarker, Commit, Applied, NextStep, Discard, SwapFails, RolledBack, Skip,
           Displace, PutIn, ClearLive, PutBack, PutBackFails, Crash, UserRestores, Error
<1>3. \A a, b \in Nat : a + b + 1 <= 1 => a + b <= 1
    OBVIOUS
<1>4. \A a, b \in Nat : a + (b + 1) = a + b + 1 /\ (a + 1) + b = a + b + 1
    OBVIOUS
<1>5. crashes' + errors' = crashes + errors \/ crashes' + errors' = crashes + errors + 1
    BY <1>1, <1>2, <1>4
<1>6. crashes' + errors' <= 1
    BY DEF OneFault
<1> QED
    BY <1>1, <1>3, <1>5, <1>6 DEF OneFault

\* A stutter keeps the invariant.
LEMMA StutterCore == ASSUME UNCHANGED vars, Core PROVE Core'
<1>1. /\ UNCHANGED <<live, marker, area, pc, run, outcome, had, crashes, errors>>
      /\ UNCHANGED <<disk, had>> /\ Faults' = Faults
    BY DEF vars, disk, ghosts, Faults
<1>2. Version' = Version /\ Displaced' = Displaced
    BY <1>1, SameDisk
<1> USE DEF Core, Resting, Copying, Swapping, Undoing, Over, Tidying, Later, Removing
<1>3. StepInHand'
    BY <1>1, <1>2 DEF StepInHand
<1>4. Locals'
    BY <1>1, <1>2 DEF Locals, Turn
<1>5. NeverThere' /\ StagedFiles'
    BY <1>1 DEF NeverThere, StagedFiles
<1>6. Future'
    BY <1>1, <1>2 DEF Future, Unborn
<1>7. Interrupted' <=> Interrupted
    BY <1>1, <1>2, SameDisk DEF Interrupted
<1>8. Resumed' <=> Resumed
    BY <1>1, <1>2, SameDisk DEF Resumed
<1>9. SwapShape' <=> SwapShape
    BY <1>1, <1>2, <1>8, SameDisk DEF SwapShape
<1>10. UndoShape' <=> UndoShape
    BY <1>1, <1>2, <1>7, SameDisk DEF UndoShape
<1>11. \A n : StagedFor(n)' = StagedFor(n)
    BY <1>1, <1>2 DEF StagedFor
<1>12. Shape'
    BY <1>1, <1>2, <1>7, <1>9, <1>10, <1>11, SameDisk DEF Shape
<1>13. Backed'
    BY <1>1, <1>2, SameDisk DEF Backed
<1>14. Ends'
    BY <1>1, <1>2 DEF Ends
<1> QED
    BY <1>3, <1>4, <1>5, <1>6, <1>12, <1>13, <1>14

\* The clean-up removes one directory after the other, each of them once; only a call that
\* fails leaves one it has been at.
LEMMA TriedKept == ASSUME Typed, Tried, Next PROVE Tried'
<1> USE DEF Tidying, Removing
<1>0. TypeOK /\ run \in Run /\ errors \in Nat /\ run.tried \subseteq Areas
    BY RunFields, BoundsAreNaturals DEF Typed, TypeOK
<1>1. ASSUME run'.tried = {} PROVE Tried'
    BY <1>1 DEF Tried
<1>2. CASE pc \notin {"idle", "discard", "remove"} \/ (pc = "remove" /\ run.then # "discard")
    <2>1. run.tried = {}
        BY <1>2 DEF Tried
    <2>2. run'.tried \in {run.tried, {}}
        <3>1. Idle.tried = {} /\ \A t, b : /\ [Idle EXCEPT !.step = t].tried = {}
                                         /\ [Idle EXCEPT !.step = t, !.first = b].tried = {}
            BY DEF Idle
        <3>2. CASE Begin \/ Apply
            <4>1. CASE Begin
                BY <3>1, <4>1 DEF Begin, Goto, End
            <4>2. CASE Apply
                <5>1. \E d \in {Backup, Scratch(run.step)} :
                         \/ run' = [run EXCEPT !.to = d]
                         \/ run' = [[run EXCEPT !.to = d] EXCEPT !.rm = Staging(run.step),
                                                               !.then = "copy"]
                    BY <4>2 DEF Apply, Goto, Remove
                <5> QED  BY <1>0, <5>1 DEF Run
            <4> QED  BY <3>2, <4>1, <4>2
        <3>3. CASE RemoveEntry \/ Removed
            BY <1>0, <3>1, <3>3 DEF RemoveEntry, Removed, Goto, End, Run
        <3>4. CASE Copy \/ Convert \/ Mark \/ StepFails
            BY <1>0, <3>1, <3>4 DEF Copy, Convert, Mark, StepFails, Goto, End, Remove, Run
        <3>5. CASE MakeDir \/ KeepMarker \/ Commit \/ Applied \/ NextStep
            BY <1>0, <3>1, <3>5
               DEF MakeDir, KeepMarker, Commit, Applied, NextStep, Goto, End, Remove, Run
        <3>6. CASE SwapFails \/ RolledBack
            BY <1>0, <3>1, <3>6 DEF SwapFails, RolledBack, Goto, End, Remove, Run
        <3>7. ASSUME NEW n \in Names, Skip(n) \/ Displace(n) \/ PutIn(n)
              PROVE  run'.tried = run.tried
            BY <1>0, <3>7 DEF Skip, Displace, PutIn, Goto, Run
        <3>8. ASSUME NEW n \in Names, ClearLive(n) \/ PutBack(n) \/ PutBackFails(n)
              PROVE  run'.tried = run.tried
            BY <1>0, <3>8 DEF ClearLive, PutBack, PutBackFails, Run
        <3>9. CASE Crash
            BY <3>1, <3>9 DEF Crash, Goto, End
        <3> QED
            BY <1>2, <3>2, <3>3, <3>4, <3>5, <3>6, <3>7, <3>8, <3>9
               DEF Next, Engine, Import, Discard, UserRestores
    <2> QED  BY <1>1, <2>1, <2>2
<1>3. CASE pc = "idle"
    <2>1. CASE Import
        <3>1. run' = Idle
            BY <2>1 DEF Import, Goto
        <3> QED  BY <1>1, <3>1 DEF Idle
    <2>2. CASE UserRestores
        <3>1. run' = run /\ pc' = pc /\ errors' = errors
            BY <2>2 DEF UserRestores
        <3>2. \A a \in Areas : area'[a].exists = area[a].exists
            BY <1>0, <2>2 DEF UserRestores, TypeOK, Area
        <3> QED  BY <1>0, <1>3, <3>1, <3>2 DEF Tried
    <2>3. Engine => Import
        <3>1. ~ (Begin \/ Apply \/ RemoveEntry \/ Removed \/ Copy \/ Convert \/ Mark \/ StepFails)
            BY <1>3 DEF Begin, Apply, RemoveEntry, Removed, Copy, Convert, Mark, StepFails
        <3>2. ~ (MakeDir \/ KeepMarker \/ Commit \/ Applied \/ NextStep \/ Discard)
            BY <1>3 DEF MakeDir, KeepMarker, Commit, Applied, NextStep, Discard
        <3>3. ~ (SwapFails \/ RolledBack)
            BY <1>3 DEF SwapFails, RolledBack
        <3>4. ASSUME NEW n \in Names
              PROVE  ~ (Skip(n) \/ Displace(n) \/ PutIn(n) \/ ClearLive(n) \/ PutBack(n)
                        \/ PutBackFails(n))
            BY <1>3 DEF Skip, Displace, PutIn, ClearLive, PutBack, PutBackFails
        <3> QED
            BY <3>1, <3>2, <3>3, <3>4 DEF Engine
    <2> QED
        BY <1>3, <2>1, <2>2, <2>3 DEF Next, Crash
<1>4. CASE pc = "remove" /\ run.then = "discard"
    <2>1. CASE RemoveEntry
        <3>1. run' = run /\ pc' = pc /\ errors' = errors
            BY <2>1 DEF RemoveEntry
        <3>2. \A a \in Areas : area'[a].exists = area[a].exists
            <4>1. run.rm \in Areas /\ area \in [Areas -> Area]
                BY <1>0, RunFields DEF TypeOK
            <4>2. \/ \E n \in Names : area' = [area EXCEPT ![run.rm].files[n] = None]
                  \/ area' = [area EXCEPT ![run.rm].marker = None]
                BY <2>1 DEF RemoveEntry
            <4>3. ASSUME NEW n \in Names, area' = [area EXCEPT ![run.rm].files[n] = None]
                  PROVE  \A a \in Areas : area'[a].exists = area[a].exists
                <5>1. \A a \in Areas : area[a] \in Area
                    BY <4>1
                <5>2. area'[run.rm] = [area[run.rm] EXCEPT !.files[n] = None]
                    BY <4>1, <4>3
                <5>3. area'[run.rm].exists = area[run.rm].exists
                    BY <4>1, <5>1, <5>2 DEF Area
                <5> QED  BY <4>1, <4>3, <5>3
            <4>4. ASSUME area' = [area EXCEPT ![run.rm].marker = None]
                  PROVE  \A a \in Areas : area'[a].exists = area[a].exists
                BY <4>1, <4>4 DEF Area
            <4> QED  BY <4>2, <4>3, <4>4
        <3> QED  BY <1>0, <1>4, <3>1, <3>2 DEF Tried
    <2>2. CASE Removed
        <3>1. run' = run /\ pc' = "discard"
            BY <1>4, <2>2 DEF Removed, Goto
        <3>2. CASE area' = [area EXCEPT ![run.rm] = Gone] /\ errors' = errors
            <4>1. \A a \in Areas : area'[a].exists => a # run.rm /\ area[a].exists
                BY <1>0, <3>2 DEF TypeOK, Gone
            <4> QED  BY <1>0, <1>4, <3>1, <3>2, <4>1 DEF Tried
        <3>3. CASE area' = area /\ errors' = errors + 1
            BY <1>0, <3>1, <3>3 DEF Tried
        <3> QED  BY <2>2, <3>2, <3>3 DEF Removed, Error
    <2>3. CASE Crash
        <3>1. run' = Idle
            BY <2>3 DEF Crash, End, Goto
        <3> QED  BY <1>1, <3>1 DEF Idle
    <2> QED
        BY <1>4, <2>1, <2>2, <2>3
           DEF Next, Engine, Import, Begin, Apply, Copy, Convert, Mark, StepFails,
               MakeDir, KeepMarker, Commit, Applied, NextStep, Discard, SwapFails, RolledBack,
               Skip, Displace, PutIn, ClearLive, PutBack, PutBackFails, UserRestores
<1>5. CASE pc = "discard"
    <2>1. CASE Discard
        <3>1. ASSUME NEW a \in Spent,
                     Remove(a, "discard", [run EXCEPT !.tried = @ \cup {a}])
              PROVE  Tried'
            <4>1. /\ run' = [[run EXCEPT !.tried = @ \cup {a}] EXCEPT !.rm = a, !.then = "discard"]
                  /\ pc' = "remove" /\ area' = area /\ errors' = errors
                BY <2>1, <3>1 DEF Remove, Goto, Discard, disk
            <4>2. run'.tried = run.tried \cup {a} /\ run'.rm = a /\ run'.then = "discard"
                BY <1>0, <4>1 DEF Run
            <4> QED  BY <1>5, <4>1, <4>2 DEF Tried
        <3>2. ASSUME pc' = "idle", run' = [Idle EXCEPT !.tried = run.tried]
              PROVE  Tried'
            <4>1. run'.tried = run.tried /\ area' = area /\ errors' = errors
                BY <2>1, <3>2 DEF Idle, Discard, disk
            <4> QED  BY <1>5, <3>2, <4>1 DEF Tried
        <3> QED  BY <2>1, <3>1, <3>2 DEF Discard, Goto
    <2>2. CASE Crash
        <3>1. run' = Idle
            BY <2>2 DEF Crash, End, Goto
        <3> QED  BY <1>1, <3>1 DEF Idle
    <2> QED
        BY <1>5, <2>1, <2>2
           DEF Next, Engine, Import, Begin, Apply, RemoveEntry, Removed, Copy, Convert, Mark,
               StepFails, MakeDir, KeepMarker, Commit, Applied, NextStep, SwapFails, RolledBack,
               Skip, Displace, PutIn, ClearLive, PutBack, PutBackFails, UserRestores
<1> QED
    BY <1>2, <1>3, <1>4, <1>5

LEMMA NextIInv == IInv /\ [Next]_vars => IInv'
<1> SUFFICES ASSUME IInv, [Next]_vars PROVE IInv'
    OBVIOUS
<1>1. Typed'
    BY NextTyped DEF IInv
<1>2. ASSUME OneFault', UNCHANGED vars
      PROVE  Core'
    <2>1. OneFault
        BY <1>2 DEF OneFault, vars
    <2> QED  BY <1>2, <2>1, StutterCore DEF IInv
<1>3. ASSUME OneFault', Next
      PROVE  Core'
    <2>1. OneFault
        BY <1>3, FaultsOnlyGrow DEF IInv
    <2>2. Good
        BY <1>3, <2>1 DEF IInv, Good
    <2>3. StepInHand'
        BY <2>2, StepInHandKept DEF Good, Core
    <2>4. Locals'
        BY <2>2, LocalsKept DEF Good, Core, Future
    <2> QED
        BY <2>2, <2>3, <2>4, NeverThereKept, StagedFilesKept, FutureKept,
           ShapeKept, BackedKept, EndsKept
        DEF Core
<1>4. Tried'
    <2>1. CASE UNCHANGED vars
        BY <2>1 DEF IInv, Tried, Tidying, Removing, vars, disk
    <2> QED  BY <2>1, TriedKept DEF IInv
<1> QED
    BY <1>1, <1>2, <1>3, <1>4 DEF IInv

\* The invariant holds in every state of every behaviour.
LEMMA Invariant == Spec => []IInv
BY InitIInv, NextIInv, PTL DEF Spec

--------------------------------------------------------------------------------
(* What the invariant says of the data.                                    *)

\* Every state is at one of these stages.
LEMMA EveryStage ==
    ASSUME Typed, Core
    PROVE  \/ (Plain \/ Stamped)
           \/ Interrupted
           \/ Ready /\ Fresh({})
           \/ Swapping /\ SwapShape
           \/ pc = "rollback" /\ UndoShape /\ run.moved # {}
<1>1. TypeOK /\ Shape
    BY DEF Typed, Core
<1> USE DEF Resting, Copying, Swapping, Undoing, Over, Tidying, Removing
<1>2. CASE Resting \/ pc = "apply"
    BY <1>1, <1>2 DEF Shape
<1>3. CASE Copying
    BY <1>1, <1>3 DEF Shape
<1>4. CASE Swapping \/ Over \/ Tidying
    BY <1>1, <1>4 DEF Shape
<1>5. CASE Undoing
    BY <1>1, <1>5 DEF Shape, UndoShape
<1> QED
    BY <1>1, <1>2, <1>3, <1>4, <1>5, Stages

\* Where a run that is interrupted displaces to is an area.
LEMMA DisplacedIsArea == ASSUME Typed, Ready PROVE Displaced \in Areas
BY Bounds, Places DEF Typed, Ready, Displaced

\* A name at its place in the swap.
LEMMA PlacesOfAName ==
    ASSUME Typed, Ready, NEW d \in Areas, NEW n, Old(n) \/ Out(n, d) \/ In(n, d)
    PROVE  /\ live[n] \in (Version .. Target) \cup {Empty, None}
           /\ live[n] \notin {None, Empty} \/ area[d].files[n] \notin {None, Empty}
<1>1. Version \in Nat /\ Version + 1 \in Version .. Target /\ Version \in Version .. Target
    BY Bounds, Numbers DEF Typed, Ready
<1>2. Version \notin {None, Empty} /\ Version + 1 \notin {None, Empty}
    BY Bounds DEF Typed
<1> QED
    BY <1>1, <1>2 DEF Old, Out, In

LEMMA NotAhead == IInv => MarkerNotAhead
<1> SUFFICES ASSUME IInv, OneFault, NEW n \in had
             PROVE  live[n] \in (Version .. Target) \cup {Empty, None}
    BY DEF MarkerNotAhead
<1>1. Typed /\ TypeOK /\ Core
    BY DEF IInv, Typed
<1>2. Version \in Nat /\ Version \in Version .. Target /\ Target \in Nat
    BY <1>1, Bounds, Numbers
<1>3. CASE Plain \/ Stamped
    BY <1>2, <1>3 DEF Plain, Stamped
<1>4. CASE Interrupted
    BY <1>1, <1>4, DisplacedIsArea, PlacesOfAName DEF Interrupted, Between
<1>5. CASE Ready /\ Fresh({})
    BY <1>1, <1>5, DisplacedIsArea, PlacesOfAName DEF Fresh
<1>6. CASE SwapShape
    BY <1>1, <1>6, RunFields, PlacesOfAName DEF SwapShape, Between
<1>7. CASE pc = "rollback" /\ UndoShape /\ run.moved # {}
    <2>1. Version + 1 \in Version .. Target
        BY <1>1, <1>2, <1>7 DEF Core, StepInHand, Undoing
    <2> QED  BY <1>2, <1>7, <2>1 DEF UndoShape
<1> QED
    BY <1>1, <1>3, <1>4, <1>5, <1>6, <1>7, EveryStage

LEMMA StillThere == IInv => NothingLost
<1> SUFFICES ASSUME IInv, OneFault, NEW n \in had,
                    \A a \in Areas : area[a].files[n] \in {None, Empty}
             PROVE  live[n] \notin {None, Empty}
    BY DEF NothingLost
<1>1. Typed /\ TypeOK /\ Core
    BY DEF IInv, Typed
<1>2. Version \notin {None, Empty} /\ Backup \in Areas /\ run.to \in Areas /\ 0 \notin {None, Empty}
    BY <1>1, Bounds, Places, RunFields, Numbers
<1>3. CASE Plain \/ Stamped
    BY <1>2, <1>3 DEF Plain, Stamped
<1>4. CASE Interrupted
    BY <1>1, <1>4, DisplacedIsArea, PlacesOfAName DEF Interrupted, Between
<1>5. CASE Ready /\ Fresh({})
    BY <1>2, <1>5 DEF Fresh, Old
<1>6. CASE SwapShape
    BY <1>1, <1>2, <1>6, PlacesOfAName DEF SwapShape, Between
<1>7. CASE pc = "rollback" /\ UndoShape /\ run.moved # {}
    BY <1>2, <1>7 DEF UndoShape
<1> QED
    BY <1>1, <1>3, <1>4, <1>5, <1>6, <1>7, EveryStage

LEMMA OnlyOwnInput == IInv => NeverItsOwnOutput
<1> SUFFICES ASSUME IInv, OneFault, NEW r \in Steps, NEW n \in Names
             PROVE  area[Staging(r)].files[n] # Bad
    BY DEF NeverItsOwnOutput
<1>1. area[Staging(r)].files[n] \in {r - 1, r, Empty, None}
    BY DEF IInv, Core, StagedFiles
<1>2. r \in Nat /\ r - 1 \in Nat
    BY Numbers DEF Steps
<1> QED
    BY <1>1, <1>2, Numbers

LEMMA EndsClean == IInv => CleanEnd
<1> SUFFICES ASSUME IInv, outcome = "ok", OneFault
             PROVE  /\ \A a \in Areas \ {Backup} : area[a].exists => a \in run.tried /\ errors = 1
                    /\ BackupOK
    BY DEF CleanEnd, BackupOK
<1>1. Ends /\ Backed /\ Tried /\ Target \in Nat
    BY Numbers DEF IInv, Core
<1>2. pc = "idle" /\ Version = Target
    BY <1>1 DEF Ends
<1>3. errors # 0 => errors = 1
    BY BoundsAreNaturals DEF IInv, Typed, TypeOK, OneFault
<1>4. \A a \in Areas \ {Backup} : area[a].exists => a \in run.tried /\ errors = 1
    BY <1>1, <1>2, <1>3 DEF Ends, Tried, Removing
<1> QED
    BY <1>1, <1>2, <1>4 DEF Backed, Resting

\* "The one ordering that cannot leave the marker ahead of the data"
\* (__init__.py:436-441): with at most one fault, what is live is in the schema the
\* marker names or a later one, at every call of the swap, of its rollback and of
\* the runs after it.
THEOREM MarkerIsNeverAhead == Spec => []MarkerNotAhead
BY Invariant, NotAhead, PTL

\* "The engine guarantees it is never handed its own output" (__init__.py:67-69):
\* with at most one fault, no step is run on files of a version it was not written
\* for, however often it is redone.
THEOREM StepsSeeOneVersion == Spec => []NeverItsOwnOutput
BY Invariant, OnlyOwnInput, PTL

\* A name the state started with is in the state directory or in one of the working
\* directories of the engine, whatever single call fails or interrupts a run
\* (__init__.py:270-277, 306-311).
THEOREM NoNameIsLost == Spec => []NothingLost
BY Invariant, StillThere, PTL

\* A run that ends well has removed every working directory, or has tried to and a call
\* has failed, and the marker in the backup names the schema its files are in
\* (__init__.py:247-257).
THEOREM SuccessIsClean == Spec => []CleanEnd
BY Invariant, EndsClean, PTL

--------------------------------------------------------------------------------
(* The engine implements StateDir.                                         *)

\* A state of more than one name.
Several == \A n \in Names : had # {n}

\* Nothing changes what the state started with.
LEMMA HadIsFixed == Next => had' = had
BY DEF Next, Engine, Import, Begin, Apply, RemoveEntry, Removed, Copy, Convert, Mark, StepFails,
       MakeDir, KeepMarker, Commit, Applied, NextStep, Discard, SwapFails, RolledBack, Skip,
       Displace, PutIn, ClearLive, PutBack, PutBackFails, Crash, UserRestores, ghosts

\* Only a commit and the stamp of a state that looks new write the marker.
LEMMA OnlyTwoWriteTheMarker == ASSUME Good, ~ Commit, ~ Import PROVE Version' = Version
<1>1. marker' = marker
    BY Steady DEF Begin, Apply, RemoveEntry, Removed, Copy, Convert, Mark, StepFails, MakeDir,
       KeepMarker, Applied, NextStep, Discard, SwapFails, RolledBack, Skip, Displace, PutIn,
       ClearLive, PutBack, Crash, disk
<1> QED
    BY <1>1 DEF Version

\* A state of more than one name never looks new.
LEMMA NeverStamped ==
    ASSUME Good, Several, had # {}, Import
    PROVE  Version' = Version
<1>1. /\ Typed /\ TypeOK /\ Shape /\ pc = "idle" /\ Target # 0
      /\ Version \notin {None, Empty} /\ Version + 1 \notin {None, Empty}
    BY GoodNumbers DEF Good, Core, Import
<1>2. \A n \in had : n \in Names
    BY HadNames
<1>3. SUFFICES ASSUME marker = None, \A n \in Names : live[n] \in {None, Empty}
               PROVE  FALSE
    <2>1. marker' = marker \/ (marker = None /\ \A n \in Names : live[n] \in {None, Empty})
        BY DEF Import
    <2> QED  BY <1>3, <2>1 DEF Version
<1>4. CASE Plain
    BY <1>1, <1>2, <1>3, <1>4 DEF Plain
<1>5. CASE Stamped
    BY <1>1, <1>3, <1>5 DEF Stamped, Version
<1>6. CASE Interrupted
    <2>1. \A n \in had : Out(n, Displaced)
        BY <1>1, <1>2, <1>3, <1>6 DEF Interrupted, Between, Old, In
    <2>2. \A m, n \in had : m = n
        BY <1>6, <2>1 DEF Interrupted, OneOut
    <2>3. PICK n \in had : TRUE
        OBVIOUS
    <2>4. had = {n}
        BY <2>2
    <2> QED  BY <1>2, <2>4 DEF Several
<1> QED
    BY <1>1, <1>4, <1>5, <1>6 DEF Shape, Resting

\* A step of the engine is a step of StateDir or leaves it where it is.
LEMMA StepRefines ==
    ASSUME IInv, Several, [Next]_vars
    PROVE  [had # {} /\ OneFault' => Promise!StateDirNext]_<<Version, Mixed>>
<1> SUFFICES ASSUME had # {}, OneFault', ~ UNCHANGED <<Version, Mixed>>
             PROVE  Promise!StateDirNext
    OBVIOUS
<1>1. Next
    <2>1. ASSUME UNCHANGED vars
          PROVE  UNCHANGED <<Version, Mixed>>
        BY <2>1 DEF vars, disk, ghosts, Version, Mixed
    <2> QED  BY <2>1
<1>2. Good
    BY <1>1, FaultsOnlyGrow DEF IInv, Good
<1>3. Mixed \in BOOLEAN /\ Mixed' \in BOOLEAN
    BY DEF Mixed
<1>4. CASE Version' = Version
    BY <1>3, <1>4 DEF Promise!StateDirNext, Promise!BeginSwap, Promise!UndoSwap
<1>5. CASE Commit
    <2>1. /\ pc = "commit" /\ UNCHANGED <<live, had>> /\ Version' = run.step
        BY <1>2, <1>5, CommitDoes DEF Good
    <2>2. run.step = Version + 1 /\ run.todo = {} /\ SwapShape
        BY <1>2, <2>1 DEF Good, Core, StepInHand, Locals, Shape, Swapping
    <2>3. \A n \in had : live[n] = Version + 1
        BY <2>1, <2>2 DEF SwapShape, In
    <2>4. Version + 1 # Version
        BY <1>2, GoodNumbers
    <2>5. Mixed = TRUE /\ Mixed' = FALSE
        BY <2>1, <2>2, <2>3, <2>4 DEF Mixed
    <2> QED  BY <2>1, <2>2, <2>5 DEF Promise!StateDirNext, Promise!CommitStep
<1>6. CASE Import
    BY <1>2, <1>4, <1>6, NeverStamped
<1> QED
    BY <1>2, <1>4, <1>5, <1>6, OnlyTwoWriteTheMarker

\* The engine takes the state directory from one schema to the next, or back, and
\* never past one, whatever single call fails or interrupts it (__init__.py:436-441);
\* but for a state of one name, which a command after a crash can take for a new one.
THEOREM ImplementsStateDir ==
    ASSUME \A S \in Starts, n \in Names : S # {n}
    PROVE  Spec => StepsAsPromised
<1>1. Init => Several
    BY DEF Init, Several
<1>2. Several /\ [Next]_vars => Several'
    <2>1. UNCHANGED vars => had' = had
        BY DEF vars, ghosts
    <2> QED  BY <2>1, HadIsFixed DEF Several
<1>3. Spec => []Several
    BY <1>1, <1>2, PTL DEF Spec
<1>4. IInv /\ Several /\ [Next]_vars
        => [had # {} /\ OneFault' => Promise!StateDirNext]_<<Version, Mixed>>
    BY StepRefines
<1> QED
    BY <1>3, <1>4, Invariant, PTL DEF Spec, StepsAsPromised

--------------------------------------------------------------------------------
(* NoSilentLoss: what holds after any number of faults of one kind.         *)

\* The run's locals, and the directory that the first step never displaces to.
Course == StepInHand /\ Locals /\ ~ area[Scratch(1)].exists

\* A swap works from a marked staging copy, which holds nothing of the names it is
\* through with.
Covered ==
    /\ Removing("mkdir") \/ Swapping \/ pc = "rollback" => Ready
    /\ pc \in {"swap", "in", "commit"} => \A n \in Names \ run.todo : StagedFor(n) = None
    /\ pc = "in" => StagedFor(run.cur) # None

\* The content of a name is in the state directory; or it is where a rollback finds it.
Full(n) == live[n] \notin {None, Empty}
SetBy(n) == area[run.to].files[n] \notin {None, Empty}

\* After calls that failed: a name is live, but for the moment it is on its way in or back.
Live(n) == Full(n) \/ (pc = "in" /\ n = run.cur) \/ (pc = "rollback" /\ n \in run.todo)

\* After runs that died: it is live, or the next run will put it in.  A folder goes last,
\* and a run that finds it gone has put nothing else in.
LiveOrNext(n) ==
    \/ Full(n)
    \/ /\ Ready /\ StagedFor(n) # None
       /\ pc \in {"idle", "start", "apply", "mkdir", "swap", "in", "rollback"}
       /\ n \notin Folders => live[n] = None /\ pc # "rollback"
       /\ n \in Folders =>
             /\ \A m \in Names \ Folders : StagedFor(m) = None
             /\ pc \in {"swap", "rollback"} => run.moved = {}

\* Where a name is that no error message has spoken of.
Safe(n) ==
    /\ \A r \in Steps : area[Staging(r)].files[n] # Empty
    /\ pc \in {"swap", "in", "commit"} /\ n \in run.moved /\ (crashes = 0 \/ n \notin Folders)
          => SetBy(n)
    /\ pc = "rollback" /\ n \in run.todo => SetBy(n)
    /\ crashes = 0 => Live(n)
    /\ errors = 0 => LiveOrNext(n)
Accounted == crashes = 0 \/ errors = 0 => \A n \in had \ stranded : Safe(n)

\* While no call has failed nothing is stranded, and no rollback puts a folder back.
Unstranded == errors = 0 => stranded = {} /\ (pc = "rollback" => run.todo \cap Folders = {})

LossInv == Typed /\ Course /\ Covered /\ Unstranded /\ Accounted

\* A state of a file and a folder, or of nothing.
FileAndFolder == had = {} \/ (had \cap Folders # {} /\ had \ Folders # {})

\* A step from a state in which the invariant holds.
OnCourse == LossInv /\ FileAndFolder /\ Next

\* The step under way, and its directories.
LEMMA OnCoursePlaces ==
    ASSUME Typed, Course
    PROVE  /\ TypeOK /\ run \in Run /\ Version \in Nat /\ Target \in Nat
           /\ Version < Target => /\ Version + 1 \in Steps /\ Staging(Version + 1) \in Areas
                                  /\ Staging(Version + 1) # Backup
           /\ \A r \in Steps : /\ Staging(r) \in Areas /\ Staging(r) # Backup
                               /\ \A q \in Steps : /\ Staging(r) # Scratch(q)
                                                   /\ q # r => Staging(r) # Staging(q)
           /\ pc = "apply" \/ Copying \/ Swapping \/ Undoing =>
                 run.step = Version + 1 /\ Version < Target /\ run.step \in Steps
           /\ Copying \/ Swapping \/ Undoing \/ Over =>
                 run.to \in Areas /\ run.step \in Steps /\ \A r \in Steps : run.to # Staging(r)
           /\ Over => run.step = Version
<1>1. TypeOK /\ run \in Run /\ Version \in Nat /\ Target \in Nat
    BY Bounds, RunFields, Numbers DEF Typed
<1>2. Version < Target => Version + 1 \in Steps
    BY <1>1, Bounds
<1>3. pc = "apply" \/ Copying \/ Swapping \/ Undoing => run.step = Version + 1 /\ Version < Target
    BY DEF Course, StepInHand
<1>4. Over \/ Copying \/ Swapping \/ Undoing => run.step \in Steps
    BY DEF Typed, Over, Copying, Swapping, Undoing, Removing
<1>5. Copying \/ Swapping \/ Undoing \/ Over => run.to = Backup \/ run.to = Scratch(run.step)
    BY DEF Course, Locals
<1>6. Copying \/ Swapping \/ Undoing \/ Over =>
         run.to \in Areas /\ \A r \in Steps : run.to # Staging(r)
    BY <1>4, <1>5, Places
<1>7. Over => run.step = Version
    BY DEF Course, StepInHand
<1> QED
    BY <1>1, <1>2, <1>3, <1>4, <1>6, <1>7, Places

\* What is kept of the faults, and of what was said.
LEMMA FaultsAndWords ==
    ASSUME Typed, Next
    PROVE  /\ had' = had /\ stranded \subseteq stranded'
           /\ crashes \in Nat /\ errors \in Nat /\ crashes' \in Nat /\ errors' \in Nat
           /\ crashes' = 0 => crashes = 0 /\ ~ Crash
           /\ errors' = 0 => /\ errors = 0 /\ stranded' = stranded /\ ~ StepFails
                             /\ \A n \in Names : ~ PutBackFails(n)
                             /\ Removed => area'[run.rm] = Gone
                             /\ SwapFails =>
                                   pc = "swap" /\ \E n \in Names : Turn(n) /\ Staged(n) # None
                                                                   /\ Blocked(n)
<1>1. crashes \in Nat /\ errors \in Nat /\ TypeOK /\ run.rm \in Areas
    BY BoundsAreNaturals, RunFields DEF Typed, TypeOK
<1>2. had' = had
    BY HadIsFixed
<1>3. \/ UNCHANGED <<crashes, errors>>
      \/ crashes' = crashes /\ errors' = errors + 1
      \/ crashes' = crashes + 1 /\ errors' = errors
    BY DEF Next, Engine, Import, Begin, Apply, RemoveEntry, Removed, Copy, Convert, Mark, StepFails,
           MakeDir, KeepMarker, Commit, Applied, NextStep, Discard, SwapFails, RolledBack, Skip,
           Displace, PutIn, ClearLive, PutBack, PutBackFails, Crash, UserRestores, Error
<1>4. ASSUME \A n \in Names : ~ PutBackFails(n)
      PROVE  stranded' = stranded
    BY <1>4 DEF Next, Engine, Import, Begin, Apply, RemoveEntry, Removed, Copy, Convert, Mark,
           StepFails, MakeDir, KeepMarker, Commit, Applied, NextStep, Discard, SwapFails, RolledBack,
           Skip, Displace, PutIn, ClearLive, PutBack, Crash, UserRestores, ghosts
<1>5. ASSUME NEW n \in Names, PutBackFails(n)
      PROVE  errors' = errors + 1 /\ stranded \subseteq stranded'
    BY <1>5 DEF PutBackFails, Error
<1>6. Crash => crashes' = crashes + 1
    BY DEF Crash
<1>7. StepFails => errors' = errors + 1
    BY DEF StepFails, Error
<1>8. Removed => area'[run.rm] = Gone \/ errors' = errors + 1
    BY <1>1 DEF Removed, Error, TypeOK
<1>9. SwapFails => \/ errors' = errors + 1
                   \/ pc = "swap" /\ \E n \in Names : Turn(n) /\ Staged(n) # None /\ Blocked(n)
    BY DEF SwapFails, Error
<1>10. \A k \in Nat : k + 1 # 0 /\ (k + 1) \in Nat
    OBVIOUS
<1> QED
    BY <1>1, <1>2, <1>3, <1>4, <1>5, <1>6, <1>7, <1>8, <1>9, <1>10

\* The first step's scratch directory is never made.
LEMMA CourseKept == ASSUME Typed, Course, Next PROVE Course'
<1>0. Typed /\ TypeOK /\ StepInHand /\ Locals /\ 1 \in Steps /\ Scratch(1) \in Areas
      /\ \A r \in Steps : Scratch(1) # Staging(r) /\ (r # 1 => Scratch(1) # Scratch(r))
      /\ Scratch(1) # Backup
    BY Numbers, Places DEF Typed, Course, Steps
<1>1. StepInHand' /\ Locals'
    BY StepInHandKept, LocalsKept DEF Course
<1>2. SUFFICES ASSUME area'[Scratch(1)].exists
               PROVE  area[Scratch(1)].exists
    BY <1>1 DEF Course
<1>3. ASSUME area' = area
      PROVE  area[Scratch(1)].exists
    BY <1>2, <1>3
<1>4. CASE Import \/ Begin \/ Apply \/ StepFails \/ Applied \/ NextStep \/ Discard \/ SwapFails
           \/ RolledBack \/ Crash
    BY <1>3, <1>4 DEF Import, Begin, Apply, StepFails, Applied, NextStep, Discard, SwapFails,
                      RolledBack, Crash, disk
<1>5. CASE RemoveEntry
    BY <1>0, <1>2, <1>5, RemoveEntryDoes
<1>6. CASE Removed
    BY <1>0, <1>2, <1>6, RemovedDoes DEF Gone
<1>7. CASE Copy \/ Convert \/ Mark \/ Commit
    BY <1>0, <1>2, <1>7, CopyDoes, ConvertDoes, MarkDoes, CommitDoes
<1>8. CASE MakeDir
    <2>1. pc = "mkdir" /\ run.step \in Steps
        BY <1>8 DEF MakeDir, Typed
    <2>2. run.to # Scratch(1)
        BY <1>0, <2>1 DEF Locals, Swapping
    <2> QED  BY <1>0, <1>2, <1>8, <2>2, MakeDirDoes
<1>9. CASE KeepMarker
    BY <1>0, <1>2, <1>9, KeepMarkerDoes
<1>10. ASSUME NEW n \in Names, Skip(n) \/ ClearLive(n) \/ PutBackFails(n)
       PROVE  area[Scratch(1)].exists
    BY <1>3, <1>10 DEF Skip, ClearLive, PutBackFails, disk
<1>11. ASSUME NEW n \in Names, Displace(n) \/ PutIn(n) \/ PutBack(n)
       PROVE  area[Scratch(1)].exists
    BY <1>0, <1>2, <1>11, DisplaceDoes, PutInDoes, PutBackDoes
<1>12. CASE UserRestores
    BY <1>0, <1>2, <1>12, UserRestoresDoes
<1> QED
    BY <1>4, <1>5, <1>6, <1>7, <1>8, <1>9, <1>10, <1>11, <1>12 DEF Next, Engine

\* A swap goes on from the staging copy its step marked.
LEMMA CoveredKept == ASSUME Typed, Course, Covered, Next PROVE Covered'
<1> USE DEF Removing, Swapping
<1>0. Typed /\ TypeOK /\ Covered /\ run \in Run
    BY OnCoursePlaces
<1>a. Swapping \/ pc = "rollback" \/ Removing("mkdir") \/ pc = "mark" =>
         /\ run.step = Version + 1 /\ Version < Target /\ run.step \in Steps
         /\ run.to \in Areas /\ Staging(run.step) \in Areas /\ run.to # Staging(run.step)
    BY OnCoursePlaces DEF Copying, Undoing
<1>b. Removing("mkdir") => run.rm = run.to
    BY DEF Course, Locals
\* A step that leaves this staging copy alone.
<1>c. ASSUME Ready, Version' = Version, area'[Staging(Version + 1)] = area[Staging(Version + 1)]
      PROVE  Ready' /\ \A n : StagedFor(n)' = StagedFor(n)
    BY <1>c DEF Ready, Resumable, StagedFor
<1>1. ASSUME pc' \notin {"mkdir", "swap", "in", "commit", "rollback"},
             ~ (pc' = "remove" /\ run'.then = "mkdir")
      PROVE  Covered'
    BY <1>1 DEF Covered
<1>2. CASE Apply
    <2>1. pc = "apply" /\ Version' = Version /\ area' = area /\ run.step = Version + 1
          /\ Version < Target
        BY <1>0, <1>2, ApplyDoes, OnCoursePlaces DEF disk
    <2>2. \/ pc' = "mkdir" /\ Resumable(run.step)
          \/ pc' = "remove" /\ run'.then = "copy"
        BY <1>0, <1>2, ApplyDoes
    <2>3. CASE pc' = "mkdir"
        <3>1. Ready'
            BY <2>1, <2>2, <2>3 DEF Ready, Resumable
        <3> QED  BY <2>3, <3>1 DEF Covered
    <2> QED  BY <1>1, <2>2, <2>3
<1>3. CASE RemoveEntry
    <2>1. /\ pc = "remove" /\ pc' = "remove" /\ run' = run /\ Version' = Version
          /\ \A a \in Areas \ {run.rm} : area'[a] = area[a]
        BY <1>0, <1>3, RemoveEntryDoes
    <2>2. Removing("mkdir") => Ready'
        BY <1>a, <1>b, <1>c, <2>1, OnCoursePlaces DEF Covered
    <2> QED  BY <2>1, <2>2 DEF Covered
<1>4. CASE Removed
    <2>1. /\ pc = "remove" /\ Version' = Version
          /\ \A a \in Areas \ {run.rm} : area'[a] = area[a]
          /\ pc' = "idle" \/ (pc' = run.then /\ run.then \in {"copy", "mkdir", "applied", "next", "discard"})
        BY <1>0, <1>4, RemovedDoes
    <2>2. CASE pc' = "mkdir"
        <3>1. Removing("mkdir")
            BY <2>1, <2>2
        <3>2. Ready'
            BY <1>a, <1>b, <1>c, <2>1, <3>1 DEF Covered
        <3> QED  BY <2>2, <3>2 DEF Covered
    <2> QED  BY <1>1, <2>1, <2>2
<1>5. CASE Mark
    <2>1. /\ pc = "mark" /\ pc' = "remove" /\ Version' = Version
          /\ area'[Staging(run.step)].marker = run.step
        BY <1>0, <1>5, MarkDoes
    <2>2. Ready'
        BY <1>a, <2>1 DEF Ready, Resumable
    <2> QED  BY <2>1, <2>2 DEF Covered
<1>6. CASE MakeDir
    <2>1. /\ pc = "mkdir" /\ pc' = "swap" /\ Version' = Version /\ run'.todo = Names
          /\ \A a \in Areas \ {run.to} : area'[a] = area[a]
        BY <1>0, <1>6, MakeDirDoes
    <2>2. Ready'
        BY <1>a, <1>c, <2>1 DEF Covered
    <2> QED  BY <2>1, <2>2 DEF Covered
<1>7. CASE KeepMarker
    <2>1. /\ pc = "swap" /\ pc' = "commit" /\ Version' = Version /\ run' = run
          /\ \A a \in Areas \ {run.to} : area'[a] = area[a]
        BY <1>0, <1>7, KeepMarkerDoes
    <2>2. Ready' /\ \A n : StagedFor(n)' = StagedFor(n)
        BY <1>a, <1>c, <2>1 DEF Covered
    <2> QED  BY <2>1, <2>2 DEF Covered
<1>8. CASE SwapFails
    <2>1. /\ Swapping /\ pc' = "rollback" /\ Version' = Version /\ area' = area
        BY <1>0, <1>8, SwapFailsDoes DEF disk
    <2>2. Ready'
        BY <1>a, <1>c, <2>1 DEF Covered
    <2> QED  BY <2>1, <2>2 DEF Covered
<1>9. ASSUME NEW n \in Names, Skip(n)
      PROVE  Covered'
    <2>1. /\ pc = "swap" /\ pc' = "swap" /\ Version' = Version /\ area' = area
          /\ Staged(n) = None /\ run'.todo = run.todo \ {n}
        BY <1>0, <1>9, SkipDoes DEF disk
    <2>2. Ready' /\ \A m : StagedFor(m)' = StagedFor(m)
        BY <1>a, <1>c, <2>1 DEF Covered
    <2>3. StagedFor(n) = None
        BY <1>a, <2>1 DEF Staged, StagedFor
    <2>4. \A m \in Names \ run'.todo : StagedFor(m)' = None
        BY <2>1, <2>2, <2>3 DEF Covered
    <2> QED  BY <2>1, <2>2, <2>4 DEF Covered
<1>10. ASSUME NEW n \in Names, Displace(n)
       PROVE  Covered'
    <2>1. /\ pc = "swap" /\ pc' = "in" /\ Version' = Version
          /\ \A a \in Areas \ {run.to} : area'[a] = area[a]
          /\ Staged(n) # None /\ run'.todo = run.todo /\ run'.cur = n
        BY <1>0, <1>10, DisplaceDoes
    <2>2. Ready' /\ \A m : StagedFor(m)' = StagedFor(m)
        BY <1>a, <1>c, <2>1 DEF Covered
    <2>3. StagedFor(n) # None
        BY <1>a, <2>1 DEF Staged, StagedFor
    <2> QED  BY <2>1, <2>2, <2>3 DEF Covered
<1>11. ASSUME NEW n \in Names, PutIn(n)
       PROVE  Covered'
    <2>1. /\ pc \in {"swap", "in"} /\ pc' = "swap" /\ Version' = Version
          /\ run'.todo = run.todo \ {n}
          /\ area'[Staging(run.step)].marker = area[Staging(run.step)].marker
          /\ area'[Staging(run.step)].files[n] = None
          /\ \A m \in Names \ {n} :
                area'[Staging(run.step)].files[m] = area[Staging(run.step)].files[m]
        BY <1>0, <1>11, PutInDoes
    <2>2. Ready'
        BY <1>a, <2>1 DEF Covered, Ready, Resumable
    <2>3. \A m \in Names \ run'.todo : StagedFor(m)' = None
        BY <1>a, <2>1 DEF Covered, StagedFor
    <2> QED  BY <2>1, <2>2, <2>3 DEF Covered
<1>12. ASSUME NEW n \in Names, ClearLive(n) \/ PutBack(n) \/ PutBackFails(n)
       PROVE  Covered'
    <2>1. /\ pc = "rollback" /\ pc' = "rollback" /\ Version' = Version
          /\ \A a \in Areas \ {run.to} : area'[a] = area[a]
        BY <1>0, <1>12, ClearLiveDoes, PutBackDoes, PutBackFailsDoes DEF disk
    <2>2. Ready'
        BY <1>a, <1>c, <2>1 DEF Covered
    <2> QED  BY <2>1, <2>2 DEF Covered
<1>13. CASE \/ Import \/ Begin \/ Copy \/ Convert \/ StepFails \/ Commit \/ Applied \/ NextStep
            \/ Discard \/ RolledBack \/ Crash \/ UserRestores
    <2>1. /\ pc' \notin {"mkdir", "swap", "in", "commit", "rollback"}
          /\ ~ (pc' = "remove" /\ run'.then = "mkdir")
        BY <1>0, <1>13, ImportDoes, BeginDoes, CopyDoes, ConvertDoes, StepFailsDoes, CommitDoes,
           AppliedDoes, NextStepDoes, DiscardDoes, RolledBackDoes, CrashDoes, UserRestoresDoes
    <2> QED  BY <1>1, <2>1
<1> QED
    BY <1>2, <1>3, <1>4, <1>5, <1>6, <1>7, <1>8, <1>9, <1>10, <1>11, <1>12, <1>13 DEF Next, Engine

\* While no call fails, a swap fails only at a folder that is in its way, and that is the
\* only folder there is.
LEMMA UnstrandedKept == ASSUME Typed, Course, Unstranded, Next PROVE Unstranded'
<1> SUFFICES ASSUME errors' = 0
             PROVE  stranded' = {} /\ (pc' = "rollback" => run'.todo \cap Folders = {})
    BY DEF Unstranded
<1>1. errors = 0 /\ stranded' = {} /\ Typed /\ TypeOK
    BY FaultsAndWords DEF Unstranded, Typed
<1>2. SUFFICES ASSUME pc' = "rollback" PROVE run'.todo \cap Folders = {}
    BY <1>1
<1>3. CASE pc = "rollback"
    <2>1. run'.todo \subseteq run.todo
        <3>1. ASSUME NEW n \in Names, ClearLive(n) \/ PutBack(n)
              PROVE  run'.todo \subseteq run.todo
            BY <1>1, <3>1, ClearLiveDoes, PutBackDoes
        <3>2. ASSUME NEW n \in Names
              PROVE  ~ Skip(n) /\ ~ Displace(n) /\ ~ PutIn(n) /\ ~ PutBackFails(n)
            BY <1>1, <1>3, FaultsAndWords DEF Skip, Displace, PutIn
        <3>3. \/ RolledBack \/ Crash
              \/ \E n \in Names : ClearLive(n) \/ PutBack(n)
            BY <1>3, <3>2 DEF Next, Engine, Import, Begin, Apply, RemoveEntry, Removed, Copy, Convert,
               Mark, StepFails, MakeDir, KeepMarker, Commit, Applied, NextStep, Discard, SwapFails,
               UserRestores
        <3>4. ~ RolledBack /\ ~ Crash
            BY <1>1, <1>2, RolledBackDoes, CrashDoes
        <3> QED  BY <3>1, <3>3, <3>4
    <2> QED  BY <1>1, <1>3, <2>1 DEF Unstranded
<1>4. CASE pc # "rollback"
    <2>1. SwapFails
        <3>1. \A n \in Names : ~ Skip(n) /\ ~ Displace(n) /\ ~ PutIn(n)
            BY <1>1, <1>2, SkipDoes, DisplaceDoes, PutInDoes
        <3>2. \A n \in Names : ~ ClearLive(n) /\ ~ PutBack(n) /\ ~ PutBackFails(n)
            BY <1>4 DEF ClearLive, PutBack, PutBackFails
        <3>3. ~ (\/ Import \/ Begin \/ Apply \/ RemoveEntry \/ Removed \/ Copy \/ Convert \/ Mark
                 \/ StepFails \/ MakeDir \/ KeepMarker \/ Commit)
            BY <1>1, <1>2, ImportDoes, BeginDoes, ApplyDoes, RemoveEntryDoes, RemovedDoes, CopyDoes,
               ConvertDoes, MarkDoes, StepFailsDoes, MakeDirDoes, KeepMarkerDoes, CommitDoes
        <3>4. ~ (\/ Applied \/ NextStep \/ Discard \/ RolledBack \/ Crash \/ UserRestores)
            BY <1>1, <1>2, AppliedDoes, NextStepDoes, DiscardDoes, RolledBackDoes, CrashDoes,
               UserRestoresDoes
        <3> QED  BY <3>1, <3>2, <3>3, <3>4 DEF Next, Engine
    <2>2. PICK q \in Names : pc = "swap" /\ Turn(q) /\ Blocked(q)
        BY <1>1, <2>1, FaultsAndWords
    <2>3. q \in Folders /\ q \in run.todo
        BY <2>2 DEF Turn, Blocked
    <2>4. q \notin run.moved
        BY <2>2, <2>3 DEF Course, Locals
    <2>5. run'.todo = run.moved
        BY <1>1, <2>1, SwapFailsDoes
    <2> QED  BY <2>3, <2>4, <2>5, OneFolder
<1> QED
    BY <1>3, <1>4

(***************************************************************************)
(* Every step leaves the names accounted for.                              *)
(***************************************************************************)

\* A step after which all faults are still of one kind, and a name not spoken of.
Watching(n) ==
    OnCourse /\ (crashes' = 0 \/ errors' = 0) /\ n \in had' \ stranded'

\* What a lemma about one step starts from.
LEMMA WatchedIsSafe ==
    ASSUME NEW n, Watching(n)
    PROVE  /\ n \in Names /\ n \in had /\ n \notin stranded /\ Safe(n)
           /\ Typed /\ TypeOK /\ Course /\ Covered /\ Next
           /\ crashes' = 0 => crashes = 0
           /\ errors' = 0 => errors = 0
           /\ \A m \in had : errors = 0 => m \in Names /\ Safe(m)
           /\ None # Empty
<1>1. Typed /\ Course /\ Covered /\ Unstranded /\ Accounted /\ Next /\ TypeOK
    BY DEF Watching, OnCourse, LossInv, Typed
<1>2. /\ had' = had /\ stranded \subseteq stranded'
      /\ crashes' = 0 => crashes = 0
      /\ errors' = 0 => errors = 0
    BY <1>1, FaultsAndWords
<1>3. had \subseteq Names /\ n \in had \ stranded
    BY <1>1, <1>2 DEF TypeOK, Watching
<1>4. crashes = 0 \/ errors = 0
    BY <1>2 DEF Watching
<1>5. Safe(n)
    BY <1>1, <1>3, <1>4 DEF Accounted
<1>6. ASSUME NEW m \in had, errors = 0
      PROVE  m \in Names /\ Safe(m)
    BY <1>1, <1>3, <1>6 DEF Unstranded, Accounted
<1> QED
    BY <1>1, <1>2, <1>3, <1>5, <1>6, Numbers

\* Outside a swap and its rollback, and once a run is past its check of the staging copy,
\* the name is live.
LEMMA WatchedIsFull ==
    ASSUME NEW n, Watching(n)
    PROVE  /\ pc \notin {"idle", "start", "apply", "mkdir", "swap", "in", "rollback"} => Full(n)
           /\ crashes' = 0 /\ pc \notin {"in", "rollback"} => Full(n)
BY WatchedIsSafe DEF Watching, Safe, Live, LiveOrNext

\* A step outside the swap that leaves the name live and puts nothing new in staging.
LEMMA StaysFull ==
    ASSUME NEW n, Watching(n), Full(n), live'[n] = live[n],
           \A r \in Steps : area'[Staging(r)].files[n] \in {area[Staging(r)].files[n], None},
           pc' \notin {"swap", "in", "commit", "rollback"}
    PROVE  Safe(n)'
<1>1. Safe(n) /\ None # Empty
    BY WatchedIsSafe
<1>2. Full(n)'
    BY DEF Full
<1> QED
    BY <1>1, <1>2 DEF Safe, Live, LiveOrNext

\* A step that leaves the disk as it is.
LEMMA StaysSafe ==
    ASSUME NEW n, Watching(n), UNCHANGED disk, pc' \in {"idle", "start", "apply", "mkdir"},
           pc \in {"idle", "start", "apply", "mkdir", "swap", "in", "rollback"},
           crashes' = 0 => Full(n)
    PROVE  Safe(n)'
<1>1. Safe(n) /\ (errors' = 0 => errors = 0)
    BY WatchedIsSafe
<1>2. live' = live /\ area' = area /\ Version' = Version
    BY DEF disk, Version
<1>3. /\ Full(n)' <=> Full(n)
      /\ Ready' <=> Ready
      /\ \A m : StagedFor(m)' = StagedFor(m)
    BY <1>2 DEF Full, Ready, Resumable, StagedFor
<1>4. LiveOrNext(n) => LiveOrNext(n)'
    BY <1>2, <1>3 DEF LiveOrNext
<1> QED
    BY <1>1, <1>2, <1>3, <1>4 DEF Safe, Live

\* The steps of a run outside its swap.
LEMMA PrepareSafe ==
    ASSUME NEW n, Watching(n),
           \/ RemoveEntry \/ Removed \/ Copy \/ Convert \/ Mark \/ StepFails
           \/ Commit \/ Applied \/ NextStep \/ Discard
    PROVE  Safe(n)'
<1>0. n \in Names /\ Safe(n) /\ Typed /\ TypeOK /\ Course /\ None # Empty
    BY WatchedIsSafe
<1>a. \A r, q \in Steps : /\ Staging(r) \in Areas
                          /\ (q # r => Staging(r) # Staging(q))
    BY Places
<1>b. live[n] \notin {None, Empty} <=> Full(n)
    BY DEF Full
<1>1. CASE RemoveEntry
    <2>1. /\ pc = "remove" /\ pc' = "remove" /\ live' = live
          /\ \A r \in Steps : area'[Staging(r)].files[n] \in {area[Staging(r)].files[n], None}
        BY <1>0, <1>1, <1>a, RemoveEntryDoes
    <2> QED  BY <2>1, WatchedIsFull, StaysFull
<1>2. CASE Removed
    <2>1. /\ pc = "remove" /\ live' = live
          /\ pc' \in {"idle", "copy", "mkdir", "applied", "next", "discard"}
        BY <1>0, <1>2, RemovedDoes
    <2>2. Gone.files[n] = None
        BY <1>0 DEF Gone, NoFiles
    <2>3. \A r \in Steps : area'[Staging(r)].files[n] \in {area[Staging(r)].files[n], None}
        BY <1>0, <1>2, <1>a, <2>2, RemovedDoes
    <2> QED  BY <2>1, <2>3, WatchedIsFull, StaysFull
<1>3. CASE Copy
    <2>1. /\ pc = "copy" /\ pc' = "convert" /\ live' = live /\ run.step \in Steps
          /\ \A r \in Steps \ {run.step} : area'[Staging(r)] = area[Staging(r)]
          /\ area'[Staging(run.step)].files[n] = live[n]
        BY <1>0, <1>3, <1>a, CopyDoes
    <2>2. Full(n) /\ Full(n)'
        BY <2>1, WatchedIsFull DEF Full
    <2>3. \A r \in Steps : area'[Staging(r)].files[n] # Empty
        BY <1>0, <1>b, <2>1, <2>2 DEF Safe
    <2> QED  BY <1>0, <2>1, <2>2, <2>3 DEF Safe, Live, LiveOrNext
<1>4. CASE Convert
    <2>1. /\ pc = "convert" /\ pc' = "mark" /\ live' = live /\ run.step \in Steps
          /\ \A r \in Steps \ {run.step} : area'[Staging(r)] = area[Staging(r)]
          /\ \/ area'[Staging(run.step)].files[n] = area[Staging(run.step)].files[n]
             \/ area'[Staging(run.step)].files[n] \in {run.step, Bad}
        BY <1>0, <1>4, <1>a, ConvertDoes
    <2>2. Full(n) /\ Full(n)'
        BY <2>1, WatchedIsFull DEF Full
    <2>3. run.step # Empty /\ Bad # Empty
        BY <2>1, Numbers
    <2>4. \A r \in Steps : area'[Staging(r)].files[n] # Empty
        BY <1>0, <2>1, <2>3 DEF Safe
    <2> QED  BY <1>0, <2>1, <2>2, <2>4 DEF Safe, Live, LiveOrNext
<1>5. CASE Mark
    <2>1. /\ pc = "mark" /\ pc' = "remove" /\ live' = live
          /\ \A r \in Steps : area'[Staging(r)].files = area[Staging(r)].files
        BY <1>0, <1>5, <1>a, MarkDoes
    <2> QED  BY <2>1, WatchedIsFull, StaysFull
<1>6. CASE StepFails
    <2>1. /\ pc \in {"copy", "convert", "mark"} /\ pc' = "remove" /\ live' = live /\ area' = area
        BY <1>0, <1>6, StepFailsDoes DEF disk
    <2> QED  BY <2>1, WatchedIsFull, StaysFull
<1>7. CASE Commit
    <2>1. /\ pc = "commit" /\ pc' = "remove" /\ live' = live
          /\ \A r \in Steps : area'[Staging(r)].files = area[Staging(r)].files
        BY <1>0, <1>7, <1>a, CommitDoes
    <2> QED  BY <2>1, WatchedIsFull, StaysFull
<1>8. CASE Applied \/ NextStep \/ Discard
    <2>1. /\ pc \in {"applied", "next", "discard"} /\ live' = live /\ area' = area
          /\ pc' \in {"next", "remove", "discard", "apply", "idle"}
        BY <1>0, <1>8, AppliedDoes, NextStepDoes, DiscardDoes DEF disk
    <2> QED  BY <2>1, WatchedIsFull, StaysFull
<1> QED
    BY <1>1, <1>2, <1>3, <1>4, <1>5, <1>6, <1>7, <1>8

\* A command does not take a state for a new one, nor does it touch what is live.
LEMMA ImportSafe == ASSUME NEW n, Watching(n), Import PROVE Safe(n)'
<1>0. n \in Names /\ Safe(n) /\ Typed /\ Next /\ (errors' = 0 => errors = 0) /\ None # Empty
    BY WatchedIsSafe
<1>1. /\ pc = "idle" /\ pc' = "start" /\ area' = area
      /\ live'[n] = IF n \in Folders /\ live[n] = None THEN Empty ELSE live[n]
    BY <1>0, ImportDoes
<1>2. CASE Full(n)
    <2>1. live'[n] = live[n]
        BY <1>1, <1>2 DEF Full
    <2> QED  BY <1>1, <1>2, <2>1, StaysFull
<1>3. CASE ~ Full(n)
    <2>1. crashes' # 0 /\ errors' = 0 /\ errors = 0 /\ had # {}
        BY <1>0, <1>1, <1>3, WatchedIsFull, WatchedIsSafe DEF Watching
    <2>2. PICK q \in had \cap Folders, f \in had \ Folders : TRUE
        BY <2>1 DEF Watching, OnCourse, FileAndFolder
    <2>3. Safe(q) /\ Safe(f) /\ q \in Names /\ f \in Names
        BY <2>1, <2>2, WatchedIsSafe
    <2>4. Full(q) \/ Full(f)
        BY <2>1, <2>2, <2>3 DEF Safe, LiveOrNext
    <2>5. Version' = Version
        BY <1>0, <2>3, <2>4, ImportDoes DEF Full
    <2>6. LiveOrNext(n) /\ Ready' /\ \A m : StagedFor(m)' = StagedFor(m)
        BY <1>0, <1>1, <1>3, <2>1, <2>5 DEF Safe, LiveOrNext, Ready, Resumable, StagedFor
    <2>7. n \notin Folders => live'[n] = None
        BY <1>1, <1>3, <2>6 DEF LiveOrNext
    <2>8. LiveOrNext(n)'
        BY <1>1, <1>3, <2>6, <2>7 DEF LiveOrNext
    <2> QED  BY <1>0, <1>1, <2>1, <2>8 DEF Safe
<1> QED
    BY <1>2, <1>3

\* A run that finds a name gone resumes the swap that will put it in.
LEMMA BeginSafe == ASSUME NEW n, Watching(n), Begin \/ Apply PROVE Safe(n)'
<1>0. n \in Names /\ Safe(n) /\ Typed /\ Course /\ (errors' = 0 => errors = 0)
    BY WatchedIsSafe
<1>1. UNCHANGED disk /\ pc \in {"start", "apply"}
    BY <1>0, BeginDoes, ApplyDoes
<1>2. CASE Full(n)
    <2>1. pc' \in {"discard", "apply", "idle", "mkdir", "remove"} /\ live' = live /\ area' = area
        BY <1>0, <1>1, BeginDoes, ApplyDoes DEF disk
    <2> QED  BY <1>2, <2>1, StaysFull
<1>3. CASE ~ Full(n)
    <2>1. crashes' # 0 /\ errors' = 0 /\ errors = 0
        BY <1>0, <1>1, <1>3, WatchedIsFull DEF Watching
    <2>2. Ready
        BY <1>0, <1>3, <2>1 DEF Safe, LiveOrNext
    <2>3. Begin => pc' \in {"apply", "idle"}
        BY <1>0, <2>2, BeginDoes, OnCoursePlaces DEF Ready
    <2>4. Apply => pc' = "mkdir"
        <3>1. Apply => pc = "apply" /\ run.step = Version + 1
            BY <1>0, ApplyDoes, OnCoursePlaces
        <3> QED  BY <1>0, <2>2, <3>1, ApplyDoes DEF Ready
    <2> QED  BY <1>1, <2>1, <2>3, <2>4, StaysSafe
<1> QED
    BY <1>2, <1>3

\* A run that dies leaves to the next what it had still to put in.
LEMMA CrashSafe == ASSUME NEW n, Watching(n), Crash PROVE Safe(n)'
<1>1. Typed /\ Next /\ (crashes' # 0)
    BY WatchedIsSafe, FaultsAndWords
<1>2. UNCHANGED disk /\ pc' = "idle"
    BY <1>1, CrashDoes
<1>3. CASE pc \in {"idle", "start", "apply", "mkdir", "swap", "in", "rollback"}
    BY <1>1, <1>2, <1>3, StaysSafe
<1>4. CASE pc \notin {"idle", "start", "apply", "mkdir", "swap", "in", "rollback"}
    BY <1>2, <1>4, WatchedIsFull, StaysFull DEF disk
<1> QED
    BY <1>3, <1>4

\* The user moves back only what no run will put in.
LEMMA UserRestoresSafe == ASSUME NEW n, Watching(n), UserRestores PROVE Safe(n)'
<1>0. /\ n \in Names /\ Safe(n) /\ Typed /\ Course /\ (errors' = 0 => errors = 0) /\ None # Empty
      /\ Version \in Nat /\ Target \in Nat
    BY WatchedIsSafe, OnCoursePlaces
<1>1. /\ pc = "idle" /\ pc' = "idle" /\ run' = run /\ Version' = Version
      /\ \A m \in Names \ Missing(Version + 1) : live'[m] = live[m]
      /\ \A a \in Areas \ {Backup} : area'[a] = area[a]
    BY <1>0, UserRestoresDoes
<1>2. \A r \in Steps : area'[Staging(r)] = area[Staging(r)]
    BY <1>1, Places
<1>3. Full(n) \/ n \in Pending(Version + 1)
    <2>1. CASE Full(n)
        BY <2>1
    <2>2. CASE ~ Full(n)
        <3>1. Ready /\ StagedFor(n) # None
            BY <1>0, <1>1, <2>2, WatchedIsFull DEF Watching, Safe, LiveOrNext
        <3>2. Version + 1 \in Version + 1 .. Target
            BY <1>0, <3>1 DEF Ready
        <3> QED  BY <1>0, <3>1, <3>2 DEF Ready, StagedFor, Pending
    <2> QED  BY <2>1, <2>2
<1>4. n \notin Missing(Version + 1)
    BY <1>3 DEF Missing, Full
<1>5. live'[n] = live[n]
    BY <1>0, <1>1, <1>4
<1>6. CASE Full(n)
    BY <1>1, <1>2, <1>5, <1>6, StaysFull
<1>7. CASE ~ Full(n)
    <2>1. crashes' # 0 /\ errors' = 0 /\ errors = 0
        BY <1>0, <1>1, <1>7, WatchedIsFull DEF Watching
    <2>2. LiveOrNext(n) /\ Ready /\ Version + 1 \in Steps
        BY <1>0, <1>7, <2>1, OnCoursePlaces DEF Safe, LiveOrNext, Ready
    <2>3. Ready' /\ \A m : StagedFor(m)' = StagedFor(m)
        BY <1>1, <1>2, <2>2 DEF Ready, Resumable, StagedFor
    <2>4. LiveOrNext(n)'
        BY <1>1, <1>5, <1>7, <2>2, <2>3 DEF LiveOrNext
    <2> QED  BY <1>0, <1>1, <1>2, <2>1, <2>4 DEF Safe
<1> QED
    BY <1>6, <1>7

\* The directory the swap works from and the one it displaces to.
LEMMA SwapWorks ==
    ASSUME NEW n, Watching(n), Swapping \/ pc = "rollback"
    PROVE  /\ run.step = Version + 1 /\ Version < Target /\ run.step \in Steps /\ Ready
           /\ Staging(run.step) \in Areas /\ run.to \in Areas
           /\ \A r \in Steps : /\ Staging(r) \in Areas /\ run.to # Staging(r)
                               /\ r # run.step => Staging(r) # Staging(run.step)
           /\ \A m : Staged(m) = StagedFor(m)
<1>1. Typed /\ Course /\ Covered
    BY WatchedIsSafe
<1>2. run.step = Version + 1 /\ Version < Target /\ run.step \in Steps
    BY <1>1, OnCoursePlaces DEF Undoing
<1>3. run.to \in Areas /\ \A r \in Steps : run.to # Staging(r)
    BY <1>1, OnCoursePlaces DEF Undoing
<1> QED
    BY <1>1, <1>2, <1>3, Places DEF Covered, Staged, StagedFor

\* Making the directory, keeping the marker and passing over a name move nothing.
LEMMA StandingSafe ==
    ASSUME NEW n, Watching(n), NEW m, m \in Names, MakeDir \/ KeepMarker \/ Skip(m)
    PROVE  Safe(n)'
<1>0. /\ n \in Names /\ Safe(n) /\ Typed /\ Course /\ Covered
      /\ (crashes' = 0 => crashes = 0) /\ (errors' = 0 => errors = 0)
    BY WatchedIsSafe
<1>1. /\ pc \in {"mkdir", "swap"} /\ pc' \in {"swap", "commit"} /\ live' = live
      /\ Version' = Version /\ run'.to = run.to /\ run'.moved \subseteq run.moved
      /\ \A a \in Areas : /\ area'[a].files = area[a].files
                          /\ area'[a].marker = area[a].marker \/ a = run.to
    BY <1>0, MakeDirDoes, KeepMarkerDoes, SkipDoes DEF disk
<1>2. Swapping
    BY <1>1 DEF Swapping
<1>3. /\ \A r \in Steps : area'[Staging(r)].files = area[Staging(r)].files
      /\ Ready' /\ (\A k : StagedFor(k)' = StagedFor(k))
      /\ SetBy(n)' <=> SetBy(n)
      /\ Full(n)' <=> Full(n)
    BY <1>1, <1>2, SwapWorks DEF Ready, Resumable, StagedFor, SetBy, Full
<1>4. pc = "swap" \/ run'.moved = {}
    BY <1>0, <1>1, MakeDirDoes, KeepMarkerDoes, SkipDoes
<1>5. pc' \in {"swap", "in", "commit"} /\ n \in run'.moved /\ (crashes' = 0 \/ n \notin Folders)
         => SetBy(n)'
    BY <1>0, <1>1, <1>3, <1>4 DEF Safe
<1>6. crashes' = 0 => Live(n)'
    BY <1>0, <1>1, <1>3, WatchedIsFull DEF Live
<1>7. ASSUME errors' = 0
      PROVE  LiveOrNext(n)'
    <2>1. LiveOrNext(n)
        BY <1>0, <1>7 DEF Safe
    <2>2. CASE pc' = "swap"
        <3>1. run.moved = {} => run'.moved = {}
            BY <1>1
        <3> QED  BY <1>1, <1>3, <1>4, <2>1, <2>2, <3>1 DEF LiveOrNext
    <2>3. CASE pc' = "commit"
        <3>1. pc = "swap" /\ run.todo = {}
            BY <1>0, <2>3, MakeDirDoes, KeepMarkerDoes, SkipDoes
        <3>2. StagedFor(n) = None
            BY <1>0, <3>1 DEF Covered
        <3> QED  BY <1>3, <2>1, <3>2 DEF LiveOrNext
    <2> QED  BY <1>1, <2>2, <2>3
<1> QED
    BY <1>0, <1>1, <1>3, <1>5, <1>6, <1>7 DEF Safe

\* What is displaced is where a rollback finds it, and waits in staging.
LEMMA DisplaceSafe ==
    ASSUME NEW n, Watching(n), NEW m, m \in Names, Displace(m)
    PROVE  Safe(n)'
<1>0. /\ n \in Names /\ Safe(n) /\ Typed /\ Course /\ Covered /\ None # Empty
      /\ (crashes' = 0 => crashes = 0) /\ (errors' = 0 => errors = 0)
    BY WatchedIsSafe
<1>1. /\ pc = "swap" /\ pc' = "in" /\ Turn(m) /\ Staged(m) # None /\ live[m] # None
      /\ Version' = Version /\ run'.to = run.to /\ run'.moved = run.moved \cup {m}
      /\ run'.cur = m /\ run'.todo = run.todo
      /\ live'[m] = None /\ \A k \in Names \ {m} : live'[k] = live[k]
      /\ \A a \in Areas \ {run.to} : area'[a] = area[a]
      /\ area'[run.to].files[m] = live[m]
      /\ \A k \in Names \ {m} : area'[run.to].files[k] = area[run.to].files[k]
    BY <1>0, DisplaceDoes
<1>2. Swapping
    BY <1>1 DEF Swapping
<1>3. /\ \A r \in Steps : area'[Staging(r)] = area[Staging(r)]
      /\ Ready' /\ (\A k : StagedFor(k)' = StagedFor(k)) /\ StagedFor(m) # None
    BY <1>1, <1>2, SwapWorks DEF Ready, Resumable, StagedFor
<1>4. CASE n = m
    <2>1. crashes = 0 \/ n \notin Folders => Full(n)
        <3>1. crashes' = 0 => Full(n)
            BY <1>1, WatchedIsFull
        <3>2. errors' = 0 /\ n \notin Folders => Full(n)
            BY <1>0, <1>1, <1>4 DEF Safe, LiveOrNext
        <3>3. crashes = 0 => crashes' = 0
            BY <1>0, FaultsAndWords, WatchedIsSafe DEF Displace
        <3> QED  BY <3>1, <3>2, <3>3 DEF Watching
    <2>2. crashes = 0 \/ n \notin Folders => SetBy(n)'
        BY <1>1, <1>4, <2>1 DEF SetBy, Full
    <2>3. Live(n)'
        BY <1>1, <1>4 DEF Live
    <2>4. n \in Folders => \A k \in Names \ Folders : StagedFor(k) = None
        BY <1>0, <1>1, <1>4 DEF Turn, Covered
    <2>5. LiveOrNext(n)'
        BY <1>1, <1>3, <1>4, <2>4 DEF LiveOrNext
    <2> QED  BY <1>0, <1>1, <1>3, <2>2, <2>3, <2>5 DEF Safe
<1>5. CASE n # m
    <2>1. live'[n] = live[n] /\ area'[run.to].files[n] = area[run.to].files[n]
        BY <1>0, <1>1, <1>5
    <2>2. (Full(n)' <=> Full(n)) /\ (SetBy(n)' <=> SetBy(n))
        BY <1>1, <2>1 DEF Full, SetBy
    <2>3. LiveOrNext(n) => LiveOrNext(n)'
        BY <1>1, <1>3, <2>1, <2>2 DEF LiveOrNext
    <2>4. crashes' = 0 => Live(n)'
        BY <1>1, <2>2, WatchedIsFull DEF Live
    <2> QED  BY <1>0, <1>1, <1>3, <1>5, <2>2, <2>3, <2>4 DEF Safe
<1> QED
    BY <1>4, <1>5

\* What is put in is live, and a folder that waits has nothing put in before it.
LEMMA PutInSafe ==
    ASSUME NEW n, Watching(n), NEW m, m \in Names, PutIn(m)
    PROVE  Safe(n)'
<1>0. /\ n \in Names /\ Safe(n) /\ Typed /\ Course /\ Covered /\ None # Empty
      /\ (crashes' = 0 => crashes = 0) /\ (errors' = 0 => errors = 0)
    BY WatchedIsSafe
<1>1. /\ pc \in {"swap", "in"} /\ pc' = "swap"
      /\ pc = "swap" => Staged(m) # None
      /\ pc = "in" => m = run.cur
      /\ Version' = Version /\ run'.to = run.to /\ run'.moved = run.moved
      /\ live'[m] = Staged(m) /\ \A k \in Names \ {m} : live'[k] = live[k]
      /\ \A a \in Areas \ {Staging(run.step)} : area'[a] = area[a]
      /\ area'[Staging(run.step)].marker = area[Staging(run.step)].marker
      /\ area'[Staging(run.step)].files[m] = None
      /\ \A k \in Names \ {m} :
            area'[Staging(run.step)].files[k] = area[Staging(run.step)].files[k]
    BY <1>0, PutInDoes
<1>2. Swapping
    BY <1>1 DEF Swapping
<1>3. StagedFor(m) # None
    BY <1>0, <1>1, <1>2, SwapWorks DEF Covered
<1>4. /\ \A r \in Steps : area'[Staging(r)].files[n] \in {area[Staging(r)].files[n], None}
      /\ Ready' /\ (\A k \in Names : StagedFor(k)' \in {StagedFor(k), None})
      /\ SetBy(n)' <=> SetBy(n)
    <2>1. \A k \in Names : area'[Staging(run.step)].files[k] \in
                              {area[Staging(run.step)].files[k], None}
        BY <1>1
    <2>2. \A r \in Steps : r = run.step \/ area'[Staging(r)] = area[Staging(r)]
        BY <1>1, <1>2, SwapWorks
    <2>3. area'[run.to] = area[run.to]
        BY <1>1, <1>2, SwapWorks
    <2>4. \A r \in Steps : area'[Staging(r)].files[n] \in {area[Staging(r)].files[n], None}
        BY <1>0, <2>1, <2>2
    <2>5. Ready'
        BY <1>1, <1>2, SwapWorks DEF Ready, Resumable
    <2>6. \A k \in Names : StagedFor(k)' \in {StagedFor(k), None}
        BY <1>1, <1>2, <2>1, SwapWorks DEF StagedFor
    <2>7. SetBy(n)' <=> SetBy(n)
        BY <1>1, <2>3 DEF SetBy
    <2> QED  BY <2>4, <2>5, <2>6, <2>7
<1>5. CASE n = m
    <2>1. Staged(n) = area[Staging(run.step)].files[n] /\ run.step \in Steps
        BY <1>2, SwapWorks DEF Staged
    <2>2. Staged(n) \notin {None, Empty}
        BY <1>0, <1>2, <1>3, <1>5, <2>1, SwapWorks DEF Safe
    <2>3. Full(n)'
        BY <1>1, <1>5, <2>2 DEF Full
    <2> QED  BY <1>0, <1>1, <1>4, <2>3 DEF Safe, Live, LiveOrNext
<1>6. CASE n # m
    <2>1. live'[n] = live[n] /\ StagedFor(n)' = StagedFor(n)
        BY <1>0, <1>1, <1>2, <1>6, SwapWorks DEF StagedFor
    <2>2. Full(n)' <=> Full(n)
        BY <2>1 DEF Full
    <2>3. crashes' = 0 => Live(n)'
        BY <1>0, <1>1, <1>6, <2>2 DEF Safe, Live
    <2>4. ASSUME errors' = 0, ~ Full(n)
          PROVE  LiveOrNext(n)'
        <3>1. LiveOrNext(n)
            BY <1>0, <2>4 DEF Safe
        <3>2. n \in Folders => m \in Folders
            BY <1>0, <1>3, <2>4, <3>1 DEF LiveOrNext
        <3>3. n \notin Folders
            BY <1>6, <3>2, OneFolder, FoldersAreNames
        <3> QED  BY <1>1, <1>4, <2>1, <2>4, <3>1, <3>3 DEF LiveOrNext
    <2>5. errors' = 0 => LiveOrNext(n)'
        BY <2>2, <2>4 DEF LiveOrNext
    <2> QED  BY <1>0, <1>1, <1>4, <2>3, <2>5 DEF Safe
<1> QED
    BY <1>5, <1>6

\* A swap that fails has what it displaced to put back, and when nothing but deaths came
\* before, nothing that waits.
LEMMA SwapFailsSafe == ASSUME NEW n, Watching(n), SwapFails PROVE Safe(n)'
<1>0. /\ n \in Names /\ Safe(n) /\ Typed /\ Course /\ Covered /\ Next
      /\ (crashes' = 0 => crashes = 0) /\ (errors' = 0 => errors = 0)
    BY WatchedIsSafe
<1>1. /\ Swapping /\ pc' = "rollback" /\ run'.to = run.to /\ run'.moved = run.moved
      /\ run'.todo = run.moved /\ UNCHANGED disk /\ Version' = Version
    BY <1>0, SwapFailsDoes DEF Swapping
<1>2. /\ live' = live /\ area' = area
      /\ Full(n)' <=> Full(n)
      /\ SetBy(n)' <=> SetBy(n)
      /\ Ready' /\ \A k : StagedFor(k)' = StagedFor(k)
    BY <1>1, SwapWorks DEF disk, Full, SetBy, Ready, Resumable, StagedFor
<1>3. pc = "mkdir" => run.moved = {}
    BY <1>0 DEF Course, Locals
<1>4. CASE crashes' = 0
    <2>1. n \in run.moved => SetBy(n)
        BY <1>0, <1>1, <1>3, <1>4 DEF Safe, Swapping
    <2>2. Full(n) \/ n \in run.moved
        BY <1>0, <1>1, <1>4 DEF Safe, Live, Swapping, Course, Locals
    <2>3. Live(n)'
        BY <1>1, <1>2, <2>2 DEF Live
    <2>4. errors' = 0 => LiveOrNext(n)'
        <3>1. CASE Full(n)
            BY <1>2, <3>1 DEF LiveOrNext
        <3>2. CASE ~ Full(n) /\ errors' = 0
            BY <1>0, <1>1, <1>4, <3>2, WatchedIsFull, FaultsAndWords
        <3> QED  BY <3>1, <3>2
    <2> QED  BY <1>0, <1>1, <1>2, <2>1, <2>3, <2>4 DEF Safe
<1>5. CASE crashes' # 0
    <2>1. errors' = 0 /\ errors = 0
        BY <1>0, <1>5 DEF Watching
    <2>2. PICK q \in Names : pc = "swap" /\ Turn(q) /\ Staged(q) # None /\ Blocked(q)
        BY <1>0, <2>1, FaultsAndWords
    <2>3. q \in Folders /\ q \in run.todo /\ run.todo \subseteq Folders
        BY <2>2 DEF Turn, Blocked
    <2>4. \A k \in run.moved : k \notin Folders
        BY <1>0, <2>2, <2>3, OneFolder DEF Course, Locals
    <2>5. n \in run.moved => SetBy(n)
        BY <1>0, <2>2, <2>4 DEF Safe
    <2>6. LiveOrNext(n)
        BY <1>0, <2>1 DEF Safe
    <2>7. ASSUME ~ Full(n)
          PROVE  n \in Folders
        BY <1>0, <2>2, <2>3, <2>6, <2>7 DEF LiveOrNext, Covered
    <2>8. LiveOrNext(n)'
        BY <1>1, <1>2, <2>2, <2>6, <2>7 DEF LiveOrNext
    <2> QED  BY <1>0, <1>1, <1>2, <1>5, <2>5, <2>8 DEF Safe
<1> QED
    BY <1>4, <1>5

\* In a rollback a name is live or what was displaced of it is still to be put back, and
\* no folder is deleted while the deaths of runs are all that happened.
LEMMA PutBackSafe ==
    ASSUME NEW n, Watching(n), NEW m, m \in Names, ClearLive(m) \/ PutBack(m) \/ PutBackFails(m)
    PROVE  Safe(n)'
<1>0. /\ n \in Names /\ Safe(n) /\ Typed /\ Course /\ Covered /\ None # Empty /\ Next
      /\ (crashes' = 0 => crashes = 0) /\ (errors' = 0 => errors = 0)
    BY WatchedIsSafe
<1>1. /\ pc = "rollback" /\ pc' = "rollback" /\ m \in run.todo
      /\ Version' = Version /\ run'.to = run.to /\ run'.moved = run.moved
      /\ \A k \in Names \ {m} : live'[k] = live[k]
      /\ \A a \in Areas \ {run.to} : area'[a] = area[a]
      /\ \A k \in Names \ {m} : area'[run.to].files[k] = area[run.to].files[k]
    BY <1>0, ClearLiveDoes, PutBackDoes, PutBackFailsDoes DEF disk
<1>2. /\ \A r \in Steps : area'[Staging(r)] = area[Staging(r)]
      /\ Ready' /\ \A k : StagedFor(k)' = StagedFor(k)
    BY <1>1, SwapWorks DEF Ready, Resumable, StagedFor
<1>3. run'.todo \in {run.todo, run.todo \ {m}}
    BY <1>0, ClearLiveDoes, PutBackDoes, PutBackFailsDoes
<1>4. CASE n # m
    <2>1. /\ live'[n] = live[n]
          /\ n \in run'.todo <=> n \in run.todo
          /\ SetBy(n)' <=> SetBy(n)
          /\ Full(n)' <=> Full(n)
        BY <1>0, <1>1, <1>3, <1>4 DEF SetBy, Full
    <2>2. LiveOrNext(n) => LiveOrNext(n)'
        BY <1>1, <1>2, <2>1 DEF LiveOrNext
    <2>3. crashes' = 0 => Live(n)'
        BY <1>0, <1>1, <2>1 DEF Safe, Live
    <2> QED  BY <1>0, <1>1, <1>2, <2>1, <2>2, <2>3 DEF Safe
<1>5. CASE n = m
    <2>1. SetBy(n)
        BY <1>0, <1>1, <1>5 DEF Safe
    <2>2. CASE ClearLive(m)
        <3>1. /\ n \in Folders /\ run' = run /\ area' = area
            BY <1>0, <1>5, <2>2, ClearLiveDoes
        <3>2. errors' # 0
            <4>1. SUFFICES ASSUME errors' = 0 PROVE FALSE
                OBVIOUS
            <4>2. errors = 0 /\ Unstranded
                BY <1>0, <4>1 DEF Watching, OnCourse, LossInv
            <4> QED  BY <1>1, <1>5, <3>1, <4>2 DEF Unstranded
        <3>3. SetBy(n)' /\ Live(n)'
            BY <1>1, <1>5, <2>1, <3>1 DEF SetBy, Live
        <3> QED  BY <1>0, <1>1, <1>2, <3>2, <3>3 DEF Safe
    <2>3. CASE PutBack(m)
        <3>1. live'[n] = area[run.to].files[n] /\ n \notin run'.todo
            BY <1>0, <1>5, <2>3, PutBackDoes
        <3>2. Full(n)'
            BY <2>1, <3>1 DEF SetBy, Full
        <3> QED  BY <1>0, <1>1, <1>2, <3>1, <3>2 DEF Safe, Live, LiveOrNext
    <2>4. ~ PutBackFails(m)
        BY <1>0, <1>5, PutBackFailsDoes DEF Watching
    <2> QED  BY <2>2, <2>3, <2>4
<1> QED
    BY <1>4, <1>5

\* Staging goes only when all is live again.
LEMMA RolledBackSafe == ASSUME NEW n, Watching(n), RolledBack PROVE Safe(n)'
<1>0. Safe(n) /\ Typed /\ (crashes' = 0 => crashes = 0) /\ (errors' = 0 => errors = 0)
    BY WatchedIsSafe
<1>1. /\ pc = "rollback" /\ run.todo = {} /\ UNCHANGED disk /\ live' = live /\ area' = area
      /\ (run.moved = {} /\ pc' = "idle") \/ (run.moved # {} /\ pc' = "remove")
    BY <1>0, RolledBackDoes DEF disk
<1>2. crashes' = 0 => Full(n)
    BY <1>0, <1>1 DEF Safe, Live
<1>3. CASE run.moved = {}
    BY <1>1, <1>2, <1>3, StaysSafe
<1>4. CASE run.moved # {}
    <2>1. Full(n)
        <3>1. errors' = 0 => Full(n)
            BY <1>0, <1>1, <1>4 DEF Safe, LiveOrNext
        <3> QED  BY <1>2, <3>1 DEF Watching
    <2> QED  BY <1>1, <1>4, <2>1, StaysFull
<1> QED
    BY <1>3, <1>4

\* So every step leaves every name of the state accounted for.
LEMMA AccountedKept == ASSUME OnCourse PROVE Accounted'
<1> SUFFICES ASSUME crashes' = 0 \/ errors' = 0, NEW n \in had' \ stranded'
             PROVE  Safe(n)'
    BY DEF Accounted
<1>1. Watching(n)
    BY DEF Watching
<1>2. CASE \/ RemoveEntry \/ Removed \/ Copy \/ Convert \/ Mark \/ StepFails
           \/ Commit \/ Applied \/ NextStep \/ Discard
    BY <1>1, <1>2, PrepareSafe
<1>3. CASE Import
    BY <1>1, <1>3, ImportSafe
<1>4. CASE Begin \/ Apply
    BY <1>1, <1>4, BeginSafe
<1>5. CASE Crash
    BY <1>1, <1>5, CrashSafe
<1>6. CASE UserRestores
    BY <1>1, <1>6, UserRestoresSafe
<1>7. CASE MakeDir \/ KeepMarker
    BY <1>1, <1>7, WatchedIsSafe, StandingSafe
<1>8. CASE SwapFails
    BY <1>1, <1>8, SwapFailsSafe
<1>9. CASE RolledBack
    BY <1>1, <1>9, RolledBackSafe
<1>10. ASSUME NEW m \in Names, Skip(m) \/ Displace(m) \/ PutIn(m)
       PROVE  Safe(n)'
    BY <1>1, <1>10, StandingSafe, DisplaceSafe, PutInSafe
<1>11. ASSUME NEW m \in Names, ClearLive(m) \/ PutBack(m) \/ PutBackFails(m)
       PROVE  Safe(n)'
    BY <1>1, <1>11, PutBackSafe
<1> QED
    BY <1>2, <1>3, <1>4, <1>5, <1>6, <1>7, <1>8, <1>9, <1>10, <1>11
    DEF OnCourse, Next, Engine

\* At the start everything is live.
LEMMA InitLossInv == Init => LossInv
<1> SUFFICES ASSUME Init PROVE LossInv
    OBVIOUS
<1>1. Typed /\ Core /\ pc = "idle" /\ stranded = {} /\ crashes = 0 /\ errors = 0
    BY InitTyped, InitCore DEF Init
<1>2. Course
    BY <1>1 DEF Core, Future, Course
<1>3. Covered /\ Unstranded
    BY <1>1 DEF Covered, Unstranded, Removing, Swapping
<1>4. ASSUME NEW n \in had
      PROVE  Safe(n)
    <2>1. n \in Names /\ live[n] \in Nat
        BY StartsAreStates, Numbers DEF Init, Versions
    <2>2. Full(n)
        BY <2>1, Numbers DEF Full
    <2>3. \A r \in Steps : area[Staging(r)] = Gone
        BY Places DEF Init
    <2>4. \A r \in Steps : area[Staging(r)].files[n] # Empty
        BY <2>1, <2>3, Numbers DEF Gone, NoFiles
    <2> QED  BY <1>1, <2>2, <2>4 DEF Safe, Live, LiveOrNext
<1> QED
    BY <1>1, <1>2, <1>3, <1>4 DEF LossInv, Accounted

\* A stutter changes none of this.
LEMMA StutterLossInv == ASSUME LossInv, UNCHANGED vars PROVE LossInv'
<1>1. /\ UNCHANGED <<live, marker, area, pc, run, stranded, had, crashes, errors>>
      /\ Typed' /\ Version' = Version
    BY NextTyped DEF vars, disk, ghosts, Version, LossInv
<1> USE DEF Resting, Copying, Swapping, Undoing, Over, Tidying, Later, Removing
<1>2. Course'
    BY <1>1 DEF LossInv, Course, StepInHand, Locals, Turn
<1>3. (Ready' <=> Ready) /\ \A n : StagedFor(n)' = StagedFor(n)
    BY <1>1 DEF Ready, Resumable, StagedFor
<1>4. Covered' /\ Unstranded'
    BY <1>1, <1>3 DEF LossInv, Covered, Unstranded
<1>5. ASSUME NEW n, Safe(n)
      PROVE  Safe(n)'
    <2>1. (Full(n)' <=> Full(n)) /\ (SetBy(n)' <=> SetBy(n))
        BY <1>1 DEF Full, SetBy
    <2>2. LiveOrNext(n) => LiveOrNext(n)'
        BY <1>1, <1>3, <2>1 DEF LiveOrNext
    <2> QED  BY <1>1, <1>5, <2>1, <2>2 DEF Safe, Live
<1>6. Accounted'
    BY <1>1, <1>5 DEF LossInv, Accounted
<1> QED
    BY <1>1, <1>2, <1>4, <1>6 DEF LossInv

\* Every step keeps the invariant.
LEMMA NextLossInv == LossInv /\ FileAndFolder /\ [Next]_vars => LossInv'
<1> SUFFICES ASSUME LossInv, FileAndFolder, [Next]_vars PROVE LossInv'
    OBVIOUS
<1>1. ASSUME Next
      PROVE  LossInv'
    BY <1>1, NextTyped, CourseKept, CoveredKept, UnstrandedKept, AccountedKept
    DEF LossInv, OnCourse
<1> QED
    BY <1>1, StutterLossInv

\* Between runs an accounted name is live or the next run puts it in.
LEMMA AccountedIsNotLost == LossInv => NoSilentLoss
<1> SUFFICES ASSUME LossInv, pc = "idle", crashes = 0 \/ errors = 0, NEW n \in had,
                    live[n] \in {None, Empty}, n \notin stranded
             PROVE  n \in Pending(Version + 1)
    BY DEF NoSilentLoss
<1>1. Safe(n) /\ ~ Full(n)
    BY DEF LossInv, Accounted, Full
<1>2. Ready /\ StagedFor(n) # None
    BY <1>1 DEF Safe, Live, LiveOrNext
<1>3. n \in Names /\ Version \in Nat /\ Target \in Nat
    BY OnCoursePlaces DEF LossInv, TypeOK
<1>4. Version + 1 \in Version + 1 .. Target
    BY <1>2, <1>3 DEF Ready
<1> QED
    BY <1>2, <1>3, <1>4 DEF Ready, StagedFor, Pending

\* After any number of runs that died, or of calls that failed, in a swap or in its
\* rollback, a name that is not in the state directory is one the next run puts in or one
\* an error message has named (__init__.py:270-277, 306-311, 489-501); but for a
\* state without a file or without a folder, which a command after a crash can take
\* for a new one.
THEOREM NothingIsLostSilently ==
    ASSUME \A S \in Starts : S = {} \/ (S \cap Folders # {} /\ S \ Folders # {})
    PROVE  Spec => []NoSilentLoss
<1>1. Init => FileAndFolder
    BY DEF Init, FileAndFolder
<1>2. FileAndFolder /\ [Next]_vars => FileAndFolder'
    <2>1. UNCHANGED vars => had' = had
        BY DEF vars, ghosts
    <2> QED  BY <2>1, HadIsFixed DEF FileAndFolder
<1>3. Spec => []LossInv
    BY <1>1, <1>2, InitLossInv, NextLossInv, PTL DEF Spec
<1> QED
    BY <1>3, AccountedIsNotLost, PTL
================================================================================
