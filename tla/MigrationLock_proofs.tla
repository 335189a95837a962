-------------------------- MODULE MigrationLock_proofs -------------------------
(***************************************************************************)
(* Whatever the processes and however often they die: of two migrations    *)
(* that are in at once, one has been robbed of its lock by a run that had   *)
(* read another file, or by one robbed before it.                          *)
(***************************************************************************)
EXTENDS MigrationLock, TLAPS

\* A run that has made the lock and was not robbed finds its own file there.
Held == \A r \in Runs \ robbed : Has(r) => lock # None /\ lock.by = r

\* Who has read the file that is there asks for its maker, and clears it only when
\* its maker is not using it.
Judged ==
    \A r \in seen :
        /\ lock # None
        /\ at[r] \in {"probing", "clearing"}
        /\ at[r] = "probing" => owner[r] = lock.by
        /\ at[r] = "clearing" => ~ Has(lock.by)

LockInv == LockTypeOK /\ Held /\ Judged

\* The lock's variables keep their types through every step.
LEMMA LockTyping == LockTypeOK /\ [LockNext]_lockVars => LockTypeOK'
<1> SUFFICES ASSUME LockTypeOK, [LockNext]_lockVars PROVE LockTypeOK'
    OBVIOUS
<1> USE DEF LockTypeOK, LockFile, Places, Go, Claimed, ghosts
<1>1. ASSUME NEW r \in Runs, LockStep(r) PROVE LockTypeOK'
  <2>0. [by |-> r, pid |-> FALSE] \in LockFile
      OBVIOUS
  <2>1. CASE Claim(r)
    <3>1. CASE Claimed(r) BY <2>0, <2>1, <3>1 DEF Claim
    <3>2. CASE UNCHANGED lock /\ Go(r, "found") BY <2>1, <3>2 DEF Claim
    <3>3. QED BY <2>1, <3>1, <3>2 DEF Claim
  <2>2. CASE Read(r)
    <3>1. CASE lock = None \/ ~ lock.pid BY <2>2, <3>1 DEF Read
    <3>2. CASE lock # None /\ lock.pid BY <2>2, <3>2 DEF Read
    <3>3. QED BY <3>1, <3>2
  <2>3. CASE Probe(r) BY <2>3 DEF Probe
  <2>4. CASE Clear(r) BY <2>4 DEF Clear, Unlinked
  <2>5. CASE Reclaim(r)
    <3>1. CASE Claimed(r) BY <2>0, <2>5, <3>1 DEF Reclaim
    <3>2. CASE UNCHANGED lock /\ Go(r, "idle") BY <2>5, <3>2 DEF Reclaim
    <3>3. QED BY <2>5, <3>1, <3>2 DEF Reclaim
  <2>6. CASE WritePid(r) BY <2>6 DEF WritePid
  <2>7. CASE Release(r) BY <2>7 DEF Release, Unlinked
  <2>8. QED BY <1>1, <2>1, <2>2, <2>3, <2>4, <2>5, <2>6, <2>7 DEF LockStep
<1>2. ASSUME NEW dead \in SUBSET Runs, Die(dead) PROVE LockTypeOK'
    BY <1>2 DEF Die
<1>3. CASE UNCHANGED lockVars
    BY <1>3 DEF lockVars
<1>4. QED BY <1>1, <1>2, <1>3 DEF LockNext

\* The run that makes the file is the only one that has it.
LEMMA ClaimedHolds ==
    ASSUME LockInv, NEW r \in Runs, Claimed(r), UNCHANGED <<owner, ghosts>>
    PROVE  Held' /\ Judged'
<1> USE DEF LockInv, LockTypeOK, Has, ghosts
<1>1. lock = None /\ lock' = [by |-> r, pid |-> FALSE]
    BY DEF Claimed
<1>2. lock' # None /\ lock'.by = r
  <2>1. [by |-> r, pid |-> FALSE] \in LockFile
      BY DEF LockFile
  <2>2. [by |-> r, pid |-> FALSE] # None
      BY <2>1, NoneIsNoRun
  <2>3. QED BY <1>1, <2>2
<1>3. at' = [at EXCEPT ![r] = "claimed"]
    BY DEF Claimed, Go
<1>4. seen = {} /\ \A q \in Runs \ robbed : ~ Has(q)
    BY <1>1 DEF Held, Judged
<1>5. \A q \in Runs \ robbed : Has(q)' => q = r
    BY <1>3, <1>4
<1>6. QED BY <1>2, <1>4, <1>5 DEF Held, Judged

\* A file that goes leaves nobody with a lock that is not robbed but its maker.
LEMMA UnlinkedHolds ==
    ASSUME LockInv, NEW r \in Runs, NEW entitled \in BOOLEAN, Unlinked(r, entitled),
           NEW there \in {"idle", "cleared"}, Go(r, there),
           entitled => \A q \in Runs \ (robbed \cup {r}) : ~ Has(q)
    PROVE  Held' /\ Judged'
<1>1. Judged'
    BY DEF Unlinked, Judged
<1>2. ASSUME NEW q \in Runs \ robbed', Has(q)' PROVE FALSE
  <2>1. q # r /\ at'[q] = at[q]
      BY <1>2 DEF Go, Has, LockInv, LockTypeOK
  <2>2. Has(q) /\ q \notin robbed
      BY <1>2, <2>1 DEF Has, Unlinked
  <2>3. lock # None /\ lock.by = q /\ ~ entitled
      BY <2>1, <2>2 DEF LockInv, Held
  <2>4. QED BY <1>2, <2>1, <2>2, <2>3 DEF Unlinked
<1>3. QED BY <1>1, <1>2 DEF Held

\* A step that takes no lock, and judges the file that is there by what it says.
LEMMA SameHolders ==
    ASSUME LockInv, UNCHANGED <<lock, robbed>>, NEW r \in Runs,
           \A q \in Runs : q # r => at'[q] = at[q] /\ owner'[q] = owner[q],
           Has(r)' = Has(r),
           seen' \subseteq seen \cup {r},
           r \in seen' => /\ lock # None
                          /\ at'[r] \in {"probing", "clearing"}
                          /\ at'[r] = "probing" => owner'[r] = lock.by
                          /\ at'[r] = "clearing" => ~ Has(lock.by)
    PROVE  Held' /\ Judged'
<1>1. \A q \in Runs : Has(q)' = Has(q)
    BY DEF Has
<1>2. Held'
    BY <1>1 DEF LockInv, Held
<1>3. ASSUME NEW q \in seen'
      PROVE  /\ lock' # None
             /\ at'[q] \in {"probing", "clearing"}
             /\ at'[q] = "probing" => owner'[q] = lock'.by
             /\ at'[q] = "clearing" => ~ Has(lock.by)'
  <2>1. lock # None => lock.by \in Runs
      BY DEF LockInv, LockTypeOK, LockFile
  <2>2. CASE q = r
      BY <1>1, <1>3, <2>1, <2>2
  <2>3. CASE q # r
    <3>1. q \in seen /\ q \in Runs /\ at'[q] = at[q] /\ owner'[q] = owner[q]
        BY <1>3, <2>3 DEF LockInv, LockTypeOK
    <3>2. QED BY <1>1, <2>1, <3>1 DEF LockInv, Judged
  <2>4. QED BY <2>2, <2>3
<1>4. QED BY <1>2, <1>3 DEF Judged

\* LockInv is inductive.
LEMMA LockInvStep == LockInv /\ [LockNext]_lockVars => LockInv'
<1> SUFFICES ASSUME LockInv, [LockNext]_lockVars PROVE LockInv'
    OBVIOUS
<1>0. LockTypeOK'
    BY LockTyping DEF LockInv
<1> SUFFICES Held' /\ Judged'
    BY <1>0 DEF LockInv
<1>t. LockTypeOK
    BY DEF LockInv
<1>1. CASE UNCHANGED lockVars
    BY <1>1 DEF lockVars, LockInv, Held, Judged, Has
<1>2. ASSUME NEW r \in Runs, LockStep(r) PROVE Held' /\ Judged'
  <2>1. CASE Claim(r)
    <3>1. CASE Claimed(r) BY <2>1, <3>1, ClaimedHolds DEF Claim
    <3>2. CASE UNCHANGED lock /\ Go(r, "found")
      <4>1. r \notin seen
          BY <2>1 DEF Claim, LockInv, Judged
      <4>2. QED BY <1>t, <2>1, <3>2, <4>1, SameHolders DEF Claim, Go, Has, LockTypeOK, ghosts
    <3>3. QED BY <2>1, <3>1, <3>2 DEF Claim
  <2>2. CASE Read(r)
    <3>1. at[r] = "found" /\ r \notin seen
        BY <2>2 DEF Read, LockInv, Judged
    <3>2. CASE lock = None \/ ~ lock.pid
        BY <1>t, <2>2, <3>1, <3>2, SameHolders DEF Read, Go, Has, LockTypeOK
    <3>3. CASE lock # None /\ lock.pid
        BY <1>t, <2>2, <3>1, <3>3, SameHolders DEF Read, Go, Has, LockTypeOK
    <3>4. QED BY <3>2, <3>3
  <2>3. CASE Probe(r)
    <3>1. at[r] = "probing" /\ owner[r] \in Runs
        BY <1>t, <2>3 DEF Probe, LockTypeOK
    <3>2. r \in seen => lock # None /\ owner[r] = lock.by
        BY <3>1 DEF LockInv, Judged
    <3>3. CASE at[owner[r]] = "idle"
      <4>1. r \in seen => ~ Has(lock.by)
          BY <3>2, <3>3 DEF Has
      <4>2. QED BY <1>t, <2>3, <3>1, <3>2, <3>3, <4>1, SameHolders DEF Probe, Go, Has, LockTypeOK
    <3>4. CASE at[owner[r]] # "idle"
        BY <1>t, <2>3, <3>1, <3>4, SameHolders DEF Probe, Go, Has, LockTypeOK
    <3>5. QED BY <3>3, <3>4
  <2>4. CASE Clear(r)
    <3>1. r \in seen => \A q \in Runs \ (robbed \cup {r}) : ~ Has(q)
        BY <2>4 DEF Clear, LockInv, Held, Judged
    <3>2. Unlinked(r, r \in seen) /\ Go(r, "cleared") /\ (r \in seen) \in BOOLEAN
        BY <2>4 DEF Clear
    <3>3. QED BY <3>1, <3>2, UnlinkedHolds
  <2>5. CASE Reclaim(r)
    <3>1. CASE Claimed(r) BY <2>5, <3>1, ClaimedHolds DEF Reclaim
    <3>2. CASE UNCHANGED lock /\ Go(r, "idle")
      <4>1. r \notin seen
          BY <2>5 DEF Reclaim, LockInv, Judged
      <4>2. QED BY <1>t, <2>5, <3>2, <4>1, SameHolders DEF Reclaim, Go, Has, LockTypeOK, ghosts
    <3>3. QED BY <2>5, <3>1, <3>2 DEF Reclaim
  <2>6. CASE WritePid(r)
    <3>1. (lock' = None) = (lock = None) /\ (lock # None => lock'.by = lock.by /\ lock.by \in Runs)
      <4>1. CASE lock # None /\ lock.by = r
        <5>1. lock \in LockFile
            BY <1>t, <4>1 DEF LockTypeOK
        <5>2. lock' = [lock EXCEPT !.pid = TRUE]
            BY <2>6, <4>1 DEF WritePid
        <5>3. lock' \in LockFile /\ lock'.by = lock.by
            BY <5>1, <5>2 DEF LockFile
        <5>4. QED BY <4>1, <5>3, NoneIsNoRun
      <4>2. CASE ~ (lock # None /\ lock.by = r)
          BY <1>t, <2>6, <4>2 DEF WritePid, LockTypeOK, LockFile
      <4>3. QED BY <4>1, <4>2
    <3>2. \A q \in Runs : Has(q)' = Has(q) /\ (at[q] # "claimed" => at'[q] = at[q])
        BY <1>t, <2>6 DEF WritePid, Go, Has, LockTypeOK
    <3>3. UNCHANGED <<owner, seen, robbed>> /\ seen \subseteq Runs
        BY <1>t, <2>6 DEF WritePid, ghosts, LockTypeOK
    <3>4. Held'
        BY <3>1, <3>2, <3>3 DEF LockInv, Held
    <3>5. Judged'
      <4>1. ASSUME NEW q \in seen
            PROVE  /\ lock' # None
                   /\ at'[q] \in {"probing", "clearing"}
                   /\ at'[q] = "probing" => owner'[q] = lock'.by
                   /\ at'[q] = "clearing" => ~ Has(lock.by)'
        <5>1. /\ lock # None
              /\ at[q] \in {"probing", "clearing"}
              /\ at[q] = "probing" => owner[q] = lock.by
              /\ at[q] = "clearing" => ~ Has(lock.by)
            BY <4>1 DEF LockInv, Judged
        <5>2. at'[q] = at[q] /\ lock'.by = lock.by
            BY <3>1, <3>2, <3>3, <5>1
        <5>3. (at[lock.by] \in {"claimed", "in"}) = (at'[lock.by] \in {"claimed", "in"})
            BY <3>1, <3>2, <5>1 DEF Has
        <5>4. QED BY <3>1, <3>3, <5>1, <5>2, <5>3 DEF Has
      <4>2. QED BY <3>3, <4>1 DEF Judged
    <3>6. QED BY <3>4, <3>5
  <2>7. CASE Release(r)
    <3>1. r \notin robbed => \A q \in Runs \ (robbed \cup {r}) : ~ Has(q)
        BY <2>7 DEF Release, LockInv, Held
    <3>2. Unlinked(r, r \notin robbed) /\ Go(r, "idle") /\ (r \notin robbed) \in BOOLEAN
        BY <2>7 DEF Release
    <3>3. QED BY <3>1, <3>2, UnlinkedHolds
  <2>8. QED BY <1>2, <2>1, <2>2, <2>3, <2>4, <2>5, <2>6, <2>7 DEF LockStep
<1>3. ASSUME NEW dead \in SUBSET Runs, Die(dead) PROVE Held' /\ Judged'
  <2>1. \A q \in Runs : /\ q \notin dead => at'[q] = at[q] /\ owner'[q] = owner[q]
                        /\ q \in dead => at'[q] = "idle"
      BY <1>3 DEF Die
  <2>2. \A q \in Runs : Has(q)' => Has(q) /\ q \notin dead
      BY <2>1 DEF Has
  <2>3. lock' = lock /\ seen' = seen \ dead /\ robbed' = robbed \ dead
        /\ (lock # None => lock.by \in Runs) /\ seen \subseteq Runs
      BY <1>3, <1>t DEF Die, LockTypeOK, LockFile
  <2>4. Held'
      BY <2>2, <2>3 DEF LockInv, Held
  <2>5. \A q \in seen' : /\ lock' # None
                         /\ at'[q] \in {"probing", "clearing"}
                         /\ at'[q] = "probing" => owner'[q] = lock'.by
                         /\ at'[q] = "clearing" => ~ Has(lock.by)'
      BY <2>1, <2>2, <2>3 DEF LockInv, Judged
  <2>6. QED BY <2>3, <2>4, <2>5 DEF Judged
<1>4. QED BY <1>1, <1>2, <1>3 DEF LockNext

\* Mutual exclusion of migrations (Exclusive, __init__.py:148-157).
THEOREM LockExcludes == LockSpec => []Exclusive
<1>1. LockInit => LockInv
    BY DEF LockInit, LockInv, LockTypeOK, Held, Judged, Has, Places
<1>2. LockInv => Exclusive
    BY DEF LockInv, Held, Has, Exclusive
<1>3. QED BY <1>1, <1>2, LockInvStep, PTL DEF LockSpec
================================================================================
