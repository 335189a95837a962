----------------------------- MODULE AuditLog_proofs ---------------------------
(***************************************************************************)
(* The audit log for any segment size, any retention settings, any number  *)
(* of records and any number of failures: the order of the log, what is    *)
(* pruned, and what a follower prints of it.                               *)
(***************************************************************************)
EXTENDS AuditLog, FiniteSetTheorems, WellFoundedInduction, TLAPS

(***************************************************************************)
(* What holds of the files, whoever reads them.                            *)
(***************************************************************************)

\* A file has one place, is named by the record that created it, and was empty then.
Files ==
    /\ \A o \in Ordinals, f \in Records : dir[o] = f =>
          /\ o <= last /\ o <= top /\ f <= last
          /\ \A q \in Ordinals : dir[q] = f => q = o
    /\ \A f \in Records : f > last => data[f] = <<>>

\* The records in a file have been made; the one being written is in no file yet.
Made ==
    \A f \in Records : \A r \in RecordsIn(f) : r <= last /\ (writer.pc = "write" => r < last)

\* Nothing is newer than the segment the writer appends to.
Place ==
    /\ writer.cur # None => writer.cur <= last + 1 /\ \A o \in Segments : o <= writer.cur
    /\ writer.pc = "unlink" => writer.cur # None /\ writer.doomed # {}
    /\ writer.pc # "unlink" => writer.doomed = {}
    /\ \A o \in writer.doomed : o \in Segments /\ o # writer.cur

\* In a file the records are in order, also in one that was deleted ...
FilesInOrder == \A f \in Records : \A i, j \in Whole(f) : i < j => data[f][i] < data[f][j]

\* ... and so they are from one segment to the next.
SegmentsInOrder ==
    \A o, q \in Ordinals, f, g \in Records : dir[o] = f /\ dir[q] = g /\ o < q =>
        \A r \in RecordsIn(f), s \in RecordsIn(g) : r < s

\* The follower's position: what it has open, and the segments it knows of.
Position ==
    /\ reader.pc = "off" => shown = <<>> /\ reader.from = None
    /\ reader.pc = "history" =>
          /\ reader.newest \in reader.todo /\ reader.from = reader.newest
          /\ \A o \in reader.todo : o <= reader.newest
    /\ reader.pc \in {"attach", "read", "stat"} => reader.files # {}
    /\ reader.pc \in {"off", "history", "attach"} => reader.file = None
    /\ reader.pc \in {"read", "stat"} => reader.file # None
    /\ reader.file # None =>
          /\ reader.cur # None /\ reader.file <= last
          /\ \A o \in Ordinals : dir[o] = reader.file => o = reader.cur
    /\ reader.atEnd => reader.pc \in {"list", "attach"} /\ reader.file = None /\ reader.from = None
    /\ \A o \in reader.todo \cup reader.files : o <= top
    /\ reader.cur # None => reader.cur <= top
    /\ reader.from # None => reader.from <= top

LogInv == TypeOK /\ Files /\ Made /\ Place /\ FilesInOrder /\ SegmentsInOrder /\ Position

\* Where the writer appends no torn line is open, but for one it has failed to close.
NoneOpen ==
    writer.pc \in {"idle", "write", "prune", "unlink"} =>
        \A o \in Ordinals : o = Known /\ TornAtEnd(o) => "repair" \in trouble

\* A doomed segment has passed one of the limits.
DoomedByTheLimits ==
    \A o \in writer.doomed :
        \/ limit.files > 0 /\ Cardinality({q \in Segments : q > o}) >= limit.files
        \/ limit.aging /\ \A f \in Records : dir[o] = f => \A r \in RecordsIn(f) : r <= old

\* What is older than a doomed segment is doomed, or has nothing to show.
DoomedAreOldest ==
    "unlink" \notin trouble =>
        \A o \in writer.doomed, q \in Ordinals, f \in Records :
            dir[q] = f /\ q \notin writer.doomed /\ q < o => RecordsIn(f) = {}

(***************************************************************************)
(* What holds of the follower while no doomed segment has stayed: nothing  *)
(* it has still to print is older than what it has printed.                *)
(***************************************************************************)

ShownSet == {shown[k] : k \in DOMAIN shown}
ShownInOrder == \A i, j \in DOMAIN shown : i < j => shown[i] < shown[j]
ShownAreMade == \A s \in ShownSet : s <= last /\ (writer.pc = "write" => s < last)

\* A file's records, or those after the first n places, are newer than all that was shown.
Newer(f) == \A r \in RecordsIn(f), s \in ShownSet : s < r
NewerAfter(f, n) == \A i \in Whole(f), s \in ShownSet : i > n => s < data[f][i]
NewerFrom(p) == \A o \in Ordinals, f \in Records : dir[o] = f /\ o >= p => Newer(f)
AllNewer == \A o \in Ordinals, f \in Records : dir[o] = f => Newer(f)

\* The history goes by the ordinals, from the oldest it has still to read.
InHistory == \A t \in reader.todo : NewerFrom(t)

\* The segment to open is there, with what was not shown of it.
FromHere ==
    /\ NewerFrom(reader.from + 1)
    /\ \E f \in Records :
          dir[reader.from] = f /\ reader.offset <= Len(data[f]) /\ NewerAfter(f, reader.offset)

ToAttach ==
    \/ AllNewer
    \/ /\ reader.from # None
       /\ FromHere
       /\ reader.pc = "attach" => /\ reader.from \in reader.files
                                  /\ \A o \in reader.files : o > reader.from => dir[o] # None
    \/ reader.atEnd /\ (reader.pc = "attach" => NewerFrom(Newest(reader.files) + 1))

\* The file that is open is a segment, or was one; then all segments are newer.
Attached ==
    \E f \in Records, cur \in Ordinals :
        /\ f = reader.file /\ cur = reader.cur
        /\ NewerAfter(f, reader.pos)
        /\ \/ /\ dir[cur] = f
              /\ NewerFrom(cur + 1)
              /\ \/ AllNewer
                 \/ /\ reader.pos <= Len(data[f])
                    /\ reader.pc = "read" => \A o \in reader.files : o > cur => dir[o] # None
           \/ /\ dir[cur] # f
              /\ AllNewer
              /\ \A o \in Ordinals, g \in Records : dir[o] = g =>
                    \A r \in RecordsIn(g), s \in RecordsIn(f) : s < r

OrderInv ==
    "unlink" \notin trouble =>
        /\ ShownInOrder
        /\ reader.pc = "history" => InHistory
        /\ reader.pc \in {"list", "attach"} /\ reader.file = None => ToAttach
        /\ reader.file # None => Attached

(***************************************************************************)
(* What holds of it while it has not lost its place and no number was used *)
(* twice: nothing older than what it will print next is missing.           *)
(***************************************************************************)

NoneSkipped ==
    \A o \in Ordinals, f \in Records : dir[o] = f =>
        \A r \in RecordsIn(f) : r \in ShownSet \/ \A s \in ShownSet : s < r

\* Every record of a segment older than p has been shown, if the log goes on from p.
GoesOnFrom(p) == (\E t \in Segments : t >= p) \/ (writer.cur # None /\ writer.cur > top)
Behind(p) ==
    GoesOnFrom(p) =>
        \A o \in Ordinals, f \in Records : dir[o] = f /\ o < p => RecordsIn(f) \subseteq ShownSet
ShownUpTo(f, n) == n <= Len(data[f]) /\ \A i \in Whole(f) : i <= n => data[f][i] \in ShownSet

\* The history has still every segment there was when it began, from the one it reads next.
HistoryToRead ==
    reader.pc = "history" =>
        \A t \in reader.todo : (\A u \in reader.todo : t <= u) =>
            Behind(t) /\ \A o \in Segments : o >= t => o \in reader.todo \/ o > reader.newest

\* What comes before the place to go on from has been shown.
PlaceToGoOn ==
    reader.pc \in {"list", "attach"} /\ reader.file = None =>
        /\ reader.from = None => reader.atEnd
        /\ \A from \in Ordinals : from = reader.from =>
              Behind(from) /\ \A f \in Records : dir[from] = f => ShownUpTo(f, reader.offset)

\* A listing has every segment there is, but for those that have come since.
Listed ==
    reader.pc \in {"attach", "read"} =>
        \A o \in Segments : o \in reader.files \/ \A q \in reader.files : q < o

\* What comes before the position in the file that is open has been shown.
PlaceInFile ==
    \A f \in Records, cur \in Ordinals :
        f = reader.file /\ cur = reader.cur =>
            /\ Behind(cur) /\ ShownUpTo(f, reader.pos) /\ dir[cur] \in {None, f}
            /\ dir[cur] = None =>
                  \A o \in Ordinals, g \in Records : dir[o] = g =>
                      \A r \in RecordsIn(g), s \in RecordsIn(f) : r \in ShownSet \/ s < r

MissesNothing == NoneSkipped /\ HistoryToRead /\ PlaceToGoOn /\ Listed /\ PlaceInFile

MissInv == ~ reader.blind /\ "number" \notin trouble => MissesNothing
--------------------------------------------------------------------------------
(* Numbers.                                                                *)

\* A set of naturals has a least element.
LEMMA LeastOf ==
    ASSUME NEW T \in SUBSET Nat, T # {}
    PROVE  \E n \in T : \A m \in T : n <= m
<1>1. PICK n \in T : \A m \in T : <<m, n>> \notin OpToRel(<, Nat)
  BY NatLessThanWellFounded, WFMin, Zenon
<1>2. \A m \in T : ~ (m < n)
  BY <1>1, Zenon DEF OpToRel
<1> QED
  BY <1>2

\* Induction, for a set of naturals.
LEMMA Induction ==
    ASSUME NEW S \in SUBSET Nat, 0 \in S, \A n \in S : n + 1 \in S
    PROVE  S = Nat
<1> SUFFICES ASSUME Nat \ S # {} PROVE FALSE
  OBVIOUS
<1>1. PICK n \in Nat \ S : \A m \in Nat \ S : n <= m
  BY LeastOf
<1>2. n # 0 /\ n - 1 \in Nat /\ n - 1 \in S
  BY <1>1
<1> QED
  BY <1>1, <1>2

\* The oldest and the newest of some segments are among them.
LEMMA OldestIs ==
    ASSUME NEW T \in SUBSET Ordinals, T # {}
    PROVE  Oldest(T) \in T /\ \A q \in T : Oldest(T) <= q
<1>1. T \in SUBSET Nat
  BY BoundsAreNaturals DEF Ordinals
<1>2. \E o \in T : \A q \in T : o <= q
  BY <1>1, LeastOf
<1> QED
  BY <1>2 DEF Oldest

\* ... also for numbers that are bounded.
LEMMA NewestIs ==
    ASSUME NEW T \in SUBSET Nat, NEW m \in Nat, T # {}, \A q \in T : q <= m
    PROVE  Newest(T) \in T /\ \A q \in T : q <= Newest(T)
<1> DEFINE U == {m - q : q \in T}
<1>0. \A q \in T : m - q \in Nat
  OBVIOUS
<1>0a. U \in SUBSET Nat /\ U # {}
  BY <1>0
<1>1. PICK u \in U : \A v \in U : u <= v
  <2> HIDE DEF U
  <2> QED
    BY <1>0a, LeastOf
<1>2. PICK o \in T : u = m - o
  BY <1>1
<1>3. \A q \in T : m - o <= m - q
  BY <1>1, <1>2
<1>4. \E n \in T : \A q \in T : n >= q
  BY <1>3
<1> QED
  BY <1>4 DEF Newest

--------------------------------------------------------------------------------
(* What a reader prints.                                                   *)

\* One step of the walk over a file's places.
Walk(content, places, upTo, i) ==
    IF i = 0 THEN <<>>
    ELSE IF i \in places THEN Append(upTo[i - 1], content[i]) ELSE upTo[i - 1]

\* The walk is a function: its recursion has a solution.
LEMMA PickedWalks ==
    ASSUME NEW content, NEW places, Len(content) \in Nat
    PROVE  \E w : /\ w = [i \in 0 .. Len(content) |-> Walk(content, places, w, i)]
                  /\ Picked(content, places) = w[Len(content)]
<1> DEFINE L == Len(content)
           Walks(n, w) == w = [i \in 0 .. n |-> Walk(content, places, w, i)]
           S == {n \in Nat : \E w : Walks(n, w)}
<1>1. 0 \in S
  <2> DEFINE w == [i \in 0 .. 0 |-> <<>>]
  <2>1. Walks(0, w)
    BY DEF Walk
  <2> QED
    BY <2>1
<1>2. ASSUME NEW n \in S PROVE n + 1 \in S
  <2>1. PICK w : Walks(n, w)
    OBVIOUS
  <2> DEFINE x == [i \in 0 .. n + 1 |-> IF i = n + 1 THEN Walk(content, places, w, i) ELSE w[i]]
  <2> HIDE DEF Walks, x
  <2>2. \A i \in 0 .. n + 1 : x[i] = Walk(content, places, x, i)
    <3> SUFFICES ASSUME NEW i \in 0 .. n + 1 PROVE x[i] = Walk(content, places, x, i)
      OBVIOUS
    <3>1. i # 0 => x[i - 1] = w[i - 1]
      BY DEF x
    <3>2. Walk(content, places, x, i) = Walk(content, places, w, i)
      BY <3>1 DEF Walk
    <3>3. i \in 0 .. n => w[i] = Walk(content, places, w, i)
      BY <2>1 DEF Walks
    <3> QED
      BY <3>2, <3>3 DEF x
  <2>3. x = [i \in 0 .. n + 1 |-> Walk(content, places, x, i)]
    BY <2>2 DEF x
  <2>4. Walks(n + 1, x)
    BY <2>3 DEF Walks
  <2> QED
    BY <2>4
<1>3. S = Nat
  BY <1>1, <1>2, Induction
<1>4. PICK w : Walks(L, w)
  BY <1>3
<1>5. \E v : Walks(L, v) /\ Picked(content, places) = v[L]
  BY <1>4 DEF Picked, Walk
<1> QED
  BY <1>5

\* What stands at the places, and nothing else, in the order of the places.
LEMMA PickedIs ==
    ASSUME NEW content, Len(content) \in Nat,
           NEW places \in SUBSET (1 .. Len(content)), \A i \in places : content[i] \in Records,
           \A i, j \in places : i < j => content[i] < content[j]
    PROVE  LET picked == Picked(content, places)
           IN  /\ picked \in Seq(Records)
               /\ \A k \in DOMAIN picked : \E i \in places : picked[k] = content[i]
               /\ \A i \in places : \E k \in DOMAIN picked : picked[k] = content[i]
               /\ \A k, l \in DOMAIN picked : k < l => picked[k] < picked[l]
<1> DEFINE L == Len(content)
           Right(n, s) ==
               /\ s \in Seq(Records)
               /\ \A k \in DOMAIN s : \E i \in places : i <= n /\ s[k] = content[i]
               /\ \A i \in places : i <= n => \E k \in DOMAIN s : s[k] = content[i]
               /\ \A k, l \in DOMAIN s : k < l => s[k] < s[l]
<1>1. PICK w : /\ w = [i \in 0 .. L |-> Walk(content, places, w, i)]
               /\ Picked(content, places) = w[L]
  BY PickedWalks
<1> DEFINE S == {n \in Nat : n <= L => Right(n, w[n])}
<1>0. \A i \in 0 .. L : w[i] = Walk(content, places, w, i)
  BY <1>1
<1>2. 0 \in S
  <2>1. w[0] = <<>>
    BY <1>0 DEF Walk
  <2>2. /\ <<>> \in Seq(Records) /\ DOMAIN <<>> = {}
        /\ \A i \in places : ~ (i <= 0)
    OBVIOUS
  <2>3. Right(0, <<>>)
    BY <2>2
  <2> QED
    BY <2>1, <2>3
<1>3. ASSUME NEW n \in S PROVE n + 1 \in S
  <2> SUFFICES ASSUME n + 1 <= L PROVE Right(n + 1, w[n + 1])
    OBVIOUS
  <2>1. w[n + 1] = IF n + 1 \in places THEN Append(w[n], content[n + 1]) ELSE w[n]
    <3>1. n + 1 \in 0 .. L /\ n + 1 # 0 /\ (n + 1) - 1 = n
      OBVIOUS
    <3> HIDE DEF S
    <3> QED
      BY <1>0, <3>1 DEF Walk
  <2>2. Right(n, w[n])
    OBVIOUS
  <2>3. CASE n + 1 \notin places
    <3>1. \A i \in places : i <= n + 1 => i <= n
      BY <2>3
    <3> QED
      BY <2>1, <2>2, <2>3, <3>1
  <2>4. CASE n + 1 \in places
    <3> DEFINE s == w[n]  c == content[n + 1]  t == Append(s, c)
    <3>0. s \in Seq(Records) /\ c \in Records /\ w[n + 1] = t
      BY <2>1, <2>2, <2>4
    <3> HIDE DEF s, c, t
    <3>1. /\ t \in Seq(Records) /\ DOMAIN t = DOMAIN s \cup {Len(s) + 1}
          /\ t[Len(s) + 1] = c /\ \A k \in DOMAIN s : t[k] = s[k] /\ k < Len(s) + 1
          /\ DOMAIN s \subseteq Nat /\ Len(s) \in Nat
      BY <3>0 DEF t
    <3>2. \A k \in DOMAIN t : \E i \in places : i <= n + 1 /\ t[k] = content[i]
      BY <2>2, <2>4, <3>1 DEF s, c
    <3>3. \A i \in places : i <= n + 1 => \E k \in DOMAIN t : t[k] = content[i]
      <4> SUFFICES ASSUME NEW i \in places, i <= n + 1 PROVE \E k \in DOMAIN t : t[k] = content[i]
        OBVIOUS
      <4>1. CASE i = n + 1
        BY <3>1, <4>1 DEF c
      <4>2. CASE i <= n
        BY <2>2, <3>1, <4>2 DEF s
      <4> QED
        BY <4>1, <4>2
    <3>4. \A k \in DOMAIN s : s[k] < c
      <4> SUFFICES ASSUME NEW k \in DOMAIN s PROVE s[k] < c
        OBVIOUS
      <4>1. PICK i \in places : i <= n /\ s[k] = content[i]
        BY <2>2 DEF s
      <4> QED
        BY <2>4, <4>1 DEF c
    <3>5. \A k, l \in DOMAIN t : k < l => t[k] < t[l]
      <4> SUFFICES ASSUME NEW k \in DOMAIN t, NEW l \in DOMAIN t, k < l PROVE t[k] < t[l]
        OBVIOUS
      <4>1. k \in DOMAIN s
        BY <3>1
      <4>2. CASE l \in DOMAIN s
        <5>1. s[k] < s[l]
          BY <2>2, <4>1, <4>2 DEF s
        <5> QED
          BY <3>1, <4>1, <4>2, <5>1
      <4>3. CASE l = Len(s) + 1
        BY <3>1, <3>4, <4>1, <4>3
      <4> QED
        BY <3>1, <4>2, <4>3
    <3> QED
      BY <3>0, <3>1, <3>2, <3>3, <3>5
  <2> QED
    BY <2>3, <2>4
<1>4. S = Nat
  BY <1>2, <1>3, Induction
<1>5. Right(L, w[L])
  BY <1>4
<1>6. \A i \in places : i <= L
  OBVIOUS
<1> HIDE DEF S
<1> QED
  BY <1>1, <1>5, <1>6

--------------------------------------------------------------------------------
(* Files, and what a step can do to them.                                  *)

\* A well-typed file's places, its records and its length.
LEMMA FileTypes ==
    ASSUME TypeOK, NEW f \in Records
    PROVE  /\ data[f] \in Seq(Token) /\ Len(data[f]) \in Nat /\ DOMAIN data[f] = 1 .. Len(data[f])
           /\ \A i \in DOMAIN data[f] : data[f][i] \in Token
           /\ Whole(f) \subseteq 1 .. Len(data[f])
           /\ \A i \in Whole(f) : data[f][i] \in Records /\ data[f][i] \in RecordsIn(f)
           /\ RecordsIn(f) \subseteq Records
           /\ f \in Nat /\ Records \subseteq Nat /\ Ordinals \subseteq Nat
<1>1. data[f] \in Seq(Token)
  BY DEF TypeOK
<1>2. /\ Len(data[f]) \in Nat /\ DOMAIN data[f] = 1 .. Len(data[f])
      /\ \A i \in DOMAIN data[f] : data[f][i] \in Token
  BY <1>1
<1>3. Records \subseteq Nat /\ Ordinals \subseteq Nat
  BY BoundsAreNaturals DEF Records, Ordinals
<1>4. Whole(f) \subseteq 1 .. Len(data[f]) /\ \A i \in Whole(f) : data[f][i] \in Records
  BY <1>2 DEF Whole
<1>5. RecordsIn(f) \subseteq Records /\ \A i \in Whole(f) : data[f][i] \in RecordsIn(f)
  BY <1>4 DEF RecordsIn
<1> QED
  BY <1>1, <1>2, <1>3, <1>4, <1>5

\* No mark is a record or an ordinal.
LEMMA MarksAreNoNumbers ==
    /\ None \notin Records /\ None \notin Ordinals
    /\ Torn \notin Records /\ Newline \notin Records
  BY MarksAreMarks, BoundsAreNaturals DEF Records, Ordinals

\* A segment is an ordinal with a file.
LEMMA SegmentIs ==
    ASSUME TypeOK, NEW o \in Ordinals
    PROVE  o \in Segments <=> dir[o] \in Records
  BY MarksAreNoNumbers DEF TypeOK, Segments

\* The newest and the oldest segment there are.
LEMMA NewestSegment ==
    ASSUME TypeOK, Segments # {}
    PROVE  Newest(Segments) \in Segments /\ \A q \in Segments : q <= Newest(Segments)
<1>1. MaxRecords + 1 \in Nat /\ Segments \in SUBSET Nat /\ \A q \in Segments : q <= MaxRecords + 1
  BY BoundsAreNaturals DEF Segments, Ordinals
<1> QED
  BY <1>1, NewestIs

\* A file only grows; a record it gets is the one being written, to the writer's segment.
Grows ==
    \A g \in Records :
        /\ Len(data[g]) <= Len(data'[g])
        /\ \A i \in DOMAIN data[g] : data'[g][i] = data[g][i]
        /\ \A i \in DOMAIN data'[g] \ DOMAIN data[g] : data'[g][i] \in Records =>
              /\ i = Len(data[g]) + 1 /\ data'[g][i] = last
              /\ writer.pc = "write" /\ dir[writer.cur] = g
        /\ data'[g] = data[g] \/ \E o \in Segments : dir[o] = g

\* What that means for its records.
LEMMA GrowsTo ==
    ASSUME TypeOK, TypeOK', Grows, NEW g \in Records
    PROVE  /\ Len(data[g]) <= Len(data'[g])
           /\ \A i \in Whole(g) : i \in Whole(g)' /\ data'[g][i] = data[g][i]
           /\ \A i \in Whole(g)' : i \in Whole(g) \/
                 /\ i = Len(data[g]) + 1 /\ data'[g][i] = last
                 /\ writer.pc = "write" /\ dir[writer.cur] = g
           /\ RecordsIn(g) \subseteq RecordsIn(g)'
           /\ \A r \in RecordsIn(g)' :
                 \/ r \in RecordsIn(g)
                 \/ r = last /\ writer.pc = "write" /\ dir[writer.cur] = g
<1>1. /\ Len(data[g]) \in Nat /\ DOMAIN data[g] = 1 .. Len(data[g])
      /\ Len(data'[g]) \in Nat /\ DOMAIN data'[g] = 1 .. Len(data'[g])
  BY DEF TypeOK
<1>2. /\ Len(data[g]) <= Len(data'[g])
      /\ \A i \in DOMAIN data[g] : data'[g][i] = data[g][i]
      /\ \A i \in DOMAIN data'[g] \ DOMAIN data[g] : data'[g][i] \in Records =>
              /\ i = Len(data[g]) + 1 /\ data'[g][i] = last
              /\ writer.pc = "write" /\ dir[writer.cur] = g
  BY DEF Grows
<1>3. \A i \in Whole(g) : i \in Whole(g)' /\ data'[g][i] = data[g][i]
  BY <1>1, <1>2 DEF Whole
<1>4. \A i \in Whole(g)' : i \in Whole(g) \/
                 /\ i = Len(data[g]) + 1 /\ data'[g][i] = last
                 /\ writer.pc = "write" /\ dir[writer.cur] = g
  <2> SUFFICES ASSUME NEW i \in Whole(g)', i \notin Whole(g)
               PROVE  /\ i = Len(data[g]) + 1 /\ data'[g][i] = last
                      /\ writer.pc = "write" /\ dir[writer.cur] = g
    OBVIOUS
  <2>1. /\ i \in DOMAIN data'[g] /\ data'[g][i] \in Records
        /\ i > 1 => data'[g][i - 1] # Torn
    BY DEF Whole
  <2>2. i \notin DOMAIN data[g]
    <3> SUFFICES ASSUME i \in DOMAIN data[g] PROVE FALSE
      OBVIOUS
    <3>1. data[g][i] \in Records
      BY <1>2, <2>1
    <3>2. i > 1 => i - 1 \in DOMAIN data[g]
      BY <1>1
    <3>3. i > 1 => data[g][i - 1] # Torn
      BY <1>2, <2>1, <3>2
    <3> QED
      BY <3>1, <3>3 DEF Whole
  <2> QED
    BY <1>2, <2>1, <2>2
<1>5. RecordsIn(g) \subseteq RecordsIn(g)'
  BY <1>3 DEF RecordsIn
<1>6. \A r \in RecordsIn(g)' :
        \/ r \in RecordsIn(g)
        \/ r = last /\ writer.pc = "write" /\ dir[writer.cur] = g
  BY <1>3, <1>4 DEF RecordsIn
<1> QED
  BY <1>2, <1>3, <1>4, <1>5, <1>6

\* Nothing grows where nothing is written.
LEMMA SameGrows ==
    ASSUME TypeOK, data' = data
    PROVE  Grows
  BY DEF Grows, TypeOK

\* Appending to a file makes it grow.
LEMMA AppendGrows ==
    ASSUME TypeOK, NEW f \in Records, NEW t \in Token, \E o \in Segments : dir[o] = f,
           data' = [data EXCEPT ![f] = Append(@, t)],
           t \in Records => t = last /\ writer.pc = "write" /\ dir[writer.cur] = f
    PROVE  Grows /\ data' \in [Records -> Seq(Token)]
<1>1. data \in [Records -> Seq(Token)]
  BY DEF TypeOK
<1>2. data' \in [Records -> Seq(Token)]
  BY <1>1
<1>3. /\ data'[f] = Append(data[f], t) /\ data[f] \in Seq(Token)
      /\ \A g \in Records \ {f} : data'[g] = data[g] /\ data[g] \in Seq(Token)
  BY <1>1
<1>4. /\ Len(data'[f]) = Len(data[f]) + 1 /\ Len(data[f]) \in Nat
      /\ DOMAIN data'[f] \ DOMAIN data[f] = {Len(data[f]) + 1}
      /\ data'[f][Len(data[f]) + 1] = t
      /\ \A i \in DOMAIN data[f] : data'[f][i] = data[f][i]
  BY <1>3
<1>5. \A g \in Records \ {f} : Len(data[g]) \in Nat /\ Len(data'[g]) = Len(data[g])
  BY <1>3
<1> QED
  BY <1>2, <1>3, <1>4, <1>5 DEF Grows

\* So does what a write leaves that fails.
LEMMA FlushedGrows ==
    ASSUME TypeOK, Flushed, writer.pc = "write", last \in Records
    PROVE  Grows /\ data' \in [Records -> Seq(Token)]
<1>1. PICK text \in {<<>>, <<Torn>>, <<last>>} : data' = [data EXCEPT ![dir[writer.cur]] = @ \o text]
  BY DEF Flushed
<1> DEFINE f == dir[writer.cur]
<1>2. /\ f \in Records /\ data[f] \in Seq(Token) /\ data \in [Records -> Seq(Token)]
      /\ \E o \in Segments : dir[o] = f
  BY MarksAreNoNumbers DEF TypeOK, Writer, Segments
<1>3. CASE text = <<>>
  <2>1. data[f] \o text = data[f]
    BY <1>2, <1>3
  <2>2. data' = data
    BY <1>1, <1>2, <2>1
  <2> QED
    BY <2>2, <1>2, SameGrows
<1>4. CASE text # <<>>
  <2>1. PICK t \in {Torn, last} : text = <<t>>
    BY <1>4
  <2>2. data[f] \o text = Append(data[f], t)
    BY <1>2, <2>1
  <2>3. data' = [data EXCEPT ![f] = Append(@, t)]
    BY <1>1, <2>2
  <2>4. t \in Token /\ (t \in Records => t = last)
    BY <2>1, MarksAreNoNumbers DEF Token
  <2> QED
    BY <1>2, <2>3, <2>4, AppendGrows
<1> QED
  BY <1>3, <1>4

--------------------------------------------------------------------------------
(* The daemon.                                                             *)

\* Where the writer would go on.
LEMMA ResumedIs ==
    ASSUME LogInv
    PROVE  /\ Resumed \in Ordinals /\ Resumed <= last + 1 /\ \A q \in Segments : q <= Resumed
           /\ Resumed \in Segments \/ Segments = {}
<1>1. TypeOK /\ Files
  BY DEF LogInv
<1>2. CASE Segments = {}
  BY <1>1, <1>2, BoundsAreNaturals DEF Resumed, Ordinals, TypeOK
<1>3. CASE Segments # {}
  <2>1. Resumed \in Segments /\ \A q \in Segments : q <= Resumed
    BY <1>1, <1>3, NewestSegment DEF Resumed
  <2>2. Resumed \in Ordinals /\ dir[Resumed] \in Records
    BY <1>1, <2>1, SegmentIs DEF Segments
  <2>3. Resumed <= last
    BY <1>1, <2>2 DEF Files
  <2> QED
    BY <1>1, <2>1, <2>2, <2>3 DEF TypeOK, Ordinals
<1> QED
  BY <1>2, <1>3

\* The segment the writer has, or would resume, is the newest there can be.
LEMMA KnownIs ==
    ASSUME LogInv
    PROVE  /\ Known \in Ordinals /\ Known <= last + 1 /\ \A q \in Segments : q <= Known
           /\ writer.cur = None => Known \in Segments \/ Segments = {}
<1>1. writer.cur \in Ordinals \cup {None} /\ Place
  BY DEF LogInv, TypeOK, Writer
<1> QED
  BY <1>1, ResumedIs, MarksAreNoNumbers DEF Known, Place

\* The number of the next segment, when there is a newest one.
LEMMA NextSegmentIs ==
    ASSUME LogInv, NEW o \in Segments
    PROVE  /\ NextSegment(o) \in Ordinals /\ NextSegment(o) <= last + 1
           /\ \A q \in Segments : q < NextSegment(o)
           /\ NextSegment(o) = Newest(Segments) + 1 /\ Newest(Segments) \in Segments
<1>1. TypeOK /\ Files
  BY DEF LogInv
<1>2. Newest(Segments) \in Segments /\ \A q \in Segments : q <= Newest(Segments)
  BY <1>1, NewestSegment
<1>3. Newest(Segments) \in Ordinals /\ dir[Newest(Segments)] \in Records
  BY <1>1, <1>2, SegmentIs DEF Segments
<1>4. Newest(Segments) <= last /\ Segments \cup {o} = Segments
  BY <1>1, <1>3 DEF Files
<1>5. last \in Nat /\ last <= MaxRecords /\ Newest(Segments) \in Nat /\ \A q \in Segments : q \in Nat
  BY <1>1, <1>3, BoundsAreNaturals DEF TypeOK, Ordinals, Segments
<1> QED
  BY <1>2, <1>3, <1>4, <1>5, BoundsAreNaturals DEF NextSegment, Ordinals

\* A full segment, one that has expired and one that is torn are there.
LEMMA ThereIs ==
    ASSUME TypeOK, NEW o \in Ordinals
    PROVE  /\ Full(o) => o \in Segments
           /\ TornAtEnd(o) => o \in Segments
<1>1. dir[o] = None => ~ Full(o)
  <2> SUFFICES ASSUME dir[o] = None PROVE ~ Full(o)
    OBVIOUS
  <2>1. {i \in DOMAIN Lines(o) : Lines(o)[i] # Newline} = {}
    BY DEF Lines
  <2>2. Cardinality({i \in DOMAIN Lines(o) : Lines(o)[i] # Newline}) = 0
    BY <2>1, FS_EmptySet
  <2> QED
    BY <2>2 DEF Full
<1>2. dir[o] = None => ~ TornAtEnd(o)
  BY DEF TornAtEnd, Lines
<1> QED
  BY <1>1, <1>2 DEF Segments

\* What a step makes of the segments: nothing, a new and empty one, or one less.
Keeps == dir' = dir /\ last' = last /\ top' = top
Creates ==
    \E o \in Ordinals :
        /\ writer.pc = "idle" /\ writer'.pc = "write" /\ writer'.cur = o
        /\ dir[o] = None /\ \A q \in Segments : q <= o
        /\ o = Known \/ (Known \in Segments /\ o = Newest(Segments) + 1)
        /\ last' = last + 1 /\ dir' = [dir EXCEPT ![o] = last + 1] /\ data' = data
        /\ IF o > top THEN top' = o /\ trouble' = trouble
                      ELSE top' = top /\ "number" \in trouble'
Counts == last' = last + 1 /\ dir' = dir /\ top' = top /\ data' = data /\ writer.pc = "idle"
Removes ==
    /\ writer.pc = "unlink"
    /\ \E o \in writer.doomed :
          /\ \A q \in writer.doomed : o <= q
          /\ dir' = [dir EXCEPT ![o] = None]
    /\ last' = last /\ top' = top /\ data' = data /\ trouble' = trouble /\ limit' = limit /\ old' = old
    /\ writer'.cur = writer.cur

DaemonStep ==
    /\ Grows
    /\ Keeps \/ Creates \/ Counts \/ Removes
    /\ writer'.pc = "write" =>
          \/ writer.pc = "idle" /\ last' = last + 1
          \/ writer' = writer /\ data' = data /\ last' = last
    /\ \/ writer'.cur \in {None, writer.cur, Known, Resumed}
       \/ Known \in Segments /\ writer'.cur = Newest(Segments) + 1
    /\ reader' = reader /\ shown' = shown
    /\ \A t \in {"unlink", "number"} : t \in trouble => t \in trouble'

\* record() takes the next number and, where it has to, creates the segment.
LEMMA RecordStep ==
    ASSUME LogInv, Record
    PROVE  TypeOK' /\ Place' /\ DaemonStep
<1> USE DEF LogInv
<1> DEFINE rolled == Full(Known)
           cur == IF rolled THEN NextSegment(Known) ELSE Known
<1>1. /\ Known \in Ordinals /\ Known <= last + 1 /\ \A q \in Segments : q <= Known
      /\ writer.cur = None => Known \in Segments \/ Segments = {}
      /\ rolled => Known \in Segments
  BY KnownIs, ThereIs
<1>2. /\ cur \in Ordinals /\ cur <= last + 1 /\ \A q \in Segments : q <= cur
      /\ cur = Known \/ (Known \in Segments /\ cur = Newest(Segments) + 1)
      /\ rolled => dir[cur] = None
  <2>1. CASE rolled
    <3>1. /\ NextSegment(Known) \in Ordinals /\ NextSegment(Known) <= last + 1
          /\ \A q \in Segments : q < NextSegment(Known)
          /\ NextSegment(Known) = Newest(Segments) + 1
      BY <1>1, <2>1, NextSegmentIs
    <3>2. NextSegment(Known) \notin Segments
      BY <3>1, BoundsAreNaturals DEF Ordinals
    <3> QED
      BY <1>1, <2>1, <3>1, <3>2, BoundsAreNaturals DEF Segments, Ordinals
  <2>2. CASE ~ rolled
    BY <1>1, <2>2
  <2> QED
    BY <2>1, <2>2
<1>3. /\ writer.pc = "idle" /\ last < MaxRecords /\ last' = last + 1
      /\ data' = data /\ old' = old /\ limit' = limit /\ reader' = reader /\ shown' = shown
  BY DEF Record, readerVars
<1>4. last' \in Records /\ last' \in 0 .. MaxRecords /\ old' \in 0 .. last'
  BY <1>3, BoundsAreNaturals DEF TypeOK, Records
<1>5. Grows
  BY <1>3, SameGrows
<1> HIDE DEF rolled, cur
<1>6. CASE /\ writer' = [writer EXCEPT !.pc = "write", !.cur = cur, !.rolled = rolled] /\ Fine
           /\ IF dir[cur] # None THEN UNCHANGED <<dir, top, trouble>>
                 ELSE /\ dir' = [dir EXCEPT ![cur] = last']
                      /\ top' = IF cur > top THEN cur ELSE top
                      /\ trouble' = IF cur > top THEN trouble ELSE trouble \cup {"number"}
  <2>1. /\ writer' \in Writer /\ writer'.pc = "write" /\ writer'.cur = cur /\ writer'.doomed = writer.doomed
    BY <1>2, <1>6 DEF TypeOK, Writer, rolled, Full
  <2>2. cur # None
    BY <1>2, MarksAreNoNumbers
  <2>3. CASE dir[cur] # None
    <3>1. UNCHANGED <<dir, top, trouble>>
      BY <1>6, <2>3
    <3>2. TypeOK'
      BY <1>3, <1>4, <1>6, <2>1, <2>2, <2>3, <3>1 DEF TypeOK, Fine
    <3>3. Place'
      BY <1>2, <1>3, <2>1, <2>2, <3>1 DEF Place, Segments, TypeOK, Ordinals
    <3> QED
      BY <1>2, <1>3, <1>5, <2>1, <3>1, <3>2, <3>3 DEF DaemonStep, Counts
  <2>4. CASE dir[cur] = None
    <3>1. /\ dir' = [dir EXCEPT ![cur] = last']
          /\ top' = IF cur > top THEN cur ELSE top
          /\ trouble' = IF cur > top THEN trouble ELSE trouble \cup {"number"}
      BY <1>6, <2>4
    <3>2. dir' \in [Ordinals -> Records \cup {None}] /\ dir'[cur] = last' /\ last' # None
      BY <1>2, <1>4, <3>1, MarksAreNoNumbers DEF TypeOK
    <3>3. TypeOK'
      BY <1>2, <1>3, <1>4, <1>6, <2>1, <2>2, <3>1, <3>2 DEF TypeOK, Fine
    <3>4. Segments' = Segments \cup {cur}
      BY <1>2, <3>1, <3>2 DEF Segments, TypeOK
    <3>5. Place'
      BY <1>2, <1>3, <2>1, <2>2, <3>4, BoundsAreNaturals DEF Place, TypeOK, Ordinals
    <3>6. Creates
      BY <1>2, <1>3, <2>1, <2>4, <3>1 DEF Creates
    <3> QED
      BY <1>2, <1>3, <1>5, <2>1, <3>1, <3>3, <3>5, <3>6 DEF DaemonStep
  <2> QED
    BY <2>3, <2>4
<1>7. CASE writer' = [writer EXCEPT !.pc = "recover"] /\ Fault /\ UNCHANGED <<dir, top, trouble>>
  <2>1. /\ writer' \in Writer /\ writer'.pc = "recover"
        /\ writer'.cur = writer.cur /\ writer'.doomed = writer.doomed
    BY <1>7 DEF TypeOK, Writer
  <2>2. TypeOK'
    BY <1>3, <1>4, <1>7, <2>1, BoundsAreNaturals DEF TypeOK, Fault
  <2>3. Place'
    BY <1>3, <1>7, <2>1 DEF Place, Segments, TypeOK, Writer, Ordinals
  <2> QED
    BY <1>3, <1>5, <1>7, <2>1, <2>2, <2>3 DEF DaemonStep, Counts
<1> QED
  BY <1>6, <1>7 DEF Record, cur, rolled

\* The write itself.
LEMMA WriteStep ==
    ASSUME LogInv, Write
    PROVE  TypeOK' /\ Place' /\ DaemonStep
<1> USE DEF LogInv
<1> DEFINE f == dir[writer.cur]
<1>1. /\ writer.pc = "write" /\ data' = [data EXCEPT ![f] = Append(@, last)]
      /\ writer' = [writer EXCEPT !.pc = IF writer.rolled THEN "prune" ELSE "idle", !.rolled = FALSE]
      /\ UNCHANGED <<dir, last, old, limit, top, trouble, reader, shown>> /\ Fine
  BY DEF Write, readerVars
<1>2. f \in Records /\ writer.cur \in Segments /\ f # None
  BY <1>1, MarksAreNoNumbers DEF TypeOK, Writer, Segments
<1>3. last \in Records
  BY <1>2, BoundsAreNaturals DEF Files, Records, Segments, TypeOK
<1>4. Grows /\ data' \in [Records -> Seq(Token)]
  BY <1>1, <1>2, <1>3, AppendGrows DEF Token
<1>5. /\ writer' \in Writer /\ writer'.pc \in {"idle", "prune"} /\ writer'.cur = writer.cur
      /\ writer'.doomed = writer.doomed
  BY <1>1 DEF TypeOK, Writer
<1>6. TypeOK'
  BY <1>1, <1>4, <1>5 DEF TypeOK, Fine
<1>7. Place'
  BY <1>1, <1>5 DEF Place, Segments
<1> QED
  BY <1>1, <1>4, <1>5, <1>6, <1>7 DEF DaemonStep, Keeps

\* A write that fails.
LEMMA WriteFailsStep ==
    ASSUME LogInv, WriteFails
    PROVE  TypeOK' /\ Place' /\ DaemonStep
<1> USE DEF LogInv
<1>1. /\ writer.pc = "write" /\ Flushed /\ writer' = [writer EXCEPT !.pc = "recover", !.rolled = FALSE]
      /\ UNCHANGED <<dir, last, old, limit, top, trouble, reader, shown>> /\ Fault
  BY DEF WriteFails, readerVars
<1>2. last \in Records
  BY <1>1, MarksAreNoNumbers, BoundsAreNaturals DEF Files, Records, TypeOK, Writer
<1>3. Grows /\ data' \in [Records -> Seq(Token)]
  BY <1>1, <1>2, FlushedGrows
<1>4. /\ writer' \in Writer /\ writer'.pc = "recover" /\ writer'.cur = writer.cur
      /\ writer'.doomed = writer.doomed
  BY <1>1 DEF TypeOK, Writer
<1>5. TypeOK'
  BY <1>1, <1>3, <1>4, BoundsAreNaturals DEF TypeOK, Fault
<1>6. Place'
  BY <1>1, <1>4 DEF Place, Segments
<1> QED
  BY <1>1, <1>3, <1>4, <1>5, <1>6 DEF DaemonStep, Keeps

\* Closing a torn line, or leaving the files alone.
LEMMA RepairedIs ==
    ASSUME LogInv, data' = Repaired(Resumed)
    PROVE  Grows /\ data' \in [Records -> Seq(Token)]
<1> USE DEF LogInv
<1>1. CASE ~ TornAtEnd(Resumed)
  BY <1>1, SameGrows DEF Repaired, TypeOK
<1>2. CASE TornAtEnd(Resumed)
  <2>1. Resumed \in Segments /\ dir[Resumed] \in Records
    BY <1>2, ResumedIs, ThereIs, SegmentIs
  <2>2. data' = [data EXCEPT ![dir[Resumed]] = Append(@, Newline)]
    BY <1>2 DEF Repaired
  <2> QED
    BY <2>1, <2>2, AppendGrows, MarksAreNoNumbers DEF Token
<1> QED
  BY <1>1, <1>2

\* Resuming, in record() or in the constructor.
LEMMA RecoverStep ==
    ASSUME LogInv, Recover
    PROVE  TypeOK' /\ Place' /\ DaemonStep
<1> USE DEF LogInv
<1> DEFINE then == IF writer.pc = "start" THEN "prune" ELSE "idle"
<1>1. /\ writer.pc \in {"recover", "start"}
      /\ UNCHANGED <<dir, last, old, limit, top, reader, shown>>
  BY DEF Recover, readerVars
<1>2. PICK cur \in {Resumed, Unlisted} : writer' = [writer EXCEPT !.pc = then, !.cur = cur]
  BY DEF Recover
<1>3. Grows /\ data' \in [Records -> Seq(Token)]
  <2>1. CASE data' = data
    BY <2>1, SameGrows DEF TypeOK
  <2>2. CASE data' = Repaired(Resumed)
    BY <2>2, RepairedIs
  <2> QED
    BY <2>1, <2>2 DEF Recover
<1>4. /\ trouble' \subseteq {"repair", "unlink", "number"}
      /\ \A t \in {"unlink", "number"} : t \in trouble => t \in trouble'
  BY DEF Recover, TypeOK
<1>5. faults' \in 0 .. MaxFaults
  BY BoundsAreNaturals DEF Recover, Fine, Fault, TypeOK
<1>6. cur \in Ordinals \cup {None} /\ (cur # None => cur = Resumed)
  BY <1>2, ResumedIs DEF Unlisted
<1>7. /\ writer' \in Writer /\ writer'.pc \in {"prune", "idle"} /\ writer'.cur = cur
      /\ writer'.doomed = writer.doomed
  BY <1>2, <1>6 DEF TypeOK, Writer
<1>8. TypeOK'
  BY <1>1, <1>3, <1>4, <1>5, <1>7 DEF TypeOK
<1>9. Place'
  BY <1>1, <1>6, <1>7, ResumedIs DEF Place, Segments
<1> QED
  BY <1>1, <1>3, <1>4, <1>6, <1>7, <1>8, <1>9 DEF DaemonStep, Keeps

\* What _prune picks, and what it goes on with.
PruneCur == IF dir[Known] # None /\ Expired(Known) THEN NextSegment(Known) ELSE Known
PruneDoomed ==
    Excess(Segments \ {PruneCur}) \cup {o \in Segments \ {PruneCur} : Expired(o)}

\* What it goes on with is the newest there can be, too.
LEMMA PruneCurIs ==
    ASSUME LogInv
    PROVE  /\ PruneCur \in Ordinals /\ PruneCur <= last + 1 /\ \A q \in Segments : q <= PruneCur
           /\ \/ PruneCur = Known
              \/ Known \in Segments /\ PruneCur = Newest(Segments) + 1 /\ PruneCur \notin Segments
<1>1. CASE dir[Known] # None /\ Expired(Known)
  <2>1. Known \in Segments
    BY <1>1, KnownIs DEF Segments
  <2>2. /\ NextSegment(Known) \in Ordinals /\ NextSegment(Known) <= last + 1
        /\ \A q \in Segments : q < NextSegment(Known)
        /\ NextSegment(Known) = Newest(Segments) + 1
    BY <2>1, NextSegmentIs
  <2>3. \A q \in Segments : q <= NextSegment(Known) /\ NextSegment(Known) # q
    BY <2>2, BoundsAreNaturals DEF Segments, Ordinals
  <2> QED
    BY <1>1, <2>1, <2>2, <2>3 DEF PruneCur
<1>2. CASE ~ (dir[Known] # None /\ Expired(Known))
  BY <1>2, KnownIs DEF PruneCur
<1> QED
  BY <1>1, <1>2

\* Pruning.
LEMMA PruneStep ==
    ASSUME LogInv, Prune
    PROVE  TypeOK' /\ Place' /\ DaemonStep
<1> USE DEF LogInv
<1>1. /\ writer.pc = "prune" /\ writer.doomed = {}
      /\ UNCHANGED <<dir, data, last, old, limit, top, trouble, reader, shown>>
  BY DEF Prune, readerVars, fileVars, Place
<1>2. \/ /\ Fine
         /\ writer' = [writer EXCEPT !.pc = IF PruneDoomed = {} THEN "idle" ELSE "unlink",
                                     !.cur = PruneCur, !.doomed = PruneDoomed]
      \/ /\ Fault
         /\ writer' = [writer EXCEPT !.pc = "idle", !.cur = IF @ = None THEN None ELSE PruneCur]
  BY DEF Prune, PruneCur, PruneDoomed
<1>3. /\ PruneDoomed \subseteq Segments \ {PruneCur} /\ PruneDoomed \subseteq Ordinals
      /\ PruneCur \in Ordinals /\ PruneCur # None
  BY PruneCurIs, MarksAreNoNumbers DEF PruneDoomed, Excess, Segments
<1>4. Grows
  BY <1>1, SameGrows
<1>5. faults' \in 0 .. MaxFaults
  BY <1>2, BoundsAreNaturals DEF Fine, Fault, TypeOK
<1>6. CASE writer' = [writer EXCEPT !.pc = IF PruneDoomed = {} THEN "idle" ELSE "unlink",
                                    !.cur = PruneCur, !.doomed = PruneDoomed]
  <2>1. /\ writer' \in Writer /\ writer'.pc # "write" /\ writer'.cur = PruneCur
        /\ writer'.doomed = PruneDoomed
        /\ writer'.pc = IF PruneDoomed = {} THEN "idle" ELSE "unlink"
    BY <1>3, <1>6 DEF TypeOK, Writer
  <2>2. TypeOK'
    BY <1>1, <1>5, <2>1 DEF TypeOK
  <2>3. Place'
    BY <1>1, <1>3, <2>1, PruneCurIs DEF Place, Segments
  <2> QED
    BY <1>1, <1>4, <2>1, <2>2, <2>3, PruneCurIs DEF DaemonStep, Keeps
<1>7. CASE writer' = [writer EXCEPT !.pc = "idle", !.cur = IF @ = None THEN None ELSE PruneCur]
  <2>1. /\ writer' \in Writer /\ writer'.pc = "idle" /\ writer'.doomed = writer.doomed
        /\ writer'.cur = IF writer.cur = None THEN None ELSE PruneCur
    BY <1>3, <1>7 DEF TypeOK, Writer
  <2>2. TypeOK'
    BY <1>1, <1>5, <2>1 DEF TypeOK
  <2>3. Place'
    BY <1>1, <1>3, <2>1, PruneCurIs DEF Place, Segments
  <2> QED
    BY <1>1, <1>4, <2>1, <2>2, <2>3, PruneCurIs DEF DaemonStep, Keeps
<1> QED
  BY <1>2, <1>6, <1>7

\* A doomed segment goes, or stays.
LEMMA UnlinkStep ==
    ASSUME LogInv, Unlink
    PROVE  TypeOK' /\ Place' /\ DaemonStep
<1> USE DEF LogInv
<1> DEFINE o == Oldest(writer.doomed)
           left == writer.doomed \ {o}
<1>1. /\ writer.pc = "unlink" /\ writer.doomed # {} /\ writer.cur # None
      /\ writer' = [writer EXCEPT !.pc = IF left = {} THEN "idle" ELSE "unlink", !.doomed = left]
      /\ UNCHANGED <<data, last, old, limit, top, reader, shown>>
  BY DEF Unlink, readerVars, Place
<1>2. writer.doomed \in SUBSET Ordinals
  BY DEF TypeOK, Writer
<1>3. o \in writer.doomed /\ \A q \in writer.doomed : o <= q
  BY <1>1, <1>2, OldestIs
<1>4. o \in Segments /\ o \in Ordinals
  BY <1>3, <1>2 DEF Place
<1> HIDE DEF o
<1>5. /\ writer' \in Writer /\ writer'.pc \in {"idle", "unlink"} /\ writer'.cur = writer.cur
      /\ writer'.doomed = left /\ writer'.pc = IF left = {} THEN "idle" ELSE "unlink"
  BY <1>1, <1>2 DEF TypeOK, Writer
<1>6. Grows
  BY <1>1, SameGrows
<1>7. CASE Fine /\ dir' = [dir EXCEPT ![o] = None] /\ trouble' = trouble
  <2>1. TypeOK'
    BY <1>1, <1>4, <1>5, <1>7 DEF TypeOK, Fine
  <2>2. Segments' = Segments \ {o}
    BY <1>4, <1>7 DEF Segments, TypeOK
  <2>3. Place'
    BY <1>1, <1>5, <2>2 DEF Place
  <2>4. Removes
    BY <1>1, <1>3, <1>5, <1>7 DEF Removes
  <2> QED
    BY <1>1, <1>5, <1>6, <1>7, <2>1, <2>3, <2>4 DEF DaemonStep
<1>8. CASE Fault /\ trouble' = trouble \cup {"unlink"} /\ dir' = dir
  <2>1. TypeOK'
    BY <1>1, <1>5, <1>8, BoundsAreNaturals DEF TypeOK, Fault
  <2>2. Place'
    BY <1>1, <1>5, <1>8 DEF Place, Segments
  <2> QED
    BY <1>1, <1>5, <1>6, <1>8, <2>1, <2>2 DEF DaemonStep, Keeps
<1> QED
  BY <1>7, <1>8 DEF Unlink, o

\* The settings, the clock, a stop and a start.
LEMMA OtherSteps ==
    ASSUME LogInv, Configure \/ GrowOld \/ Stop \/ Start
    PROVE  TypeOK' /\ Place' /\ DaemonStep
<1> USE DEF LogInv
<1>1. CASE Configure
  <2>1. /\ writer.pc = "idle" /\ limit' \in Limits /\ writer' = [writer EXCEPT !.pc = "prune"]
        /\ UNCHANGED <<dir, data, last, old, top, trouble, reader, shown, faults>>
    BY <1>1 DEF Configure, fileVars, readerVars
  <2>2. /\ writer' \in Writer /\ writer'.pc = "prune" /\ writer'.cur = writer.cur
        /\ writer'.doomed = writer.doomed
    BY <2>1 DEF TypeOK, Writer
  <2> QED
    BY <2>1, <2>2, SameGrows DEF TypeOK, Place, Segments, DaemonStep, Keeps
<1>2. CASE GrowOld
  <2>1. /\ old < last /\ old' = old + 1
        /\ UNCHANGED <<dir, data, last, limit, writer, top, trouble, reader, shown, faults>>
    BY <1>2 DEF GrowOld, fileVars, readerVars
  <2>2. old' \in 0 .. last
    BY <2>1, BoundsAreNaturals DEF TypeOK
  <2> QED
    BY <2>1, <2>2, SameGrows DEF TypeOK, Place, Segments, DaemonStep, Keeps
<1>3. CASE Stop
  <2>1. /\ writer' = [pc |-> "down", cur |-> None, rolled |-> FALSE, doomed |-> {}]
        /\ UNCHANGED <<dir, last, old, limit, top, trouble, reader, shown>>
        /\ faults' \in 0 .. MaxFaults
    BY <1>3, BoundsAreNaturals DEF Stop, readerVars, Fine, Fault, TypeOK
  <2>2. Grows /\ data' \in [Records -> Seq(Token)]
    <3>1. CASE data' = data
      BY <3>1, SameGrows DEF TypeOK
    <3>2. CASE writer.pc = "write" /\ Flushed
      <4>1. last \in Records
        BY <3>2, MarksAreNoNumbers, BoundsAreNaturals DEF Files, Records, TypeOK, Writer
      <4> QED
        BY <3>2, <4>1, FlushedGrows
    <3> QED
      BY <1>3, <3>1, <3>2 DEF Stop
  <2>3. writer' \in Writer
    BY <2>1 DEF Writer
  <2> QED
    BY <2>1, <2>2, <2>3 DEF TypeOK, Place, Segments, DaemonStep, Keeps
<1>4. CASE Start
  <2>1. /\ writer.pc = "down" /\ limit' \in Limits /\ writer' = [writer EXCEPT !.pc = "start"]
        /\ UNCHANGED <<dir, data, last, old, top, trouble, reader, shown, faults>>
    BY <1>4 DEF Start, fileVars, readerVars
  <2>2. /\ writer' \in Writer /\ writer'.pc = "start" /\ writer'.cur = writer.cur
        /\ writer'.doomed = writer.doomed
    BY <2>1 DEF TypeOK, Writer
  <2> QED
    BY <2>1, <2>2, SameGrows DEF TypeOK, Place, Segments, DaemonStep, Keeps
<1> QED
  BY <1>1, <1>2, <1>3, <1>4

\* So much for each action of the daemon.
LEMMA DaemonDoes ==
    ASSUME LogInv, Daemon
    PROVE  TypeOK' /\ Place' /\ DaemonStep
  BY RecordStep, WriteStep, WriteFailsStep, RecoverStep, PruneStep, UnlinkStep, OtherSteps DEF Daemon

\* Whatever it does, the files stay what they are and the log stays in order.
LEMMA DaemonKeepsOrder ==
    ASSUME LogInv, TypeOK', Place', DaemonStep
    PROVE  LogInv'
<1> USE DEF LogInv
<1>1. /\ last \in Nat /\ last' \in Nat /\ last <= last' /\ top \in Nat /\ top' \in Nat /\ top <= top'
      /\ Records \subseteq Nat /\ Ordinals \subseteq Nat
  BY BoundsAreNaturals DEF DaemonStep, Keeps, Creates, Counts, Removes, TypeOK, Records, Ordinals
<1>2. \A o \in Ordinals, f \in Records : dir'[o] = f =>
         \/ dir[o] = f
         \/ /\ Creates /\ f = last' /\ dir[o] = None /\ o <= last' /\ o <= top'
            /\ \A q \in Ordinals : dir'[q] = f => q = o
  <2> SUFFICES ASSUME NEW o \in Ordinals, NEW f \in Records, dir'[o] = f, dir[o] # f
               PROVE  /\ Creates /\ f = last' /\ dir[o] = None /\ o <= last' /\ o <= top'
                      /\ \A q \in Ordinals : dir'[q] = f => q = o
    OBVIOUS
  <2>1. Creates
    BY MarksAreNoNumbers DEF DaemonStep, Keeps, Counts, Removes, TypeOK, Place
  <2>2. PICK p \in Ordinals :
              /\ dir[p] = None /\ dir' = [dir EXCEPT ![p] = last + 1] /\ last' = last + 1
              /\ p <= top' /\ p <= last + 1
    <3>1. PICK p \in Ordinals :
              /\ dir[p] = None /\ dir' = [dir EXCEPT ![p] = last + 1] /\ last' = last + 1
              /\ p = Known \/ (Known \in Segments /\ p = Newest(Segments) + 1)
              /\ top' = IF p > top THEN p ELSE top
      BY <2>1 DEF Creates
    <3>2. p <= last + 1
      BY <3>1, KnownIs, NextSegmentIs
    <3>3. p <= top'
      BY <1>1, <3>1
    <3> QED
      BY <3>1, <3>2, <3>3
  <2>3. o = p /\ f = last' /\ \A q \in Ordinals : dir[q] # last + 1
    BY <1>1, <2>2 DEF TypeOK, Files
  <2> QED
    BY <2>1, <2>2, <2>3 DEF TypeOK
<1>3. \A g \in Records :
         /\ RecordsIn(g) \subseteq RecordsIn(g)'
         /\ \A r \in RecordsIn(g)' :
               \/ r \in RecordsIn(g)
               \/ r = last /\ writer.pc = "write" /\ dir[writer.cur] = g
  BY GrowsTo DEF DaemonStep
<1>4. Files'
  <2>1. \A o \in Ordinals, f \in Records : dir'[o] = f =>
          /\ o <= last' /\ o <= top' /\ f <= last'
          /\ \A q \in Ordinals : dir'[q] = f => q = o
    <3> SUFFICES ASSUME NEW o \in Ordinals, NEW f \in Records, dir'[o] = f
                 PROVE  /\ o <= last' /\ o <= top' /\ f <= last'
                        /\ \A q \in Ordinals : dir'[q] = f => q = o
      OBVIOUS
    <3>1. CASE dir[o] = f
      <4>1. o <= last /\ o <= top /\ f <= last /\ \A q \in Ordinals : dir[q] = f => q = o
        BY <3>1 DEF Files
      <4>2. o \in Nat /\ f \in Nat
        BY <1>1
      <4>3. \A q \in Ordinals : dir'[q] = f => q = o
        <5> SUFFICES ASSUME NEW q \in Ordinals, dir'[q] = f PROVE q = o
          OBVIOUS
        <5>1. dir[q] = f \/ (Creates /\ f = last')
          BY <1>2
        <5>2. Creates => last' = last + 1
          BY DEF Creates
        <5> QED
          BY <1>1, <4>1, <4>2, <5>1, <5>2
      <4> QED
        BY <1>1, <4>1, <4>2, <4>3
    <3>2. CASE dir[o] # f
      BY <1>1, <1>2, <3>2
    <3> QED
      BY <3>1, <3>2
  <2>2. \A f \in Records : f > last' => data'[f] = <<>>
    <3> SUFFICES ASSUME NEW f \in Records, f > last' PROVE data'[f] = <<>>
      OBVIOUS
    <3>1. f > last /\ data[f] = <<>>
      BY <1>1 DEF Files
    <3>2. data'[f] = data[f] \/ \E o \in Segments : dir[o] = f
      BY DEF DaemonStep, Grows
    <3>3. \A o \in Ordinals : dir[o] # f
      <4>1. ~ (f <= last)
        BY <1>1, <3>1
      <4> QED
        BY <4>1 DEF Files
    <3> QED
      BY <3>1, <3>2, <3>3 DEF Segments
  <2> QED
    BY <2>1, <2>2 DEF Files
<1>5. Made'
  <2> SUFFICES ASSUME NEW f \in Records, NEW r \in RecordsIn(f)'
               PROVE  r <= last' /\ (writer'.pc = "write" => r < last')
    BY DEF Made
  <2>1. r \in Nat
    BY <1>1, FileTypes, <1>3 DEF TypeOK
  <2>2. r \in RecordsIn(f) => r <= last /\ (writer.pc = "write" => r < last)
    BY DEF Made
  <2>3. /\ r <= last
        /\ r \in RecordsIn(f) \/ (writer.pc = "write" /\ RecordsIn(f)' # RecordsIn(f))
    BY <1>1, <1>3, <2>2
  <2>4. data' = data => RecordsIn(f)' = RecordsIn(f)
    BY DEF RecordsIn, Whole
  <2>5. CASE writer'.pc = "write"
    <3>1. \/ writer.pc = "idle" /\ last' = last + 1
          \/ writer' = writer /\ data' = data /\ last' = last
      BY <2>5 DEF DaemonStep
    <3>2. CASE writer.pc = "idle" /\ last' = last + 1
      BY <1>1, <2>1, <2>3, <3>2
    <3>3. CASE writer' = writer /\ data' = data /\ last' = last
      BY <2>2, <2>3, <2>4, <2>5, <3>3
    <3> QED
      BY <3>1, <3>2, <3>3
  <2> QED
    BY <1>1, <2>1, <2>3, <2>5
<1>6. FilesInOrder'
  <2> SUFFICES ASSUME NEW f \in Records, NEW i \in Whole(f)', NEW j \in Whole(f)', i < j
               PROVE  data'[f][i] < data'[f][j]
    BY DEF FilesInOrder
  <2>1. Len(data[f]) \in Nat /\ Whole(f) \subseteq 1 .. Len(data[f])
    BY FileTypes
  <2>2. \A k \in Whole(f)' :
           \/ k \in Whole(f)
           \/ k = Len(data[f]) + 1 /\ data'[f][k] = last /\ writer.pc = "write"
    BY GrowsTo DEF DaemonStep
  <2>3. \A k \in Whole(f) : data'[f][k] = data[f][k]
    BY GrowsTo DEF DaemonStep
  <2>4. i \in Whole(f)
    <3>1. CASE j \in Whole(f)
      BY <2>1, <2>2, <3>1
    <3>2. CASE j = Len(data[f]) + 1
      <4>1. i # Len(data[f]) + 1
        BY <2>1, <3>2
      <4> QED
        BY <2>2, <4>1
    <3> QED
      BY <2>2, <3>1, <3>2
  <2>5. CASE j \in Whole(f)
    BY <2>3, <2>4, <2>5 DEF FilesInOrder
  <2>6. CASE j \notin Whole(f)
    <3>1. data'[f][j] = last /\ writer.pc = "write"
      BY <2>2, <2>6
    <3>2. data[f][i] \in RecordsIn(f)
      BY <2>4, FileTypes
    <3> QED
      BY <2>3, <2>4, <3>1, <3>2 DEF Made
  <2> QED
    BY <2>5, <2>6
<1>7. SegmentsInOrder'
  <2> SUFFICES ASSUME NEW o \in Ordinals, NEW q \in Ordinals, NEW f \in Records, NEW g \in Records,
                      dir'[o] = f, dir'[q] = g, o < q, NEW r \in RecordsIn(f)', NEW s \in RecordsIn(g)'
               PROVE  r < s
    BY DEF SegmentsInOrder
  <2>1. \A p \in Ordinals, h \in Records : dir'[p] = h /\ dir[p] # h => RecordsIn(h)' = {}
    <3> SUFFICES ASSUME NEW p \in Ordinals, NEW h \in Records, dir'[p] = h, dir[p] # h
                 PROVE  RecordsIn(h)' = {}
      OBVIOUS
    <3>1. Creates /\ h = last'
      BY <1>2
    <3>2. data' = data /\ h > last
      BY <1>1, <3>1 DEF Creates
    <3>3. data'[h] = <<>>
      BY <3>2 DEF Files
    <3> QED
      BY <3>3 DEF RecordsIn, Whole
  <2>2. dir[o] = f /\ dir[q] = g
    BY <2>1
  <2>3. r \in RecordsIn(f)
    <3> SUFFICES ASSUME r \notin RecordsIn(f) PROVE FALSE
      OBVIOUS
    <3>1. writer.pc = "write" /\ dir[writer.cur] = f /\ writer.cur \in Ordinals
      BY <1>3 DEF TypeOK, Writer
    <3>2. writer.cur = o /\ q \in Segments
      BY <2>2, <3>1, SegmentIs DEF Files
    <3>3. q <= writer.cur
      BY <3>1, <3>2, MarksAreNoNumbers DEF Place
    <3> QED
      BY <1>1, <3>2, <3>3
  <2>4. CASE s \in RecordsIn(g)
    BY <2>2, <2>3, <2>4 DEF SegmentsInOrder
  <2>5. CASE s \notin RecordsIn(g)
    BY <1>3, <2>3, <2>5 DEF Made
  <2> QED
    BY <2>4, <2>5
<1>8. Position'
  <2>1. reader' = reader /\ shown' = shown
    BY DEF DaemonStep
  <2>2. /\ \A o \in reader.todo \cup reader.files : o \in Nat
        /\ reader.cur # None => reader.cur \in Nat
        /\ reader.from # None => reader.from \in Nat
        /\ reader.file # None => reader.file \in Records /\ reader.file \in Nat
    BY <1>1 DEF TypeOK, Reader
  <2>3. ASSUME reader.file # None
        PROVE  reader.file <= last' /\ \A o \in Ordinals : dir'[o] = reader.file => o = reader.cur
    <3>1. reader.file <= last /\ \A o \in Ordinals : dir[o] = reader.file => o = reader.cur
      BY <2>3 DEF Position
    <3>2. Creates => last' = last + 1
      BY DEF Creates
    <3>3. reader.file \in Records /\ reader.file \in Nat
      BY <2>2, <2>3
    <3>4. reader.file <= last'
      BY <1>1, <3>1, <3>3
    <3>5. ASSUME NEW o \in Ordinals, dir'[o] = reader.file
          PROVE  o = reader.cur
      <4>1. CASE dir[o] = reader.file
        BY <3>1, <4>1
      <4>2. CASE Creates /\ reader.file = last'
        BY <1>1, <3>1, <3>2, <3>3, <4>2
      <4> QED
        BY <1>2, <3>3, <3>5, <4>1, <4>2
    <3> QED
      BY <3>4, <3>5
  <2> QED
    BY <1>1, <2>1, <2>2, <2>3 DEF Position
<1> QED
  BY <1>4, <1>5, <1>6, <1>7, <1>8

--------------------------------------------------------------------------------
(* The follower.                                                           *)

\* The newest of a listing.
LEMMA NewestListed ==
    ASSUME NEW T \in SUBSET Ordinals, T # {}
    PROVE  Newest(T) \in T /\ Newest(T) \in Ordinals /\ \A q \in T : q <= Newest(T)
<1>1. MaxRecords + 1 \in Nat /\ T \in SUBSET Nat /\ \A q \in T : q <= MaxRecords + 1
  BY BoundsAreNaturals DEF Ordinals
<1> QED
  BY <1>1, NewestIs

\* What is printed of a file: its records after the first n places, in order.
LEMMA PrintedIs ==
    ASSUME LogInv, NEW f \in Records, NEW n
    PROVE  LET printed == Printed(f, n)
           IN  /\ printed \in Seq(Records)
               /\ \A k \in DOMAIN printed : \E i \in Whole(f) : i > n /\ printed[k] = data[f][i]
               /\ \A i \in Whole(f) : i > n => \E k \in DOMAIN printed : printed[k] = data[f][i]
               /\ \A k, l \in DOMAIN printed : k < l => printed[k] < printed[l]
<1> DEFINE places == {i \in Whole(f) : i > n}
<1>1. /\ Len(data[f]) \in Nat /\ places \in SUBSET (1 .. Len(data[f]))
      /\ \A i \in places : data[f][i] \in Records
  BY FileTypes DEF LogInv
<1>2. \A i, j \in places : i < j => data[f][i] < data[f][j]
  BY DEF LogInv, FilesInOrder
<1>3. LET picked == Picked(data[f], places)
      IN  /\ picked \in Seq(Records)
          /\ \A k \in DOMAIN picked : \E i \in places : picked[k] = data[f][i]
          /\ \A i \in places : \E k \in DOMAIN picked : picked[k] = data[f][i]
          /\ \A k, l \in DOMAIN picked : k < l => picked[k] < picked[l]
  BY <1>1, <1>2, PickedIs
<1> QED
  BY <1>3 DEF Printed

\* What has been shown, after one more file was printed from its first n places on.
LEMMA PrintingIs ==
    ASSUME LogInv, NEW f \in Records, NEW n, shown' = shown \o Printed(f, n)
    PROVE  /\ shown' \in Seq(Records)
           /\ \A s : s \in ShownSet' <=>
                 s \in ShownSet \/ \E i \in Whole(f) : i > n /\ s = data[f][i]
           /\ ShownInOrder /\ NewerAfter(f, n) => ShownInOrder'
<1> DEFINE p == Printed(f, n)
<1>1. /\ p \in Seq(Records)
      /\ \A k \in DOMAIN p : \E i \in Whole(f) : i > n /\ p[k] = data[f][i]
      /\ \A i \in Whole(f) : i > n => \E k \in DOMAIN p : p[k] = data[f][i]
      /\ \A k, l \in DOMAIN p : k < l => p[k] < p[l]
  BY PrintedIs
<1>2. shown' = shown \o p /\ shown \in Seq(Records)
  BY DEF LogInv, TypeOK
<1> HIDE DEF p
<1>3. /\ shown' \in Seq(Records) /\ Len(shown) \in Nat /\ Len(p) \in Nat
      /\ DOMAIN shown = 1 .. Len(shown) /\ DOMAIN p = 1 .. Len(p)
      /\ DOMAIN shown' = 1 .. (Len(shown) + Len(p))
      /\ \A k \in DOMAIN shown : k \in DOMAIN shown' /\ shown'[k] = shown[k]
      /\ \A k \in DOMAIN p : k + Len(shown) \in DOMAIN shown' /\ shown'[k + Len(shown)] = p[k]
  BY <1>1, <1>2
<1>4. \A k \in DOMAIN shown' : k \notin DOMAIN shown =>
          k - Len(shown) \in DOMAIN p /\ shown'[k] = p[k - Len(shown)]
  <2> SUFFICES ASSUME NEW k \in DOMAIN shown', k \notin DOMAIN shown
               PROVE  k - Len(shown) \in DOMAIN p /\ shown'[k] = p[k - Len(shown)]
    OBVIOUS
  <2>1. k - Len(shown) \in DOMAIN p /\ (k - Len(shown)) + Len(shown) = k
    BY <1>3
  <2> QED
    BY <1>3, <2>1
<1>5. \A s : s \in ShownSet' <=> s \in ShownSet \/ \E i \in Whole(f) : i > n /\ s = data[f][i]
  <2>1. ASSUME NEW s \in ShownSet' PROVE s \in ShownSet \/ \E i \in Whole(f) : i > n /\ s = data[f][i]
    <3>1. PICK k \in DOMAIN shown' : s = shown'[k]
      BY DEF ShownSet
    <3>2. CASE k \in DOMAIN shown
      BY <1>3, <3>1, <3>2 DEF ShownSet
    <3>3. CASE k \notin DOMAIN shown
      BY <1>1, <1>4, <3>1, <3>3
    <3> QED
      BY <3>2, <3>3
  <2>2. \A s \in ShownSet : s \in ShownSet'
    BY <1>3 DEF ShownSet
  <2>3. \A i \in Whole(f) : i > n => data[f][i] \in ShownSet'
    <3> SUFFICES ASSUME NEW i \in Whole(f), i > n PROVE data[f][i] \in ShownSet'
      OBVIOUS
    <3>1. PICK k \in DOMAIN p : p[k] = data[f][i]
      BY <1>1
    <3> QED
      BY <1>3, <3>1 DEF ShownSet
  <2> QED
    BY <2>1, <2>2, <2>3
<1>6. ShownInOrder /\ NewerAfter(f, n) => ShownInOrder'
  <2> SUFFICES ASSUME ShownInOrder, NewerAfter(f, n), NEW k \in DOMAIN shown', NEW l \in DOMAIN shown', k < l
               PROVE  shown'[k] < shown'[l]
    BY DEF ShownInOrder
  <2>1. CASE l \in DOMAIN shown
    <3>1. k \in DOMAIN shown
      BY <1>3, <2>1
    <3> QED
      BY <1>3, <2>1, <3>1 DEF ShownInOrder
  <2>2. CASE l \notin DOMAIN shown /\ k \in DOMAIN shown
    <3>1. l - Len(shown) \in DOMAIN p /\ shown'[l] = p[l - Len(shown)] /\ shown'[k] = shown[k]
      BY <1>3, <1>4, <2>2
    <3>2. PICK i \in Whole(f) : i > n /\ p[l - Len(shown)] = data[f][i]
      BY <1>1, <3>1
    <3>3. shown[k] \in ShownSet
      BY <2>2 DEF ShownSet
    <3> QED
      BY <3>1, <3>2, <3>3 DEF NewerAfter
  <2>3. CASE l \notin DOMAIN shown /\ k \notin DOMAIN shown
    <3>1. /\ l - Len(shown) \in DOMAIN p /\ shown'[l] = p[l - Len(shown)]
          /\ k - Len(shown) \in DOMAIN p /\ shown'[k] = p[k - Len(shown)]
      BY <1>4, <2>3
    <3>2. k - Len(shown) < l - Len(shown)
      BY <1>3
    <3> QED
      BY <1>1, <3>1, <3>2
  <2> QED
    BY <2>1, <2>2, <2>3
<1> QED
  BY <1>3, <1>5, <1>6

\* Whatever the follower does, its position is one.
LEMMA FollowerTypes ==
    ASSUME LogInv, Follower
    PROVE  LogInv' /\ UNCHANGED <<fileVars, daemonVars>>
<1> USE DEF LogInv
<1>1. UNCHANGED <<dir, data, last, old, limit, writer, top, trouble>>
  BY DEF Follower, Follow, ReadHistory, List, Attach, Read, Stat, fileVars, daemonVars
<1>2. Files' /\ Made' /\ Place' /\ FilesInOrder' /\ SegmentsInOrder'
  BY <1>1 DEF Files, Made, Place, FilesInOrder, SegmentsInOrder, RecordsIn, Whole, Segments
<1>3. /\ Segments \in SUBSET Ordinals /\ \A o \in Segments : o <= top
      /\ None \notin Ordinals /\ None \notin Records
      /\ \A o \in Segments : dir[o] \in Records
  BY MarksAreNoNumbers, SegmentIs DEF Segments, Files
<1>4. reader \in Reader /\ faults \in 0 .. MaxFaults
  BY DEF TypeOK
<1>5. Fine \/ Fault => faults' \in 0 .. MaxFaults
  BY <1>4, BoundsAreNaturals DEF Fine, Fault
<1> SUFFICES faults' \in 0 .. MaxFaults /\ shown' \in Seq(Records) /\ reader' \in Reader /\ Position'
  BY <1>1, <1>2 DEF TypeOK, fileVars, daemonVars
<1>6. CASE Follow
  <2>1. /\ reader.pc = "off" /\ shown' = shown /\ faults' = faults
        /\ reader' = IF Segments = {} THEN [reader EXCEPT !.pc = "list", !.atEnd = TRUE]
                     ELSE [reader EXCEPT !.pc = "history", !.todo = Segments,
                                         !.newest = Newest(Segments), !.from = Newest(Segments)]
    BY <1>6 DEF Follow
  <2>2. CASE Segments = {}
    <3>1. reader' = [reader EXCEPT !.pc = "list", !.atEnd = TRUE]
      BY <2>1, <2>2
    <3>2. reader' \in Reader
      BY <1>4, <3>1 DEF Reader
    <3>3. Position'
      BY <1>1, <1>4, <2>1, <3>1 DEF Position, Reader
    <3> QED
      BY <1>4, <2>1, <3>2, <3>3 DEF TypeOK
  <2>3. CASE Segments # {}
    <3>1. reader' = [reader EXCEPT !.pc = "history", !.todo = Segments,
                                   !.newest = Newest(Segments), !.from = Newest(Segments)]
      BY <2>1, <2>3
    <3>2. Newest(Segments) \in Segments /\ \A q \in Segments : q <= Newest(Segments)
      BY <2>3, NewestSegment
    <3>3. reader' \in Reader
      BY <1>3, <1>4, <3>1, <3>2 DEF Reader
    <3>4. Position'
      BY <1>1, <1>3, <1>4, <2>1, <3>1, <3>2 DEF Position, Reader
    <3> QED
      BY <1>4, <2>1, <3>3, <3>4 DEF TypeOK
  <2> QED
    BY <2>2, <2>3
<1>7. CASE ReadHistory
  <2> DEFINE o == Oldest(reader.todo)
             left == reader.todo \ {o}
             then == IF left = {} THEN "list" ELSE "history"
  <2>1. /\ reader.pc = "history"
        /\ \/ /\ dir[o] # None
              /\ Fine
              /\ shown' = shown \o Printed(dir[o], 0)
              /\ reader' = [reader EXCEPT !.pc = then, !.todo = left,
                               !.offset = IF o = reader.newest THEN Complete(dir[o]) ELSE 0]
           \/ /\ IF dir[o] = None THEN Fine ELSE Fault
              /\ reader' = [reader EXCEPT !.pc = then, !.todo = left, !.blind = @ \/ dir[o] # None,
                               !.from = IF o = reader.newest THEN None ELSE @,
                               !.atEnd = (o = reader.newest)]
              /\ UNCHANGED shown
    BY <1>7 DEF ReadHistory
  <2>2. /\ reader.newest \in reader.todo /\ reader.from = reader.newest
        /\ \A q \in reader.todo : q <= reader.newest
        /\ reader.file = None /\ ~ reader.atEnd /\ reader.todo \in SUBSET Ordinals
    BY <1>4, <2>1 DEF Position, Reader
  <2>3. o \in reader.todo /\ o \in Ordinals /\ \A q \in reader.todo : o <= q
    BY <2>2, OldestIs
  <2>4. o = reader.newest <=> left = {}
    <3>1. left = {} => o = reader.newest
      BY <2>2
    <3>2. \A q \in left : q \in Nat /\ o \in Nat /\ o <= q /\ q # o
      BY <2>2, <2>3, BoundsAreNaturals DEF Ordinals
    <3> QED
      BY <2>2, <3>1, <3>2
  <2> HIDE DEF o
  <2>5. CASE /\ dir[o] # None
             /\ Fine
             /\ shown' = shown \o Printed(dir[o], 0)
             /\ reader' = [reader EXCEPT !.pc = then, !.todo = left,
                               !.offset = IF o = reader.newest THEN Complete(dir[o]) ELSE 0]
    <3>1. dir[o] \in Records
      BY <2>3, <2>5 DEF TypeOK
    <3>2. shown' \in Seq(Records)
      BY <2>5, <3>1, PrintingIs
    <3>3. Complete(dir[o]) \in Nat
      <4>1. data[dir[o]] \in Seq(Token)
        BY <3>1 DEF TypeOK
      <4>2. data[dir[o]] # <<>> => Len(data[dir[o]]) \in Nat \ {0}
        BY <4>1
      <4> QED
        BY <4>1, <4>2 DEF Complete
    <3>4. reader' \in Reader
      BY <1>4, <2>5, <3>3 DEF Reader
    <3>5. Position'
      BY <1>1, <1>4, <2>1, <2>2, <2>4, <2>5 DEF Position, Reader
    <3> QED
      BY <1>5, <2>5, <3>2, <3>4, <3>5
  <2>6. CASE /\ IF dir[o] = None THEN Fine ELSE Fault
             /\ reader' = [reader EXCEPT !.pc = then, !.todo = left, !.blind = @ \/ dir[o] # None,
                               !.from = IF o = reader.newest THEN None ELSE @,
                               !.atEnd = (o = reader.newest)]
             /\ UNCHANGED shown
    <3>1. reader' \in Reader
      <4>1. /\ then \in {"history", "list"} /\ left \in SUBSET Ordinals
            /\ (o = reader.newest) \in BOOLEAN
        BY <2>2
      <4>2. (IF o = reader.newest THEN None ELSE reader.from) \in Ordinals \cup {None}
        BY <1>4 DEF Reader
      <4> HIDE DEF then, left
      <4> QED
        BY <1>4, <2>6, <4>1, <4>2 DEF Reader
    <3>2. Position'
      BY <1>1, <1>4, <2>1, <2>2, <2>4, <2>6 DEF Position, Reader
    <3> QED
      BY <1>5, <2>6, <3>1, <3>2 DEF TypeOK
  <2> QED
    BY <2>1, <2>5, <2>6
<1>8. CASE List
  <2>1. /\ reader.pc = "list" /\ Segments # {} /\ shown' = shown /\ faults' = faults
        /\ reader' = [reader EXCEPT !.pc = IF reader.file = None THEN "attach" ELSE "read",
                                    !.files = Segments]
    BY <1>8 DEF List
  <2>2. reader' \in Reader
    BY <1>3, <1>4, <2>1 DEF Reader
  <2>3. Position'
    BY <1>1, <1>3, <1>4, <2>1 DEF Position, Reader
  <2> QED
    BY <1>4, <2>1, <2>2, <2>3 DEF TypeOK
<1>9. CASE Attach
  <2>1. /\ reader.pc = "attach" /\ shown' = shown /\ faults' = faults
        /\ reader.files # {} /\ reader.files \in SUBSET Ordinals /\ reader.file = None
    BY <1>4, <1>9 DEF Attach, Position, Reader
  <2>2. Target \in reader.files
    BY <2>1, NewestListed DEF Target
  <2>3. CASE reader' = [reader EXCEPT !.pc = "list", !.files = {}]
    <3>1. reader' \in Reader
      BY <1>4, <2>3 DEF Reader
    <3>2. Position'
      BY <1>1, <1>4, <2>1, <2>3 DEF Position, Reader
    <3> QED
      BY <1>4, <2>1, <3>1, <3>2 DEF TypeOK
  <2>4. CASE dir[Target] # None
    <3> DEFINE pos == IF reader.atEnd THEN Len(Lines(Target))
                        ELSE IF reader.from \in {None, Target} THEN reader.offset ELSE 0
    <3>1. dir[Target] \in Records /\ Target \in Ordinals
      BY <2>1, <2>2, <2>4 DEF TypeOK
    <3>2. pos \in Nat
      BY <1>4, <3>1, FileTypes DEF Lines, Reader
    <3>3. CASE reader' = [reader EXCEPT !.pc = "read", !.atEnd = FALSE, !.file = dir[Target],
                               !.cur = Target, !.pos = pos,
                               !.blind = @ \/ reader.atEnd \/ reader.from \notin {None, Target}]
      <4> HIDE DEF pos
      <4>1. reader' \in Reader
        BY <1>4, <3>1, <3>2, <3>3 DEF Reader
      <4>2. /\ dir[Target] <= last /\ Target <= top
            /\ \A p \in Ordinals : dir[p] = dir[Target] => p = Target
        BY <3>1 DEF Files
      <4>3. Position'
        BY <1>1, <1>3, <1>4, <2>1, <2>2, <3>1, <3>3, <4>2 DEF Position, Reader
      <4> QED
        BY <1>4, <2>1, <4>1, <4>3 DEF TypeOK
    <3>4. CASE dir[Target] = None
      BY <2>4, <3>4
    <3> QED
      BY <1>9, <2>4, <3>3 DEF Attach
  <2> QED
    BY <1>9, <2>3, <2>4 DEF Attach
<1>10. CASE Read
  <2>1. /\ reader.pc = "read" /\ faults' = faults /\ reader.file # None /\ reader.cur # None
        /\ reader.file \in Records /\ reader.cur \in Ordinals /\ reader.files \in SUBSET Ordinals
        /\ ~ reader.atEnd /\ Len(data[reader.file]) \in Nat
    BY <1>4, <1>10, FileTypes DEF Read, Position, Reader
  <2>2. CASE /\ shown' = shown \o Printed(reader.file, reader.pos)
             /\ reader' = [reader EXCEPT !.pc = "list", !.files = {}, !.pos = Len(data[reader.file])]
    <3>1. shown' \in Seq(Records)
      BY <2>1, <2>2, PrintingIs
    <3>2. reader' \in Reader
      BY <1>4, <2>1, <2>2 DEF Reader
    <3>3. Position'
      BY <1>1, <1>4, <2>1, <2>2 DEF Position, Reader
    <3> QED
      BY <1>4, <2>1, <3>1, <3>2, <3>3
  <2>3. CASE shown' = shown /\ Later # {} /\ reader' = Detached(Oldest(Later))
    <3>1. Later \in SUBSET Ordinals
      BY <2>1 DEF Later
    <3>2. Oldest(Later) \in reader.files /\ Oldest(Later) \in Ordinals
      BY <2>3, <3>1, OldestIs DEF Later
    <3>3. reader' \in Reader
      BY <1>4, <2>3, <3>2 DEF Reader, Detached
    <3>4. Position'
      BY <1>1, <1>3, <1>4, <2>1, <2>3, <3>2 DEF Position, Reader, Detached
    <3> QED
      BY <1>4, <2>1, <2>3, <3>3, <3>4 DEF TypeOK
  <2>4. CASE shown' = shown /\ reader' = [reader EXCEPT !.pc = "stat"]
    <3>1. reader' \in Reader
      BY <1>4, <2>4 DEF Reader
    <3>2. Position'
      BY <1>1, <1>4, <2>1, <2>4 DEF Position, Reader
    <3> QED
      BY <1>4, <2>1, <2>4, <3>1, <3>2 DEF TypeOK
  <2> QED
    BY <1>10, <2>2, <2>3, <2>4 DEF Read
<1>11. CASE Stat
  <2>1. /\ reader.pc = "stat" /\ shown' = shown /\ faults' = faults /\ ~ reader.atEnd
        /\ reader.file # None /\ reader.cur # None
    BY <1>4, <1>11 DEF Stat, Position, Reader
  <2>2. CASE reader' = [Detached(None) EXCEPT !.blind = TRUE]
    <3>1. reader' = [reader EXCEPT !.pc = "list", !.files = {}, !.file = None, !.cur = None, !.pos = 0,
                   !.from = None, !.offset = 0, !.blind = TRUE]
      BY <1>4, <2>2 DEF Detached, Reader
    <3>2. reader' \in Reader
      BY <1>4, <3>1 DEF Reader
    <3>3. Position'
      BY <1>1, <1>4, <2>1, <3>1 DEF Position, Reader
    <3> QED
      BY <1>4, <2>1, <3>2, <3>3 DEF TypeOK
  <2>3. CASE reader' = [reader EXCEPT !.pc = "list", !.files = {}]
    <3>1. reader' \in Reader
      BY <1>4, <2>3 DEF Reader
    <3>2. Position'
      BY <1>1, <1>4, <2>1, <2>3 DEF Position, Reader
    <3> QED
      BY <1>4, <2>1, <3>1, <3>2 DEF TypeOK
  <2> QED
    BY <1>11, <2>2, <2>3 DEF Stat
<1> QED
  BY <1>6, <1>7, <1>8, <1>9, <1>10, <1>11 DEF Follower

--------------------------------------------------------------------------------
(* The log.                                                                *)

\* At the start there is no segment, and the follower is off.
LEMMA InitLog ==
    ASSUME Init
    PROVE  LogInv
<1>1. /\ \A o \in Ordinals : dir[o] = None
      /\ Segments = {}
      /\ \A f \in Records : data[f] = <<>> /\ RecordsIn(f) = {} /\ Whole(f) = {}
  BY DEF Init, Segments, RecordsIn, Whole
<1>2. TypeOK
  <2>1. 1 \in Ordinals /\ None \notin Ordinals
    BY MarksAreNoNumbers, BoundsAreNaturals DEF Ordinals
  <2>2. writer \in Writer /\ reader \in Reader
    BY <2>1 DEF Init, Writer, Reader
  <2>3. data \in [Records -> Seq(Token)] /\ shown \in Seq(Records)
    BY DEF Init
  <2> QED
    BY <2>2, <2>3, BoundsAreNaturals DEF Init, TypeOK
<1>3. Files /\ Made /\ FilesInOrder /\ SegmentsInOrder
  BY <1>1, MarksAreNoNumbers DEF Files, Made, FilesInOrder, SegmentsInOrder
<1>4. Place
  BY <1>1 DEF Init, Place
<1>5. Position
  BY DEF Init, Position
<1> QED
  BY <1>2, <1>3, <1>4, <1>5 DEF LogInv

\* Every step keeps the log in order and the follower's position one.
LEMMA LogStep ==
    ASSUME LogInv, [Next]_vars
    PROVE  LogInv'
<1>1. CASE Daemon
  BY <1>1, DaemonDoes, DaemonKeepsOrder
<1>2. CASE Follower
  BY <1>2, FollowerTypes
<1>3. CASE UNCHANGED vars
  <2> USE <1>3 DEF vars, fileVars, daemonVars, readerVars
  <2>1. TypeOK'
    BY DEF LogInv, TypeOK
  <2>2. Files' /\ Made' /\ Place' /\ FilesInOrder' /\ SegmentsInOrder'
    BY DEF LogInv, Files, Made, Place, FilesInOrder, SegmentsInOrder, RecordsIn, Whole, Segments
  <2>3. Position'
    BY DEF LogInv, Position
  <2> QED
    BY <2>1, <2>2, <2>3 DEF LogInv
<1> QED
  BY <1>1, <1>2, <1>3 DEF Next

\* The inductive invariant: files with one place each, records in order in them and
\* from one to the next, the writer at the newest segment, the follower at a file it knows.
THEOREM LogHolds == Spec => []LogInv
  BY InitLog, LogStep, PTL DEF Spec

\* The files, the daemon's state and the follower's are what they are meant to be.
THEOREM TypeCorrect == Spec => []TypeOK
<1>1. LogInv => TypeOK
  BY DEF LogInv
<1> QED
  BY <1>1, LogHolds, PTL

\* Read segment by segment, the log is in the order the records were made: whatever
\* fails, whatever is pruned and wherever the daemon stops and resumes.
THEOREM LogStaysInOrder == Spec => []LogInOrder
<1>1. LogInv => LogInOrder
  <2> SUFFICES ASSUME LogInv PROVE LogInOrder
    OBVIOUS
  <2>1. \A o \in Segments : o \in Ordinals /\ dir[o] \in Records
    BY SegmentIs DEF LogInv, Segments
  <2>2. \A o, q \in Segments : o < q => \A r \in RecordsIn(dir[o]), s \in RecordsIn(dir[q]) : r < s
    BY <2>1 DEF LogInv, SegmentsInOrder
  <2>3. \A o \in Segments : \A i, j \in Whole(dir[o]) : i < j => data[dir[o]][i] < data[dir[o]][j]
    BY <2>1 DEF LogInv, FilesInOrder
  <2> QED
    BY <2>2, <2>3 DEF LogInOrder
<1> QED
  BY <1>1, LogHolds, PTL

--------------------------------------------------------------------------------
(* Torn lines.                                                             *)

\* What ends a file decides whether it is torn there.
LEMMA TornIs ==
    ASSUME TypeOK, NEW o \in Ordinals
    PROVE  /\ TornAtEnd(o) <=> /\ dir[o] \in Records /\ data[dir[o]] # <<>>
                               /\ data[dir[o]][Len(data[dir[o]])] = Torn
           /\ dir[o] \in Records => data[dir[o]] \in Seq(Token)
<1>1. /\ dir[o] \in Records \cup {None} /\ None \notin Records
      /\ dir[o] \in Records => data[dir[o]] \in Seq(Token)
  BY MarksAreNoNumbers DEF TypeOK
<1> QED
  BY <1>1 DEF TornAtEnd, Lines, Last

\* The torn ends are the same where the files are.
LEMMA TornSame ==
    ASSUME NEW o \in Ordinals, dir'[o] = dir[o], data' = data
    PROVE  TornAtEnd(o)' <=> TornAtEnd(o)
  BY DEF TornAtEnd, Lines

\* A torn line is closed before the writer can append to its segment, or closing it has failed.
LEMMA NoneOpenStep ==
    ASSUME LogInv, NoneOpen, [Next]_vars
    PROVE  NoneOpen'
<1> SUFFICES ASSUME writer'.pc \in {"idle", "write", "prune", "unlink"}, NEW o \in Ordinals,
                    o = Known', TornAtEnd(o)'
             PROVE  "repair" \in trouble'
  BY DEF NoneOpen
<1>0. TypeOK /\ TypeOK' /\ Place /\ LogInv'
  BY LogStep DEF LogInv
<1>0a. /\ dir'[o] \in Records /\ data'[dir'[o]] # <<>>
       /\ data'[dir'[o]][Len(data'[dir'[o]])] = Torn
  <2>1. dir'[o] \in Records \cup {None}
    BY <1>0 DEF TypeOK
  <2> QED
    BY <2>1 DEF TornAtEnd, Lines, Last
<1>1. ASSUME Known' = Known, dir'[o] = dir[o], data' = data, "repair" \in trouble => "repair" \in trouble',
             writer.pc \in {"idle", "write", "prune", "unlink"}
      PROVE  "repair" \in trouble'
  BY <1>1, TornSame DEF NoneOpen
<1>2. ASSUME dir'[o] = None \/ (dir'[o] \in Records /\ data'[dir'[o]] = <<>>) PROVE FALSE
  BY <1>2, <1>0a, MarksAreNoNumbers
<1>3. CASE Record
  <2> DEFINE cur == IF Full(Known) THEN NextSegment(Known) ELSE Known
  <2>1. /\ writer.pc = "idle" /\ data' = data /\ last' = last + 1 /\ last < MaxRecords
        /\ writer' = [writer EXCEPT !.pc = "write", !.cur = cur, !.rolled = Full(Known)]
        /\ IF dir[cur] # None THEN UNCHANGED <<dir, top, trouble>>
             ELSE dir' = [dir EXCEPT ![cur] = last']
    <3>1. writer' # [writer EXCEPT !.pc = "recover"]
      BY <1>0 DEF TypeOK, Writer
    <3> QED
      BY <1>3, <3>1 DEF Record
  <2>2. writer'.cur = cur /\ cur \in Ordinals /\ cur # None
    <3>1. cur \in Ordinals
      BY KnownIs, ThereIs, NextSegmentIs, <1>0
    <3> QED
      BY <1>0, <2>1, <3>1, MarksAreNoNumbers DEF TypeOK, Writer
  <2>3. Known' = cur
    BY <2>2 DEF Known
  <2>4. CASE dir[cur] # None
    <3>1. ~ Full(Known)
      <4> SUFFICES ASSUME Full(Known) PROVE FALSE
        OBVIOUS
      <4>1. Known \in Segments
        BY <1>0, KnownIs, ThereIs
      <4>2. NextSegment(Known) \notin Segments /\ NextSegment(Known) \in Ordinals
        BY <4>1, NextSegmentIs, BoundsAreNaturals DEF Ordinals
      <4> QED
        BY <2>4, <4>2 DEF Segments
    <3> QED
      BY <1>1, <2>1, <2>3, <2>4, <3>1
  <2>5. CASE dir[cur] = None
    <3>1. dir'[o] = last' /\ last' \in Records
      BY <1>0, <2>1, <2>2, <2>3, <2>5, BoundsAreNaturals DEF TypeOK, Records
    <3>2. data'[last'] = <<>>
      BY <1>0, <2>1, <3>1 DEF LogInv, Files, TypeOK
    <3> QED
      BY <1>2, <3>1, <3>2
  <2> QED
    BY <2>4, <2>5
<1>4. CASE Write
  <2>1. /\ writer.pc = "write" /\ data' = [data EXCEPT ![dir[writer.cur]] = Append(@, last)]
        /\ dir' = dir /\ writer'.cur = writer.cur /\ last \in Nat
    BY <1>0, <1>4 DEF Write, TypeOK, Writer
  <2>2. writer.cur # None /\ dir[writer.cur] \in Records /\ Known' = writer.cur
    BY <1>0, <2>1 DEF TypeOK, Writer, Known
  <2>3. data'[dir[o]] = Append(data[dir[o]], last) /\ data[dir[o]] \in Seq(Token)
    BY <1>0, <2>1, <2>2 DEF TypeOK
  <2>4. data'[dir'[o]][Len(data'[dir'[o]])] = last
    BY <2>1, <2>3
  <2> QED
    BY <1>0a, <2>1, <2>4, MarksAreMarks
<1>5. CASE Recover
  <2>1. /\ dir' = dir /\ writer'.cur \in {Resumed, None}
    BY <1>0, <1>5 DEF Recover, Unlisted, TypeOK, Writer
  <2>2. Known' = Resumed
    BY <2>1 DEF Known, Resumed, Segments
  <2>3. CASE data' = Repaired(Resumed)
    <3>1. CASE TornAtEnd(o)
      <4>1. data' = [data EXCEPT ![dir[o]] = Append(@, Newline)]
        BY <2>2, <2>3, <3>1 DEF Repaired
      <4>2. dir[o] \in Records /\ data[dir[o]] \in Seq(Token)
        BY <1>0, <3>1, TornIs
      <4>3. data'[dir[o]] = Append(data[dir[o]], Newline)
        BY <1>0, <4>1, <4>2 DEF TypeOK
      <4>4. data'[dir'[o]][Len(data'[dir'[o]])] = Newline
        BY <2>1, <4>2, <4>3
      <4> QED
        BY <1>0a, <4>4, MarksAreMarks
    <3>2. CASE ~ TornAtEnd(o)
      <4>1. data' = data
        BY <2>2, <2>3, <3>2 DEF Repaired
      <4> QED
        BY <2>1, <3>2, <4>1, TornSame
    <3> QED
      BY <3>1, <3>2
  <2>4. CASE /\ trouble' = IF TornAtEnd(Resumed) THEN trouble \cup {"repair"} ELSE trouble
             /\ data' = data
    <3>1. TornAtEnd(o)
      BY <2>1, <2>4, TornSame
    <3> QED
      BY <2>2, <2>4, <3>1
  <2> QED
    BY <1>5, <2>3, <2>4 DEF Recover
<1>6. CASE Prune
  <2>1. /\ writer.pc = "prune" /\ dir' = dir /\ data' = data /\ trouble' = trouble
        /\ writer'.cur = PruneCur \/ (writer'.cur = None /\ writer.cur = None)
    BY <1>0, <1>6 DEF Prune, PruneCur, fileVars, TypeOK, Writer
  <2>2. CASE writer'.cur = PruneCur
    <3>1. Known' = PruneCur /\ PruneCur \in Ordinals
      BY <2>2, PruneCurIs, MarksAreNoNumbers DEF Known
    <3>2. CASE PruneCur = Known
      BY <1>1, <2>1, <3>1, <3>2
    <3>3. CASE PruneCur \notin Segments
      BY <1>2, <2>1, <3>1, <3>3 DEF Segments
    <3> QED
      BY <3>2, <3>3, PruneCurIs
  <2>3. CASE writer'.cur = None /\ writer.cur = None
    <3>1. Known' = Known
      BY <2>1, <2>3 DEF Known, Resumed, Segments
    <3> QED
      BY <1>1, <2>1, <3>1
  <2> QED
    BY <2>1, <2>2, <2>3
<1>7. CASE Unlink
  <2>1. /\ writer.pc = "unlink" /\ data' = data /\ writer'.cur = writer.cur /\ trouble \subseteq trouble'
        /\ \/ dir' = dir
           \/ dir' = [dir EXCEPT ![Oldest(writer.doomed)] = None]
    BY <1>0, <1>7 DEF Unlink, TypeOK, Writer
  <2>2. /\ writer.cur # None /\ writer.doomed # {} /\ writer.doomed \in SUBSET Ordinals
        /\ writer.cur \notin writer.doomed
    BY <1>0, <2>1 DEF Place, TypeOK, Writer
  <2>3. Oldest(writer.doomed) # writer.cur
    BY <2>2, OldestIs
  <2>4. Known' = writer.cur /\ Known = writer.cur
    BY <2>1, <2>2 DEF Known
  <2>5. dir'[o] = dir[o]
    BY <1>0, <2>1, <2>3, <2>4 DEF TypeOK
  <2> QED
    BY <1>1, <2>1, <2>4, <2>5
<1>8. CASE Configure \/ GrowOld \/ Follower \/ UNCHANGED vars
  <2>1. /\ dir' = dir /\ data' = data /\ trouble' = trouble /\ writer'.cur = writer.cur
        /\ writer.pc \in {"idle", "write", "prune", "unlink"}
    <3>1. CASE Configure
      BY <1>0, <3>1 DEF Configure, fileVars, TypeOK, Writer
    <3>2. CASE GrowOld
      BY <3>2 DEF GrowOld, fileVars
    <3>3. CASE Follower
      BY <3>3, FollowerTypes DEF fileVars, daemonVars
    <3>4. CASE UNCHANGED vars
      BY <3>4 DEF vars, fileVars, daemonVars
    <3> QED
      BY <1>8, <3>1, <3>2, <3>3, <3>4
  <2>2. Known' = Known
    BY <2>1 DEF Known, Resumed, Segments
  <2> QED
    BY <1>1, <2>1, <2>2
<1>9. CASE WriteFails \/ Stop \/ Start
  <2>1. writer'.pc \in {"recover", "down", "start"}
    <3>1. writer \in Writer
      BY <1>0 DEF TypeOK
    <3>2. CASE WriteFails
      BY <3>1, <3>2 DEF WriteFails, Writer
    <3>3. CASE Stop
      BY <3>3 DEF Stop
    <3>4. CASE Start
      BY <3>1, <3>4 DEF Start, Writer
    <3> QED
      BY <1>9, <3>2, <3>3, <3>4
  <2> QED
    BY <2>1
<1> QED
  BY <1>3, <1>4, <1>5, <1>6, <1>7, <1>8, <1>9 DEF Next, Daemon

\* Who writes to a file: the write, or whoever closes the torn line that ends it.
LEMMA WhoWrites ==
    ASSUME LogInv, [Next]_vars, NEW f \in Records, data'[f] # data[f]
    PROVE  \/ writer.pc = "write" /\ dir[writer.cur] = f
           \/ data' = [data EXCEPT ![f] = Append(@, Newline)] /\ data[f] \in Seq(Token)
<1>0. TypeOK
  BY DEF LogInv
<1>1. CASE Recover
  <2>1. data' = Repaired(Resumed) /\ TornAtEnd(Resumed)
    BY <1>1 DEF Recover, Repaired
  <2>2. data' = [data EXCEPT ![dir[Resumed]] = Append(@, Newline)]
    BY <2>1 DEF Repaired
  <2>3. f = dir[Resumed]
    BY <1>0, <2>2 DEF TypeOK
  <2> QED
    BY <1>0, <2>2, <2>3 DEF TypeOK
<1>2. CASE Write
  BY <1>0, <1>2 DEF Write, TypeOK
<1>3. ASSUME writer.pc = "write", Flushed PROVE dir[writer.cur] = f
  BY <1>0, <1>3 DEF Flushed, TypeOK
<1>4. CASE WriteFails
  BY <1>3, <1>4 DEF WriteFails
<1>5. CASE Stop
  BY <1>3, <1>5 DEF Stop
<1>6. CASE \/ Record \/ Prune \/ Unlink \/ Configure \/ GrowOld \/ Start \/ Follower \/ UNCHANGED vars
  <2>1. data' = data
    <3>1. CASE Follower
      BY <3>1, FollowerTypes DEF fileVars
    <3> QED
      BY <1>6, <3>1 DEF Record, Prune, Unlink, Configure, GrowOld, Start, vars, fileVars
  <2> QED
    BY <2>1
<1> QED
  BY <1>1, <1>2, <1>4, <1>5, <1>6 DEF Next, Daemon

\* A record is appended to a torn line only after closing that line has failed.
THEOREM NothingFusesOntoATornLine == Spec => NothingFused
<1>1. Init => NoneOpen
  BY DEF Init, NoneOpen, TornAtEnd, Lines
<1>2. LogInv /\ NoneOpen /\ [Next]_vars => NoneOpen'
  BY NoneOpenStep
<1>3. LogInv /\ NoneOpen /\ [Next]_vars =>
        [\A f \in Records :
          /\ Len(data'[f]) > Len(data[f])
          /\ data[f] # <<>> /\ Last(data[f]) = Torn
          /\ Last(data'[f]) # Newline
          => "repair" \in trouble]_vars
  <2> SUFFICES ASSUME LogInv, NoneOpen, [Next]_vars, NEW f \in Records,
                      Len(data'[f]) > Len(data[f]), data[f] # <<>>, Last(data[f]) = Torn,
                      Last(data'[f]) # Newline
               PROVE  "repair" \in trouble
    OBVIOUS
  <2>0. TypeOK
    BY DEF LogInv
  <2>1. data'[f] # data[f]
    BY <2>0, FileTypes
  <2>2. CASE writer.pc = "write" /\ dir[writer.cur] = f
    <3>1. writer.cur \in Ordinals /\ Known = writer.cur
      BY <2>0, <2>2 DEF TypeOK, Writer, Known
    <3>2. TornAtEnd(writer.cur)
      BY <2>0, <2>2, <3>1, TornIs DEF Last
    <3> QED
      BY <2>2, <3>1, <3>2 DEF NoneOpen
  <2>3. CASE data' = [data EXCEPT ![f] = Append(@, Newline)] /\ data[f] \in Seq(Token)
    <3>1. data'[f] = Append(data[f], Newline)
      BY <2>0, <2>3 DEF TypeOK
    <3>2. Last(data'[f]) = Newline
      BY <2>3, <3>1 DEF Last
    <3> QED
      BY <3>2
  <2> QED
    BY <2>1, <2>2, <2>3, WhoWrites
<1> QED
  BY <1>1, <1>2, <1>3, LogHolds, PTL DEF Spec, NothingFused

--------------------------------------------------------------------------------
(* Pruning.                                                                *)

\* A segment that is one too many has enough newer ones.
LEMMA ExcessIs ==
    ASSUME LogInv, NEW cur \in Ordinals, \A q \in Segments : q <= cur, NEW o \in Excess(Segments \ {cur})
    PROVE  /\ limit.files > 0 /\ Cardinality({q \in Segments : q > o}) >= limit.files
           /\ \A p \in Segments : p < o => p \in Excess(Segments \ {cur})
<1> DEFINE older == Segments \ {cur}
           L == {q \in older : q < o}
           G == {q \in Segments : q > o}
<1>1. /\ o \in older /\ limit.files > 0 /\ Cardinality(L) + limit.files < Cardinality(Segments)
  BY DEF Excess
<1>2. limit.files \in Nat /\ Ordinals \subseteq Nat /\ Segments \subseteq Nat
  BY LimitsAreLimits, BoundsAreNaturals DEF LogInv, TypeOK, Ordinals, Segments
<1>3. IsFiniteSet(Ordinals) /\ Segments \subseteq Ordinals
  <2>1. 1 \in Int /\ MaxRecords + 1 \in Int
    BY BoundsAreNaturals
  <2> QED
    BY <2>1, FS_Interval DEF Ordinals, Segments
<1>4. IsFiniteSet(Segments)
  BY <1>3, FS_Subset
<1>5. IsFiniteSet(L) /\ IsFiniteSet(G) /\ IsFiniteSet(L \cup {o})
  <2>1. L \subseteq Segments /\ G \subseteq Segments /\ L \cup {o} \subseteq Segments
    BY <1>1
  <2> QED
    BY <1>4, <2>1, FS_Subset
<1>6. Segments = (L \cup {o}) \cup G /\ (L \cup {o}) \cap G = {} /\ o \notin L
  <2>1. o \in Nat /\ cur \in Nat /\ o <= cur /\ o \in Segments
    BY <1>1, <1>2
  <2>2. \A q \in Segments : q \in Nat /\ (q < o => q # cur) /\ (q < o \/ q = o \/ q > o)
    BY <1>2, <2>1
  <2>3. Segments \subseteq (L \cup {o}) \cup G
    BY <2>2
  <2>4. (L \cup {o}) \cap G = {} /\ o \notin L
    <3>1. \A q \in L : q \in Nat /\ q < o
      BY <1>2
    <3>2. \A q \in G : q \in Nat /\ q > o
      BY <1>2
    <3> HIDE DEF L, G
    <3> QED
      BY <2>1, <3>1, <3>2
  <2> QED
    BY <2>1, <2>3, <2>4
<1>7. Cardinality(L \cup {o}) = Cardinality(L) + 1 /\ Cardinality(L) \in Nat /\ Cardinality(G) \in Nat
  BY <1>5, <1>6, FS_AddElement, FS_CardinalityType
<1>8. Cardinality(Segments) = Cardinality(L \cup {o}) + Cardinality(G)
  <2> HIDE DEF L, G
  <2>1. Cardinality((L \cup {o}) \cup G)
          = Cardinality(L \cup {o}) + Cardinality(G) - Cardinality((L \cup {o}) \cap G)
    BY <1>5, FS_Union
  <2>2. Cardinality((L \cup {o}) \cap G) = 0
    BY <1>6, FS_EmptySet
  <2> QED
    BY <1>6, <1>7, <2>1, <2>2
<1>9. Cardinality(G) >= limit.files
  BY <1>1, <1>2, <1>7, <1>8
<1>10. ASSUME NEW p \in Segments, p < o PROVE p \in Excess(older)
  <2> DEFINE P == {q \in older : q < p}
  <2>0. o \in Nat /\ p \in Nat /\ cur \in Nat /\ o <= cur
    BY <1>1, <1>2
  <2>1. P \subseteq L
    <3> SUFFICES ASSUME NEW q \in P PROVE q \in L
      OBVIOUS
    <3>1. q \in older /\ q \in Nat /\ q < p
      BY <1>2
    <3> QED
      BY <1>10, <2>0, <3>1
  <2>2. Cardinality(P) <= Cardinality(L) /\ Cardinality(P) \in Nat
    BY <1>5, <2>1, FS_Subset, FS_CardinalityType
  <2>3. p \in older
    BY <1>10, <2>0
  <2>4. Cardinality(Segments) \in Nat
    BY <1>4, FS_CardinalityType
  <2>5. Cardinality(P) + limit.files < Cardinality(Segments)
    BY <1>1, <1>2, <1>7, <2>2, <2>4
  <2> QED
    BY <1>1, <2>3, <2>5 DEF Excess
<1> QED
  BY <1>1, <1>9, <1>10

\* _prune dooms what has passed a limit, and nothing that is newer than what it keeps.
LEMMA PruneDooms ==
    ASSUME LogInv, Prune
    PROVE  DoomedByTheLimits' /\ DoomedAreOldest'
<1>0. TypeOK /\ Place
  BY DEF LogInv
<1>1. /\ UNCHANGED <<dir, data, old, limit>>
      /\ writer'.doomed = PruneDoomed \/ writer'.doomed = {}
  <2>1. writer \in Writer /\ writer.doomed = {}
    BY <1>0 DEF TypeOK, Place, Prune
  <2> QED
    BY <2>1 DEF Prune, PruneDoomed, PruneCur, fileVars, Writer
<1>2. PruneCur \in Ordinals /\ \A q \in Segments : q <= PruneCur
  BY PruneCurIs
<1>3. /\ Segments' = Segments /\ Segments \subseteq Ordinals /\ Ordinals \subseteq Nat
      /\ \A f \in Records : RecordsIn(f)' = RecordsIn(f) /\ RecordsIn(f) \subseteq Nat
  BY <1>0, <1>1, FileTypes, BoundsAreNaturals DEF Segments, RecordsIn, Whole, Ordinals
<1>4. \A o \in PruneDoomed : o \in Segments /\ o # PruneCur
  BY DEF PruneDoomed, Excess
<1>5. \A o \in PruneDoomed : o \in Excess(Segments \ {PruneCur}) \/ Expired(o)
  BY DEF PruneDoomed
<1>6. DoomedByTheLimits'
  <2> SUFFICES ASSUME NEW o \in PruneDoomed
               PROVE  \/ limit.files > 0 /\ Cardinality({q \in Segments : q > o}) >= limit.files
                      \/ limit.aging /\ \A f \in Records : dir[o] = f => \A r \in RecordsIn(f) : r <= old
    BY <1>1, <1>3 DEF DoomedByTheLimits
  <2>1. CASE o \in Excess(Segments \ {PruneCur})
    BY <1>2, <2>1, ExcessIs
  <2>2. CASE Expired(o)
    BY <2>2 DEF Expired
  <2> QED
    BY <1>5, <2>1, <2>2
<1>7. DoomedAreOldest'
  <2> SUFFICES ASSUME NEW o \in PruneDoomed, NEW q \in Ordinals, NEW f \in Records, dir[q] = f,
                      q \notin PruneDoomed, q < o
               PROVE  RecordsIn(f) = {}
    BY <1>1, <1>3 DEF DoomedAreOldest
  <2>1. q \in Segments /\ q # PruneCur
    <3>1. q \in Segments
      BY <1>0, SegmentIs
    <3>2. q \in Nat /\ o \in Nat /\ PruneCur \in Nat /\ o <= PruneCur
      BY <1>2, <1>3, <1>4
    <3> QED
      BY <3>1, <3>2
  <2>2. Expired(o) /\ ~ Expired(q)
    <3>1. o \notin Excess(Segments \ {PruneCur})
      BY <1>2, <2>1, ExcessIs DEF PruneDoomed
    <3> QED
      BY <1>5, <2>1, <3>1 DEF PruneDoomed
  <2>3. o \in Ordinals /\ dir[o] \in Records
    BY <1>0, <1>3, <1>4, SegmentIs
  <2>4. PICK s \in RecordsIn(dir[o]) : limit.aging /\ s <= old
    BY <2>2 DEF Expired
  <2>5. \A r \in RecordsIn(f) : r < s
    BY <2>3 DEF LogInv, SegmentsInOrder
  <2>6. \A r \in RecordsIn(f) : r <= old
    <3>1. s \in Nat /\ old \in Nat /\ RecordsIn(f) \subseteq Nat
      BY <1>0, <1>3, <2>3, BoundsAreNaturals DEF TypeOK
    <3> QED
      BY <2>4, <2>5, <3>1
  <2> QED
    BY <2>2, <2>4, <2>6 DEF Expired
<1> QED
  BY <1>6, <1>7

\* What is doomed stays past its limit, and older than what is kept, until it has gone.
LEMMA DoomedStep ==
    ASSUME LogInv, DoomedByTheLimits, DoomedAreOldest, [Next]_vars
    PROVE  DoomedByTheLimits' /\ DoomedAreOldest'
<1>0. TypeOK /\ Place /\ TypeOK' /\ Place'
  BY LogStep DEF LogInv
<1>1. CASE Prune
  BY <1>1, PruneDooms
<1>2. CASE Record \/ Write \/ WriteFails \/ Recover \/ Configure \/ Stop \/ Start
  <2>1. writer \in Writer
    BY <1>0 DEF TypeOK
  <2>2. writer'.pc # "unlink"
    <3>1. CASE Record
      BY <2>1, <3>1 DEF Record, Writer
    <3>2. CASE Write
      BY <2>1, <3>2 DEF Write, Writer
    <3>3. CASE WriteFails
      BY <2>1, <3>3 DEF WriteFails, Writer
    <3>4. CASE Recover
      BY <2>1, <3>4 DEF Recover, Writer
    <3>5. CASE Configure
      BY <2>1, <3>5 DEF Configure, Writer
    <3>6. CASE Stop
      BY <3>6 DEF Stop
    <3>7. CASE Start
      BY <2>1, <3>7 DEF Start, Writer
    <3> QED
      BY <1>2, <3>1, <3>2, <3>3, <3>4, <3>5, <3>6, <3>7
  <2>3. writer'.doomed = {}
    BY <1>0, <2>2 DEF Place
  <2> QED
    BY <2>3 DEF DoomedByTheLimits, DoomedAreOldest
<1>3. CASE GrowOld \/ Follower \/ UNCHANGED vars
  <2>1. UNCHANGED <<dir, data, limit, writer, trouble>> /\ old <= old'
    <3>1. CASE Follower
      BY <1>0, <3>1, FollowerTypes, BoundsAreNaturals DEF fileVars, daemonVars, TypeOK
    <3> QED
      BY <1>0, <1>3, <3>1, BoundsAreNaturals DEF GrowOld, fileVars, daemonVars, vars, TypeOK
  <2>2. Segments' = Segments /\ \A f \in Records : RecordsIn(f)' = RecordsIn(f) /\ RecordsIn(f) \subseteq Nat
    BY <1>0, <2>1, FileTypes DEF Segments, RecordsIn, Whole
  <2>3. DoomedAreOldest'
    BY <2>1, <2>2 DEF DoomedAreOldest
  <2>4. old \in Nat /\ old' \in Nat
    BY <1>0, BoundsAreNaturals DEF TypeOK
  <2>5. DoomedByTheLimits'
    <3> SUFFICES ASSUME NEW o \in writer.doomed
                 PROVE  \/ limit.files > 0 /\ Cardinality({q \in Segments : q > o}) >= limit.files
                        \/ limit.aging /\ \A f \in Records : dir[o] = f => \A r \in RecordsIn(f) : r <= old'
      BY <2>1, <2>2 DEF DoomedByTheLimits
    <3>1. (\A f \in Records : dir[o] = f => \A r \in RecordsIn(f) : r <= old)
          => (\A f \in Records : dir[o] = f => \A r \in RecordsIn(f) : r <= old')
      BY <2>1, <2>2, <2>4
    <3> QED
      BY <3>1 DEF DoomedByTheLimits
  <2> QED
    BY <2>3, <2>5
<1>4. CASE Unlink
  <2> DEFINE p == Oldest(writer.doomed)
  <2>1. /\ UNCHANGED <<data, old, limit>> /\ writer'.doomed = writer.doomed \ {p}
        /\ \/ dir' = [dir EXCEPT ![p] = None] /\ trouble' = trouble
           \/ dir' = dir /\ "unlink" \in trouble'
    BY <1>0, <1>4 DEF Unlink, TypeOK, Writer
  <2>2. writer.doomed \in SUBSET Ordinals /\ writer.doomed # {} /\ \A o \in writer.doomed : o \in Segments
    BY <1>0, <1>4 DEF TypeOK, Writer, Place, Unlink
  <2>3. p \in writer.doomed /\ \A o \in writer.doomed : p <= o
    BY <2>2, OldestIs
  <2>4. Ordinals \subseteq Nat /\ \A f \in Records : RecordsIn(f)' = RecordsIn(f)
    BY <2>1, BoundsAreNaturals DEF RecordsIn, Whole, Ordinals
  <2> HIDE DEF p
  <2>5. CASE dir' = [dir EXCEPT ![p] = None] /\ trouble' = trouble
    <3>1. \A o \in Ordinals : dir'[o] = IF o = p THEN None ELSE dir[o]
      BY <1>0, <2>5 DEF TypeOK
    <3>2. Segments' = Segments \ {p} /\ Segments \subseteq Nat
      BY <2>2, <2>3, <2>4, <3>1 DEF Segments
    <3>3. DoomedByTheLimits'
      <4> SUFFICES ASSUME NEW o \in writer.doomed, o # p
                   PROVE  \/ limit.files > 0 /\ Cardinality({q \in Segments' : q > o}) >= limit.files
                          \/ limit.aging /\ \A f \in Records : dir'[o] = f => \A r \in RecordsIn(f) : r <= old
        BY <2>1, <2>4 DEF DoomedByTheLimits
      <4>0. p \in Nat /\ o \in Nat /\ p <= o
        BY <2>2, <2>3, <2>4
      <4>1. p < o /\ o \in Nat /\ p \in Nat
        BY <4>0
      <4>2. {q \in Segments' : q > o} = {q \in Segments : q > o}
        BY <3>2, <4>1
      <4>3. dir'[o] = dir[o]
        BY <2>2, <3>1
      <4> QED
        BY <4>2, <4>3 DEF DoomedByTheLimits
    <3>4. DoomedAreOldest'
      <4> SUFFICES ASSUME "unlink" \notin trouble, NEW o \in writer.doomed, o # p,
                          NEW q \in Ordinals, NEW f \in Records, dir'[q] = f,
                          q \notin writer.doomed \ {p}, q < o
                   PROVE  RecordsIn(f) = {}
        BY <2>1, <2>4, <2>5 DEF DoomedAreOldest
      <4>1. q # p /\ dir[q] = f
        BY <3>1, MarksAreNoNumbers
      <4> QED
        BY <4>1 DEF DoomedAreOldest
    <3> QED
      BY <3>3, <3>4
  <2>6. CASE dir' = dir /\ "unlink" \in trouble'
    <3>1. Segments' = Segments
      BY <2>6 DEF Segments
    <3> QED
      BY <2>1, <2>4, <2>6, <3>1 DEF DoomedByTheLimits, DoomedAreOldest
  <2> QED
    BY <2>1, <2>5, <2>6
<1> QED
  BY <1>1, <1>2, <1>3, <1>4 DEF Next, Daemon

\* A segment is deleted only when as many newer ones as are to be kept are there, or
\* when every record in it is past the age limit; and never the one being written.
THEOREM DeletesByTheLimits == Spec => PrunesByTheLimits
<1>1. Init => DoomedByTheLimits /\ DoomedAreOldest
  BY DEF Init, DoomedByTheLimits, DoomedAreOldest
<1>2. LogInv /\ DoomedByTheLimits /\ DoomedAreOldest /\ [Next]_vars => DoomedByTheLimits' /\ DoomedAreOldest'
  BY DoomedStep
<1>3. LogInv /\ DoomedByTheLimits /\ [Next]_vars =>
        [\A o \in Segments : dir'[o] = None =>
          /\ o # writer.cur
          /\ \/ limit.files > 0 /\ Cardinality({q \in Segments : q > o}) >= limit.files
             \/ limit.aging /\ \A r \in RecordsIn(dir[o]) : r <= old]_vars
  <2> SUFFICES ASSUME LogInv, DoomedByTheLimits, [Next]_vars, NEW o \in Segments, dir'[o] = None
               PROVE  /\ o # writer.cur
                      /\ \/ limit.files > 0 /\ Cardinality({q \in Segments : q > o}) >= limit.files
                         \/ limit.aging /\ \A r \in RecordsIn(dir[o]) : r <= old
    OBVIOUS
  <2>0. /\ TypeOK /\ Place /\ TypeOK' /\ o \in Ordinals /\ dir[o] # None /\ dir[o] \in Records
    BY LogStep, SegmentIs DEF LogInv, Segments
  <2>1. CASE Daemon
    <3>1. DaemonStep
      BY <2>1, DaemonDoes
    <3>2. Removes
      BY <2>0, <3>1, MarksAreNoNumbers, BoundsAreNaturals
         DEF DaemonStep, Keeps, Creates, Counts, TypeOK, Records
    <3>3. o \in writer.doomed
      BY <2>0, <3>2 DEF Removes, TypeOK
    <3> QED
      BY <2>0, <3>3 DEF DoomedByTheLimits, Place
  <2>2. CASE Follower
    BY <2>0, <2>2, FollowerTypes DEF fileVars
  <2>3. CASE UNCHANGED vars
    BY <2>0, <2>3 DEF vars, fileVars
  <2> QED
    BY <2>1, <2>2, <2>3 DEF Next
<1> QED
  BY <1>1, <1>2, <1>3, LogHolds, PTL DEF Spec, PrunesByTheLimits


--------------------------------------------------------------------------------
(* What the daemon makes of the segments, for a follower.                  *)

\* A segment is an old one, or new and empty; a record is an old one, or the one
\* being written; a segment that goes is the oldest one that is doomed.
LEMMA DaemonChanges ==
    ASSUME LogInv, Daemon
    PROVE  /\ LogInv' /\ shown' = shown /\ reader' = reader
           /\ \A o \in Ordinals, f \in Records : dir'[o] = f =>
                 \/ dir[o] = f
                 \/ /\ RecordsIn(f)' = {} /\ f > last /\ f = last' /\ dir[o] = None
                    /\ \A q \in Segments : q < o
           /\ \A f \in Records :
                 /\ RecordsIn(f) \subseteq RecordsIn(f)'
                 /\ \A r \in RecordsIn(f)' :
                       \/ r \in RecordsIn(f)
                       \/ r = last /\ writer.pc = "write" /\ dir[writer.cur] = f
                 /\ Len(data[f]) <= Len(data'[f])
                 /\ \A i \in Whole(f)' :
                       \/ i \in Whole(f) /\ data'[f][i] = data[f][i]
                       \/ /\ i = Len(data[f]) + 1 /\ data'[f][i] = last
                          /\ writer.pc = "write" /\ dir[writer.cur] = f
           /\ \A t \in {"unlink", "number"} : t \in trouble => t \in trouble'
           /\ \A o \in Ordinals : dir'[o] = dir[o] \/ dir[o] = None \/
                 /\ dir'[o] = None /\ o \in writer.doomed /\ writer.pc = "unlink"
                 /\ \A q \in Ordinals : q # o => dir'[q] = dir[q]
                 /\ \A q \in writer.doomed : o <= q
<1>1. LogInv' /\ DaemonStep /\ TypeOK /\ TypeOK' /\ Files
  BY DaemonDoes, DaemonKeepsOrder DEF LogInv
<1>2. ASSUME NEW o \in Ordinals, NEW f \in Records, dir'[o] = f, dir[o] # f
      PROVE  /\ RecordsIn(f)' = {} /\ f > last /\ f = last' /\ dir[o] = None
             /\ \A q \in Segments : q < o
  <2>1. Creates
    BY <1>1, <1>2, MarksAreNoNumbers DEF DaemonStep, Keeps, Counts, Removes, TypeOK, LogInv, Place
  <2>2. PICK p \in Ordinals :
              /\ dir[p] = None /\ dir' = [dir EXCEPT ![p] = last + 1] /\ last' = last + 1
              /\ \A q \in Segments : q <= p
              /\ data' = data
    BY <2>1 DEF Creates
  <2>3. o = p /\ f = last + 1
    BY <1>1, <1>2, <2>2 DEF TypeOK
  <2>4. last \in Nat /\ f > last
    BY <1>1, <2>3, BoundsAreNaturals DEF TypeOK
  <2>5. data'[f] = <<>>
    BY <1>1, <2>2, <2>4 DEF Files
  <2>6. RecordsIn(f)' = {}
    BY <2>5 DEF RecordsIn, Whole
  <2>7. \A q \in Segments : q < o
    <3> SUFFICES ASSUME NEW q \in Segments PROVE q < o
      OBVIOUS
    <3>1. q # o /\ q <= o /\ q \in Nat /\ o \in Nat
      BY <2>2, <2>3, BoundsAreNaturals DEF Segments, Ordinals
    <3> QED
      BY <3>1
  <2> QED
    BY <2>2, <2>3, <2>4, <2>6, <2>7
<1>3. ASSUME NEW f \in Records
      PROVE  /\ RecordsIn(f) \subseteq RecordsIn(f)'
             /\ \A r \in RecordsIn(f)' :
                   \/ r \in RecordsIn(f)
                   \/ r = last /\ writer.pc = "write" /\ dir[writer.cur] = f
             /\ Len(data[f]) <= Len(data'[f])
             /\ \A i \in Whole(f)' :
                   \/ i \in Whole(f) /\ data'[f][i] = data[f][i]
                   \/ i = Len(data[f]) + 1 /\ data'[f][i] = last /\ writer.pc = "write" /\ dir[writer.cur] = f
  BY <1>1, GrowsTo DEF DaemonStep
<1>4. ASSUME NEW o \in Ordinals, dir'[o] # dir[o], dir[o] # None
      PROVE  /\ dir'[o] = None /\ o \in writer.doomed /\ writer.pc = "unlink"
             /\ \A q \in Ordinals : q # o => dir'[q] = dir[q]
             /\ \A q \in writer.doomed : o <= q
  <2>1. Removes
    BY <1>1, <1>4 DEF DaemonStep, Keeps, Counts, Creates, TypeOK
  <2>2. PICK p \in writer.doomed : /\ \A q \in writer.doomed : p <= q
                                   /\ dir' = [dir EXCEPT ![p] = None]
    BY <2>1 DEF Removes
  <2>3. o = p
    BY <1>1, <1>4, <2>2 DEF TypeOK
  <2> QED
    BY <1>1, <1>4, <2>1, <2>2, <2>3 DEF Removes, TypeOK
<1> QED
  BY <1>1, <1>2, <1>3, <1>4 DEF DaemonStep

\* While no doomed segment has stayed, those older than one that goes have nothing to show.
LEMMA OlderThanRemoved ==
    ASSUME LogInv, Daemon, DoomedAreOldest, "unlink" \notin trouble,
           NEW p \in Ordinals, dir[p] # None, dir'[p] = None
    PROVE  /\ \A q \in Ordinals, f \in Records : dir[q] = f /\ q < p => RecordsIn(f) = {}
           /\ \A q \in Ordinals : q # p => dir'[q] = dir[q]
           /\ data' = data
<1>1. /\ p \in writer.doomed /\ writer.pc = "unlink"
      /\ \A q \in Ordinals : q # p => dir'[q] = dir[q]
      /\ \A q \in writer.doomed : p <= q
  BY DaemonChanges
<1>2. \A q \in Ordinals, f \in Records : dir[q] = f /\ q < p => RecordsIn(f) = {}
  <2> SUFFICES ASSUME NEW q \in Ordinals, NEW f \in Records, dir[q] = f, q < p
               PROVE  RecordsIn(f) = {}
    OBVIOUS
  <2>1. q \notin writer.doomed
    BY <1>1, BoundsAreNaturals DEF Ordinals
  <2> QED
    BY <1>1, <2>1 DEF DoomedAreOldest
<1>3. data' = data
  BY <1>1, DaemonDoes, MarksAreNoNumbers, BoundsAreNaturals
     DEF DaemonStep, Keeps, Creates, Counts, Removes, LogInv, TypeOK, Records
<1> QED
  BY <1>1, <1>2, <1>3

--------------------------------------------------------------------------------
(* Nothing is shown twice.                                                 *)

\* What was printed has been made.
LEMMA ShownAreMadeStep ==
    ASSUME LogInv, ShownAreMade, [Next]_vars
    PROVE  ShownAreMade'
<1>0. /\ LogInv' /\ last \in Nat /\ last' \in Nat /\ ShownSet \subseteq Nat
  BY LogStep, BoundsAreNaturals DEF LogInv, TypeOK, ShownSet, Records
<1>1. CASE Daemon
  <2>1. /\ shown' = shown /\ last <= last'
        /\ writer'.pc = "write" =>
              \/ writer.pc = "idle" /\ last' = last + 1
              \/ writer' = writer /\ last' = last
    BY <1>0, <1>1, DaemonDoes DEF DaemonStep, Keeps, Creates, Counts, Removes
  <2> SUFFICES ASSUME NEW s \in ShownSet PROVE s <= last' /\ (writer'.pc = "write" => s < last')
    BY <2>1 DEF ShownAreMade, ShownSet
  <2> QED
    BY <1>0, <2>1 DEF ShownAreMade
<1>2. ASSUME NEW f \in Records, NEW n, shown' = shown \o Printed(f, n), UNCHANGED <<last, writer>>
      PROVE  ShownAreMade'
  <2>1. \A s : s \in ShownSet' <=> s \in ShownSet \/ \E i \in Whole(f) : i > n /\ s = data[f][i]
    BY <1>2, PrintingIs
  <2>2. \A i \in Whole(f) : data[f][i] \in RecordsIn(f)
    BY FileTypes DEF LogInv
  <2> QED
    BY <1>2, <2>1, <2>2 DEF ShownAreMade, LogInv, Made
<1>3. CASE Follower
  <2>1. UNCHANGED <<last, writer>>
    BY <1>3, FollowerTypes DEF daemonVars
  <2>2. shown' = shown \/ \E f \in Records : \E n \in Nat : shown' = shown \o Printed(f, n)
    <3>1. CASE ReadHistory
      <4>1. reader.todo # {} /\ reader.todo \in SUBSET Ordinals
        BY <3>1 DEF LogInv, TypeOK, Reader, Position, ReadHistory
      <4>2. Oldest(reader.todo) \in Ordinals
        BY <4>1, OldestIs
      <4> QED
        BY <3>1, <4>2 DEF ReadHistory, LogInv, TypeOK
    <3>2. CASE Read
      <4>1. reader.file \in Records /\ reader.pos \in Nat
        BY <3>2 DEF LogInv, TypeOK, Reader, Position, Read
      <4> QED
        BY <3>2, <4>1 DEF Read
    <3>3. CASE Follow \/ List \/ Attach \/ Stat
      BY <3>3 DEF Follow, List, Attach, Stat
    <3> QED
      BY <1>3, <3>1, <3>2, <3>3 DEF Follower
  <2> QED
    BY <1>2, <2>1, <2>2 DEF ShownAreMade, ShownSet
<1>4. CASE UNCHANGED vars
  BY <1>4 DEF vars, daemonVars, readerVars, ShownAreMade, ShownSet
<1> QED
  BY <1>1, <1>3, <1>4 DEF Next

\* What is newer than all that was shown stays so, whatever the daemon does.
LEMMA NewerStays ==
    ASSUME LogInv, ShownAreMade, Daemon
    PROVE  /\ \A f \in Records : Newer(f) => Newer(f)'
           /\ \A f \in Records, n \in Nat : NewerAfter(f, n) => NewerAfter(f, n)'
           /\ \A p \in Nat : NewerFrom(p) => NewerFrom(p)'
           /\ AllNewer => AllNewer'
<1>1. /\ ShownSet' = ShownSet
      /\ \A o \in Ordinals, f \in Records : dir'[o] = f => dir[o] = f \/ RecordsIn(f)' = {}
      /\ \A f \in Records : \A r \in RecordsIn(f)' :
            \/ r \in RecordsIn(f)
            \/ r = last /\ writer.pc = "write"
      /\ \A f \in Records : \A i \in Whole(f)' :
            \/ i \in Whole(f) /\ data'[f][i] = data[f][i]
            \/ data'[f][i] = last /\ writer.pc = "write"
  BY DaemonChanges DEF ShownSet
<1>2. \A f \in Records : Newer(f) => Newer(f)'
  BY <1>1 DEF Newer, ShownAreMade
<1>3. \A f \in Records, n \in Nat : NewerAfter(f, n) => NewerAfter(f, n)'
  <2> SUFFICES ASSUME NEW f \in Records, NEW n \in Nat, NewerAfter(f, n),
                      NEW i \in Whole(f)', NEW s \in ShownSet, i > n
               PROVE  s < data'[f][i]
    BY <1>1 DEF NewerAfter
  <2> QED
    BY <1>1 DEF NewerAfter, ShownAreMade
<1>4. \A f \in Records : RecordsIn(f)' = {} => Newer(f)'
  BY DEF Newer
<1>5. \A p \in Nat : NewerFrom(p) => NewerFrom(p)'
  BY <1>1, <1>2, <1>4 DEF NewerFrom
<1>6. AllNewer => AllNewer'
  BY <1>1, <1>2, <1>4 DEF AllNewer
<1> QED
  BY <1>2, <1>3, <1>5, <1>6

\* Once a segment has gone, all that is left is newer, if what came after it was.
LEMMA NewerOnceRemoved ==
    ASSUME LogInv, ShownAreMade, DoomedAreOldest, Daemon, "unlink" \notin trouble,
           NEW p \in Ordinals, dir[p] # None, dir'[p] = None,
           NEW n \in Nat, n <= p + 1, NewerFrom(n)
    PROVE  AllNewer'
<1>1. /\ \A q \in Ordinals, f \in Records : dir[q] = f /\ q < p => RecordsIn(f) = {}
      /\ \A q \in Ordinals : q # p => dir'[q] = dir[q]
      /\ data' = data
  BY OlderThanRemoved
<1> SUFFICES ASSUME NEW o \in Ordinals, NEW f \in Records, dir'[o] = f
             PROVE  Newer(f)'
  BY DEF AllNewer
<1>2. o # p /\ dir[o] = f
  BY <1>1, MarksAreNoNumbers
<1>3. CASE o < p
  BY <1>1, <1>2, <1>3 DEF Newer, RecordsIn, Whole
<1>4. CASE ~ (o < p)
  <2>1. o >= n
    BY <1>2, <1>4, BoundsAreNaturals DEF Ordinals
  <2>2. Newer(f)
    BY <1>2, <2>1 DEF NewerFrom
  <2> QED
    BY <2>2, NewerStays
<1> QED
  BY <1>3, <1>4

\* The follower's variables have their types.
LEMMA ReaderTypes ==
    ASSUME LogInv
    PROVE  /\ reader.from \in Ordinals \cup {None} /\ reader.offset \in Nat /\ reader.pos \in Nat
           /\ reader.todo \subseteq Ordinals /\ reader.files \subseteq Ordinals
           /\ reader.file \in Records \cup {None} /\ reader.cur \in Ordinals \cup {None}
           /\ Ordinals \subseteq Nat /\ Records \subseteq Nat
           /\ None \notin Ordinals /\ None \notin Records
  BY MarksAreNoNumbers, BoundsAreNaturals DEF LogInv, TypeOK, Reader, Ordinals, Records

\* The daemon spoils no position.
LEMMA OrderStaysByDaemon ==
    ASSUME LogInv, ShownAreMade, DoomedAreOldest, OrderInv, Daemon
    PROVE  OrderInv'
<1> SUFFICES ASSUME "unlink" \notin trouble'
             PROVE  /\ ShownInOrder'
                    /\ reader'.pc = "history" => InHistory'
                    /\ reader'.pc \in {"list", "attach"} /\ reader'.file = None => ToAttach'
                    /\ reader'.file # None => Attached'
  BY DEF OrderInv
<1>0. "unlink" \notin trouble /\ reader' = reader /\ shown' = shown
  BY DaemonChanges
<1>1. /\ ShownInOrder
      /\ reader.pc = "history" => InHistory
      /\ reader.pc \in {"list", "attach"} /\ reader.file = None => ToAttach
      /\ reader.file # None => Attached
  BY <1>0 DEF OrderInv
<1>2. ShownInOrder'
  BY <1>0, <1>1 DEF ShownInOrder
<1>3. ASSUME reader.pc = "history" PROVE InHistory'
  <2>1. \A t \in reader.todo : t \in Nat
    BY ReaderTypes
  <2>2. \A t \in reader.todo : NewerFrom(t)'
    BY <1>1, <1>3, <2>1, NewerStays DEF InHistory
  <2> QED
    BY <1>0, <2>2 DEF InHistory
<1>4. ASSUME reader.pc \in {"list", "attach"}, reader.file = None PROVE ToAttach'
  <2>1. CASE AllNewer
    BY <2>1, NewerStays DEF ToAttach
  <2>2. CASE /\ reader.from # None
             /\ FromHere
             /\ reader.pc = "attach" => /\ reader.from \in reader.files
                                        /\ \A o \in reader.files : o > reader.from => dir[o] # None
    <3>0. PICK from \in Ordinals, offset \in Nat, n \in Nat :
              from = reader.from /\ offset = reader.offset /\ n = from + 1
      BY <2>2, ReaderTypes
    <3>1. PICK f \in Records : dir[from] = f /\ offset <= Len(data[f]) /\ NewerAfter(f, offset)
      BY <2>2, <3>0 DEF FromHere
    <3>2. NewerFrom(n)
      BY <2>2, <3>0 DEF FromHere, NewerFrom
    <3>3. CASE \E p \in Ordinals : p >= from /\ dir[p] # None /\ dir'[p] = None
      <4>1. PICK p \in Ordinals : p >= from /\ dir[p] # None /\ dir'[p] = None
        BY <3>3
      <4>2. n <= p + 1
        BY <3>0, <4>1, ReaderTypes
      <4>3. AllNewer'
        BY <1>0, <3>2, <4>1, <4>2, NewerOnceRemoved
      <4> QED
        BY <4>3 DEF ToAttach
    <3>4. CASE ~ \E p \in Ordinals : p >= from /\ dir[p] # None /\ dir'[p] = None
      <4>1. \A p \in Ordinals : p >= from /\ dir[p] # None => dir'[p] = dir[p]
        BY <3>4, DaemonChanges
      <4>2. dir'[from] = f
        BY <3>1, <4>1, ReaderTypes
      <4>3. offset <= Len(data'[f])
        <5>1. Len(data[f]) <= Len(data'[f])
          BY DaemonChanges
        <5>2. Len(data[f]) \in Nat /\ Len(data'[f]) \in Nat
          BY DaemonChanges DEF LogInv, TypeOK
        <5> QED
          BY <3>1, <5>1, <5>2
      <4>4. NewerAfter(f, offset)' /\ NewerFrom(n)'
        BY <3>1, <3>2, NewerStays
      <4>5. FromHere'
        BY <1>0, <3>0, <4>2, <4>3, <4>4 DEF FromHere, NewerFrom, NewerAfter
      <4>6. reader.pc = "attach" => \A o \in reader.files : o > from => dir'[o] # None
        <5> SUFFICES ASSUME reader.pc = "attach", NEW o \in reader.files, o > from
                     PROVE  dir'[o] # None
          OBVIOUS
        <5>1. o \in Ordinals /\ o >= from /\ dir[o] # None
          BY <2>2, <3>0, ReaderTypes
        <5> QED
          BY <4>1, <5>1
      <4> QED
        BY <1>0, <2>2, <3>0, <4>5, <4>6 DEF ToAttach
    <3> QED
      BY <3>3, <3>4
  <2>3. CASE reader.atEnd /\ (reader.pc = "attach" => NewerFrom(Newest(reader.files) + 1))
    <3>1. ASSUME reader.pc = "attach" PROVE (NewerFrom(Newest(reader.files) + 1))'
      <4>1. reader.files # {}
        BY <3>1 DEF LogInv, Position
      <4>2. PICK n \in Nat : n = Newest(reader.files) + 1
        BY <4>1, ReaderTypes, NewestListed
      <4>3. NewerFrom(n)
        BY <2>3, <3>1, <4>2 DEF NewerFrom
      <4>4. NewerFrom(n)'
        BY <4>3, NewerStays
      <4> QED
        BY <1>0, <4>2, <4>4 DEF NewerFrom
    <3> QED
      BY <1>0, <2>3, <3>1 DEF ToAttach, NewerFrom
  <2> QED
    BY <1>1, <1>4, <2>1, <2>2, <2>3 DEF ToAttach
<1>5. ASSUME reader.file # None PROVE Attached'
  <2>0. PICK f \in Records, cur \in Ordinals :
             /\ f = reader.file /\ cur = reader.cur
             /\ NewerAfter(f, reader.pos)
             /\ \/ /\ dir[cur] = f
                   /\ NewerFrom(cur + 1)
                   /\ \/ AllNewer
                      \/ /\ reader.pos <= Len(data[f])
                         /\ reader.pc = "read" => \A o \in reader.files : o > cur => dir[o] # None
                \/ /\ dir[cur] # f
                   /\ AllNewer
                   /\ \A o \in Ordinals, g \in Records : dir[o] = g =>
                         \A r \in RecordsIn(g), s \in RecordsIn(f) : s < r
    BY <1>1, <1>5 DEF Attached
  <2>1. PICK pos \in Nat, n \in Nat : pos = reader.pos /\ n = cur + 1
    BY ReaderTypes
  <2>2. f <= last /\ \A o \in Ordinals : dir[o] = f => o = cur
    BY <1>5, <2>0 DEF LogInv, Position
  <2>3. NewerAfter(f, pos)'
    <3>1. NewerAfter(f, pos)
      BY <2>0, <2>1 DEF NewerAfter
    <3> QED
      BY <3>1, NewerStays
  <2>4. Len(data[f]) <= Len(data'[f]) /\ Len(data[f]) \in Nat /\ Len(data'[f]) \in Nat
    BY DaemonChanges DEF LogInv, TypeOK
  <2>5. CASE /\ dir[cur] = f
             /\ NewerFrom(cur + 1)
             /\ \/ AllNewer
                \/ /\ pos <= Len(data[f])
                   /\ reader.pc = "read" => \A o \in reader.files : o > cur => dir[o] # None
    <3>0. NewerFrom(n)
      BY <2>1, <2>5 DEF NewerFrom
    <3>1. CASE dir'[cur] = None
      <4>1. /\ \A q \in Ordinals, g \in Records : dir[q] = g /\ q < cur => RecordsIn(g) = {}
            /\ \A q \in Ordinals : q # cur => dir'[q] = dir[q]
            /\ data' = data
        BY <1>0, <2>5, <3>1, ReaderTypes, OlderThanRemoved
      <4>2. AllNewer'
        BY <1>0, <2>1, <2>5, <3>0, <3>1, ReaderTypes, NewerOnceRemoved
      <4>3. \A o \in Ordinals, g \in Records : dir'[o] = g =>
                \A r \in RecordsIn(g)', s \in RecordsIn(f)' : s < r
        <5>0. \A g \in Records : RecordsIn(g)' = RecordsIn(g)
          BY <4>1 DEF RecordsIn, Whole
        <5> SUFFICES ASSUME NEW o \in Ordinals, NEW g \in Records, dir'[o] = g,
                            NEW r \in RecordsIn(g), NEW s \in RecordsIn(f)
                     PROVE  s < r
          BY <5>0
        <5>1. o # cur /\ dir[o] = g
          BY <3>1, <4>1, ReaderTypes
        <5>2. ~ (o < cur)
          BY <4>1, <5>1
        <5>3. cur < o
          BY <5>1, <5>2, ReaderTypes
        <5> QED
          BY <2>5, <5>1, <5>3 DEF LogInv, SegmentsInOrder
      <4>4. dir'[cur] # f
        BY <3>1, ReaderTypes
      <4> QED
        BY <1>0, <2>0, <2>1, <2>3, <4>2, <4>3, <4>4 DEF Attached, NewerAfter
    <3>2. CASE dir'[cur] # None
      <4>1. dir'[cur] = f
        BY <2>5, <3>2, ReaderTypes, DaemonChanges
      <4>2. NewerFrom(n)'
        BY <3>0, NewerStays
      <4>3. \/ AllNewer'
            \/ /\ pos <= Len(data'[f])
               /\ reader.pc = "read" => \A o \in reader.files : o > cur => dir'[o] # None
        <5>1. CASE AllNewer
          BY <5>1, NewerStays
        <5>2. CASE /\ pos <= Len(data[f])
                   /\ reader.pc = "read" => \A o \in reader.files : o > cur => dir[o] # None
          <6>1. CASE \E p \in Ordinals : p > cur /\ dir[p] # None /\ dir'[p] = None
            <7>1. PICK p \in Ordinals : p > cur /\ dir[p] # None /\ dir'[p] = None
              BY <6>1
            <7>2. n <= p + 1
              BY <2>1, <7>1, ReaderTypes
            <7> QED
              BY <1>0, <3>0, <7>1, <7>2, NewerOnceRemoved
          <6>2. CASE ~ \E p \in Ordinals : p > cur /\ dir[p] # None /\ dir'[p] = None
            <7>1. pos <= Len(data'[f])
              BY <2>4, <5>2
            <7> QED
              BY <5>2, <6>2, <7>1, ReaderTypes
          <6> QED
            BY <6>1, <6>2
        <5> QED
          BY <2>5, <5>1, <5>2
      <4> QED
        BY <1>0, <2>0, <2>1, <2>3, <4>1, <4>2, <4>3 DEF Attached, NewerAfter, NewerFrom
    <3> QED
      BY <3>1, <3>2
  <2>6. CASE /\ dir[cur] # f
             /\ AllNewer
             /\ \A o \in Ordinals, g \in Records : dir[o] = g =>
                   \A r \in RecordsIn(g), s \in RecordsIn(f) : s < r
    <3>1. dir'[cur] # f
      <4> SUFFICES ASSUME dir'[cur] = f PROVE FALSE
        OBVIOUS
      <4>1. f > last
        BY <2>6, DaemonChanges
      <4> QED
        BY <2>2, <4>1, ReaderTypes, BoundsAreNaturals DEF LogInv, TypeOK
    <3>2. AllNewer'
      BY <2>6, NewerStays
    <3>3. \A s \in RecordsIn(f)' : s \in RecordsIn(f)
      <4> SUFFICES ASSUME NEW s \in RecordsIn(f)', s \notin RecordsIn(f) PROVE FALSE
        OBVIOUS
      <4>1. writer.pc = "write" /\ dir[writer.cur] = f
        BY DaemonChanges
      <4>2. writer.cur \in Ordinals
        BY <4>1 DEF LogInv, TypeOK, Writer
      <4> QED
        BY <2>2, <2>6, <4>1, <4>2
    <3>4. \A o \in Ordinals, g \in Records : dir'[o] = g =>
                \A r \in RecordsIn(g)', s \in RecordsIn(f)' : s < r
      <4> SUFFICES ASSUME NEW o \in Ordinals, NEW g \in Records, dir'[o] = g,
                          NEW r \in RecordsIn(g)', NEW s \in RecordsIn(f)
                   PROVE  s < r
        BY <3>3
      <4>1. dir[o] = g
        BY DaemonChanges
      <4>2. CASE r \in RecordsIn(g)
        BY <2>6, <4>1, <4>2
      <4>3. CASE r = last /\ writer.pc = "write"
        BY <4>3 DEF LogInv, Made
      <4> QED
        BY <4>2, <4>3, DaemonChanges
    <3> QED
      BY <1>0, <2>0, <2>1, <2>3, <3>1, <3>2, <3>4 DEF Attached, NewerAfter
  <2> QED
    BY <2>0, <2>1, <2>5, <2>6
<1> QED
  BY <1>0, <1>2, <1>3, <1>4, <1>5

\* While the files are left alone, what is newer than what was shown stays so until more is shown.
LEMMA NewerWhileShown ==
    ASSUME UNCHANGED <<dir, data>>, shown' = shown
    PROVE  /\ ShownSet' = ShownSet /\ (ShownInOrder => ShownInOrder')
           /\ \A f \in Records : RecordsIn(f)' = RecordsIn(f) /\ Whole(f)' = Whole(f)
           /\ \A f \in Records : Newer(f) => Newer(f)'
           /\ \A f \in Records, n \in Nat : NewerAfter(f, n) => NewerAfter(f, n)'
           /\ \A p \in Nat : NewerFrom(p) => NewerFrom(p)'
           /\ AllNewer => AllNewer'
<1>1. ShownSet' = ShownSet /\ (ShownInOrder => ShownInOrder')
  BY DEF ShownSet, ShownInOrder
<1>2. \A f \in Records : RecordsIn(f)' = RecordsIn(f) /\ Whole(f)' = Whole(f)
  BY DEF RecordsIn, Whole
<1>3. \A f \in Records : Newer(f) => Newer(f)'
  BY <1>1, <1>2 DEF Newer
<1>4. \A f \in Records, n \in Nat : NewerAfter(f, n) => NewerAfter(f, n)'
  BY <1>1, <1>2 DEF NewerAfter
<1>5. \A p \in Nat : NewerFrom(p) => NewerFrom(p)'
  BY <1>3 DEF NewerFrom
<1>6. AllNewer => AllNewer'
  BY <1>3 DEF AllNewer
<1> QED
  BY <1>1, <1>2, <1>3, <1>4, <1>5, <1>6

\* It begins with nothing shown.
LEMMA OrderFollow ==
    ASSUME LogInv, Follow
    PROVE  OrderInv'
<1>1. /\ reader.pc = "off" /\ shown = <<>> /\ shown' = shown /\ reader.file = None
      /\ reader \in Reader
  BY DEF Follow, LogInv, Position, TypeOK
<1>2. ShownSet' = {} /\ ShownInOrder'
  BY <1>1 DEF ShownSet, ShownInOrder
<1>3. AllNewer' /\ \A p \in Nat : NewerFrom(p)'
  BY <1>2 DEF AllNewer, NewerFrom, Newer
<1>4. reader'.file = None
  BY <1>1 DEF Follow, Reader
<1>5. LogInv'
  BY FollowerTypes DEF Follower
<1>6. \A t \in reader'.todo : t \in Nat
  BY <1>5, BoundsAreNaturals DEF LogInv, TypeOK, Reader, Ordinals
<1>7. InHistory'
  BY <1>3, <1>6 DEF InHistory
<1>8. ToAttach'
  BY <1>3 DEF ToAttach
<1> QED
  BY <1>2, <1>4, <1>7, <1>8 DEF OrderInv

\* After the last complete line there is no record.
LEMMA CompleteIs ==
    ASSUME LogInv, NEW f \in Records
    PROVE  /\ Complete(f) \in Nat /\ Complete(f) <= Len(data[f])
           /\ \A i \in Whole(f) : ~ (i > Complete(f))
<1>1. /\ data[f] \in Seq(Token) /\ Len(data[f]) \in Nat /\ (data[f] # <<>> => Len(data[f]) # 0)
      /\ Whole(f) \subseteq 1 .. Len(data[f]) /\ \A i \in Whole(f) : data[f][i] \in Records
  BY FileTypes DEF LogInv
<1>2. CASE data[f] # <<>> /\ Last(data[f]) = Torn
  <2>1. data[f][Len(data[f])] = Torn /\ Complete(f) = Len(data[f]) - 1
    BY <1>2 DEF Complete, Last
  <2>2. Len(data[f]) \notin Whole(f)
    BY <1>1, <2>1, MarksAreNoNumbers
  <2> QED
    BY <1>1, <1>2, <2>1, <2>2
<1>3. CASE ~ (data[f] # <<>> /\ Last(data[f]) = Torn)
  <2>1. Complete(f) = Len(data[f])
    BY <1>3 DEF Complete
  <2> QED
    BY <1>1, <2>1
<1> QED
  BY <1>2, <1>3

\* The oldest segment of the history is printed; those that are left are newer.
LEMMA OrderReadHistory ==
    ASSUME LogInv, OrderInv, ReadHistory
    PROVE  OrderInv'
<1> SUFFICES ASSUME "unlink" \notin trouble'
             PROVE  OrderInv'
  BY DEF OrderInv
<1> DEFINE o == Oldest(reader.todo)
           left == reader.todo \ {o}
<1>1. /\ UNCHANGED <<dir, data, trouble>> /\ reader.pc = "history" /\ reader \in Reader
      /\ reader.file = None /\ reader.todo # {} /\ reader.from = reader.newest
      /\ \A q \in reader.todo : q <= reader.newest
      /\ reader.newest \in reader.todo
  BY FollowerTypes DEF Follower, fileVars, daemonVars, ReadHistory, LogInv, TypeOK, Position
<1>2. o \in reader.todo /\ o \in Ordinals /\ o \in Nat /\ \A q \in reader.todo : q \in Nat /\ o <= q
  BY <1>1, ReaderTypes, OldestIs
<1>3. InHistory /\ ShownInOrder
  BY <1>1 DEF OrderInv
<1>4. /\ reader'.pc = IF left = {} THEN "list" ELSE "history"
      /\ reader'.todo = left /\ reader'.file = None
      /\ \/ /\ dir[o] # None /\ shown' = shown \o Printed(dir[o], 0)
            /\ reader'.from = reader.newest
            /\ reader'.offset = IF o = reader.newest THEN Complete(dir[o]) ELSE 0
         \/ shown' = shown /\ reader'.atEnd = (o = reader.newest)
  BY <1>1 DEF ReadHistory, Reader
<1>5. left = {} => o = reader.newest
  BY <1>1
<1> HIDE DEF o
<1>6. CASE shown' = shown /\ reader'.atEnd = (o = reader.newest)
  <2>1. ShownInOrder'
    BY <1>1, <1>3, <1>6, NewerWhileShown
  <2>2. \A t \in reader.todo : NewerFrom(t)'
    BY <1>1, <1>2, <1>3, <1>6, NewerWhileShown DEF InHistory
  <2>3. InHistory'
    BY <1>4, <2>2 DEF InHistory
  <2>4. left = {} => ToAttach'
    BY <1>4, <1>5, <1>6 DEF ToAttach
  <2> QED
    BY <1>4, <2>1, <2>3, <2>4 DEF OrderInv
<1>7. CASE /\ dir[o] # None /\ shown' = shown \o Printed(dir[o], 0)
           /\ reader'.from = reader.newest
           /\ reader'.offset = IF o = reader.newest THEN Complete(dir[o]) ELSE 0
  <2>1. PICK f \in Records : f = dir[o]
    BY <1>2, <1>7 DEF LogInv, TypeOK
  <2>2. /\ \A s : s \in ShownSet' <=> s \in ShownSet \/ \E i \in Whole(f) : i > 0 /\ s = data[f][i]
        /\ ShownInOrder /\ NewerAfter(f, 0) => ShownInOrder'
    <3>1. shown' = shown \o Printed(f, 0) /\ 0 \in Nat
      BY <1>7, <2>1
    <3> QED
      BY <3>1, PrintingIs
  <2>3. Newer(f)
    BY <1>2, <1>3, <2>1 DEF InHistory, NewerFrom
  <2>4. \A i \in Whole(f) : data[f][i] \in RecordsIn(f)
    BY FileTypes DEF LogInv
  <2>5. ShownInOrder'
    BY <1>3, <2>2, <2>3, <2>4 DEF Newer, NewerAfter
  <2>6. \A p \in Nat : p > o => NewerFrom(p)'
    <3> SUFFICES ASSUME NEW p \in Nat, p > o, NEW q \in Ordinals, NEW g \in Records, dir[q] = g, q >= p,
                        NEW r \in RecordsIn(g), NEW s \in ShownSet'
                 PROVE  s < r
      <4>1. \A g \in Records : RecordsIn(g)' = RecordsIn(g)
        BY <1>1 DEF RecordsIn, Whole
      <4> QED
        BY <1>1, <4>1 DEF NewerFrom, Newer
    <3>1. q \in Nat /\ o < q /\ o <= q
      BY <1>2, ReaderTypes
    <3>2. CASE s \in ShownSet
      BY <1>2, <1>3, <3>1, <3>2 DEF InHistory, NewerFrom, Newer
    <3>3. CASE s \in RecordsIn(f)
      BY <1>2, <2>1, <3>1, <3>3 DEF LogInv, SegmentsInOrder
    <3> QED
      BY <2>2, <2>4, <3>2, <3>3
  <2>7. InHistory'
    <3> SUFFICES ASSUME NEW t \in left PROVE NewerFrom(t)'
      BY <1>4 DEF InHistory
    <3>1. t \in Nat /\ t > o
      BY <1>2
    <3> QED
      BY <2>6, <3>1
  <2>8. ASSUME left = {} PROVE ToAttach'
    <3>1. o = reader'.from /\ reader'.offset = Complete(f) /\ reader'.from # None
      BY <1>2, <1>5, <1>7, <2>1, <2>8, ReaderTypes
    <3>2. /\ Complete(f) \in Nat /\ Complete(f) <= Len(data[f])
          /\ \A i \in Whole(f) : ~ (i > Complete(f))
      BY CompleteIs
    <3>3. o + 1 \in Nat
      BY <1>2
    <3>4. PICK n \in Nat, m \in Nat : n = o + 1 /\ m = Complete(f)
      BY <3>2, <3>3
    <3>5. NewerFrom(n)'
      BY <1>2, <2>6, <3>4
    <3>6. NewerAfter(f, m)'
      BY <1>1, <3>2, <3>4 DEF NewerAfter, Whole
    <3>7. FromHere'
      BY <1>1, <2>1, <3>1, <3>2, <3>4, <3>5, <3>6 DEF FromHere, NewerFrom, NewerAfter
    <3>8. ~ (reader'.pc = "attach")
      BY <1>4
    <3> QED
      BY <3>1, <3>7, <3>8 DEF ToAttach
  <2> QED
    BY <1>4, <2>5, <2>7, <2>8 DEF OrderInv
<1> QED
  BY <1>4, <1>6, <1>7

\* A listing has the segment to go on with, and only segments.
LEMMA OrderList ==
    ASSUME LogInv, OrderInv, List
    PROVE  OrderInv'
<1> SUFFICES ASSUME "unlink" \notin trouble'
             PROVE  OrderInv'
  BY DEF OrderInv
<1>1. /\ UNCHANGED <<dir, data, trouble>> /\ shown' = shown /\ reader.pc = "list" /\ Segments # {}
      /\ Segments \subseteq Ordinals
      /\ ShownInOrder' /\ reader \in Reader
  BY NewerWhileShown DEF List, fileVars, daemonVars, OrderInv, LogInv, TypeOK, Segments
<1>2. /\ reader'.pc = IF reader.file = None THEN "attach" ELSE "read"
      /\ reader'.files = Segments
      /\ \A v \in {"todo", "newest", "from", "offset", "atEnd", "file", "cur", "pos"} : reader'[v] = reader[v]
  BY <1>1 DEF List, Reader
<1>3. ASSUME reader.file = None PROVE ToAttach'
  <2>1. ToAttach
    BY <1>1, <1>3 DEF OrderInv
  <2>2. CASE AllNewer
    BY <1>1, <2>2, NewerWhileShown DEF ToAttach
  <2>3. CASE reader.from # None /\ FromHere
    <3>1. PICK from \in Ordinals, offset \in Nat, n \in Nat :
              from = reader.from /\ offset = reader.offset /\ n = from + 1
      BY <2>3, ReaderTypes
    <3>2. PICK f \in Records : dir[from] = f /\ offset <= Len(data[f]) /\ NewerAfter(f, offset)
      BY <2>3, <3>1 DEF FromHere
    <3>3. NewerAfter(f, offset)'
      BY <1>1, <3>2, NewerWhileShown
    <3>4. NewerFrom(n)'
      <4>1. NewerFrom(n)
        BY <2>3, <3>1 DEF FromHere, NewerFrom
      <4> QED
        BY <1>1, <4>1, NewerWhileShown
    <3>5. FromHere'
      BY <1>1, <1>2, <3>1, <3>2, <3>3, <3>4 DEF FromHere, NewerFrom, NewerAfter
    <3>6. from \in Segments
      BY <3>2, ReaderTypes DEF Segments
    <3>7. \A o \in Segments : dir[o] # None
      BY DEF Segments
    <3> QED
      BY <1>1, <1>2, <2>3, <3>1, <3>5, <3>6, <3>7 DEF ToAttach
  <2>4. CASE reader.atEnd
    <3>1. Newest(Segments) \in Nat /\ \A q \in Segments : q <= Newest(Segments) /\ q \in Nat
      BY <1>1, NewestListed, ReaderTypes
    <3>2. \A q \in Ordinals : q >= Newest(Segments) + 1 => dir[q] = None
      BY <3>1, ReaderTypes DEF Segments
    <3>3. (NewerFrom(Newest(reader.files) + 1))'
      BY <1>1, <1>2, <3>2, ReaderTypes DEF NewerFrom
    <3> QED
      BY <1>2, <2>4, <3>3 DEF ToAttach
  <2> QED
    BY <2>1, <2>2, <2>3, <2>4 DEF ToAttach
<1>4. ASSUME reader.file # None PROVE Attached'
  <2>1. PICK f \in Records, cur \in Ordinals :
             /\ f = reader.file /\ cur = reader.cur
             /\ NewerAfter(f, reader.pos)
             /\ \/ dir[cur] = f /\ NewerFrom(cur + 1) /\ (AllNewer \/ reader.pos <= Len(data[f]))
                \/ /\ dir[cur] # f
                   /\ AllNewer
                   /\ \A o \in Ordinals, g \in Records : dir[o] = g =>
                         \A r \in RecordsIn(g), s \in RecordsIn(f) : s < r
    BY <1>1, <1>4 DEF OrderInv, Attached
  <2>2. PICK pos \in Nat, n \in Nat : pos = reader.pos /\ n = cur + 1
    BY ReaderTypes
  <2>3. NewerAfter(f, pos)' /\ (NewerFrom(n) => NewerFrom(n)') /\ (AllNewer => AllNewer')
    BY <1>1, <2>1, <2>2, NewerWhileShown DEF NewerAfter
  <2>4. \A o \in Segments : dir[o] # None
    BY DEF Segments
  <2>5. \A g \in Records : RecordsIn(g)' = RecordsIn(g)
    BY <1>1, NewerWhileShown
  <2>6. CASE dir[cur] = f /\ NewerFrom(cur + 1) /\ (AllNewer \/ reader.pos <= Len(data[f]))
    <3>1. NewerFrom(n)'
      BY <2>2, <2>3, <2>6 DEF NewerFrom
    <3> QED
      BY <1>1, <1>2, <2>1, <2>2, <2>3, <2>4, <2>6, <3>1 DEF Attached, NewerAfter, NewerFrom
  <2>7. CASE /\ dir[cur] # f
             /\ AllNewer
             /\ \A o \in Ordinals, g \in Records : dir[o] = g =>
                         \A r \in RecordsIn(g), s \in RecordsIn(f) : s < r
    BY <1>1, <1>2, <2>1, <2>2, <2>3, <2>5, <2>7 DEF Attached, NewerAfter
  <2> QED
    BY <2>1, <2>6, <2>7
<1> QED
  BY <1>1, <1>2, <1>3, <1>4 DEF OrderInv

\* A follower that keeps its file and position stays attached.
LEMMA AttachedStays ==
    ASSUME LogInv, Attached, UNCHANGED <<dir, data>>, shown' = shown, reader'.pc # "read",
           reader'.file = reader.file, reader'.cur = reader.cur, reader'.pos = reader.pos
    PROVE  Attached'
<1>1. PICK f \in Records, cur \in Ordinals, pos \in Nat, n \in Nat :
             /\ f = reader.file /\ cur = reader.cur /\ pos = reader.pos /\ n = cur + 1
  BY ReaderTypes DEF Attached
<1>2. /\ NewerAfter(f, pos)
      /\ \/ dir[cur] = f /\ NewerFrom(n) /\ (AllNewer \/ pos <= Len(data[f]))
         \/ /\ dir[cur] # f /\ AllNewer
            /\ \A o \in Ordinals, g \in Records : dir[o] = g =>
                   \A r \in RecordsIn(g), s \in RecordsIn(f) : s < r
  BY <1>1 DEF Attached, NewerAfter, NewerFrom
<1>3. /\ NewerAfter(f, pos)' /\ (NewerFrom(n) => NewerFrom(n)') /\ (AllNewer => AllNewer')
      /\ \A g \in Records : RecordsIn(g)' = RecordsIn(g)
  BY <1>2, NewerWhileShown
<1>4. CASE dir[cur] = f /\ NewerFrom(n) /\ (AllNewer \/ pos <= Len(data[f]))
  BY <1>1, <1>3, <1>4 DEF Attached, NewerAfter, NewerFrom
<1>5. CASE /\ dir[cur] # f /\ AllNewer
           /\ \A o \in Ordinals, g \in Records : dir[o] = g =>
                   \A r \in RecordsIn(g), s \in RecordsIn(f) : s < r
  BY <1>1, <1>3, <1>5 DEF Attached, NewerAfter
<1> QED
  BY <1>2, <1>4, <1>5

\* It opens the segment it was to go on with, or one of which all is newer.
LEMMA OrderAttach ==
    ASSUME LogInv, OrderInv, Attach
    PROVE  OrderInv'
<1> SUFFICES ASSUME "unlink" \notin trouble'
             PROVE  OrderInv'
  BY DEF OrderInv
<1>1. /\ UNCHANGED <<dir, data, trouble>> /\ shown' = shown /\ reader.pc = "attach"
      /\ reader.file = None /\ reader.files # {} /\ ShownInOrder' /\ reader \in Reader
      /\ reader.atEnd => reader.from = None
  BY NewerWhileShown DEF Attach, fileVars, daemonVars, OrderInv, LogInv, TypeOK, Position
<1>2. ToAttach
  BY <1>1 DEF OrderInv
<1>3. CASE reader' = [reader EXCEPT !.pc = "list", !.files = {}]
  <2>1. /\ reader'.pc = "list" /\ reader'.file = None /\ reader'.from = reader.from
        /\ reader'.offset = reader.offset /\ reader'.atEnd = reader.atEnd
    BY <1>1, <1>3 DEF Reader
  <2>2. ASSUME AllNewer PROVE ToAttach'
    BY <1>1, <2>2, NewerWhileShown DEF ToAttach
  <2>3. ASSUME reader.from # None, FromHere PROVE ToAttach'
    <3>1. PICK from \in Ordinals, offset \in Nat, n \in Nat :
              from = reader.from /\ offset = reader.offset /\ n = from + 1
      BY <2>3, ReaderTypes
    <3>2. PICK f \in Records : dir[from] = f /\ offset <= Len(data[f]) /\ NewerAfter(f, offset)
      BY <2>3, <3>1 DEF FromHere
    <3>3. NewerFrom(n)
      BY <2>3, <3>1 DEF FromHere, NewerFrom
    <3>4. NewerAfter(f, offset)' /\ NewerFrom(n)'
      BY <1>1, <3>2, <3>3, NewerWhileShown
    <3>5. FromHere'
      BY <1>1, <2>1, <3>1, <3>2, <3>4 DEF FromHere, NewerFrom, NewerAfter
    <3> QED
      BY <2>1, <2>3, <3>5 DEF ToAttach
  <2>4. ASSUME reader.atEnd PROVE ToAttach'
    BY <2>1, <2>4 DEF ToAttach
  <2>5. ToAttach'
    BY <1>2, <2>2, <2>3, <2>4 DEF ToAttach
  <2> QED
    BY <1>1, <2>1, <2>5 DEF OrderInv
<1>4. ASSUME dir[Target] # None,
             reader'.pc = "read", reader'.files = reader.files,
             reader'.file = dir[Target], reader'.cur = Target,
             reader'.pos = IF reader.atEnd THEN Len(Lines(Target))
                           ELSE IF reader.from \in {None, Target} THEN reader.offset ELSE 0
      PROVE  OrderInv'
  <2>1. PICK cur \in Ordinals, f \in Records : cur = Target /\ f = dir[cur]
    <3>1. Target \in reader.files /\ Target \in Ordinals
      BY <1>1, ReaderTypes, NewestListed DEF Target
    <3> QED
      BY <1>4, <3>1 DEF LogInv, TypeOK
  <2>2. PICK pos \in Nat, n \in Nat : pos = reader'.pos /\ n = cur + 1
    BY <1>4, <2>1, ReaderTypes, FileTypes DEF Lines, LogInv
  <2>3. /\ Len(data[f]) \in Nat /\ \A i \in Whole(f) : i \in 1 .. Len(data[f]) /\ data[f][i] \in RecordsIn(f)
    BY FileTypes DEF LogInv
  <2>4. ASSUME NewerAfter(f, pos), NewerFrom(n),
               AllNewer \/ (pos <= Len(data[f]) /\ \A o \in reader.files : o > cur => dir[o] # None)
        PROVE  Attached'
    <3>1. NewerAfter(f, pos)' /\ NewerFrom(n)' /\ (AllNewer => AllNewer')
      BY <1>1, <2>4, NewerWhileShown
    <3> QED
      BY <1>1, <1>4, <2>1, <2>2, <2>4, <3>1 DEF Attached, NewerAfter, NewerFrom
  <2>5. ASSUME AllNewer PROVE Attached'
    <3>1. NewerFrom(n)
      BY <2>5 DEF AllNewer, NewerFrom
    <3>2. NewerAfter(f, pos)
      BY <2>1, <2>3, <2>5 DEF AllNewer, NewerAfter, Newer
    <3> QED
      BY <2>4, <2>5, <3>1, <3>2
  <2>6. ASSUME reader.from # None, FromHere, reader.from \in reader.files,
               \A o \in reader.files : o > reader.from => dir[o] # None
        PROVE  Attached'
    <3>1. cur = reader.from /\ pos = reader.offset
      BY <1>1, <1>4, <2>1, <2>2, <2>6 DEF Target
    <3>2. NewerAfter(f, pos) /\ NewerFrom(n) /\ pos <= Len(data[f])
      BY <2>1, <2>2, <2>6, <3>1 DEF FromHere, NewerFrom
    <3> QED
      BY <2>4, <2>6, <3>1, <3>2
  <2>7. ASSUME reader.atEnd, NewerFrom(Newest(reader.files) + 1) PROVE Attached'
    <3>1. cur = Newest(reader.files) /\ pos = Len(data[f])
      BY <1>4, <2>1, <2>2, <2>7 DEF Target, Lines
    <3>2. \A o \in reader.files : o <= cur /\ o \in Nat
      BY <1>1, <3>1, ReaderTypes, NewestListed
    <3>3. NewerFrom(n)
      BY <2>2, <2>7, <3>1 DEF NewerFrom
    <3>4. NewerAfter(f, pos)
      BY <2>3, <3>1 DEF NewerAfter
    <3>5. cur \in Nat /\ \A o \in reader.files : ~ (o > cur)
      BY <3>2, ReaderTypes
    <3> QED
      BY <2>3, <2>4, <3>1, <3>3, <3>4, <3>5
  <2>8. Attached'
    BY <1>1, <1>2, <2>5, <2>6, <2>7 DEF ToAttach
  <2> QED
    BY <1>1, <1>4, <2>8 DEF OrderInv
<1>5. CASE /\ dir[Target] # None
           /\ LET pos == IF reader.atEnd THEN Len(Lines(Target))
                        ELSE IF reader.from \in {None, Target} THEN reader.offset ELSE 0
              IN  reader' = [reader EXCEPT !.pc = "read", !.atEnd = FALSE, !.file = dir[Target],
                               !.cur = Target, !.pos = pos,
                               !.blind = @ \/ reader.atEnd \/ reader.from \notin {None, Target}]
  <2>1. /\ reader'.pc = "read" /\ reader'.files = reader.files
        /\ reader'.file = dir[Target] /\ reader'.cur = Target
        /\ reader'.pos = IF reader.atEnd THEN Len(Lines(Target))
                           ELSE IF reader.from \in {None, Target} THEN reader.offset ELSE 0
    BY <1>1, <1>5 DEF Reader
  <2> QED
    BY <1>4, <1>5, <2>1
<1> QED
  BY <1>3, <1>5 DEF Attach

\* It prints what is new in the file, or goes on to the next segment of its listing.
LEMMA OrderRead ==
    ASSUME LogInv, OrderInv, Read
    PROVE  OrderInv'
<1> SUFFICES ASSUME "unlink" \notin trouble'
             PROVE  OrderInv'
  BY DEF OrderInv
<1>1. /\ UNCHANGED <<dir, data, trouble>> /\ reader.pc = "read" /\ reader.file # None
      /\ ShownInOrder /\ Attached /\ reader \in Reader
  BY FollowerTypes DEF Follower, Read, fileVars, daemonVars, OrderInv, LogInv, TypeOK, Position
<1>2. PICK f \in Records, cur \in Ordinals, pos \in Nat, n \in Nat :
             /\ f = reader.file /\ cur = reader.cur /\ pos = reader.pos /\ n = cur + 1
             /\ NewerAfter(f, pos)
             /\ \/ /\ dir[cur] = f /\ NewerFrom(n)
                   /\ AllNewer \/ \A o \in reader.files : o > cur => dir[o] # None
                \/ /\ dir[cur] # f /\ AllNewer
                   /\ \A o \in Ordinals, g \in Records : dir[o] = g =>
                         \A r \in RecordsIn(g), s \in RecordsIn(f) : s < r
  <2>1. PICK f \in Records, cur \in Ordinals :
             /\ f = reader.file /\ cur = reader.cur
             /\ NewerAfter(f, reader.pos)
             /\ \/ /\ dir[cur] = f /\ NewerFrom(cur + 1)
                   /\ AllNewer \/ \A o \in reader.files : o > cur => dir[o] # None
                \/ /\ dir[cur] # f /\ AllNewer
                   /\ \A o \in Ordinals, g \in Records : dir[o] = g =>
                         \A r \in RecordsIn(g), s \in RecordsIn(f) : s < r
    BY <1>1 DEF Attached
  <2>2. PICK pos \in Nat, n \in Nat : pos = reader.pos /\ n = cur + 1
    BY ReaderTypes
  <2>3. NewerAfter(f, pos) /\ (NewerFrom(cur + 1) => NewerFrom(n))
    BY <2>1, <2>2 DEF NewerAfter, NewerFrom
  <2> QED
    BY <2>1, <2>2, <2>3
<1>3. /\ Len(data[f]) \in Nat /\ \A i \in Whole(f) : i \in 1 .. Len(data[f]) /\ data[f][i] \in RecordsIn(f)
  BY FileTypes DEF LogInv
<1>4. CASE /\ shown' = shown \o Printed(f, pos)
           /\ reader' = [reader EXCEPT !.pc = "list", !.files = {}, !.pos = Len(data[f])]
  <2>1. /\ \A s : s \in ShownSet' <=> s \in ShownSet \/ \E i \in Whole(f) : i > pos /\ s = data[f][i]
        /\ ShownInOrder /\ NewerAfter(f, pos) => ShownInOrder'
    BY <1>4, PrintingIs
  <2>2. ShownInOrder'
    BY <1>1, <1>2, <2>1
  <2>3. /\ reader'.pc = "list" /\ reader'.file = f /\ reader'.cur = cur /\ reader'.pos = Len(data[f])
    BY <1>1, <1>2, <1>4 DEF Reader
  <2>4. \A g \in Records : RecordsIn(g)' = RecordsIn(g) /\ Whole(g)' = Whole(g)
    BY <1>1 DEF RecordsIn, Whole
  <2>5. \A s \in ShownSet' : s \in ShownSet \/ s \in RecordsIn(f)
    BY <1>3, <2>1
  <2>6. PICK m \in Nat : m = Len(data[f])
    BY <1>3
  <2>7. NewerAfter(f, m)'
    BY <1>3, <2>4, <2>6 DEF NewerAfter
  <2>8. CASE dir[cur] = f /\ NewerFrom(n)
    <3>1. NewerFrom(n)'
      <4> SUFFICES ASSUME NEW q \in Ordinals, NEW g \in Records, dir[q] = g, q >= n,
                          NEW r \in RecordsIn(g), NEW s \in ShownSet'
                   PROVE  s < r
        BY <1>1, <2>4 DEF NewerFrom, Newer
      <4>1. CASE s \in ShownSet
        BY <2>8, <4>1 DEF NewerFrom, Newer
      <4>2. CASE s \in RecordsIn(f)
        <5>1. cur < q
          BY <1>2, ReaderTypes
        <5> QED
          BY <2>8, <4>2, <5>1 DEF LogInv, SegmentsInOrder
      <4> QED
        BY <2>5, <4>1, <4>2
    <3> QED
      BY <1>1, <1>2, <2>2, <2>3, <2>6, <2>7, <2>8, <3>1, <1>3, ReaderTypes
         DEF OrderInv, Attached, NewerAfter, NewerFrom
  <2>9. CASE /\ dir[cur] # f /\ AllNewer
             /\ \A o \in Ordinals, g \in Records : dir[o] = g =>
                         \A r \in RecordsIn(g), s \in RecordsIn(f) : s < r
    <3>1. AllNewer'
      BY <1>1, <2>4, <2>5, <2>9 DEF AllNewer, Newer
    <3> QED
      BY <1>1, <1>2, <2>2, <2>3, <2>4, <2>6, <2>7, <2>9, <3>1, ReaderTypes
         DEF OrderInv, Attached, NewerAfter
  <2> QED
    BY <1>2, <2>8, <2>9
<1>5. CASE shown' = shown /\ Later # {} /\ reader' = Detached(Oldest(Later))
  <2>1. Later \in SUBSET Ordinals /\ \A o \in Later : o \in reader.files /\ o > cur
    BY <1>2, ReaderTypes DEF Later
  <2>2. PICK o \in Ordinals : o = Oldest(Later) /\ o \in reader.files /\ o > cur
    BY <1>5, <2>1, OldestIs
  <2>3. /\ reader'.pc = "list" /\ reader'.file = None /\ reader'.from = o /\ reader'.offset = 0
    BY <1>1, <1>5, <2>2 DEF Detached, Reader
  <2>4. ShownInOrder'
    BY <1>1, <1>5, NewerWhileShown
  <2>5. CASE AllNewer
    BY <1>1, <1>5, <2>3, <2>4, <2>5, NewerWhileShown DEF OrderInv, ToAttach
  <2>6. CASE /\ dir[cur] = f /\ NewerFrom(n)
             /\ \A q \in reader.files : q > cur => dir[q] # None
    <3>1. PICK g \in Records : dir[o] = g
      BY <2>2, <2>6 DEF LogInv, TypeOK
    <3>2. PICK m \in Nat : m = o + 1
      BY ReaderTypes
    <3>3. o >= n /\ m >= n
      BY <1>2, <2>2, <3>2, ReaderTypes
    <3>4. NewerFrom(m)
      BY <1>2, <2>6, <3>2, <3>3, ReaderTypes DEF NewerFrom
    <3>5. Newer(g) /\ \A i \in Whole(g) : data[g][i] \in RecordsIn(g)
      BY <2>6, <3>1, <3>3, FileTypes DEF NewerFrom, LogInv
    <3>6. 0 \in Nat /\ NewerAfter(g, 0)
      BY <3>5 DEF Newer, NewerAfter
    <3>7. NewerFrom(m)' /\ NewerAfter(g, 0)' /\ Len(data[g]) \in Nat
      BY <1>1, <1>5, <3>4, <3>6, NewerWhileShown, FileTypes DEF LogInv
    <3>8. FromHere'
      BY <1>1, <2>3, <3>1, <3>2, <3>7 DEF FromHere, NewerFrom, NewerAfter
    <3> QED
      BY <2>2, <2>3, <2>4, <3>8, ReaderTypes DEF OrderInv, ToAttach
  <2> QED
    BY <1>2, <2>5, <2>6
<1>6. CASE shown' = shown /\ Later = {} /\ reader' = [reader EXCEPT !.pc = "stat"]
  <2>1. /\ reader'.pc = "stat" /\ reader'.file = f /\ reader'.cur = cur /\ reader'.pos = pos
    BY <1>1, <1>2, <1>6 DEF Reader
  <2>2. ShownInOrder'
    BY <1>1, <1>6, NewerWhileShown
  <2>3. Attached'
    BY <1>1, <1>6, AttachedStays DEF Reader
  <2> QED
    BY <2>1, <2>2, <2>3, ReaderTypes DEF OrderInv
<1> QED
  BY <1>2, <1>4, <1>5, <1>6 DEF Read

\* A file that was replaced leaves only newer records.
LEMMA OrderStat ==
    ASSUME LogInv, OrderInv, Stat
    PROVE  OrderInv'
<1> SUFFICES ASSUME "unlink" \notin trouble'
             PROVE  OrderInv'
  BY DEF OrderInv
<1>1. /\ UNCHANGED <<dir, data, trouble>> /\ shown' = shown /\ reader.pc = "stat" /\ reader.file # None
      /\ ShownInOrder' /\ Attached /\ reader \in Reader
  BY NewerWhileShown DEF Stat, fileVars, daemonVars, OrderInv, LogInv, TypeOK, Position
<1>2. CASE /\ dir[reader.cur] # reader.file \/ Len(data[reader.file]) < reader.pos
           /\ reader' = [Detached(None) EXCEPT !.blind = TRUE]
  <2>1. reader'.pc = "list" /\ reader'.file = None
    BY <1>1, <1>2 DEF Detached, Reader
  <2>2. \A f \in Records : Len(data[f]) \in Nat
    BY FileTypes DEF LogInv
  <2>3. AllNewer
    BY <1>1, <1>2, <2>2, ReaderTypes DEF Attached
  <2>4. AllNewer'
    BY <1>1, <2>3, NewerWhileShown
  <2> QED
    BY <1>1, <2>1, <2>4 DEF OrderInv, ToAttach
<1>3. CASE reader' = [reader EXCEPT !.pc = "list", !.files = {}]
  <2>1. /\ reader'.pc = "list" /\ reader'.file = reader.file /\ reader'.cur = reader.cur
        /\ reader'.pos = reader.pos
    BY <1>1, <1>3 DEF Reader
  <2>2. Attached'
    BY <1>1, <2>1, AttachedStays
  <2> QED
    BY <1>1, <2>1, <2>2 DEF OrderInv
<1> QED
  BY <1>2, <1>3 DEF Stat

\* "No event is shown twice", and none out of order, while no doomed segment has stayed.
THEOREM NothingIsShownTwice == Spec => []ShownOnce
<1>1. Init => DoomedByTheLimits /\ DoomedAreOldest /\ ShownAreMade /\ OrderInv
  BY DEF Init, DoomedByTheLimits, DoomedAreOldest, ShownAreMade, ShownSet, OrderInv, ShownInOrder
<1>2. LogInv /\ DoomedByTheLimits /\ DoomedAreOldest /\ [Next]_vars => DoomedByTheLimits' /\ DoomedAreOldest'
  BY DoomedStep
<1>3. LogInv /\ ShownAreMade /\ [Next]_vars => ShownAreMade'
  BY ShownAreMadeStep
<1>4. LogInv /\ ShownAreMade /\ DoomedAreOldest /\ OrderInv /\ [Next]_vars => OrderInv'
  <2> SUFFICES ASSUME LogInv, ShownAreMade, DoomedAreOldest, OrderInv, [Next]_vars
               PROVE  OrderInv'
    OBVIOUS
  <2>1. CASE Daemon
    BY <2>1, OrderStaysByDaemon
  <2>2. CASE Follower
    BY <2>2, OrderFollow, OrderReadHistory, OrderList, OrderAttach, OrderRead, OrderStat DEF Follower
  <2>3. CASE UNCHANGED vars
    <3> USE <2>3 DEF vars, fileVars, daemonVars, readerVars
    <3>1. \A f \in Records : RecordsIn(f)' = RecordsIn(f) /\ Whole(f)' = Whole(f)
      BY NewerWhileShown
    <3>2. /\ ShownSet' = ShownSet /\ ShownInOrder' = ShownInOrder
      BY DEF ShownSet, ShownInOrder
    <3>3. /\ InHistory => InHistory'
          /\ ToAttach => ToAttach'
          /\ Attached => Attached'
      BY <3>1, <3>2 DEF InHistory, ToAttach, Attached, FromHere, AllNewer, NewerFrom, NewerAfter, Newer
    <3> QED
      BY <3>2, <3>3 DEF OrderInv
  <2> QED
    BY <2>1, <2>2, <2>3 DEF Next
<1>5. OrderInv => ShownOnce
  BY DEF OrderInv, ShownOnce, ShownInOrder
<1> QED
  BY <1>1, <1>2, <1>3, <1>4, <1>5, LogHolds, PTL DEF Spec

--------------------------------------------------------------------------------
(* Nothing is missed.                                                      *)

\* Unless a number was used twice, a new segment has a higher number than any had.
LEMMA NewIsOnTop ==
    ASSUME LogInv, Daemon, "number" \notin trouble'
    PROVE  /\ "number" \notin trouble /\ top <= top' /\ top \in Nat /\ top' \in Nat
           /\ \A o \in Ordinals, f \in Records : dir'[o] = f => dir[o] = f \/
                 (/\ RecordsIn(f)' = {} /\ dir[o] = None /\ o > top /\ o = top' /\ writer'.cur = o
                  /\ o = Known \/ (Known \in Segments /\ o = Newest(Segments) + 1))
<1>1. "number" \notin trouble
  BY DaemonChanges
<1>2. TypeOK /\ TypeOK' /\ DaemonStep /\ top \in Nat /\ top' \in Nat
  BY DaemonDoes, BoundsAreNaturals DEF LogInv, TypeOK, Ordinals
<1>3. top <= top'
  BY <1>2, BoundsAreNaturals DEF DaemonStep, Keeps, Creates, Counts, Removes, Ordinals
<1>4. ASSUME NEW o \in Ordinals, NEW f \in Records, dir'[o] = f, dir[o] # f
      PROVE  /\ RecordsIn(f)' = {} /\ dir[o] = None /\ o > top /\ o = top' /\ writer'.cur = o
             /\ o = Known \/ (Known \in Segments /\ o = Newest(Segments) + 1)
  <2>1. RecordsIn(f)' = {} /\ dir[o] = None
    BY <1>4, DaemonChanges
  <2>2. Creates
    BY <1>2, <1>4, MarksAreNoNumbers DEF DaemonStep, Keeps, Counts, Removes, TypeOK, LogInv, Place
  <2>3. PICK p \in Ordinals :
              /\ writer'.cur = p /\ dir' = [dir EXCEPT ![p] = last + 1]
              /\ p = Known \/ (Known \in Segments /\ p = Newest(Segments) + 1)
              /\ IF p > top THEN top' = p /\ trouble' = trouble
                            ELSE top' = top /\ "number" \in trouble'
    BY <2>2 DEF Creates
  <2>4. p = o
    BY <1>2, <1>4, <2>3 DEF TypeOK
  <2> QED
    BY <2>1, <2>3, <2>4
<1> QED
  BY <1>1, <1>2, <1>3, <1>4

\* Where all that is older has been shown, it stays so, whatever the daemon does.
LEMMA BehindStays ==
    ASSUME LogInv, Daemon, "number" \notin trouble', NEW p \in Ordinals, p <= top, Behind(p)
    PROVE  Behind(p)'
<1> SUFFICES ASSUME GoesOnFrom(p)', NEW o \in Ordinals, NEW f \in Records, dir'[o] = f, o < p,
                    NEW r \in RecordsIn(f)'
             PROVE  r \in ShownSet
  <2>1. ShownSet' = ShownSet
    BY DaemonChanges DEF ShownSet
  <2> QED
    BY <2>1 DEF Behind
<1>1. dir[o] = f /\ o \in Segments
  BY DaemonChanges, ReaderTypes DEF Segments
<1>2. /\ Segments \subseteq Ordinals /\ Ordinals \subseteq Nat /\ top \in Nat /\ top' \in Nat /\ top <= top'
      /\ \A q \in Segments : q <= top
      /\ writer.cur \in Ordinals \cup {None} /\ None \notin Ordinals
      /\ writer.cur # None => \A q \in Segments : q <= writer.cur
      /\ \A q \in Ordinals : dir[q] = f => q = o
  <2>1. Segments \subseteq Ordinals /\ Ordinals \subseteq Nat /\ None \notin Ordinals
    BY ReaderTypes DEF Segments
  <2>2. top \in Nat /\ top' \in Nat /\ top <= top'
    BY NewIsOnTop
  <2>3. \A q \in Segments : q <= top
    BY <2>1, SegmentIs DEF LogInv, Files
  <2>4. /\ writer.cur \in Ordinals \cup {None}
        /\ writer.cur # None => \A q \in Segments : q <= writer.cur
    BY DEF LogInv, TypeOK, Writer, Place
  <2>5. \A q \in Ordinals : dir[q] = f => q = o
    BY <1>1 DEF LogInv, Files
  <2> QED
    BY <2>1, <2>2, <2>3, <2>4, <2>5
<1>3. /\ Newest(Segments) \in Segments /\ \A q \in Segments : q <= Newest(Segments)
      /\ Resumed = Newest(Segments)
      /\ Known = IF writer.cur = None THEN Newest(Segments) ELSE writer.cur
  BY <1>1, NewestSegment DEF LogInv, Resumed, Known
<1>4. ASSUME NEW t, t = Known \/ (Known \in Segments /\ t = Newest(Segments) + 1), t > top, t \in Ordinals
      PROVE  GoesOnFrom(p)
  <2>1. CASE t = Known
    <3>1. writer.cur # None
      BY <1>2, <1>3, <1>4, <2>1
    <3> QED
      BY <1>3, <1>4, <2>1, <3>1 DEF GoesOnFrom
  <2>2. CASE t = Newest(Segments) + 1
    <3>1. Newest(Segments) >= p
      <4>1. Newest(Segments) \in Nat /\ p \in Nat /\ top \in Nat
        BY <1>2, <1>3
      <4> QED
        BY <1>4, <2>2, <4>1
    <3> QED
      BY <1>3, <3>1 DEF GoesOnFrom
  <2> QED
    BY <1>4, <2>1, <2>2
<1>5. GoesOnFrom(p)
  <2>1. CASE \E t \in Segments' : t >= p
    <3>1. PICK t \in Ordinals : dir'[t] # None /\ t >= p
      BY <2>1 DEF Segments
    <3>2. dir'[t] \in Records
      BY <3>1, DaemonChanges DEF LogInv, TypeOK
    <3>3. CASE dir[t] = dir'[t]
      BY <3>1, <3>3 DEF GoesOnFrom, Segments
    <3>4. CASE dir[t] # dir'[t]
      <4>1. t > top /\ (t = Known \/ (Known \in Segments /\ t = Newest(Segments) + 1))
        BY <3>2, <3>4, NewIsOnTop
      <4> QED
        BY <1>4, <4>1
    <3> QED
      BY <3>3, <3>4
  <2>2. CASE writer'.cur # None /\ writer'.cur > top'
    <3>1. writer'.cur \in Ordinals
      BY <2>2, DaemonChanges DEF LogInv, TypeOK, Writer
    <3>2. writer'.cur > top
      <4>1. writer'.cur \in Nat /\ top \in Nat /\ top' \in Nat /\ top <= top'
        BY <1>2, <3>1
      <4> QED
        BY <2>2, <4>1
    <3>3. \/ writer'.cur \in {writer.cur, Known, Resumed}
          \/ Known \in Segments /\ writer'.cur = Newest(Segments) + 1
      BY <2>2, DaemonDoes DEF DaemonStep
    <3>4. CASE writer'.cur = writer.cur
      BY <2>2, <3>2, <3>4 DEF GoesOnFrom
    <3>5. CASE writer'.cur = Resumed
      <4>1. Resumed \in Nat /\ Resumed <= top /\ top \in Nat
        BY <1>2, <1>3
      <4> QED
        BY <3>2, <3>5, <4>1
    <3> QED
      BY <1>4, <3>1, <3>2, <3>3, <3>4, <3>5
  <2> QED
    BY <2>1, <2>2 DEF GoesOnFrom
<1>6. RecordsIn(f) \subseteq ShownSet
  BY <1>1, <1>5 DEF Behind
<1>7. r \in RecordsIn(f)
  <2> SUFFICES ASSUME r \notin RecordsIn(f) PROVE FALSE
    OBVIOUS
  <2>1. writer.pc = "write" /\ dir[writer.cur] = f
    BY DaemonChanges
  <2>2. writer.cur = o
    BY <1>2, <2>1 DEF LogInv, TypeOK
  <2>3. o \in Nat /\ p \in Nat /\ o <= top /\ \A q \in Segments : q \in Nat /\ q <= o
    BY <1>1, <1>2, <2>2
  <2> QED
    BY <1>5, <2>2, <2>3, <1>2 DEF GoesOnFrom
<1> QED
  BY <1>6, <1>7

\* What was shown of a file stays shown; what it gets comes after that.
LEMMA ShownUpToStays ==
    ASSUME LogInv, Daemon, NEW f \in Records, NEW n \in Nat, ShownUpTo(f, n)
    PROVE  ShownUpTo(f, n)'
<1>1. /\ ShownSet' = ShownSet /\ Len(data[f]) <= Len(data'[f])
      /\ \A i \in Whole(f)' : \/ i \in Whole(f) /\ data'[f][i] = data[f][i]
                              \/ i = Len(data[f]) + 1
      /\ Len(data[f]) \in Nat /\ Len(data'[f]) \in Nat
  BY DaemonChanges DEF ShownSet, LogInv, TypeOK
<1> QED
  BY <1>1 DEF ShownUpTo

\* The daemon makes the follower miss nothing.
LEMMA MissStaysByDaemon ==
    ASSUME LogInv, ShownAreMade, MissInv, Daemon
    PROVE  MissInv'
<1> SUFFICES ASSUME ~ reader'.blind, "number" \notin trouble'
             PROVE  MissesNothing'
  BY DEF MissInv
<1>0. reader' = reader /\ shown' = shown /\ ShownSet' = ShownSet /\ MissesNothing /\ LogInv'
  BY DaemonChanges, NewIsOnTop DEF ShownSet, MissInv
<1>1. /\ Segments \subseteq Ordinals /\ top \in Nat
      /\ \A o \in reader.todo \cup reader.files : o <= top
      /\ reader.cur # None => reader.cur <= top
      /\ reader.from # None => reader.from <= top
  BY NewIsOnTop DEF LogInv, Position, Segments
<1>2. \A o \in Segments' : o \in Ordinals /\ (o \in Segments \/ o > top)
  <2> SUFFICES ASSUME NEW o \in Segments', dir[o] = None PROVE o > top
    BY DEF Segments
  <2>1. o \in Ordinals /\ dir'[o] \in Records
    BY <1>0 DEF Segments, LogInv, TypeOK
  <2> QED
    BY <2>1, NewIsOnTop, ReaderTypes
<1>3. NoneSkipped'
  <2> SUFFICES ASSUME NEW o \in Ordinals, NEW f \in Records, dir'[o] = f, NEW r \in RecordsIn(f)'
               PROVE  r \in ShownSet \/ \A s \in ShownSet : s < r
    BY <1>0 DEF NoneSkipped
  <2>1. dir[o] = f
    BY NewIsOnTop
  <2>2. r \in RecordsIn(f) \/ (r = last /\ writer.pc = "write")
    BY DaemonChanges
  <2> QED
    BY <1>0, <2>1, <2>2 DEF MissesNothing, NoneSkipped, ShownAreMade
<1>4. HistoryToRead'
  <2> SUFFICES ASSUME reader.pc = "history", NEW t \in reader.todo, \A u \in reader.todo : t <= u
               PROVE  Behind(t)' /\ \A o \in Segments' : o >= t => o \in reader.todo \/ o > reader.newest
    BY <1>0 DEF HistoryToRead
  <2>1. Behind(t) /\ \A o \in Segments : o >= t => o \in reader.todo \/ o > reader.newest
    BY <1>0 DEF MissesNothing, HistoryToRead
  <2>2. Behind(t)'
    BY <1>1, <2>1, BehindStays, ReaderTypes
  <2>3. reader.newest \in Ordinals /\ reader.newest <= top
    BY <1>1, ReaderTypes DEF LogInv, Position
  <2>4. \A o \in Ordinals : o > top => o > reader.newest
    BY <1>1, <2>3, ReaderTypes
  <2> QED
    BY <1>2, <2>1, <2>2, <2>4
<1>5. PlaceToGoOn'
  <2> SUFFICES ASSUME reader.pc \in {"list", "attach"}, reader.file = None
               PROVE  /\ reader.from = None => reader.atEnd
                      /\ \A from \in Ordinals : from = reader.from =>
                            Behind(from)' /\ \A f \in Records : dir'[from] = f => ShownUpTo(f, reader.offset)'
    BY <1>0 DEF PlaceToGoOn, ShownUpTo
  <2>1. PICK n \in Nat : n = reader.offset
    BY ReaderTypes
  <2>2. ASSUME NEW from \in Ordinals, from = reader.from
        PROVE  Behind(from)' /\ \A f \in Records : dir'[from] = f => ShownUpTo(f, n)'
    <3>1. Behind(from) /\ \A f \in Records : dir[from] = f => ShownUpTo(f, n)
      BY <1>0, <2>1, <2>2 DEF MissesNothing, PlaceToGoOn, ShownUpTo
    <3>2. from <= top /\ from \in Nat
      BY <1>1, <2>2, ReaderTypes
    <3>3. \A f \in Records : dir'[from] = f => dir[from] = f
      BY <1>1, <3>2, NewIsOnTop
    <3> QED
      BY <3>1, <3>2, <3>3, BehindStays, ShownUpToStays
  <2> QED
    BY <1>0, <2>1, <2>2 DEF MissesNothing, PlaceToGoOn, ShownUpTo
<1>6. Listed'
  <2> SUFFICES ASSUME reader.pc \in {"attach", "read"}, NEW o \in Segments'
               PROVE  o \in reader.files \/ \A q \in reader.files : q < o
    BY <1>0 DEF Listed
  <2>1. CASE o \in Segments
    BY <1>0, <2>1 DEF MissesNothing, Listed
  <2>2. CASE o > top
    BY <1>1, <1>2, <2>2, ReaderTypes
  <2> QED
    BY <1>2, <2>1, <2>2
<1>7. PlaceInFile'
  <2> SUFFICES ASSUME NEW f \in Records, NEW cur \in Ordinals, f = reader.file, cur = reader.cur
               PROVE  /\ Behind(cur)' /\ ShownUpTo(f, reader.pos)' /\ dir'[cur] \in {None, f}
                      /\ dir'[cur] = None =>
                            \A o \in Ordinals, g \in Records : dir'[o] = g =>
                                \A r \in RecordsIn(g)', s \in RecordsIn(f)' : r \in ShownSet \/ s < r
    BY <1>0 DEF PlaceInFile, ShownUpTo
  <2>1. PICK n \in Nat : n = reader.pos
    BY ReaderTypes
  <2>2. /\ Behind(cur) /\ ShownUpTo(f, n) /\ dir[cur] \in {None, f}
        /\ dir[cur] = None =>
              \A o \in Ordinals, g \in Records : dir[o] = g =>
                  \A r \in RecordsIn(g), s \in RecordsIn(f) : r \in ShownSet \/ s < r
    BY <1>0, <2>1 DEF MissesNothing, PlaceInFile, ShownUpTo
  <2>3. /\ cur <= top /\ cur \in Nat /\ f <= last
        /\ \A o \in Ordinals : dir[o] = f => o = cur
    BY <1>1, ReaderTypes DEF LogInv, Position
  <2>4. Behind(cur)' /\ ShownUpTo(f, n)'
    BY <2>2, <2>3, BehindStays, ShownUpToStays
  <2>5. dir'[cur] \in {None, f}
    <3>1. dir'[cur] \in Records \cup {None}
      BY <1>0 DEF LogInv, TypeOK
    <3>2. \A g \in Records : dir'[cur] = g => dir[cur] = g
      BY <1>1, <2>3, NewIsOnTop
    <3> QED
      BY <2>2, <3>1, <3>2
  <2>6. ASSUME dir'[cur] = None, NEW o \in Ordinals, NEW g \in Records, dir'[o] = g,
               NEW r \in RecordsIn(g)', NEW s \in RecordsIn(f)'
        PROVE  r \in ShownSet \/ s < r
    <3>1. dir[o] = g
      BY <2>6, NewIsOnTop
    <3>2. CASE dir[cur] = f
      <4>1. data' = data /\ o # cur
        <5>1. dir'[cur] # dir[cur] /\ writer.pc = "unlink"
          BY <2>6, <3>2, ReaderTypes, DaemonChanges
        <5>2. data' = data
          BY <2>6, <3>2, <5>1, DaemonDoes, MarksAreNoNumbers, BoundsAreNaturals
             DEF DaemonStep, Keeps, Creates, Counts, Removes, LogInv, TypeOK, Records
        <5> QED
          BY <2>6, <5>2, ReaderTypes
      <4>2. r \in RecordsIn(g) /\ s \in RecordsIn(f)
        BY <4>1 DEF RecordsIn, Whole
      <4>3. CASE o < cur
        <5>1. cur \in Segments /\ cur >= cur
          BY <2>3, <3>2, ReaderTypes DEF Segments
        <5>2. GoesOnFrom(cur)
          BY <5>1 DEF GoesOnFrom
        <5> QED
          BY <2>2, <3>1, <4>2, <4>3, <5>2 DEF Behind
      <4>4. CASE cur < o
        BY <3>1, <3>2, <4>2, <4>4 DEF LogInv, SegmentsInOrder
      <4> QED
        BY <4>1, <4>3, <4>4, ReaderTypes
    <3>3. CASE dir[cur] = None
      <4>1. s \in RecordsIn(f)
        <5> SUFFICES ASSUME s \notin RecordsIn(f) PROVE FALSE
          OBVIOUS
        <5>1. writer.pc = "write" /\ dir[writer.cur] = f
          BY DaemonChanges
        <5>2. writer.cur \in Ordinals
          BY <5>1 DEF LogInv, TypeOK, Writer
        <5> QED
          BY <2>3, <3>3, <5>1, <5>2, ReaderTypes
      <4>2. CASE r \in RecordsIn(g)
        BY <2>2, <3>1, <3>3, <4>1, <4>2
      <4>3. CASE r = last /\ writer.pc = "write"
        BY <4>1, <4>3 DEF LogInv, Made
      <4> QED
        BY <4>2, <4>3, DaemonChanges
    <3> QED
      BY <2>2, <3>2, <3>3
  <2> QED
    BY <1>0, <2>1, <2>4, <2>5, <2>6 DEF ShownUpTo
<1> QED
  BY <1>3, <1>4, <1>5, <1>6, <1>7 DEF MissesNothing

\* While the files are left alone and what was shown stays shown, nothing is unshown.
LEMMA BehindWhileShown ==
    ASSUME UNCHANGED <<dir, data, writer, top>>, \A s \in ShownSet : s \in ShownSet'
    PROVE  /\ \A p \in Ordinals : Behind(p) => Behind(p)'
           /\ \A f \in Records, n \in Nat : ShownUpTo(f, n) => ShownUpTo(f, n)'
           /\ \A p \in Ordinals : GoesOnFrom(p)' => GoesOnFrom(p)
           /\ Segments' = Segments
           /\ \A f \in Records : RecordsIn(f)' = RecordsIn(f) /\ Whole(f)' = Whole(f)
<1>1. \A f \in Records : RecordsIn(f)' = RecordsIn(f) /\ Whole(f)' = Whole(f)
  BY DEF RecordsIn, Whole
<1>2. Segments' = Segments
  BY DEF Segments
<1>3. \A p \in Ordinals : GoesOnFrom(p)' => GoesOnFrom(p)
  BY <1>2 DEF GoesOnFrom
<1>4. \A p \in Ordinals : Behind(p) => Behind(p)'
  BY <1>1, <1>3 DEF Behind
<1>5. \A f \in Records, n \in Nat : ShownUpTo(f, n) => ShownUpTo(f, n)'
  BY <1>1 DEF ShownUpTo
<1> QED
  BY <1>1, <1>2, <1>3, <1>4, <1>5

\* What stays of the invariant when nothing is shown: the part about the records.
LEMMA NoneSkippedStays ==
    ASSUME UNCHANGED <<dir, data>>, shown' = shown, NoneSkipped
    PROVE  NoneSkipped'
<1>1. ShownSet' = ShownSet
  BY DEF ShownSet
<1> QED
  BY <1>1 DEF NoneSkipped, RecordsIn, Whole

\* Printing the rest of a file skips nothing, when what is older has been shown.
LEMMA NoneSkippedPrinting ==
    ASSUME LogInv, NoneSkipped, UNCHANGED <<dir, data>>,
           NEW f \in Records, NEW cur \in Ordinals, NEW n \in Nat,
           \A s : s \in ShownSet' <=> s \in ShownSet \/ \E i \in Whole(f) : i > n /\ s = data[f][i],
           \A i \in Whole(f) : i <= n => data[f][i] \in ShownSet,
           \/ dir[cur] = f /\ Behind(cur)
           \/ \A o \in Ordinals, g \in Records : dir[o] = g =>
                  \A r \in RecordsIn(g), s \in RecordsIn(f) : r \in ShownSet \/ s < r
    PROVE  NoneSkipped' /\ RecordsIn(f) \subseteq ShownSet' /\ ShownSet \subseteq ShownSet'
<1>1. /\ \A i \in Whole(f) : i \in Nat /\ data[f][i] \in RecordsIn(f)
      /\ \A r \in RecordsIn(f) : \E i \in Whole(f) : r = data[f][i]
      /\ Len(data[f]) \in Nat
  BY FileTypes DEF LogInv, RecordsIn
<1>2. RecordsIn(f) \subseteq ShownSet' /\ ShownSet \subseteq ShownSet'
  <2> SUFFICES ASSUME NEW r \in RecordsIn(f) PROVE r \in ShownSet'
    OBVIOUS
  <2>1. PICK i \in Whole(f) : r = data[f][i] /\ i \in Nat
    BY <1>1
  <2> QED
    BY <2>1
<1>3. \A s \in ShownSet' : s \in ShownSet \/ s \in RecordsIn(f)
  BY <1>1
<1>4. NoneSkipped'
  <2> SUFFICES ASSUME NEW o \in Ordinals, NEW g \in Records, dir[o] = g,
                      NEW r \in RecordsIn(g), r \notin ShownSet', NEW s \in ShownSet'
               PROVE  s < r
    BY DEF NoneSkipped, RecordsIn, Whole
  <2>1. r \notin ShownSet /\ g # f
    BY <1>2
  <2>2. CASE s \in ShownSet
    BY <2>1, <2>2 DEF NoneSkipped
  <2>3. CASE s \in RecordsIn(f)
    <3>1. CASE dir[cur] = f /\ Behind(cur)
      <4>1. GoesOnFrom(cur)
        BY <3>1, ReaderTypes DEF GoesOnFrom, Segments
      <4>2. ~ (o < cur)
        BY <2>1, <3>1, <4>1 DEF Behind
      <4>3. cur < o
        BY <2>1, <3>1, <4>2, ReaderTypes
      <4> QED
        BY <2>3, <3>1, <4>3 DEF LogInv, SegmentsInOrder
    <3>2. CASE \A q \in Ordinals, h \in Records : dir[q] = h =>
                  \A x \in RecordsIn(h), y \in RecordsIn(f) : x \in ShownSet \/ y < x
      BY <2>1, <2>3, <3>2
    <3> QED
      BY <3>1, <3>2
  <2> QED
    BY <1>3, <2>2, <2>3
<1> QED
  BY <1>2, <1>4

\* It begins with all that is there to be read.
LEMMA MissFollow ==
    ASSUME LogInv, Follow
    PROVE  MissInv'
<1>1. /\ reader.pc = "off" /\ shown = <<>> /\ shown' = shown /\ reader.file = None /\ reader.from = None
      /\ UNCHANGED <<dir, data, writer, top>> /\ reader \in Reader
  BY DEF Follow, LogInv, Position, TypeOK, fileVars, daemonVars
<1>2. ShownSet' = {} /\ ShownSet = {}
  BY <1>1 DEF ShownSet
<1>3. NoneSkipped'
  BY <1>2 DEF NoneSkipped
<1>4. CASE Segments = {} /\ reader' = [reader EXCEPT !.pc = "list", !.atEnd = TRUE]
  <2>1. reader'.pc = "list" /\ reader'.file = None /\ reader'.from = None /\ reader'.atEnd
    BY <1>1, <1>4 DEF Reader
  <2> QED
    BY <1>3, <2>1, ReaderTypes
       DEF MissInv, MissesNothing, HistoryToRead, PlaceToGoOn, Listed, PlaceInFile
<1>5. CASE reader' = [reader EXCEPT !.pc = "history", !.todo = Segments,
                          !.newest = Newest(Segments), !.from = Newest(Segments)]
  <2>1. reader'.pc = "history" /\ reader'.file = None /\ reader'.todo = Segments
    BY <1>1, <1>5 DEF Reader
  <2>2. \A t \in Segments : (\A u \in Segments : t <= u) => Behind(t)'
    <3> SUFFICES ASSUME NEW t \in Segments, \A u \in Segments : t <= u,
                        NEW o \in Ordinals, NEW f \in Records, dir[o] = f, o < t
                 PROVE  FALSE
      BY <1>1 DEF Behind
    <3>1. o \in Segments /\ t \in Nat /\ o \in Nat
      BY ReaderTypes DEF Segments
    <3> QED
      BY <3>1
  <2>3. HistoryToRead'
    BY <1>1, <2>1, <2>2, BehindWhileShown DEF HistoryToRead, Segments
  <2> QED
    BY <1>3, <2>1, <2>3, ReaderTypes
       DEF MissInv, MissesNothing, PlaceToGoOn, Listed, PlaceInFile
<1> QED
  BY <1>4, <1>5 DEF Follow

\* The history goes on with the next segment of its listing: there is none in between that
\* was not listed.
LEMMA MissReadHistory ==
    ASSUME LogInv, MissInv, ReadHistory
    PROVE  MissInv'
<1> SUFFICES ASSUME ~ reader'.blind, "number" \notin trouble'
             PROVE  MissesNothing'
  BY DEF MissInv
<1>1. /\ UNCHANGED <<dir, data, writer, top, trouble>> /\ reader.pc = "history" /\ reader \in Reader
      /\ reader.file = None /\ reader.todo # {} /\ reader.from = reader.newest
      /\ \A q \in reader.todo : q <= reader.newest
      /\ reader.newest \in reader.todo
  BY FollowerTypes DEF Follower, fileVars, daemonVars, ReadHistory, LogInv, TypeOK, Position
<1>2. PICK t \in Ordinals : /\ t = Oldest(reader.todo) /\ t \in reader.todo /\ t \in Nat
                             /\ \A q \in reader.todo : q \in Nat /\ t <= q
  BY <1>1, ReaderTypes, OldestIs
<1> DEFINE left == reader.todo \ {t}
<1>3. \/ /\ dir[t] # None /\ shown' = shown \o Printed(dir[t], 0)
         /\ reader' = [reader EXCEPT !.pc = IF left = {} THEN "list" ELSE "history", !.todo = left,
                                  !.offset = IF t = reader.newest THEN Complete(dir[t]) ELSE 0]
      \/ /\ dir[t] = None /\ shown' = shown
         /\ reader' = [reader EXCEPT !.pc = IF left = {} THEN "list" ELSE "history", !.todo = left,
                               !.blind = @ \/ dir[t] # None,
                               !.from = IF t = reader.newest THEN None ELSE @,
                               !.atEnd = (t = reader.newest)]
  BY <1>1, <1>2 DEF ReadHistory, Reader
<1>4. /\ reader'.pc = IF left = {} THEN "list" ELSE "history"
      /\ reader'.todo = left /\ reader'.file = None /\ reader'.newest = reader.newest
      /\ reader'.blind = reader.blind
  BY <1>1, <1>3 DEF Reader
<1>5. left = {} => t = reader.newest
  BY <1>1
<1>6. MissesNothing
  BY <1>1, <1>4 DEF MissInv
<1>7. Behind(t) /\ \A o \in Segments : o >= t => o \in reader.todo \/ o > reader.newest
  BY <1>1, <1>2, <1>6 DEF MissesNothing, HistoryToRead
<1>8. CASE dir[t] = None
  <2>0. /\ shown' = shown /\ ShownSet' = ShownSet /\ Segments' = Segments /\ Segments \subseteq Ordinals
        /\ reader'.from = (IF t = reader.newest THEN None ELSE reader.from)
        /\ reader'.atEnd = (t = reader.newest)
        /\ \A p \in Ordinals : Behind(p) => Behind(p)'
    <3>1. /\ shown' = shown
          /\ reader' = [reader EXCEPT !.pc = IF left = {} THEN "list" ELSE "history", !.todo = left,
                               !.blind = @ \/ dir[t] # None,
                               !.from = IF t = reader.newest THEN None ELSE @,
                               !.atEnd = (t = reader.newest)]
      BY <1>3, <1>8
    <3>2. /\ reader'.from = (IF t = reader.newest THEN None ELSE reader.from)
          /\ reader'.atEnd = (t = reader.newest)
      <4> HIDE DEF left
      <4> QED
        BY <1>1, <3>1 DEF Reader
    <3>3. ShownSet' = ShownSet /\ ShownSet \subseteq ShownSet'
      BY <3>1 DEF ShownSet
    <3>4. \A p \in Ordinals : Behind(p) => Behind(p)'
      BY <1>1, <3>3, BehindWhileShown
    <3> QED
      BY <1>1, <3>1, <3>2, <3>3, <3>4 DEF Segments
  <2>1. NoneSkipped'
    BY <1>1, <1>6, <2>0, NoneSkippedStays DEF MissesNothing
  <2>2. HistoryToRead'
    <3> SUFFICES ASSUME NEW u \in left, \A v \in left : u <= v
                 PROVE  Behind(u)' /\ \A o \in Segments : o >= u => o \in left \/ o > reader.newest
      BY <1>4, <2>0 DEF HistoryToRead
    <3>1. u \in Nat /\ t < u /\ u <= reader.newest /\ u \in Ordinals /\ reader.newest \in Nat
      BY <1>1, <1>2, ReaderTypes
    <3>2. \A o \in Segments : o \in Nat
      BY <2>0, ReaderTypes
    <3>3. \A o \in Segments : o >= u => o \in left \/ o > reader.newest
      BY <1>2, <1>7, <3>1, <3>2
    <3>4. Behind(u)
      <4> SUFFICES ASSUME GoesOnFrom(u), NEW o \in Ordinals, NEW g \in Records, dir[o] = g, o < u
                   PROVE  RecordsIn(g) \subseteq ShownSet
        BY DEF Behind
      <4>1. o \in Segments /\ o \in Nat /\ o # t
        BY <1>8, ReaderTypes DEF Segments
      <4>2. CASE o < t
        <5>1. GoesOnFrom(t)
          <6>1. ASSUME NEW w \in Segments, w >= u PROVE w >= t
            BY <1>2, <3>1, <3>2, <6>1
          <6> QED
            BY <6>1 DEF GoesOnFrom
        <5> QED
          BY <1>7, <4>2, <5>1 DEF Behind
      <4>3. CASE t < o
        <5>1. o \in left
          BY <1>7, <3>1, <4>1, <4>3, <1>2
        <5> QED
          BY <3>1, <4>1, <5>1
      <4> QED
        BY <1>2, <4>1, <4>2, <4>3
    <3> QED
      BY <2>0, <3>1, <3>3, <3>4
  <2>3. PlaceToGoOn'
    BY <1>4, <1>5, <2>0, ReaderTypes DEF PlaceToGoOn
  <2> QED
    BY <1>4, <2>1, <2>2, <2>3, ReaderTypes DEF MissesNothing, Listed, PlaceInFile
<1>9. CASE dir[t] # None
  <2>1. /\ shown' = shown \o Printed(dir[t], 0)
        /\ reader'.from = reader.newest
        /\ reader'.offset = IF t = reader.newest THEN Complete(dir[t]) ELSE 0
    BY <1>1, <1>3, <1>9 DEF Reader
  <2>2. PICK f \in Records : f = dir[t]
    BY <1>2, <2>1, <1>9 DEF LogInv, TypeOK
  <2>3. /\ NoneSkipped' /\ RecordsIn(f) \subseteq ShownSet' /\ ShownSet \subseteq ShownSet'
    <3>1. shown' = shown \o Printed(f, 0) /\ 0 \in Nat
      BY <2>1, <1>9, <2>2
    <3>2. \A s : s \in ShownSet' <=> s \in ShownSet \/ \E i \in Whole(f) : i > 0 /\ s = data[f][i]
      BY <3>1, PrintingIs
    <3>3. \A i \in Whole(f) : ~ (i <= 0)
      BY FileTypes DEF LogInv
    <3> QED
      BY <1>1, <1>2, <1>6, <1>7, <2>2, <3>1, <3>2, <3>3, NoneSkippedPrinting DEF MissesNothing
  <2>4. /\ Behind(t)' /\ Segments' = Segments /\ Segments \subseteq Ordinals
         /\ \A g \in Records : RecordsIn(g)' = RecordsIn(g) /\ Whole(g)' = Whole(g)
         /\ \A p \in Ordinals : GoesOnFrom(p)' => GoesOnFrom(p)
    BY <1>1, <1>2, <1>7, <2>3, BehindWhileShown DEF Segments
  <2>5. HistoryToRead'
    <3> SUFFICES ASSUME NEW u \in left, \A v \in left : u <= v
                 PROVE  Behind(u)' /\ \A o \in Segments : o >= u => o \in left \/ o > reader.newest
      BY <1>4, <2>4 DEF HistoryToRead
    <3>1. u \in Nat /\ t < u /\ u <= reader.newest /\ u \in Ordinals /\ reader.newest \in Nat
      BY <1>1, <1>2, ReaderTypes
    <3>2. \A o \in Segments : o \in Nat
      BY <2>4, ReaderTypes
    <3>3. \A o \in Segments : o >= u => o \in left \/ o > reader.newest
      BY <1>2, <1>7, <3>1, <3>2
    <3>4. Behind(u)'
      <4> SUFFICES ASSUME NEW o \in Ordinals, NEW g \in Records, dir[o] = g, o < u
                   PROVE  RecordsIn(g) \subseteq ShownSet'
        BY <1>1, <2>4 DEF Behind
      <4>1. o \in Segments /\ o \in Nat
        BY ReaderTypes DEF Segments
      <4>2. CASE o < t
        <5>1. GoesOnFrom(t)
          BY <1>2, <2>1, <1>9 DEF GoesOnFrom, Segments
        <5> QED
          BY <1>7, <2>3, <4>2, <5>1 DEF Behind
      <4>3. CASE o = t
        BY <2>2, <2>3, <4>3
      <4>4. CASE t < o
        <5>1. o \in left
          BY <1>7, <3>1, <4>1, <4>4, <1>2
        <5> QED
          BY <3>1, <4>1, <5>1
      <4> QED
        BY <1>2, <4>1, <4>2, <4>3, <4>4
    <3> QED
      BY <3>3, <3>4
  <2>6. PlaceToGoOn'
    <3> SUFFICES ASSUME left = {}
                 PROVE  /\ reader'.from # None
                        /\ \A from \in Ordinals : from = reader'.from =>
                              Behind(from)' /\ \A g \in Records : dir'[from] = g => ShownUpTo(g, reader.offset)'
      BY <1>4 DEF PlaceToGoOn
    <3>1. t = reader'.from /\ reader'.offset = Complete(f) /\ reader'.from # None
      BY <1>2, <1>4, <1>5, <2>1, <2>2, ReaderTypes
    <3>2. PICK n \in Nat : n = Complete(f) /\ n <= Len(data[f])
      BY CompleteIs
    <3>3. ShownUpTo(f, n)'
      <4>1. \A i \in Whole(f) : data[f][i] \in RecordsIn(f)
        BY FileTypes DEF LogInv
      <4> QED
        BY <1>1, <2>3, <2>4, <3>2, <4>1 DEF ShownUpTo
    <3> QED
      BY <1>1, <2>2, <2>4, <3>1, <3>2, <3>3 DEF ShownUpTo
  <2>7. Listed' /\ PlaceInFile'
    BY <1>4, ReaderTypes DEF Listed, PlaceInFile
  <2> QED
    BY <2>3, <2>5, <2>6, <2>7 DEF MissesNothing
<1> QED
  BY <1>8, <1>9

\* A follower that keeps its place keeps what it has shown up to it.
LEMMA PlacesStay ==
    ASSUME LogInv, UNCHANGED <<dir, data, writer, top>>, shown' = shown,
           \A v \in {"from", "offset", "atEnd", "file", "cur", "pos"} : reader'[v] = reader[v]
    PROVE  /\ PlaceInFile => PlaceInFile'
           /\ reader.pc \in {"list", "attach"} \/ reader'.pc \notin {"list", "attach"} =>
                 (PlaceToGoOn => PlaceToGoOn')
<1>1. /\ ShownSet' = ShownSet
      /\ \A p \in Ordinals : Behind(p) => Behind(p)'
      /\ \A g \in Records : RecordsIn(g)' = RecordsIn(g) /\ Whole(g)' = Whole(g)
      /\ \A g \in Records, n \in Nat : ShownUpTo(g, n) => ShownUpTo(g, n)'
  BY BehindWhileShown DEF ShownSet
<1>2. /\ reader'.from = reader.from /\ reader'.offset = reader.offset /\ reader'.atEnd = reader.atEnd
      /\ reader'.file = reader.file /\ reader'.cur = reader.cur /\ reader'.pos = reader.pos
  OBVIOUS
<1>3. PlaceInFile => PlaceInFile'
  BY <1>1, <1>2 DEF PlaceInFile, ShownUpTo
<1>4. reader.pc \in {"list", "attach"} \/ reader'.pc \notin {"list", "attach"} =>
        (PlaceToGoOn => PlaceToGoOn')
  BY <1>1, <1>2 DEF PlaceToGoOn, ShownUpTo
<1> QED
  BY <1>3, <1>4

\* A listing has all the segments there are.
LEMMA MissList ==
    ASSUME LogInv, MissInv, List
    PROVE  MissInv'
<1> SUFFICES ASSUME ~ reader'.blind, "number" \notin trouble'
             PROVE  MissesNothing'
  BY DEF MissInv
<1>1. /\ UNCHANGED <<dir, data, writer, top, trouble>> /\ shown' = shown /\ reader.pc = "list"
      /\ reader \in Reader
  BY DEF List, fileVars, daemonVars, LogInv, TypeOK
<1>2. /\ reader'.pc = IF reader.file = None THEN "attach" ELSE "read"
      /\ reader'.files = Segments
      /\ \A v \in {"from", "offset", "atEnd", "file", "cur", "pos", "blind"} : reader'[v] = reader[v]
  BY <1>1 DEF List, Reader
<1>3. MissesNothing /\ ShownSet' = ShownSet /\ Segments' = Segments
  BY <1>1, <1>2 DEF MissInv, ShownSet, Segments
<1>4. NoneSkipped'
  BY <1>1, <1>3, NoneSkippedStays DEF MissesNothing
<1>5. PlaceToGoOn' /\ PlaceInFile'
  BY <1>1, <1>2, <1>3, PlacesStay DEF MissesNothing
<1>6. Listed' /\ HistoryToRead'
  BY <1>2, <1>3 DEF Listed, HistoryToRead
<1> QED
  BY <1>4, <1>5, <1>6 DEF MissesNothing

\* The tail begins where the history ended, or the follower has lost its place.
LEMMA MissAttach ==
    ASSUME LogInv, MissInv, Attach
    PROVE  MissInv'
<1> SUFFICES ASSUME ~ reader'.blind, "number" \notin trouble'
             PROVE  MissesNothing'
  BY DEF MissInv
<1>1. /\ UNCHANGED <<dir, data, writer, top, trouble>> /\ shown' = shown /\ reader.pc = "attach"
      /\ reader.file = None /\ reader.files # {} /\ reader \in Reader
  BY DEF Attach, fileVars, daemonVars, LogInv, TypeOK, Position
<1>2. CASE reader' = [reader EXCEPT !.pc = "list", !.files = {}]
  <2>1. /\ reader'.pc = "list"
        /\ \A v \in {"from", "offset", "atEnd", "file", "cur", "pos", "blind"} : reader'[v] = reader[v]
    BY <1>1, <1>2 DEF Reader
  <2>2. MissesNothing
    BY <1>1, <2>1 DEF MissInv
  <2>3. NoneSkipped'
    BY <1>1, <2>2, NoneSkippedStays DEF MissesNothing
  <2>4. PlaceToGoOn' /\ PlaceInFile'
    BY <1>1, <2>1, <2>2, PlacesStay DEF MissesNothing
  <2> QED
    BY <2>1, <2>3, <2>4 DEF MissesNothing, Listed, HistoryToRead
<1>3. CASE /\ dir[Target] # None
           /\ LET pos == IF reader.atEnd THEN Len(Lines(Target))
                        ELSE IF reader.from \in {None, Target} THEN reader.offset ELSE 0
              IN  reader' = [reader EXCEPT !.pc = "read", !.atEnd = FALSE, !.file = dir[Target],
                               !.cur = Target, !.pos = pos,
                               !.blind = @ \/ reader.atEnd \/ reader.from \notin {None, Target}]
  <2>1. /\ reader'.pc = "read" /\ reader'.files = reader.files
        /\ reader'.file = dir[Target] /\ reader'.cur = Target
        /\ reader'.pos = IF reader.atEnd THEN Len(Lines(Target))
                           ELSE IF reader.from \in {None, Target} THEN reader.offset ELSE 0
        /\ reader'.blind = (reader.blind \/ reader.atEnd \/ reader.from \notin {None, Target})
    BY <1>1, <1>3 DEF Reader
  <2>2. ~ reader.blind /\ ~ reader.atEnd /\ reader.from \in {None, Target}
    BY <2>1
  <2>3. MissesNothing
    BY <1>1, <2>2 DEF MissInv
  <2>4. reader.from # None
    BY <1>1, <2>2, <2>3 DEF MissesNothing, PlaceToGoOn
  <2>5. PICK cur \in Ordinals, f \in Records, n \in Nat :
            cur = reader.from /\ cur = Target /\ f = dir[cur] /\ n = reader.offset /\ n = reader'.pos
    <3>1. reader.from \in Ordinals /\ reader.from = Target /\ reader.offset \in Nat
      BY <2>2, <2>4, ReaderTypes
    <3>2. dir[reader.from] \in Records
      BY <1>3, <3>1 DEF LogInv, TypeOK
    <3> QED
      BY <2>1, <2>2, <3>1, <3>2
  <2>6. Behind(cur) /\ ShownUpTo(f, n)
    BY <1>1, <2>3, <2>5 DEF MissesNothing, PlaceToGoOn, ShownUpTo
  <2>7. Behind(cur)' /\ ShownUpTo(f, n)'
    BY <1>1, <2>6, BehindWhileShown DEF ShownSet
  <2>8. PlaceInFile'
    BY <1>1, <2>1, <2>5, <2>7, ReaderTypes DEF PlaceInFile, ShownUpTo
  <2>9. NoneSkipped'
    BY <1>1, <2>3, NoneSkippedStays DEF MissesNothing
  <2>10. Listed'
    BY <1>1, <2>1, <2>3 DEF MissesNothing, Listed, Segments
  <2> QED
    BY <2>1, <2>8, <2>9, <2>10 DEF MissesNothing, HistoryToRead, PlaceToGoOn
<1> QED
  BY <1>2, <1>3 DEF Attach

\* A segment is left for the next one only after its end was shown.
LEMMA MissRead ==
    ASSUME LogInv, MissInv, Read
    PROVE  MissInv'
<1> SUFFICES ASSUME ~ reader'.blind, "number" \notin trouble'
             PROVE  MissesNothing'
  BY DEF MissInv
<1>1. /\ UNCHANGED <<dir, data, writer, top, trouble>> /\ reader.pc = "read" /\ reader \in Reader
      /\ reader.file # None /\ reader.cur # None
  <2>1. UNCHANGED <<dir, data, writer, top, trouble>> /\ reader.pc = "read"
    BY DEF Read, fileVars, daemonVars
  <2>2. reader \in Reader /\ Position
    BY DEF LogInv, TypeOK
  <2> QED
    BY <2>1, <2>2 DEF Position
<1>2. reader'.blind = reader.blind
  <2>1. CASE reader' = [reader EXCEPT !.pc = "list", !.files = {}, !.pos = Len(data[reader.file])]
    BY <1>1, <2>1 DEF Reader
  <2>2. CASE reader' = Detached(Oldest(Later))
    BY <1>1, <2>2 DEF Detached, Reader
  <2>3. CASE reader' = [reader EXCEPT !.pc = "stat"]
    BY <1>1, <2>3 DEF Reader
  <2> QED
    BY <2>1, <2>2, <2>3 DEF Read
<1>3. MissesNothing
  BY <1>1, <1>2 DEF MissInv
<1>4. PICK f \in Records, cur \in Ordinals, n \in Nat :
             f = reader.file /\ cur = reader.cur /\ n = reader.pos
  BY <1>1, ReaderTypes
<1>5. /\ Behind(cur) /\ ShownUpTo(f, n) /\ dir[cur] \in {None, f}
      /\ dir[cur] = None =>
              \A o \in Ordinals, g \in Records : dir[o] = g =>
                  \A r \in RecordsIn(g), s \in RecordsIn(f) : r \in ShownSet \/ s < r
  BY <1>3, <1>4 DEF MissesNothing, PlaceInFile, ShownUpTo
<1>6. /\ Len(data[f]) \in Nat /\ Whole(f) \subseteq 1 .. Len(data[f])
      /\ \A i \in Whole(f) : i \in Nat /\ data[f][i] \in RecordsIn(f)
      /\ \A r \in RecordsIn(f) : \E i \in Whole(f) : r = data[f][i]
  BY FileTypes DEF LogInv, RecordsIn
<1>7. CASE /\ shown' = shown \o Printed(f, n)
           /\ reader' = [reader EXCEPT !.pc = "list", !.files = {}, !.pos = Len(data[f])]
  <2>1. \A s : s \in ShownSet' <=> s \in ShownSet \/ \E i \in Whole(f) : i > n /\ s = data[f][i]
    BY <1>7, PrintingIs
  <2>2. \A i \in Whole(f) : i <= n => data[f][i] \in ShownSet
    BY <1>5 DEF ShownUpTo
  <2>3. NoneSkipped' /\ RecordsIn(f) \subseteq ShownSet' /\ ShownSet \subseteq ShownSet'
    BY <1>1, <1>3, <1>5, <2>1, <2>2, NoneSkippedPrinting DEF MissesNothing
  <2>4. /\ Behind(cur)' /\ \A g \in Records : RecordsIn(g)' = RecordsIn(g) /\ Whole(g)' = Whole(g)
    BY <1>1, <1>5, <2>3, BehindWhileShown
  <2>5. /\ reader'.pc = "list" /\ reader'.file = f /\ reader'.cur = cur /\ reader'.pos = Len(data[f])
    BY <1>1, <1>4, <1>7 DEF Reader
  <2>6. PICK m \in Nat : m = Len(data[f])
    BY <1>6
  <2>7. ShownUpTo(f, m)'
    BY <1>1, <1>6, <2>3, <2>4, <2>6 DEF ShownUpTo
  <2>8. PlaceInFile'
    BY <1>1, <1>5, <2>3, <2>4, <2>5, <2>6, <2>7 DEF PlaceInFile, ShownUpTo
  <2> QED
    BY <2>3, <2>5, <2>8, ReaderTypes DEF MissesNothing, HistoryToRead, PlaceToGoOn, Listed
<1>8. CASE n >= Len(data[f]) /\ shown' = shown /\ Later # {} /\ reader' = Detached(Oldest(Later))
  <2>1. Later \in SUBSET Ordinals /\ \A o \in Later : o \in reader.files /\ o > cur
    BY <1>4, ReaderTypes DEF Later
  <2>2. PICK o \in Ordinals : o \in Later /\ o = Oldest(Later) /\ \A q \in Later : o <= q
    BY <1>8, <2>1, OldestIs
  <2>3. /\ reader'.pc = "list" /\ reader'.file = None /\ reader'.from = o /\ reader'.offset = 0
    BY <1>1, <1>8, <2>2 DEF Detached, Reader
  <2>4. /\ ShownSet' = ShownSet
        /\ \A p \in Ordinals : Behind(p) => Behind(p)'
        /\ \A g \in Records : RecordsIn(g)' = RecordsIn(g) /\ Whole(g)' = Whole(g)
    BY <1>1, <1>8, BehindWhileShown DEF ShownSet
  <2>5. Behind(o)
    <3> SUFFICES ASSUME GoesOnFrom(o), NEW q \in Ordinals, NEW g \in Records, dir[q] = g, q < o
                 PROVE  RecordsIn(g) \subseteq ShownSet
      BY DEF Behind
    <3>0. /\ q \in Nat /\ o \in Nat /\ cur \in Nat /\ o > cur /\ q \in Segments
          /\ Segments \subseteq Nat
      BY <2>1, <2>2, ReaderTypes DEF Segments
    <3>1. CASE q < cur
      <4>1. GoesOnFrom(cur)
        BY <3>0 DEF GoesOnFrom
      <4> QED
        BY <1>5, <3>1, <4>1 DEF Behind
    <3>2. CASE q = cur
      <4>1. g = f
        BY <1>5, <3>2, ReaderTypes
      <4>2. \A i \in Whole(f) : i <= n
        BY <1>6, <1>8
      <4> QED
        BY <1>5, <1>6, <4>1, <4>2 DEF ShownUpTo
    <3>3. CASE cur < q
      <4>1. q \in reader.files \/ \A x \in reader.files : x < q
        BY <1>1, <1>3, <3>0 DEF MissesNothing, Listed
      <4>2. q \notin reader.files
        <5> SUFFICES ASSUME q \in reader.files PROVE FALSE
          OBVIOUS
        <5>1. q \in Later
          BY <1>4, <3>0, <3>3 DEF Later
        <5> QED
          BY <2>2, <3>0, <5>1
      <4>3. o \in reader.files
        BY <2>1, <2>2
      <4> QED
        BY <3>0, <4>1, <4>2, <4>3
    <3> QED
      BY <3>0, <3>1, <3>2, <3>3
  <2>6. \A g \in Records : ShownUpTo(g, 0)'
    <3>1. \A g \in Records : Len(data[g]) \in Nat /\ \A i \in Whole(g) : ~ (i <= 0)
      BY FileTypes DEF LogInv
    <3> QED
      BY <1>1, <2>4, <3>1 DEF ShownUpTo
  <2>7. PlaceToGoOn'
    BY <2>2, <2>3, <2>4, <2>5, <2>6, ReaderTypes DEF PlaceToGoOn, ShownUpTo
  <2>8. NoneSkipped'
    BY <1>1, <1>3, <1>8, NoneSkippedStays DEF MissesNothing
  <2> QED
    BY <2>3, <2>7, <2>8, ReaderTypes DEF MissesNothing, HistoryToRead, PlaceInFile, Listed
<1>9. CASE shown' = shown /\ reader' = [reader EXCEPT !.pc = "stat"]
  <2>1. /\ reader'.pc = "stat"
        /\ \A v \in {"from", "offset", "atEnd", "file", "cur", "pos", "blind"} : reader'[v] = reader[v]
    BY <1>1, <1>9 DEF Reader
  <2>2. PlaceInFile' /\ NoneSkipped'
    BY <1>1, <1>3, <1>9, <2>1, PlacesStay, NoneSkippedStays DEF MissesNothing
  <2> QED
    BY <2>1, <2>2 DEF MissesNothing, HistoryToRead, PlaceToGoOn, Listed
<1> QED
  BY <1>4, <1>7, <1>8, <1>9 DEF Read

\* A file that was not replaced is read on; one that was is a place lost.
LEMMA MissStat ==
    ASSUME LogInv, MissInv, Stat
    PROVE  MissInv'
<1> SUFFICES ASSUME ~ reader'.blind, "number" \notin trouble'
             PROVE  MissesNothing'
  BY DEF MissInv
<1>1. /\ UNCHANGED <<dir, data, writer, top, trouble>> /\ shown' = shown /\ reader.pc = "stat"
      /\ reader \in Reader /\ reader.file # None
  BY DEF Stat, fileVars, daemonVars, LogInv, TypeOK, Position
<1>2. reader' = [reader EXCEPT !.pc = "list", !.files = {}]
  <2>1. Detached(None) \in Reader
    BY <1>1 DEF Detached, Reader
  <2>2. [Detached(None) EXCEPT !.blind = TRUE].blind = TRUE
    BY <2>1 DEF Reader
  <2> QED
    BY <2>2 DEF Stat
<1>3. /\ reader'.pc = "list"
      /\ \A v \in {"from", "offset", "atEnd", "file", "cur", "pos", "blind"} : reader'[v] = reader[v]
  BY <1>1, <1>2 DEF Reader
<1>4. MissesNothing
  BY <1>1, <1>3 DEF MissInv
<1>5. PlaceInFile' /\ NoneSkipped'
  BY <1>1, <1>3, <1>4, PlacesStay, NoneSkippedStays DEF MissesNothing
<1> QED
  BY <1>1, <1>3, <1>5 DEF MissesNothing, HistoryToRead, PlaceToGoOn, Listed

\* "And none is missed in between": no record that is on disk is older than one printed
\* and has not been printed, unless the follower has lost its place or a number was
\* used twice.
THEOREM NothingIsMissed == Spec => []NothingSkipped
<1>1. Init => ShownAreMade /\ MissInv
  <2> SUFFICES ASSUME Init PROVE ShownAreMade /\ MissInv
    OBVIOUS
  <2>1. ShownSet = {} /\ reader.pc = "off" /\ reader.file = None
    BY DEF Init, ShownSet
  <2> QED
    BY <2>1, MarksAreNoNumbers
       DEF ShownAreMade, MissInv, MissesNothing, NoneSkipped, HistoryToRead, PlaceToGoOn,
           Listed, PlaceInFile
<1>2. LogInv /\ ShownAreMade /\ [Next]_vars => ShownAreMade'
  BY ShownAreMadeStep
<1>3. LogInv /\ ShownAreMade /\ MissInv /\ [Next]_vars => MissInv'
  <2> SUFFICES ASSUME LogInv, ShownAreMade, MissInv, [Next]_vars
               PROVE  MissInv'
    OBVIOUS
  <2>1. CASE Daemon
    BY <2>1, MissStaysByDaemon
  <2>2. CASE Follower
    BY <2>2, MissFollow, MissReadHistory, MissList, MissAttach, MissRead, MissStat DEF Follower
  <2>3. CASE UNCHANGED vars
    <3> USE <2>3 DEF vars, fileVars, daemonVars, readerVars
    <3>1. ShownSet' = ShownSet
      BY DEF ShownSet
    <3>2. /\ Segments' = Segments
          /\ \A f \in Records : RecordsIn(f)' = RecordsIn(f) /\ Whole(f)' = Whole(f)
          /\ \A p \in Ordinals : Behind(p) => Behind(p)'
      BY <3>1, BehindWhileShown
    <3>3. /\ NoneSkipped => NoneSkipped'
          /\ Listed => Listed'
          /\ HistoryToRead => HistoryToRead'
      BY <3>1, <3>2, ReaderTypes DEF NoneSkipped, Listed, HistoryToRead
    <3>4. /\ PlaceToGoOn => PlaceToGoOn'
          /\ PlaceInFile => PlaceInFile'
      BY PlacesStay
    <3> QED
      BY <3>3, <3>4 DEF MissInv, MissesNothing
  <2> QED
    BY <2>1, <2>2, <2>3 DEF Next
<1>4. LogInv /\ MissInv => NothingSkipped
  <2> SUFFICES ASSUME LogInv, NoneSkipped, NEW r \in Skipped
               PROVE  FALSE
    BY DEF MissInv, MissesNothing, NothingSkipped
  <2>1. PICK o \in Segments : r \in RecordsIn(dir[o])
    BY DEF Skipped, OnDisk
  <2>2. o \in Ordinals /\ dir[o] \in Records
    BY SegmentIs DEF LogInv, Segments
  <2>3. r \in ShownSet \/ \A s \in ShownSet : s < r
    BY <2>1, <2>2 DEF NoneSkipped
  <2>4. /\ \A i \in DOMAIN shown : shown[i] # r
        /\ \E i \in DOMAIN shown : shown[i] > r
    BY DEF Skipped
  <2>5. r \in Nat /\ \A i \in DOMAIN shown : shown[i] \in Nat /\ shown[i] \in ShownSet
    BY <2>1, <2>2, FileTypes DEF LogInv, TypeOK, ShownSet
  <2>6. PICK i \in DOMAIN shown : shown[i] > r
    BY <2>4
  <2>7. shown[i] \in Nat /\ shown[i] \in ShownSet
    BY <2>5
  <2>8. r \notin ShownSet
    BY <2>4 DEF ShownSet
  <2>9. shown[i] < r
    BY <2>3, <2>7, <2>8
  <2> QED
    BY <2>5, <2>6, <2>7, <2>9
<1> QED
  BY <1>1, <1>2, <1>3, <1>4, LogHolds, PTL DEF Spec
================================================================================
