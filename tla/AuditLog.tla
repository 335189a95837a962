-------------------------------- MODULE AuditLog --------------------------------
(***************************************************************************)
(* The audit log: the daemon's EventLog, which appends records to numbered *)
(* segments, rolls to the next one, prunes old ones and closes torn lines; *)
(* and one `holm log --follow`, which prints the history and then tails    *)
(* the files from where the history ended.                                 *)
(*                                                                         *)
(* A segment's content is a sequence of records, the torn beginnings of    *)
(* records, and the newlines that close those.  A record's own newline is  *)
(* part of it: its text is readable unless a torn beginning is on the same *)
(* line.  Records are numbered in the order they are made, which is also   *)
(* the order of their time stamps.  A file is named by the record whose    *)
(* writing created it, and keeps its content for a reader that has it      *)
(* open after it was unlinked.                                             *)
(***************************************************************************)
EXTENDS Naturals, Sequences, SequencesExt

CONSTANTS
    Cap,        \* max_bytes, in records
    Limits,     \* the retention settings: [files |-> max_files, aging |-> BOOLEAN]
    None, Torn, Newline,
    MaxRecords, \* bound: calls of record()
    MaxFaults   \* bound: calls that fail, and kills in the middle of one

ASSUME LimitsAreLimits == Limits \subseteq [files : Nat, aging : BOOLEAN]
ASSUME BoundsAreNaturals == Cap \in Nat \ {0} /\ MaxRecords \in Nat /\ MaxFaults \in Nat
ASSUME MarksAreMarks ==
    /\ {None, Torn, Newline} \cap Nat = {}
    /\ None # Torn /\ None # Newline /\ Torn # Newline

VARIABLES
    dir,        \* the segments: ordinal -> file
    data,       \* file -> content
    last,       \* the record made last
    old,        \* records up to this one are past the age limit
    limit,      \* the retention settings in force
    writer,     \* the daemon's EventLog
    top,        \* the highest segment there has been
    trouble,    \* "repair": a torn line could not be closed; "unlink": a doomed segment
                \* stayed; "number": a segment has the number of one that was deleted
    reader,     \* the local variables of the follower
    shown,      \* the records it has printed
    faults

fileVars == <<dir, data>>
readerVars == <<reader, shown>>
daemonVars == <<last, old, limit, writer, top, trouble>>
vars == <<fileVars, daemonVars, readerVars, faults>>

Records == 1 .. MaxRecords
Ordinals == 1 .. (MaxRecords + 1)
Token == Records \cup {Torn, Newline}

Segments == {o \in Ordinals : dir[o] # None}
Lines(o) == IF dir[o] = None THEN <<>> ELSE data[dir[o]]

\* The places in a file whose record stands alone on its line.
Whole(f) == {i \in DOMAIN data[f] :
               data[f][i] \in Records /\ (i > 1 => data[f][i - 1] # Torn)}
RecordsIn(f) == {data[f][i] : i \in Whole(f)}
OnDisk == UNION {RecordsIn(dir[o]) : o \in Segments}

Oldest(segments) == CHOOSE o \in segments : \A q \in segments : o <= q
Newest(segments) == CHOOSE o \in segments : \A q \in segments : o >= q

Writer == [pc : {"idle", "write", "recover", "start", "prune", "unlink", "down"},
           cur : Ordinals \cup {None}, rolled : BOOLEAN, doomed : SUBSET Ordinals]

\* todo: segments the history has still to read; files: the last listing.  blind is
\* set, for good, when the follower loses its place: the history passes a segment that
\* is there and cannot be read, the tail begins at the end of a file, the segment to go
\* on with has gone, or the one that is open is no longer there and it takes the newest.
Reader == [pc : {"off", "history", "list", "attach", "read", "stat"},
           todo : SUBSET Ordinals, files : SUBSET Ordinals, newest : Ordinals \cup {None},
           from : Ordinals \cup {None}, offset : Nat, atEnd : BOOLEAN,
           file : Records \cup {None}, cur : Ordinals \cup {None}, pos : Nat, blind : BOOLEAN]

Init ==
    /\ dir = [o \in Ordinals |-> None]
    /\ data = [f \in Records |-> <<>>]
    /\ last = 0
    /\ old = 0
    /\ limit \in Limits
    /\ writer = [pc |-> "idle", cur |-> 1, rolled |-> FALSE, doomed |-> {}]
    /\ top = 0
    /\ trouble = {}
    /\ reader = [pc |-> "off", todo |-> {}, files |-> {}, newest |-> None, from |-> None,
                 offset |-> 0, atEnd |-> FALSE, file |-> None, cur |-> None, pos |-> 0,
                 blind |-> FALSE]
    /\ shown = <<>>
    /\ faults = 0

Fine == UNCHANGED faults
Fault == faults < MaxFaults /\ faults' = faults + 1

--------------------------------------------------------------------------------
(* The daemon.                                                             *)

\* Where to append: the newest segment, or the first.
Resumed == IF Segments = {} THEN 1 ELSE Newest(Segments)

\* (mutant) A directory that cannot be listed is an empty one.
Unlisted_IsEmpty == 1

\* ... unless the directory cannot be listed.
Unlisted == None

Known == IF writer.cur = None THEN Resumed ELSE writer.cur

\* (mutant) One number is left out.
NextSegment_SkipsOne(o) == 2 + Newest(Segments \cup {o})

\* One past the highest ordinal there is.
NextSegment(o) == 1 + Newest(Segments \cup {o})

\* Another record would take the segment past its size.  A line's end is nothing.
Full(o) ==
    LET size == Cardinality({i \in DOMAIN Lines(o) : Lines(o)[i] # Newline})
    IN  size > 0 /\ size + 1 > Cap

\* record(), up to the open that creates a missing segment.
Record ==
    /\ writer.pc = "idle"
    /\ last < MaxRecords
    /\ last' = last + 1
    /\ LET rolled == Full(Known)
           cur == IF rolled THEN NextSegment(Known) ELSE Known
       IN  \/ /\ Fine
              /\ writer' = [writer EXCEPT !.pc = "write", !.cur = cur, !.rolled = rolled]
              /\ IF dir[cur] # None THEN UNCHANGED <<dir, top, trouble>>
                 ELSE /\ dir' = [dir EXCEPT ![cur] = last']
                      /\ top' = IF cur > top THEN cur ELSE top
                      /\ trouble' = IF cur > top THEN trouble ELSE trouble \cup {"number"}
           \/ /\ Fault
              /\ writer' = [writer EXCEPT !.pc = "recover"]
              /\ UNCHANGED <<dir, top, trouble>>
    /\ UNCHANGED <<data, old, limit, readerVars>>

Write ==
    /\ writer.pc = "write"
    /\ Fine
    /\ data' = [data EXCEPT ![dir[writer.cur]] = Append(@, last)]
    /\ writer' = [writer EXCEPT !.pc = IF writer.rolled THEN "prune" ELSE "idle",
                                !.rolled = FALSE]
    /\ UNCHANGED <<dir, last, old, limit, top, trouble, readerVars>>

\* What a write leaves that fails or is killed.
Flushed ==
    \E text \in {<<>>, <<Torn>>, <<last>>} :
        data' = [data EXCEPT ![dir[writer.cur]] = @ \o text]

WriteFails ==
    /\ writer.pc = "write"
    /\ Fault
    /\ Flushed
    /\ writer' = [writer EXCEPT !.pc = "recover", !.rolled = FALSE]
    /\ UNCHANGED <<dir, last, old, limit, top, trouble, readerVars>>

TornAtEnd(o) == Lines(o) # <<>> /\ Last(Lines(o)) = Torn

\* (mutant) A torn line is left as it is.
Repaired_Not(o) == data

\* _repair_torn_last_line.
Repaired(o) ==
    IF TornAtEnd(o) THEN [data EXCEPT ![dir[o]] = Append(@, Newline)] ELSE data

\* record()'s except clause, and the constructor: resume and repair.
Recover ==
    /\ writer.pc \in {"recover", "start"}
    /\ LET then == IF writer.pc = "start" THEN "prune" ELSE "idle"
       IN  \/ /\ Fine
              /\ data' = Repaired(Resumed)
              /\ writer' = [writer EXCEPT !.pc = then, !.cur = Resumed]
              /\ trouble' = trouble \ {"repair"}
           \/ /\ \/ Fault
                 \/ Fine /\ writer.pc = "recover"   \* still what failed the write
              /\ \E cur \in {Resumed, Unlisted} :
                    writer' = [writer EXCEPT !.pc = then, !.cur = cur]
              /\ trouble' = IF TornAtEnd(Resumed) THEN trouble \cup {"repair"} ELSE trouble
              /\ UNCHANGED data
    /\ UNCHANGED <<dir, last, old, limit, top, readerVars>>

\* (mutant) One old record is enough.
Expired_Any(o) == limit.aging /\ \E r \in RecordsIn(dir[o]) : r <= old

\* The newest record a segment has is past the age limit.  Without one it stays.
Expired(o) ==
    LET records == RecordsIn(dir[o])
    IN  limit.aging /\ records # {} /\ \A r \in records : r <= old

\* The oldest ones, beyond the number of segments to keep.
Excess(older) ==
    LET n == Cardinality(Segments)
    IN  {o \in older : limit.files > 0 /\ Cardinality({q \in older : q < o}) + limit.files < n}

\* _prune: an expired segment that is being written is left first.
Prune ==
    /\ writer.pc = "prune"
    /\ LET rolled == dir[Known] # None /\ Expired(Known)
           cur == IF rolled THEN NextSegment(Known) ELSE Known
           older == Segments \ {cur}
           doomed == Excess(older) \cup {o \in older : Expired(o)}
       IN  \/ /\ Fine
              /\ writer' = [writer EXCEPT !.pc = IF doomed = {} THEN "idle" ELSE "unlink",
                                          !.cur = cur, !.doomed = doomed]
           \/ /\ Fault      \* the directory cannot be listed
              /\ writer' = [writer EXCEPT !.pc = "idle",
                                          !.cur = IF @ = None THEN None ELSE cur]
    /\ UNCHANGED <<fileVars, last, old, limit, top, trouble, readerVars>>

\* The doomed segments go one by one, the oldest first; a failure is only logged.
Unlink ==
    /\ writer.pc = "unlink"
    /\ LET o == Oldest(writer.doomed)
           left == writer.doomed \ {o}
       IN  /\ \/ Fine /\ dir' = [dir EXCEPT ![o] = None] /\ UNCHANGED trouble
              \/ Fault /\ trouble' = trouble \cup {"unlink"} /\ UNCHANGED dir
           /\ writer' = [writer EXCEPT !.pc = IF left = {} THEN "idle" ELSE "unlink",
                                       !.doomed = left]
    /\ UNCHANGED <<data, last, old, limit, top, readerVars>>

\* Every reconcile applies the retention settings of the moment.
Configure ==
    /\ writer.pc = "idle"
    /\ limit' \in Limits
    /\ writer' = [writer EXCEPT !.pc = "prune"]
    /\ UNCHANGED <<fileVars, last, old, top, trouble, readerVars, faults>>

\* Time passes.
GrowOld ==
    /\ old < last
    /\ old' = old + 1
    /\ UNCHANGED <<fileVars, last, limit, writer, top, trouble, readerVars, faults>>

\* The daemon stops between two records, or is killed at any point.
Stop ==
    /\ \/ writer.pc = "idle" /\ Fine /\ UNCHANGED data
       \/ writer.pc \notin {"idle", "write", "down"} /\ Fault /\ UNCHANGED data
       \/ writer.pc = "write" /\ Fault /\ Flushed
    /\ writer' = [pc |-> "down", cur |-> None, rolled |-> FALSE, doomed |-> {}]
    /\ UNCHANGED <<dir, last, old, limit, top, trouble, readerVars>>

Start ==
    /\ writer.pc = "down"
    /\ limit' \in Limits
    /\ writer' = [writer EXCEPT !.pc = "start"]
    /\ UNCHANGED <<fileVars, last, old, top, trouble, readerVars, faults>>

--------------------------------------------------------------------------------
(* `holm log --follow`.                                                    *)

\* What stands at these places of a file's content, one after another.
Picked(content, places) ==
    LET upTo[i \in 0 .. Len(content)] ==
            IF i = 0 THEN <<>>
            ELSE IF i \in places THEN Append(upTo[i - 1], content[i]) ELSE upTo[i - 1]
    IN  upTo[Len(content)]

\* What a reader prints of a file's content after the first n places.
Printed(f, n) == Picked(data[f], {i \in Whole(f) : i > n})

\* _read_event_history lists the segments.  The newest is where the tail resumes;
\* without one it begins at the end of whatever there is.
Follow ==
    /\ reader.pc = "off"
    /\ reader' = IF Segments = {} THEN [reader EXCEPT !.pc = "list", !.atEnd = TRUE]
                 ELSE [reader EXCEPT !.pc = "history", !.todo = Segments,
                                     !.newest = Newest(Segments), !.from = Newest(Segments)]
    /\ UNCHANGED <<fileVars, daemonVars, shown, faults>>

\* (mutant) The offset is lost.
Complete_Lost(f) == 0

\* The content of a file up to the end of its last complete line.
Complete(f) == IF data[f] # <<>> /\ Last(data[f]) = Torn THEN Len(data[f]) - 1 ELSE Len(data[f])

\* The next segment of the history, to its end; past one that has gone or cannot be read,
\* without a place to go on from if it is the newest.
ReadHistory ==
    /\ reader.pc = "history"
    /\ LET o == Oldest(reader.todo)
           left == reader.todo \ {o}
           then == IF left = {} THEN "list" ELSE "history"
       IN  \/ /\ dir[o] # None
              /\ Fine
              /\ shown' = shown \o Printed(dir[o], 0)
              /\ reader' = [reader EXCEPT !.pc = then, !.todo = left,
                               !.offset = IF o = reader.newest THEN Complete(dir[o]) ELSE 0]
           \/ /\ IF dir[o] = None THEN Fine ELSE Fault
              /\ reader' = [reader EXCEPT !.pc = then, !.todo = left, !.blind = @ \/ dir[o] # None,
                               !.from = IF o = reader.newest THEN None ELSE @,
                               !.atEnd = o = reader.newest]
              /\ UNCHANGED shown
    /\ UNCHANGED <<fileVars, daemonVars>>

\* _tail_event_log, from the top of its loop: the listing this round goes by.
List ==
    /\ reader.pc = "list"
    /\ Segments # {}
    /\ reader' = [reader EXCEPT !.pc = IF reader.file = None THEN "attach" ELSE "read",
                                !.files = Segments]
    /\ UNCHANGED <<fileVars, daemonVars, shown, faults>>

\* Which segment to open: the one to go on with, or the newest when there is none
\* or it has gone.
Target ==
    IF ~ reader.atEnd /\ reader.from \in reader.files THEN reader.from ELSE Newest(reader.files)

Attach ==
    /\ reader.pc = "attach"
    /\ \/ /\ dir[Target] = None
          /\ reader' = [reader EXCEPT !.pc = "list", !.files = {}]
       \/ /\ dir[Target] # None
          /\ LET pos == IF reader.atEnd THEN Len(Lines(Target))
                        ELSE IF reader.from \in {None, Target} THEN reader.offset ELSE 0
             IN  reader' = [reader EXCEPT !.pc = "read", !.atEnd = FALSE, !.file = dir[Target],
                               !.cur = Target, !.pos = pos,
                               !.blind = @ \/ reader.atEnd \/ reader.from \notin {None, Target}]
    /\ UNCHANGED <<fileVars, daemonVars, shown, faults>>

\* (mutant) The newest one, past those in between.
Later_Newest == {o \in reader.files : o > reader.cur /\ o = Newest(reader.files)}

\* (mutant) The follower stays with its file.
Later_None == {}

\* The segments after this one, in the listing made before the file was read.
Later == {o \in reader.files : o > reader.cur}

Detached(from) ==
    [reader EXCEPT !.pc = "list", !.files = {}, !.file = None, !.cur = None, !.pos = 0,
                   !.from = from, !.offset = 0]

\* What is new in the file, or, when nothing is, on to the next segment.
Read ==
    /\ reader.pc = "read"
    /\ \/ /\ reader.pos < Len(data[reader.file])
          /\ shown' = shown \o Printed(reader.file, reader.pos)
          /\ reader' = [reader EXCEPT !.pc = "list", !.files = {}, !.pos = Len(data[reader.file])]
       \/ /\ reader.pos >= Len(data[reader.file])
          /\ reader' = IF Later # {} THEN Detached(Oldest(Later))
                       ELSE [reader EXCEPT !.pc = "stat"]
          /\ UNCHANGED shown
    /\ UNCHANGED <<fileVars, daemonVars, faults>>

\* _log_was_replaced: unlinked, or another file.
Stat ==
    /\ reader.pc = "stat"
    /\ reader' = IF dir[reader.cur] # reader.file \/ Len(data[reader.file]) < reader.pos
                   THEN [Detached(None) EXCEPT !.blind = TRUE]
                   ELSE [reader EXCEPT !.pc = "list", !.files = {}]
    /\ UNCHANGED <<fileVars, daemonVars, shown, faults>>

--------------------------------------------------------------------------------
Daemon ==
    \/ Record \/ Write \/ WriteFails \/ Recover \/ Prune \/ Unlink
    \/ Configure \/ GrowOld \/ Stop \/ Start

Follower == Follow \/ ReadHistory \/ List \/ Attach \/ Read \/ Stat

Next == Daemon \/ Follower

Spec == Init /\ [][Next]_vars

\* The follower polls.  Nothing is asked of the daemon.
FairSpec == Spec /\ WF_vars(Follower /\ reader.pc # "off")

--------------------------------------------------------------------------------
(* Correctness.                                                            *)

\* Type correctness of the files, the writer and the follower.
TypeOK ==
    /\ dir \in [Ordinals -> Records \cup {None}]
    /\ data \in [Records -> Seq(Token)]
    /\ last \in 0 .. MaxRecords /\ old \in 0 .. last
    /\ limit \in Limits
    /\ writer \in Writer
    /\ writer.pc = "write" => writer.cur # None /\ dir[writer.cur] # None
    /\ trouble \subseteq {"repair", "unlink", "number"} /\ top \in {0} \cup Ordinals
    /\ reader \in Reader
    /\ shown \in Seq(Records)
    /\ faults \in 0 .. MaxFaults

\* "One JSON object per line, oldest first" (docs/reference/audit-log.mdx:30): read
\* segment by segment the log is in the order the records were made, through
\* rolls, prunes, restarts and directories that could not be listed.
LogInOrder ==
    /\ \A o, q \in Segments : o < q =>
          \A r \in RecordsIn(dir[o]), s \in RecordsIn(dir[q]) : r < s
    /\ \A o \in Segments : \A i, j \in Whole(dir[o]) : i < j => data[dir[o]][i] < data[dir[o]][j]

\* "So the next record cannot fuse onto it" (events.py:326-328): a record is
\* appended to a torn line only after closing that line has trouble.
NothingFused ==
    [][\A f \in Records :
          /\ Len(data'[f]) > Len(data[f])
          /\ data[f] # <<>> /\ Last(data[f]) = Torn
          /\ Last(data'[f]) # Newline
          => "repair" \in trouble]_vars

\* "A file goes when it passes either" limit (docs/reference/audit-log.mdx:70): a
\* segment is deleted only when as many newer ones as are to be kept are there, or
\* when every record in it is past the age limit; and never the one being written.
PrunesByTheLimits ==
    [][\A o \in Segments : dir'[o] = None =>
          /\ o # writer.cur
          /\ \/ limit.files > 0 /\ Cardinality({q \in Segments : q > o}) >= limit.files
             \/ limit.aging /\ \A r \in RecordsIn(dir[o]) : r <= old]_vars

\* "No event is shown twice" (main.py:1030-1031), and none out of order: what the
\* follower prints, history and tail, is a subsequence of what was recorded, even
\* when it has to jump - unless a segment that could not be deleted has outlived
\* a newer one.
ShownOnce ==
    "unlink" \notin trouble => \A i, j \in DOMAIN shown : i < j => shown[i] < shown[j]

\* A record that is on disk and older than one printed, and has not been printed.
Skipped == {r \in OnDisk : /\ \A i \in DOMAIN shown : shown[i] # r
                           /\ \E i \in DOMAIN shown : shown[i] > r}

\* "And none is missed in between" (main.py:1031): history and tail leave out
\* no record that is still on disk - across the hand-over, rolls while a file is
\* read and prunes of what was read - unless the follower has lost its place, or
\* the numbers began again because the whole log was deleted.
NothingSkipped == ~ reader.blind /\ "number" \notin trouble => Skipped = {}

\* "Recent history prints first and then new decisions appear as they happen"
\* (docs/reference/cli.mdx:304-305), for a directory whose log begins later.
FollowsFromTheFirst == reader.newest = None => Skipped = {}

\* A follower catches up: again and again it has printed every record that is on
\* disk - so that, records being bounded here, each is printed in the end, or pruned -
\* unless it has lost its place or the numbers have begun again.
CatchesUp ==
    []<>(\/ reader.pc = "off" \/ reader.blind \/ "number" \in trouble
         \/ \A r \in OnDisk : \E i \in DOMAIN shown : shown[i] = r)
================================================================================
