----------------------------- MODULE TraceSpill -----------------------------
(***************************************************************************)
(* The disk spill of the trace collector (rsproxy-trace/src/spill.rs and   *)
(* spill/).  The collector thread appends every completed session to the   *)
(* data file of the active segment and a line describing it to the index   *)
(* file; old segments are removed to hold a disk budget; a restart scans   *)
(* the directory; readers get open file handles and read them later, on    *)
(* their own thread.  Every file operation is a step of its own, after     *)
(* which the process may die, and may fail when MaxFaults allows it.       *)
(*                                                                         *)
(* Bytes are cells: part k of the record of session r, or part k of the    *)
(* index line of r.  The last part of a record, and of a line, is its      *)
(* newline.  A checksum matches exactly when all the cells do.             *)
(***************************************************************************)
EXTENDS Integers, Sequences, FiniteSets

CONSTANTS
    MaxRecords,   \* bound on the sessions that are completed
    Sizes,        \* encoded record sizes, newline included
    IndexBytes,   \* size of an index line, newline included
    SegmentBytes, \* segment_bytes, at least one
    DiskBudget,   \* disk_budget_bytes; zero disables eviction
    Compressions, \* subset of {"none", "zstd"} the operator may configure
    MaxCrashes,   \* bound on process deaths
    MaxFaults,    \* bound on failing file operations
    MaxFailures,  \* bound on deaths and failing operations together
    MaxClears     \* bound on clear requests

ASSUME SpillAssumption ==
    /\ Sizes \subseteq Nat \ {0, 1} /\ IndexBytes \in Nat \ {0, 1}
    /\ SegmentBytes \in Nat \ {0} /\ DiskBudget \in Nat
    /\ Compressions \subseteq {"none", "zstd"}
    /\ {MaxRecords, MaxCrashes, MaxFaults, MaxFailures, MaxClears} \subseteq Nat

VARIABLES
    \* TraceSpillState.
    comp, initialized, segments, nextSegment, bytesOnDisk,
    \* The collector's spill counters.
    spilled, errors, corrupt, generation,
    \* The operation in progress: control point, kind of request, where to go
    \* on after enforce_spill_budget, session in hand, segment being removed.
    pc, op, then, cur, victim,
    \* The directory (file name to inode) and the inodes' content.
    dataAt, idxAt, content,
    \* The export in progress: handles and the generation they belong to.
    snap,
    \* History and bounds: sizes of the sessions, next session, acknowledged
    \* sessions neither evicted nor cleared, corruption seen by reads of the
    \* current generation; crashes, faults and clears so far.
    size, nextRec, kept, seenCorrupt, crashes, faults, clears

spillVars   == <<comp, initialized, segments, nextSegment, bytesOnDisk>>
counterVars == <<spilled, errors, corrupt, generation>>
controlVars == <<pc, op, then, cur, victim>>
diskVars    == <<dataAt, idxAt, content>>
historyVars == <<size, nextRec, kept, seenCorrupt>>
boundVars   == <<crashes, faults, clears>>
vars == <<spillVars, counterVars, controlVars, diskVars, snap, historyVars,
          boundVars>>

-----------------------------------------------------------------------------
(***************************************************************************)
(* Records, index lines and files.                                         *)
(***************************************************************************)
Records == 1..MaxRecords

\* encode_spill_record and the index line format.
RecordCells(r) == [k \in 1..size[r] |-> [rec |-> r, part |-> k]]
LineCells(r, off) ==
    [k \in 1..IndexBytes |-> [rec |-> r, part |-> k, off |-> off]]

\* The length an index line states: uncompressed records leave the newline out.
IndexedLen(r, c) == IF c = "none" THEN size[r] - 1 ELSE size[r]

\* A file: created empty on first use; the map from names to inodes.
NoFiles == [n \in {} |-> 0]
Opened(at, name) ==
    IF name \in DOMAIN at THEN at
    ELSE [n \in DOMAIN at \cup {name} |->
             IF n = name THEN Len(content) + 1 ELSE at[n]]
Unlinked(at, name) == [n \in DOMAIN at \ {name} |-> at[n]]
WholeFile(s, n) == s
Prefix(s, n) == SubSeq(s, 1, IF n < Len(s) THEN n ELSE Len(s))

Names == DOMAIN dataAt \cup DOMAIN idxAt
FileSize(at, name) == IF name \in DOMAIN at THEN Len(content[at[name]]) ELSE 0

\* The bytes of the data and index files of some names, by name and position; those of
\* the whole directory, which disk_budget_bytes is about; and the index files whose data
\* file is gone, which no scan lists and no eviction removes.
BytesOf(names) ==
    UNION {{n} \X (1..(FileSize(dataAt, n) + FileSize(idxAt, n))) : n \in names}
DiskSize == Cardinality(BytesOf(Names))
Orphans == DOMAIN idxAt \ DOMAIN dataAt
OrphanSize == Cardinality(BytesOf(Orphans))

-----------------------------------------------------------------------------
(***************************************************************************)
(* Verified reads (spill/read.rs, spill/codec.rs).                         *)
(***************************************************************************)
LineStarts(x) == {i \in DOMAIN x : i = 1 \/ x[i - 1].part = IndexBytes}

\* parse_index_entry: one whole line; the final newline may be missing.
Parses(x, i) ==
    \A k \in 1..IndexBytes :
        \/ i + k - 1 \in DOMAIN x /\ x[i + k - 1] = [x[i] EXCEPT !.part = k]
        \/ k = IndexBytes /\ i + k - 1 \notin DOMAIN x

\* Bounds, framing and checksum of the record an entry points to.
Verified(d, e, c) ==
    LET n == IndexedLen(e.rec, c) IN
    /\ e.off + n <= Len(d)
    /\ c = "none" => \/ e.off + n = Len(d)
                     \/ d[e.off + n + 1].part = size[d[e.off + n + 1].rec]
    /\ \A k \in 1..n : d[e.off + k] = [rec |-> e.rec, part |-> k]

WholeAt(d, i) ==
    /\ d[i].part = 1
    /\ \A k \in 1..size[d[i].rec] :
          i + k - 1 \in DOMAIN d /\ d[i + k - 1] = [rec |-> d[i].rec, part |-> k]

\* read_snapshot_segment and read_legacy_segment.  recs: the records returned;
\* bad: the corrupt lines; ok: no decoding error.
ReadSegment(h) ==
    LET d == Prefix(content[h.data], h.len)
        x == IF h.idx = 0 THEN <<>> ELSE Prefix(content[h.idx], h.ilen)
        good == {i \in LineStarts(x) : Parses(x, i) /\ Verified(d, x[i], h.comp)}
        whole == {i \in DOMAIN d : WholeAt(d, i)}
    IN  IF h.idx = 0
        THEN [recs |-> {d[i].rec : i \in whole}, bad |-> {},
              ok |-> h.comp = "none" \/
                       \A j \in DOMAIN d : \E i \in whole :
                           i <= j /\ j < i + size[d[i].rec]]
        ELSE [recs |-> {x[i].rec : i \in good},
              bad |-> LineStarts(x) \ good, ok |-> TRUE]

\* read_verified_snapshot over the handles of a snapshot.
Read(handles) ==
    LET part(i) == ReadSegment(handles[i])
    IN  [recs |-> UNION {part(i).recs : i \in DOMAIN handles},
         bad  |-> Cardinality(UNION {{i} \X part(i).bad : i \in DOMAIN handles}),
         ok   |-> \A i \in DOMAIN handles : part(i).ok]

\* SpillReadSegment::open of every segment in memory.
Openable == \A i \in DOMAIN segments : segments[i].name \in DOMAIN dataAt
Handles ==
    [i \in DOMAIN segments |->
        [data |-> dataAt[segments[i].name],
         idx  |-> IF segments[i].name \in DOMAIN idxAt
                    THEN idxAt[segments[i].name] ELSE 0,
         comp |-> segments[i].name[2],
         len  |-> segments[i].bytes, ilen |-> segments[i].ibytes]]

NoSnap == [state |-> "none", gen |-> 0, handles |-> <<>>, want |-> {},
           before |-> 0, bad |-> 0]

-----------------------------------------------------------------------------
(***************************************************************************)
(* Requests.  Every one of them starts with ensure_spill_initialized.      *)
(***************************************************************************)
Continue(o) == CASE o = "append" -> "place" [] o = "snapshot" -> "open"
                 [] o = "stats" -> "idle"

Request(o) ==
    /\ pc = "idle"
    /\ op' = o
    /\ pc' = IF initialized THEN Continue(o) ELSE "scan"

\* commit of a completed session: append_spill.
CallAppend ==
    /\ nextRec <= MaxRecords
    /\ Request("append")
    /\ cur' = nextRec
    /\ nextRec' = nextRec + 1
    /\ \E bytes \in Sizes : size' = Append(size, bytes)
    /\ UNCHANGED <<spillVars, counterVars, then, victim, diskVars, snap, kept,
                   seenCorrupt, boundVars>>

\* stats, spill_path, spill_paths: nothing but the initialisation.
CallStats ==
    /\ ~initialized
    /\ Request("stats")
    /\ UNCHANGED <<spillVars, counterVars, then, cur, victim, diskVars, snap,
                   historyVars, boundVars>>

\* spill_ndjson asks for a snapshot.
CallSnapshot ==
    /\ snap.state = "none"
    /\ Request("snapshot")
    /\ UNCHANGED <<spillVars, counterVars, then, cur, victim, diskVars, snap,
                   historyVars, boundVars>>

\* The operation ends with an error; a snapshot's error goes to its caller,
\* every other one is counted.
Fails ==
    /\ pc' = "idle"
    /\ errors' = errors + (IF op = "snapshot" THEN 0 ELSE 1)
    /\ UNCHANGED <<op, then, cur, victim, spilled, corrupt, generation>>

Fault ==
    /\ faults < MaxFaults /\ crashes + faults < MaxFailures
    /\ faults' = faults + 1
    /\ UNCHANGED <<crashes, clears>>

-----------------------------------------------------------------------------
(***************************************************************************)
(* ensure_spill_initialized.                                               *)
(***************************************************************************)
Scanned(name) == [name |-> name, bytes |-> FileSize(dataAt, name),
                  ibytes |-> FileSize(idxAt, name)]

\* next_segment after a scan that found the names f.
NextAfter(f) == IF f = <<>> THEN 1 ELSE f[Len(f)][1] + 1

Scan ==
    /\ pc = "scan"
    /\ \E f \in [1..Cardinality(DOMAIN dataAt) -> DOMAIN dataAt] :
          /\ \A i, j \in DOMAIN f : i < j => f[i][1] < f[j][1]
          /\ segments' = [i \in DOMAIN f |-> Scanned(f[i])]
          /\ nextSegment' = NextAfter(f)
          /\ bytesOnDisk' = Cardinality(BytesOf({f[i] : i \in DOMAIN f}))
    /\ initialized' = TRUE
    /\ pc' = "evict"
    /\ then' = Continue(op)
    /\ UNCHANGED <<comp, counterVars, op, cur, victim, diskVars, snap,
                   historyVars, boundVars>>

ScanFails ==
    /\ pc = "scan" /\ Fault /\ Fails
    /\ UNCHANGED <<spillVars, diskVars, snap, historyVars>>

-----------------------------------------------------------------------------
(***************************************************************************)
(* enforce_spill_budget: the oldest segment goes, data file first.         *)
(***************************************************************************)
OverBudget ==
    /\ DiskBudget # 0 /\ bytesOnDisk > DiskBudget
    /\ Len(segments) > 1

\* The records whose bytes are in the data file of a name.
StoredIn(name) ==
    IF name \in DOMAIN dataAt
    THEN {content[dataAt[name]][i].rec : i \in DOMAIN content[dataAt[name]]}
    ELSE {}

RemoveData ==
    /\ pc = "evict" /\ OverBudget
    /\ segments' = Tail(segments)
    /\ victim' = Head(segments)
    /\ dataAt' = Unlinked(dataAt, Head(segments).name)
    /\ kept' = kept \ StoredIn(Head(segments).name)
    /\ pc' = "evictIndex"
    /\ UNCHANGED <<comp, initialized, nextSegment, bytesOnDisk, counterVars, op,
                   then, cur, idxAt, content, snap, size, nextRec, seenCorrupt,
                   boundVars>>

\* The segment has already left the list when its file cannot be removed.
RemoveDataFails ==
    /\ pc = "evict" /\ OverBudget /\ Fault /\ Fails
    /\ segments' = Tail(segments)
    /\ kept' = kept \ StoredIn(Head(segments).name)
    /\ UNCHANGED <<comp, initialized, nextSegment, bytesOnDisk, diskVars, snap,
                   size, nextRec, seenCorrupt>>

ReleaseData(seg) == bytesOnDisk - seg.bytes
ReleaseBytes(seg) ==
    IF bytesOnDisk >= seg.bytes + seg.ibytes
    THEN bytesOnDisk - (seg.bytes + seg.ibytes) ELSE 0

RemoveIndex ==
    /\ pc = "evictIndex"
    /\ idxAt' = Unlinked(idxAt, victim.name)
    /\ bytesOnDisk' = ReleaseBytes(victim)
    /\ pc' = "evict"
    /\ UNCHANGED <<comp, initialized, segments, nextSegment, counterVars, op,
                   then, cur, victim, dataAt, content, snap, historyVars,
                   boundVars>>

RemoveIndexFails ==
    /\ pc = "evictIndex" /\ Fault /\ Fails
    /\ UNCHANGED <<spillVars, diskVars, snap, historyVars>>

WithinBudget ==
    /\ pc = "evict" /\ ~OverBudget
    /\ pc' = then
    /\ UNCHANGED <<spillVars, counterVars, op, then, cur, victim, diskVars, snap,
                   historyVars, boundVars>>

-----------------------------------------------------------------------------
(***************************************************************************)
(* append_spill.                                                           *)
(***************************************************************************)
Active == segments[Len(segments)]

NeedsSegment ==
    \/ segments = <<>>
    \/ Active.name[2] # comp
    \/ Active.bytes > 0 /\ Active.bytes + size[cur] > SegmentBytes

\* start_spill_segment.
Place ==
    /\ pc = "place"
    /\ IF NeedsSegment
         THEN /\ segments' = Append(segments, [name |-> <<nextSegment, comp>>,
                                               bytes |-> 0, ibytes |-> 0])
              /\ nextSegment' = nextSegment + 1
         ELSE UNCHANGED <<segments, nextSegment>>
    /\ pc' = "openData"
    /\ UNCHANGED <<comp, initialized, bytesOnDisk, counterVars, op, then, cur,
                   victim, diskVars, snap, historyVars, boundVars>>

\* OpenOptions::create.append.open: a missing file is created empty.
OpenData ==
    /\ pc = "openData"
    /\ dataAt' = Opened(dataAt, Active.name)
    /\ content' = IF Active.name \in DOMAIN dataAt THEN content
                  ELSE Append(content, <<>>)
    /\ pc' = "writeData"
    /\ UNCHANGED <<spillVars, counterVars, op, then, cur, victim, idxAt, snap,
                   historyVars, boundVars>>

OpenIndex ==
    /\ pc = "openIndex"
    /\ idxAt' = Opened(idxAt, Active.name)
    /\ content' = IF Active.name \in DOMAIN idxAt THEN content
                  ELSE Append(content, <<>>)
    /\ pc' = "writeIndex"
    /\ UNCHANGED <<spillVars, counterVars, op, then, cur, victim, dataAt, snap,
                   historyVars, boundVars>>

OpenFails ==
    /\ pc \in {"openData", "openIndex"} /\ Fault /\ Fails
    /\ UNCHANGED <<spillVars, diskVars, snap, historyVars>>

Written(file, cells) == content' = [content EXCEPT ![file] = @ \o cells]

WriteData ==
    /\ pc = "writeData"
    /\ Written(dataAt[Active.name], RecordCells(cur))
    /\ pc' = "openIndex"
    /\ UNCHANGED <<spillVars, counterVars, op, then, cur, victim, dataAt, idxAt,
                   snap, historyVars, boundVars>>

\* The index line, then the sizes in memory.
OffsetZero == 0
Offset == Active.bytes
WriteIndex ==
    /\ pc = "writeIndex"
    /\ Written(idxAt[Active.name], LineCells(cur, Offset))
    /\ segments' = [segments EXCEPT ![Len(segments)] =
                      [name |-> Active.name, bytes |-> Active.bytes + size[cur],
                       ibytes |-> Active.ibytes + IndexBytes]]
    /\ bytesOnDisk' = bytesOnDisk + size[cur] + IndexBytes
    /\ pc' = "evict"
    /\ then' = "ack"
    /\ UNCHANGED <<comp, initialized, nextSegment, counterVars, op, cur, victim,
                   dataAt, idxAt, snap, historyVars, boundVars>>

\* write_all fails after a part of the bytes (a full disk).
WriteFails ==
    /\ pc \in {"writeData", "writeIndex"} /\ Fault /\ Fails
    /\ LET file  == IF pc = "writeData" THEN dataAt[Active.name] ELSE idxAt[Active.name]
           cells == IF pc = "writeData" THEN RecordCells(cur) ELSE LineCells(cur, Offset)
       IN  \E n \in 0..(Len(cells) - 1) : Written(file, Prefix(cells, n))
    /\ UNCHANGED <<spillVars, dataAt, idxAt, snap, historyVars>>

\* append_spill returned Ok: commit counts the session as spilled.
Acknowledge ==
    /\ pc = "ack"
    /\ spilled' = spilled + 1
    /\ kept' = kept \cup {cur}
    /\ pc' = "idle"
    /\ UNCHANGED <<spillVars, errors, corrupt, generation, op, then, cur, victim,
                   diskVars, snap, size, nextRec, seenCorrupt, boundVars>>

-----------------------------------------------------------------------------
(***************************************************************************)
(* clear: counters first, then the files one by one, then the state.       *)
(***************************************************************************)
CallClear ==
    /\ pc = "idle" /\ clears < MaxClears
    /\ pc' = "clear" /\ op' = "clear"
    /\ spilled' = 0 /\ errors' = 0 /\ corrupt' = 0
    /\ generation' = generation + 1
    /\ kept' = {} /\ seenCorrupt' = {}
    /\ clears' = clears + 1
    /\ UNCHANGED <<spillVars, then, cur, victim, diskVars, snap, size, nextRec,
                   crashes, faults>>

\* The directory is read in no particular order.
ClearFile ==
    /\ pc = "clear"
    /\ \E name \in Names :
          \/ name \in DOMAIN dataAt /\ dataAt' = Unlinked(dataAt, name)
             /\ UNCHANGED idxAt
          \/ name \in DOMAIN idxAt /\ idxAt' = Unlinked(idxAt, name)
             /\ UNCHANGED dataAt
    /\ UNCHANGED <<spillVars, counterVars, controlVars, content, snap,
                   historyVars, boundVars>>

ClearFails ==
    /\ pc = "clear" /\ Fault /\ Fails
    /\ UNCHANGED <<spillVars, diskVars, snap, historyVars>>

ClearDone ==
    /\ pc = "clear" /\ Names = {}
    /\ nextSegment' = 1 /\ segments' = <<>> /\ bytesOnDisk' = 0
    /\ initialized' = TRUE
    /\ pc' = "idle"
    /\ UNCHANGED <<comp, counterVars, op, then, cur, victim, diskVars, snap,
                   historyVars, boundVars>>

-----------------------------------------------------------------------------
(***************************************************************************)
(* Exports: the collector opens the handles, the caller's thread reads     *)
(* them later and reports what it had to skip.                             *)
(***************************************************************************)
OpenSnapshot ==
    /\ pc = "open" /\ Openable
    /\ snap' = [state |-> "reading", gen |-> generation, handles |-> Handles,
                want |-> kept, before |-> nextRec, bad |-> 0]
    /\ pc' = "idle"
    /\ UNCHANGED <<spillVars, counterVars, op, then, cur, victim, diskVars,
                   historyVars, boundVars>>

OpenSnapshotFails ==
    /\ pc = "open" /\ ~Openable
    /\ Fails
    /\ UNCHANGED <<spillVars, diskVars, snap, historyVars, boundVars>>

ReadSnapshot ==
    /\ snap.state = "reading"
    /\ LET result == Read(snap.handles)
       IN  /\ snap' = IF result.ok
                        THEN [snap EXCEPT !.state = "report", !.bad = result.bad]
                        ELSE NoSnap
           /\ seenCorrupt' = IF result.ok /\ snap.gen = generation
                               THEN seenCorrupt \cup {result.bad} ELSE seenCorrupt
    /\ UNCHANGED <<spillVars, counterVars, controlVars, diskVars, size, nextRec,
                   kept, boundVars>>

CurrentGenerationAny(gen) == TRUE
CurrentGeneration(gen) == gen = generation

\* SpillReadReport: a report that a clear has overtaken is ignored.
Report ==
    /\ pc = "idle" /\ snap.state = "report"
    /\ corrupt' = IF CurrentGeneration(snap.gen) THEN snap.bad ELSE corrupt
    /\ snap' = NoSnap
    /\ UNCHANGED <<spillVars, spilled, errors, generation, controlVars, diskVars,
                   historyVars, boundVars>>

-----------------------------------------------------------------------------
\* The process dies and is started again, perhaps with another compression.  A death
\* inside clear_spill leaves a removal half done, which counts as a failed file operation.
Crash ==
    /\ crashes < MaxCrashes /\ crashes + faults < MaxFailures
    /\ crashes' = crashes + 1
    /\ faults' = faults + (IF pc = "clear" THEN 1 ELSE 0)
    /\ comp' \in Compressions
    /\ initialized' = FALSE /\ segments' = <<>> /\ nextSegment' = 1
    /\ bytesOnDisk' = 0
    /\ spilled' = 0 /\ errors' = 0 /\ corrupt' = 0 /\ generation' = 0
    /\ pc' = "idle" /\ snap' = NoSnap /\ seenCorrupt' = {}
    /\ UNCHANGED <<op, then, cur, victim, diskVars, size, nextRec, kept, clears>>

NoSegment == [name |-> <<0, "none">>, bytes |-> 0, ibytes |-> 0]

\* A fresh directory.
Init ==
    /\ comp \in Compressions
    /\ initialized = FALSE /\ segments = <<>> /\ nextSegment = 1
    /\ bytesOnDisk = 0
    /\ spilled = 0 /\ errors = 0 /\ corrupt = 0 /\ generation = 0
    /\ pc = "idle" /\ op = "stats" /\ then = "idle" /\ cur = 0
    /\ victim = NoSegment
    /\ dataAt = NoFiles /\ idxAt = NoFiles /\ content = <<>>
    /\ snap = NoSnap
    /\ size = <<>> /\ nextRec = 1 /\ kept = {} /\ seenCorrupt = {}
    /\ crashes = 0 /\ faults = 0 /\ clears = 0

Requests == CallAppend \/ CallStats \/ CallSnapshot \/ CallClear
Budget == RemoveData \/ RemoveDataFails \/ RemoveIndex \/ RemoveIndexFails
          \/ WithinBudget
Appending == Place \/ OpenData \/ OpenIndex \/ OpenFails \/ WriteData
             \/ WriteIndex \/ WriteFails \/ Acknowledge
Clearing == ClearFile \/ ClearFails \/ ClearDone
Exporting == OpenSnapshot \/ OpenSnapshotFails \/ ReadSnapshot \/ Report

Next == Requests \/ Scan \/ ScanFails \/ Budget \/ Appending \/ Clearing
        \/ Exporting \/ Crash

Spec == Init /\ [][Next]_vars

-----------------------------------------------------------------------------
(***************************************************************************)
(* Properties.  Those that relate memory and directory are about histories  *)
(* without a failing file operation: append_spill returns from a failed    *)
(* write without taking account of the bytes it left behind.               *)
(***************************************************************************)
Quiet == pc = "idle" /\ initialized

\* Every variable keeps its type: in particular the list of segments is in
\* ascending order of its numbers, all below next_segment, and the file names
\* of the directory lead to inodes that exist (spill.rs, TraceSpillState).
TypeOK ==
    /\ comp \in Compressions /\ initialized \in BOOLEAN
    /\ \A i \in DOMAIN segments :
          /\ segments[i].name \in (1..(nextSegment - 1)) \X Compressions
          /\ segments[i].bytes \in Nat /\ segments[i].ibytes \in Nat
          /\ \A j \in 1..(i - 1) : segments[j].name[1] < segments[i].name[1]
    /\ nextSegment \in Nat \ {0} /\ bytesOnDisk \in Nat
    /\ {spilled, errors, corrupt, generation} \subseteq Nat
    /\ pc \in {"idle", "scan", "evict", "evictIndex", "place", "openData",
              "writeData", "openIndex", "writeIndex", "ack", "clear", "open"}
    /\ op \in {"append", "stats", "snapshot", "clear"}
    /\ then \in {"idle", "place", "open", "ack"}
    /\ \A n \in DOMAIN dataAt : dataAt[n] \in DOMAIN content
    /\ \A n \in DOMAIN idxAt : idxAt[n] \in DOMAIN content
    /\ snap.state \in {"none", "reading", "report"}
    /\ kept \subseteq Records

\* stats.rs on spilled: "Sessions successfully appended to spill storage since
\* the last clear": such a session stays readable through spill_ndjson until
\* its segment is evicted or the store is cleared (append_spill).
AppendedReadable ==
    Quiet /\ kept # {} => Openable /\ kept \subseteq Read(Handles).recs

\* As long as no file operation fails, a session that was counted as spilled
\* stays readable until its segment is evicted or the store is cleared, across
\* restarts and wherever the process died (append_spill,
\* ensure_spill_initialized).
AcknowledgedReadable == faults = 0 => AppendedReadable

\* An export returns what was on disk when its snapshot was taken, whatever
\* the collector appends, evicts or clears while it reads
\* (SpillReadSegment::open, read_snapshot_segment).
SnapshotStable ==
    faults = 0 /\ snap.state = "reading" =>
        LET result == Read(snap.handles)
        IN  /\ result.ok /\ result.bad = 0
            /\ snap.want \subseteq result.recs
            /\ \A r \in result.recs : r < snap.before

\* Between two operations the segments in memory are those of the directory and
\* bytes_on_disk is the combined size of its files, orphan index files excepted:
\* a death between the two removals of an eviction leaves one that is counted
\* nowhere, and each death leaves at most one (ensure_spill_initialized,
\* enforce_spill_budget).
DiskAccounting ==
    faults = 0 /\ Quiet => /\ DiskSize = bytesOnDisk + OrphanSize
                           /\ {segments[i].name : i \in DOMAIN segments} = DOMAIN dataAt
                           /\ Cardinality(Orphans) <= crashes

\* The files of the directory fit disk_budget_bytes, orphan index files excepted,
\* unless only the active segment is left (enforce_spill_budget).
DiskBudgetHeld ==
    faults = 0 /\ Quiet /\ DiskBudget # 0 =>
        DiskSize <= DiskBudget + OrphanSize \/ Cardinality(DOMAIN dataAt) <= 1

\* spill.rs on segment_bytes: a record larger than it is retained intact in
\* its own segment; no other segment outgrows it.
OversizedAlone ==
    faults = 0 => \A n \in DOMAIN dataAt :
        FileSize(dataAt, n) > SegmentBytes => Cardinality(StoredIn(n)) = 1

\* spill_corrupt_records is what a read since the last clear found: a report
\* that a clear overtook changes nothing (SpillReadReport).
ReportCurrent == corrupt # 0 => corrupt \in seenCorrupt

\* The directory is what the store believes it is, within disk_budget_bytes, save for at
\* most one orphan index file per death of the process, with every oversized record in a
\* segment of its own (append_spill, enforce_spill_budget).
DiskSound == TypeOK /\ DiskAccounting /\ DiskBudgetHeld /\ OversizedAlone

=============================================================================
