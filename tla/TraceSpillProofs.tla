-------------------------- MODULE TraceSpillProofs --------------------------
(***************************************************************************)
(* Theorems about the disk spill.  First the count of corrupt records,     *)
(* which is never that of a store already cleared.  Then the directory:    *)
(* TypeInv holds whatever fails; as long as no file operation fails, every *)
(* file consists of whole records and of whole index lines that point to   *)
(* them, the sizes in memory are those of the files up to the operation in *)
(* hand, and the part of a file that an export may read never changes.     *)
(* SpillInv is that invariant; the properties of acknowledged sessions,    *)
(* exports and the disk budget follow from it.                             *)
(***************************************************************************)
EXTENDS TraceSpill, FiniteSetTheorems, TLAPS

\* The strengthening of ReportCurrent: an export belongs to a generation that
\* is not in the future, and what it is about to report for the current
\* generation has been seen in it.
ReportInv ==
    /\ generation \in Nat
    /\ snap.state \in {"none", "reading", "report"}
    /\ snap.state # "none" => snap.gen \in Nat /\ snap.gen <= generation
    /\ snap.state = "report" /\ snap.gen = generation => snap.bad \in seenCorrupt
    /\ ReportCurrent

\* A fresh store has nothing to report.
LEMMA ReportInit == Init => ReportInv
BY DEF Init, ReportInv, ReportCurrent, NoSnap

\* Steps that touch neither the export nor the counters of generations.
LEMMA ReportFrame ==
    ASSUME ReportInv, UNCHANGED <<snap, generation, corrupt, seenCorrupt>>
    PROVE  ReportInv'
BY DEF ReportInv, ReportCurrent

\* Every step keeps the strengthened invariant; only the start of a clear, the
\* three steps of an export and a crash can disturb it.
LEMMA ReportStep == ReportInv /\ [Next]_vars => ReportInv'
<1> SUFFICES ASSUME ReportInv, [Next]_vars PROVE ReportInv' OBVIOUS
<1>1. CASE CallClear
  <2>1. /\ generation' = generation + 1 /\ snap' = snap
        /\ corrupt' = 0 /\ seenCorrupt' = {}
    BY <1>1 DEF CallClear
  <2>2. snap.state # "none" => snap.gen < generation + 1
    BY DEF ReportInv
  <2> QED BY <2>1, <2>2 DEF ReportInv, ReportCurrent
<1>2. CASE OpenSnapshot
  <2>1. /\ snap'.state = "reading" /\ snap'.gen = generation
        /\ UNCHANGED <<generation, corrupt, seenCorrupt>>
    BY <1>2 DEF OpenSnapshot, counterVars, historyVars
  <2> QED BY <2>1 DEF ReportInv, ReportCurrent
<1>3. CASE ReadSnapshot
  <2> DEFINE result == Read(snap.handles)
  <2>1. /\ snap' = IF result.ok
                     THEN [snap EXCEPT !.state = "report", !.bad = result.bad]
                     ELSE NoSnap
        /\ seenCorrupt' = IF result.ok /\ snap.gen = generation
                            THEN seenCorrupt \cup {result.bad} ELSE seenCorrupt
        /\ UNCHANGED <<generation, corrupt>> /\ snap.state = "reading"
    BY <1>3 DEF ReadSnapshot, counterVars
  <2> HIDE DEF result
  <2>2. CASE ~result.ok
    BY <2>1, <2>2 DEF ReportInv, ReportCurrent, NoSnap
  <2>3. CASE result.ok
    <3>1. snap' = [snap EXCEPT !.state = "report", !.bad = result.bad]
      BY <2>1, <2>3
    <3>2. snap'.gen = snap.gen
      BY <3>1
    <3>3. snap'.state = "report" /\ snap'.bad = result.bad
      BY <3>1, <2>1 DEF ReportInv
    <3> QED BY <2>1, <2>3, <3>2, <3>3 DEF ReportInv, ReportCurrent
  <2> QED BY <2>2, <2>3
<1>4. CASE Report
  <2>1. /\ snap.state = "report" /\ snap' = NoSnap
        /\ corrupt' = IF snap.gen = generation THEN snap.bad ELSE corrupt
        /\ UNCHANGED <<generation, seenCorrupt>>
    BY <1>4 DEF Report, CurrentGeneration, historyVars
  <2> QED BY <2>1 DEF ReportInv, ReportCurrent, NoSnap
<1>5. CASE Crash
  BY <1>5 DEF Crash, ReportInv, ReportCurrent, NoSnap
<1>6. CASE CallAppend \/ CallStats \/ CallSnapshot
  BY <1>6, ReportFrame DEF CallAppend, CallStats, CallSnapshot, counterVars, historyVars
<1>7. CASE Scan \/ ScanFails \/ Budget
  BY <1>7, ReportFrame DEF Scan, ScanFails, Budget, RemoveData, RemoveDataFails,
     RemoveIndex, RemoveIndexFails, WithinBudget, Fails, counterVars, historyVars
<1>8. CASE Appending
  BY <1>8, ReportFrame DEF Appending, Place, OpenData, OpenIndex, OpenFails, WriteData,
     WriteIndex, WriteFails, Acknowledge, Fails, counterVars, historyVars
<1>9. CASE Clearing \/ OpenSnapshotFails
  BY <1>9, ReportFrame DEF Clearing, ClearFile, ClearFails, ClearDone,
     OpenSnapshotFails, Fails, counterVars, historyVars
<1>10. CASE UNCHANGED vars
  BY <1>10, ReportFrame DEF vars, counterVars, historyVars
<1> QED BY <1>1, <1>2, <1>3, <1>4, <1>5, <1>6, <1>7, <1>8, <1>9, <1>10
        DEF Next, Requests, Exporting

\* The corrupt-record count always comes from a read since the last clear
\* (SpillReadReport in worker.rs), however late the report arrives and
\* whatever failed or crashed before.
THEOREM ReportTheorem == Spec => []ReportCurrent
<1>1. ReportInv => ReportCurrent BY DEF ReportInv
<1> QED BY <1>1, ReportInit, ReportStep, PTL DEF Spec

-----------------------------------------------------------------------------
(***************************************************************************)
(* What a file holds.  The predicates are about the first n cells of a     *)
(* data file d and the first m cells of an index file x, for the sizes sz  *)
(* of the sessions 1..lim: so they can be said of a file that is still     *)
(* growing while a reader holds its handle and the length it had.          *)
(***************************************************************************)
Cell(r, k) == [rec |-> r, part |-> k]
IndexCell(r, k, off) == [rec |-> r, part |-> k, off |-> off]
Cells == [rec : Nat, part : Nat] \cup [rec : Nat, part : Nat, off : Nat]

\* The whole record of session r after the first off cells.
Block(sz, d, n, off, r) ==
    /\ off + sz[r] <= n
    /\ \A k \in 1..sz[r] : d[off + k] = Cell(r, k)

\* Every cell belongs to a whole record.
GoodData(sz, d, n, lim) ==
    \A j \in 1..n : \E off \in 0..(j - 1), r \in 1..lim :
        j <= off + sz[r] /\ Block(sz, d, n, off, r)

\* A whole index line after the first i cells.
Line(x, m, i, r, off) ==
    /\ i + IndexBytes <= m
    /\ \A k \in 1..IndexBytes : x[i + k] = IndexCell(r, k, off)

\* Every cell belongs to a whole line, which points to a whole record.
GoodIndex(sz, x, m, d, n, lim) ==
    \A j \in 1..m : \E i \in 0..(j - 1), r \in 1..lim, off \in 0..n :
        /\ j <= i + IndexBytes /\ Line(x, m, i, r, off)
        /\ Block(sz, d, n, off, r)

\* The index has a line of session r.
Indexed(x, m, r) == \E j \in 1..m : x[j].rec = r

\* All cells are of one session.
OneRecord(d) == \A i, j \in 1..Len(d) : d[i].rec = d[j].rec

DataOf(name) == content[dataAt[name]]
IndexOf(name) == content[idxAt[name]]

-----------------------------------------------------------------------------
(***************************************************************************)
(* The types of the store, of the directory and of the request in hand,    *)
(* which hold whatever fails.                                              *)
(***************************************************************************)
SegmentNames == (Nat \ {0}) \X Compressions
Segment == [name : SegmentNames, bytes : Nat, ibytes : Nat]

Ascending(s) == \A i, j \in 1..Len(s) : i < j => s[i].name[1] < s[j].name[1]
Below(s, n) == \A i \in 1..Len(s) : s[i].name[1] < n

StoreTypes ==
    /\ comp \in Compressions /\ initialized \in BOOLEAN
    /\ segments \in Seq(Segment) /\ Ascending(segments)
    /\ nextSegment \in Nat \ {0} /\ Below(segments, nextSegment)
    /\ bytesOnDisk \in Nat
    /\ victim.bytes \in Nat /\ victim.ibytes \in Nat

\* Distinct files are distinct inodes.
Directory(c, da, ia) ==
    /\ c \in Seq(Seq(Cells))
    /\ DOMAIN da \subseteq SegmentNames /\ IsFiniteSet(DOMAIN da)
    /\ DOMAIN ia \subseteq SegmentNames /\ IsFiniteSet(DOMAIN ia)
    /\ \A n \in DOMAIN da : da[n] \in 1..Len(c)
    /\ \A n \in DOMAIN ia : ia[n] \in 1..Len(c)
    /\ \A n, m \in DOMAIN da : da[n] = da[m] => n = m
    /\ \A n, m \in DOMAIN ia : ia[n] = ia[m] => n = m
    /\ \A n \in DOMAIN da, m \in DOMAIN ia : da[n] # ia[m]
FileTypes == Directory(content, dataAt, idxAt)

SessionTypes ==
    /\ size \in Seq(Nat \ {0, 1})
    /\ nextRec = Len(size) + 1 /\ nextRec <= MaxRecords + 1
    /\ kept \subseteq Records

\* An export has finitely many handles; it will count finitely many lines.
HandleTypes(c, handles) ==
    /\ IsFiniteSet(DOMAIN handles)
    /\ \A i \in DOMAIN handles :
          handles[i].idx \in 0..Len(c) /\ handles[i].ilen \in Nat

CounterTypes ==
    /\ spilled \in Nat /\ errors \in Nat /\ corrupt \in Nat /\ generation \in Nat
    /\ crashes \in Nat /\ faults \in Nat
    /\ snap.state \in {"none", "reading", "report"}
    /\ snap.state = "report" => snap.bad \in Nat
    /\ snap.state = "reading" => HandleTypes(content, snap.handles)

WritePoints == {"openData", "writeData", "openIndex", "writeIndex"}
EvictPoints == {"evict", "evictIndex"}

\* The request in hand.
ControlTypes ==
    /\ pc \in {"idle", "scan", "clear", "open", "place", "ack"} \cup WritePoints
              \cup EvictPoints
    /\ op \in {"append", "stats", "snapshot", "clear"}
    /\ then \in {"idle", "place", "open", "ack"}
    /\ op = "append" => cur \in 1..Len(size)
    /\ pc = "scan" => op # "clear" /\ initialized = FALSE
    /\ pc \in {"place", "ack"} \cup WritePoints => op = "append"
    /\ pc \in EvictPoints /\ then \in {"place", "ack"} => op = "append"
    /\ pc \notin {"idle", "scan", "clear"} => initialized = TRUE
    /\ pc \in WritePoints => segments # <<>>

TypeInv == StoreTypes /\ FileTypes /\ SessionTypes /\ CounterTypes /\ ControlTypes

-----------------------------------------------------------------------------
(***************************************************************************)
(* What holds as long as no file operation has failed.                     *)
(***************************************************************************)
\* Every file is sound, even while a clear removes them one by one.
FileSound(name) ==
    /\ GoodData(size, DataOf(name), Len(DataOf(name)), Len(size))
    /\ name \in DOMAIN idxAt =>
          GoodIndex(size, IndexOf(name), Len(IndexOf(name)),
                    DataOf(name), Len(DataOf(name)), Len(size))
    /\ Len(DataOf(name)) > SegmentBytes => OneRecord(DataOf(name))
FilesSound == \A n \in DOMAIN dataAt : FileSound(n)

\* An index file whose data file is gone is older than some segment: no new
\* segment will ever get its name.
NamesSound ==
    /\ \A n, m \in DOMAIN dataAt : n[1] = m[1] => n = m
    /\ \A m \in DOMAIN idxAt : \E n \in DOMAIN dataAt : m[1] <= n[1]

\* The bytes of segment i that its size in memory does not count yet.
Pending(i) ==
    IF i = Len(segments) /\ pc \in {"openIndex", "writeIndex"} THEN size[cur] ELSE 0

\* A segment in memory and its files.
SegmentSound(i) ==
    /\ FileSize(dataAt, segments[i].name) = segments[i].bytes + Pending(i)
    /\ FileSize(idxAt, segments[i].name) = segments[i].ibytes
    /\ \/ segments[i].name \in DOMAIN dataAt
       \/ pc = "openData" /\ i = Len(segments) /\ segments[i].name \notin DOMAIN idxAt
MemorySound ==
    /\ \A n \in DOMAIN dataAt : \E i \in 1..Len(segments) : segments[i].name = n
    /\ \A i \in 1..Len(segments) : SegmentSound(i)

\* The files of the segments whose data file exists, which are those a scan lists.
ListedBytes == BytesOf(DOMAIN dataAt)
ListedSize == Cardinality(ListedBytes)

\* bytes_on_disk, and the budget at the points where it has been enforced.
Released == IF pc = "evictIndex" THEN victim.bytes + victim.ibytes ELSE 0
BytesSound ==
    /\ bytesOnDisk + Pending(Len(segments)) = ListedSize + Released
    /\ pc \in {"idle", "open", "ack", "place"} => ~OverBudget

\* The append in hand.
CurrentIndexed ==
    /\ segments # <<>> /\ Active.name \in DOMAIN idxAt
    /\ Indexed(IndexOf(Active.name), Len(IndexOf(Active.name)), cur)
AppendSound ==
    /\ pc \in {"openData", "writeData"} /\ Active.bytes > 0 =>
          Active.bytes + size[cur] <= SegmentBytes
    /\ pc \in {"openIndex", "writeIndex"} =>
          Block(size, DataOf(Active.name), Len(DataOf(Active.name)), Active.bytes, cur)
    /\ pc = "writeIndex" => Active.name \in DOMAIN idxAt
    /\ pc = "ack" \/ (pc \in EvictPoints /\ then = "ack") => CurrentIndexed

\* The removal in hand.
EvictSound ==
    pc = "evictIndex" =>
        /\ segments # <<>> /\ victim.name \notin DOMAIN dataAt
        /\ victim.name[1] < Active.name[1]

\* Every acknowledged session has its line in the index of a live segment.
Kept(r) ==
    \E n \in DOMAIN dataAt : /\ n \in DOMAIN idxAt
                             /\ Indexed(IndexOf(n), Len(IndexOf(n)), r)
KeptSound == \A r \in kept : pc # "clear" /\ Kept(r)

\* The part of a file a reader may read was sound when it got its handle, and
\* it stays as it was.
HandleSound(sz, c, h, lim) ==
    /\ h.data \in 1..Len(c) /\ h.len \in 0..Len(c[h.data])
    /\ GoodData(sz, c[h.data], h.len, lim)
    /\ h.idx # 0 =>
          /\ h.idx \in 1..Len(c) /\ h.ilen \in 0..Len(c[h.idx])
          /\ GoodIndex(sz, c[h.idx], h.ilen, c[h.data], h.len, lim)
HandleHolds(c, h, r) == h.idx # 0 /\ Indexed(c[h.idx], h.ilen, r)
HandlesSound(sz, c, handles, want, lim) ==
    /\ \A i \in DOMAIN handles : HandleSound(sz, c, handles[i], lim)
    /\ \A r \in want : \E i \in DOMAIN handles : HandleHolds(c, handles[i], r)
SnapshotSound ==
    snap.state = "reading" =>
        /\ snap.before \in Nat /\ snap.before - 1 \in 0..Len(size)
        /\ HandlesSound(size, content, snap.handles, snap.want, snap.before - 1)

CollectorSound == MemorySound /\ BytesSound /\ AppendSound /\ EvictSound
DirectorySound ==
    /\ FilesSound /\ KeptSound
    /\ pc # "clear" => NamesSound
    /\ initialized = TRUE /\ pc # "clear" => CollectorSound

\* Index files without a data file: the one an eviction is about to remove, and at most
\* one for each time the process died before it did.
Leaving == IF pc = "evictIndex" THEN {victim.name} ELSE {}
OrphansSound == pc # "clear" => Cardinality(Orphans \ Leaving) <= crashes

SpillInv == TypeInv /\ (faults = 0 => DirectorySound /\ SnapshotSound /\ OrphansSound)

-----------------------------------------------------------------------------
(***************************************************************************)
(* Facts about files.                                                      *)
(***************************************************************************)
LEMMA CellFields ==
    ASSUME NEW r, NEW k, NEW off
    PROVE  /\ Cell(r, k).rec = r /\ Cell(r, k).part = k
           /\ IndexCell(r, k, off).rec = r /\ IndexCell(r, k, off).part = k
           /\ IndexCell(r, k, off).off = off
BY DEF Cell, IndexCell

LEMMA CellTypes ==
    ASSUME NEW r \in Nat, NEW k \in Nat, NEW off \in Nat
    PROVE  Cell(r, k) \in Cells /\ IndexCell(r, k, off) \in Cells
BY DEF Cell, IndexCell, Cells

LEMMA CellPart ==
    ASSUME NEW r, NEW k, NEW j, NEW off
    PROVE  [IndexCell(r, j, off) EXCEPT !.part = k] = IndexCell(r, k, off)
BY DEF IndexCell

\* Two files with the same first n cells; sizes known before and after.
Agree(d, e, n) == \A j \in 1..n : e[j] = d[j]
SizesAgree(sz, sz2, lim) == \A r \in 1..lim : sz2[r] = sz[r] /\ sz[r] \in Nat \ {0, 1}

LEMMA BlockMono ==
    ASSUME NEW sz, NEW sz2, NEW d, NEW e, NEW n \in Nat, NEW n2 \in Nat, n <= n2,
           NEW lim \in Nat, SizesAgree(sz, sz2, lim), Agree(d, e, n),
           NEW off \in Nat, NEW r \in 1..lim, Block(sz, d, n, off, r)
    PROVE  Block(sz2, e, n2, off, r)
<1>1. sz2[r] = sz[r] /\ sz[r] \in Nat BY DEF SizesAgree
<1>2. off + sz[r] <= n BY DEF Block
<1>3. ASSUME NEW k \in 1..sz[r] PROVE e[off + k] = Cell(r, k)
  <2>1. d[off + k] = Cell(r, k) BY <1>3 DEF Block
  <2>2. off + k \in 1..n BY <1>1, <1>2
  <2> QED BY <2>1, <2>2 DEF Agree
<1> QED BY <1>1, <1>2, <1>3 DEF Block

LEMMA LineMono ==
    ASSUME NEW x, NEW y, NEW m \in Nat, NEW m2 \in Nat, m <= m2, Agree(x, y, m),
           NEW i \in Nat, NEW r, NEW off, Line(x, m, i, r, off)
    PROVE  Line(y, m2, i, r, off)
<1>1. IndexBytes \in Nat BY SpillAssumption
<1>2. i + IndexBytes <= m BY DEF Line
<1>3. ASSUME NEW k \in 1..IndexBytes PROVE y[i + k] = IndexCell(r, k, off)
  <2>1. x[i + k] = IndexCell(r, k, off) BY <1>3 DEF Line
  <2>2. i + k \in 1..m BY <1>1, <1>2
  <2> QED BY <2>1, <2>2 DEF Agree
<1> QED BY <1>1, <1>2, <1>3 DEF Line

LEMMA GoodDataMono ==
    ASSUME NEW sz, NEW sz2, NEW d, NEW e, NEW n \in Nat,
           NEW lim \in Nat, NEW lim2 \in Nat, lim <= lim2,
           SizesAgree(sz, sz2, lim), Agree(d, e, n), GoodData(sz, d, n, lim)
    PROVE  GoodData(sz2, e, n, lim2)
<1> SUFFICES ASSUME NEW j \in 1..n
             PROVE  \E off \in 0..(j - 1), r \in 1..lim2 :
                        j <= off + sz2[r] /\ Block(sz2, e, n, off, r)
    BY DEF GoodData
<1>1. PICK off \in 0..(j - 1), r \in 1..lim : j <= off + sz[r] /\ Block(sz, d, n, off, r)
  BY DEF GoodData
<1>2. off \in Nat /\ r \in 1..lim2 /\ sz2[r] = sz[r] BY <1>1 DEF SizesAgree
<1>3. Block(sz2, e, n, off, r) BY <1>1, <1>2, BlockMono
<1> QED BY <1>1, <1>2, <1>3

LEMMA GoodIndexMono ==
    ASSUME NEW sz, NEW sz2, NEW x, NEW y, NEW m \in Nat, NEW d, NEW e, NEW n \in Nat,
           NEW n2 \in Nat, n <= n2, NEW lim \in Nat, NEW lim2 \in Nat, lim <= lim2,
           SizesAgree(sz, sz2, lim), Agree(d, e, n), Agree(x, y, m),
           GoodIndex(sz, x, m, d, n, lim)
    PROVE  GoodIndex(sz2, y, m, e, n2, lim2)
<1> SUFFICES ASSUME NEW j \in 1..m
             PROVE  \E i \in 0..(j - 1), r \in 1..lim2, off \in 0..n2 :
                        /\ j <= i + IndexBytes /\ Line(y, m, i, r, off)
                        /\ Block(sz2, e, n2, off, r)
    BY DEF GoodIndex
<1>1. PICK i \in 0..(j - 1), r \in 1..lim, off \in 0..n :
           /\ j <= i + IndexBytes /\ Line(x, m, i, r, off) /\ Block(sz, d, n, off, r)
  BY DEF GoodIndex
<1>2. i \in Nat /\ off \in Nat /\ r \in 1..lim2 /\ off \in 0..n2 BY <1>1
<1>3. Block(sz2, e, n2, off, r) BY <1>1, <1>2, BlockMono
<1>4. Line(y, m, i, r, off) BY <1>1, <1>2, LineMono
<1> QED BY <1>1, <1>2, <1>3, <1>4

\* A record appended to a good data file.
LEMMA DataAppended ==
    ASSUME NEW sz, NEW d, NEW e, NEW n \in Nat, NEW lim \in Nat, NEW r \in 1..lim,
           SizesAgree(sz, sz, lim), GoodData(sz, d, n, lim), Agree(d, e, n),
           \A k \in 1..sz[r] : e[n + k] = Cell(r, k)
    PROVE  GoodData(sz, e, n + sz[r], lim) /\ Block(sz, e, n + sz[r], n, r)
<1>1. sz[r] \in Nat BY DEF SizesAgree
<1>2. Block(sz, e, n + sz[r], n, r) BY <1>1 DEF Block
<1>3. ASSUME NEW j \in 1..(n + sz[r])
      PROVE  \E off \in 0..(j - 1), s \in 1..lim :
                 j <= off + sz[s] /\ Block(sz, e, n + sz[r], off, s)
  <2>1. CASE j <= n
    <3>1. j \in 1..n BY <2>1
    <3>2. PICK off \in 0..(j - 1), s \in 1..lim : j <= off + sz[s] /\ Block(sz, d, n, off, s)
      BY <3>1 DEF GoodData
    <3>3. n + sz[r] \in Nat /\ n <= n + sz[r] /\ off \in Nat BY <1>1, <3>2
    <3>4. Block(sz, e, n + sz[r], off, s) BY <3>2, <3>3, BlockMono
    <3> QED BY <3>2, <3>4
  <2>2. CASE j > n
    <3>1. n \in 0..(j - 1) /\ j <= n + sz[r] BY <2>2, <1>1, <1>3
    <3> QED BY <3>1, <1>2
  <2> QED BY <2>1, <2>2, <1>1, <1>3
<1> QED BY <1>2, <1>3 DEF GoodData

\* A line appended to a good index.
LEMMA IndexAppended ==
    ASSUME NEW sz, NEW x, NEW y, NEW m \in Nat, NEW d, NEW n \in Nat, NEW lim \in Nat,
           NEW r \in 1..lim, NEW off \in 0..n,
           GoodIndex(sz, x, m, d, n, lim), Agree(x, y, m), Block(sz, d, n, off, r),
           \A k \in 1..IndexBytes : y[m + k] = IndexCell(r, k, off)
    PROVE  GoodIndex(sz, y, m + IndexBytes, d, n, lim) /\ Indexed(y, m + IndexBytes, r)
<1>1. IndexBytes \in Nat \ {0, 1} BY SpillAssumption
<1>2. Line(y, m + IndexBytes, m, r, off) BY <1>1 DEF Line
<1>3. ASSUME NEW j \in 1..(m + IndexBytes)
      PROVE  \E i \in 0..(j - 1), s \in 1..lim, o \in 0..n :
                 /\ j <= i + IndexBytes /\ Line(y, m + IndexBytes, i, s, o)
                 /\ Block(sz, d, n, o, s)
  <2>1. CASE j <= m
    <3>1. j \in 1..m BY <2>1
    <3>2. PICK i \in 0..(j - 1), s \in 1..lim, o \in 0..n :
              j <= i + IndexBytes /\ Line(x, m, i, s, o) /\ Block(sz, d, n, o, s)
      BY <3>1 DEF GoodIndex
    <3>3. m + IndexBytes \in Nat /\ m <= m + IndexBytes /\ i \in Nat BY <1>1, <3>2
    <3>4. Line(y, m + IndexBytes, i, s, o) BY <3>2, <3>3, LineMono
    <3> QED BY <3>2, <3>4
  <2>2. CASE j > m
    <3>1. m \in 0..(j - 1) /\ j <= m + IndexBytes BY <2>2, <1>1, <1>3
    <3> QED BY <3>1, <1>2
  <2> QED BY <2>1, <2>2, <1>1, <1>3
<1>4. y[m + 1].rec = r
  <2>1. y[m + 1] = IndexCell(r, 1, off) BY <1>1
  <2> QED BY <2>1, CellFields
<1>5. m + 1 \in 1..(m + IndexBytes) BY <1>1
<1> QED BY <1>3, <1>4, <1>5 DEF GoodIndex, Indexed

-----------------------------------------------------------------------------
(***************************************************************************)
(* What a verified read finds in good files.                               *)
(***************************************************************************)
GoodSizes == size \in Seq(Nat \ {0, 1})

\* A whole record is decoded at its first cell.
LEMMA BlockDecoded ==
    ASSUME GoodSizes, NEW d \in Seq(Cells), NEW off \in Nat, NEW r \in 1..Len(size),
           Block(size, d, Len(d), off, r)
    PROVE  /\ off + 1 \in DOMAIN d /\ d[off + 1].rec = r /\ WholeAt(d, off + 1)
<1>1. size[r] \in Nat \ {0, 1} BY DEF GoodSizes
<1>2. off + size[r] <= Len(d) /\ Len(d) \in Nat BY DEF Block
<1>3. off + 1 \in DOMAIN d BY <1>1, <1>2
<1>4. d[off + 1] = Cell(r, 1)
  <2>1. 1 \in 1..size[r] BY <1>1
  <2> QED BY <2>1 DEF Block
<1>5. d[off + 1].rec = r /\ d[off + 1].part = 1 BY <1>4, CellFields
<1>6. ASSUME NEW k \in 1..size[r]
      PROVE  off + 1 + k - 1 \in DOMAIN d
             /\ d[off + 1 + k - 1] = [rec |-> r, part |-> k]
  <2>1. d[off + k] = Cell(r, k) BY DEF Block
  <2>2. off + 1 + k - 1 = off + k /\ off + k \in DOMAIN d BY <1>1, <1>2
  <2> QED BY <2>1, <2>2 DEF Cell
<1> QED BY <1>3, <1>5, <1>6 DEF WholeAt

\* A file without an index is decoded without an error.
LEMMA LegacyRead ==
    ASSUME GoodSizes, NEW d \in Seq(Cells), NEW lim \in 0..Len(size),
           GoodData(size, d, Len(d), lim), NEW j \in DOMAIN d
    PROVE  /\ d[j].rec \in 1..lim
           /\ \E i \in {ii \in DOMAIN d : WholeAt(d, ii)} :
                  i <= j /\ j < i + size[d[i].rec]
<1>1. j \in 1..Len(d) /\ Len(d) \in Nat /\ lim \in Nat BY DEF GoodSizes
<1>2. PICK off \in 0..(j - 1), r \in 1..lim :
          j <= off + size[r] /\ Block(size, d, Len(d), off, r)
  BY <1>1 DEF GoodData
<1>3. r \in 1..Len(size) /\ off \in Nat BY <1>1, <1>2 DEF GoodSizes
<1>4. size[r] \in Nat BY <1>3 DEF GoodSizes
<1>5. off + 1 \in DOMAIN d /\ d[off + 1].rec = r /\ WholeAt(d, off + 1)
  BY <1>2, <1>3, BlockDecoded
<1>6. off + 1 <= j /\ j < off + 1 + size[r] BY <1>1, <1>2, <1>4
<1>7. d[j].rec = r
  <2>1. j - off \in 1..size[r] BY <1>2, <1>4
  <2>2. d[off + (j - off)] = Cell(r, j - off) BY <1>2, <2>1 DEF Block
  <2>3. off + (j - off) = j BY <1>1, <1>2
  <2> QED BY <2>2, <2>3, CellFields
<1> QED BY <1>2, <1>5, <1>6, <1>7

\* The line that starts after cell i, of session r and offset off, has cell j.
CellLine(x, sz, d, n, j, i, r, off) ==
    /\ j <= i + IndexBytes /\ Line(x, Len(x), i, r, off)
    /\ Block(sz, d, n, off, r)
    /\ x[j] = IndexCell(r, j - i, off)

LEMMA LineCell ==
    ASSUME NEW x, NEW m, NEW i, NEW r, NEW off, Line(x, m, i, r, off),
           NEW k \in 1..IndexBytes
    PROVE  x[i + k] = IndexCell(r, k, off) /\ x[i + k].part = k
<1>1. x[i + k] = IndexCell(r, k, off) BY DEF Line
<1> QED BY <1>1, CellFields

\* The line a cell of a good index belongs to.
LEMMA LineOf ==
    ASSUME NEW x \in Seq(Cells), NEW sz, NEW d, NEW n \in Nat, NEW lim \in Nat,
           GoodIndex(sz, x, Len(x), d, n, lim), NEW j \in DOMAIN x
    PROVE  \E i \in 0..(j - 1), r \in 1..lim, off \in 0..n :
              CellLine(x, sz, d, n, j, i, r, off)
<1>1. j \in 1..Len(x) OBVIOUS
<1>2. PICK i \in 0..(j - 1), r \in 1..lim, off \in 0..n :
          /\ j <= i + IndexBytes /\ Line(x, Len(x), i, r, off) /\ Block(sz, d, n, off, r)
  BY <1>1 DEF GoodIndex
<1>3. PICK k \in 1..IndexBytes : k = j - i BY <1>1, <1>2, SpillAssumption
<1>4. x[i + k] = IndexCell(r, k, off) BY <1>2, LineCell
<1>5. i + k = j BY <1>1, <1>2, <1>3
<1>6. x[j] = IndexCell(r, j - i, off) BY <1>3, <1>4, <1>5
<1> QED BY <1>2, <1>6 DEF CellLine

\* A line starts where the reader splits the index, and nowhere else.
LEMMA LineStart ==
    ASSUME NEW x \in Seq(Cells), NEW sz, NEW d, NEW n \in Nat, NEW lim \in Nat,
           GoodIndex(sz, x, Len(x), d, n, lim), NEW i \in DOMAIN x
    PROVE  i \in LineStarts(x) <=> x[i].part = 1
<1>1. IndexBytes \in Nat \ {0, 1} /\ i \in 1..Len(x) BY SpillAssumption
<1>2. PICK a \in 0..(i - 1), r \in 1..lim, off \in 0..n : CellLine(x, sz, d, n, i, a, r, off)
  BY LineOf
<1>3. /\ x[i].part = i - a /\ i <= a + IndexBytes /\ Line(x, Len(x), a, r, off)
  BY <1>2, CellFields DEF CellLine
<1>4. CASE i = 1
  BY <1>1, <1>2, <1>3, <1>4 DEF LineStarts
<1>5. CASE i # 1
  <2>1. PICK j \in DOMAIN x : j = i - 1 BY <1>1, <1>5
  <2>2. PICK b \in 0..(j - 1), s \in 1..lim, o \in 0..n : CellLine(x, sz, d, n, j, b, s, o)
    BY LineOf
  <2>3. /\ x[j].part = j - b /\ j <= b + IndexBytes /\ Line(x, Len(x), b, s, o)
    BY <2>2, CellFields DEF CellLine
  <2>4. ASSUME x[j].part = IndexBytes PROVE x[i].part = 1
    <3>1. ASSUME a # j PROVE FALSE
      <4>1. PICK k \in 1..IndexBytes : k = j - a /\ k # IndexBytes
        BY <1>1, <1>2, <1>3, <2>1, <3>1
      <4>2. x[a + k].part = k BY <1>3, LineCell
      <4>3. a + k = j BY <1>1, <1>2, <2>1, <4>1
      <4> QED BY <4>1, <4>2, <4>3, <2>4
    <3> QED BY <3>1, <1>3, <1>1, <1>2, <2>1
  <2>5. ASSUME x[i].part = 1 PROVE x[j].part = IndexBytes
    <3>1. ASSUME i <= b + IndexBytes PROVE FALSE
      <4>1. PICK k \in 1..IndexBytes : k = i - b /\ k # 1
        BY <1>1, <2>1, <2>2, <3>1
      <4>2. x[b + k].part = k BY <2>3, LineCell
      <4>3. b + k = i BY <1>1, <2>1, <2>2, <4>1
      <4> QED BY <4>1, <4>2, <4>3, <2>5
    <3> QED BY <3>1, <2>1, <2>2, <2>3, <1>1
  <2> QED BY <2>1, <2>4, <2>5, <1>5, <1>1 DEF LineStarts
<1> QED BY <1>4, <1>5

\* Every line of a good index parses and its record verifies.
LEMMA LineVerified ==
    ASSUME GoodSizes, NEW x \in Seq(Cells), NEW d \in Seq(Cells), NEW c,
           NEW lim \in 0..Len(size), GoodIndex(size, x, Len(x), d, Len(d), lim),
           NEW i \in LineStarts(x)
    PROVE  Parses(x, i) /\ Verified(d, x[i], c) /\ x[i].rec \in 1..lim
<1>1. /\ IndexBytes \in Nat \ {0, 1} /\ i \in 1..Len(x) /\ Len(x) \in Nat /\ Len(d) \in Nat
      /\ lim \in Nat
  BY SpillAssumption DEF LineStarts, GoodSizes
<1>2. x[i].part = 1 BY LineStart, <1>1
<1>3. PICK a \in 0..(i - 1), r \in 1..lim, off \in 0..Len(d) :
          /\ i <= a + IndexBytes /\ Line(x, Len(x), a, r, off)
          /\ Block(size, d, Len(d), off, r)
          /\ x[i] = IndexCell(r, i - a, off)
  <2>1. i \in DOMAIN x /\ Len(d) \in Nat /\ lim \in Nat BY <1>1
  <2>2. PICK n \in Nat : n = Len(d) BY <2>1
  <2>3. GoodIndex(size, x, Len(x), d, n, lim) BY <2>2
  <2>4. \E a \in 0..(i - 1), r \in 1..lim, off \in 0..n : CellLine(x, size, d, n, i, a, r, off)
    BY <2>1, <2>3, LineOf
  <2> QED BY <2>2, <2>4 DEF CellLine
<1>4. a = i - 1
  <2>1. x[i].part = i - a BY <1>3, CellFields
  <2> QED BY <2>1, <1>2, <1>3, <1>1
<1>5. /\ x[i] = IndexCell(r, 1, off) /\ x[i].rec = r /\ x[i].off = off
  <2>1. i - a = 1 BY <1>4, <1>1
  <2> QED BY <2>1, <1>3, CellFields
<1>6. Parses(x, i)
  <2>1. ASSUME NEW k \in 1..IndexBytes
        PROVE  i + k - 1 \in DOMAIN x /\ x[i + k - 1] = [x[i] EXCEPT !.part = k]
    <3>1. x[a + k] = IndexCell(r, k, off) BY <1>3 DEF Line
    <3>2. a + k = i + k - 1 /\ i + k - 1 \in DOMAIN x
      <4>1. a + IndexBytes <= Len(x) BY <1>3 DEF Line
      <4> QED BY <4>1, <1>1, <1>4
    <3>3. [x[i] EXCEPT !.part = k] = IndexCell(r, k, off) BY <1>5, CellPart
    <3> QED BY <3>1, <3>2, <3>3
  <2> QED BY <2>1 DEF Parses
<1>7. r \in 1..Len(size) /\ size[r] \in Nat \ {0, 1} /\ off \in Nat BY <1>3, <1>1 DEF GoodSizes
<1>8. off + size[r] <= Len(d) BY <1>3 DEF Block
<1>9. ASSUME NEW k \in 1..size[r] PROVE d[off + k] = [rec |-> r, part |-> k]
  BY <1>3 DEF Block, Cell
<1>10. d[off + size[r]].part = size[d[off + size[r]].rec]
  <2>1. size[r] \in 1..size[r] BY <1>7
  <2>2. d[off + size[r]] = Cell(r, size[r]) BY <2>1, <1>3 DEF Block
  <2> QED BY <2>2, CellFields
<1>11. Verified(d, x[i], c)
  <2>1. CASE c = "none"
    <3>1. IndexedLen(r, c) = size[r] - 1 BY <2>1 DEF IndexedLen
    <3>2. off + (size[r] - 1) <= Len(d) /\ off + (size[r] - 1) + 1 = off + size[r]
      BY <1>7, <1>8, <1>1
    <3>3. \A k \in 1..(size[r] - 1) : d[off + k] = [rec |-> r, part |-> k]
      BY <1>9, <1>7
    <3> QED BY <1>5, <3>1, <3>2, <3>3, <1>10 DEF Verified
  <2>2. CASE c # "none"
    <3>1. IndexedLen(r, c) = size[r] BY <2>2 DEF IndexedLen
    <3> QED BY <1>5, <3>1, <2>2, <1>8, <1>9 DEF Verified
  <2> QED BY <2>1, <2>2
<1> QED BY <1>5, <1>3, <1>6, <1>11

\* A session with a line in the index is found at the start of a line.
LEMMA LineFound ==
    ASSUME GoodSizes, NEW x \in Seq(Cells), NEW d, NEW n \in Nat, NEW lim \in Nat,
           GoodIndex(size, x, Len(x), d, n, lim), NEW r, Indexed(x, Len(x), r)
    PROVE  \E i \in LineStarts(x) : x[i].rec = r
<1>1. PICK j \in 1..Len(x) : x[j].rec = r BY DEF Indexed
<1>2. PICK i \in 0..(j - 1), s \in 1..lim, off \in 0..n :
          j <= i + IndexBytes /\ Line(x, Len(x), i, s, off) /\ x[j] = IndexCell(s, j - i, off)
  BY LineOf DEF CellLine
<1>3. s = r BY <1>1, <1>2, CellFields
<1>4. IndexBytes \in Nat \ {0, 1} /\ Len(x) \in Nat BY SpillAssumption
<1>5. x[i + 1] = IndexCell(r, 1, off) BY <1>2, <1>3, <1>4 DEF Line
<1>6. x[i + 1].rec = r /\ x[i + 1].part = 1 BY <1>5, CellFields
<1>7. i + 1 \in DOMAIN x
  <2>1. i + IndexBytes <= Len(x) BY <1>2 DEF Line
  <2> QED BY <2>1, <1>4, <1>2
<1>8. i + 1 \in LineStarts(x) BY <1>6, <1>7, LineStart
<1> QED BY <1>6, <1>8

\* The part of a file a handle may read.
LEMMA PrefixOf ==
    ASSUME NEW s \in Seq(Cells), NEW n \in 0..Len(s)
    PROVE  /\ Prefix(s, n) \in Seq(Cells) /\ Len(Prefix(s, n)) = n
           /\ Agree(s, Prefix(s, n), n)
<1>1. Prefix(s, n) = SubSeq(s, 1, n)
  <2>1. CASE n < Len(s) BY <2>1 DEF Prefix
  <2>2. CASE n = Len(s) BY <2>2 DEF Prefix
  <2> QED BY <2>1, <2>2
<1>2. SubSeq(s, 1, n) \in Seq(Cells) /\ Len(SubSeq(s, 1, n)) = n
      /\ \A j \in 1..n : SubSeq(s, 1, n)[j] = s[j]
  OBVIOUS
<1> QED BY <1>1, <1>2 DEF Agree

LEMMA SizesKnown ==
    ASSUME GoodSizes, NEW lim \in 0..Len(size)
    PROVE  SizesAgree(size, size, lim) /\ lim \in Nat
BY DEF GoodSizes, SizesAgree

\* The data and the index a handle leads to are good files of their own.
LEMMA HandleFiles ==
    ASSUME GoodSizes, content \in Seq(Seq(Cells)), NEW h, NEW lim \in 0..Len(size),
           HandleSound(size, content, h, lim)
    PROVE  /\ Prefix(content[h.data], h.len) \in Seq(Cells)
           /\ GoodData(size, Prefix(content[h.data], h.len),
                       Len(Prefix(content[h.data], h.len)), lim)
           /\ h.idx # 0 =>
                 /\ Prefix(content[h.idx], h.ilen) \in Seq(Cells)
                 /\ Len(Prefix(content[h.idx], h.ilen)) = h.ilen
                 /\ Agree(content[h.idx], Prefix(content[h.idx], h.ilen), h.ilen)
                 /\ GoodIndex(size, Prefix(content[h.idx], h.ilen),
                              Len(Prefix(content[h.idx], h.ilen)),
                              Prefix(content[h.data], h.len),
                              Len(Prefix(content[h.data], h.len)), lim)
<1>1. SizesAgree(size, size, lim) /\ lim \in Nat BY SizesKnown
<1>2. content[h.data] \in Seq(Cells) /\ h.len \in 0..Len(content[h.data])
      /\ GoodData(size, content[h.data], h.len, lim)
  BY DEF HandleSound
<1>3. PICK d \in Seq(Cells) : d = content[h.data] BY <1>2
<1>4. PICK n \in 0..Len(d) : n = h.len BY <1>2, <1>3
<1>5. PICK e \in Seq(Cells) : e = Prefix(d, n) BY PrefixOf
<1>6. Len(e) = n /\ Agree(d, e, n) /\ n \in Nat /\ n <= n BY <1>5, PrefixOf
<1>7. GoodData(size, d, n, lim) BY <1>2, <1>3, <1>4
<1>8. GoodData(size, e, n, lim) BY <1>1, <1>6, <1>7, GoodDataMono
<1>9. ASSUME h.idx # 0
      PROVE  /\ Prefix(content[h.idx], h.ilen) \in Seq(Cells)
             /\ Len(Prefix(content[h.idx], h.ilen)) = h.ilen
             /\ Agree(content[h.idx], Prefix(content[h.idx], h.ilen), h.ilen)
             /\ GoodIndex(size, Prefix(content[h.idx], h.ilen), h.ilen, e, n, lim)
  <2>1. content[h.idx] \in Seq(Cells) /\ h.ilen \in 0..Len(content[h.idx])
        /\ GoodIndex(size, content[h.idx], h.ilen, d, n, lim)
    BY <1>9, <1>3, <1>4 DEF HandleSound
  <2>2. PICK x \in Seq(Cells) : x = content[h.idx] BY <2>1
  <2>3. PICK m \in 0..Len(x) : m = h.ilen BY <2>1, <2>2
  <2>4. PICK y \in Seq(Cells) : y = Prefix(x, m) BY PrefixOf
  <2>5. Len(y) = m /\ Agree(x, y, m) /\ m \in Nat BY <2>4, PrefixOf
  <2>6. GoodIndex(size, x, m, d, n, lim) BY <2>1, <2>2, <2>3
  <2>7. lim <= lim BY <1>1
  <2>8. GoodIndex(size, y, m, e, n, lim)
    BY <1>1, <1>6, <2>5, <2>6, <2>7, GoodIndexMono
  <2> QED BY <2>2, <2>3, <2>4, <2>5, <2>8
<1> QED BY <1>3, <1>4, <1>5, <1>6, <1>8, <1>9

\* The read of one sound handle.
LEMMA SegmentRead ==
    ASSUME GoodSizes, content \in Seq(Seq(Cells)), NEW h, NEW lim \in 0..Len(size),
           HandleSound(size, content, h, lim)
    PROVE  /\ ReadSegment(h).ok = TRUE /\ ReadSegment(h).bad = {}
           /\ \A r \in ReadSegment(h).recs : r \in 1..lim
           /\ \A r : HandleHolds(content, h, r) => r \in ReadSegment(h).recs
<1>1. PICK d \in Seq(Cells) : d = Prefix(content[h.data], h.len) BY HandleFiles
<1>2. GoodData(size, d, Len(d), lim) BY <1>1, HandleFiles
<1> DEFINE whole == {i \in DOMAIN d : WholeAt(d, i)}
<1>3. CASE h.idx = 0
  <2>1. ReadSegment(h) =
          [recs |-> {d[i].rec : i \in whole}, bad |-> {},
           ok |-> h.comp = "none" \/
                    \A j \in DOMAIN d : \E i \in whole : i <= j /\ j < i + size[d[i].rec]]
    BY <1>1, <1>3 DEF ReadSegment
  <2>2. \A j \in DOMAIN d : /\ d[j].rec \in 1..lim
                            /\ \E i \in whole : i <= j /\ j < i + size[d[i].rec]
    BY <1>2, LegacyRead
  <2>3. \A r : ~HandleHolds(content, h, r) BY <1>3 DEF HandleHolds
  <2>4. whole \subseteq DOMAIN d OBVIOUS
  <2> HIDE DEF whole
  <2>5. /\ ReadSegment(h).recs = {d[i].rec : i \in whole} /\ ReadSegment(h).bad = {}
        /\ ReadSegment(h).ok = (h.comp = "none" \/
                    \A j \in DOMAIN d : \E i \in whole : i <= j /\ j < i + size[d[i].rec])
    BY <2>1
  <2>6. ReadSegment(h).ok = TRUE BY <2>2, <2>5
  <2> QED BY <2>2, <2>3, <2>4, <2>5, <2>6
<1>4. CASE h.idx # 0
  <2>1. PICK x \in Seq(Cells) : x = Prefix(content[h.idx], h.ilen) BY <1>4, HandleFiles
  <2>2. /\ GoodIndex(size, x, Len(x), d, Len(d), lim)
        /\ Len(x) = h.ilen /\ Agree(content[h.idx], x, h.ilen)
    BY <1>1, <1>4, <2>1, HandleFiles
  <2> DEFINE good == {i \in LineStarts(x) : Parses(x, i) /\ Verified(d, x[i], h.comp)}
  <2>3. ReadSegment(h) = [recs |-> {x[i].rec : i \in good},
                          bad |-> LineStarts(x) \ good, ok |-> TRUE]
    BY <1>1, <1>4, <2>1 DEF ReadSegment
  <2>4. \A i \in LineStarts(x) :
            Parses(x, i) /\ Verified(d, x[i], h.comp) /\ x[i].rec \in 1..lim
    BY <2>2, LineVerified
  <2>5. good = LineStarts(x) BY <2>4
  <2>6. ASSUME NEW r, HandleHolds(content, h, r) PROVE \E i \in LineStarts(x) : x[i].rec = r
    <3>1. Indexed(x, Len(x), r)
      BY <2>6, <2>2 DEF HandleHolds, Indexed, Agree
    <3>2. Len(d) \in Nat /\ lim \in Nat BY DEF GoodSizes
    <3> QED BY <3>1, <3>2, <2>2, LineFound
  <2> HIDE DEF good
  <2>7. /\ ReadSegment(h).ok = TRUE /\ ReadSegment(h).bad = {}
        /\ ReadSegment(h).recs = {x[i].rec : i \in LineStarts(x)}
    BY <2>3, <2>5
  <2> QED BY <2>4, <2>6, <2>7
<1> QED BY <1>3, <1>4

\* The export over sound handles: nothing is corrupt, every session with a
\* line is returned, and none that came later.
LEMMA SoundRead ==
    ASSUME GoodSizes, content \in Seq(Seq(Cells)), NEW handles, NEW want,
           NEW lim \in 0..Len(size), HandlesSound(size, content, handles, want, lim)
    PROVE  /\ Read(handles).ok = TRUE /\ Read(handles).bad = 0
           /\ want \subseteq Read(handles).recs
           /\ \A r \in Read(handles).recs : r \in 1..lim
<1>1. \A i \in DOMAIN handles :
          /\ ReadSegment(handles[i]).ok = TRUE /\ ReadSegment(handles[i]).bad = {}
          /\ \A r \in ReadSegment(handles[i]).recs : r \in 1..lim
          /\ \A r : HandleHolds(content, handles[i], r) => r \in ReadSegment(handles[i]).recs
  BY SegmentRead DEF HandlesSound
<1>2. Read(handles) =
        [recs |-> UNION {ReadSegment(handles[i]).recs : i \in DOMAIN handles},
         bad  |-> Cardinality(UNION {{i} \X ReadSegment(handles[i]).bad : i \in DOMAIN handles}),
         ok   |-> \A i \in DOMAIN handles : ReadSegment(handles[i]).ok]
  BY DEF Read
<1>3. /\ Read(handles).recs = UNION {ReadSegment(handles[i]).recs : i \in DOMAIN handles}
      /\ Read(handles).bad =
           Cardinality(UNION {{i} \X ReadSegment(handles[i]).bad : i \in DOMAIN handles})
      /\ Read(handles).ok = (\A i \in DOMAIN handles : ReadSegment(handles[i]).ok)
  BY <1>2
<1>4. UNION {{i} \X ReadSegment(handles[i]).bad : i \in DOMAIN handles} = {}
  BY <1>1
<1>5. Read(handles).bad = 0 BY <1>3, <1>4, FS_EmptySet
<1>6. \A r \in want : \E i \in DOMAIN handles : HandleHolds(content, handles[i], r)
  BY DEF HandlesSound
<1>7. Read(handles).ok = TRUE BY <1>1, <1>3
<1>8. want \subseteq Read(handles).recs BY <1>1, <1>3, <1>6
<1>9. \A r \in Read(handles).recs : r \in 1..lim BY <1>1, <1>3
<1> QED BY <1>5, <1>7, <1>8, <1>9

-----------------------------------------------------------------------------
(***************************************************************************)
(* The types are kept by every step.                                       *)
(***************************************************************************)
LEMMA FiniteUnion ==
    ASSUME NEW D, IsFiniteSet(D), NEW F, \A i \in D : IsFiniteSet(F[i])
    PROVE  IsFiniteSet(UNION {F[i] : i \in D})
<1> DEFINE T == {F[i] : i \in D}
           g == [i \in D |-> F[i]]
<1>1. g \in Surjection(D, T) BY DEF Surjection
<1>2. IsFiniteSet(T) BY <1>1, FS_Surjection
<1> QED BY <1>2, FS_UNION

\* The number of corrupt lines a read reports.
LEMMA BadCount ==
    ASSUME content \in Seq(Seq(Cells)), NEW handles, HandleTypes(content, handles)
    PROVE  Read(handles).bad \in Nat
<1> DEFINE F == [i \in DOMAIN handles |-> {i} \X ReadSegment(handles[i]).bad]
<1>1. ASSUME NEW i \in DOMAIN handles PROVE IsFiniteSet(ReadSegment(handles[i]).bad)
  <2>1. PICK h : h = handles[i] OBVIOUS
  <2>2. h.idx \in 0..Len(content) /\ h.ilen \in Nat BY <2>1, <1>1 DEF HandleTypes
  <2>3. CASE h.idx = 0
    <3>1. ReadSegment(h).bad = {} BY <2>3 DEF ReadSegment
    <3> QED BY <3>1, <2>1, FS_EmptySet
  <2>4. CASE h.idx # 0
    <3>1. PICK s \in Seq(Cells) : s = content[h.idx] BY <2>2, <2>4
    <3>2. PICK x : x = Prefix(s, h.ilen) OBVIOUS
    <3>3. x \in Seq(Cells)
      <4>1. CASE h.ilen < Len(s) BY <4>1, <3>2, <2>2 DEF Prefix
      <4>2. CASE ~(h.ilen < Len(s)) BY <4>2, <3>2, <2>2 DEF Prefix
      <4> QED BY <4>1, <4>2
    <3>4. ReadSegment(h).bad \subseteq LineStarts(x)
      BY <3>1, <3>2, <2>4 DEF ReadSegment
    <3>5. ReadSegment(h).bad \in SUBSET (1..Len(x)) BY <3>3, <3>4 DEF LineStarts
    <3>6. IsFiniteSet(1..Len(x))
      <4>1. Len(x) \in Int /\ 1 \in Int BY <3>3
      <4> QED BY <4>1, FS_Interval
    <3> QED BY <3>5, <3>6, <2>1, FS_Subset
  <2> QED BY <2>3, <2>4
<1>2. \A i \in DOMAIN handles : IsFiniteSet(F[i])
  <2> SUFFICES ASSUME NEW i \in DOMAIN handles
               PROVE  IsFiniteSet({i} \X ReadSegment(handles[i]).bad) OBVIOUS
  <2>1. IsFiniteSet({i}) BY FS_Singleton
  <2> QED BY <1>1, <2>1, FS_Product
<1>3. IsFiniteSet(DOMAIN handles) BY DEF HandleTypes
<1>5. UNION {F[i] : i \in DOMAIN handles} =
        UNION {{i} \X ReadSegment(handles[i]).bad : i \in DOMAIN handles}
  OBVIOUS
<1>6. Read(handles).bad = Cardinality(UNION {F[i] : i \in DOMAIN handles})
  BY <1>5 DEF Read
<1> HIDE DEF F
<1>4. IsFiniteSet(UNION {F[i] : i \in DOMAIN handles}) BY <1>2, <1>3, FiniteUnion
<1> QED BY <1>4, <1>6, FS_CardinalityType

LEMMA TailTypes ==
    ASSUME NEW s \in Seq(Segment), s # <<>>, NEW n, Ascending(s), Below(s, n)
    PROVE  /\ Head(s) \in Segment /\ Tail(s) \in Seq(Segment)
           /\ Ascending(Tail(s)) /\ Below(Tail(s), n)
<1>1. Head(s) \in Segment /\ Tail(s) \in Seq(Segment) /\ Len(Tail(s)) = Len(s) - 1
      /\ \A i \in 1..Len(Tail(s)) : Tail(s)[i] = s[i + 1]
  OBVIOUS
<1>2. Len(s) \in Nat OBVIOUS
<1>3. \A i \in 1..Len(Tail(s)) : i + 1 \in 1..Len(s) BY <1>1, <1>2
<1>4. Below(Tail(s), n) BY <1>1, <1>3 DEF Below
<1>5. ASSUME NEW i \in 1..Len(Tail(s)), NEW j \in 1..Len(Tail(s)), i < j
      PROVE  Tail(s)[i].name[1] < Tail(s)[j].name[1]
  <2>1. i + 1 \in 1..Len(s) /\ j + 1 \in 1..Len(s) /\ i + 1 < j + 1 BY <1>3, <1>5
  <2>2. s[i + 1].name[1] < s[j + 1].name[1] BY <2>1 DEF Ascending
  <2> QED BY <2>2, <1>1
<1> QED BY <1>1, <1>4, <1>5 DEF Ascending

LEMMA AppendFacts ==
    ASSUME NEW S, NEW s \in Seq(S), NEW e \in S
    PROVE  /\ Append(s, e) \in Seq(S) /\ Len(Append(s, e)) = Len(s) + 1
           /\ Append(s, e)[Len(s) + 1] = e
           /\ \A i \in 1..Len(s) : Append(s, e)[i] = s[i]
OBVIOUS

LEMMA PlaceTypes ==
    ASSUME NEW s \in Seq(Segment), NEW n \in Nat \ {0}, Ascending(s), Below(s, n),
           NEW seg \in Segment, seg.name[1] = n
    PROVE  /\ Append(s, seg) \in Seq(Segment)
           /\ Ascending(Append(s, seg)) /\ Below(Append(s, seg), n + 1)
<1>1. PICK t \in Seq(Segment) : t = Append(s, seg) BY AppendFacts
<1>2. /\ Len(t) = Len(s) + 1 /\ t[Len(s) + 1] = seg
      /\ \A i \in 1..Len(s) : t[i] = s[i]
  BY <1>1, AppendFacts
<1>3. \A i \in 1..Len(s) : s[i].name[1] \in Nat
  <2> SUFFICES ASSUME NEW i \in 1..Len(s) PROVE s[i].name[1] \in Nat OBVIOUS
  <2>1. s[i] \in Segment OBVIOUS
  <2>2. s[i].name \in SegmentNames BY <2>1 DEF Segment
  <2> QED BY <2>2 DEF SegmentNames
<1>4. Len(s) \in Nat /\ Len(t) = Len(s) + 1 BY <1>2
<1>5. Below(t, n + 1)
  <2> SUFFICES ASSUME NEW i \in 1..Len(t) PROVE t[i].name[1] < n + 1 BY DEF Below
  <2>1. CASE i \in 1..Len(s)
    <3>1. t[i].name[1] < n /\ t[i].name[1] \in Nat BY <2>1, <1>2, <1>3 DEF Below
    <3> QED BY <3>1
  <2>2. CASE i = Len(s) + 1 BY <2>2, <1>2
  <2>3. i \in 1..Len(s) \/ i = Len(s) + 1 BY <1>4
  <2> QED BY <2>1, <2>2, <2>3
<1>6. Ascending(t)
  <2> SUFFICES ASSUME NEW i \in 1..Len(t), NEW j \in 1..Len(t), i < j
               PROVE  t[i].name[1] < t[j].name[1]
      BY DEF Ascending
  <2>1. i \in 1..Len(s) BY <1>4
  <2>2. CASE j \in 1..Len(s)
    <3>1. s[i].name[1] < s[j].name[1] BY <2>1, <2>2 DEF Ascending
    <3> QED BY <3>1, <2>1, <2>2, <1>2
  <2>3. CASE j = Len(s) + 1
    BY <2>1, <2>3, <1>2 DEF Below
  <2>4. j \in 1..Len(s) \/ j = Len(s) + 1 BY <1>4
  <2> QED BY <2>2, <2>3, <2>4
<1> QED BY <1>1, <1>5, <1>6

\* The sizes in memory grow with the files.
Grown(s, a, b) ==
    [s EXCEPT ![Len(s)] = [name |-> s[Len(s)].name, bytes |-> s[Len(s)].bytes + a,
                           ibytes |-> s[Len(s)].ibytes + b]]

LEMMA GrownFacts ==
    ASSUME NEW s \in Seq(Segment), s # <<>>, NEW a \in Nat, NEW b \in Nat
    PROVE  /\ Grown(s, a, b) \in Seq(Segment) /\ Len(Grown(s, a, b)) = Len(s)
           /\ \A i \in 1..Len(s) : Grown(s, a, b)[i].name = s[i].name
           /\ \A i \in 1..Len(s) : i # Len(s) => Grown(s, a, b)[i] = s[i]
           /\ Grown(s, a, b)[Len(s)].bytes = s[Len(s)].bytes + a
           /\ Grown(s, a, b)[Len(s)].ibytes = s[Len(s)].ibytes + b
<1>1. Len(s) \in 1..Len(s) /\ s[Len(s)] \in Segment OBVIOUS
<1>2. PICK seg \in Segment : seg = s[Len(s)] BY <1>1
<1> DEFINE g == [name |-> seg.name, bytes |-> seg.bytes + a, ibytes |-> seg.ibytes + b]
<1>3. /\ g.name = seg.name /\ g.bytes = seg.bytes + a
      /\ g.ibytes = seg.ibytes + b /\ g \in Segment
  BY DEF Segment
<1>4. Grown(s, a, b) = [s EXCEPT ![Len(s)] = g] BY <1>2 DEF Grown
<1> HIDE DEF g
<1>5. PICK t : t = Grown(s, a, b) OBVIOUS
<1>6. /\ t \in Seq(Segment) /\ Len(t) = Len(s)
      /\ t[Len(s)] = g /\ \A i \in 1..Len(s) : i # Len(s) => t[i] = s[i]
  BY <1>1, <1>3, <1>4, <1>5
<1> QED BY <1>2, <1>3, <1>5, <1>6

LEMMA GrownTypes ==
    ASSUME NEW s \in Seq(Segment), s # <<>>, NEW a \in Nat, NEW b \in Nat,
           NEW n, Ascending(s), Below(s, n)
    PROVE  Ascending(Grown(s, a, b)) /\ Below(Grown(s, a, b), n)
<1>1. PICK t : t = Grown(s, a, b) OBVIOUS
<1>2. Len(t) = Len(s) /\ \A i \in 1..Len(s) : t[i].name = s[i].name
  BY <1>1, GrownFacts
<1> QED BY <1>1, <1>2 DEF Ascending, Below

\* A file is removed.
LEMMA UnlinkData ==
    ASSUME NEW c, NEW da, NEW ia, NEW n, Directory(c, da, ia)
    PROVE  Directory(c, Unlinked(da, n), ia)
<1>1. PICK db : db = Unlinked(da, n) OBVIOUS
<1>2. DOMAIN db = DOMAIN da \ {n} /\ \A m \in DOMAIN db : db[m] = da[m]
  BY <1>1 DEF Unlinked
<1>3. IsFiniteSet(DOMAIN da \ {n}) BY FS_RemoveElement DEF Directory
<1> QED BY <1>1, <1>2, <1>3 DEF Directory

LEMMA UnlinkIndex ==
    ASSUME NEW c, NEW da, NEW ia, NEW n, Directory(c, da, ia)
    PROVE  Directory(c, da, Unlinked(ia, n))
<1>1. PICK ib : ib = Unlinked(ia, n) OBVIOUS
<1>2. DOMAIN ib = DOMAIN ia \ {n} /\ \A m \in DOMAIN ib : ib[m] = ia[m]
  BY <1>1 DEF Unlinked
<1>3. IsFiniteSet(DOMAIN ia \ {n}) BY FS_RemoveElement DEF Directory
<1> QED BY <1>1, <1>2, <1>3 DEF Directory

\* A file is created empty.
LEMMA CreateFacts ==
    ASSUME NEW c \in Seq(Seq(Cells)), NEW e \in Seq(Seq(Cells)), e = Append(c, <<>>)
    PROVE  /\ Len(e) = Len(c) + 1 /\ Len(c) \in Nat /\ e[Len(c) + 1] = <<>>
           /\ \A f \in 1..Len(c) : e[f] = c[f]
OBVIOUS

LEMMA CreateType ==
    ASSUME NEW c \in Seq(Seq(Cells))
    PROVE  Append(c, <<>>) \in Seq(Seq(Cells))
<1>1. << >> \in Seq(Cells) OBVIOUS
<1> QED BY <1>1, AppendFacts

\* Name n gets the new inode.
Created(at, n, f, at2) ==
    /\ DOMAIN at2 = DOMAIN at \cup {n} /\ at2[n] = f
    /\ \A m \in DOMAIN at : at2[m] = at[m]

LEMMA CreateData ==
    ASSUME NEW c \in Seq(Seq(Cells)), NEW e \in Seq(Seq(Cells)), NEW da, NEW ia, NEW db,
           Directory(c, da, ia), NEW n \in SegmentNames, n \notin DOMAIN da,
           Created(da, n, Len(c) + 1, db), Len(e) = Len(c) + 1
    PROVE  Directory(e, db, ia)
<1>1. Len(c) \in Nat OBVIOUS
<1>2. IsFiniteSet(DOMAIN da \cup {n}) BY FS_AddElement DEF Directory
<1>3. DOMAIN db \subseteq SegmentNames /\ IsFiniteSet(DOMAIN db)
  BY <1>2 DEF Directory, Created
<1>4. \A m \in DOMAIN da : da[m] \in 1..Len(c) /\ db[m] = da[m]
  BY DEF Directory, Created
<1>5. \A m \in DOMAIN ia : ia[m] \in 1..Len(c) BY DEF Directory
<1>6. \A m \in DOMAIN db : m \in DOMAIN da \/ (m = n /\ db[m] = Len(c) + 1) BY DEF Created
<1>7. /\ \A m \in DOMAIN db : db[m] \in 1..Len(e)
      /\ \A m \in DOMAIN ia : ia[m] \in 1..Len(e)
  BY <1>1, <1>4, <1>5, <1>6
<1>8. Len(c) + 1 \notin 1..Len(c) BY <1>1
<1>9. /\ \A m, k \in DOMAIN da : da[m] = da[k] => m = k
      /\ \A m \in DOMAIN da, k \in DOMAIN ia : da[m] # ia[k]
  BY DEF Directory
<1>10. \A m, k \in DOMAIN db : db[m] = db[k] => m = k
  BY <1>4, <1>6, <1>8, <1>9
<1>11. \A m \in DOMAIN db, k \in DOMAIN ia : db[m] # ia[k]
  BY <1>4, <1>5, <1>6, <1>8, <1>9
<1> QED BY <1>3, <1>7, <1>10, <1>11 DEF Directory

LEMMA CreateIndex ==
    ASSUME NEW c \in Seq(Seq(Cells)), NEW e \in Seq(Seq(Cells)), NEW da, NEW ia, NEW ib,
           Directory(c, da, ia), NEW n \in SegmentNames, n \notin DOMAIN ia,
           Created(ia, n, Len(c) + 1, ib), Len(e) = Len(c) + 1
    PROVE  Directory(e, da, ib)
<1>1. Len(c) \in Nat OBVIOUS
<1>3. IsFiniteSet(DOMAIN ia \cup {n}) BY FS_AddElement DEF Directory
<1>2. DOMAIN ib \subseteq SegmentNames /\ IsFiniteSet(DOMAIN ib)
  BY <1>3 DEF Directory, Created
<1>4. \A m \in DOMAIN ia : ia[m] \in 1..Len(c) /\ ib[m] = ia[m]
  BY DEF Directory, Created
<1>5. \A m \in DOMAIN da : da[m] \in 1..Len(c) BY DEF Directory
<1>6. \A m \in DOMAIN ib : m \in DOMAIN ia \/ (m = n /\ ib[m] = Len(c) + 1) BY DEF Created
<1>7. /\ \A m \in DOMAIN ib : ib[m] \in 1..Len(e)
      /\ \A m \in DOMAIN da : da[m] \in 1..Len(e)
  BY <1>1, <1>4, <1>5, <1>6
<1>8. Len(c) + 1 \notin 1..Len(c) BY <1>1
<1>9. /\ \A m, k \in DOMAIN ia : ia[m] = ia[k] => m = k
      /\ \A m \in DOMAIN da, k \in DOMAIN ia : da[m] # ia[k]
  BY DEF Directory
<1>10. \A m, k \in DOMAIN ib : ib[m] = ib[k] => m = k
  BY <1>4, <1>6, <1>8, <1>9
<1>11. \A m \in DOMAIN da, k \in DOMAIN ib : da[m] # ib[k]
  BY <1>4, <1>5, <1>6, <1>8, <1>9
<1> QED BY <1>2, <1>7, <1>10, <1>11 DEF Directory

LEMMA ConcatFacts ==
    ASSUME NEW d \in Seq(Cells), NEW cells \in Seq(Cells)
    PROVE  /\ d \o cells \in Seq(Cells) /\ Len(d \o cells) = Len(d) + Len(cells)
           /\ Agree(d, d \o cells, Len(d))
           /\ \A k \in 1..Len(cells) : (d \o cells)[Len(d) + k] = cells[k]
<1>1. /\ d \o cells \in Seq(Cells) /\ Len(d \o cells) = Len(d) + Len(cells)
      /\ \A j \in 1..Len(d) : (d \o cells)[j] = d[j]
      /\ \A k \in 1..Len(cells) : (d \o cells)[Len(d) + k] = cells[k]
  OBVIOUS
<1> QED BY <1>1 DEF Agree

\* Cells are written at the end of a file.
Extended(c, e, f, cells) ==
    e = [c EXCEPT ![f] = c[f] \o cells]

LEMMA ExtendedType ==
    ASSUME NEW c \in Seq(Seq(Cells)), NEW e, NEW f, NEW cells \in Seq(Cells),
           Extended(c, e, f, cells)
    PROVE  /\ e \in Seq(Seq(Cells)) /\ Len(e) = Len(c)
           /\ \A g \in 1..Len(c) : g # f => e[g] = c[g]
           /\ f \in 1..Len(c) => e[f] = c[f] \o cells
<1>1. CASE f \in 1..Len(c)
  <2>1. c[f] \in Seq(Cells) BY <1>1
  <2>2. PICK s \in Seq(Cells) : s = c[f] \o cells BY <2>1, ConcatFacts
  <2>3. e = [c EXCEPT ![f] = s] BY <2>2 DEF Extended
  <2> QED BY <1>1, <2>2, <2>3
<1>2. CASE f \notin 1..Len(c)
  <2>1. e = c BY <1>2 DEF Extended
  <2> QED BY <1>2, <2>1
<1> QED BY <1>1, <1>2

LEMMA WriteDirectory ==
    ASSUME NEW c, NEW e \in Seq(Seq(Cells)), NEW da, NEW ia, Directory(c, da, ia),
           Len(e) = Len(c)
    PROVE  Directory(e, da, ia)
BY DEF Directory

LEMMA RecordCellsType ==
    ASSUME GoodSizes, NEW r \in 1..Len(size)
    PROVE  /\ RecordCells(r) \in Seq(Cells) /\ Len(RecordCells(r)) = size[r]
           /\ \A k \in 1..size[r] : RecordCells(r)[k] = Cell(r, k)
<1>1. size[r] \in Nat /\ r \in Nat BY DEF GoodSizes
<1>2. RecordCells(r) = [k \in 1..size[r] |-> Cell(r, k)] BY DEF RecordCells, Cell
<1>3. \A k \in 1..size[r] : Cell(r, k) \in Cells BY <1>1 DEF Cell, Cells
<1>4. [k \in 1..size[r] |-> Cell(r, k)] \in [1..size[r] -> Cells] BY <1>3
<1>5. RecordCells(r) \in [1..size[r] -> Cells] BY <1>2, <1>4
<1>6. RecordCells(r) \in Seq(Cells) BY <1>1, <1>5
<1>7. Len(RecordCells(r)) = size[r] BY <1>1, <1>5, <1>6
<1>8. \A k \in 1..size[r] : RecordCells(r)[k] = Cell(r, k) BY <1>2
<1> QED BY <1>6, <1>7, <1>8

LEMMA LineCellsType ==
    ASSUME NEW r \in Nat, NEW off \in Nat
    PROVE  /\ LineCells(r, off) \in Seq(Cells) /\ Len(LineCells(r, off)) = IndexBytes
           /\ \A k \in 1..IndexBytes : LineCells(r, off)[k] = IndexCell(r, k, off)
<1>1. IndexBytes \in Nat BY SpillAssumption
<1>2. LineCells(r, off) = [k \in 1..IndexBytes |-> IndexCell(r, k, off)]
  BY DEF LineCells, IndexCell
<1>3. \A k \in 1..IndexBytes : IndexCell(r, k, off) \in Cells BY <1>1 DEF IndexCell, Cells
<1>4. [k \in 1..IndexBytes |-> IndexCell(r, k, off)] \in [1..IndexBytes -> Cells] BY <1>3
<1>5. LineCells(r, off) \in [1..IndexBytes -> Cells] BY <1>2, <1>4
<1>6. LineCells(r, off) \in Seq(Cells) BY <1>1, <1>5
<1>7. Len(LineCells(r, off)) = IndexBytes BY <1>1, <1>5, <1>6
<1>8. \A k \in 1..IndexBytes : LineCells(r, off)[k] = IndexCell(r, k, off) BY <1>2
<1> QED BY <1>6, <1>7, <1>8

LEMMA FileSizeType ==
    ASSUME FileTypes, NEW n
    PROVE  FileSize(dataAt, n) \in Nat /\ FileSize(idxAt, n) \in Nat
<1>1. ASSUME NEW at, n \in DOMAIN at => at[n] \in 1..Len(content)
      PROVE  FileSize(at, n) \in Nat
  <2>1. CASE n \in DOMAIN at
    <3>1. content[at[n]] \in Seq(Cells) BY <2>1, <1>1 DEF FileTypes, Directory
    <3>2. Len(content[at[n]]) \in Nat BY <3>1
    <3> QED BY <2>1, <3>2 DEF FileSize
  <2>2. CASE n \notin DOMAIN at BY <2>2 DEF FileSize
  <2> QED BY <2>1, <2>2
<1> QED BY <1>1 DEF FileTypes, Directory

LEMMA BytesFinite ==
    ASSUME FileTypes, NEW N, IsFiniteSet(N)
    PROVE  IsFiniteSet(BytesOf(N)) /\ Cardinality(BytesOf(N)) \in Nat
<1> DEFINE F == [n \in N |->
                    {n} \X (1..(FileSize(dataAt, n) + FileSize(idxAt, n)))]
<1>1. ASSUME NEW n \in N
      PROVE  IsFiniteSet({n} \X (1..(FileSize(dataAt, n) + FileSize(idxAt, n))))
  <2>1. PICK k \in Nat : k = FileSize(dataAt, n) + FileSize(idxAt, n)
    BY FileSizeType
  <2>2. IsFiniteSet(1..k)
    <3>1. 1 \in Int /\ k \in Int BY <2>1
    <3> QED BY <3>1, FS_Interval
  <2>3. IsFiniteSet({n}) BY FS_Singleton
  <2>4. IsFiniteSet({n} \X (1..k)) BY <2>2, <2>3, FS_Product
  <2> QED BY <2>1, <2>4
<1>2. \A n \in N : IsFiniteSet(F[n]) BY <1>1
<1>3. BytesOf(N) = UNION {F[n] : n \in N} BY DEF BytesOf
<1> HIDE DEF F
<1>4. IsFiniteSet(BytesOf(N)) BY <1>2, <1>3, FiniteUnion
<1> QED BY <1>4, FS_CardinalityType

LEMMA ListedSizeType ==
    ASSUME FileTypes
    PROVE  IsFiniteSet(ListedBytes) /\ ListedSize \in Nat
<1>1. PICK N : N = DOMAIN dataAt OBVIOUS
<1>2. IsFiniteSet(N) BY <1>1 DEF FileTypes, Directory
<1>3. IsFiniteSet(BytesOf(N)) /\ Cardinality(BytesOf(N)) \in Nat BY <1>2, BytesFinite
<1> QED BY <1>1, <1>3 DEF ListedSize, ListedBytes

LEMMA SeqOf ==
    ASSUME NEW S, NEW n \in Nat, NEW s \in [1..n -> S]
    PROVE  s \in Seq(S) /\ Len(s) = n
OBVIOUS

\* The segments a scan lists.
InOrder(f) == \A i, j \in DOMAIN f : i < j => f[i][1] < f[j][1]
Listed(f) == [i \in DOMAIN f |-> Scanned(f[i])]

LEMMA ScanTypes ==
    ASSUME FileTypes, NEW f \in [1..Cardinality(DOMAIN dataAt) -> DOMAIN dataAt],
           InOrder(f), NEW s, s = Listed(f)
    PROVE  /\ s \in Seq(Segment) /\ Ascending(s)
           /\ NextAfter(f) \in Nat \ {0} /\ Below(s, NextAfter(f))
           /\ Len(s) = Cardinality(DOMAIN dataAt)
           /\ \A i \in 1..Len(s) : s[i].name = f[i]
<1>1. IsFiniteSet(DOMAIN dataAt) BY DEF FileTypes, Directory
<1>2. PICK N \in Nat : N = Cardinality(DOMAIN dataAt) BY <1>1, FS_CardinalityType
<1>3. DOMAIN f = 1..N /\ \A i \in 1..N : f[i] \in SegmentNames
  BY <1>2 DEF FileTypes, Directory
<1>4. \A i \in 1..N : f[i][1] \in Nat \ {0} BY <1>3 DEF SegmentNames
<1>5. \A i \in 1..N : Scanned(f[i]) \in Segment /\ Scanned(f[i]).name = f[i]
  <2> SUFFICES ASSUME NEW i \in 1..N
               PROVE  Scanned(f[i]) \in Segment /\ Scanned(f[i]).name = f[i]
      OBVIOUS
  <2>1. PICK n \in SegmentNames : n = f[i] BY <1>3
  <2>2. FileSize(dataAt, n) \in Nat /\ FileSize(idxAt, n) \in Nat BY FileSizeType
  <2> QED BY <2>1, <2>2 DEF Scanned, Segment
<1>6. s \in [1..N -> Segment] /\ \A i \in 1..N : s[i].name = f[i]
  BY <1>3, <1>5 DEF Listed
<1>7. s \in Seq(Segment) /\ Len(s) = N
  BY <1>6, SeqOf
<1>8. Ascending(s) BY <1>3, <1>6, <1>7 DEF Ascending, InOrder
<1>9. f \in Seq(SegmentNames) /\ Len(f) = N
  <2>1. f \in [1..N -> SegmentNames] BY <1>2, <1>3
  <2> QED BY <2>1
<1>10. CASE N = 0
  <2>1. f = <<>> BY <1>9, <1>10
  <2>2. NextAfter(f) = 1 BY <2>1 DEF NextAfter
  <2> QED BY <1>2, <1>6, <1>7, <1>8, <1>10, <2>2 DEF Below
<1>11. CASE N # 0
  <2>1. f # <<>> BY <1>9, <1>11
  <2>2. NextAfter(f) = f[N][1] + 1 /\ N \in 1..N BY <2>1, <1>9, <1>11 DEF NextAfter
  <2>3. f[N][1] \in Nat BY <1>4, <2>2
  <2>4. \A i \in 1..N : f[i][1] < f[N][1] + 1
    <3> SUFFICES ASSUME NEW i \in 1..N PROVE f[i][1] < f[N][1] + 1 OBVIOUS
    <3>1. f[i][1] \in Nat BY <1>4
    <3>2. CASE i < N
      <4>1. f[i][1] < f[N][1] BY <3>2, <2>2, <1>3 DEF InOrder
      <4> QED BY <4>1, <3>1, <2>3
    <3>3. CASE i = N BY <3>3, <3>1
    <3> QED BY <3>2, <3>3
  <2>5. Below(s, f[N][1] + 1) BY <2>4, <1>6, <1>7 DEF Below
  <2> QED BY <1>2, <1>6, <1>7, <1>8, <2>2, <2>3, <2>5
<1> QED BY <1>10, <1>11

LEMMA EmptyList ==
    ASSUME NEW n
    PROVE  /\ << >> \in Seq(Segment) /\ Ascending(<< >>) /\ Below(<< >>, n)
BY DEF Ascending, Below

LEMMA StoreInit == Init => StoreTypes
<1> SUFFICES ASSUME Init PROVE StoreTypes OBVIOUS
<1>1. segments \in Seq(Segment) /\ Ascending(segments) /\ Below(segments, nextSegment)
  BY EmptyList DEF Init
<1>2. victim.bytes \in Nat /\ victim.ibytes \in Nat BY DEF Init, NoSegment
<1>3. initialized \in BOOLEAN /\ comp \in Compressions BY DEF Init
<1>4. nextSegment \in Nat \ {0} /\ bytesOnDisk \in Nat BY DEF Init
<1> QED BY <1>1, <1>2, <1>3, <1>4 DEF StoreTypes

\* The scan lists every name of the directory.
LEMMA ScanRange ==
    ASSUME FileTypes, NEW f \in [1..Cardinality(DOMAIN dataAt) -> DOMAIN dataAt], InOrder(f)
    PROVE  /\ {f[i] : i \in DOMAIN f} = DOMAIN dataAt
           /\ \A n \in DOMAIN dataAt : \E i \in 1..Cardinality(DOMAIN dataAt) : f[i] = n
<1>1. IsFiniteSet(DOMAIN dataAt) BY DEF FileTypes, Directory
<1>2. PICK N \in Nat : N = Cardinality(DOMAIN dataAt) BY <1>1, FS_CardinalityType
<1>3. f \in [1..N -> DOMAIN dataAt] BY <1>2
<1>4. ASSUME NEW i \in 1..N, NEW j \in 1..N, f[i] = f[j] PROVE i = j
  <2>1. f[i][1] \in Nat
    <3>1. f[i] \in SegmentNames BY <1>3 DEF FileTypes, Directory
    <3> QED BY <3>1 DEF SegmentNames
  <2>2. i < j => f[i][1] < f[j][1] BY <1>2 DEF InOrder
  <2>3. j < i => f[j][1] < f[i][1] BY <1>2 DEF InOrder
  <2> QED BY <1>4, <2>1, <2>2, <2>3
<1>5. f \in Injection(1..N, DOMAIN dataAt) BY <1>3, <1>4 DEF Injection, IsInjective
<1>6. Cardinality(1..N) = N
  <2>1. 1 \in Int /\ N \in Int OBVIOUS
  <2>2. Cardinality(1..N) = IF 1 > N THEN 0 ELSE N - 1 + 1 BY <2>1, FS_Interval
  <2> QED BY <2>2
<1>7. f \in Surjection(1..N, DOMAIN dataAt) BY <1>1, <1>2, <1>5, <1>6, FS_Injection
<1>8. \A n \in DOMAIN dataAt : \E i \in 1..N : f[i] = n BY <1>7 DEF Surjection
<1> QED BY <1>2, <1>3, <1>8

LEMMA StoreFrame ==
    ASSUME StoreTypes, UNCHANGED <<spillVars, victim>>
    PROVE  StoreTypes'
BY DEF StoreTypes, spillVars

\* The list stays in ascending order of the numbers, which are never reused.
LEMMA StoreStep ==
    ASSUME TypeInv, [Next]_vars
    PROVE  StoreTypes'
<1> USE DEF TypeInv
<1>1. CASE Scan
  <2>1. PICK f \in [1..Cardinality(DOMAIN dataAt) -> DOMAIN dataAt] :
            /\ InOrder(f) /\ segments' = Listed(f)
            /\ nextSegment' = NextAfter(f)
            /\ bytesOnDisk' = Cardinality(BytesOf({f[i] : i \in DOMAIN f}))
    BY <1>1 DEF Scan, InOrder, Listed
  <2>2. /\ segments' \in Seq(Segment) /\ Ascending(segments')
        /\ nextSegment' \in Nat \ {0} /\ Below(segments', nextSegment')
    BY <2>1, ScanTypes
  <2>3. bytesOnDisk' \in Nat BY <2>1, ScanRange, ListedSizeType DEF ListedSize, ListedBytes
  <2>4. initialized' \in BOOLEAN /\ comp' = comp /\ victim' = victim BY <1>1 DEF Scan
  <2> QED BY <2>2, <2>3, <2>4 DEF StoreTypes
<1>2. CASE RemoveData \/ RemoveDataFails
  <2>1. /\ OverBudget /\ segments' = Tail(segments)
        /\ UNCHANGED <<comp, initialized, nextSegment, bytesOnDisk>>
        /\ victim' = victim \/ victim' = Head(segments)
    BY <1>2 DEF RemoveData, RemoveDataFails, Fails
  <2>2. segments # <<>> /\ segments \in Seq(Segment)
    BY <2>1 DEF OverBudget, StoreTypes
  <2>3. /\ Head(segments) \in Segment /\ Tail(segments) \in Seq(Segment)
        /\ Ascending(Tail(segments)) /\ Below(Tail(segments), nextSegment)
    BY <2>2, TailTypes DEF StoreTypes
  <2>4. Head(segments).bytes \in Nat /\ Head(segments).ibytes \in Nat
    BY <2>3 DEF Segment
  <2>5. victim'.bytes \in Nat /\ victim'.ibytes \in Nat BY <2>1, <2>4 DEF StoreTypes
  <2> QED BY <2>1, <2>3, <2>5 DEF StoreTypes
<1>3. CASE RemoveIndex
  <2>1. /\ bytesOnDisk' = ReleaseBytes(victim)
        /\ UNCHANGED <<comp, initialized, segments, nextSegment, victim>>
    BY <1>3 DEF RemoveIndex
  <2>2. ReleaseBytes(victim) \in Nat BY DEF StoreTypes, ReleaseBytes
  <2> QED BY <2>1, <2>2 DEF StoreTypes
<1>4. CASE Place
  <2>1. UNCHANGED <<comp, initialized, bytesOnDisk, victim>> BY <1>4 DEF Place
  <2>2. CASE UNCHANGED <<segments, nextSegment>>
    BY <2>1, <2>2, StoreFrame DEF spillVars
  <2>3. CASE ~UNCHANGED <<segments, nextSegment>>
    <3> DEFINE seg == [name |-> <<nextSegment, comp>>, bytes |-> 0, ibytes |-> 0]
    <3>1. segments' = Append(segments, seg) /\ nextSegment' = nextSegment + 1
      BY <2>3, <1>4 DEF Place
    <3>2. seg \in Segment /\ seg.name[1] = nextSegment
      BY DEF Segment, SegmentNames, StoreTypes
    <3> HIDE DEF seg
    <3>3. /\ segments' \in Seq(Segment) /\ Ascending(segments')
          /\ Below(segments', nextSegment')
      BY <3>1, <3>2, PlaceTypes DEF StoreTypes
    <3> QED BY <2>1, <3>1, <3>3 DEF StoreTypes
  <2> QED BY <2>2, <2>3
<1>5. CASE WriteIndex
  <2>1. size[cur] \in Nat /\ IndexBytes \in Nat /\ segments # <<>>
    BY <1>5, SpillAssumption DEF WriteIndex, ControlTypes, SessionTypes, WritePoints
  <2>2. PICK a \in Nat : a = size[cur] BY <2>1
  <2>3. segments' = Grown(segments, a, IndexBytes)
    BY <1>5, <2>2 DEF WriteIndex, Grown, Active
  <2>4. bytesOnDisk' \in Nat BY <1>5, <2>1 DEF WriteIndex, StoreTypes
  <2>5. UNCHANGED <<comp, initialized, nextSegment, victim>> BY <1>5 DEF WriteIndex
  <2>6. segments' \in Seq(Segment) BY <2>1, <2>3, GrownFacts DEF StoreTypes
  <2>7. Ascending(segments') /\ Below(segments', nextSegment)
    BY <2>1, <2>3, GrownTypes DEF StoreTypes
  <2> QED BY <2>4, <2>5, <2>6, <2>7 DEF StoreTypes
<1>6. CASE ClearDone
  BY <1>6 DEF ClearDone, StoreTypes, Ascending, Below
<1>7. CASE Crash
  <2>1. /\ segments' \in Seq(Segment) /\ Ascending(segments')
        /\ Below(segments', nextSegment')
    BY <1>7, EmptyList DEF Crash
  <2>2. initialized' \in BOOLEAN /\ comp' \in Compressions BY <1>7 DEF Crash
  <2>3. /\ nextSegment' \in Nat \ {0} /\ bytesOnDisk' \in Nat /\ victim' = victim
    BY <1>7 DEF Crash
  <2> QED BY <2>1, <2>2, <2>3 DEF StoreTypes
<1>8. CASE Requests
  BY <1>8, StoreFrame DEF Requests, CallAppend, CallStats, CallSnapshot, CallClear
<1>9. CASE ScanFails \/ RemoveIndexFails \/ WithinBudget
  BY <1>9, StoreFrame DEF ScanFails, RemoveIndexFails, WithinBudget, Fails
<1>10. CASE OpenData \/ OpenIndex \/ OpenFails \/ WriteData \/ WriteFails \/ Acknowledge
  BY <1>10, StoreFrame DEF OpenData, OpenIndex, OpenFails, WriteData, WriteFails,
     Acknowledge, Fails
<1>11. CASE ClearFile \/ ClearFails \/ Exporting
  BY <1>11, StoreFrame DEF ClearFile, ClearFails, Exporting, OpenSnapshot,
     OpenSnapshotFails, ReadSnapshot, Report, Fails, controlVars
<1>12. CASE UNCHANGED vars
  BY <1>12, StoreFrame DEF vars, controlVars
<1> QED BY <1>1, <1>2, <1>3, <1>4, <1>5, <1>6, <1>7, <1>8, <1>9, <1>10, <1>11, <1>12
        DEF Next, Budget, Appending, Clearing

LEMMA FileInit == Init => FileTypes
<1> SUFFICES ASSUME Init PROVE FileTypes OBVIOUS
<1>1. content \in Seq(Seq(Cells)) BY DEF Init
<1>2. DOMAIN dataAt = {} /\ DOMAIN idxAt = {} BY DEF Init, NoFiles
<1>3. IsFiniteSet({}) BY FS_EmptySet
<1> QED BY <1>1, <1>2, <1>3 DEF FileTypes, Directory

LEMMA FileFrame ==
    ASSUME FileTypes, UNCHANGED diskVars
    PROVE  FileTypes'
BY DEF FileTypes, diskVars

LEMMA ActiveName ==
    ASSUME StoreTypes, segments # <<>>
    PROVE  /\ Len(segments) \in 1..Len(segments) /\ Active \in Segment
           /\ Active.name \in SegmentNames /\ Active.bytes \in Nat /\ Active.ibytes \in Nat
<1>1. segments \in Seq(Segment) BY DEF StoreTypes
<1>2. Len(segments) \in 1..Len(segments) BY <1>1
<1>3. Active \in Segment BY <1>1, <1>2 DEF Active
<1> QED BY <1>2, <1>3 DEF Segment

\* The file is created when it is missing.
LEMMA OpenStep ==
    ASSUME FileTypes, NEW at, NEW n, NEW at2, NEW e, at2 = Opened(at, n),
           e = (IF n \in DOMAIN at THEN content ELSE Append(content, <<>>))
    PROVE  \/ at2 = at /\ e = content /\ n \in DOMAIN at
           \/ /\ n \notin DOMAIN at /\ Created(at, n, Len(content) + 1, at2)
              /\ content \in Seq(Seq(Cells)) /\ e \in Seq(Seq(Cells))
              /\ Len(e) = Len(content) + 1 /\ Len(content) \in Nat
              /\ e[Len(content) + 1] = <<>>
              /\ \A f \in 1..Len(content) : e[f] = content[f]
<1>1. CASE n \in DOMAIN at BY <1>1 DEF Opened
<1>2. CASE n \notin DOMAIN at
  <2>1. Created(at, n, Len(content) + 1, at2) BY <1>2 DEF Created, Opened
  <2>2. content \in Seq(Seq(Cells)) BY DEF FileTypes, Directory
  <2>3. e = Append(content, <<>>) BY <1>2
  <2>4. e \in Seq(Seq(Cells)) BY <2>2, <2>3, CreateType
  <2>5. /\ Len(e) = Len(content) + 1 /\ Len(content) \in Nat
        /\ e[Len(content) + 1] = <<>>
        /\ \A f \in 1..Len(content) : e[f] = content[f]
    BY <2>2, <2>3, <2>4, CreateFacts
  <2> QED BY <1>2, <2>1, <2>2, <2>4, <2>5
<1> QED BY <1>1, <1>2

\* The cells an append writes.
LEMMA PrefixType ==
    ASSUME NEW cells \in Seq(Cells), NEW n \in Nat
    PROVE  Prefix(cells, n) \in Seq(Cells)
<1>1. CASE n < Len(cells) BY <1>1 DEF Prefix
<1>2. CASE ~(n < Len(cells)) BY <1>2 DEF Prefix
<1> QED BY <1>1, <1>2

LEMMA CurrentCells ==
    ASSUME TypeInv, pc \in WritePoints
    PROVE  /\ GoodSizes /\ cur \in 1..Len(size) /\ cur \in Nat /\ Offset \in Nat
           /\ RecordCells(cur) \in Seq(Cells) /\ LineCells(cur, Offset) \in Seq(Cells)
<1>1. GoodSizes /\ cur \in 1..Len(size)
  BY DEF TypeInv, SessionTypes, ControlTypes, GoodSizes
<1>2. cur \in Nat /\ segments # <<>> BY <1>1 DEF GoodSizes, TypeInv, ControlTypes
<1>3. Offset \in Nat BY <1>2, ActiveName DEF TypeInv, Offset
<1>4. RecordCells(cur) \in Seq(Cells) BY <1>1, RecordCellsType
<1>5. LineCells(cur, Offset) \in Seq(Cells) BY <1>2, <1>3, LineCellsType
<1> QED BY <1>1, <1>2, <1>3, <1>4, <1>5

\* Every name leads to a file of its own, whatever is created, written or
\* removed.
LEMMA FileStep ==
    ASSUME TypeInv, [Next]_vars
    PROVE  FileTypes'
<1>0. FileTypes /\ StoreTypes /\ content \in Seq(Seq(Cells)) /\ Directory(content, dataAt, idxAt)
  BY DEF TypeInv, FileTypes, Directory
<1>1. CASE OpenData
  <2>1. /\ dataAt' = Opened(dataAt, Active.name) /\ idxAt' = idxAt
        /\ content' = IF Active.name \in DOMAIN dataAt THEN content
                      ELSE Append(content, <<>>)
        /\ pc = "openData"
    BY <1>1 DEF OpenData
  <2>2. PICK n \in SegmentNames : n = Active.name
    BY <2>1, <1>0, ActiveName DEF TypeInv, ControlTypes, WritePoints
  <2>3. PICK da : da = dataAt' OBVIOUS
  <2>4. PICK e : e = content' OBVIOUS
  <2>5. \/ da = dataAt /\ e = content
        \/ /\ n \notin DOMAIN dataAt /\ Created(dataAt, n, Len(content) + 1, da)
           /\ e \in Seq(Seq(Cells)) /\ Len(e) = Len(content) + 1
    BY <1>0, <2>1, <2>2, <2>3, <2>4, OpenStep
  <2>6. Directory(e, da, idxAt) BY <1>0, <2>5, CreateData
  <2> QED BY <2>1, <2>3, <2>4, <2>6 DEF FileTypes
<1>2. CASE OpenIndex
  <2>1. /\ idxAt' = Opened(idxAt, Active.name) /\ dataAt' = dataAt
        /\ content' = IF Active.name \in DOMAIN idxAt THEN content
                      ELSE Append(content, <<>>)
        /\ pc = "openIndex"
    BY <1>2 DEF OpenIndex
  <2>2. PICK n \in SegmentNames : n = Active.name
    BY <2>1, <1>0, ActiveName DEF TypeInv, ControlTypes, WritePoints
  <2>3. PICK ia : ia = idxAt' OBVIOUS
  <2>4. PICK e : e = content' OBVIOUS
  <2>5. \/ ia = idxAt /\ e = content
        \/ /\ n \notin DOMAIN idxAt /\ Created(idxAt, n, Len(content) + 1, ia)
           /\ e \in Seq(Seq(Cells)) /\ Len(e) = Len(content) + 1
    BY <1>0, <2>1, <2>2, <2>3, <2>4, OpenStep
  <2>6. Directory(e, dataAt, ia) BY <1>0, <2>5, CreateIndex
  <2> QED BY <2>1, <2>3, <2>4, <2>6 DEF FileTypes
<1>3. CASE WriteData \/ WriteIndex \/ WriteFails
  <2>1. /\ UNCHANGED <<dataAt, idxAt>>
        /\ \E f, cells : cells \in Seq(Cells) /\ Extended(content, content', f, cells)
    <3>1. pc \in WritePoints
      BY <1>3 DEF WriteData, WriteIndex, WriteFails, WritePoints
    <3>2. RecordCells(cur) \in Seq(Cells) /\ LineCells(cur, Offset) \in Seq(Cells)
      BY <3>1, CurrentCells
    <3>3. CASE WriteData BY <3>2, <3>3 DEF WriteData, Written, Extended
    <3>4. CASE WriteIndex BY <3>2, <3>4 DEF WriteIndex, Written, Extended
    <3>5. CASE WriteFails
      <4>1. PICK f, cells :
                /\ cells \in Seq(Cells)
                /\ \E n \in 0..(Len(cells) - 1) : Written(f, Prefix(cells, n))
        BY <3>2, <3>5 DEF WriteFails
      <4>2. PICK n \in 0..(Len(cells) - 1) : Written(f, Prefix(cells, n)) BY <4>1
      <4>3. n \in Nat BY <4>1, <4>2
      <4>4. Prefix(cells, n) \in Seq(Cells) BY <4>1, <4>3, PrefixType
      <4>5. UNCHANGED <<dataAt, idxAt>> BY <3>5 DEF WriteFails
      <4> QED BY <4>2, <4>4, <4>5 DEF Written, Extended
    <3> QED BY <1>3, <3>3, <3>4, <3>5
  <2>2. content' \in Seq(Seq(Cells)) /\ Len(content') = Len(content)
    BY <2>1, <1>0, ExtendedType
  <2>3. Directory(content', dataAt, idxAt) BY <1>0, <2>2, WriteDirectory
  <2> QED BY <2>1, <2>3 DEF FileTypes
<1>4. CASE RemoveData \/ RemoveIndex \/ ClearFile
  <2>1. /\ content' = content
        /\ \/ idxAt' = idxAt /\ \E n : dataAt' = Unlinked(dataAt, n)
           \/ dataAt' = dataAt /\ \E n : idxAt' = Unlinked(idxAt, n)
    BY <1>4 DEF RemoveData, RemoveIndex, ClearFile
  <2>2. Directory(content, dataAt', idxAt')
    BY <1>0, <2>1, UnlinkData, UnlinkIndex
  <2> QED BY <2>1, <2>2 DEF FileTypes
<1>5. CASE Requests \/ Scan \/ ScanFails
  BY <1>5, <1>0, FileFrame DEF Requests, CallAppend, CallStats, CallSnapshot, CallClear,
     Scan, ScanFails
<1>6. CASE RemoveDataFails \/ RemoveIndexFails \/ WithinBudget
  BY <1>6, <1>0, FileFrame DEF RemoveDataFails, RemoveIndexFails, WithinBudget
<1>7. CASE Place \/ OpenFails \/ Acknowledge
  BY <1>7, <1>0, FileFrame DEF Place, OpenFails, Acknowledge
<1>8. CASE ClearFails \/ ClearDone \/ Exporting \/ Crash \/ UNCHANGED vars
  BY <1>8, <1>0, FileFrame DEF ClearFails, ClearDone, Exporting, OpenSnapshot,
     OpenSnapshotFails, ReadSnapshot, Report, Crash, vars
<1> QED BY <1>1, <1>2, <1>3, <1>4, <1>5, <1>6, <1>7, <1>8
        DEF Next, Budget, Appending, Clearing

LEMMA SessionInit == Init => SessionTypes
<1>1. << >> \in Seq(Nat \ {0, 1}) /\ Len(<< >>) = 0 OBVIOUS
<1> QED BY <1>1, SpillAssumption DEF Init, SessionTypes

LEMMA SessionFrame ==
    ASSUME SessionTypes, UNCHANGED <<size, nextRec>>, kept' \subseteq kept
    PROVE  SessionTypes'
BY DEF SessionTypes

LEMMA SessionStep ==
    ASSUME TypeInv, [Next]_vars
    PROVE  SessionTypes'
<1>0. SessionTypes BY DEF TypeInv
<1>1. CASE CallAppend
  <2>1. PICK bytes \in Sizes : size' = Append(size, bytes) BY <1>1 DEF CallAppend
  <2>2. bytes \in Nat \ {0, 1} BY SpillAssumption
  <2>3. nextRec <= MaxRecords /\ nextRec' = nextRec + 1 /\ kept' = kept
    BY <1>1 DEF CallAppend
  <2>4. size' \in Seq(Nat \ {0, 1}) /\ Len(size') = Len(size) + 1
    BY <1>0, <2>1, <2>2, AppendFacts DEF SessionTypes
  <2>5. nextRec \in Nat /\ MaxRecords \in Nat BY <1>0, SpillAssumption DEF SessionTypes
  <2> QED BY <1>0, <2>3, <2>4, <2>5 DEF SessionTypes
<1>2. CASE Acknowledge
  <2>1. kept' = kept \cup {cur} /\ UNCHANGED <<size, nextRec>> BY <1>2 DEF Acknowledge
  <2>2. cur \in 1..Len(size) BY <1>2 DEF Acknowledge, TypeInv, ControlTypes
  <2>3. Len(size) \in Nat /\ Len(size) <= MaxRecords /\ MaxRecords \in Nat
    BY <1>0, SpillAssumption DEF SessionTypes
  <2>4. cur \in Records BY <2>2, <2>3 DEF Records
  <2> QED BY <1>0, <2>1, <2>4 DEF SessionTypes
<1>3. CASE CallClear \/ RemoveData \/ RemoveDataFails
  BY <1>3, <1>0, SessionFrame DEF CallClear, RemoveData, RemoveDataFails
<1>4. CASE CallStats \/ CallSnapshot \/ Scan \/ ScanFails
  BY <1>4, <1>0, SessionFrame DEF CallStats, CallSnapshot, Scan, ScanFails, historyVars
<1>5. CASE RemoveIndex \/ RemoveIndexFails \/ WithinBudget
  BY <1>5, <1>0, SessionFrame DEF RemoveIndex, RemoveIndexFails, WithinBudget, historyVars
<1>6. CASE Place \/ OpenData \/ OpenIndex \/ OpenFails
  BY <1>6, <1>0, SessionFrame DEF Place, OpenData, OpenIndex, OpenFails, historyVars
<1>7. CASE WriteData \/ WriteIndex \/ WriteFails
  BY <1>7, <1>0, SessionFrame DEF WriteData, WriteIndex, WriteFails, historyVars
<1>8. CASE Clearing
  BY <1>8, <1>0, SessionFrame DEF Clearing, ClearFile, ClearFails, ClearDone, historyVars
<1>9. CASE Exporting
  BY <1>9, <1>0, SessionFrame DEF Exporting, OpenSnapshot, OpenSnapshotFails, ReadSnapshot,
     Report, historyVars
<1>10. CASE Crash \/ UNCHANGED vars
  BY <1>10, <1>0, SessionFrame DEF Crash, vars, historyVars
<1> QED BY <1>1, <1>2, <1>3, <1>4, <1>5, <1>6, <1>7, <1>8, <1>9, <1>10
        DEF Next, Requests, Budget, Appending

LEMMA CounterInit == Init => CounterTypes
BY DEF Init, CounterTypes, NoSnap

\* Inodes are only ever added.
LEMMA InodesGrow ==
    ASSUME TypeInv, [Next]_vars
    PROVE  Len(content') \in Nat /\ Len(content) \in Nat /\ Len(content) <= Len(content')
<1>1. content \in Seq(Seq(Cells)) /\ content' \in Seq(Seq(Cells))
  BY FileStep DEF TypeInv, FileTypes, Directory
<1>2. Len(content') \in Nat /\ Len(content) \in Nat BY <1>1
<1>3. CASE content' = content BY <1>2, <1>3
<1>4. CASE OpenData \/ OpenIndex
  <2>1. content' = content \/ content' = Append(content, <<>>)
    BY <1>4 DEF OpenData, OpenIndex
  <2> QED BY <1>1, <1>2, <2>1, CreateFacts
<1>5. CASE WriteData \/ WriteIndex \/ WriteFails
  <2>1. PICK f, cells : content' = [content EXCEPT ![f] = @ \o cells]
    BY <1>5 DEF WriteData, WriteIndex, WriteFails, Written
  <2>2. DOMAIN content' = DOMAIN content BY <2>1
  <2>3. Len(content') = Len(content) BY <1>1, <2>2
  <2> QED BY <1>2, <2>3
<1>6. CASE Requests \/ Scan \/ ScanFails \/ Budget \/ Clearing
  <2>1. content' = content
    BY <1>6 DEF Requests, CallAppend, CallStats, CallSnapshot, CallClear, Scan, ScanFails,
       Budget, RemoveData, RemoveDataFails, RemoveIndex, RemoveIndexFails, WithinBudget,
       Clearing, ClearFile, ClearFails, ClearDone, diskVars
  <2> QED BY <2>1, <1>3
<1>7. CASE Place \/ OpenFails \/ Acknowledge \/ Exporting \/ Crash \/ UNCHANGED vars
  <2>1. content' = content
    BY <1>7 DEF Place, OpenFails, Acknowledge, Exporting, OpenSnapshot, OpenSnapshotFails,
       ReadSnapshot, Report, Crash, vars, diskVars
  <2> QED BY <2>1, <1>3
<1> QED BY <1>4, <1>5, <1>6, <1>7 DEF Next, Appending

LEMMA HandleTypesKept ==
    ASSUME NEW c, NEW e, NEW handles, HandleTypes(c, handles),
           Len(c) \in Nat, Len(e) \in Nat, Len(c) <= Len(e)
    PROVE  HandleTypes(e, handles)
<1>1. \A i \in 0..Len(c) : i \in 0..Len(e) OBVIOUS
<1> QED BY <1>1 DEF HandleTypes

LEMMA CounterFrame ==
    ASSUME TypeInv, [Next]_vars, UNCHANGED <<snap, corrupt, generation>>,
           spilled' \in Nat, errors' \in Nat, crashes' \in Nat, faults' \in Nat
    PROVE  CounterTypes'
<1>1. CounterTypes BY DEF TypeInv
<1>2. snap'.state = "reading" => HandleTypes(content', snap'.handles)
  BY <1>1, InodesGrow, HandleTypesKept DEF CounterTypes
<1> QED BY <1>1, <1>2 DEF CounterTypes

LEMMA FaultTypes ==
    ASSUME TypeInv, Fault, Fails
    PROVE  /\ spilled' \in Nat /\ errors' \in Nat /\ crashes' \in Nat /\ faults' \in Nat
           /\ faults' # 0 /\ UNCHANGED <<corrupt, generation>>
BY DEF TypeInv, CounterTypes, Fault, Fails

\* The counters, and what an export is about to count.
LEMMA CounterStep ==
    ASSUME TypeInv, [Next]_vars
    PROVE  CounterTypes'
<1>0. CounterTypes BY DEF TypeInv
<1>1. CASE OpenSnapshot
  <2>1. /\ snap'.state = "reading" /\ snap'.handles = Handles
        /\ UNCHANGED <<spilled, errors, corrupt, generation, crashes, faults, content>>
    BY <1>1 DEF OpenSnapshot, counterVars, diskVars, boundVars
  <2>2. segments \in Seq(Segment) BY DEF TypeInv, StoreTypes
  <2>3. DOMAIN Handles = 1..Len(segments) /\ Len(segments) \in Nat BY <2>2 DEF Handles
  <2>4. IsFiniteSet(1..Len(segments))
    <3>1. 1 \in Int /\ Len(segments) \in Int BY <2>3
    <3> QED BY <3>1, FS_Interval
  <2>5. Len(content) \in Nat BY DEF TypeInv, FileTypes, Directory
  <2>6. ASSUME NEW i \in DOMAIN Handles
        PROVE  Handles[i].idx \in 0..Len(content) /\ Handles[i].ilen \in Nat
    <3>1. i \in DOMAIN segments /\ segments[i] \in Segment BY <2>2, <2>3
    <3>2. segments[i].ibytes \in Nat BY <3>1 DEF Segment
    <3>3. PICK n : n = segments[i].name OBVIOUS
    <3>4. Handles[i].ilen = segments[i].ibytes
      BY <3>1 DEF Handles
    <3>5. Handles[i].idx = IF n \in DOMAIN idxAt THEN idxAt[n] ELSE 0
      BY <3>1, <3>3 DEF Handles
    <3>6. n \in DOMAIN idxAt => idxAt[n] \in 1..Len(content)
      BY DEF TypeInv, FileTypes, Directory
    <3>7. Handles[i].idx \in 0..Len(content) BY <3>5, <3>6, <2>5
    <3> QED BY <3>2, <3>4, <3>7
  <2>7. HandleTypes(content, Handles) BY <2>3, <2>4, <2>6 DEF HandleTypes
  <2> QED BY <1>0, <2>1, <2>7 DEF CounterTypes
<1>2. CASE ReadSnapshot
  <2> DEFINE result == Read(snap.handles)
  <2>1. /\ snap' = IF result.ok
                     THEN [snap EXCEPT !.state = "report", !.bad = result.bad]
                     ELSE NoSnap
        /\ snap.state = "reading"
        /\ UNCHANGED <<spilled, errors, corrupt, generation, crashes, faults>>
    BY <1>2 DEF ReadSnapshot, counterVars, boundVars
  <2>2. result.bad \in Nat
    BY <1>0, <2>1, BadCount DEF CounterTypes, TypeInv, FileTypes, Directory
  <2> HIDE DEF result
  <2>3. CASE ~result.ok
    BY <1>0, <2>1, <2>3 DEF CounterTypes, NoSnap
  <2>4. CASE result.ok
    <3>1. PICK b \in Nat : b = result.bad BY <2>2
    <3>2. snap' = [snap EXCEPT !.state = "report", !.bad = b] BY <2>1, <2>4, <3>1
    <3>3. snap'.state \in {"none", "report"}
      BY <3>2, <1>0, <2>1 DEF CounterTypes
    <3>4. snap'.state = "report" => snap'.bad \in Nat
      BY <3>2, <1>0, <2>1 DEF CounterTypes
    <3> QED BY <1>0, <2>1, <3>3, <3>4 DEF CounterTypes
  <2> QED BY <2>3, <2>4
<1>3. CASE Report
  <2>1. snap.bad \in Nat BY <1>3, <1>0 DEF Report, CounterTypes
  <2>2. snap' = NoSnap /\ corrupt' \in Nat
    BY <1>3, <1>0, <2>1 DEF Report, CounterTypes
  <2>3. UNCHANGED <<spilled, errors, generation, crashes, faults>>
    BY <1>3 DEF Report, boundVars
  <2> QED BY <1>0, <2>2, <2>3 DEF CounterTypes, NoSnap
<1>4. CASE CallClear
  <2>1. /\ spilled' = 0 /\ errors' = 0 /\ corrupt' = 0 /\ generation' \in Nat
        /\ UNCHANGED <<snap, crashes, faults, content>>
    BY <1>4, <1>0 DEF CallClear, CounterTypes, diskVars
  <2> QED BY <1>0, <2>1 DEF CounterTypes
<1>5. CASE Crash
  BY <1>5, <1>0 DEF Crash, CounterTypes, NoSnap
<1>6. CASE ScanFails \/ RemoveDataFails \/ RemoveIndexFails
  BY <1>6, FaultTypes, CounterFrame DEF ScanFails, RemoveDataFails, RemoveIndexFails
<1>7. CASE OpenFails \/ WriteFails \/ ClearFails
  BY <1>7, FaultTypes, CounterFrame DEF OpenFails, WriteFails, ClearFails
<1>8. CASE OpenSnapshotFails \/ Acknowledge
  <2>1. /\ spilled' \in Nat /\ errors' \in Nat
        /\ UNCHANGED <<snap, corrupt, generation, crashes, faults>>
    BY <1>8, <1>0 DEF OpenSnapshotFails, Acknowledge, Fails, CounterTypes, boundVars
  <2> QED BY <1>0, <2>1, CounterFrame DEF CounterTypes
<1>9. CASE CallAppend \/ CallStats \/ CallSnapshot \/ Scan \/ RemoveData \/ RemoveIndex
           \/ WithinBudget
  <2>1. UNCHANGED <<snap, spilled, errors, corrupt, generation, crashes, faults>>
    BY <1>9 DEF CallAppend, CallStats, CallSnapshot, Scan, RemoveData, RemoveIndex,
       WithinBudget, counterVars, boundVars
  <2> QED BY <1>0, <2>1, CounterFrame DEF CounterTypes
<1>10. CASE Place \/ OpenData \/ OpenIndex \/ WriteData \/ WriteIndex \/ ClearFile
            \/ ClearDone \/ UNCHANGED vars
  <2>1. UNCHANGED <<snap, spilled, errors, corrupt, generation, crashes, faults>>
    BY <1>10 DEF Place, OpenData, OpenIndex, WriteData, WriteIndex, ClearFile, ClearDone,
       vars, counterVars, boundVars
  <2> QED BY <1>0, <2>1, CounterFrame DEF CounterTypes
<1> QED BY <1>1, <1>2, <1>3, <1>4, <1>5, <1>6, <1>7, <1>8, <1>9, <1>10
        DEF Next, Requests, Budget, Appending, Clearing, Exporting

LEMMA ControlInit == Init => ControlTypes
BY DEF Init, ControlTypes, WritePoints, EvictPoints

LEMMA ControlFrame ==
    ASSUME ControlTypes, UNCHANGED <<pc, op, then, cur, segments, initialized, size>>
    PROVE  ControlTypes'
BY DEF ControlTypes

\* A request that ends with an error.
LEMMA ControlFails ==
    ASSUME TypeInv, Fails, size' = size
    PROVE  ControlTypes'
BY DEF TypeInv, ControlTypes, Fails, WritePoints, EvictPoints

LEMMA ControlStep ==
    ASSUME TypeInv, [Next]_vars
    PROVE  ControlTypes'
<1>0. ControlTypes BY DEF TypeInv
<1>1. CASE CallAppend
  <2>1. PICK bytes \in Sizes : size' = Append(size, bytes) BY <1>1 DEF CallAppend
  <2>2. Len(size') = Len(size) + 1 /\ Len(size) \in Nat /\ nextRec = Len(size) + 1
    <3>1. bytes \in Nat \ {0, 1} /\ size \in Seq(Nat \ {0, 1})
      BY SpillAssumption DEF TypeInv, SessionTypes
    <3> QED BY <3>1, <2>1, AppendFacts DEF TypeInv, SessionTypes
  <2>3. cur' \in 1..Len(size') BY <1>1, <2>2 DEF CallAppend
  <2>4. /\ op' = "append" /\ pc = "idle" /\ UNCHANGED <<then, segments, initialized>>
        /\ \/ initialized = TRUE /\ pc' = "place"
           \/ initialized = FALSE /\ pc' = "scan"
    BY <1>1 DEF CallAppend, Request, Continue, spillVars, TypeInv, StoreTypes
  <2> QED BY <1>0, <2>3, <2>4 DEF ControlTypes, WritePoints, EvictPoints
<1>2. CASE CallStats \/ CallSnapshot
  <2>1. /\ op' \in {"stats", "snapshot"} /\ pc = "idle"
        /\ UNCHANGED <<then, cur, segments, initialized, size>>
        /\ \/ initialized = TRUE /\ pc' \in {"idle", "open"}
           \/ initialized = FALSE /\ pc' = "scan"
    BY <1>2 DEF CallStats, CallSnapshot, Request, Continue, spillVars, historyVars,
       TypeInv, StoreTypes
  <2> QED BY <1>0, <2>1 DEF ControlTypes, WritePoints, EvictPoints
<1>3. CASE CallClear
  BY <1>0, <1>3 DEF CallClear, ControlTypes, WritePoints, EvictPoints
<1>4. CASE Scan
  <2>1. op \in {"append", "stats", "snapshot"} BY <1>0, <1>4 DEF Scan, ControlTypes
  <2>2. /\ pc' = "evict" /\ then' = Continue(op) /\ initialized' = TRUE
        /\ UNCHANGED <<op, cur, size>>
    BY <1>4 DEF Scan, historyVars
  <2>3. /\ then' \in {"idle", "place", "open", "ack"}
        /\ then' \in {"place", "ack"} => op = "append"
    BY <2>1, <2>2 DEF Continue
  <2> QED BY <1>0, <2>2, <2>3 DEF ControlTypes, WritePoints, EvictPoints
<1>5. CASE RemoveData \/ RemoveIndex
  BY <1>0, <1>5 DEF RemoveData, RemoveIndex, ControlTypes, WritePoints, EvictPoints, historyVars
<1>6. CASE WithinBudget
  BY <1>0, <1>6 DEF WithinBudget, ControlTypes, WritePoints, EvictPoints, spillVars,
     historyVars
<1>7. CASE Place
  <2>1. segments' # <<>>
    <3>1. CASE NeedsSegment
      <4>1. segments \in Seq(Segment) BY DEF TypeInv, StoreTypes
      <4>2. PICK seg : segments' = Append(segments, seg) BY <3>1, <1>7 DEF Place
      <4> QED BY <4>1, <4>2
    <3>2. CASE ~NeedsSegment
      BY <3>2, <1>7 DEF Place, NeedsSegment
    <3> QED BY <3>1, <3>2
  <2> QED BY <1>0, <1>7, <2>1 DEF Place, ControlTypes, WritePoints, EvictPoints, historyVars
<1>8. CASE OpenData \/ OpenIndex \/ WriteData
  BY <1>0, <1>8 DEF OpenData, OpenIndex, WriteData, ControlTypes, WritePoints, EvictPoints,
     spillVars, historyVars
<1>9. CASE WriteIndex
  BY <1>0, <1>9 DEF WriteIndex, ControlTypes, WritePoints, EvictPoints, historyVars
<1>10. CASE Acknowledge
  BY <1>0, <1>10 DEF Acknowledge, ControlTypes, WritePoints, EvictPoints, spillVars
<1>11. CASE ClearDone
  BY <1>0, <1>11 DEF ClearDone, ControlTypes, WritePoints, EvictPoints, historyVars
<1>12. CASE OpenSnapshot
  BY <1>0, <1>12 DEF OpenSnapshot, ControlTypes, WritePoints, EvictPoints, spillVars,
     historyVars
<1>13. CASE Crash
  BY <1>0, <1>13 DEF Crash, ControlTypes, WritePoints, EvictPoints
<1>14. CASE ClearFile \/ ReadSnapshot \/ Report \/ UNCHANGED vars
  BY <1>0, <1>14, ControlFrame DEF ClearFile, ReadSnapshot, Report, vars, spillVars,
     controlVars, historyVars
<1>15. CASE ScanFails \/ RemoveDataFails \/ RemoveIndexFails \/ OpenFails \/ WriteFails
            \/ ClearFails \/ OpenSnapshotFails
  BY <1>15, ControlFails DEF ScanFails, RemoveDataFails, RemoveIndexFails, OpenFails,
     WriteFails, ClearFails, OpenSnapshotFails, historyVars
<1> QED BY <1>1, <1>2, <1>3, <1>4, <1>5, <1>6, <1>7, <1>8, <1>9, <1>10, <1>11, <1>12,
           <1>13, <1>14, <1>15
        DEF Next, Requests, Budget, Appending, Clearing, Exporting

LEMMA TypeInit == Init => TypeInv
BY StoreInit, FileInit, SessionInit, CounterInit, ControlInit DEF TypeInv

LEMMA TypeStep == TypeInv /\ [Next]_vars => TypeInv'
BY StoreStep, FileStep, SessionStep, CounterStep, ControlStep DEF TypeInv

LEMMA TypesOK == TypeInv => TypeOK
<1> SUFFICES ASSUME TypeInv PROVE TypeOK OBVIOUS
<1>1. segments \in Seq(Segment) /\ nextSegment \in Nat BY DEF TypeInv, StoreTypes
<1>2. ASSUME NEW i \in DOMAIN segments
      PROVE  /\ segments[i].name \in (1..(nextSegment - 1)) \X Compressions
             /\ segments[i].bytes \in Nat /\ segments[i].ibytes \in Nat
             /\ \A j \in 1..(i - 1) : segments[j].name[1] < segments[i].name[1]
  <2>1. i \in 1..Len(segments) /\ Len(segments) \in Nat /\ segments[i] \in Segment BY <1>1
  <2>2. /\ segments[i].name \in SegmentNames /\ segments[i].bytes \in Nat
        /\ segments[i].ibytes \in Nat
    BY <2>1 DEF Segment
  <2>3. segments[i].name[1] < nextSegment BY <2>1 DEF TypeInv, StoreTypes, Below
  <2>4. segments[i].name \in (1..(nextSegment - 1)) \X Compressions
    BY <2>2, <2>3, <1>1 DEF SegmentNames
  <2>5. \A j \in 1..(i - 1) : j \in 1..Len(segments) /\ j < i BY <2>1
  <2>6. \A j \in 1..(i - 1) : segments[j].name[1] < segments[i].name[1]
    BY <2>1, <2>5 DEF TypeInv, StoreTypes, Ascending
  <2> QED BY <2>2, <2>4, <2>6
<1>3. comp \in Compressions /\ initialized \in BOOLEAN /\ nextSegment \in Nat \ {0}
      /\ bytesOnDisk \in Nat
  BY DEF TypeInv, StoreTypes
<1>4. {spilled, errors, corrupt, generation} \subseteq Nat
      /\ snap.state \in {"none", "reading", "report"}
  BY DEF TypeInv, CounterTypes
<1>5. /\ pc \in {"idle", "scan", "evict", "evictIndex", "place", "openData",
            "writeData", "openIndex", "writeIndex", "ack", "clear", "open"}
      /\ op \in {"append", "stats", "snapshot", "clear"}
      /\ then \in {"idle", "place", "open", "ack"}
  BY DEF TypeInv, ControlTypes, WritePoints, EvictPoints
<1>6. DOMAIN content = 1..Len(content) BY DEF TypeInv, FileTypes, Directory
<1>7. /\ \A n \in DOMAIN dataAt : dataAt[n] \in DOMAIN content
      /\ \A n \in DOMAIN idxAt : idxAt[n] \in DOMAIN content
  BY <1>6 DEF TypeInv, FileTypes, Directory
<1>8. kept \subseteq Records BY DEF TypeInv, SessionTypes
<1> QED BY <1>2, <1>3, <1>4, <1>5, <1>7, <1>8 DEF TypeOK

\* Whatever fails or crashes, every variable keeps its type; the segments are
\* listed in ascending order of their numbers, and distinct file names lead to
\* distinct inodes that exist (TraceSpillState).
THEOREM SpillTypes == Spec => []TypeOK
BY TypesOK, TypeInit, TypeStep, PTL DEF Spec

-----------------------------------------------------------------------------
(***************************************************************************)
(* Files only grow, so a reader's handles stay sound.                      *)
(***************************************************************************)
Grows(c, e) ==
    /\ Len(c) <= Len(e)
    /\ \A f \in 1..Len(c) : Len(c[f]) <= Len(e[f]) /\ Agree(c[f], e[f], Len(c[f]))

LEMMA GrowsSame == ASSUME NEW c \in Seq(Seq(Cells)) PROVE Grows(c, c)
BY DEF Grows, Agree

LEMMA GrowsCreated ==
    ASSUME NEW c \in Seq(Seq(Cells)), NEW e \in Seq(Seq(Cells)), Len(e) = Len(c) + 1,
           \A f \in 1..Len(c) : e[f] = c[f]
    PROVE  Grows(c, e)
<1>1. Len(c) <= Len(e) OBVIOUS
<1>2. ASSUME NEW f \in 1..Len(c)
      PROVE  Len(c[f]) <= Len(e[f]) /\ Agree(c[f], e[f], Len(c[f]))
  <2>1. e[f] = c[f] /\ Len(c[f]) \in Nat OBVIOUS
  <2> QED BY <2>1 DEF Agree
<1> QED BY <1>1, <1>2 DEF Grows

LEMMA GrowsExtended ==
    ASSUME NEW c \in Seq(Seq(Cells)), NEW e, NEW f, NEW cells \in Seq(Cells),
           Extended(c, e, f, cells)
    PROVE  Grows(c, e)
<1>1. /\ Len(e) = Len(c) /\ Len(c) \in Nat /\ \A g \in 1..Len(c) : g # f => e[g] = c[g]
      /\ f \in 1..Len(c) => e[f] = c[f] \o cells
  BY ExtendedType
<1>2. ASSUME NEW g \in 1..Len(c)
      PROVE  Len(c[g]) <= Len(e[g]) /\ Agree(c[g], e[g], Len(c[g]))
  <2>1. PICK d \in Seq(Cells) : d = c[g] OBVIOUS
  <2>2. CASE g = f
    <3>1. e[g] = d \o cells BY <1>1, <2>1, <2>2
    <3>2. Len(d \o cells) = Len(d) + Len(cells) /\ Agree(d, d \o cells, Len(d))
      BY ConcatFacts
    <3>3. Len(d) \in Nat /\ Len(cells) \in Nat OBVIOUS
    <3> QED BY <2>1, <3>1, <3>2, <3>3
  <2>3. CASE g # f
    <3>1. e[g] = d /\ Len(d) \in Nat BY <1>1, <2>1, <2>3
    <3> QED BY <2>1, <3>1 DEF Agree
  <2> QED BY <2>2, <2>3
<1> QED BY <1>1, <1>2 DEF Grows

\* No step takes back a byte.
LEMMA ContentGrows ==
    ASSUME TypeInv, [Next]_vars
    PROVE  Grows(content, content')
<1>1. content \in Seq(Seq(Cells)) /\ FileTypes
  BY DEF TypeInv, FileTypes, Directory
<1>2. CASE content' = content BY <1>1, <1>2, GrowsSame
<1>3. CASE OpenData \/ OpenIndex
  <2>1. content' = content \/ content' = Append(content, <<>>)
    BY <1>3 DEF OpenData, OpenIndex
  <2>2. CASE content' = Append(content, <<>>)
    <3>1. content' \in Seq(Seq(Cells)) BY <1>1, <2>2, CreateType
    <3>2. Len(content') = Len(content) + 1 /\ \A f \in 1..Len(content) : content'[f] = content[f]
      BY <1>1, <2>2, <3>1, CreateFacts
    <3> QED BY <1>1, <3>1, <3>2, GrowsCreated
  <2> QED BY <1>2, <2>1, <2>2
<1>4. CASE WriteData \/ WriteIndex \/ WriteFails
  <2>1. pc \in WritePoints
    BY <1>4 DEF WriteData, WriteIndex, WriteFails, WritePoints
  <2>2. RecordCells(cur) \in Seq(Cells) /\ LineCells(cur, Offset) \in Seq(Cells)
    BY <2>1, CurrentCells
  <2>3. PICK f, cells : cells \in Seq(Cells) /\ Extended(content, content', f, cells)
    <3>1. CASE WriteData BY <2>2, <3>1 DEF WriteData, Written, Extended
    <3>2. CASE WriteIndex BY <2>2, <3>2 DEF WriteIndex, Written, Extended
    <3>3. CASE WriteFails
      <4>1. PICK f, cells :
                /\ cells \in Seq(Cells)
                /\ \E n \in 0..(Len(cells) - 1) : Written(f, Prefix(cells, n))
        BY <2>2, <3>3 DEF WriteFails
      <4>2. PICK n \in 0..(Len(cells) - 1) : Written(f, Prefix(cells, n)) BY <4>1
      <4>3. n \in Nat BY <4>1, <4>2
      <4>4. Prefix(cells, n) \in Seq(Cells) BY <4>1, <4>3, PrefixType
      <4> QED BY <4>2, <4>4 DEF Written, Extended
    <3> QED BY <1>4, <3>1, <3>2, <3>3
  <2> QED BY <1>1, <2>3, GrowsExtended
<1>5. CASE Requests \/ Scan \/ ScanFails \/ Budget \/ Clearing
  <2>1. content' = content
    BY <1>5 DEF Requests, CallAppend, CallStats, CallSnapshot, CallClear, Scan, ScanFails,
       Budget, RemoveData, RemoveDataFails, RemoveIndex, RemoveIndexFails, WithinBudget,
       Clearing, ClearFile, ClearFails, ClearDone, diskVars
  <2> QED BY <2>1, <1>2
<1>6. CASE Place \/ OpenFails \/ Acknowledge \/ Exporting \/ Crash \/ UNCHANGED vars
  <2>1. content' = content
    BY <1>6 DEF Place, OpenFails, Acknowledge, Exporting, OpenSnapshot, OpenSnapshotFails,
       ReadSnapshot, Report, Crash, vars, diskVars
  <2> QED BY <2>1, <1>2
<1> QED BY <1>3, <1>4, <1>5, <1>6 DEF Next, Appending

\* A session keeps its size.
LEMMA SizesGrow ==
    ASSUME TypeInv, [Next]_vars
    PROVE  /\ SizesAgree(size, size', Len(size))
           /\ Len(size) \in Nat /\ Len(size') \in Nat /\ Len(size) <= Len(size')
<1>1. size \in Seq(Nat \ {0, 1}) BY DEF TypeInv, SessionTypes
<1>2. CASE size' = size BY <1>1, <1>2 DEF SizesAgree
<1>3. CASE CallAppend
  <2>1. PICK bytes \in Nat \ {0, 1} : size' = Append(size, bytes)
    BY <1>3, SpillAssumption DEF CallAppend
  <2>2. /\ Len(size') = Len(size) + 1 /\ \A r \in 1..Len(size) : size'[r] = size[r]
    BY <1>1, <2>1, AppendFacts
  <2> QED BY <1>1, <2>2 DEF SizesAgree
<1>4. CASE CallStats \/ CallSnapshot \/ CallClear \/ Scan \/ ScanFails \/ Budget \/ Clearing
  BY <1>2, <1>4 DEF CallStats, CallSnapshot, CallClear, Scan, ScanFails,
     Budget, RemoveData, RemoveDataFails, RemoveIndex, RemoveIndexFails, WithinBudget,
     Clearing, ClearFile, ClearFails, ClearDone, historyVars
<1>5. CASE Appending
  BY <1>2, <1>5 DEF Appending, Place, OpenData, OpenIndex, OpenFails, WriteData, WriteIndex,
     WriteFails, Acknowledge, historyVars
<1>6. CASE Exporting \/ Crash \/ UNCHANGED vars
  BY <1>2, <1>6 DEF Exporting, OpenSnapshot, OpenSnapshotFails, ReadSnapshot, Report,
     Crash, vars, historyVars
<1> QED BY <1>3, <1>4, <1>5, <1>6 DEF Next, Requests

LEMMA HandleKept ==
    ASSUME NEW sz, NEW sz2, NEW c \in Seq(Seq(Cells)), NEW e \in Seq(Seq(Cells)), NEW h,
           NEW lim \in Nat, Grows(c, e), SizesAgree(sz, sz2, lim), HandleSound(sz, c, h, lim)
    PROVE  /\ HandleSound(sz2, e, h, lim)
           /\ \A r : HandleHolds(c, h, r) => HandleHolds(e, h, r)
<1>1. Len(c) \in Nat /\ Len(e) \in Nat /\ Len(c) <= Len(e) BY DEF Grows
<1>2. PICK f \in 1..Len(c) : f = h.data BY DEF HandleSound
<1>3. PICK n \in 0..Len(c[f]) : n = h.len BY <1>2 DEF HandleSound
<1>4. /\ f \in 1..Len(e) /\ Len(c[f]) \in Nat /\ Len(e[f]) \in Nat
      /\ Len(c[f]) <= Len(e[f]) /\ Agree(c[f], e[f], Len(c[f]))
  BY <1>1 DEF Grows
<1>5. n \in Nat /\ n \in 0..Len(e[f]) /\ Agree(c[f], e[f], n)
  <2>1. n \in Nat /\ n \in 0..Len(e[f]) BY <1>4
  <2>2. \A j \in 1..n : j \in 1..Len(c[f]) BY <1>4
  <2> QED BY <2>1, <2>2, <1>4 DEF Agree
<1>6. GoodData(sz, c[f], n, lim) BY <1>2, <1>3 DEF HandleSound
<1>7. lim <= lim OBVIOUS
<1>8. GoodData(sz2, e[f], n, lim) BY <1>5, <1>6, <1>7, GoodDataMono
<1>9. CASE h.idx = 0
  BY <1>2, <1>3, <1>4, <1>5, <1>8, <1>9 DEF HandleSound, HandleHolds
<1>10. CASE h.idx # 0
  <2>1. PICK g \in 1..Len(c) : g = h.idx BY <1>10 DEF HandleSound
  <2>2. PICK m \in 0..Len(c[g]) : m = h.ilen BY <1>10, <2>1 DEF HandleSound
  <2>3. /\ g \in 1..Len(e) /\ Len(c[g]) \in Nat /\ Len(e[g]) \in Nat
        /\ Len(c[g]) <= Len(e[g]) /\ Agree(c[g], e[g], Len(c[g]))
    BY <1>1 DEF Grows
  <2>4. m \in Nat /\ m \in 0..Len(e[g]) /\ Agree(c[g], e[g], m)
    <3>1. m \in Nat /\ m \in 0..Len(e[g]) BY <2>3
    <3>2. \A j \in 1..m : j \in 1..Len(c[g]) BY <2>3
    <3> QED BY <3>1, <3>2, <2>3 DEF Agree
  <2>5. GoodIndex(sz, c[g], m, c[f], n, lim) BY <1>2, <1>3, <1>10, <2>1, <2>2 DEF HandleSound
  <2>6. n <= n BY <1>5
  <2>7. GoodIndex(sz2, e[g], m, e[f], n, lim)
    BY <1>5, <1>7, <2>4, <2>5, <2>6, GoodIndexMono
  <2>8. HandleSound(sz2, e, h, lim)
    BY <1>2, <1>3, <1>4, <1>5, <1>8, <2>1, <2>2, <2>3, <2>4, <2>7 DEF HandleSound
  <2>9. \A r : HandleHolds(c, h, r) => HandleHolds(e, h, r)
    BY <2>1, <2>2, <2>4 DEF HandleHolds, Indexed, Agree
  <2> QED BY <2>8, <2>9
<1> QED BY <1>9, <1>10

LEMMA HandlesKept ==
    ASSUME NEW sz, NEW sz2, NEW c \in Seq(Seq(Cells)), NEW e \in Seq(Seq(Cells)),
           NEW handles, NEW want, NEW lim \in Nat, Grows(c, e), SizesAgree(sz, sz2, lim),
           HandlesSound(sz, c, handles, want, lim)
    PROVE  HandlesSound(sz2, e, handles, want, lim)
<1>1. \A i \in DOMAIN handles : HandleSound(sz, c, handles[i], lim) BY DEF HandlesSound
<1>2. \A i \in DOMAIN handles :
          /\ HandleSound(sz2, e, handles[i], lim)
          /\ \A r : HandleHolds(c, handles[i], r) => HandleHolds(e, handles[i], r)
  BY <1>1, HandleKept
<1> QED BY <1>2 DEF HandlesSound

-----------------------------------------------------------------------------
(***************************************************************************)
(* The bytes of the directory, counted.                                    *)
(***************************************************************************)
SizeOf(c, at, n) == IF n \in DOMAIN at THEN Len(c[at[n]]) ELSE 0
Weights(c, da, ia) == [n \in DOMAIN da |-> SizeOf(c, da, n) + SizeOf(c, ia, n)]
Bytes(w) == UNION {{n} \X (1..w[n]) : n \in DOMAIN w}

LEMMA SizeIs == \A at, n : FileSize(at, n) = SizeOf(content, at, n)
BY DEF FileSize, SizeOf

LEMMA BytesAre == ListedBytes = Bytes(Weights(content, dataAt, idxAt))
<1>1. DOMAIN Weights(content, dataAt, idxAt) = DOMAIN dataAt BY DEF Weights
<1>2. \A n \in DOMAIN dataAt : Weights(content, dataAt, idxAt)[n] =
          FileSize(dataAt, n) + FileSize(idxAt, n)
  BY SizeIs DEF Weights
<1> QED BY <1>1, <1>2 DEF ListedBytes, BytesOf, Bytes

LEMMA BytesMember ==
    ASSUME NEW w, NEW p
    PROVE  p \in Bytes(w) <=> \E n \in DOMAIN w : \E k \in 1..w[n] : p = <<n, k>>
BY DEF Bytes

\* Name n, of weight b, gets a more.
Heavier(w, v, n, b, a) ==
    /\ DOMAIN v = DOMAIN w \cup {n} /\ v[n] = b + a
    /\ \A m \in DOMAIN w : m # n => v[m] = w[m]
    /\ IF n \in DOMAIN w THEN w[n] = b ELSE b = 0

LEMMA HeavierBytes ==
    ASSUME NEW w, NEW v, NEW n, NEW b \in Nat, NEW a \in Nat, Heavier(w, v, n, b, a),
           IsFiniteSet(Bytes(w))
    PROVE  Cardinality(Bytes(v)) = Cardinality(Bytes(w)) + a
<1> DEFINE new == {n} \X ((b + 1)..(b + a))
<1>1. \A p \in Bytes(v) : p \in Bytes(w) \cup new
  <2> SUFFICES ASSUME NEW p \in Bytes(v), p \notin Bytes(w) PROVE p \in new OBVIOUS
  <2>1. PICK m \in DOMAIN v : \E k \in 1..v[m] : p = <<m, k>> BY BytesMember
  <2>2. PICK k \in 1..v[m] : p = <<m, k>> BY <2>1
  <2>3. m = n
    <3>1. ASSUME m # n PROVE FALSE
      <4>1. m \in DOMAIN w /\ v[m] = w[m] BY <3>1 DEF Heavier
      <4> QED BY <4>1, <2>2, BytesMember
    <3> QED BY <3>1
  <2>4. k \in 1..(b + a) BY <2>2, <2>3 DEF Heavier
  <2>5. ~(k \in 1..b)
    <3>1. ASSUME k \in 1..b PROVE FALSE
      <4>1. n \in DOMAIN w /\ w[n] = b BY <3>1 DEF Heavier
      <4> QED BY <4>1, <3>1, <2>2, <2>3, BytesMember
    <3> QED BY <3>1
  <2>6. k \in (b + 1)..(b + a) BY <2>4, <2>5
  <2> QED BY <2>2, <2>3, <2>6
<1>2. \A p \in Bytes(w) : p \in Bytes(v)
  <2> SUFFICES ASSUME NEW p \in Bytes(w) PROVE p \in Bytes(v) OBVIOUS
  <2>1. PICK m \in DOMAIN w : \E k \in 1..w[m] : p = <<m, k>> BY BytesMember
  <2>2. PICK k \in 1..w[m] : p = <<m, k>> BY <2>1
  <2>3. m \in DOMAIN v BY DEF Heavier
  <2>4. CASE m = n
    <3>1. k \in 1..v[m] BY <2>2, <2>4 DEF Heavier
    <3> QED BY <3>1, <2>2, <2>3, BytesMember
  <2>5. CASE m # n
    <3>1. k \in 1..v[m] BY <2>2, <2>5 DEF Heavier
    <3> QED BY <3>1, <2>2, <2>3, BytesMember
  <2> QED BY <2>4, <2>5
<1>3. \A p \in new : p \in Bytes(v) /\ p \notin Bytes(w)
  <2> SUFFICES ASSUME NEW k \in (b + 1)..(b + a)
               PROVE  <<n, k>> \in Bytes(v) /\ <<n, k>> \notin Bytes(w)
      OBVIOUS
  <2>1. n \in DOMAIN v /\ k \in 1..v[n] BY DEF Heavier
  <2>2. <<n, k>> \in Bytes(v) BY <2>1, BytesMember
  <2>3. ASSUME <<n, k>> \in Bytes(w) PROVE FALSE
    <3>1. PICK m \in DOMAIN w : \E j \in 1..w[m] : <<n, k>> = <<m, j>> BY <2>3, BytesMember
    <3>2. n \in DOMAIN w /\ k \in 1..w[n] BY <3>1
    <3>3. w[n] = b BY <3>2 DEF Heavier
    <3> QED BY <3>2, <3>3
  <2> QED BY <2>2, <2>3
<1>4. Bytes(v) = Bytes(w) \cup new BY <1>1, <1>2, <1>3
<1>5. Bytes(w) \cap new = {} BY <1>3
<1>6. IsFiniteSet(new) /\ Cardinality(new) = a
  <2>1. b + 1 \in Int /\ b + a \in Int OBVIOUS
  <2>2. /\ IsFiniteSet((b + 1)..(b + a))
        /\ Cardinality((b + 1)..(b + a)) =
             IF b + 1 > b + a THEN 0 ELSE (b + a) - (b + 1) + 1
    BY <2>1, FS_Interval
  <2>3. Cardinality((b + 1)..(b + a)) = a BY <2>2
  <2>4. IsFiniteSet({n}) /\ Cardinality({n}) = 1 BY FS_Singleton
  <2>5. /\ IsFiniteSet({n} \X ((b + 1)..(b + a)))
        /\ Cardinality({n} \X ((b + 1)..(b + a))) = 1 * a
    BY <2>2, <2>3, <2>4, FS_Product
  <2> QED BY <2>5
<1> HIDE DEF new
<1>7. Cardinality(Bytes(w) \cup new) =
        Cardinality(Bytes(w)) + Cardinality(new) - Cardinality(Bytes(w) \cap new)
  BY <1>6, FS_Union
<1>8. Cardinality(Bytes(w) \cap new) = 0 BY <1>5, FS_EmptySet
<1>9. Cardinality(Bytes(w)) \in Nat BY FS_CardinalityType
<1> QED BY <1>4, <1>6, <1>7, <1>8, <1>9

\* The files of a map keep their content.
SameFiles(c, e, at) == \A m \in DOMAIN at : e[at[m]] = c[at[m]]

\* Creating a file changes no size.
LEMMA CreatedSize ==
    ASSUME NEW c, NEW e, NEW at, NEW n, NEW f, NEW at2, n \notin DOMAIN at,
           Created(at, n, f, at2), Len(e[f]) = 0,
           SameFiles(c, e, at)
    PROVE  \A m : SizeOf(e, at2, m) = SizeOf(c, at, m)
<1> SUFFICES ASSUME NEW m PROVE SizeOf(e, at2, m) = SizeOf(c, at, m) OBVIOUS
<1>1. CASE m \in DOMAIN at
  <2>1. m \in DOMAIN at2 /\ at2[m] = at[m] /\ e[at2[m]] = c[at[m]]
    BY <1>1 DEF Created, SameFiles
  <2> QED BY <1>1, <2>1 DEF SizeOf
<1>2. CASE m = n
  <2>1. m \in DOMAIN at2 /\ at2[m] = f BY <1>2 DEF Created
  <2> QED BY <1>2, <2>1 DEF SizeOf
<1>3. CASE m \notin DOMAIN at /\ m # n
  <2>1. m \notin DOMAIN at2 BY <1>3 DEF Created
  <2> QED BY <1>3, <2>1 DEF SizeOf
<1> QED BY <1>1, <1>2, <1>3

LEMMA OtherSize ==
    ASSUME NEW c, NEW e, NEW at, SameFiles(c, e, at)
    PROVE  \A m : SizeOf(e, at, m) = SizeOf(c, at, m)
BY DEF SizeOf, SameFiles

LEMMA ExtendedAt ==
    ASSUME NEW c \in Seq(Seq(Cells)), NEW e, NEW f \in 1..Len(c), NEW cells \in Seq(Cells),
           Extended(c, e, f, cells)
    PROVE  e[f] = c[f] \o cells /\ \A g \in 1..Len(c) : g # f => e[g] = c[g]
<1>1. PICK s : s = c[f] \o cells OBVIOUS
<1>2. e = [c EXCEPT ![f] = s] BY <1>1 DEF Extended
<1>3. DOMAIN c = 1..Len(c) OBVIOUS
<1> QED BY <1>1, <1>2, <1>3

\* A write changes the size of one file.
LEMMA WrittenSize ==
    ASSUME NEW c \in Seq(Seq(Cells)), NEW e, NEW at, NEW n \in DOMAIN at,
           \A m \in DOMAIN at : at[m] \in 1..Len(c),
           \A m, k \in DOMAIN at : at[m] = at[k] => m = k,
           NEW cells \in Seq(Cells), Extended(c, e, at[n], cells)
    PROVE  /\ SizeOf(e, at, n) = SizeOf(c, at, n) + Len(cells)
           /\ \A m : m # n => SizeOf(e, at, m) = SizeOf(c, at, m)
<1>1. PICK f \in 1..Len(c) : f = at[n] OBVIOUS
<1>2. Extended(c, e, f, cells) BY <1>1
<1>3. e[f] = c[f] \o cells /\ \A g \in 1..Len(c) : g # f => e[g] = c[g]
  BY <1>2, ExtendedAt
<1>4. PICK d \in Seq(Cells) : d = c[f] OBVIOUS
<1>5. Len(e[f]) = Len(c[f]) + Len(cells) BY <1>3, <1>4, ConcatFacts
<1>6. \A m \in DOMAIN at : m # n => e[at[m]] = c[at[m]] BY <1>1, <1>3
<1> QED BY <1>1, <1>5, <1>6 DEF SizeOf

-----------------------------------------------------------------------------
(***************************************************************************)
(* The steps of a history in which no file operation fails.                *)
(***************************************************************************)
LEMMA StepCases ==
    ASSUME TypeInv, [Next]_vars, faults' = 0
    PROVE  /\ faults = 0
           /\ \/ CallAppend \/ CallStats \/ CallSnapshot \/ CallClear
              \/ Scan \/ RemoveData \/ RemoveIndex \/ WithinBudget
              \/ Place \/ OpenData \/ OpenIndex \/ WriteData \/ WriteIndex \/ Acknowledge
              \/ ClearFile \/ ClearDone
              \/ OpenSnapshot \/ OpenSnapshotFails \/ ReadSnapshot \/ Report
              \/ (Crash /\ pc # "clear")
              \/ UNCHANGED vars
<1>0. faults \in Nat BY DEF TypeInv, CounterTypes
<1>1. ~Fault BY <1>0 DEF Fault
<1>2. ASSUME Crash PROVE faults = 0 /\ pc # "clear"
  <2>1. faults' = faults + (IF pc = "clear" THEN 1 ELSE 0) BY <1>2 DEF Crash
  <2>2. CASE pc = "clear"
    <3>1. faults' = faults + 1 BY <2>1, <2>2
    <3> QED BY <3>1, <1>0
  <2>3. CASE pc # "clear"
    <3>1. faults' = faults + 0 BY <2>1, <2>3
    <3> QED BY <3>1, <1>0, <2>3
  <2> QED BY <2>2, <2>3
<1>3. CASE Crash BY <1>2, <1>3
<1>4. CASE CallAppend \/ CallStats \/ CallSnapshot \/ CallClear \/ Scan \/ RemoveData
           \/ RemoveIndex \/ WithinBudget
  <2>1. faults' = faults
    BY <1>4 DEF CallAppend, CallStats, CallSnapshot, CallClear, Scan, RemoveData,
       RemoveIndex, WithinBudget, boundVars
  <2> QED BY <1>4, <2>1
<1>5. CASE Place \/ OpenData \/ OpenIndex \/ WriteData \/ WriteIndex \/ Acknowledge
           \/ ClearFile \/ ClearDone
  <2>1. faults' = faults
    BY <1>5 DEF Place, OpenData, OpenIndex, WriteData, WriteIndex, Acknowledge, ClearFile,
       ClearDone, boundVars
  <2> QED BY <1>5, <2>1
<1>6. CASE OpenSnapshot \/ OpenSnapshotFails \/ ReadSnapshot \/ Report \/ UNCHANGED vars
  <2>1. faults' = faults
    BY <1>6 DEF OpenSnapshot, OpenSnapshotFails, ReadSnapshot, Report, vars, boundVars
  <2> QED BY <1>6, <2>1
<1>7. ~(ScanFails \/ RemoveDataFails \/ RemoveIndexFails \/ OpenFails \/ WriteFails
        \/ ClearFails)
  BY <1>1 DEF ScanFails, RemoveDataFails, RemoveIndexFails, OpenFails, WriteFails, ClearFails
<1> QED BY <1>3, <1>4, <1>5, <1>6, <1>7
        DEF Next, Requests, Budget, Appending, Clearing, Exporting

\* The files of a live segment.
LEMMA NameFiles ==
    ASSUME FileTypes, NEW n \in DOMAIN dataAt
    PROVE  /\ dataAt[n] \in 1..Len(content) /\ DataOf(n) \in Seq(Cells)
           /\ n \in DOMAIN idxAt => /\ idxAt[n] \in 1..Len(content) /\ idxAt[n] # 0
                                    /\ IndexOf(n) \in Seq(Cells)
           /\ FileSize(dataAt, n) = Len(DataOf(n))
           /\ n \in DOMAIN idxAt => FileSize(idxAt, n) = Len(IndexOf(n))
<1>1. content \in Seq(Seq(Cells)) BY DEF FileTypes, Directory
<1>2. dataAt[n] \in 1..Len(content) BY DEF FileTypes, Directory
<1>3. DataOf(n) \in Seq(Cells) BY <1>1, <1>2 DEF DataOf
<1>4. ASSUME n \in DOMAIN idxAt
      PROVE  idxAt[n] \in 1..Len(content) /\ idxAt[n] # 0 /\ IndexOf(n) \in Seq(Cells)
  <2>1. idxAt[n] \in 1..Len(content) BY <1>4 DEF FileTypes, Directory
  <2> QED BY <1>1, <2>1 DEF IndexOf
<1>5. FileSize(dataAt, n) = Len(DataOf(n)) BY DEF FileSize, DataOf
<1>6. n \in DOMAIN idxAt => FileSize(idxAt, n) = Len(IndexOf(n)) BY DEF FileSize, IndexOf
<1> QED BY <1>2, <1>3, <1>4, <1>5, <1>6

\* Between two requests the handles of the segments in memory can be opened
\* and lead to everything that was acknowledged.
LEMMA HandlesNow ==
    ASSUME TypeInv, DirectorySound, initialized = TRUE, pc \in {"idle", "open"}
    PROVE  Openable /\ HandlesSound(size, content, Handles, kept, Len(size))
<1>0. /\ FileTypes /\ segments \in Seq(Segment) /\ MemorySound /\ FilesSound /\ KeptSound
  BY DEF TypeInv, StoreTypes, DirectorySound, CollectorSound
<1>1. DOMAIN segments = 1..Len(segments) /\ DOMAIN Handles = 1..Len(segments)
  BY <1>0 DEF Handles
<1>2. ASSUME NEW i \in 1..Len(segments)
      PROVE  /\ segments[i].name \in DOMAIN dataAt
             /\ segments[i].bytes = FileSize(dataAt, segments[i].name)
             /\ segments[i].ibytes = FileSize(idxAt, segments[i].name)
  <2>1. SegmentSound(i) BY <1>0 DEF MemorySound
  <2>2. Pending(i) = 0 BY DEF Pending
  <2>3. segments[i] \in Segment BY <1>0
  <2>4. segments[i].bytes \in Nat BY <2>3 DEF Segment
  <2> QED BY <2>1, <2>2, <2>4 DEF SegmentSound
<1>3. Openable BY <1>1, <1>2 DEF Openable
<1>4. ASSUME NEW i \in 1..Len(segments)
      PROVE  /\ HandleSound(size, content, Handles[i], Len(size))
             /\ segments[i].name \in DOMAIN idxAt =>
                   /\ Handles[i].idx = idxAt[segments[i].name] /\ Handles[i].idx # 0
                   /\ Handles[i].ilen = Len(IndexOf(segments[i].name))
  <2>1. PICK n \in DOMAIN dataAt : n = segments[i].name BY <1>2
  <2>2. PICK h : h = Handles[i] OBVIOUS
  <2>3. /\ h.data = dataAt[n] /\ h.len = segments[i].bytes /\ h.ilen = segments[i].ibytes
    BY <1>1, <2>1, <2>2 DEF Handles
  <2>4. h.idx = IF n \in DOMAIN idxAt THEN idxAt[n] ELSE 0
    BY <1>1, <2>1, <2>2 DEF Handles
  <2>5. h.len = Len(DataOf(n)) /\ (n \in DOMAIN idxAt => h.ilen = Len(IndexOf(n)))
    BY <1>0, <1>2, <2>1, <2>3, NameFiles
  <2>6. dataAt[n] \in 1..Len(content) /\ DataOf(n) \in Seq(Cells) BY <1>0, NameFiles
  <2>7. h.data \in 1..Len(content) /\ content[h.data] = DataOf(n)
        /\ h.len \in 0..Len(content[h.data])
    BY <2>3, <2>5, <2>6 DEF DataOf
  <2>8. GoodData(size, DataOf(n), Len(DataOf(n)), Len(size))
    BY <1>0 DEF FilesSound, FileSound
  <2>9. CASE n \notin DOMAIN idxAt
    <3>1. h.idx = 0 BY <2>4, <2>9
    <3> QED BY <2>1, <2>2, <2>5, <2>7, <2>8, <2>9, <3>1 DEF HandleSound
  <2>10. CASE n \in DOMAIN idxAt
    <3>1. h.idx = idxAt[n] BY <2>4, <2>10
    <3>2. idxAt[n] \in 1..Len(content) /\ idxAt[n] # 0 /\ IndexOf(n) \in Seq(Cells)
      BY <1>0, <2>10, NameFiles
    <3>3. GoodIndex(size, IndexOf(n), Len(IndexOf(n)), DataOf(n), Len(DataOf(n)), Len(size))
      BY <1>0, <2>10 DEF FilesSound, FileSound
    <3>4. content[h.idx] = IndexOf(n) /\ h.ilen \in 0..Len(content[h.idx])
      BY <3>1, <3>2, <2>5, <2>10 DEF IndexOf
    <3>5. HandleSound(size, content, h, Len(size))
      BY <2>5, <2>7, <2>8, <2>10, <3>1, <3>2, <3>3, <3>4 DEF HandleSound
    <3> QED BY <2>1, <2>2, <2>5, <2>10, <3>1, <3>2, <3>5
  <2> QED BY <2>9, <2>10
<1>5. ASSUME NEW r \in kept
      PROVE  \E i \in DOMAIN Handles : HandleHolds(content, Handles[i], r)
  <2>1. PICK n \in DOMAIN dataAt :
            n \in DOMAIN idxAt /\ Indexed(IndexOf(n), Len(IndexOf(n)), r)
    BY <1>0 DEF KeptSound, Kept
  <2>2. PICK i \in 1..Len(segments) : segments[i].name = n BY <1>0 DEF MemorySound
  <2>3. Handles[i].idx = idxAt[n] /\ Handles[i].idx # 0 /\ Handles[i].ilen = Len(IndexOf(n))
    BY <1>4, <2>1, <2>2
  <2>4. content[Handles[i].idx] = IndexOf(n) BY <2>3 DEF IndexOf
  <2>5. HandleHolds(content, Handles[i], r) BY <2>1, <2>3, <2>4 DEF HandleHolds
  <2> QED BY <1>1, <2>5
<1> QED BY <1>1, <1>3, <1>4, <1>5 DEF HandlesSound

\* The export in progress stays sound, whatever the collector does meanwhile.
LEMMA SnapshotStep ==
    ASSUME TypeInv, DirectorySound, SnapshotSound, [Next]_vars, faults' = 0
    PROVE  SnapshotSound'
<1>0. /\ content \in Seq(Seq(Cells)) /\ content' \in Seq(Seq(Cells))
  BY FileStep DEF TypeInv, FileTypes, Directory
<1>1. CASE snap' = snap
  <2> SUFFICES ASSUME snap.state = "reading"
               PROVE  /\ snap.before \in Nat /\ snap.before - 1 \in 0..Len(size')
                      /\ HandlesSound(size', content', snap.handles, snap.want, snap.before - 1)
      BY <1>1 DEF SnapshotSound
  <2>1. PICK lim \in 0..Len(size) : lim = snap.before - 1 BY DEF SnapshotSound
  <2>2. HandlesSound(size, content, snap.handles, snap.want, lim)
    BY <2>1 DEF SnapshotSound
  <2>3. /\ SizesAgree(size, size', Len(size))
        /\ Len(size) \in Nat /\ Len(size') \in Nat /\ Len(size) <= Len(size')
    BY SizesGrow
  <2>4. lim \in Nat /\ lim \in 0..Len(size') BY <2>3
  <2>5. SizesAgree(size, size', lim) BY <2>3 DEF SizesAgree
  <2>6. Grows(content, content') BY ContentGrows
  <2>7. HandlesSound(size', content', snap.handles, snap.want, lim)
    BY <1>0, <2>2, <2>4, <2>5, <2>6, HandlesKept
  <2>8. snap.before \in Nat BY DEF SnapshotSound
  <2> QED BY <2>1, <2>4, <2>7, <2>8
<1>2. CASE OpenSnapshot
  <2>1. /\ snap'.handles = Handles /\ snap'.want = kept /\ snap'.before = nextRec
        /\ UNCHANGED <<size, content>> /\ pc = "open"
    BY <1>2 DEF OpenSnapshot, historyVars, diskVars
  <2>2. nextRec = Len(size) + 1 /\ Len(size) \in Nat BY DEF TypeInv, SessionTypes
  <2>3. initialized = TRUE BY <2>1 DEF TypeInv, ControlTypes
  <2>4. HandlesSound(size, content, Handles, kept, Len(size)) BY <2>1, <2>3, HandlesNow
  <2>5. snap'.before \in Nat /\ snap'.before - 1 = Len(size) BY <2>1, <2>2
  <2> QED BY <2>1, <2>2, <2>4, <2>5 DEF SnapshotSound
<1>3. CASE snap'.state # "reading" BY <1>3 DEF SnapshotSound
<1>4. CASE ReadSnapshot
  <2> DEFINE result == Read(snap.handles)
  <2>1. \/ snap' = [snap EXCEPT !.state = "report", !.bad = result.bad]
        \/ snap' = NoSnap
    BY <1>4 DEF ReadSnapshot
  <2> HIDE DEF result
  <2>2. snap.state = "reading" BY <1>4 DEF ReadSnapshot
  <2>3. CASE snap' = NoSnap BY <2>3, <1>3 DEF NoSnap
  <2>4. CASE snap' = [snap EXCEPT !.state = "report", !.bad = result.bad]
    <3>1. snap'.state \in {"report", snap.state} BY <2>4
    <3>2. TypeInv' BY TypeStep
    <3>3. snap'.state = "report" BY <2>4, <3>2 DEF TypeInv, CounterTypes
    <3> QED BY <3>3, <1>3
  <2> QED BY <2>1, <2>3, <2>4
<1>5. CASE Report \/ Crash
  BY <1>5, <1>3 DEF Report, Crash, NoSnap
<1>6. CASE CallAppend \/ CallStats \/ CallSnapshot \/ CallClear \/ Scan \/ RemoveData
           \/ RemoveIndex \/ WithinBudget \/ Place \/ OpenData \/ OpenIndex
  BY <1>6, <1>1 DEF CallAppend, CallStats, CallSnapshot, CallClear, Scan, RemoveData,
       RemoveIndex, WithinBudget, Place, OpenData, OpenIndex
<1>7. CASE WriteData \/ WriteIndex \/ Acknowledge \/ ClearFile \/ ClearDone
           \/ OpenSnapshotFails \/ UNCHANGED vars
  BY <1>7, <1>1 DEF WriteData, WriteIndex, Acknowledge, ClearFile, ClearDone,
       OpenSnapshotFails, vars
<1> QED BY <1>2, <1>4, <1>5, <1>6, <1>7, StepCases

-----------------------------------------------------------------------------
(***************************************************************************)
(* Steps that leave the files alone.                                       *)
(***************************************************************************)
LEMMA FilesFrame ==
    ASSUME FilesSound, UNCHANGED <<size, content, dataAt, idxAt>>
    PROVE  FilesSound'
BY DEF FilesSound, FileSound, DataOf, IndexOf

LEMMA KeptFrame ==
    ASSUME KeptSound, UNCHANGED <<content, dataAt, idxAt>>, kept' \subseteq kept,
           pc' # "clear" \/ kept' = {}
    PROVE  KeptSound'
BY DEF KeptSound, Kept, IndexOf

LEMMA NamesFrame ==
    ASSUME NamesSound, UNCHANGED <<dataAt, idxAt>>
    PROVE  NamesSound'
BY DEF NamesSound

RestPoints == {"idle", "scan", "open", "place", "ack"}

LEMMA ListedSizeFrame ==
    ASSUME UNCHANGED <<content, dataAt, idxAt>>
    PROVE  ListedSize' = ListedSize
BY DEF ListedSize, ListedBytes, BytesOf, FileSize

\* Memory and directory stay as they are while the collector moves on.
LEMMA CollectorFrame ==
    ASSUME CollectorSound, UNCHANGED <<segments, bytesOnDisk, content, dataAt, idxAt>>,
           pc \in RestPoints \cup {"evict"}, pc' \in RestPoints,
           pc' \in {"idle", "open", "ack", "place"} => ~OverBudget,
           pc' = "ack" => CurrentIndexed /\ cur' = cur
    PROVE  CollectorSound'
<1>1. \A i : Pending(i) = 0 /\ Pending(i)' = 0 BY DEF Pending, RestPoints
<1>2. MemorySound'
  <2>1. \A i \in 1..Len(segments) : SegmentSound(i)'
    BY <1>1 DEF CollectorSound, MemorySound, SegmentSound, FileSize, RestPoints
  <2> QED BY <2>1 DEF CollectorSound, MemorySound
<1>3. BytesSound'
  <2>1. Released = 0 /\ Released' = 0 BY DEF Released, RestPoints
  <2>2. Pending(Len(segments)) = 0 /\ Pending(Len(segments))' = 0 BY <1>1
  <2>3. OverBudget' = OverBudget BY DEF OverBudget
  <2> QED BY <2>1, <2>2, <2>3, ListedSizeFrame DEF CollectorSound, BytesSound
<1>4. AppendSound'
  <2>1. pc' = "ack" => CurrentIndexed'
    BY DEF CurrentIndexed, Active, IndexOf
  <2> QED BY <2>1 DEF AppendSound, RestPoints, EvictPoints
<1>5. EvictSound' BY DEF EvictSound, RestPoints
<1> QED BY <1>2, <1>3, <1>4, <1>5 DEF CollectorSound

\* The start of an append: its size joins those of the sessions.
LEMMA CallAppendSound ==
    ASSUME TypeInv, DirectorySound, [Next]_vars, CallAppend
    PROVE  DirectorySound'
<1>1. /\ UNCHANGED <<content, dataAt, idxAt, segments, bytesOnDisk, initialized, kept>>
      /\ pc = "idle" /\ pc' = IF initialized THEN "place" ELSE "scan"
  BY DEF CallAppend, Request, Continue, spillVars, diskVars
<1>2. FilesSound'
  <2>1. /\ SizesAgree(size, size', Len(size))
        /\ Len(size) \in Nat /\ Len(size') \in Nat /\ Len(size) <= Len(size')
    BY SizesGrow
  <2> SUFFICES ASSUME NEW n \in DOMAIN dataAt
               PROVE  FileSound(n)'
      BY <1>1 DEF FilesSound
  <2>2. FileSound(n) BY DEF DirectorySound, FilesSound
  <2>3. PICK d \in Seq(Cells) : d = DataOf(n) BY NameFiles DEF TypeInv
  <2>4. Len(d) \in Nat /\ Agree(d, d, Len(d)) /\ Len(d) <= Len(d) BY DEF Agree
  <2>5. GoodData(size, d, Len(d), Len(size)) BY <2>2, <2>3 DEF FileSound
  <2>6. GoodData(size', d, Len(d), Len(size')) BY <2>1, <2>4, <2>5, GoodDataMono
  <2>7. ASSUME n \in DOMAIN idxAt
        PROVE  GoodIndex(size', IndexOf(n), Len(IndexOf(n)), d, Len(d), Len(size'))
    <3>1. PICK x \in Seq(Cells) : x = IndexOf(n) BY <2>7, NameFiles DEF TypeInv
    <3>2. Len(x) \in Nat /\ Agree(x, x, Len(x)) BY DEF Agree
    <3>3. GoodIndex(size, x, Len(x), d, Len(d), Len(size)) BY <2>2, <2>3, <2>7, <3>1 DEF FileSound
    <3>4. GoodIndex(size', x, Len(x), d, Len(d), Len(size'))
      BY <2>1, <2>4, <3>2, <3>3, GoodIndexMono
    <3> QED BY <3>1, <3>4
  <2>8. DataOf(n)' = DataOf(n) /\ IndexOf(n)' = IndexOf(n) BY <1>1 DEF DataOf, IndexOf
  <2> QED BY <1>1, <2>2, <2>3, <2>6, <2>7, <2>8 DEF FileSound
<1>3. KeptSound' BY <1>1, KeptFrame DEF DirectorySound
<1>4. NamesSound' BY <1>1, NamesFrame DEF DirectorySound
<1>5. initialized' = TRUE => CollectorSound'
  <2> SUFFICES ASSUME initialized = TRUE PROVE CollectorSound' BY <1>1
  <2>1. CollectorSound /\ pc' = "place" BY <1>1 DEF DirectorySound
  <2>2. ~OverBudget BY <1>1, <2>1 DEF CollectorSound, BytesSound
  <2> QED BY <1>1, <2>1, <2>2, CollectorFrame DEF RestPoints
<1> QED BY <1>2, <1>3, <1>4, <1>5 DEF DirectorySound

LEMMA WithinBudgetSound ==
    ASSUME TypeInv, DirectorySound, WithinBudget
    PROVE  DirectorySound'
<1>1. /\ UNCHANGED <<content, dataAt, idxAt, segments, bytesOnDisk, initialized, kept>>
      /\ UNCHANGED <<size, cur>>
      /\ pc = "evict" /\ ~OverBudget /\ pc' = then
  BY DEF WithinBudget, spillVars, diskVars, historyVars
<1>2. then \in {"idle", "place", "open", "ack"} /\ initialized = TRUE
  BY <1>1 DEF TypeInv, ControlTypes
<1>3. FilesSound' /\ KeptSound' /\ NamesSound'
  BY <1>1, <1>2, FilesFrame, KeptFrame, NamesFrame DEF DirectorySound
<1>4. CollectorSound BY <1>1, <1>2 DEF DirectorySound
<1>5. pc' = "ack" => CurrentIndexed
  BY <1>1, <1>4 DEF CollectorSound, AppendSound, EvictPoints
<1>6. CollectorSound' BY <1>1, <1>2, <1>4, <1>5, CollectorFrame DEF RestPoints
<1> QED BY <1>3, <1>6 DEF DirectorySound

LEMMA AcknowledgeSound ==
    ASSUME TypeInv, DirectorySound, Acknowledge
    PROVE  DirectorySound'
<1>1. /\ UNCHANGED <<content, dataAt, idxAt, segments, bytesOnDisk, initialized, size>>
      /\ pc = "ack" /\ pc' = "idle" /\ kept' = kept \cup {cur}
  BY DEF Acknowledge, spillVars, diskVars
<1>2. initialized = TRUE BY <1>1 DEF TypeInv, ControlTypes
<1>3. CollectorSound /\ FilesSound /\ KeptSound /\ NamesSound BY <1>1, <1>2 DEF DirectorySound
<1>4. FilesSound' /\ NamesSound' BY <1>1, <1>3, FilesFrame, NamesFrame
<1>5. CurrentIndexed /\ ~OverBudget
  BY <1>1, <1>3 DEF CollectorSound, AppendSound, BytesSound
<1>6. CollectorSound' BY <1>1, <1>3, <1>5, CollectorFrame DEF RestPoints
<1>7. Kept(cur)
  <2>1. Len(segments) \in 1..Len(segments) /\ segments # <<>>
    BY <1>5, ActiveName DEF CurrentIndexed, TypeInv
  <2>2. SegmentSound(Len(segments)) BY <1>3, <2>1 DEF CollectorSound, MemorySound
  <2>3. Active.name \in DOMAIN dataAt BY <1>1, <2>2 DEF SegmentSound, Active
  <2> QED BY <1>5, <2>3 DEF CurrentIndexed, Kept
<1>8. KeptSound'
  <2> SUFFICES ASSUME NEW r \in kept' PROVE Kept(r)' BY <1>1 DEF KeptSound
  <2>1. Kept(r) BY <1>1, <1>3, <1>7 DEF KeptSound
  <2> QED BY <1>1, <2>1 DEF Kept, IndexOf
<1> QED BY <1>4, <1>6, <1>8 DEF DirectorySound

LEMMA QuietSteps ==
    ASSUME TypeInv, DirectorySound,
           \/ CallStats \/ CallSnapshot \/ CallClear
           \/ OpenSnapshot \/ OpenSnapshotFails \/ ReadSnapshot \/ Report
           \/ (Crash /\ pc # "clear") \/ UNCHANGED vars
    PROVE  DirectorySound'
<1>0. UNCHANGED <<size, content, dataAt, idxAt>>
  BY DEF CallStats, CallSnapshot, CallClear, OpenSnapshot, OpenSnapshotFails, ReadSnapshot,
     Report, Crash, vars, diskVars, historyVars
<1>1. FilesSound' BY <1>0, FilesFrame DEF DirectorySound
<1>2. CASE CallStats \/ CallSnapshot
  <2>1. /\ UNCHANGED <<segments, bytesOnDisk, initialized, kept>> /\ pc = "idle"
        /\ IF initialized THEN pc' \in {"idle", "open"} ELSE pc' = "scan"
    BY <1>2 DEF CallStats, CallSnapshot, Request, Continue, spillVars, historyVars
  <2>2. KeptSound' /\ NamesSound'
    BY <1>0, <2>1, KeptFrame, NamesFrame DEF DirectorySound
  <2>3. initialized' = TRUE => CollectorSound'
    <3> SUFFICES ASSUME initialized = TRUE PROVE CollectorSound' BY <2>1
    <3>1. CollectorSound /\ pc' \in {"idle", "open"} BY <2>1 DEF DirectorySound
    <3>2. ~OverBudget BY <2>1, <3>1 DEF CollectorSound, BytesSound
    <3> QED BY <1>0, <2>1, <3>1, <3>2, CollectorFrame DEF RestPoints
  <2> QED BY <1>1, <2>2, <2>3 DEF DirectorySound
<1>3. CASE CallClear
  <2>1. pc' = "clear" /\ kept' = {} BY <1>3 DEF CallClear
  <2>2. KeptSound' BY <2>1 DEF KeptSound
  <2> QED BY <1>1, <2>1, <2>2 DEF DirectorySound
<1>4. CASE OpenSnapshot \/ OpenSnapshotFails
  <2>1. /\ UNCHANGED <<segments, bytesOnDisk, initialized, kept>>
        /\ pc = "open" /\ pc' = "idle"
    BY <1>4 DEF OpenSnapshot, OpenSnapshotFails, Fails, spillVars, historyVars
  <2>2. KeptSound' /\ NamesSound'
    BY <1>0, <2>1, KeptFrame, NamesFrame DEF DirectorySound
  <2>3. initialized = TRUE BY <2>1 DEF TypeInv, ControlTypes
  <2>4. CollectorSound BY <2>1, <2>3 DEF DirectorySound
  <2>5. ~OverBudget BY <2>1, <2>4 DEF CollectorSound, BytesSound
  <2>6. CollectorSound' BY <1>0, <2>1, <2>4, <2>5, CollectorFrame DEF RestPoints
  <2> QED BY <1>1, <2>2, <2>6 DEF DirectorySound
<1>5. CASE ReadSnapshot \/ Report \/ UNCHANGED vars
  <2>1. /\ UNCHANGED <<segments, bytesOnDisk, initialized, kept, pc, op, then, cur, victim>>
    BY <1>5 DEF ReadSnapshot, Report, vars, spillVars, controlVars, historyVars
  <2>2. KeptSound'
    BY <1>0, <2>1 DEF DirectorySound, KeptSound, Kept, IndexOf
  <2>3. pc' # "clear" => NamesSound'
    BY <1>0, <2>1, NamesFrame DEF DirectorySound
  <2>4. ASSUME CollectorSound PROVE CollectorSound'
    <3>1. MemorySound'
      BY <1>0, <2>1, <2>4 DEF CollectorSound, MemorySound, SegmentSound, Pending, FileSize
    <3>2. BytesSound'
      <4>1. OverBudget' = OverBudget BY <2>1 DEF OverBudget
      <4>2. Pending(Len(segments))' = Pending(Len(segments)) /\ Released' = Released
        BY <1>0, <2>1 DEF Pending, Released
      <4> QED BY <1>0, <2>1, <2>4, <4>1, <4>2, ListedSizeFrame DEF CollectorSound, BytesSound
    <3>3. AppendSound'
      BY <1>0, <2>1, <2>4 DEF CollectorSound, AppendSound, CurrentIndexed, Active, DataOf, IndexOf
    <3>4. EvictSound' BY <1>0, <2>1, <2>4 DEF CollectorSound, EvictSound, Active
    <3> QED BY <3>1, <3>2, <3>3, <3>4 DEF CollectorSound
  <2> QED BY <1>1, <2>1, <2>2, <2>3, <2>4 DEF DirectorySound
<1>6. CASE Crash /\ pc # "clear"
  <2>1. initialized' = FALSE /\ pc' = "idle" /\ kept' = kept BY <1>6 DEF Crash
  <2>2. KeptSound' /\ NamesSound'
    BY <1>0, <1>6, <2>1, KeptFrame, NamesFrame DEF DirectorySound
  <2> QED BY <1>1, <2>1, <2>2 DEF DirectorySound
<1> QED BY <1>2, <1>3, <1>4, <1>5, <1>6

-----------------------------------------------------------------------------
(***************************************************************************)
(* Removing files, scanning the directory, starting a segment.             *)
(***************************************************************************)
\* Files that go away leave the others sound.
LEMMA FilesRemoved ==
    ASSUME FilesSound, UNCHANGED <<size, content>>,
           DOMAIN dataAt' \subseteq DOMAIN dataAt, DOMAIN idxAt' \subseteq DOMAIN idxAt,
           \A n \in DOMAIN dataAt' : dataAt'[n] = dataAt[n],
           \A n \in DOMAIN idxAt' : idxAt'[n] = idxAt[n]
    PROVE  FilesSound'
<1> SUFFICES ASSUME NEW n \in DOMAIN dataAt' PROVE FileSound(n)' BY DEF FilesSound
<1>1. FileSound(n) BY DEF FilesSound
<1>2. DataOf(n)' = DataOf(n) /\ (n \in DOMAIN idxAt' => IndexOf(n)' = IndexOf(n))
  BY DEF DataOf, IndexOf
<1> QED BY <1>1, <1>2 DEF FileSound

LEMMA UnlinkedFacts ==
    ASSUME NEW at, NEW n
    PROVE  /\ DOMAIN Unlinked(at, n) = DOMAIN at \ {n}
           /\ \A m \in DOMAIN at \ {n} : Unlinked(at, n)[m] = at[m]
BY DEF Unlinked

LEMMA ClearSound ==
    ASSUME TypeInv, DirectorySound, ClearFile \/ ClearDone
    PROVE  DirectorySound'
<1>0. pc = "clear" /\ FilesSound /\ KeptSound BY DEF ClearFile, ClearDone, DirectorySound
<1>1. kept = {} BY <1>0 DEF KeptSound
<1>2. kept' = {} /\ UNCHANGED <<size, content>>
  BY <1>1 DEF ClearFile, ClearDone, historyVars, diskVars
<1>3. KeptSound' BY <1>2 DEF KeptSound
<1>4. CASE ClearFile
  <2>1. pc' = "clear" BY <1>0, <1>4 DEF ClearFile, controlVars
  <2>2. /\ DOMAIN dataAt' \subseteq DOMAIN dataAt /\ DOMAIN idxAt' \subseteq DOMAIN idxAt
        /\ \A n \in DOMAIN dataAt' : dataAt'[n] = dataAt[n]
        /\ \A n \in DOMAIN idxAt' : idxAt'[n] = idxAt[n]
    <3>1. \/ idxAt' = idxAt /\ \E n : dataAt' = Unlinked(dataAt, n)
          \/ dataAt' = dataAt /\ \E n : idxAt' = Unlinked(idxAt, n)
      BY <1>4 DEF ClearFile
    <3>2. ASSUME NEW n, dataAt' = Unlinked(dataAt, n)
          PROVE  /\ DOMAIN dataAt' \subseteq DOMAIN dataAt
                 /\ \A m \in DOMAIN dataAt' : dataAt'[m] = dataAt[m]
      BY <3>2 DEF Unlinked
    <3>3. ASSUME NEW n, idxAt' = Unlinked(idxAt, n)
          PROVE  /\ DOMAIN idxAt' \subseteq DOMAIN idxAt
                 /\ \A m \in DOMAIN idxAt' : idxAt'[m] = idxAt[m]
      BY <3>3 DEF Unlinked
    <3> QED BY <3>1, <3>2, <3>3
  <2>3. FilesSound' BY <1>0, <1>2, <2>2, FilesRemoved
  <2> QED BY <1>3, <2>1, <2>3 DEF DirectorySound
<1>5. CASE ClearDone
  <2>1. /\ DOMAIN dataAt = {} /\ DOMAIN idxAt = {}
        /\ segments' = <<>> /\ bytesOnDisk' = 0 /\ pc' = "idle"
        /\ UNCHANGED <<dataAt, idxAt, content, size>>
    BY <1>5 DEF ClearDone, Names, diskVars, historyVars
  <2>2. FilesSound' BY <1>0, <2>1, FilesFrame
  <2>3. NamesSound' BY <2>1 DEF NamesSound
  <2>4. Len(segments') = 0 BY <2>1
  <2>5. MemorySound' BY <2>1, <2>4 DEF MemorySound
  <2>6. BytesSound'
    <3>1. ListedBytes = {} BY <2>1 DEF ListedBytes, BytesOf
    <3>2. ListedSize = 0 BY <3>1, FS_EmptySet DEF ListedSize
    <3>3. ListedSize' = 0 BY <2>1, <3>2, ListedSizeFrame
    <3>4. Pending(Len(segments))' = 0 /\ Released' = 0 BY <2>1 DEF Pending, Released
    <3>5. ~OverBudget' BY <2>4 DEF OverBudget
    <3> QED BY <2>1, <3>3, <3>4, <3>5 DEF BytesSound
  <2>7. AppendSound' /\ EvictSound'
    BY <2>1 DEF AppendSound, EvictSound, EvictPoints
  <2> QED BY <1>3, <2>2, <2>3, <2>5, <2>6, <2>7 DEF DirectorySound, CollectorSound
<1> QED BY <1>4, <1>5

\* A restart lists exactly the segments whose data file exists.
LEMMA ScanSound ==
    ASSUME TypeInv, DirectorySound, Scan
    PROVE  DirectorySound'
<1>0. pc = "scan" /\ FileTypes BY DEF Scan, TypeInv
<1>1. PICK f \in [1..Cardinality(DOMAIN dataAt) -> DOMAIN dataAt] :
          /\ InOrder(f) /\ segments' = Listed(f)
          /\ bytesOnDisk' = Cardinality(BytesOf({f[i] : i \in DOMAIN f}))
  BY DEF Scan, InOrder, Listed
<1>2. /\ UNCHANGED <<content, dataAt, idxAt, size, kept, cur>>
      /\ bytesOnDisk' = ListedSize /\ pc' = "evict" /\ then' = Continue(op)
  BY <1>0, <1>1, ScanRange DEF Scan, diskVars, historyVars, ListedSize, ListedBytes
<1>3. IsFiniteSet(DOMAIN dataAt) BY <1>0 DEF FileTypes, Directory
<1>4. PICK N \in Nat : N = Cardinality(DOMAIN dataAt) BY <1>3, FS_CardinalityType
<1>5. /\ segments' \in Seq(Segment) /\ Len(segments') = N
      /\ \A i \in 1..N : segments'[i].name = f[i]
  <2>1. PICK s : s = segments' OBVIOUS
  <2>2. s = Listed(f) /\ InOrder(f) BY <1>1, <2>1
  <2>3. /\ s \in Seq(Segment) /\ Len(s) = Cardinality(DOMAIN dataAt)
        /\ \A i \in 1..Len(s) : s[i].name = f[i]
    BY <1>0, <2>2, ScanTypes
  <2> QED BY <1>4, <2>1, <2>3
<1>6. \A n \in DOMAIN dataAt : \E i \in 1..N : f[i] = n
  BY <1>0, <1>1, <1>4, ScanRange
<1>7. FilesSound' /\ KeptSound' /\ NamesSound'
  BY <1>0, <1>2, FilesFrame, KeptFrame, NamesFrame DEF DirectorySound
<1>8. MemorySound'
  <2>1. \A n \in DOMAIN dataAt' : \E i \in 1..Len(segments') : segments'[i].name = n
    BY <1>2, <1>5, <1>6
  <2>2. ASSUME NEW i \in 1..Len(segments') PROVE SegmentSound(i)'
    <3>1. i \in DOMAIN f /\ f[i] \in DOMAIN dataAt BY <1>4, <1>5, <2>2
    <3>2. segments'[i] = Scanned(f[i]) BY <1>1, <3>1 DEF Listed
    <3>3. PICK n \in DOMAIN dataAt : n = f[i] BY <3>1
    <3>4. /\ segments'[i].name = n /\ segments'[i].bytes = FileSize(dataAt, n)
          /\ segments'[i].ibytes = FileSize(idxAt, n)
      BY <3>2, <3>3 DEF Scanned
    <3>5. FileSize(dataAt, n)' = FileSize(dataAt, n) /\ FileSize(idxAt, n)' = FileSize(idxAt, n)
      BY <1>2 DEF FileSize
    <3>6. FileSize(dataAt, n) \in Nat BY <1>0, FileSizeType
    <3>7. Pending(i)' = 0 BY <1>2 DEF Pending
    <3>8. FileSize(dataAt, segments[i].name)' = FileSize(dataAt, n)
          /\ FileSize(idxAt, segments[i].name)' = FileSize(idxAt, n)
      BY <3>4, <3>5 DEF FileSize
    <3>9. segments'[i].bytes + Pending(i)' = FileSize(dataAt, n) BY <3>4, <3>6, <3>7
    <3> QED BY <1>2, <3>4, <3>8, <3>9 DEF SegmentSound
  <2> QED BY <2>1, <2>2 DEF MemorySound
<1>9. BytesSound'
  <2>1. ListedSize' = ListedSize BY <1>2, ListedSizeFrame
  <2>2. Pending(Len(segments))' = 0 /\ Released' = 0 BY <1>2 DEF Pending, Released
  <2>3. ListedSize \in Nat BY <1>0, ListedSizeType
  <2> QED BY <1>2, <2>1, <2>2, <2>3 DEF BytesSound
<1>10. AppendSound' /\ EvictSound'
  <2>1. op \in {"append", "stats", "snapshot"} BY <1>0 DEF TypeInv, ControlTypes
  <2>2. then' # "ack" BY <1>2, <2>1 DEF Continue
  <2> QED BY <1>2, <2>2 DEF AppendSound, EvictSound
<1> QED BY <1>7, <1>8, <1>9, <1>10 DEF DirectorySound, CollectorSound

\* start_spill_segment: a new segment has a name that no file has.
LEMMA PlaceSound ==
    ASSUME TypeInv, DirectorySound, Place
    PROVE  DirectorySound'
<1>0. /\ pc = "place" /\ pc' = "openData"
      /\ UNCHANGED <<content, dataAt, idxAt, size, kept, cur, bytesOnDisk, initialized>>
  BY DEF Place, diskVars, historyVars
<1>1. initialized = TRUE /\ segments \in Seq(Segment) /\ FileTypes /\ StoreTypes
  BY <1>0 DEF TypeInv, ControlTypes, StoreTypes
<1>2. CollectorSound /\ NamesSound BY <1>0, <1>1 DEF DirectorySound
<1>3. FilesSound' /\ KeptSound' /\ NamesSound'
  BY <1>0, FilesFrame, KeptFrame, NamesFrame DEF DirectorySound
<1>4. \A i : Pending(i) = 0 /\ Pending(i)' = 0 BY <1>0 DEF Pending
<1>5. BytesSound'
  <2>1. Released = 0 /\ Released' = 0 BY <1>0 DEF Released
  <2>2. Pending(Len(segments)) = 0 /\ Pending(Len(segments))' = 0 BY <1>4
  <2> QED BY <1>0, <1>2, <2>1, <2>2, ListedSizeFrame DEF CollectorSound, BytesSound
<1>6. EvictSound' BY <1>0 DEF EvictSound
<1>7. ASSUME NEW i \in 1..Len(segments), i \in 1..Len(segments'), segments'[i] = segments[i]
      PROVE  SegmentSound(i)'
  <2>1. SegmentSound(i) BY <1>2 DEF CollectorSound, MemorySound
  <2>2. segments[i].name \in DOMAIN dataAt BY <1>0, <2>1 DEF SegmentSound
  <2> QED BY <1>0, <1>4, <1>7, <2>1, <2>2 DEF SegmentSound, FileSize
<1>8. CASE ~NeedsSegment
  <2>1. segments' = segments BY <1>8 DEF Place
  <2>2. MemorySound'
    BY <1>0, <1>2, <1>7, <2>1 DEF CollectorSound, MemorySound
  <2>3. Active' = Active BY <2>1 DEF Active
  <2>4. Active.bytes > 0 => Active.bytes + size[cur] <= SegmentBytes
    <3>1. segments # <<>> BY <1>8 DEF NeedsSegment
    <3>2. Active.bytes \in Nat BY <1>1, <3>1, ActiveName
    <3>3. size[cur] \in Nat BY <1>0 DEF TypeInv, ControlTypes, SessionTypes
    <3>4. SegmentBytes \in Nat BY SpillAssumption
    <3>5. ~(Active.bytes > 0 /\ Active.bytes + size[cur] > SegmentBytes)
      BY <1>8 DEF NeedsSegment
    <3> QED BY <3>2, <3>3, <3>4, <3>5
  <2>5. AppendSound' BY <1>0, <2>3, <2>4 DEF AppendSound, EvictPoints
  <2> QED BY <1>3, <1>5, <1>6, <2>2, <2>5 DEF DirectorySound, CollectorSound
<1>9. CASE NeedsSegment
  <2> DEFINE seg == [name |-> <<nextSegment, comp>>, bytes |-> 0, ibytes |-> 0]
  <2>1. segments' = Append(segments, seg) BY <1>9 DEF Place
  <2>2. seg \in Segment /\ seg.name = <<nextSegment, comp>> /\ seg.bytes = 0 /\ seg.ibytes = 0
    BY <1>1 DEF Segment, SegmentNames, StoreTypes
  <2> HIDE DEF seg
  <2>3. /\ segments' \in Seq(Segment) /\ Len(segments') = Len(segments) + 1
        /\ segments'[Len(segments) + 1] = seg
        /\ \A i \in 1..Len(segments) : segments'[i] = segments[i]
    BY <1>1, <2>1, <2>2, AppendFacts
  <2>4. Len(segments) \in Nat BY <1>1
  <2>5. \A n \in DOMAIN dataAt : n[1] \in Nat /\ n[1] < nextSegment
    <3> SUFFICES ASSUME NEW n \in DOMAIN dataAt PROVE n[1] \in Nat /\ n[1] < nextSegment
        OBVIOUS
    <3>1. n \in SegmentNames BY <1>1 DEF FileTypes, Directory
    <3>2. PICK i \in 1..Len(segments) : segments[i].name = n
      BY <1>2 DEF CollectorSound, MemorySound
    <3>3. n[1] < nextSegment BY <1>1, <3>2 DEF StoreTypes, Below
    <3> QED BY <3>1, <3>3 DEF SegmentNames
  <2>6. \A m \in DOMAIN idxAt : m[1] \in Nat /\ m[1] < nextSegment
    <3> SUFFICES ASSUME NEW m \in DOMAIN idxAt PROVE m[1] \in Nat /\ m[1] < nextSegment
        OBVIOUS
    <3>1. m \in SegmentNames BY <1>1 DEF FileTypes, Directory
    <3>2. PICK n \in DOMAIN dataAt : m[1] <= n[1] BY <1>2 DEF NamesSound
    <3>3. m[1] \in Nat BY <3>1 DEF SegmentNames
    <3>4. n[1] \in Nat /\ n[1] < nextSegment /\ nextSegment \in Nat
      BY <2>5, <1>1 DEF StoreTypes
    <3> QED BY <3>2, <3>3, <3>4
  <2>7. nextSegment \in Nat BY <1>1 DEF StoreTypes
  <2>8. seg.name[1] = nextSegment BY <2>2
  <2>9. seg.name \notin DOMAIN dataAt /\ seg.name \notin DOMAIN idxAt
    BY <2>5, <2>6, <2>7, <2>8
  <2>10. ASSUME NEW i \in 1..Len(segments') PROVE SegmentSound(i)'
    <3>1. CASE i \in 1..Len(segments)
      BY <1>7, <2>3, <2>10, <3>1
    <3>2. CASE i = Len(segments) + 1
      <4>1. segments'[i] = seg /\ i = Len(segments') BY <2>3, <3>2
      <4>2. FileSize(dataAt, segments[i].name)' = 0 /\ FileSize(idxAt, segments[i].name)' = 0
        BY <1>0, <2>9, <4>1 DEF FileSize
      <4>3. segments'[i].bytes + Pending(i)' = 0 BY <1>4, <2>2, <4>1
      <4> QED BY <1>0, <2>2, <2>9, <4>1, <4>2, <4>3 DEF SegmentSound
    <3> QED BY <2>3, <2>4, <3>1, <3>2
  <2>11. MemorySound'
    <3>1. ASSUME NEW n \in DOMAIN dataAt'
          PROVE  \E i \in 1..Len(segments') : segments'[i].name = n
      <4>1. PICK i \in 1..Len(segments) : segments[i].name = n
        BY <1>0, <1>2 DEF CollectorSound, MemorySound
      <4>2. i \in 1..Len(segments') BY <2>3, <2>4
      <4> QED BY <2>3, <4>1, <4>2
    <3> QED BY <2>10, <3>1 DEF MemorySound
  <2>12. Active'.bytes = 0
    <3>1. Active' = seg BY <2>3, <2>4 DEF Active
    <3> QED BY <2>2, <3>1
  <2>13. AppendSound' BY <1>0, <2>12 DEF AppendSound, EvictPoints
  <2> QED BY <1>3, <1>5, <1>6, <2>11, <2>13 DEF DirectorySound, CollectorSound
<1> QED BY <1>8, <1>9

-----------------------------------------------------------------------------
(***************************************************************************)
(* enforce_spill_budget.                                                   *)
(***************************************************************************)
\* A session with an index line has its record in the data file.
LEMMA IndexedStored ==
    ASSUME TypeInv, FilesSound, NEW n \in DOMAIN dataAt, n \in DOMAIN idxAt, NEW r,
           Indexed(IndexOf(n), Len(IndexOf(n)), r)
    PROVE  r \in StoredIn(n)
<1>1. GoodSizes /\ FileTypes BY DEF TypeInv, SessionTypes, GoodSizes
<1>2. PICK x \in Seq(Cells) : x = IndexOf(n) BY <1>1, NameFiles
<1>3. PICK d \in Seq(Cells) : d = DataOf(n) BY <1>1, NameFiles
<1>4. PICK N \in Nat : N = Len(d) OBVIOUS
<1>5. PICK lim \in Nat : lim = Len(size) BY <1>1 DEF GoodSizes
<1>6. GoodIndex(size, x, Len(x), d, N, lim)
  BY <1>2, <1>3, <1>4, <1>5 DEF FilesSound, FileSound
<1>7. PICK j \in 1..Len(x) : x[j].rec = r BY <1>2 DEF Indexed
<1>8. j \in DOMAIN x OBVIOUS
<1>9. PICK i \in 0..(j - 1), s \in 1..lim, off \in 0..N :
          Block(size, d, N, off, s) /\ x[j] = IndexCell(s, j - i, off)
  BY <1>6, <1>8, LineOf DEF CellLine
<1>10. s = r BY <1>7, <1>9, CellFields
<1>11. off \in Nat /\ s \in 1..Len(size) /\ Block(size, d, Len(d), off, s)
  BY <1>4, <1>5, <1>9
<1>12. off + 1 \in DOMAIN d /\ d[off + 1].rec = s BY <1>1, <1>11, BlockDecoded
<1> QED BY <1>3, <1>10, <1>12 DEF StoredIn, DataOf

LEMMA TailFacts ==
    ASSUME NEW s \in Seq(Segment), Len(s) > 1
    PROVE  /\ Len(Tail(s)) = Len(s) - 1 /\ Len(s) \in Nat /\ Head(s) = s[1]
           /\ \A i \in 1..(Len(s) - 1) : Tail(s)[i] = s[i + 1]
OBVIOUS

\* The oldest segment's data file goes, and what was in it is no longer kept.
LEMMA RemoveDataSound ==
    ASSUME TypeInv, DirectorySound, [Next]_vars, RemoveData
    PROVE  DirectorySound'
<1>0. /\ pc = "evict" /\ pc' = "evictIndex" /\ segments' = Tail(segments)
      /\ victim' = Head(segments) /\ dataAt' = Unlinked(dataAt, Head(segments).name)
      /\ kept' = kept \ StoredIn(Head(segments).name) /\ Len(segments) > 1
      /\ UNCHANGED <<content, idxAt, size, cur, then, bytesOnDisk, initialized>>
  BY DEF RemoveData, OverBudget
<1>1. /\ initialized = TRUE /\ segments \in Seq(Segment) /\ FileTypes /\ StoreTypes
      /\ FileTypes'
  BY <1>0, FileStep DEF TypeInv, ControlTypes, StoreTypes
<1>2. CollectorSound /\ NamesSound /\ FilesSound /\ KeptSound
  BY <1>0, <1>1 DEF DirectorySound
<1>3. /\ Len(segments') = Len(segments) - 1 /\ Len(segments) \in Nat
      /\ Head(segments) = segments[1]
      /\ \A i \in 1..(Len(segments) - 1) : segments'[i] = segments[i + 1]
  BY <1>0, <1>1, TailFacts
<1>4. PICK n0 : n0 = segments[1].name OBVIOUS
<1>5. 1 \in 1..Len(segments) /\ Len(segments) \in 1..Len(segments) BY <1>0, <1>3
<1>6. \A i : Pending(i) = 0 /\ Pending(i)' = 0 BY <1>0 DEF Pending
<1>7. \A i \in 1..Len(segments) :
          /\ segments[i].name \in DOMAIN dataAt
          /\ FileSize(dataAt, segments[i].name) = segments[i].bytes
          /\ FileSize(idxAt, segments[i].name) = segments[i].ibytes
          /\ segments[i].name[1] \in Nat /\ segments[i].bytes \in Nat /\ segments[i].ibytes \in Nat
  <2> SUFFICES ASSUME NEW i \in 1..Len(segments)
               PROVE  /\ segments[i].name \in DOMAIN dataAt
                      /\ FileSize(dataAt, segments[i].name) = segments[i].bytes
                      /\ FileSize(idxAt, segments[i].name) = segments[i].ibytes
                      /\ segments[i].name[1] \in Nat
                      /\ segments[i].bytes \in Nat /\ segments[i].ibytes \in Nat
      OBVIOUS
  <2>1. SegmentSound(i) BY <1>2 DEF CollectorSound, MemorySound
  <2>2. segments[i] \in Segment BY <1>1
  <2>3. segments[i].bytes \in Nat /\ segments[i].ibytes \in Nat
        /\ segments[i].name \in SegmentNames
    BY <2>2 DEF Segment
  <2>4. segments[i].name[1] \in Nat BY <2>3 DEF SegmentNames
  <2> QED BY <1>0, <1>6, <2>1, <2>3, <2>4 DEF SegmentSound
<1>8. \A i \in 1..Len(segments) : i # 1 => n0[1] < segments[i].name[1]
  BY <1>1, <1>3, <1>4, <1>5 DEF StoreTypes, Ascending
<1>9. \A i \in 1..Len(segments) : i # 1 => segments[i].name # n0
  BY <1>4, <1>5, <1>7, <1>8
<1>10. /\ n0 \in DOMAIN dataAt /\ DOMAIN dataAt' = DOMAIN dataAt \ {n0}
       /\ \A n \in DOMAIN dataAt' : dataAt'[n] = dataAt[n]
  <2>1. n0 \in DOMAIN dataAt BY <1>4, <1>5, <1>7
  <2>2. dataAt' = Unlinked(dataAt, n0) BY <1>0, <1>3, <1>4
  <2> QED BY <2>1, <2>2, UnlinkedFacts
<1>11. FilesSound' BY <1>0, <1>2, <1>10, FilesRemoved
<1>12. KeptSound'
  <2> SUFFICES ASSUME NEW r \in kept' PROVE Kept(r)' BY <1>0 DEF KeptSound
  <2>1. r \in kept /\ r \notin StoredIn(n0) BY <1>0, <1>3, <1>4
  <2>2. PICK n \in DOMAIN dataAt :
            n \in DOMAIN idxAt /\ Indexed(IndexOf(n), Len(IndexOf(n)), r)
    BY <1>2, <2>1 DEF KeptSound, Kept
  <2>3. n # n0 BY <1>2, <2>1, <2>2, IndexedStored
  <2>4. n \in DOMAIN dataAt' BY <1>10, <2>3
  <2> QED BY <1>0, <2>2, <2>4 DEF Kept, IndexOf
<1>13. NamesSound'
  <2>1. \A n, m \in DOMAIN dataAt' : n[1] = m[1] => n = m
    BY <1>2, <1>10 DEF NamesSound
  <2>2. ASSUME NEW m \in DOMAIN idxAt PROVE \E n \in DOMAIN dataAt' : m[1] <= n[1]
    <3>1. PICK n \in DOMAIN dataAt : m[1] <= n[1] BY <1>2 DEF NamesSound
    <3>2. CASE n # n0 BY <1>10, <3>1, <3>2
    <3>3. CASE n = n0
      <4>1. PICK a : a = segments[Len(segments)].name OBVIOUS
      <4>2. /\ a \in DOMAIN dataAt /\ a[1] \in Nat /\ n0[1] < a[1] /\ a # n0
            /\ n0[1] \in Nat
        BY <1>0, <1>3, <1>4, <1>5, <1>7, <1>8, <1>9, <4>1
      <4>3. m \in SegmentNames BY <1>1 DEF FileTypes, Directory
      <4>4. m[1] \in Nat BY <4>3 DEF SegmentNames
      <4>5. m[1] <= a[1] BY <3>1, <3>3, <4>2, <4>4
      <4> QED BY <1>10, <4>2, <4>5
    <3> QED BY <3>2, <3>3
  <2> QED BY <1>0, <2>1, <2>2 DEF NamesSound
<1>14. \A n : n # n0 => FileSize(dataAt, n)' = FileSize(dataAt, n)
  BY <1>0, <1>10 DEF FileSize
<1>15. \A n : FileSize(idxAt, n)' = FileSize(idxAt, n)
  BY <1>0 DEF FileSize
<1>16. MemorySound'
  <2>1. ASSUME NEW n \in DOMAIN dataAt'
        PROVE  \E i \in 1..Len(segments') : segments'[i].name = n
    <3>1. PICK i \in 1..Len(segments) : segments[i].name = n
      BY <1>2, <1>10 DEF CollectorSound, MemorySound
    <3>2. i # 1 BY <1>4, <1>10, <3>1
    <3>3. i - 1 \in 1..(Len(segments) - 1) /\ (i - 1) + 1 = i BY <1>3, <3>2
    <3>4. segments'[i - 1] = segments[i] BY <1>3, <3>3
    <3> QED BY <1>3, <3>1, <3>3, <3>4
  <2>2. ASSUME NEW i \in 1..Len(segments') PROVE SegmentSound(i)'
    <3>1. i + 1 \in 1..Len(segments) /\ i + 1 # 1 /\ i \in 1..(Len(segments) - 1) BY <1>3
    <3>2. segments'[i] = segments[i + 1] BY <1>3, <3>1
    <3>3. PICK n : n = segments[i + 1].name OBVIOUS
    <3>4. /\ n # n0 /\ n \in DOMAIN dataAt /\ FileSize(dataAt, n) = segments[i + 1].bytes
          /\ FileSize(idxAt, n) = segments[i + 1].ibytes /\ segments[i + 1].bytes \in Nat
      BY <1>7, <1>9, <3>1, <3>3
    <3>5. segments'[i].name = n /\ n \in DOMAIN dataAt' BY <1>10, <3>2, <3>3, <3>4
    <3>6. /\ FileSize(dataAt, segments[i].name)' = FileSize(dataAt, n)'
          /\ FileSize(idxAt, segments[i].name)' = FileSize(idxAt, n)'
      BY <3>5 DEF FileSize
    <3>7. segments'[i].bytes + Pending(i)' = segments[i + 1].bytes BY <1>6, <3>2, <3>4
    <3>8. segments'[i].ibytes = segments[i + 1].ibytes BY <3>2
    <3> QED BY <1>14, <1>15, <3>4, <3>5, <3>6, <3>7, <3>8 DEF SegmentSound
  <2> QED BY <2>1, <2>2 DEF MemorySound
<1>17. ListedSize = ListedSize' + (segments[1].bytes + segments[1].ibytes)
  <2>1. PICK w : w = Weights(content, dataAt, idxAt) OBVIOUS
  <2>2. PICK v : v = Weights(content', dataAt', idxAt') OBVIOUS
  <2>3. DOMAIN w = DOMAIN dataAt
        /\ \A n \in DOMAIN dataAt : w[n] = FileSize(dataAt, n) + FileSize(idxAt, n)
    BY <2>1, SizeIs DEF Weights
  <2>4. DOMAIN v = DOMAIN dataAt'
        /\ \A n \in DOMAIN dataAt' : v[n] = FileSize(dataAt, n)' + FileSize(idxAt, n)'
    BY <2>2 DEF Weights, FileSize, SizeOf
  <2>5. PICK b \in Nat : b = segments[1].bytes + segments[1].ibytes BY <1>5, <1>7
  <2>6. w[n0] = 0 + b BY <1>4, <1>5, <1>7, <1>10, <2>3, <2>5
  <2>7. \A n \in DOMAIN v : w[n] = v[n]
    BY <1>10, <1>14, <1>15, <2>3, <2>4
  <2>8. Heavier(v, w, n0, 0, b)
    BY <1>10, <2>3, <2>4, <2>6, <2>7 DEF Heavier
  <2>9. ListedBytes = Bytes(w) BY <2>1, BytesAre
  <2>10. ListedBytes' = Bytes(v) BY <2>4 DEF ListedBytes, BytesOf, Bytes
  <2>11. IsFiniteSet(Bytes(v))
    <3>1. IsFiniteSet(Bytes(w)) BY <1>1, <2>9, ListedSizeType
    <3>2. \A n \in DOMAIN v : n \in DOMAIN w BY <1>10, <2>3, <2>4
    <3>3. \A p \in Bytes(v) : p \in Bytes(w) BY <2>7, <3>2, BytesMember
    <3> QED BY <3>1, <3>3, FS_Subset
  <2>12. Cardinality(Bytes(w)) = Cardinality(Bytes(v)) + b
    BY <2>5, <2>8, <2>11, HeavierBytes
  <2> QED BY <2>5, <2>9, <2>10, <2>12 DEF ListedSize
<1>18. BytesSound'
  <2>1. Released = 0 /\ Pending(Len(segments)) = 0 /\ Pending(Len(segments))' = 0
    BY <1>0, <1>6 DEF Released
  <2>2. Released' = segments[1].bytes + segments[1].ibytes
    BY <1>0, <1>3 DEF Released
  <2>3. bytesOnDisk = ListedSize /\ bytesOnDisk \in Nat
    <3>1. bytesOnDisk + 0 = ListedSize + 0 BY <1>2, <2>1 DEF CollectorSound, BytesSound
    <3>2. ListedSize \in Nat /\ bytesOnDisk \in Nat BY <1>1, ListedSizeType DEF StoreTypes
    <3> QED BY <3>1, <3>2
  <2>4. bytesOnDisk' + 0 = ListedSize' + Released' BY <1>0, <1>17, <2>2, <2>3
  <2> QED BY <1>0, <2>1, <2>4 DEF BytesSound
<1>19. Active' = Active /\ segments' # <<>>
  <2>1. Len(segments) - 1 \in 1..(Len(segments) - 1) /\ (Len(segments) - 1) + 1 = Len(segments)
    BY <1>0, <1>3
  <2>2. segments'[Len(segments')] = segments[Len(segments)] BY <1>3, <2>1
  <2> QED BY <1>0, <1>3, <2>2 DEF Active
<1>20. AppendSound'
  <2>1. then = "ack" => CurrentIndexed
    BY <1>0, <1>2 DEF CollectorSound, AppendSound, EvictPoints
  <2>2. then = "ack" => CurrentIndexed'
    BY <1>0, <1>19, <2>1 DEF CurrentIndexed, IndexOf
  <2> QED BY <1>0, <2>2 DEF AppendSound, EvictPoints
<1>21. EvictSound'
  <2>1. victim'.name = n0 /\ n0 \notin DOMAIN dataAt' BY <1>0, <1>3, <1>4, <1>10
  <2>2. n0[1] < Active.name[1] BY <1>0, <1>3, <1>5, <1>8 DEF Active
  <2> QED BY <1>19, <2>1, <2>2 DEF EvictSound
<1> QED BY <1>11, <1>12, <1>13, <1>16, <1>18, <1>20, <1>21 DEF DirectorySound, CollectorSound

\* Then its index file, and the bytes of both are released.
LEMMA RemoveIndexSound ==
    ASSUME TypeInv, DirectorySound, RemoveIndex
    PROVE  DirectorySound'
<1>0. /\ pc = "evictIndex" /\ pc' = "evict" /\ idxAt' = Unlinked(idxAt, victim.name)
      /\ bytesOnDisk' = ReleaseBytes(victim)
      /\ UNCHANGED <<content, dataAt, segments, size, cur, then, initialized, kept>>
  BY DEF RemoveIndex, historyVars
<1>1. /\ initialized = TRUE /\ segments \in Seq(Segment) /\ FileTypes /\ StoreTypes
  BY <1>0 DEF TypeInv, ControlTypes, StoreTypes
<1>2. CollectorSound /\ NamesSound /\ FilesSound /\ KeptSound
  BY <1>0, <1>1 DEF DirectorySound
<1>3. victim.name \notin DOMAIN dataAt /\ segments # <<>>
  BY <1>0, <1>2 DEF CollectorSound, EvictSound
<1>4. /\ DOMAIN idxAt' = DOMAIN idxAt \ {victim.name}
      /\ \A n \in DOMAIN idxAt' : idxAt'[n] = idxAt[n]
  BY <1>0, UnlinkedFacts
<1>5. FilesSound' BY <1>0, <1>2, <1>4, FilesRemoved
<1>6. \A n \in DOMAIN dataAt : n \in DOMAIN idxAt => n \in DOMAIN idxAt' /\ IndexOf(n)' = IndexOf(n)
  BY <1>0, <1>3, <1>4 DEF IndexOf
<1>7. KeptSound'
  <2> SUFFICES ASSUME NEW r \in kept PROVE Kept(r)' BY <1>0 DEF KeptSound
  <2>1. PICK n \in DOMAIN dataAt :
            n \in DOMAIN idxAt /\ Indexed(IndexOf(n), Len(IndexOf(n)), r)
    BY <1>2 DEF KeptSound, Kept
  <2> QED BY <1>0, <1>6, <2>1 DEF Kept
<1>8. NamesSound' BY <1>0, <1>2, <1>4 DEF NamesSound
<1>9. \A n \in DOMAIN dataAt :
          FileSize(dataAt, n)' = FileSize(dataAt, n) /\ FileSize(idxAt, n)' = FileSize(idxAt, n)
  BY <1>0, <1>3, <1>4 DEF FileSize
<1>10. \A i : Pending(i) = 0 /\ Pending(i)' = 0 BY <1>0 DEF Pending
<1>11. MemorySound'
  <2>1. ASSUME NEW i \in 1..Len(segments) PROVE SegmentSound(i)'
    <3>1. SegmentSound(i) BY <1>2 DEF CollectorSound, MemorySound
    <3>2. PICK n \in DOMAIN dataAt : n = segments[i].name BY <1>0, <3>1 DEF SegmentSound
    <3>3. /\ FileSize(dataAt, segments[i].name)' = FileSize(dataAt, n)
          /\ FileSize(idxAt, segments[i].name)' = FileSize(idxAt, n)
      BY <1>0, <1>9, <3>2 DEF FileSize
    <3> QED BY <1>0, <1>10, <3>1, <3>2, <3>3 DEF SegmentSound
  <2> QED BY <1>0, <1>2, <2>1 DEF CollectorSound, MemorySound
<1>12. ListedSize' = ListedSize
  <2>1. ListedBytes' = ListedBytes BY <1>0, <1>9 DEF ListedBytes, BytesOf
  <2> QED BY <2>1 DEF ListedSize
<1>13. BytesSound'
  <2>1. Released = victim.bytes + victim.ibytes /\ Released' = 0 BY <1>0 DEF Released
  <2>2. Pending(Len(segments)) = 0 /\ Pending(Len(segments))' = 0 BY <1>10
  <2>3. bytesOnDisk + 0 = ListedSize + (victim.bytes + victim.ibytes)
    BY <1>2, <2>1, <2>2 DEF CollectorSound, BytesSound
  <2>4. /\ ListedSize \in Nat /\ bytesOnDisk \in Nat /\ victim.bytes \in Nat
        /\ victim.ibytes \in Nat
    BY <1>1, ListedSizeType DEF StoreTypes
  <2>5. bytesOnDisk >= victim.bytes + victim.ibytes
        /\ bytesOnDisk - (victim.bytes + victim.ibytes) = ListedSize
    BY <2>3, <2>4
  <2>6. bytesOnDisk' = ListedSize BY <1>0, <2>5 DEF ReleaseBytes
  <2>7. bytesOnDisk' + Pending(Len(segments))' = ListedSize' + Released'
    BY <1>12, <2>1, <2>2, <2>4, <2>6
  <2> QED BY <1>0, <2>7 DEF BytesSound
<1>14. AppendSound'
  <2>1. then = "ack" => CurrentIndexed
    BY <1>0, <1>2 DEF CollectorSound, AppendSound, EvictPoints
  <2>2. Active.name \in DOMAIN dataAt
    <3>1. Len(segments) \in 1..Len(segments) BY <1>1, <1>3, ActiveName
    <3>2. SegmentSound(Len(segments)) BY <1>2, <3>1 DEF CollectorSound, MemorySound
    <3> QED BY <1>0, <3>2 DEF SegmentSound, Active
  <2>3. Active' = Active BY <1>0 DEF Active
  <2>4. then = "ack" => CurrentIndexed'
    BY <1>0, <1>6, <2>1, <2>2, <2>3 DEF CurrentIndexed
  <2> QED BY <1>0, <2>4 DEF AppendSound, EvictPoints
<1>15. EvictSound' BY <1>0 DEF EvictSound
<1> QED BY <1>5, <1>7, <1>8, <1>11, <1>13, <1>14, <1>15 DEF DirectorySound, CollectorSound

-----------------------------------------------------------------------------
(***************************************************************************)
(* append_spill: the four file operations of an append.                    *)
(***************************************************************************)
LEMMA BytesGrow ==
    ASSUME FileTypes, NEW n, NEW a \in Nat, DOMAIN dataAt' = DOMAIN dataAt \cup {n},
           FileSize(dataAt, n)' + FileSize(idxAt, n)' =
               (FileSize(dataAt, n) + FileSize(idxAt, n)) + a,
           \A m \in DOMAIN dataAt : m # n =>
               /\ FileSize(dataAt, m)' = FileSize(dataAt, m)
               /\ FileSize(idxAt, m)' = FileSize(idxAt, m),
           n \notin DOMAIN dataAt => FileSize(dataAt, n) + FileSize(idxAt, n) = 0
    PROVE  ListedSize' = ListedSize + a
<1>1. PICK w : w = Weights(content, dataAt, idxAt) OBVIOUS
<1>2. PICK v : v = Weights(content', dataAt', idxAt') OBVIOUS
<1>3. DOMAIN w = DOMAIN dataAt
      /\ \A m \in DOMAIN dataAt : w[m] = FileSize(dataAt, m) + FileSize(idxAt, m)
  BY <1>1, SizeIs DEF Weights
<1>4. DOMAIN v = DOMAIN dataAt'
      /\ \A m \in DOMAIN dataAt' : v[m] = FileSize(dataAt, m)' + FileSize(idxAt, m)'
  BY <1>2 DEF Weights, FileSize, SizeOf
<1>5. PICK b \in Nat : b = FileSize(dataAt, n) + FileSize(idxAt, n) BY FileSizeType
<1>6. Heavier(w, v, n, b, a) BY <1>3, <1>4, <1>5 DEF Heavier
<1>7. ListedBytes = Bytes(w) BY <1>1, BytesAre
<1>8. ListedBytes' = Bytes(v) BY <1>4 DEF ListedBytes, BytesOf, Bytes
<1>9. IsFiniteSet(Bytes(w)) BY <1>7, ListedSizeType
<1>10. Cardinality(Bytes(v)) = Cardinality(Bytes(w)) + a BY <1>5, <1>6, <1>9, HeavierBytes
<1> QED BY <1>7, <1>8, <1>10 DEF ListedSize

LEMMA FileKept ==
    ASSUME NEW n, FileSound(n), size' = size, DataOf(n)' = DataOf(n),
           n \in DOMAIN idxAt' => n \in DOMAIN idxAt /\ IndexOf(n)' = IndexOf(n)
    PROVE  FileSound(n)'
BY DEF FileSound

\* Where an append stands when it touches a file.
LEMMA AppendPoint ==
    ASSUME TypeInv, DirectorySound, pc \in WritePoints
    PROVE  /\ initialized = TRUE /\ segments \in Seq(Segment) /\ segments # <<>>
           /\ FileTypes /\ StoreTypes /\ CollectorSound /\ NamesSound /\ FilesSound
           /\ KeptSound
           /\ Len(segments) \in 1..Len(segments) /\ Active = segments[Len(segments)]
           /\ Active.name \in SegmentNames /\ Active.bytes \in Nat /\ Active.ibytes \in Nat
           /\ cur \in 1..Len(size) /\ size[cur] \in Nat \ {0, 1}
           /\ SegmentSound(Len(segments)) /\ bytesOnDisk \in Nat
<1>1. initialized = TRUE /\ segments # <<>> /\ pc # "clear"
  BY DEF TypeInv, ControlTypes, WritePoints
<1>2. segments \in Seq(Segment) /\ FileTypes /\ StoreTypes /\ bytesOnDisk \in Nat
  BY DEF TypeInv, StoreTypes
<1>3. CollectorSound /\ NamesSound /\ FilesSound /\ KeptSound BY <1>1 DEF DirectorySound
<1>4. /\ Len(segments) \in 1..Len(segments) /\ Active.name \in SegmentNames
      /\ Active.bytes \in Nat /\ Active.ibytes \in Nat
  BY <1>1, <1>2, ActiveName
<1>5. GoodSizes /\ cur \in 1..Len(size) BY CurrentCells
<1>6. size[cur] \in Nat \ {0, 1} BY <1>5 DEF GoodSizes
<1>7. SegmentSound(Len(segments)) BY <1>3, <1>4 DEF CollectorSound, MemorySound
<1> QED BY <1>1, <1>2, <1>3, <1>4, <1>5, <1>6, <1>7 DEF Active

\* Opening the data file changes no file that exists.
LEMMA DataOpened ==
    ASSUME TypeInv, DirectorySound, OpenData, NEW n, n = Active.name
    PROVE  /\ DOMAIN dataAt' = DOMAIN dataAt \cup {n}
           /\ \A m \in DOMAIN dataAt : DataOf(m)' = DataOf(m)
           /\ \A m \in DOMAIN idxAt : IndexOf(m)' = IndexOf(m)
           /\ \A m : /\ FileSize(dataAt, m)' = FileSize(dataAt, m)
                     /\ FileSize(idxAt, m)' = FileSize(idxAt, m)
           /\ n \notin DOMAIN dataAt => DataOf(n)' = <<>> /\ n \notin DOMAIN idxAt
<1>1. /\ dataAt' = Opened(dataAt, n) /\ idxAt' = idxAt /\ pc = "openData"
      /\ content' = IF n \in DOMAIN dataAt THEN content ELSE Append(content, <<>>)
  BY DEF OpenData
<1>2. /\ FileTypes /\ SegmentSound(Len(segments)) /\ Active = segments[Len(segments)]
  BY <1>1, AppendPoint DEF WritePoints
<1>3. n \notin DOMAIN dataAt => n \notin DOMAIN idxAt BY <1>2 DEF SegmentSound
<1>4. PICK da : da = dataAt' OBVIOUS
<1>5. PICK e : e = content' OBVIOUS
<1>6. \/ da = dataAt /\ e = content /\ n \in DOMAIN dataAt
      \/ /\ n \notin DOMAIN dataAt /\ Created(dataAt, n, Len(content) + 1, da)
         /\ content \in Seq(Seq(Cells)) /\ e \in Seq(Seq(Cells))
         /\ Len(e) = Len(content) + 1 /\ Len(content) \in Nat
         /\ e[Len(content) + 1] = <<>>
         /\ \A f \in 1..Len(content) : e[f] = content[f]
  <2>1. da = Opened(dataAt, n) BY <1>1, <1>4
  <2>2. e = (IF n \in DOMAIN dataAt THEN content ELSE Append(content, <<>>)) BY <1>1, <1>5
  <2>3. PICK at : at = dataAt OBVIOUS
  <2>4. FileTypes /\ da = Opened(at, n)
        /\ e = (IF n \in DOMAIN at THEN content ELSE Append(content, <<>>))
    BY <1>2, <2>1, <2>2, <2>3
  <2> HIDE <1>1, <1>2, <2>1, <2>2
  <2>5. \/ da = at /\ e = content /\ n \in DOMAIN at
        \/ /\ n \notin DOMAIN at /\ Created(at, n, Len(content) + 1, da)
           /\ content \in Seq(Seq(Cells)) /\ e \in Seq(Seq(Cells))
           /\ Len(e) = Len(content) + 1 /\ Len(content) \in Nat
           /\ e[Len(content) + 1] = <<>>
           /\ \A f \in 1..Len(content) : e[f] = content[f]
    BY <2>4, OpenStep
  <2> QED BY <2>3, <2>5
<1>7. CASE da = dataAt /\ e = content /\ n \in DOMAIN dataAt
  BY <1>1, <1>4, <1>5, <1>7 DEF DataOf, IndexOf, FileSize
<1>8. CASE n \notin DOMAIN dataAt
  <2>1. /\ Created(dataAt, n, Len(content) + 1, da)
        /\ content \in Seq(Seq(Cells)) /\ e \in Seq(Seq(Cells))
        /\ Len(e) = Len(content) + 1 /\ e[Len(content) + 1] = <<>>
        /\ \A f \in 1..Len(content) : e[f] = content[f]
    BY <1>6, <1>8
  <2>2. /\ \A m \in DOMAIN dataAt : dataAt[m] \in 1..Len(content)
        /\ \A m \in DOMAIN idxAt : idxAt[m] \in 1..Len(content)
    BY <1>2 DEF FileTypes, Directory
  <2>3. /\ DOMAIN da = DOMAIN dataAt \cup {n} /\ da[n] = Len(content) + 1
        /\ \A m \in DOMAIN dataAt : da[m] = dataAt[m]
    BY <2>1 DEF Created
  <2>4. \A m \in DOMAIN dataAt : e[da[m]] = content[dataAt[m]] BY <2>1, <2>2, <2>3
  <2>5. \A m \in DOMAIN idxAt : e[idxAt[m]] = content[idxAt[m]] BY <2>1, <2>2
  <2>6. \A m : SizeOf(e, da, m) = SizeOf(content, dataAt, m)
    <3>1. Len(e[Len(content) + 1]) = 0 BY <2>1
    <3>2. SameFiles(content, e, dataAt) BY <2>3, <2>4 DEF SameFiles
    <3>3. Created(dataAt, n, Len(content) + 1, da) BY <2>1
    <3> QED BY <1>8, <3>1, <3>2, <3>3, CreatedSize
  <2>7. \A m : SizeOf(e, idxAt, m) = SizeOf(content, idxAt, m)
    BY <2>5, OtherSize DEF SameFiles
  <2>8. \A m : /\ FileSize(dataAt, m)' = FileSize(dataAt, m)
               /\ FileSize(idxAt, m)' = FileSize(idxAt, m)
    BY <1>1, <1>4, <1>5, <2>6, <2>7 DEF FileSize, SizeOf
  <2>9. DataOf(n)' = <<>> BY <1>4, <1>5, <2>1, <2>3 DEF DataOf
  <2>10. \A m \in DOMAIN dataAt : DataOf(m)' = DataOf(m)
    BY <1>4, <1>5, <2>4 DEF DataOf
  <2>11. \A m \in DOMAIN idxAt : IndexOf(m)' = IndexOf(m)
    BY <1>1, <1>5, <2>5 DEF IndexOf
  <2> QED BY <1>3, <1>4, <2>3, <2>8, <2>9, <2>10, <2>11
<1> QED BY <1>6, <1>7, <1>8

LEMMA OpenDataSound ==
    ASSUME TypeInv, DirectorySound, OpenData
    PROVE  DirectorySound'
<1>0. /\ pc = "openData" /\ pc' = "writeData"
      /\ UNCHANGED <<size, kept, cur, segments, bytesOnDisk, initialized, idxAt>>
  BY DEF OpenData, spillVars, historyVars
<1>1. /\ initialized = TRUE /\ segments \in Seq(Segment) /\ FileTypes /\ StoreTypes
      /\ CollectorSound /\ NamesSound /\ FilesSound /\ KeptSound
      /\ Len(segments) \in 1..Len(segments) /\ Active = segments[Len(segments)]
      /\ bytesOnDisk \in Nat
  BY <1>0, AppendPoint DEF WritePoints
<1>2. PICK n \in SegmentNames : n = Active.name BY <1>0, AppendPoint DEF WritePoints
<1>3. /\ DOMAIN dataAt' = DOMAIN dataAt \cup {n}
      /\ \A m \in DOMAIN dataAt : DataOf(m)' = DataOf(m)
      /\ \A m \in DOMAIN idxAt : IndexOf(m)' = IndexOf(m)
      /\ \A m : /\ FileSize(dataAt, m)' = FileSize(dataAt, m)
                /\ FileSize(idxAt, m)' = FileSize(idxAt, m)
      /\ n \notin DOMAIN dataAt => DataOf(n)' = <<>> /\ n \notin DOMAIN idxAt
  BY <1>2, DataOpened
<1>4. FilesSound'
  <2> SUFFICES ASSUME NEW m \in DOMAIN dataAt' PROVE FileSound(m)' BY DEF FilesSound
  <2>1. CASE m \in DOMAIN dataAt
    <3>1. FileSound(m) BY <1>1, <2>1 DEF FilesSound
    <3> QED BY <1>0, <1>3, <2>1, <3>1, FileKept
  <2>2. CASE m \notin DOMAIN dataAt
    <3>1. DataOf(m)' = <<>> /\ m \notin DOMAIN idxAt' BY <1>0, <1>3, <2>2
    <3>2. Len(DataOf(m)') = 0 BY <3>1
    <3>3. GoodData(size, DataOf(m), Len(DataOf(m)), Len(size))' BY <3>2 DEF GoodData
    <3>4. ~(Len(DataOf(m)') > SegmentBytes) BY <3>2, SpillAssumption
    <3> QED BY <3>1, <3>3, <3>4 DEF FileSound
  <2> QED BY <2>1, <2>2
<1>5. KeptSound'
  <2> SUFFICES ASSUME NEW r \in kept PROVE Kept(r)' BY <1>0 DEF KeptSound
  <2>1. PICK m \in DOMAIN dataAt :
            m \in DOMAIN idxAt /\ Indexed(IndexOf(m), Len(IndexOf(m)), r)
    BY <1>1 DEF KeptSound, Kept
  <2>2. m \in DOMAIN dataAt' /\ m \in DOMAIN idxAt' /\ IndexOf(m)' = IndexOf(m)
    BY <1>0, <1>3, <2>1
  <2> QED BY <2>1, <2>2 DEF Kept
<1>6. \A m \in DOMAIN dataAt : m[1] = n[1] => m = n
  <2> SUFFICES ASSUME NEW m \in DOMAIN dataAt, m # n PROVE m[1] # n[1] OBVIOUS
  <2>1. PICK i \in 1..Len(segments) : segments[i].name = m
    BY <1>1 DEF CollectorSound, MemorySound
  <2>2. i # Len(segments) /\ i < Len(segments) BY <1>1, <1>2, <2>1
  <2>3. m[1] < n[1] BY <1>1, <1>2, <2>1, <2>2 DEF StoreTypes, Ascending
  <2>4. m \in SegmentNames BY <1>1 DEF FileTypes, Directory
  <2>5. m[1] \in Nat /\ n[1] \in Nat BY <1>2, <2>4 DEF SegmentNames
  <2> QED BY <2>3, <2>5
<1>7. NamesSound'
  <2>1. \A k, m \in DOMAIN dataAt' : k[1] = m[1] => k = m
    BY <1>1, <1>3, <1>6 DEF NamesSound
  <2>2. \A m \in DOMAIN idxAt' : \E k \in DOMAIN dataAt' : m[1] <= k[1]
    BY <1>0, <1>1, <1>3 DEF NamesSound
  <2> QED BY <2>1, <2>2 DEF NamesSound
<1>8. \A i : Pending(i) = 0 /\ Pending(i)' = 0 BY <1>0 DEF Pending
<1>9. MemorySound'
  <2>1. \A m \in DOMAIN dataAt' : \E i \in 1..Len(segments') : segments'[i].name = m
    BY <1>0, <1>1, <1>2, <1>3 DEF CollectorSound, MemorySound
  <2>2. ASSUME NEW i \in 1..Len(segments') PROVE SegmentSound(i)'
    <3>1. SegmentSound(i) BY <1>0, <1>1, <2>2 DEF CollectorSound, MemorySound
    <3>2. PICK m : m = segments[i].name OBVIOUS
    <3>3. m \in DOMAIN dataAt' BY <1>0, <1>1, <1>2, <1>3, <3>1, <3>2 DEF SegmentSound
    <3>4. /\ FileSize(dataAt, segments[i].name)' = FileSize(dataAt, m)'
          /\ FileSize(idxAt, segments[i].name)' = FileSize(idxAt, m)'
      BY <1>0, <3>2 DEF FileSize
    <3> QED BY <1>0, <1>3, <1>8, <3>1, <3>2, <3>3, <3>4 DEF SegmentSound
  <2> QED BY <2>1, <2>2 DEF MemorySound
<1>10. ListedSize' = ListedSize
  <2>1. n \notin DOMAIN dataAt => FileSize(dataAt, n) + FileSize(idxAt, n) = 0
    BY <1>3 DEF FileSize
  <2>2. PICK b \in Nat : b = FileSize(dataAt, n) + FileSize(idxAt, n) BY <1>1, FileSizeType
  <2>3. FileSize(dataAt, n)' + FileSize(idxAt, n)' =
            (FileSize(dataAt, n) + FileSize(idxAt, n)) + 0
    BY <1>3, <2>2
  <2>4. ListedSize' = ListedSize + 0 BY <1>1, <1>3, <2>1, <2>3, BytesGrow
  <2>5. ListedSize \in Nat BY <1>1, ListedSizeType
  <2> QED BY <2>4, <2>5
<1>11. BytesSound'
  <2>1. Released = 0 /\ Released' = 0 BY <1>0 DEF Released
  <2>2. Pending(Len(segments)) = 0 /\ Pending(Len(segments))' = 0 BY <1>8
  <2> QED BY <1>0, <1>1, <1>10, <2>1, <2>2 DEF CollectorSound, BytesSound
<1>12. AppendSound'
  <2>1. Active' = Active BY <1>0 DEF Active
  <2> QED BY <1>0, <1>1, <2>1 DEF CollectorSound, AppendSound, EvictPoints
<1>13. EvictSound' BY <1>0 DEF EvictSound
<1> QED BY <1>4, <1>5, <1>7, <1>9, <1>11, <1>12, <1>13 DEF DirectorySound, CollectorSound

\* Nor does opening the index file.
LEMMA IndexOpened ==
    ASSUME TypeInv, DirectorySound, OpenIndex, NEW n, n = Active.name
    PROVE  /\ DOMAIN idxAt' = DOMAIN idxAt \cup {n} /\ n \in DOMAIN dataAt
           /\ \A m \in DOMAIN dataAt : DataOf(m)' = DataOf(m)
           /\ \A m \in DOMAIN idxAt : IndexOf(m)' = IndexOf(m)
           /\ \A m : /\ FileSize(dataAt, m)' = FileSize(dataAt, m)
                     /\ FileSize(idxAt, m)' = FileSize(idxAt, m)
           /\ n \notin DOMAIN idxAt => IndexOf(n)' = <<>>
<1>1. /\ idxAt' = Opened(idxAt, n) /\ dataAt' = dataAt /\ pc = "openIndex"
      /\ content' = IF n \in DOMAIN idxAt THEN content ELSE Append(content, <<>>)
  BY DEF OpenIndex
<1>2. /\ FileTypes /\ SegmentSound(Len(segments)) /\ Active = segments[Len(segments)]
  BY <1>1, AppendPoint DEF WritePoints
<1>3. n \in DOMAIN dataAt BY <1>1, <1>2 DEF SegmentSound
<1>4. PICK ia : ia = idxAt' OBVIOUS
<1>5. PICK e : e = content' OBVIOUS
<1>6. \/ ia = idxAt /\ e = content /\ n \in DOMAIN idxAt
      \/ /\ n \notin DOMAIN idxAt /\ Created(idxAt, n, Len(content) + 1, ia)
         /\ content \in Seq(Seq(Cells)) /\ e \in Seq(Seq(Cells))
         /\ Len(e) = Len(content) + 1 /\ Len(content) \in Nat
         /\ e[Len(content) + 1] = <<>>
         /\ \A f \in 1..Len(content) : e[f] = content[f]
  <2>1. ia = Opened(idxAt, n) BY <1>1, <1>4
  <2>2. e = (IF n \in DOMAIN idxAt THEN content ELSE Append(content, <<>>)) BY <1>1, <1>5
  <2>3. PICK at : at = idxAt OBVIOUS
  <2>4. FileTypes /\ ia = Opened(at, n)
        /\ e = (IF n \in DOMAIN at THEN content ELSE Append(content, <<>>))
    BY <1>2, <2>1, <2>2, <2>3
  <2> HIDE <1>1, <1>2, <2>1, <2>2
  <2>5. \/ ia = at /\ e = content /\ n \in DOMAIN at
        \/ /\ n \notin DOMAIN at /\ Created(at, n, Len(content) + 1, ia)
           /\ content \in Seq(Seq(Cells)) /\ e \in Seq(Seq(Cells))
           /\ Len(e) = Len(content) + 1 /\ Len(content) \in Nat
           /\ e[Len(content) + 1] = <<>>
           /\ \A f \in 1..Len(content) : e[f] = content[f]
    BY <2>4, OpenStep
  <2> QED BY <2>3, <2>5
<1>7. CASE ia = idxAt /\ e = content /\ n \in DOMAIN idxAt
  BY <1>1, <1>3, <1>4, <1>5, <1>7 DEF DataOf, IndexOf, FileSize
<1>8. CASE n \notin DOMAIN idxAt
  <2>1. /\ Created(idxAt, n, Len(content) + 1, ia)
        /\ content \in Seq(Seq(Cells)) /\ e \in Seq(Seq(Cells))
        /\ Len(e) = Len(content) + 1 /\ e[Len(content) + 1] = <<>>
        /\ \A f \in 1..Len(content) : e[f] = content[f]
    BY <1>6, <1>8
  <2>2. /\ \A m \in DOMAIN dataAt : dataAt[m] \in 1..Len(content)
        /\ \A m \in DOMAIN idxAt : idxAt[m] \in 1..Len(content)
    BY <1>2 DEF FileTypes, Directory
  <2>3. /\ DOMAIN ia = DOMAIN idxAt \cup {n} /\ ia[n] = Len(content) + 1
        /\ \A m \in DOMAIN idxAt : ia[m] = idxAt[m]
    BY <2>1 DEF Created
  <2>4. \A m \in DOMAIN idxAt : e[ia[m]] = content[idxAt[m]] BY <2>1, <2>2, <2>3
  <2>5. \A m \in DOMAIN dataAt : e[dataAt[m]] = content[dataAt[m]] BY <2>1, <2>2
  <2>6. \A m : SizeOf(e, ia, m) = SizeOf(content, idxAt, m)
    <3>1. Len(e[Len(content) + 1]) = 0 BY <2>1
    <3>2. SameFiles(content, e, idxAt) BY <2>3, <2>4 DEF SameFiles
    <3>3. Created(idxAt, n, Len(content) + 1, ia) BY <2>1
    <3> QED BY <1>8, <3>1, <3>2, <3>3, CreatedSize
  <2>7. \A m : SizeOf(e, dataAt, m) = SizeOf(content, dataAt, m)
    BY <2>5, OtherSize DEF SameFiles
  <2>8. \A m : /\ FileSize(dataAt, m)' = FileSize(dataAt, m)
               /\ FileSize(idxAt, m)' = FileSize(idxAt, m)
    BY <1>1, <1>4, <1>5, <2>6, <2>7 DEF FileSize, SizeOf
  <2>9. IndexOf(n)' = <<>> BY <1>4, <1>5, <2>1, <2>3 DEF IndexOf
  <2>10. \A m \in DOMAIN dataAt : DataOf(m)' = DataOf(m)
    BY <1>1, <1>5, <2>5 DEF DataOf
  <2>11. \A m \in DOMAIN idxAt : IndexOf(m)' = IndexOf(m)
    BY <1>4, <1>5, <2>4 DEF IndexOf
  <2> QED BY <1>3, <1>4, <2>3, <2>8, <2>9, <2>10, <2>11
<1> QED BY <1>6, <1>7, <1>8

LEMMA OpenIndexSound ==
    ASSUME TypeInv, DirectorySound, OpenIndex
    PROVE  DirectorySound'
<1>0. /\ pc = "openIndex" /\ pc' = "writeIndex"
      /\ UNCHANGED <<size, kept, cur, segments, bytesOnDisk, initialized, dataAt>>
  BY DEF OpenIndex, spillVars, historyVars
<1>1. /\ initialized = TRUE /\ segments \in Seq(Segment) /\ FileTypes /\ StoreTypes
      /\ CollectorSound /\ NamesSound /\ FilesSound /\ KeptSound
      /\ Len(segments) \in 1..Len(segments) /\ Active = segments[Len(segments)]
      /\ bytesOnDisk \in Nat
  BY <1>0, AppendPoint DEF WritePoints
<1>2. PICK n \in SegmentNames : n = Active.name BY <1>0, AppendPoint DEF WritePoints
<1>3. /\ DOMAIN idxAt' = DOMAIN idxAt \cup {n} /\ n \in DOMAIN dataAt
      /\ \A m \in DOMAIN dataAt : DataOf(m)' = DataOf(m)
      /\ \A m \in DOMAIN idxAt : IndexOf(m)' = IndexOf(m)
      /\ \A m : /\ FileSize(dataAt, m)' = FileSize(dataAt, m)
                /\ FileSize(idxAt, m)' = FileSize(idxAt, m)
      /\ n \notin DOMAIN idxAt => IndexOf(n)' = <<>>
  BY <1>2, IndexOpened
<1>4. FilesSound'
  <2> SUFFICES ASSUME NEW m \in DOMAIN dataAt PROVE FileSound(m)'
      BY <1>0 DEF FilesSound
  <2>0. FileSound(m) BY <1>1 DEF FilesSound
  <2>1. CASE m \in DOMAIN idxAt \/ m \notin DOMAIN idxAt'
    <3> QED BY <1>0, <1>3, <2>0, <2>1, FileKept
  <2>2. CASE m \notin DOMAIN idxAt /\ m \in DOMAIN idxAt'
    <3>1. IndexOf(m)' = <<>> BY <1>3, <2>2
    <3>2. Len(IndexOf(m)') = 0 BY <3>1
    <3>3. GoodIndex(size, IndexOf(m), Len(IndexOf(m)), DataOf(m), Len(DataOf(m)), Len(size))'
      BY <3>2 DEF GoodIndex
    <3>4. DataOf(m)' = DataOf(m) BY <1>3
    <3> QED BY <1>0, <2>0, <3>3, <3>4 DEF FileSound
  <2> QED BY <2>1, <2>2
<1>5. KeptSound'
  <2> SUFFICES ASSUME NEW r \in kept PROVE Kept(r)' BY <1>0 DEF KeptSound
  <2>1. PICK m \in DOMAIN dataAt :
            m \in DOMAIN idxAt /\ Indexed(IndexOf(m), Len(IndexOf(m)), r)
    BY <1>1 DEF KeptSound, Kept
  <2>2. m \in DOMAIN dataAt' /\ m \in DOMAIN idxAt' /\ IndexOf(m)' = IndexOf(m)
    BY <1>0, <1>3, <2>1
  <2> QED BY <2>1, <2>2 DEF Kept
<1>6. NamesSound'
  <2>1. n[1] \in Nat /\ n[1] <= n[1] BY <1>2 DEF SegmentNames
  <2>2. \A m \in DOMAIN idxAt' : \E k \in DOMAIN dataAt' : m[1] <= k[1]
    BY <1>0, <1>1, <1>3, <2>1 DEF NamesSound
  <2> QED BY <1>0, <1>1, <2>2 DEF NamesSound
<1>7. \A i : Pending(i)' = Pending(i) BY <1>0 DEF Pending
<1>8. MemorySound'
  <2>1. \A m \in DOMAIN dataAt' : \E i \in 1..Len(segments') : segments'[i].name = m
    BY <1>0, <1>1 DEF CollectorSound, MemorySound
  <2>2. ASSUME NEW i \in 1..Len(segments') PROVE SegmentSound(i)'
    <3>1. SegmentSound(i) BY <1>0, <1>1, <2>2 DEF CollectorSound, MemorySound
    <3>2. PICK m : m = segments[i].name OBVIOUS
    <3>3. m \in DOMAIN dataAt' BY <1>0, <3>1, <3>2 DEF SegmentSound
    <3>4. /\ FileSize(dataAt, segments[i].name)' = FileSize(dataAt, m)'
          /\ FileSize(idxAt, segments[i].name)' = FileSize(idxAt, m)'
      BY <1>0, <3>2 DEF FileSize
    <3> QED BY <1>0, <1>3, <1>7, <3>1, <3>2, <3>3, <3>4 DEF SegmentSound
  <2> QED BY <2>1, <2>2 DEF MemorySound
<1>9. ListedSize' = ListedSize
  <2>1. ListedBytes' = ListedBytes BY <1>0, <1>3 DEF ListedBytes, BytesOf
  <2> QED BY <2>1 DEF ListedSize
<1>10. BytesSound'
  <2>1. Released = 0 /\ Released' = 0 BY <1>0 DEF Released
  <2>2. Pending(Len(segments))' = Pending(Len(segments)) BY <1>0 DEF Pending
  <2> QED BY <1>0, <1>1, <1>9, <2>1, <2>2 DEF CollectorSound, BytesSound
<1>11. AppendSound'
  <2>1. Active' = Active BY <1>0 DEF Active
  <2>2. Block(size, DataOf(n), Len(DataOf(n)), Active.bytes, cur)
    BY <1>0, <1>1, <1>2 DEF CollectorSound, AppendSound
  <2>3. DataOf(n)' = DataOf(n) /\ n \in DOMAIN idxAt' BY <1>3
  <2>4. DataOf(Active.name)' = DataOf(n)' BY <1>2, <2>1 DEF DataOf
  <2> QED BY <1>0, <1>2, <2>1, <2>2, <2>3, <2>4 DEF AppendSound, EvictPoints
<1>12. EvictSound' BY <1>0 DEF EvictSound
<1> QED BY <1>4, <1>5, <1>6, <1>8, <1>10, <1>11, <1>12 DEF DirectorySound, CollectorSound

\* The record is appended to the active segment's data file and to no other.
LEMMA DataWritten ==
    ASSUME TypeInv, DirectorySound, WriteData, NEW n, n = Active.name
    PROVE  /\ n \in DOMAIN dataAt /\ DataOf(n) \in Seq(Cells)
           /\ DataOf(n)' = DataOf(n) \o RecordCells(cur)
           /\ \A m \in DOMAIN dataAt : m # n => DataOf(m)' = DataOf(m)
           /\ \A m \in DOMAIN idxAt : IndexOf(m)' = IndexOf(m)
           /\ FileSize(dataAt, n)' = FileSize(dataAt, n) + size[cur]
           /\ \A m : m # n => FileSize(dataAt, m)' = FileSize(dataAt, m)
           /\ \A m : FileSize(idxAt, m)' = FileSize(idxAt, m)
<1>1. /\ Extended(content, content', dataAt[n], RecordCells(cur)) /\ pc = "writeData"
      /\ UNCHANGED <<dataAt, idxAt>>
  BY DEF WriteData, Written, Extended
<1>2. /\ FileTypes /\ SegmentSound(Len(segments)) /\ Active = segments[Len(segments)]
      /\ cur \in 1..Len(size)
  BY <1>1, AppendPoint DEF WritePoints
<1>3. n \in DOMAIN dataAt BY <1>1, <1>2 DEF SegmentSound
<1>4. DataOf(n) \in Seq(Cells) BY <1>2, <1>3, NameFiles
<1>5. GoodSizes BY <1>1, CurrentCells DEF WritePoints
<1>6. PICK cells \in Seq(Cells) : cells = RecordCells(cur) /\ Len(cells) = size[cur]
  BY <1>2, <1>5, RecordCellsType
<1>7. PICK e : e = content' OBVIOUS
<1>8. /\ content \in Seq(Seq(Cells))
      /\ \A m \in DOMAIN dataAt : dataAt[m] \in 1..Len(content)
      /\ \A m \in DOMAIN idxAt : idxAt[m] \in 1..Len(content)
      /\ \A k, m \in DOMAIN dataAt : dataAt[k] = dataAt[m] => k = m
      /\ \A k \in DOMAIN dataAt, m \in DOMAIN idxAt : dataAt[k] # idxAt[m]
  BY <1>2 DEF FileTypes, Directory
<1>9. PICK f \in 1..Len(content) : f = dataAt[n] BY <1>3, <1>8
<1>10. Extended(content, e, f, cells) BY <1>1, <1>6, <1>7, <1>9
<1>11. e[f] = content[f] \o cells /\ \A g \in 1..Len(content) : g # f => e[g] = content[g]
  <2>1. content \in Seq(Seq(Cells)) BY <1>8
  <2> HIDE <1>8
  <2> QED BY <1>10, <2>1, ExtendedAt
<1>12. DataOf(n)' = DataOf(n) \o RecordCells(cur)
  BY <1>1, <1>6, <1>7, <1>9, <1>11 DEF DataOf
<1>13. \A m \in DOMAIN dataAt : m # n => DataOf(m)' = DataOf(m)
  BY <1>1, <1>3, <1>7, <1>8, <1>9, <1>11 DEF DataOf
<1>14. \A m \in DOMAIN idxAt : e[idxAt[m]] = content[idxAt[m]]
  BY <1>3, <1>8, <1>9, <1>11
<1>15. \A m \in DOMAIN idxAt : IndexOf(m)' = IndexOf(m)
  BY <1>1, <1>7, <1>14 DEF IndexOf
<1>16. FileSize(dataAt, n)' = FileSize(dataAt, n) + size[cur]
  <2>1. Len(DataOf(n) \o cells) = Len(DataOf(n)) + Len(cells) BY <1>4, ConcatFacts
  <2>2. FileSize(dataAt, n)' = Len(DataOf(n)') BY <1>1, <1>3 DEF FileSize, DataOf
  <2>3. FileSize(dataAt, n) = Len(DataOf(n)) BY <1>3 DEF FileSize, DataOf
  <2> QED BY <1>6, <1>12, <2>1, <2>2, <2>3
<1>17. \A m : m # n => FileSize(dataAt, m)' = FileSize(dataAt, m)
  BY <1>1, <1>13 DEF FileSize, DataOf
<1>18. \A m : FileSize(idxAt, m)' = FileSize(idxAt, m)
  BY <1>1, <1>15 DEF FileSize, IndexOf
<1> QED BY <1>3, <1>4, <1>12, <1>13, <1>15, <1>16, <1>17, <1>18

LEMMA WriteDataSound ==
    ASSUME TypeInv, DirectorySound, WriteData
    PROVE  DirectorySound'
<1>0. /\ pc = "writeData" /\ pc' = "openIndex"
      /\ UNCHANGED <<size, kept, cur, segments, bytesOnDisk, initialized, dataAt, idxAt>>
  BY DEF WriteData, spillVars, historyVars
<1>1. /\ initialized = TRUE /\ segments \in Seq(Segment) /\ FileTypes /\ StoreTypes
      /\ CollectorSound /\ NamesSound /\ FilesSound /\ KeptSound
      /\ Len(segments) \in 1..Len(segments) /\ Active = segments[Len(segments)]
      /\ bytesOnDisk \in Nat /\ Active.bytes \in Nat /\ SegmentSound(Len(segments))
  BY <1>0, AppendPoint DEF WritePoints
<1>2. PICK n \in SegmentNames : n = Active.name BY <1>0, AppendPoint DEF WritePoints
<1>3. /\ n \in DOMAIN dataAt /\ DataOf(n) \in Seq(Cells)
      /\ DataOf(n)' = DataOf(n) \o RecordCells(cur)
      /\ \A m \in DOMAIN dataAt : m # n => DataOf(m)' = DataOf(m)
      /\ \A m \in DOMAIN idxAt : IndexOf(m)' = IndexOf(m)
      /\ FileSize(dataAt, n)' = FileSize(dataAt, n) + size[cur]
      /\ \A m : m # n => FileSize(dataAt, m)' = FileSize(dataAt, m)
      /\ \A m : FileSize(idxAt, m)' = FileSize(idxAt, m)
  BY <1>2, DataWritten
<1>4. GoodSizes /\ cur \in 1..Len(size) BY <1>0, CurrentCells DEF WritePoints
<1>5. PICK lim \in Nat : lim = Len(size) /\ cur \in 1..lim /\ SizesAgree(size, size, lim)
  <2>1. Len(size) \in Nat /\ SizesAgree(size, size, Len(size)) BY <1>4 DEF GoodSizes, SizesAgree
  <2> QED BY <1>4, <2>1
<1>6. PICK z \in Nat \ {0, 1} : z = size[cur] BY <1>0, AppendPoint DEF WritePoints
<1>7. PICK d \in Seq(Cells) : d = DataOf(n) BY <1>3
<1>8. PICK e : e = DataOf(n)' OBVIOUS
<1>9. PICK l \in Nat : l = Len(d) BY <1>7
<1>10. /\ e \in Seq(Cells) /\ Len(e) = l + z /\ Agree(d, e, l)
       /\ \A k \in 1..size[cur] : e[l + k] = Cell(cur, k)
  <2>1. PICK cells \in Seq(Cells) : /\ cells = RecordCells(cur) /\ Len(cells) = size[cur]
                                    /\ \A k \in 1..size[cur] : cells[k] = Cell(cur, k)
    BY <1>4, RecordCellsType
  <2>2. e = d \o cells BY <1>3, <1>7, <1>8, <2>1
  <2>3. /\ d \o cells \in Seq(Cells) /\ Len(d \o cells) = Len(d) + Len(cells)
        /\ Agree(d, d \o cells, Len(d))
        /\ \A k \in 1..Len(cells) : (d \o cells)[Len(d) + k] = cells[k]
    BY ConcatFacts
  <2> QED BY <1>6, <1>9, <2>1, <2>2, <2>3
<1>11. GoodData(size, d, l, lim) BY <1>1, <1>3, <1>5, <1>7, <1>9 DEF FilesSound, FileSound
<1>12. GoodData(size, e, Len(e), lim) /\ Block(size, e, Len(e), l, cur)
  <2>1. GoodData(size, e, l + size[cur], lim) /\ Block(size, e, l + size[cur], l, cur)
    BY <1>5, <1>10, <1>11, DataAppended
  <2> QED BY <1>6, <1>10, <2>1
<1>13. l = Active.bytes
  <2>1. Pending(Len(segments)) = 0 BY <1>0 DEF Pending
  <2>2. FileSize(dataAt, n) = Active.bytes + 0 BY <1>1, <1>2, <2>1 DEF SegmentSound
  <2>3. FileSize(dataAt, n) = Len(DataOf(n)) BY <1>1, <1>3, NameFiles
  <2> QED BY <1>1, <1>7, <1>9, <2>2, <2>3
<1>14. Len(e) > SegmentBytes => OneRecord(e)
  <2> SUFFICES ASSUME Len(e) > SegmentBytes PROVE OneRecord(e) OBVIOUS
  <2>1. Active.bytes > 0 => Active.bytes + size[cur] <= SegmentBytes
    BY <1>0, <1>1 DEF CollectorSound, AppendSound
  <2>2. SegmentBytes \in Nat BY SpillAssumption
  <2>3. l = 0 BY <1>6, <1>10, <1>13, <2>1, <2>2
  <2>4. ASSUME NEW i \in 1..Len(e) PROVE e[i].rec = cur
    <3>1. i \in 1..size[cur] /\ l + i = i BY <1>6, <1>10, <2>3, <2>4
    <3>2. e[i] = Cell(cur, i) BY <1>10, <3>1
    <3> QED BY <3>2, CellFields
  <2> QED BY <2>4 DEF OneRecord
<1>15. FilesSound'
  <2> SUFFICES ASSUME NEW m \in DOMAIN dataAt PROVE FileSound(m)'
      BY <1>0 DEF FilesSound
  <2>0. FileSound(m) BY <1>1 DEF FilesSound
  <2>1. CASE m # n BY <1>0, <1>3, <2>0, <2>1, FileKept
  <2>2. CASE m = n
    <3>1. ASSUME n \in DOMAIN idxAt
          PROVE  GoodIndex(size, IndexOf(n), Len(IndexOf(n)), e, Len(e), lim)
      <4>1. PICK x \in Seq(Cells) : x = IndexOf(n) BY <1>1, <1>3, <3>1, NameFiles
      <4>2. Len(x) \in Nat /\ Agree(x, x, Len(x)) BY DEF Agree
      <4>3. GoodIndex(size, x, Len(x), d, l, lim)
        BY <1>5, <1>7, <1>9, <2>0, <2>2, <3>1, <4>1 DEF FileSound
      <4>4. Len(e) \in Nat /\ l <= Len(e) /\ lim <= lim BY <1>6, <1>10
      <4>5. GoodIndex(size, x, Len(x), e, Len(e), lim)
        BY <1>5, <1>10, <4>2, <4>3, <4>4, GoodIndexMono
      <4> QED BY <4>1, <4>5
    <3>2. n \in DOMAIN idxAt => IndexOf(n)' = IndexOf(n) BY <1>3
    <3> QED BY <1>0, <1>5, <1>8, <1>12, <1>14, <2>2, <3>1, <3>2 DEF FileSound
  <2> QED BY <2>1, <2>2
<1>16. KeptSound'
  <2> SUFFICES ASSUME NEW r \in kept PROVE Kept(r)' BY <1>0 DEF KeptSound
  <2>1. PICK m \in DOMAIN dataAt :
            m \in DOMAIN idxAt /\ Indexed(IndexOf(m), Len(IndexOf(m)), r)
    BY <1>1 DEF KeptSound, Kept
  <2> QED BY <1>0, <1>3, <2>1 DEF Kept
<1>17. NamesSound' BY <1>0, <1>1, NamesFrame
<1>18. /\ \A i : i # Len(segments) => Pending(i) = 0 /\ Pending(i)' = 0
       /\ Pending(Len(segments)) = 0 /\ Pending(Len(segments))' = z
  BY <1>0, <1>6 DEF Pending
<1>19. MemorySound'
  <2>1. \A m \in DOMAIN dataAt' : \E i \in 1..Len(segments') : segments'[i].name = m
    BY <1>0, <1>1 DEF CollectorSound, MemorySound
  <2>2. ASSUME NEW i \in 1..Len(segments') PROVE SegmentSound(i)'
    <3>1. SegmentSound(i) BY <1>0, <1>1, <2>2 DEF CollectorSound, MemorySound
    <3>2. PICK m : m = segments[i].name OBVIOUS
    <3>3. m \in DOMAIN dataAt' BY <1>0, <3>1, <3>2 DEF SegmentSound
    <3>4. /\ FileSize(dataAt, segments[i].name)' = FileSize(dataAt, m)'
          /\ FileSize(idxAt, segments[i].name)' = FileSize(idxAt, m)'
      BY <1>0, <3>2 DEF FileSize
    <3>5. FileSize(dataAt, m) = segments[i].bytes + Pending(i) BY <3>1, <3>2 DEF SegmentSound
    <3>6. FileSize(dataAt, m)' = segments[i].bytes + Pending(i)'
      <4>1. CASE i = Len(segments)
        <5>1. m = n /\ segments[i].bytes \in Nat BY <1>1, <1>2, <3>2, <4>1
        <5>2. Pending(i) = 0 /\ Pending(i)' = z BY <1>18, <4>1
        <5>3. FileSize(dataAt, m)' = (segments[i].bytes + 0) + z BY <1>3, <1>6, <3>5, <5>1, <5>2
        <5> QED BY <5>1, <5>2, <5>3
      <4>2. CASE i # Len(segments)
        <5>1. i < Len(segments) BY <1>0, <1>1, <2>2, <4>2
        <5>2. m[1] < n[1] /\ m \in SegmentNames
          <6>1. segments[i] \in Segment BY <1>0, <1>1, <2>2
          <6>2. m[1] < n[1]
            BY <1>0, <1>1, <1>2, <2>2, <3>2, <5>1 DEF StoreTypes, Ascending
          <6> QED BY <3>2, <6>1, <6>2 DEF Segment
        <5>3. m # n
          <6>1. m[1] \in Nat BY <5>2 DEF SegmentNames
          <6> QED BY <5>2, <6>1
        <5>4. Pending(i) = 0 /\ Pending(i)' = 0 BY <1>18, <4>2
        <5> QED BY <1>3, <3>5, <5>3, <5>4
      <4> QED BY <4>1, <4>2
    <3> QED BY <1>0, <1>3, <3>1, <3>2, <3>3, <3>4, <3>6 DEF SegmentSound
  <2> QED BY <2>1, <2>2 DEF MemorySound
<1>20. ListedSize' = ListedSize + z
  <2>1. PICK a \in Nat, b \in Nat : a = FileSize(dataAt, n) /\ b = FileSize(idxAt, n)
    BY <1>1, FileSizeType
  <2>2. FileSize(dataAt, n)' = a + z /\ FileSize(idxAt, n)' = b BY <1>3, <1>6, <2>1
  <2>3. FileSize(dataAt, n)' + FileSize(idxAt, n)' =
            (FileSize(dataAt, n) + FileSize(idxAt, n)) + z
    BY <2>1, <2>2
  <2>4. DOMAIN dataAt' = DOMAIN dataAt \cup {n} BY <1>0, <1>3
  <2> QED BY <1>1, <1>3, <1>6, <2>3, <2>4, BytesGrow
<1>21. BytesSound'
  <2>1. Released = 0 /\ Released' = 0 BY <1>0 DEF Released
  <2>2. Pending(Len(segments)) = 0 /\ Pending(Len(segments))' = z BY <1>0, <1>18
  <2>3. bytesOnDisk + 0 = ListedSize + 0 BY <1>1, <2>1, <2>2 DEF CollectorSound, BytesSound
  <2>4. ListedSize \in Nat BY <1>1, ListedSizeType
  <2>5. bytesOnDisk' + z = ListedSize' + 0 BY <1>0, <1>1, <1>20, <2>3, <2>4
  <2> QED BY <1>0, <2>1, <2>2, <2>5 DEF BytesSound
<1>22. AppendSound'
  <2>1. Active' = Active BY <1>0 DEF Active
  <2>2. DataOf(Active.name)' = e BY <1>2, <1>8, <2>1 DEF DataOf
  <2> QED BY <1>0, <1>12, <1>13, <2>1, <2>2 DEF AppendSound, EvictPoints
<1>23. EvictSound' BY <1>0 DEF EvictSound
<1> QED BY <1>15, <1>16, <1>17, <1>19, <1>21, <1>22, <1>23 DEF DirectorySound, CollectorSound

\* The line is appended to the active segment's index file and to no other.
LEMMA IndexWritten ==
    ASSUME TypeInv, DirectorySound, WriteIndex, NEW n, n = Active.name
    PROVE  /\ n \in DOMAIN dataAt /\ n \in DOMAIN idxAt /\ IndexOf(n) \in Seq(Cells)
           /\ IndexOf(n)' = IndexOf(n) \o LineCells(cur, Offset)
           /\ \A m \in DOMAIN dataAt : DataOf(m)' = DataOf(m)
           /\ \A m \in DOMAIN idxAt : m # n => IndexOf(m)' = IndexOf(m)
           /\ FileSize(idxAt, n)' = FileSize(idxAt, n) + IndexBytes
           /\ \A m : m # n => FileSize(idxAt, m)' = FileSize(idxAt, m)
           /\ \A m : FileSize(dataAt, m)' = FileSize(dataAt, m)
<1>1. /\ Extended(content, content', idxAt[n], LineCells(cur, Offset)) /\ pc = "writeIndex"
      /\ UNCHANGED <<dataAt, idxAt>>
  BY DEF WriteIndex, Written, Extended
<1>2. /\ FileTypes /\ SegmentSound(Len(segments)) /\ Active = segments[Len(segments)]
      /\ CollectorSound
  BY <1>1, AppendPoint DEF WritePoints
<1>3. n \in DOMAIN dataAt /\ n \in DOMAIN idxAt
  BY <1>1, <1>2 DEF SegmentSound, CollectorSound, AppendSound
<1>4. IndexOf(n) \in Seq(Cells) BY <1>2, <1>3, NameFiles
<1>5. cur \in Nat /\ Offset \in Nat BY <1>1, CurrentCells DEF WritePoints
<1>6. PICK cells \in Seq(Cells) : cells = LineCells(cur, Offset) /\ Len(cells) = IndexBytes
  BY <1>5, LineCellsType
<1>7. PICK e : e = content' OBVIOUS
<1>8. /\ content \in Seq(Seq(Cells))
      /\ \A m \in DOMAIN dataAt : dataAt[m] \in 1..Len(content)
      /\ \A m \in DOMAIN idxAt : idxAt[m] \in 1..Len(content)
      /\ \A k, m \in DOMAIN idxAt : idxAt[k] = idxAt[m] => k = m
      /\ \A k \in DOMAIN dataAt, m \in DOMAIN idxAt : dataAt[k] # idxAt[m]
  BY <1>2 DEF FileTypes, Directory
<1>9. PICK f \in 1..Len(content) : f = idxAt[n] BY <1>3, <1>8
<1>10. Extended(content, e, f, cells) BY <1>1, <1>6, <1>7, <1>9
<1>11. e[f] = content[f] \o cells /\ \A g \in 1..Len(content) : g # f => e[g] = content[g]
  <2>1. content \in Seq(Seq(Cells)) BY <1>8
  <2> HIDE <1>8
  <2> QED BY <1>10, <2>1, ExtendedAt
<1>12. IndexOf(n)' = IndexOf(n) \o LineCells(cur, Offset)
  BY <1>1, <1>6, <1>7, <1>9, <1>11 DEF IndexOf
<1>13. \A m \in DOMAIN idxAt : m # n => IndexOf(m)' = IndexOf(m)
  BY <1>1, <1>3, <1>7, <1>8, <1>9, <1>11 DEF IndexOf
<1>14. \A m \in DOMAIN dataAt : e[dataAt[m]] = content[dataAt[m]]
  BY <1>3, <1>8, <1>9, <1>11
<1>15. \A m \in DOMAIN dataAt : DataOf(m)' = DataOf(m)
  BY <1>1, <1>7, <1>14 DEF DataOf
<1>16. FileSize(idxAt, n)' = FileSize(idxAt, n) + IndexBytes
  <2>1. Len(IndexOf(n) \o cells) = Len(IndexOf(n)) + Len(cells) BY <1>4, ConcatFacts
  <2>2. FileSize(idxAt, n)' = Len(IndexOf(n)') BY <1>1, <1>3 DEF FileSize, IndexOf
  <2>3. FileSize(idxAt, n) = Len(IndexOf(n)) BY <1>3 DEF FileSize, IndexOf
  <2> QED BY <1>6, <1>12, <2>1, <2>2, <2>3
<1>17. \A m : m # n => FileSize(idxAt, m)' = FileSize(idxAt, m)
  BY <1>1, <1>13 DEF FileSize, IndexOf
<1>18. \A m : FileSize(dataAt, m)' = FileSize(dataAt, m)
  BY <1>1, <1>15 DEF FileSize, DataOf
<1> QED BY <1>3, <1>4, <1>12, <1>13, <1>15, <1>16, <1>17, <1>18

LEMMA WriteIndexSound ==
    ASSUME TypeInv, DirectorySound, WriteIndex
    PROVE  DirectorySound'
<1>0. /\ pc = "writeIndex" /\ pc' = "evict" /\ then' = "ack"
      /\ segments' = Grown(segments, size[cur], IndexBytes)
      /\ bytesOnDisk' = bytesOnDisk + size[cur] + IndexBytes
      /\ UNCHANGED <<size, kept, cur, initialized, dataAt, idxAt>>
  BY DEF WriteIndex, historyVars, Grown, Active
<1>1. /\ initialized = TRUE /\ segments \in Seq(Segment) /\ segments # <<>>
      /\ FileTypes /\ StoreTypes
      /\ CollectorSound /\ NamesSound /\ FilesSound /\ KeptSound
      /\ Len(segments) \in 1..Len(segments) /\ Active = segments[Len(segments)]
      /\ bytesOnDisk \in Nat /\ Active.bytes \in Nat /\ Active.ibytes \in Nat
      /\ SegmentSound(Len(segments))
  BY <1>0, AppendPoint DEF WritePoints
<1>2. PICK n \in SegmentNames : n = Active.name BY <1>0, AppendPoint DEF WritePoints
<1>3. /\ n \in DOMAIN dataAt /\ n \in DOMAIN idxAt /\ IndexOf(n) \in Seq(Cells)
      /\ IndexOf(n)' = IndexOf(n) \o LineCells(cur, Offset)
      /\ \A m \in DOMAIN dataAt : DataOf(m)' = DataOf(m)
      /\ \A m \in DOMAIN idxAt : m # n => IndexOf(m)' = IndexOf(m)
      /\ FileSize(idxAt, n)' = FileSize(idxAt, n) + IndexBytes
      /\ \A m : m # n => FileSize(idxAt, m)' = FileSize(idxAt, m)
      /\ \A m : FileSize(dataAt, m)' = FileSize(dataAt, m)
  BY <1>2, IndexWritten
<1>4. /\ cur \in 1..Len(size) /\ cur \in Nat /\ Offset \in Nat /\ GoodSizes
  BY <1>0, CurrentCells DEF WritePoints
<1>5. PICK lim \in Nat : lim = Len(size) /\ cur \in 1..lim BY <1>4 DEF GoodSizes
<1>6. PICK z \in Nat \ {0, 1} : z = size[cur] BY <1>0, AppendPoint DEF WritePoints
<1>7. PICK d \in Seq(Cells) : d = DataOf(n) BY <1>1, <1>3, NameFiles
<1>8. PICK x \in Seq(Cells) : x = IndexOf(n) BY <1>3
<1>9. PICK y : y = IndexOf(n)' OBVIOUS
<1>10. PICK k \in Nat : k = Len(x) BY <1>8
<1>11. PICK N \in Nat : N = Len(d) BY <1>7
<1>12. PICK off \in Nat : off = Offset BY <1>4
<1>13. IndexBytes \in Nat \ {0, 1} BY SpillAssumption
<1>14. /\ y \in Seq(Cells) /\ Len(y) = k + IndexBytes /\ Agree(x, y, k)
       /\ \A j \in 1..IndexBytes : y[k + j] = IndexCell(cur, j, off)
  <2>1. PICK cells \in Seq(Cells) :
            /\ cells = LineCells(cur, off) /\ Len(cells) = IndexBytes
            /\ \A j \in 1..IndexBytes : cells[j] = IndexCell(cur, j, off)
    BY <1>4, LineCellsType
  <2>2. y = x \o cells BY <1>3, <1>8, <1>9, <1>12, <2>1
  <2>3. /\ x \o cells \in Seq(Cells) /\ Len(x \o cells) = Len(x) + Len(cells)
        /\ Agree(x, x \o cells, Len(x))
        /\ \A j \in 1..Len(cells) : (x \o cells)[Len(x) + j] = cells[j]
    BY ConcatFacts
  <2> QED BY <1>10, <2>1, <2>2, <2>3
<1>15. Block(size, d, N, off, cur)
  BY <1>0, <1>1, <1>2, <1>7, <1>11, <1>12 DEF CollectorSound, AppendSound, Offset
<1>16. off \in 0..N
  <2>1. off + z <= N BY <1>6, <1>15 DEF Block
  <2> QED BY <2>1
<1>17. GoodIndex(size, x, k, d, N, lim)
  BY <1>1, <1>3, <1>5, <1>7, <1>8, <1>10, <1>11 DEF FilesSound, FileSound
<1>18. GoodIndex(size, y, Len(y), d, N, lim) /\ Indexed(y, Len(y), cur)
  <2>1. GoodIndex(size, y, k + IndexBytes, d, N, lim) /\ Indexed(y, k + IndexBytes, cur)
    BY <1>5, <1>14, <1>15, <1>16, <1>17, IndexAppended
  <2> QED BY <1>14, <2>1
<1>19. FilesSound'
  <2> SUFFICES ASSUME NEW m \in DOMAIN dataAt PROVE FileSound(m)'
      BY <1>0 DEF FilesSound
  <2>0. FileSound(m) BY <1>1 DEF FilesSound
  <2>1. CASE m # n BY <1>0, <1>3, <2>0, <2>1, FileKept
  <2>2. CASE m = n
    <3>1. DataOf(n)' = d BY <1>3, <1>7
    <3> QED BY <1>0, <1>5, <1>7, <1>9, <1>11, <1>18, <2>0, <2>2, <3>1 DEF FileSound
  <2> QED BY <2>1, <2>2
<1>20. KeptSound'
  <2> SUFFICES ASSUME NEW r \in kept PROVE Kept(r)' BY <1>0 DEF KeptSound
  <2>1. PICK m \in DOMAIN dataAt :
            m \in DOMAIN idxAt /\ Indexed(IndexOf(m), Len(IndexOf(m)), r)
    BY <1>1 DEF KeptSound, Kept
  <2>2. CASE m # n BY <1>0, <1>3, <2>1, <2>2 DEF Kept
  <2>3. CASE m = n
    <3>1. PICK j \in 1..k : x[j].rec = r BY <1>8, <1>10, <2>1, <2>3 DEF Indexed
    <3>2. y[j] = x[j] BY <1>14 DEF Agree
    <3>3. j \in 1..Len(y) BY <1>13, <1>14
    <3>4. Indexed(y, Len(y), r) BY <3>1, <3>2, <3>3 DEF Indexed
    <3> QED BY <1>0, <1>9, <2>1, <2>3, <3>4 DEF Kept
  <2> QED BY <2>2, <2>3
<1>21. NamesSound' BY <1>0, <1>1, NamesFrame
<1>22. /\ segments' \in Seq(Segment) /\ Len(segments') = Len(segments)
       /\ \A i \in 1..Len(segments) : segments'[i].name = segments[i].name
       /\ \A i \in 1..Len(segments) : i # Len(segments) => segments'[i] = segments[i]
       /\ segments'[Len(segments)].bytes = Active.bytes + z
       /\ segments'[Len(segments)].ibytes = Active.ibytes + IndexBytes
  <2>1. segments' = Grown(segments, z, IndexBytes) BY <1>0, <1>6
  <2>2. z \in Nat /\ IndexBytes \in Nat BY <1>6, <1>13
  <2>3. PICK s \in Seq(Segment) : s = segments /\ s # <<>> BY <1>1
  <2>4. segments' = Grown(s, z, IndexBytes) BY <2>1, <2>3
  <2>5. /\ Grown(s, z, IndexBytes) \in Seq(Segment) /\ Len(Grown(s, z, IndexBytes)) = Len(s)
        /\ \A i \in 1..Len(s) : Grown(s, z, IndexBytes)[i].name = s[i].name
        /\ \A i \in 1..Len(s) : i # Len(s) => Grown(s, z, IndexBytes)[i] = s[i]
        /\ Grown(s, z, IndexBytes)[Len(s)].bytes = s[Len(s)].bytes + z
        /\ Grown(s, z, IndexBytes)[Len(s)].ibytes = s[Len(s)].ibytes + IndexBytes
    BY <2>2, <2>3, GrownFacts
  <2> QED BY <1>1, <2>3, <2>4, <2>5
<1>23. /\ \A i : i # Len(segments) => Pending(i) = 0
       /\ Pending(Len(segments)) = z /\ \A i : Pending(i)' = 0
  BY <1>0, <1>6 DEF Pending
<1>24. MemorySound'
  <2>1. \A m \in DOMAIN dataAt' : \E i \in 1..Len(segments') : segments'[i].name = m
    <3> SUFFICES ASSUME NEW m \in DOMAIN dataAt
                 PROVE  \E i \in 1..Len(segments') : segments'[i].name = m
        BY <1>0
    <3>1. PICK i \in 1..Len(segments) : segments[i].name = m
      BY <1>1 DEF CollectorSound, MemorySound
    <3>2. i \in 1..Len(segments') /\ segments'[i].name = m BY <1>22, <3>1
    <3> QED BY <3>2
  <2>2. ASSUME NEW i \in 1..Len(segments) PROVE SegmentSound(i)'
    <3>1. SegmentSound(i) BY <1>1, <2>2 DEF CollectorSound, MemorySound
    <3>2. PICK m : m = segments[i].name OBVIOUS
    <3>3. m \in DOMAIN dataAt' /\ segments'[i].name = m
      BY <1>0, <1>22, <2>2, <3>1, <3>2 DEF SegmentSound
    <3>4. /\ FileSize(dataAt, segments[i].name)' = FileSize(dataAt, m)'
          /\ FileSize(idxAt, segments[i].name)' = FileSize(idxAt, m)'
      BY <3>3 DEF FileSize
    <3>5. /\ FileSize(dataAt, m) = segments[i].bytes + Pending(i)
          /\ FileSize(idxAt, m) = segments[i].ibytes
      BY <3>1, <3>2 DEF SegmentSound
    <3>6. segments[i] \in Segment BY <1>1, <2>2
    <3>7. segments[i].bytes \in Nat /\ segments[i].name \in SegmentNames
      BY <3>6 DEF Segment
    <3>8. /\ FileSize(dataAt, m)' = segments'[i].bytes + Pending(i)'
          /\ FileSize(idxAt, m)' = segments'[i].ibytes
      <4>1. CASE i = Len(segments)
        <5>1. m = n /\ segments[i] = Active BY <1>1, <1>2, <3>2, <4>1
        <5>2. FileSize(dataAt, m)' = Active.bytes + z BY <1>3, <1>23, <3>5, <4>1, <5>1
        <5>3. FileSize(idxAt, m)' = Active.ibytes + IndexBytes BY <1>3, <3>5, <5>1
        <5>4. segments'[i].bytes + Pending(i)' = Active.bytes + z
          BY <1>1, <1>6, <1>22, <1>23, <4>1
        <5> QED BY <1>22, <4>1, <5>2, <5>3, <5>4
      <4>2. CASE i # Len(segments)
        <5>1. i < Len(segments) BY <1>1, <2>2, <4>2
        <5>2. m[1] < n[1]
          BY <1>1, <1>2, <2>2, <3>2, <5>1 DEF StoreTypes, Ascending
        <5>3. m # n
          <6>1. m[1] \in Nat BY <3>2, <3>7 DEF SegmentNames
          <6> QED BY <5>2, <6>1
        <5>4. segments'[i] = segments[i] /\ Pending(i) = 0 /\ Pending(i)' = 0
          BY <1>22, <1>23, <2>2, <4>2
        <5> QED BY <1>3, <3>5, <5>3, <5>4
      <4> QED BY <4>1, <4>2
    <3> QED BY <3>3, <3>4, <3>8 DEF SegmentSound
  <2> QED BY <1>22, <2>1, <2>2 DEF MemorySound
<1>25. ListedSize' = ListedSize + IndexBytes
  <2>1. PICK a \in Nat, b \in Nat : a = FileSize(dataAt, n) /\ b = FileSize(idxAt, n)
    BY <1>1, FileSizeType
  <2>2. FileSize(dataAt, n)' = a /\ FileSize(idxAt, n)' = b + IndexBytes BY <1>3, <2>1
  <2>3. FileSize(dataAt, n)' + FileSize(idxAt, n)' =
            (FileSize(dataAt, n) + FileSize(idxAt, n)) + IndexBytes
    BY <1>13, <2>1, <2>2
  <2>4. DOMAIN dataAt' = DOMAIN dataAt \cup {n} /\ IndexBytes \in Nat BY <1>0, <1>3, <1>13
  <2> QED BY <1>1, <1>3, <2>3, <2>4, BytesGrow
<1>26. BytesSound'
  <2>1. Released = 0 /\ Released' = 0 BY <1>0 DEF Released
  <2>2. Pending(Len(segments))' = 0 BY <1>0 DEF Pending
  <2>3. bytesOnDisk + z = ListedSize + 0 BY <1>1, <1>23, <2>1 DEF CollectorSound, BytesSound
  <2>4. ListedSize \in Nat BY <1>1, ListedSizeType
  <2>5. bytesOnDisk' = bytesOnDisk + z + IndexBytes BY <1>0, <1>6
  <2>6. bytesOnDisk' + 0 = ListedSize' + 0 BY <1>1, <1>6, <1>13, <1>25, <2>3, <2>4, <2>5
  <2> QED BY <1>0, <2>1, <2>2, <2>6 DEF BytesSound
<1>27. AppendSound'
  <2>1. Active'.name = n BY <1>1, <1>2, <1>22 DEF Active
  <2>2. segments' # <<>> BY <1>1, <1>22
  <2>3. IndexOf(Active.name)' = y BY <1>9, <2>1 DEF IndexOf
  <2>4. CurrentIndexed' BY <1>0, <1>3, <1>18, <2>1, <2>2, <2>3 DEF CurrentIndexed
  <2> QED BY <1>0, <2>4 DEF AppendSound
<1>28. EvictSound' BY <1>0 DEF EvictSound
<1> QED BY <1>19, <1>20, <1>21, <1>24, <1>26, <1>27, <1>28 DEF DirectorySound, CollectorSound

-----------------------------------------------------------------------------
(***************************************************************************)
(* The inductive invariant, and what it implies.                           *)
(***************************************************************************)
LEMMA SpillInit == Init => SpillInv
<1> SUFFICES ASSUME Init PROVE SpillInv OBVIOUS
<1>1. TypeInv BY TypeInit
<1>2. /\ DOMAIN dataAt = {} /\ DOMAIN idxAt = {} /\ kept = {} /\ initialized = FALSE
      /\ snap.state = "none"
  BY DEF Init, NoFiles, NoSnap
<1>3. FilesSound /\ KeptSound /\ NamesSound
  BY <1>2 DEF FilesSound, KeptSound, NamesSound
<1>4. DirectorySound BY <1>2, <1>3 DEF DirectorySound
<1>5. SnapshotSound BY <1>2 DEF SnapshotSound
<1>6. OrphansSound
  <2>1. Orphans \ Leaving = {} BY <1>2 DEF Orphans
  <2>2. Cardinality({}) = 0 /\ crashes = 0 BY FS_EmptySet DEF Init
  <2> QED BY <2>1, <2>2 DEF OrphansSound
<1> QED BY <1>1, <1>4, <1>5, <1>6 DEF SpillInv

\* The directory stays sound whatever step is taken, death of the process
\* between two file operations included.
LEMMA DirectoryStep ==
    ASSUME TypeInv, DirectorySound, [Next]_vars, faults' = 0
    PROVE  DirectorySound'
<1>1. CASE \/ CallStats \/ CallSnapshot \/ CallClear
           \/ OpenSnapshot \/ OpenSnapshotFails \/ ReadSnapshot \/ Report
           \/ (Crash /\ pc # "clear") \/ UNCHANGED vars
  BY <1>1, QuietSteps
<1>2. CASE CallAppend BY <1>2, CallAppendSound
<1>3. CASE Scan BY <1>3, ScanSound
<1>4. CASE RemoveData BY <1>4, RemoveDataSound
<1>5. CASE RemoveIndex BY <1>5, RemoveIndexSound
<1>6. CASE WithinBudget BY <1>6, WithinBudgetSound
<1>7. CASE Place BY <1>7, PlaceSound
<1>8. CASE OpenData BY <1>8, OpenDataSound
<1>9. CASE OpenIndex BY <1>9, OpenIndexSound
<1>10. CASE WriteData BY <1>10, WriteDataSound
<1>11. CASE WriteIndex BY <1>11, WriteIndexSound
<1>12. CASE Acknowledge BY <1>12, AcknowledgeSound
<1>13. CASE ClearFile \/ ClearDone BY <1>13, ClearSound
<1> QED BY <1>1, <1>2, <1>3, <1>4, <1>5, <1>6, <1>7, <1>8, <1>9, <1>10, <1>11, <1>12,
          <1>13, StepCases

\* Fewer files without their data file, and as many deaths.
LEMMA OrphansShrink ==
    ASSUME TypeInv, OrphansSound, pc # "clear", crashes' = crashes,
           Orphans' \ Leaving' \subseteq Orphans \ Leaving
    PROVE  OrphansSound'
<1>1. PICK S : S = Orphans \ Leaving OBVIOUS
<1>2. PICK T : T = Orphans' \ Leaving' OBVIOUS
<1>3. IsFiniteSet(S)
  <2>1. IsFiniteSet(DOMAIN idxAt) BY DEF TypeInv, FileTypes, Directory
  <2>2. S \subseteq DOMAIN idxAt BY <1>1 DEF Orphans
  <2> QED BY <2>1, <2>2, FS_Subset
<1>4. T \subseteq S BY <1>1, <1>2
<1>5. Cardinality(T) <= Cardinality(S) /\ Cardinality(T) \in Nat /\ Cardinality(S) \in Nat
  BY <1>3, <1>4, FS_Subset, FS_CardinalityType
<1>6. Cardinality(S) <= crashes /\ crashes \in Nat
  BY <1>1 DEF OrphansSound, TypeInv, CounterTypes
<1>7. Cardinality(T) <= crashes' BY <1>5, <1>6
<1> QED BY <1>2, <1>7 DEF OrphansSound

\* Only a death in the middle of an eviction leaves an index file behind.
LEMMA OrphansStep ==
    ASSUME TypeInv, DirectorySound, OrphansSound, [Next]_vars, faults' = 0
    PROVE  OrphansSound'
<1>0. /\ IsFiniteSet(DOMAIN idxAt) /\ crashes \in Nat
      /\ pc \notin {"idle", "scan", "clear"} => initialized = TRUE
  BY DEF TypeInv, FileTypes, Directory, CounterTypes, ControlTypes
<1>1. CASE \/ CallAppend \/ CallStats \/ CallSnapshot \/ Scan \/ WithinBudget \/ Place
           \/ WriteData \/ WriteIndex \/ Acknowledge \/ OpenSnapshot \/ OpenSnapshotFails
  <2>1. /\ UNCHANGED <<dataAt, idxAt, crashes>> /\ pc # "clear"
        /\ pc # "evictIndex"
    BY <1>1 DEF CallAppend, CallStats, CallSnapshot, Request, Scan, WithinBudget, Place,
       WriteData, WriteIndex, Acknowledge, OpenSnapshot, OpenSnapshotFails, diskVars,
       boundVars
  <2>2. Orphans' = Orphans BY <2>1 DEF Orphans
  <2>3. Leaving = {} BY <2>1 DEF Leaving
  <2> QED BY <2>1, <2>2, <2>3, OrphansShrink
<1>2. CASE ReadSnapshot \/ Report \/ UNCHANGED vars
  <2>1. UNCHANGED <<dataAt, idxAt, crashes, pc, victim>>
    BY <1>2 DEF ReadSnapshot, Report, vars, controlVars, diskVars, boundVars
  <2>2. Orphans' = Orphans /\ Leaving' = Leaving BY <2>1 DEF Orphans, Leaving
  <2> QED BY <2>1, <2>2 DEF OrphansSound
<1>3. CASE CallClear \/ ClearFile
  <2>1. pc' = "clear" BY <1>3 DEF CallClear, ClearFile, controlVars
  <2> QED BY <2>1 DEF OrphansSound
<1>4. CASE ClearDone
  <2>1. Names = {} /\ UNCHANGED <<dataAt, idxAt, crashes>>
    BY <1>4 DEF ClearDone, diskVars, boundVars
  <2>2. Orphans' \ Leaving' = {} BY <2>1 DEF Names, Orphans
  <2>3. Cardinality({}) = 0 BY FS_EmptySet
  <2> QED BY <1>0, <2>1, <2>2, <2>3 DEF OrphansSound
<1>5. CASE RemoveData
  <2>1. /\ pc = "evict" /\ pc' = "evictIndex" /\ victim' = Head(segments)
        /\ dataAt' = Unlinked(dataAt, Head(segments).name)
        /\ UNCHANGED <<idxAt, crashes>>
    BY <1>5 DEF RemoveData, boundVars
  <2>2. DOMAIN dataAt' = DOMAIN dataAt \ {victim'.name} BY <2>1 DEF Unlinked
  <2>3. Leaving = {} /\ Leaving' = {victim'.name} BY <2>1 DEF Leaving
  <2>4. Orphans' \ Leaving' \subseteq Orphans \ Leaving BY <2>1, <2>2, <2>3 DEF Orphans
  <2> QED BY <2>1, <2>4, OrphansShrink
<1>6. CASE RemoveIndex
  <2>1. /\ pc = "evictIndex" /\ pc' = "evict" /\ idxAt' = Unlinked(idxAt, victim.name)
        /\ UNCHANGED <<dataAt, crashes>>
    BY <1>6 DEF RemoveIndex, boundVars
  <2>2. DOMAIN idxAt' = DOMAIN idxAt \ {victim.name} BY <2>1 DEF Unlinked
  <2>3. Leaving = {victim.name} /\ Leaving' = {} BY <2>1 DEF Leaving
  <2>4. Orphans' \ Leaving' \subseteq Orphans \ Leaving BY <2>1, <2>2, <2>3 DEF Orphans
  <2> QED BY <2>1, <2>4, OrphansShrink
<1>7. CASE OpenData
  <2>1. /\ pc = "openData" /\ pc' = "writeData" /\ dataAt' = Opened(dataAt, Active.name)
        /\ UNCHANGED <<idxAt, crashes>>
    BY <1>7 DEF OpenData, boundVars
  <2>2. DOMAIN dataAt \subseteq DOMAIN dataAt' BY <2>1 DEF Opened
  <2>3. Leaving = {} /\ Leaving' = {} BY <2>1 DEF Leaving
  <2>4. Orphans' \ Leaving' \subseteq Orphans \ Leaving BY <2>1, <2>2, <2>3 DEF Orphans
  <2> QED BY <2>1, <2>4, OrphansShrink
<1>8. CASE OpenIndex
  <2>1. /\ pc = "openIndex" /\ pc' = "writeIndex" /\ idxAt' = Opened(idxAt, Active.name)
        /\ UNCHANGED <<dataAt, crashes>>
    BY <1>8 DEF OpenIndex, boundVars
  <2>2. Active.name \in DOMAIN dataAt
    <3>1. /\ CollectorSound /\ Len(segments) \in 1..Len(segments)
          /\ Active = segments[Len(segments)]
      BY <2>1, AppendPoint DEF WritePoints
    <3>2. SegmentSound(Len(segments)) BY <3>1 DEF CollectorSound, MemorySound
    <3> QED BY <2>1, <3>1, <3>2 DEF SegmentSound
  <2>3. DOMAIN idxAt' \subseteq DOMAIN idxAt \cup {Active.name} BY <2>1 DEF Opened
  <2>4. Leaving = {} /\ Leaving' = {} BY <2>1 DEF Leaving
  <2>5. Orphans' \ Leaving' \subseteq Orphans \ Leaving BY <2>1, <2>2, <2>3, <2>4 DEF Orphans
  <2> QED BY <2>1, <2>5, OrphansShrink
<1>9. CASE Crash /\ pc # "clear"
  <2>1. pc' = "idle" /\ crashes' = crashes + 1 /\ UNCHANGED <<dataAt, idxAt>>
    BY <1>9 DEF Crash, diskVars
  <2>2. PICK S : S = Orphans \ Leaving OBVIOUS
  <2>3. PICK v : v = victim.name OBVIOUS
  <2>4. Orphans' \ Leaving' \subseteq S \cup {v} BY <2>1, <2>2, <2>3 DEF Orphans, Leaving
  <2>5. PICK T : T = Orphans' \ Leaving' OBVIOUS
  <2>6. IsFiniteSet(S)
    <3>1. S \subseteq DOMAIN idxAt BY <2>2 DEF Orphans
    <3> QED BY <1>0, <3>1, FS_Subset
  <2>7. Cardinality(S) \in Nat /\ Cardinality(S) <= crashes
    BY <1>9, <2>2, <2>6, FS_CardinalityType DEF OrphansSound
  <2>8. /\ IsFiniteSet(S \cup {v})
        /\ Cardinality(S \cup {v}) = Cardinality(S) \/ Cardinality(S \cup {v}) = Cardinality(S) + 1
    BY <2>6, FS_AddElement
  <2>9. Cardinality(T) <= Cardinality(S \cup {v}) /\ Cardinality(T) \in Nat
    BY <2>4, <2>5, <2>8, FS_Subset, FS_CardinalityType
  <2>10. Cardinality(T) <= crashes' BY <1>0, <2>1, <2>7, <2>8, <2>9
  <2> QED BY <2>5, <2>10 DEF OrphansSound
<1> QED BY <1>1, <1>2, <1>3, <1>4, <1>5, <1>6, <1>7, <1>8, <1>9, StepCases

LEMMA SpillStep == SpillInv /\ [Next]_vars => SpillInv'
<1> SUFFICES ASSUME SpillInv, [Next]_vars PROVE SpillInv' OBVIOUS
<1>1. TypeInv /\ TypeInv' BY TypeStep DEF SpillInv
<1>2. ASSUME faults' = 0 PROVE DirectorySound' /\ SnapshotSound' /\ OrphansSound'
  <2>1. faults = 0 BY <1>1, <1>2, StepCases
  <2>2. DirectorySound /\ SnapshotSound /\ OrphansSound BY <2>1 DEF SpillInv
  <2>3. DirectorySound' BY <1>1, <1>2, <2>2, DirectoryStep
  <2>4. SnapshotSound' BY <1>1, <1>2, <2>2, SnapshotStep
  <2>5. OrphansSound' BY <1>1, <1>2, <2>2, OrphansStep
  <2> QED BY <2>3, <2>4, <2>5
<1> QED BY <1>1, <1>2 DEF SpillInv

\* As long as no file operation fails, every file consists of whole records
\* and of whole index lines that point to them, whatever the interleaving of
\* appends, evictions, exports, clears and process deaths; the segments in
\* memory are those of the directory up to the operation in hand
\* (append_spill, enforce_spill_budget, ensure_spill_initialized).
THEOREM SpillInvariant == Spec => []SpillInv
BY SpillInit, SpillStep, PTL DEF Spec

LEMMA SizesGood ==
    ASSUME TypeInv
    PROVE  GoodSizes /\ content \in Seq(Seq(Cells)) /\ Len(size) \in 0..Len(size)
BY DEF TypeInv, SessionTypes, GoodSizes, FileTypes, Directory

LEMMA InvAcknowledged == SpillInv => AcknowledgedReadable
<1> SUFFICES ASSUME SpillInv, faults = 0, pc = "idle", initialized
             PROVE  Openable /\ kept \subseteq Read(Handles).recs
    BY DEF AcknowledgedReadable, AppendedReadable, Quiet
<1>1. TypeInv /\ DirectorySound BY DEF SpillInv
<1>2. initialized = TRUE BY <1>1 DEF TypeInv, StoreTypes
<1>3. Openable /\ HandlesSound(size, content, Handles, kept, Len(size))
  BY <1>1, <1>2, HandlesNow
<1>4. GoodSizes /\ content \in Seq(Seq(Cells)) /\ Len(size) \in 0..Len(size)
  BY <1>1, SizesGood
<1>5. PICK h : h = Handles OBVIOUS
<1>6. HandlesSound(size, content, h, kept, Len(size)) BY <1>3, <1>5
<1>7. kept \subseteq Read(h).recs BY <1>4, <1>6, SoundRead
<1> QED BY <1>3, <1>5, <1>7

\* As long as no file operation fails, a session counted as spilled stays
\* readable until its segment is evicted or the store is cleared: for any
\* record sizes, segment size, budget and number of restarts, wherever the
\* process died (append_spill, ensure_spill_initialized, spill_ndjson).
THEOREM AcknowledgedTheorem == Spec => []AcknowledgedReadable
BY InvAcknowledged, SpillInvariant, PTL

LEMMA InvSnapshot == SpillInv => SnapshotStable
<1> SUFFICES ASSUME SpillInv, faults = 0, snap.state = "reading"
             PROVE  /\ Read(snap.handles).ok /\ Read(snap.handles).bad = 0
                    /\ snap.want \subseteq Read(snap.handles).recs
                    /\ \A r \in Read(snap.handles).recs : r < snap.before
    BY DEF SnapshotStable
<1>1. TypeInv /\ SnapshotSound BY DEF SpillInv
<1>2. GoodSizes /\ content \in Seq(Seq(Cells)) BY <1>1, SizesGood
<1>3. PICK lim \in 0..Len(size) : lim = snap.before - 1 BY <1>1 DEF SnapshotSound
<1>4. HandlesSound(size, content, snap.handles, snap.want, lim)
  BY <1>1, <1>3 DEF SnapshotSound
<1>5. PICK h : h = snap.handles OBVIOUS
<1>6. PICK w : w = snap.want OBVIOUS
<1>7. HandlesSound(size, content, h, w, lim) BY <1>4, <1>5, <1>6
<1>8. /\ Read(h).ok = TRUE /\ Read(h).bad = 0 /\ w \subseteq Read(h).recs
      /\ \A r \in Read(h).recs : r \in 1..lim
  BY <1>2, <1>7, SoundRead
<1>9. snap.before \in Nat BY <1>1 DEF SnapshotSound
<1> QED BY <1>3, <1>5, <1>6, <1>8, <1>9

\* An export returns exactly what was on disk when its snapshot was taken: no
\* corrupt line, nothing newer, everything acknowledged by then, whatever is
\* appended, evicted or cleared while it reads (read_verified_snapshot).
THEOREM SnapshotTheorem == Spec => []SnapshotStable
BY InvSnapshot, SpillInvariant, PTL

\* A byte of the directory is that of a listed segment or that of an orphan.
LEMMA DiskParts ==
    ASSUME FileTypes
    PROVE  /\ DiskSize = ListedSize + OrphanSize
           /\ ListedSize \in Nat /\ OrphanSize \in Nat
<1>1. PICK N, M : N = DOMAIN dataAt /\ M = Orphans OBVIOUS
<1>2. IsFiniteSet(N) /\ IsFiniteSet(M)
  <2>1. IsFiniteSet(N) /\ IsFiniteSet(DOMAIN idxAt) BY <1>1 DEF FileTypes, Directory
  <2>2. M \subseteq DOMAIN idxAt BY <1>1 DEF Orphans
  <2> QED BY <2>1, <2>2, FS_Subset
<1>3. PICK A : A = BytesOf(N) OBVIOUS
<1>4. PICK B : B = BytesOf(M) OBVIOUS
<1>5. IsFiniteSet(A) /\ Cardinality(A) \in Nat /\ IsFiniteSet(B) /\ Cardinality(B) \in Nat
  BY <1>2, <1>3, <1>4, BytesFinite
<1>6. N \cap M = {} /\ Names = N \cup M BY <1>1 DEF Orphans, Names
<1>7. \A p \in A : p[1] \in N BY <1>3 DEF BytesOf
<1>8. \A p \in B : p[1] \in M BY <1>4 DEF BytesOf
<1>9. A \cap B = {} BY <1>6, <1>7, <1>8
<1>10. BytesOf(Names) = A \cup B BY <1>3, <1>4, <1>6 DEF BytesOf
<1>11. Cardinality({}) = 0 BY FS_EmptySet
<1>12. Cardinality(A \cup B) = Cardinality(A) + Cardinality(B) - Cardinality(A \cap B)
  BY <1>5, FS_Union
<1>13. Cardinality(A \cup B) = Cardinality(A) + Cardinality(B)
  <2>1. \A a, b \in Nat : a + b - 0 = a + b OBVIOUS
  <2>2. Cardinality(A \cup B) = Cardinality(A) + Cardinality(B) - 0 BY <1>9, <1>11, <1>12
  <2> QED BY <1>5, <2>1, <2>2
<1> QED BY <1>1, <1>3, <1>4, <1>5, <1>10, <1>13
        DEF DiskSize, ListedSize, ListedBytes, OrphanSize

LEMMA InvDisk == SpillInv => DiskSound
<1> SUFFICES ASSUME SpillInv PROVE DiskSound OBVIOUS
<1>1. TypeInv /\ TypeOK BY TypesOK DEF SpillInv
<1>2. FileTypes /\ segments \in Seq(Segment) /\ ListedSize \in Nat /\ bytesOnDisk \in Nat
  BY <1>1, ListedSizeType DEF TypeInv, StoreTypes
<1>3. ASSUME faults = 0, Quiet
      PROVE  /\ bytesOnDisk = ListedSize /\ ~OverBudget
             /\ {segments[i].name : i \in DOMAIN segments} = DOMAIN dataAt
  <2>1. pc = "idle" /\ initialized = TRUE BY <1>1, <1>3 DEF Quiet, TypeInv, StoreTypes
  <2>2. CollectorSound BY <1>3, <2>1 DEF SpillInv, DirectorySound
  <2>3. Pending(Len(segments)) = 0 /\ Released = 0 BY <2>1 DEF Pending, Released
  <2>4. bytesOnDisk + 0 = ListedSize + 0 /\ ~OverBudget
    BY <2>1, <2>2, <2>3 DEF CollectorSound, BytesSound
  <2>5. bytesOnDisk = ListedSize BY <1>2, <2>4
  <2>6. DOMAIN segments = 1..Len(segments) BY <1>2
  <2>7. \A i \in 1..Len(segments) : segments[i].name \in DOMAIN dataAt
    BY <2>1, <2>2 DEF CollectorSound, MemorySound, SegmentSound
  <2>8. \A n \in DOMAIN dataAt : \E i \in 1..Len(segments) : segments[i].name = n
    BY <2>2 DEF CollectorSound, MemorySound
  <2> QED BY <2>4, <2>5, <2>6, <2>7, <2>8
<1>p. DiskSize = ListedSize + OrphanSize /\ OrphanSize \in Nat BY <1>2, DiskParts
<1>4. DiskAccounting
  <2> SUFFICES ASSUME faults = 0, Quiet
               PROVE  /\ DiskSize = bytesOnDisk + OrphanSize
                      /\ {segments[i].name : i \in DOMAIN segments} = DOMAIN dataAt
                      /\ Cardinality(Orphans) <= crashes
      BY DEF DiskAccounting
  <2>1. DiskSize = bytesOnDisk + OrphanSize BY <1>3, <1>p
  <2>2. pc = "idle" /\ OrphansSound BY DEF Quiet, SpillInv
  <2>3. Orphans \ Leaving = Orphans BY <2>2 DEF Leaving
  <2>4. Cardinality(Orphans) <= crashes BY <2>2, <2>3 DEF OrphansSound
  <2> QED BY <1>3, <2>1, <2>4
<1>5. DiskBudgetHeld
  <2> SUFFICES ASSUME faults = 0, Quiet, DiskBudget # 0, ~(ListedSize <= DiskBudget)
               PROVE  Cardinality(DOMAIN dataAt) <= 1
      BY <1>2, <1>p, SpillAssumption DEF DiskBudgetHeld
  <2>1. bytesOnDisk > DiskBudget /\ ~OverBudget
        /\ {segments[i].name : i \in DOMAIN segments} = DOMAIN dataAt
    BY <1>2, <1>3, SpillAssumption
  <2>2. Len(segments) \in {0, 1}
    <3>1. Len(segments) \in Nat BY <1>2
    <3>2. ~(Len(segments) > 1) BY <2>1 DEF OverBudget
    <3>3. \A k \in Nat : ~(k > 1) => k \in {0, 1} OBVIOUS
    <3> QED BY <3>1, <3>2, <3>3
  <2>3. CASE Len(segments) = 0
    <3>1. DOMAIN segments = {} BY <1>2, <2>3
    <3>2. DOMAIN dataAt = {} BY <2>1, <3>1
    <3> QED BY <3>2, FS_EmptySet
  <2>4. CASE Len(segments) = 1
    <3>1. DOMAIN segments = {1} BY <1>2, <2>4
    <3>2. DOMAIN dataAt = {segments[1].name} BY <2>1, <3>1
    <3>3. Cardinality({segments[1].name}) = 1 BY FS_Singleton
    <3> QED BY <3>2, <3>3
  <2> QED BY <2>2, <2>3, <2>4
<1>6. OversizedAlone
  <2> SUFFICES ASSUME faults = 0, NEW n \in DOMAIN dataAt,
                      FileSize(dataAt, n) > SegmentBytes
               PROVE  Cardinality(StoredIn(n)) = 1
      BY DEF OversizedAlone
  <2>1. PICK d \in Seq(Cells) : d = DataOf(n) BY <1>2, NameFiles
  <2>2. FileSize(dataAt, n) = Len(d) BY <1>2, <2>1, NameFiles
  <2>3. FileSound(n) BY DEF SpillInv, DirectorySound, FilesSound
  <2>4. OneRecord(d) BY <2>1, <2>2, <2>3 DEF FileSound
  <2>5. SegmentBytes \in Nat \ {0} BY SpillAssumption
  <2>6. 1 \in 1..Len(d) /\ DOMAIN d = 1..Len(d) BY <2>2, <2>5
  <2>7. StoredIn(n) = {d[i].rec : i \in DOMAIN d} BY <2>1 DEF StoredIn, DataOf
  <2>8. StoredIn(n) = {d[1].rec} BY <2>4, <2>6, <2>7 DEF OneRecord
  <2> QED BY <2>8, FS_Singleton
<1> QED BY <1>1, <1>4, <1>5, <1>6 DEF DiskSound

\* Between two operations the segment list is that of the directory and bytes_on_disk
\* is the size of all its files but for the index files that deaths in the middle of an
\* eviction left without a data file, at most one for each death; what is counted is
\* within disk_budget_bytes unless one segment is left, and a file larger than
\* segment_bytes holds a single record, for any sizes and any history without a failing
\* file operation (enforce_spill_budget, append_spill, ensure_spill_initialized).
THEOREM DiskTheorem == Spec => []DiskSound
BY InvDisk, SpillInvariant, PTL
=============================================================================
