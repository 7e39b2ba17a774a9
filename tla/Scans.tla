-------------------------------- MODULE Scans --------------------------------
(***************************************************************************)
(* Range scans beside the running engine: scan and getReader of            *)
(* internal/engine/read.go, ScanIterator, and the heap that merges the     *)
(* iterators of the memtables and tables (internal/iterator_heap.go).      *)
(*                                                                         *)
(* A scan holds Engine.mu only while it takes the two memtables.  After    *)
(* that clients insert into the memtable it walks, rotations freeze it,    *)
(* and compactions close the readers and remove the files of its tables.   *)
(* What is inside a memtable's and a table's iterator is in the modules    *)
(* Memtable and Tables.                                                    *)
(***************************************************************************)
EXTENDS Engine

CONSTANT Ranges   \* the scans that are made: a set of <<start, end>>

ASSUME RangesOfKeys == Ranges \subseteq Int \X Int

VARIABLES
  tableCache,     \* Engine.tableCache: the numbers of the tables with a reader
  sc              \* the scan

scanVars == <<tableCache, sc>>
allVars  == <<vars, scanVars>>

\* A source of the merge: live for the memtable that is Engine.mt still, whose records
\* are not copied here; num is the table's number, or 0; closed: its reader was
\* closed by a compaction; cur is the record the iterator is on, {} at its end.
Source == [live |-> FALSE, num |-> 0, recs |-> {}, closed |-> FALSE, cur |-> {}]

\* key and best belong to advance: the user key whose versions it collects, {} between
\* two of them, and the best version so far; out is what was returned.  The rest is
\* history: cut, a reader that was closed has ended an iterator; view, what a read saw
\* when the scan began; held, the records there were; hidden, whether a memtable was
\* out of reach; removed, whether tables were removed during the scan.
NoScan == [pc |-> "idle", start |-> 0, end |-> 0, seq |-> 0, srcs |-> <<>>, pred |-> {},
           todo |-> <<>>, key |-> {}, best |-> {}, out |-> <<>>, cut |-> FALSE,
           view |-> <<>>, held |-> {}, hidden |-> FALSE, removed |-> FALSE]

ScanInit == Init /\ tableCache = {} /\ sc = NoScan

RecordsOf(s) == IF s.live THEN mt ELSE s.recs
FirstIn(recs) == IF recs = {} THEN {} ELSE {FirstOf(recs)}
Target == Lookup(sc.start, sc.seq)
FromTarget(recs) == FirstIn({r \in recs : Compare(r, Target) >= 0})
Behind(recs, cur) == FirstIn({r \in recs : \A c \in cur : Compare(r, c) > 0})

ScanStep(s) == sc' = s /\ UNCHANGED <<vars, tableCache>>

----------------------------------------------------------------------------
\* scan: the memtables are taken under the read lock.  It is called on the engine, or
\* on a snapshot that was taken while no write was in progress.
ScanTake ==
  /\ sc.pc = "idle" /\ phase = "up" /\ mu = "free"
  /\ \E range \in Ranges,
        seq \in {MaxUint64} \cup {sn.seq : sn \in {s \in UNION {snaps[x] : x \in Snaps} : s.quiet}} :
       ScanStep([NoScan EXCEPT !.pc = "find", !.start = range[1], !.end = range[2], !.seq = seq,
         !.srcs = <<[Source EXCEPT !.live = TRUE]>>
                    \o SetToSeq({[Source EXCEPT !.recs = m] : m \in immt}),
         !.view = [k \in Keys |-> VisibleAt(k, seq)], !.held = Stored,
         !.hidden = ~NothingHidden])

\* MemtableIterator.Seek on the memtable that is written to: it finds the last node
\* before the target ...
ScanFind ==
  LET before == {r \in RecordsOf(sc.srcs[1]) : Compare(r, Target) < 0}
  IN /\ sc.pc = "find"
     /\ ScanStep([sc EXCEPT !.pc = "land", !.pred = IF before = {} THEN {} ELSE {LastOf(before)}])

\* ... and then reads which node follows it.  immt is not written to.
ScanLand ==
  /\ sc.pc = "land"
  /\ ScanStep([sc EXCEPT !.pc = "version", !.pred = {},
       !.srcs = [i \in 1..Len(@) |-> [@[i] EXCEPT !.cur =
          IF i = 1 THEN Behind(RecordsOf(sc.srcs[1]), sc.pred) ELSE FromTarget(sc.srcs[i].recs)]]])

\* The tables that still have to be opened; NewScanIterator when there are none.
ScanTables(todo, srcs) ==
  ScanStep([sc EXCEPT !.pc = IF todo = <<>> THEN "advance" ELSE "reader", !.todo = todo, !.srcs = srcs])

\* Mutant: tables that begin at the end of the range or before its start are left out.
ScanVersionNarrow ==
  LET hits(l) == Filter(levels[l], {t \in TablesAt(l) : sc.start <= t.min.key /\ t.min.key <= sc.end})
  IN /\ sc.pc = "version"
     /\ ScanTables(FlattenSeq([i \in 1..Bottom + 1 |-> hits(i - 1)]), sc.srcs)

\* The tables of the current Version that the range meets, of all levels, read once
\* and without a lock.
ScanVersion ==
  LET hits(l) == Filter(levels[l], {t \in TablesAt(l) : ~(t.max.key < sc.start \/ t.min.key > sc.end)})
  IN /\ sc.pc = "version"
     /\ ScanTables(FlattenSeq([i \in 1..Bottom + 1 |-> hits(i - 1)]), sc.srcs)

Table == Head(sc.todo)
WithReader(recs) == [sc EXCEPT !.pc = "seek", !.srcs = Append(@, [Source EXCEPT !.num = Table.num, !.recs = recs])]

\* A compaction uses the map under Engine.mu, getReader under tableCacheMu: an access
\* of getReader meanwhile is a data race, which ends the process when Go detects it.
MapRace == job.pc = "remove" /\ \E t \in ToSet(job.all) : t.num \in tableCache

\* getReader: the table cache is looked up ...  (The reader of a table is taken out of
\* the cache when its file is removed: that of a table still to be opened has its file.)
ScanReader ==
  /\ sc.pc = "reader"
  /\ \/ MapRace /\ ScanStep([sc EXCEPT !.pc = "fatal"])
     \/ Table.num \in tableCache /\ ScanStep(WithReader(FileRecords(Table)))
     \/ Table.num \notin tableCache /\ ScanStep([sc EXCEPT !.pc = "open"])

\* Mutant: the file is looked for on level 0.
ScanOpenTopLevel ==
  LET path == <<0, Table.num>>
  IN /\ sc.pc = "open"
     /\ IF Readable(path) THEN ScanStep([WithReader(files[path]) EXCEPT !.pc = "insert"])
        ELSE ScanStep([sc EXCEPT !.pc = "fatal"])

\* ... the file is opened; scan ends the process when it is gone ...
ScanOpen ==
  LET path == <<Table.level, Table.num>>
  IN /\ sc.pc = "open"
     /\ IF Readable(path) THEN ScanStep([WithReader(files[path]) EXCEPT !.pc = "insert"])
        ELSE ScanStep([sc EXCEPT !.pc = "fatal"])

\* ... and the reader put into the table cache, unless a get was faster.
ScanInsert ==
  /\ sc.pc = "insert"
  /\ \/ MapRace /\ sc' = [sc EXCEPT !.pc = "fatal"] /\ UNCHANGED tableCache
     \/ sc' = [sc EXCEPT !.pc = "seek"] /\ tableCache' = tableCache \cup {Table.num}
  /\ UNCHANGED vars

\* Iterator and Seek on the reader.  When it has been closed, a block that is not in
\* the block cache cannot be read, and Seek panics.
ScanSeek ==
  LET n == Len(sc.srcs)
  IN /\ sc.pc = "seek"
     /\ \/ ScanTables(Tail(sc.todo), [sc.srcs EXCEPT ![n].cur = FromTarget(sc.srcs[n].recs)])
        \/ sc.srcs[n].closed /\ ScanStep([sc EXCEPT !.pc = "fatal"])

----------------------------------------------------------------------------
\* The heap of the sources that are not at their end; its top is a source with the
\* least internal key.
Heap == {i \in 1..Len(sc.srcs) : sc.srcs[i].cur # {}}
CurOf(i) == CHOOSE r \in sc.srcs[i].cur : TRUE

\* Mutant: the heap is not kept in order.
TopsAny == Heap

Tops == {i \in Heap : \A j \in Heap : Compare(CurOf(i), CurOf(j)) <= 0}
TopKey == {CurOf(i).key : i \in Tops}

\* advance keeps the version with the largest sequence number of those it may see.
Collect(rec) ==
  IF rec.seq <= sc.seq /\ (sc.best = {} \/ \A b \in sc.best : rec.seq > b.seq) THEN {rec} ELSE sc.best

\* PopAndAdvance, for the first or a further version of a user key: the iterator
\* goes on to the record that now follows; one of a closed reader may be at its end.
ScanPop ==
  /\ sc.pc = "advance"
  /\ \E i \in Tops :
       LET rec == CurOf(i)
           src == sc.srcs[i]
           nexts == {Behind(RecordsOf(src), src.cur)} \cup (IF src.closed THEN {{}} ELSE {})
       IN /\ sc.key = {rec.key} \/ (sc.key = {} /\ rec.key < sc.end)
          /\ \E next \in nexts :
               ScanStep([sc EXCEPT !.key = {rec.key}, !.best = Collect(rec), !.srcs[i].cur = next,
                                   !.cut = @ \/ next # Behind(RecordsOf(src), src.cur)])

\* All versions of the user key are collected: the best is returned, unless it is a
\* tombstone.
ScanEmit ==
  /\ sc.pc = "advance" /\ sc.key # {} /\ TopKey # sc.key
  /\ ScanStep([sc EXCEPT !.key = {}, !.best = {}, !.out = @ \o SetToSeq(UserView(sc.best))])

\* The iterator is at its end and the memtables are released.
ScanEnd ==
  /\ sc.pc = "advance" /\ sc.key = {} /\ \A k \in TopKey : k >= sc.end
  /\ ScanStep([sc EXCEPT !.pc = "end", !.srcs = <<>>])

\* get uses the table cache too, under the read lock: it opens a table of the current
\* Version.  (Only while the scan is about to read the Version itself: a table opened
\* earlier and still live can be opened here, one opened later could have been, and
\* the scan finds the same cache.)
GetReader ==
  /\ sc.pc = "version" /\ phase = "up" /\ mu = "free"
  /\ \E t \in LiveTables : Readable(<<t.level, t.num>>) /\ tableCache' = tableCache \cup {t.num}
  /\ UNCHANGED <<vars, sc>>

ScanNext == ScanTake \/ ScanFind \/ ScanLand \/ ScanVersion \/ ScanReader \/ ScanOpen \/ ScanInsert
              \/ ScanSeek \/ ScanPop \/ ScanEmit \/ ScanEnd \/ GetReader

\* What a step of the engine does to the scan and to the table cache: a rotation
\* freezes the live memtable; a compaction that removes its inputs closes their
\* readers and takes them out of the cache; the end of the process ends the scan.
Removing == IF job.pc = "remove" /\ job'.pc = "done" THEN {t.num : t \in ToSet(job.all)} ELSE {}
Frozen(s) ==
  IF s.live /\ immt' # immt /\ immt' # {} THEN [s EXCEPT !.live = FALSE, !.recs = UNION immt'] ELSE s
\* The reader of a source is the one in the table cache; while it waits to be put
\* there it is not.
HasCached(i) == sc.srcs[i].num \in tableCache /\ ~(sc.pc = "insert" /\ i = Len(sc.srcs))
Follow ==
  IF phase' = "down" THEN tableCache' = {} /\ sc' = NoScan
  ELSE /\ tableCache' = tableCache \ Removing
       /\ sc' = [sc EXCEPT !.removed = @ \/ (sc.pc # "idle" /\ Removing # {}),
                   !.srcs = [i \in 1..Len(sc.srcs) |->
                     [Frozen(sc.srcs[i]) EXCEPT !.closed = @ \/ (HasCached(i) /\ sc.srcs[i].num \in Removing)]]]

\* log.Fatalln, a panic, or the runtime has ended the process; or the scan is over, and
\* what the engine does after it is not of interest here.
Over == sc.pc \in {"fatal", "end"} /\ UNCHANGED allVars

NextBeside ==
  \/ ScanNext
  \/ sc.pc \notin {"fatal", "end"} /\ Next /\ Follow
  \/ Over

SpecBeside == ScanInit /\ [][NextBeside]_allVars

----------------------------------------------------------------------------
\* A scan returns its keys in ascending order, each once, below its end; and not below
\* its start, but for a record that was inserted while it sought its first one.
ScanSorted ==
  /\ \A i, j \in 1..Len(sc.out) : i < j => sc.out[i].key < sc.out[j].key
  /\ \A r \in ToSet(sc.out) : r.key < sc.end /\ (r.key >= sc.start \/ r \notin sc.held)

\* A scan that comes to its end has returned, for every key of its range, the version
\* a read saw when it began or one inserted since; no older version and no key deleted
\* before, although memtables were rotated and flushed and tables compacted on the way.
\* A key is missing only if it was deleted since.  Through a snapshot it returns exactly
\* the snapshot's version of every key whose version compactions have left.  (Provided
\* no memtable was hidden when it began and no reader was cut off.)
ScanFresh ==
  sc.pc = "end" /\ ~sc.cut /\ ~sc.hidden =>
    \A k \in {x \in Keys : sc.start <= x /\ x < sc.end} :
      LET saw == UserView(sc.view[k])
          got == {r \in ToSet(sc.out) : r.key = k}
      IN IF sc.seq # MaxUint64 THEN sc.view[k] \subseteq Stored => got = saw
         ELSE /\ \A r \in got : r \in saw \/ (r \notin sc.held /\ ~r.del)
              /\ \/ got # {} \/ saw = {}
                 \/ \E d \in issued : d.del /\ d.key = k /\ d \notin sc.held

\* A scan ends the process, or loses the rest of a table, only when a compaction removes
\* tables during it: every other table it finds in the Version can be opened and read.
ScanDisturbed == sc.pc = "fatal" \/ sc.cut => sc.removed \/ job.pc = "remove"

\* Not the case: a scan beside compactions ends; the table cache has only readers of
\* tables of the current Version.
ScanSurvives == sc.pc # "fatal" /\ ~sc.cut
CacheIsLive  == mu = "free" => tableCache \subseteq {t.num : t \in LiveTables}
=============================================================================
