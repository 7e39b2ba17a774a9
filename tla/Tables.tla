------------------------------- MODULE Tables -------------------------------
(***************************************************************************)
(* Table files at work (internal/sstable): TableWriter writes them, Open   *)
(* makes readers of them, and the calls of several goroutines - Get, and   *)
(* the iterators of scans and compactions - read blocks through one LRU    *)
(* block cache, which is locked only while it is looked up or filled.  A   *)
(* compaction closes readers that others still use.                        *)
(***************************************************************************)
EXTENDS TableFile

CONSTANTS
  Files,          \* file numbers of the tables
  RecordsOf,      \* [Files -> sequence of records]: in internal-key order
  BlockSize,
  CacheCap,       \* BlockCacheSize
  Getters,        \* goroutines that call Get
  Scanners,       \* goroutines that have an iterator
  Lookups,        \* the internal keys that are looked up and sought
  FileNumLimit    \* the first number with more digits than "%06d" scans: 10^6

ASSUME TablesAssumption == Files \subseteq Nat /\ CacheCap \in Nat \ {0}

Procs == Getters \cup Scanners

VARIABLES
  wr,       \* the TableWriter at work: [file, pc, block, size, index, filter]
  data,     \* [Files -> the bytes of the file]
  synced,   \* the files that were closed and fsynced
  reader,   \* [Files -> [st, index, filter]], st one of "none", "open", "closed"
  cache,    \* LRU: a sequence of [num, off, block], the front first
  ps        \* [Procs -> the state of the call or iterator]

vars == <<wr, data, synced, reader, cache, ps>>

NoWriter == [file |-> 0, pc |-> "none", added |-> 0, block |-> <<>>, size |-> 0,
             index |-> <<>>, filter |-> NewFilter]
NoReader == [st |-> "none", index |-> <<>>, filter |-> NewFilter]
\* op is what the block being read is for.  A nil block is <<>>.  got are the
\* records an iterator was on, err: a block could not be read.
Idle == [pc |-> "idle", op |-> "none", file |-> 0, target |-> {}, bi |-> 0, block |-> <<>>,
         ei |-> 0, got |-> <<>>, err |-> FALSE]

Init ==
  /\ wr = NoWriter /\ data = [f \in Files |-> <<>>] /\ synced = {}
  /\ reader = [f \in Files |-> NoReader]
  /\ cache = <<>>
  /\ ps = [p \in Procs |-> Idle]

----------------------------------------------------------------------------
\* Create: the file is truncated, a block's size begins with its two counts.
Create(f) ==
  /\ wr.pc = "none" /\ f \notin synced
  /\ wr' = [NoWriter EXCEPT !.file = f, !.pc = "add", !.size = 2 * W32]
  /\ data' = [data EXCEPT ![f] = <<>>]
  /\ UNCHANGED <<synced, reader, cache, ps>>

\* flushBlock: the block is written and gets an entry in the index.  w is the
\* writer, b the file's bytes.
flushBlock(w, b) ==
  IF w.block = <<>> THEN [w |-> w, b |-> b]
  ELSE LET last == w.block[Len(w.block)]
       IN [w |-> [w EXCEPT !.index = Append(@, [sep  |-> [key |-> last.key, seq |-> last.seq, del |-> last.del],
                                                off  |-> Len(b), size |-> w.size + W32]),
                           !.block = <<>>, !.size = 2 * W32],
           b |-> b \o encodeBlock(w.block, w.size)]

\* Add: the record goes into the block and its key into the filter.
Add ==
  /\ wr.pc = "add" /\ wr.added < Len(RecordsOf[wr.file])
  /\ LET r == RecordsOf[wr.file][wr.added + 1]
         w == [wr EXCEPT !.added = @ + 1, !.block = Append(@, r), !.size = @ + W32 + Size(r),
                         !.filter = AddToFilter(@, r.key)]
         res == IF w.size >= BlockSize THEN flushBlock(w, data[wr.file])
                ELSE [w |-> w, b |-> data[wr.file]]
     IN wr' = res.w /\ data' = [data EXCEPT ![wr.file] = res.b]
  /\ UNCHANGED <<synced, reader, cache, ps>>

\* Mutant: the last block is not written.
CloseDropsBlock ==
  /\ wr.pc = "add" /\ wr.added = Len(RecordsOf[wr.file])
  /\ LET index == encodeIndexBlock(wr.index)
         filter == EncodeFilter(wr.filter)
         off == Len(data[wr.file])
     IN data' = [data EXCEPT ![wr.file] = @ \o index \o filter
                   \o encodeFooter([indexOff |-> off, indexSize |-> Len(index),
                                    filterOff |-> off + Len(index), filterSize |-> Len(filter)])]
  /\ wr' = [wr EXCEPT !.pc = "sync"]
  /\ UNCHANGED <<synced, reader, cache, ps>>

\* Close: the last block, the index, the filter and the footer ...
CloseWriter ==
  /\ wr.pc = "add" /\ wr.added = Len(RecordsOf[wr.file])
  /\ LET res == flushBlock(wr, data[wr.file])
         index == encodeIndexBlock(res.w.index)
         filter == EncodeFilter(res.w.filter)
         off == Len(res.b)
     IN /\ wr' = [res.w EXCEPT !.pc = "sync"]
        /\ data' = [data EXCEPT ![wr.file] = res.b \o index \o filter
                      \o encodeFooter([indexOff |-> off, indexSize |-> Len(index),
                                       filterOff |-> off + Len(index), filterSize |-> Len(filter)])]
  /\ UNCHANGED <<synced, reader, cache, ps>>

\* ... and an fsync.
SyncWriter ==
  /\ wr.pc = "sync"
  /\ synced' = synced \cup {wr.file}
  /\ wr' = NoWriter
  /\ UNCHANGED <<data, reader, cache, ps>>

----------------------------------------------------------------------------
\* Open, through getReader.  (The writers share nothing with the readers: here all
\* tables are written before the first one is read.)
OpenReader(f) ==
  /\ synced = Files /\ reader[f].st = "none"
  /\ \E r \in openFile(data[f]) :
       reader' = [reader EXCEPT ![f] = [st |-> "open", index |-> r.index, filter |-> r.filter]]
  /\ UNCHANGED <<wr, data, synced, cache, ps>>

\* A compaction that has replaced the table closes the reader of the table cache.
CloseReader(f) ==
  /\ reader[f].st = "open"
  /\ reader' = [reader EXCEPT ![f].st = "closed"]
  /\ UNCHANGED <<wr, data, synced, cache, ps>>

\* Mutant: the name is not understood.
fileNumUnparsed(f) == 0

\* The file number a reader gets from the name of its file: six digits of it.
fileNumOf(f) == IF f < FileNumLimit THEN f ELSE f \div 10

\* LRU.get and LRU.set: a block that is found, or set, comes to the front; one too
\* many drops off the back.
Cached(num, off) == {i \in 1..Len(cache) : cache[i].num = num /\ cache[i].off = off}
LruGet(i) == <<cache[i]>> \o RemoveAt(cache, i)

LruSet(num, off, block) ==
  LET all == <<[num |-> num, off |-> off, block |-> block]>>
               \o SelectSeq(cache, LAMBDA e : e.num # num \/ e.off # off)
  IN SubSeq(all, 1, Min({Len(all), CacheCap}))

\* Mutant: the block whose last key is the key is passed over.
findBlockIndexPast(index, key) ==
  Cardinality({i \in 1..Len(index) : \A j \in 1..i : Compare(index[j].sep, key) <= 0})

\* findBlock and findBlockIndex: the first block whose last key is not before key,
\* counted from 0.
findBlockIndex(index, key) ==
  Cardinality({i \in 1..Len(index) : \A j \in 1..i : Compare(index[j].sep, key) < 0})

\* loadBlock: the block at bi will be read for op; there is none behind the last.
Load(s, op, bi) ==
  IF bi >= Len(reader[s.file].index)
  THEN [s EXCEPT !.pc = "at", !.bi = bi, !.block = <<>>]
  ELSE [s EXCEPT !.pc = "probe", !.op = op, !.bi = bi]

\* The iterator is on an entry of its block, which its user reads.
Land(s, block, ei) ==
  [s EXCEPT !.pc = "at", !.block = block, !.ei = ei, !.got = Append(@, block[ei + 1])]

\* The entries of a block before key.
Before(block, key) == Cardinality({i \in 1..Len(block) : Compare(block[i], key) < 0})

\* The block has been read: Get bisects it, Seek steps through it and goes on to
\* the next block from its end, Next and Iterator are on its first entry.
Deliver(s, block) ==
  LET key == CHOOSE k \in s.target : TRUE
      n   == Before(block, key)
  IN CASE s.op = "get" ->
            [s EXCEPT !.pc = "done",
                      !.got = IF n < Len(block) /\ block[n + 1].key = key.key THEN <<block[n + 1]>> ELSE <<>>]
       [] s.op = "load" -> Land(s, block, 0)
       [] s.op = "seek" -> IF n < Len(block) THEN Land(s, block, n) ELSE Load(s, "load", s.bi + 1)

\* The block could not be read.  Get returns the error; an iterator takes it for its
\* end; Seek goes on to use the block it has not got.
Fail(s) ==
  CASE s.op = "get"  -> [s EXCEPT !.pc = "done", !.err = TRUE]
    [] s.op = "load" -> [s EXCEPT !.pc = "at", !.block = <<>>, !.err = TRUE]
    [] s.op = "seek" -> [s EXCEPT !.pc = "panic", !.err = TRUE]

Entry(s) == reader[s.file].index[s.bi + 1]
Step(p, s) == ps' = [ps EXCEPT ![p] = s]

----------------------------------------------------------------------------
\* Get: the filter, then the index.  The index and the filter of a closed reader can
\* still be used.
Get(p, f, key) ==
  /\ ps[p].pc = "idle" /\ reader[f].st # "none"
  /\ LET s  == [Idle EXCEPT !.file = f, !.target = {key}]
         bi == findBlockIndex(reader[f].index, key)
     IN Step(p, IF ~FilterContains(reader[f].filter, key.key) \/ bi >= Len(reader[f].index)
                THEN [s EXCEPT !.op = "get", !.pc = "done"] ELSE Load(s, "get", bi))
  /\ UNCHANGED <<wr, data, synced, reader, cache>>

\* Iterator: the first block is loaded.
Iterator(p, f) ==
  /\ ps[p].pc = "idle" /\ reader[f].st # "none"
  /\ Step(p, Load([Idle EXCEPT !.file = f], "load", 0))
  /\ UNCHANGED <<wr, data, synced, reader, cache>>

\* Seek of an iterator that was just made, as scan does.
Seek(p, key) ==
  /\ ps[p].pc = "at" /\ ps[p].target = {} /\ Len(ps[p].got) <= 1
  /\ Step(p, Load([ps[p] EXCEPT !.target = {key}, !.got = <<>>, !.err = FALSE], "seek",
                  findBlockIndex(reader[ps[p].file].index, key)))
  /\ UNCHANGED <<wr, data, synced, reader, cache>>

\* Mutant: the last entry of a block is passed over.
IterNextSkips(p) ==
  LET s == ps[p]
  IN /\ s.pc = "at" /\ s.block # <<>>
     /\ Step(p, IF s.ei + 2 < Len(s.block) THEN Land(s, s.block, s.ei + 1)
                ELSE Load(s, "load", s.bi + 1))
     /\ UNCHANGED <<wr, data, synced, reader, cache>>

\* Next of a valid iterator: the next entry, or the next block.
IterNext(p) ==
  LET s == ps[p]
  IN /\ s.pc = "at" /\ s.block # <<>>
     /\ Step(p, IF s.ei + 1 < Len(s.block) THEN Land(s, s.block, s.ei + 1)
                ELSE Load(s, "load", s.bi + 1))
     /\ UNCHANGED <<wr, data, synced, reader, cache>>

\* readBlock looks the block up in the cache ...
Probe(p) ==
  LET s == ps[p]
      hits == Cached(fileNumOf(s.file), Entry(s).off)
  IN /\ s.pc = "probe"
     /\ \/ /\ hits = {}
           /\ Step(p, [s EXCEPT !.pc = "read"])
           /\ UNCHANGED cache
        \/ \E i \in hits :
             /\ Step(p, Deliver(s, cache[i].block))
             /\ cache' = LruGet(i)
     /\ UNCHANGED <<wr, data, synced, reader>>

\* ... else reads it from the file, which may have been closed, and checks it ...
ReadBlock(p) ==
  LET s == ps[p]
      blocks == IF reader[s.file].st = "closed" THEN {}
                ELSE UNION {decodeBlock(b) : b \in readAt(data[s.file], Entry(s).off, Entry(s).size)}
  IN /\ s.pc = "read"
     /\ IF blocks = {} THEN Step(p, Fail(s))
        ELSE \E b \in blocks : Step(p, [s EXCEPT !.pc = "fill", !.block = b])
     /\ UNCHANGED <<wr, data, synced, reader, cache>>

\* ... and puts it into the cache.
Fill(p) ==
  LET s == ps[p]
  IN /\ s.pc = "fill"
     /\ cache' = LruSet(fileNumOf(s.file), Entry(s).off, s.block)
     /\ Step(p, Deliver(s, s.block))
     /\ UNCHANGED <<wr, data, synced, reader>>

\* The call has returned, or the iterator is dropped at its end.
Return(p) ==
  /\ ps[p].pc = "done" \/ (ps[p].pc = "at" /\ ps[p].block = <<>>)
  /\ Step(p, Idle)
  /\ UNCHANGED <<wr, data, synced, reader, cache>>

Next ==
  \/ Add \/ CloseWriter \/ SyncWriter
  \/ \E f \in Files : Create(f) \/ OpenReader(f) \/ CloseReader(f)
  \/ \E p \in Getters, f \in Files, k \in Lookups : Get(p, f, k)
  \/ \E p \in Scanners : (\E f \in Files : Iterator(p, f)) \/ (\E k \in Lookups : Seek(p, k)) \/ IterNext(p)
  \/ \E p \in Procs : Probe(p) \/ ReadBlock(p) \/ Fill(p) \/ Return(p)

Spec == Init /\ [][Next]_vars

----------------------------------------------------------------------------
\* Wherever a crash cuts a table that is being written, Open rejects what is left,
\* or it is the whole table: the blocks of its index hold the records that were
\* added, in order, each under its last key, and its filter knows their keys.
OpensWhole ==
  wr.pc # "none" =>
    \A n \in 0..Len(data[wr.file]) :
      LET b == SubSeq(data[wr.file], 1, n)
          blocks(r) == [i \in 1..Len(r.index) |->
                          decodeBlock(Slice(b, r.index[i].off, r.index[i].off + r.index[i].size))]
      IN \A r \in openFile(b) :
           /\ \A i \in 1..Len(r.index) : \A recs \in blocks(r)[i] :
                Compare(recs[Len(recs)], r.index[i].sep) = 0
           /\ FlattenSeq([i \in 1..Len(r.index) |-> FlattenSeq(SetToSeq(blocks(r)[i]))]) = RecordsOf[wr.file]
           /\ \A rec \in ToSet(RecordsOf[wr.file]) : FilterContains(r.filter, rec.key)

\* Get through filter, index, cache and block finds what a search of all records of
\* the table finds, whatever the other goroutines read, evict and close meanwhile;
\* it fails only when its reader was closed.
GetCorrect ==
  \A p \in Getters : ps[p].pc = "done" =>
    IF ps[p].err THEN reader[ps[p].file].st = "closed"
    ELSE \A k \in ps[p].target : ToSet(ps[p].got) = Search(ToSet(RecordsOf[ps[p].file]), k)

\* An iterator is on the records of its table from the sought key on, one after the
\* other, to the last of them; only when its reader is closed does it end earlier,
\* before a block it cannot read any more.
IterExact ==
  \A p \in Scanners : ps[p].pc \in {"at", "probe", "read", "fill"} =>
    LET recs == SelectSeq(RecordsOf[ps[p].file], LAMBDA r : \A k \in ps[p].target : Compare(r, k) >= 0)
    IN /\ IsPrefix(ps[p].got, recs)
       /\ ps[p].pc = "at" /\ ps[p].block = <<>> =>
            IF ps[p].err THEN reader[ps[p].file].st = "closed" ELSE ps[p].got = recs

\* The cache has at most BlockCacheSize blocks, each once.  A cached block has records
\* of the file of that number, and ends with the last key of the block at that offset.
CacheSound ==
  /\ Len(cache) <= CacheCap
  /\ \A i, j \in 1..Len(cache) :
       i # j => <<cache[i].num, cache[i].off>> # <<cache[j].num, cache[j].off>>
  /\ \A i \in 1..Len(cache) : \A f \in Files : fileNumOf(f) = cache[i].num =>
       LET recs == cache[i].block
       IN /\ ToSet(recs) \subseteq ToSet(RecordsOf[f])
          /\ \E e \in ToSet(reader[f].index) : e.off = cache[i].off /\ Compare(recs[Len(recs)], e.sep) = 0

\* Not the case: an iterator that ends has had all records; no Seek panics.
EndsOnlyAtEnd == \A p \in Scanners : ~ps[p].err
NoPanic == \A p \in Procs : ps[p].pc # "panic"
=============================================================================
