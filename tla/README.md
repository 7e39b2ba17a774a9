# A verification of AscentDB

TLA+ modules that model the storage engine of AscentDB (`src/internal/...`), TLC
configurations that check them on small instances, and TLAPS proofs of the
properties whose argument is general: the write-ahead log's group commit, the
log-structured merge tree, the skiplist that is read without a lock, the engine's use of
files and numbers, and that it keeps, finds and makes durable what was written.

## 1. Inventory of the system

| part | state | operations | talks to |
|---|---|---|---|
| write path (`engine/write.go`, `Sync`/`Close` of `engine.go`) | `seqNum`, `mt`, `wal`, `Engine.mu` | `Put`, `Delete`, `WriteBatch`, `Sync`, `Close` | log (`Append`), flusher (`flushChan`, `flushWg`), version set (stall at `2*MaxL0Files`) |
| flusher (`flusher.go`) | `immt`, `flushChan` (6), one goroutine | `rotate` (called by writers), `flush` | table files, version set, log (close and remove), compactor |
| compactor (`compactor.go`) | `isCompacting`, `compactPointer`, one goroutine at a time | `scheduleCompaction`, `compactLevel` | table files, version set, snapshots (`oldest`) |
| version set (`meta/`) | levels of the current version, `nextFileNum`, manifest file | `LogAndApply`, `NextFileNum`, `Open`/`replay` | everyone; own mutex |
| write-ahead log (`wal/wal.go`) | file, `commitCh` (256), `closed` | `Append(Batch)` via `submit`, `committer`, `intervalSyncer`, `Sync`, `Close`, `Replay` | writers block on the committer |
| recovery (`recover.go`, `New`) | log directory, manifest | `New`, `recover`, `recoveryWrite` | runs beside the flusher and compactor, without `Engine.mu` |
| reads, snapshots (`read.go`, `snapshot.go`) | list of live sequence numbers | `Get`, `NewSnapshot`, `Release`, `Scan` | all of the above, under the read lock |
| memtable (`memtable/`) | a skiplist, `Memtable.mu` | `Put`, `Get`, iterators without the lock | write path, reads, scans, flusher |
| table files (`sstable/`) | blocks, index, filter, footer; one LRU block cache for all readers | `TableWriter`, `Open`, `Get`, iterators, `Close` | flusher, compactor, reads, scans |
| range scans (`read.go`, `engine/iterator.go`, `iterator_heap.go`) | iterators over two memtables and many tables, a heap; `Engine.tableCache` | `Scan`, `advance`, `getReader` | take `Engine.mu` for their first step only |

What is hard here: writers log without `Engine.mu` and insert with it; several
frozen memtables share one `immt`; flush and compaction log version edits whose
numbers were drawn earlier, outside the lock; recovery removes logs while flushes
run; the compaction flag is a compare-and-swap that a flush may lose; a scan walks a
skiplist that is being written to, and tables whose readers a compaction closes; blocks
are looked up, read and cached with the lock released in between; log records, edits and
tables can be cut at any byte; a crash can come between any two of these steps.
`PROJECT.json` lists each hazard at its line.

What makes each part correct: an acknowledged write is neither lost nor replaced by
an older one (write path, flusher, compactor, recovery); the levels above 0 have
disjoint tables, and a level's versions are newer than those below it; reads return
the newest version; the manifest names complete files only and equals the version in
memory; under group commit an acknowledged request is on disk; every wait ends.  A
memtable and a table behave like the set of their records; what is read back from a cut
file is a prefix of what was written, or an error; a scan is sorted, returns nothing older
than what was there when it began, and leaves nothing out.

## 2. Modules

Components extend each other, because they share the state of one `Engine` object:

```
InternalKey <- Meta <- EngineState <- Compactor <- Flusher <- WritePath <- Reads <- Recovery <- Engine <- MCEngine
KVStore <- (INSTANCE) LSM <- (INSTANCE) Engine         LSM <- MCLSM, LSMProofs
InternalKey <- Memtable <- MCMemtable                  Engine <- Scans <- MCScans
InternalKey <- Codec <- TableFile <- Tables <- MCTables
WAL, Codec <- LogFile <- MCLogFile                     Meta, Codec <- Manifest <- MCManifest
WAL <- WALProofs                                       InternalKey <- InternalKeyProofs
Memtable, InternalKeyProofs <- MemtableProofs          Scans, EngineProofs <- ScanProofs
Engine, InternalKeyProofs <- EngineTypeProofs <- EngineProofs <- EngineTreeProofs
```

* **InternalKey** - a record is `[key, seq, del, val]`; `Compare` is
  `InternalKey.Compare`; `Search` is the skiplist's and the table reader's search.
  `val` identifies the write, so that two writes are told apart even when a sequence
  number is used twice.
* **Meta** - table metadata, version edits, `apply` and `replay`, `KeyRangeOf`,
  `FindOverlapping`, and `sort.Search` as the bisection it is (on unsorted input it
  ends where the library's loop ends).  `Filter` is the loop that keeps the elements of
  a slice that pass a test.
* **EngineState** - constants, variables, `Init`, and what the components share:
  `LogAndApply` (one that fails may leave any part of its edit in the manifest, `PartsOf`),
  creating (`Create`, `Overlay`), opening and removing files.  A memtable or a table file is the set
  of its records, a log the sequence of its records with the length of its fsynced
  prefix; a size is a number of records.
* **Compactor** - `CompactBegin` (first lock), `CompactMerge` (open, merge, write,
  draw the number), `CompactInstall` and `CompactRemove` (second lock), `CompactDone`
  (give `isCompacting` back), `Reschedule`/`RescheduleClear` (`scheduleCompaction` at
  the end of a compaction, split at its last statement).
* **Flusher** - `rotate`; `FlushTake`, `FlushWrite`, `FlushInstall`, `FlushCleanup`.
* **WritePath** - a call of a client: `Put`/`Delete`/`WriteBatch` (number the records),
  `Stall`, `ReadWal`, `AppendWal`, `Apply` (one record a step, with rotation), `Send`;
  `Sync`, `Close`, `RotateForSync`, `SyncReturn`.
* **Reads** - `get` as a function of the state (the code holds the read lock
  throughout), `NewSnapshot`, `Release`.
* **Recovery** - `New`, `OpenTorn` (New on a manifest with an entry that is cut in two),
  `RecoverOpen`, `RecoverRecord`, `RecoverSend`,
  `RecoverLogDone`, `RecoverFinish`, `RecoverFails`; `CloseReturn`; `Crash`, after
  which a log holds its fsynced prefix, possibly more, possibly half a record.
* **Engine** - the interleaving of all of it, fairness, and the properties.
* **LSM** - the tree without processes, files and numbers: insert, freeze, flush,
  compact.  **KVStore** - a dictionary.  Engine implements LSM, and LSM implements KVStore
  (TLC and TLAPS).
* **WAL** - one log: requests, committer, interval syncer, Close, failures, a crash; `mode`
  is the sync mode the log was opened with, any of the two in the initial state.
  A failing write may leave its requests in the file, whole here and cut at any byte in LogFile.
  The engine model uses its interface only: an append is in the file and, with
  `SyncBatch`, on disk when it returns; a closed log answers with an error.

* **Memtable** - the skiplist: an insert is one step per forward pointer it stores, an
  iterator's Seek and Next one step per pointer they load.  What the engine's modules
  take a memtable for, the set of its records, is what SearchCorrect and IterComplete say.
* **Codec** - bytes of internal keys and records; **LogFile** - bytes of log records and
  Replay, over the log of WAL: every state's file is cut at every byte a crash or a failed
  write can cut it at.
* **Manifest** - `Open`, `newManifest`, CURRENT and `LogAndApply` in its steps, over the
  bytes of the edits; a write may fail at any byte and an fsync may fail, and the next edit
  goes behind what they left; a crash cuts the file behind its fsynced part at any byte, or
  leaves CURRENT empty.  `pieces` is the history: which bytes are of which edit.  `Meta`
  gives the edits their meaning.
* **TableFile** - bytes of blocks, index, filter and footer; **Tables** - the writer, Open,
  Get and the iterators of several goroutines over one block cache, and readers that are
  closed while in use.
* **Scans** - `scan`, `getReader`, the heap and `ScanIterator.advance` beside the whole
  engine: a step of Engine freezes the memtable a scan walks or closes its readers
  (`Follow`).

A definition preceded by `Mutant:` is a plausible bug of the definition after it; it
is used to show that a property can fail (section 4).

### Bounds and abstractions

`MaxWrites`, `MaxBatch`, `MaxStarts`, `MaxFaults` and `MaxFileNum` bound a run, not the
code; `Quiet` is the stuttering of an engine nobody calls, so that every other state
without a successor is reported as a deadlock.  Sizes are counted in records, so a
`MemtableSize` of 1 or 2 makes a rotation happen every write or two.  `Bottom` is 1 or
2 in most runs (6 in the code): the compaction of the last level, which drops
tombstones, then takes place within a few writes.  The part of a merge that touches no
shared state is one step; its reads of the shared file counter are therefore
consecutive.  Close is called with no other call in flight, as its documentation by
example (`defer e.Close()`) has it; a Close beside a write is covered by WAL alone.

In the byte-level modules a fixed field has two bytes instead of four or eight, and a user
key one: enough for a field to be cut in two.  The checksum is a number that depends on
every byte and its position; the two hashes of the Bloom filter are constants, chosen so
that keys that are not there pass.  In Manifest the edits are constants: two flushes, a
compaction and a flush; a table has the number 257, because 257 cut after its first byte
is 1, which is a table too.  `MaxFailures` bounds crashes, failing writes and failing
fsyncs together.  In Tables all tables are written before one is read, and the
cache has two blocks, fewer than the tables, so that blocks are evicted.  In Scans, gets
that open tables come just before the scan reads the Version (`GetReader` says why this
is all of it), and the engine stops when the scan has ended (`Over`).

## 3. Runs

Three to five writes are enough to reach the cases of interest: a rotation, a flush, a
second table on level 0, a compaction with an overlapping table below, a second version
or a delete of a key on another level than the first.

| run | what is varied | shows |
|---|---|---|
| EngineTree | 1 client, 3 keys, put/delete, 3 levels, one-record tables, 4 writes | OneCompaction, LevelsOrdered, ReadsNewest; ImplementsLSM, with which the levels are disjoint |
| EngineConcurrent | 2 clients with a key each, put/delete/batch, a snapshot, 3 levels, 3 writes | NoAckedLost, ManifestCurrent, SnapshotReads |
| EngineDurable | group commit, one crash and recovery, put/delete/sync, 4 writes | NoAckedLost across recovery, AckedOnDisk until it, SyncFlushes |
| EngineFaults | SyncNone, one failing file operation, any part of an edit left by a failing manifest write, a crash or Close and a second start, half-written log records | TypeOK; TablesOnDisk and ManifestCovers for what the first restart finds |
| EngineLive | 2 clients with a key each, put/close, 3 levels, one-record tables, a flush channel of one, 3 writes | WaitsEnd, FlushesEnd under fairness |
| LSM | 3 keys, 7 records, 3 levels | the abstract tree: TypeOK, LevelsDisjoint, ContentsCorrect; it implements KVStore |
| WAL | 3 requests of one or two records, a channel of 2, with and without group commit, failures, Sync, Close, crash, every cut of the bytes | TypeOK, AckedSynced, WrittenOnce, CloseDrains, ReplayPrefix, AppendOnly; Answered, CloseReturns under fairness |
| Memtable | 4 puts of 3 internal keys (equal ones too), 2 levels, an iterator | LevelsNested, SearchCorrect, IterComplete |
| Manifest | 4 edits, 7 levels, 2 failures: crashes and failing writes at any byte, failing fsyncs | ReplayExact, TornConfined |
| Tables | 2 tables of 2 and 3 blocks, versions of a key in two blocks, a cache of 2, a Get and an iterator, readers closed | OpensWhole, GetCorrect, IterExact, CacheSound |
| Scans | 1 client, 2 keys, put/delete, 3 writes, rotations, flushes, compactions, 2 ranges | ScanSorted, ScanFresh, ScanDisturbed |

EngineLive has three levels so that a level above 0 is compacted, with a compact pointer.
The compactor can then go on forever: a level is over its capacity, and all of its tables
are behind the pointer, or the bisection of a level that is not in key order says so
(`compactor.go:61`).  The compactions that follow have no inputs and change nothing but the
file counter, which MaxFileNum ends in the model and nothing in the code (`Spinning`); a
Close waits for them.  WaitsEnd says that this is the only call that does not return, and
FlushesEnd that nothing stays behind in the queue even then.  With one client that also
calls Sync (`Clients = {"c1"}`, `Ops = {"put", "sync", "close"}`) both hold on 70 thousand
states; for two clients with Sync the graph is too large for the search of cycles.

TablesOnDisk and ManifestCovers stop at the first restart, because a manifest that has
failed, or two edits logged in inverted order, can make file numbers come twice after it
(the rows of `version_set.go:29` and `flusher.go:135` below).  ManifestCovers holds for two
keys and two failures, too, on 1.4 million states.

Scans has no snapshot; with puts and a snapshot instead of puts and deletes
(`Ops = {"put", "snapshot"}`, `Snaps = {"s1"}`) the same properties hold, on 1.9 million
states.  Two levels are too few for what compactions do to the scan of a snapshot on three:
with the snapshot's version of a key on level 1, an older one on level 2 and a newer one on
level 0, a compaction of level 0 after the scan has taken the memtables and before it has
read the Version drops the snapshot's version (`compactor.go:193`), and the scan returns the
older one.  ScanFresh therefore speaks, for a snapshot, of the keys whose version is still
there.  (Bottom 2, MemtableSize 1, MaxBytesBase 1, MaxWrites 4, with a state constraint that
leads to that arrangement: ScanFresh holds, and fails without this clause.)

EngineFaults does not check deadlock: a write whose rotation fails returns with
`Engine.mu` locked (`write.go:57`), and a New that fails ends the process; the system
really stops there.  LSM stops when all records are inserted.

One run ends in a counterexample: what the code does disagrees with what its
documentation says (`PROJECT.json`, `findings`).  In VRace a record appended before another
writer's rotation and inserted after it is in a log that the flush removes
(`write.go:46`); a crash loses it although it was acknowledged under group commit.

### Further disagreements

The same modules show these with other constants.  Start from a configuration with
`Clients = {"c1"}`, `Keys = {1, 2}`, `KeysOf <- SharedKeys`, `Snaps = {}`, `Bottom = 6`,
`MemtableSize = 2`, `MaxL0Files = 1`, `MaxSSTableSize = 2`, `MaxBytesBase = 2`,
`LevelMultiplier = 2`, `FlushChanCap = 6`, `CrashRecovery = TRUE`, `SyncBatch = TRUE`,
`MaxBatch = 2`, `MaxStarts = 1`, `MaxFaults = 0`, `MaxFileNum = 50`, and change what the
second column says.

| property | constants | the code |
|---|---|---|
| DeleteIsSeen | Keys {1}, Ops put, delete; MemtableSize 1, MaxL0Files 3, CrashRecovery FALSE, MaxWrites 3 | `immt` is overwritten by a second rotation and cleared by the first flush (`flusher.go:27`): a deleted key is found again; `src/README.md:81-83` says of the key after a Delete `key-1 is deleted` |
| SnapshotKeepsVersions | Keys {1}, Snaps {"s1"}, Ops put, snapshot; MemtableSize 1, MaxL0Files 2, CrashRecovery FALSE, MaxWrites 2 | compaction keeps the newest version only (`compactor.go:193`) and drops what a snapshot reads; `src/README.md:65`: `a consistent point-in-time view` |
| StallEnds (FairSpec, no deadlock check) | Keys {1}, Ops put; MemtableSize 1, CrashRecovery FALSE, MaxWrites 4 | a flush loses the compare-and-swap (`compactor.go:45`) to a goroutine that has already looked at the levels; nothing schedules the compaction that stalled writes wait for |
| PutIsFound | Ops put; MemtableSize 1, CrashRecovery FALSE, MaxWrites 3 | `apply` appends a compaction's outputs to their level and never sorts it (`version_set.go:88`), get bisects it (`read.go:141`): a key is missed |
| NoAckedLost | Ops put, sync, close; MemtableSize 3, MaxL0Files 2, MaxWrites 4, MaxStarts 2 | flush records the last key's sequence number, not the largest (`flusher.go:139`): numbers are used again after a restart and an old version wins |
| NoAckedLost | Keys {1}, Ops put, crash; MaxL0Files 4, MaxWrites 1, MaxStarts 3 | recovery removes a log whose records are only in memory (`recover.go:72`); a second crash loses them |
| NoAckedLost | Keys {1,2,3}, Ops batch, crash; MaxL0Files 4, MaxWrites 3, MaxBatch 3, MaxStarts 2 | a batch is in one log, but its insertions rotate (`write.go:97-118`); the flush of its first half removes that log |
| AlwaysReopens | Keys {1}, Ops put, crash, torn; MaxL0Files 4, MaxWrites 1, MaxStarts 2 | half a record at the end of a log makes Replay, and New, fail (`wal.go:103-112`) |
| SnapshotStable | Keys {1}, Snaps {"s1"}, Ops put, snapshot; MemtableSize 3, MaxL0Files 2, CrashRecovery FALSE, MaxWrites 2 | NewSnapshot counts numbers whose writes are not inserted yet (`snapshot.go:22`): the write appears in the snapshot later |
| CallsReturn (FairSpec, no deadlock check) | Keys {1}, Ops put, sync, crash; MaxWrites 3, MaxStarts 2 | New never schedules a compaction (`engine.go:46-85`); reopened at the stall limit, Put waits at `write.go:39` forever |
| NoAckedLost (no deadlock check) | Ops put, close; Bottom 2, MemtableSize 1, MaxL0Files 2, MaxBytesBase 8, FlushChanCap 1, CrashRecovery FALSE, MaxWrites 5, MaxStarts 2 | flush and compaction draw their edits' next file numbers before the lock (`flusher.go:135`, `compactor.go:108`) and log them in inverted order; after a reopen a live table is truncated |
| NoAckedLost | Clients {"c1","c2"}, Keys {1}, Ops put, delete; MemtableSize 1, MaxL0Files 4, MaxWrites 2 | Delete drops the error of `write` (`write.go:19-21`): one that meets a log which a flush has just closed returns as if it had been done |
| NoAckedLost | Clients {"c1","c2"}, KeysOf <- OwnKeys, Ops put, delete; Bottom 1, CrashRecovery FALSE, MaxWrites 4 | a call freezes the memtable under `Engine.mu` and sends it after the unlock (`write.go:61-65`), so that two calls can send theirs in inverted order: a tombstone is flushed, compacted into the last level and dropped there before the older memtable with the version it deletes is flushed, and the version comes back |
| AckedOnDisk | Keys {1}, Ops put, crash; MaxL0Files 4, MaxWrites 2, MaxStarts 2, MaxFaults 1 | a failing append leaves half a record in a log that stays in use (`wal.go:208`); what is acknowledged behind it cannot be replayed |
| ManifestCoversDeletes (no deadlock check) | Keys {1}, Ops put, delete; Bottom 1, MemtableSize 1, CrashRecovery FALSE, MaxWrites 2, MaxFaults 1 | a failing manifest write leaves a compaction's edit with some of its deletions (`version_set.go:29`): the table of the tombstone is off the list, the one with the version it deletes is on it, and a restart brings the version back |
| ListedOnce (no deadlock check) | Keys {1}, Ops put, close; Bottom 1, MemtableSize 1, MaxL0Files 3, CrashRecovery FALSE, MaxWrites 3, MaxStarts 2, MaxFaults 1 | a failing manifest write leaves an edit without its next file number (`version_set.go:29`): the reopened engine draws the number of a listed table again and lists it twice |
| CallsReturn (EngineLive.cfg) | - | compactions without inputs follow each other, and Close waits for them (`compactor.go:61`) |
| SeekAtTarget (Memtable.cfg) | - | Seek reads the pointer of the last node before the target again (`memtable/iterator.go:53`): it may land on a record inserted meanwhile, below its target |
| AlwaysOpens, LaterEditsSurvive (Manifest.cfg) | - | CURRENT is not fsynced (`manifest.go:61`), an edit is neither framed nor checksummed (`version_set.go:117`): after a crash or a failing write Open fails, or takes what is appended behind a torn edit for the rest of it |
| EndsOnlyAtEnd, NoPanic (Tables.cfg) | - | an iterator whose block cannot be read looks like one at its end (`sstable/iterator.go:74`); Seek then uses the missing block (`sstable/iterator.go:55`) |
| GetCorrect (Tables.cfg) | Files {1, 10} | block cache keys come from six digits of the file name (`reader.go:65`): tables above 999999 (here: 9) share blocks |
| ScanSurvives, CacheIsLive (Scans.cfg) | - | a scan beside a compaction ends the process when a file is gone (`read.go:57`), or loses the rest of a table; a reader that comes late stays in the cache (`read.go:186`) |
| NoPanic (module WAL) | 2 requests, MayFail FALSE | Close closes the channel between submit's check and its send (`wal.go:251`) |

The passing runs therefore state what holds beside these: NoAckedLost holds for one
client through one crash (EngineDurable) and, as long as no tombstone is dropped, for two
clients without one (EngineConcurrent, three levels), and fails for two clients with a
crash or with deletes that reach the last level, for a batch with a crash and for two
crashes.  ReadsNewest and the snapshot properties name the two
conditions under which get can be right: every frozen memtable is visible (NothingHidden)
and the levels are sorted (LevelsSorted).

### Fairness

`FairSpec` of Engine: a call that has begun goes on, the flusher and the compactor run
(strong fairness: `Engine.mu` is a Go mutex, whose starvation mode hands it to the
longest waiter, and a blocked channel send is served in order), recovery goes on (weak
fairness: it takes no lock).  No client has to make a call.  The counterexamples of
StallEnds and of CallsReturn hold under this fairness, which is stronger than what the
polling stall loop gets.  `FairSpec` of WAL: the committer, the end of Close and each
submit are weakly fair; nobody has to call Close or Sync.

## 4. Mutants

For every property of every passing run `PROJECT.json` names a change of one definition
under which TLC finds the property violated with the same configuration: a tombstone
dropped above the last level, a log removed that is still needed, a lock not released,
a lower bound forgotten in the overlap test, an fsync left out, the levels of a skiplist
linked from the top, the deletions of an edit written before its additions, the last block
of a table forgotten, a heap out of order.

## 5. Proofs

The proofs hold for every value of the constants that their assumptions allow.

**WALProofs** (assumption `WALConstants`).  `TypeCorrect`, `AppendOnlyHolds`, and
`GroupCommitDurable`: `Spec => []AckedSynced`.  AckedSynced is not inductive: a request
is acknowledged in the step after the fsync, so the argument needs to know what is in
the file and on disk in between.  The inductive invariant `CommitInv` adds `GroupWritten`
(at "sync" every request of the group is in the file)
and `GroupSynced` (at "answer" without an error it is in the fsynced part).  Steps that
touch the file only lengthen it (`FileKept`, `StaysInFile`), steps that touch `synced`
only raise it (`SyncedKept`, `StaysSynced`); a crash cuts the file at or above `synced`.
`WrittenOnceHolds` needs to know that a request is at one place at a time: in the channel
once, in the group once, and in neither when it is in the file, except for the part of the
group that has just been written.  `CloseDrainsAll` needs that Close goes on only when
the committer has ended, that the committer ends only when the channel is closed and
empty, and that what was acknowledged is in the file when Close fsyncs it.

**LSMProofs** (assumption `LSMConstants`).  `TypeCorrect`; `LevelsDisjointHolds`: the
outputs of a compaction lie within the key range of its inputs and of the tables it
replaces, hence beside every table that stays (lemma `BystanderDisjoint`);
`ContentsCorrectHolds`, by the invariant `TreeInv`: records of one key and sequence
number are one record (`Unique`), and every key written has a newest version
(`HasNewest`), which an infinite set of records would not give by itself; and
`TreeImplementsKV`: `Spec => KV!Spec`, a write maps to a Put or a Delete and all else to
a stutter.

**InternalKeyProofs** has the order of records (`AheadOrders`: by internal key, the younger
of equals first, strict and total) and the least and the greatest record of a set.  Its
inductions, like those of the modules that extend it, take the least element (`LeastNat`)
of the set of numbers at which a fact fails, or has come to hold.

**MemtableProofs** (assumption `MemtableConstants`).  `LevelsNestedHolds`,
`SearchCorrectHolds` and `IterCompleteHolds`, for any height, number of puts and number of
iterators.  LevelsNested is not inductive: that the new node fits between a predecessor
and what follows it is known from the walk that came before the first store.  The
inductive invariant `IInv` has

* `Chained`: on each level a node's pointer leads to the next in order of the nodes linked
  on that level, which the one being inserted joins level by level from the bottom;
* `Inserting`: on the levels still to be linked, nothing is between the predecessor that was
  found and what the new node comes before (Memtable.mu keeps other inserts out);
* `Seeking` and `Passing`, for each iterator: it is on its level and before its target, when
  about to land nothing it was called for lies between, then it has met what it passed.

The walk is a recursive function on each level, and down the levels.  `FollowsExists`,
`AlongLeaves` and `PathExists` show that such functions exist, because each node leads to
one further on and the nodes are finitely many, and that the walk leaves each level at the
last node before its target (`WalkLeaves`); the search and the predecessors of an insert
rest on it.  A list that grows behind an iterator's back keeps what the iterator relies on
(`StaysProper`).

**EngineTypeProofs** (assumption `EngineConstants`).  `EngineTypes`: `Spec => []TypeInv`,
for any number of starts, crashes and failures.  `TypeInv` is what every other proof
about the engine stands on: types, who may hold `Engine.mu` at which program point, that
flusher, compactor and calls are at rest while the process is down, that a compaction
runs only while `isCompacting` is set, that all records were written by somebody
(`issued`), that no memtable in a task is empty.  The module begins with the facts about the
operators of Meta that all proofs about the engine cite: what `Filter`, `apply` and `replay`
leave in a sequence, that the bisection ends within its bounds, that the least and the
greatest record of a table are records of it.

**EngineProofs** (assumption `EngineConstants`).  The inductive invariant `IInv` says
why flush, compaction and writers, which draw file numbers and write tables without a
common lock, do not get into each other's way:

* no two memtables to be flushed have the same table number, wherever their tasks are: in a
  call, in the channel, with the flusher (`TasksApart`); none has that of a file in use, and
  all have been drawn (`TasksFresh`, `UsedBelow`);
* a listed table is whole (`WholeTables`), and so is one that is about to be listed
  (`FlushedWhole`, `JobInv`);
* a compaction's inputs are live until its edit is applied and listed nowhere after it;
  its outputs have numbers of their own (`JobInv`);
* whatever part of a failing edit is in the manifest, it adds and deletes tables of that edit
  only, and it deletes only when it adds them all (`PartTypes`, `WrittenPart`, `EditStep`);
* no level lists a number twice (`LevelsApart`), so that deleting before adding, as
  `apply` does, and adding before deleting, as `replay` does, yield the same
  (`Mirrored`, lemma `EditedLevel`);
* the first start has no log to replay (`NoReplay`), and the number of a record is its
  place in the order of writing (`NumberedInOrder`).

From it follow `TablesAreOnDisk`, `ManifestIsCurrent`, `OneCompactionRuns`
and `TypesAreOK`, each for any number of clients, keys, levels, writes
and failing file operations.  OneCompaction is one of them because a compaction that finds
an input gone returns without giving the flag back: it needs that no input is gone.

These theorems end at the first restart (`starts <= 1`, the crash that ends the first
process included) because the invariant does: the manifest can hold a next file number
below one that is in use, and a sequence number below one that was issued (the table
in section 3, `flusher.go:135` and `flusher.go:139`), after which tables are truncated
and numbers used again.  With two starts TLC checks TypeOK on the small instance of
EngineFaults.

**EngineTreeProofs** (assumption `EngineConstants`).  Where the records are, on top of
`IInv`, again for any number of clients, keys, levels and writes, but (`ManifestHasAll`
excepted) for calls that do not overlap: `OneCall` says that at most one client is in a
call.  With one client it always holds; flusher and compactor run beside that call in any
interleaving.  With overlapping calls those theorems are false (section 3,
`write.go:61-65`), because the memtables then reach the flusher in another order than they
were frozen in.

* `TreeIsOrdered`: `Spec /\ []OneCall => []OrderInv`, until the first restart and with
  failing file operations.  LevelsOrdered is not inductive: a flush keeps it only if what
  is flushed is newer than every table, a compaction only if what it leaves on level 0 is
  newer than what it takes.  `MemOrder` says that all records of the memtable are later
  than those of every frozen one, these are flushed in the order they were frozen in, and
  all are later than those of all tables; the records a call has yet to insert are later
  still.  `TreeOrder` has the levels (level 0 later than all, its tables one after the
  other; below, newer versions above older ones and tables beside each other) and the
  compaction in progress: its inputs are the oldest of their level, what it found to
  overlap is still all that does, its outputs hold the newest version of each key, but for
  tombstones on the last level.  `LevelsAreOrdered` follows.
* `NothingIsDropped`: the invariant `KeptInv`, until the first restart and the first
  failing file operation (`Undisturbed`): what was inserted is held, or something newer of
  its key is, or a later delete was inserted and nothing as old as it is left
  (`InsertedSurvive`).  A compaction drops a tombstone only when all that is held of the
  key elsewhere is newer (`NewerThanReplaced`); nothing that was dropped comes back
  (`Carries`).  `NoAckedIsLost` (NoAckedLost) and `SyncIsDurable` (SyncFlushes) follow.
* `GetReadsNewest` (ReadsNewest): the memtables, then level 0, then the first level that has
  the key: each step of `get` finds the newest version among what it looks at
  (`SearchSees`, `L0Sees`, `LevelSees`; the bisection by `SortSearchLeast` of EngineTypeProofs),
  and what it does not look at is older.
* `SnapshotsAreKept` and `SnapshotsRead` (SnapshotReads): of what is held with a number up
  to the snapshot's, nothing is newer than what the snapshot saw.
* `LogsAreKept` and `AckedIsOnDisk` (AckedOnDisk): with group commit and without batches
  (`Durable`), a record that was inserted is in a table that the manifest lists, or in the
  fsynced part of a log that has not been removed (`DiskInv`), also after the process has
  ended.  A batch whose insertions rotate has records in a log that is removed (section 3,
  `write.go:97-118`).
* `EngineImplementsLSM` (ImplementsLSM): while the process runs undisturbed (`Running`;
  a process that ends loses its memory, which no step of LSM does), every step maps to a
  step of LSM or to none.  The step of the compactor is the long one: the key ranges in the
  tables' descriptions meet exactly when their records' do (`MeetingRecords`), two tables
  of a level hold different records (`TablesDiffer`), and a tombstone that is dropped is
  one LSM may drop.  With LSMProofs the engine implements the dictionary of KVStore.
* `ManifestHasAll` (ManifestCovers) needs no `OneCall` and allows any number of failing file
  operations, until the first restart.  `CoverInv`: the manifest lists, for each value in a
  table of the Version, a table with it or a later value of its key, or the key was deleted
  later; and the outputs of a merge hold the newest of what it replaces, but for tombstones
  on the last level.  The step that matters is an edit of which a failing write leaves part
  (`EditCovers`): as the additions are first in the bytes, a part that deletes a table lists all
  outputs, and no output has the file of an input.  By `NumberedInOrder` the newest by
  sequence number is the last written.

**ScanProofs** (assumptions `EngineConstants`, `RangesOfKeys`).  A scan beside the engine,
for any number of clients, keys, levels and writes, with overlapping calls.

* `ScanInvariant` and `ScanIsSorted` (ScanSorted), through any number of failures, crashes
  and restarts and whatever readers are closed.  ScanSorted is not inductive: it needs where
  the iterators are, and what may still appear in front of them.  `WaitInv`: the records a
  call has still to insert are in no memtable, task or file, and nobody writes during
  recovery; hence a step of the engine adds to the memtable only records that a call waited
  to insert (`ServingStep`), none of which the scan held when it began.  `ScanInv`:
  every iterator has passed the records below the start that were held (`Passed`; between the
  two steps of Seek, `Found`), none is before the key that is being collected, nor is that key before
  what was returned (`Collecting`, `Returned`).
* `ScanIsUndisturbed` (ScanDisturbed), until the first restart.  `ReaderInv`: until a
  compaction removes tables, every table the scan has still to open is on the `Shelf`, the
  files of the live tables and of the inputs a compaction is about to remove; a step of the
  engine takes nothing else from it (`ShelfStep`), and by `IInv` what is on it is whole.
  Only a removal closes a reader, and only a closed reader cuts an iterator off.  After a
  restart `IInv`, and with it the use of file numbers, need not hold.

Only model-checked: liveness (WaitsEnd, FlushesEnd, Answered, CloseReturns), because the
prover has neither fairness nor ENABLED; ReplayPrefix, ReplayExact and TornConfined,
OpensWhole, GetCorrect and IterExact, which are inductions over the bytes of every input;
CacheSound, which rests on the bytes of the blocks; ScanFresh, which needs for every key
how the place of its versions on the levels changed between the two moments at which the
scan takes the memtables and reads the Version, and what each iterator has met since: a
history of the tree that the invariants above, which are about one state of it, do not
have.  The theorems about the engine's records stop where section 3 shows that the
properties do: at overlapping calls, at the second start, at failing file operations.
EngineConcurrent, EngineDurable and EngineFaults check small instances beyond that.

## 6. Not modelled

* The reference counts of memtables, which no code reads, and `ScanIterator.Seek`, which
  no code calls.
* The builder methods of a batch, the default options and the command line driver.
* A Close beside other calls of the engine (WAL has it for the log).
* The loop of empty compactions as a cycle: each round draws a new file number, and
  MaxFileNum ends it; `Spinning` names the states from which it goes on.
* The engine on a torn manifest that Open accepts: in Recovery New fails on a manifest with
  an entry cut in two, which Open can also take for something else (module Manifest has
  both).  Which of an edit's deletions a failing write leaves is any subset, more than the
  beginnings of the list the code writes.  After a number is listed twice, `apply` of the
  code removes the first table with it and the model all; nothing is claimed of such states.
* A failing manifest write is in EngineFaults only; what a flush that goes on after it
  loses is not stated as a property.
* Exact sizes: bytes per record decide in the code when a memtable or a table is full.

## 7. Plan

1. (done) The engine's core, the log, the abstract tree, first proofs.
2. (done) Range scans beside the engine, the table cache and its two locks.
3. (done) The skiplist, table files with the block cache, log and manifest as bytes,
   against reference definitions.
4. (done) Proofs of WrittenOnce and CloseDrains of WAL; for the engine its types, the use
   of file numbers, the manifest and the compaction flag; for the
   skiplist LevelsNested, SearchCorrect and IterComplete.
5. (done) Proofs about the records of the engine: LevelsOrdered, NoAckedLost, SyncFlushes,
   ReadsNewest, SnapshotReads, AckedOnDisk and ImplementsLSM, for calls that do not overlap.
   Proofs about scans beside the engine: ScanSorted and ScanDisturbed.
