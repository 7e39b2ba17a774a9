----------------------------- MODULE EngineState -----------------------------
(***************************************************************************)
(* The state of the storage engine (internal/engine, internal/meta and the *)
(* files of the data directory), and the operations on it that the write   *)
(* path, the flusher, the compactor and recovery share.                    *)
(*                                                                         *)
(* A memtable, and a table file, is the set of its records: the order of   *)
(* records inside one is InternalKey!Compare.  A write-ahead log file is   *)
(* the sequence of its records.  Sizes are counted in records.             *)
(***************************************************************************)
EXTENDS Meta

CONSTANTS
  Clients,          \* goroutines that call the engine's API
  Keys,             \* user keys, integers
  KeysOf,           \* [Clients -> SUBSET Keys]: the keys a client writes
  Snaps,            \* identities of snapshots
  Ops,              \* the API calls the clients make: a subset of AllOps
  Bottom,           \* index of the last level (6 in the code: 7 levels)
  MemtableSize, MaxL0Files, MaxSSTableSize, MaxBytesBase, LevelMultiplier,
  FlushChanCap,     \* capacity of flushChan (6 in the code)
  CrashRecovery,    \* BOOLEAN: is there a write-ahead log?
  SyncBatch,        \* BOOLEAN: group commit (TRUE) or SyncNone (FALSE)
  \* Bounds of the model, not of the code:
  MaxWrites,        \* records written
  MaxBatch,         \* records in one batch
  MaxStarts,        \* times the engine is opened
  MaxFaults,        \* failing file operations
  MaxFileNum        \* no compaction starts itself again above this number

AllOps == {"put", "delete", "batch", "sync", "close", "crash", "torn", "snapshot"}

ASSUME EngineConstants ==
  /\ Keys \subseteq Int
  /\ Clients \cap {"free", "flusher", "compactor"} = {}    \* the other values of mu
  /\ KeysOf \in [Clients -> SUBSET Keys]
  /\ Ops \subseteq AllOps
  /\ \A n \in {Bottom, MemtableSize, MaxL0Files, MaxSSTableSize, MaxBytesBase,
               LevelMultiplier, FlushChanCap, MaxStarts} : n \in Nat \ {0}
  /\ \A n \in {MaxWrites, MaxBatch, MaxFaults, MaxFileNum} : n \in Nat
  /\ {CrashRecovery, SyncBatch} \subseteq BOOLEAN

VARIABLES
  phase,            \* "down", "recovering", "up", "closing" or "failed" (New returned an error)
  mu,               \* Engine.mu: its write holder, or "free"
  seqNum,           \* Engine.seqNum
  mt, immt,         \* Engine.mt; Engine.immt as {} (nil) or a singleton
  wal,              \* number of the log file Engine.wal appends to, or NoWal
  wals,             \* the log directory: number -> [recs, synced, torn]
  closedWals,       \* numbers of the logs this process has closed
  levels,           \* VersionSet.Current.Levels
  nextFileNum,      \* VersionSet.nextFileNum
  manifest,         \* the manifest file, by what replaying it yields
  files,            \* the table files: <<level, number>> -> records, {} if unfinished
  flushQ,           \* flushChan
  fl,               \* the flusher goroutine
  isCompacting,     \* Engine.isCompacting
  job,              \* the compaction goroutine that owns isCompacting
  resched,          \* number of compaction goroutines about to schedule again
  compactPointer,   \* Engine.compactPointer: the keys appended to it, per level
  cl,               \* the call each client is in
  snaps,            \* the live snapshots: {} or {[seq, quiet, view]}
  rv,               \* recovery: the logs to replay, the one being replayed
  issued, acked,    \* history: the records given to the engine; those acknowledged
  starts, faults    \* how often New ran and a file operation failed

memVars  == <<mt, immt>>
walVars  == <<wal, wals, closedWals>>
vsVars   == <<levels, manifest>>
compVars == <<isCompacting, job, resched, compactPointer>>
histVars == <<issued, acked>>
ctlVars  == <<phase, starts>>
vars == <<ctlVars, mu, seqNum, memVars, walVars, vsVars, nextFileNum, files, flushQ, fl,
          compVars, cl, snaps, rv, histVars, faults>>

NoWal  == -1
Levels == 0..Bottom
NoLevels == [l \in Levels |-> <<>>]
EmptyWal == [recs |-> <<>>, synced |-> 0, torn |-> {}]

\* A flushTask: a rotated memtable, the number of its table and its log.
Task(m, n, w) == [mt |-> m, num |-> n, wal |-> w]
NoTask  == Task({}, 0, NoWal)
Idle    == [op |-> "none", pc |-> "idle", recs |-> <<>>, i |-> 1, wal |-> NoWal, tasks |-> <<>>]
FlIdle  == [pc |-> "idle", task |-> NoTask, next |-> 0]
NoJob   == [pc |-> "none", level |-> 0, inputs |-> <<>>, all |-> <<>>, out |-> 0,
            outs |-> <<>>, next |-> 0]
RvIdle  == [pc |-> "idle", todo |-> {}, recs |-> <<>>, torn |-> FALSE, maxSeq |-> 0,
            tasks |-> <<>>]

\* An empty data directory: no CURRENT file, hence no manifest.  A torn manifest has
\* an entry that is cut in two, and maybe others after it: its other fields say what
\* the whole entries say, and not what replaying the file yields.
NoManifest == [made |-> FALSE, torn |-> FALSE, levels |-> NoLevels, next |-> 0, lastSeq |-> 0, log |-> 0]

Init ==
  /\ phase = "down" /\ starts = 0 /\ faults = 0
  /\ mu = "free" /\ seqNum = 0
  /\ mt = {} /\ immt = {}
  /\ wal = NoWal /\ wals = <<>> /\ closedWals = {}
  /\ levels = NoLevels /\ nextFileNum = 0 /\ manifest = NoManifest /\ files = <<>>
  /\ flushQ = <<>> /\ fl = FlIdle
  /\ isCompacting = FALSE /\ job = NoJob /\ resched = 0
  /\ compactPointer = [l \in Levels |-> <<>>]
  /\ cl = [c \in Clients |-> Idle]
  /\ snaps = [s \in Snaps |-> {}]
  /\ rv = RvIdle
  /\ issued = {} /\ acked = {}

----------------------------------------------------------------------------
\* A step may fail in a named way while the run has failures left.
Faults(kinds) == {"none"} \cup (IF faults < MaxFaults THEN kinds ELSE {})
Count(fault)  == faults' = IF fault = "none" THEN faults ELSE faults + 1

\* os.Remove of some files of a directory.
Unlink(dir, names) == [x \in DOMAIN dir \ names |-> dir[x]]

\* os.Create, and what is written then: new files, or the old ones cut and written anew.
Overlay(dir, new) == [x \in DOMAIN dir \cup DOMAIN new |-> IF x \in DOMAIN new THEN new[x] ELSE dir[x]]
Create(dir, name, content) == Overlay(dir, [x \in {name} |-> content])

\* The first n records of a log, or fewer, that Replay can read: torn holds the
\* numbers of records behind which the file has half a record, where Replay stops.
Replayable(log, n) == SubSeq(log.recs, 1, Min({n} \cup log.torn))

\* wal.Open: O_CREATE|O_APPEND, so a file that exists keeps its records.
OpenWal(ws, n) == IF n \in DOMAIN ws THEN ws ELSE Create(ws, n, EmptyWal)

\* VersionSet.LogAndApply: append the edit to the manifest and fsync it, then
\* install the new Version.  If the write or the fsync fails the Version stays;
\* the edit or the beginning of it may be in the file nevertheless, up to the middle
\* of an entry, and the next edit is appended behind it.
LogAndApply(edit, fault) ==
  IF fault = "manifest"
  THEN /\ \E part \in PartsOf(edit), cut \in BOOLEAN :
            /\ cut => part # edit
            /\ manifest' = [replay(manifest, part) EXCEPT !.torn = @ \/ cut]
       /\ UNCHANGED levels
  ELSE /\ manifest' = replay(manifest, edit)
       /\ levels' = apply(levels, edit)

\* sstable.Open succeeds on a complete table file only: an unfinished one has no footer.
Readable(path) == path \in DOMAIN files /\ files[path] # {}

\* The indices of the tasks a call has taken from rotate and not sent yet: all of its
\* tasks while a batch goes on inserting.
Pending(call) == IF call.pc = "apply" THEN 1..Len(call.tasks)
                 ELSE IF call.pc = "send" THEN call.i..Len(call.tasks) ELSE {}

\* The tasks that are not sent yet, of all clients and recovery.
UnsentTasks == (UNION {{cl[c].tasks[i] : i \in Pending(cl[c])} : c \in Clients}) \cup ToSet(rv.tasks)

\* Every frozen memtable that some task still has to write to a table.
FrozenTasks ==
  UnsentTasks \cup ToSet(flushQ) \cup (IF fl.pc \in {"write", "install"} THEN {fl.task} ELSE {})

TablesAt(l) == ToSet(levels[l])
LiveTables  == UNION {TablesAt(l) : l \in Levels}
FileRecords(t) == IF Readable(<<t.level, t.num>>) THEN files[<<t.level, t.num>>] ELSE {}
TableRecords == UNION {FileRecords(t) : t \in LiveTables}

\* Every record the running engine still holds somewhere.
Stored == mt \cup (UNION immt) \cup (UNION {t.mt : t \in FrozenTasks}) \cup TableRecords
=============================================================================
