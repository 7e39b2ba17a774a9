------------------------------ MODULE Manifest ------------------------------
(***************************************************************************)
(* The files CURRENT and MANIFEST-000001 (internal/meta): Open, which      *)
(* creates or replays them, LogAndApply, which appends and fsyncs an edit, *)
(* a write or an fsync of it that fails, and crashes in between.  The      *)
(* manifest is its bytes (module Codec); what the edits mean is module     *)
(* Meta.                                                                   *)
(***************************************************************************)
EXTENDS Meta, Codec

CONSTANTS
  Levels,       \* the levels of a Version: 0..6 in the code
  Edits,        \* the edits that are logged, one after the other
  MaxFailures   \* bound of the model: crashes and failing writes and fsyncs

VARIABLES
  current,      \* CURRENT: "absent", "empty" or "named"
  written,      \* BOOLEAN: its contents have reached the disk
  file, synced, \* the manifest's bytes, and how many of them are on disk
  st,           \* "down", "created", "naming", "up", "logging" or "failed"
  vs,           \* VersionSet: [levels, next, lastSeq, log]
  begun,        \* the number of the last edit that was begun
  pieces,       \* history: what the file is made of, as a sequence of [n, from, to,
                \* applied]: bytes from + 1 to to are of edit n, and it is in vs
  failures

diskVars == <<current, written, file, synced>>
vars == <<diskVars, st, vs, begun, pieces, failures>>

tagAddTable == 1
tagDeleteTable == 2
tagLastSequence == 3
tagNextFileNum == 4
tagLogNum == 5
TableMetaSize == W32 + W64 + W64 + W32 + W32 + W32

NewVersionSet == [levels |-> [l \in Levels |-> <<>>], next |-> 0, lastSeq |-> 0, log |-> 0]

----------------------------------------------------------------------------
\* The Type of an internal key is not part of a table's metadata here: TypePut.
WithType(k) == [key |-> k.key, seq |-> k.seq, del |-> FALSE]

encodeTableMeta(t) ==
  PutUint(TableMetaSize + KeySize(t.min) + KeySize(t.max))
    \o PutUint(t.num) \o PutUint(t.size) \o PutUint(t.level)
    \o PutUint(KeySize(t.min)) \o EncodeInternalKey(WithType(t.min))
    \o PutUint(KeySize(t.max)) \o EncodeInternalKey(WithType(t.max))

decodeTableMeta(b) ==
  LET level == W32 + W64 + W64
  IN IF Len(b) < TableMetaSize THEN {}
     ELSE UNION {{[level |-> Uint(b, level), num |-> Uint(b, W32), size |-> Uint(b, W32 + W64),
                   min |-> Lookup(min.key, min.seq), max |-> Lookup(max.key, max.seq)] :
                    max \in DecodeInternalKey(b, min.off + W32)} :
                  min \in DecodeInternalKey(b, level + W32 + W32)}

encodeDeletedTable(p) == PutUint(p[1]) \o PutUint(p[2])

\* binary.PutUvarint, for numbers of at most 14 bits.
PutUvarint(n) == IF n < 128 THEN <<n>> ELSE <<128 + (n % 128), n \div 128>>
OptBytes(tag, opt) == FlattenSeq(SetToSeq({<<tag>> \o PutUvarint(n) : n \in opt}))

\* Mutant: the deleted tables are written before the added ones.
EncodeDeletesFirst(e) ==
  LET dels == SetToSeq(e.dels)
  IN FlattenSeq([i \in 1..Len(dels) |-> <<tagDeleteTable>> \o encodeDeletedTable(dels[i])])
       \o FlattenSeq([i \in 1..Len(e.adds) |-> <<tagAddTable>> \o encodeTableMeta(e.adds[i])])
       \o OptBytes(tagLogNum, e.log) \o OptBytes(tagLastSequence, e.lastSeq)
       \o OptBytes(tagNextFileNum, e.next)

\* encodeVersionEdit: added tables, deleted tables, log number, last sequence
\* number, next file number, each behind its tag.
encodeVersionEdit(e) ==
  LET dels == SetToSeq(e.dels)
  IN FlattenSeq([i \in 1..Len(e.adds) |-> <<tagAddTable>> \o encodeTableMeta(e.adds[i])])
       \o FlattenSeq([i \in 1..Len(dels) |-> <<tagDeleteTable>> \o encodeDeletedTable(dels[i])])
       \o OptBytes(tagLogNum, e.log) \o OptBytes(tagLastSequence, e.lastSeq)
       \o OptBytes(tagNextFileNum, e.next)

\* bytes.Reader.Read into a buffer of n bytes: what is there, and zeros.  It fails
\* only when nothing is left.
ReadZeroed(b, off, n) ==
  LET got == Min({n, Len(b) - off})
  IN Slice(b, off, off + got) \o [i \in 1..(n - got) |-> 0]

\* binary.ReadUvarint: where it stops, and the number it returns; of a number that
\* is cut off, the part that is there.
UvarintEnd(b, off) == Min({Len(b)} \cup {i \in off + 1..Len(b) : b[i] < 128})
Uvarint(b, off) ==
  FoldRight(LAMBDA x, acc : (x % 128) + 128 * acc, Slice(b, off, UvarintEnd(b, off)), 0)

\* One entry of the manifest at off: the edit it amounts to and the position behind
\* it; {} where replay returns an error or, for a level that does not exist, panics.
\* The error of a number that is cut off is dropped; an unknown tag is skipped.
entryAt(b, off) ==
  LET at    == UvarintEnd(b, off)
      tag   == Uvarint(b, off)
      size  == Uint(b, at)
      table == IF ~Fits(b, at, W32) THEN {} ELSE decodeTableMeta(ReadZeroed(b, at, size))
      del   == ReadZeroed(b, at, W32 + W64)
      item(e, next) == {[edit |-> e, off |-> Min({next, Len(b)})]}
      num   == {Uvarint(b, at)}
      next  == UvarintEnd(b, at)
  IN CASE b[at] >= 128 -> {}
       [] tag = tagAddTable ->
            UNION {item([NoEdit EXCEPT !.adds = <<t>>], at + size) : t \in {u \in table : u.level \in Levels}}
       [] tag = tagDeleteTable ->
            IF at = Len(b) \/ Uint(del, 0) \notin Levels THEN {}
            ELSE item([NoEdit EXCEPT !.dels = {<<Uint(del, 0), Uint(del, W32)>>}], at + W32 + W64)
       [] tag = tagLastSequence -> item([NoEdit EXCEPT !.lastSeq = num], next)
       [] tag = tagNextFileNum  -> item([NoEdit EXCEPT !.next = num], next)
       [] tag = tagLogNum       -> item([NoEdit EXCEPT !.log = num], next)
       [] OTHER                 -> item(NoEdit, at)

\* VersionSet.replay: every entry of the file takes effect at once; {} on an error.
replayFile(b) ==
  LET from[off \in 0..Len(b)] ==
        IF off = Len(b) THEN {<<>>}
        ELSE UNION {{<<e.edit>> \o rest : rest \in from[e.off]} : e \in entryAt(b, off)}
  IN {FoldLeft(replay, NewVersionSet, entries) : entries \in from[0]}

----------------------------------------------------------------------------
Init ==
  /\ current = "absent" /\ written = FALSE
  /\ file = <<>> /\ synced = 0
  /\ st = "down" /\ vs = NewVersionSet
  /\ begun = 0 /\ pieces = <<>> /\ failures = 0

\* Open without CURRENT: newManifest creates the manifest, or truncates it ...
CreateManifest ==
  /\ st = "down" /\ current = "absent"
  /\ file' = <<>> /\ synced' = 0
  /\ st' = "created"
  /\ UNCHANGED <<current, written, vs, begun, pieces, failures>>

\* ... and os.WriteFile creates CURRENT ...
CreateCurrent ==
  /\ st = "created"
  /\ current' = "empty" /\ st' = "naming"
  /\ UNCHANGED <<written, file, synced, vs, begun, pieces, failures>>

\* ... and writes the name into it, without fsync.
NameCurrent ==
  /\ st = "naming"
  /\ current' = "named" /\ st' = "up"
  /\ vs' = [NewVersionSet EXCEPT !.next = 1]
  /\ UNCHANGED <<written, file, synced, begun, pieces, failures>>

\* The edit of a piece is in the file as a whole.
Whole(p) == p.to - p.from = Len(encodeVersionEdit(Edits[p.n]))

\* Open with CURRENT.  An empty one names the data directory itself, which cannot
\* be opened for writing.
OpenManifest ==
  LET versions == IF current = "empty" THEN {} ELSE replayFile(file)
  IN /\ st = "down" /\ current # "absent"
     /\ IF versions = {} THEN st' = "failed" /\ UNCHANGED <<vs, pieces>>
        ELSE /\ st' = "up" /\ vs' \in versions
             /\ pieces' = [i \in DOMAIN pieces |-> [pieces[i] EXCEPT !.applied = Whole(pieces[i])]]
     /\ UNCHANGED <<diskVars, begun, failures>>

Tables(levels) == UNION {ToSet(levels[l]) : l \in DOMAIN levels}

\* The next edit is one that deletes listed tables only, as a compaction's does.
Loggable ==
  {k \in begun + 1..Len(Edits) : Edits[k].dels \subseteq {<<t.level, t.num>> : t \in Tables(vs.levels)}}

\* n bytes of edit k are appended to the file.
Appended(k, n) ==
  /\ begun' = k
  /\ file' = file \o SubSeq(encodeVersionEdit(Edits[k]), 1, n)
  /\ pieces' = Append(pieces, [n |-> k, from |-> Len(file), to |-> Len(file) + n, applied |-> FALSE])

\* LogAndApply: the edit is appended ...
WriteEdit ==
  /\ st = "up" /\ Loggable # {}
  /\ Appended(Min(Loggable), Len(encodeVersionEdit(Edits[Min(Loggable)])))
  /\ st' = "logging"
  /\ UNCHANGED <<current, written, synced, vs, failures>>

\* ... or, when the write fails, part of it; LogAndApply returns the error, and the
\* next edit is appended behind that part.
WriteFails ==
  /\ st = "up" /\ Loggable # {} /\ failures < MaxFailures
  /\ failures' = failures + 1
  /\ \E n \in 0..(Len(encodeVersionEdit(Edits[Min(Loggable)])) - 1) : Appended(Min(Loggable), n)
  /\ UNCHANGED <<current, written, synced, st, vs>>

\* Mutant: the edit is not fsynced.
ApplyUnsynced ==
  /\ st = "logging"
  /\ vs' = [vs EXCEPT !.levels = apply(@, Edits[begun])]
  /\ pieces' = [pieces EXCEPT ![Len(pieces)].applied = TRUE]
  /\ st' = "up"
  /\ UNCHANGED <<current, written, file, synced, begun, failures>>

\* ... fsynced, and applied ...
SyncAndApply ==
  /\ st = "logging"
  /\ synced' = Len(file)
  /\ vs' = [vs EXCEPT !.levels = apply(@, Edits[begun])]
  /\ pieces' = [pieces EXCEPT ![Len(pieces)].applied = TRUE]
  /\ st' = "up"
  /\ UNCHANGED <<current, written, file, begun, failures>>

\* ... or, when the fsync fails, not applied.
SyncFails ==
  /\ st = "logging" /\ failures < MaxFailures
  /\ failures' = failures + 1
  /\ st' = "up"
  /\ UNCHANGED <<diskVars, vs, begun, pieces>>

\* The system writes CURRENT's contents back at some time.
WriteBack ==
  /\ current = "named" /\ ~written
  /\ written' = TRUE
  /\ UNCHANGED <<current, file, synced, st, vs, begun, pieces, failures>>

\* The history after a crash that leaves n bytes: what LogAndApply has returned for
\* stays in it.
CutAt(n) ==
  LET left == SelectSeq(pieces, LAMBDA p : p.applied \/ p.from < n)
  IN [i \in DOMAIN left |-> [left[i] EXCEPT !.to = IF left[i].applied THEN @ ELSE Min({@, n})]]

\* The machine stops.  The file keeps what was fsynced and any part of the rest;
\* CURRENT may turn out empty if it was not written back.
Crash ==
  /\ st \in {"created", "naming", "up", "logging"} /\ failures < MaxFailures
  /\ failures' = failures + 1
  /\ \E n \in synced..Len(file) :
       file' = SubSeq(file, 1, n) /\ synced' = n /\ pieces' = CutAt(n)
  /\ current' \in IF current = "named" /\ ~written THEN {"empty", "named"} ELSE {current}
  /\ st' = "down" /\ vs' = NewVersionSet
  /\ UNCHANGED <<written, begun>>

\* Nothing is left to log, or the data directory cannot be opened.
Stopped ==
  /\ st = "failed" \/ (st = "up" /\ Loggable = {})
  /\ UNCHANGED vars

Next == CreateManifest \/ CreateCurrent \/ NameCurrent \/ OpenManifest \/ WriteEdit \/ WriteFails
          \/ SyncAndApply \/ SyncFails \/ WriteBack \/ Crash \/ Stopped

Spec == Init /\ [][Next]_vars

----------------------------------------------------------------------------
\* The edits that are cut.
Torn == {i \in DOMAIN pieces : pieces[i].to > pieces[i].from /\ ~Whole(pieces[i])}

\* What the edits of some pieces yield, one after the other.
Yield(ps) == FoldLeft(LAMBDA v, p : replay(v, Edits[p.n]), NewVersionSet, ps)
Done == Yield(SelectSeq(pieces, Whole))

\* As long as no edit is cut in two, by a crash or by a failing write, the manifest
\* would be replayed to the tables and numbers of exactly the edits that LogAndApply
\* has returned for, or that a failing fsync or a crash left whole; the Version in
\* memory has the tables of those that LogAndApply or Open has applied; and nothing
\* makes Open fail but a CURRENT that a crash has left empty.
ReplayExact ==
  Torn = {} =>
    /\ st = "up" => /\ replayFile(file) = {Done}
                     /\ vs.levels = Yield(SelectSeq(pieces, LAMBDA p : p.applied)).levels
    /\ st = "failed" => current = "empty"

\* When Open accepts a manifest that ends within an edit, which a crash or a failing
\* write has cut, a table listed before is gone only if the edit deletes it, or a
\* table whose number it becomes when the number is cut; and then every table the
\* edit adds is listed: a torn compaction does not lose its inputs and its outputs.
\* At most one table of a torn edit is listed with wrong data.
TornConfined ==
  st \in {"up", "down"} /\ Torn = {Len(pieces)} =>
    LET had  == Tables(Done.levels)
        last == Edits[Last(pieces).n]
        adds == ToSet(last.adds)
    IN \A v \in replayFile(file) :
         LET has == Tables(v.levels)
         IN /\ \A t \in had \ has :
                 \E d \in last.dels : t.level = d[1] /\ t.num \in {d[2], d[2] % 256}
            /\ had \subseteq has \/ adds \subseteq has
            /\ Cardinality(has \ (had \cup adds)) <= 1

\* Not the case: Open always succeeds; what is logged behind a torn edit is not lost.
AlwaysOpens == st # "failed"
LaterEditsSurvive ==
  st = "up" => Tables(Yield(SelectSeq(pieces, LAMBDA p : p.applied /\ Whole(p))).levels) \subseteq Tables(vs.levels)
=============================================================================
