-------------------------------- MODULE Meta --------------------------------
(***************************************************************************)
(* The version set's data (internal/meta): table metadata, the levels of a *)
(* Version, version edits, and the two ways an edit takes effect: apply,   *)
(* on the Version in memory, and replay, when the manifest is read back.   *)
(*                                                                         *)
(* An edit is [adds, dels, next, lastSeq, log]: a sequence of table        *)
(* metadata, a set of <<level, file number>> pairs, and three optional     *)
(* numbers, each a set of at most one number.  A manifest is represented   *)
(* by what replaying it yields, [levels, next, lastSeq, log]: replay reads *)
(* the edits from the first to the last, so appending an edit to the file  *)
(* is one more replay step on that value.                                  *)
(***************************************************************************)
EXTENDS InternalKey, Sequences, FiniteSetsExt, SequencesExt

NoEdit == [adds |-> <<>>, dels |-> {}, next |-> {}, lastSeq |-> {}, log |-> {}]

\* Mutant: encodeVersionEdit writes the deleted tables before the added ones.
PartsDeletesFirst(edit) ==
  {[NoEdit EXCEPT !.dels = D] : D \in SUBSET edit.dels}
  \cup {[NoEdit EXCEPT !.dels = edit.dels, !.adds = SubSeq(edit.adds, 1, n)] : n \in 0..Len(edit.adds)}
  \cup {[edit EXCEPT !.lastSeq = {}, !.next = {}], [edit EXCEPT !.next = {}], edit}

\* What a failing write can leave of an edit, in whole entries: encodeVersionEdit
\* writes the added tables, the deleted ones, the log number, the last sequence
\* number and the next file number.  (The deleted tables have an order in the code,
\* and a set has none: any of them may be left here, not only the first ones.)
PartsOf(edit) ==
  {[NoEdit EXCEPT !.adds = SubSeq(edit.adds, 1, n)] : n \in 0..Len(edit.adds)}
  \cup {[NoEdit EXCEPT !.adds = edit.adds, !.dels = D] : D \in SUBSET edit.dels}
  \cup {[edit EXCEPT !.lastSeq = {}, !.next = {}], [edit EXCEPT !.next = {}], edit}

\* The TableMeta of a table file with the given (non-empty) records; the size
\* of a file is its number of records.
TableMeta(level, num, recs) ==
  LET ik(r) == [key |-> r.key, seq |-> r.seq]
  IN [level |-> level, num |-> num, size |-> Cardinality(recs),
      min |-> ik(FirstOf(recs)), max |-> ik(LastOf(recs))]

\* The set of file identities <<level, num>> of a sequence of tables.
Paths(tables) == {<<t.level, t.num>> : t \in ToSet(tables)}

\* sort.Search of the Go library, for a predicate given as the set hits of the
\* indices in 0..n-1 at which it is true: the least of them if the predicate is
\* monotone; what bisection ends on, if it is not.
SortSearch(n, hits) ==
  LET bisect[p \in (0..n) \X (0..n)] ==
        LET i == p[1]
            j == p[2]
            h == (i + j) \div 2
        IN IF i >= j THEN i
           ELSE IF h \in hits THEN bisect[<<i, h>>] ELSE bisect[<<h + 1, j>>]
  IN bisect[<<0, n>>]

\* KeyRangeOf: the least and the greatest user key of a non-empty sequence.
KeyRangeOf(tables) ==
  <<Min({t.min.key : t \in ToSet(tables)}), Max({t.max.key : t \in ToSet(tables)})>>

\* The loop that appends the elements of a slice that pass a test, here those in K,
\* to another: SelectSeq, in a form that proofs can unfold.
Filter(s, K) ==
  LET kept[i \in 0..Len(s)] ==
        IF i = 0 THEN <<>>
        ELSE IF s[i] \in K THEN Append(kept[i - 1], s[i]) ELSE kept[i - 1]
  IN kept[Len(s)]

\* Mutant: only the tables that hold the lower end of the range.
FindOverlappingLow(tables, minKey, maxKey) ==
  Filter(tables, {t \in ToSet(tables) : t.min.key <= minKey /\ minKey <= t.max.key})

\* FindOverlapping: the tables whose key range meets minKey..maxKey.
FindOverlapping(tables, minKey, maxKey) ==
  Filter(tables, {t \in ToSet(tables) : ~(t.max.key < minKey \/ t.min.key > maxKey)})

AddsAt(edit, level) == Filter(edit.adds, {t \in ToSet(edit.adds) : t.level = level})
Without(tables, dels) == Filter(tables, {t \in ToSet(tables) : <<t.level, t.num>> \notin dels})

\* VersionSet.apply: tables are deleted first, then the new ones are appended
\* to their levels, in the order of the edit; no level is sorted.
apply(levels, edit) ==
  [l \in DOMAIN levels |-> Without(levels[l], edit.dels) \o AddsAt(edit, l)]

\* An optional number of an edit overwrites the number read before it.
Override(opt, old) == IF opt = {} THEN old ELSE CHOOSE n \in opt : TRUE

\* Mutant: tagDeleteTable entries are read and forgotten.
ReplayKeepsDeleted(m, edit) ==
  [m EXCEPT !.levels  = [l \in DOMAIN @ |-> @[l] \o AddsAt(edit, l)],
            !.next    = Override(edit.next, @),
            !.lastSeq = Override(edit.lastSeq, @),
            !.log     = Override(edit.log, @)]

\* VersionSet.replay of one more edit.  encodeVersionEdit writes the added
\* tables before the deleted ones, and replay follows the order of the file.
replay(m, edit) ==
  [m EXCEPT !.levels  = [l \in DOMAIN @ |-> Without(@[l] \o AddsAt(edit, l), edit.dels)],
            !.next    = Override(edit.next, @),
            !.lastSeq = Override(edit.lastSeq, @),
            !.log     = Override(edit.log, @)]
=============================================================================
