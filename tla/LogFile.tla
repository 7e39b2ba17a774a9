------------------------------- MODULE LogFile -------------------------------
(***************************************************************************)
(* The bytes of a write-ahead log (encodeRecords and Replay of             *)
(* internal/wal/wal.go) under the group commit of module WAL: what Replay  *)
(* makes of the file that a crash, or a write that failed half-way, leaves *)
(* behind.                                                                 *)
(***************************************************************************)
EXTENDS WAL, Codec

CONSTANT RecordsOf   \* [Reqs -> Seq(records)]: what a request appends

\* encodeRecords: size, record, checksum, for each record.
encodeRecords(recs) ==
  FlattenSeq([i \in 1..Len(recs) |->
    PutUint(Size(recs[i])) \o EncodeRecord(recs[i]) \o PutUint(Checksum(EncodeRecord(recs[i])))])

\* Mutant: the checksum is not compared.
ReplayUnchecked(b) ==
  LET from[off \in 0..Len(b)] ==
        LET rec == off + W32
            sum == rec + Uint(b, off)
            got == DecodeRecord(Slice(b, rec, sum))
        IN IF off = Len(b) THEN [recs |-> <<>>, err |-> FALSE]
           ELSE IF ~Fits(b, off, W32) \/ ~Fits(b, sum, W32) \/ got = {}
           THEN [recs |-> <<>>, err |-> TRUE]
           ELSE LET rest == from[sum + W32]
                IN [rest EXCEPT !.recs = SetToSeq(got) \o @]
  IN from[0]

\* Replay: the records handed to the callback, and whether it ends with an error:
\* a truncated header, payload or checksum, a wrong checksum, or a corrupt record.
\* An end of the file between two records is the end of the log.
Replay(b) ==
  LET from[off \in 0..Len(b)] ==
        LET rec == off + W32
            sum == rec + Uint(b, off)
            got == DecodeRecord(Slice(b, rec, sum))
        IN IF off = Len(b) THEN [recs |-> <<>>, err |-> FALSE]
           ELSE IF \/ ~Fits(b, off, W32) \/ ~Fits(b, sum, W32)
                   \/ Checksum(Slice(b, rec, sum)) # Uint(b, sum) \/ got = {}
           THEN [recs |-> <<>>, err |-> TRUE]
           ELSE LET rest == from[sum + W32]
                IN [rest EXCEPT !.recs = SetToSeq(got) \o @]
  IN from[0]

----------------------------------------------------------------------------
\* The records and the bytes of a sequence of requests.
RecordsIn(s) == FlattenSeq([i \in 1..Len(s) |-> RecordsOf[s[i]]])
Bytes(s) == encodeRecords(RecordsIn(s))

\* The requests that were acknowledged by an fsync, in the order of the file.
AckedRecords == RecordsIn(SelectSeq(file, LAMBDA r : mode = "SyncBatch" /\ pc[r] = "ok"))

\* The file ends where a record does.
AtBoundary(recs, n) == \E i \in 0..Len(recs) : Len(encodeRecords(SubSeq(recs, 1, i))) = n

\* A crash cuts the file at any byte behind the part that is on disk.  Replay then
\* gives whole records, the first ones written, in order, every acknowledged one
\* among them, and reports an error exactly when it was cut inside a record.
CrashReplay ==
  LET all == Bytes(file)
      recs == RecordsIn(file)
  IN \A n \in Len(Bytes(SubSeq(file, 1, synced)))..Len(all) :
       LET res == Replay(SubSeq(all, 1, n))
       IN /\ IsPrefix(res.recs, recs)
          /\ ToSet(AckedRecords) \subseteq ToSet(res.recs)
          /\ res.err = ~AtBoundary(recs, n)

\* A write that fails leaves part of a record, and the file is appended to after
\* that.  Replay gives the records before the part, none of those behind it, and
\* never one that was not written; it reports an error.
TearReplay ==
  \A i \in 0..Len(file) - 1 :
    LET whole == Bytes(SubSeq(file, 1, i))
        torn  == Bytes(<<file[i + 1]>>)
        later == Bytes(SubSeq(file, i + 2, Len(file)))
        recs  == RecordsOf[file[i + 1]]
    IN \A n \in 1..Len(torn) - 1 : ~AtBoundary(recs, n) =>
         LET res == Replay(whole \o SubSeq(torn, 1, n) \o later)
         IN /\ res.err
            /\ IsPrefix(RecordsIn(SubSeq(file, 1, i)), res.recs)
            /\ IsPrefix(res.recs, RecordsIn(SubSeq(file, 1, i + 1)))

\* Whatever a crash or a failed write leaves of the log, Replay gives a prefix of what
\* was written, with everything that was acknowledged before the cut, and it tells a
\* cut from an end.
ReplayPrefix == CrashReplay /\ TearReplay
=============================================================================
