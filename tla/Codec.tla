-------------------------------- MODULE Codec --------------------------------
(***************************************************************************)
(* internal/record: how records and internal keys are written to bytes and *)
(* read back.  Bytes are numbers in a sequence; positions count from 0, as *)
(* in the code.  To keep files short a field of 4 bytes and one of 8 bytes *)
(* have two bytes here (W32, W64), the low one first: enough for a field   *)
(* to be cut in two.  A user key has one byte, a value none (0) or one.    *)
(*                                                                         *)
(* A decoder gives a set: {} for ErrCorruptRecord, else what it has read.  *)
(***************************************************************************)
EXTENDS InternalKey, Sequences, FiniteSetsExt, SequencesExt

W32 == 2
W64 == 2
TypePut == 1
TypeDel == 0

\* binary.LittleEndian.PutUint32/PutUint64 and Uint32/Uint64.
PutUint(n) == <<n % 256, n \div 256>>
Uint(b, off) == b[off + 1] + 256 * b[off + 2]

\* b[i:j], and whether n bytes are left behind off.
Slice(b, i, j) == SubSeq(b, i + 1, j)
Fits(b, off, n) == off + n <= Len(b)

\* A key or value from its bytes: the number they write, 0 for none; of the long
\* ones that only a damaged file has, the last two bytes.
FromBytes(b) == FoldLeft(LAMBDA acc, x : 256 * acc + x, 0, Slice(b, Max({0, Len(b) - 2}), Len(b)))

\* hash/crc32: a number that depends on every byte and on their order.
Checksum(b) == FoldLeft(LAMBDA acc, x : (31 * acc + x + 1) % 65521, 7, b)

KeySize(k) == W32 + 1 + W64 + 1
ValueBytes(r) == IF r.val = 0 THEN <<>> ELSE <<r.val>>
\* Record.Size.
Size(r) == KeySize(r) + W32 + Len(ValueBytes(r))

EncodeInternalKey(k) ==
  PutUint(1) \o <<k.key>> \o PutUint(k.seq) \o <<IF k.del THEN TypeDel ELSE TypePut>>

\* DecodeInternalKey: the key and the position behind it.
DecodeInternalKey(b, off) ==
  LET k == off + W32
      s == k + Uint(b, off)
      t == s + W64
  IN IF Fits(b, off, W32) /\ Fits(b, k, Uint(b, off)) /\ Fits(b, s, W64) /\ Fits(b, t, 1)
     THEN {[key |-> FromBytes(Slice(b, k, s)), seq |-> Uint(b, s), del |-> b[t + 1] = TypeDel,
            off |-> t + 1]}
     ELSE {}

\* EncodeRecordInto and EncodeRecordIntoWriter.
EncodeRecord(r) == EncodeInternalKey(r) \o PutUint(Len(ValueBytes(r))) \o ValueBytes(r)

\* DecodeRecord: the internal key, then the value; bytes behind it are ignored.
DecodeRecord(b) ==
  LET ends(k) == k.off + W32 + Uint(b, k.off)
  IN {[key |-> k.key, seq |-> k.seq, del |-> k.del, val |-> FromBytes(Slice(b, k.off + W32, ends(k)))] :
        k \in {d \in DecodeInternalKey(b, 0) : Fits(b, d.off, W32) /\ ends(d) <= Len(b)}}
=============================================================================
