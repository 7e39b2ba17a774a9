------------------------------ MODULE TableFile ------------------------------
(***************************************************************************)
(* The bytes of a table file (internal/sstable): blocks of records, the    *)
(* index, the Bloom filter and the footer, as the writer puts them and as  *)
(* Open and readBlock take them apart.  Bytes and positions are those of   *)
(* module Codec.  A decoder gives {} where the code returns an error.      *)
(***************************************************************************)
EXTENDS Codec

CONSTANTS
  FilterM, FilterK,   \* the bits and the hash functions that NewFilter computes
  Hash1, Hash2        \* [user keys -> Nat]: the two FNV hashes

ASSUME FilterAssumption == FilterM \in Nat \ {0} /\ FilterK \in Nat \ {0}

Magic == 65277
FooterSize == W64 + W32 + W64 + W32 + W64

----------------------------------------------------------------------------
\* A filter is [bits, len, m, k]: the set of its bits that are set, and the number
\* of its bytes.
NewFilter == [bits |-> {}, len |-> (FilterM + 7) \div 8, m |-> FilterM, k |-> FilterK]

BitsOf(f, key) == {(Hash1[key] + i * Hash2[key]) % f.m : i \in 0..f.k - 1}

\* Filter.Add and Filter.Contains.
AddToFilter(f, key) == [f EXCEPT !.bits = @ \cup BitsOf(f, key)]
FilterContains(f, key) == BitsOf(f, key) \subseteq f.bits

\* bits_len, bits, m, k.
EncodeFilter(f) ==
  LET byte(i) == SumSet({2 ^ (b % 8) : b \in {c \in f.bits : c \div 8 = i}})
  IN PutUint(f.len) \o [i \in 1..f.len |-> byte(i - 1)] \o PutUint(f.m) \o <<f.k>>

DecodeFilter(b) ==
  LET len == Uint(b, 0)
      m   == W32 + len
  IN IF ~Fits(b, 0, W32) \/ ~Fits(b, m, W32 + 1) THEN {}
     ELSE {[bits |-> {c \in 0..8 * len - 1 : (b[W32 + (c \div 8) + 1] \div 2 ^ (c % 8)) % 2 = 1},
            len |-> len, m |-> Uint(b, m), k |-> b[m + W32 + 1]]}

----------------------------------------------------------------------------
\* An index is a sequence of [sep, off, size]: the last key of a block, and where
\* the block is.
encodeIndexEntry(e) == PutUint(e.off) \o PutUint(e.size) \o EncodeInternalKey(e.sep)

decodeIndexEntry(b) ==
  IF Len(b) < W64 + W32 THEN {}
  ELSE {[sep |-> [key |-> k.key, seq |-> k.seq, del |-> k.del],
         off |-> Uint(b, 0), size |-> Uint(b, W64)] : k \in DecodeInternalKey(b, W64 + W32)}

\* Entries behind their sizes.
Sized(encoded) == FlattenSeq([i \in 1..Len(encoded) |-> PutUint(Len(encoded[i])) \o encoded[i]])

encodeIndexBlock(index) ==
  PutUint(Len(index)) \o Sized([i \in 1..Len(index) |-> encodeIndexEntry(index[i])])

decodeIndexBlock(b) ==
  LET from[off \in 0..Len(b), n \in 0..Uint(b, 0)] ==
        LET at  == off + W32
            end == at + Uint(b, off)
        IN IF n = 0 THEN {<<>>}
           ELSE IF ~Fits(b, off, W32) \/ end > Len(b) THEN {}
           ELSE {<<e>> \o rest : e \in decodeIndexEntry(Slice(b, at, end)), rest \in from[end, n - 1]}
  IN IF ~Fits(b, 0, W32) THEN {} ELSE from[W32, Uint(b, 0)]

----------------------------------------------------------------------------
\* A block: its total size, the number of entries, the entries, a checksum of all
\* that.  size is the writer's currentBlockSize; the checksum is not in it.
encodeBlock(entries, size) ==
  LET body == PutUint(size + W32) \o PutUint(Len(entries))
                \o Sized([i \in 1..Len(entries) |-> EncodeRecord(entries[i])])
  IN body \o PutUint(Checksum(body))

\* decodeBlock: the records of a block.
decodeBlock(b) ==
  LET sum == Len(b) - W32
      from[off \in 0..Len(b), n \in 0..Uint(b, W32)] ==
        LET at  == off + W32
            end == at + Uint(b, off)
        IN IF n = 0 THEN {<<>>}
           ELSE IF off + W32 > sum \/ end > Len(b) THEN {}
           ELSE {<<r>> \o rest : r \in DecodeRecord(Slice(b, at, end)), rest \in from[end, n - 1]}
  IN IF Len(b) < 3 * W32 \/ Uint(b, sum) # Checksum(Slice(b, 0, sum)) THEN {}
     ELSE from[2 * W32, Uint(b, W32)]

----------------------------------------------------------------------------
encodeFooter(f) ==
  PutUint(f.indexOff) \o PutUint(f.indexSize) \o PutUint(f.filterOff) \o PutUint(f.filterSize)
    \o PutUint(Magic)

decodeFooter(b) ==
  {f \in {[indexOff |-> Uint(b, 0), indexSize |-> Uint(b, W64), filterOff |-> Uint(b, W64 + W32),
           filterSize |-> Uint(b, W64 + W32 + W64)]} : Uint(b, FooterSize - W64) = Magic}

\* os.File.ReadAt of a whole buffer: an error where the file does not have it.
readAt(b, off, size) == IF off >= 0 /\ Fits(b, off, size) THEN {Slice(b, off, off + size)} ELSE {}

\* Open: the index and the filter that the footer at the end of the file points to.
openFile(b) ==
  LET footers == UNION {decodeFooter(x) : x \in readAt(b, Len(b) - FooterSize, FooterSize)}
  IN UNION {{[index |-> i, filter |-> g] :
              i \in UNION {decodeIndexBlock(x) : x \in readAt(b, f.indexOff, f.indexSize)},
              g \in UNION {DecodeFilter(x) : x \in readAt(b, f.filterOff, f.filterSize)}} :
            f \in footers}
=============================================================================
