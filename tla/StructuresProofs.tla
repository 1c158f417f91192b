--------------------------- MODULE StructuresProofs --------------------------
(***************************************************************************)
(* Theorems about three of the data structures: MemoryPool, for any set of *)
(* slices and any number of allocations; MmapStream, for a mapping and     *)
(* arguments of any size; Buffer, for any strings, offsets and capacity.   *)
(***************************************************************************)
EXTENDS MemoryPool, Buffer, MmapStream, FiniteSetTheorems, SequenceTheorems,
        TLAPS

-----------------------------------------------------------------------------
(* The memory pool.                                                        *)

(* The header counts the slices of an allocator, and knows of the end of   *)
(* the pool object.                                                        *)
SlicesAreCounted ==
    /\ IsFiniteSet(slices)
    /\ pooled => slice_count = Cardinality(slices)
    /\ pooled => (released <=> ~object)
    /\ ~pooled => ~released /\ ~shared

PoolInv == MPTypeOK /\ SlicesAreCounted /\ PoolLastsAsLongAsNeeded

-----------------------------------------------------------------------------
(* The last slice is the one that leaves a count of zero.                  *)
LEMMA LastSlice ==
    ASSUME NEW S, IsFiniteSet(S), NEW s \in S
    PROVE  /\ IsFiniteSet(S \ {s})
           /\ Cardinality(S \ {s}) = Cardinality(S) - 1
           /\ Cardinality(S) \in Nat \ {0}
           /\ Cardinality(S) - 1 = 0 <=> S \ {s} = {}
<1>1. IsFiniteSet(S \ {s}) /\ Cardinality(S \ {s}) = Cardinality(S) - 1
  BY FS_RemoveElement
<1>2. Cardinality(S) \in Nat /\ Cardinality(S \ {s}) \in Nat
  BY <1>1, FS_CardinalityType
<1>3. Cardinality(S \ {s}) = 0 <=> S \ {s} = {}
  BY <1>1, FS_EmptySet
<1> QED BY <1>1, <1>2, <1>3

LEMMA PoolInit == MPInit => PoolInv
<1> SUFFICES ASSUME MPInit PROVE PoolInv
  OBVIOUS
<1>1. MPTypeOK
  BY DEF MPInit, MPTypeOK
<1>2. SlicesAreCounted
  BY FS_EmptySet DEF MPInit, SlicesAreCounted
<1>3. PoolLastsAsLongAsNeeded
  BY DEF MPInit, PoolLastsAsLongAsNeeded
<1> QED BY <1>1, <1>2, <1>3 DEF PoolInv

LEMMA AllocInvariant ==
    ASSUME PoolInv, NEW s \in Slices, Alloc(s)
    PROVE  PoolInv'
<1>1. /\ IsFiniteSet(slices \cup {s})
      /\ Cardinality(slices \cup {s}) = Cardinality(slices) + 1
  BY FS_AddElement DEF PoolInv, SlicesAreCounted, Alloc
<1>2. MPTypeOK'
  BY DEF PoolInv, MPTypeOK, Alloc
<1>3. SlicesAreCounted'
  BY <1>1 DEF PoolInv, SlicesAreCounted, Alloc
<1>4. PoolLastsAsLongAsNeeded'
  BY DEF PoolInv, PoolLastsAsLongAsNeeded, Alloc
<1> QED BY <1>2, <1>3, <1>4 DEF PoolInv

LEMMA DestroyPoolInvariant ==
    ASSUME PoolInv, DestroyPool
    PROVE  PoolInv'
<1>1. pooled => (slice_count = 0 <=> slices = {})
  BY FS_EmptySet DEF PoolInv, SlicesAreCounted
<1>2. MPTypeOK'
  <2>1. deletions' \in Nat /\ frees' \in Nat
    BY DEF PoolInv, MPTypeOK, DestroyPool, DeletedIfUnused, Delete, Keep
  <2>2. released' \in BOOLEAN
    BY DEF PoolInv, MPTypeOK, DestroyPool
  <2> QED BY <2>1, <2>2 DEF PoolInv, MPTypeOK, DestroyPool
<1>3. SlicesAreCounted'
  BY DEF PoolInv, MPTypeOK, SlicesAreCounted, DestroyPool
<1>4. PoolLastsAsLongAsNeeded'
  BY <1>1 DEF PoolInv, MPTypeOK, SlicesAreCounted, PoolLastsAsLongAsNeeded,
              DestroyPool, DeletedIfUnused, Delete, Keep
<1> QED BY <1>2, <1>3, <1>4 DEF PoolInv

LEMMA DestroySliceInvariant ==
    ASSUME PoolInv, NEW s \in Slices, DestroySlice(s)
    PROVE  PoolInv'
<1>1. /\ IsFiniteSet(slices \ {s})
      /\ Cardinality(slices \ {s}) = Cardinality(slices) - 1
      /\ Cardinality(slices) \in Nat \ {0}
      /\ Cardinality(slices) - 1 = 0 <=> slices \ {s} = {}
  BY LastSlice DEF PoolInv, SlicesAreCounted, DestroySlice
<1>2. MPTypeOK'
  BY <1>1 DEF PoolInv, MPTypeOK, SlicesAreCounted, DestroySlice, Last, Delete, Keep
<1>3. SlicesAreCounted'
  BY <1>1 DEF PoolInv, SlicesAreCounted, DestroySlice
<1>4. PoolLastsAsLongAsNeeded'
  BY <1>1 DEF PoolInv, MPTypeOK, SlicesAreCounted, PoolLastsAsLongAsNeeded,
              DestroySlice, Last, Delete, Keep
<1> QED BY <1>2, <1>3, <1>4 DEF PoolInv

LEMMA PoolNext == PoolInv /\ [MPNext]_mpVars => PoolInv'
<1> SUFFICES ASSUME PoolInv, [MPNext]_mpVars PROVE PoolInv'
  OBVIOUS
<1>1. CASE \E s \in Slices : Alloc(s)
  BY <1>1, AllocInvariant
<1>2. CASE \E s \in Slices : DestroySlice(s)
  BY <1>2, DestroySliceInvariant
<1>3. CASE DestroyPool
  BY <1>3, DestroyPoolInvariant
<1>4. CASE UNCHANGED mpVars
  BY <1>4 DEF PoolInv, MPTypeOK, SlicesAreCounted, PoolLastsAsLongAsNeeded, mpVars
<1> QED BY <1>1, <1>2, <1>3, <1>4 DEF MPNext

LEMMA PoolInvariance == MPSpec => []PoolInv
<1> QED BY PoolInit, PoolNext, PTL DEF MPSpec

-----------------------------------------------------------------------------
(* The allocator and the header go with the last object that needs them,   *)
(* and once: neither while a slice lies in them, nor never.                *)
THEOREM PoolIsReleasedOnce == MPSpec => []PoolLastsAsLongAsNeeded
<1>1. PoolInv => PoolLastsAsLongAsNeeded
  BY DEF PoolInv
<1> QED BY <1>1, PoolInvariance, PTL

-----------------------------------------------------------------------------
(* The mmap stream.                                                        *)

(* The position never leaves the mapping, although it is compared with its *)
(* end without a sign.                                                     *)
MmapInv ==
    /\ mapped \in 1..MaxMapped
    /\ ptr \in 0..mapped
    /\ copied \in [from : Nat, length : Nat]
    /\ CopiesStayInside

LEMMA SmallRemainder ==
    ASSUME NEW w \in Nat, NEW n \in 0..(w - 1)
    PROVE  n % w = n
OBVIOUS

LEMMA TransferIsInside ==
    ASSUME MmapInv, NEW n \in 1..MaxArg, Transfer(n)
    PROVE  MmapInv'
<1> DEFINE left == mapped - ptr
           moved == Least(left, n)
<1>1. mapped \in Nat /\ ptr \in Nat /\ left \in 0..mapped /\ n \in Nat
  BY MmapAssumption DEF MmapInv
<1>2. Width \in Nat /\ left \in 0..(Width - 1)
  BY <1>1, MmapAssumption DEF Width, MmapInv
<1>3. left % Width = left
  <2> HIDE DEF left
  <2> QED BY <1>2, SmallRemainder
<1>4. /\ copied' = [from |-> ptr, length |-> moved]
      /\ ptr' = ptr + moved /\ mapped' = mapped
  BY <1>3 DEF Transfer
<1>5. moved \in 0..left
  <2> HIDE DEF left
  <2> QED BY <1>1 DEF Least
<1> HIDE DEF moved
<1> QED BY <1>1, <1>4, <1>5 DEF MmapInv, CopiesStayInside

LEMMA MmapInvariance == MmapSpec => []MmapInv
<1>1. MmapInit => MmapInv
  BY MmapAssumption DEF MmapInit, MmapInv, CopiesStayInside
<1>2. MmapInv /\ [MmapNext]_mmapVars => MmapInv'
  <2> SUFFICES ASSUME MmapInv, [MmapNext]_mmapVars PROVE MmapInv'
    OBVIOUS
  <2>1. CASE \E n \in 1..MaxArg : Transfer(n)
    BY <2>1, TransferIsInside
  <2>2. ASSUME NEW o \in -MaxArg..MaxArg, NEW whence \in Whences,
               Seek(o, whence)
        PROVE  MmapInv'
    <3>1. ptr' \in 0..mapped /\ mapped' = mapped /\ copied' = copied
      BY <2>2 DEF Seek, Within
    <3> QED BY <3>1 DEF MmapInv, CopiesStayInside
  <2>3. CASE UNCHANGED mmapVars
    BY <2>3 DEF mmapVars, MmapInv, CopiesStayInside
  <2> QED BY <2>1, <2>2, <2>3 DEF MmapNext
<1> QED BY <1>1, <1>2, PTL DEF MmapSpec

(* Every copy lies inside the mapping, wherever the script seeks before    *)
(* it, for a mapping and arguments of any size.                            *)
THEOREM CopiesAreInside == MmapSpec => []CopiesStayInside
<1>1. MmapInv => CopiesStayInside
  BY DEF MmapInv
<1> QED BY <1>1, MmapInvariance, PTL
-----------------------------------------------------------------------------
(* The buffer.                                                             *)

(* The content lies inside the capacity, behind the garbage, and $length   *)
(* counts it.                                                              *)
BufferInv ==
    /\ str \in [Cells -> Bytes]
    /\ offset \in Nat
    /\ length \in Nat
    /\ size \in 0..MaxSize
    /\ offset <= length
    /\ length <= size
    /\ shown = length - offset

Content == BytesAt(str, offset, length - offset)

LEMMA BytesAtType ==
    ASSUME NEW s \in [Cells -> Bytes], NEW c \in Nat, NEW n \in Nat,
           c + n <= MaxSize
    PROVE  /\ BytesAt(s, c, n) \in Seq(Bytes)
           /\ Len(BytesAt(s, c, n)) = n
           /\ \A i \in 1..n : BytesAt(s, c, n)[i] = s[c + i - 1]
<1>1. \A i \in 1..n : s[c + i - 1] \in Bytes
  <2> SUFFICES ASSUME NEW i \in 1..n PROVE s[c + i - 1] \in Bytes
    OBVIOUS
  <2>1. c + i - 1 \in Cells
    BY BufferAssumption DEF Cells
  <2> QED BY <2>1
<1> QED BY <1>1 DEF BytesAt

(* Two sequences of bytes with the same bytes are the same.                *)
LEMMA SameBytes ==
    ASSUME NEW s \in [Cells -> Bytes], NEW c \in Nat, NEW n \in Nat,
           c + n <= MaxSize,
           NEW q \in Seq(Bytes), Len(q) = n,
           \A i \in 1..n : q[i] = s[c + i - 1]
    PROVE  q = BytesAt(s, c, n)
<1> DEFINE t == BytesAt(s, c, n)
<1>1. t \in Seq(Bytes) /\ Len(t) = n /\ \A i \in 1..n : t[i] = s[c + i - 1]
  BY BytesAtType
<1> HIDE DEF t
<1>2. q = t
  BY <1>1, SeqEqual
<1> QED BY <1>2 DEF t

LEMMA ContentType ==
    ASSUME BufferInv
    PROVE  /\ Content \in Seq(Bytes)
           /\ Len(Content) = length - offset
           /\ length - offset \in Nat
           /\ \A i \in 1..(length - offset) : Content[i] = str[offset + i - 1]
<1> DEFINE n == length - offset
<1>1. n \in Nat /\ offset + n <= MaxSize
  BY BufferAssumption DEF BufferInv
<1>2. str \in [Cells -> Bytes] /\ offset \in Nat
  BY DEF BufferInv
<1>3. /\ BytesAt(str, offset, n) \in Seq(Bytes)
      /\ Len(BytesAt(str, offset, n)) = n
      /\ \A i \in 1..n : BytesAt(str, offset, n)[i] = str[offset + i - 1]
  <2> HIDE DEF n
  <2> QED BY <1>1, <1>2, BytesAtType
<1> QED BY <1>1, <1>3 DEF Content

(* A piece of the content is a piece of the array.                         *)
LEMMA PieceOfContent ==
    ASSUME BufferInv, NEW o \in Nat, NEW m \in Nat, o + m <= length - offset
    PROVE  SubSeq(Content, o + 1, o + m) = BytesAt(str, offset + o, m)
<1> DEFINE t == Content
           n == length - offset
           q == SubSeq(t, o + 1, o + m)
           from == offset + o
<1>1. /\ t \in Seq(Bytes) /\ Len(t) = n
      /\ \A i \in 1..n : t[i] = str[offset + i - 1]
  BY ContentType
<1>2. /\ q \in Seq(Bytes) /\ Len(q) = m
      /\ \A i \in 1..m : q[i] = t[o + i]
  <2> DEFINE f == o + 1
             l == o + m
  <2>1. f \in Int /\ l \in Int /\ \A i \in f..l : t[i] \in Bytes
    <3> HIDE DEF t
    <3> QED BY <1>1
  <2>2. /\ SubSeq(t, f, l) \in Seq(Bytes)
        /\ Len(SubSeq(t, f, l)) = IF f <= l THEN l - f + 1 ELSE 0
        /\ \A i \in 1..(l - f + 1) : SubSeq(t, f, l)[i] = t[f + i - 1]
    <3> HIDE DEF t, f, l
    <3> QED BY <2>1, SubSeqProperties
  <2>3. Len(SubSeq(t, f, l)) = m /\ l - f + 1 = m
    <3> HIDE DEF t
    <3> QED BY <2>2
  <2>4. \A i \in 1..m : SubSeq(t, f, l)[i] = t[o + i]
    <3> SUFFICES ASSUME NEW i \in 1..m PROVE SubSeq(t, f, l)[i] = t[o + i]
      OBVIOUS
    <3>1. i \in 1..(l - f + 1) /\ f + i - 1 = o + i
      OBVIOUS
    <3>2. SubSeq(t, f, l)[i] = t[f + i - 1]
      BY <2>2, <3>1
    <3> QED BY <3>1, <3>2
  <2> QED BY <2>2, <2>3, <2>4
<1>3. from \in Nat /\ from + m <= MaxSize /\ str \in [Cells -> Bytes]
  BY BufferAssumption DEF BufferInv
<1>4. \A i \in 1..m : q[i] = str[from + i - 1]
  <2> SUFFICES ASSUME NEW i \in 1..m PROVE q[i] = str[from + i - 1]
    OBVIOUS
  <2>1. o + i \in 1..n /\ offset + (o + i) - 1 = from + i - 1
    BY DEF BufferInv
  <2>2. q[i] = t[o + i]
    BY <1>2
  <2>3. t[o + i] = str[offset + (o + i) - 1]
    BY <1>1, <2>1
  <2> QED BY <2>1, <2>2, <2>3
<1>5. q = BytesAt(str, from, m)
  <2> HIDE DEF q, from
  <2> QED BY <1>2, <1>3, <1>4, SameBytes
<1> QED BY <1>5
(* Data that is put inside the content or right behind it.                 *)
LEMMA PutWrites ==
    ASSUME BufferInv, NEW c \in Nat, offset <= c, NEW data \in Strings,
           NEW call, Put(c, data, call)
    PROVE  \/ ReturnsFalse(call)
           \/ LET end == c + Len(data)
                  total == (IF end > length THEN end ELSE length) - offset
              IN  /\ BufferInv'
                  /\ Returns(call, <<>>)
                  /\ shown' = total
                  /\ Content' \in Seq(Bytes)
                  /\ Len(Content') = total
                  /\ \A i \in 1..total : Content'[i] =
                        IF i \in (c - offset + 1)..(end - offset)
                        THEN data[i - (c - offset)]
                        ELSE str[offset + i - 1]
<1> DEFINE end == c + Len(data)
           long == IF end > length THEN end ELSE length
           total == long - offset
<1>1. CASE ReturnsFalse(call)
  BY <1>1
<1>2. CASE ~ReturnsFalse(call)
  <2>1. /\ ~(end > size /\ end > MaxLength)
        /\ str' = [i \in Cells |-> IF i \in c..(end - 1)
                                   THEN data[i - c + 1] ELSE str[i]]
        /\ length' = long
        /\ IF end > size THEN size' \in end..MaxLength ELSE size' = size
        /\ shown' = length' - offset
        /\ Returns(call, <<>>)
        /\ offset' = offset
    BY <1>2 DEF Put
  <2>2. data \in Seq(Bytes) /\ Len(data) \in Nat /\ end \in Nat
    BY BufferAssumption
  <2>3. str' \in [Cells -> Bytes]
    <3>1. ASSUME NEW i \in Cells, i \in c..(end - 1)
          PROVE  data[i - c + 1] \in Bytes
      <4>1. i - c + 1 \in 1..Len(data)
        BY <2>2, <3>1
      <4> QED BY <2>2, <4>1
    <3>2. \A i \in Cells : str[i] \in Bytes
      BY DEF BufferInv
    <3> QED BY <2>1, <3>1, <3>2
  <2>4. /\ long \in Nat /\ offset <= long /\ total \in Nat
        /\ length <= long /\ end <= long
    BY <2>2 DEF BufferInv
  <2>5. size' \in 0..MaxSize /\ length' <= size'
    <3>1. CASE end > size
      BY <2>1, <2>2, <3>1, BufferAssumption DEF BufferInv
    <3>2. CASE ~(end > size)
      BY <2>1, <2>2, <3>2, BufferAssumption DEF BufferInv
    <3> QED BY <3>1, <3>2
  <2>6. BufferInv'
    <3> HIDE DEF long, end
    <3> QED BY <2>1, <2>3, <2>4, <2>5 DEF BufferInv
  <2>7. /\ Content' \in Seq(Bytes)
        /\ Len(Content') = length' - offset'
        /\ \A i \in 1..(length' - offset') :
              Content'[i] = str'[offset' + i - 1]
    <3> DEFINE a == str'
               o == offset'
               n == length' - offset'
    <3>1. a \in [Cells -> Bytes] /\ o \in Nat /\ n \in Nat /\ o + n <= MaxSize
      <4>1. /\ length' = long /\ offset' = offset /\ offset \in Nat
            /\ size' \in 0..MaxSize
        BY <2>1, <2>5 DEF BufferInv
      <4> HIDE DEF long, end
      <4> QED BY <2>3, <2>4, <2>5, <4>1, BufferAssumption
    <3>2. /\ BytesAt(a, o, n) \in Seq(Bytes)
          /\ Len(BytesAt(a, o, n)) = n
          /\ \A i \in 1..n : BytesAt(a, o, n)[i] = a[o + i - 1]
      <4> HIDE DEF a, o, n
      <4> QED BY <3>1, BytesAtType
    <3> QED BY <3>2 DEF Content
  <2>8. ASSUME NEW i \in 1..total
        PROVE  Content'[i] = IF i \in (c - offset + 1)..(end - offset)
                             THEN data[i - (c - offset)]
                             ELSE str[offset + i - 1]
    <3> DEFINE x == offset + i - 1
    <3>1. x \in Cells
      <4>1. long \in Nat /\ long <= MaxSize /\ offset \in Nat
        BY <2>1, <2>4, <2>5, BufferAssumption DEF BufferInv
      <4>2. i \in 1..(long - offset)
        OBVIOUS
      <4> HIDE DEF long
      <4> QED BY <4>1, <4>2, BufferAssumption DEF Cells
    <3>2. Content'[i] = str'[x]
      BY <2>1, <2>7
    <3>3. str'[x] = IF x \in c..(end - 1) THEN data[x - c + 1] ELSE str[x]
      <4> HIDE DEF x, end
      <4> QED BY <2>1, <3>1
    <3>4. /\ x \in c..(end - 1) <=> i \in (c - offset + 1)..(end - offset)
          /\ x - c + 1 = i - (c - offset)
      BY <2>2 DEF BufferInv
    <3> QED BY <3>2, <3>3, <3>4
  <2> QED BY <2>1, <2>6, <2>7, <2>8
<1> QED BY <1>1, <1>2

(* A call that returns FALSE changes nothing the script sees.              *)
LEMMA FalseIsFalse ==
    ASSUME BufferInv, NEW call, ReturnsFalse(call)
    PROVE  BufferInv' /\ AsString!ReturnsFalse(call)
BY DEF ReturnsFalse, AsString!ReturnsFalse, BufferInv, Content

LEMMA AppendImplements ==
    ASSUME BufferInv, NEW data \in Strings, AppendBytes(data)
    PROVE  BufferInv' /\ AsString!AppendBytes(data)
<1> DEFINE call == <<"append">>
<1>1. CASE ReturnsFalse(call)
  BY <1>1, FalseIsFalse DEF AsString!AppendBytes
<1>2. CASE ~ReturnsFalse(call)
  <2> DEFINE total == length + Len(data) - offset
             whole == Content \o data
  <2>1. data \in Seq(Bytes) /\ Len(data) \in Nat
    BY BufferAssumption
  <2>2. /\ BufferInv' /\ Returns(call, <<>>)
        /\ shown' = total
        /\ Content' \in Seq(Bytes) /\ Len(Content') = total
        /\ \A i \in 1..total : Content'[i] =
              IF i \in (length - offset + 1)..(length + Len(data) - offset)
              THEN data[i - (length - offset)]
              ELSE str[offset + i - 1]
    <3> DEFINE end == length + Len(data)
               t == (IF end > length THEN end ELSE length) - offset
    <3>1. t = total
      BY <2>1 DEF BufferInv
    <3>2. length \in Nat /\ offset <= length /\ Put(length, data, call)
      BY DEF BufferInv, AppendBytes
    <3>3. /\ BufferInv' /\ Returns(call, <<>>)
          /\ shown' = t
          /\ Content' \in Seq(Bytes) /\ Len(Content') = t
          /\ \A i \in 1..t : Content'[i] =
                IF i \in (length - offset + 1)..(end - offset)
                THEN data[i - (length - offset)]
                ELSE str[offset + i - 1]
      BY <1>2, <3>2, PutWrites
    <3> QED BY <3>1, <3>3
  <2>3. /\ Content \in Seq(Bytes) /\ Len(Content) = length - offset
        /\ length - offset \in Nat
        /\ \A i \in 1..(length - offset) : Content[i] = str[offset + i - 1]
    BY ContentType
  <2>4. /\ whole \in Seq(Bytes)
        /\ Len(whole) = Len(Content) + Len(data)
        /\ \A i \in 1..(Len(Content) + Len(data)) : whole[i] =
              IF i <= Len(Content) THEN Content[i] ELSE data[i - Len(Content)]
    BY <2>1, <2>3, ConcatProperties
  <2>5. Len(whole) = total
    BY <2>1, <2>3, <2>4 DEF BufferInv
  <2>6. ASSUME NEW i \in 1..total PROVE Content'[i] = whole[i]
    <3>1. /\ i \in Int /\ offset \in Nat /\ length \in Nat
          /\ Len(Content) = length - offset
          /\ i \in 1..(Len(Content) + Len(data))
      BY <2>1, <2>3 DEF BufferInv
    <3> HIDE DEF total, whole
    <3>2. CASE i <= length - offset
      <4>1. /\ i \notin (length - offset + 1)..(length + Len(data) - offset)
            /\ i \in 1..(length - offset) /\ i <= Len(Content)
        BY <3>1, <3>2
      <4>2. Content'[i] = str[offset + i - 1]
        BY <2>2, <4>1, Zenon
      <4> QED BY <2>3, <2>4, <3>1, <4>1, <4>2, Zenon
    <3>3. CASE ~(i <= length - offset)
      <4>1. /\ i \in (length - offset + 1)..(length + Len(data) - offset)
            /\ ~(i <= Len(Content))
            /\ i - Len(Content) = i - (length - offset)
        BY <2>1, <3>1, <3>3
      <4>2. Content'[i] = data[i - (length - offset)]
        BY <2>2, <4>1, Zenon
      <4> QED BY <2>4, <3>1, <4>1, <4>2, Zenon
    <3> QED BY <3>2, <3>3
  <2>7. Content' = whole
    <3> HIDE DEF whole, total
    <3> QED BY <2>2, <2>4, <2>5, <2>6, SeqEqual
  <2> QED BY <2>2, <2>5, <2>7
          DEF AsString!AppendBytes, AsString!Becomes, AsString!Returns,
              Returns, Content
<1> QED BY <1>1, <1>2

LEMMA WriteImplements ==
    ASSUME BufferInv, NEW o \in Offsets, NEW data \in Strings, Write(o, data)
    PROVE  BufferInv' /\ AsString!Write(o, data)
<1> DEFINE call == <<"write", o>>
           at == FromEnd(o)
<1>1. o \in Int /\ at \in Int /\ length - offset \in Nat
  BY BufferAssumption DEF BufferInv, FromEnd
<1>2. AsString!At(o) = at
  BY ContentType DEF AsString!At, FromEnd, Content
<1>3. CASE ReturnsFalse(call)
  BY <1>3, FalseIsFalse DEF AsString!Write
<1>4. CASE ~ReturnsFalse(call)
  <2> DEFINE c == at + offset
             end == c + Len(data)
             total == (IF end > length THEN end ELSE length) - offset
             aend == at + Len(data)
             along == IF aend > Len(Content) THEN aend ELSE Len(Content)
  <2>1. at >= 0 /\ Put(c, data, call)
    BY <1>1, <1>4 DEF Write
  <2>2. c \in Nat /\ offset <= c
    BY <1>1, <2>1 DEF BufferInv
  <2>3. /\ BufferInv' /\ Returns(call, <<>>)
        /\ shown' = total
        /\ Content' \in Seq(Bytes) /\ Len(Content') = total
        /\ \A i \in 1..total : Content'[i] =
              IF i \in (c - offset + 1)..(end - offset)
              THEN data[i - (c - offset)]
              ELSE str[offset + i - 1]
    <3> HIDE DEF c
    <3> QED BY <1>4, <2>1, <2>2, PutWrites
  <2>4. /\ Len(Content) = length - offset
        /\ \A i \in 1..(length - offset) : Content[i] = str[offset + i - 1]
    BY ContentType
  <2>5. Len(data) \in Nat
    BY BufferAssumption
  <2>6. /\ total = along
        /\ c - offset = at
        /\ end - offset = aend
    <3> HIDE DEF at
    <3> QED BY <1>1, <2>4, <2>5 DEF BufferInv
  <2> HIDE DEF total, along, c, end
  <2>7. \A i \in (at + 1)..aend : Content'[i] = data[i - at]
    <3> SUFFICES ASSUME NEW i \in (at + 1)..aend
                 PROVE  Content'[i] = data[i - at]
      OBVIOUS
    <3>1. i \in 1..total
      <4> HIDE DEF at
      <4>1. along >= aend
        BY <1>1, <2>1, <2>4, <2>5 DEF along
      <4>2. along \in Int
        BY <1>1, <2>1, <2>4, <2>5 DEF along
      <4> QED BY <1>1, <2>1, <2>5, <2>6, <4>1, <4>2
    <3> QED BY <2>3, <2>6, <3>1
  <2>8. \A i \in 1..Len(Content) \ (at + 1)..aend : Content'[i] = Content[i]
    <3> SUFFICES ASSUME NEW i \in 1..Len(Content) \ (at + 1)..aend
                 PROVE  Content'[i] = Content[i]
      OBVIOUS
    <3>1. i \in 1..total
      <4> HIDE DEF at
      <4>1. along >= Len(Content) /\ along \in Int
        BY <1>1, <2>1, <2>4, <2>5 DEF along
      <4> QED BY <1>1, <2>4, <2>6, <4>1
    <3> QED BY <2>3, <2>4, <2>6, <3>1
  <2>9. Content' \in [1..along -> Bytes]
    <3> DEFINE q == Content'
    <3>1. q \in Seq(Bytes) /\ Len(q) = along
      BY <2>3, <2>6
    <3> HIDE DEF q
    <3>2. q \in [1..along -> Bytes]
      BY <3>1, LenProperties
    <3> QED BY <3>2 DEF q
  <2>10. AsString!Overwrites(at, data)
    <3>1. Len(Content') = along /\ shown' = along
      BY <2>3, <2>6
    <3> HIDE DEF at
    <3> QED BY <2>7, <2>8, <2>9, <3>1
            DEF AsString!Overwrites, AsString!Becomes, along, Content
  <2> QED BY <1>2, <2>1, <2>3, <2>10
          DEF AsString!Write, AsString!Returns, Returns
<1> QED BY <1>3, <1>4

(* The two ways to ask whether a piece lies in the content agree.          *)
LEMMA InsideContent ==
    ASSUME BufferInv, NEW o \in Int, NEW n \in Int
    PROVE  /\ AsString!At(o) = FromEnd(o)
           /\ FromEnd(o) \in Int
           /\ AsString!Inside(o, n) <=>
                 /\ n >= 0
                 /\ FromEnd(o) >= 0
                 /\ FromEnd(o) + n <= length - offset
<1>1. Len(Content) = length - offset /\ length - offset \in Nat
  BY ContentType
<1>2. AsString!At(o) = FromEnd(o) /\ FromEnd(o) \in Int
  BY <1>1 DEF AsString!At, FromEnd, Content
<1> QED BY <1>1, <1>2 DEF AsString!Inside, Content

LEMMA PieceIsBytes ==
    ASSUME BufferInv, NEW o \in Nat, NEW n \in Nat, o + n <= length - offset
    PROVE  AsString!Piece(o, n) = BytesAt(str, offset + o, n)
BY PieceOfContent DEF AsString!Piece, Content

LEMMA ReadImplements ==
    ASSUME BufferInv, NEW o \in Offsets, NEW n \in Lengths, Read(o, n)
    PROVE  BufferInv' /\ AsString!Read(o, n)
<1> DEFINE call == <<"read", o, n>>
           at == FromEnd(o)
<1>1. o \in Int /\ n \in Nat
  BY BufferAssumption DEF Read
<1>2. /\ AsString!At(o) = at /\ at \in Int
      /\ AsString!Inside(o, n) <=> at >= 0 /\ at + n <= length - offset
  BY <1>1, InsideContent
<1> HIDE DEF at
<1>3. CASE AsString!Inside(o, n)
  <2>1. /\ Returns(call, BytesAt(str, at + offset, n))
        /\ UNCHANGED <<str, length, offset, size, shown>>
    <3>1. ~(at < 0 \/ n > length - (at + offset))
      BY <1>1, <1>2, <1>3 DEF BufferInv
    <3> QED BY <3>1 DEF Read, at
  <2>2. AsString!Piece(at, n) = BytesAt(str, at + offset, n)
    <3>1. at \in Nat /\ at + n <= length - offset /\ offset + at = at + offset
      BY <1>2, <1>3 DEF BufferInv
    <3>2. AsString!Piece(at, n) = BytesAt(str, offset + at, n)
      BY <1>1, <3>1, PieceIsBytes
    <3> QED BY <3>1, <3>2
  <2> QED BY <1>2, <1>3, <2>1, <2>2
          DEF AsString!Read, AsString!Returns, Returns, BufferInv
<1>4. CASE ~AsString!Inside(o, n)
  <2>1. at < 0 \/ n > length - (at + offset)
    BY <1>1, <1>2, <1>4 DEF BufferInv
  <2>2. ReturnsFalse(call)
    BY <2>1 DEF Read, at
  <2> QED BY <1>4, <2>2, FalseIsFalse DEF AsString!Read
<1> QED BY <1>3, <1>4

LEMMA RestIsRest ==
    ASSUME BufferInv, NEW o \in Nat, NEW n \in Int
    PROVE  AsString!Rest(o, n) = Rest(o, n) /\ Rest(o, n) \in Int
<1>1. Len(Content) = length - offset
  BY ContentType
<1> QED BY <1>1 DEF AsString!Rest, Rest, Content, BufferInv

LEMMA SubstrImplements ==
    ASSUME BufferInv, NEW o \in Offsets, NEW n \in Lengths, Substr(o, n)
    PROVE  BufferInv' /\ AsString!Substr(o, n)
<1> DEFINE call == <<"substr", o, n>>
           rest == Rest(o, n)
<1>1. o \in 0..(length - offset) /\ n \in Int /\ o \in Nat
  BY BufferAssumption DEF Substr, BufferInv
<1>2. AsString!Rest(o, n) = rest /\ rest \in Int
  BY <1>1, RestIsRest
<1>3. rest >= 0
  BY <1>1 DEF Rest, BufferInv
<1>4. AsString!Inside(o, rest) <=> o + rest <= length - offset
  <2> HIDE DEF rest
  <2>1. FromEnd(o) = o
    BY <1>1 DEF FromEnd
  <2> QED BY <1>1, <1>2, <1>3, <2>1, InsideContent
<1>5. o \in 0..Len(Content)
  BY <1>1, ContentType
<1> HIDE DEF rest
<1>6. CASE AsString!Inside(o, rest)
  <2>1. ~(o + offset + rest > length)
    BY <1>1, <1>2, <1>4, <1>6 DEF BufferInv
  <2>2. /\ Returns(call, BytesAt(str, o + offset, rest))
        /\ UNCHANGED <<str, length, offset, size, shown>>
    BY <2>1 DEF Substr, rest
  <2>3. AsString!Piece(o, rest) = BytesAt(str, o + offset, rest)
    <3>1. rest \in Nat /\ o + rest <= length - offset /\ offset + o = o + offset
      BY <1>1, <1>2, <1>3, <1>4, <1>6 DEF BufferInv
    <3>2. AsString!Piece(o, rest) = BytesAt(str, offset + o, rest)
      BY <1>1, <3>1, PieceIsBytes
    <3> QED BY <3>1, <3>2
  <2> QED BY <1>2, <1>5, <1>6, <2>2, <2>3
          DEF AsString!Substr, AsString!Returns, Returns, BufferInv, Content
<1>7. CASE ~AsString!Inside(o, rest)
  <2>1. o + offset + rest > length
    BY <1>1, <1>2, <1>4, <1>7 DEF BufferInv
  <2>2. ReturnsFalse(call)
    BY <2>1 DEF Substr, rest
  <2> QED BY <1>2, <1>5, <1>7, <2>2, FalseIsFalse DEF AsString!Substr, Content
<1> QED BY <1>6, <1>7
(* Moving the content to the front.                                        *)
LEMMA ReduceMoves ==
    ASSUME BufferInv, NEW cut \in Nat, offset <= cut, cut <= length,
           Reduce(cut), shown' = length', UNCHANGED size
    PROVE  /\ BufferInv'
           /\ Content' = BytesAt(str, cut, length - cut)
           /\ length' = length - cut
<1> DEFINE n == length - cut
<1>1. n \in Nat /\ cut + n = length /\ length <= MaxSize /\ size <= MaxSize
      /\ n <= size
  BY BufferAssumption DEF BufferInv
<1>2. /\ str' = [i \in Cells |-> IF i < n THEN str[i + cut] ELSE str[i]]
      /\ length' = n /\ offset' = 0
  BY DEF Reduce
<1>3. str \in [Cells -> Bytes]
  BY DEF BufferInv
<1> HIDE DEF n
<1>4. ASSUME NEW i \in Cells, i < n PROVE str[i + cut] \in Bytes
  <2>1. i + cut \in Cells
    BY <1>1, <1>4, BufferAssumption DEF Cells
  <2> QED BY <1>3, <2>1
<1>5. str' \in [Cells -> Bytes]
  BY <1>2, <1>3, <1>4
<1>6. BufferInv'
  BY <1>1, <1>2, <1>5 DEF BufferInv
<1> DEFINE q == BytesAt(str', 0, n)
<1>7. q \in Seq(Bytes) /\ Len(q) = n /\ \A i \in 1..n : q[i] = str'[0 + i - 1]
  <2> DEFINE a == str'
             o == 0
  <2>1. a \in [Cells -> Bytes] /\ o \in Nat /\ o + n <= MaxSize
    BY <1>1, <1>5, BufferAssumption
  <2>2. /\ BytesAt(a, o, n) \in Seq(Bytes)
        /\ Len(BytesAt(a, o, n)) = n
        /\ \A i \in 1..n : BytesAt(a, o, n)[i] = a[o + i - 1]
    <3> HIDE DEF a, o
    <3> QED BY <1>1, <2>1, BytesAtType
  <2> QED BY <2>2
<1>8. ASSUME NEW i \in 1..n PROVE q[i] = str[cut + i - 1]
  <2> DEFINE x == i - 1
  <2>1. x \in Cells /\ x < n /\ x + cut = cut + i - 1 /\ 0 + i - 1 = x
    BY <1>1, BufferAssumption DEF Cells
  <2>2. str'[x] = str[x + cut]
    <3> HIDE DEF x
    <3> QED BY <1>2, <2>1
  <2> HIDE DEF q
  <2> QED BY <1>7, <2>1, <2>2
<1>9. q = BytesAt(str, cut, n)
  <2> HIDE DEF q
  <2>1. cut + n <= MaxSize
    BY <1>1, BufferAssumption
  <2> QED BY <1>1, <1>3, <1>7, <1>8, <2>1, SameBytes
<1>10. Content' = q
  <2>1. length' - offset' = n
    BY <1>1, <1>2
  <2> QED BY <1>2, <2>1 DEF Content
<1> QED BY <1>2, <1>6, <1>9, <1>10 DEF n

(* The piece a substr() that reclaims garbage returns is some bytes.       *)
LEMMA SubstrRemoveImplements ==
    ASSUME BufferInv, NEW n \in Lengths, SubstrRemove(n)
    PROVE  BufferInv' /\ AsString!SubstrRemove(n)
<1> DEFINE rest == Rest(0, n)
           taken == offset + rest
           left == length - taken
           piece == BytesAt(str', offset, rest)
<1>1. n \in Int /\ length - offset \in Nat /\ offset \in Nat /\ length \in Nat
  BY BufferAssumption DEF BufferInv
<1>2. AsString!Rest(0, n) = rest /\ rest \in Int
  BY <1>1, RestIsRest
<1>3. rest \in Nat
  BY <1>1 DEF Rest
<1>4. AsString!Inside(0, rest) <=> rest <= length - offset
  <2> HIDE DEF rest
  <2>1. FromEnd(0) = 0
    BY DEF FromEnd
  <2> QED BY <1>1, <1>2, <1>3, <2>1, InsideContent
<1>5. Len(Content) = length - offset
  BY ContentType
<1>6. CASE taken > length
  <2>1. ReturnsFalse(<<"remove", n>>)
    BY <1>6 DEF SubstrRemove
  <2>2. ~AsString!Inside(0, rest)
    <3> HIDE DEF rest
    <3> QED BY <1>1, <1>3, <1>4, <1>6
  <2> HIDE DEF rest
  <2> QED BY <1>2, <2>1, <2>2, FalseIsFalse DEF AsString!SubstrRemove
<1>7. CASE ~(taken > length)
  <2>1. /\ \/ /\ Reduce(taken)
              /\ Returns(<<"recycling", n>>, piece)
           \/ /\ offset' = taken
              /\ UNCHANGED <<str, length>>
              /\ Returns(<<"remove", n>>, piece)
        /\ shown' = left
        /\ size' = size
    BY <1>7 DEF SubstrRemove
  <2> HIDE DEF rest
  <2>2. /\ taken \in Nat /\ offset <= taken /\ taken <= length
        /\ left \in Nat /\ rest + left = length - offset
        /\ rest <= length - offset
    BY <1>1, <1>3, <1>7
  <2>3. AsString!Inside(0, rest)
    BY <1>4, <2>2
  <2>4. AsString!Piece(0, rest) = BytesAt(str, offset, rest)
    <3> DEFINE o == 0
    <3>1. o \in Nat /\ o + rest <= length - offset /\ offset + o = offset
      BY <1>1, <1>3, <2>2
    <3>2. AsString!Piece(o, rest) = BytesAt(str, offset + o, rest)
      <4> HIDE DEF o
      <4> QED BY <1>3, <3>1, PieceIsBytes
    <3> QED BY <3>1, <3>2
  <2>5. AsString!Piece(rest, Len(Content) - rest) = BytesAt(str, taken, left)
    <3>1. Len(Content) - rest = left
      BY <1>1, <1>3, <1>5
    <3>2. AsString!Piece(rest, left) = BytesAt(str, taken, left)
      <4> HIDE DEF left
      <4>1. rest + left <= length - offset
        BY <1>1, <1>3, <2>2
      <4> QED BY <1>3, <2>2, <4>1, PieceIsBytes
    <3> QED BY <3>1, <3>2
  <2>6. Len(BytesAt(str, taken, left)) = left
    <3>1. taken + left <= MaxSize /\ str \in [Cells -> Bytes]
      BY <1>1, <1>3, BufferAssumption DEF BufferInv
    <3> HIDE DEF taken, left
    <3> QED BY <2>2, <3>1, BytesAtType
  <2>7. ASSUME Content' = BytesAt(str, taken, left)
        PROVE  AsString!Takes(rest)
    <3>1. AsString!Becomes(BytesAt(str, taken, left))
      BY <2>1, <2>6, <2>7 DEF AsString!Becomes, Content
    <3>2. AsString!Becomes(AsString!Piece(rest, Len(Content) - rest))
      BY <2>5, <3>1
    <3> QED BY <2>3, <3>2 DEF AsString!Takes, Content
  <2>8. CASE Reduce(taken) /\ Returns(<<"recycling", n>>, piece)
    <3>1. /\ BufferInv' /\ Content' = BytesAt(str, taken, left)
      <4>1. shown' = length' /\ UNCHANGED size
        BY <2>1, <2>8 DEF Reduce
      <4> HIDE DEF taken
      <4> QED BY <2>2, <2>8, <4>1, ReduceMoves
    <3>2. piece \in [1..rest -> Bytes]
      <4> DEFINE a == str'
      <4>1. a \in [Cells -> Bytes] /\ offset + rest <= MaxSize
        <5>1. a \in [Cells -> Bytes]
          BY ONLY <3>1 DEF BufferInv, Cells
        <5> QED BY <5>1, <1>1, <1>3, <2>2, BufferAssumption DEF BufferInv
      <4>2. /\ BytesAt(a, offset, rest) \in Seq(Bytes)
            /\ Len(BytesAt(a, offset, rest)) = rest
        <5> HIDE DEF a
        <5> QED BY <1>1, <1>3, <4>1, BytesAtType
      <4> HIDE DEF a
      <4>3. BytesAt(a, offset, rest) \in [1..rest -> Bytes]
        <5> DEFINE q == BytesAt(a, offset, rest)
        <5>1. q \in Seq(Bytes) /\ Len(q) = rest
          BY <4>2
        <5> HIDE DEF q
        <5>2. q \in [1..rest -> Bytes]
          BY <5>1, LenProperties
        <5> QED BY <5>2 DEF q
      <4> QED BY <4>3 DEF a
    <3>3. AsString!Returns(<<"recycling", n>>, piece)
      BY <2>8 DEF Returns, AsString!Returns
    <3> HIDE DEF piece
    <3> QED BY <1>2, <2>7, <3>1, <3>2, <3>3 DEF AsString!SubstrRemove
  <2>9. CASE /\ offset' = taken /\ UNCHANGED <<str, length>>
             /\ Returns(<<"remove", n>>, piece)
    <3>1. BufferInv'
      BY <2>1, <2>2, <2>9 DEF BufferInv
    <3>2. Content' = BytesAt(str, taken, left)
      BY <2>9 DEF Content
    <3>3. AsString!Returns(<<"remove", n>>, AsString!Piece(0, rest))
      BY <2>4, <2>9 DEF Returns, AsString!Returns
    <3> QED BY <1>2, <2>7, <3>1, <3>2, <3>3 DEF AsString!SubstrRemove
  <2> QED BY <2>1, <2>8, <2>9
<1> QED BY <1>6, <1>7

LEMMA ManageImplements ==
    ASSUME BufferInv, Recycle \/ \E n \in 1..MaxSize : Expand(n)
    PROVE  BufferInv' /\ AsString!Manage
<1>1. ASSUME Returns(<<"manage">>, <<>>), BufferInv', Content' = Content,
             shown' = shown
      PROVE  BufferInv' /\ AsString!Manage
  BY <1>1 DEF AsString!Manage, AsString!Returns, Returns, Content
<1>2. ASSUME NEW n \in 1..MaxSize, Expand(n)
      PROVE  BufferInv' /\ AsString!Manage
  <2>1. CASE n <= size
    BY <1>2, <2>1, FalseIsFalse DEF Expand, AsString!Manage
  <2>2. CASE ~(n <= size)
    <3>1. /\ size' = n /\ Returns(<<"manage">>, <<>>)
          /\ UNCHANGED <<str, length, offset, shown>>
      BY <1>2, <2>2 DEF Expand
    <3>2. BufferInv'
      BY <2>2, <3>1, BufferAssumption DEF BufferInv
    <3> QED BY <1>1, <3>1, <3>2 DEF Content
  <2> QED BY <2>1, <2>2
<1>3. CASE Recycle
  <2>1. shown' = length' /\ Returns(<<"manage">>, <<>>) /\ UNCHANGED size
    BY <1>3 DEF Recycle
  <2>2. CASE offset = 0
    <3>1. UNCHANGED <<str, length, offset>>
      BY <1>3, <2>2 DEF Recycle
    <3>2. shown' = shown
      BY <2>1, <2>2, <3>1 DEF BufferInv
    <3>3. BufferInv'
      BY <2>1, <3>1, <3>2 DEF BufferInv
    <3> QED BY <1>1, <2>1, <3>1, <3>2, <3>3 DEF Content
  <2>3. CASE offset # 0
    <3>1. /\ offset \in Nat /\ offset <= offset /\ offset <= length
          /\ Reduce(offset)
      BY <1>3, <2>3 DEF Recycle, BufferInv
    <3>2. /\ BufferInv' /\ Content' = BytesAt(str, offset, length - offset)
          /\ length' = length - offset
      BY <2>1, <3>1, ReduceMoves
    <3> QED BY <1>1, <2>1, <3>2 DEF Content, BufferInv
  <2> QED BY <2>2, <2>3
<1> QED BY <1>2, <1>3

LEMMA ClearImplements ==
    ASSUME BufferInv, Clear
    PROVE  BufferInv' /\ AsString!Clear
<1>1. BufferInv'
  BY DEF BufferInv, Clear
<1>2. Content' = <<>>
  <2>1. length' = 0 /\ offset' = 0
    BY DEF Clear
  <2>2. Content' = BytesAt(str', 0, 0 - 0)
    BY <2>1 DEF Content
  <2> QED BY <2>2 DEF BytesAt
<1>3. Len(<<>>) = 0
  OBVIOUS
<1> QED BY <1>1, <1>2, <1>3
       DEF Clear, AsString!Clear, AsString!Becomes, AsString!Returns, Returns,
           Content

LEMMA BufferStepImplements ==
    BufferInv /\ [BufferNext]_bufferVars
        => BufferInv' /\ [AsString!Next]_(AsString!vars)
<1> SUFFICES ASSUME BufferInv, [BufferNext]_bufferVars
             PROVE  BufferInv' /\ [AsString!Next]_(AsString!vars)
  OBVIOUS
<1>1. CASE \E data \in Strings : AppendBytes(data)
  BY <1>1, AppendImplements DEF AsString!Next
<1>2. CASE \E data \in Strings, o \in Offsets : Write(o, data)
  BY <1>2, WriteImplements DEF AsString!Next
<1>3. CASE \E n \in Lengths, o \in Offsets : Read(o, n)
  BY <1>3, ReadImplements DEF AsString!Next
<1>4. CASE \E n \in Lengths, o \in Offsets : Substr(o, n)
  BY <1>4, SubstrImplements DEF AsString!Next
<1>5. CASE \E n \in Lengths : SubstrRemove(n)
  BY <1>5, SubstrRemoveImplements DEF AsString!Next
<1>6. CASE Recycle \/ \E n \in 1..MaxSize : Expand(n)
  BY <1>6, ManageImplements DEF AsString!Next
<1>7. CASE Clear
  BY <1>7, ClearImplements DEF AsString!Next
<1>8. CASE UNCHANGED bufferVars
  BY <1>8 DEF bufferVars, BufferInv, AsString!vars
<1> QED
  BY <1>1, <1>2, <1>3, <1>4, <1>5, <1>6, <1>7, <1>8 DEF BufferNext

(* Whatever was taken from its front, overwritten or reclaimed before, a   *)
(* Swoole\Buffer behaves as a string of bytes: its initial states and      *)
(* every call of its methods map to those of ByteBuffer.                   *)
THEOREM BufferIsAString == BufferSpec => IsByteBuffer
<1>1. BufferInit => BufferInv /\ AsString!Init
  <2> SUFFICES ASSUME BufferInit PROVE BufferInv /\ AsString!Init
    OBVIOUS
  <2>1. BufferInv
    BY BufferAssumption DEF BufferInit, BufferInv
  <2>2. BytesAt(str, offset, length - offset) = <<>>
    <3>1. BytesAt(str, offset, length - offset) = BytesAt(str, 0, 0 - 0)
      BY DEF BufferInit
    <3> QED BY <3>1 DEF BytesAt
  <2> QED BY <2>1, <2>2 DEF BufferInit, AsString!Init
<1>2. BufferSpec => []BufferInv
  BY <1>1, BufferStepImplements, PTL DEF BufferSpec
<1> QED
  BY <1>1, <1>2, BufferStepImplements, PTL
     DEF BufferSpec, IsByteBuffer, AsString!Spec
=============================================================================
