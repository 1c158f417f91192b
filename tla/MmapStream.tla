----------------------------- MODULE MmapStream ------------------------------
(***************************************************************************)
(* The stream that Swoole\Mmap::open returns (swoole_mmap.cc): mapped      *)
(* bytes of a file (res->size) and a position ptr in them, moved by        *)
(* reading, writing and seeking.  The bytes left behind ptr are computed   *)
(* as a size_t.                                                            *)
(***************************************************************************)
EXTENDS Integers

CONSTANTS
    MaxMapped,   \* bound: bytes mapped
    MaxArg       \* bound: lengths and offsets the script passes

ASSUME MmapAssumption == MaxMapped \in Nat /\ MaxArg \in Nat

VARIABLES mapped, ptr,
          copied   \* the last copy: where it started, and its length

mmapVars == <<mapped, ptr, copied>>

(* 2 ^ 64, scaled down: more than any length.                              *)
Width == 2 * (MaxMapped + MaxArg)

MmapInit ==
    /\ mapped \in 1..MaxMapped
    /\ ptr = 0
    /\ copied = [from |-> 0, length |-> 0]

Least(a, b) == IF a < b THEN a ELSE b

(* mmap_stream_read and mmap_stream_write move the same way.               *)
Transfer(length) ==
    LET n == Least((mapped - ptr) % Width, length)
    IN  /\ n # 0
        /\ copied' = [from |-> ptr, length |-> n]
        /\ ptr' = ptr + n
        /\ UNCHANGED mapped

(* Faulty variant: a position behind the end is taken.                     *)
WithinBug(p) == p \in 0..(mapped + 1)

Within(p) == p \in 0..mapped

Whences == {"SEEK_SET", "SEEK_CUR", "SEEK_END"}

Target(offset, whence) ==
    CASE whence = "SEEK_SET" -> offset
      [] whence = "SEEK_CUR" -> ptr + offset
      [] whence = "SEEK_END" -> mapped + offset

(* mmap_stream_seek                                                        *)
Seek(offset, whence) ==
    /\ Within(Target(offset, whence))
    /\ ptr' = Target(offset, whence)
    /\ UNCHANGED <<mapped, copied>>

MmapNext ==
    \/ \E length \in 1..MaxArg : Transfer(length)
    \/ \E offset \in -MaxArg..MaxArg, whence \in Whences : Seek(offset, whence)

MmapSpec == MmapInit /\ [][MmapNext]_mmapVars

(* Every copy lies inside the mapping, wherever the script seeks before    *)
(* it: the length computed without a sign never hides a position behind    *)
(* the end.                                                                *)
CopiesStayInside == copied.from + copied.length <= mapped
=============================================================================
