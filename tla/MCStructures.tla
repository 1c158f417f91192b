----------------------------- MODULE MCStructures ----------------------------
(***************************************************************************)
(* An instance for TLC of the data structures.  They share no state, so a  *)
(* behaviour uses one of them, and the others stay as they are.            *)
(***************************************************************************)
EXTENDS RingQueue, MemoryPool, Buffer, MmapStream

CONSTANTS v1, v2, v3, s1, s2, s3, a, b

(* A byte of either kind, and two bytes that differ.                       *)
SomeStrings == {<<a>>, <<b>>, <<a, b>>}

SomeOffsets == {-1, 0, 1}

SomeLengths == -1..2

VARIABLE used     \* the structure

ringIdle == UNCHANGED vars
poolIdle == UNCHANGED mpVars
bufferIdle == UNCHANGED bufferVars
mmapIdle == UNCHANGED mmapVars

(* Structures that are not used start in one of their initial states.      *)
StructuresInit ==
    /\ used \in {"ring", "pool", "buffer", "mmap"}
    /\ Init
    /\ MPInit /\ (used # "pool" => ~pooled)
    /\ BufferInit /\ (used # "buffer" => size = 1 /\ str[0] = a)
    /\ MmapInit /\ (used # "mmap" => mapped = 1)

StructuresNext ==
    /\ UNCHANGED used
    /\ \/ used = "ring" /\ Next /\ poolIdle /\ bufferIdle /\ mmapIdle
       \/ used = "pool" /\ MPNext /\ ringIdle /\ bufferIdle /\ mmapIdle
       \/ used = "buffer" /\ BufferNext /\ ringIdle /\ poolIdle /\ mmapIdle
       \/ used = "mmap" /\ MmapNext /\ ringIdle /\ poolIdle /\ bufferIdle

StructuresSpec ==
    StructuresInit
    /\ [][StructuresNext]_<<used, vars, mpVars, bufferVars, mmapVars>>
=============================================================================
