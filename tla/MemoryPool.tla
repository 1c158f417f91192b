----------------------------- MODULE MemoryPool ------------------------------
(***************************************************************************)
(* A Swoole\Memory\Pool object and its slices (swoole_memory_pool.cc).     *)
(* mp, the pool's header, and mp->pool, its allocator, are shared by the   *)
(* pool object and the slices allocated from it, and are to go with the    *)
(* last of them, in whatever order PHP destroys these objects.             *)
(*                                                                         *)
(* Of a pool of TYPE_MALLOC only the header exists, and the slices do not  *)
(* come back to it.  (TYPE_EMALLOC is refused by the constructor, which    *)
(* compares the type with TYPE_MALLOC twice.)                              *)
(***************************************************************************)
EXTENDS Integers, FiniteSets

CONSTANTS
    Slices,     \* slice objects
    MaxCount    \* bound: the largest slice_count

ASSUME MaxCountAssumption == MaxCount \in Nat

VARIABLES
    pooled,        \* fixed, ring or global; else TYPE_MALLOC
    shared,        \* the header lies in the memory shared by processes
    object,        \* the pool object exists
    released,      \* mp->released
    slice_count,   \* mp->slice_count
    slices,        \* the slices that exist
    deletions,     \* times mp->pool was deleted
    frees          \* times mp was freed

mpVars == <<pooled, shared, object, released, slice_count, slices, deletions,
            frees>>

MPTypeOK ==
    /\ pooled \in BOOLEAN
    /\ shared \in BOOLEAN
    /\ object \in BOOLEAN
    /\ released \in BOOLEAN
    /\ slice_count \in Nat
    /\ slices \in SUBSET Slices
    /\ deletions \in Nat
    /\ frees \in Nat

(* __construct                                                             *)
MPInit ==
    /\ pooled \in BOOLEAN
    /\ shared \in BOOLEAN
    /\ shared => pooled
    /\ object = TRUE
    /\ released = FALSE
    /\ slice_count = 0
    /\ slices = {}
    /\ deletions = 0
    /\ frees = 0

Alloc(s) ==
    /\ object
    /\ s \notin slices
    /\ slice_count < MaxCount
    /\ slices' = slices \cup {s}
    /\ slice_count' = slice_count + 1
    /\ UNCHANGED <<pooled, shared, object, released, deletions, frees>>

(* The end of the allocator, and of a header that is not shared.           *)
Delete ==
    /\ deletions' = deletions + 1
    /\ frees' = IF shared THEN frees ELSE frees + 1

Keep == UNCHANGED <<deletions, frees>>

(* Faulty variant: the pool goes with its object.                          *)
DeletedIfUnusedBug == Delete

DeletedIfUnused == IF slice_count = 0 THEN Delete ELSE Keep

(* swoole_memory_pool::__destruct                                          *)
DestroyPool ==
    /\ object
    /\ object' = FALSE
    /\ \/ /\ ~pooled
          /\ frees' = frees + 1
          /\ UNCHANGED <<released, deletions>>
       \/ /\ pooled
          /\ released' = TRUE
          /\ DeletedIfUnused
    /\ UNCHANGED <<pooled, shared, slice_count, slices>>

(* Faulty variant: the last slice does not ask for the pool object.        *)
LastBug == slice_count' = 0

Last == released /\ slice_count' = 0

(* swoole_memory_pool_slice::__destruct                                    *)
DestroySlice(s) ==
    /\ s \in slices
    /\ slices' = slices \ {s}
    /\ \/ /\ ~pooled
          /\ UNCHANGED slice_count
          /\ Keep
       \/ /\ pooled
          /\ slice_count' = slice_count - 1
          /\ IF Last THEN Delete ELSE Keep
    /\ UNCHANGED <<pooled, shared, object, released>>

MPNext ==
    \/ \E s \in Slices : Alloc(s) \/ DestroySlice(s)
    \/ DestroyPool

MPSpec == MPInit /\ [][MPNext]_mpVars

(* The allocator and the header last as long as the pool object or a slice *)
(* that needs them, and then go, once: no slice outlives the memory it     *)
(* lies in, nothing is freed twice and nothing is kept for good, in        *)
(* whatever order the objects are destroyed.                               *)
PoolLastsAsLongAsNeeded ==
    LET needed == object \/ (pooled /\ slices # {})
    IN  /\ deletions = IF needed \/ ~pooled THEN 0 ELSE 1
        /\ frees = IF needed \/ shared THEN 0 ELSE 1
=============================================================================
