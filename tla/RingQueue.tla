----------------------------- MODULE RingQueue ------------------------------
(***************************************************************************)
(* Swoole\RingQueue (swoole_ringqueue.cc): a queue in an array.  head is   *)
(* the oldest value, tail the slot behind the newest one; where the two    *)
(* meet, tag tells a full queue from an empty one.  A slot keeps its value *)
(* after a pop, which freed it.                                            *)
(*                                                                         *)
(* The constructor's length is Size; zero, which it accepts, is left out   *)
(* (the first push would divide by it).                                    *)
(***************************************************************************)
EXTENDS Integers, Sequences

CONSTANTS Values, Null, Size

ASSUME RingQueueAssumption ==
    /\ Size \in Nat \ {0}
    /\ Null \notin Values

VARIABLES head, tail, tag, data,
          returned   \* the value the last call took or returned, or <<>>
                     \* when it returned FALSE

vars == <<head, tail, tag, data, returned>>

Slots == 0..(Size - 1)

TypeOK ==
    /\ head \in Slots
    /\ tail \in Slots
    /\ tag \in {0, 1}
    /\ data \in [Slots -> Values \cup {Null}]
    /\ returned \in {<<>>} \cup {<<v>> : v \in Values \cup {Null}}

(* swRingQueue_init                                                        *)
Init ==
    /\ data = [s \in Slots |-> Null]
    /\ head = 0
    /\ tail = 0
    /\ tag = 0
    /\ returned = <<>>

Empty == head = tail /\ tag = 0

Full == head = tail /\ tag = 1

Count ==
    IF tail > head THEN tail - head
    ELSE IF head = tail THEN (IF tag = 1 THEN Size ELSE 0)
    ELSE tail + Size - head

(* Faulty variant: the position does not wrap.                             *)
BehindBug(s) == s + 1

Behind(s) == (s + 1) % Size

(* Faulty variant: a queue that fills up looks empty.                      *)
FilledBug(h, t) == tag

Filled(h, t) == IF t = h THEN 1 ELSE tag

(* Faulty variant: the tag is set where push() sets it.                    *)
EmptiedBug(h, t) == IF t = h THEN 1 ELSE tag

Emptied(h, t) == IF t = h THEN 0 ELSE tag

-----------------------------------------------------------------------------
(* swRingQueue_push and swRingQueue_pop, with the methods around them.     *)

Push(v) ==
    /\ ~Full
    /\ data' = [data EXCEPT ![tail] = v]
    /\ tail' = Behind(tail)
    /\ tag' = Filled(head, tail')
    /\ returned' = <<v>>
    /\ UNCHANGED head

PushOnFull ==
    /\ Full
    /\ returned' = <<>>
    /\ UNCHANGED <<head, tail, tag, data>>

Pop ==
    /\ ~Empty
    /\ returned' = <<data[head]>>
    /\ head' = Behind(head)
    /\ tag' = Emptied(head', tail)
    /\ UNCHANGED <<tail, data>>

PopOnEmpty ==
    /\ Empty
    /\ returned' = <<>>
    /\ UNCHANGED <<head, tail, tag, data>>

Next == (\E v \in Values : Push(v)) \/ PushOnFull \/ Pop \/ PopOnEmpty

Spec == Init /\ [][Next]_vars

-----------------------------------------------------------------------------
(* The slot of the i-th value behind position h.                           *)
Slot(h, i) == (h + i - 1) % Size

(* The values in the queue, oldest first, as many as count() says.         *)
Queue == [i \in 1..Count |-> data[Slot(head, i)]]

(* Every value that the queue still counts was pushed: no slot between     *)
(* head and tail is one that was never written.                            *)
SlotsAreWritten == \A i \in 1..Count : Queue[i] \in Values

Abstract == INSTANCE BoundedQueue WITH queue <- Queue

(* The array behaves as a first-in first-out queue of Size values, however *)
(* often its positions wrap around.                                        *)
IsBoundedQueue == Abstract!Spec
=============================================================================
