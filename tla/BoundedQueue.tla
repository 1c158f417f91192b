---------------------------- MODULE BoundedQueue ----------------------------
(***************************************************************************)
(* What a Swoole\RingQueue promises: a first-in first-out queue of at most *)
(* Size values, whose push() fails only when it is full and whose pop()    *)
(* fails only when it is empty.                                            *)
(***************************************************************************)
EXTENDS Naturals, Sequences

CONSTANTS Values, Size

VARIABLES queue,     \* the values in the queue, oldest first
          returned   \* the value the last call took or returned, or <<>>
                     \* when it returned FALSE

Init ==
    /\ queue = <<>>
    /\ returned = <<>>

Push(v) ==
    /\ Len(queue) < Size
    /\ queue' = Append(queue, v)
    /\ returned' = <<v>>

PushOnFull ==
    /\ Len(queue) = Size
    /\ returned' = <<>>
    /\ UNCHANGED queue

Pop ==
    /\ queue # <<>>
    /\ queue' = Tail(queue)
    /\ returned' = <<Head(queue)>>

PopOnEmpty ==
    /\ queue = <<>>
    /\ returned' = <<>>
    /\ UNCHANGED queue

Next == (\E v \in Values : Push(v)) \/ PushOnFull \/ Pop \/ PopOnEmpty

Spec == Init /\ [][Next]_<<queue, returned>>
=============================================================================
