-------------------------- MODULE RingQueueProofs ---------------------------
(***************************************************************************)
(* Theorems about RingQueue, for every Size and every set of values.       *)
(***************************************************************************)
EXTENDS RingQueue, SequenceTheorems, TLAPS

-----------------------------------------------------------------------------
(* Positions.                                                              *)

LEMMA SizeType == Size \in Nat /\ Size >= 1
BY RingQueueAssumption

(* The remainder of a position that wraps at most once.                    *)
LEMMA Wrap ==
    ASSUME NEW x \in 0..(2 * Size - 1)
    PROVE  x % Size = IF x < Size THEN x ELSE x - Size
<1>1. CASE x < Size
  BY <1>1, SizeType
<1>2. CASE x >= Size
  BY <1>2, SizeType
<1>3. QED
  BY <1>1, <1>2, SizeType

LEMMA BehindIsNext ==
    ASSUME NEW s \in Slots
    PROVE  /\ Behind(s) = IF s + 1 < Size THEN s + 1 ELSE 0
           /\ Behind(s) \in Slots
<1> DEFINE x == s + 1
<1>1. x \in 0..(2 * Size - 1)
  BY SizeType DEF Slots
<1>2. x % Size = IF x < Size THEN x ELSE x - Size
  <2> HIDE DEF x
  <2> QED
    BY <1>1, Wrap
<1>3. QED
  BY <1>2, SizeType DEF Slots, Behind

-----------------------------------------------------------------------------
(* Type correctness.                                                       *)

(* Every variable keeps its type; head and tail never leave the array.     *)
THEOREM TypeCorrect == Spec => []TypeOK
<1>1. Init => TypeOK
  BY SizeType DEF Init, TypeOK, Slots
<1>2. TypeOK /\ [Next]_vars => TypeOK'
  <2> SUFFICES ASSUME TypeOK, [Next]_vars PROVE TypeOK'
    OBVIOUS
  <2>1. ASSUME NEW v \in Values, Push(v) PROVE TypeOK'
    <3>1. tail' \in Slots
      BY <2>1, BehindIsNext DEF Push, TypeOK
    <3>2. tag' \in {0, 1}
      BY <2>1 DEF Push, TypeOK, Filled
    <3>3. QED
      BY <2>1, <3>1, <3>2 DEF Push, TypeOK
  <2>2. CASE PushOnFull
    BY <2>2 DEF PushOnFull, TypeOK
  <2>3. CASE Pop
    <3>1. head' \in Slots
      BY <2>3, BehindIsNext DEF Pop, TypeOK
    <3>2. tag' \in {0, 1}
      BY <2>3 DEF Pop, TypeOK, Emptied
    <3>3. returned' \in {<<>>} \cup {<<v>> : v \in Values \cup {Null}}
      BY <2>3 DEF Pop, TypeOK
    <3>4. QED
      BY <2>3, <3>1, <3>2, <3>3 DEF Pop, TypeOK
  <2>4. CASE PopOnEmpty
    BY <2>4 DEF PopOnEmpty, TypeOK
  <2>5. CASE UNCHANGED vars
    BY <2>5 DEF vars, TypeOK
  <2>6. QED
    BY <2>1, <2>2, <2>3, <2>4, <2>5 DEF Next
<1>3. QED
  BY <1>1, <1>2, PTL DEF Spec

-----------------------------------------------------------------------------
(* What count(), the slots and the values in them say about each other.    *)

LEMMA SlotIsInside ==
    ASSUME NEW h \in Slots, NEW i \in 1..Size
    PROVE  /\ Slot(h, i) = IF h + i - 1 < Size THEN h + i - 1
                                               ELSE h + i - 1 - Size
           /\ Slot(h, i) \in Slots
<1> DEFINE x == h + i - 1
<1>1. x \in 0..(2 * Size - 1)
  BY SizeType DEF Slots
<1>2. x % Size = IF x < Size THEN x ELSE x - Size
  <2> HIDE DEF x
  <2> QED
    BY <1>1, Wrap
<1>3. QED
  BY <1>2, SizeType DEF Slots, Slot

LEMMA SlotsDiffer ==
    ASSUME NEW h \in Slots, NEW i \in 1..Size, NEW j \in 1..Size, i # j
    PROVE  Slot(h, i) # Slot(h, j)
<1>1. Slot(h, i) = IF h + i - 1 < Size THEN h + i - 1 ELSE h + i - 1 - Size
  BY SlotIsInside
<1>2. Slot(h, j) = IF h + j - 1 < Size THEN h + j - 1 ELSE h + j - 1 - Size
  BY SlotIsInside
<1>3. QED
  BY <1>1, <1>2, SizeType DEF Slots

LEMMA SlotBehind ==
    ASSUME NEW h \in Slots, NEW i \in 1..(Size - 1)
    PROVE  Slot(Behind(h), i) = Slot(h, i + 1)
<1>1. /\ Behind(h) = IF h + 1 < Size THEN h + 1 ELSE 0
      /\ Behind(h) \in Slots
  BY BehindIsNext
<1>2. Slot(h, i + 1) = IF h + i < Size THEN h + i ELSE h + i - Size
  BY SlotIsInside, SizeType DEF Slots
<1> DEFINE b == Behind(h)
<1>3. Slot(b, i) = IF b + i - 1 < Size THEN b + i - 1 ELSE b + i - 1 - Size
  <2> HIDE DEF b
  <2> QED
    BY <1>1, SlotIsInside, SizeType DEF b
<1>4. QED
  BY <1>1, <1>2, <1>3, SizeType DEF Slots

LEMMA CountType ==
    ASSUME TypeOK
    PROVE  /\ Count \in 0..Size
           /\ Full <=> Count = Size
           /\ Empty <=> Count = 0
BY SizeType DEF TypeOK, Slots, Count, Full, Empty

(* tail is the slot behind the values.                                     *)
LEMMA TailIsBehind ==
    ASSUME TypeOK, ~Full
    PROVE  Slot(head, Count + 1) = tail
<1>1. Count \in 0..(Size - 1)
  BY CountType, SizeType
<1>2. head \in Slots /\ tail \in Slots
  BY DEF TypeOK
<1>3. Slot(head, Count + 1) = IF head + Count < Size
                             THEN head + Count ELSE head + Count - Size
  <2> DEFINE n == Count + 1
             h == head
  <2>1. n \in 1..Size /\ h \in Slots
    BY <1>1, <1>2, SizeType
  <2>2. Slot(h, n) = IF h + n - 1 < Size THEN h + n - 1 ELSE h + n - 1 - Size
    <3> HIDE DEF n, h
    <3> QED
      BY <2>1, SlotIsInside
  <2>3. QED
    BY <1>1, <1>2, <2>2, SizeType DEF Slots
<1>4. QED
  BY <1>2, <1>3, SizeType DEF Count, Full, Slots, TypeOK

(* A sequence is the function of its elements.                             *)
LEMMA SequenceIsFunction ==
    ASSUME NEW S, NEW s \in Seq(S)
    PROVE  s = [i \in 1..Len(s) |-> s[i]]
<1>1. s \in [1..Len(s) -> S]
  BY LenProperties
<1>2. QED
  BY <1>1

LEMMA QueueType ==
    ASSUME TypeOK
    PROVE  /\ Queue \in Seq(Values \cup {Null})
           /\ Len(Queue) = Count
           /\ \A i \in 1..Count : Queue[i] = data[Slot(head, i)]
<1>1. Count \in Nat /\ Count <= Size
  BY CountType, SizeType
<1>2. \A i \in 1..Count : data[Slot(head, i)] \in Values \cup {Null}
  <2> SUFFICES ASSUME NEW i \in 1..Count
               PROVE  data[Slot(head, i)] \in Values \cup {Null}
    OBVIOUS
  <2>1. i \in 1..Size
    BY <1>1, SizeType
  <2>2. Slot(head, i) \in Slots
    BY <2>1, SlotIsInside DEF TypeOK
  <2>3. QED
    BY <2>2 DEF TypeOK
<1>3. QED
  BY <1>1, <1>2 DEF Queue
-----------------------------------------------------------------------------
(* RingQueue implements BoundedQueue, step by step.                        *)

LEMMA PushAppends ==
    ASSUME TypeOK, TypeOK', NEW v \in Values, Push(v)
    PROVE  /\ Len(Queue) < Size
           /\ Queue' = Append(Queue, v)
           /\ Count' = Count + 1
<1>1. /\ ~Full /\ head' = head /\ tail' = Behind(tail)
      /\ tag' = IF tail' = head THEN 1 ELSE tag
      /\ data' = [data EXCEPT ![tail] = v]
  BY DEF Push, Filled
<1>2. /\ head \in Slots /\ tail \in Slots /\ tag \in {0, 1}
      /\ data \in [Slots -> Values \cup {Null}]
  BY DEF TypeOK
<1>3. Count \in 0..(Size - 1)
  BY <1>1, CountType, SizeType
<1>4. Count' = Count + 1
  <2>1. tail' = IF tail + 1 < Size THEN tail + 1 ELSE 0
    BY <1>1, <1>2, BehindIsNext
  <2>2. QED
    BY <1>1, <1>2, <2>1, SizeType DEF Count, Full, Slots
<1>5. /\ Queue \in Seq(Values \cup {Null}) /\ Len(Queue) = Count
      /\ \A i \in 1..Count : Queue[i] = data[Slot(head, i)]
  BY QueueType
<1>6. /\ Append(Queue, v) \in Seq(Values \cup {Null})
      /\ Len(Append(Queue, v)) = Count + 1
      /\ \A i \in 1..Count : Append(Queue, v)[i] = Queue[i]
      /\ Append(Queue, v)[Count + 1] = v
  BY <1>5, AppendProperties
<1>7. Queue' = [i \in 1..(Count + 1) |-> data'[Slot(head, i)]]
  BY <1>1, <1>4 DEF Queue
<1>8. ASSUME NEW i \in 1..(Count + 1)
      PROVE  data'[Slot(head, i)] = Append(Queue, v)[i]
  <2>1. Slot(head, Count + 1) = tail
    BY <1>1, TailIsBehind
  <2>2. i \in 1..Size /\ Count + 1 \in 1..Size
    BY <1>3, SizeType
  <2>3. CASE i = Count + 1
    BY <1>1, <1>2, <1>6, <2>1, <2>3
  <2>4. CASE i # Count + 1
    <3>1. i \in 1..Count
      BY <1>3, <2>4
    <3>2. Slot(head, i) \in Slots
      BY <1>2, <2>2, SlotIsInside
    <3> DEFINE n == Count + 1
               h == head
    <3>3. Slot(h, i) # Slot(h, n)
      <4>1. n \in 1..Size /\ i # n /\ h \in Slots
        BY <1>2, <2>2, <2>4
      <4> HIDE DEF n, h
      <4>2. QED
        BY <2>2, <4>1, SlotsDiffer
    <3>4. data'[Slot(head, i)] = data[Slot(head, i)]
      BY <1>1, <1>2, <2>1, <3>2, <3>3
    <3>5. QED
      BY <1>5, <1>6, <3>1, <3>4
  <2>5. QED
    BY <2>3, <2>4
<1>9. Queue' = Append(Queue, v)
  <2> DEFINE a == Append(Queue, v)
  <2>1. Count + 1 \in Nat
    BY <1>3, SizeType
  <2>2. Queue' = [i \in 1..(Count + 1) |-> a[i]]
    BY <1>7, <1>8
  <2>3. a = [i \in 1..(Count + 1) |-> a[i]]
    <3>1. a \in Seq(Values \cup {Null}) /\ Len(a) = Count + 1
      BY <1>6
    <3> HIDE DEF a
    <3>2. QED
      BY <3>1, SequenceIsFunction
  <2>4. QED
    BY <2>2, <2>3
<1>10. QED
  BY <1>3, <1>4, <1>5, <1>9, SizeType

LEMMA PopTakesTheHead ==
    ASSUME TypeOK, Pop
    PROVE  /\ Queue # <<>>
           /\ Queue' = Tail(Queue)
           /\ Count' = Count - 1
           /\ returned' = <<Head(Queue)>>
<1>1. /\ ~Empty /\ tail' = tail /\ head' = Behind(head)
      /\ tag' = IF tail = head' THEN 0 ELSE tag
      /\ data' = data /\ returned' = <<data[head]>>
  BY DEF Pop, Emptied
<1>2. /\ head \in Slots /\ tail \in Slots /\ tag \in {0, 1}
      /\ data \in [Slots -> Values \cup {Null}]
  BY DEF TypeOK
<1>3. Count \in 1..Size
  BY <1>1, CountType, SizeType
<1>4. Count' = Count - 1
  <2>1. head' = IF head + 1 < Size THEN head + 1 ELSE 0
    BY <1>1, <1>2, BehindIsNext
  <2>2. QED
    BY <1>1, <1>2, <2>1, SizeType DEF Count, Empty, Slots
<1>5. /\ Queue \in Seq(Values \cup {Null}) /\ Len(Queue) = Count
      /\ \A i \in 1..Count : Queue[i] = data[Slot(head, i)]
  BY QueueType
<1>6. Queue # <<>>
  BY <1>3, <1>5
<1>7. /\ Tail(Queue) \in Seq(Values \cup {Null})
      /\ Len(Tail(Queue)) = Count - 1
      /\ \A i \in 1..(Count - 1) : Tail(Queue)[i] = Queue[i + 1]
  BY <1>5, <1>6, HeadTailProperties
<1>8. Queue' = [i \in 1..(Count - 1) |-> data[Slot(Behind(head), i)]]
  BY <1>1, <1>4 DEF Queue
<1>9. ASSUME NEW i \in 1..(Count - 1)
      PROVE  data[Slot(Behind(head), i)] = Tail(Queue)[i]
  <2>1. i \in 1..(Size - 1) /\ i + 1 \in 1..Count
    BY <1>3, SizeType
  <2>2. Slot(Behind(head), i) = Slot(head, i + 1)
    BY <1>2, <2>1, SlotBehind
  <2>3. QED
    BY <1>5, <1>7, <2>1, <2>2
<1>10. Queue' = Tail(Queue)
  <2> DEFINE t == Tail(Queue)
  <2>1. Count - 1 \in Nat
    BY <1>3, SizeType
  <2>2. Queue' = [i \in 1..(Count - 1) |-> t[i]]
    BY <1>8, <1>9
  <2>3. t = [i \in 1..(Count - 1) |-> t[i]]
    <3>1. t \in Seq(Values \cup {Null}) /\ Len(t) = Count - 1
      BY <1>7
    <3> HIDE DEF t
    <3>2. QED
      BY <3>1, SequenceIsFunction
  <2>4. QED
    BY <2>2, <2>3
<1>11. Head(Queue) = data[head]
  <2>1. Slot(head, 1) = head
    BY <1>2, SlotIsInside, SizeType DEF Slots
  <2>2. QED
    BY <1>3, <1>5, <1>6, <2>1
<1>12. QED
  BY <1>1, <1>4, <1>6, <1>10, <1>11

(* The ring is a first-in first-out queue of Size values: initial states   *)
(* and every call map to those of BoundedQueue.                            *)
THEOREM Refinement == Spec => IsBoundedQueue
<1>1. Init => Abstract!Init
  BY SizeType DEF Init, Abstract!Init, Queue, Count
<1>2. TypeOK /\ TypeOK' /\ [Next]_vars
         => [Abstract!Next]_<<Queue, returned>>
  <2> SUFFICES ASSUME TypeOK, TypeOK', [Next]_vars
               PROVE  [Abstract!Next]_<<Queue, returned>>
    OBVIOUS
  <2>1. ASSUME NEW v \in Values, Push(v) PROVE Abstract!Push(v)
    BY <2>1, PushAppends DEF Push, Abstract!Push
  <2>2. CASE PushOnFull
    <3>1. Len(Queue) = Size
      BY <2>2, QueueType, CountType DEF PushOnFull
    <3>2. Queue' = Queue
      BY <2>2 DEF PushOnFull, Queue, Count
    <3>3. QED
      BY <2>2, <3>1, <3>2
         DEF PushOnFull, Abstract!PushOnFull, Abstract!Next
  <2>3. CASE Pop
    BY <2>3, PopTakesTheHead DEF Abstract!Pop, Abstract!Next
  <2>4. CASE PopOnEmpty
    <3>1. Queue = <<>>
      BY <2>4, QueueType, CountType DEF PopOnEmpty
    <3>2. Queue' = Queue
      BY <2>4 DEF PopOnEmpty, Queue, Count
    <3>3. QED
      BY <2>4, <3>1, <3>2
         DEF PopOnEmpty, Abstract!PopOnEmpty, Abstract!Next
  <2>5. CASE UNCHANGED vars
    BY <2>5 DEF vars, Queue, Count
  <2>6. QED
    BY <2>1, <2>2, <2>3, <2>4, <2>5 DEF Next, Abstract!Next
<1>3. Spec => []TypeOK
  BY TypeCorrect
<1>4. QED
  BY <1>1, <1>2, <1>3, PTL DEF Spec, IsBoundedQueue, Abstract!Spec

(* What count() counts was pushed: pop() never returns a slot that was     *)
(* never written.                                                          *)
THEOREM OnlyPushedValues == Spec => []SlotsAreWritten
<1>1. Init => SlotsAreWritten
  BY DEF Init, SlotsAreWritten, Count
<1>2. TypeOK /\ TypeOK' /\ SlotsAreWritten /\ [Next]_vars
         => SlotsAreWritten'
  <2> SUFFICES ASSUME TypeOK, TypeOK', SlotsAreWritten, [Next]_vars
               PROVE  SlotsAreWritten'
    OBVIOUS
  <2>1. /\ Queue \in Seq(Values \cup {Null}) /\ Len(Queue) = Count
        /\ Count \in Nat
    BY QueueType, CountType, SizeType
  <2>2. ASSUME NEW v \in Values, Push(v) PROVE SlotsAreWritten'
    <3>1. Queue' = Append(Queue, v) /\ Count' = Count + 1
      BY <2>2, PushAppends
    <3>2. /\ Len(Append(Queue, v)) = Count + 1
          /\ \A i \in 1..Count : Append(Queue, v)[i] = Queue[i]
          /\ Append(Queue, v)[Count + 1] = v
      BY <2>1, AppendProperties
    <3>3. QED
      BY <2>1, <3>1, <3>2 DEF SlotsAreWritten
  <2>3. CASE Pop
    <3>1. Queue # <<>> /\ Queue' = Tail(Queue) /\ Count' = Count - 1
      BY <2>3, PopTakesTheHead
    <3>2. /\ Len(Tail(Queue)) = Count - 1
          /\ \A i \in 1..(Count - 1) : Tail(Queue)[i] = Queue[i + 1]
      BY <2>1, <3>1, HeadTailProperties
    <3>3. QED
      BY <2>1, <3>1, <3>2 DEF SlotsAreWritten
  <2>4. CASE UNCHANGED <<head, tail, tag, data>>
    BY <2>4 DEF SlotsAreWritten, Queue, Count
  <2>5. QED
    BY <2>2, <2>3, <2>4 DEF Next, PushOnFull, PopOnEmpty, vars
<1>3. QED
  BY <1>1, <1>2, TypeCorrect, PTL DEF Spec
=============================================================================
