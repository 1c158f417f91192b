-------------------------------- MODULE Buffer -------------------------------
(***************************************************************************)
(* Swoole\Buffer (swoole_buffer.cc): bytes in an array, of which the first *)
(* offset were taken by substr() with remove and are garbage until the     *)
(* rest is moved to the front.                                             *)
(*                                                                         *)
(* swoole::String is not part of this extension: its append, write, reduce *)
(* and extend are modelled from how the methods use them.  The offsets     *)
(* given to substr() lie inside the content.                               *)
(***************************************************************************)
EXTENDS Integers, Sequences

CONSTANTS
    Bytes,
    MaxLength,    \* SW_STRING_BUFFER_MAXLEN
    MaxSize,      \* bound: the largest capacity
    GarbageMin,   \* SW_STRING_BUFFER_GARBAGE_MIN
    Ratio,        \* SW_STRING_BUFFER_GARBAGE_RATIO
    Strings,      \* bound: the strings the script passes
    Offsets,      \* bound: the offsets the script passes
    Lengths       \* bound: the lengths the script passes; -1 for all the rest

ASSUME BufferAssumption ==
    /\ MaxLength \in Nat /\ MaxSize \in Nat /\ MaxLength <= MaxSize
    /\ GarbageMin \in Nat /\ Ratio \in Nat
    /\ Strings \subseteq Seq(Bytes)
    /\ Offsets \subseteq Int
    /\ Lengths \subseteq Int

VARIABLES str, length, offset, size,   \* swString
          shown,                       \* the property $length
          result                       \* the last call, and what it returned

bufferVars == <<str, length, offset, size, shown, result>>

Cells == 0..(MaxSize - 1)

BufferInit ==
    /\ \E b \in Bytes : str = [c \in Cells |-> b]
    /\ length = 0
    /\ offset = 0
    /\ size \in 1..MaxLength
    /\ shown = 0
    /\ result = [call |-> <<"new">>, ok |-> TRUE, bytes |-> <<>>]

Returns(call, bytes) == result' = [call |-> call, ok |-> TRUE, bytes |-> bytes]

ReturnsFalse(call) ==
    /\ result' = [call |-> call, ok |-> FALSE, bytes |-> <<>>]
    /\ UNCHANGED <<str, length, offset, size, shown>>

(* n bytes of array s from cell c on.                                      *)
BytesAt(s, c, n) == [i \in 1..n |-> s[c + i - 1]]

(* swString_append and swString_write: data goes to cell c.                *)
Put(c, data, call) ==
    LET end == c + Len(data)
    IN  IF end > size /\ end > MaxLength THEN ReturnsFalse(call)
        ELSE /\ str' = [i \in Cells |-> IF i \in c..(end - 1)
                                        THEN data[i - c + 1] ELSE str[i]]
             /\ length' = IF end > length THEN end ELSE length
             /\ IF end > size THEN size' \in end..MaxLength
                              ELSE UNCHANGED size
             /\ shown' = length' - offset
             /\ Returns(call, <<>>)
             /\ UNCHANGED offset

AppendBytes(data) == Put(length, data, <<"append">>)

(* Faulty variant: garbage is counted as content.                          *)
FromEndBug(o) == IF o < 0 THEN length + o ELSE o

(* An offset from the start of the content.                                *)
FromEnd(o) == IF o < 0 THEN length - offset + o ELSE o

Write(o, data) ==
    IF FromEnd(o) < 0 THEN ReturnsFalse(<<"write", o>>)
    ELSE Put(FromEnd(o) + offset, data, <<"write", o>>)

Read(o, n) ==
    LET call == <<"read", o, n>>
    IN  /\ n >= 0
        /\ IF FromEnd(o) < 0 \/ n > length - (FromEnd(o) + offset)
           THEN ReturnsFalse(call)
           ELSE /\ Returns(call, BytesAt(str, FromEnd(o) + offset, n))
                /\ UNCHANGED <<str, length, offset, size, shown>>

(* The third of three arguments, -1 by default, of a substr() at offset o. *)
Rest(o, n) == IF n < 0 THEN length - (o + offset) ELSE n

(* substr() without remove.                                                *)
Substr(o, n) ==
    LET call == <<"substr", o, n>>
    IN  /\ o \in 0..(length - offset)
        /\ IF o + offset + Rest(o, n) > length THEN ReturnsFalse(call)
           ELSE /\ Returns(call, BytesAt(str, o + offset, Rest(o, n)))
                /\ UNCHANGED <<str, length, offset, size, shown>>

(* swString_reduce: the bytes from cell cut on move to the front.          *)
Reduce(cut) ==
    /\ str' = [i \in Cells |-> IF i < length - cut THEN str[i + cut]
                                                   ELSE str[i]]
    /\ length' = length - cut
    /\ offset' = 0

Garbage(taken) == taken > GarbageMin /\ taken * Ratio > size

(* substr() of the front with remove.  What it returns is copied from      *)
(* the place it had before garbage was reclaimed.                          *)
SubstrRemove(n) ==
    LET taken == offset + Rest(0, n)
        piece == BytesAt(str', offset, Rest(0, n))
    IN  IF taken > length THEN ReturnsFalse(<<"remove", n>>)
        ELSE /\ IF Garbage(taken)
                THEN Reduce(taken) /\ Returns(<<"recycling", n>>, piece)
                ELSE /\ offset' = taken
                     /\ UNCHANGED <<str, length>>
                     /\ Returns(<<"remove", n>>, piece)
             /\ shown' = length - taken
             /\ UNCHANGED size

Expand(n) ==
    IF n <= size THEN ReturnsFalse(<<"manage">>)
    ELSE /\ size' = n
         /\ Returns(<<"manage">>, <<>>)
         /\ UNCHANGED <<str, length, offset, shown>>

Recycle ==
    /\ IF offset = 0 THEN UNCHANGED <<str, length, offset>> ELSE Reduce(offset)
    /\ shown' = length'
    /\ Returns(<<"manage">>, <<>>)
    /\ UNCHANGED size

Clear ==
    /\ length' = 0
    /\ offset' = 0
    /\ shown' = 0
    /\ Returns(<<"clear">>, <<>>)
    /\ UNCHANGED <<str, size>>

BufferNext ==
    \/ \E data \in Strings :
          AppendBytes(data) \/ \E o \in Offsets : Write(o, data)
    \/ \E n \in Lengths :
          \/ \E o \in Offsets : Read(o, n) \/ Substr(o, n)
          \/ SubstrRemove(n)
    \/ \E n \in 1..MaxSize : Expand(n)
    \/ Recycle
    \/ Clear

BufferSpec == BufferInit /\ [][BufferNext]_bufferVars

-----------------------------------------------------------------------------
AsString == INSTANCE ByteBuffer WITH
    content <- BytesAt(str, offset, length - offset),
    length <- shown,
    out <- result

(* Whatever was taken from the front, overwritten or reclaimed before, the *)
(* object behaves as a string of bytes, except in what a substr() returns  *)
(* that reclaims garbage.                                                  *)
IsByteBuffer == AsString!Spec
=============================================================================
