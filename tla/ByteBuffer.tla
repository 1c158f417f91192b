----------------------------- MODULE ByteBuffer ------------------------------
(***************************************************************************)
(* What a Swoole\Buffer promises: a string of bytes that grows at its end, *)
(* is overwritten in place, read at any offset (counted from the end when  *)
(* negative) and taken from its front.                                     *)
(***************************************************************************)
EXTENDS Integers, Sequences

CONSTANTS
    Bytes,
    Strings,   \* bound: the strings the script passes
    Offsets,   \* bound: the offsets the script passes
    Lengths    \* bound: the lengths the script passes; -1 for all the rest

VARIABLES
    content,   \* the string of bytes
    length,    \* the property $length of the object
    out        \* the last call, and what it returned; ok is FALSE for FALSE

vars == <<content, length, out>>

Init == content = <<>> /\ length = 0 /\ out = [call |-> <<"new">>, ok |-> TRUE,
                                              bytes |-> <<>>]

Returns(call, bytes) == out' = [call |-> call, ok |-> TRUE, bytes |-> bytes]

ReturnsFalse(call) ==
    /\ out' = [call |-> call, ok |-> FALSE, bytes |-> <<>>]
    /\ UNCHANGED <<content, length>>

Becomes(s) == content' = s /\ length' = Len(s)

At(offset) == IF offset < 0 THEN Len(content) + offset ELSE offset

Piece(offset, n) == SubSeq(content, offset + 1, offset + n)

Inside(offset, n) ==
    n >= 0 /\ At(offset) >= 0 /\ At(offset) + n <= Len(content)

(* A string that is too long is refused.                                   *)
AppendBytes(data) ==
    \/ Becomes(content \o data) /\ Returns(<<"append">>, <<>>)
    \/ ReturnsFalse(<<"append">>)

(* Bytes between the old end and a write behind it may be anything.        *)
Overwrites(offset, data) ==
    LET end == offset + Len(data)
        long == IF end > Len(content) THEN end ELSE Len(content)
    IN  \E s \in [1..long -> Bytes] :
           /\ \A i \in (offset + 1)..end : s[i] = data[i - offset]
           /\ \A i \in 1..Len(content) \ (offset + 1)..end : s[i] = content[i]
           /\ Becomes(s)

Write(offset, data) ==
    \/ /\ At(offset) >= 0
       /\ Overwrites(At(offset), data)
       /\ Returns(<<"write", offset>>, <<>>)
    \/ ReturnsFalse(<<"write", offset>>)

Read(offset, n) ==
    IF Inside(offset, n)
    THEN /\ Returns(<<"read", offset, n>>, Piece(At(offset), n))
         /\ UNCHANGED <<content, length>>
    ELSE ReturnsFalse(<<"read", offset, n>>)

Rest(offset, n) == IF n < 0 THEN Len(content) - offset ELSE n

Substr(offset, n) ==
    /\ offset \in 0..Len(content)
    /\ IF Inside(offset, Rest(offset, n))
       THEN /\ Returns(<<"substr", offset, n>>, Piece(offset, Rest(offset, n)))
            /\ UNCHANGED <<content, length>>
       ELSE ReturnsFalse(<<"substr", offset, n>>)

(* The first n bytes leave the buffer.                                     *)
Takes(n) == Inside(0, n) /\ Becomes(Piece(n, Len(content) - n))

(* When that makes the buffer reclaim its garbage, the bytes returned are  *)
(* not specified.                                                          *)
SubstrRemove(n) ==
    \/ /\ Takes(Rest(0, n))
       /\ \/ Returns(<<"remove", n>>, Piece(0, Rest(0, n)))
          \/ \E bytes \in [1..Rest(0, n) -> Bytes] :
                Returns(<<"recycling", n>>, bytes)
    \/ ~Inside(0, Rest(0, n)) /\ ReturnsFalse(<<"remove", n>>)

Clear == Becomes(<<>>) /\ Returns(<<"clear">>, <<>>)

(* expand() and recycle() do not change what the script sees.              *)
Manage ==
    \/ Returns(<<"manage">>, <<>>) /\ UNCHANGED <<content, length>>
    \/ ReturnsFalse(<<"manage">>)

Next ==
    \/ \E data \in Strings :
          AppendBytes(data) \/ \E offset \in Offsets : Write(offset, data)
    \/ \E n \in Lengths :
          \/ \E offset \in Offsets : Read(offset, n) \/ Substr(offset, n)
          \/ SubstrRemove(n)
    \/ Clear
    \/ Manage

Spec == Init /\ [][Next]_vars
=============================================================================
