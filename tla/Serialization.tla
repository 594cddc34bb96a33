--------------------------- MODULE Serialization ---------------------------
(***************************************************************************)
(* The message codec (include/rix/msg/serialization.hpp and the message    *)
(* classes): numbers of Word bytes, least significant first, strings and   *)
(* vectors prefixed by their length, arrays and messages without a prefix. *)
(* A byte is a number below Base, a string a sequence of bytes, a message  *)
(* the sequence of its fields, those of nested messages in their place.    *)
(*                                                                         *)
(* The machine reads one value after the other from a buffer of arbitrary  *)
(* bytes, as deserialize() does from what came over a pipe.                *)
(***************************************************************************)
EXTENDS Sums, SequencesExt

CONSTANTS
  Base,     \* values of a byte, 256 in the code
  Word,     \* sizeof(uint32_t), 4 in the code
  ArrayLen, \* N of the arrays
  Buffers   \* the sequences of bytes that are read

ASSUME CodecAssumption == Base \in Nat \ {0, 1} /\ Word \in Nat \ {0}
                          /\ ArrayLen \in Nat /\ Buffers \subseteq Seq(0 .. Base - 1)

VARIABLES
  buf,   \* src and size
  off,   \* offset
  last   \* the last value read: its kind, where it began, if it was read

codecVars == <<buf, off, last>>

-----------------------------------------------------------------------------
(* The messages: the fields of each, in order.                             *)

UInt32         == <<"number">>
Time           == <<"number", "number">>
Duration       == Time
Header         == <<"number">> \o Time \o <<"string">>
Twist2D        == <<"number", "number", "number">>
Twist2DStamped == Header \o Twist2D

-----------------------------------------------------------------------------
(* Serialization.                                                          *)

\* The Word bytes of a number, least significant first.
WriteNumber(v) ==
  LET rest[i \in 0 .. Word] == IF i = 0 THEN v ELSE rest[i - 1] \div Base
  IN [i \in 1 .. Word |-> rest[i - 1] % Base]
WriteString(s)   == WriteNumber(Len(s)) \o s
WriteField(kind, v) == IF kind = "number" THEN WriteNumber(v) ELSE WriteString(v)

WriteMessage(T, v)      == FlattenSeq([i \in DOMAIN T |-> WriteField(T[i], v[i])])
WriteNumberArray(v)     == FlattenSeq([i \in DOMAIN v |-> WriteNumber(v[i])])
WriteStringArray(v)     == FlattenSeq([i \in DOMAIN v |-> WriteString(v[i])])
WriteMessageArray(T, v) == FlattenSeq([i \in DOMAIN v |-> WriteMessage(T, v[i])])
WriteNumberVector(v)     == WriteNumber(Len(v)) \o WriteNumberArray(v)
WriteStringVector(v)     == WriteNumber(Len(v)) \o WriteStringArray(v)
WriteMessageVector(T, v) == WriteNumber(Len(v)) \o WriteMessageArray(T, v)

\* Mutant: the size of a string forgets its length.
BugSizeString(s) == Len(s)

SizeString(s) == Word + Len(s)
SizeField(kind, v)   == IF kind = "number" THEN Word ELSE SizeString(v)
SizeMessage(T, v) == SumOf([i \in DOMAIN T |-> SizeField(T[i], v[i])])
SizeArray(T, v)   == SumOf([i \in DOMAIN v |-> SizeMessage(T, v[i])])
SizeVector(T, v)  == Word + SizeArray(T, v)

-----------------------------------------------------------------------------
(* Deserialization: what a read at offset o of b returns and leaves.       *)

Value(bytes) ==
  LET val[i \in 0 .. Len(bytes)] ==   \* that of the last i bytes
        IF i = 0 THEN 0 ELSE bytes[Len(bytes) + 1 - i] + Base * val[i - 1]
  IN val[Len(bytes)]
\* The n bytes at offset o; beyond the end there is no telling (here zeros).
Bytes(b, o, n) == [i \in 1 .. n |-> IF o + i \in DOMAIN b THEN b[o + i] ELSE 0]

Failed(o)    == [ok |-> FALSE, off |-> o, val |-> <<>>]
Read(o, v)   == [ok |-> TRUE, off |-> o, val |-> v]

\* Mutant: the bound is off by one.
BugReadNumber(b, o) ==
  IF o + Word >= Len(b) THEN Failed(o)
  ELSE Read(o + Word, Value(Bytes(b, o, Word)))

ReadNumber(b, o) ==
  IF o + Word > Len(b) THEN Failed(o)
  ELSE Read(o + Word, Value(Bytes(b, o, Word)))

ReadString(b, o) ==
  LET len == ReadNumber(b, o) IN
  IF ~len.ok \/ len.off + len.val > Len(b) THEN Failed(len.off)
  ELSE Read(len.off + len.val, Bytes(b, len.off, len.val))

ReadField(kind, b, o) == IF kind = "number" THEN ReadNumber(b, o) ELSE ReadString(b, o)

Offsets(b) == 0 .. Len(b)

\* n items one after the other, up to the first that cannot be read:
\* item[i][p] is what reading the i-th one at offset p returns.
InOrder(item, n, o) ==
  LET read[i \in 0 .. n] ==
        IF i = 0 THEN Read(o, <<>>)
        ELSE LET r == read[i - 1]
                 s == item[i][r.off]
             IN IF ~r.ok THEN r
                ELSE [ok  |-> s.ok, off |-> s.off,
                      val |-> IF s.ok THEN Append(r.val, s.val) ELSE r.val]
  IN read[n]

ReadMessage(T, b, o) ==
  InOrder([i \in DOMAIN T |-> [p \in Offsets(b) |-> ReadField(T[i], b, p)]], Len(T), o)

\* All the bytes of an array of numbers are there or none is taken.
ReadNumberArray(n, b, o) ==
  IF o + n * Word > Len(b) THEN Failed(o)
  ELSE Read(o + n * Word, [i \in 1 .. n |-> Value(Bytes(b, o + (i - 1) * Word, Word))])
ReadStringArray(n, b, o) ==
  InOrder([i \in 1 .. n |-> [p \in Offsets(b) |-> ReadString(b, p)]], n, o)
ReadMessageArray(T, n, b, o) ==
  InOrder([i \in 1 .. n |-> [p \in Offsets(b) |-> ReadMessage(T, b, p)]], n, o)

\* The vector is resized to its count, and then filled as an array.
ReadNumberVector(b, o) ==
  LET count == ReadNumber(b, o)
  IN IF count.ok THEN ReadNumberArray(count.val, b, count.off) ELSE count
ReadStringVector(b, o) ==
  LET count == ReadNumber(b, o)
  IN IF count.ok THEN ReadStringArray(count.val, b, count.off) ELSE count
ReadMessageVector(T, b, o) ==
  LET count == ReadNumber(b, o)
  IN IF count.ok THEN ReadMessageArray(T, count.val, b, count.off) ELSE count

-----------------------------------------------------------------------------
(* A read of each kind, what writes it, and what its size is.              *)

Messages == {Time, Header, Twist2D, Twist2DStamped}
Number == UInt32
String == <<"string">>
Kinds == [elem : {Number, String} \cup Messages, form : {"one", "array", "vector"}]

Reads(k, b, o) ==
  CASE k.elem = Number /\ k.form = "array"  -> ReadNumberArray(ArrayLen, b, o)
    [] k.elem = Number /\ k.form = "vector" -> ReadNumberVector(b, o)
    [] k.elem = String /\ k.form = "array"  -> ReadStringArray(ArrayLen, b, o)
    [] k.elem = String /\ k.form = "vector" -> ReadStringVector(b, o)
    [] k.form = "one"                       -> ReadMessage(k.elem, b, o)
    [] k.elem \in Messages /\ k.form = "array"  -> ReadMessageArray(k.elem, ArrayLen, b, o)
    [] k.elem \in Messages /\ k.form = "vector" -> ReadMessageVector(k.elem, b, o)

Writes(k, v) ==
  CASE k.elem = Number /\ k.form = "array"  -> WriteNumberArray(v)
    [] k.elem = Number /\ k.form = "vector" -> WriteNumberVector(v)
    [] k.elem = String /\ k.form = "array"  -> WriteStringArray(v)
    [] k.elem = String /\ k.form = "vector" -> WriteStringVector(v)
    [] k.form = "one"                       -> WriteMessage(k.elem, v)
    [] k.elem \in Messages /\ k.form = "array"  -> WriteMessageArray(k.elem, v)
    [] k.elem \in Messages /\ k.form = "vector" -> WriteMessageVector(k.elem, v)

\* A number or a string of an array is a message of one field.
SizeOf(k, v) ==
  LET items == IF k.elem \in Messages THEN v ELSE [i \in DOMAIN v |-> <<v[i]>>]
  IN CASE k.form = "one"    -> SizeMessage(k.elem, v)
       [] k.form = "array"  -> SizeArray(k.elem, items)
       [] k.form = "vector" -> SizeVector(k.elem, items)

Nothing == [kind |-> [elem |-> Number, form |-> "none"], from |-> 0, ok |-> TRUE, val |-> <<>>]

CodecInit == /\ buf \in Buffers
             /\ off = 0 /\ last = Nothing

\* The caller gives up at the first value that cannot be read.
ReadNext(k) ==
  LET r == Reads(k, buf, off)
  IN /\ last.ok /\ off < Len(buf)
     /\ off' = r.off
     /\ last' = [kind |-> k, from |-> off, ok |-> r.ok, val |-> r.val]
     /\ UNCHANGED buf

CodecNext == \E k \in Kinds : ReadNext(k)

-----------------------------------------------------------------------------
(* Correctness.                                                            *)

\* No read passes the end of the buffer, whatever lengths and counts the
\* bytes announce.
InBounds == off \in last.from .. Len(buf)

\* A value that was read is exactly what the bytes it was read from say:
\* serializing it gives them back, and size() is their number.  So what one
\* program writes with a size in front the other reads, to the last byte.
\* And no read, failed or not, leaves the buffer.
Canonical ==
  /\ InBounds
  /\ last.kind.form # "none" /\ last.ok =>
       /\ Writes(last.kind, last.val) = SubSeq(buf, last.from + 1, off)
       /\ SizeOf(last.kind, last.val) = off - last.from

\* The largest number, and more bytes than any value needs: every count is
\* a number, every item has at most 7 fields and one string may be cut off.
MaxNumber == Value([i \in 1 .. Word |-> Base - 1])
Padding == [i \in 1 .. 8 * Word * (1 + MaxNumber + ArrayLen) |-> 0]

\* A read fails only when the value goes on beyond the end of the buffer:
\* with the bytes that are missing (any: here zeros) it would be read, and
\* end after the buffer; and a read that succeeds does not look at them.
FailsOnlyWhenShort ==
  last.kind.form # "none" =>
    LET more == Reads(last.kind, buf \o Padding, last.from)
    IN IF last.ok THEN more = [ok |-> TRUE, off |-> off, val |-> last.val]
       ELSE more.ok /\ more.off > Len(buf)
=============================================================================
