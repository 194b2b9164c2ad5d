----------------------------- MODULE ValueCodec -----------------------------
(***************************************************************************)
(* The store value encoding of store/CStoreImpl.c.                         *)
(*                                                                         *)
(* A c_store_value_t is a size and a byte array value[0 .. size): value[0] *)
(* is the type tag, the rest is a big-endian number, or for strings, byte  *)
(* arrays and states a chain of blocks, each a two-byte length and that    *)
(* many bytes, ended by a zero length.  The array is modelled as the map   *)
(* of the writes made to it: a position holds a byte, or the start of a    *)
(* memcpy of n payload bytes (src names the payload, lo the first of its   *)
(* bytes).  Positions never written read as zero (CStore_allocate zeroes). *)
(* Writes past the allocation land, as they do in malloc's slack; whether  *)
(* there are any is a property.                                            *)
(*                                                                         *)
(* TLC's integers are 32 bits, so LONG, DOUBLE and FLOAT (which go through *)
(* the same shifts on 64 bits) are not encoded here.                       *)
(***************************************************************************)
EXTENDS Integers, Sequences, FiniteSets, SequencesExt, TLC

CONSTANTS
    MAX_BYTES_BLOCK,    \* the block limit, 65534 in the code
    Lengths,            \* lengths of the string, byte array and state name payloads
    CodeLengths,        \* lengths of the state code's "%li" text; 0 is a NULL code
    Numbers             \* candidate numbers for the numeric types

VARIABLES
    storeValue,     \* the value built last: type tag, size, writes
    input,          \* what it was built from
    result          \* what the last valueTo* call returned

vars == <<storeValue, input, result>>

\* CStoreImpl.h value_type tags.
VALUE_TYPE_NULL == "NULL"
VALUE_TYPE_BOOLEAN == "z"
VALUE_TYPE_SHORT == "s"
VALUE_TYPE_STRING == "t"
VALUE_TYPE_BYTE_ARRAY == "a"
VALUE_TYPE_INTEGER == "i"
VALUE_TYPE_CHARACTER == "c"
VALUE_TYPE_BYTE == "b"
VALUE_TYPE_STATE == "q"

\* Widths in bytes (a CHARACTER keeps one byte: number.byteValue) and the
\* ranges of the jboolean, jbyte, jchar, jshort and jint arguments.
Width == [t \in {"z", "s", "i", "c", "b"} |->
            CASE t = "s" -> 2 [] t = "i" -> 4 [] OTHER -> 1]
ArgRange(t) ==
    CASE t = "z" -> 0..1
      [] t = "b" -> -128..127
      [] t = "c" -> 0..65535
      [] t = "s" -> -32768..32767
      [] OTHER -> Int

Byte(b) == [k |-> "byte", b |-> b]
Data(src, lo, n) == [k |-> "data", src |-> src, lo |-> lo, n |-> n]
Seg(src, lo, n) == [src |-> src, lo |-> lo, n |-> n]
Corrupt == Seg("corrupt", 0, 0)

\* Mutant: the shifted number stored without truncating it to a byte.
ShiftByteUnmasked(x, sh) == x \div 2^(8 * sh)

\* The bytes (x >> 8*sh) & 0xFF, on the two's complement of x.
ShiftByte(x, sh) == (x \div 2^(8 * sh)) % 256

Extent(W, p) == IF W[p].k = "data" THEN W[p].n ELSE 1

\* A read of value[p]: a written byte, or a byte no header can be (-1)
\* inside a payload, or the zero the allocation was filled with.
ByteAt(W, p) ==
    IF p \in DOMAIN W
    THEN IF W[p].k = "byte" THEN W[p].b ELSE -1
    ELSE IF \E q \in DOMAIN W : q < p /\ p < q + Extent(W, q) THEN -1 ELSE 0

\* Mutant: no room for the end marker.
_splitLengthNoPad(joinedLength) ==
    joinedLength + (joinedLength \div MAX_BYTES_BLOCK + 1) * 2

_splitLength(joinedLength) ==
    LET length == joinedLength + (joinedLength \div MAX_BYTES_BLOCK + 1) * 2
    IN IF length % MAX_BYTES_BLOCK # 0 THEN length + 2 ELSE length

\* The loop of _splitValue from value[pos] on, rem payload bytes left from lo.
RECURSIVE SplitBlocks(_, _, _, _)
SplitBlocks(src, lo, rem, pos) ==
    LET length == IF rem > MAX_BYTES_BLOCK THEN MAX_BYTES_BLOCK ELSE rem
        header == (pos :> Byte(ShiftByte(length, 1))) @@ (pos + 1 :> Byte(length % 256))
    IN IF length = 0 THEN header
       ELSE header @@ (pos + 2 :> Data(src, lo, length))
                   @@ SplitBlocks(src, lo + length, rem - length, pos + 2 + length)

\* _splitValue(value, valueLength, storeValue, offset): its writes win.
_splitValue(src, valueLength, W, offset) ==
    SplitBlocks(src, 0, valueLength, 1 + offset) @@ W

\* The loop of _joinValue from value[pos]: the payload runs it copies.
RECURSIVE JoinFrom(_, _, _)
JoinFrom(W, pos, fuel) ==
    LET hi == ByteAt(W, pos)
        lo == ByteAt(W, pos + 1)
        length == hi * 256 + lo
    IN CASE fuel = 0 \/ hi < 0 \/ lo < 0 -> <<Corrupt>>
         [] length = 0 -> <<>>
         [] pos + 2 \in DOMAIN W /\ W[pos + 2].k = "data" /\ W[pos + 2].n >= length ->
                <<Seg(W[pos + 2].src, W[pos + 2].lo, length)>>
                    \o JoinFrom(W, pos + 2 + length, fuel - 1)
         [] OTHER -> <<Corrupt>>

_joinValue(W) == JoinFrom(W, 1, Cardinality(DOMAIN W))

_joinedValueLength(W) == FoldSeq(LAMBDA s, acc : acc + s.n, 0, _joinValue(W))

\* Adjacent runs of one payload read as one.
RECURSIVE Merge(_)
Merge(s) ==
    IF Len(s) < 2 THEN s
    ELSE IF s[1].src = s[2].src /\ s[2].lo = s[1].lo + s[1].n
         THEN Merge(<<[s[1] EXCEPT !.n = @ + s[2].n]>> \o Tail(Tail(s)))
         ELSE <<s[1]>> \o Merge(Tail(s))
NoName == -1    \* a state value built with a NULL bytes argument

\* CStore_getValueType: an empty value is NULL whatever its tag byte.
CStore_getValueType(v) == IF v.size # 0 THEN v.type ELSE VALUE_TYPE_NULL

Init ==
    /\ storeValue = [type |-> VALUE_TYPE_NULL, size |-> 0, W |-> <<>>]
    /\ input = [type |-> VALUE_TYPE_NULL]
    /\ result = [op |-> "none"]

(***************************************************************************)
(* CStore_newValue, one action per group of cases of its two switches: the *)
(* first computes valueLength, the second fills value[1 ..].              *)
(***************************************************************************)
NewNumber(type, x) ==
    LET w == Width[type]
    IN /\ storeValue' = [type |-> type, size |-> 1 + w,
                         W |-> [i \in 1..w |-> Byte(ShiftByte(x, w - i))]]
       /\ input' = [type |-> type, x |-> x]

NewBytes(type, length) ==
    /\ storeValue' = [type |-> type, size |-> 1 + _splitLength(length),
                      W |-> _splitValue("bytes", length, <<>>, 0)]
    /\ input' = [type |-> type, length |-> length]

\* A state: the "%li" text of the code, then ':' when bytes are given, then
\* the bytes split on from the text's end marker.
NewState(codeLength, nameLength) ==
    LET hasName == nameLength # NoName
        textLength == IF hasName THEN codeLength + 1 ELSE codeLength
        bytesLength == IF hasName THEN nameLength ELSE 0
        valueLength == 1 + _splitLength(codeLength)
                         + (IF hasName THEN 1 + _splitLength(nameLength) - 2 ELSE 0)
        text == _splitValue("text", textLength, <<>>, 0)
    IN /\ storeValue' = [type |-> VALUE_TYPE_STATE, size |-> valueLength,
                         W |-> IF hasName
                               THEN _splitValue("bytes", bytesLength, text,
                                                _splitLength(textLength) - 2)
                               ELSE text]
       /\ input' = [type |-> VALUE_TYPE_STATE, text |-> textLength,
                    code |-> codeLength, name |-> nameLength]

NewNull ==
    /\ storeValue' = [type |-> VALUE_TYPE_NULL, size |-> 0, W |-> <<>>]
    /\ input' = [type |-> VALUE_TYPE_NULL]

CStore_newValue ==
    /\ \/ \E t \in DOMAIN Width, x \in Numbers : x \in ArgRange(t) /\ NewNumber(t, x)
       \/ \E t \in {VALUE_TYPE_STRING, VALUE_TYPE_BYTE_ARRAY}, n \in Lengths :
              NewBytes(t, n)
       \/ \E c \in CodeLengths, n \in Lengths \cup {NoName} : NewState(c, n)
       \/ NewNull
    /\ result' = [op |-> "none"]

Signed(u, bits) == IF u >= 2^(bits - 1) THEN u - 2^bits ELSE u
B(i) == ByteAt(storeValue.W, i)

(***************************************************************************)
(* CStore_valueToLong.  value[1] << 24 is an int shift: the build wraps it *)
(* into the sign bit, and the assignment sign-extends it.  The SHORT case  *)
(* has no such shift, so its bytes read as an unsigned 16-bit number.      *)
(* jbyte is signed.  A string parses or not (its text is opaque here, and *)
(* the number it gives is drawn from Numbers).                             *)
(***************************************************************************)
LongOf(t) ==
    CASE t = VALUE_TYPE_INTEGER -> Signed(B(1), 8) * 2^24 + B(2) * 2^16 + B(3) * 2^8 + B(4)
      [] t = VALUE_TYPE_SHORT -> B(1) * 2^8 + B(2)
      [] t = VALUE_TYPE_BYTE -> Signed(B(1), 8)
      [] t = VALUE_TYPE_BOOLEAN -> IF B(1) # 0 THEN 1 ELSE 0

CStore_valueToLong ==
    LET t == CStore_getValueType(storeValue)
    IN /\ IF t \in {VALUE_TYPE_INTEGER, VALUE_TYPE_SHORT, VALUE_TYPE_BYTE, VALUE_TYPE_BOOLEAN}
          THEN result' = [op |-> "long", ok |-> TRUE, val |-> LongOf(t)]
          ELSE IF t = VALUE_TYPE_STRING
          THEN \E ok \in BOOLEAN, v \in Numbers : result' = [op |-> "long", ok |-> ok, val |-> v]
          ELSE result' = [op |-> "long", ok |-> FALSE, val |-> 0]
       /\ UNCHANGED <<storeValue, input>>

(***************************************************************************)
(* CStore_valueToDouble of an INTEGER, SHORT or BYTE: the converted long   *)
(* is stored, then the case breaks out of the switch and the common tail   *)
(* stores number.doubleValue, which nothing in that path assigned: any    *)
(* bit pattern, drawn here from Numbers.                                   *)
(***************************************************************************)
CStore_valueToDouble ==
    LET t == CStore_getValueType(storeValue)
    IN /\ IF t \in {VALUE_TYPE_INTEGER, VALUE_TYPE_SHORT, VALUE_TYPE_BYTE}
          THEN \E v \in {LongOf(t)} \cup Numbers :
                  result' = [op |-> "double", ok |-> TRUE, val |-> v]
          ELSE IF t = VALUE_TYPE_STRING
          THEN \E ok \in BOOLEAN, v \in Numbers : result' = [op |-> "double", ok |-> ok, val |-> v]
          ELSE result' = [op |-> "double", ok |-> FALSE, val |-> 0]
       /\ UNCHANGED <<storeValue, input>>

\* Mutant: the joined length taken from storeValue->size.
JoinedUsingSize(op, type) ==
    /\ IF CStore_getValueType(storeValue) = type
       THEN result' = [op |-> op, ok |-> TRUE, val |-> Merge(_joinValue(storeValue.W)),
                       len |-> storeValue.size]
       ELSE result' = [op |-> op, ok |-> FALSE]
    /\ UNCHANGED <<storeValue, input>>

\* CStore_valueToByteArray and CStore_valueToString (_joinedStringValue).
Joined(op, type) ==
    /\ IF CStore_getValueType(storeValue) = type
       THEN result' = [op |-> op, ok |-> TRUE, val |-> Merge(_joinValue(storeValue.W)),
                       len |-> _joinedValueLength(storeValue.W)]
       ELSE result' = [op |-> op, ok |-> FALSE]
    /\ UNCHANGED <<storeValue, input>>

CStore_valueToByteArray == Joined("bytes", VALUE_TYPE_BYTE_ARRAY)

CStore_valueToString == Joined("string", VALUE_TYPE_STRING)

(***************************************************************************)
(* CStore_valueToStateName of a state value: the joined string is         *)
(* allocated with one byte more than its length, and the name is copied   *)
(* from after the colon up to &stateString[storeValue->size].  The code's  *)
(* digits hold no colon, so the colon is the byte after them.  Other types *)
(* go through CStore_valueToString.                                         *)
(***************************************************************************)
CStore_valueToStateName ==
    /\ IF CStore_getValueType(storeValue) = VALUE_TYPE_STATE
       THEN LET joinedLength == _joinedValueLength(storeValue.W)
            IN IF input.name # NoName
               THEN result' = [op |-> "stateName", ok |-> TRUE, named |-> TRUE,
                               from |-> input.code + 1,
                               to |-> storeValue.size,
                               alloc |-> joinedLength + 1]
               ELSE result' = [op |-> "stateName", ok |-> TRUE, named |-> FALSE]
       ELSE Joined("string", VALUE_TYPE_STRING)
    /\ UNCHANGED <<storeValue, input>>

Next ==
    \/ CStore_newValue
    \/ CStore_valueToLong
    \/ CStore_valueToDouble
    \/ CStore_valueToByteArray
    \/ CStore_valueToString
    \/ CStore_valueToStateName

Spec == Init /\ [][Next]_vars
-----------------------------------------------------------------------------
(* Properties. *)

Entry == [k : {"byte"}, b : 0..255] \cup
         [k : {"data"}, src : {"bytes", "text"}, lo : Nat, n : Nat \ {0}]

TypeOK ==
    /\ storeValue.type \in {VALUE_TYPE_NULL, VALUE_TYPE_STATE, VALUE_TYPE_STRING,
                            VALUE_TYPE_BYTE_ARRAY} \cup DOMAIN Width
    /\ storeValue.size \in Nat
    /\ \A p \in DOMAIN storeValue.W : p \in Nat \ {0} /\ storeValue.W[p] \in Entry
    /\ result.op \in {"none", "long", "double", "bytes", "string", "stateName"}

\* The payload runs a value was built from, in order.
Expected(in) ==
    LET runs == IF in.type = VALUE_TYPE_STATE
                THEN <<Seg("text", 0, in.text),
                       Seg("bytes", 0, IF in.name = NoName THEN 0 ELSE in.name)>>
                ELSE <<Seg("bytes", 0, in.length)>>
    IN SelectSeq(runs, LAMBDA r : r.n > 0)

(***************************************************************************)
(* _joinValue of a string or byte array gives back the bytes it was built  *)
(* from, and _joinedValueLength (the size of the buffer it is joined into) *)
(* is their number: the block chain survives lengths around and above      *)
(* MAX_BYTES_BLOCK.                                                        *)
(***************************************************************************)
RoundTrip ==
    result.op \in {"bytes", "string"} /\ result.ok =>
        /\ result.val = Expected(input)
        /\ result.len = input.length

(***************************************************************************)
(* CStore_newValue's ASSERT for a state: the two chains written one after  *)
(* the other join into the text and the name, their lengths adding up.     *)
(***************************************************************************)
StateJoinAsserted ==
    storeValue.type = VALUE_TYPE_STATE =>
        /\ Merge(_joinValue(storeValue.W)) = Expected(input)
        /\ _joinedValueLength(storeValue.W)
               = input.text + (IF input.name = NoName THEN 0 ELSE input.name)

(***************************************************************************)
(* Every byte _splitValue and the number cases write lies inside the      *)
(* valueLength bytes CStore_newValue allocated.                            *)
(***************************************************************************)
SplitFitsAllocation ==
    \A p \in DOMAIN storeValue.W : p + Extent(storeValue.W, p) <= storeValue.size

=============================================================================
