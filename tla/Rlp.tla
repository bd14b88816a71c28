-------------------------------- MODULE Rlp --------------------------------
(***************************************************************************)
(* The RLP encoder (contract/rlp/encode.go) over byte strings, and the     *)
(* items it encodes.  A byte string is a sequence of 0..255, an item a     *)
(* byte string or a list of items.  Decoding is module Codec.              *)
(***************************************************************************)
EXTENDS Integers, Sequences, SequencesExt

CONSTANTS
    MaxDepth,       \* maxDepth
    MaxItemSize     \* maxItemSize, of a string

ASSUME RlpAssumption ==
    /\ MaxDepth \in Nat
    /\ MaxItemSize \in Nat

Byte == 0..255
\* The longest string and list that announce their length in the first byte.
ShortMax == 55

String(data) == [isList |-> FALSE, data |-> data, children |-> << >>]
List(children) == [isList |-> TRUE, data |-> << >>, children |-> children]

\* The bytes of a number, without leading zeros.
bigEndianUint64(v) ==
    LET bytes[n \in 0..v] == IF n = 0 THEN << >> ELSE Append(bytes[n \div 256], n % 256)
    IN  bytes[v]

encodeLength(length, offset) ==
    IF length <= ShortMax THEN <<offset + length>>
    ELSE LET bytes == bigEndianUint64(length)
         IN  <<offset + ShortMax + Len(bytes)>> \o bytes

EncodeBytes(b) ==
    IF Len(b) = 1 /\ b[1] <= 127 THEN b ELSE encodeLength(Len(b), 128) \o b

EncodeUint64(v) == EncodeBytes(bigEndianUint64(v))

\* items are encoded already
EncodeList(items) ==
    LET payload == FlattenSeq(items) IN encodeLength(Len(payload), 192) \o payload

\* The item that a path of child positions leads to.
ItemAt(item, path) == FoldLeft(LAMBDA parent, i : parent.children[i], item, path)

reencodeItem(item) ==
    LET bytes[path \in Seq(Nat)] ==
            LET at == ItemAt(item, path)
            IN  IF at.isList
                THEN EncodeList([i \in DOMAIN at.children |-> bytes[Append(path, i)]])
                ELSE EncodeBytes(at.data)
    IN  bytes[<< >>]
=============================================================================
