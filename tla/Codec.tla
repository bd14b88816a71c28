------------------------------- MODULE Codec -------------------------------
(***************************************************************************)
(* The RLP decoder (contract/rlp/decode.go) over byte strings and the      *)
(* reader of joined proof nodes (contract/mapping/proof.go), with what     *)
(* the contract takes from the codec: the proof code decodes bytes, and    *)
(* hashes the encoding of what it decoded, as if the two were inverse to   *)
(* each other.  Offsets are the code's, from 0.                            *)
(*                                                                         *)
(* Lengths are kept in an int of IntBytes bytes, which wraps.  Every error *)
(* is one outcome, Malformed: the callers do not tell errors apart.        *)
(***************************************************************************)
EXTENDS Rlp

CONSTANTS
    IntBytes,       \* bytes of an int: 4 in the contract, 8 in the monitor
    Items,          \* bound of this instance: items, within the limits or not
    ByteStrings     \* bound of this instance: strings to decode, well formed or not

ASSUME CodecAssumption ==
    IntBytes \in 1..2       \* TLC's integers hold the product of two such ints

VARIABLE input      \* what the codec is given, nothing more happens to it

Malformed == [ok |-> FALSE, item |-> String(<< >>), end |-> 0]
Decoded(item, end) == [ok |-> TRUE, item |-> item, end |-> end]

(***************************************************************************)
(* Decoding.                                                               *)
(***************************************************************************)
\* The value an int holds after wrapping.
ToInt(n) == LET half == 128 * 256^(IntBytes - 1) IN ((n + half) % (2 * half)) - half

decodeLength(field) == FoldLeft(LAMBDA n, b : ToInt(n * 256 + b), 0, field)

\* What the byte at offset announces: the payload starts at start.
Header(data, offset) ==
    LET prefix == data[offset + 1]
        base == IF prefix < 192 THEN 128 ELSE 192
        lenLen == IF prefix - base > ShortMax THEN prefix - base - ShortMax ELSE 0
        start == offset + 1 + lenLen
        field == IF start <= Len(data) THEN SubSeq(data, offset + 2, start) ELSE << >>
    IN  [isList |-> base = 192, start |-> start, field |-> field,
         length |-> IF lenLen = 0 THEN prefix - base ELSE decodeLength(field)]

End(header) == ToInt(header.start + header.length)

\* mutant: a length field may begin with a zero
CanonicalLengthPadded(header) ==
    header.field # << >> => header.length > ShortMax

\* A length field is no longer than it must be.
CanonicalLength(header) ==
    header.field # << >> => header.length > ShortMax /\ header.field[1] # 0

WellAnnounced(data, header) ==
    /\ header.start <= Len(data)
    /\ CanonicalLength(header)
    /\ End(header) <= Len(data)

decodeString(data, header) ==
    LET bytes == SubSeq(data, header.start + 1, End(header))
    IN  IF \/ header.length > MaxItemSize
           \/ header.length = 1 /\ bytes[1] <= 127
        THEN Malformed
        ELSE Decoded(String(bytes), End(header))

RECURSIVE decodeItem(_, _, _), decodeChildren(_, _, _, _)
decodeItem(data, offset, depth) ==
    IF depth > MaxDepth \/ offset >= Len(data) THEN Malformed
    ELSE IF data[offset + 1] <= 127
    THEN Decoded(String(<<data[offset + 1]>>), offset + 1)
    ELSE LET header == Header(data, offset)
         IN  IF ~WellAnnounced(data, header) THEN Malformed
             ELSE IF header.isList
             THEN LET kids == decodeChildren(data, header.start, End(header), depth + 1)
                  IN  IF kids.ok THEN Decoded(List(kids.items), End(header)) ELSE Malformed
             ELSE decodeString(data, header)

\* The items from pos on; they must end at end exactly.
decodeChildren(data, pos, end, depth) ==
    IF pos >= end THEN [ok |-> pos = end, items |-> << >>]
    ELSE LET child == decodeItem(data, pos, depth)
             rest == decodeChildren(data, child.end, end, depth)
         IN  IF child.ok /\ rest.ok
             THEN [ok |-> TRUE, items |-> <<child.item>> \o rest.items]
             ELSE [ok |-> FALSE, items |-> << >>]

Decode(data) == decodeItem(data, 0, 0)

\* DecodeList: the bytes after the list are not looked at.
DecodesToList(data) == Decode(data).ok /\ Decode(data).item.isList

\* A proof arrives as its nodes joined into one string; what does not decode
\* ends the list of nodes.
RECURSIVE splitProofNodes(_)
splitProofNodes(data) ==
    IF data = << >> \/ ~Decode(data).ok THEN << >>
    ELSE LET end == Decode(data).end
         IN  <<SubSeq(data, 1, end)>> \o splitProofNodes(SubSeq(data, end + 1, Len(data)))

(***************************************************************************)
(* Properties.                                                             *)
(***************************************************************************)
Nothing == [kind |-> "nothing"]
Given ==
    {[kind |-> "item", item |-> item] : item \in Items}
    \cup {[kind |-> "bytes", bytes |-> bytes] : bytes \in ByteStrings}

RECURSIVE Within(_, _)
\* No string of the item is oversized and no list is nested too deep.
Within(item, depth) ==
    /\ depth <= MaxDepth
    /\ IF item.isList
       THEN \A i \in DOMAIN item.children : Within(item.children[i], depth + 1)
       ELSE Len(item.data) <= MaxItemSize

\* A length field that does not fit an int is read modulo 2^(8*IntBytes).
WideField(data) ==
    \E i \in DOMAIN data :
        data[i] \in (128 + ShortMax + IntBytes + 1)..191
                \cup (192 + ShortMax + IntBytes + 1)..255

\* An item is read back from its encoding exactly if it is within the limits,
\* and split from the nodes that follow it in a proof.
RoundTrip(item) ==
    LET encoded == reencodeItem(item)
    IN  /\ Decode(encoded) = IF Within(item, 0) THEN Decoded(item, Len(encoded)) ELSE Malformed
        /\ Within(item, 0) =>
               \A next \in {encoded, <<128>>, <<192>>, <<5>>} :
                   splitProofNodes(encoded \o next) = <<encoded, next>>

\* Bytes whose length fields fit an int have one reading: what is read from
\* them encodes to them.
Canonical(bytes) ==
    LET decoded == Decode(bytes)
    IN  decoded.ok /\ ~WideField(bytes)
            => reencodeItem(decoded.item) = SubSeq(bytes, 1, decoded.end)

\* Decoding and encoding are inverse to each other within the limits, so a hash
\* taken of a re-encoded item is the hash of the bytes it came in.
DecodeInvertsEncode ==
    /\ input.kind = "item" => RoundTrip(input.item)
    /\ input.kind = "bytes" => Canonical(input.bytes)
=============================================================================
