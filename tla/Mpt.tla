-------------------------------- MODULE Mpt --------------------------------
(***************************************************************************)
(* The contract's verifier of Merkle-Patricia proofs (contract/mpt).       *)
(*                                                                         *)
(* A node is its RLP item, kept as a tree: reading it back from bytes is   *)
(* what module Codec is about.  Of a string only its size is kept, and     *)
(* what it stands for: the path of a short node, a proven value, or the    *)
(* hash of another node.  Keccak is injective, so a hash is the node it is *)
(* of.                                                                     *)
(***************************************************************************)
EXTENDS Rlp

CONSTANTS
    MaxProofNodes,  \* MaxProofNodes
    HashSize        \* hashSize, 32

ASSUME MptAssumption == MaxProofNodes \in Nat /\ HashSize \in Nat \ {0}

(***************************************************************************)
(* Nodes as items.                                                         *)
(***************************************************************************)
EmptyString ==
    [isList |-> FALSE, size |-> 0, path |-> << >>, value |-> << >>, hashOf |-> << >>,
     children |-> << >>]
PathString(bytes) == [EmptyString EXCEPT !.size = Len(bytes), !.path = bytes]
\* A value has at least two bytes.
ValueString(v) == [EmptyString EXCEPT !.size = v.size, !.value = <<v>>]
HashString(node) == [EmptyString EXCEPT !.size = HashSize, !.hashOf = <<node>>]

\* The size of an item's encoding.
EncodedSize(item) ==
    IF item.size = 1 /\ item.path # << >> /\ item.path[1] <= 127 THEN 1
    ELSE Len(encodeLength(item.size, 0)) + item.size

NodeList(children) ==
    LET size[n \in 0..Len(children)] ==
            IF n = 0 THEN 0 ELSE size[n - 1] + EncodedSize(children[n])
    IN  [EmptyString EXCEPT
            !.isList = TRUE, !.size = size[Len(children)], !.children = children]

\* An item that decodes: nothing in it is nested too deep, no string oversized.
Readable(item) ==
    LET level[n \in 0..MaxDepth + 1] ==    \* the items n deep
            IF n = 0 THEN {item} ELSE UNION {ToSet(i.children) : i \in level[n - 1]}
    IN  /\ level[MaxDepth + 1] = {}
        /\ \A n \in 0..MaxDepth : \A i \in level[n] : i.isList \/ i.size <= MaxItemSize

(***************************************************************************)
(* Paths: nibbles, with a 16 at the end of a whole key.                    *)
(***************************************************************************)
Nibbles(bytes) ==
    [i \in 1..2 * Len(bytes) |->
        LET byte == bytes[(i + 1) \div 2] IN IF i % 2 = 1 THEN byte \div 16 ELSE byte % 16]

keybytesToHex(bytes) == Append(Nibbles(bytes), 16)

compactToHex(compact) ==
    IF compact = << >> THEN << >>
    ELSE LET base == keybytesToHex(compact)
             kept == IF base[1] < 2 THEN Front(base) ELSE base
         IN  SubSeq(kept, 3 - (base[1] % 2), Len(kept))

hasTerm(path) == path # << >> /\ Last(path) = 16

(***************************************************************************)
(* decodeNode, decodeShort, decodeFull and decodeRef accept a node if it   *)
(* and all the nodes embedded in it are in shape.                          *)
(***************************************************************************)
IsLeaf(item) == Len(item.children) = 2 /\ hasTerm(compactToHex(item.children[1].path))

\* What decodeRef is asked to read of a node.
Refs(item) ==
    IF IsLeaf(item) THEN {}
    ELSE {item.children[i] : i \in IF Len(item.children) = 2 THEN {2}
                                   ELSE DOMAIN item.children \ {17}}

InShape(item) ==
    IF item.isList THEN Len(item.children) \in {2, 17} ELSE item.size \in {0, HashSize}

DecodesToNode(item) ==
    LET embedded[n \in 0..MaxDepth] ==     \* the references n deep
            IF n = 0 THEN {item} ELSE UNION {Refs(i) : i \in embedded[n - 1]}
    IN  item.isList /\ \A n \in 0..MaxDepth : \A i \in embedded[n] : InShape(i)

(***************************************************************************)
(* get: the loop within one node and the nodes embedded in it.  It ends    *)
(* nowhere, at a hash with some of the key left, or at a value.            *)
(***************************************************************************)
At(found, item, rest) == [found |-> found, item |-> item, rest |-> rest]
Nowhere == At("nothing", EmptyString, << >>)

Short(item, key) ==
    LET path == compactToHex(item.children[1].path)
    IN  IF ~IsPrefix(path, key) THEN Nowhere
        ELSE At(IF hasTerm(path) THEN "value" ELSE "node",
                item.children[2], SubSeq(key, Len(path) + 1, Len(key)))

Full(item, key) ==
    IF key = << >> \/ Head(key) = 16
    THEN IF item.children[17].size = 0 THEN Nowhere ELSE At("value", item.children[17], << >>)
    ELSE At("node", item.children[Head(key) + 1], Tail(key))

\* One turn of the loop.
Turn(at) ==
    IF at.found # "node" THEN at
    ELSE IF at.item.isList
    THEN IF Len(at.item.children) = 2 THEN Short(at.item, at.rest) ELSE Full(at.item, at.rest)
    ELSE IF at.item.size = HashSize THEN At("hash", at.item, at.rest) ELSE Nowhere

\* Each turn goes a level down.
get(item, key) ==
    LET at[n \in 0..MaxDepth + 1] ==
            IF n = 0 THEN At("node", item, key) ELSE Turn(at[n - 1])
    IN  at[MaxDepth + 1]

(***************************************************************************)
(* VerifyProof: from the root, hash by hash, through the nodes of the      *)
(* proof.  It answers the value, or nothing.                               *)
(***************************************************************************)
\* mutant: a node too short to be hashed stands for whatever hash is asked for
newProofDBShort(nodes, hash) ==
    {n \in ToSet(nodes) : hash.hashOf = <<n>> \/ EncodedSize(n) < HashSize}

\* The nodes of the proof with that hash.
newProofDB(nodes, hash) == {n \in ToSet(nodes) : hash.hashOf = <<n>>}

\* One turn of the loop.
Fetch(nodes, at) ==
    LET found == newProofDB(nodes, at.item)
        node == CHOOSE n \in found : TRUE
    IN  IF at.found # "hash" THEN at
        ELSE IF found = {} \/ ~DecodesToNode(node) THEN Nowhere
        ELSE get(node, at.rest)

\* The loop counts from 0 and stops after MaxProofNodes + 1.
VerifyProof(root, key, nodes) ==
    LET at[n \in 0..MaxProofNodes + 2] ==
            IF n = 0 THEN At("hash", HashString(root), keybytesToHex(key))
            ELSE Fetch(nodes, at[n - 1])
        end == at[MaxProofNodes + 2]
    IN  IF Len(nodes) \in 1..MaxProofNodes /\ end.found = "value" THEN end.item.value
        ELSE << >>

\* splitProofNodes keeps the nodes before the first that does not decode.
NodesRead(nodes) ==
    SubSeq(nodes, 1, CHOOSE n \in 0..Len(nodes) :
                         /\ \A i \in 1..n : Readable(nodes[i])
                         /\ n < Len(nodes) => ~Readable(nodes[n + 1]))

\* The key of a transaction or receipt in its trie.
RLPEncodeKey(index) == EncodeUint64(index)
=============================================================================
