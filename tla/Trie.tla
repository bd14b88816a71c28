-------------------------------- MODULE Trie --------------------------------
(***************************************************************************)
(* The monitor's construction of a block's trie and of the proofs in it    *)
(* (monitor/trie.go, monitor/receipt.go).  keys and values are functions   *)
(* of the same positions; of selects those a node is built from.           *)
(*                                                                         *)
(* A node never changes once it is built: what its encode method returns   *)
(* is kept with it.                                                        *)
(***************************************************************************)
EXTENDS Mpt

(***************************************************************************)
(* Encoding: a child shorter than a hash is embedded.                      *)
(***************************************************************************)
nibblesToCompact(nibbles, isLeaf) ==
    LET odd == Len(nibbles) % 2
        flags == (IF isLeaf THEN 2 ELSE 0) + odd
        all == (IF odd = 1 THEN <<flags>> ELSE <<flags, 0>>) \o nibbles
    IN  [i \in 1..Len(all) \div 2 |-> all[2 * i - 1] * 16 + all[2 * i]]

\* mutant: a child as long as a hash is embedded as well
RefUpTo(item) == IF EncodedSize(item) <= HashSize THEN item ELSE HashString(item)

Ref(item) == IF EncodedSize(item) < HashSize THEN item ELSE HashString(item)

Leaf(path, v) ==
    [kind |-> "leaf", path |-> path, value |-> v,
     encoding |-> NodeList(<<PathString(nibblesToCompact(path, TRUE)), ValueString(v)>>)]

Extension(path, child) ==
    [kind |-> "extension", path |-> path, child |-> child,
     encoding |-> NodeList(<<PathString(nibblesToCompact(path, FALSE)), Ref(child.encoding)>>)]

\* v is empty or holds the value.
Branch(children, v) ==
    [kind |-> "branch", children |-> children, value |-> v,
     encoding |-> NodeList([i \in 1..17 |->
         IF i - 1 \in DOMAIN children THEN Ref(children[i - 1].encoding)
         ELSE IF i = 17 /\ v # {} THEN ValueString(CHOOSE w \in v : TRUE)
         ELSE EmptyString])]

encode(node) == node.encoding

(***************************************************************************)
(* BuildTrie.                                                              *)
(***************************************************************************)
\* How many nibbles from depth on all the keys share.
commonPrefixLen(keys, of, depth) ==
    LET first == keys[CHOOSE i \in of : TRUE]
    IN  Max({0} \cup {n \in 1..Len(first) - depth :
                 \A i \in of : /\ Len(keys[i]) >= depth + n
                               /\ \A d \in 1..n : keys[i][depth + d] = first[depth + d]})

\* The node of some keys at a depth; node has those further down.
buildNode(keys, values, of, depth, node) ==
    LET first == CHOOSE i \in of : TRUE
        common == commonPrefixLen(keys, of, depth)
        under(nibble) == {i \in of : depth < Len(keys[i]) /\ keys[i][depth + 1] = nibble}
    IN  IF Cardinality(of) = 1
        THEN Leaf(SubSeq(keys[first], depth + 1, Len(keys[first])), values[first])
        ELSE IF common > 0
        THEN Extension(SubSeq(keys[first], depth + 1, depth + common),
                       node[<<of, depth + common>>])
        ELSE Branch([nibble \in {n \in 0..15 : under(n) # {}} |->
                        node[<<under(nibble), depth + 1>>]],
                    {values[i] : i \in {j \in of : Len(keys[j]) = depth}})

BuildTrie(keys, values) ==
    LET paths == [i \in DOMAIN keys |-> Nibbles(keys[i])]
        node[at \in ((SUBSET DOMAIN keys) \ {{}}) \X Nat] ==
            buildNode(paths, values, at[1], at[2], node)
    IN  node[<<DOMAIN keys, 0>>]

(***************************************************************************)
(* GenerateProof: the nodes met on the way down, embedded ones included.   *)
(***************************************************************************)
\* The node collectProof calls itself for, if there is one, and its depth.
Child(at, nibbles) ==
    CASE at.node.kind = "leaf" -> << >>
      [] at.node.kind = "extension" ->
             <<[node |-> at.node.child, depth |-> at.depth + Len(at.node.path)]>>
      [] at.node.kind = "branch" ->
             IF at.depth < Len(nibbles) /\ nibbles[at.depth + 1] \in DOMAIN at.node.children
             THEN <<[node |-> at.node.children[nibbles[at.depth + 1]], depth |-> at.depth + 1]>>
             ELSE << >>

Deeper(met, nibbles) == met \o Child(Last(met), nibbles)

\* Each call is at least one nibble deeper.
collectProof(root, nibbles) ==
    LET met[n \in 0..Len(nibbles)] ==
            IF n = 0 THEN <<[node |-> root, depth |-> 0]>> ELSE Deeper(met[n - 1], nibbles)
        all == met[Len(nibbles)]
    IN  [k \in DOMAIN all |-> encode(all[k].node)]

GenerateProof(trie, key) == collectProof(trie, Nibbles(key))

\* BuildTxProof and BuildReceiptProof: position i of the block is keyed i - 1.
\* An index outside the block has no proof.
TrieOf(values) == BuildTrie([i \in DOMAIN values |-> EncodeUint64(i - 1)], values)
BuildProof(values, index) ==
    IF index + 1 \in DOMAIN values THEN GenerateProof(TrieOf(values), EncodeUint64(index))
    ELSE << >>
=============================================================================
