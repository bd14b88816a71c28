----------------------------- MODULE ProofRelay -----------------------------
(***************************************************************************)
(* The monitor builds a proof that a transaction or receipt is in a block  *)
(* (monitor/receipt.go) and submits it with the bytes it proves; a caller  *)
(* of map may submit it changed.                                           *)
(***************************************************************************)
EXTENDS Evidence, Trie

CONSTANTS
    Unmined,        \* transactions that no block holds
    Positions,      \* bound of this instance: the indices asked for
    Altered,        \* bound of this instance: the blocks whose evidence callers change
    MaxChanges      \* bound of this instance: how often they change it

\* The key of an index has at most nine bytes, 18 nibbles: the limits of the
\* verifier (20 nodes, 20 levels, strings of 64 KiB, hashes of 32 bytes) leave
\* room for the nodes on such a path and for a hash.
KeyNibbles == 18

ASSUME RelayAssumption ==
    /\ Positions \subseteq 0..Word - 1
    /\ MaxProofNodes > KeyNibbles
    /\ MaxDepth > KeyNibbles
    /\ MaxItemSize >= HashSize
    /\ HashSize > KeyNibbles

VARIABLE changes    \* how often the message was changed on the way

vars == <<block, header, message, changes>>

Init ==
    /\ block \in Blocks
    /\ header = RootsOf(block)
    /\ message = NoMessage
    /\ changes = 0

\* BuildTxProof over the raw bytes the node reports, or over the encoding of
\* its JSON fields where those are missing.
ProveTx ==
    /\ message = NoMessage
    /\ \E index \in Positions, reported \in BOOLEAN :
           LET raws == [i \in DOMAIN block |->
                           IF reported THEN L1Raw(block[i].tx) ELSE EncodeTx(block[i].tx)]
           IN  /\ index + 1 \in DOMAIN block
               /\ message' = [kind |-> "eth", index |-> index, log |-> 0,
                              raw |-> raws[index + 1], nodes |-> BuildProof(raws, index)]
    /\ UNCHANGED <<block, header, changes>>

ProveReceipt ==
    /\ message = NoMessage
    /\ \E index \in Positions, log \in 0..2 :
           LET raws == [i \in DOMAIN block |-> EncodeReceipt(block[i].receipt)]
           IN  /\ index + 1 \in DOMAIN block
               /\ message' = [kind |-> "erc20", index |-> index, log |-> log,
                              raw |-> raws[index + 1], nodes |-> BuildProof(raws, index)]
    /\ UNCHANGED <<block, header, changes>>

\* External: what a caller may submit instead.
Change(m) ==
    /\ message # NoMessage
    /\ block \in Altered
    /\ changes < MaxChanges
    /\ message' = m
    /\ changes' = changes + 1
    /\ UNCHANGED <<block, header>>

LoseNode == \E k \in DOMAIN message.nodes :
    Change([message EXCEPT !.nodes = RemoveAt(message.nodes, k)])

ReorderNodes ==
    /\ message.nodes # Reverse(message.nodes)
    /\ Change([message EXCEPT !.nodes = Reverse(message.nodes)])

\* A leaf for another transaction takes the place of a node.
ForeignNode == \E k \in DOMAIN message.nodes, tx \in Unmined :
    Change([message EXCEPT
        !.nodes = ReplaceAt(message.nodes, k,
            encode(Leaf(Nibbles(RLPEncodeKey(message.index)), L1Raw(tx))))])

ForeignRaw == \E tx \in Unmined : Change([message EXCEPT !.raw = L1Raw(tx)])

OtherIndex == \E index \in Positions \ {message.index} :
    Change([message EXCEPT !.index = index])

Next ==
    \/ ProveTx \/ ProveReceipt
    \/ LoseNode \/ ReorderNodes \/ ForeignNode \/ ForeignRaw \/ OtherIndex

Spec == Init /\ [][Next]_vars

(***************************************************************************)
(* Properties.                                                             *)
(***************************************************************************)
\* What the monitor submits for a deposit in the block is accepted, and read as
\* what L1 saw: the sender and the amount.  It relates the monitor's trie and
\* encodings to the contract's walk, parser and signature hash: odd and even
\* paths, embedded nodes, the keys 0 and 128, numbers with leading zeros.
ProvedIsAccepted ==
    message # NoMessage /\ changes = 0 /\ IsDeposit(block[message.index + 1], message)
        => Verify(message) = <<PaidBy(block[message.index + 1], message)>>
=============================================================================
