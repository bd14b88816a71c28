------------------------------ MODULE Evidence ------------------------------
(***************************************************************************)
(* The evidence of a deposit from L1 to the contract: what L1 commits to,  *)
(* and how the contract checks a proof against the header it stores and    *)
(* reads who paid how much (contract/mapping/proof.go, VerifyETHDeposit    *)
(* and VerifyERC20Deposit, up to what module Deposits models of them).     *)
(* Whoever calls map may submit anything.  What the monitor submits is     *)
(* module ProofRelay.                                                      *)
(*                                                                         *)
(* External: L1, whose signing rules and tries are stated here after its   *)
(* own specification.                                                      *)
(***************************************************************************)
EXTENDS Transactions

CONSTANTS
    Blocks,         \* L1 blocks, sequences of [tx, receipt]
    ChainId, Vault, Token,
    TransferEventSig

VARIABLES
    block,      \* an L1 block
    header,     \* its roots, in the header the contract stores
    message     \* what is submitted for it

(***************************************************************************)
(* External: the blocks of L1.  An address is AddressSize bytes, r and s   *)
(* fit in SigSize, and the token is an ERC-20: two of the fields of its    *)
(* transfers are indexed.                                                  *)
(***************************************************************************)
Address == [1..AddressSize -> Byte]
IsSequence(s) == s \in Seq(ToSet(s))

IsTransaction(tx) ==
    /\ tx.type \in 0..4
    /\ tx.protected \in BOOLEAN
    /\ {tx.chain, tx.nonce, tx.gasPrice, tx.tipCap, tx.feeCap, tx.gas, tx.value, tx.r, tx.s}
           \subseteq Nat
    /\ tx.to \in Address \cup {<< >>}
    /\ tx.parity \in 0..1
    /\ IsSequence(tx.blob)
    /\ LegacyV(tx) < Word /\ tx.chain < Word
    /\ Len(bigEndianUint64(tx.r)) <= SigSize /\ Len(bigEndianUint64(tx.s)) <= SigSize

IsReceipt(receipt) ==
    /\ IsSequence(receipt.logs)
    /\ \A i \in DOMAIN receipt.logs :
           LET log == receipt.logs[i]
           IN  /\ log.address \in Address
               /\ IsSequence(log.topics)
               /\ log.address = Token /\ log.topics # << >> /\ log.topics[1] = TransferEventSig
                      => Len(log.topics) = 3

ASSUME EvidenceAssumption ==
    /\ ChainId \in Nat \ {0}
    /\ {Vault, Token} \subseteq Address \ {ZeroAddress}
    /\ \A b \in Blocks :
           /\ IsSequence(b) /\ Len(b) <= Word
           /\ \A i \in DOMAIN b : IsTransaction(b[i].tx) /\ IsReceipt(b[i].receipt)

(***************************************************************************)
(* External: what L1 signs, encodes and commits to.                        *)
(***************************************************************************)
SigningPayload(tx) ==
    LET target == <<Number(tx.gas), String(tx.to), Number(tx.value), String(tx.data)>>
    IN  CASE tx.type = 0 ->
                 <<Number(tx.nonce), Number(tx.gasPrice)>> \o target
                 \o (IF tx.protected THEN <<Number(tx.chain), Number(0), Number(0)>> ELSE << >>)
          [] tx.type = 1 ->
                 <<Number(tx.chain), Number(tx.nonce), Number(tx.gasPrice)>> \o target
                 \o <<tx.accessList>>
          [] tx.type \in 2..4 ->
                 <<Number(tx.chain), Number(tx.nonce), Number(tx.tipCap), Number(tx.feeCap)>>
                 \o target \o <<tx.accessList>>
                 \o (IF tx.type = 2 THEN << >> ELSE tx.blob)

L1Raw(tx) ==
    IF tx.type = 0
    THEN Raw(0, SubSeq(SigningPayload(tx), 1, 6)
                \o <<Number(LegacyV(tx)), Number(tx.r), Number(tx.s)>>)
    ELSE Raw(tx.type, SigningPayload(tx) \o <<Number(tx.parity), Number(tx.r), Number(tx.s)>>)

FixedWidth(n) ==
    LET above[k \in 0..SigSize] ==      \* n without its last k bytes
            IF k = 0 THEN n ELSE above[k - 1] \div 256
    IN  [i \in 1..SigSize |-> above[SigSize - i] % 256]
L1Sender(tx) ==
    Ecrecover(Raw(tx.type, SigningPayload(tx)), tx.parity, FixedWidth(tx.r), FixedWidth(tx.s))

\* Hex-prefix encoding.
HexPrefix(x, terminated) ==
    LET t == IF terminated THEN 2 ELSE 0
    IN  IF Len(x) % 2 = 0
        THEN [k \in 1..Len(x) \div 2 + 1 |->
                 IF k = 1 THEN 16 * t ELSE 16 * x[2 * k - 3] + x[2 * k - 2]]
        ELSE [k \in 1..(Len(x) + 1) \div 2 |->
                 IF k = 1 THEN 16 * (t + 1) + x[1] ELSE 16 * x[2 * k - 2] + x[2 * k - 1]]

\* How a node refers to the node of the paths P: not at all, by embedding it, or
\* by its hash.
Reference(P, node) ==
    IF P = {} THEN EmptyString
    ELSE IF EncodedSize(node) < HashSize THEN node ELSE HashString(node)

\* The node for the paths P of J, which agree on the first i nibbles; node has
\* those for longer agreements.
Composed(J, P, i, node) ==
    LET path == CHOOSE p \in P : TRUE
        shared == {n \in i + 1..Len(path) :
                      \A p \in P : Len(p) >= n /\ SubSeq(p, 1, n) = SubSeq(path, 1, n)}
        j == Max(shared)
        below(y) == {p \in P : Len(p) > i /\ p[i + 1] = y}
        ending == {p \in P : Len(p) = i}
    IN  IF Cardinality(P) = 1
        THEN NodeList(<<PathString(HexPrefix(SubSeq(path, i + 1, Len(path)), TRUE)),
                        ValueString(J[path])>>)
        ELSE IF shared # {}
        THEN NodeList(<<PathString(HexPrefix(SubSeq(path, i + 1, j), FALSE)),
                        Reference(P, node[<<P, j>>])>>)
        ELSE NodeList([y \in 1..17 |->
                 IF y <= 16 THEN Reference(below(y - 1), node[<<below(y - 1), i + 1>>])
                 ELSE IF ending # {} THEN ValueString(J[CHOOSE p \in ending : TRUE])
                 ELSE EmptyString])

\* The root of the trie of J.
TrieRoot(J) ==
    LET node[at \in (SUBSET DOMAIN J) \X Nat] == Composed(J, at[1], at[2], node)
    IN  IF DOMAIN J = {} THEN EmptyString ELSE node[<<DOMAIN J, 0>>]

Root(values) ==
    LET key(i) == Nibbles(EncodeUint64(i - 1))
    IN  TrieRoot([p \in {key(i) : i \in DOMAIN values} |->
                 values[CHOOSE i \in DOMAIN values : key(i) = p]])

RootsOf(b) ==
    [transactions |-> Root([i \in DOMAIN b |-> L1Raw(b[i].tx)]),
     receipts |-> Root([i \in DOMAIN b |-> EncodeReceipt(b[i].receipt)])]

\* What a block holds has an encoding, of some size.
ASSUME SizesAssumption ==
    \A b \in Blocks : \A i \in DOMAIN b :
        L1Raw(b[i].tx).size \in Nat /\ EncodeReceipt(b[i].receipt).size \in Nat

(***************************************************************************)
(* Verification by the contract: what was paid, or nothing.                *)
(***************************************************************************)
Proven(root, m) == VerifyProof(root, RLPEncodeKey(m.index), NodesRead(m.nodes)) = <<m.raw>>

VerifyETHDeposit(m) ==
    LET parsed == parseTransaction(m.raw)
    IN  IF /\ Proven(header.transactions, m)
           /\ Parses(m.raw)
           /\ parsed.chain = ChainId
           /\ parsed.to = Vault
        THEN <<[from |-> RecoveredSender(m.raw), amount |-> AsBigInt(parsed.value)]>>
        ELSE << >>

Padded(address) == [i \in 1..SigSize - AddressSize |-> 0] \o address
AddressOf(topic) == SubSeq(topic, SigSize - AddressSize + 1, SigSize)

VerifyERC20Deposit(m) ==
    LET logs == parseReceiptLogs(m.raw)
        log == logs[m.log + 1]
    IN  IF /\ Proven(header.receipts, m)
           /\ m.log < Len(logs)
           /\ log.address = Token
           /\ Len(log.topics) >= 3
           /\ log.topics[1] = TransferEventSig
           /\ log.topics[3] = Padded(Vault)
           /\ AddressOf(log.topics[2]) # ZeroAddress
        THEN <<[from |-> AddressOf(log.topics[2]), amount |-> AsBigInt(log.data)]>>
        ELSE << >>

Verify(m) ==
    CASE m.kind = "eth" -> VerifyETHDeposit(m)
      [] m.kind = "erc20" -> VerifyERC20Deposit(m)
      [] OTHER -> << >>

(***************************************************************************)
(* Whatever is submitted: an index and a position in a receipt that are    *)
(* numbers, of a block the contract has the header of.                     *)
(***************************************************************************)
NoMessage == [kind |-> "none", index |-> 0, log |-> 0, raw |-> Raw(0, << >>), nodes |-> << >>]

IsMessage(m) == m.index \in 0..Word - 1 /\ m.log \in Nat /\ IsSequence(m.nodes)

Submit == IsMessage(message') /\ UNCHANGED <<block, header>>

Submissions ==
    /\ block \in Blocks /\ header = RootsOf(block) /\ message = NoMessage
    /\ [][Submit]_<<block, header, message>>

(***************************************************************************)
(* Properties.                                                             *)
(***************************************************************************)
\* A transaction that VerifyETHDeposit is there for: to the vault, on this
\* chain, signed for it, of a supported type, and short enough to be read.
DepositTx(tx) ==
    /\ tx.to = Vault
    /\ tx.chain = ChainId
    /\ tx.type = 2 \/ (tx.type = 0 /\ tx.protected)
    /\ L1Raw(tx).size <= MaxItemSize

DepositLog(receipt, log) ==
    /\ log + 1 \in DOMAIN receipt.logs
    /\ LET l == receipt.logs[log + 1]
       IN  /\ l.address = Token
           /\ Len(l.topics) = 3
           /\ l.topics[1] = TransferEventSig
           /\ l.topics[3] = Padded(Vault)
           /\ AddressOf(l.topics[2]) # ZeroAddress
    /\ EncodeReceipt(receipt).size <= MaxItemSize

PaidBy(entry, m) ==
    IF m.kind = "eth" THEN [from |-> L1Sender(entry.tx), amount |-> entry.tx.value]
    ELSE LET l == entry.receipt.logs[m.log + 1]
         IN  [from |-> AddressOf(l.topics[2]), amount |-> AsBigInt(l.data)]

IsDeposit(entry, m) ==
    IF m.kind = "eth" THEN DepositTx(entry.tx) ELSE DepositLog(entry.receipt, m.log)

\* Whatever is submitted, what the contract accepts for an index is a deposit
\* that the block holds there, by the sender and of the amount L1 saw: CRIT #4
\* of verify.go, that no node stands in for another.
AcceptedIsOnChain ==
    Verify(message) # << >> =>
        /\ message.index + 1 \in DOMAIN block
        /\ IsDeposit(block[message.index + 1], message)
        /\ Verify(message) = <<PaidBy(block[message.index + 1], message)>>

\* A withdrawal is read back as it was signed: the hash the contract had signed
\* (ComputeSighash of the unsigned transaction) is the one confirmSpend computes
\* from the mined bytes, and AttachSignature makes those bytes, as long as r and
\* s fill all their bytes.
WithdrawalReadBack ==
    \A i \in DOMAIN block :
        LET tx == block[i].tx
            unsigned == buildEIP1559Tx(tx.chain, tx.nonce, tx.tipCap, tx.feeCap, tx.gas,
                                       tx.to, tx.value, tx.data)
        IN  tx.type = 2 /\ tx.accessList = List(<< >>) =>
                /\ computeTxSighash(L1Raw(tx), parseTransaction(L1Raw(tx))) = unsigned
                /\ (\A n \in {tx.r, tx.s} : Len(bigEndianUint64(n)) = SigSize)
                       => AttachSignature(unsigned, tx.parity, FixedWidth(tx.r), FixedWidth(tx.s))
                              = L1Raw(tx)
=============================================================================
