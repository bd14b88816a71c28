---------------------------- MODULE Transactions ----------------------------
(***************************************************************************)
(* Transactions and receipts on their way from L1 to the contract: the     *)
(* monitor's encoding of what the RPC node reports (monitor/tx_encode.go,  *)
(* monitor/receipt.go), the contract's reading of it and the hash it       *)
(* recovers signers from (contract/mapping/proof.go), and the withdrawals  *)
(* the contract writes (contract/mapping/withdrawal.go).                   *)
(*                                                                         *)
(* What is encoded is kept as the tree of module Rlp, with the type byte   *)
(* beside it and its size.  A hash is what was hashed; an account is what  *)
(* its signature recovers to, one for each hash, parity, r and s.          *)
(***************************************************************************)
EXTENDS Mpt

CONSTANTS
    Word,           \* 2^64, of a uint64
    AddressSize,    \* bytes of an address
    SigSize         \* bytes of r and of s: 32

ASSUME TransactionsAssumption ==
    /\ Word \in Nat \ {0}
    /\ \A v \in 0..Word - 1 : Len(bigEndianUint64(v)) <= 8
    /\ AddressSize \in Nat \ {0}
    /\ SigSize \in Nat \ {0}

Number(v) == String(bigEndianUint64(v))
Raw(type, fields) ==
    LET item == List(fields)
    IN  [type |-> type, item |-> item,
         size |-> Len(reencodeItem(item)) + (IF type = 0 THEN 0 ELSE 1)]

(***************************************************************************)
(* RPCTx: its fields, whatever its type.  blob stands for the fields of    *)
(* types 3 and 4 only; protected says that a legacy transaction is signed  *)
(* for its chain.                                                          *)
(***************************************************************************)
LegacyV(tx) == IF tx.protected THEN tx.chain * 2 + 35 + tx.parity ELSE 27 + tx.parity

encodeLegacyTx(tx) ==
    Raw(0, <<Number(tx.nonce), Number(tx.gasPrice), Number(tx.gas), String(tx.to),
             Number(tx.value), String(tx.data), Number(LegacyV(tx)), Number(tx.r), Number(tx.s)>>)

encodeAccessListTx(tx) ==
    Raw(1, <<Number(tx.chain), Number(tx.nonce), Number(tx.gasPrice), Number(tx.gas),
             String(tx.to), Number(tx.value), String(tx.data), tx.accessList,
             Number(tx.parity), Number(tx.r), Number(tx.s)>>)

encodeEIP1559Tx(tx) ==
    Raw(2, <<Number(tx.chain), Number(tx.nonce), Number(tx.tipCap), Number(tx.feeCap),
             Number(tx.gas), String(tx.to), Number(tx.value), String(tx.data), tx.accessList,
             Number(tx.parity), Number(tx.r), Number(tx.s)>>)

\* encodeBlobTx and encodeSetCodeTx differ in where their own fields go.
encodeBlobTx(tx) ==
    Raw(3, <<Number(tx.chain), Number(tx.nonce), Number(tx.tipCap), Number(tx.feeCap),
             Number(tx.gas), String(tx.to), Number(tx.value), String(tx.data), tx.accessList>>
           \o tx.blob \o <<Number(tx.parity), Number(tx.r), Number(tx.s)>>)

encodeSetCodeTx(tx) == [encodeBlobTx(tx) EXCEPT !.type = 4]

EncodeTx(tx) ==
    CASE tx.type = 0 -> encodeLegacyTx(tx)
      [] tx.type = 1 -> encodeAccessListTx(tx)
      [] tx.type = 2 -> encodeEIP1559Tx(tx)
      [] tx.type = 3 -> encodeBlobTx(tx)
      [] tx.type = 4 -> encodeSetCodeTx(tx)

\* A receipt and its logs: the token, the topics, and the amount.
EncodeLog(log) ==
    List(<<String(log.address), List([i \in DOMAIN log.topics |-> String(log.topics[i])]),
           String(log.data)>>)
EncodeReceipt(r) ==
    Raw(r.type, <<Number(r.status), Number(r.cumulativeGas), String(r.bloom),
                  List([i \in DOMAIN r.logs |-> EncodeLog(r.logs[i])])>>)

(***************************************************************************)
(* The contract's reading.                                                 *)
(***************************************************************************)
\* big.Int.SetBytes
AsBigInt(bytes) ==
    LET value[n \in 0..Len(bytes)] == IF n = 0 THEN 0 ELSE value[n - 1] * 256 + bytes[n]
    IN  value[Len(bytes)]
AsUint64(item) == AsBigInt(item.data) % Word

\* An address of another length reads as the zero address.
ZeroAddress == [i \in 1..AddressSize |-> 0]
AsAddress(item) == IF Len(item.data) = AddressSize THEN item.data ELSE ZeroAddress

parseEIP1559Tx(items) ==
    [chain |-> AsUint64(items[1]), nonce |-> AsUint64(items[2]), to |-> AsAddress(items[6]),
     value |-> items[7].data, data |-> items[8].data,
     parity |-> AsUint64(items[10]) % 256, r |-> items[11].data, s |-> items[12].data]

\* EIP-155: v is chainId * 2 + 35 + recovery id.
parseLegacyTx(items) ==
    LET v == AsUint64(items[7])
    IN  [chain |-> IF v >= 35 THEN (v - 35) \div 2 ELSE 0, nonce |-> AsUint64(items[1]),
         to |-> AsAddress(items[4]), value |-> items[5].data, data |-> items[6].data,
         parity |-> IF v >= 35 THEN (v - 35) % 2 ELSE (v - 27) % 256,
         r |-> items[8].data, s |-> items[9].data]

\* Types 1, 3 and 4 are refused.
Parses(raw) ==
    \/ raw.type = 0 /\ Len(raw.item.children) >= 9
    \/ raw.type = 2 /\ Len(raw.item.children) >= 12

parseTransaction(raw) ==
    IF raw.type = 2 THEN parseEIP1559Tx(raw.item.children) ELSE parseLegacyTx(raw.item.children)

\* What the sender signed: the fields without the signature, and the chain id
\* in its place for a legacy transaction.
computeTxSighash(raw, parsed) ==
    LET items == raw.item.children
    IN  IF raw.type = 2 THEN Raw(2, SubSeq(items, 1, 9))
        ELSE Raw(0, SubSeq(items, 1, 6) \o <<Number(parsed.chain), Number(0), Number(0)>>)

padTo32(b) ==
    IF Len(b) >= SigSize THEN SubSeq(b, 1, SigSize)
    ELSE [i \in 1..SigSize - Len(b) |-> 0] \o b

\* The host's ecrecover: external.
Ecrecover(hash, parity, r, s) == [hash |-> hash, parity |-> parity, r |-> r, s |-> s]

RecoveredSender(raw) ==
    LET parsed == parseTransaction(raw)
    IN  Ecrecover(computeTxSighash(raw, parsed), parsed.parity, padTo32(parsed.r), padTo32(parsed.s))

\* Every log of an L1 receipt has its three fields.
parseReceiptLogs(raw) ==
    [i \in DOMAIN raw.item.children[4].children |->
        LET fields == raw.item.children[4].children[i].children
        IN  [address |-> AsAddress(fields[1]), data |-> fields[3].data,
             topics |-> [j \in DOMAIN fields[2].children |-> fields[2].children[j].data]]]

(***************************************************************************)
(* Withdrawals: the unsigned transaction, and the signed one the operators *)
(* make of it.                                                             *)
(***************************************************************************)
\* mutant: the two fees change places
buildEIP1559TxSwapped(chain, nonce, tipCap, feeCap, gas, to, value, data) ==
    Raw(2, <<Number(chain), Number(nonce), Number(feeCap), Number(tipCap), Number(gas),
             String(to), Number(value), String(data), List(<< >>)>>)

buildEIP1559Tx(chain, nonce, tipCap, feeCap, gas, to, value, data) ==
    Raw(2, <<Number(chain), Number(nonce), Number(tipCap), Number(feeCap), Number(gas),
             String(to), Number(value), String(data), List(<< >>)>>)

\* r and s are written as they are, SigSize bytes each.
AttachSignature(unsigned, v, r, s) ==
    Raw(2, [i \in 1..9 |-> IF unsigned.item.children[i].isList THEN List(<< >>)
                           ELSE unsigned.item.children[i]]
           \o <<Number(v), String(r), String(s)>>)
=============================================================================
