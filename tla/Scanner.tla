------------------------------ MODULE Scanner ------------------------------
(***************************************************************************)
(* The monitor's block scanner (monitor/scanner.go): passes over the       *)
(* finalized L1 blocks behind LastScannedBlock, collecting the deposits of *)
(* each with their proofs; per-transaction retries, the dead-letter store, *)
(* and the cursor that a failing block pins.                               *)
(*                                                                         *)
(* External: L1, whose finalized blocks do not change; the RPC node, which *)
(* may fail, lag or, before it stabilises, answer null; the operator; and  *)
(* the process around the scanner, which hands the deposits of a pass over *)
(* and persists the cursor after ScanNewBlocks returns.  The process may   *)
(* crash between any two steps and loses all but the persisted cursor.     *)
(* A proof is what it was built from: it is good if the raw transactions   *)
(* or receipts of the whole block went into its trie.                      *)
(***************************************************************************)
EXTENDS Integers, Sequences

CONSTANTS
    Tokens, Eth,        \* TokenAddresses; the native asset
    Word,               \* 2^64: HexToUint keeps that many values
    Contents,           \* what an L1 block may hold, see RpcBlock
    MaxHeight,          \* bound of this instance: the last L1 block
    MaxRetryAttempts,   \* N1: attempts per raw transaction
    NullAnswers         \* TRUE: a block, its logs or a receipt may be answered with null

Heights == 1..MaxHeight
Assets == Tokens \cup {Eth}

\* A transaction with its receipt: the value it carries and whether to the
\* vault, its logs, and the block-level index of the first of them.
Log == [token : Assets, toVault : BOOLEAN]
RpcTx == [toVault : BOOLEAN, value : Nat, first : Nat, logs : Seq(Log)]
RpcBlock == Seq(RpcTx)

\* tx is TxIndex, log is LogIndex, -1 for the native asset; proven says that
\* the trie of its proof was built from the whole block.
Deposit == [height : Nat, tx : Nat, log : Int, asset : Assets, proven : BOOLEAN]

ASSUME ScannerAssumption ==
    /\ Word \in Nat \ {0}
    /\ Contents \subseteq RpcBlock
    /\ MaxHeight \in Nat
    /\ MaxRetryAttempts \in Nat \ {0}
    /\ NullAnswers \in BOOLEAN

VARIABLES
    chain, final,   \* L1: its blocks, and the height finalized so far (external)
    stable,         \* the RPC node answers every request, for good (external)
    persisted,      \* the cursor on disk (external)
    delivered,      \* deposits handed to the relayer (external)
    lastScanned,    \* LastScannedBlock
    pc,             \* where ScanNewBlocks is
    target,         \* finalized, read at the start of the pass
    block, hits,    \* the block being scanned, as answered, and its token logs
    fetched, attempt, \* raw transactions of it fetched; attempts at the next
    deposits,       \* deposits the pass has collected and not handed over yet
    deadLetter      \* keys of the dead-letter store, as [height, tx]

l1Vars == <<chain, final, stable>>
blockVars == <<block, hits, fetched, attempt>>
vars == <<l1Vars, persisted, delivered, lastScanned, pc, target, blockVars, deposits,
          deadLetter>>

Height == lastScanned + 1

\* The locals of scanBlock are gone.
LeaveBlock ==
    /\ block' = << >>
    /\ hits' = {}
    /\ fetched' = 0
    /\ attempt' = 1

\* What an RPC call may end with; null is a result where a node has nothing.
MayFail == ~stable
MayBeNull == ~stable /\ NullAnswers

(***************************************************************************)
(* The deposits of a block.                                                *)
(***************************************************************************)
HexToUint(v) == v % Word

\* Indices (from 0, as on L1) of the transactions that pay the vault.
EthDepositIndices(txs) ==
    {i \in 0..(Len(txs) - 1) : txs[i + 1].toVault /\ HexToUint(txs[i + 1].value) > 0}

\* eth_getLogs for the tokens asked: transaction, block-level index, token.
filterLogs(txs, tokens) ==
    UNION {{[tx |-> i - 1, log |-> txs[i].first + p - 1, token |-> txs[i].logs[p].token] :
                p \in {q \in DOMAIN txs[i].logs :
                           txs[i].logs[q].toVault /\ txs[i].logs[q].token \in tokens}} :
           i \in DOMAIN txs}

\* The position in the receipt of the log with the hit's block-level index; no
\* position if that log is not a transfer of the token to the vault.
mapBlockLogIdxToPerReceipt(receipt, hit) ==
    {p \in DOMAIN receipt.logs :
        /\ receipt.first + p - 1 = hit.log
        /\ receipt.logs[p].token = hit.token
        /\ receipt.logs[p].toVault}

EthDeposits(h, txs) ==
    {[height |-> h, tx |-> i, log |-> -1, asset |-> Eth, proven |-> TRUE] :
        i \in EthDepositIndices(txs)}

\* mutant: the index of eth_getLogs goes into the deposit (before CRIT #14)
TokenDepositsBlockLevel(h, txs, found, blank) ==
    {[height |-> h, tx |-> hit.tx, log |-> hit.log, asset |-> hit.token,
      proven |-> blank = {}] : hit \in found}

\* blank are the indices whose receipt was answered with null and decoded to
\* an empty receipt: every proof of the block is then about another trie.
TokenDeposits(h, txs, found, blank) ==
    UNION {{[height |-> h, tx |-> hit.tx, log |-> p - 1, asset |-> hit.token,
             proven |-> blank = {}] :
                p \in mapBlockLogIdxToPerReceipt(txs[hit.tx + 1], hit)} : hit \in found}

(***************************************************************************)
(* The process around the scanner, and L1 (external).                      *)
(***************************************************************************)
\* StartupProbe lets the process start scanning from the persisted cursor.
Start ==
    /\ pc = "down"
    /\ lastScanned' = persisted
    /\ pc' = "idle"
    /\ UNCHANGED <<l1Vars, persisted, delivered, target, blockVars, deposits, deadLetter>>

Crash ==
    /\ ~stable
    /\ pc # "down"
    /\ pc' = "down"
    /\ lastScanned' = 0
    /\ target' = 0
    /\ LeaveBlock
    /\ deposits' = {}
    /\ deadLetter' = {}
    /\ UNCHANGED <<l1Vars, persisted, delivered>>

\* The deposits of a pass go out one by one, in the order of their blocks.
HandOver(d) ==
    /\ pc = "returned"
    /\ d \in deposits
    /\ \A e \in deposits : d.height <= e.height
    /\ delivered' = delivered \cup {d}
    /\ deposits' = deposits \ {d}
    /\ UNCHANGED <<l1Vars, persisted, lastScanned, pc, target, blockVars, deadLetter>>

\* mutant: the cursor is persisted before the deposits are handed over
PersistableEarly == pc = "returned"

Persistable == pc = "returned" /\ deposits = {}

Persist ==
    /\ Persistable
    /\ persisted' = lastScanned
    /\ pc' = "idle"
    /\ target' = 0
    /\ UNCHANGED <<l1Vars, delivered, lastScanned, blockVars, deposits, deadLetter>>

Finalize ==
    /\ final < MaxHeight
    /\ final' = final + 1
    /\ UNCHANGED <<chain, stable, persisted, delivered, lastScanned, pc, target, blockVars,
                   deposits, deadLetter>>

Stabilise ==
    /\ ~stable
    /\ stable' = TRUE
    /\ UNCHANGED <<chain, final, persisted, delivered, lastScanned, pc, target, blockVars,
                   deposits, deadLetter>>

\* DeadLetterEntries forgets the entries past their time to live; how long ago
\* an entry was first seen is left open.
DeadLetterEntries ==
    /\ \E expired \in (SUBSET deadLetter) \ {{}} : deadLetter' = deadLetter \ expired
    /\ UNCHANGED <<l1Vars, persisted, delivered, lastScanned, pc, target, blockVars, deposits>>

(***************************************************************************)
(* ScanNewBlocks.                                                          *)
(***************************************************************************)
\* A node may know of fewer finalized blocks than L1 has; with none behind the
\* cursor, as with a failing call, the pass is over at once.
Begin ==
    /\ pc = "idle"
    /\ target' \in {t \in Heights : t > lastScanned /\ t <= final /\ (stable => t = final)}
    /\ pc' = "scan"
    /\ UNCHANGED <<l1Vars, persisted, delivered, lastScanned, blockVars, deposits, deadLetter>>

\* The pass ends at a block that failed: the deposits of the blocks before it
\* are returned and the cursor stays.
Fail ==
    /\ pc' = "returned"
    /\ LeaveBlock
    /\ UNCHANGED <<l1Vars, persisted, delivered, lastScanned, target, deposits>>

\* mutant: the deposits of the block replace those collected before it
CompleteForgetting(found) ==
    /\ deposits' = found
    /\ lastScanned' = Height
    /\ pc' = IF Height = target THEN "returned" ELSE "scan"
    /\ LeaveBlock
    /\ UNCHANGED <<l1Vars, persisted, delivered, target, deadLetter>>

\* The block is done: its deposits join those of the pass.
Complete(found) ==
    /\ deposits' = deposits \cup found
    /\ lastScanned' = Height
    /\ pc' = IF Height = target THEN "returned" ELSE "scan"
    /\ LeaveBlock
    /\ UNCHANGED <<l1Vars, persisted, delivered, target, deadLetter>>

(***************************************************************************)
(* scanBlock.                                                              *)
(***************************************************************************)
\* What eth_getBlockByNumber and eth_getLogs answer: a null block decodes to
\* one without transactions, null logs to none.
Answers ==
    [txs : {chain[Height]} \cup (IF MayBeNull THEN {<< >>} ELSE {}),
     tokens : IF MayBeNull THEN SUBSET Tokens ELSE {Tokens}]

\* The block is read and searched; without deposits it is done.
ReadBlock ==
    /\ pc = "scan"
    /\ \E answer \in Answers :
        LET found == filterLogs(chain[Height], answer.tokens)
        IN  IF EthDepositIndices(answer.txs) = {} /\ found = {}
            THEN Complete({})
            ELSE /\ block' = answer.txs
                 /\ hits' = found
                 /\ fetched' = 0
                 /\ attempt' = 1
                 /\ pc' = IF EthDepositIndices(answer.txs) = {} THEN "receipts" ELSE "raws"
                 /\ UNCHANGED <<l1Vars, persisted, delivered, lastScanned, target, deposits,
                                deadLetter>>

ReadBlockFails ==
    /\ pc = "scan"
    /\ MayFail
    /\ Fail
    /\ UNCHANGED deadLetter

\* fetchAllRawTxs asks for every transaction of the block, not only for those
\* that pay the vault.
FetchRawTx ==
    /\ pc = "raws"
    /\ fetched < Len(block)
    /\ fetched' = fetched + 1
    /\ attempt' = 1
    /\ UNCHANGED <<l1Vars, persisted, delivered, lastScanned, pc, target, block, hits, deposits,
                   deadLetter>>

AttemptsLeft == attempt < MaxRetryAttempts

\* An error, null or an empty transaction: tried again after the backoff.
RetryRawTx ==
    /\ pc = "raws"
    /\ MayFail
    /\ fetched < Len(block)
    /\ AttemptsLeft
    /\ attempt' = attempt + 1
    /\ UNCHANGED <<l1Vars, persisted, delivered, lastScanned, pc, target, block, hits, fetched,
                   deposits, deadLetter>>

recordDeadLetter(i) == deadLetter' = deadLetter \cup {[height |-> Height, tx |-> i]}

\* The attempts are used up.
ExhaustRawTx ==
    /\ pc = "raws"
    /\ MayFail
    /\ fetched < Len(block)
    /\ ~AttemptsLeft
    /\ recordDeadLetter(fetched)
    /\ Fail

\* "Method not found" ends the block at once, and leaves no dead letter.
RawTxUnsupported ==
    /\ pc = "raws"
    /\ MayFail
    /\ fetched < Len(block)
    /\ Fail
    /\ UNCHANGED deadLetter

\* BuildTxProof for each payment; a block with token logs goes on.
BuildTxProofs ==
    /\ pc = "raws"
    /\ fetched = Len(block)
    /\ IF hits = {} THEN Complete(EthDeposits(Height, block))
       ELSE /\ pc' = "receipts"
            /\ UNCHANGED <<l1Vars, persisted, delivered, lastScanned, target, blockVars, deposits,
                           deadLetter>>

Receipts(blank) ==
    [i \in DOMAIN block |-> IF i - 1 \in blank THEN [block[i] EXCEPT !.logs = << >>] ELSE block[i]]

\* Every log found is at its place in a receipt.
Located(receipts) ==
    \A hit \in hits :
        /\ hit.tx < Len(receipts)
        /\ mapBlockLogIdxToPerReceipt(receipts[hit.tx + 1], hit) # {}

\* fetchAllReceipts, BuildReceiptProof and the mapping of each log.
ReadReceipts ==
    /\ pc = "receipts"
    /\ \E blank \in IF MayBeNull THEN SUBSET (0..(Len(block) - 1)) ELSE {{}} :
        IF Located(Receipts(blank))
        THEN Complete(EthDeposits(Height, block)
                        \cup TokenDeposits(Height, Receipts(blank), hits, blank))
        ELSE Fail /\ UNCHANGED deadLetter

ReadReceiptsFails ==
    /\ pc = "receipts"
    /\ MayFail
    /\ Fail
    /\ UNCHANGED deadLetter

(***************************************************************************)
(* The specification.                                                      *)
(***************************************************************************)
Init ==
    /\ chain \in [Heights -> Contents]
    /\ final = 0
    /\ stable = FALSE
    /\ persisted = 0
    /\ delivered = {}
    /\ lastScanned = 0
    /\ pc = "down"
    /\ target = 0
    /\ block = << >>
    /\ hits = {}
    /\ fetched = 0
    /\ attempt = 1
    /\ deposits = {}
    /\ deadLetter = {}

ScanBlock ==
    \/ ReadBlock \/ ReadBlockFails
    \/ FetchRawTx \/ RetryRawTx \/ ExhaustRawTx \/ RawTxUnsupported \/ BuildTxProofs
    \/ ReadReceipts \/ ReadReceiptsFails

Caller == Start \/ Persist \/ \E d \in deposits : HandOver(d)

Next == Begin \/ ScanBlock \/ Caller \/ Crash \/ Finalize \/ Stabilise \/ DeadLetterEntries

Spec == Init /\ [][Next]_vars

\* The process runs and is restarted, and the RPC node stabilises some day;
\* nothing is asked of it, of crashes or of L1 before that.
FairSpec == Spec /\ WF_vars(Begin \/ ScanBlock \/ Caller) /\ WF_vars(Stabilise)

(***************************************************************************)
(* Properties.                                                             *)
(***************************************************************************)
PCs == {"down", "idle", "scan", "raws", "receipts", "returned"}
Hit == [tx : Nat, log : Int, token : Tokens]

\* The state stays in its types.
TypeOK ==
    /\ chain \in [Heights -> RpcBlock]
    /\ final \in {0} \cup Heights
    /\ stable \in BOOLEAN
    /\ persisted \in Nat
    /\ delivered \subseteq Deposit
    /\ lastScanned \in Nat
    /\ pc \in PCs
    /\ target \in Nat
    /\ block \in RpcBlock
    /\ hits \subseteq Hit
    /\ fetched \in Nat
    /\ attempt \in 1..MaxRetryAttempts
    /\ deposits \subseteq Deposit
    /\ deadLetter \subseteq [height : Nat, tx : Nat]

\* What block h of L1 owes: each payment to the vault, of a value that is not
\* a multiple of the machine word (receipt.go:93), and each transfer to the
\* vault in a receipt's logs, with a proof the contract takes.
Due(h) ==
    {[height |-> h, tx |-> i - 1, log |-> -1, asset |-> Eth, proven |-> TRUE] :
        i \in {j \in DOMAIN chain[h] : chain[h][j].toVault /\ chain[h][j].value % Word # 0}}
    \cup
    UNION {{[height |-> h, tx |-> i - 1, log |-> p - 1, asset |-> chain[h][i].logs[p].token,
             proven |-> TRUE] :
                p \in {q \in DOMAIN chain[h][i].logs :
                           /\ chain[h][i].logs[q].toVault
                           /\ chain[h][i].logs[q].token \in Tokens}} :
           i \in DOMAIN chain[h]}

\* A crash loses nothing: every deposit of a block up to the persisted cursor
\* was handed over, whatever failed, was retried or crashed on the way there
\* ("LastScannedBlock does NOT advance", scanner.go HIGH #24 and N1).
NoDepositSkipped == \A h \in Heights : h <= persisted => Due(h) \subseteq delivered

\* Nothing is handed over that L1 does not hold: each deposit is one of a
\* finalized block, in its own slot (two logs of one receipt in two slots, F2)
\* and with a proof built from the whole block.
OnlyDueDelivered == delivered \subseteq UNION {Due(h) : h \in 1..final}

\* A dead letter names a transaction of a block that pays the vault and that
\* the scan reached: at most the one the cursor is pinned at, never one further
\* on, so an operator who settles the oldest one unblocks the scan.
DeadLetterReached ==
    \A e \in deadLetter :
        /\ e.height \in 1..final
        /\ e.height <= Height
        /\ e.tx < Len(chain[e.height])
        /\ \E i \in DOMAIN chain[e.height] : chain[e.height][i].toVault

Feed == INSTANCE DepositFeed WITH due <- [h \in Heights |-> Due(h)], acked <- persisted

\* The scanner, its retries and its restarts implement the feed: deposits go
\* out at least once, in block order, and are acknowledged after.
ImplementsFeed == Feed!Spec

\* Once the RPC node is stable every deposit of a finalized block is handed
\* over, however often passes failed, the process crashed and dead letters of
\* the block were forgotten before.
EveryDepositDelivered ==
    \A h \in Heights :
        (h <= final) ~> (Due(h) \subseteq delivered)
=============================================================================
