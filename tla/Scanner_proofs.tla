-------------------------- MODULE Scanner_proofs --------------------------
(***************************************************************************)
(* Proofs about the scanner, for every chain, token set, number of blocks  *)
(* and of retries: with an RPC node that answers with what it has or fails *)
(* (NullAnswers = FALSE), no deposit is skipped, made up or out of order.  *)
(***************************************************************************)
EXTENDS Scanner, TLAPS

(***************************************************************************)
(* What a block is scanned for.                                            *)
(***************************************************************************)
\* A block is a sequence of transactions of the fields the scanner reads.
LEMMA TxTypes ==
    ASSUME NEW txs \in RpcBlock
    PROVE  /\ Len(txs) \in Nat
           /\ DOMAIN txs = 1..Len(txs)
           /\ \A i \in DOMAIN txs :
                 /\ txs[i].value \in Nat
                 /\ txs[i].first \in Nat
                 /\ txs[i].logs \in Seq(Log)
                 /\ DOMAIN txs[i].logs \subseteq Nat \ {0}
<1>1. /\ Len(txs) \in Nat
      /\ DOMAIN txs = 1..Len(txs)
      /\ \A i \in DOMAIN txs : txs[i] \in RpcTx
  BY DEF RpcBlock
<1>2. ASSUME NEW tx \in RpcTx
      PROVE  tx.value \in Nat /\ tx.first \in Nat /\ tx.logs \in Seq(Log)
  BY DEF RpcTx
<1>3. ASSUME NEW logs \in Seq(Log) PROVE DOMAIN logs \subseteq Nat \ {0}
  OBVIOUS
<1>4. QED
  BY <1>1, <1>2, <1>3

\* scanner.go:302-310: what the scan takes for a payment is one that is due.
LEMMA PaymentsAreDue ==
    ASSUME NEW txs \in RpcBlock, NEW h \in Nat
    PROVE  EthDeposits(h, txs) =
             {[height |-> h, tx |-> i - 1, log |-> -1, asset |-> Eth, proven |-> TRUE] :
                i \in {j \in DOMAIN txs : txs[j].toVault /\ txs[j].value % Word # 0}}
<1> DEFINE D(i) == [height |-> h, tx |-> i, log |-> -1, asset |-> Eth, proven |-> TRUE]
           Paying == {j \in DOMAIN txs : txs[j].toVault /\ txs[j].value % Word # 0}
<1>1. ASSUME NEW j \in DOMAIN txs
      PROVE  (txs[j].value % Word # 0) <=> (HexToUint(txs[j].value) > 0)
  <2>1. txs[j].value \in Nat
    BY TxTypes
  <2>2. txs[j].value % Word \in Nat
    BY <2>1, ScannerAssumption
  <2>3. QED
    BY <2>2 DEF HexToUint
<1>2. DOMAIN txs = 1..Len(txs) /\ Len(txs) \in Nat
  BY TxTypes
<1>3. ASSUME NEW i \in EthDepositIndices(txs) PROVE i + 1 \in Paying /\ i = (i + 1) - 1
  BY <1>1, <1>2 DEF EthDepositIndices
<1>4. ASSUME NEW j \in Paying PROVE j - 1 \in EthDepositIndices(txs)
  <2>1. j \in 1..Len(txs) /\ (j - 1) + 1 = j
    BY <1>2
  <2>2. QED
    BY <1>1, <1>2, <2>1 DEF EthDepositIndices
<1>5. {D(i) : i \in EthDepositIndices(txs)} = {D(j - 1) : j \in Paying}
  <2>1. ASSUME NEW i \in EthDepositIndices(txs) PROVE D(i) \in {D(j - 1) : j \in Paying}
    BY <1>3
  <2>2. ASSUME NEW j \in Paying PROVE D(j - 1) \in {D(i) : i \in EthDepositIndices(txs)}
    BY <1>4
  <2>3. QED
    BY <2>1, <2>2
<1>6. QED
  BY <1>5 DEF EthDeposits

\* The transfers to the vault in the receipts of a block.
TransfersDue(h, txs) ==
    UNION {{[height |-> h, tx |-> i - 1, log |-> p - 1, asset |-> txs[i].logs[p].token,
             proven |-> TRUE] :
                p \in {q \in DOMAIN txs[i].logs :
                           /\ txs[i].logs[q].toVault
                           /\ txs[i].logs[q].token \in Tokens}} :
           i \in DOMAIN txs}

\* What eth_getLogs found for the tokens is a log of the block.
LEMMA HitIsLog ==
    ASSUME NEW txs \in RpcBlock, NEW hit \in filterLogs(txs, Tokens)
    PROVE  \E i \in DOMAIN txs : \E p \in DOMAIN txs[i].logs :
               /\ txs[i].logs[p].toVault
               /\ txs[i].logs[p].token \in Tokens
               /\ hit = [tx |-> i - 1, log |-> txs[i].first + p - 1,
                         token |-> txs[i].logs[p].token]
BY DEF filterLogs

\* F2: the mapping gives a found log the one place it has in its receipt.
LEMMA LogHasOnePlace ==
    ASSUME NEW txs \in RpcBlock, NEW i \in DOMAIN txs, NEW p \in DOMAIN txs[i].logs,
           txs[i].logs[p].toVault
    PROVE  LET hit == [tx |-> i - 1, log |-> txs[i].first + p - 1,
                       token |-> txs[i].logs[p].token]
           IN  /\ txs[hit.tx + 1] = txs[i]
               /\ mapBlockLogIdxToPerReceipt(txs[hit.tx + 1], hit) = {p}
<1> DEFINE hit == [tx |-> i - 1, log |-> txs[i].first + p - 1, token |-> txs[i].logs[p].token]
<1>1. i \in Int /\ hit.tx + 1 = i
  BY TxTypes
<1>2. txs[i].first \in Int
  BY TxTypes
<1>3. \A q \in DOMAIN txs[i].logs : q \in Int
  BY TxTypes
<1>4. ASSUME NEW q \in DOMAIN txs[i].logs
      PROVE  txs[i].first + q - 1 = txs[i].first + p - 1 <=> q = p
  BY <1>2, <1>3
<1>5. mapBlockLogIdxToPerReceipt(txs[i], hit) = {p}
  BY <1>4 DEF mapBlockLogIdxToPerReceipt
<1>6. QED
  BY <1>1, <1>5

\* scanner.go:386-433: the token deposits built from the logs found are the
\* transfers due, and every log found has a place.
LEMMA TransfersAreDue ==
    ASSUME NEW txs \in RpcBlock, NEW h \in Nat
    PROVE  /\ TokenDeposits(h, txs, filterLogs(txs, Tokens), {}) = TransfersDue(h, txs)
           /\ \A hit \in filterLogs(txs, Tokens) :
                 /\ hit.tx < Len(txs)
                 /\ mapBlockLogIdxToPerReceipt(txs[hit.tx + 1], hit) # {}
<1> DEFINE found == filterLogs(txs, Tokens)
           Wanted(i) == {q \in DOMAIN txs[i].logs :
                            txs[i].logs[q].toVault /\ txs[i].logs[q].token \in Tokens}
           H(i, p) == [tx |-> i - 1, log |-> txs[i].first + p - 1, token |-> txs[i].logs[p].token]
           D(i, p) == [height |-> h, tx |-> i - 1, log |-> p - 1,
                       asset |-> txs[i].logs[p].token, proven |-> TRUE]
           B(hit) == {[height |-> h, tx |-> hit.tx, log |-> p - 1, asset |-> hit.token,
                       proven |-> {} = {}] :
                         p \in mapBlockLogIdxToPerReceipt(txs[hit.tx + 1], hit)}
<1>1. ASSUME NEW i \in DOMAIN txs, NEW p \in Wanted(i)
      PROVE  H(i, p) \in found /\ B(H(i, p)) = {D(i, p)}
  <2>1. H(i, p) \in found
    BY DEF filterLogs
  <2>2. mapBlockLogIdxToPerReceipt(txs[H(i, p).tx + 1], H(i, p)) = {p}
    BY LogHasOnePlace
  <2>3. QED
    BY <2>1, <2>2
<1>2. ASSUME NEW hit \in found
      PROVE  \E i \in DOMAIN txs : \E p \in Wanted(i) : hit = H(i, p)
  BY HitIsLog
<1>3. ASSUME NEW d \in TransfersDue(h, txs)
      PROVE  d \in TokenDeposits(h, txs, found, {})
  <2>1. PICK i \in DOMAIN txs : \E p \in Wanted(i) : d = D(i, p)
    BY DEF TransfersDue
  <2>1a. PICK p \in Wanted(i) : d = D(i, p)
    BY <2>1
  <2>2. H(i, p) \in found /\ d \in B(H(i, p))
    BY <1>1, <2>1a
  <2>3. QED
    BY <2>2 DEF TokenDeposits
<1>4. ASSUME NEW d \in TokenDeposits(h, txs, found, {})
      PROVE  d \in TransfersDue(h, txs)
  <2>1. PICK hit \in found : d \in B(hit)
    BY DEF TokenDeposits
  <2>2. PICK i \in DOMAIN txs : \E p \in Wanted(i) : hit = H(i, p)
    BY <1>2
  <2>2a. PICK p \in Wanted(i) : hit = H(i, p)
    BY <2>2
  <2>3. d = D(i, p)
    BY <1>1, <2>1, <2>2a
  <2>4. d \in {D(i, q) : q \in Wanted(i)}
    BY <2>2a, <2>3
  <2>5. QED
    BY <2>4 DEF TransfersDue
<1>5. ASSUME NEW hit \in found
      PROVE  hit.tx < Len(txs) /\ mapBlockLogIdxToPerReceipt(txs[hit.tx + 1], hit) # {}
  <2>1. PICK i \in DOMAIN txs : \E p \in Wanted(i) : hit = H(i, p)
    BY <1>2
  <2>1a. PICK p \in Wanted(i) : hit = H(i, p)
    BY <2>1
  <2>2. mapBlockLogIdxToPerReceipt(txs[hit.tx + 1], hit) = {p}
    BY <2>1a, LogHasOnePlace
  <2>3. hit.tx = i - 1 /\ i \in 1..Len(txs) /\ Len(txs) \in Nat
    BY <2>1a, TxTypes
  <2>4. QED
    BY <2>2, <2>3
<1>6. QED
  BY <1>3, <1>4, <1>5

\* A whole scan of a block finds what is due of it.
LEMMA ScanFindsDue ==
    ASSUME NEW h \in Heights, chain[h] \in RpcBlock
    PROVE  Due(h) = EthDeposits(h, chain[h])
                      \cup TokenDeposits(h, chain[h], filterLogs(chain[h], Tokens), {})
<1>1. h \in Nat
  BY ScannerAssumption DEF Heights
<1>2. QED
  BY <1>1, PaymentsAreDue, TransfersAreDue DEF Due, TransfersDue

(***************************************************************************)
(* Types.                                                                  *)
(***************************************************************************)
\* The deposits of payments are deposits.
LEMMA EthDepositsType ==
    ASSUME NEW txs \in RpcBlock, NEW h \in Nat
    PROVE  EthDeposits(h, txs) \subseteq Deposit
<1>1. ASSUME NEW i \in EthDepositIndices(txs) PROVE i \in Nat
  BY TxTypes DEF EthDepositIndices
<1>2. Eth \in Assets
  BY DEF Assets
<1>3. ASSUME NEW i \in EthDepositIndices(txs)
      PROVE  [height |-> h, tx |-> i, log |-> -1, asset |-> Eth, proven |-> TRUE] \in Deposit
  <2>1. i \in Nat /\ -1 \in Int
    BY <1>1
  <2>2. QED
    BY <1>2, <2>1 DEF Deposit
<1>4. QED
  BY <1>3 DEF EthDeposits

\* What eth_getLogs may find, for any part of the tokens.
LEMMA HitsType ==
    ASSUME NEW txs \in RpcBlock, NEW tokens \in SUBSET Tokens
    PROVE  filterLogs(txs, tokens) \subseteq Hit
<1>1. ASSUME NEW i \in DOMAIN txs, NEW p \in DOMAIN txs[i].logs, txs[i].logs[p].token \in tokens
      PROVE  [tx |-> i - 1, log |-> txs[i].first + p - 1, token |-> txs[i].logs[p].token] \in Hit
  <2>1. i - 1 \in Nat
    BY TxTypes
  <2>2. txs[i].first + p - 1 \in Int
    BY TxTypes
  <2>3. QED
    BY <1>1, <2>1, <2>2 DEF Hit
<1>2. QED
  BY <1>1 DEF filterLogs

\* Receipts answered with null leave a block of receipts.
LEMMA ReceiptsType ==
    ASSUME block \in RpcBlock, NEW blank
    PROVE  Receipts(blank) \in RpcBlock
<1>1. block \in Seq(RpcTx)
  BY DEF RpcBlock
<1>2. ASSUME NEW i \in DOMAIN block
      PROVE  (IF i - 1 \in blank THEN [block[i] EXCEPT !.logs = << >>] ELSE block[i]) \in RpcTx
  <2>1. block[i] \in RpcTx
    BY <1>1
  <2>2. << >> \in Seq(Log)
    OBVIOUS
  <2>3. [block[i] EXCEPT !.logs = << >>] \in RpcTx
    BY <2>1, <2>2 DEF RpcTx
  <2>4. QED
    BY <2>1, <2>3
<1>3. Receipts(blank) \in Seq(RpcTx)
  BY <1>1, <1>2 DEF Receipts
<1>4. QED
  BY <1>3 DEF RpcBlock

\* With no receipt answered with null the receipts are those of the block.
LEMMA ReceiptsWhole == ASSUME block \in RpcBlock PROVE Receipts({}) = block
<1>1. block = [i \in DOMAIN block |-> block[i]]
  BY DEF RpcBlock
<1>2. QED
  BY <1>1 DEF Receipts

\* The token deposits of located logs are deposits.
LEMMA TokenDepositsType ==
    ASSUME NEW txs \in RpcBlock, NEW h \in Nat, NEW blank, hits \subseteq Hit, Located(txs)
    PROVE  TokenDeposits(h, txs, hits, blank) \subseteq Deposit
<1>1. ASSUME NEW hit \in hits, NEW p \in mapBlockLogIdxToPerReceipt(txs[hit.tx + 1], hit)
      PROVE  [height |-> h, tx |-> hit.tx, log |-> p - 1, asset |-> hit.token,
              proven |-> blank = {}] \in Deposit
  <2>1. hit.tx \in Nat /\ hit.token \in Assets
    BY DEF Hit, Assets
  <2>2. hit.tx + 1 \in DOMAIN txs
    BY <2>1, TxTypes DEF Located
  <2>3. p - 1 \in Int
    BY <2>2, TxTypes DEF mapBlockLogIdxToPerReceipt
  <2>4. QED
    BY <2>1, <2>3 DEF Deposit
<1>2. QED
  BY <1>1 DEF TokenDeposits

\* The initial state has its types.
LEMMA TypeInit == Init => TypeOK
<1> SUFFICES ASSUME Init PROVE TypeOK
  OBVIOUS
<1>1. chain \in [Heights -> RpcBlock]
  BY ScannerAssumption DEF Init
<1>2. block \in RpcBlock
  BY DEF Init, RpcBlock
<1>3. attempt \in 1..MaxRetryAttempts
  BY ScannerAssumption DEF Init
<1>4. QED
  BY <1>1, <1>2, <1>3 DEF Init, TypeOK, PCs

\* Leaving a block keeps the types of its variables.
LEMMA LeaveBlockType ==
    ASSUME LeaveBlock
    PROVE  /\ block' \in RpcBlock
           /\ hits' \subseteq Hit
           /\ fetched' \in Nat
           /\ attempt' \in 1..MaxRetryAttempts
<1>1. << >> \in RpcBlock
  BY DEF RpcBlock
<1>2. QED
  BY <1>1, ScannerAssumption DEF LeaveBlock

\* A failing block keeps the types.
LEMMA FailType ==
    ASSUME TypeOK, Fail, deadLetter' \subseteq [height : Nat, tx : Nat]
    PROVE  TypeOK'
<1>1. /\ block' \in RpcBlock
      /\ hits' \subseteq Hit
      /\ fetched' \in Nat
      /\ attempt' \in 1..MaxRetryAttempts
  BY LeaveBlockType DEF Fail
<1>2. QED
  BY <1>1 DEF TypeOK, Fail, l1Vars, PCs

\* So does one that is done, when what was found are deposits.
LEMMA CompleteType ==
    ASSUME TypeOK, NEW found \in SUBSET Deposit, Complete(found)
    PROVE  TypeOK'
<1>1. /\ block' \in RpcBlock
      /\ hits' \subseteq Hit
      /\ fetched' \in Nat
      /\ attempt' \in 1..MaxRetryAttempts
  BY LeaveBlockType DEF Complete
<1>2. lastScanned' \in Nat
  BY DEF TypeOK, Complete, Height
<1>3. pc' \in PCs
  BY DEF Complete, PCs
<1>4. QED
  BY <1>1, <1>2, <1>3 DEF TypeOK, Complete, l1Vars

\* Each step of scanBlock keeps the types.  Scanning is never past the last
\* block of L1, which the cursor part of the invariant shows.
LEMMA ScanBlockType ==
    ASSUME TypeOK, ScanBlock, pc = "scan" => Height \in Heights
    PROVE  TypeOK'
<1> USE DEF l1Vars
<1>1. Height \in Nat
  BY DEF TypeOK, Height
<1>2. CASE ReadBlock
  <2>1. PICK answer \in Answers :
           LET found == filterLogs(chain[Height], answer.tokens)
           IN  IF EthDepositIndices(answer.txs) = {} /\ found = {}
               THEN Complete({})
               ELSE /\ block' = answer.txs
                    /\ hits' = found
                    /\ fetched' = 0
                    /\ attempt' = 1
                    /\ pc' = IF EthDepositIndices(answer.txs) = {} THEN "receipts" ELSE "raws"
                    /\ UNCHANGED <<l1Vars, persisted, delivered, lastScanned, target, deposits,
                                   deadLetter>>
    BY <1>2 DEF ReadBlock
  <2>2. CASE Complete({})
    BY <2>2, CompleteType
  <2>3. CASE ~Complete({})
    <3>1. chain[Height] \in RpcBlock /\ << >> \in RpcBlock
      BY <1>2 DEF ReadBlock, TypeOK, RpcBlock
    <3>2. answer.txs \in RpcBlock /\ answer.tokens \in SUBSET Tokens
      BY <3>1 DEF Answers
    <3>3. filterLogs(chain[Height], answer.tokens) \subseteq Hit
      BY <3>1, <3>2, HitsType
    <3>4. 1 \in 1..MaxRetryAttempts
      BY ScannerAssumption
    <3>5. QED
      BY <2>1, <2>3, <3>2, <3>3, <3>4 DEF TypeOK, PCs
  <2>4. QED
    BY <2>2, <2>3
<1>3. CASE ReadBlockFails \/ RawTxUnsupported \/ ReadReceiptsFails
  BY <1>3, FailType DEF ReadBlockFails, RawTxUnsupported, ReadReceiptsFails, TypeOK
<1>4. CASE FetchRawTx
  BY <1>4, ScannerAssumption DEF FetchRawTx, TypeOK
<1>5. CASE RetryRawTx
  BY <1>5, ScannerAssumption DEF RetryRawTx, AttemptsLeft, TypeOK
<1>6. CASE ExhaustRawTx
  <2>1. deadLetter' \subseteq [height : Nat, tx : Nat]
    BY <1>1, <1>6 DEF ExhaustRawTx, recordDeadLetter, TypeOK
  <2>2. QED
    BY <1>6, <2>1, FailType DEF ExhaustRawTx
<1>7. CASE BuildTxProofs
  <2>1. CASE hits = {}
    <3>1. EthDeposits(Height, block) \in SUBSET Deposit
      BY <1>1, EthDepositsType DEF TypeOK
    <3>2. QED
      BY <1>7, <2>1, <3>1, CompleteType DEF BuildTxProofs
  <2>2. CASE hits # {}
    BY <1>7, <2>2 DEF BuildTxProofs, TypeOK, blockVars, PCs
  <2>3. QED
    BY <2>1, <2>2
<1>8. CASE ReadReceipts
  <2>1. PICK blank : IF Located(Receipts(blank))
                     THEN Complete(EthDeposits(Height, block)
                                     \cup TokenDeposits(Height, Receipts(blank), hits, blank))
                     ELSE Fail /\ UNCHANGED deadLetter
    BY <1>8 DEF ReadReceipts
  <2>2. CASE Located(Receipts(blank))
    <3>1. EthDeposits(Height, block) \subseteq Deposit
      BY <1>1, EthDepositsType DEF TypeOK
    <3>2. Receipts(blank) \in RpcBlock
      BY ReceiptsType DEF TypeOK
    <3>3. TokenDeposits(Height, Receipts(blank), hits, blank) \subseteq Deposit
      BY <1>1, <2>2, <3>2, TokenDepositsType DEF TypeOK
    <3>4. QED
      BY <2>1, <2>2, <3>1, <3>3, CompleteType
  <2>3. CASE ~Located(Receipts(blank))
    BY <2>1, <2>3, FailType DEF TypeOK
  <2>4. QED
    BY <2>2, <2>3
<1>9. QED
  BY <1>2, <1>3, <1>4, <1>5, <1>6, <1>7, <1>8 DEF ScanBlock

\* The steps of the process, of the operator and of L1 keep the types.
LEMMA OtherType ==
    ASSUME TypeOK, Begin \/ Caller \/ Crash \/ Finalize \/ Stabilise \/ DeadLetterEntries
    PROVE  TypeOK'
<1> USE DEF TypeOK, PCs, l1Vars, blockVars
<1>1. CASE Begin
  <2>1. target' \in Nat
    BY <1>1, ScannerAssumption DEF Begin, Heights
  <2>2. QED
    BY <1>1, <2>1 DEF Begin
<1>2. CASE Start
  BY <1>2 DEF Start
<1>3. CASE Persist
  BY <1>3 DEF Persist
<1>4. CASE \E d \in deposits : HandOver(d)
  BY <1>4 DEF HandOver
<1>5. CASE Crash
  <2>1. /\ block' \in RpcBlock
        /\ hits' \subseteq Hit
        /\ fetched' \in Nat
        /\ attempt' \in 1..MaxRetryAttempts
    BY <1>5, LeaveBlockType DEF Crash
  <2>2. QED
    BY <1>5, <2>1 DEF Crash
<1>6. CASE Finalize
  <2>1. final' \in Heights
    BY <1>6, ScannerAssumption DEF Finalize, Heights
  <2>2. QED
    BY <1>6, <2>1 DEF Finalize
<1>7. CASE Stabilise
  BY <1>7 DEF Stabilise
<1>8. CASE DeadLetterEntries
  BY <1>8 DEF DeadLetterEntries
<1>9. QED
  BY <1>1, <1>2, <1>3, <1>4, <1>5, <1>6, <1>7, <1>8 DEF Caller

(***************************************************************************)
(* The inductive invariant.                                                *)
(***************************************************************************)
Scanning == pc \in {"scan", "raws", "receipts"}

\* Where the cursors are: the persisted one never ahead of the one in memory,
\* neither ahead of L1, and what a crash or a finished pass leaves behind.
CursorInv ==
    /\ persisted <= final
    /\ pc # "down" => persisted <= lastScanned /\ lastScanned <= final
    /\ Scanning => lastScanned < target /\ target <= final
    /\ pc = "idle" => lastScanned = persisted /\ deposits = {}
    /\ pc = "down" => deposits = {} /\ deadLetter = {}

\* The block being scanned is the one of L1 and its logs are all there.
BlockInv ==
    pc \in {"raws", "receipts"} =>
        /\ block = chain[Height]
        /\ hits = filterLogs(chain[Height], Tokens)
        /\ pc = "raws" => EthDepositIndices(block) # {}

\* Every deposit up to the cursor was handed over or is about to be, and
\* nothing else is.
CollectedInv ==
    /\ NoDepositSkipped
    /\ OnlyDueDelivered
    /\ pc # "down" => \A h \in Heights : h <= lastScanned => Due(h) \subseteq delivered \cup deposits
    /\ deposits \subseteq UNION {Due(h) : h \in 1..lastScanned}

IInv == TypeOK /\ CursorInv /\ BlockInv /\ CollectedInv /\ DeadLetterReached

\* The heights of the instance, and that a scan is at one of them.
LEMMA HeightTypes ==
    ASSUME TypeOK, CursorInv
    PROVE  /\ Heights \subseteq Nat \ {0}
           /\ final \in Nat /\ lastScanned \in Nat /\ persisted \in Nat /\ target \in Nat
           /\ 1..final \subseteq Heights
           /\ Scanning => Height \in Heights /\ Height <= final
<1>1. final \in Nat /\ 1..final \subseteq Heights /\ Heights \subseteq Nat \ {0}
  BY ScannerAssumption DEF TypeOK, Heights
<1>2. lastScanned \in Nat /\ persisted \in Nat /\ target \in Nat
  BY DEF TypeOK
<1>3. Scanning => Height \in 1..final
  BY <1>1, <1>2 DEF CursorInv, Height
<1>4. QED
  BY <1>1, <1>2, <1>3

\* Each deposit due of a block carries the block's height.
LEMMA DueHeight == ASSUME NEW h, NEW d \in Due(h) PROVE d.height = h
BY DEF Due

\* A step of scanBlock either stays at its block or leaves it done, with
\* exactly what is due of it.
LEMMA ScanStep ==
    ASSUME IInv, NullAnswers = FALSE, ScanBlock
    PROVE  /\ Scanning
           /\ \/ Complete(Due(Height))
              \/ /\ UNCHANGED <<l1Vars, persisted, delivered, lastScanned, target, deposits>>
                 /\ pc' \in {"raws", "receipts", "returned"}
<1> USE DEF l1Vars
<1>1. pc = "scan" \/ pc = "raws" \/ pc = "receipts"
  BY DEF ScanBlock, ReadBlock, ReadBlockFails, FetchRawTx, RetryRawTx, ExhaustRawTx,
         RawTxUnsupported, BuildTxProofs, ReadReceipts, ReadReceiptsFails
<1>2. Scanning /\ Height \in Heights
  BY <1>1, HeightTypes DEF IInv, Scanning
<1>3. chain[Height] \in RpcBlock
  BY <1>2 DEF IInv, TypeOK
<1>4. Due(Height) = EthDeposits(Height, chain[Height])
                      \cup TokenDeposits(Height, chain[Height], filterLogs(chain[Height], Tokens), {})
  BY <1>2, <1>3, ScanFindsDue
<1>5. EthDepositIndices(chain[Height]) = {} => EthDeposits(Height, chain[Height]) = {}
  BY DEF EthDeposits
<1>6. TokenDeposits(Height, chain[Height], {}, {}) = {}
  BY DEF TokenDeposits
<1>7. CASE ReadBlock
  <2>1. Answers = [txs : {chain[Height]}, tokens : {Tokens}]
    BY DEF Answers, MayBeNull
  <2>2. ASSUME NEW answer \in [txs : {chain[Height]}, tokens : {Tokens}]
        PROVE  answer.txs = chain[Height] /\ answer.tokens = Tokens
    OBVIOUS
  <2>3. IF EthDepositIndices(chain[Height]) = {} /\ filterLogs(chain[Height], Tokens) = {}
        THEN Complete({})
        ELSE /\ UNCHANGED <<l1Vars, persisted, delivered, lastScanned, target, deposits>>
             /\ pc' = IF EthDepositIndices(chain[Height]) = {} THEN "receipts" ELSE "raws"
    BY <1>7, <2>1, <2>2 DEF ReadBlock
  <2>4. QED
    BY <1>2, <1>4, <1>5, <1>6, <2>3
<1>8. CASE ReadBlockFails \/ ExhaustRawTx \/ RawTxUnsupported \/ ReadReceiptsFails
  BY <1>2, <1>8 DEF ReadBlockFails, ExhaustRawTx, RawTxUnsupported, ReadReceiptsFails, Fail
<1>9. CASE FetchRawTx \/ RetryRawTx
  BY <1>2, <1>9 DEF FetchRawTx, RetryRawTx
<1>10. CASE BuildTxProofs
  <2>1. block = chain[Height] /\ hits = filterLogs(chain[Height], Tokens)
    BY <1>10 DEF IInv, BlockInv, BuildTxProofs
  <2>2. CASE hits = {}
    BY <1>2, <1>4, <1>6, <1>10, <2>1, <2>2 DEF BuildTxProofs
  <2>3. CASE hits # {}
    BY <1>2, <1>10, <2>3 DEF BuildTxProofs
  <2>4. QED
    BY <2>2, <2>3
<1>11. CASE ReadReceipts
  <2>1. block = chain[Height] /\ hits = filterLogs(chain[Height], Tokens)
    BY <1>11 DEF IInv, BlockInv, ReadReceipts
  <2>2. Receipts({}) = chain[Height]
    BY <2>1, ReceiptsWhole DEF IInv, TypeOK
  <2>3. Height \in Nat
    BY <1>2, HeightTypes DEF IInv
  <2>4. Located(Receipts({}))
    BY <1>3, <2>1, <2>2, <2>3, TransfersAreDue DEF Located
  <2>5. Complete(EthDeposits(Height, block) \cup TokenDeposits(Height, Receipts({}), hits, {}))
    BY <1>11, <2>4 DEF ReadReceipts, MayBeNull
  <2>6. QED
    BY <1>2, <1>4, <2>1, <2>2, <2>5
<1>12. QED
  BY <1>7, <1>8, <1>9, <1>10, <1>11 DEF ScanBlock

\* The cursors keep their places.
LEMMA CursorStep ==
    ASSUME IInv, NullAnswers = FALSE, Next
    PROVE  CursorInv'
<1> USE DEF CursorInv, Scanning, l1Vars
<1>1. /\ final \in Nat /\ lastScanned \in Nat /\ persisted \in Nat /\ target \in Nat
      /\ Heights \subseteq Nat
  BY HeightTypes DEF IInv
<1>2. CASE Begin
  BY <1>1, <1>2 DEF Begin, IInv
<1>3. CASE ScanBlock
  <2>1. CASE Complete(Due(Height))
    <3>1. /\ lastScanned' = lastScanned + 1
          /\ pc' = IF lastScanned + 1 = target THEN "returned" ELSE "scan"
          /\ UNCHANGED <<final, persisted, target>>
      BY <2>1 DEF Complete, Height
    <3>2. Scanning
      BY <1>3, ScanStep
    <3>3. QED
      BY <1>1, <3>1, <3>2 DEF IInv
  <2>2. CASE ~Complete(Due(Height))
    BY <1>1, <1>3, <2>2, ScanStep DEF IInv
  <2>3. QED
    BY <2>1, <2>2
<1>4. CASE Start
  BY <1>1, <1>4 DEF Start, IInv
<1>5. CASE Persist
  BY <1>1, <1>5 DEF Persist, Persistable, IInv
<1>6. CASE \E d \in deposits : HandOver(d)
  BY <1>1, <1>6 DEF HandOver, IInv
<1>7. CASE Crash
  BY <1>1, <1>7 DEF Crash, IInv
<1>8. CASE Finalize
  BY <1>1, <1>8 DEF Finalize, IInv
<1>9. CASE Stabilise \/ DeadLetterEntries
  BY <1>9 DEF Stabilise, DeadLetterEntries, IInv
<1>10. QED
  BY <1>2, <1>3, <1>4, <1>5, <1>6, <1>7, <1>8, <1>9 DEF Next, Caller

\* A block that is being scanned stays the one of L1.
LEMMA BlockStep ==
    ASSUME IInv, NullAnswers = FALSE, Next
    PROVE  BlockInv'
<1> USE DEF BlockInv, l1Vars, blockVars, Height
<1>1. CASE ReadBlock
  <2>1. Answers = [txs : {chain[Height]}, tokens : {Tokens}]
    BY DEF Answers, MayBeNull
  <2>2. ASSUME NEW answer \in [txs : {chain[Height]}, tokens : {Tokens}]
        PROVE  answer.txs = chain[Height] /\ answer.tokens = Tokens
    OBVIOUS
  <2>3. \/ Complete({})
        \/ /\ block' = chain[Height]
           /\ hits' = filterLogs(chain[Height], Tokens)
           /\ pc' = IF EthDepositIndices(chain[Height]) = {} THEN "receipts" ELSE "raws"
           /\ UNCHANGED <<chain, lastScanned>>
    BY <1>1, <2>1, <2>2 DEF ReadBlock
  <2>4. CASE Complete({})
    BY <2>4 DEF Complete
  <2>5. CASE ~Complete({})
    BY <2>3, <2>5 DEF EthDepositIndices
  <2>6. QED
    BY <2>4, <2>5
<1>2. CASE ReadBlockFails \/ ExhaustRawTx \/ RawTxUnsupported \/ ReadReceiptsFails
  BY <1>2 DEF ReadBlockFails, ExhaustRawTx, RawTxUnsupported, ReadReceiptsFails, Fail
<1>3. CASE FetchRawTx \/ RetryRawTx
  BY <1>3 DEF FetchRawTx, RetryRawTx, IInv, EthDepositIndices
<1>4. CASE BuildTxProofs
  BY <1>4 DEF BuildTxProofs, Complete, IInv, EthDepositIndices
<1>5. CASE ReadReceipts
  BY <1>5 DEF ReadReceipts, Complete, Fail
<1>6. CASE Begin \/ Start \/ Persist \/ Crash \/ \E d \in deposits : HandOver(d)
  BY <1>6 DEF Begin, Start, Persist, Persistable, Crash, HandOver
<1>7. CASE Finalize \/ Stabilise \/ DeadLetterEntries
  BY <1>7 DEF Finalize, Stabilise, DeadLetterEntries, IInv, EthDepositIndices
<1>8. QED
  BY <1>1, <1>2, <1>3, <1>4, <1>5, <1>6, <1>7 DEF Next, ScanBlock, Caller

\* L1's blocks do not change, and with them what is due.
LEMMA ChainFixed == ASSUME Next PROVE chain' = chain /\ \A h : Due(h)' = Due(h)
<1>1. chain' = chain
  BY DEF Next, Begin, ScanBlock, ReadBlock, ReadBlockFails, FetchRawTx, RetryRawTx, ExhaustRawTx,
         RawTxUnsupported, BuildTxProofs, ReadReceipts, ReadReceiptsFails, Caller, Start, Persist,
         HandOver, Crash, Finalize, Stabilise, DeadLetterEntries, Complete, Fail, l1Vars
<1>2. QED
  BY <1>1 DEF Due

\* What is due of finalized blocks stays so when more blocks are finalized.
LEMMA DueUpTo ==
    ASSUME NEW m \in Nat, NEW n \in Nat, m <= n
    PROVE  UNION {Due(h) : h \in 1..m} \subseteq UNION {Due(h) : h \in 1..n}
<1>1. 1..m \subseteq 1..n
  OBVIOUS
<1>2. QED
  BY <1>1

\* What was collected stays handed over or about to be.
LEMMA CollectedStep ==
    ASSUME IInv, NullAnswers = FALSE, Next
    PROVE  CollectedInv'
<1>1. /\ final \in Nat /\ lastScanned \in Nat /\ persisted \in Nat
      /\ Heights \subseteq Nat \ {0}
  BY HeightTypes DEF IInv
<1>2. \A h : Due(h)' = Due(h)
  BY ChainFixed
<1>3. \A h \in Heights : h <= persisted => Due(h) \subseteq delivered
  BY DEF IInv, CollectedInv, NoDepositSkipped
<1>4. delivered \subseteq UNION {Due(h) : h \in 1..final}
  BY DEF IInv, CollectedInv, OnlyDueDelivered
<1>5. pc # "down" => \A h \in Heights : h <= lastScanned => Due(h) \subseteq delivered \cup deposits
  BY DEF IInv, CollectedInv
<1>6. deposits \subseteq UNION {Due(h) : h \in 1..lastScanned}
  BY DEF IInv, CollectedInv
<1> DEFINE Goal ==
      /\ \A h \in Heights : h <= persisted' => Due(h) \subseteq delivered'
      /\ delivered' \subseteq UNION {Due(h) : h \in 1..final'}
      /\ pc' # "down" => \A h \in Heights :
                            h <= lastScanned' => Due(h) \subseteq delivered' \cup deposits'
      /\ deposits' \subseteq UNION {Due(h) : h \in 1..lastScanned'}
<1> SUFFICES Goal
  BY <1>2 DEF CollectedInv, NoDepositSkipped, OnlyDueDelivered
<1>7. ASSUME UNCHANGED <<final, persisted, delivered, lastScanned, deposits>>, pc # "down"
      PROVE  Goal
  BY <1>3, <1>4, <1>5, <1>6, <1>7
<1>8. CASE ScanBlock
  <2>1. CASE Complete(Due(Height))
    <3>1. /\ lastScanned' = lastScanned + 1
          /\ deposits' = deposits \cup Due(lastScanned + 1)
          /\ UNCHANGED <<final, persisted, delivered>>
      BY <2>1 DEF Complete, Height, l1Vars
    <3>2. lastScanned + 1 \in 1..(lastScanned + 1)
      BY <1>1
    <3>3. UNION {Due(h) : h \in 1..lastScanned} \subseteq UNION {Due(h) : h \in 1..(lastScanned + 1)}
      BY <1>1, DueUpTo
    <3>4. Due(lastScanned + 1) \subseteq UNION {Due(h) : h \in 1..(lastScanned + 1)}
      BY <3>2
    <3>5. deposits' \subseteq UNION {Due(h) : h \in 1..lastScanned'}
      BY <1>6, <3>1, <3>3, <3>4
    <3>6. pc # "down"
      BY <1>8, ScanStep DEF Scanning
    <3>7. \A h \in Heights : h <= lastScanned + 1 => h <= lastScanned \/ h = lastScanned + 1
      BY <1>1
    <3>8. \A h \in Heights : h <= lastScanned' => Due(h) \subseteq delivered' \cup deposits'
      BY <1>5, <3>1, <3>6, <3>7
    <3>9. QED
      BY <1>3, <1>4, <3>1, <3>5, <3>8
  <2>2. CASE ~Complete(Due(Height))
    <3>1. UNCHANGED <<final, persisted, delivered, lastScanned, deposits>> /\ pc # "down"
      BY <1>8, <2>2, ScanStep DEF l1Vars, Scanning
    <3>2. QED
      BY <1>7, <3>1
  <2>3. QED
    BY <2>1, <2>2
<1>9. CASE Begin
  BY <1>7, <1>9 DEF Begin, l1Vars
<1>10. CASE Start
  <2>1. deposits = {} /\ deposits' = {}
    BY <1>10 DEF Start, IInv, CursorInv
  <2>2. UNCHANGED <<final, persisted, delivered>> /\ lastScanned' = persisted
    BY <1>10 DEF Start, l1Vars
  <2>3. QED
    BY <1>3, <1>4, <2>1, <2>2
<1>11. CASE Persist
  <2>1. deposits = {} /\ pc # "down"
    BY <1>11 DEF Persist, Persistable
  <2>2. UNCHANGED <<final, delivered, lastScanned, deposits>> /\ persisted' = lastScanned
    BY <1>11 DEF Persist, l1Vars
  <2>3. QED
    BY <1>4, <1>5, <1>6, <2>1, <2>2
<1>12. CASE \E d \in deposits : HandOver(d)
  <2>1. PICK d \in deposits : HandOver(d)
    BY <1>12
  <2>2. /\ UNCHANGED <<final, persisted, lastScanned, pc>>
        /\ delivered' = delivered \cup {d}
        /\ deposits' = deposits \ {d}
        /\ pc # "down"
    BY <2>1 DEF HandOver, l1Vars
  <2>3. lastScanned <= final
    BY <2>2 DEF IInv, CursorInv
  <2>4. d \in UNION {Due(h) : h \in 1..final}
    BY <1>1, <1>6, <2>3, DueUpTo
  <2>5. delivered' \subseteq UNION {Due(h) : h \in 1..final'}
    BY <1>4, <2>2, <2>4
  <2>6. delivered \cup deposits \subseteq delivered' \cup deposits'
    BY <2>2
  <2>7. QED
    BY <1>3, <1>5, <1>6, <2>2, <2>5, <2>6
<1>13. CASE Crash
  BY <1>3, <1>4, <1>13 DEF Crash, l1Vars
<1>14. CASE Finalize
  <2>1. /\ final' = final + 1
        /\ UNCHANGED <<persisted, delivered, lastScanned, pc, deposits>>
    BY <1>14 DEF Finalize
  <2>2. UNION {Due(h) : h \in 1..final} \subseteq UNION {Due(h) : h \in 1..(final + 1)}
    BY <1>1, DueUpTo
  <2>3. QED
    BY <1>3, <1>4, <1>5, <1>6, <2>1, <2>2
<1>15. CASE Stabilise \/ DeadLetterEntries
  BY <1>3, <1>4, <1>5, <1>6, <1>15 DEF Stabilise, DeadLetterEntries, l1Vars
<1>16. QED
  BY <1>8, <1>9, <1>10, <1>11, <1>12, <1>13, <1>14, <1>15 DEF Next, Caller

\* Dead letters stay about blocks the scan reached.
LEMMA DeadLetterStep ==
    ASSUME IInv, NullAnswers = FALSE, Next
    PROVE  DeadLetterReached'
<1> USE DEF DeadLetterReached, Height
<1>1. /\ final \in Nat /\ lastScanned \in Nat
      /\ chain' = chain
  BY HeightTypes, ChainFixed DEF IInv
<1>2. ASSUME final <= final', final' \in Nat, deadLetter' \subseteq deadLetter,
             lastScanned <= lastScanned', lastScanned' \in Nat
      PROVE  DeadLetterReached'
  BY <1>1, <1>2 DEF IInv, TypeOK
<1>3. CASE ExhaustRawTx
  <2>1. /\ deadLetter' = deadLetter \cup {[height |-> Height, tx |-> fetched]}
        /\ UNCHANGED <<final, lastScanned>>
    BY <1>3 DEF ExhaustRawTx, recordDeadLetter, Fail, l1Vars
  <2>2. /\ block = chain[Height]
        /\ EthDepositIndices(block) # {}
        /\ fetched < Len(block)
    BY <1>3 DEF ExhaustRawTx, IInv, BlockInv
  <2>3. Height \in 1..final
    BY <1>3, HeightTypes DEF ExhaustRawTx, IInv, Scanning
  <2>4. block \in RpcBlock
    BY DEF IInv, TypeOK
  <2>5. \E i \in DOMAIN block : block[i].toVault
    BY <2>2, <2>4, TxTypes DEF EthDepositIndices
  <2>6. QED
    BY <1>1, <2>1, <2>2, <2>3, <2>5 DEF IInv
<1>4. CASE ScanBlock /\ ~ExhaustRawTx
  <2>1. deadLetter' = deadLetter
    BY <1>4 DEF ScanBlock, ReadBlock, ReadBlockFails, FetchRawTx, RetryRawTx, RawTxUnsupported,
                BuildTxProofs, ReadReceipts, ReadReceiptsFails, Complete
  <2>2. final' = final /\ (lastScanned' = lastScanned \/ lastScanned' = lastScanned + 1)
    BY <1>4, ScanStep DEF Complete, l1Vars
  <2>3. QED
    BY <1>1, <1>2, <2>1, <2>2
<1>5. CASE Start \/ Crash
  BY <1>5 DEF Start, Crash, IInv, CursorInv
<1>6. CASE Begin \/ Persist \/ DeadLetterEntries \/ Stabilise \/ \E d \in deposits : HandOver(d)
  BY <1>1, <1>2, <1>6 DEF Begin, Persist, DeadLetterEntries, Stabilise, HandOver, l1Vars
<1>7. CASE Finalize
  BY <1>1, <1>2, <1>7 DEF Finalize
<1>8. QED
  BY <1>3, <1>4, <1>5, <1>6, <1>7 DEF Next, Caller

\* The invariant holds initially.
LEMMA InvInit == Init => IInv
<1> SUFFICES ASSUME Init PROVE IInv
  OBVIOUS
<1>1. Heights \subseteq Nat \ {0}
  BY ScannerAssumption DEF Heights
<1>2. NoDepositSkipped
  BY <1>1 DEF Init, NoDepositSkipped
<1>3. QED
  BY <1>2, TypeInit DEF Init, IInv, CursorInv, BlockInv, CollectedInv, OnlyDueDelivered,
                        DeadLetterReached, Scanning

\* Every step keeps it.
LEMMA InvStep == ASSUME NullAnswers = FALSE PROVE IInv /\ [Next]_vars => IInv'
<1>1. ASSUME IInv, Next PROVE IInv'
  <2>1. pc = "scan" => Height \in Heights
    BY <1>1, HeightTypes DEF IInv, Scanning
  <2>2. TypeOK'
    BY <1>1, <2>1, ScanBlockType, OtherType DEF Next, IInv
  <2>3. QED
    BY <1>1, <2>2, CursorStep, BlockStep, CollectedStep, DeadLetterStep DEF IInv
<1>2. ASSUME IInv, UNCHANGED vars PROVE IInv'
  BY <1>2 DEF IInv, TypeOK, CursorInv, BlockInv, CollectedInv, NoDepositSkipped, OnlyDueDelivered,
              DeadLetterReached, Scanning, Height, Due, vars, l1Vars, blockVars
<1>3. QED
  BY <1>1, <1>2

\* It holds throughout.
LEMMA InvAlways == ASSUME NullAnswers = FALSE PROVE Spec => []IInv
<1>1. IInv /\ [Next]_vars => IInv'
  BY InvStep
<1>2. QED
  BY <1>1, InvInit, PTL DEF Spec

(***************************************************************************)
(* The theorems.                                                           *)
(***************************************************************************)
\* The scanner's state keeps its types, with a node that answers or fails.
THEOREM ScannerTypes == ASSUME NullAnswers = FALSE PROVE Spec => []TypeOK
<1>1. IInv => TypeOK
  BY DEF IInv
<1>2. QED
  BY <1>1, InvAlways, PTL

\* scanner.go, HIGH #24 and N1: over every chain, failure, retry and crash, the
\* deposits of the blocks up to the persisted cursor were all handed over.
THEOREM NoneSkipped == ASSUME NullAnswers = FALSE PROVE Spec => []NoDepositSkipped
<1>1. IInv => NoDepositSkipped
  BY DEF IInv, CollectedInv
<1>2. QED
  BY <1>1, InvAlways, PTL

\* scanner.go, F2 and CRIT #14: what is handed over is a deposit of a finalized
\* block, in the slot its log has in its receipt, with a proof of the block.
THEOREM NoneInvented == ASSUME NullAnswers = FALSE PROVE Spec => []OnlyDueDelivered
<1>1. IInv => OnlyDueDelivered
  BY DEF IInv, CollectedInv
<1>2. QED
  BY <1>1, InvAlways, PTL

\* scanner.go, N1: a dead letter is about a block at or behind the pin.
THEOREM DeadLettersReached == ASSUME NullAnswers = FALSE PROVE Spec => []DeadLetterReached
<1>1. IInv => DeadLetterReached
  BY DEF IInv
<1>2. QED
  BY <1>1, InvAlways, PTL

\* A deposit is handed over after every deposit of the blocks before its own.
LEMMA HandOverOrder ==
    ASSUME IInv, NEW d \in deposits, HandOver(d)
    PROVE  /\ d.height \in Heights
           /\ d.height <= final
           /\ d \in Due(d.height)
           /\ \A k \in Heights : k < d.height => Due(k) \subseteq delivered
<1>1. /\ final \in Nat /\ lastScanned \in Nat /\ Heights \subseteq Nat \ {0}
      /\ 1..final \subseteq Heights
  BY HeightTypes DEF IInv
<1>2. PICK h \in 1..lastScanned : d \in Due(h)
  BY DEF IInv, CollectedInv
<1>3. d.height = h
  BY <1>2, DueHeight
<1>4. pc = "returned" /\ lastScanned <= final
  BY DEF HandOver, IInv, CursorInv
<1>5. h \in Heights /\ h <= final
  BY <1>1, <1>2, <1>4
<1>6. ASSUME NEW k \in Heights, k < h, NEW e \in Due(k) PROVE e \in delivered
  <2>1. Due(k) \subseteq delivered \cup deposits
    BY <1>1, <1>2, <1>4, <1>6 DEF IInv, CollectedInv
  <2>2. e.height = k
    BY <1>6, DueHeight
  <2>3. e \notin deposits
    BY <1>1, <1>3, <1>6, <2>2 DEF HandOver
  <2>4. QED
    BY <1>6, <2>1, <2>3
<1>7. QED
  BY <1>2, <1>3, <1>5, <1>6

\* scanner.go: the scanner with its caller is an implementation of the feed,
\* which hands deposits over in block order, at least once, and acknowledges
\* a block after its deposits.
THEOREM ScannerImplementsFeed == ASSUME NullAnswers = FALSE PROVE Spec => ImplementsFeed
<1> DEFINE due == [h \in Heights |-> Due(h)]
<1>1. Init => Feed!Init
  BY DEF Init, Feed!Init
<1>2. ASSUME IInv, [Next]_vars PROVE [Feed!Next]_(Feed!vars)
  <2>1. CASE UNCHANGED vars
    BY <2>1 DEF vars, l1Vars, Feed!vars, Due
  <2>2. CASE Next
    <3>1. due' = due
      BY <2>2, ChainFixed
    <3>2. /\ final \in Nat /\ lastScanned \in Nat /\ persisted \in Nat
          /\ 1..final \subseteq Heights
          /\ Heights \subseteq Nat
      BY <1>2, HeightTypes DEF IInv
    <3>3. CASE ScanBlock \/ Begin \/ Start \/ Crash \/ Stabilise \/ DeadLetterEntries
      <4>1. UNCHANGED <<final, persisted, delivered>>
        BY <1>2, <3>3, ScanStep DEF Complete, Begin, Start, Crash, Stabilise, DeadLetterEntries,
                                    l1Vars
      <4>2. QED
        BY <3>1, <4>1 DEF Feed!vars
    <3>4. CASE Finalize
      <4>1. final' \in {h \in Heights : h > final}
        BY <3>2, <3>4, ScannerAssumption DEF Finalize, Heights
      <4>2. UNCHANGED <<persisted, delivered>>
        BY <3>4 DEF Finalize
      <4>3. QED
        BY <3>1, <4>1, <4>2 DEF Feed!Next, Feed!Finalize
    <3>5. CASE Persist
      <4>1. /\ deposits = {} /\ pc = "returned"
            /\ persisted' = lastScanned
            /\ UNCHANGED <<final, delivered>>
        BY <3>5 DEF Persist, Persistable, l1Vars
      <4>2. persisted <= lastScanned /\ lastScanned <= final
        BY <1>2, <4>1 DEF IInv, CursorInv
      <4>3. CASE persisted = lastScanned
        BY <3>1, <4>1, <4>3 DEF Feed!vars
      <4>4. CASE persisted # lastScanned
        <5>1. lastScanned \in Heights
          BY <3>2, <4>2, <4>4
        <5>2. \A k \in Heights : k <= lastScanned => due[k] \subseteq delivered
          BY <1>2, <4>1 DEF IInv, CollectedInv
        <5>3. Feed!Acknowledge(lastScanned)
          BY <3>1, <3>2, <4>1, <4>2, <4>4, <5>2 DEF Feed!Acknowledge
        <5>4. QED
          BY <5>1, <5>3 DEF Feed!Next
      <4>5. QED
        BY <4>3, <4>4
    <3>6. CASE \E d \in deposits : HandOver(d)
      <4>1. PICK d \in deposits : HandOver(d)
        BY <3>6
      <4>2. /\ delivered' = delivered \cup {d}
            /\ UNCHANGED <<final, persisted>>
        BY <4>1 DEF HandOver, l1Vars
      <4>3. d.height \in Heights /\ d \in due[d.height] /\ Feed!Deliver(d.height, d)
        BY <1>2, <3>1, <4>1, <4>2, HandOverOrder DEF Feed!Deliver
      <4>4. QED
        BY <4>3 DEF Feed!Next
    <3>7. QED
      BY <2>2, <3>3, <3>4, <3>5, <3>6 DEF Next, Caller
  <2>3. QED
    BY <1>2, <2>1, <2>2
<1>3. IInv /\ [Next]_vars => [Feed!Next]_(Feed!vars)
  BY <1>2
<1>4. QED
  BY <1>1, <1>3, InvAlways, PTL DEF Spec, ImplementsFeed, Feed!Spec
============================================================================
