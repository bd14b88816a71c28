------------------------- MODULE Withdrawal_proofs -------------------------
(***************************************************************************)
(* Proofs about the withdrawal lifecycle, for every number of accounts,    *)
(* tokens, withdrawals and blocks: the queue, its nonces and the vault's   *)
(* transactions first; then what a withdrawal takes from the ledger and    *)
(* what its settlement gives back: the gas reserve, the supply totals, the *)
(* allowances, the refinement of the abstract escrow, and the solvency of  *)
(* the vault.                                                              *)
(***************************************************************************)
EXTENDS WithdrawalAccounting, Ledger_proofs, SequenceTheorems

(***************************************************************************)
(* Lemmas about the withdrawal queue.                                      *)
(***************************************************************************)
\* withdrawal.go: storing an entry, or deleting one, keeps the others as they
\* were.
LEMMA StorePendingSpendType ==
    ASSUME TypeOK, NEW ps \in PendingSpend
    PROVE  /\ DOMAIN StorePendingSpend(ps) = DOMAIN spends \cup {ps.nonce}
           /\ DOMAIN StorePendingSpend(ps) \subseteq Nat
           /\ \A n \in DOMAIN StorePendingSpend(ps) : StorePendingSpend(ps)[n] \in PendingSpend
BY DEF TypeOK, StorePendingSpend, PendingSpend

LEMMA DeletePendingSpendType ==
    ASSUME TypeOK, NEW k
    PROVE  /\ DOMAIN DeletePendingSpend(k) = DOMAIN spends \ {k}
           /\ \A n \in DOMAIN DeletePendingSpend(k) :
                 /\ DeletePendingSpend(k)[n] = spends[n]
                 /\ DeletePendingSpend(k)[n] \in PendingSpend
BY DEF TypeOK, DeletePendingSpend

\* handlers.go: the entry an unmap stores is well typed.
LEMMA NewSpendType ==
    ASSUME TypeOK, NEW from \in Accounts, NEW to \in Recipients, NEW asset \in Assets,
           NEW token \in Assets, NEW amt \in Nat, NEW gas \in Nat
    PROVE  /\ NewSpend(from, to, asset, token, amt, gas) \in PendingSpend
           /\ NewSpend(from, to, asset, token, amt, gas).nonce = pendingNonce
BY DEF TypeOK, NewSpend, PendingSpend

\* handlers.go: the transaction built from an entry is well typed.
LEMMA PaymentTxType ==
    ASSUME NEW ps \in PendingSpend, NEW kind \in {"first", "bumped", "roll"}, NEW n \in Nat
    PROVE  PaymentTx(kind, n, ps) \in Tx
BY DEF PendingSpend, PaymentTx, Tx

\* handlers.go: Enqueue leaves the queue and the signers well typed.
LEMMA EnqueueType ==
    ASSUME TypeOK, NEW ps \in PendingSpend, Enqueue(ps)
    PROVE  /\ paused' \in BOOLEAN
           /\ confirmedNonce' \in Nat
           /\ pendingNonce' \in Nat
           /\ DOMAIN spends' \subseteq Nat
           /\ \A n \in DOMAIN spends' : spends'[n] \in PendingSpend
           /\ vault' \in VaultAddrs
           /\ lastHeight' \in Nat
           /\ signed' \subseteq Tx
           /\ mined' \in Seq(MinedTx)
           /\ tip' \in Nat
           /\ hive' \in Nat
<1>1. ps.nonce \in Nat
  BY DEF PendingSpend
<1>2. PaymentTx("first", ps.nonce, ps) \in Tx
  BY <1>1, PaymentTxType
<1>3. spends' = StorePendingSpend(ps)
  BY DEF Enqueue
<1>4. /\ DOMAIN spends' \subseteq Nat
      /\ \A n \in DOMAIN spends' : spends'[n] \in PendingSpend
  BY <1>3, StorePendingSpendType
<1>5. QED
  BY <1>1, <1>2, <1>4 DEF TypeOK, LedgerTypeOK, Enqueue, l1Vars

(***************************************************************************)
(* Type correctness.                                                       *)
(***************************************************************************)
\* Every variable starts with its type.
LEMMA TypeInit == Init => TypeOK
<1>1. ASSUME Init PROVE TypeOK
  <2>1. LedgerTypeOK
    BY <1>1, LedgerAssumption DEF Init, LedgerInit, LedgerTypeOK
  <2>2. mined \in Seq(MinedTx)
    BY <1>1 DEF Init
  <2>3. vault \in VaultAddrs
    BY <1>1 DEF Init, VaultAddrs
  <2>4. DOMAIN spends = {}
    BY <1>1 DEF Init
  <2>5. QED
    BY <1>1, <2>1, <2>2, <2>3, <2>4, WithdrawalAssumption DEF Init, TypeOK
<1>2. QED
  BY <1>1

\* The deduction of an ETH withdrawal is a natural number no less than its
\* amount.
LEMMA TotalDeductType ==
    ASSUME NEW amt \in Nat, NEW cap \in FeeCaps, NEW d \in BOOLEAN
    PROVE  TotalDeduct(amt, cap, d) \in Nat /\ TotalDeduct(amt, cap, d) >= amt
<1>1. EthGas * cap \in Nat
  BY WithdrawalAssumption, ProductType
<1>2. QED
  BY <1>1 DEF TotalDeduct

\* HandleUnmapETH's clamped supply update keeps natural numbers.
LEMMA BookEthWithdrawalType ==
    ASSUME supply \in Supplies, NEW amt \in Nat, NEW total \in Nat, total >= amt
    PROVE  BookEthWithdrawal(amt, total) \in Supplies
<1>1. Eth \in Assets
  BY DEF Assets
<1>2. QED
  BY <1>1 DEF Supplies, SupplyRecord, BookEthWithdrawal, Floor0

\* The three unmap handlers keep every type.
LEMMA UnmapType == ASSUME TypeOK, Unmap PROVE TypeOK'
<1>1. /\ bal \in Balances
      /\ allow \in Allowances
      /\ supply \in Supplies
      /\ reserve \in Nat
  BY DEF TypeOK, LedgerTypeOK, Balances, Allowances, Supplies
<1>2. PICK c \in Callers, to \in Recipients, amt \in Amounts, cap \in FeeCaps :
         \/ \E d \in BOOLEAN : UnmapETH(c, to, amt, cap, d)
         \/ \E t \in Tokens : UnmapERC20(c, to, t, amt, cap)
         \/ \E from \in Accounts, d \in BOOLEAN : UnmapFromETH(c, from, to, amt, cap, d)
         \/ \E from \in Accounts, a \in Tokens, t \in Tokens :
                UnmapFromERC20(c, from, to, a, t, amt, cap)
  BY DEF Unmap
<1>3. /\ c \in Accounts
      /\ amt \in Nat
      /\ Eth \in Assets
      /\ Tokens \subseteq Assets
  BY LedgerAssumption DEF Assets
<1>4. TokenGas * cap \in Nat
  BY WithdrawalAssumption, ProductType
<1>5. deductGasReserve(TokenGas * cap) \in Nat
  BY <1>1, <1>4 DEF deductGasReserve, Floor0
<1>6. ASSUME NEW ps \in PendingSpend, Enqueue(ps),
             bal' \in Balances, allow' \in Allowances, supply' \in Supplies, reserve' \in Nat
      PROVE  TypeOK'
  BY <1>6, EnqueueType DEF TypeOK, LedgerTypeOK, Balances, Allowances, Supplies
<1>7. CASE \E d \in BOOLEAN : UnmapETH(c, to, amt, cap, d)
  <2>1. PICK d \in BOOLEAN : UnmapETH(c, to, amt, cap, d)
    BY <1>7
  <2> DEFINE total == TotalDeduct(amt, cap, d)
  <2>2. total \in Nat /\ total >= amt
    BY <1>3, TotalDeductType
  <2>3. bal' \in Balances
    BY <1>1, <1>3, <2>1, <2>2, DecBalanceType DEF UnmapETH, CanDebit
  <2>4. supply' \in Supplies
    BY <1>1, <1>3, <2>1, <2>2, BookEthWithdrawalType DEF UnmapETH
  <2>5. NewSpend(c, to, Eth, Eth, amt, 0) \in PendingSpend
    BY <1>3, NewSpendType
  <2>6. QED
    BY <1>1, <1>6, <2>1, <2>3, <2>4, <2>5 DEF UnmapETH
<1>8. CASE \E t \in Tokens : UnmapERC20(c, to, t, amt, cap)
  <2>1. PICK t \in Tokens : UnmapERC20(c, to, t, amt, cap)
    BY <1>8
  <2>2. bal' \in Balances
    BY <1>1, <1>3, <2>1, DecBalanceType DEF UnmapERC20, CanDebit
  <2>3. supply' \in Supplies
    BY <1>1, <1>3, <2>1, TrackWithdrawalType DEF UnmapERC20
  <2>4. NewSpend(c, to, t, t, amt, TokenGas * cap) \in PendingSpend
    BY <1>3, <1>4, NewSpendType
  <2>5. QED
    BY <1>1, <1>5, <1>6, <2>1, <2>2, <2>3, <2>4 DEF UnmapERC20
<1>9. CASE \E from \in Accounts, d \in BOOLEAN : UnmapFromETH(c, from, to, amt, cap, d)
  <2>1. PICK from \in Accounts, d \in BOOLEAN : UnmapFromETH(c, from, to, amt, cap, d)
    BY <1>9
  <2>2. TotalDeduct(amt, cap, d) \in Nat
    BY <1>3, TotalDeductType
  <2>3. bal' \in Balances
    BY <1>1, <1>3, <2>1, <2>2, DecBalanceType DEF UnmapFromETH, CanDebit
  <2>4. GetAllowance(from, c, Eth) - amt \in Nat
    BY <1>1, <1>3, <2>1, GetAllowanceType DEF UnmapFromETH
  <2>5. allow' \in Allowances
    BY <1>1, <1>3, <2>1, <2>4, SetAllowanceType DEF UnmapFromETH, SpendAllowance
  <2>6. supply' \in Supplies
    BY <1>1, <1>3, <2>1, TrackWithdrawalType DEF UnmapFromETH
  <2>7. NewSpend(from, to, Eth, Eth, amt, 0) \in PendingSpend
    BY <1>3, NewSpendType
  <2>8. QED
    BY <1>1, <1>6, <2>1, <2>3, <2>5, <2>6, <2>7 DEF UnmapFromETH
<1>10. CASE \E from \in Accounts, a \in Tokens, t \in Tokens :
               UnmapFromERC20(c, from, to, a, t, amt, cap)
  <2>1. PICK from \in Accounts, a \in Tokens, t \in Tokens :
               UnmapFromERC20(c, from, to, a, t, amt, cap)
    BY <1>10
  <2>2. bal' \in Balances
    BY <1>1, <1>3, <2>1, DecBalanceType DEF UnmapFromERC20, CanDebit
  <2>3. GetAllowance(from, c, a) - amt \in Nat
    BY <1>1, <1>3, <2>1, GetAllowanceType DEF UnmapFromERC20
  <2>4. allow' \in Allowances
    BY <1>1, <1>3, <2>1, <2>3, SetAllowanceType DEF UnmapFromERC20, SpendAllowance
  <2>5. supply' \in Supplies
    BY <1>1, <1>3, <2>1, TrackWithdrawalType DEF UnmapFromERC20
  <2>6. NewSpend(from, to, a, t, amt, TokenGas * cap) \in PendingSpend
    BY <1>3, <1>4, NewSpendType
  <2>7. QED
    BY <1>5, <1>6, <2>1, <2>2, <2>4, <2>5, <2>6 DEF UnmapFromERC20
<1>11. QED
  BY <1>2, <1>7, <1>8, <1>9, <1>10

\* The balance, supply and reserve a settlement leaves are well typed.
LEMMA RefundType ==
    ASSUME TypeOK, NEW ps \in PendingSpend
    PROVE  /\ IncBalance(bal, ps.from, ps.asset, ps.amount) \in Balances
           /\ RestoreSupply(ps.asset, ps.amount) \in Supplies
           /\ addGasReserve(ps.gas) \in Nat
<1>1. /\ bal \in Balances
      /\ supply \in Supplies
      /\ reserve \in Nat
  BY DEF TypeOK, LedgerTypeOK, Balances, Supplies
<1>2. ps.from \in Accounts /\ ps.asset \in Assets /\ ps.amount \in Nat /\ ps.gas \in Nat
  BY DEF PendingSpend
<1>3. IncBalance(bal, ps.from, ps.asset, ps.amount) \in Balances
  BY <1>1, <1>2, IncBalanceType
<1>4. RestoreSupply(ps.asset, ps.amount) \in Supplies
  BY <1>1, <1>2, RestoreSupplyType
<1>5. addGasReserve(ps.gas) \in Nat
  BY <1>1, <1>2 DEF addGasReserve
<1>6. QED
  BY <1>3, <1>4, <1>5

\* handleConfirmSpend keeps every type.
LEMMA ConfirmSpendType == ASSUME TypeOK, NEW m, ConfirmSpend(m) PROVE TypeOK'
<1> DEFINE ps == spends[confirmedNonce]
<1>1. ps \in PendingSpend
  BY DEF TypeOK, ConfirmSpend
<1>2. /\ bal' \in [Accounts \X Assets -> Nat]
      /\ supply' \in [Assets -> SupplyRecord]
      /\ reserve' \in Nat
  BY <1>1, RefundType DEF TypeOK, LedgerTypeOK, ConfirmSpend, ReceiptEffect, Balances, Supplies
<1>3. /\ DOMAIN spends' \subseteq Nat
      /\ \A n \in DOMAIN spends' : spends'[n] \in PendingSpend
  BY DeletePendingSpendType DEF TypeOK, ConfirmSpend
<1>4. QED
  BY <1>2, <1>3 DEF TypeOK, LedgerTypeOK, ConfirmSpend, l1Vars

\* The refund paths keep every type, whichever nonce they refund.
LEMMA RefundAndAdvanceType ==
    ASSUME TypeOK, NEW n \in DOMAIN spends, RefundAndAdvance(n), signed' \subseteq Tx
    PROVE  TypeOK'
<1>1. spends[n] \in PendingSpend
  BY DEF TypeOK
<1>2. /\ bal' \in [Accounts \X Assets -> Nat]
      /\ supply' \in [Assets -> SupplyRecord]
      /\ reserve' \in Nat
  BY <1>1, RefundType DEF TypeOK, LedgerTypeOK, RefundAndAdvance, Balances, Supplies
<1>3. NonceAdvance(n) \in Nat
  BY DEF TypeOK, NonceAdvance
<1>4. /\ DOMAIN spends' \subseteq Nat
      /\ \A k \in DOMAIN spends' : spends'[k] \in PendingSpend
  BY DeletePendingSpendType DEF TypeOK, RefundAndAdvance
<1>5. QED
  BY <1>2, <1>3, <1>4 DEF TypeOK, LedgerTypeOK, RefundAndAdvance, l1Vars

\* clearNonce, expireWithdrawal and cancelMyWithdrawal keep every type.
LEMMA DropType == ASSUME TypeOK, Drop PROVE TypeOK'
<1>1. ASSUME NEW n \in Nat PROVE SelfTransfer(n) \in Tx
  BY DEF TypeOK, SelfTransfer, Tx, Assets
<1>2. PICK m \in Included : \/ ClearNonce(m)
                            \/ \E c \in Callers, n \in Nonces : ExpireWithdrawal(c, n, m)
                            \/ \E c \in Callers, n \in Nonces : CancelMyWithdrawal(c, n, m)
  BY DEF Drop
<1>3. CASE ClearNonce(m)
  <2>1. signed' \subseteq Tx
    BY <1>1, <1>3 DEF TypeOK, ClearNonce, HandleClearNonce
  <2>2. QED
    BY <1>3, <2>1, RefundAndAdvanceType DEF ClearNonce, HandleClearNonce
<1>4. CASE \E c \in Callers, n \in Nonces : ExpireWithdrawal(c, n, m)
  BY <1>4, RefundAndAdvanceType DEF TypeOK, ExpireWithdrawal
<1>5. CASE \E c \in Callers, n \in Nonces : CancelMyWithdrawal(c, n, m)
  <2>1. PICK c \in Callers, n \in Nonces : CancelMyWithdrawal(c, n, m)
    BY <1>5
  <2>2. signed' \subseteq Tx
    BY <1>1, <2>1 DEF TypeOK, CancelMyWithdrawal
  <2>3. QED
    BY <2>1, <2>2, RefundAndAdvanceType DEF CancelMyWithdrawal
<1>6. QED
  BY <1>2, <1>3, <1>4, <1>5

\* replaceWithdrawal, setVault and clearTestnetState keep every type.
LEMMA AdminType ==
    ASSUME TypeOK, \/ ReplaceWithdrawal
                   \/ \E v \in VaultChoices : SetVault(v)
                   \/ ClearTestnetState
    PROVE  TypeOK'
<1>1. CASE ReplaceWithdrawal
  <2>1. Replacement \in Tx
    BY <1>1, PaymentTxType DEF TypeOK, ReplaceWithdrawal, Replacement
  <2>2. QED
    BY <1>1, <2>1
       DEF TypeOK, LedgerTypeOK, ReplaceWithdrawal, ledgerVars, queueVars, l1Vars
<1>2. CASE \E v \in VaultChoices : SetVault(v)
  BY <1>2 DEF TypeOK, LedgerTypeOK, SetVault, VaultAddrs, ledgerVars, queueVars, l1Vars
<1>3. CASE ClearTestnetState
  BY <1>3 DEF TypeOK, LedgerTypeOK, ClearTestnetState, ledgerVars, l1Vars
<1>4. QED
  BY <1>1, <1>2, <1>3

\* The ledger handlers and their admin actions keep every type.
LEMMA LedgerOpType == ASSUME TypeOK, LedgerOp PROVE TypeOK'
<1>1. LedgerTypeOK'
  <2>1. CASE UserOp
    BY <2>1, UserOpType DEF TypeOK
  <2>2. CASE Pause
    BY <2>2 DEF TypeOK, LedgerTypeOK, Pause
  <2>3. CASE Unpause
    BY <2>3 DEF TypeOK, LedgerTypeOK, Unpause
  <2>4. CASE \E v \in ReserveChoices : SetGasReserve(v)
    BY <2>4, LedgerAssumption DEF TypeOK, LedgerTypeOK, SetGasReserve
  <2>5. QED
    BY <2>1, <2>2, <2>3, <2>4 DEF LedgerOp
<1>2. QED
  BY <1>1 DEF TypeOK, LedgerOp, queueVars, l1Vars

\* The header oracle, L1 and Hive keep every type.
LEMMA EnvironmentType ==
    ASSUME TypeOK, \/ AddBlock
                   \/ \E t \in signed, ok \in BOOLEAN : MineVaultTx(t, ok)
                   \/ EmptyBlock
                   \/ HiveTick
    PROVE  TypeOK'
<1>1. CASE AddBlock
  BY <1>1 DEF TypeOK, LedgerTypeOK, AddBlock, ledgerVars, queueVars, l1Vars
<1>2. CASE \E t \in signed, ok \in BOOLEAN : MineVaultTx(t, ok)
  <2>1. PICK t \in signed, ok \in BOOLEAN : MineVaultTx(t, ok)
    BY <1>2
  <2> DEFINE m == [sender |-> KeyAddr, nonce |-> t.nonce, to |-> t.to, token |-> t.token,
                   amount |-> t.amount, height |-> tip + 1, ok |-> ok]
  <2>2. m \in MinedTx
    BY DEF TypeOK, Tx, MinedTx, VaultAddrs
  <2>3. mined' \in Seq(MinedTx)
    BY <2>1, <2>2 DEF TypeOK, MineVaultTx
  <2>4. QED
    BY <2>1, <2>3 DEF TypeOK, LedgerTypeOK, MineVaultTx, ledgerVars, queueVars
<1>3. CASE EmptyBlock
  BY <1>3 DEF TypeOK, LedgerTypeOK, EmptyBlock, ledgerVars, queueVars
<1>4. CASE HiveTick
  BY <1>4 DEF TypeOK, LedgerTypeOK, HiveTick, ledgerVars, queueVars
<1>5. QED
  BY <1>1, <1>2, <1>3, <1>4

\* Every step keeps every type.
LEMMA TypeStep == TypeOK /\ [Next]_vars => TypeOK'
<1>1. SUFFICES ASSUME TypeOK, [Next]_vars PROVE TypeOK'
  OBVIOUS
<1>2. CASE Unmap
  BY <1>1, <1>2, UnmapType
<1>3. CASE \E m \in Included : ConfirmSpend(m)
  BY <1>1, <1>3, ConfirmSpendType
<1>4. CASE Drop
  BY <1>1, <1>4, DropType
<1>5. CASE ReplaceWithdrawal \/ (\E v \in VaultChoices : SetVault(v)) \/ ClearTestnetState
  BY <1>1, <1>5, AdminType
<1>6. CASE LedgerOp
  BY <1>1, <1>6, LedgerOpType
<1>7. CASE \/ AddBlock
           \/ \E t \in signed, ok \in BOOLEAN : MineVaultTx(t, ok)
           \/ EmptyBlock
           \/ HiveTick
  BY <1>1, <1>7, EnvironmentType
<1>8. CASE UNCHANGED vars
  BY <1>1, <1>8 DEF TypeOK, LedgerTypeOK, vars, ledgerVars, queueVars, l1Vars
<1>9. QED
  BY <1>1, <1>2, <1>3, <1>4, <1>5, <1>6, <1>7, <1>8 DEF Next

\* In every reachable state every variable has its type: no sequence of calls
\* makes a balance, an allowance, a supply total or the reserve negative.
THEOREM TypeCorrect == Spec => []TypeOK
<1>1. QED
  BY TypeInit, TypeStep, PTL DEF Spec

(***************************************************************************)
(* The queue.  A step opens the queue with one withdrawal, closes it,      *)
(* signs its head again, resets it (testnet) or leaves it and the signers  *)
(* alone.                                                                  *)
(***************************************************************************)
Opens ==
    /\ confirmedNonce = pendingNonce
    /\ confirmedNonce' = confirmedNonce
    /\ pendingNonce' = pendingNonce + 1
    /\ DOMAIN spends' = {pendingNonce}
    /\ spends'[pendingNonce] \in PendingSpend
    /\ spends'[pendingNonce].nonce = pendingNonce
    /\ spends'[pendingNonce].height = lastHeight
    /\ signed' = signed \cup {PaymentTx("first", pendingNonce, spends'[pendingNonce])}
    /\ UNCHANGED <<lastHeight, l1Vars>>

Closes ==
    /\ confirmedNonce \in DOMAIN spends
    /\ confirmedNonce' = confirmedNonce + 1
    /\ pendingNonce' = confirmedNonce + 1
    /\ DOMAIN spends' = {}
    /\ signed' \in {signed, signed \cup {SelfTransfer(confirmedNonce)}}
    /\ UNCHANGED <<lastHeight, l1Vars>>

Resigns ==
    /\ confirmedNonce \in DOMAIN spends
    /\ signed' = signed \cup {Replacement}
    /\ UNCHANGED <<queueVars, lastHeight, l1Vars>>

Resets ==
    /\ IsTestnet
    /\ confirmedNonce' = 0
    /\ pendingNonce' = 0
    /\ DOMAIN spends' = {}

\* While QueueInv holds, the stored entry is the head.
LEMMA HeadOnly ==
    ASSUME TypeOK, QueueInv, NEW n \in DOMAIN spends
    PROVE  /\ n = confirmedNonce
           /\ pendingNonce = confirmedNonce + 1
           /\ DOMAIN spends = {confirmedNonce}
           /\ spends[n] \in PendingSpend
           /\ spends[n].nonce = n
BY DEF TypeOK, QueueInv

\* An unmap opens the queue: MayQueue let it through only with none pending.
LEMMA UnmapOpens == ASSUME TypeOK, QueueInv, Unmap PROVE Opens
<1>1. ASSUME NEW ps \in PendingSpend, MayQueue, Enqueue(ps),
             ps.nonce = pendingNonce, ps.height = lastHeight
      PROVE  Opens
  <2>1. confirmedNonce = pendingNonce /\ DOMAIN spends = {}
    BY <1>1 DEF TypeOK, QueueInv, MayQueue, HasPendingWithdrawal
  <2>2. spends' = StorePendingSpend(ps)
    BY <1>1 DEF Enqueue
  <2>3. DOMAIN spends' = {pendingNonce} /\ spends'[pendingNonce] = ps
    BY <1>1, <2>1, <2>2 DEF StorePendingSpend
  <2>4. QED
    BY <1>1, <2>1, <2>3 DEF Enqueue, Opens
<1>2. PICK c \in Callers, to \in Recipients, amt \in Amounts, cap \in FeeCaps :
         \/ \E d \in BOOLEAN : UnmapETH(c, to, amt, cap, d)
         \/ \E t \in Tokens : UnmapERC20(c, to, t, amt, cap)
         \/ \E from \in Accounts, d \in BOOLEAN : UnmapFromETH(c, from, to, amt, cap, d)
         \/ \E from \in Accounts, a \in Tokens, t \in Tokens :
                UnmapFromERC20(c, from, to, a, t, amt, cap)
  BY DEF Unmap
<1>3. /\ c \in Accounts
      /\ amt \in Nat
      /\ Eth \in Assets
      /\ Tokens \subseteq Assets
      /\ TokenGas * cap \in Nat
      /\ 0 \in Nat
  BY LedgerAssumption, WithdrawalAssumption, ProductType DEF Assets
<1>4. ASSUME NEW from \in Accounts, NEW asset \in Assets, NEW token \in Assets, NEW gas \in Nat,
             MayQueue, Enqueue(NewSpend(from, to, asset, token, amt, gas))
      PROVE  Opens
  <2> DEFINE ps == NewSpend(from, to, asset, token, amt, gas)
  <2>1. ps \in PendingSpend /\ ps.nonce = pendingNonce
    BY <1>3, NewSpendType
  <2>2. ps.height = lastHeight
    BY DEF NewSpend
  <2>3. QED
    BY <1>1, <1>4, <2>1, <2>2
<1>5. CASE \E d \in BOOLEAN : UnmapETH(c, to, amt, cap, d)
  BY <1>3, <1>4, <1>5 DEF UnmapETH
<1>6. CASE \E t \in Tokens : UnmapERC20(c, to, t, amt, cap)
  BY <1>3, <1>4, <1>6 DEF UnmapERC20
<1>7. CASE \E from \in Accounts, d \in BOOLEAN : UnmapFromETH(c, from, to, amt, cap, d)
  BY <1>3, <1>4, <1>7 DEF UnmapFromETH
<1>8. CASE \E from \in Accounts, a \in Tokens, t \in Tokens :
               UnmapFromERC20(c, from, to, a, t, amt, cap)
  BY <1>3, <1>4, <1>8 DEF UnmapFromERC20
<1>9. QED
  BY <1>2, <1>5, <1>6, <1>7, <1>8

\* confirmSpend closes the queue.
LEMMA ConfirmCloses == ASSUME TypeOK, QueueInv, NEW m, ConfirmSpend(m) PROVE Closes
<1>1. confirmedNonce \in DOMAIN spends
  BY DEF ConfirmSpend
<1>2. DOMAIN spends = {confirmedNonce} /\ pendingNonce = confirmedNonce + 1
  BY <1>1, HeadOnly
<1>3. DOMAIN spends' = {}
  BY <1>2, DeletePendingSpendType DEF ConfirmSpend
<1>4. QED
  BY <1>1, <1>2, <1>3 DEF ConfirmSpend, Closes

\* So does a refund: cancelMyWithdrawal names a nonce, but only the head has
\* an entry, and NonceAdvance runs before the entry is deleted.
LEMMA RefundCloses ==
    ASSUME TypeOK, QueueInv, NEW n \in DOMAIN spends, RefundAndAdvance(n),
           signed' \in {signed, signed \cup {SelfTransfer(n)}}
    PROVE  Closes
<1>1. n = confirmedNonce /\ DOMAIN spends = {confirmedNonce}
  BY HeadOnly
<1>2. NonceAdvance(n) = confirmedNonce + 1
  BY <1>1 DEF NonceAdvance
<1>3. DOMAIN spends' = {}
  BY <1>1, DeletePendingSpendType DEF RefundAndAdvance
<1>4. QED
  BY <1>1, <1>2, <1>3 DEF RefundAndAdvance, Closes

LEMMA DropCloses == ASSUME TypeOK, QueueInv, Drop PROVE Closes
<1>1. PICK m \in Included : \/ ClearNonce(m)
                            \/ \E c \in Callers, n \in Nonces : ExpireWithdrawal(c, n, m)
                            \/ \E c \in Callers, n \in Nonces : CancelMyWithdrawal(c, n, m)
  BY DEF Drop
<1>2. CASE ClearNonce(m)
  BY <1>2, RefundCloses DEF ClearNonce, HandleClearNonce
<1>3. CASE \E c \in Callers, n \in Nonces : ExpireWithdrawal(c, n, m)
  BY <1>3, RefundCloses DEF ExpireWithdrawal
<1>4. CASE \E c \in Callers, n \in Nonces : CancelMyWithdrawal(c, n, m)
  BY <1>4, RefundCloses DEF CancelMyWithdrawal
<1>5. QED
  BY <1>1, <1>2, <1>3, <1>4

\* clearTestnetState deletes every entry there is.
LEMMA ClearResets == ASSUME TypeOK, QueueInv, ClearTestnetState PROVE Resets
BY DEF TypeOK, QueueInv, ClearTestnetState, ClearedNonces, Resets

\* What one step does to the queue, the signers and L1.
LEMMA QueueStep ==
    ASSUME TypeOK, QueueInv, [Next]_vars
    PROVE  \/ Opens
           \/ Closes
           \/ Resigns
           \/ Resets
           \/ AddBlock
           \/ \E t \in signed, ok \in BOOLEAN : MineVaultTx(t, ok)
           \/ EmptyBlock
           \/ UNCHANGED <<queueVars, signed, lastHeight, mined, tip>>
<1>1. CASE Unmap
  BY <1>1, UnmapOpens
<1>2. CASE \E m \in Included : ConfirmSpend(m)
  BY <1>2, ConfirmCloses
<1>3. CASE Drop
  BY <1>3, DropCloses
<1>4. CASE ReplaceWithdrawal
  BY <1>4 DEF ReplaceWithdrawal, Resigns
<1>5. CASE \E v \in VaultChoices : SetVault(v)
  BY <1>5 DEF SetVault, l1Vars
<1>6. CASE ClearTestnetState
  BY <1>6, ClearResets
<1>7. CASE LedgerOp
  BY <1>7 DEF LedgerOp, l1Vars
<1>8. CASE HiveTick
  BY <1>8 DEF HiveTick
<1>9. CASE UNCHANGED vars
  BY <1>9 DEF vars, l1Vars
<1>10. QED
  BY <1>1, <1>2, <1>3, <1>4, <1>5, <1>6, <1>7, <1>8, <1>9 DEF Next

\* The queue starts empty and every step keeps its shape.
LEMMA QueueInit == Init => QueueInv
BY DEF Init, QueueInv

LEMMA QueueInvStep == TypeOK /\ QueueInv /\ [Next]_vars => QueueInv'
<1>1. SUFFICES ASSUME TypeOK, QueueInv, [Next]_vars PROVE QueueInv'
  OBVIOUS
<1>2. CASE Opens
  <2>1. /\ confirmedNonce \in Nat
        /\ confirmedNonce' = confirmedNonce
        /\ pendingNonce' = confirmedNonce + 1
    BY <1>1, <1>2 DEF TypeOK, Opens
  <2>2. DOMAIN spends' = {confirmedNonce} /\ spends'[confirmedNonce].nonce = confirmedNonce
    BY <1>2 DEF Opens
  <2>3. confirmedNonce..(confirmedNonce + 1 - 1) = {confirmedNonce}
    BY <2>1
  <2>4. DOMAIN spends' = confirmedNonce'..(pendingNonce' - 1)
    BY <2>1, <2>2, <2>3
  <2>5. QED
    BY <2>1, <2>2, <2>4 DEF QueueInv
<1>3. CASE Closes
  BY <1>3 DEF TypeOK, QueueInv, Closes
<1>4. CASE Resets
  BY <1>4 DEF QueueInv, Resets
<1>5. CASE UNCHANGED queueVars
  BY <1>1, <1>5 DEF QueueInv, queueVars
<1>6. CASE \/ Resigns
           \/ AddBlock
           \/ \E t \in signed, ok \in BOOLEAN : MineVaultTx(t, ok)
           \/ EmptyBlock
           \/ UNCHANGED <<queueVars, signed, lastHeight, mined, tip>>
  <2>1. UNCHANGED queueVars
    BY <1>6 DEF Resigns, AddBlock, MineVaultTx, EmptyBlock, queueVars
  <2>2. QED
    BY <1>5, <2>1
<1>7. QED
  BY <1>1, <1>2, <1>3, <1>4, <1>6, QueueStep

\* The single-outstanding-withdrawal invariant of withdrawal.go, in every
\* reachable state and on testnet too: one entry at most, exactly when a
\* withdrawal is pending, at the confirmed nonce.
THEOREM QueueCorrect == Spec => []QueueInv
<1>1. TypeOK /\ QueueInv /\ [Next]_vars => (TypeOK /\ QueueInv)'
  BY TypeStep, QueueInvStep
<1>2. QED
  BY <1>1, TypeInit, QueueInit, PTL DEF Spec

(***************************************************************************)
(* The queue against the signers and L1, on mainnet: clearTestnetState     *)
(* starts the nonces again below what was signed.                          *)
(***************************************************************************)
\* L1 mines the vault's transactions in nonce order, and only signed ones.
MinedFromSigned ==
    \A i \in DOMAIN mined :
        /\ mined[i].sender = KeyAddr
        /\ mined[i].nonce = i - 1
        /\ \E t \in signed : /\ t.nonce = mined[i].nonce
                             /\ t.to = mined[i].to
                             /\ t.token = mined[i].token
                             /\ t.amount = mined[i].amount

\* The head was queued at a stored height, below whatever L1 mined of it.
HeightsOrdered ==
    /\ lastHeight <= tip
    /\ \A n \in DOMAIN spends :
          /\ spends[n].height <= lastHeight
          /\ \A i \in DOMAIN mined : mined[i].nonce = n => mined[i].height > spends[n].height

\* The inductive invariant.
IInv ==
    /\ TypeOK
    /\ QueueInv
    /\ SignedForQueue
    /\ OnePaymentPerNonce
    /\ MinedFromSigned
    /\ HeightsOrdered

\* Nothing is signed or mined at first.
LEMMA IInvInit == Init => IInv
<1>1. Init => SignedForQueue /\ OnePaymentPerNonce
  BY DEF Init, SignedForQueue, OnePaymentPerNonce
<1>2. Init => MinedFromSigned /\ HeightsOrdered
  BY DEF Init, MinedFromSigned, HeightsOrdered
<1>3. QED
  BY <1>1, <1>2, TypeInit, QueueInit DEF IInv

\* A new withdrawal's nonce was never signed before.
LEMMA OpensKeeps ==
    ASSUME IInv, Opens
    PROVE  SignedForQueue' /\ OnePaymentPerNonce' /\ MinedFromSigned' /\ HeightsOrdered'
<1> DEFINE ps == spends'[pendingNonce]
<1> DEFINE new == PaymentTx("first", pendingNonce, ps)
<1>1. /\ pendingNonce \in Nat
      /\ lastHeight \in Nat
      /\ signed \subseteq Tx
      /\ \A t \in signed : t.nonce \in Nat /\ t.nonce < pendingNonce
  BY DEF IInv, TypeOK, SignedForQueue, Tx
<1>2. /\ signed' = signed \cup {new}
      /\ new.nonce = pendingNonce
      /\ new.kind = "first"
      /\ new.to = ps.to
      /\ new.token = ps.token
      /\ new.amount = ps.amount
  BY DEF Opens, PaymentTx
<1>3. SignedForQueue'
  <2>1. ASSUME NEW t \in signed'
        PROVE  /\ t.nonce < pendingNonce + 1
               /\ t.nonce = pendingNonce => t = new
    BY <1>1, <1>2, <2>1
  <2>2. DOMAIN spends' = {pendingNonce} /\ pendingNonce' = pendingNonce + 1
    BY DEF Opens
  <2>3. QED
    BY <1>2, <2>1, <2>2 DEF SignedForQueue
<1>4. OnePaymentPerNonce'
  BY <1>1, <1>2 DEF IInv, OnePaymentPerNonce
<1>5. UNCHANGED <<mined, tip, lastHeight>>
  BY DEF Opens, l1Vars
<1>6. MinedFromSigned'
  BY <1>2, <1>5 DEF IInv, MinedFromSigned
<1>7. HeightsOrdered'
  <2>1. \A i \in DOMAIN mined : mined[i].nonce # pendingNonce
    BY <1>1 DEF IInv, MinedFromSigned
  <2>2. DOMAIN spends' = {pendingNonce} /\ ps.height = lastHeight
    BY DEF Opens
  <2>3. lastHeight <= tip
    BY DEF IInv, HeightsOrdered
  <2>4. QED
    BY <1>1, <1>5, <2>1, <2>2, <2>3 DEF HeightsOrdered
<1>8. QED
  BY <1>3, <1>4, <1>6, <1>7

\* Closing the queue signs at most a self-transfer at the closed nonce.
LEMMA ClosesKeeps ==
    ASSUME IInv, Closes
    PROVE  SignedForQueue' /\ OnePaymentPerNonce' /\ MinedFromSigned' /\ HeightsOrdered'
<1>1. /\ confirmedNonce \in Nat
      /\ pendingNonce = confirmedNonce + 1
      /\ DOMAIN spends' = {}
      /\ pendingNonce' = pendingNonce
      /\ signed' \subseteq signed \cup {SelfTransfer(confirmedNonce)}
      /\ signed \subseteq signed'
  BY HeadOnly DEF IInv, TypeOK, Closes
<1>2. /\ SelfTransfer(confirmedNonce).kind = "roll"
      /\ SelfTransfer(confirmedNonce).nonce = confirmedNonce
  BY DEF SelfTransfer
<1>3. SignedForQueue'
  BY <1>1, <1>2 DEF IInv, SignedForQueue
<1>4. OnePaymentPerNonce'
  BY <1>1, <1>2 DEF IInv, OnePaymentPerNonce
<1>5. UNCHANGED <<mined, tip, lastHeight>>
  BY DEF Closes, l1Vars
<1>6. MinedFromSigned'
  BY <1>1, <1>5 DEF IInv, MinedFromSigned
<1>7. HeightsOrdered'
  BY <1>1, <1>5 DEF IInv, HeightsOrdered
<1>8. QED
  BY <1>3, <1>4, <1>6, <1>7

\* A replacement is the head's payment again, at the head's nonce.
LEMMA ResignsKeeps ==
    ASSUME IInv, Resigns
    PROVE  SignedForQueue' /\ OnePaymentPerNonce' /\ MinedFromSigned' /\ HeightsOrdered'
<1> DEFINE ps == spends[confirmedNonce]
<1>1. /\ confirmedNonce \in DOMAIN spends
      /\ confirmedNonce \in Nat
      /\ pendingNonce = confirmedNonce + 1
      /\ DOMAIN spends = {confirmedNonce}
  BY HeadOnly DEF IInv, TypeOK, Resigns
<1>2. /\ signed' = signed \cup {Replacement}
      /\ Replacement.kind = "bumped"
      /\ Replacement.nonce = confirmedNonce
      /\ Replacement.to = ps.to
      /\ Replacement.token = ps.token
      /\ Replacement.amount = ps.amount
  BY DEF Resigns, Replacement, PaymentTx
<1>3. UNCHANGED <<confirmedNonce, pendingNonce, spends, mined, tip, lastHeight>>
  BY DEF Resigns, queueVars, l1Vars
<1>4. SignedForQueue'
  BY <1>1, <1>2, <1>3 DEF IInv, SignedForQueue
<1>5. OnePaymentPerNonce'
  BY <1>1, <1>2 DEF IInv, SignedForQueue, OnePaymentPerNonce
<1>6. MinedFromSigned'
  BY <1>2, <1>3 DEF IInv, MinedFromSigned
<1>7. HeightsOrdered'
  BY <1>3 DEF IInv, HeightsOrdered
<1>8. QED
  BY <1>4, <1>5, <1>6, <1>7

\* A mined transaction gets the next nonce and a height above every stored one.
LEMMA MineKeeps ==
    ASSUME IInv, NEW t \in signed, NEW ok \in BOOLEAN, MineVaultTx(t, ok)
    PROVE  SignedForQueue' /\ OnePaymentPerNonce' /\ MinedFromSigned' /\ HeightsOrdered'
<1> DEFINE m == [sender |-> KeyAddr, nonce |-> t.nonce, to |-> t.to, token |-> t.token,
                 amount |-> t.amount, height |-> tip + 1, ok |-> ok]
<1>1. /\ mined \in Seq(MinedTx)
      /\ lastHeight \in Nat
      /\ tip \in Nat
      /\ t.nonce = Len(mined)
      /\ mined' = Append(mined, m)
      /\ tip' = tip + 1
  BY DEF IInv, TypeOK, MineVaultTx
<1>2. UNCHANGED <<confirmedNonce, pendingNonce, spends, signed, lastHeight>>
  BY DEF MineVaultTx, queueVars
<1>3. ASSUME NEW i \in DOMAIN mined'
      PROVE  \/ i \in DOMAIN mined /\ mined'[i] = mined[i]
             \/ i - 1 = Len(mined) /\ mined'[i] = m
  BY <1>1
<1>4. SignedForQueue' /\ OnePaymentPerNonce'
  BY <1>2 DEF IInv, SignedForQueue, OnePaymentPerNonce
<1>5. MinedFromSigned'
  <2>1. ASSUME NEW i \in DOMAIN mined'
        PROVE  /\ mined'[i].sender = KeyAddr
               /\ mined'[i].nonce = i - 1
               /\ \E u \in signed : /\ u.nonce = mined'[i].nonce
                                    /\ u.to = mined'[i].to
                                    /\ u.token = mined'[i].token
                                    /\ u.amount = mined'[i].amount
    <3>1. CASE i \in DOMAIN mined /\ mined'[i] = mined[i]
      BY <3>1 DEF IInv, MinedFromSigned
    <3>2. CASE i - 1 = Len(mined) /\ mined'[i] = m
      BY <1>1, <3>2
    <3>3. QED
      BY <1>3, <3>1, <3>2
  <2>2. QED
    BY <1>2, <2>1 DEF MinedFromSigned
<1>6. HeightsOrdered'
  <2>1. lastHeight <= tip + 1
    BY <1>1 DEF IInv, HeightsOrdered
  <2>2. ASSUME NEW n \in DOMAIN spends
        PROVE  /\ spends[n].height \in Nat
               /\ spends[n].height <= lastHeight
               /\ spends[n].height < tip + 1
    BY <1>1 DEF IInv, TypeOK, PendingSpend, HeightsOrdered
  <2>3. ASSUME NEW n \in DOMAIN spends, NEW i \in DOMAIN mined', mined'[i].nonce = n
        PROVE  mined'[i].height > spends[n].height
    <3>1. CASE i \in DOMAIN mined /\ mined'[i] = mined[i]
      BY <2>3, <3>1 DEF IInv, HeightsOrdered
    <3>2. CASE i - 1 = Len(mined) /\ mined'[i] = m
      BY <1>1, <2>2, <3>2
    <3>3. QED
      BY <1>3, <3>1, <3>2
  <2>4. QED
    BY <1>1, <1>2, <2>1, <2>2, <2>3 DEF HeightsOrdered
<1>7. QED
  BY <1>4, <1>5, <1>6

\* Off testnet the invariant is inductive.
LEMMA IInvStep == ASSUME ~IsTestnet PROVE IInv /\ [Next]_vars => IInv'
<1>1. SUFFICES ASSUME IInv, [Next]_vars
               PROVE  /\ SignedForQueue'
                      /\ OnePaymentPerNonce'
                      /\ MinedFromSigned'
                      /\ HeightsOrdered'
  BY TypeStep, QueueInvStep DEF IInv
<1>2. CASE Opens
  BY <1>1, <1>2, OpensKeeps
<1>3. CASE Closes
  BY <1>1, <1>3, ClosesKeeps
<1>4. CASE Resigns
  BY <1>1, <1>4, ResignsKeeps
<1>5. CASE Resets
  BY <1>5 DEF Resets
<1>6. CASE \E t \in signed, ok \in BOOLEAN : MineVaultTx(t, ok)
  BY <1>1, <1>6, MineKeeps
<1>7. CASE \/ AddBlock
           \/ EmptyBlock
           \/ UNCHANGED <<queueVars, signed, lastHeight, mined, tip>>
  <2>1. UNCHANGED <<confirmedNonce, pendingNonce, spends, signed, mined>>
    BY <1>7 DEF AddBlock, EmptyBlock, queueVars, l1Vars
  <2>2. /\ lastHeight \in Nat
        /\ tip \in Nat
        /\ lastHeight <= tip
        /\ \A n \in DOMAIN spends : spends[n].height \in Nat
    BY <1>1 DEF IInv, TypeOK, PendingSpend, HeightsOrdered
  <2>3. lastHeight' \in Nat /\ lastHeight <= lastHeight' /\ lastHeight' <= tip'
    BY <1>7, <2>2 DEF AddBlock, EmptyBlock, l1Vars
  <2>4. SignedForQueue' /\ OnePaymentPerNonce' /\ MinedFromSigned'
    BY <1>1, <2>1 DEF IInv, SignedForQueue, OnePaymentPerNonce, MinedFromSigned
  <2>5. HeightsOrdered'
    BY <1>1, <2>1, <2>2, <2>3 DEF IInv, HeightsOrdered
  <2>6. QED
    BY <2>4, <2>5
<1>8. TypeOK /\ QueueInv
  BY <1>1 DEF IInv
<1>9. QED
  BY <1>1, <1>2, <1>3, <1>4, <1>5, <1>6, <1>7, <1>8, QueueStep

\* The invariant gives the confirmability of a mined head.
LEMMA IInvConfirmable == IInv => MinedHeadIsConfirmable
<1>1. SUFFICES ASSUME IInv,
                      NEW n \in DOMAIN spends, NEW i \in DOMAIN mined,
                      mined[i].nonce = n,
                      HeaderStored(mined[i].height),
                      spends[n].vault = KeyAddr
               PROVE  Proves(mined[i], spends[n])
  BY DEF MinedHeadIsConfirmable
<1>2. mined[i].height > spends[n].height /\ spends[n].nonce = n
  BY <1>1, HeadOnly DEF IInv, HeightsOrdered
<1>3. PICK t \in signed : /\ t.nonce = n
                          /\ t.to = mined[i].to
                          /\ t.token = mined[i].token
                          /\ t.amount = mined[i].amount
  BY <1>1 DEF IInv, MinedFromSigned
<1>4. /\ mined[i].to = spends[n].to
      /\ mined[i].token = spends[n].token
      /\ mined[i].amount = spends[n].amount
  BY <1>1, <1>3 DEF IInv, SignedForQueue
<1>5. mined[i].sender = spends[n].vault /\ spends[n].vault # ZeroAddr
  BY <1>1, WithdrawalAssumption DEF IInv, MinedFromSigned
<1>6. QED
  BY <1>1, <1>2, <1>4, <1>5 DEF Proves

LEMMA IInvAlways == ASSUME ~IsTestnet PROVE Spec => []IInv
<1>1. IInv /\ [Next]_vars => IInv'
  BY IInvStep
<1>2. QED
  BY <1>1, IInvInit, PTL DEF Spec

\* The signers only ever see issued nonces, and for the head only its payment
\* (the three unmaps, replaceWithdrawal, clearNonce, cancelMyWithdrawal).
THEOREM SignedForQueueAlways == ASSUME ~IsTestnet PROVE Spec => []SignedForQueue
<1>1. IInv => SignedForQueue
  BY DEF IInv
<1>2. QED
  BY <1>1, IInvAlways, PTL

\* No L1 nonce is ever signed for two different payments.
THEOREM PaymentsUnique == ASSUME ~IsTestnet PROVE Spec => []OnePaymentPerNonce
<1>1. IInv => OnePaymentPerNonce
  BY DEF IInv
<1>2. QED
  BY <1>1, IInvAlways, PTL

\* confirmSpend accepts whatever L1 mined of a head queued under the key's own
\* address, while its header is stored.
THEOREM HeadConfirmable == ASSUME ~IsTestnet PROVE Spec => []MinedHeadIsConfirmable
<1>1. QED
  BY IInvConfirmable, IInvAlways, PTL

(***************************************************************************)
(* Settlement.                                                             *)
(***************************************************************************)
\* Off testnet, an entry leaves the queue by confirmSpend or by a refund of
\* the head on a proof of drop.
LEMMA SettlingStep ==
    ASSUME ~IsTestnet, IInv, [Next]_vars, NEW n \in DOMAIN spends \ DOMAIN spends'
    PROVE  /\ n = confirmedNonce
           /\ \/ \E m \in Included : ConfirmSpend(m)
              \/ \E m \in Included : /\ RefundAndAdvance(n)
                                     /\ Submitted(m, spends[n])
                                     /\ VerifyL1ProofOfDrop(m, spends[n])
<1>1. TypeOK /\ QueueInv
  BY DEF IInv
<1>2. n = confirmedNonce /\ pendingNonce = confirmedNonce + 1 /\ confirmedNonce \in Nat
  BY <1>1, HeadOnly DEF TypeOK
<1>3. spends' # spends
  OBVIOUS
<1>4. ~Unmap
  <2>1. Opens => confirmedNonce = pendingNonce
    BY DEF Opens
  <2>2. QED
    BY <1>1, <1>2, <2>1, UnmapOpens
<1>5. (\E m \in Included : ConfirmSpend(m)) \/ Drop
  BY <1>3, <1>4
     DEF Next, vars, queueVars, ReplaceWithdrawal, SetVault, ClearTestnetState, LedgerOp,
         AddBlock, MineVaultTx, EmptyBlock, HiveTick
<1>6. CASE Drop
  <2>1. PICK m \in Included : \/ ClearNonce(m)
                              \/ \E c \in Callers, k \in Nonces : ExpireWithdrawal(c, k, m)
                              \/ \E c \in Callers, k \in Nonces : CancelMyWithdrawal(c, k, m)
    BY <1>6 DEF Drop
  <2>2. PICK k \in DOMAIN spends : /\ RefundAndAdvance(k)
                                   /\ Submitted(m, spends[k])
                                   /\ VerifyL1ProofOfDrop(m, spends[k])
    BY <2>1 DEF ClearNonce, HandleClearNonce, ExpireWithdrawal, CancelMyWithdrawal
  <2>3. k = n
    BY <1>1, <1>2, HeadOnly
  <2>4. QED
    BY <1>2, <2>2, <2>3
<1>7. QED
  BY <1>2, <1>5, <1>6

\* A withdrawal is settled exactly: paid on L1 with no ledger movement, or its
\* amount back to its owner, with at most its gas to the reserve.
THEOREM SettlesExactly == ASSUME ~IsTestnet PROVE Spec => SettlementExact
<1> DEFINE Settled(n) ==
       \/ /\ bal' = bal
          /\ reserve' = reserve
          /\ \E m \in Included : /\ m.ok
                                 /\ m.sender = spends[n].vault
                                 /\ m.nonce = n
                                 /\ m.to = spends[n].to
                                 /\ m.token = spends[n].token
                                 /\ m.amount = spends[n].amount
       \/ /\ bal' = IncBalance(bal, spends[n].from, spends[n].asset, spends[n].amount)
          /\ reserve' \in {reserve, reserve + spends[n].gas}
<1>1. ASSUME IInv, [Next]_vars, NEW n \in DOMAIN spends \ DOMAIN spends'
      PROVE  Settled(n)
  <2>1. n = confirmedNonce /\ spends[n].nonce = n
    BY <1>1, SettlingStep, HeadOnly DEF IInv
  <2>2. CASE \E m \in Included : ConfirmSpend(m)
    BY <2>1, <2>2 DEF ConfirmSpend, Proves, ReceiptEffect, addGasReserve
  <2>3. CASE RefundAndAdvance(n)
    BY <2>3 DEF RefundAndAdvance
  <2>4. QED
    BY <1>1, <2>2, <2>3, SettlingStep
<1>2. IInv /\ [Next]_vars =>
         [\A n \in DOMAIN spends \ DOMAIN spends' : Settled(n)]_vars
  BY <1>1
<1>3. QED
  BY <1>2, IInvAlways, PTL DEF Spec, SettlementExact

\* The vault's own evidence cannot refund what the vault paid: if every
\* submitted proof of drop is about a nonce of the vault, and nobody else
\* holds the key of an address configured as the vault, no balance is credited
\* for a nonce L1 executed (confirmSpend's refund and the proof-of-drop paths).
THEOREM RefundsSound ==
    ASSUME ~IsTestnet,
           OwnEvidenceOnly,
           \A m \in ForeignTxs : m.sender \notin VaultAddrs
    PROVE  Spec => RefundOnlyIfNotExecuted
<1>1. ASSUME IInv, [Next]_vars, NEW n \in DOMAIN spends \ DOMAIN spends', bal' # bal
      PROVE  ~Executed(n)
  <2>1. /\ n = confirmedNonce
        /\ confirmedNonce \in Nat
        /\ pendingNonce = confirmedNonce + 1
        /\ spends[n].nonce = n
        /\ spends[n] \in PendingSpend
    BY <1>1, HeadOnly DEF IInv, TypeOK
  <2>2. ASSUME NEW m \in Included, m.sender \in VaultAddrs, m.nonce = n, ~m.ok
        PROVE  ~Executed(n)
    <3>1. PICK i \in DOMAIN mined : m = mined[i]
      BY <2>2 DEF Included
    <3>2. DOMAIN mined \subseteq Int
      BY <1>1 DEF IInv, TypeOK
    <3>3. \A j \in DOMAIN mined : mined[j].nonce = n => j = i
      BY <1>1, <2>2, <3>1, <3>2 DEF IInv, MinedFromSigned
    <3>4. QED
      BY <2>2, <3>1, <3>3 DEF Executed
  <2>3. CASE \E m \in Included : ConfirmSpend(m)
    <3>1. PICK m \in Included : ConfirmSpend(m)
      BY <2>3
    <3>2. ~m.ok
      BY <1>1, <3>1 DEF ConfirmSpend, ReceiptEffect
    <3>3. m.nonce = n /\ m.sender \in VaultAddrs
      BY <2>1, <3>1 DEF ConfirmSpend, Proves, PendingSpend
    <3>4. QED
      BY <2>2, <3>2, <3>3
  <2>4. CASE \E m \in Included : /\ RefundAndAdvance(n)
                                 /\ Submitted(m, spends[n])
                                 /\ VerifyL1ProofOfDrop(m, spends[n])
    <3>1. PICK m \in Included : /\ Submitted(m, spends[n])
                                /\ VerifyL1ProofOfDrop(m, spends[n])
      BY <2>4
    <3>2. m.sender = KeyAddr /\ m.nonce >= n
      BY <2>1, <3>1 DEF Submitted
    <3>3. PICK i \in DOMAIN mined : m = mined[i]
      BY <3>2 DEF Included, VaultAddrs
    <3>4. m.nonce \in Nat /\ m.nonce < pendingNonce
      BY <1>1, <3>3 DEF IInv, TypeOK, MinedFromSigned, SignedForQueue, Tx
    <3>5. m.nonce = n
      BY <2>1, <3>2, <3>4
    <3>6. ~m.ok
      BY <2>1, <3>1, <3>5 DEF VerifyL1ProofOfDrop
    <3>7. QED
      BY <2>2, <3>2, <3>5, <3>6 DEF VaultAddrs
  <2>5. QED
    BY <1>1, <2>3, <2>4, SettlingStep
<1>2. IInv /\ [Next]_vars =>
         [\A n \in DOMAIN spends \ DOMAIN spends' : bal' # bal => ~Executed(n)]_vars
  BY <1>1
<1>3. QED
  BY <1>2, IInvAlways, PTL DEF Spec, RefundOnlyIfNotExecuted

(***************************************************************************)
(* The three unmap handlers in one form: total leaves the owner's balance, *)
(* of which amt is to be paid, and gas is charged to the reserve.          *)
(***************************************************************************)
\* The supply totals: an unmapETH books the fee, the others only the amount.
Books(asset, amt, total) ==
    \/ asset = Eth /\ supply' = BookEthWithdrawal(amt, total)
    \/ /\ asset = Eth \/ total = amt
       /\ CanTrack(asset, amt)
       /\ supply' = TrackWithdrawal(asset, amt)

\* The owner is the caller, or has allowed the caller the amount.
Authorised(from, asset, amt) ==
    \/ from \in Callers /\ UNCHANGED allow
    \/ \E c \in Callers : /\ GetAllowance(from, c, asset) >= amt
                          /\ allow' = SpendAllowance(from, c, asset, amt)

Takes(from, to, asset, token, amt, gas, total) ==
    /\ MayQueue
    /\ CanDebit(from, asset, total)
    /\ total >= amt
    /\ bal' = DecBalance(bal, from, asset, total)
    /\ gas = 0 \/ \E cap \in FeeCaps : gas = TokenGas * cap
    /\ reserve' = IF gas = 0 THEN reserve ELSE deductGasReserve(gas)
    /\ Books(asset, amt, total)
    /\ Authorised(from, asset, amt)
    /\ MatchingTokenOnly => token = asset
    /\ Enqueue(NewSpend(from, to, asset, token, amt, gas))

\* Every unmap has this form.
LEMMA UnmapTakes ==
    ASSUME TypeOK, Unmap
    PROVE  \E from \in Accounts, to \in Recipients, asset \in Assets, token \in Assets,
              amt \in Amounts, gas \in Nat, total \in Nat :
                  Takes(from, to, asset, token, amt, gas, total)
<1>1. PICK c \in Callers, to \in Recipients, amt \in Amounts, cap \in FeeCaps :
         \/ \E d \in BOOLEAN : UnmapETH(c, to, amt, cap, d)
         \/ \E t \in Tokens : UnmapERC20(c, to, t, amt, cap)
         \/ \E from \in Accounts, d \in BOOLEAN : UnmapFromETH(c, from, to, amt, cap, d)
         \/ \E from \in Accounts, a \in Tokens, t \in Tokens :
                UnmapFromERC20(c, from, to, a, t, amt, cap)
  BY DEF Unmap
<1>2. /\ c \in Accounts
      /\ amt \in Nat
      /\ Eth \in Assets
      /\ Tokens \subseteq Assets
      /\ TokenGas * cap \in Nat
      /\ reserve \in Nat
  BY LedgerAssumption, WithdrawalAssumption, ProductType DEF Assets, TypeOK, LedgerTypeOK
<1>3. reserve = IF TokenGas * cap = 0 THEN deductGasReserve(TokenGas * cap) ELSE reserve
  BY <1>2 DEF deductGasReserve, Floor0
<1>4. CASE \E d \in BOOLEAN : UnmapETH(c, to, amt, cap, d)
  <2>1. PICK d \in BOOLEAN : UnmapETH(c, to, amt, cap, d)
    BY <1>4
  <2>2. TotalDeduct(amt, cap, d) \in Nat /\ TotalDeduct(amt, cap, d) >= amt
    BY <1>2, TotalDeductType
  <2>3. Takes(c, to, Eth, Eth, amt, 0, TotalDeduct(amt, cap, d))
    BY <2>1, <2>2 DEF UnmapETH, Takes, Books, Authorised
  <2> QED
    BY <1>2, <2>2, <2>3
<1>5. CASE \E t \in Tokens : UnmapERC20(c, to, t, amt, cap)
  <2>1. PICK t \in Tokens : UnmapERC20(c, to, t, amt, cap)
    BY <1>5
  <2>2. Takes(c, to, t, t, amt, TokenGas * cap, amt)
    BY <1>2, <1>3, <2>1 DEF UnmapERC20, Takes, Books, Authorised
  <2> QED
    BY <1>2, <2>2
<1>6. CASE \E from \in Accounts, d \in BOOLEAN : UnmapFromETH(c, from, to, amt, cap, d)
  <2>1. PICK from \in Accounts, d \in BOOLEAN : UnmapFromETH(c, from, to, amt, cap, d)
    BY <1>6
  <2>2. TotalDeduct(amt, cap, d) \in Nat /\ TotalDeduct(amt, cap, d) >= amt
    BY <1>2, TotalDeductType
  <2>3. Takes(from, to, Eth, Eth, amt, 0, TotalDeduct(amt, cap, d))
    BY <2>1, <2>2 DEF UnmapFromETH, Takes, Books, Authorised
  <2> QED
    BY <1>2, <2>2, <2>3
<1>7. CASE \E from \in Accounts, a \in Tokens, t \in Tokens :
               UnmapFromERC20(c, from, to, a, t, amt, cap)
  <2>1. PICK from \in Accounts, a \in Tokens, t \in Tokens :
            UnmapFromERC20(c, from, to, a, t, amt, cap)
    BY <1>7
  <2>2. Takes(from, to, a, t, amt, TokenGas * cap, amt)
    BY <1>2, <1>3, <2>1 DEF UnmapFromERC20, Takes, Books, Authorised
  <2> QED
    BY <1>2, <2>2
<1> QED
  BY <1>1, <1>4, <1>5, <1>6, <1>7

\* What an unmap stores is the only entry.
LEMMA TakesEntry ==
    ASSUME TypeOK, QueueInv, NEW from, NEW to, NEW asset, NEW token, NEW amt, NEW gas, NEW total,
           Takes(from, to, asset, token, amt, gas, total)
    PROVE  /\ DOMAIN spends = {}
           /\ confirmedNonce = pendingNonce
           /\ pendingNonce' = pendingNonce + 1
           /\ DOMAIN spends' = {pendingNonce}
           /\ spends'[pendingNonce] = NewSpend(from, to, asset, token, amt, gas)
           /\ UNCHANGED <<confirmedNonce, mined>>
<1> DEFINE ps == NewSpend(from, to, asset, token, amt, gas)
<1>1. ps.nonce = pendingNonce
  BY DEF NewSpend
<1> HIDE DEF ps
<1>2. Enqueue(ps) /\ confirmedNonce = pendingNonce /\ DOMAIN spends = {}
  BY DEF Takes, ps, MayQueue, HasPendingWithdrawal, TypeOK, QueueInv
<1>3. spends' = [n \in {pendingNonce} |-> ps]
  BY <1>1, <1>2 DEF Enqueue, StorePendingSpend
<1>4. pendingNonce' = pendingNonce + 1 /\ UNCHANGED <<confirmedNonce, mined>>
  BY <1>1, <1>2 DEF Enqueue, l1Vars
<1> QED
  BY <1>2, <1>3, <1>4 DEF ps

(***************************************************************************)
(* The gas reserve.                                                        *)
(***************************************************************************)
\* Less than what is within the bound is within it.
LEMMA WithinLess ==
    ASSUME NEW x \in Nat, NEW y \in Nat, x <= y, WithinReserve(y)
    PROVE  WithinReserve(x)
<1>1. InitReserve \in Nat /\ \A cap \in FeeCaps : TokenGas * cap \in Nat
  BY LedgerAssumption, WithdrawalAssumption, ProductType
<1>2. CASE y <= InitReserve
  BY <1>1, <1>2 DEF WithinReserve
<1>3. CASE \E cap \in FeeCaps : y <= TokenGas * cap
  <2>1. PICK cap \in FeeCaps : y <= TokenGas * cap
    BY <1>3
  <2> DEFINE z == TokenGas * cap
  <2>2. z \in Nat /\ y <= z
    BY <1>1, <2>1
  <2> HIDE DEF z
  <2>3. x <= z
    BY <2>2
  <2> QED
    BY <2>3 DEF WithinReserve, z
<1> QED
  BY <1>2, <1>3 DEF WithinReserve

\* deductGasReserve leaves the reserve, with the charge, at the larger of the
\* two: the clamp bites when that is the charge.
LEMMA DeductWithin ==
    ASSUME reserve \in Nat, NEW gas \in Nat, WithinReserve(reserve), WithinReserve(gas)
    PROVE  /\ deductGasReserve(gas) \in Nat
           /\ WithinReserve(deductGasReserve(gas))
           /\ WithinReserve(deductGasReserve(gas) + gas)
<1> DEFINE left == deductGasReserve(gas)
<1>1. /\ left \in Nat
      /\ left <= reserve
      /\ left + gas = reserve \/ left + gas = gas
  BY DEF deductGasReserve, Floor0
<1> HIDE DEF left
<1>2. WithinReserve(left)
  BY <1>1, WithinLess
<1>3. WithinReserve(left + gas)
  BY <1>1
<1> QED
  BY <1>1, <1>2, <1>3 DEF left

\* Every step keeps the reserve and the open charge within the bound.
LEMMA ReserveStep ==
    ASSUME "setGasReserve" \notin Ops, TypeOK, QueueInv, ReserveBounded, [Next]_vars
    PROVE  ReserveBounded'
<1>1. reserve \in Nat
  BY DEF TypeOK, LedgerTypeOK
<1>2. \A n \in DOMAIN spends : spends[n].gas \in Nat
  BY DEF TypeOK, PendingSpend
<1>3. CASE Unmap
  <2>1. PICK from \in Accounts, to \in Recipients, asset \in Assets, token \in Assets,
             amt \in Amounts, gas \in Nat, total \in Nat :
                 Takes(from, to, asset, token, amt, gas, total)
    BY <1>3, UnmapTakes
  <2>2. /\ DOMAIN spends' = {pendingNonce}
        /\ spends'[pendingNonce] = NewSpend(from, to, asset, token, amt, gas)
    BY <2>1, TakesEntry
  <2>3. spends'[pendingNonce].gas = gas
    BY <2>2 DEF NewSpend
  <2>4. CASE gas = 0
    <3>1. reserve' = reserve /\ reserve' + gas = reserve
      BY <1>1, <2>1, <2>4 DEF Takes
    <3> QED
      BY <2>2, <2>3, <3>1 DEF ReserveBounded
  <2>5. CASE gas # 0
    <3>1. PICK cap \in FeeCaps : gas = TokenGas * cap
      BY <2>1, <2>5 DEF Takes
    <3>2. WithinReserve(gas)
      BY <3>1 DEF WithinReserve
    <3>3. reserve' = deductGasReserve(gas)
      BY <2>1, <2>5 DEF Takes
    <3>4. WithinReserve(reserve)
      BY DEF ReserveBounded
    <3>5. WithinReserve(deductGasReserve(gas)) /\ WithinReserve(deductGasReserve(gas) + gas)
      BY <1>1, <3>2, <3>4, DeductWithin
    <3> QED
      BY <2>2, <2>3, <3>3, <3>5 DEF ReserveBounded
  <2> QED
    BY <2>4, <2>5
<1>4. CASE \E m \in Included : ConfirmSpend(m)
  <2>1. PICK m \in Included : ConfirmSpend(m)
    BY <1>4
  <2>2. confirmedNonce \in DOMAIN spends
    BY <2>1 DEF ConfirmSpend
  <2>3. DOMAIN spends' = {}
    BY <2>1, ConfirmCloses DEF Closes
  <2>4. reserve' \in {reserve, reserve + spends[confirmedNonce].gas}
    BY <2>1 DEF ConfirmSpend, ReceiptEffect, addGasReserve
  <2> QED
    BY <2>2, <2>3, <2>4 DEF ReserveBounded
<1>5. ASSUME UNCHANGED reserve,
             DOMAIN spends' = {} \/ UNCHANGED spends
      PROVE  ReserveBounded'
  BY <1>5 DEF ReserveBounded
<1>6. CASE Drop
  <2>1. UNCHANGED reserve
    BY <1>6 DEF Drop, ClearNonce, HandleClearNonce, ExpireWithdrawal, CancelMyWithdrawal, RefundAndAdvance
  <2> QED
    BY <1>5, <1>6, <2>1, DropCloses DEF Closes
<1>7. CASE ClearTestnetState
  BY <1>5, <1>7, ClearResets DEF ClearTestnetState, ledgerVars, Resets
<1>8. CASE LedgerOp
  <2>1. UNCHANGED reserve
    <3>1. UserOp => UNCHANGED reserve
      BY UserOpMoves DEF TypeOK
    <3>2. Pause \/ Unpause => UNCHANGED reserve
      BY DEF Pause, Unpause
    <3>3. \A v \in ReserveChoices : ~SetGasReserve(v)
      BY DEF SetGasReserve
    <3> QED
      BY <1>8, <3>1, <3>2, <3>3 DEF LedgerOp
  <2> QED
    BY <1>5, <1>8, <2>1 DEF LedgerOp, queueVars
<1>9. CASE \/ ReplaceWithdrawal
           \/ \E v \in VaultChoices : SetVault(v)
           \/ AddBlock
           \/ \E t \in signed, ok \in BOOLEAN : MineVaultTx(t, ok)
           \/ EmptyBlock
           \/ HiveTick
           \/ UNCHANGED vars
  BY <1>5, <1>9 DEF ReplaceWithdrawal, SetVault, AddBlock, MineVaultTx, EmptyBlock, HiveTick,
                    vars, ledgerVars, queueVars
<1> QED
  BY <1>3, <1>4, <1>6, <1>7, <1>8, <1>9 DEF Next

\* handlers.go:550 and 777-784: withdrawals that fail and are retried, however
\* often and on whichever path they are settled, leave the gas reserve, with the
\* charge still to be given back, at most at what it held at first or what one
\* token withdrawal is charged, unless the admin sets it.  The clamp may bite.
THEOREM ReserveAlwaysBounded ==
    ASSUME "setGasReserve" \notin Ops
    PROVE  Spec => []ReserveBounded
<1> DEFINE RInv == TypeOK /\ QueueInv /\ ReserveBounded
<1>1. Init => RInv
  <2>1. Init => ReserveBounded
    BY LedgerAssumption DEF Init, LedgerInit, ReserveBounded, WithinReserve
  <2> QED
    BY <2>1, TypeInit, QueueInit
<1>2. RInv /\ [Next]_vars => RInv'
  BY ReserveStep, TypeStep, QueueInvStep
<1> QED
  BY <1>1, <1>2, PTL DEF Spec

(***************************************************************************)
(* What one step does to balances, allowances and supply totals.           *)
(***************************************************************************)
Refunds(ps) ==
    /\ bal' = IncBalance(bal, ps.from, ps.asset, ps.amount)
    /\ supply' = RestoreSupply(ps.asset, ps.amount)

\* An unmap takes, a settlement refunds or leaves the ledger alone, and every
\* other step is a ledger handler or leaves it alone.
LEMMA LedgerSteps ==
    ASSUME TypeOK, [Next]_vars
    PROVE  \/ \E from \in Accounts, to \in Recipients, asset \in Assets, token \in Assets,
                 amt \in Amounts, gas \in Nat, total \in Nat :
                     Takes(from, to, asset, token, amt, gas, total)
           \/ UNCHANGED allow /\ \E n \in DOMAIN spends : Refunds(spends[n])
           \/ UserOp
           \/ UNCHANGED <<bal, allow, supply>>
<1>1. CASE Unmap
  BY <1>1, UnmapTakes
<1>2. CASE \E m \in Included : ConfirmSpend(m)
  BY <1>2 DEF ConfirmSpend, ReceiptEffect, Refunds
<1>3. CASE Drop
  <2>1. \E n \in DOMAIN spends : RefundAndAdvance(n)
    BY <1>3 DEF Drop, ClearNonce, HandleClearNonce, ExpireWithdrawal, CancelMyWithdrawal
  <2> QED
    BY <2>1 DEF RefundAndAdvance, Refunds
<1>4. CASE LedgerOp
  BY <1>4 DEF LedgerOp, Pause, Unpause, SetGasReserve
<1>5. CASE \/ ReplaceWithdrawal
           \/ \E v \in VaultChoices : SetVault(v)
           \/ ClearTestnetState
           \/ AddBlock
           \/ \E t \in signed, ok \in BOOLEAN : MineVaultTx(t, ok)
           \/ EmptyBlock
           \/ HiveTick
           \/ UNCHANGED vars
  BY <1>5 DEF ReplaceWithdrawal, SetVault, ClearTestnetState, AddBlock, MineVaultTx, EmptyBlock,
              HiveTick, vars, ledgerVars
<1> QED
  BY <1>1, <1>2, <1>3, <1>4, <1>5 DEF Next

(***************************************************************************)
(* The supply totals.                                                      *)
(***************************************************************************)
\* The ledger starts as deposits leave it: what TrackDeposit adds to Active it
\* adds to User or to Fee, and the User total is the sum of the balances (for
\* ETH no less, after withdrawals).  Deposits_proofs shows the second half kept
\* by deposits, unless a taxed deposit is swapped.
LedgerFromDeposits ==
    \A a \in Assets :
        /\ InitSupply[a].Active = InitSupply[a].User + InitSupply[a].Fee
        /\ IF a = Eth THEN Total(InitBal, a) <= InitSupply[a].User
           ELSE Total(InitBal, a) = InitSupply[a].User

SupplyInv == SupplyBalanced /\ UserSupplyTracksBalances

\* The typed ledger, and the sum in the form of the lemmas about sums.
LEMMA LedgerTotals ==
    ASSUME TypeOK
    PROVE  /\ bal \in Balances
           /\ supply \in Supplies
           /\ \A a \in Assets : /\ TotalBal(a) = Total(bal, a)
                                /\ TotalBal(a)' = Total(bal', a)
                                /\ Total(bal, a) \in Nat
                                /\ supply[a].Active \in Nat
                                /\ supply[a].User \in Nat
                                /\ supply[a].Fee \in Nat
<1>1. bal \in Balances /\ supply \in Supplies
  BY DEF TypeOK, LedgerTypeOK, Balances, Supplies
<1> QED
  BY <1>1, TotalType DEF TotalBal, Total, Supplies, SupplyRecord

LEMMA SupplyInit == ASSUME LedgerFromDeposits PROVE Init => SupplyInv
BY DEF Init, LedgerInit, LedgerFromDeposits, SupplyInv, SupplyBalanced,
       UserSupplyTracksBalances, TotalBal, Total

\* The clamps of HandleUnmapETH do not bite, and TrackWithdrawal does not
\* abort: the debited balance is covered by the User total, and that by Active.
LEMMA TakesKeepsSupply ==
    ASSUME TypeOK, SupplyInv, NEW from \in Accounts, NEW to, NEW asset \in Assets, NEW token,
           NEW amt \in Amounts, NEW gas, NEW total \in Nat,
           Takes(from, to, asset, token, amt, gas, total)
    PROVE  SupplyInv'
<1>1. amt \in Nat /\ total >= amt /\ bal[<<from, asset>>] >= total
  BY LedgerAssumption DEF Takes, CanDebit
<1>2. /\ bal \in Balances
      /\ supply \in Supplies
      /\ bal[<<from, asset>>] \in Nat
      /\ bal[<<from, asset>>] <= Total(bal, asset)
      /\ \A a \in Assets : /\ TotalBal(a) = Total(bal, a)
                           /\ TotalBal(a)' = Total(bal', a)
                           /\ Total(bal, a) \in Nat
                           /\ supply[a].Active \in Nat
                           /\ supply[a].User \in Nat
                           /\ supply[a].Fee \in Nat
  BY LedgerTotals, TotalType
<1>3. \A a \in Assets : Total(bal', a) = Total(bal, a) - (IF a = asset THEN total ELSE 0)
  BY <1>1, <1>2, TotalDebit DEF Takes
<1>4. /\ \A a \in Assets : supply[a].Active = supply[a].User + supply[a].Fee
      /\ \A a \in Assets : IF a = Eth THEN Total(bal, a) <= supply[a].User
                           ELSE Total(bal, a) = supply[a].User
  BY <1>2 DEF SupplyInv, SupplyBalanced, UserSupplyTracksBalances
<1>5. SUFFICES /\ \A a \in Assets : supply'[a].Active = supply'[a].User + supply'[a].Fee
               /\ \A a \in Assets : IF a = Eth THEN Total(bal', a) <= supply'[a].User
                                    ELSE Total(bal', a) = supply'[a].User
  BY <1>2 DEF SupplyInv, SupplyBalanced, UserSupplyTracksBalances
<1>6. /\ total <= Total(bal, asset)
      /\ total <= supply[asset].User
      /\ amt <= supply[asset].Active
  BY <1>1, <1>2, <1>4
<1>7. CASE asset = Eth /\ supply' = BookEthWithdrawal(amt, total)
  <2>1. /\ supply'[asset].Active = supply[asset].Active - amt
        /\ supply'[asset].User = supply[asset].User - total
        /\ supply'[asset].Fee = supply[asset].Fee + (total - amt)
        /\ \A a \in Assets \ {asset} : supply'[a] = supply[a]
    BY <1>1, <1>2, <1>6, <1>7 DEF BookEthWithdrawal, Floor0, Supplies
  <2> QED
    BY <1>1, <1>2, <1>3, <1>4, <1>6, <1>7, <2>1
<1>8. CASE /\ asset = Eth \/ total = amt
           /\ supply' = TrackWithdrawal(asset, amt)
  <2>1. /\ supply'[asset].Active = supply[asset].Active - amt
        /\ supply'[asset].User = supply[asset].User - amt
        /\ supply'[asset].Fee = supply[asset].Fee
        /\ \A a \in Assets \ {asset} : supply'[a] = supply[a]
    BY <1>2, <1>8 DEF TrackWithdrawal, Supplies
  <2> QED
    BY <1>1, <1>2, <1>3, <1>4, <1>8, <2>1
<1> QED
  BY <1>7, <1>8 DEF Takes, Books

\* A refund gives the totals back what it gives the balance.
LEMMA RefundKeepsSupply ==
    ASSUME TypeOK, SupplyInv, NEW n \in DOMAIN spends, Refunds(spends[n])
    PROVE  SupplyInv'
<1>1. PICK u \in Accounts, asset \in Assets, amt \in Nat :
         /\ bal' = IncBalance(bal, u, asset, amt)
         /\ supply' = RestoreSupply(asset, amt)
  BY DEF Refunds, TypeOK, PendingSpend
<1>2. /\ bal \in Balances
      /\ supply \in Supplies
      /\ \A a \in Assets : /\ TotalBal(a) = Total(bal, a)
                           /\ TotalBal(a)' = Total(bal', a)
                           /\ Total(bal, a) \in Nat
                           /\ supply[a].Active \in Nat
                           /\ supply[a].User \in Nat
                           /\ supply[a].Fee \in Nat
  BY LedgerTotals
<1>3. \A a \in Assets : Total(bal', a) = Total(bal, a) + (IF a = asset THEN amt ELSE 0)
  BY <1>1, <1>2, TotalCredit
<1>4. /\ supply'[asset].Active = supply[asset].Active + amt
      /\ supply'[asset].User = supply[asset].User + amt
      /\ supply'[asset].Fee = supply[asset].Fee
      /\ \A a \in Assets \ {asset} : supply'[a] = supply[a]
  BY <1>1, <1>2 DEF RestoreSupply, Supplies
<1> QED
  BY <1>2, <1>3, <1>4 DEF SupplyInv, SupplyBalanced, UserSupplyTracksBalances

LEMMA SupplyStep == TypeOK /\ SupplyInv /\ [Next]_vars => SupplyInv'
<1> SUFFICES ASSUME TypeOK, SupplyInv, [Next]_vars PROVE SupplyInv'
  OBVIOUS
<1>1. CASE \E from \in Accounts, to \in Recipients, asset \in Assets, token \in Assets,
              amt \in Amounts, gas \in Nat, total \in Nat :
                  Takes(from, to, asset, token, amt, gas, total)
  BY <1>1, TakesKeepsSupply
<1>2. CASE \E n \in DOMAIN spends : Refunds(spends[n])
  BY <1>2, RefundKeepsSupply
<1>3. ASSUME UNCHANGED supply, \A a \in Assets : Total(bal', a) = Total(bal, a)
      PROVE  SupplyInv'
  BY <1>3, LedgerTotals DEF SupplyInv, SupplyBalanced, UserSupplyTracksBalances
<1>4. CASE UserOp
  <2>1. UNCHANGED supply
    BY <1>4, UserOpMoves DEF TypeOK
  <2>2. \A a \in Assets : Total(bal', a) = Total(bal, a)
    BY <1>4, UserOpMoves, LedgerTotals, TotalMove DEF TypeOK
  <2> QED
    BY <1>3, <2>1, <2>2
<1>5. CASE UNCHANGED <<bal, allow, supply>>
  BY <1>3, <1>5
<1> QED
  BY <1>1, <1>2, <1>4, <1>5, LedgerSteps

\* supply.go: whatever mix of unmaps, unmapFroms, refunds and transfers, on any
\* ledger that deposits may leave, Active stays the sum of User and Fee: the
\* clamps at zero of HandleUnmapETH never lose an amount.
THEOREM SupplyAlwaysBalanced ==
    ASSUME LedgerFromDeposits
    PROVE  Spec => []SupplyBalanced
<1>1. Init => TypeOK /\ SupplyInv
  BY TypeInit, SupplyInit
<1>2. TypeOK /\ SupplyInv /\ [Next]_vars => (TypeOK /\ SupplyInv)'
  BY TypeStep, SupplyStep
<1>3. SupplyInv => SupplyBalanced
  BY DEF SupplyInv
<1> QED
  BY <1>1, <1>2, <1>3, PTL DEF Spec

\* supply.go: nor does the User total come apart from the balances, so that a
\* withdrawal a balance covers never aborts in TrackWithdrawal.
THEOREM UserSupplyAlwaysTracks ==
    ASSUME LedgerFromDeposits
    PROVE  Spec => []UserSupplyTracksBalances
<1>1. Init => TypeOK /\ SupplyInv
  BY TypeInit, SupplyInit
<1>2. TypeOK /\ SupplyInv /\ [Next]_vars => (TypeOK /\ SupplyInv)'
  BY TypeStep, SupplyStep
<1>3. SupplyInv => UserSupplyTracksBalances
  BY DEF SupplyInv
<1> QED
  BY <1>1, <1>2, <1>3, PTL DEF Spec

(***************************************************************************)
(* Allowances.                                                             *)
(***************************************************************************)
\* Owner o loses no more of asset a than one of its allowances shrinks by.
Spent(o, a) ==
    \E s \in Accounts, amt \in Nat :
        /\ bal'[<<o, a>>] >= bal[<<o, a>>] - amt
        /\ allow'[<<o \o s, a>>] = allow[<<o \o s, a>>] - amt
        /\ \A r \in Accounts \ {s} : allow'[<<o \o r, a>>] = allow[<<o \o r, a>>]

\* One owner's spenders name different allowances.
LEMMA OwnGrantsDiffer ==
    ASSUME NEW o \in Accounts, NEW s \in Accounts, NEW t \in Accounts, o \o s = o \o t
    PROVE  s = t
<1>1. {o, s, t} \subseteq Seq(STRING)
  BY LedgerAssumption
<1> QED
  BY <1>1, ConcatSimplifications

\* Nobody else's name begins a key of a sheltered account; its own, with parts
\* after it, is another account's.
LEMMA ShelteredKeys ==
    ASSUME NEW o \in Sheltered, NEW u \in Accounts, NEW p \in Parts
    PROVE  /\ o \in Accounts \ Callers
           /\ u \o p = o => u = o /\ p = << >>
           /\ \A s \in Accounts, t \in Accounts : (u \o p) \o s = o \o t => u = o
<1>1. o \in Accounts \ Callers /\ o \in Seq(STRING) /\ p \in Seq(STRING)
  BY LedgerAssumption DEF Sheltered
<1>2. \A s \in Accounts, t \in Accounts : (u \o p) \o s = o \o t => u = o
  BY DEF Sheltered
<1>3. ASSUME u \o p = o PROVE u = o /\ p = << >>
  <2>1. (u \o p) \o o = o \o o
    BY <1>3, Zenon
  <2>2. u = o
    BY <1>1, <1>2, <2>1
  <2>3. o \o p = o
    BY <1>3, <2>2, Zenon
  <2> QED
    BY <1>1, <2>2, <2>3, ConcatSimplifications
<1> QED
  BY <1>1, <1>2, <1>3

\* A step that lowers no balance of o and touches none of its allowances.
LEMMA SpentNothing ==
    ASSUME TypeOK, NEW o \in Accounts, NEW a \in Assets,
           bal'[<<o, a>>] >= bal[<<o, a>>],
           \A s \in Accounts : allow'[<<o \o s, a>>] = allow[<<o \o s, a>>]
    PROVE  Spent(o, a)
<1>1. /\ bal[<<o, a>>] \in Nat
      /\ allow[<<o \o o, a>>] \in Nat
  BY GrantIn DEF TypeOK, LedgerTypeOK
<1>2. bal'[<<o, a>>] >= bal[<<o, a>>] - 0
  BY <1>1
<1>3. allow'[<<o \o o, a>>] = allow[<<o \o o, a>>] - 0
  <2> DEFINE old == allow[<<o \o o, a>>]
  <2>1. allow'[<<o \o o, a>>] = old /\ old \in Nat
    BY <1>1, Zenon
  <2> HIDE DEF old
  <2>2. allow'[<<o \o o, a>>] = old - 0
    BY <2>1
  <2> QED
    BY <2>2 DEF old
<1> QED
  BY <1>2, <1>3 DEF Spent

\* transferFrom and unmapFrom spend what the owner they name gave their caller;
\* that allowance, named twice, may be one of o's without its balance moving.
LEMMA SpentAllowance ==
    ASSUME TypeOK, NEW o \in Accounts, NEW a \in Assets, NEW d \in Accounts,
           NEW from \in Accounts, NEW asset \in Assets, NEW amt \in Nat,
           bal'[<<o, a>>] \in Nat,
           bal'[<<o, a>>] >= bal[<<o, a>>] - (IF from = o /\ asset = a THEN amt ELSE 0),
           allow' = SpendAllowance(from, d, asset, amt)
    PROVE  Spent(o, a)
<1> DEFINE k == from \o d
<1>1. /\ bal[<<o, a>>] \in Nat
      /\ allow \in Allowances
      /\ \A s \in Accounts : o \o s \in Grants /\ allow[<<o \o s, a>>] \in Nat
      /\ k \in Grants
  BY GrantIn DEF TypeOK, LedgerTypeOK, Allowances
<1>2. allow' = [allow EXCEPT ![<<k, asset>>] = allow[<<k, asset>>] - amt]
  BY DEF SpendAllowance, SetAllowance, GetAllowance
<1>3. from = o => k = o \o d
  OBVIOUS
<1> HIDE DEF k
<1>4. bal'[<<o, a>>] >= bal[<<o, a>>] - amt
  <2>1. CASE from = o /\ asset = a
    BY <2>1
  <2>2. CASE ~(from = o /\ asset = a)
    BY <1>1, <2>2
  <2> QED
    BY <2>1, <2>2
<1>5. ASSUME asset = a, NEW s \in Accounts, k = o \o s
      PROVE  Spent(o, a)
  <2>1. allow'[<<o \o s, a>>] = allow[<<o \o s, a>>] - amt
    BY <1>1, <1>2, <1>5 DEF Allowances
  <2>2. ASSUME NEW r \in Accounts \ {s} PROVE allow'[<<o \o r, a>>] = allow[<<o \o r, a>>]
    <3>1. o \o r # k
      BY <1>5, OwnGrantsDiffer
    <3> QED
      BY <1>1, <1>2, <3>1 DEF Allowances
  <2> QED
    BY <1>4, <2>1, <2>2 DEF Spent
<1>6. ASSUME asset # a \/ \A s \in Accounts : k # o \o s
      PROVE  Spent(o, a)
  <2>1. \A s \in Accounts : allow'[<<o \o s, a>>] = allow[<<o \o s, a>>]
    BY <1>1, <1>2, <1>6 DEF Allowances
  <2>2. bal'[<<o, a>>] >= bal[<<o, a>>]
    BY <1>1, <1>3, <1>6
  <2> QED
    BY <2>1, <2>2, SpentNothing
<1> QED
  BY <1>5, <1>6

\* The ledger handlers, called by others, take no more from o.
LEMMA UserOpSpends ==
    ASSUME TypeOK, UserOp, NEW o \in Sheltered, NEW a \in Assets
    PROVE  Spent(o, a)
<1>1. PICK c \in Callers, p \in Parts, asset \in Assets, amt \in Amounts :
         \/ \E to \in Accounts : Transfer(c, to, p, asset, amt)
         \/ \E from, to \in Accounts : TransferFrom(c, from, to, p, asset, amt)
         \/ \E s \in Spenders : Approve(c, p, s, asset, amt)
         \/ \E s \in Spenders : Approve(c, p, s, asset, 0)
         \/ \E s \in Spenders : IncreaseAllowance(c, p, s, asset, amt)
         \/ \E s \in Spenders : DecreaseAllowance(c, p, s, asset, amt)
  BY DEF UserOp
<1>2. /\ c \in Accounts /\ Spenders \subseteq Accounts /\ amt \in Nat
      /\ o \in Accounts /\ c # o
  BY LedgerAssumption, ShelteredKeys
<1>3. bal \in Balances /\ allow \in Allowances
  BY DEF TypeOK, LedgerTypeOK, Balances, Allowances
<1>4. ASSUME NEW u \in Accounts, NEW v \in Accounts, Moves(u, v, asset, amt)
      PROVE  bal'[<<o, a>>] >= bal[<<o, a>>] - (IF u = o /\ asset = a THEN amt ELSE 0)
  BY <1>2, <1>3, <1>4 DEF Moves, IncBalance, DecBalance, Balances
<1>5. bal[<<o, a>>] \in Nat /\ bal'[<<o, a>>] \in Nat
  <2>1. LedgerTypeOK'
    BY UserOpType DEF TypeOK
  <2> QED
    BY <1>2, <1>3, <2>1 DEF Balances, LedgerTypeOK
<1>6. CASE \E to \in Accounts : Transfer(c, to, p, asset, amt)
  <2>1. PICK to \in Accounts : Transfer(c, to, p, asset, amt)
    BY <1>6
  <2>2. c \o p # o
    BY <1>2, ShelteredKeys
  <2>3. Moves(c \o p, to \o p, asset, amt) /\ {c \o p, to \o p} \subseteq Accounts
    BY <2>1 DEF Transfer, Moves
  <2>4. bal'[<<o, a>>] >= bal[<<o, a>>] - (IF c \o p = o /\ asset = a THEN amt ELSE 0)
    BY <1>4, <2>3
  <2>5. bal'[<<o, a>>] >= bal[<<o, a>>]
    BY <1>5, <2>2, <2>4
  <2> QED
    BY <1>2, <2>1, <2>5, SpentNothing DEF Transfer
<1>7. CASE \E from, to \in Accounts : TransferFrom(c, from, to, p, asset, amt)
  <2>1. PICK from \in Accounts, to \in Accounts : TransferFrom(c, from, to, p, asset, amt)
    BY <1>7
  <2>2. /\ Moves(from \o p, to \o p, asset, amt)
        /\ {from \o p, c \o p, to \o p} \subseteq Accounts
        /\ allow' = SpendAllowance(from, c \o p, asset, amt)
    BY <2>1 DEF TransferFrom, Moves
  <2>3. from \o p = o => from = o
    BY ShelteredKeys
  <2>4. bal'[<<o, a>>] >= bal[<<o, a>>] - (IF from \o p = o /\ asset = a THEN amt ELSE 0)
    BY <1>4, <2>2
  <2>5. bal'[<<o, a>>] >= bal[<<o, a>>] - (IF from = o /\ asset = a THEN amt ELSE 0)
    <3> DEFINE u == from \o p
    <3>1. u = o => from = o
      BY <2>3
    <3>2. bal'[<<o, a>>] >= bal[<<o, a>>] - (IF u = o /\ asset = a THEN amt ELSE 0)
      BY <2>4
    <3> HIDE DEF u
    <3> QED
      BY <1>2, <1>5, <3>1, <3>2
  <2> QED
    BY <1>2, <1>5, <2>2, <2>5, SpentAllowance
<1>8. ASSUME UNCHANGED bal, c \o p \in Accounts, NEW s \in Spenders, NEW x,
             allow' = SetAllowance(c \o p, s, asset, x)
      PROVE  Spent(o, a)
  <2>1. ASSUME NEW r \in Accounts PROVE allow'[<<o \o r, a>>] = allow[<<o \o r, a>>]
    <3> DEFINE k == (c \o p) \o s
               l == o \o r
    <3>1. k # l
      BY <1>2, ShelteredKeys
    <3>2. l \in Grants
      BY <1>2, GrantIn
    <3>3. allow' = [allow EXCEPT ![<<k, asset>>] = x]
      BY <1>8 DEF SetAllowance
    <3> HIDE DEF k, l
    <3>4. allow'[<<l, a>>] = allow[<<l, a>>]
      BY <1>3, <3>1, <3>2, <3>3 DEF Allowances
    <3> QED
      BY <3>4 DEF l
  <2> QED
    <3>1. bal'[<<o, a>>] >= bal[<<o, a>>]
      BY <1>5, <1>8
    <3> QED
      BY <1>2, <2>1, <3>1, SpentNothing
<1>9. CASE \E s \in Spenders : \/ Approve(c, p, s, asset, amt)
                               \/ Approve(c, p, s, asset, 0)
                               \/ IncreaseAllowance(c, p, s, asset, amt)
                               \/ DecreaseAllowance(c, p, s, asset, amt)
  BY <1>8, <1>9 DEF Approve, IncreaseAllowance, DecreaseAllowance
<1> QED
  BY <1>1, <1>6, <1>7, <1>9

\* No step does, for tokens: an ETH unmapFrom also takes the fee.
LEMMA PassiveStep ==
    ASSUME TypeOK, [Next]_vars, NEW o \in Sheltered, NEW a \in Tokens
    PROVE  Spent(o, a)
<1>1. /\ o \in Accounts \ Callers
      /\ bal \in Balances /\ a \in Assets /\ a # Eth /\ bal[<<o, a>>] \in Nat
      /\ bal'[<<o, a>>] \in Nat
  BY LedgerAssumption, TypeStep DEF TypeOK, LedgerTypeOK, Balances, Assets, Sheltered
<1>2. CASE \E from \in Accounts, to \in Recipients, asset \in Assets, token \in Assets,
              amt \in Amounts, gas \in Nat, total \in Nat :
                  Takes(from, to, asset, token, amt, gas, total)
  <2>1. PICK from \in Accounts, to \in Recipients, asset \in Assets, token \in Assets,
             amt \in Amounts, gas \in Nat, total \in Nat :
                 Takes(from, to, asset, token, amt, gas, total)
    BY <1>2
  <2>2. amt \in Nat /\ Callers \subseteq Accounts
    BY LedgerAssumption
  <2>3. bal'[<<o, a>>] = bal[<<o, a>>] - (IF from = o /\ asset = a THEN total ELSE 0)
    BY <1>1, <2>1 DEF Takes, DecBalance, Balances
  <2>4. asset = a => total = amt
    BY <1>1, <2>1 DEF Takes, Books
  <2>5. bal'[<<o, a>>] >= bal[<<o, a>>] - (IF from = o /\ asset = a THEN amt ELSE 0)
    BY <1>1, <2>2, <2>3, <2>4
  <2>6. CASE from \in Callers /\ UNCHANGED allow
    <3>1. bal'[<<o, a>>] >= bal[<<o, a>>]
      BY <1>1, <2>5, <2>6
    <3> QED
      BY <1>1, <2>6, <3>1, SpentNothing
  <2>7. CASE \E c \in Callers : allow' = SpendAllowance(from, c, asset, amt)
    BY <1>1, <2>2, <2>5, <2>7, SpentAllowance
  <2> QED
    BY <2>1, <2>6, <2>7 DEF Takes, Authorised
<1>3. CASE UNCHANGED allow /\ \E n \in DOMAIN spends : Refunds(spends[n])
  <2>1. PICK u \in Accounts, asset \in Assets, amt \in Nat : bal' = IncBalance(bal, u, asset, amt)
    BY <1>3 DEF Refunds, TypeOK, PendingSpend
  <2>2. bal'[<<o, a>>] >= bal[<<o, a>>]
    BY <1>1, <2>1 DEF IncBalance, Balances
  <2> QED
    BY <1>1, <1>3, <2>2, SpentNothing
<1>4. CASE UserOp
  BY <1>1, <1>4, UserOpSpends
<1>5. CASE UNCHANGED <<bal, allow, supply>>
  BY <1>1, <1>5, SpentNothing
<1> QED
  BY <1>2, <1>3, <1>4, <1>5, LedgerSteps

LEMMA PassiveInit == Init => PassiveOwnerLosesAtMostAllowance
<1> SUFFICES ASSUME Init, NEW o \in Sheltered, NEW a \in Tokens
             PROVE  InitBal[<<o, a>>] - bal[<<o, a>>] <=
                        SumFunction([s \in Accounts |-> InitAllow[<<o \o s, a>>] - allow[<<o \o s, a>>]])
  BY DEF PassiveOwnerLosesAtMostAllowance, GetAllowance
<1> DEFINE f == [s \in Accounts |-> InitAllow[<<o \o s, a>>] - allow[<<o \o s, a>>]]
<1>1. /\ InitBal[<<o, a>>] \in Nat
      /\ bal = InitBal
      /\ allow = InitAllow
      /\ \A s \in Accounts : InitAllow[<<o \o s, a>>] \in Nat
  BY LedgerAssumption, GrantIn DEF Init, LedgerInit, Assets, Sheltered
<1>2. f \in [Accounts -> Int] /\ \A s \in Accounts : f[s] >= 0
  <2> DEFINE d(s) == InitAllow[<<o \o s, a>>] - allow[<<o \o s, a>>]
  <2>1. ASSUME NEW s \in Accounts PROVE d(s) \in Int /\ d(s) >= 0
    <3> DEFINE x == InitAllow[<<o \o s, a>>]
    <3>1. x \in Nat /\ d(s) = x - x
      BY <1>1, Zenon
    <3> HIDE DEF x, d
    <3> QED
      BY <3>1
  <2>2. f = [s \in Accounts |-> d(s)]
    OBVIOUS
  <2> HIDE DEF d, f
  <2> QED
    BY <2>1, <2>2
<1> HIDE DEF f
<1>3. SumFunction(f) \in Int /\ SumFunction(f) >= 0
  BY <1>2, FiniteAccounts, SumType
<1>4. InitBal[<<o, a>>] - bal[<<o, a>>] <= SumFunction(f)
  BY <1>1, <1>3
<1> QED
  BY <1>4 DEF f

\* balance.go, SpendAllowance: an account that makes no call, and whose name no
\* other account's begins at a dash, loses no more of a token than its
\* allowances have shrunk by, transferFrom and unmapFrom together, however they
\* interleave with withdrawals, reverts and refunds.
THEOREM PassiveOwnerAlwaysProtected == Spec => []PassiveOwnerLosesAtMostAllowance
<1>1. TypeOK /\ PassiveOwnerLosesAtMostAllowance /\ [Next]_vars
          => PassiveOwnerLosesAtMostAllowance'
  <2> SUFFICES ASSUME TypeOK, PassiveOwnerLosesAtMostAllowance, [Next]_vars,
                      NEW o \in Sheltered, NEW a \in Tokens
               PROVE  InitBal[<<o, a>>] - bal'[<<o, a>>] <=
                          SumFunction([s \in Accounts |->
                              InitAllow[<<o \o s, a>>] - allow'[<<o \o s, a>>]])
    BY DEF PassiveOwnerLosesAtMostAllowance, GetAllowance
  <2> DEFINE f == [s \in Accounts |-> InitAllow[<<o \o s, a>>] - allow[<<o \o s, a>>]]
             g == [s \in Accounts |-> InitAllow[<<o \o s, a>>] - allow'[<<o \o s, a>>]]
  <2>1. PICK s \in Accounts, amt \in Nat :
           /\ bal'[<<o, a>>] >= bal[<<o, a>>] - amt
           /\ allow'[<<o \o s, a>>] = allow[<<o \o s, a>>] - amt
           /\ \A r \in Accounts \ {s} : allow'[<<o \o r, a>>] = allow[<<o \o r, a>>]
    BY PassiveStep DEF Spent
  <2>2. /\ o \in Accounts /\ a \in Assets
        /\ InitBal[<<o, a>>] \in Nat
        /\ bal[<<o, a>>] \in Nat
        /\ bal'[<<o, a>>] \in Nat
        /\ \A r \in Accounts : /\ InitAllow[<<o \o r, a>>] \in Nat
                               /\ allow[<<o \o r, a>>] \in Nat
                               /\ allow'[<<o \o r, a>>] \in Nat
    BY LedgerAssumption, GrantIn, TypeStep DEF TypeOK, LedgerTypeOK, Assets, Sheltered
  <2>3. /\ f \in [Accounts -> Int] /\ g \in [Accounts -> Int]
        /\ \A r \in Accounts \ {s} : f[r] = g[r]
        /\ g[s] = f[s] + amt
    <3> DEFINE i(r) == InitAllow[<<o \o r, a>>]
               old(r) == allow[<<o \o r, a>>]
               new(r) == allow'[<<o \o r, a>>]
    <3>1. \A r \in Accounts : i(r) \in Nat /\ old(r) \in Nat /\ new(r) \in Nat
      BY <2>2
    <3>2. new(s) = old(s) - amt /\ \A r \in Accounts \ {s} : new(r) = old(r)
      BY <2>1, Zenon
    <3>3. f = [r \in Accounts |-> i(r) - old(r)] /\ g = [r \in Accounts |-> i(r) - new(r)]
      OBVIOUS
    <3> HIDE DEF i, old, new, f, g
    <3> QED
      BY <3>1, <3>2, <3>3
  <2>4. InitBal[<<o, a>>] - bal[<<o, a>>] <= SumFunction(f)
    BY DEF PassiveOwnerLosesAtMostAllowance, GetAllowance
  <2> HIDE DEF f, g
  <2>5. SumFunction(g) = SumFunction(f) + g[s] - f[s] /\ SumFunction(f) \in Int
    BY <2>3, FiniteAccounts, SumChange, SumType
  <2>6. SumFunction(g) = SumFunction(f) + amt
    BY <2>3, <2>5
  <2>7. InitBal[<<o, a>>] - bal'[<<o, a>>] <= SumFunction(g)
    BY <2>1, <2>2, <2>4, <2>5, <2>6
  <2> QED
    BY <2>7 DEF g
<1> QED
  BY <1>1, TypeInit, TypeStep, PassiveInit, PTL DEF Spec

(***************************************************************************)
(* Refinement.                                                             *)
(***************************************************************************)
\* Only the vault's own nonces are shown as dropped, and no other sender's
\* address is ever configured as the vault.
VaultEvidence ==
    /\ ~IsTestnet
    /\ OwnEvidenceOnly
    /\ \A m \in ForeignTxs : m.sender \notin VaultAddrs

\* L1 has used the nonce of every settled withdrawal, so that none is paid
\* after it was refunded.
SettledIsMined == confirmedNonce <= Len(mined)

PositiveAmounts == \A n \in DOMAIN spends : spends[n].amount > 0

EscrowInv == IInv /\ SettledIsMined /\ PositiveAmounts

\* A withdrawal that leaves the queue has its nonce used on L1: paid there and
\* nothing moves here, or not paid, and its amount goes back.
LEMMA SettlingOutcome ==
    ASSUME VaultEvidence, EscrowInv, [Next]_vars, NEW n \in DOMAIN spends \ DOMAIN spends'
    PROVE  /\ n = confirmedNonce
           /\ pendingNonce = n + 1
           /\ DOMAIN spends = {n}
           /\ DOMAIN spends' = {}
           /\ confirmedNonce' = n + 1
           /\ pendingNonce' = n + 1
           /\ UNCHANGED mined
           /\ \E i \in DOMAIN mined : mined[i].nonce = n
           /\ \/ UNCHANGED bal /\ Executed(n)
              \/ /\ bal' = IncBalance(bal, spends[n].from, spends[n].asset, spends[n].amount)
                 /\ ~Executed(n)
<1>1. TypeOK /\ QueueInv /\ IInv /\ ~IsTestnet
  BY DEF EscrowInv, IInv, VaultEvidence
<1>2. /\ n = confirmedNonce
      /\ n \in Nat
      /\ pendingNonce = n + 1
      /\ DOMAIN spends = {n}
      /\ spends[n] \in PendingSpend
      /\ spends[n].nonce = n
  BY <1>1, HeadOnly DEF TypeOK
<1>3. ASSUME NEW m \in Included, m.sender \in VaultAddrs, m.nonce = n
      PROVE  \E i \in DOMAIN mined :
                /\ m = mined[i]
                /\ \A j \in DOMAIN mined : mined[j].nonce = n => j = i
  <2>1. PICK i \in DOMAIN mined : m = mined[i]
    BY <1>3 DEF Included, VaultEvidence
  <2>2. DOMAIN mined \subseteq Int
    BY <1>1 DEF TypeOK
  <2> QED
    BY <1>1, <1>3, <2>1, <2>2 DEF IInv, MinedFromSigned
<1>4. CASE \E m \in Included : ConfirmSpend(m)
  <2>1. PICK m \in Included : ConfirmSpend(m)
    BY <1>4
  <2>2. /\ m.nonce = n
        /\ m.sender \in VaultAddrs
        /\ m.amount = spends[n].amount
        /\ ReceiptEffect(m, spends[n])
    BY <1>2, <2>1 DEF ConfirmSpend, Proves, PendingSpend
  <2>3. PICK i \in DOMAIN mined :
                /\ m = mined[i]
                /\ \A j \in DOMAIN mined : mined[j].nonce = n => j = i
    BY <1>3, <2>2
  <2>4. m.ok => Executed(n) /\ UNCHANGED bal
    BY <2>2, <2>3 DEF Executed, ReceiptEffect, EscrowInv, PositiveAmounts
  <2>5. ~m.ok => /\ ~Executed(n)
                 /\ bal' = IncBalance(bal, spends[n].from, spends[n].asset, spends[n].amount)
    BY <2>2, <2>3 DEF Executed, ReceiptEffect
  <2>6. confirmedNonce' = n + 1 /\ pendingNonce' = n + 1 /\ DOMAIN spends' = {}
    BY <1>1, <1>2, <2>1, ConfirmCloses DEF Closes
  <2>7. UNCHANGED mined
    BY <2>1 DEF ConfirmSpend, l1Vars
  <2> QED
    BY <1>2, <2>2, <2>3, <2>4, <2>5, <2>6, <2>7
<1>5. CASE \E m \in Included : /\ RefundAndAdvance(n)
                               /\ Submitted(m, spends[n])
                               /\ VerifyL1ProofOfDrop(m, spends[n])
  <2>1. PICK m \in Included : /\ RefundAndAdvance(n)
                             /\ Submitted(m, spends[n])
                             /\ VerifyL1ProofOfDrop(m, spends[n])
    BY <1>5
  <2>2. m.sender = KeyAddr /\ m.nonce >= n /\ KeyAddr \in VaultAddrs
    BY <1>2, <2>1 DEF Submitted, VaultAddrs, VaultEvidence
  <2>3. m.nonce = n
    <3>1. PICK i \in DOMAIN mined : m = mined[i]
      BY <2>2 DEF Included, VaultEvidence
    <3>2. m.nonce \in Nat /\ m.nonce < pendingNonce
      BY <1>1, <3>1 DEF IInv, TypeOK, MinedFromSigned, SignedForQueue, Tx
    <3> QED
      BY <1>2, <2>2, <3>2
  <2>4. PICK i \in DOMAIN mined :
                /\ m = mined[i]
                /\ \A j \in DOMAIN mined : mined[j].nonce = n => j = i
    BY <1>3, <2>2, <2>3
  <2>5. ~m.ok
    BY <1>2, <2>1, <2>3 DEF VerifyL1ProofOfDrop
  <2>6. ~Executed(n)
    BY <2>4, <2>5 DEF Executed
  <2>7. NonceAdvance(n) = n + 1
    BY <1>2 DEF NonceAdvance
  <2>8. DOMAIN spends' = {}
    BY <1>1, <1>2, <2>1, DeletePendingSpendType DEF RefundAndAdvance
  <2> QED
    BY <1>2, <2>1, <2>3, <2>4, <2>6, <2>7, <2>8 DEF RefundAndAdvance, l1Vars
<1> QED
  BY <1>1, <1>4, <1>5, SettlingStep

\* The steps as the escrow sees them: a withdrawal is taken, or settled, or
\* the queue is left alone while an amount moves, L1 mines, or neither.
LEMMA EscrowSteps ==
    ASSUME VaultEvidence, EscrowInv, [Next]_vars
    PROVE  \/ Unmap
           \/ DOMAIN spends \ DOMAIN spends' # {}
           \/ /\ UNCHANGED <<confirmedNonce, pendingNonce, spends>>
              /\ \/ UNCHANGED <<bal, mined>>
                 \/ /\ UNCHANGED mined
                    /\ \E u \in Accounts, v \in Accounts, a \in Assets :
                           \E amt \in 1..bal[<<u, a>>] : Moves(u, v, a, amt)
                 \/ /\ UNCHANGED bal
                    /\ \E t \in signed, ok \in BOOLEAN : MineVaultTx(t, ok)
<1>1. TypeOK /\ QueueInv
  BY DEF EscrowInv, IInv
<1>2. Closes => DOMAIN spends \ DOMAIN spends' # {}
  BY DEF Closes
<1>3. CASE \E m \in Included : ConfirmSpend(m)
  BY <1>1, <1>2, <1>3, ConfirmCloses
<1>4. CASE Drop
  BY <1>1, <1>2, <1>4, DropCloses
<1>5. ~ClearTestnetState
  BY DEF ClearTestnetState, VaultEvidence
<1>6. CASE LedgerOp
  <2>1. UNCHANGED <<confirmedNonce, pendingNonce, spends, mined>>
    BY <1>6 DEF LedgerOp, queueVars, l1Vars
  <2>2. CASE UserOp
    BY <1>1, <2>1, <2>2, UserOpMoves DEF TypeOK
  <2>3. ASSUME ~UserOp PROVE UNCHANGED bal
    BY <1>6, <2>3 DEF LedgerOp, Pause, Unpause, SetGasReserve
  <2> QED
    BY <2>1, <2>2, <2>3
<1>7. CASE \E t \in signed, ok \in BOOLEAN : MineVaultTx(t, ok)
  BY <1>7 DEF MineVaultTx, ledgerVars, queueVars
<1>8. CASE \/ ReplaceWithdrawal
           \/ \E v \in VaultChoices : SetVault(v)
           \/ AddBlock
           \/ EmptyBlock
           \/ HiveTick
           \/ UNCHANGED vars
  BY <1>8 DEF ReplaceWithdrawal, SetVault, AddBlock, EmptyBlock, HiveTick, vars, ledgerVars,
              queueVars, l1Vars
<1> QED
  BY <1>3, <1>4, <1>5, <1>6, <1>7, <1>8 DEF Next

\* The vault's next transaction on L1, one of the withdrawal in flight.
LEMMA MinedIsOpen ==
    ASSUME VaultEvidence, EscrowInv, NEW t \in signed, NEW ok \in BOOLEAN, MineVaultTx(t, ok),
           UNCHANGED spends
    PROVE  /\ Len(mined') = Len(mined) + 1
           /\ t.nonce \in DOMAIN spends
           /\ \A n : n # t.nonce => (Executed(n)' <=> Executed(n))
<1>1. mined \in Seq(MinedTx) /\ confirmedNonce \in Nat /\ pendingNonce \in Nat
  BY DEF EscrowInv, IInv, TypeOK
<1>2. PICK x : mined' = Append(mined, x) /\ x.nonce = t.nonce
  BY DEF MineVaultTx
<1>3. t.nonce = Len(mined) /\ t.nonce < pendingNonce /\ confirmedNonce <= t.nonce
  BY DEF MineVaultTx, EscrowInv, SettledIsMined, IInv, SignedForQueue
<1>4. t.nonce \in DOMAIN spends
  BY <1>1, <1>3 DEF EscrowInv, IInv, QueueInv
<1>5. /\ Len(mined') = Len(mined) + 1
      /\ DOMAIN mined = 1..Len(mined)
      /\ DOMAIN mined' = 1..(Len(mined) + 1)
      /\ \A i \in 1..Len(mined) : mined'[i] = mined[i]
      /\ mined'[Len(mined) + 1] = x
  BY <1>1, <1>2
<1>6. ASSUME NEW n, n # t.nonce
      PROVE  Executed(n)' <=> Executed(n)
  <2>1. Executed(n) => Executed(n)'
    BY <1>1, <1>5 DEF Executed
  <2>2. ASSUME NEW i \in DOMAIN mined', mined'[i].nonce = n
        PROVE  i \in DOMAIN mined /\ mined'[i] = mined[i]
    BY <1>1, <1>2, <1>5, <1>6, <2>2
  <2>3. Executed(n)' => Executed(n)
    BY <2>2 DEF Executed
  <2> QED
    BY <2>1, <2>3
<1> QED
  BY <1>4, <1>5, <1>6

\* Every step keeps the invariant of the refinement.
LEMMA EscrowInvStep == ASSUME VaultEvidence PROVE EscrowInv /\ [Next]_vars => EscrowInv'
<1> SUFFICES ASSUME EscrowInv, [Next]_vars PROVE SettledIsMined' /\ PositiveAmounts'
  BY IInvStep DEF EscrowInv, VaultEvidence
<1>1. TypeOK /\ QueueInv
  BY DEF EscrowInv, IInv
<1>2. mined \in Seq(MinedTx) /\ confirmedNonce \in Nat
  BY <1>1 DEF TypeOK
<1>3. CASE Unmap
  <2>1. PICK from \in Accounts, to \in Recipients, asset \in Assets, token \in Assets,
             amt \in Amounts, gas \in Nat, total \in Nat :
                 Takes(from, to, asset, token, amt, gas, total)
    BY <1>1, <1>3, UnmapTakes
  <2>2. /\ DOMAIN spends' = {pendingNonce}
        /\ spends'[pendingNonce] = NewSpend(from, to, asset, token, amt, gas)
        /\ UNCHANGED <<confirmedNonce, mined>>
    BY <1>1, <2>1, TakesEntry
  <2>3. spends'[pendingNonce].amount = amt /\ amt > 0
    BY <2>2, LedgerAssumption DEF NewSpend
  <2> QED
    BY <2>2, <2>3 DEF EscrowInv, SettledIsMined, PositiveAmounts
<1>4. CASE DOMAIN spends \ DOMAIN spends' # {}
  <2>1. PICK n \in DOMAIN spends \ DOMAIN spends' : TRUE
    BY <1>4
  <2>2. /\ n = confirmedNonce /\ confirmedNonce' = n + 1
        /\ DOMAIN spends' = {}
        /\ UNCHANGED mined
        /\ \E i \in DOMAIN mined : mined[i].nonce = n
    BY <2>1, SettlingOutcome
  <2>3. n + 1 <= Len(mined)
    BY <1>2, <2>2 DEF EscrowInv, IInv, MinedFromSigned
  <2> QED
    BY <2>2, <2>3 DEF SettledIsMined, PositiveAmounts
<1>5. CASE /\ UNCHANGED <<confirmedNonce, pendingNonce, spends>>
           /\ UNCHANGED mined \/ \E t \in signed, ok \in BOOLEAN : MineVaultTx(t, ok)
  <2>1. Len(mined') = Len(mined) \/ Len(mined') = Len(mined) + 1
    BY <1>5, MinedIsOpen
  <2>2. SettledIsMined'
    BY <1>2, <1>5, <2>1 DEF EscrowInv, SettledIsMined
  <2> QED
    BY <1>5, <2>2 DEF EscrowInv, PositiveAmounts
<1> QED
  BY <1>3, <1>4, <1>5, EscrowSteps

\* The escrow starts as it should.
LEMMA EscrowInit == Init => Escrow!Init
<1> SUFFICES ASSUME Init PROVE Escrow!Init
  OBVIOUS
<1>1. bal \in [Accounts \X Assets -> Nat] /\ pendingNonce = 0
  BY LedgerAssumption DEF Init, LedgerInit
<1>2. DOMAIN spends = {} /\ OpenWithdrawals = {}
  BY DEF Init, OpenWithdrawals
<1>3. \A n \in Nonces : OutcomeOf(n) = "none"
  BY <1>1, <1>2, WithdrawalAssumption DEF OutcomeOf, Nonces
<1> QED
  BY <1>1, <1>2, <1>3 DEF Escrow!Init, Nonces

\* An unmap locks.
LEMMA UnmapLocks == ASSUME EscrowInv, Unmap PROVE Escrow!Next
<1>1. TypeOK /\ QueueInv
  BY DEF EscrowInv, IInv
<1>2. PICK from \in Accounts, to \in Recipients, asset \in Assets, token \in Assets,
           amt \in Amounts, gas \in Nat, total \in Nat :
               Takes(from, to, asset, token, amt, gas, total)
  BY <1>1, UnmapTakes
<1>3. /\ DOMAIN spends = {}
      /\ confirmedNonce = pendingNonce
      /\ pendingNonce' = pendingNonce + 1
      /\ DOMAIN spends' = {pendingNonce}
      /\ spends'[pendingNonce] = NewSpend(from, to, asset, token, amt, gas)
      /\ UNCHANGED mined
  BY <1>1, <1>2, TakesEntry
<1>4. /\ spends'[pendingNonce].from = from
      /\ spends'[pendingNonce].asset = asset
      /\ spends'[pendingNonce].amount = amt
  BY <1>3 DEF NewSpend
<1>5. /\ pendingNonce \in Nat /\ pendingNonce < MaxNonce /\ pendingNonce \in Nonces
      /\ amt \in Nat /\ amt > 0 /\ total \in Nat /\ total >= amt
      /\ bal \in [Accounts \X Assets -> Nat]
      /\ bal[<<from, asset>>] \in Nat /\ bal[<<from, asset>>] >= total
      /\ bal' = DecBalance(bal, from, asset, total)
  BY <1>1, <1>2, LedgerAssumption, WithdrawalAssumption
     DEF Takes, MayQueue, CanDebit, TypeOK, LedgerTypeOK, Nonces
<1>6. OpenWithdrawals = {}
  BY <1>3 DEF OpenWithdrawals
<1>7. OpenWithdrawals' =
          {[id |-> pendingNonce, from |-> from, asset |-> asset, amount |-> amt]}
  BY <1>3, <1>4 DEF OpenWithdrawals
<1>8. \A n : Executed(n)' <=> Executed(n)
  BY <1>3 DEF Executed
<1>9. OutcomeOf(pendingNonce) = "none"
  BY <1>3, <1>5 DEF OutcomeOf
<1>10. \A n \in Nonces : OutcomeOf(n)' = IF n = pendingNonce THEN "open" ELSE OutcomeOf(n)
  BY <1>3, <1>5, <1>8 DEF OutcomeOf, Nonces
<1>11. [n \in Nonces |-> OutcomeOf(n)]'
          = [[n \in Nonces |-> OutcomeOf(n)] EXCEPT ![pendingNonce] = "open"]
  BY <1>5, <1>10
<1>12. bal' = [bal EXCEPT ![<<from, asset>>] = @ - (amt + (total - amt))]
  BY <1>5 DEF DecBalance
<1>13. Escrow!Lock(from, asset, amt, total - amt)
  <2>1. [n \in Nonces |-> OutcomeOf(n)][pendingNonce] = "none"
    BY <1>5, <1>9
  <2>2. total - amt >= 0 /\ amt + (total - amt) = total
    BY <1>5
  <2> QED
    BY <1>3, <1>5, <1>6, <1>7, <1>11, <1>12, <2>1, <2>2 DEF Escrow!Lock
<1>14. total \in 1..bal[<<from, asset>>] /\ amt \in 1..total
  BY <1>5
<1> QED
  BY <1>13, <1>14 DEF Escrow!Next

\* A settlement pays or refunds the withdrawal in flight.
LEMMA SettlementSettles ==
    ASSUME VaultEvidence, EscrowInv, [Next]_vars, NEW n \in DOMAIN spends \ DOMAIN spends'
    PROVE  Escrow!Next
<1> DEFINE w == [id |-> n, from |-> spends[n].from, asset |-> spends[n].asset,
                 amount |-> spends[n].amount]
<1>1. /\ pendingNonce = n + 1 /\ pendingNonce' = n + 1 /\ n \in Nat
      /\ DOMAIN spends = {n} /\ DOMAIN spends' = {}
      /\ UNCHANGED mined
      /\ \/ UNCHANGED bal /\ Executed(n)
         \/ /\ bal' = IncBalance(bal, spends[n].from, spends[n].asset, spends[n].amount)
            /\ ~Executed(n)
  BY SettlingOutcome DEF EscrowInv, IInv, TypeOK
<1>2. OpenWithdrawals = {w} /\ OpenWithdrawals' = {}
  BY <1>1 DEF OpenWithdrawals
<1>3. \A k : Executed(k)' <=> Executed(k)
  BY <1>1 DEF Executed
<1>4. \A k \in Nonces :
         OutcomeOf(k)' = IF k = n THEN IF Executed(n) THEN "paid" ELSE "refunded" ELSE OutcomeOf(k)
  BY <1>1, <1>3 DEF OutcomeOf, Nonces
<1>5. w.id = n /\ w.from = spends[n].from /\ w.asset = spends[n].asset
      /\ w.amount = spends[n].amount
  OBVIOUS
<1> HIDE DEF w
<1>6. [k \in Nonces |-> OutcomeOf(k)]'
         = [[k \in Nonces |-> OutcomeOf(k)] EXCEPT ![w.id] =
                IF Executed(n) THEN "paid" ELSE "refunded"]
  BY <1>4, <1>5
<1>7. CASE UNCHANGED bal /\ Executed(n)
  BY <1>1, <1>2, <1>6, <1>7 DEF Escrow!Next, Escrow!Pay
<1>8. CASE /\ bal' = IncBalance(bal, spends[n].from, spends[n].asset, spends[n].amount)
           /\ ~Executed(n)
  BY <1>1, <1>2, <1>5, <1>6, <1>8 DEF Escrow!Next, Escrow!Refund, IncBalance
<1> QED
  BY <1>1, <1>7, <1>8

\* Every other step moves an amount or is not seen by the escrow.
LEMMA OtherSteps ==
    ASSUME VaultEvidence, EscrowInv,
           UNCHANGED <<confirmedNonce, pendingNonce, spends>>,
           \/ UNCHANGED <<bal, mined>>
           \/ /\ UNCHANGED mined
              /\ \E u \in Accounts, v \in Accounts, a \in Assets :
                     \E amt \in 1..bal[<<u, a>>] : Moves(u, v, a, amt)
           \/ /\ UNCHANGED bal
              /\ \E t \in signed, ok \in BOOLEAN : MineVaultTx(t, ok)
    PROVE  Escrow!Next \/ UNCHANGED Escrow!vars
<1>1. UNCHANGED OpenWithdrawals
  BY DEF OpenWithdrawals
<1>2. ASSUME NEW n \in Nonces PROVE UNCHANGED OutcomeOf(n)
  <2>1. CASE UNCHANGED mined
    BY <2>1 DEF OutcomeOf, Executed
  <2>2. CASE \E t \in signed, ok \in BOOLEAN : MineVaultTx(t, ok)
    <3>1. n \notin DOMAIN spends => (Executed(n)' <=> Executed(n))
      BY <2>2, MinedIsOpen
    <3> QED
      BY <3>1 DEF OutcomeOf
  <2> QED
    BY <2>1, <2>2
<1>3. UNCHANGED [n \in Nonces |-> OutcomeOf(n)]
  BY <1>2
<1>4. CASE UNCHANGED bal
  BY <1>1, <1>3, <1>4 DEF Escrow!vars
<1>5. ASSUME NEW u \in Accounts, NEW v \in Accounts, NEW a \in Assets,
             NEW amt \in 1..bal[<<u, a>>], Moves(u, v, a, amt)
      PROVE  Escrow!Next
  <2>1. bal[<<u, a>>] \in Nat
    BY DEF EscrowInv, IInv, TypeOK, LedgerTypeOK
  <2>2. Escrow!Move(u, v, a, amt)
    BY <1>1, <1>3, <1>5, <2>1 DEF Escrow!Move, Moves, IncBalance, DecBalance
  <2> QED
    BY <2>2 DEF Escrow!Next
<1> QED
  BY <1>4, <1>5

\* The lifecycle implements the escrow for every number of accounts, assets,
\* withdrawals and blocks, if proofs of drop are about the vault's own nonces:
\* whatever is signed, replaced, mined late, reverted, paused or rotated, each
\* withdrawal is paid on L1 or refunded here, never both.
THEOREM LifecycleImplementsEscrow ==
    ASSUME VaultEvidence
    PROVE  Spec => ImplementsEscrow
<1>1. Init => EscrowInv
  BY IInvInit DEF EscrowInv, Init, SettledIsMined, PositiveAmounts
<1>2. EscrowInv /\ [Next]_vars => EscrowInv'
  BY EscrowInvStep
<1>3. EscrowInv /\ [Next]_vars => [Escrow!Next]_(Escrow!vars)
  <2> SUFFICES ASSUME EscrowInv, [Next]_vars PROVE Escrow!Next \/ UNCHANGED Escrow!vars
    OBVIOUS
  <2>1. CASE Unmap
    BY <2>1, UnmapLocks
  <2>2. CASE DOMAIN spends \ DOMAIN spends' # {}
    BY <2>2, SettlementSettles
  <2>3. CASE ~Unmap /\ DOMAIN spends \ DOMAIN spends' = {}
    BY <2>3, EscrowSteps, OtherSteps
  <2> QED
    BY <2>1, <2>2, <2>3
<1> QED
  BY <1>1, <1>2, <1>3, EscrowInit, PTL DEF Spec, ImplementsEscrow, Escrow!Spec

(***************************************************************************)
(* Solvency.                                                               *)
(***************************************************************************)
\* What a list m of L1 transactions pays of asset a, and what it leaves due
\* of the withdrawals sp.
Pays(m, n) == \E i \in DOMAIN m : m[i].nonce = n /\ m[i].ok /\ m[i].amount > 0
Due(sp, m, n, a) == IF sp[n].asset = a /\ ~Pays(m, n) THEN sp[n].amount ELSE 0
PaidBy(x, a) == IF x.ok /\ x.token = a THEN x.amount ELSE 0
TotalDue(sp, m, a) == SumFunction([n \in DOMAIN sp |-> Due(sp, m, n, a)])
TotalPaid(m, a) == SumFunction([i \in DOMAIN m |-> PaidBy(m[i], a)])

LEMMA OwedAndPaid ==
    ASSUME NEW a
    PROVE  /\ Owed(a) = TotalDue(spends, mined, a)
           /\ Owed(a)' = TotalDue(spends', mined', a)
           /\ PaidOut(a) = TotalPaid(mined, a)
           /\ PaidOut(a)' = TotalPaid(mined', a)
BY DEF Owed, Executed, PaidOut, TotalDue, TotalPaid, Due, Pays, PaidBy

\* The queue holds one withdrawal at most, so that what is due is its amount.
AtMostOne(sp) == DOMAIN sp = {} \/ \E n : DOMAIN sp = {n} /\ sp[n].amount \in Nat

LEMMA QueueHoldsOne ==
    ASSUME NEW c \in Nat, NEW p \in Nat, c <= p, p <= c + 1,
           NEW sp, DOMAIN sp = c..(p - 1), \A n \in DOMAIN sp : sp[n] \in PendingSpend
    PROVE  AtMostOne(sp)
<1>1. p = c => DOMAIN sp = {}
  OBVIOUS
<1>2. p = c + 1 => DOMAIN sp = {c} /\ sp[c].amount \in Nat
  BY DEF PendingSpend
<1> QED
  BY <1>1, <1>2 DEF AtMostOne

LEMMA DueNone ==
    ASSUME NEW sp, NEW m, NEW a, DOMAIN sp = {}
    PROVE  TotalDue(sp, m, a) = 0
<1> DEFINE f == [n \in DOMAIN sp |-> Due(sp, m, n, a)]
<1>1. DOMAIN f = {} /\ TotalDue(sp, m, a) = SumFunction(f)
  BY DEF TotalDue
<1> HIDE DEF f
<1> QED
  BY <1>1, SumNone

LEMMA DueOne ==
    ASSUME NEW sp, NEW m, NEW a, NEW n, DOMAIN sp = {n}, sp[n].amount \in Nat
    PROVE  TotalDue(sp, m, a) = Due(sp, m, n, a) /\ Due(sp, m, n, a) \in Nat
<1> DEFINE f == [k \in DOMAIN sp |-> Due(sp, m, k, a)]
<1>1. DOMAIN f = {n} /\ f[n] = Due(sp, m, n, a) /\ TotalDue(sp, m, a) = SumFunction(f)
  BY DEF TotalDue
<1>2. Due(sp, m, n, a) \in Nat
  BY DEF Due
<1> HIDE DEF f
<1> QED
  BY <1>1, <1>2, SumOne

LEMMA DueType ==
    ASSUME NEW sp, NEW m, NEW a, AtMostOne(sp)
    PROVE  TotalDue(sp, m, a) \in Nat
<1>1. CASE DOMAIN sp = {}
  BY <1>1, DueNone
<1>2. CASE \E n : DOMAIN sp = {n} /\ sp[n].amount \in Nat
  BY <1>2, DueOne
<1> QED
  BY <1>1, <1>2 DEF AtMostOne

\* What L1 paid is a number, and a transaction mined adds what it pays.
LEMMA PaidType ==
    ASSUME NEW m \in Seq(MinedTx), NEW a
    PROVE  TotalPaid(m, a) \in Nat
<1> DEFINE f == [i \in DOMAIN m |-> PaidBy(m[i], a)]
<1>1. DOMAIN m = 1..Len(m) /\ Len(m) \in Nat /\ \A i \in DOMAIN m : m[i] \in MinedTx
  OBVIOUS
<1>2. IsFiniteSet(DOMAIN m)
  BY <1>1, FS_Interval
<1>3. /\ f \in [DOMAIN m -> Int]
      /\ \A i \in DOMAIN m : f[i] >= 0
      /\ TotalPaid(m, a) = SumFunction(f)
  BY <1>1 DEF TotalPaid, PaidBy, MinedTx
<1> HIDE DEF f
<1>4. SumFunction(f) \in Int /\ SumFunction(f) >= 0
  BY <1>2, <1>3, SumType
<1> QED
  BY <1>3, <1>4

LEMMA PaidMore ==
    ASSUME NEW m \in Seq(MinedTx), NEW x \in MinedTx, NEW a
    PROVE  TotalPaid(Append(m, x), a) = TotalPaid(m, a) + PaidBy(x, a)
<1> DEFINE more == Append(m, x)
           z == Len(m) + 1
           S == 1..z
<1>1. /\ z \in S
      /\ DOMAIN more = S
      /\ DOMAIN m = S \ {z}
  <2>1. DOMAIN m = 1..Len(m) /\ DOMAIN more = 1..(Len(m) + 1) /\ Len(m) \in Nat
    OBVIOUS
  <2>2. 1..Len(m) = (1..(Len(m) + 1)) \ {Len(m) + 1}
    BY <2>1
  <2> QED
    BY <2>1, <2>2
<1>2. more[z] = x /\ \A i \in S \ {z} : more[i] = m[i] /\ m[i] \in MinedTx
  OBVIOUS
<1>3. IsFiniteSet(S)
  BY FS_Interval
<1> HIDE DEF more, z, S
<1> DEFINE f == [i \in S \ {z} |-> PaidBy(m[i], a)]
           g == [i \in S |-> PaidBy(more[i], a)]
<1>4. \A y \in MinedTx : PaidBy(y, a) \in Int
  BY DEF PaidBy, MinedTx
<1>5. /\ g \in [S -> Int]
      /\ f = [i \in S \ {z} |-> g[i]]
      /\ g[z] = PaidBy(x, a)
  BY <1>1, <1>2, <1>4
<1>6. TotalPaid(m, a) = SumFunction(f) /\ TotalPaid(more, a) = SumFunction(g)
  BY <1>1 DEF TotalPaid
<1> HIDE DEF f, g
<1>7. SumFunction(g) = SumFunction([i \in S \ {z} |-> g[i]]) + g[z]
  BY <1>1, <1>3, <1>5, SumTake
<1> QED
  BY <1>5, <1>6, <1>7 DEF more

\* The open withdrawal is paid in the asset it was debited in.
PaidInKind == \A n \in DOMAIN spends : spends[n].asset = spends[n].token

SolventInv == EscrowInv /\ PaidInKind /\ Solvent

\* What L1 pays for the open withdrawal is what it was owed.
LEMMA MiningKeepsSolvent ==
    ASSUME VaultEvidence, SolventInv, NEW t \in signed, NEW ok \in BOOLEAN, MineVaultTx(t, ok),
           UNCHANGED spends, NEW a \in Assets
    PROVE  TotalPaid(mined', a) + TotalDue(spends', mined', a)
               <= TotalPaid(mined, a) + TotalDue(spends, mined, a)
<1> DEFINE x == [sender |-> KeyAddr, nonce |-> t.nonce, to |-> t.to, token |-> t.token,
                 amount |-> t.amount, height |-> tip + 1, ok |-> ok]
<1>1. TypeOK /\ QueueInv /\ SignedForQueue /\ MinedFromSigned
  BY DEF SolventInv, EscrowInv, IInv
<1>2. PICK n : n = t.nonce /\ n \in DOMAIN spends
  BY MinedIsOpen DEF SolventInv
<1>3. DOMAIN spends = {n} /\ spends[n].amount \in Nat
  BY <1>1, <1>2, HeadOnly DEF PendingSpend
<1>4. /\ x.ok = ok
      /\ x.token = spends[n].asset
      /\ x.amount = spends[n].amount
      /\ x.nonce = n
      /\ spends[n].amount > 0
  BY <1>1, <1>2 DEF SignedForQueue, SolventInv, PaidInKind, EscrowInv, PositiveAmounts
<1>5. mined' = Append(mined, x) /\ x \in MinedTx /\ mined \in Seq(MinedTx)
  BY <1>1 DEF MineVaultTx, TypeOK, Tx, MinedTx, VaultAddrs
<1>6. ~Pays(mined, n)
  BY <1>1, <1>2 DEF MineVaultTx, Pays, MinedFromSigned, TypeOK
<1> HIDE DEF x
<1>7. ok => Pays(mined', n)
  <2>1. Len(mined) + 1 \in DOMAIN mined' /\ mined'[Len(mined) + 1] = x
    BY <1>5
  <2> QED
    BY <1>4, <2>1 DEF Pays
<1>8. TotalPaid(mined', a) = TotalPaid(mined, a) + PaidBy(x, a) /\ TotalPaid(mined, a) \in Nat
  BY <1>5, PaidMore, PaidType
<1>9. /\ TotalDue(spends, mined, a) = Due(spends, mined, n, a)
      /\ TotalDue(spends', mined', a) = Due(spends, mined', n, a)
  BY <1>3, DueOne
<1>10. CASE spends[n].asset = a
  BY <1>3, <1>4, <1>6, <1>7, <1>8, <1>9, <1>10 DEF Due, PaidBy
<1>11. CASE spends[n].asset # a
  BY <1>4, <1>8, <1>9, <1>11 DEF Due, PaidBy
<1> QED
  BY <1>10, <1>11

LEMMA SolventInit == ASSUME LedgerFromDeposits PROVE Init => SolventInv
<1> SUFFICES ASSUME Init PROVE SolventInv
  OBVIOUS
<1>1. EscrowInv /\ PaidInKind
  BY IInvInit DEF Init, EscrowInv, SettledIsMined, PositiveAmounts, PaidInKind
<1>2. TypeOK
  BY <1>1 DEF EscrowInv, IInv
<1>3. ASSUME NEW a \in Assets
      PROVE  TotalBal(a) + Owed(a) <= InitSupply[a].Active - PaidOut(a)
  <2>1. Owed(a) = 0
    BY DueNone, OwedAndPaid DEF Init
  <2>2. PaidOut(a) = 0
    <3> DEFINE f == [i \in DOMAIN mined |-> PaidBy(mined[i], a)]
    <3>1. DOMAIN f = {} /\ TotalPaid(mined, a) = SumFunction(f)
      BY DEF Init, TotalPaid
    <3> HIDE DEF f
    <3> QED
      BY <3>1, SumNone, OwedAndPaid
  <2>3. InitBal = bal /\ TotalBal(a) = Total(InitBal, a) /\ TotalBal(a) \in Nat
    BY <1>2, LedgerTotals DEF Init, LedgerInit
  <2>4. /\ InitSupply[a].User \in Nat /\ InitSupply[a].Fee \in Nat
        /\ InitSupply[a].Active = InitSupply[a].User + InitSupply[a].Fee
    BY LedgerAssumption DEF LedgerFromDeposits, SupplyRecord
  <2>5. TotalBal(a) <= InitSupply[a].User
    BY <2>3, <2>4 DEF LedgerFromDeposits
  <2> QED
    BY <2>1, <2>2, <2>3, <2>4, <2>5
<1> QED
  BY <1>1, <1>3 DEF SolventInv, Solvent

\* No step asks more of the vault than what it has left.
LEMMA SolventStep ==
    ASSUME VaultEvidence, MatchingTokenOnly, SolventInv, [Next]_vars, NEW a \in Assets
    PROVE  Total(bal', a) + TotalDue(spends', mined', a) + TotalPaid(mined', a)
               <= Total(bal, a) + TotalDue(spends, mined, a) + TotalPaid(mined, a)
<1>1. TypeOK /\ QueueInv /\ EscrowInv
  BY DEF SolventInv, EscrowInv, IInv
<1>2. /\ bal \in Balances
      /\ Total(bal, a) \in Nat
      /\ TotalPaid(mined, a) \in Nat
  BY <1>1, LedgerTotals, PaidType DEF TypeOK
<1>3. ASSUME NEW n, DOMAIN spends = {n}
      PROVE  /\ spends[n].from \in Accounts
             /\ spends[n].asset \in Assets
             /\ spends[n].amount \in Nat
             /\ TotalDue(spends, mined, a) = Due(spends, mined, n, a)
             /\ Due(spends, mined, n, a) \in Nat
  <2>1. /\ spends[n].from \in Accounts
        /\ spends[n].asset \in Assets
        /\ spends[n].amount \in Nat
    BY <1>1, <1>3 DEF TypeOK, PendingSpend
  <2> QED
    BY <1>3, <2>1, DueOne
<1>4. TotalDue(spends, mined, a) \in Nat
  <2>1. AtMostOne(spends)
    BY <1>1, QueueHoldsOne DEF TypeOK, QueueInv
  <2> QED
    BY <2>1, DueType
<1>5. CASE Unmap
  <2>1. PICK from \in Accounts, to \in Recipients, asset \in Assets, token \in Assets,
             amt \in Amounts, gas \in Nat, total \in Nat :
                 Takes(from, to, asset, token, amt, gas, total)
    BY <1>1, <1>5, UnmapTakes
  <2>2. /\ DOMAIN spends = {}
        /\ DOMAIN spends' = {pendingNonce}
        /\ spends'[pendingNonce].asset = asset
        /\ spends'[pendingNonce].amount = amt
        /\ UNCHANGED mined
    <3>1. /\ DOMAIN spends = {}
          /\ DOMAIN spends' = {pendingNonce}
          /\ spends'[pendingNonce] = NewSpend(from, to, asset, token, amt, gas)
          /\ UNCHANGED mined
      BY <1>1, <2>1, TakesEntry
    <3> QED
      BY <3>1 DEF NewSpend
  <2>3. amt \in Nat /\ amt <= total /\ total <= bal[<<from, asset>>]
    BY <2>1, LedgerAssumption DEF Takes, CanDebit
  <2>4. Total(bal', a) = Total(bal, a) - (IF asset = a THEN total ELSE 0)
    BY <1>2, <2>1, <2>3, TotalDebit DEF Takes
  <2>5. TotalDue(spends', mined', a) = Due(spends', mined', pendingNonce, a)
    BY <2>2, <2>3, DueOne
  <2>6. /\ Due(spends', mined', pendingNonce, a) \in Nat
        /\ Due(spends', mined', pendingNonce, a) <= IF asset = a THEN amt ELSE 0
    BY <2>2, <2>3 DEF Due
  <2>7. TotalDue(spends, mined, a) = 0
    BY <2>2, DueNone
  <2> QED
    BY <1>2, <2>2, <2>3, <2>4, <2>5, <2>6, <2>7
<1>6. CASE DOMAIN spends \ DOMAIN spends' # {}
  <2>1. PICK n \in DOMAIN spends \ DOMAIN spends' : TRUE
    BY <1>6
  <2>2. /\ DOMAIN spends = {n} /\ DOMAIN spends' = {}
        /\ UNCHANGED mined
        /\ \/ UNCHANGED bal
           \/ /\ bal' = IncBalance(bal, spends[n].from, spends[n].asset, spends[n].amount)
              /\ ~Executed(n)
    BY <1>1, <2>1, SettlingOutcome
  <2>3. TotalDue(spends', mined', a) = 0
    BY <2>2, DueNone
  <2>4. CASE UNCHANGED bal
    BY <1>2, <1>4, <2>2, <2>3, <2>4
  <2>5. CASE /\ bal' = IncBalance(bal, spends[n].from, spends[n].asset, spends[n].amount)
             /\ ~Executed(n)
    <3>1. Total(bal', a) = Total(bal, a) + (IF a = spends[n].asset THEN spends[n].amount ELSE 0)
      BY <1>2, <1>3, <2>2, <2>5, TotalCredit
    <3>2. TotalDue(spends, mined, a) = IF a = spends[n].asset THEN spends[n].amount ELSE 0
      BY <1>3, <2>2, <2>5 DEF Due, Executed, Pays
    <3>3. spends[n].amount \in Nat
      BY <1>3, <2>2
    <3> QED
      BY <1>2, <2>2, <2>3, <3>1, <3>2, <3>3
  <2> QED
    BY <2>2, <2>4, <2>5
<1>7. CASE /\ UNCHANGED <<spends, mined>>
           /\ \/ UNCHANGED bal
              \/ \E u \in Accounts, v \in Accounts, x \in Assets :
                     \E amt \in 1..bal[<<u, x>>] : Moves(u, v, x, amt)
  <2>1. Total(bal', a) = Total(bal, a)
    BY <1>2, <1>7, TotalMove
  <2> QED
    BY <1>2, <1>4, <1>7, <2>1
<1>8. CASE /\ UNCHANGED <<spends, bal>>
           /\ \E t \in signed, ok \in BOOLEAN : MineVaultTx(t, ok)
  <2>1. TotalPaid(mined', a) + TotalDue(spends', mined', a)
            <= TotalPaid(mined, a) + TotalDue(spends, mined, a)
    BY <1>8, MiningKeepsSolvent
  <2>2. TotalPaid(mined', a) \in Nat
    BY <1>1, TypeStep, PaidType DEF TypeOK
  <2>3. PICK n : DOMAIN spends = {n}
    BY <1>1, <1>8, MinedIsOpen, HeadOnly
  <2>4. TotalDue(spends', mined', a) \in Nat
    BY <1>3, <1>8, <2>3, DueOne
  <2> QED
    BY <1>2, <1>4, <1>8, <2>1, <2>2, <2>4
<1> QED
  BY <1>1, <1>5, <1>6, <1>7, <1>8, EscrowSteps

\* An unmap of the asset of its token keeps the entries paid in kind.
LEMMA PaidInKindStep ==
    ASSUME MatchingTokenOnly, VaultEvidence, SolventInv, [Next]_vars
    PROVE  PaidInKind'
<1>1. TypeOK /\ QueueInv /\ EscrowInv
  BY DEF SolventInv, EscrowInv, IInv
<1>2. CASE Unmap
  <2>1. PICK from \in Accounts, to \in Recipients, asset \in Assets, token \in Assets,
             amt \in Amounts, gas \in Nat, total \in Nat :
                 Takes(from, to, asset, token, amt, gas, total)
    BY <1>1, <1>2, UnmapTakes
  <2>2. /\ DOMAIN spends' = {pendingNonce}
        /\ spends'[pendingNonce].asset = asset
        /\ spends'[pendingNonce].token = token
    <3>1. /\ DOMAIN spends' = {pendingNonce}
          /\ spends'[pendingNonce] = NewSpend(from, to, asset, token, amt, gas)
      BY <1>1, <2>1, TakesEntry
    <3> QED
      BY <3>1 DEF NewSpend
  <2> QED
    BY <2>1, <2>2 DEF PaidInKind, Takes
<1>3. CASE DOMAIN spends \ DOMAIN spends' # {}
  <2>1. DOMAIN spends' = {}
    BY <1>1, <1>3, SettlingOutcome
  <2> QED
    BY <2>1 DEF PaidInKind
<1>4. CASE UNCHANGED spends
  BY <1>4 DEF SolventInv, PaidInKind
<1> QED
  BY <1>1, <1>2, <1>3, <1>4, EscrowSteps

\* Whatever mix of settlements, reverts, replacements and refunds, the vault
\* can pay every balance and the open withdrawal, if proofs of drop are about
\* its own nonces and unmapFrom names the token of its asset (handlers.go:841
\* compares neither).
THEOREM VaultAlwaysSolvent ==
    ASSUME LedgerFromDeposits, VaultEvidence, MatchingTokenOnly
    PROVE  Spec => []Solvent
<1>1. Init => SolventInv
  BY SolventInit
<1>2. SolventInv /\ [Next]_vars => SolventInv'
  <2> SUFFICES ASSUME SolventInv, [Next]_vars PROVE Solvent'
    BY PaidInKindStep, EscrowInvStep DEF SolventInv
  <2>1. /\ TypeOK /\ QueueInv
        /\ TypeOK' /\ QueueInv'
    BY TypeStep, QueueInvStep DEF SolventInv, EscrowInv, IInv
  <2>2. ASSUME NEW a \in Assets
        PROVE  TotalBal(a)' + Owed(a)' <= InitSupply[a].Active - PaidOut(a)'
    <3>1. Total(bal', a) + TotalDue(spends', mined', a) + TotalPaid(mined', a)
              <= Total(bal, a) + TotalDue(spends, mined, a) + TotalPaid(mined, a)
      BY SolventStep
    <3>2. Total(bal, a) + TotalDue(spends, mined, a)
              <= InitSupply[a].Active - TotalPaid(mined, a)
      BY <2>1, LedgerTotals, OwedAndPaid DEF SolventInv, Solvent
    <3>3. /\ Total(bal, a) \in Nat /\ Total(bal', a) \in Nat
          /\ TotalDue(spends, mined, a) \in Nat /\ TotalDue(spends', mined', a) \in Nat
          /\ TotalPaid(mined, a) \in Nat /\ TotalPaid(mined', a) \in Nat
          /\ InitSupply[a].Active \in Nat
      <4>1. AtMostOne(spends) /\ AtMostOne(spends')
        BY <2>1, QueueHoldsOne DEF TypeOK, QueueInv
      <4>2. bal \in Balances /\ bal' \in Balances
        BY <2>1 DEF TypeOK, LedgerTypeOK, Balances
      <4>3. mined \in Seq(MinedTx) /\ mined' \in Seq(MinedTx)
        BY <2>1 DEF TypeOK
      <4>4. InitSupply[a].Active \in Nat
        BY LedgerAssumption DEF SupplyRecord
      <4> QED
        BY <4>1, <4>2, <4>3, <4>4, TotalType, DueType, PaidType
    <3> QED
      BY <2>1, <3>1, <3>2, <3>3, LedgerTotals, OwedAndPaid
  <2> QED
    BY <2>2 DEF Solvent
<1> QED
  BY <1>1, <1>2, PTL DEF Spec, SolventInv
=============================================================================
