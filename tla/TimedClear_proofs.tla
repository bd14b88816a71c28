------------------------- MODULE TimedClear_proofs -------------------------
(***************************************************************************)
(* Proofs about clearNonce under its timelock: the composition implements  *)
(* the lifecycle of Withdrawal, and no nonce is cleared by a header that   *)
(* was stored when the proposal was made.                                  *)
(***************************************************************************)
EXTENDS TimedClear, Withdrawal_proofs

(***************************************************************************)
(* Untimed differs from this module's lifecycle in Ops only: its helpers   *)
(* are the same operators, and its actions allow what the actions here do. *)
(***************************************************************************)
LEMMA SameLedger ==
    /\ Untimed!Assets = Assets
    /\ \A x : Untimed!Floor0(x) = Floor0(x)
    /\ \A b, u, a, amt : Untimed!IncBalance(b, u, a, amt) = IncBalance(b, u, a, amt)
    /\ \A b, u, a, amt : Untimed!DecBalance(b, u, a, amt) = DecBalance(b, u, a, amt)
    /\ \A u, a, amt : Untimed!CanDebit(u, a, amt) = CanDebit(u, a, amt)
    /\ \A o, s, a : Untimed!GetAllowance(o, s, a) = GetAllowance(o, s, a)
    /\ \A o, s, a, amt : Untimed!SetAllowance(o, s, a, amt) = SetAllowance(o, s, a, amt)
    /\ \A o, s, a, amt : Untimed!SpendAllowance(o, s, a, amt) = SpendAllowance(o, s, a, amt)
    /\ \A a, amt : Untimed!CanTrack(a, amt) = CanTrack(a, amt)
    /\ \A a, amt : Untimed!TrackWithdrawal(a, amt) = TrackWithdrawal(a, amt)
    /\ \A a, amt : Untimed!RestoreSupply(a, amt) = RestoreSupply(a, amt)
    /\ \A x : Untimed!deductGasReserve(x) = deductGasReserve(x)
    /\ \A x : Untimed!addGasReserve(x) = addGasReserve(x)
BY DEF Untimed!Assets, Assets, Untimed!Floor0, Floor0, Untimed!IncBalance, IncBalance,
       Untimed!DecBalance, DecBalance, Untimed!CanDebit, CanDebit, Untimed!GetAllowance,
       GetAllowance, Untimed!SetAllowance, SetAllowance, Untimed!SpendAllowance, SpendAllowance, Untimed!CanTrack, CanTrack,
       Untimed!TrackWithdrawal, TrackWithdrawal, Untimed!RestoreSupply, RestoreSupply,
       Untimed!deductGasReserve, deductGasReserve, Untimed!addGasReserve, addGasReserve

LEMMA SameQueue ==
    /\ \A h : Untimed!HeaderStored(h) = HeaderStored(h)
    /\ Untimed!Included = Included
    /\ Untimed!Nonces = Nonces
    /\ Untimed!MayQueue = MayQueue
    /\ \A ps : Untimed!StorePendingSpend(ps) = StorePendingSpend(ps)
    /\ \A n : Untimed!DeletePendingSpend(n) = DeletePendingSpend(n)
    /\ \A k, n, ps : Untimed!PaymentTx(k, n, ps) = PaymentTx(k, n, ps)
    /\ \A n : Untimed!SelfTransfer(n) = SelfTransfer(n)
    /\ \A n : Untimed!NonceAdvance(n) = NonceAdvance(n)
    /\ \A f, to, a, t, amt, g :
           Untimed!NewSpend(f, to, a, t, amt, g) = NewSpend(f, to, a, t, amt, g)
    /\ \A amt, cap, d : Untimed!TotalDeduct(amt, cap, d) = TotalDeduct(amt, cap, d)
    /\ \A amt, total : Untimed!BookEthWithdrawal(amt, total) = BookEthWithdrawal(amt, total)
BY DEF Untimed!HeaderStored, HeaderStored, Untimed!Included, Included, Untimed!Nonces, Nonces,
       Untimed!MayQueue, MayQueue, Untimed!HasPendingWithdrawal, HasPendingWithdrawal,
       Untimed!StorePendingSpend, StorePendingSpend, Untimed!DeletePendingSpend,
       DeletePendingSpend, Untimed!PaymentTx, PaymentTx, Untimed!SelfTransfer, SelfTransfer,
       Untimed!NonceAdvance, NonceAdvance, Untimed!NewSpend, NewSpend, Untimed!TotalDeduct,
       TotalDeduct, Untimed!BookEthWithdrawal, BookEthWithdrawal, Untimed!Floor0, Floor0

LEMMA SameSettlement ==
    /\ \A ps : Untimed!Enqueue(ps) = Enqueue(ps)
    /\ \A m, ps : Untimed!Proves(m, ps) = Proves(m, ps)
    /\ \A m, ps : Untimed!ReceiptEffect(m, ps) = ReceiptEffect(m, ps)
    /\ \A m, ps : Untimed!VerifyL1ProofOfDrop(m, ps) = VerifyL1ProofOfDrop(m, ps)
    /\ \A m, ps : Untimed!Submitted(m, ps) = Submitted(m, ps)
    /\ \A n : Untimed!RefundAndAdvance(n) = RefundAndAdvance(n)
    /\ \A m : Untimed!HandleClearNonce(m) = HandleClearNonce(m)
<1>1. \A ps : Untimed!Enqueue(ps) = Enqueue(ps)
  BY SameQueue DEF Untimed!Enqueue, Enqueue, Untimed!l1Vars, l1Vars
<1>2. \A m, ps : Untimed!Proves(m, ps) = Proves(m, ps)
  BY SameQueue DEF Untimed!Proves, Proves
<1>3. \A m, ps : Untimed!ReceiptEffect(m, ps) = ReceiptEffect(m, ps)
  BY SameLedger DEF Untimed!ReceiptEffect, ReceiptEffect
<1>4. \A m, ps : /\ Untimed!VerifyL1ProofOfDrop(m, ps) = VerifyL1ProofOfDrop(m, ps)
                 /\ Untimed!Submitted(m, ps) = Submitted(m, ps)
  BY SameQueue DEF Untimed!VerifyL1ProofOfDrop, VerifyL1ProofOfDrop, Untimed!Submitted, Submitted
<1>5. \A n : Untimed!RefundAndAdvance(n) = RefundAndAdvance(n)
  BY SameLedger, SameQueue
     DEF Untimed!RefundAndAdvance, RefundAndAdvance, Untimed!l1Vars, l1Vars
<1>6. \A m : Untimed!HandleClearNonce(m) = HandleClearNonce(m)
  BY <1>4, <1>5, SameQueue DEF Untimed!HandleClearNonce, HandleClearNonce
<1>7. QED
  BY <1>1, <1>2, <1>3, <1>4, <1>5, <1>6

LEMMA UnmapUntimed == Unmap => Untimed!Unmap
<1>1. SUFFICES ASSUME NEW c \in Callers, NEW to \in Recipients, NEW amt \in Amounts,
                      NEW cap \in FeeCaps
               PROVE  /\ \A d \in BOOLEAN :
                            UnmapETH(c, to, amt, cap, d) => Untimed!UnmapETH(c, to, amt, cap, d)
                      /\ \A t \in Tokens :
                            UnmapERC20(c, to, t, amt, cap) => Untimed!UnmapERC20(c, to, t, amt, cap)
                      /\ \A from \in Accounts, d \in BOOLEAN :
                            UnmapFromETH(c, from, to, amt, cap, d)
                                => Untimed!UnmapFromETH(c, from, to, amt, cap, d)
                      /\ \A from \in Accounts, a, t \in Tokens :
                            UnmapFromERC20(c, from, to, a, t, amt, cap)
                                => Untimed!UnmapFromERC20(c, from, to, a, t, amt, cap)
  BY DEF Unmap, Untimed!Unmap
<1>2. QED
  BY SameLedger, SameQueue, SameSettlement
     DEF Untimed!UnmapETH, UnmapETH, Untimed!UnmapERC20, UnmapERC20, Untimed!UnmapFromETH,
         UnmapFromETH, Untimed!UnmapFromERC20, UnmapFromERC20

LEMMA SettlementUntimed ==
    ASSUME NEW m
    PROVE  /\ ConfirmSpend(m) => Untimed!ConfirmSpend(m)
           /\ ClearNonce(m) => Untimed!ClearNonce(m)
           /\ \A c \in Callers, n \in Nonces :
                 ExpireWithdrawal(c, n, m) => Untimed!ExpireWithdrawal(c, n, m)
           /\ \A c \in Callers, n \in Nonces :
                 CancelMyWithdrawal(c, n, m) => Untimed!CancelMyWithdrawal(c, n, m)
BY SameLedger, SameQueue, SameSettlement
   DEF Untimed!ConfirmSpend, ConfirmSpend, Untimed!ClearNonce, ClearNonce,
       Untimed!ExpireWithdrawal, ExpireWithdrawal, Untimed!CancelMyWithdrawal,
       CancelMyWithdrawal, Untimed!WindowElapsed, WindowElapsed, Untimed!l1Vars, l1Vars

LEMMA AdminUntimed ==
    /\ ReplaceWithdrawal => Untimed!ReplaceWithdrawal
    /\ \A v \in VaultChoices : SetVault(v) => Untimed!SetVault(v)
    /\ ClearTestnetState => Untimed!ClearTestnetState
BY SameQueue
   DEF Untimed!ReplaceWithdrawal, ReplaceWithdrawal, Untimed!Replacement, Replacement,
       Untimed!SetVault, SetVault, Untimed!ClearTestnetState, ClearTestnetState,
       Untimed!ClearedNonces, ClearedNonces, Untimed!ledgerVars, ledgerVars,
       Untimed!queueVars, queueVars, Untimed!l1Vars, l1Vars

LEMMA UserOpUntimed == UserOp => Untimed!UserOp
<1>1. ASSUME NEW c \in Callers, NEW p \in Parts, NEW a \in Assets, NEW amt
      PROVE  /\ \A to : Transfer(c, to, p, a, amt) => Untimed!Transfer(c, to, p, a, amt)
             /\ \A from, to : TransferFrom(c, from, to, p, a, amt)
                                => Untimed!TransferFrom(c, from, to, p, a, amt)
             /\ \A s, x : Approve(c, p, s, a, x) => Untimed!Approve(c, p, s, a, x)
             /\ \A s : IncreaseAllowance(c, p, s, a, amt)
                          => Untimed!IncreaseAllowance(c, p, s, a, amt)
             /\ \A s : DecreaseAllowance(c, p, s, a, amt)
                          => Untimed!DecreaseAllowance(c, p, s, a, amt)
  BY SameLedger
     DEF Transfer, Untimed!Transfer, TransferFrom, Untimed!TransferFrom, Approve,
         Untimed!Approve, IncreaseAllowance, Untimed!IncreaseAllowance, DecreaseAllowance,
         Untimed!DecreaseAllowance
<1>2. SUFFICES ASSUME UserOp PROVE Untimed!UserOp
  OBVIOUS
<1>3. PICK c \in Callers, p \in Parts, a \in Assets, amt \in Amounts :
         \/ \E to \in Accounts : Transfer(c, to, p, a, amt)
         \/ \E from, to \in Accounts : TransferFrom(c, from, to, p, a, amt)
         \/ \E s \in Spenders : Approve(c, p, s, a, amt)
         \/ \E s \in Spenders : Approve(c, p, s, a, 0)
         \/ \E s \in Spenders : IncreaseAllowance(c, p, s, a, amt)
         \/ \E s \in Spenders : DecreaseAllowance(c, p, s, a, amt)
  BY <1>2 DEF UserOp
<1>4. \/ \E to \in Accounts : Untimed!Transfer(c, to, p, a, amt)
      \/ \E from, to \in Accounts : Untimed!TransferFrom(c, from, to, p, a, amt)
      \/ \E s \in Spenders : Untimed!Approve(c, p, s, a, amt)
      \/ \E s \in Spenders : Untimed!Approve(c, p, s, a, 0)
      \/ \E s \in Spenders : Untimed!IncreaseAllowance(c, p, s, a, amt)
      \/ \E s \in Spenders : Untimed!DecreaseAllowance(c, p, s, a, amt)
  BY <1>1, <1>3, Zenon
<1> QED
  BY <1>4, SameLedger, Zenon DEF Untimed!UserOp

LEMMA LedgerOpUntimed == LedgerOp => Untimed!LedgerOp
BY UserOpUntimed
   DEF LedgerOp, Untimed!LedgerOp, Pause, Untimed!Pause, Unpause, Untimed!Unpause,
       SetGasReserve, Untimed!SetGasReserve, queueVars, Untimed!queueVars, l1Vars,
       Untimed!l1Vars

LEMMA EnvironmentUntimed ==
    /\ AddBlock => Untimed!AddBlock
    /\ \A t, ok : MineVaultTx(t, ok) => Untimed!MineVaultTx(t, ok)
    /\ EmptyBlock => Untimed!EmptyBlock
    /\ HiveTick => Untimed!HiveTick
BY DEF AddBlock, Untimed!AddBlock, MineVaultTx, Untimed!MineVaultTx, EmptyBlock,
       Untimed!EmptyBlock, HiveTick, Untimed!HiveTick, ledgerVars, Untimed!ledgerVars,
       queueVars, Untimed!queueVars, l1Vars, Untimed!l1Vars

\* Every step of the lifecycle is one of the untimed lifecycle.
LEMMA NextUntimed == Next => Untimed!Next
<1>1. Drop => Untimed!Drop
  BY SettlementUntimed, SameQueue DEF Drop, Untimed!Drop
<1>2. (\E m \in Included : ConfirmSpend(m)) => \E m \in Untimed!Included : Untimed!ConfirmSpend(m)
  BY SettlementUntimed, SameQueue
<1>3. QED
  BY <1>1, <1>2, UnmapUntimed, AdminUntimed, LedgerOpUntimed, EnvironmentUntimed
     DEF Next, Untimed!Next

(***************************************************************************)
(* The invariant: the feed keeps its pace, also counted from the queueing  *)
(* of a proposal, and a proposal's proof stays one that L1 has.            *)
(***************************************************************************)
FeedInv ==
    /\ fedAt \in Nat
    /\ fedAt <= hive
    /\ hive <= fedAt + FeedPace

ProposalInv(p) ==
    /\ p.proof \in Included
    /\ Submitted(p.proof, [nonce |-> p.nonce])
    /\ p.queue \in Nat
    /\ p.fed \in Nat
    /\ p.fed <= lastHeight
    /\ fedAt <= p.queue + (lastHeight - p.fed) * FeedPace

TimedInv ==
    /\ TypeOK
    /\ FeedInv
    /\ \A p \in proposed : ProposalInv(p)

\* The calls of the contract leave L1, Hive and the newest header alone.
LEMMA CallsLeaveL1 ==
    ASSUME \/ Unmap
           \/ \E m \in Included : ConfirmSpend(m)
           \/ Drop
           \/ ReplaceWithdrawal
           \/ \E v \in VaultChoices : SetVault(v)
           \/ ClearTestnetState
           \/ LedgerOp
    PROVE  UNCHANGED <<lastHeight, mined, tip, hive>>
<1>1. ASSUME NEW ps, Enqueue(ps) PROVE UNCHANGED <<lastHeight, mined, tip, hive>>
  BY <1>1 DEF Enqueue, l1Vars
<1>2. CASE Unmap
  <2>1. ASSUME NEW c, NEW from, NEW to, NEW a, NEW t, NEW amt, NEW cap, NEW d
        PROVE  /\ UnmapETH(c, to, amt, cap, d) => \E ps : Enqueue(ps)
               /\ UnmapERC20(c, to, t, amt, cap) => \E ps : Enqueue(ps)
               /\ UnmapFromETH(c, from, to, amt, cap, d) => \E ps : Enqueue(ps)
               /\ UnmapFromERC20(c, from, to, a, t, amt, cap) => \E ps : Enqueue(ps)
    BY DEF UnmapETH, UnmapERC20, UnmapFromETH, UnmapFromERC20
  <2>2. \E ps : Enqueue(ps)
    BY <1>2, <2>1 DEF Unmap
  <2>3. QED
    BY <1>1, <2>2
<1>3. ASSUME NEW n, RefundAndAdvance(n) PROVE UNCHANGED <<lastHeight, mined, tip, hive>>
  BY <1>3 DEF RefundAndAdvance, l1Vars
<1>4. CASE Drop
  BY <1>3, <1>4 DEF Drop, ClearNonce, HandleClearNonce, ExpireWithdrawal, CancelMyWithdrawal
<1>5. CASE \E m \in Included : ConfirmSpend(m)
  <2>1. PICK m : ConfirmSpend(m)
    BY <1>5
  <2>2. QED
    BY <2>1 DEF ConfirmSpend, l1Vars
<1>6. CASE LedgerOp
  BY <1>6 DEF LedgerOp, l1Vars
<1>7. CASE ReplaceWithdrawal \/ (\E v \in VaultChoices : SetVault(v)) \/ ClearTestnetState
  BY <1>7 DEF ReplaceWithdrawal, SetVault, ClearTestnetState, l1Vars
<1>8. QED
  BY <1>2, <1>4, <1>5, <1>6, <1>7

\* What L1 has it keeps.
LEMMA IncludedGrows ==
    ASSUME TypeOK, UNCHANGED <<mined, tip>> \/ [Next]_vars
    PROVE  Included \subseteq Included'
<1>1. /\ mined \in Seq(MinedTx)
      /\ tip \in Nat
      /\ \A m \in ForeignTxs : m.height \in Nat
  BY WithdrawalAssumption DEF TypeOK
<1>2. CASE UNCHANGED <<mined, tip>>
  BY <1>2 DEF Included
<1>3. CASE \E t \in signed, ok \in BOOLEAN : MineVaultTx(t, ok)
  <2>1. PICK t \in signed, ok \in BOOLEAN : MineVaultTx(t, ok)
    BY <1>3
  <2>2. tip' = tip + 1
    BY <2>1 DEF MineVaultTx
  <2>3. \A i \in DOMAIN mined : i \in DOMAIN mined' /\ mined'[i] = mined[i]
    BY <1>1, <2>1 DEF MineVaultTx
  <2>4. QED
    BY <1>1, <2>2, <2>3 DEF Included
<1>4. CASE EmptyBlock
  <2>1. tip' = tip + 1 /\ mined' = mined
    BY <1>4 DEF EmptyBlock
  <2>2. QED
    BY <1>1, <2>1 DEF Included
<1>5. CASE AddBlock \/ HiveTick \/ UNCHANGED vars
  BY <1>2, <1>5 DEF AddBlock, HiveTick, vars, l1Vars
<1>6. QED
  BY <1>2, <1>3, <1>4, <1>5, CallsLeaveL1 DEF Next

\* The newest header moves by the feed only, one height at a time.
LEMMA FeedMoves ==
    ASSUME Next
    PROVE  \/ lastHeight' = lastHeight /\ (hive' = hive \/ hive' = hive + 1)
           \/ lastHeight' = lastHeight + 1 /\ hive' = hive
<1>1. CASE AddBlock \/ HiveTick \/ EmptyBlock
             \/ (\E t \in signed, ok \in BOOLEAN : MineVaultTx(t, ok))
  BY <1>1 DEF AddBlock, HiveTick, EmptyBlock, MineVaultTx, l1Vars
<1>2. QED
  BY <1>1, CallsLeaveL1 DEF Next

\* One more header, one more pace.
LEMMA OnePace == \A d, f \in Int : (d + 1) * f = d * f + f
OBVIOUS

LEMMA TimedInit == TInit => TimedInv
<1>1. SUFFICES ASSUME TInit PROVE TimedInv
  OBVIOUS
<1>2. TypeOK
  BY <1>1, TypeInit DEF TInit
<1>3. QED
  BY <1>1, <1>2, WithdrawalAssumption, TimedClearAssumption DEF TInit, Init, TimedInv, FeedInv

LEMMA ProposeKeeps ==
    ASSUME TimedInv, NEW m \in Included, NEW n, Propose(m, n)
    PROVE  TimedInv'
<1>1. /\ hive \in Nat
      /\ lastHeight \in Nat
      /\ FeedPace \in Nat
      /\ fedAt \in Nat
  BY TimedClearAssumption DEF TimedInv, TypeOK, FeedInv
<1>2. UNCHANGED vars /\ fedAt' = fedAt
  BY DEF Propose
<1>3. TypeOK' /\ FeedInv'
  BY <1>2 DEF TimedInv, FeedInv, TypeOK, LedgerTypeOK, vars, ledgerVars, queueVars, l1Vars
<1>4. Included' = Included /\ lastHeight' = lastHeight
  BY <1>2 DEF Included, vars, l1Vars
<1>5. ASSUME NEW p \in proposed PROVE ProposalInv(p)'
  BY <1>2, <1>4 DEF TimedInv, ProposalInv, Submitted
<1>6. PICK q : q = [nonce |-> n, proof |-> m, queue |-> hive, fed |-> lastHeight]
  OBVIOUS
<1>7. ProposalInv(q)'
  <2>1. (lastHeight - lastHeight) * FeedPace = 0
    BY <1>1
  <2>2. fedAt <= hive
    BY DEF TimedInv, FeedInv
  <2>3. Submitted(m, [nonce |-> n])
    BY DEF Propose
  <2>4. m \in Included'
    BY <1>4
  <2>5. fedAt' <= hive + (lastHeight' - lastHeight) * FeedPace
    BY <1>1, <1>2, <1>4, <2>1, <2>2
  <2>6. QED
    BY <1>1, <1>4, <1>6, <2>3, <2>4, <2>5 DEF ProposalInv, Submitted
<1>8. proposed' = proposed \cup {q}
  BY <1>6 DEF Propose
<1>9. ASSUME NEW p \in proposed' PROVE ProposalInv(p)'
  <2>1. CASE p \in proposed
    BY <1>5, <2>1
  <2>2. CASE p = q
    BY <1>7, <2>2
  <2>3. QED
    BY <1>8, <2>1, <2>2
<1>10. QED
  BY <1>3, <1>9 DEF TimedInv

\* The type half of DropType, for the call made through a proposal.
LEMMA ExecuteType == ASSUME TypeOK, NEW m, HandleClearNonce(m) PROVE TypeOK'
<1>1. SelfTransfer(confirmedNonce) \in Tx
  BY DEF TypeOK, SelfTransfer, Tx, Assets
<1>2. signed' \subseteq Tx
  BY <1>1 DEF TypeOK, HandleClearNonce
<1>3. QED
  BY <1>2, RefundAndAdvanceType DEF HandleClearNonce

LEMMA ExecuteKeeps ==
    ASSUME TimedInv, NEW p \in proposed, Execute(p)
    PROVE  TimedInv'
<1>1. TypeOK'
  BY ExecuteType DEF TimedInv, Execute
<1>2. UNCHANGED <<lastHeight, mined, tip, hive, fedAt>>
  BY DEF Execute, HandleClearNonce, RefundAndAdvance, l1Vars
<1>3. Included' = Included
  BY <1>2 DEF Included
<1>4. ASSUME NEW q \in proposed PROVE ProposalInv(q)'
  BY <1>2, <1>3 DEF TimedInv, ProposalInv, Submitted
<1>5. proposed' \subseteq proposed
  BY DEF Execute
<1>6. QED
  BY <1>1, <1>2, <1>4, <1>5 DEF TimedInv, FeedInv

LEMMA LifecycleKeeps == ASSUME TimedInv, Lifecycle PROVE TimedInv'
<1>1. /\ hive \in Nat
      /\ lastHeight \in Nat
      /\ FeedPace \in Nat
      /\ fedAt \in Nat
      /\ fedAt <= hive
      /\ hive <= fedAt + FeedPace
  BY TimedClearAssumption DEF TimedInv, TypeOK, FeedInv
<1>2. TypeOK'
  BY TypeStep DEF TimedInv, Lifecycle
<1>3. \/ lastHeight' = lastHeight /\ fedAt' = fedAt /\ (hive' = hive \/ hive' = hive + 1)
      \/ lastHeight' = lastHeight + 1 /\ fedAt' = hive /\ hive' = hive
  BY <1>1, FeedMoves DEF Lifecycle
<1>4. FeedInv'
  BY <1>1, <1>3 DEF FeedInv, Lifecycle
<1>5. Included \subseteq Included'
  BY IncludedGrows DEF TimedInv, Lifecycle
<1>6. ASSUME NEW p \in proposed PROVE ProposalInv(p)'
  <2>1. ProposalInv(p)
    BY DEF TimedInv
  <2>2. CASE lastHeight' = lastHeight /\ fedAt' = fedAt
    BY <1>5, <2>1, <2>2 DEF ProposalInv, Submitted
  <2>3. CASE lastHeight' = lastHeight + 1 /\ fedAt' = hive
    <3> PICK d : d = lastHeight - p.fed
      OBVIOUS
    <3>1. d \in Int /\ lastHeight' - p.fed = d + 1
      BY <1>1, <2>1, <2>3 DEF ProposalInv
    <3>2. (d + 1) * FeedPace = d * FeedPace + FeedPace /\ d * FeedPace \in Int
      BY <1>1, <3>1, OnePace
    <3>3. hive <= p.queue + (d * FeedPace + FeedPace)
      <4>1. fedAt <= p.queue + d * FeedPace /\ p.queue \in Nat
        BY <2>1 DEF ProposalInv
      <4>2. QED
        BY <1>1, <3>2, <4>1
    <3>4. fedAt' <= p.queue + (lastHeight' - p.fed) * FeedPace
      BY <2>3, <3>1, <3>2, <3>3
    <3>5. QED
      BY <1>1, <1>5, <2>1, <2>3, <3>4 DEF ProposalInv, Submitted
  <2>4. QED
    BY <1>3, <2>2, <2>3
<1>7. QED
  BY <1>2, <1>4, <1>6 DEF TimedInv, Lifecycle

LEMMA TimedStep == TimedInv /\ [TNext]_tvars => TimedInv'
<1>1. SUFFICES ASSUME TimedInv, [TNext]_tvars PROVE TimedInv'
  OBVIOUS
<1>2. CASE UNCHANGED tvars
  <2>1. UNCHANGED <<vars, proposed, fedAt>> /\ UNCHANGED <<lastHeight, mined, tip, hive>>
    BY <1>2 DEF tvars, vars, l1Vars
  <2>2. TypeOK'
    BY <1>1, <2>1, TypeStep DEF TimedInv
  <2>3. Included' = Included
    BY <2>1 DEF Included
  <2>4. QED
    BY <1>1, <2>1, <2>2, <2>3 DEF TimedInv, FeedInv, ProposalInv, Submitted
<1>3. QED
  BY <1>1, <1>2, ProposeKeeps, ExecuteKeeps, LifecycleKeeps DEF TNext

LEMMA TimedInvAlways == TSpec => []TimedInv
BY TimedInit, TimedStep, PTL DEF TSpec

(***************************************************************************)
(* The theorems.                                                           *)
(***************************************************************************)
\* Fewer headers, less time.
LEMMA LessTime == \A d, r, f \in Nat : d <= r => d * f <= r * f
OBVIOUS

\* If the oracle replaces all the headers the contract keeps within the
\* timelock, no clearNonce is executed on a proof against a header that was
\* stored when it was proposed, in any order of calls, blocks and feeds.
THEOREM NoKnownHeaderClears ==
    ASSUME Retention * FeedPace < TimelockTactical
    PROVE  TSpec => NoClearByKnownHeader
<1>1. ASSUME TimedInv, NEW p \in proposed, Execute(p), ~(p.proof.height > p.fed) PROVE FALSE
  <2>1. /\ hive \in Nat
        /\ lastHeight \in Nat
        /\ fedAt \in Nat
        /\ hive <= fedAt + FeedPace
        /\ FeedPace \in Nat
        /\ Retention \in Nat
        /\ TimelockTactical \in Nat
    BY <1>1, WithdrawalAssumption, TimedClearAssumption DEF TimedInv, FeedInv, TypeOK
  <2>2. /\ p.queue \in Nat
        /\ p.fed \in Nat
        /\ p.fed <= lastHeight
        /\ fedAt <= p.queue + (lastHeight - p.fed) * FeedPace
        /\ p.proof \in Included
    BY <1>1 DEF TimedInv, ProposalInv
  <2>3. p.proof.height \in Nat
    <3>1. CASE p.proof \in ForeignTxs
      BY <3>1, WithdrawalAssumption
    <3>2. ASSUME NEW i \in DOMAIN mined, p.proof = mined[i] PROVE p.proof.height \in Nat
      <4>1. mined[i] \in MinedTx
        BY <1>1 DEF TimedInv, TypeOK
      <4>2. QED
        BY <3>2, <4>1 DEF MinedTx
    <3>3. QED
      BY <2>2, <3>1, <3>2 DEF Included
  <2>4. p.proof.height + Retention > lastHeight /\ p.proof.height <= lastHeight
    BY <1>1 DEF Execute, HandleClearNonce, VerifyL1ProofOfDrop, HeaderStored
  <2>5. hive >= p.queue + TimelockTactical
    BY <1>1 DEF Execute, Mature
  <2> PICK d : d = lastHeight - p.fed
    OBVIOUS
  <2>6. d \in Nat /\ d + 1 \in Nat /\ d + 1 <= Retention
    BY <1>1, <2>1, <2>2, <2>3, <2>4
  <2>7. (d + 1) * FeedPace <= Retention * FeedPace
    BY <2>1, <2>6, LessTime
  <2>8. (d + 1) * FeedPace = d * FeedPace + FeedPace /\ d * FeedPace \in Int
    BY <2>1, <2>6, OnePace
  <2>9. fedAt <= p.queue + d * FeedPace
    BY <2>2
  <2>10. Retention * FeedPace \in Int
    BY <2>1
  <2>11. QED
    BY <2>1, <2>2, <2>5, <2>7, <2>8, <2>9, <2>10
<1>2. TimedInv /\ [TNext]_tvars
         => [\A p \in proposed : Execute(p) => p.proof.height > p.fed]_tvars
  BY <1>1
<1>3. QED
  BY <1>2, TimedInvAlways, PTL DEF TSpec, NoClearByKnownHeader

\* The lifecycle with clearNonce under its timelock implements the lifecycle of
\* Withdrawal with clearNonce at any time, whatever the delay, the window and
\* the pace of the feed: the properties of Withdrawal carry over.
THEOREM TimedImplementsUntimed == TSpec => ImplementsUntimed
<1>1. TInit => Untimed!Init
  BY DEF TInit, Init, LedgerInit, Untimed!Init, Untimed!LedgerInit
<1>2. TimedInv /\ [TNext]_tvars => [Untimed!Next]_Untimed!vars
  <2>1. SUFFICES ASSUME TimedInv, [TNext]_tvars PROVE [Untimed!Next]_Untimed!vars
    OBVIOUS
  <2>2. UNCHANGED vars => UNCHANGED Untimed!vars
    BY DEF Untimed!vars, vars, Untimed!ledgerVars, ledgerVars, Untimed!queueVars, queueVars,
           Untimed!l1Vars, l1Vars
  <2>3. ASSUME NEW p \in proposed, Execute(p) PROVE Untimed!Next
    <3>1. p.proof \in Included /\ Submitted(p.proof, [nonce |-> p.nonce])
      BY <2>1 DEF TimedInv, ProposalInv
    <3>2. Submitted(p.proof, spends[confirmedNonce])
      BY <2>3, <3>1 DEF Execute, Names, Submitted
    <3>3. Untimed!ClearNonce(p.proof)
      BY <2>3, <3>2, SameSettlement DEF Untimed!ClearNonce, Execute
    <3>4. QED
      BY <3>1, <3>3, SameQueue DEF Untimed!Drop, Untimed!Next
  <2>4. CASE Lifecycle
    BY <2>4, NextUntimed DEF Lifecycle
  <2>5. CASE UNCHANGED vars
    BY <2>2, <2>5
  <2>6. ASSUME NEW m, NEW n, Propose(m, n) PROVE UNCHANGED vars
    BY <2>6 DEF Propose
  <2>7. UNCHANGED tvars => UNCHANGED vars
    BY DEF tvars
  <2>8. QED
    BY <2>1, <2>3, <2>4, <2>5, <2>6, <2>7 DEF TNext
<1>3. QED
  BY <1>1, <1>2, TimedInvAlways, PTL DEF TSpec, ImplementsUntimed, Untimed!Spec
=============================================================================
