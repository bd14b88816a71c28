----------------------------- MODULE Withdrawal -----------------------------
(***************************************************************************)
(* The withdrawal lifecycle of the mapping contract: a caller's balance is *)
(* debited and an L1 transaction of the vault is sent to the TSS signers   *)
(* (unmapETH, unmapERC20, unmapFrom); once it is mined, a proof against a  *)
(* stored L1 header settles it (confirmSpend), or a proof that it dropped  *)
(* refunds it (clearNonce, expireWithdrawal, cancelMyWithdrawal).          *)
(* contract/mapping/withdrawal.go and the withdrawal handlers of           *)
(* handlers.go; contract calls run one at a time, so a handler is a step.  *)
(*                                                                         *)
(* L1 and the TSS signers are external: a signed transaction may be mined  *)
(* or not, any delay later, in nonce order, and may revert.  Proofs are    *)
(* modelled by what they establish (a Merkle proof against the roots of a  *)
(* stored header shows that a transaction, or its receipt, is in that      *)
(* block), and ecrecover by the sender it returns.                         *)
(***************************************************************************)
EXTENDS Ledger, Sequences

CONSTANTS
    Recipients,     \* L1 addresses a withdrawal may pay (never the zero address)
    KeyAddr,        \* the L1 address of the "primary" TSS key
    ZeroAddr,       \* vault() when no vault is configured
    VaultChoices,   \* addresses the admin may give setVault
    FeeCaps,        \* gasFeeCap values the tip header's base fee may lead to
    EthGas, TokenGas, \* constants.ETHTransferGas, constants.ERC20TransferGas
    MinWithdrawal,  \* least amount of each asset
    Retention,      \* constants.MaxBlockRetention: headers kept behind the tip
    ExpiryWindow,   \* constants.WithdrawalExpiryWindow
    InitHive, MaxHive, MaxHeight, MaxNonce, \* bounds of this instance
    ForeignTxs,     \* L1 transactions of other senders, by block
    OwnEvidenceOnly, \* TRUE: a proof of drop is about the vault's own nonces
    MatchingTokenOnly, \* TRUE: unmapFrom names the token its asset stands for
    IsTestnet       \* the is_testnet key written by initContract

Nonces == 0..(MaxNonce - 1)
Heights == 0..MaxHeight
VaultAddrs == VaultChoices \cup {KeyAddr, ZeroAddr}

\* The fields of a transaction the handlers look at; "first" is the one an
\* unmap signs, "bumped" its re-priced replacement, "roll" the 0-value
\* self-transfer that consumes a nonce.
Tx == [kind : {"first", "bumped", "roll"}, nonce : Nat,
       to : Recipients \cup VaultAddrs, token : Assets, amount : Nat]

\* A transaction in an L1 block, with its sender and its receipt's status.
MinedTx == [sender : VaultAddrs, nonce : Nat, to : Recipients \cup VaultAddrs,
            token : Assets, amount : Nat, height : Nat, ok : BOOLEAN]

\* PendingSpend.  token is TokenAddress (Eth when absent), gas is GasCost;
\* at is a history field, the Hive height at which it was queued.
PendingSpend == [nonce : Nat, from : Accounts, to : Recipients, asset : Assets,
                 token : Assets, amount : Nat, height : Nat,
                 vault : VaultAddrs, gas : Nat, at : Nat]

ASSUME WithdrawalAssumption ==
    /\ FeeCaps \subseteq Nat
    /\ EthGas \in Nat
    /\ TokenGas \in Nat
    /\ MinWithdrawal \in [Assets -> Nat]
    /\ Retention \in Nat
    /\ ExpiryWindow \in Nat
    /\ InitHive \in Nat
    /\ MaxHive \in Nat
    /\ MaxHeight \in Nat
    /\ MaxNonce \in Nat
    /\ OwnEvidenceOnly \in BOOLEAN
    /\ MatchingTokenOnly \in BOOLEAN
    /\ IsTestnet \in BOOLEAN
    /\ KeyAddr # ZeroAddr
    /\ \A m \in ForeignTxs : m.sender # KeyAddr /\ m.height \in Nat

VARIABLES
    confirmedNonce, pendingNonce, \* the two ends of the withdrawal queue
    spends,     \* stored PendingSpend of each nonce that has one
    vault,      \* VaultAddressKey
    lastHeight, \* GetLastHeight(), the newest L1 header stored
    signed,     \* transactions sent to the TSS signers (external)
    mined,      \* L1: transactions of KeyAddr in nonce order (external)
    tip,        \* L1: height of the newest final block (external)
    hive        \* env.BlockHeight, a Hive height (external)

queueVars == <<confirmedNonce, pendingNonce, spends>>
l1Vars == <<mined, tip, hive>>
vars == <<ledgerVars, queueVars, vault, lastHeight, signed, l1Vars>>

HasPendingWithdrawal == pendingNonce > confirmedNonce

\* GetHeader(h) # nil: headers further than Retention behind the tip are pruned.
HeaderStored(h) == h <= lastHeight /\ h + Retention > lastHeight

\* Everything a proof can be about, in blocks L1 has.
Included == {mined[i] : i \in DOMAIN mined} \cup {m \in ForeignTxs : m.height <= tip}

StorePendingSpend(ps) ==
    [n \in DOMAIN spends \cup {ps.nonce} |-> IF n = ps.nonce THEN ps ELSE spends[n]]
DeletePendingSpend(n) == [k \in DOMAIN spends \ {n} |-> spends[k]]

PaymentTx(kind, nonce, ps) ==
    [kind |-> kind, nonce |-> nonce, to |-> ps.to, token |-> ps.token, amount |-> ps.amount]
SelfTransfer(nonce) ==
    [kind |-> "roll", nonce |-> nonce, to |-> vault, token |-> Eth, amount |-> 0]

\* mutant: the advance comes after DeletePendingSpend, when the entry is gone
NonceAdvanceLate(n) == confirmedNonce

\* The nonce NonceAdvance(spends[n], 1) leaves: a compare-and-set that needs
\* the entry to be the head and still stored.
NonceAdvance(n) ==
    IF confirmedNonce = n /\ n \in DOMAIN spends THEN confirmedNonce + 1 ELSE confirmedNonce

(***************************************************************************)
(* Queueing a withdrawal.                                                  *)
(***************************************************************************)
\* mutant: the pending check is dropped
MayQueueAny ==
    /\ ~paused
    /\ HeaderStored(lastHeight)
    /\ reserve >= MinGasReserve
    /\ pendingNonce < MaxNonce

\* The checks the three unmap handlers share (the TSS key exists).  MaxNonce
\* bounds the instance.
MayQueue ==
    /\ ~paused
    /\ ~HasPendingWithdrawal
    /\ HeaderStored(lastHeight)
    /\ reserve >= MinGasReserve
    /\ pendingNonce < MaxNonce

NewSpend(from, to, asset, token, amt, gas) ==
    [nonce |-> pendingNonce, from |-> from, to |-> to, asset |-> asset, token |-> token,
     amount |-> amt, height |-> lastHeight, vault |-> vault, gas |-> gas, at |-> hive]

\* TssSignKey, StorePendingSpend and SetPendingNonce.
Enqueue(ps) ==
    /\ signed' = signed \cup {PaymentTx("first", ps.nonce, ps)}
    /\ spends' = StorePendingSpend(ps)
    /\ pendingNonce' = ps.nonce + 1
    /\ UNCHANGED <<paused, confirmedNonce, vault, lastHeight, l1Vars>>

\* What an ETH withdrawal costs its owner; with deduct_fee the fee is not added.
TotalDeduct(amt, cap, deductFee) == IF deductFee THEN amt ELSE amt + EthGas * cap

\* mutant: User keeps the fee that left the balance and was booked as Fee
BookEthWithdrawalDrift(amt, total) ==
    [supply EXCEPT ![Eth] = [Active |-> Floor0(supply[Eth].Active - amt),
                             User   |-> Floor0(supply[Eth].User - amt),
                             Fee    |-> supply[Eth].Fee + (total - amt)]]

\* HandleUnmapETH's own supply update: both totals clamp at zero.
BookEthWithdrawal(amt, total) ==
    [supply EXCEPT ![Eth] = [Active |-> Floor0(supply[Eth].Active - amt),
                             User   |-> Floor0(supply[Eth].User - total),
                             Fee    |-> supply[Eth].Fee + (total - amt)]]

\* max_fee only makes a call fail; a caller that gives none passes, so it
\* adds no behaviour and is left out of the three unmaps.
UnmapETH(c, to, amt, cap, deductFee) ==
    /\ "unmapETH" \in Ops
    /\ MayQueue
    /\ amt >= MinWithdrawal[Eth]
    /\ CanDebit(c, Eth, TotalDeduct(amt, cap, deductFee))
    /\ bal' = DecBalance(bal, c, Eth, TotalDeduct(amt, cap, deductFee))
    /\ supply' = BookEthWithdrawal(amt, TotalDeduct(amt, cap, deductFee))
    /\ Enqueue(NewSpend(c, to, Eth, Eth, amt, 0))
    /\ UNCHANGED <<allow, reserve>>

UnmapERC20(c, to, t, amt, cap) ==
    /\ "unmapERC20" \in Ops
    /\ MayQueue
    /\ amt >= MinWithdrawal[t]
    /\ CanDebit(c, t, amt)
    /\ CanTrack(t, amt)
    /\ bal' = DecBalance(bal, c, t, amt)
    /\ supply' = TrackWithdrawal(t, amt)
    /\ reserve' = deductGasReserve(TokenGas * cap)
    /\ Enqueue(NewSpend(c, to, t, t, amt, TokenGas * cap))
    /\ UNCHANGED allow

\* unmapFrom spends another account's balance under an allowance.  The ETH
\* path takes the fee from the owner's balance but not from the allowance or
\* the User total.
UnmapFromETH(c, from, to, amt, cap, deductFee) ==
    /\ "unmapFrom" \in Ops
    /\ MayQueue
    /\ amt >= MinWithdrawal[Eth]
    /\ GetAllowance(from, c, Eth) >= amt
    /\ CanDebit(from, Eth, TotalDeduct(amt, cap, deductFee))
    /\ CanTrack(Eth, amt)
    /\ bal' = DecBalance(bal, from, Eth, TotalDeduct(amt, cap, deductFee))
    /\ allow' = SpendAllowance(from, c, Eth, amt)
    /\ supply' = TrackWithdrawal(Eth, amt)
    /\ Enqueue(NewSpend(from, to, Eth, Eth, amt, 0))
    /\ UNCHANGED reserve

\* The token whose contract is called comes from token_address, the asset that
\* is debited from asset; the code never compares them.  An asset p-a with
\* parts p has no supply, so that TrackWithdrawal aborts: only a itself passes.
UnmapFromERC20(c, from, to, a, t, amt, cap) ==
    /\ "unmapFrom" \in Ops
    /\ MatchingTokenOnly => a = t
    /\ MayQueue
    /\ amt >= MinWithdrawal[t]
    /\ GetAllowance(from, c, a) >= amt
    /\ CanDebit(from, a, amt)
    /\ CanTrack(a, amt)
    /\ bal' = DecBalance(bal, from, a, amt)
    /\ allow' = SpendAllowance(from, c, a, amt)
    /\ supply' = TrackWithdrawal(a, amt)
    /\ reserve' = deductGasReserve(TokenGas * cap)
    /\ Enqueue(NewSpend(from, to, a, t, amt, TokenGas * cap))

(***************************************************************************)
(* Settling the head by what its transaction did on L1.                    *)
(***************************************************************************)
\* mutant: the sender is compared with the vault configured now
ProvesCurrentVault(m, ps) ==
    /\ m.height > ps.height
    /\ HeaderStored(m.height)
    /\ m.nonce = ps.nonce
    /\ vault # ZeroAddr
    /\ m.sender = vault
    /\ m.to = ps.to
    /\ m.token = ps.token
    /\ m.amount = ps.amount

\* HandleConfirmSpend accepts m, in its block, as the transaction of ps.  The
\* intent fields of the request are the caller's copy of ps.
Proves(m, ps) ==
    /\ m.height > ps.height
    /\ HeaderStored(m.height)
    /\ m.nonce = ps.nonce
    /\ ps.vault # ZeroAddr
    /\ m.sender = ps.vault
    /\ m.to = ps.to
    /\ m.token = ps.token
    /\ m.amount = ps.amount

\* mutant: a reverted transaction settles the withdrawal like a mined one
ReceiptEffectIgnored(m, ps) == UNCHANGED <<bal, supply, reserve>>

\* mutant: the two statuses are swapped
ReceiptEffectSwapped(m, ps) ==
    IF ~m.ok THEN UNCHANGED <<bal, supply, reserve>>
    ELSE /\ bal' = IncBalance(bal, ps.from, ps.asset, ps.amount)
         /\ supply' = RestoreSupply(ps.asset, ps.amount)
         /\ reserve' = addGasReserve(ps.gas)

\* By the receipt's status: a reverted transaction is refunded, with the gas
\* reserve it was charged.
ReceiptEffect(m, ps) ==
    IF m.ok THEN UNCHANGED <<bal, supply, reserve>>
    ELSE /\ bal' = IncBalance(bal, ps.from, ps.asset, ps.amount)
         /\ supply' = RestoreSupply(ps.asset, ps.amount)
         /\ reserve' = addGasReserve(ps.gas)

ConfirmSpend(m) ==
    /\ "confirmSpend" \in Ops
    /\ ~paused
    /\ confirmedNonce \in DOMAIN spends
    /\ Proves(m, spends[confirmedNonce])
    /\ ReceiptEffect(m, spends[confirmedNonce])
    /\ spends' = DeletePendingSpend(confirmedNonce)
    /\ confirmedNonce' = confirmedNonce + 1
    /\ UNCHANGED <<paused, allow, pendingNonce, vault, lastHeight, signed, l1Vars>>

(***************************************************************************)
(* Settling it by a proof that the transaction dropped.                    *)
(***************************************************************************)
\* mutant: a type B proof with the withdrawal's own nonce is taken
VerifyL1ProofOfDropSlack(m, ps) ==
    /\ HeaderStored(m.height)
    /\ ~m.ok \/ m.nonce >= ps.nonce

\* verifyL1ProofOfDrop: type A is a receipt with status 0, type B a
\* transaction with a higher nonce; neither is tied to the vault or to ps.
VerifyL1ProofOfDrop(m, ps) ==
    /\ HeaderStored(m.height)
    /\ ~m.ok \/ m.nonce > ps.nonce

\* What types.go asks of the submitter: the receipt of the transaction with
\* the cleared nonce, or a higher nonce from the same vault.  In an instance
\* with OwnEvidenceOnly nothing else is submitted.
Submitted(m, ps) ==
    OwnEvidenceOnly => m.sender = KeyAddr /\ m.nonce >= ps.nonce

\* Credit the owner, restore the supply, advance, close the queue, delete.
\* GasCost is not given back on these paths.
RefundAndAdvance(n) ==
    /\ bal' = IncBalance(bal, spends[n].from, spends[n].asset, spends[n].amount)
    /\ supply' = RestoreSupply(spends[n].asset, spends[n].amount)
    /\ confirmedNonce' = NonceAdvance(n)
    /\ pendingNonce' = NonceAdvance(n)
    /\ spends' = DeletePendingSpend(n)
    /\ UNCHANGED <<paused, allow, reserve, vault, lastHeight, l1Vars>>

HandleClearNonce(m) ==
    /\ ~paused
    /\ confirmedNonce \in DOMAIN spends
    /\ VerifyL1ProofOfDrop(m, spends[confirmedNonce])
    /\ signed' = signed \cup {SelfTransfer(confirmedNonce)}
    /\ RefundAndAdvance(confirmedNonce)

\* The administrator's call, here at any time (TimedClear adds the timelock).
ClearNonce(m) ==
    /\ "clearNonce" \in Ops
    /\ confirmedNonce \in DOMAIN spends
    /\ Submitted(m, spends[confirmedNonce])
    /\ HandleClearNonce(m)

\* The window is counted from an L1 height, ps.height, to a Hive height.
WindowElapsed(ps) == hive >= ps.height + ExpiryWindow

ExpireWithdrawal(c, n, m) ==
    /\ "expireWithdrawal" \in Ops
    /\ ~paused
    /\ n = confirmedNonce
    /\ n \in DOMAIN spends
    /\ spends[n].vault # ZeroAddr
    /\ WindowElapsed(spends[n]) \/ c = spends[n].from
    /\ Submitted(m, spends[n])
    /\ VerifyL1ProofOfDrop(m, spends[n])
    /\ RefundAndAdvance(n)
    /\ UNCHANGED signed

CancelMyWithdrawal(c, n, m) ==
    /\ "cancelMyWithdrawal" \in Ops
    /\ ~paused
    /\ n \in DOMAIN spends
    /\ c = spends[n].from
    /\ Submitted(m, spends[n])
    /\ VerifyL1ProofOfDrop(m, spends[n])
    /\ signed' = signed \cup {SelfTransfer(n)}
    /\ RefundAndAdvance(n)

(***************************************************************************)
(* The other admin actions on the queue.                                   *)
(***************************************************************************)
\* mutant: the replacement is built at the pending nonce
ReplacementAtPendingNonce == PaymentTx("bumped", pendingNonce, spends[confirmedNonce])

Replacement == PaymentTx("bumped", confirmedNonce, spends[confirmedNonce])

\* Signs the head again at a higher price; the stored entry changes only its
\* UnsignedTxHex, which no handler reads.
ReplaceWithdrawal ==
    /\ "replaceWithdrawal" \in Ops
    /\ ~paused
    /\ confirmedNonce \in DOMAIN spends
    /\ HeaderStored(lastHeight)
    /\ signed' = signed \cup {Replacement}
    /\ UNCHANGED <<ledgerVars, queueVars, vault, lastHeight, l1Vars>>

SetVault(v) ==
    /\ "setVault" \in Ops
    /\ ~paused
    /\ vault' = v
    /\ UNCHANGED <<ledgerVars, queueVars, lastHeight, signed, l1Vars>>

\* mutant: the head entry is left in place
ClearedNoncesButHead == (confirmedNonce + 1)..pendingNonce

ClearedNonces == confirmedNonce..pendingNonce

\* Both nonces go back to zero; nobody is refunded.
ClearTestnetState ==
    /\ "clearTestnetState" \in Ops
    /\ ~paused
    /\ IsTestnet
    /\ spends' = [n \in DOMAIN spends \ ClearedNonces |-> spends[n]]
    /\ confirmedNonce' = 0
    /\ pendingNonce' = 0
    /\ UNCHANGED <<ledgerVars, vault, lastHeight, signed, l1Vars>>

(***************************************************************************)
(* The header oracle, one header at a time: pruning is HeaderStored.       *)
(***************************************************************************)
AddBlock ==
    /\ lastHeight < tip
    /\ lastHeight' = lastHeight + 1
    /\ UNCHANGED <<ledgerVars, queueVars, vault, signed, l1Vars>>

(***************************************************************************)
(* L1 and Hive (external).  MaxHeight and MaxHive bound the instance; an   *)
(* empty block leaves room for the transactions still to be mined.         *)
(***************************************************************************)
MineVaultTx(t, ok) ==
    /\ t.nonce = Len(mined)
    /\ tip < MaxHeight
    /\ tip' = tip + 1
    /\ mined' = Append(mined, [sender |-> KeyAddr, nonce |-> t.nonce, to |-> t.to,
                               token |-> t.token, amount |-> t.amount,
                               height |-> tip + 1, ok |-> ok])
    /\ UNCHANGED <<ledgerVars, queueVars, vault, lastHeight, signed, hive>>

EmptyBlock ==
    /\ tip + (MaxNonce - Len(mined)) < MaxHeight
    /\ tip' = tip + 1
    /\ UNCHANGED <<ledgerVars, queueVars, vault, lastHeight, signed, mined, hive>>

HiveTick ==
    /\ hive < MaxHive
    /\ hive' = hive + 1
    /\ UNCHANGED <<ledgerVars, queueVars, vault, lastHeight, signed, mined, tip>>

(***************************************************************************)
(* The specification.                                                      *)
(***************************************************************************)
Init ==
    /\ LedgerInit
    /\ confirmedNonce = 0
    /\ pendingNonce = 0
    /\ spends = [n \in {} |-> {}]
    /\ vault = KeyAddr
    /\ lastHeight = 0
    /\ signed = {}
    /\ mined = <<>>
    /\ tip = 0
    /\ hive = InitHive

Unmap ==
    \E c \in Callers, to \in Recipients, amt \in Amounts, cap \in FeeCaps :
        \/ \E d \in BOOLEAN : UnmapETH(c, to, amt, cap, d)
        \/ \E t \in Tokens : UnmapERC20(c, to, t, amt, cap)
        \/ \E from \in Accounts, d \in BOOLEAN : UnmapFromETH(c, from, to, amt, cap, d)
        \/ \E from \in Accounts, a \in Tokens, t \in Tokens :
               UnmapFromERC20(c, from, to, a, t, amt, cap)

Drop ==
    \E m \in Included :
        \/ ClearNonce(m)
        \/ \E c \in Callers, n \in Nonces : ExpireWithdrawal(c, n, m)
        \/ \E c \in Callers, n \in Nonces : CancelMyWithdrawal(c, n, m)

LedgerOp ==
    /\ \/ UserOp
       \/ Pause
       \/ Unpause
       \/ \E v \in ReserveChoices : SetGasReserve(v)
    /\ UNCHANGED <<queueVars, vault, lastHeight, signed, l1Vars>>

Next ==
    \/ Unmap
    \/ \E m \in Included : ConfirmSpend(m)
    \/ Drop
    \/ ReplaceWithdrawal
    \/ \E v \in VaultChoices : SetVault(v)
    \/ ClearTestnetState
    \/ LedgerOp
    \/ AddBlock
    \/ \E t \in signed, ok \in BOOLEAN : MineVaultTx(t, ok)
    \/ EmptyBlock
    \/ HiveTick

Spec == Init /\ [][Next]_vars
-----------------------------------------------------------------------------
(***************************************************************************)
(* Properties.                                                             *)
(***************************************************************************)
\* Every variable keeps its type (StorePendingSpend, GetConfirmedNonce and the
\* other state accessors read back what they wrote).
TypeOK ==
    /\ LedgerTypeOK
    /\ confirmedNonce \in Nat
    /\ pendingNonce \in Nat
    /\ DOMAIN spends \subseteq Nat
    /\ \A n \in DOMAIN spends : spends[n] \in PendingSpend
    /\ vault \in VaultAddrs
    /\ lastHeight \in Nat
    /\ signed \subseteq Tx
    /\ mined \in Seq(MinedTx)
    /\ tip \in Nat
    /\ hive \in Nat

\* The queue holds at most one withdrawal: the stored entries are exactly the
\* nonces from the confirmed to the pending one, each under its own nonce, so
\* HasPendingWithdrawal gates new unmaps precisely while an entry is stored
\* (the "single-outstanding-withdrawal invariant" HandleExpireWithdrawal
\* relies on), whichever of confirm, clear, expire and cancel closes it.
QueueInv ==
    /\ confirmedNonce <= pendingNonce
    /\ pendingNonce <= confirmedNonce + 1
    /\ DOMAIN spends = confirmedNonce..(pendingNonce - 1)
    /\ \A n \in DOMAIN spends : spends[n].nonce = n

\* The contract never asks the signers for two different payments with one L1
\* nonce, however often a withdrawal is replaced, refunded or followed by
\* another: L1 executes one transaction per nonce, and a second payment signed
\* for a used nonce could never be paid.
OnePaymentPerNonce ==
    \A t, u \in signed :
        t.kind # "roll" /\ u.kind # "roll" /\ t.nonce = u.nonce =>
            t.to = u.to /\ t.token = u.token /\ t.amount = u.amount

\* The signers are asked for nothing but issued nonces, and for an open
\* withdrawal's nonce for nothing but its payment, so nothing else of that
\* nonce can be on L1 while it is open, however it was re-priced.
SignedForQueue ==
    \A t \in signed :
        /\ t.nonce < pendingNonce
        /\ t.nonce \in DOMAIN spends =>
               /\ t.kind # "roll"
               /\ t.to = spends[t.nonce].to
               /\ t.token = spends[t.nonce].token
               /\ t.amount = spends[t.nonce].amount

\* A transaction of the head's nonce that L1 mined and whose header is stored
\* settles the head, if the vault was the signing key's address when it was
\* queued: neither setVault (HIGH #29) nor replaceWithdrawal in between
\* orphans it.
MinedHeadIsConfirmable ==
    \A n \in DOMAIN spends, i \in DOMAIN mined :
        /\ mined[i].nonce = n
        /\ HeaderStored(mined[i].height)
        /\ spends[n].vault = KeyAddr
        => Proves(mined[i], spends[n])

\* A withdrawal leaves the queue in one of two ways: L1 mined, successfully,
\* the transaction that pays its amount to its recipient, and then neither a
\* balance nor the gas reserve moves, or exactly its amount returns to its
\* owner, with at most the gas it was charged.
SettlementExact ==
    [][\A n \in DOMAIN spends \ DOMAIN spends' :
          LET ps == spends[n]
          IN \/ /\ bal' = bal
                /\ reserve' = reserve
                /\ \E m \in Included : /\ m.ok
                                       /\ m.sender = ps.vault
                                       /\ m.nonce = n
                                       /\ m.to = ps.to
                                       /\ m.token = ps.token
                                       /\ m.amount = ps.amount
             \/ /\ bal' = IncBalance(bal, ps.from, ps.asset, ps.amount)
                /\ reserve' \in {reserve, reserve + ps.gas}]_vars

\* The vault paid a withdrawal with this nonce on L1.
Executed(n) ==
    \E i \in DOMAIN mined : mined[i].nonce = n /\ mined[i].ok /\ mined[i].amount > 0

\* "A refund is only issued against cryptographic proof that the L1 withdrawal
\* did NOT send funds" (HandleExpireWithdrawal), on every path that refunds:
\* no balance is credited for a nonce the vault has already paid on L1.
RefundOnlyIfNotExecuted ==
    [][\A n \in DOMAIN spends \ DOMAIN spends' : bal' # bal => ~Executed(n)]_vars

\* "Pre-window: only the original withdrawer may early-cancel", the window
\* being WithdrawalExpiryWindow Hive blocks after the withdrawal was queued.
PreWindowOnlyWithdrawer ==
    [][\A n \in DOMAIN spends, c \in Callers, m \in Included :
          ExpireWithdrawal(c, n, m) /\ c # spends[n].from =>
              hive >= spends[n].at + ExpiryWindow]_vars

\* Failed withdrawals do not build the gas reserve up (EVM-C4).  A charge above
\* the reserve is clamped on the way down and given back in full, so that a
\* revert can leave more than there was: but never more, with what is still to
\* be given back, than the reserve held at first or one withdrawal is charged,
\* however often it is repeated.
WithinReserve(x) == x <= InitReserve \/ \E cap \in FeeCaps : x <= TokenGas * cap

ReserveBounded ==
    /\ WithinReserve(reserve)
    /\ \A n \in DOMAIN spends : WithinReserve(reserve + spends[n].gas)

(***************************************************************************)
(* Refinement.  A settled nonce counts as paid when L1 paid it, so a       *)
(* refund of a withdrawal that L1 executes later is not a step of the      *)
(* abstract escrow.                                                        *)
(***************************************************************************)
OpenWithdrawals ==
    {[id |-> n, from |-> spends[n].from, asset |-> spends[n].asset,
      amount |-> spends[n].amount] : n \in DOMAIN spends}

OutcomeOf(n) ==
    IF n \in DOMAIN spends THEN "open"
    ELSE IF n >= pendingNonce THEN "none"
    ELSE IF Executed(n) THEN "paid" ELSE "refunded"

Escrow == INSTANCE WithdrawalEscrow WITH
    Limit <- MaxNonce,
    issued <- pendingNonce,
    open <- OpenWithdrawals,
    outcome <- [n \in Nonces |-> OutcomeOf(n)]

\* The lifecycle implements the escrow: one withdrawal at a time, each settled
\* once, for exactly its amount, and never paid after it was refunded.
ImplementsEscrow == Escrow!Spec
=============================================================================
