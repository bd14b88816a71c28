------------------------------- MODULE Ledger -------------------------------
(***************************************************************************)
(* The account ledger of the mapping contract: balances, allowances, the   *)
(* per-asset supply accumulators, the gas reserve and the pause switch     *)
(* (contract/mapping/balance.go, supply.go and the ledger handlers of      *)
(* handlers.go).  A handler that returns an error aborts the call and the  *)
(* host rolls its writes back, so every error path is a disabled action.   *)
(*                                                                         *)
(* Amounts are natural numbers of wei or token units: the code keeps them  *)
(* in big.Int, which has no width.                                         *)
(*                                                                         *)
(* State keys join names with a '-' that nothing escapes (balanceKey,      *)
(* allowanceKey), and names may hold one.  A name is the sequence of its   *)
(* parts between dashes, so that joining two names is \o.  No asset of the *)
(* registry holds a '-', hence the key of balance u-a is the pair <<u, a>> *)
(* and that of allowance o-s-a the pair <<o \o s, a>>, whoever wrote it.   *)
(* An asset named by a caller may be p-a, with parts p before the asset a. *)
(***************************************************************************)
EXTENDS Integers, FiniteSets, Sequences

CONSTANTS
    Accounts,       \* the names balances and allowances are held under
    Callers,        \* the accounts that call the contract in this instance
    Spenders,       \* the names they give allowances to
    Parts,          \* what they put before the name of a spender or an asset
    Eth,            \* the native asset
    Tokens,         \* registered ERC-20 tokens; a token stands for its symbol
    Amounts,        \* amounts a caller may name
    MinGasReserve,  \* constants.MinGasReserve
    InitBal, InitAllow, InitSupply, InitReserve,  \* the ledger to start from
    ReserveChoices, \* values the admin may give setGasReserve
    MaxAllowance,   \* bound of this instance on an increased allowance
    Ops             \* the entry points exercised by this instance

Assets == {Eth} \cup Tokens

\* Owner and spender, joined.
Grants == {o \o s : o, s \in Accounts}

SupplyRecord == [Active : Nat, User : Nat, Fee : Nat]

ASSUME LedgerAssumption ==
    /\ Accounts \subseteq Seq(STRING)
    /\ Callers \subseteq Accounts
    /\ Spenders \subseteq Accounts
    /\ Parts \subseteq Seq(STRING)
    /\ Eth \notin Tokens
    /\ Amounts \subseteq Nat \ {0}
    /\ MinGasReserve \in Nat
    /\ InitBal \in [Accounts \X Assets -> Nat]
    /\ InitAllow \in [Grants \X Assets -> Nat]
    /\ InitSupply \in [Assets -> SupplyRecord]
    /\ InitReserve \in Nat
    /\ ReserveChoices \subseteq Nat
    /\ MaxAllowance \in Nat

\* A ledger is a map of finitely many accounts, so that balances have a sum.
ASSUME FiniteAccounts == IsFiniteSet(Accounts)

VARIABLES
    paused,   \* the PausedKey switch
    bal,      \* balance of <<account, asset>>
    allow,    \* allowance of <<owner \o spender, asset>>
    supply,   \* Supply record of each asset
    reserve   \* gas reserve, in wei

ledgerVars == <<paused, bal, allow, supply, reserve>>

(***************************************************************************)
(* Helpers of balance.go, supply.go and handlers.go.                       *)
(***************************************************************************)
Floor0(x) == IF x < 0 THEN 0 ELSE x

IncBalance(b, u, a, amt) == [b EXCEPT ![<<u, a>>] = @ + amt]

\* mutant: the balance is not compared with the amount
CanDebitUnchecked(u, a, amt) == amt > 0

CanDebit(u, a, amt) == amt > 0 /\ bal[<<u, a>>] >= amt
DecBalance(b, u, a, amt) == [b EXCEPT ![<<u, a>>] = @ - amt]

GetAllowance(o, s, a) == allow[<<o \o s, a>>]
SetAllowance(o, s, a, amt) == [allow EXCEPT ![<<o \o s, a>>] = amt]

\* mutant: the spent allowance is not written back
SpendAllowanceNot(o, s, a, amt) == allow

SpendAllowance(o, s, a, amt) == SetAllowance(o, s, a, GetAllowance(o, s, a) - amt)

\* TrackWithdrawal aborts when the amount exceeds a tracked total.
CanTrack(a, amt) == amt <= supply[a].Active /\ amt <= supply[a].User
TrackWithdrawal(a, amt) ==
    [supply EXCEPT ![a] = [Active |-> supply[a].Active - amt,
                           User   |-> supply[a].User - amt,
                           Fee    |-> supply[a].Fee]]

\* mutant: the accumulators of a refund are left as the withdrawal set them
RestoreSupplyNot(a, amt) == supply

\* The supply half of every refund: Active and User grow by the amount.
RestoreSupply(a, amt) ==
    [supply EXCEPT ![a] = [Active |-> supply[a].Active + amt,
                           User   |-> supply[a].User + amt,
                           Fee    |-> supply[a].Fee]]

\* mutant: the reduced reserve is not written back
deductGasReserveNot(cost) == reserve

deductGasReserve(cost) == Floor0(reserve - cost)
addGasReserve(cost) == reserve + cost

(***************************************************************************)
(* The ledger handlers.  The asset they are given is p-a, checked by none  *)
(* of them: the name it is joined to takes the parts p.                    *)
(***************************************************************************)
LedgerInit ==
    /\ paused = FALSE
    /\ bal = InitBal
    /\ allow = InitAllow
    /\ supply = InitSupply
    /\ reserve = InitReserve

Transfer(c, to, p, a, amt) ==
    /\ "transfer" \in Ops
    /\ ~paused
    /\ {c \o p, to \o p} \subseteq Accounts
    /\ CanDebit(c \o p, a, amt)
    /\ bal' = IncBalance(DecBalance(bal, c \o p, a, amt), to \o p, a, amt)
    /\ UNCHANGED <<paused, allow, supply, reserve>>

TransferFrom(c, from, to, p, a, amt) ==
    /\ "transferFrom" \in Ops
    /\ ~paused
    /\ {from \o p, c \o p, to \o p} \subseteq Accounts
    /\ GetAllowance(from, c \o p, a) >= amt
    /\ CanDebit(from \o p, a, amt)
    /\ allow' = SpendAllowance(from, c \o p, a, amt)
    /\ bal' = IncBalance(DecBalance(bal, from \o p, a, amt), to \o p, a, amt)
    /\ UNCHANGED <<paused, supply, reserve>>

\* The spender is p-s: the key is that of the owner c-p and the spender s.
\* approve accepts a zero amount, the revocation; the others do not.
Approve(c, p, s, a, amt) ==
    /\ "approve" \in Ops
    /\ ~paused
    /\ c \o p \in Accounts
    /\ allow' = SetAllowance(c \o p, s, a, amt)
    /\ UNCHANGED <<paused, bal, supply, reserve>>

\* MaxAllowance bounds the instance: the code has no ceiling.
IncreaseAllowance(c, p, s, a, amt) ==
    /\ "increaseAllowance" \in Ops
    /\ ~paused
    /\ c \o p \in Accounts
    /\ GetAllowance(c \o p, s, a) + amt <= MaxAllowance
    /\ allow' = SetAllowance(c \o p, s, a, GetAllowance(c \o p, s, a) + amt)
    /\ UNCHANGED <<paused, bal, supply, reserve>>

DecreaseAllowance(c, p, s, a, amt) ==
    /\ "decreaseAllowance" \in Ops
    /\ ~paused
    /\ c \o p \in Accounts
    /\ allow' = SetAllowance(c \o p, s, a, Floor0(GetAllowance(c \o p, s, a) - amt))
    /\ UNCHANGED <<paused, bal, supply, reserve>>

(***************************************************************************)
(* The admin actions on this state, as dispatchAdmin performs them: pause  *)
(* and unpause are the two that a paused contract still accepts.           *)
(***************************************************************************)
Pause ==
    /\ "pause" \in Ops
    /\ paused' = TRUE
    /\ UNCHANGED <<bal, allow, supply, reserve>>

Unpause ==
    /\ "pause" \in Ops
    /\ paused' = FALSE
    /\ UNCHANGED <<bal, allow, supply, reserve>>

SetGasReserve(v) ==
    /\ "setGasReserve" \in Ops
    /\ ~paused
    /\ reserve' = v
    /\ UNCHANGED <<paused, bal, allow, supply>>

UserOp ==
    \E c \in Callers, p \in Parts, a \in Assets, amt \in Amounts :
        \/ \E to \in Accounts : Transfer(c, to, p, a, amt)
        \/ \E from, to \in Accounts : TransferFrom(c, from, to, p, a, amt)
        \/ \E s \in Spenders : Approve(c, p, s, a, amt)
        \/ \E s \in Spenders : Approve(c, p, s, a, 0)
        \/ \E s \in Spenders : IncreaseAllowance(c, p, s, a, amt)
        \/ \E s \in Spenders : DecreaseAllowance(c, p, s, a, amt)

LedgerTypeOK ==
    /\ paused \in BOOLEAN
    /\ bal \in [Accounts \X Assets -> Nat]
    /\ allow \in [Grants \X Assets -> Nat]
    /\ supply \in [Assets -> SupplyRecord]
    /\ reserve \in Nat
=============================================================================
