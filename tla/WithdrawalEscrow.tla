-------------------------- MODULE WithdrawalEscrow --------------------------
(***************************************************************************)
(* What the withdrawal lifecycle promises, with no L1, proofs or nonces:   *)
(* withdrawals are taken one at a time, each locks at least the amount it  *)
(* will pay, and each is settled once and for good, by a payment on L1 or  *)
(* by a refund of exactly its amount to its owner.  Between them balances  *)
(* move only from one account to another.                                  *)
(***************************************************************************)
EXTENDS Integers

CONSTANTS Accounts, Assets, Limit

VARIABLES
    bal,     \* balance of <<account, asset>>
    issued,  \* how many withdrawals were taken
    open,    \* the withdrawal in flight, a set of at most one record
    outcome  \* what became of each withdrawal

vars == <<bal, issued, open, outcome>>

Outcomes == {"none", "open", "paid", "refunded"}

Init ==
    /\ bal \in [Accounts \X Assets -> Nat]
    /\ issued = 0
    /\ open = {}
    /\ outcome = [n \in 0..(Limit - 1) |-> "none"]

\* The fee of the withdrawal is what is locked beyond the amount.
Lock(u, a, amt, fee) ==
    /\ open = {}
    /\ issued < Limit
    /\ outcome[issued] = "none"
    /\ amt > 0
    /\ fee >= 0
    /\ bal[<<u, a>>] >= amt + fee
    /\ bal' = [bal EXCEPT ![<<u, a>>] = @ - (amt + fee)]
    /\ issued' = issued + 1
    /\ open' = {[id |-> issued, from |-> u, asset |-> a, amount |-> amt]}
    /\ outcome' = [outcome EXCEPT ![issued] = "open"]

Pay(w) ==
    /\ open' = open \ {w}
    /\ outcome' = [outcome EXCEPT ![w.id] = "paid"]
    /\ UNCHANGED <<bal, issued>>

Refund(w) ==
    /\ open' = open \ {w}
    /\ outcome' = [outcome EXCEPT ![w.id] = "refunded"]
    /\ bal' = [bal EXCEPT ![<<w.from, w.asset>>] = @ + w.amount]
    /\ UNCHANGED issued

Move(u, v, a, amt) ==
    /\ bal[<<u, a>>] >= amt
    /\ bal' = [[bal EXCEPT ![<<u, a>>] = @ - amt] EXCEPT ![<<v, a>>] = @ + amt]
    /\ UNCHANGED <<issued, open, outcome>>

Next ==
    \/ \E u \in Accounts, a \in Assets :
           \E total \in 1..bal[<<u, a>>] : \E amt \in 1..total : Lock(u, a, amt, total - amt)
    \/ \E w \in open : Pay(w) \/ Refund(w)
    \/ \E u, v \in Accounts, a \in Assets :
           \E amt \in 1..bal[<<u, a>>] : Move(u, v, a, amt)

Spec == Init /\ [][Next]_vars
=============================================================================
