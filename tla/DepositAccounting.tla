------------------------- MODULE DepositAccounting -------------------------
(***************************************************************************)
(* What deposits leave in the ledger, summed over accounts and deposits.   *)
(***************************************************************************)
EXTENDS Deposits, Functions

Held(a) == SumFunction([u \in Accounts |-> bal[<<u, a>>]])

\* What the vault received on L1 for the deposits that were credited.
Received(a) ==
    SumFunction([i \in {r.item : r \in DOMAIN credits} |-> IF i.asset = a THEN i.amount ELSE 0])

\* The bridge is backed: what accounts hold, and for the native asset the gas
\* reserve with it, is no more than what the vault received on L1 for the
\* deposits credited, each counted once.
Backed ==
    \A a \in Assets : Held(a) + (IF a = Eth THEN reserve ELSE 0) <= Received(a)

\* supply.go:13, "credited to users": the User total of an asset is what the
\* deposits put into the balances.
UserSupplyIsCredited == \A a \in Assets : supply[a].User = Held(a)

\* Every unit the supply counts as credited to users is in some balance, though
\* the router fails with part of the deposit, DecBalance refuses to reverse the
\* own credit, or the deposit is mapped again within the call
\* (handlers.go:687-694): a swap leaves no depositor unpaid.
CreditsAreHeld == \A a \in Assets : supply[a].User <= Held(a)
=============================================================================
