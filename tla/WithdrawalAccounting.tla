------------------------ MODULE WithdrawalAccounting ------------------------
(***************************************************************************)
(* Properties of the withdrawal lifecycle that add amounts up, and its     *)
(* liveness.                                                               *)
(***************************************************************************)
EXTENDS Withdrawal, Functions

TotalBal(a) == SumFunction([u \in Accounts |-> bal[<<u, a>>]])

\* Amount of asset a that the vault has paid out on L1, fees aside.
PaidOut(a) ==
    SumFunction([i \in DOMAIN mined |->
                    IF mined[i].ok /\ mined[i].token = a THEN mined[i].amount ELSE 0])

\* Amount of asset a debited for the open withdrawal and not yet paid on L1.
Owed(a) ==
    SumFunction([n \in DOMAIN spends |->
                    IF spends[n].asset = a /\ ~Executed(n) THEN spends[n].amount ELSE 0])

\* Supply.User follows the sum of user balances through unmaps, refunds and
\* transfers: it equals the sum for tokens, and for ETH never falls below it
\* (so TrackWithdrawal cannot abort a withdrawal the balance covers), though
\* unmapFrom leaves the fee it takes from the balance in it.
UserSupplyTracksBalances ==
    \A a \in Assets : IF a = Eth THEN TotalBal(a) <= supply[a].User
                      ELSE TotalBal(a) = supply[a].User

\* What is bridged is what is owed to users plus what is booked as fees, after
\* any sequence of unmaps and refunds: the clamps of HandleUnmapETH never bite.
SupplyBalanced == \A a \in Assets : supply[a].Active = supply[a].User + supply[a].Fee

\* The vault, which starts with what is bridged, can still pay every balance
\* and the open withdrawal, whatever mix of settlements, reverts and refunds
\* happened (L1 gas aside).
Solvent ==
    \A a \in Assets : TotalBal(a) + Owed(a) <= InitSupply[a].Active - PaidOut(a)

\* The accounts that make no call, and whose keys nobody else's name reaches:
\* of an allowance, nor then of a balance.  For names of the host, which begin
\* with a domain and have no second, that no other begins o's at a dash.
Sheltered ==
    {o \in Accounts \ Callers :
        \A u \in Accounts, p \in Parts, s, t \in Accounts : (u \o p) \o s = o \o t => u = o}

\* A sheltered account loses, of each token, no more than the allowances it had
\* given have shrunk by, transfers and withdrawals on its behalf together.  (One
\* that is not sheltered can lose all: a caller whose name begins its own
\* transfers and approves in its place.)
PassiveOwnerLosesAtMostAllowance ==
    \A o \in Sheltered, a \in Tokens :
        InitBal[<<o, a>>] - bal[<<o, a>>] <=
            SumFunction([s \in Accounts |-> InitAllow[<<o \o s, a>>] - GetAllowance(o, s, a)])

(***************************************************************************)
(* Liveness.  The signers broadcast and L1 mines a signed transaction, the *)
(* oracle submits headers, the bot confirms, and a pause is lifted.        *)
(***************************************************************************)
Fairness ==
    /\ WF_vars(\E t \in signed, ok \in BOOLEAN : MineVaultTx(t, ok))
    /\ WF_vars(AddBlock)
    /\ SF_vars(\E m \in Included : ConfirmSpend(m))
    /\ WF_vars(Unpause /\ UNCHANGED <<queueVars, vault, lastHeight, signed, l1Vars>>)

FairSpec == Spec /\ Fairness

\* Every withdrawal queued while the configured vault is the signing key's
\* address is eventually settled, across reverts, replacements, pauses and
\* later changes of the configured vault.  (One queued under another address
\* can be paid on L1 and never confirmed.)
EveryWithdrawalSettles ==
    \A n \in Nonces : (n \in DOMAIN spends /\ spends[n].vault = KeyAddr) ~> (n \notin DOMAIN spends)
=============================================================================
