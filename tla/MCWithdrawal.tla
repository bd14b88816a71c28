---------------------------- MODULE MCWithdrawal ----------------------------
(***************************************************************************)
(* Small instances of the withdrawal lifecycle for TLC.  Alice and Bob     *)
(* hold ETH and one or two tokens; an account outside Callers makes no     *)
(* call.  Amounts stand for multiples of the minimum withdrawal.           *)
(***************************************************************************)
EXTENDS WithdrawalAccounting, TLC

CONSTANT other

Alice == <<"alice">>
Bob == <<"bob">>
BobX == <<"bob", "x">>
TwoAccounts == {Alice, Bob}
JustBob == {Bob}
PlainNames == {<< >>}

\* Bob's name begins a third account's at a dash, as in hive:bob and hive:bob-x.
NestedNames == {Alice, Bob, BobX}
DashedNames == {<< >>, <<"x">>}

\* Alice holds enough of each asset for two withdrawals and a fee.
OneFunded == [x \in Accounts \X Assets |-> IF x[1] = Alice THEN 5 ELSE 0]
\* Alice's is enough for one withdrawal and a fee.
ThinlyFunded ==
    [x \in Accounts \X Assets |->
        CASE x[1] = Alice -> 2 [] x[1] = BobX /\ x[2] # Eth -> 1 [] OTHER -> 0]
NoAllowance == [x \in Grants \X Assets |-> 0]
AliceAllowsBob ==
    [x \in Grants \X Assets |->
        IF x[1] = Alice \o Bob THEN (IF x[2] = Eth THEN 1 ELSE 2) ELSE 0]

\* What deposits crediting these balances leave: the deposit tax is the fee.
FromDeposits(b) ==
    [a \in Assets |->
        LET sum == SumFunction([u \in Accounts |-> b[<<u, a>>]])
            fee == IF a = Eth THEN 2 ELSE 0
        IN [Active |-> sum + fee, User |-> sum, Fee |-> fee]]
OneSupply == FromDeposits(OneFunded)
ThinSupply == FromDeposits(ThinlyFunded)

UnitMinimum == [a \in Assets |-> 1]

\* A reverted transaction of another account in block 1, and a successful one
\* with a high nonce in block 2: any L1 block holds such transactions.
Traffic ==
    {[sender |-> other, nonce |-> 0, to |-> other, token |-> Eth, amount |-> 1,
      height |-> 1, ok |-> FALSE],
     [sender |-> other, nonce |-> 9, to |-> other, token |-> Eth, amount |-> 1,
      height |-> 2, ok |-> TRUE]}
NoTraffic == {}

Settling == {"unmapETH", "unmapERC20", "confirmSpend", "clearNonce", "expireWithdrawal",
             "cancelMyWithdrawal"}
SettlingAndAdmin == Settling \cup {"replaceWithdrawal", "setVault", "pause"}
ForOthers == {"unmapFrom", "confirmSpend", "transfer", "transferFrom", "approve",
              "increaseAllowance", "decreaseAllowance", "clearTestnetState", "setGasReserve"}
=============================================================================
