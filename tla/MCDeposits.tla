----------------------------- MODULE MCDeposits -----------------------------
(***************************************************************************)
(* Small instances of deposits and headers for TLC.  Alice receives        *)
(* deposits, the relayer brings them, the oracle feeds headers.            *)
(***************************************************************************)
EXTENDS DepositAccounting, TLC

CONSTANTS vault1, vault2, payer

Alice == <<"alice">>
Relayer == <<"relayer">>
Contract == <<"contract">>
Dex == <<"dex">>
FourAccounts == {Alice, Relayer, Contract, Dex}
ThreeAccounts == {Relayer, Contract, Dex}
JustRelayer == {Relayer}

NoBalance == [x \in Accounts \X Assets |-> 0]
NoAllowance == [x \in Grants \X Assets |-> 0]
NoSupply == [a \in Assets |-> [Active |-> 0, User |-> 0, Fee |-> 0]]

Payment(hash, index, to, chain) ==
    [hash |-> hash, index |-> index, asset |-> Eth, from |-> payer, to |-> to, amount |-> 4,
     chain |-> chain]
Log(hash, index, token, from) ==
    [hash |-> hash, index |-> index, asset |-> token, from |-> from, to |-> vault1, amount |-> 2,
     chain |-> ChainId]

\* A payment to the vault and one to the next vault in a block, and in the
\* following block two logs of one receipt, the second a mint.
Usdc == CHOOSE t \in Tokens : TRUE
Pay1 == Payment(1, 0, vault1, ChainId)
Pay2 == Payment(2, 1, vault2, ChainId)
Log1 == Log(3, 0, Usdc, payer)
Mint == Log(3, 1, Usdc, ZeroAddr)
Foreign == Payment(4, 0, vault1, 9)
AllItems == {Pay1, Pay2, Log1, Mint, Foreign}

PayBlock == {Pay1, Pay2}
LogBlock == {Log1, Mint}
ForeignBlock == {Foreign}
AllContents == {PayBlock, LogBlock, ForeignBlock, {}}

\* Each item is in blocks of one height only, as on a chain without reorgs.
Heights1 == [h \in 1..MaxHeight |->
                CASE h = 1 -> {PayBlock} [] h = 2 -> {LogBlock, ForeignBlock} [] OTHER -> {{}}]
\* The oracle was fed a block of a fork that was orphaned: the canonical block
\* of the height holds its deposit too, and one to the next vault.  Amounts of
\* 1: a router takes all of it or nothing.
Coin1 == [Log1 EXCEPT !.amount = 1]
Coin2 == [Coin1 EXCEPT !.index = 1, !.to = vault2]
Forked == [h \in 1..MaxHeight |-> IF h = 1 THEN {{Coin1, Coin2}, {Coin1}} ELSE {{}}]
ForkedContents == {{Coin1, Coin2}, {Coin1}, {}}
ForkedItems == {Coin1, Coin2}

Depositing == {"addBlocks", "seedBlocks", "registerRelayer", "deregisterRelayer", "registerToken",
               "setVault", "registerRouter", "verifierStores", "setVerifierContract"}
Rewriting == {"addBlocks", "seedBlocks", "replaceBlock", "clearTestnetState", "setVault",
              "registerToken", "registerRouter", "pause"}
=============================================================================
