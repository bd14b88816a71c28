----------------------------- MODULE MCScanner -----------------------------
(***************************************************************************)
(* Small instances of the monitor's scanner for TLC: L1 blocks with other  *)
(* accounts' transactions, payments and receipts with several logs, in any *)
(* order on the chain.                                                     *)
(***************************************************************************)
EXTENDS Scanner, TLC

CONSTANTS usdc, dai

\* Logs of the vault's tokens, of an unregistered token (the native asset
\* stands for it) and of a transfer to someone else.
ToVault(t) == [token |-> t, toVault |-> TRUE]
Elsewhere(t) == [token |-> t, toVault |-> FALSE]

Transaction(toVault, value, first, logs) ==
    [toVault |-> toVault, value |-> value, first |-> first, logs |-> logs]

Foreign == Transaction(FALSE, 1, 0, <<Elsewhere(usdc)>>)
\* A payment behind another account's transaction.
PayBlock == <<Foreign, Transaction(TRUE, 1, 1, << >>)>>
\* A payment of no value, one whose value wraps to none, and two transfers of
\* one receipt behind the logs of another.
LogBlock ==
    <<Transaction(TRUE, Word, 0, <<Elsewhere(usdc)>>),
      Transaction(TRUE, 0, 1, <<ToVault(usdc), ToVault(Eth), ToVault(usdc)>>)>>
\* A payment that also logs a transfer.
MixedBlock == <<Transaction(TRUE, 3, 0, <<ToVault(dai), Elsewhere(dai)>>)>>
EmptyBlock == << >>
AllContents == {PayBlock, LogBlock, MixedBlock, EmptyBlock}
=============================================================================
