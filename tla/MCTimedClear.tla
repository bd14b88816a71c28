---------------------------- MODULE MCTimedClear ----------------------------
(***************************************************************************)
(* Instances of the lifecycle with clearNonce under its timelock, on the   *)
(* ledgers and L1 contents of MCWithdrawal.                                *)
(***************************************************************************)
EXTENDS TimedClear, MCWithdrawal

\* clearNonce comes by proposals only.
Timed == {"unmapETH", "unmapERC20", "confirmSpend", "expireWithdrawal", "cancelMyWithdrawal"}
=============================================================================
