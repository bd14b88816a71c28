------------------------------ MODULE MCAdmin ------------------------------
(***************************************************************************)
(* Small instances of the administration for TLC.  The delays keep the     *)
(* order of the code's (0 < operational < tactical < long), the window is  *)
(* long enough for two proposals to mature side by side.                   *)
(***************************************************************************)
EXTENDS AdminTimelock, TLC

CONSTANTS owner, other

\* Actions of each class: those that write each kind of setting, those another
\* handler may refuse, one whose effect is elsewhere.
Operating ==
    {"setVault", "setVerifierContract", "replaceBlock", "seedBlocks", "setOracleAccount",
     "registerRelayer", "deregisterRelayer", "clearTestnetState", "pause", "unpause"}
=============================================================================
