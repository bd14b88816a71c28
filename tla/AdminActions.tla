---------------------------- MODULE AdminActions ----------------------------
(***************************************************************************)
(* The administrative actions of the mapping contract: the timelock class  *)
(* of each (TimelockFor in contract/admin/proposals.go), when dispatchAdmin*)
(* (contract/main.go) accepts one, and what it does to the configuration.  *)
(*                                                                         *)
(* The actions on the withdrawal queue, on stored headers and on the TSS   *)
(* key change no configuration; their own handlers are modelled where that *)
(* state is (Withdrawal, Deposits), and may refuse at any time here.       *)
(***************************************************************************)
EXTENDS Integers

CONSTANTS
    Values,         \* payloads: addresses, account names, contract ids, amounts
    Empty,          \* the empty payload; as a setting, a key that is not set
    TimelockLong, TimelockTactical, TimelockOperational, \* delays in Hive blocks
    ExpireWindowBlocks \* Hive blocks for which a matured proposal can execute

Payloads == Values \cup {Empty}

FundActions == {"setVault", "setVerifierContract", "createKey", "renewKey"}
TacticalActions == {"registerPublicKey", "replaceBlock", "replaceWithdrawal", "clearNonce"}
OperationalActions ==
    {"registerToken", "registerRouter", "setGasReserve", "seedBlocks", "setOracleAccount",
     "registerRelayer", "deregisterRelayer", "clearTestnetState"}
EmergencyActions == {"pause", "unpause"}
Actions == FundActions \cup TacticalActions \cup OperationalActions \cup EmergencyActions

ASSUME AdminAssumption ==
    /\ Empty \notin Values
    /\ TimelockLong \in Nat
    /\ TimelockTactical \in Nat
    /\ TimelockOperational \in Nat
    /\ ExpireWindowBlocks \in Nat \ {0}

\* TimelockImmediate is 0.
TimelockFor(action) ==
    CASE action \in FundActions -> TimelockLong
      [] action \in TacticalActions -> TimelockTactical
      [] action \in OperationalActions -> TimelockOperational
      [] OTHER -> 0

\* What the admin configures, one field per state key or family of keys.
Settings ==
    [vault : Payloads, verifier : Payloads, pubkey : Payloads, router : Payloads,
     gasReserve : Payloads, oracle : Payloads,
     relayers : SUBSET Values, tokens : SUBSET Payloads, paused : BOOLEAN]

Unset ==
    [vault |-> Empty, verifier |-> Empty, pubkey |-> Empty, router |-> Empty,
     gasReserve |-> Empty, oracle |-> Empty, relayers |-> {}, tokens |-> {}, paused |-> FALSE]

\* mutant: assertNotPaused is missing from the gates
DispatchesWhilePaused(action, payload, s) ==
    action \in {"setVault", "setVerifierContract", "setOracleAccount", "registerRelayer",
                "deregisterRelayer", "registerToken"} => payload # Empty

\* dispatchAdmin aborts on a paused contract, but for the emergency actions,
\* and on an empty payload where a name or an address is needed.
Dispatches(action, payload, s) ==
    /\ s.paused => action \in EmergencyActions
    /\ action \in {"setVault", "setVerifierContract", "setOracleAccount", "registerRelayer",
                   "deregisterRelayer", "registerToken"} => payload # Empty

\* The write a dispatched action makes to the configuration.
Effect(action, payload, s) ==
    CASE action = "setVault" -> [s EXCEPT !.vault = payload]
      [] action = "setVerifierContract" -> [s EXCEPT !.verifier = payload]
      [] action = "registerPublicKey" -> [s EXCEPT !.pubkey = payload]
      [] action = "registerRouter" -> [s EXCEPT !.router = payload]
      [] action = "setGasReserve" -> [s EXCEPT !.gasReserve = payload]
      [] action = "setOracleAccount" -> [s EXCEPT !.oracle = payload]
      [] action = "registerRelayer" -> [s EXCEPT !.relayers = @ \cup {payload}]
      [] action = "deregisterRelayer" -> [s EXCEPT !.relayers = @ \ {payload}]
      [] action = "registerToken" -> [s EXCEPT !.tokens = @ \cup {payload}]
      [] action = "pause" -> [s EXCEPT !.paused = TRUE]
      [] action = "unpause" -> [s EXCEPT !.paused = FALSE]
      [] OTHER -> s
=============================================================================
