---------------------------- MODULE DepositFeed ----------------------------
(***************************************************************************)
(* What the monitor promises the contract's relayer, with no RPC, passes,  *)
(* retries or crashes: every deposit of a finalized block is handed over   *)
(* at least once, block after block, and a block is acknowledged only when *)
(* nothing of it, or of a block before it, is still to be handed over.     *)
(***************************************************************************)
EXTENDS Integers

CONSTANT Heights

VARIABLES
    due,        \* the deposits each block holds
    final,      \* newest finalized block
    acked,      \* newest acknowledged block
    delivered   \* deposits handed over, once or more often

vars == <<due, final, acked, delivered>>

Init ==
    /\ final \in {0} \cup Heights
    /\ acked = 0
    /\ delivered = {}

Finalize ==
    /\ final' \in {h \in Heights : h > final}
    /\ UNCHANGED <<due, acked, delivered>>

Deliver(h, d) ==
    /\ h <= final
    /\ d \in due[h]
    /\ \A k \in Heights : k < h => due[k] \subseteq delivered
    /\ delivered' = delivered \cup {d}
    /\ UNCHANGED <<due, final, acked>>

Acknowledge(h) ==
    /\ acked < h
    /\ h <= final
    /\ \A k \in Heights : k <= h => due[k] \subseteq delivered
    /\ acked' = h
    /\ UNCHANGED <<due, final, delivered>>

Next ==
    \/ Finalize
    \/ \E h \in Heights : Acknowledge(h) \/ \E d \in due[h] : Deliver(h, d)

Spec == Init /\ [][Next]_vars
=============================================================================
