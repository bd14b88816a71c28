-------------------------- MODULE AnnouncedChange --------------------------
(***************************************************************************)
(* What the propose / execute timelock promises: the configuration changes *)
(* only by what was announced.  Each change is the effect of one ticket,   *)
(* made public at least the action's delay before, not withdrawn since,    *)
(* still fresh, and used up by the change; the one exception is the first  *)
(* initialisation, which names the oracle account.                         *)
(***************************************************************************)
EXTENDS AdminActions

CONSTANT Tickets    \* names a ticket may have

VARIABLES
    now,        \* the clock
    open,       \* open tickets: [id, action, payload, at]
    spent,      \* names that were ever used
    settings,   \* the configuration
    deployed    \* whether the first initialisation took place

vars == <<now, open, spent, settings, deployed>>

Init ==
    /\ now \in Nat
    /\ open = {}
    /\ spent = {}
    /\ settings = Unset
    /\ deployed = FALSE

Deploy ==
    /\ ~deployed
    /\ deployed' = TRUE
    /\ \E o \in Values : settings' = [settings EXCEPT !.oracle = o]
    /\ UNCHANGED <<now, open, spent>>

Announce(id, action, payload) ==
    /\ id \notin spent
    /\ spent' = spent \cup {id}
    /\ open' = open \cup {[id |-> id, action |-> action, payload |-> payload, at |-> now]}
    /\ UNCHANGED <<now, settings, deployed>>

Withdraw(t) ==
    /\ open' = open \ {t}
    /\ UNCHANGED <<now, spent, settings, deployed>>

\* A ticket matures after the delay of its action and stays usable for
\* ExpireWindowBlocks.
Enact(t) ==
    /\ now >= t.at + TimelockFor(t.action)
    /\ now < t.at + TimelockFor(t.action) + ExpireWindowBlocks
    /\ open' = open \ {t}
    /\ settings' = Effect(t.action, t.payload, settings)
    /\ UNCHANGED <<now, spent, deployed>>

Pass ==
    /\ now' = now + 1
    /\ UNCHANGED <<open, spent, settings, deployed>>

Next ==
    \/ Deploy
    \/ \E id \in Tickets, action \in Actions, payload \in Payloads : Announce(id, action, payload)
    \/ \E t \in open : Withdraw(t) \/ Enact(t)
    \/ Pass

Spec == Init /\ [][Next]_vars
=============================================================================
