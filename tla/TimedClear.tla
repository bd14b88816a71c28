----------------------------- MODULE TimedClear -----------------------------
(***************************************************************************)
(* clearNonce as the administrator really calls it: proposed with its      *)
(* proof of drop, held back for TimelockTactical Hive blocks and then run  *)
(* by HandleClearNonce against the headers and the queue of that time      *)
(* (contract/admin/proposals.go, dispatchAdmin of contract/main.go).  The  *)
(* module puts the three together: the withdrawal queue of Withdrawal, the *)
(* retention of headers, and the delay and window of a proposal.           *)
(*                                                                         *)
(* The proposals kept here are those of clearNonce that may still execute: *)
(* cancel and expireProposal only make one never execute, and AdminTimelock*)
(* has the records themselves.  Headers are the contract's own.            *)
(***************************************************************************)
EXTENDS Withdrawal, FiniteSets

CONSTANTS
    TimelockTactical,   \* admin.TimelockTactical
    ExpireWindowBlocks, \* admin.ExpireWindowBlocks
    FeedPace,           \* Hive blocks the oracle lets pass between two headers
    MaxProposals        \* bound of this instance

ASSUME TimedClearAssumption ==
    /\ TimelockTactical \in Nat
    /\ ExpireWindowBlocks \in Nat
    /\ FeedPace \in Nat
    /\ MaxProposals \in Nat
    /\ "clearNonce" \notin Ops

\* A proposal's payload names a nonce and a transaction L1 has; queue is its
\* QueueHeight, fed a history field: the newest header stored at that time.
Proposal == [nonce : Nonces, proof : MinedTx, queue : Nat, fed : Nat]

VARIABLES
    proposed,   \* pending clearNonce proposals
    fedAt       \* the Hive height at which the newest header came (external)

tvars == <<vars, proposed, fedAt>>

TInit ==
    /\ Init
    /\ proposed = {}
    /\ fedAt = InitHive

\* The payload is stored unread: neither the proof nor the nonce is checked.
Propose(m, n) ==
    /\ Cardinality(proposed) < MaxProposals
    /\ Submitted(m, [nonce |-> n])
    /\ proposed' = proposed \cup
           {[nonce |-> n, proof |-> m, queue |-> hive, fed |-> lastHeight]}
    /\ UNCHANGED <<vars, fedAt>>

\* mutant: a proposal may be executed as soon as it is stored
MatureEarly(p) ==
    /\ hive >= p.queue
    /\ hive < p.queue + TimelockTactical + ExpireWindowBlocks

\* ExecuteValidated, for the delay of clearNonce.
Mature(p) ==
    /\ hive >= p.queue + TimelockTactical
    /\ hive < p.queue + TimelockTactical + ExpireWindowBlocks

\* mutant: the proof's nonce is not compared with the head's
NamesAny(p, ps) == TRUE

\* verifyL1ProofOfDrop's first check: the proof is about this withdrawal.
Names(p, ps) == p.nonce = ps.nonce

Execute(p) ==
    /\ Mature(p)
    /\ confirmedNonce \in DOMAIN spends
    /\ Names(p, spends[confirmedNonce])
    /\ HandleClearNonce(p.proof)
    /\ proposed' = proposed \ {p}
    /\ UNCHANGED fedAt

\* Everything else, with an oracle that never lets more than FeedPace Hive
\* blocks pass without a header.
Lifecycle ==
    /\ Next
    /\ fedAt' = IF lastHeight' = lastHeight THEN fedAt ELSE hive
    /\ hive' <= fedAt' + FeedPace
    /\ UNCHANGED proposed

TNext ==
    \/ \E m \in Included, n \in Nonces : Propose(m, n)
    \/ \E p \in proposed : Execute(p)
    \/ Lifecycle

TSpec == TInit /\ [][TNext]_tvars
-----------------------------------------------------------------------------
(***************************************************************************)
(* Properties.                                                             *)
(***************************************************************************)
\* "The bot MUST NOT supply a header that has not been ingested" (types.go),
\* but a proof against a header that was stored when it was proposed never
\* clears a nonce: by the time the proposal may execute, a feed that keeps its
\* pace has pruned the header.
NoClearByKnownHeader ==
    [][\A p \in proposed : Execute(p) => p.proof.height > p.fed]_tvars

\* The lifecycle of Withdrawal with clearNonce callable at any time.
Untimed == INSTANCE Withdrawal WITH Ops <- Ops \cup {"clearNonce"}

\* Holding clearNonce back for a day, while the queue moves on, adds nothing to
\* what Withdrawal allows: a proposal that outlives its withdrawal does not
\* refund a later one on evidence about an earlier nonce.  So what holds of
\* Withdrawal holds of its composition with the timelock.
ImplementsUntimed == Untimed!Spec
=============================================================================
