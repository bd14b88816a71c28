--------------------------- MODULE AdminTimelock ---------------------------
(***************************************************************************)
(* The administration of the mapping contract: the owner proposes an       *)
(* action, executes it once its timelock has elapsed and before it lapses, *)
(* or cancels it; anyone expires it afterwards (contract/admin/            *)
(* proposals.go and the admin entry points of contract/main.go).           *)
(* initContract, once, and addBlocks (module Deposits) are the privileged  *)
(* calls outside the timelock.                                             *)
(*                                                                         *)
(* A call that aborts is rolled back by the host, the status written before*)
(* dispatchAdmin runs included: an error path is a disabled action.        *)
(***************************************************************************)
EXTENDS AdminActions

CONSTANTS
    Owner,          \* contract.owner, fixed by the host
    Callers,        \* accounts that call
    Proposable,     \* actions the owner proposes in this instance
    MaxProposals, MaxHive \* bounds of this instance

ASSUME TimelockAssumption ==
    /\ Owner \in Callers
    /\ Callers \subseteq Values
    /\ Proposable \subseteq Actions
    /\ MaxProposals \in Nat
    /\ MaxHive \in Nat

Statuses == {"pending", "accepted", "cancelled", "expired"}

PendingProposal ==
    [action : Actions, payload : Payloads, queue : Nat, exec : Nat, expire : Nat,
     status : Statuses]

VARIABLES
    nextId,     \* KeyProposalCounter, read as 1 before the first proposal
    proposals,  \* stored PendingProposal of each id
    settings,   \* the configuration keys
    initialized, \* InitMarkerKey
    testnet,    \* IsTestnetKey
    seeded,     \* whether the contract's own LastHeightKey is above 0
    hive,       \* env.BlockHeight (external)
    enacted     \* history: how often each proposal was dispatched; never read

vars == <<nextId, proposals, settings, initialized, testnet, seeded, hive, enacted>>

Init ==
    /\ nextId = 1
    /\ proposals = << >>
    /\ settings = Unset
    /\ initialized = FALSE
    /\ testnet = FALSE
    /\ seeded = FALSE
    /\ hive = 0
    /\ enacted = << >>

\* LoadProposal finds it and it is still open.
Pending(id) == id \in DOMAIN proposals /\ proposals[id].status = "pending"

\* mutant: the counter is not written back
nextProposalIdKept == nextId

nextProposalId == nextId + 1

NewProposal(action, payload) ==
    [action |-> action, payload |-> payload, queue |-> hive,
     exec |-> hive + TimelockFor(action),
     expire |-> hive + TimelockFor(action) + ExpireWindowBlocks,
     status |-> "pending"]

StoreProposal(id, pp) ==
    [i \in DOMAIN proposals \cup {id} |-> IF i = id THEN pp ELSE proposals[i]]

\* mutant: the changed status is not stored
ResolveUnstored(id, status) == proposals

\* The status the proposal is stored with once it leaves "pending".
Resolve(id, status) == StoreProposal(id, [proposals[id] EXCEPT !.status = status])

(***************************************************************************)
(* The calls.                                                              *)
(***************************************************************************)
InitContract(c, isTestnet) ==
    /\ ~initialized
    /\ c = Owner
    /\ initialized' = TRUE
    /\ settings' = [settings EXCEPT !.oracle = c]
    /\ testnet' = (testnet \/ isTestnet)
    /\ UNCHANGED <<nextId, proposals, seeded, hive, enacted>>

\* MaxProposals and MaxHive bound the instance: the clock runs long enough for
\* every proposal to lapse.
Propose(c, action, payload) ==
    /\ c = Owner
    /\ nextId <= MaxProposals
    /\ hive + TimelockFor(action) + ExpireWindowBlocks <= MaxHive
    /\ proposals' = StoreProposal(nextId, NewProposal(action, payload))
    /\ nextId' = nextProposalId
    /\ UNCHANGED <<settings, initialized, testnet, seeded, hive, enacted>>

\* mutant: the timelock is not compared with the height
ValidatedEarly(id) ==
    /\ Pending(id)
    /\ hive < proposals[id].expire

\* mutant: a stored proposal may execute whatever its status
ValidatedAgain(id) ==
    /\ id \in DOMAIN proposals
    /\ hive >= proposals[id].exec
    /\ hive < proposals[id].expire

\* ExecuteValidated.
Validated(id) ==
    /\ Pending(id)
    /\ hive >= proposals[id].exec
    /\ hive < proposals[id].expire

\* What the handlers behind dispatchAdmin refuse by the state kept here.  With
\* a verifier the last height is the verifier's, which may be 0.
HandlerAccepts(action) ==
    /\ action = "seedBlocks" /\ settings.verifier = Empty => ~seeded
    /\ action = "clearTestnetState" => testnet

Execute(c, id) ==
    LET pp == proposals[id]
    IN  /\ c = Owner
        /\ Validated(id)
        /\ Dispatches(pp.action, pp.payload, settings)
        /\ HandlerAccepts(pp.action)
        /\ proposals' = Resolve(id, "accepted")
        /\ settings' = Effect(pp.action, pp.payload, settings)
        /\ seeded' = (seeded \/ pp.action = "seedBlocks")
        /\ enacted' = [i \in DOMAIN enacted \cup {id} |->
                          IF i = id THEN IF id \in DOMAIN enacted THEN enacted[id] + 1 ELSE 1
                          ELSE enacted[i]]
        /\ UNCHANGED <<nextId, initialized, testnet, hive>>

Cancel(c, id) ==
    /\ c = Owner
    /\ Pending(id)
    /\ proposals' = Resolve(id, "cancelled")
    /\ UNCHANGED <<nextId, settings, initialized, testnet, seeded, hive, enacted>>

\* Anyone may call it.
ExpireProposal(id) ==
    /\ Pending(id)
    /\ hive >= proposals[id].expire
    /\ proposals' = Resolve(id, "expired")
    /\ UNCHANGED <<nextId, settings, initialized, testnet, seeded, hive, enacted>>

Tick ==
    /\ hive < MaxHive
    /\ hive' = hive + 1
    /\ UNCHANGED <<nextId, proposals, settings, initialized, testnet, seeded, enacted>>

Next ==
    \/ \E c \in Callers :
        \/ \E isTestnet \in BOOLEAN : InitContract(c, isTestnet)
        \/ \E action \in Proposable, payload \in Payloads : Propose(c, action, payload)
        \/ \E id \in DOMAIN proposals : Execute(c, id) \/ Cancel(c, id)
    \/ \E id \in DOMAIN proposals : ExpireProposal(id)
    \/ Tick

Spec == Init /\ [][Next]_vars

\* Hive blocks keep coming, and someone expires what has lapsed: the call is
\* open to anyone.  Nothing makes the owner execute or cancel.
Fairness ==
    /\ WF_vars(Tick)
    /\ \A id \in 1..MaxProposals : WF_vars(ExpireProposal(id))

FairSpec == Spec /\ Fairness

(***************************************************************************)
(* Properties.                                                             *)
(***************************************************************************)
\* The state stays in its types, and the ids in use are 1 to nextId - 1.
TypeOK ==
    /\ nextId \in Nat \ {0}
    /\ DOMAIN proposals = 1..(nextId - 1)
    /\ proposals \in [1..(nextId - 1) -> PendingProposal]
    /\ settings \in Settings
    /\ initialized \in BOOLEAN
    /\ testnet \in BOOLEAN
    /\ seeded \in BOOLEAN
    /\ hive \in Nat
    /\ DOMAIN enacted \subseteq 1..(nextId - 1)
    /\ enacted \in [DOMAIN enacted -> Nat]

\* Every dispatch is of an accepted proposal, every accepted proposal was
\* dispatched, and none twice: a call to execute that finds the proposal
\* settled leaves no trace, whatever the order of execute, cancel and expire.
EnactedOnce ==
    /\ DOMAIN enacted = {id \in DOMAIN proposals : proposals[id].status = "accepted"}
    /\ \A id \in DOMAIN enacted : enacted[id] = 1

\* A stored proposal is for good: its action, payload and heights never
\* change, no later proposal takes its id, and a status other than pending is
\* final.
KeepsRecords ==
    \A id \in DOMAIN proposals :
        /\ id \in DOMAIN proposals'
        /\ \E status \in Statuses : proposals'[id] = [proposals[id] EXCEPT !.status = status]
        /\ proposals[id].status # "pending" => proposals'[id] = proposals[id]

RecordsPermanent == [][KeepsRecords]_vars

\* A paused contract keeps its configuration: a matured change waits for
\* unpause or lapses, and only the pause switch itself and the oracle account
\* of a first initContract are written meanwhile.
FrozenByPause ==
    settings.paused =>
        \E o \in Payloads, p \in BOOLEAN :
            /\ settings' = [settings EXCEPT !.oracle = o, !.paused = p]
            /\ o # settings.oracle => ~initialized /\ initialized'

PauseFreezes == [][FrozenByPause]_vars

\* The open ticket a pending proposal stands for.
Ticket(id, pp) == [id |-> id, action |-> pp.action, payload |-> pp.payload, at |-> pp.queue]
Announced == {Ticket(id, proposals[id]) : id \in {i \in DOMAIN proposals : Pending(i)}}

AC == INSTANCE AnnouncedChange
          WITH now <- hive, open <- Announced, spent <- DOMAIN proposals,
               deployed <- initialized, Tickets <- 1..MaxProposals

\* The configuration changes only by what was announced: the contract
\* implements the abstract timelock, a pending proposal being an open ticket.
ImplementsAnnouncedChange == AC!Spec

\* A proposal does not stay open: the owner settles it, or it lapses and
\* anyone can expire it, on a paused contract too.
EveryProposalResolves ==
    \A id \in 1..MaxProposals : Pending(id) ~> (id \in DOMAIN proposals /\ ~Pending(id))
=============================================================================
