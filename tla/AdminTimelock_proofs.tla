------------------------ MODULE AdminTimelock_proofs ------------------------
(***************************************************************************)
(* Proofs about the administration, for every set of accounts, number of   *)
(* proposals and choice of delays.                                         *)
(***************************************************************************)
EXTENDS AdminTimelock, TLAPS

(***************************************************************************)
(* Lemmas about the operators.                                             *)
(***************************************************************************)
\* TimelockFor gives every action a delay.
LEMMA TimelockType == ASSUME NEW action \in Actions PROVE TimelockFor(action) \in Nat
BY AdminAssumption DEF TimelockFor

\* A dispatched action leaves a well-formed configuration.
LEMMA EffectType ==
    ASSUME NEW action \in Actions, NEW payload \in Payloads, NEW s \in Settings,
           Dispatches(action, payload, s)
    PROVE  Effect(action, payload, s) \in Settings
<1>1. payload = Empty \/ payload \in Values
  BY DEF Payloads
<1>2. action \in {"registerRelayer", "deregisterRelayer"} => payload \in Values
  BY <1>1 DEF Dispatches
<1> QED
  BY <1>2 DEF Effect, Settings

\* Storing a proposal under the next id extends the ids by that one.
LEMMA StoreNew ==
    ASSUME TypeOK, NEW pp \in PendingProposal
    PROVE  /\ StoreProposal(nextId, pp) \in [1..nextId -> PendingProposal]
           /\ StoreProposal(nextId, pp)[nextId] = pp
           /\ nextId \notin DOMAIN proposals
           /\ \A i \in DOMAIN proposals : StoreProposal(nextId, pp)[i] = proposals[i]
<1>1. DOMAIN proposals \cup {nextId} = 1..nextId
  BY DEF TypeOK
<1> QED
  BY <1>1 DEF StoreProposal, TypeOK

\* Resolving a pending proposal changes its status and nothing else.
LEMMA ResolveOne ==
    ASSUME TypeOK, NEW id \in DOMAIN proposals, NEW status \in Statuses
    PROVE  /\ Resolve(id, status) \in [1..(nextId - 1) -> PendingProposal]
           /\ Resolve(id, status)[id] = [proposals[id] EXCEPT !.status = status]
           /\ \A i \in DOMAIN proposals : i # id => Resolve(id, status)[i] = proposals[i]
<1>1. DOMAIN proposals \cup {id} = 1..(nextId - 1)
  BY DEF TypeOK
<1>2. [proposals[id] EXCEPT !.status = status] \in PendingProposal
  BY DEF TypeOK, PendingProposal
<1> QED
  BY <1>1, <1>2 DEF Resolve, StoreProposal, TypeOK

(***************************************************************************)
(* The inductive invariant.  EnactedOnce needs the types, for the ids in   *)
(* use; the refinement needs that a stored proposal's heights are those    *)
(* its class gives it.                                                     *)
(***************************************************************************)
HeightsOfClass ==
    \A id \in DOMAIN proposals :
        /\ proposals[id].exec = proposals[id].queue + TimelockFor(proposals[id].action)
        /\ proposals[id].expire = proposals[id].exec + ExpireWindowBlocks

IInv == TypeOK /\ EnactedOnce /\ HeightsOfClass

\* The initial state satisfies the invariant.
LEMMA IInvInit == Init => IInv
<1> SUFFICES ASSUME Init PROVE IInv
  OBVIOUS
<1>1. settings \in Settings
  BY DEF Init, Unset, Settings, Payloads
<1>2. 1..(nextId - 1) = {} /\ DOMAIN proposals = {} /\ DOMAIN enacted = {}
  BY DEF Init
<1>3. proposals \in [{} -> PendingProposal] /\ enacted \in [{} -> Nat]
  BY DEF Init
<1>4. nextId \in Nat \ {0} /\ hive \in Nat
  BY DEF Init
<1>5. initialized \in BOOLEAN /\ testnet \in BOOLEAN /\ seeded \in BOOLEAN
  BY DEF Init
<1>6. TypeOK
  BY <1>1, <1>2, <1>3, <1>4, <1>5 DEF TypeOK
<1> QED
  BY <1>2, <1>6 DEF IInv, EnactedOnce, HeightsOfClass

\* A new proposal is pending, under an id nothing was dispatched for.
LEMMA ProposeStep ==
    ASSUME IInv, NEW c \in Callers, NEW action \in Actions, NEW payload \in Payloads,
           Propose(c, action, payload)
    PROVE  IInv'
<1> DEFINE pp == NewProposal(action, payload)
<1>1. TimelockFor(action) \in Nat /\ hive \in Nat /\ ExpireWindowBlocks \in Nat
  BY TimelockType, AdminAssumption DEF IInv, TypeOK
<1>2. pp \in PendingProposal
  BY <1>1 DEF NewProposal, PendingProposal, Statuses
<1>3. /\ proposals' = StoreProposal(nextId, pp)
      /\ nextId' = nextId + 1
      /\ UNCHANGED <<settings, initialized, testnet, seeded, hive, enacted>>
  BY DEF Propose, nextProposalId
<1> HIDE DEF pp
<1>4. /\ proposals' \in [1..nextId -> PendingProposal]
      /\ proposals'[nextId] = pp
      /\ nextId \notin DOMAIN proposals
      /\ \A i \in DOMAIN proposals : proposals'[i] = proposals[i]
  BY <1>2, <1>3, StoreNew DEF IInv
<1>5. 1..(nextId' - 1) = 1..nextId /\ 1..nextId = DOMAIN proposals \cup {nextId}
  BY <1>3 DEF IInv, TypeOK
<1>6. TypeOK'
  BY <1>3, <1>4, <1>5 DEF IInv, TypeOK
<1>7. EnactedOnce'
  <2>1. pp.status = "pending"
    BY DEF pp, NewProposal
  <2> QED
    BY <1>3, <1>4, <1>5, <2>1 DEF IInv, EnactedOnce
<1>8. HeightsOfClass'
  <2>1. pp.exec = pp.queue + TimelockFor(pp.action) /\ pp.expire = pp.exec + ExpireWindowBlocks
    BY <1>1 DEF pp, NewProposal
  <2> QED
    BY <1>4, <1>5, <2>1 DEF IInv, HeightsOfClass
<1> QED
  BY <1>6, <1>7, <1>8 DEF IInv

\* Execute dispatches a proposal that was never dispatched before.
LEMMA ExecuteStep ==
    ASSUME IInv, NEW c \in Callers, NEW id \in DOMAIN proposals, Execute(c, id)
    PROVE  IInv'
<1> DEFINE pp == proposals[id]
<1>1. pp \in PendingProposal /\ pp.status = "pending" /\ id \in 1..(nextId - 1)
  BY DEF Execute, Validated, Pending, IInv, TypeOK
<1>2. id \notin DOMAIN enacted
  BY <1>1 DEF IInv, EnactedOnce
<1>3. /\ proposals' = Resolve(id, "accepted")
      /\ settings' = Effect(pp.action, pp.payload, settings)
      /\ enacted' = [i \in DOMAIN enacted \cup {id} |-> IF i = id THEN 1 ELSE enacted[i]]
      /\ UNCHANGED <<nextId, initialized, testnet, hive>>
  BY <1>2 DEF Execute
<1>4. /\ proposals' \in [1..(nextId - 1) -> PendingProposal]
      /\ proposals'[id] = [pp EXCEPT !.status = "accepted"]
      /\ \A i \in DOMAIN proposals : i # id => proposals'[i] = proposals[i]
      /\ DOMAIN proposals' = DOMAIN proposals
  <2>1. "accepted" \in Statuses
    BY DEF Statuses
  <2> QED
    BY <1>3, <2>1, ResolveOne DEF IInv, TypeOK
<1>5. settings' \in Settings
  <2>1. Dispatches(pp.action, pp.payload, settings)
    BY DEF Execute
  <2> QED
    BY <1>1, <1>3, <2>1, EffectType DEF IInv, TypeOK, PendingProposal
<1>6. seeded' \in BOOLEAN
  BY DEF Execute, IInv, TypeOK
<1>7. TypeOK'
  BY <1>1, <1>3, <1>4, <1>5, <1>6 DEF IInv, TypeOK
<1>8. EnactedOnce'
  BY <1>1, <1>2, <1>3, <1>4 DEF IInv, EnactedOnce, PendingProposal
<1>9. HeightsOfClass'
  BY <1>1, <1>4 DEF IInv, HeightsOfClass, PendingProposal
<1> QED
  BY <1>7, <1>8, <1>9 DEF IInv

\* Cancelling or expiring a proposal changes a pending status only.
LEMMA SettleStep ==
    ASSUME IInv, NEW id \in DOMAIN proposals, NEW status \in {"cancelled", "expired"},
           Pending(id), proposals' = Resolve(id, status),
           UNCHANGED <<nextId, settings, initialized, testnet, seeded, hive, enacted>>
    PROVE  IInv'
<1>1. proposals[id] \in PendingProposal /\ proposals[id].status = "pending"
  BY DEF Pending, IInv, TypeOK
<1>2. status \in Statuses
  BY DEF Statuses
<1>3. /\ proposals' \in [1..(nextId - 1) -> PendingProposal]
      /\ proposals'[id] = [proposals[id] EXCEPT !.status = status]
      /\ \A i \in DOMAIN proposals : i # id => proposals'[i] = proposals[i]
      /\ DOMAIN proposals' = DOMAIN proposals
  BY <1>2, ResolveOne DEF IInv, TypeOK
<1>4. TypeOK'
  BY <1>3 DEF IInv, TypeOK
<1>5. EnactedOnce'
  BY <1>1, <1>3 DEF IInv, EnactedOnce, PendingProposal
<1>6. HeightsOfClass'
  BY <1>1, <1>3 DEF IInv, HeightsOfClass, PendingProposal
<1> QED
  BY <1>4, <1>5, <1>6 DEF IInv

\* Every step keeps the invariant.
LEMMA IInvStep == IInv /\ [Next]_vars => IInv'
<1> SUFFICES ASSUME IInv, [Next]_vars PROVE IInv'
  OBVIOUS
<1>1. ASSUME NEW c \in Callers, NEW isTestnet \in BOOLEAN, InitContract(c, isTestnet)
      PROVE  IInv'
  <2>1. settings' \in Settings
    BY <1>1, TimelockAssumption DEF InitContract, IInv, TypeOK, Settings, Payloads
  <2>2. testnet' \in BOOLEAN /\ initialized' \in BOOLEAN
    BY <1>1 DEF InitContract, IInv, TypeOK
  <2> QED
    BY <1>1, <2>1, <2>2 DEF InitContract, IInv, TypeOK, EnactedOnce, HeightsOfClass
<1>2. ASSUME NEW c \in Callers, NEW action \in Proposable, NEW payload \in Payloads,
             Propose(c, action, payload)
      PROVE  IInv'
  BY <1>2, ProposeStep, TimelockAssumption
<1>3. ASSUME NEW c \in Callers, NEW id \in DOMAIN proposals, Execute(c, id)
      PROVE  IInv'
  BY <1>3, ExecuteStep
<1>4. ASSUME NEW c \in Callers, NEW id \in DOMAIN proposals, Cancel(c, id)
      PROVE  IInv'
  BY <1>4, SettleStep DEF Cancel
<1>5. ASSUME NEW id \in DOMAIN proposals, ExpireProposal(id)
      PROVE  IInv'
  BY <1>5, SettleStep DEF ExpireProposal
<1>6. CASE Tick
  BY <1>6 DEF Tick, IInv, TypeOK, EnactedOnce, HeightsOfClass
<1>7. CASE UNCHANGED vars
  BY <1>7 DEF vars, IInv, TypeOK, EnactedOnce, HeightsOfClass
<1> QED
  BY <1>1, <1>2, <1>3, <1>4, <1>5, <1>6, <1>7 DEF Next

\* Every reachable state satisfies the invariant.
LEMMA Invariance == Spec => []IInv
BY IInvInit, IInvStep, PTL DEF Spec

\* Every stored proposal, counter and setting keeps its type.
THEOREM TypeCorrect == Spec => []TypeOK
<1>1. IInv => TypeOK
  BY DEF IInv
<1> QED
  BY <1>1, Invariance, PTL

\* Each accepted proposal was dispatched exactly once, and no other was.
THEOREM DispatchedOnce == Spec => []EnactedOnce
<1>1. IInv => EnactedOnce
  BY DEF IInv
<1> QED
  BY <1>1, Invariance, PTL

(***************************************************************************)
(* Action properties.                                                      *)
(***************************************************************************)
\* What a step does to the stored proposals, by kind of step: nothing, a new
\* one under the next id, or a settled one.
LEMMA ProposalStep ==
    ASSUME IInv, [Next]_vars
    PROVE  \/ UNCHANGED proposals
           \/ \E pp \in PendingProposal : proposals' = StoreProposal(nextId, pp)
           \/ \E id \in DOMAIN proposals, status \in Statuses :
                  Pending(id) /\ proposals' = Resolve(id, status)
<1>1. ASSUME NEW c \in Callers, NEW action \in Proposable, NEW payload \in Payloads,
             Propose(c, action, payload)
      PROVE  \E pp \in PendingProposal : proposals' = StoreProposal(nextId, pp)
  <2>1. action \in Actions
    BY TimelockAssumption
  <2>2. TimelockFor(action) \in Nat /\ hive \in Nat /\ ExpireWindowBlocks \in Nat
    BY <2>1, TimelockType, AdminAssumption DEF IInv, TypeOK
  <2>3. NewProposal(action, payload) \in PendingProposal
    BY <2>1, <2>2 DEF NewProposal, PendingProposal, Statuses
  <2> QED
    BY <1>1, <2>3 DEF Propose
<1>2. ASSUME NEW c \in Callers, NEW id \in DOMAIN proposals, Execute(c, id)
      PROVE  Pending(id) /\ proposals' = Resolve(id, "accepted")
  BY <1>2 DEF Execute, Validated
<1>3. ASSUME NEW c \in Callers, NEW id \in DOMAIN proposals, Cancel(c, id)
      PROVE  Pending(id) /\ proposals' = Resolve(id, "cancelled")
  BY <1>3 DEF Cancel
<1>4. ASSUME NEW id \in DOMAIN proposals, ExpireProposal(id)
      PROVE  Pending(id) /\ proposals' = Resolve(id, "expired")
  BY <1>4 DEF ExpireProposal
<1>5. ASSUME \/ \E c \in Callers, isTestnet \in BOOLEAN : InitContract(c, isTestnet)
             \/ Tick
             \/ UNCHANGED vars
      PROVE  UNCHANGED proposals
  BY <1>5 DEF InitContract, Tick, vars
<1>6. {"accepted", "cancelled", "expired"} \subseteq Statuses
  BY DEF Statuses
<1> QED
  BY <1>1, <1>2, <1>3, <1>4, <1>5, <1>6 DEF Next

\* Proposals are never rewritten, renamed or reopened.
THEOREM RecordsArePermanent == Spec => RecordsPermanent
<1>1. ASSUME IInv, [Next]_vars, NEW i \in DOMAIN proposals
      PROVE  /\ i \in DOMAIN proposals'
             /\ \E status \in Statuses : proposals'[i] = [proposals[i] EXCEPT !.status = status]
             /\ proposals[i].status # "pending" => proposals'[i] = proposals[i]
  <2>1. proposals[i] \in PendingProposal
    BY <1>1 DEF IInv, TypeOK
  <2>2. /\ proposals[i].status \in Statuses
        /\ proposals[i] = [proposals[i] EXCEPT !.status = proposals[i].status]
    BY <2>1 DEF PendingProposal
  <2>3. CASE UNCHANGED proposals
    BY <2>2, <2>3
  <2>4. ASSUME NEW pp \in PendingProposal, proposals' = StoreProposal(nextId, pp)
        PROVE  i \in DOMAIN proposals' /\ proposals'[i] = proposals[i]
    BY <1>1, <2>4, StoreNew DEF IInv, StoreProposal
  <2>5. ASSUME NEW id \in DOMAIN proposals, NEW status \in Statuses,
               Pending(id), proposals' = Resolve(id, status)
        PROVE  /\ i \in DOMAIN proposals'
               /\ i # id => proposals'[i] = proposals[i]
               /\ i = id => /\ proposals'[i] = [proposals[i] EXCEPT !.status = status]
                            /\ proposals[i].status = "pending"
    <3>1. TypeOK
      BY <1>1 DEF IInv
    <3>2. /\ Resolve(id, status) \in [1..(nextId - 1) -> PendingProposal]
          /\ Resolve(id, status)[id] = [proposals[id] EXCEPT !.status = status]
          /\ i # id => Resolve(id, status)[i] = proposals[i]
      BY <1>1, <2>5, <3>1, ResolveOne
    <3>3. i \in 1..(nextId - 1) /\ proposals[id].status = "pending"
      BY <1>1, <2>5, <3>1 DEF TypeOK, Pending
    <3> QED
      BY <2>5, <3>2, <3>3
  <2> QED
    BY <1>1, <2>2, <2>3, <2>4, <2>5, ProposalStep
<1>2. IInv /\ [Next]_vars => KeepsRecords
  BY <1>1 DEF KeepsRecords
<1> QED
  BY <1>2, Invariance, PTL DEF Spec, RecordsPermanent

\* A paused contract keeps its configuration but for the pause switch and a
\* first initialisation.
THEOREM PausedIsFrozen == Spec => PauseFreezes
<1>1. ASSUME IInv, UNCHANGED settings PROVE FrozenByPause
  <2>1. settings.oracle \in Payloads /\ settings.paused \in BOOLEAN
    BY <1>1 DEF IInv, TypeOK, Settings
  <2>2. settings' = [settings EXCEPT !.oracle = settings.oracle, !.paused = settings.paused]
    BY <1>1 DEF IInv, TypeOK, Settings
  <2> QED
    BY <2>1, <2>2 DEF FrozenByPause
<1>2. ASSUME IInv, NEW c \in Callers, NEW isTestnet \in BOOLEAN, InitContract(c, isTestnet)
      PROVE  FrozenByPause
  <2>1. c \in Payloads /\ settings.paused \in BOOLEAN
    BY <1>2, TimelockAssumption DEF IInv, TypeOK, Settings, Payloads
  <2>2. settings' = [settings EXCEPT !.oracle = c, !.paused = settings.paused]
    BY <1>2 DEF InitContract, IInv, TypeOK, Settings
  <2>3. ~initialized /\ initialized'
    BY <1>2 DEF InitContract
  <2> QED
    BY <2>1, <2>2, <2>3 DEF FrozenByPause
<1>3. ASSUME IInv, NEW c \in Callers, NEW id \in DOMAIN proposals, Execute(c, id),
             settings.paused
      PROVE  FrozenByPause
  <2> DEFINE action == proposals[id].action
  <2>1. action \in {"pause", "unpause"}
    BY <1>3 DEF Execute, Dispatches, EmergencyActions
  <2>2. \E p \in BOOLEAN : settings' = [settings EXCEPT !.paused = p]
    BY <1>3, <2>1 DEF Execute, Effect
  <2>3. PICK p \in BOOLEAN : settings' = [settings EXCEPT !.paused = p]
    BY <2>2
  <2>4. settings' = [settings EXCEPT !.oracle = settings.oracle, !.paused = p]
    BY <1>3, <2>3 DEF IInv, TypeOK, Settings
  <2>5. settings.oracle \in Payloads
    BY <1>3 DEF IInv, TypeOK, Settings
  <2> QED
    BY <2>4, <2>5 DEF FrozenByPause
<1>4. IInv /\ [Next]_vars => FrozenByPause
  <2> SUFFICES ASSUME IInv, [Next]_vars PROVE FrozenByPause
    OBVIOUS
  <2>1. ASSUME \/ \E c \in Callers, action \in Proposable, payload \in Payloads :
                      Propose(c, action, payload)
               \/ \E c \in Callers, id \in DOMAIN proposals : Cancel(c, id)
               \/ \E id \in DOMAIN proposals : ExpireProposal(id)
               \/ Tick
               \/ UNCHANGED vars
        PROVE  UNCHANGED settings
    BY <2>1 DEF Propose, Cancel, ExpireProposal, Tick, vars
  <2>2. ASSUME NEW c \in Callers, NEW id \in DOMAIN proposals, Execute(c, id)
        PROVE  FrozenByPause
    BY <1>3, <2>2 DEF FrozenByPause
  <2> QED
    BY <1>1, <1>2, <2>1, <2>2 DEF Next
<1> QED
  BY <1>4, Invariance, PTL DEF Spec, PauseFreezes

(***************************************************************************)
(* The refinement.                                                         *)
(***************************************************************************)
\* Storing a new pending proposal opens one ticket.
LEMMA TicketOpened ==
    ASSUME IInv, NEW pp \in PendingProposal, pp.status = "pending",
           proposals' = StoreProposal(nextId, pp)
    PROVE  Announced' = Announced \cup {Ticket(nextId, pp)}
<1>1. /\ DOMAIN proposals' = DOMAIN proposals \cup {nextId}
      /\ proposals'[nextId] = pp
      /\ nextId \notin DOMAIN proposals
      /\ \A i \in DOMAIN proposals : proposals'[i] = proposals[i]
  BY StoreNew DEF IInv, StoreProposal
<1> QED
  BY <1>1 DEF Announced, Pending, Ticket

\* Settling a proposal closes its ticket and no other.
LEMMA TicketClosed ==
    ASSUME IInv, NEW id \in DOMAIN proposals, Pending(id),
           NEW status \in {"accepted", "cancelled", "expired"},
           proposals' = Resolve(id, status)
    PROVE  /\ Ticket(id, proposals[id]) \in Announced
           /\ Announced' = Announced \ {Ticket(id, proposals[id])}
<1>1. status \in Statuses /\ status # "pending" /\ proposals[id] \in PendingProposal
  BY DEF Statuses, IInv, TypeOK
<1>2. /\ DOMAIN proposals' = DOMAIN proposals
      /\ proposals'[id] = [proposals[id] EXCEPT !.status = status]
      /\ \A i \in DOMAIN proposals : i # id => proposals'[i] = proposals[i]
  BY <1>1, ResolveOne DEF IInv, TypeOK
<1>3. proposals'[id].status # "pending"
  BY <1>1, <1>2 DEF PendingProposal
<1>4. \A i \in DOMAIN proposals : Pending(i)' <=> (i # id /\ Pending(i))
  BY <1>2, <1>3 DEF Pending
<1>5. \A i, k, p, q : Ticket(i, p) = Ticket(k, q) => i = k
  BY DEF Ticket
<1>6. Announced' = {Ticket(i, proposals'[i]) : i \in {k \in DOMAIN proposals : Pending(k)'}}
  BY <1>2 DEF Announced
<1>7. Announced' = {Ticket(i, proposals[i]) :
                       i \in {k \in DOMAIN proposals : k # id /\ Pending(k)}}
  BY <1>2, <1>4, <1>6
<1> QED
  BY <1>5, <1>7 DEF Announced

\* The abstract timelock and the contract share the actions, their delays and
\* their effects.
LEMMA SameActions ==
    /\ AC!Actions = Actions /\ AC!Payloads = Payloads
    /\ \A action : AC!TimelockFor(action) = TimelockFor(action)
    /\ \A action, payload, s : AC!Effect(action, payload, s) = Effect(action, payload, s)
BY DEF Payloads, AC!Payloads, Actions, AC!Actions, FundActions, AC!FundActions, TacticalActions, AC!TacticalActions,
       OperationalActions, AC!OperationalActions, EmergencyActions, AC!EmergencyActions,
       TimelockFor, AC!TimelockFor, Effect, AC!Effect

\* The initial state is one of the abstract timelock's.
LEMMA RefinementInit == Init => AC!Init
BY DEF Init, AC!Init, Announced, Unset, AC!Unset

\* Cancelling and expiring withdraw the ticket.
LEMMA SettledTicket ==
    ASSUME IInv, NEW id \in DOMAIN proposals, NEW status \in {"cancelled", "expired"},
           Pending(id), proposals' = Resolve(id, status),
           UNCHANGED <<settings, initialized, hive>>
    PROVE  \E t \in Announced : AC!Withdraw(t)
<1>1. DOMAIN proposals' = DOMAIN proposals
  BY DEF Resolve, StoreProposal
<1>2. /\ Ticket(id, proposals[id]) \in Announced
      /\ Announced' = Announced \ {Ticket(id, proposals[id])}
  BY TicketClosed
<1> QED
  BY <1>1, <1>2 DEF AC!Withdraw

\* Every step is a step of the abstract timelock, or leaves it as it was.
LEMMA RefinementStep == IInv /\ [Next]_vars => [AC!Next]_(AC!vars)
<1> SUFFICES ASSUME IInv, [Next]_vars PROVE [AC!Next]_(AC!vars)
  OBVIOUS
<1>1. ASSUME NEW c \in Callers, NEW isTestnet \in BOOLEAN, InitContract(c, isTestnet)
      PROVE  AC!Deploy
  <2>1. UNCHANGED Announced
    BY <1>1 DEF InitContract, Announced, Pending
  <2> QED
    BY <1>1, <2>1, TimelockAssumption DEF InitContract, AC!Deploy
<1>2. ASSUME NEW c \in Callers, NEW action \in Proposable, NEW payload \in Payloads,
             Propose(c, action, payload)
      PROVE  AC!Announce(nextId, action, payload) /\ nextId \in 1..MaxProposals
  <2> DEFINE pp == NewProposal(action, payload)
  <2>1. action \in Actions
    BY TimelockAssumption
  <2>2. TimelockFor(action) \in Nat /\ hive \in Nat /\ ExpireWindowBlocks \in Nat
    BY <2>1, TimelockType, AdminAssumption DEF IInv, TypeOK
  <2>3. pp \in PendingProposal /\ pp.status = "pending"
    BY <2>1, <2>2 DEF NewProposal, PendingProposal, Statuses
  <2>4. proposals' = StoreProposal(nextId, pp)
    BY <1>2 DEF Propose
  <2>5. Announced' = Announced \cup {Ticket(nextId, pp)}
    <3> HIDE DEF pp
    <3> QED
      BY <2>3, <2>4, TicketOpened
  <2>6. Ticket(nextId, pp)
          = [id |-> nextId, action |-> action, payload |-> payload, at |-> hive]
    BY DEF Ticket, NewProposal
  <2>7. DOMAIN proposals' = DOMAIN proposals \cup {nextId} /\ nextId \notin DOMAIN proposals
    BY <2>4 DEF StoreProposal, IInv, TypeOK
  <2>8. nextId \in 1..MaxProposals
    BY <1>2, TimelockAssumption DEF Propose, IInv, TypeOK
  <2> QED
    BY <1>2, <2>5, <2>6, <2>7, <2>8 DEF Propose, AC!Announce
<1>3. ASSUME NEW c \in Callers, NEW id \in DOMAIN proposals, Execute(c, id)
      PROVE  \E t \in Announced : AC!Enact(t)
  <2> DEFINE t == Ticket(id, proposals[id])
  <2>1. Pending(id) /\ proposals' = Resolve(id, "accepted")
    BY <1>3 DEF Execute, Validated
  <2>2. t \in Announced /\ Announced' = Announced \ {t}
    BY <1>3, <2>1, TicketClosed
  <2>3. /\ t.action = proposals[id].action
        /\ t.payload = proposals[id].payload
        /\ t.at = proposals[id].queue
    BY DEF Ticket
  <2>4. DOMAIN proposals' = DOMAIN proposals
    BY <2>1 DEF Resolve, StoreProposal
  <2>5. hive >= t.at + TimelockFor(t.action)
    BY <1>3, <2>3 DEF Execute, Validated, IInv, HeightsOfClass
  <2>6. hive < t.at + TimelockFor(t.action) + ExpireWindowBlocks
    BY <1>3, <2>3 DEF Execute, Validated, IInv, HeightsOfClass
  <2>7. settings' = Effect(t.action, t.payload, settings) /\ UNCHANGED <<hive, initialized>>
    BY <1>3, <2>3 DEF Execute
  <2>8. AC!Enact(t)
    BY <2>2, <2>4, <2>5, <2>6, <2>7, SameActions DEF AC!Enact
  <2> QED
    BY <2>2, <2>8
<1>4. ASSUME NEW c \in Callers, NEW id \in DOMAIN proposals, Cancel(c, id)
      PROVE  \E t \in Announced : AC!Withdraw(t)
  BY <1>4, SettledTicket DEF Cancel
<1>5. ASSUME NEW id \in DOMAIN proposals, ExpireProposal(id)
      PROVE  \E t \in Announced : AC!Withdraw(t)
  BY <1>5, SettledTicket DEF ExpireProposal
<1>6. ASSUME Tick PROVE AC!Pass
  BY <1>6 DEF Tick, AC!Pass, Announced, Pending
<1>7. ASSUME UNCHANGED vars PROVE UNCHANGED AC!vars
  BY <1>7 DEF vars, AC!vars, Announced, Pending
<1>8. Proposable \subseteq AC!Actions /\ Payloads = AC!Payloads
  BY TimelockAssumption, SameActions
<1> QED
  BY <1>1, <1>2, <1>3, <1>4, <1>5, <1>6, <1>7, <1>8 DEF Next, AC!Next

\* The configuration changes only by announced tickets: the administration
\* implements the abstract timelock, for every choice of delays.
THEOREM Refines == Spec => ImplementsAnnouncedChange
BY RefinementInit, RefinementStep, Invariance, PTL DEF Spec, ImplementsAnnouncedChange, AC!Spec
=============================================================================
