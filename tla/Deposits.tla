------------------------------ MODULE Deposits ------------------------------
(***************************************************************************)
(* Deposits: a caller proves an L1 payment to the vault against a stored   *)
(* header and the contract credits it, to an account or through the DEX    *)
(* router (HandleMap, routeDeposit, VerifyETHDeposit, VerifyERC20Deposit,  *)
(* MarkObserved in contract/mapping), over the header store and the ledger.*)
(*                                                                         *)
(* A Merkle proof shows that an item is in the header's content, and a     *)
(* signature or a Transfer log who sent it.  The router is external: its   *)
(* call fails, or moves as much of the deposit as it likes; unless         *)
(* RouterAtomic, it may do both, and may map the same deposit from within  *)
(* the call, before the outer map has marked it.  Timelocks are left to    *)
(* AdminTimelock: an admin action may run whenever not paused.             *)
(***************************************************************************)
EXTENDS Ledger, Headers

CONSTANTS
    Items,          \* L1 payments and logs, see Item
    Addresses,      \* L1 addresses
    ZeroAddr,       \* the zero address; vault() when none is configured
    VaultChoices,   \* addresses the admin may give setVault
    Self, Router, NoRouter, \* the contract's own account; the router's; none
    Relayers,       \* accounts registerRelayer may name
    TaxBps,         \* constants.GasReserveDepositTaxBps
    SwapAssets,     \* assets for which depositors ask for a swap
    RouterAtomic,   \* a router call that returns nothing left nothing, and none calls map
    IsTestnet,      \* IsTestnetKey
    BlocksAt,       \* contents an L1 block of each height may have
    MaxHeight, MaxCredits \* bounds of this instance: heights, and credits of a record

\* hash and index identify an item in its block: the transaction's hash and
\* position, or the receipt's hash and the log's position.  asset is Eth for a
\* payment, else the token whose contract logged the transfer.
Item == [hash : Nat, index : Nat, asset : Assets, from : Addresses, to : Addresses,
         amount : Nat, chain : Chains]

ASSUME DepositsAssumption ==
    /\ Items \subseteq Item
    /\ Contents \subseteq SUBSET Items
    /\ ZeroAddr \in Addresses
    /\ VaultChoices \subseteq Addresses
    /\ {Self, Router} \subseteq Accounts
    /\ Self # Router
    /\ NoRouter \notin Accounts
    /\ Relayers \subseteq Accounts
    /\ TaxBps \in 0..10000
    /\ {IsTestnet, RouterAtomic} \subseteq BOOLEAN
    /\ MaxHeight \in Nat
    /\ MaxCredits \in Nat
    /\ BlocksAt \in [1..MaxHeight -> SUBSET Contents]

VARIABLES
    vault,      \* VaultAddressKey
    relayers,   \* the relayer registry
    registered, \* the token registry; a token stands for its symbol
    router,     \* RouterContractIdKey
    credits     \* history: how often each [height, content, item] was credited

settingVars == <<vault, relayers, registered, router>>
vars == <<ledgerVars, headerVars, settingVars, credits>>

Init ==
    /\ LedgerInit
    /\ HeadersInit
    /\ vault = ZeroAddr
    /\ relayers = {}
    /\ registered = {}
    /\ router = NoRouter
    /\ credits = << >>

(***************************************************************************)
(* Verification.                                                           *)
(***************************************************************************)
Slot(h, item) == [height |-> h, hash |-> item.hash, index |-> item.index]

\* mutant: an item already observed is verified again
VerifyETHDepositAgain(h, item) ==
    /\ HasHeader(h)
    /\ item \in GetHeader(h).content
    /\ item.asset = Eth
    /\ item.chain = ChainId
    /\ item.to = vault
    /\ item.from # ZeroAddr

VerifyETHDeposit(h, item) ==
    /\ HasHeader(h)
    /\ item \in GetHeader(h).content
    /\ Slot(h, item) \notin observed
    /\ item.asset = Eth
    /\ item.chain = ChainId
    /\ item.to = vault
    /\ item.from # ZeroAddr

\* A receipt names no chain: the header's chain id stands in.
VerifyERC20Deposit(h, item) ==
    /\ HasHeader(h)
    /\ GetHeader(h).chain = ChainId
    /\ item \in GetHeader(h).content
    /\ Slot(h, item) \notin observed
    /\ item.asset \in registered
    /\ item.to = vault
    /\ item.from # ZeroAddr

(***************************************************************************)
(* Routing and booking.                                                    *)
(***************************************************************************)
\* mutant: the basis points are not divided by 10000
GasTaxUnscaled(amount) == amount * TaxBps

GasTax(amount) == (amount * TaxBps) \div 10000

\* mutant: the tax counts as credited to the user as well
TrackDepositGross(a, user, fee) ==
    [supply EXCEPT ![a] = [Active |-> supply[a].Active + user + fee,
                           User   |-> supply[a].User + user + fee,
                           Fee    |-> supply[a].Fee + fee]]

TrackDeposit(a, user, fee) ==
    [supply EXCEPT ![a] = [Active |-> supply[a].Active + user + fee,
                           User   |-> supply[a].User + user,
                           Fee    |-> supply[a].Fee + fee]]

\* mutant: the entry is made under the height's predecessor
MarkObservedElsewhere(h, item) == observed \cup {Slot(h - 1, item)}

MarkObserved(h, item) == observed \cup {Slot(h, item)}

Credited(h, item, times) ==
    LET r == [height |-> h, content |-> GetHeader(h).content, item |-> item]
        old == IF r \in DOMAIN credits THEN credits[r] ELSE 0
    IN  [k \in DOMAIN credits \cup {r} |-> IF k = r THEN old + times ELSE credits[k]]

\* No swap was asked for, or no router is registered.
Routed(dest, a, amount) ==
    /\ bal' = IncBalance(bal, dest, a, amount)
    /\ UNCHANGED allow

\* The swap branch of routeDeposit: the contract's own account is credited with
\* the whole amount, and the router, allowed that much, took part of it.
Called(b, a, gross, taken) == IncBalance(IncBalance(b, Self, a, gross - taken), Router, a, taken)

\* The own credit is reversed; DecBalance's refusal is not looked at.
Reversed(b, a, gross) == IF b[<<Self, a>>] >= gross THEN DecBalance(b, Self, a, gross) ELSE b

\* mutant: a failed swap is reversed and the depositor credited with nothing
RefundedNot(b, dest, a, gross, net, taken) == Reversed(Called(b, a, gross, taken), a, gross)

\* The call returned nothing: the depositor is credited after all.
Refunded(b, dest, a, gross, net, taken) ==
    IncBalance(Reversed(Called(b, a, gross, taken), a, gross), dest, a, net)

\* What the swap branch may make of balances b; net is what a refund credits.
SwapOutcome(b, a, gross, net) ==
    /\ a \in SwapAssets
    /\ router # NoRouter
    /\ \/ \E taken \in 0..gross : bal' = Called(b, a, gross, taken)
       \/ \E dest \in Accounts : \E taken \in (IF RouterAtomic THEN {0} ELSE 0..gross) :
             bal' = Refunded(b, dest, a, gross, net, taken)
    /\ allow' = SetAllowance(Self, Router, a, 0)

\* A deposit routed that many times, taxed and booked after each.
Book(h, item, net, times) ==
    /\ reserve' = addGasReserve(times * (item.amount - net))
    /\ supply' = TrackDeposit(item.asset, times * net, times * (item.amount - net))
    /\ observed' = MarkObserved(h, item)
    /\ credits' = Credited(h, item, times)

\* mutant: the whole amount is booked for the user and the tax on top of it
RouteAndBookUntaxed(h, item, net) ==
    /\ \E dest \in Accounts : Routed(dest, item.asset, item.amount)
    /\ reserve' = addGasReserve(item.amount - net)
    /\ supply' = TrackDeposit(item.asset, item.amount, item.amount - net)
    /\ observed' = MarkObserved(h, item)
    /\ credits' = Credited(h, item, 1)

\* The router maps the item to an account before its call returns: the slot is
\* open until the outer map marks it.  What it does once, it could do again.
RouteAndBookTwice(h, item, net) ==
    /\ ~RouterAtomic
    /\ item.asset = Eth => Router \in relayers
    /\ \E dest \in Accounts :
          SwapOutcome(IncBalance(bal, dest, item.asset, net), item.asset, item.amount, net)
    /\ Book(h, item, net, 2)

\* What HandleMap does with a verified item; net is the amount less the tax,
\* dest the account of deposit_to or the sender's DID.
\* A swap gets the whole amount: the tax is computed after routeDeposit.
RouteAndBook(h, item, net) ==
    \/ /\ \/ \E dest \in Accounts : Routed(dest, item.asset, net)
          \/ SwapOutcome(bal, item.asset, item.amount, net)
       /\ Book(h, item, net, 1)
    \/ RouteAndBookTwice(h, item, net)

MayMap ==
    /\ ~paused
    /\ vault # ZeroAddr

\* The native asset needs a registered relayer, and pays the gas reserve.
MapETH(c, h, item) ==
    /\ MayMap
    /\ c \in relayers
    /\ VerifyETHDeposit(h, item)
    /\ item.amount > 0
    /\ RouteAndBook(h, item, item.amount - GasTax(item.amount))
    /\ UNCHANGED <<paused, own, ownLast, verifier, remote, seed, settingVars>>

\* Anyone may bring a token deposit.
MapERC20(h, item) ==
    /\ MayMap
    /\ VerifyERC20Deposit(h, item)
    /\ item.amount > 0
    /\ RouteAndBook(h, item, item.amount)
    /\ UNCHANGED <<paused, own, ownLast, verifier, remote, seed, settingVars>>

(***************************************************************************)
(* Administration and feed.                                                *)
(***************************************************************************)
\* dispatchAdmin runs these on a contract that is not paused.
Admin(op) == op \in Ops /\ ~paused

SetVault(v) ==
    /\ Admin("setVault")
    /\ vault' = v
    /\ UNCHANGED <<ledgerVars, headerVars, relayers, registered, router, credits>>

RegisterRelayer(r) ==
    /\ Admin("registerRelayer")
    /\ relayers' = relayers \cup {r}
    /\ UNCHANGED <<ledgerVars, headerVars, vault, registered, router, credits>>

DeregisterRelayer(r) ==
    /\ Admin("deregisterRelayer")
    /\ relayers' = relayers \ {r}
    /\ UNCHANGED <<ledgerVars, headerVars, vault, registered, router, credits>>

RegisterToken(t) ==
    /\ Admin("registerToken")
    /\ registered' = registered \cup {t}
    /\ UNCHANGED <<ledgerVars, headerVars, vault, relayers, router, credits>>

RegisterRouter(r) ==
    /\ Admin("registerRouter")
    /\ router' = r
    /\ UNCHANGED <<ledgerVars, headerVars, vault, relayers, registered, credits>>

Configure ==
    \/ \E v \in VaultChoices : SetVault(v)
    \/ \E r \in Relayers : RegisterRelayer(r) \/ DeregisterRelayer(r)
    \/ \E t \in Tokens : RegisterToken(t)
    \/ \E r \in {Router, NoRouter} : RegisterRouter(r)

\* The part of HandleClearTestnetState that is about deposits: the observed
\* lists of the last 2 * Retention heights go.
ClearTestnetState ==
    /\ Admin("clearTestnetState")
    /\ IsTestnet
    /\ observed' = {o \in observed :
                      o.height > GetLastHeight \/ o.height + 2 * Retention < GetLastHeight}
    /\ UNCHANGED <<ledgerVars, own, ownLast, verifier, remote, seed, settingVars, credits>>

\* addBlocks is not gated by the pause; MaxHeight bounds the instance.
HeaderOp ==
    /\ \E h \in 1..MaxHeight, chain \in Chains :
        \E content \in BlocksAt[h], parent \in Contents :
            \/ /\ "addBlocks" \in Ops
               /\ h = GetLastHeight + 1
               /\ \E c \in Callers : AddBlocks(c, content, chain, parent)
            \/ Admin("seedBlocks") /\ SeedBlock(h, content, chain)
            \/ Admin("replaceBlock") /\ ReplaceBlock(h, content, chain, parent)
            \/ /\ "verifierStores" \in Ops
               /\ \E v \in Verifiers : VerifierStores(v, h, content, chain)
    /\ UNCHANGED <<ledgerVars, settingVars, credits>>

SetVerifier ==
    /\ Admin("setVerifierContract")
    /\ \E v \in Verifiers : SetVerifierContract(v)
    /\ UNCHANGED <<ledgerVars, settingVars, credits>>

MapOp ==
    \E h \in 1..MaxHeight, item \in Items :
        /\ \A r \in DOMAIN credits : credits[r] < MaxCredits
        /\ \/ \E c \in Callers : MapETH(c, h, item)
           \/ MapERC20(h, item)

LedgerOp ==
    /\ UserOp \/ Pause \/ Unpause
    /\ UNCHANGED <<headerVars, settingVars, credits>>

Next == MapOp \/ HeaderOp \/ SetVerifier \/ Configure \/ ClearTestnetState \/ LedgerOp

Spec == Init /\ [][Next]_vars

(***************************************************************************)
(* Properties.                                                             *)
(***************************************************************************)
CreditRecord == [height : Nat, content : Contents, item : Items]

\* The state stays in its types.
TypeOK ==
    /\ LedgerTypeOK
    /\ DOMAIN own \subseteq Nat
    /\ own \in [DOMAIN own -> Header]
    /\ ownLast \in Nat
    /\ verifier \in Verifiers \cup {NoVerifier}
    /\ DOMAIN remote = Verifiers
    /\ \A v \in Verifiers :
          /\ remote[v].last \in Nat
          /\ DOMAIN remote[v].headers \subseteq Nat
          /\ remote[v].headers \in [DOMAIN remote[v].headers -> Header]
    /\ observed \subseteq [height : Nat, hash : Nat, index : Nat]
    /\ seed \in Nat
    /\ vault \in Addresses
    /\ relayers \subseteq Relayers
    /\ registered \subseteq Tokens
    /\ router \in {Router, NoRouter}
    /\ DOMAIN credits \subseteq CreditRecord
    /\ credits \in [DOMAIN credits -> Nat]

\* An entry of an observed list stands for a credit: no deposit is shut out by
\* an entry burnt without one.
ObservedIsCredited ==
    \A o \in observed : \E r \in DOMAIN credits : o = Slot(r.height, r.item)

\* An L1 deposit is credited at most once, whatever happens to its header.
CreditedOnce ==
    \A r, q \in DOMAIN credits : r.item = q.item => r = q /\ credits[r] = 1

\* While the contract reads its own headers, a height whose header was changed
\* holds no entry made against the old one (blocks.go:360, HIGH #9).
StaleEntriesForgotten ==
    [][verifier = NoVerifier =>
          \A h \in DOMAIN own \cap DOMAIN own' :
              own'[h].content # own[h].content => \A o \in observed' : o.height # h]_vars
=============================================================================
