------------------------------ MODULE Headers ------------------------------
(***************************************************************************)
(* The L1 block headers the contract keeps (contract/blocklist/blocks.go), *)
(* fed one after the other by the oracle and pruned behind the tip, or read*)
(* from a ZK verifier contract once one is configured; and the observed    *)
(* list of each height, which blocks.go and mapping/observed.go share.     *)
(*                                                                         *)
(* A header is what it commits to: the items its transaction and receipt   *)
(* roots admit proofs of, and its chain id.  Its hash is the header itself.*)
(***************************************************************************)
EXTENDS Integers

CONSTANTS
    Contents,       \* what a block may commit to
    NoParent,       \* the parent of a seed
    ChainId,        \* chainId()
    Chains,         \* chain ids an entry may name
    Verifiers,      \* ids of ZK verifier contracts
    NoVerifier,     \* VerifierContractIdKey unset
    Retention,      \* constants.MaxBlockRetention
    Feeders         \* accounts checkOracleAccount lets through: owner, oracle

ASSUME HeadersAssumption ==
    /\ ChainId \in Chains
    /\ Retention \in Nat \ {0}
    /\ NoVerifier \notin Verifiers

\* parent is a history field: what the entry named as its parent.  Serialize
\* does not hold it.
Header == [content : Contents, chain : Chains, parent : Contents \cup {NoParent}]

VARIABLES
    own,        \* the contract's own headers, by height
    ownLast,    \* LastHeightKey, 0 when unset
    verifier,   \* VerifierContractIdKey
    remote,     \* each verifier's [last, headers] (external)
    observed,   \* entries [height, hash, index] of the observed lists
    seed        \* history: height of the last seed, 0 before; never read

headerVars == <<own, ownLast, verifier, remote, observed, seed>>

(***************************************************************************)
(* Reading: readState goes to the verifier when there is one.              *)
(***************************************************************************)
Headers == IF verifier = NoVerifier THEN own ELSE remote[verifier].headers
GetLastHeight == IF verifier = NoVerifier THEN ownLast ELSE remote[verifier].last
HasHeader(h) == h \in DOMAIN Headers
GetHeader(h) == Headers[h]

With(headers, h, header) == [k \in DOMAIN headers \cup {h} |-> IF k = h THEN header ELSE headers[k]]
Without(headers, h) == [k \in DOMAIN headers \ {h} |-> headers[k]]

\* mutant: the prune distance is off by one
StoreAndPruneEarly(h, header) ==
    IF h > Retention THEN Without(With(own, h, header), h - Retention + 1)
    ELSE With(own, h, header)

\* StoreHeader, and the one DeleteHeader behind it; both act on own state.
StoreAndPrune(h, header) ==
    IF h > Retention THEN Without(With(own, h, header), h - Retention)
    ELSE With(own, h, header)

(***************************************************************************)
(* Writing.                                                                *)
(***************************************************************************)
HeadersInit ==
    /\ own = << >>
    /\ ownLast = 0
    /\ verifier = NoVerifier
    /\ remote = [v \in Verifiers |-> [last |-> 0, headers |-> << >>]]
    /\ observed = {}
    /\ seed = 0

\* mutant: the parent hash is not compared
ChainsToAny(parent, h) == TRUE

\* The check that an entry's parent_hash is the hash of the previous tip.
ChainsTo(parent, h) == parent = GetHeader(h).content

\* One entry; a list of entries leaves what one call per entry leaves, since
\* each is checked against the header stored just before it.
AddBlocks(c, content, chain, parent) ==
    LET last == GetLastHeight
    IN  /\ c \in Feeders
        /\ last > 0
        /\ chain = ChainId
        /\ HasHeader(last)
        /\ ChainsTo(parent, last)
        /\ own' = StoreAndPrune(last + 1, [content |-> content, chain |-> chain, parent |-> parent])
        /\ ownLast' = last + 1
        /\ UNCHANGED <<verifier, remote, observed, seed>>

SeedBlock(h, content, chain) ==
    /\ GetLastHeight = 0
    /\ h > 0
    /\ chain = ChainId
    /\ own' = With(own, h, [content |-> content, chain |-> chain, parent |-> NoParent])
    /\ ownLast' = h
    /\ seed' = h
    /\ UNCHANGED <<verifier, remote, observed>>

\* mutant: the observed list of the height is kept
KeepObserved(h) == observed

ForgetObserved(h) == {o \in observed : o.height # h}

\* The entry's parent_hash is not looked at.
ReplaceBlock(h, content, chain, parent) ==
    /\ HasHeader(h)
    /\ chain = ChainId
    /\ GetHeader(h).chain = chain
    /\ own' = With(own, h, [content |-> content, chain |-> chain, parent |-> parent])
    /\ observed' = ForgetObserved(h)
    /\ UNCHANGED <<ownLast, verifier, remote, seed>>

SetVerifierContract(v) ==
    /\ verifier' = v
    /\ UNCHANGED <<own, ownLast, remote, observed, seed>>

\* The verifier contract accepts the proof of its next header.
VerifierStores(v, h, content, chain) ==
    /\ remote[v].last = 0 \/ h = remote[v].last + 1
    /\ remote' = [remote EXCEPT ![v] =
                     [last |-> h,
                      headers |-> With(@.headers, h, [content |-> content, chain |-> chain,
                                                      parent |-> NoParent])]]
    /\ UNCHANGED <<own, ownLast, verifier, observed, seed>>

(***************************************************************************)
(* Properties.                                                             *)
(***************************************************************************)
\* As long as no verifier was configured, the contract keeps the headers up to
\* the newest, all of them, as far back as Retention reaches or the seed lies;
\* the newest header is there, so the feed never finds its tip missing.
HeaderWindow ==
    verifier = NoVerifier =>
        DOMAIN own = IF ownLast = 0 THEN {} ELSE {h \in seed..ownLast : h + Retention > ownLast}

\* Without a verifier each stored header was accepted as the child of the one
\* stored below it.
ChainLinked ==
    verifier = NoVerifier =>
        \A h \in DOMAIN own : h + 1 \in DOMAIN own => own[h + 1].parent = own[h].content
=============================================================================
