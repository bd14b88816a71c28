# A TLA+ model of the EVM mapping contract

This directory models `src/evm-mapping-contract/`: a TinyGo/WASM contract that runs on Magi
(VSC) and bridges native ETH and ERC-20 tokens between an EVM chain ("L1") and accounts of the
contract, and the Go monitor that finds deposits on L1. It holds TLA+ modules, the TLC
configurations that check them on small instances, and proofs that TLAPS checks.

All paths below are relative to `src/evm-mapping-contract/`; `handlers.go`, `withdrawal.go`,
`balance.go`, `supply.go`, `observed.go`, `proof.go` and `types.go` are in `contract/mapping/`,
`blocks.go` in `contract/blocklist/`, `proposals.go` in `contract/admin/`. `PROJECT.json` has the
machine-readable side: components, runs, the lines each definition models, hazards, theorems.

To check a run: `tlc -config MCLifecycle.cfg MCWithdrawal.tla`; to check proofs:
`tlapm Withdrawal_proofs.tla`.

## 1. The system

### How the parts fit together

```
 L1 (EVM chain) ----> monitor/scanner.go --proofs--> a relayer -- map ----> mapping (deposits)
      |                                                                          |  reads headers
      +-- headers --> oracle: addBlocks / ZK verifier contract --> blocklist <---+
      |                                                                          |
      +<-- broadcast -- TSS signers <-- TssSignKey -- unmap* -- users      ledger (balances,
      |                                                 |                  allowances, supply,
      +-- proofs --> bot: confirmSpend, expireWithdrawal, ... --> queue    gas reserve)
 
 owner: propose / execute / cancel --> admin timelock --> dispatchAdmin --> all settings above
```

A contract call runs alone and to completion; if it aborts, the host rolls back all its writes.
So there is no concurrency inside a call of the contract. The monitor runs beside it as one thread,
and may crash at any point. Everything hard comes from the order of calls by
different parties, from L1 running ahead of and apart from the contract, from headers being
pruned, and from settings changing between two calls of one protocol.

### Components

| Component | State | Operations | Hard behaviour | What makes it correct |
|---|---|---|---|---|
| **Account ledger** (`balance.go`, `supply.go`, ledger handlers of `handlers.go`) | balances, allowances, supply totals (Active, User, Fee) per asset, gas reserve, pause | transfer, transferFrom, approve, increase/decreaseAllowance, pause, unpause, setGasReserve | four accounts of the same money (balance, supply, reserve, vault) updated by separate code on each path; clamps at zero; keys joined with a "-" that names may hold, out of names a caller gives unchecked | nothing negative, an owner within no other's reach loses no more than was allowed, the totals follow the balances, the reserve stays bounded |
| **Withdrawal lifecycle** (`withdrawal.go`, unmap and settlement handlers) | confirmed and pending nonce, one PendingSpend per open nonce, vault address | unmapETH, unmapERC20, unmapFrom, confirmSpend, clearNonce, expireWithdrawal, cancelMyWithdrawal, replaceWithdrawal, setVault, clearTestnetState | a signed transaction may be mined any time later, or revert, or not be mined; refund races payment; the vault is reconfigured meanwhile; a nonce signed twice | one withdrawal at a time; one payment per L1 nonce; settled once, exactly; never both refunded and paid; eventually settled |
| **Deposits** (`HandleMap`, `proof.go`, `observed.go`) | observed lists, relayer, token and router registries | map for ETH and ERC-20, register/deregister, registerToken, registerRouter | the same payment proved twice, under two headers, or from two header sources; the router call in the middle of crediting, which may fail after it moved money or call back | a payment is credited at most once; what is credited is backed, and is in some balance |
| **Header store** (`blocks.go`) | headers by height, last height, verifier contract id | addBlocks, seedBlocks, replaceBlock, setVerifierContract | pruning; reads go to a verifier, writes to own state; reorg replacement | stored headers are the linked window behind the tip |
| **Admin timelock** (`proposals.go`, `main.go`) | proposals, next id, configuration, init marker | initContract, propose, execute, cancel, expireProposal | execute, cancel and expire race; pause between proposal and execution; lapse and maturity boundaries | every change was announced long enough before, used once, and not while paused |
| **Entry points** (`main.go`) | none of their own | decode, check caller and pause, call a handler, call `dispatchAdmin` | which gate guards which call | the guards of the actions in the other modules |
| **Gas fee arithmetic, state keys** (`balance.go`) | none | `safeGasFee`, "-"-joined keys | uint64 products and sums that wrap; names that hold the delimiter | every price exact or refused; a caller's words reach its own keys and those of accounts its name begins, no others |
| **MPT verification** (`contract/mpt/verify.go`) | none | VerifyProof | embedded nodes, odd paths, values of branches, missing or foreign nodes | a proof verifies exactly what the block holds at the index |
| **RLP** (`contract/rlp/`) | none | encode, decode, split, re-encode | canonical form, length fields, limits on depth and size | decoding and encoding are inverse |
| **Crypto and ABI** (`contract/crypto/`, `contract/abi/`) | none | keccak, ecrecover, ERC-20 call data | - | abstracted to the identity of what they bind |
| **L1 transaction encoding** (`withdrawal.go`, `proof.go`) | none | build, sign, parse and hash transactions; read logs | transaction types, numbers with leading zeros, EIP-155 | the sender and amount L1 saw; a withdrawal read back as it was signed |
| **Monitor: scanner** (`monitor/scanner.go`) | scan cursor, dead letters | ScanNewBlocks, retries | failing calls at any point, a crash between return and persist, a pinned block, an RPC node that lags | every deposit handed over, at least once and in order; nothing invented |
| **Monitor: tries, receipts** (`monitor/trie.go`, `receipt.go`, `tx_encode.go`) | none | build proofs, encode receipts and transactions | the same edges, from the other side; 64-bit wrap of amounts | what it proves, the contract accepts |
| **SDK, runtime, errors** (`sdk/`, `runtime/`, `contract/contracterrors/`) | a bump allocator | bindings to the host, JSON, error text | - | not modelled: no protocol state; an error is a disabled action |

Off the repository, and modelled only from how the code uses them: L1, the TSS signers, the DEX
router, the ZK verifier contract, the Hive height of a call, and the host that rolls back aborted
calls.

## 2. The modules

```
 Ledger ----------+-----> Withdrawal ----> WithdrawalAccounting ----> MCWithdrawal
    |             |           |    |
    |             |           |    +-- INSTANCE WithdrawalEscrow (abstract)
    |             |           +----> TimedClear ----> MCTimedClear
    |             |           |           +-- INSTANCE Withdrawal (clearNonce without its delay)
    |             |           +----> (with WithdrawalAccounting) Withdrawal_proofs ----> TimedClear_proofs
    +-> Ledger_proofs (used by Withdrawal_proofs and Deposits_proofs)
                  |
 Headers ---------+-----> Deposits -----> DepositAccounting ----> MCDeposits
                              +----> Deposits_proofs

 AdminActions ----------> AdminTimelock ----> MCAdmin
      |                       |    +----> AdminTimelock_proofs
      +-> AnnouncedChange <---+  (INSTANCE, abstract)

 Scanner ----> MCScanner
    |    +---> Scanner_proofs
    +-- INSTANCE DepositFeed (abstract)

 Rlp --+--> Codec -----------------------------------------------------------+
       +--> Mpt --+--> Trie ----------------------------+--> ProofRelay -----+--> MCEncodings
                  +--> Transactions -----> Evidence ----+                    |
                                                   |                         |
 GasFee, StateKeys --------------------------------+-------------------------+
                                                   +--> Encodings_proofs ----> Relay_proofs
                                                                      (with ProofRelay)
```

- **Ledger**: `bal`, `allow`, `supply`, `reserve`, `paused` are the state keys of `balance.go` and
  `supply.go`; one action per ledger handler. A name is the sequence of its parts between dashes, so
  that joining names is `\o`: `bal` is indexed by account and asset, `allow` by owner and spender
  joined, and asset. A handler takes an asset as parts `p` in front of a registered one, since the
  parts go to the name before them. It is never run alone: Withdrawal and Deposits compose it with
  their own state.
- **Withdrawal**: `confirmedNonce`, `pendingNonce` and `spends` are the queue, `vault` is
  `VaultAddressKey`, `lastHeight` is `GetLastHeight()`. `signed` (what the signers were asked for),
  `mined`, `tip` and `hive` are external. One action per handler. `UnmapFromETH` and
  `UnmapFromERC20` are the two branches of `HandleUnmapFrom`. A stored header is a predicate here
  (`HeaderStored`), which `HeaderWindow` of Headers justifies.
- **WithdrawalAccounting**: the properties that add amounts up, and the liveness property.
- **TimedClear**: clearNonce as it is really called, composing the timelock's delay and window, the
  retention of headers and the queue. `proposed` holds the clearNonce proposals that may still
  execute (the action, id and status of a record are AdminTimelock's); `Execute` is
  `ExecuteValidated`, `dispatchAdmin` and `HandleClearNonce` in one step; `Lifecycle` is every other
  step, with an oracle that stores a header at least every `FeedPace` Hive blocks.
- **WithdrawalEscrow**: the abstract promise. Lock at least the amount, then pay or refund exactly
  it, once; otherwise money only moves between accounts. No L1, no nonces, no proofs.
- **Headers**: the header store and the observed lists, over own state or a verifier's.
- **Deposits**: `HandleMap` for both kinds as `MapETH` and `MapERC20`, each whole: verify, route,
  tax, supply, observed entry; the registries; and the feed. `SwapOutcome` is the swap branch of
  `routeDeposit`: the router took part of the deposit (`Called`) or returned nil (`Refunded`), and
  `RouteAndBookTwice` the same with the deposit mapped again from within the call.
  `credits` is a history variable, how often each item was credited under which header.
- **DepositAccounting**: the sums over accounts and deposits.
- **AdminActions**: the timelock class, the gate and the effect of each action of `dispatchAdmin`,
  shared by the detailed timelock and the abstract one.
- **AdminTimelock**: proposals and the five calls. `settings` has one field per configuration key,
  `enacted` is a history variable counting dispatches.
- **AnnouncedChange**: the abstract promise. The configuration changes only by an open ticket that
  is mature, fresh and used up by the change.
- **Scanner**: `lastScanned` is `LastScannedBlock`, `deadLetter` the dead-letter store, `pc`,
  `target`, `block`, `hits`, `fetched`, `attempt` and `deposits` the locals of `ScanNewBlocks`,
  `scanBlock` and the retry loop: one action per RPC call, with its failure beside it. `persisted`,
  `delivered`, `chain`, `final` and `stable` are external: the caller of `ScanNewBlocks`, which
  hands the deposits over and then persists the cursor, L1, and the RPC node. `Crash` loses all but
  what is external, between any two steps.
- **DepositFeed**: the abstract promise. Deposits go out at least once, block after block, and a
  block is acknowledged when nothing up to it is outstanding. No passes, retries or crashes.
- **Rlp**: the encoder over byte strings. **Codec**: the decoder, the reader of joined proof nodes,
  and what the proof code takes from the two.
- **Mpt**: VerifyProof over nodes kept as trees of items. **Trie**: the monitor's trie builder and
  proof generator. **Transactions**: the encodings of transactions and receipts in the monitor, the
  parser, signature hash and log reader of the contract, and the building of withdrawals.
- **Evidence**: a block of L1, whose roots, raw transactions and senders are stated independently
  after L1's own rules, and what `VerifyETHDeposit` or `VerifyERC20Deposit` makes of a message about
  it. `Submissions` lets a caller send any message.
- **ProofRelay**: the message the monitor builds for an entry of the block, as it is or changed by a
  caller (nodes lost, reordered or exchanged, another index, another raw transaction).
- **GasFee**, **StateKeys**: `safeGasFee`, and the key formats of balances and allowances over names
  spelt out in characters, with a caller of the host and whatever it names.
- **MC\*** modules: initial ledgers, L1 contents and operation sets for TLC. `Ops` (`Proposable` in
  MCAdmin) selects which entry points an instance exercises; a run says which question it asks.

## 3. Abstractions

- **Proofs.** In Deposits and Withdrawal a Merkle proof against a stored header is membership in
  that block's content, and a signature or a Transfer log gives the sender. That this is what the
  code's proofs and parsers amount to is `AcceptedIsOnChain` (nothing else is accepted, proved in
  section 8) and `ProvedIsAccepted` (what the monitor proves is accepted, proved there too).
- **In Evidence** keccak is injective, so a hash is what it is of; `ecrecover` gives one account for
  each hash, parity, r and s (its low-s check holds for all of L1's signatures). A node is the tree
  of its RLP items with its size, which Codec's `DecodeInvertsEncode` justifies. A path is held
  nibble by nibble and numbers byte by byte, since the edges are there. Loops of the code that go a
  node or a level down at each turn (`get`, `VerifyProof`, `decodeRef`) are functions of the turn or
  the depth; the trie builder, which goes on with fewer keys or at a greater depth, is a function of
  the keys and the depth. A node of the monitor's trie is kept with what its `encode` returns.
- **In Scanner** a proof is what it was built from, one step per RPC call; backoff times and the age
  of a dead letter are left open. One log hit of a token stands for one entry of `eth_getLogs`. The
  dead letter for a payment whose index is not in its own block (`scanner.go:365-381`) has no step:
  the raw transactions fetched are as many as the block's.
- **Header hash** is the header itself: `ChainsTo` compares the content.
- **Aborts.** The host rolls back an aborted call, so an error path is a disabled action, and a
  dispatch that fails leaves its proposal pending although the code stores "accepted" first.
- **Amounts** are naturals: the code uses `big.Int`. Fees are inputs; `safeGasFee`, which computes
  them, is module GasFee.
- **Keys** are not injective. Names are joined with "-", which account names may hold, and `transfer`,
  `transferFrom`, `approve` and the two changes of an allowance check neither the asset nor the
  spender, owner or recipient they are given. Ledger keeps names as sequences of parts, so that
  different words make one key exactly when they do in the code. Two things are taken from outside:
  callers are names of the host (a domain, then a name without a second domain), and symbols that
  the administrator registers hold no "-", so that the last part of a key is the asset. A token
  stands for its symbol. `Callers`, `Spenders` and `Parts` are what callers of an instance use;
  only names in `Accounts` hold anything. The asset of an unmap is a registered one: unmapETH and
  unmapERC20 take it from the registry, and for any other unmapFrom aborts in `TrackWithdrawal`.
  StateKeys shows, character by character, what Ledger's pairs leave out: that a caller's words can
  make no other key.
- **The TSS key** exists and its address is `KeyAddr`: `createKey` of an existing key changes
  nothing here. The configured vault may differ from it.
- **addBlocks** with a list equals one call per entry, each checked against the one before. It is
  not gated by pause, in the code and here. `Feeders` stands for the owner and oracle check.
- **The DEX router** is external. It takes any part of what it was allowed and returns something, or
  returns nil: with `RouterAtomic` (run `deposits`) having taken nothing, without it (run `rewrite`)
  having taken any part, in which case `DecBalance` may refuse to reverse the own credit, and maybe
  having mapped the same deposit to an account, once, before it returned. It leaves the allowance
  it was given to `routeDeposit`, which ends it.
- **Matured proposals** execute in any order. In Withdrawal and Deposits the admin actions are
  taken at any time the contract is not paused, a superset of what the timelock admits
  (`ImplementsUntimed` of TimedClear shows it for clearNonce, whose payload is the one that a delay
  can make stale).
- **`max_fee`** only makes a call fail and is left out. **L1 gas** is left out of `Solvent`.
- **`OwnEvidenceOnly`** and **`MatchingTokenOnly`** are restrictions on inputs, TRUE in the runs
  that ask what holds beyond the disagreements of section 6. `MatchingTokenOnly` is TRUE in all
  runs, `OwnEvidenceOnly` in those that need it.

## 4. The passing runs

State counts are of complete searches; all finish in under two minutes.

| Run | Instance | What it shows |
|---|---|---|
| **lifecycle** (336,616 states) | Two withdrawals, ETH and a token, all ways to settle, any L1 evidence including foreign traffic, setVault, replaceWithdrawal, pauses, every header kept | `TypeOK`; `SignedForQueue` and `OnePaymentPerNonce`: nothing else is signed for an open nonce, and no nonce is signed for two payments; `MinedHeadIsConfirmable`: neither setVault nor a replacement orphans a mined withdrawal; `SupplyBalanced`: Active = User + Fee, so the clamps never bite; `SettlementExact`: a settlement is a payment or a refund of exactly the amount; `EveryWithdrawalSettles`, under the fairness of section 7 |
| **solvency** (296,707) | Two withdrawals, ETH and a token, proofs of drop about the vault's own nonces only, as `types.go:113-119` describes them; clearNonce under a timelock of three Hive blocks, one proposal at a time for any nonce and any transaction of the vault; a feed of a header per Hive block that prunes to two; a charge of 4 against a reserve of 3, so that the clamp bites | `Solvent`: the vault can pay all balances and the open withdrawal; `ReserveBounded`: what a clamped charge gives back too much does not add up; `RefundOnlyIfNotExecuted`; `ImplementsEscrow`: the lifecycle implements the abstract escrow; `NoClearByKnownHeader`: what was provable when clearNonce was proposed no longer is when it executes; `ImplementsUntimed`: a proposal that outlives its withdrawal refunds no later one on evidence about an earlier nonce |
| **allowance** (139,552) | Bob acts on Alice's balances; she makes no call. Nor does a third account, whose name is Bob's with a further part: he names assets and spenders with that part, and its balance and allowances move. transferFrom, unmapFrom, allowances, a testnet contract with clearTestnetState and setGasReserve | `PassiveOwnerLosesAtMostAllowance` (tokens): Alice, whose name Bob's does not begin, is out of his reach; `UserSupplyTracksBalances`, so a withdrawal a balance covers is not refused by the totals; `QueueInv` across a reset |
| **admin** (601,065) | Two proposals of ten actions covering each class and kind of setting, in any order of propose, execute, cancel, expire and pause, with initContract early or late | `EnactedOnce`, `RecordsPermanent`, `PauseFreezes`, `ImplementsAnnouncedChange`, and `EveryProposalResolves` under the fairness of section 7 |
| **deposits** (421,240) | ETH and token deposits, token deposits also swapped, by a router that leaves nothing when it fails; own headers that prune, then a verifier's; a block of another chain; a mint log | `TypeOK`, `ChainLinked`, `CreditedOnce` also when the source of headers changes, `Backed`, `UserSupplyIsCredited` |
| **rewrite** (673,672) | replaceBlock, clearTestnetState, pauses, two vaults, a feed with an orphaned block; token deposits and a router that fails after it took them, or maps them again within its call | `CreditsAreHeld`: whatever the router did, what is booked as credited is in some balance; `HeaderWindow`, `ObservedIsCredited` (nobody is shut out by an entry without a credit), `StaleEntriesForgotten`: no observed entry outlives the header it was made against |
| **scanner** (209,582) | Three blocks in any order of four kinds: a payment behind foreign transactions, transfers in one receipt behind logs of another, a payment that also logs, nothing; calls fail, crashes, dead letters expire | `NoDepositSkipped`: a crash loses nothing at or below the persisted cursor; `ImplementsFeed`; `EveryDepositDelivered`, under the fairness of section 7 |
| **encodings** (56,645) | Transactions of all types and receipts with several logs in blocks of 1 to 130, evidence changed twice; items and byte strings about every limit of the codec | `ProvedIsAccepted`, `AcceptedIsOnChain`: the contract takes what the monitor proves, and nothing the block does not hold at the index, as what L1 saw; `WithdrawalReadBack`: confirmSpend recomputes the hash the contract had signed; `DecodeInvertsEncode`; `FeeCapExact`; `KeysReachOnlyExtensions`: the balances and allowances that a caller's words reach are its own and those of accounts its name begins at a dash |

Every property of a passing run has a mutant in `PROJECT.json`: a plausible bug of the code (a
dropped guard, a swapped order, a missing write) under which TLC finds that property violated. The
mutated definitions stand next to the ones they replace and are used nowhere else.

### Bounds, and why they are enough

- `MaxNonce = 2` withdrawals: the queue holds one at a time, so what one withdrawal can do to
  another needs two in a row, the second after any settlement of the first. `allowance` has 1: its
  question is about sums, and `clearTestnetState` starts the nonces over, so a nonce is reused.
- `MaxHeight = 3`: two blocks for the two payments and one for other traffic. `lifecycle` keeps every
  header, since a withdrawal whose header is gone cannot be confirmed; `solvency` prunes.
- `InitBal`, `Amounts`: enough for two withdrawals and a fee. Amounts stand for multiples of the
  minimum; what they are compared with (balance, allowance, minimum, totals) is met and missed.
- `MaxAllowance` bounds increaseAllowance; the code has no ceiling.
- `MaxHive`, delays 1, 2, 3 and a window of 2 in `admin` keep the code's order
  0 < operational < tactical < long (7,200, 28,800, 400,000; window 201,600). As in the
  code, the window is shorter than the longest delay. `MaxHive = 5` lets every proposal
  mature and lapse (proposals that could not lapse within the bound are not made).
- `MaxProposals = 2`: executing, cancelling and expiring one proposal while another is pending,
  matured or settled.
- `MaxCredits = 2` credits of one record: a second credit is already the violation.
- Deposit contents: a payment to the vault and one to the next vault in one block; two logs of one
  receipt in another, so that two entries share a hash; amounts that the tax (25% of 4) divides.
  `rewrite` has tokens of amount 1, which a router takes or leaves; the swapped asset is untaxed.
- `allowance`: one dash, so that Bob's words `x-usdc` and `x-bob` make keys of `bob-x`. Names of any
  number of parts are the theorems'.
- `solvency`: `FeeCaps = {2}` at `TokenGas = 2` and a reserve of 3 over a minimum of 2, as a fee cap
  above 769 gwei is in the code's numbers. `Retention = 2` and `TimelockTactical = 3` at
  `FeedPace = 1` keep the code's order, 101 L1 blocks against 28,800 Hive blocks. `MaxHive = 4` and
  `MaxHeight = 4` leave room for a proposal for the first withdrawal to mature while the second is
  the head. Vault changes, replacements, pauses, unmapFrom and transfers are left to `lifecycle` and
  `allowance`. L1 may run ahead of the feed, so that a proposal can name a block that is stored
  later, and `Execute` succeeds.
- `scanner`: three blocks, so that a pass may complete a block, fail in the next, and crash with a
  third ahead; two attempts, so that one is retried and the next gives up; `Word = 2`, so that a
  value can wrap to none.
- `encodings`: blocks of 1, 2, 3, 17 and 130 entries reach every shape of the index key: the empty
  string of 0, one byte up to 127, two bytes from 128, with shared and with branching nibbles.
  Sizes are scaled (2 bytes to an address and an int, 3 to a word of a signature or a topic, 60 to a
  string); the 32 bytes of a hash and the 20 nodes of a proof are the code's, and data lengths put
  encodings at 31, 32 and 33 bytes and at 55, 56 and the limit. `MaxUint64 = 15` and a caller, what it
  names and an asset of up to three characters out of a letter, a domain and the dash; the theorems
  are for any.

No symmetry is used: accounts have roles in every instance.

## 5. Deadlock

The runs do not check deadlock: every instance is bounded (nonces, heights, proposals), so each
ends in states where nothing more may happen. That the system does not get stuck before that is
what the three liveness properties say.

## 6. Where code and documentation disagree

Four runs are expected to end in a violation of a single property, each stating what a comment of
the repository says. `PROJECT.json` quotes the lines.

| Run | Property | What the trace shows |
|---|---|---|
| **foreign_evidence** | `RefundOnlyIfNotExecuted` | `verifyL1ProofOfDrop` (`handlers.go:1258`) ties the evidence neither to the vault nor to the withdrawal: any reverted receipt, or anyone's transaction with a higher nonce, refunds the head, also after L1 paid it. The comment at 1137-1140 says refunds need proof that no funds were sent. |
| **window** | `PreWindowOnlyWithdrawer` | The expiry window adds 5000 to an L1 height and compares with a Hive height (`handlers.go:1128-1129`). |
| **swap_tax** | `UserSupplyIsCredited` | The tax is computed after `routeDeposit` (`handlers.go:88-99`): a swapped ETH deposit passes on all of the amount and books the tax besides. |
| **null_block** | `NoDepositSkipped` | `null` decodes without an error (`scanner.go:295`): a block the RPC node does not hold is scanned as empty, and the cursor moves past its deposits. The comment above says that decode errors are surfaced instead of proceeding with a zero-valued block. `null` for logs (510) and receipts (539) likewise. |

Differences that no violating run is about: the model restricts inputs for them, leaves them out of a
run, or (the first three and the clearNonce delay) states what the code does:

- State keys join names with "-" unescaped (`balance.go:59-65`), and no handler checks the asset or
  the spender it is given (`handlers.go:572-641`, `951-985`). `hive:abc` transferring the asset
  `def-usdc` debits the key `a-hive:abc-def-usdc`, which is the balance of `hive:abc-def`, without an
  allowance; approving the spender `def-hive:mallory` writes that account's allowance to
  `hive:mallory`. The model does as the code does. `KeysReachOnlyExtensions` says how far this goes,
  to accounts whose names extend the caller's at a dash, and `PassiveOwnerLosesAtMostAllowance` is
  stated for the others (`Sheltered`).
- `GasCost` is stored unclamped while the reserve is deducted with a clamp at zero
  (`handlers.go:363`, 777-784), where `withdrawal.go:86` calls it the amount deducted. 65,000 gas
  against the minimum of 0.05 ETH puts the limit at a fee cap of 769 gwei, which the code does not
  enforce. Above it a refund leaves more in the reserve than there was before the withdrawal.
  `ReserveBounded` says what keeps this from adding up: the reserve stays within what it was at
  first or what one withdrawal is charged.
- The router's answer decides alone (`handlers.go:687-694`): nil means that the swap failed, whatever
  was taken, and a refusal by `DecBalance` to reverse the own credit is ignored, so that the router
  keeps its part and the depositor gets the whole. A router that calls `map` with the same deposit
  finds its slot open, since it is marked after routing (`handlers.go:105-108` speaks only of errors
  before it), and the deposit is credited twice. `CreditsAreHeld` (the depositor is paid) holds
  for such a router; `CreditedOnce`, `Backed` and `UserSupplyIsCredited` are checked and proved for
  one that leaves nothing when it fails and does not call back (`RouterAtomic`).
- `HandleUnmapFrom` looks a token up by `token_address` and debits `asset` without comparing the two
  (`handlers.go:841-905`): a balance of one token queues a payment of another. `MatchingTokenOnly`
  leaves such calls out.
- replaceBlock clears the observed list of a height and keeps the credits made from it
  (`blocks.go:427`): a payment that both blocks hold is credited again, where `proof.go:16` says
  "deposit already processed". `CreditedOnce` is checked without replaceBlock (`NoRewrites`).
- A clearNonce payload is fixed at the proposal and run 28,800 Hive blocks (a day) later
  (`proposals.go:61`), while a header is pruned after 101 L1 blocks, some 20 minutes
  (`constants.go:51`, `blocks.go:285-286`). `types.go:123` tells the bot not to supply a header that
  was not ingested, and `handlers.go:452` and 1122 send an operator to clearNonce; but by
  `NoClearByKnownHeader` (run `solvency`, proved as `NoKnownHeaderClears`) a header that is stored
  at the proposal no longer clears anything once the proposal matures, under a live feed. It takes
  a transaction in a block that is still to be stored. This is about the contract's own headers; a
  verifier keeps its own. expireWithdrawal and cancelMyWithdrawal take the same proof without a delay.
- `HexToUint` wraps modulo 2^64 (`receipt.go:93`): a payment of a multiple of 2^64 wei (some 18.4
  ETH) reads as none and is not scanned. `Due` leaves it out.

Smaller differences met while modelling:

- `unmapFrom` of ETH takes amount plus fee from the balance but spends only the amount of the
  allowance, and leaves the fee in Supply.User (`handlers.go:889-905`, compare 239-255).
- replaceBlock names a height the same way as clearNonce and waits the same day, by which time that
  height is pruned from the contract's own headers.
- replaceBlock under a verifier writes own state, which nothing reads then, but clears the observed
  list that is read (`blocks.go:418-427`), so that the same header credits a deposit again.
- replaceBlock takes a parent hash and does not look at it (`types.go` around `AddBlockEntry`
  calls it required on every non-seed entry).
- `types.go:158-160` calls the proof of expireWithdrawal optional after the window; the handler
  demands it always.
- The repository's `README.md` still lists `setChainId` and `adminMint`, which no longer exist, and
  describes replaceBlock as replacing the tip header; it replaces any stored height.
- A first `initContract` overwrites an oracle account that a proposal may have set before
  (`main.go:99-127`). `PauseFreezes` and `AnnouncedChange` name this exception.
- `decodeLength` (`decode.go:164`) computes in an int, 32 bits in the contract: a length field of
  five to eight bytes is read modulo 2^32, so one length has several forms where 81 and 124 speak of
  canonical ones. Proof nodes are looked up by the hash of their bytes, so nothing follows from it;
  `DecodeInvertsEncode` sets such fields aside (`WideField`).
- A transaction or receipt above 65,536 bytes in one string (`decode.go:15`) is refused wherever it
  stands in a proof, so such a deposit cannot be mapped, and `DepositTx` asks for less.
- The monitor hands over payments in transactions of types 1, 3 and 4, which the contract refuses
  (`proof.go:233-278`).
- The scanner computes a transactions root and a receipts root and reads the block's own, and does
  not compare them (`scanner.go:361`, `408`), so evidence built from bad answers goes out.
- One transaction of another account whose raw bytes cannot be had pins the block: all are fetched
  (`scanner.go:553`). `ImplementsFeed` and `EveryDepositDelivered` say what follows: nothing is
  lost, and the scan goes on when the node recovers. A pin that outlasts the contract's header
  window (section 9) makes deposits unprovable all the same.
- A dead letter stays listed as pending after its block was scanned, until its time to live from
  `FirstSeen` is over, which a further failure does not refresh.
- `AttachSignature` writes r and s with their leading zeros, which L1 refuses; only tests call it,
  and `WithdrawalReadBack` is stated for r and s without any.
- `routeDeposit` forms the depositor's account with chain id 1 (`handlers.go:646`), where
  `crypto.go` says the id is read from the state.

## 7. Fairness

**lifecycle** (`WithdrawalAccounting!Fairness`). Weak fairness of mining a signed transaction: the
signers broadcast what they sign, and no two different payments compete for a nonce. Weak fairness
of `AddBlock`: the oracle feeds every header. Strong fairness of `ConfirmSpend`: the bot retries,
but a pause may disable it again and again, so weak fairness would not be enough. Weak fairness of
`Unpause`: an owner does not leave the contract paused for good. Nothing is assumed of users, of
setVault, replaceWithdrawal, or pause. Two limits are stated with the property: the withdrawal was
queued under the signing key's own address, and its header is still stored when the bot gets to it
(`Retention` exceeds `MaxHeight` in this run; with headers pruned, a bot later than 101 blocks
cannot confirm at all).

**admin** (`AdminTimelock!Fairness`). Hive blocks come (`Tick`), and someone calls
`expireProposal`, which the code opens to anyone (`main.go`, no owner check). Nothing makes the
owner execute or cancel.

**scanner** (`Scanner!FairSpec`). Weak fairness of the process's own steps (the next step of a pass,
the caller's hand-over and persisting, a restart): it is a loop that a supervisor restarts. Weak
fairness of `Stabilise`: some day the RPC node answers every call, and the process stops crashing.
Nothing is asked of L1, of the order of blocks, or of anything before that day.

## 8. What is proved

The theorems of seven modules (Ledger_proofs holds lemmas about the ledger that two of them share).
TLAPS checks them for every value of the constants that satisfies the `ASSUME`s of the modules (sets
of tokens, addresses and amounts of any size, any finite number of accounts, any retention and
delays).

**Ledger_proofs** has what every sum needs. The library adds up a function over a finite set by
recursion, and its induction theorems take operators, which the prover cannot instantiate. So
induction is done about sets: `SetInduction` (a set of naturals with 0 and successors is all of
them) and `SmallestSubset` (a nonempty set of finite sets has a minimal member) follow from the
library's well-foundedness facts, and each lemma about sums refutes a smallest counterexample:
`SumTake` (a member taken out takes its value with it), `SumChange`, `SumAtMost`, `SumMember`. On
them rest `TotalCredit`, `TotalDebit` and `TotalMove`: what a credit, a debit and a transfer do to
the total of each asset.

**Withdrawal_proofs.** `TypeCorrect` is inductive by itself: it says that no sequence of calls
makes a balance, an allowance, a total or the reserve negative. `QueueCorrect` adds `QueueInv`,
inductive given types, by grouping the actions into those that open, close, reset or leave the
queue; it holds on testnet too. The others assume `~IsTestnet` (clearTestnetState restarts the
nonces, so nonces are then signed twice by design) and rest on

    IInv == TypeOK /\ QueueInv /\ SignedForQueue /\ OnePaymentPerNonce
                   /\ MinedFromSigned /\ HeightsOrdered

`MinedHeadIsConfirmable` alone is not inductive: that what L1 mined matches the stored entry needs
that it was signed (`MinedFromSigned`), that everything signed for an open nonce is its payment
(`SignedForQueue`), and that it was mined after the withdrawal was queued (`HeightsOrdered`, which
relates stored heights, the oracle's last height and the tip). From IInv follow
`SignedForQueueAlways`, `PaymentsUnique`, `HeadConfirmable`, `SettlesExactly`, and `RefundsSound`.
The last one has two more assumptions: proofs of drop are about the vault's own nonces
(`OwnEvidenceOnly`; section 6 shows it is needed), and no other sender holds the key of an address
that may be configured as the vault.

Its second half is about money. All theorems look at what an unmap takes in one form (`Takes`),
which the three handlers have in common. `ReserveAlwaysBounded` (`ReserveBounded`) assumes only that
setGasReserve is not used; the clamp at zero may bite. Deducting a charge leaves the reserve and the
charge together at the larger of the two (`DeductWithin`), both within the bound, and with one
withdrawal open at a time a refund gives back no other charge.

`SupplyAlwaysBalanced` and `UserSupplyAlwaysTracks` are one induction over `SupplyBalanced /\
UserSupplyTracksBalances`: the clamps of HandleUnmapETH do not bite because a debited balance is
within the sum of the balances, that within User, and that within Active. They assume a ledger that
deposits may leave (`LedgerFromDeposits`: the two hold at first). `PassiveOwnerAlwaysProtected` is
about the accounts in `Sheltered`, which make no call and whose keys no other name reaches, whatever
assets, spenders and recipients are named: each step that takes from such an owner's balance lowers
one allowance as much. `VaultAlwaysSolvent` (`Solvent`) is inductive only with the escrow's
invariant (below), the queue holding one withdrawal, each open withdrawal being paid in the asset it
was taken of (`PaidInKind`), and two sums that follow each other, what is owed of an asset and what
L1 paid of it: mining moves an amount from the first to the second. It assumes `LedgerFromDeposits`,
evidence about the vault's own nonces (`VaultEvidence`), and `MatchingTokenOnly` (section 6 on
unmapFrom).

`LifecycleImplementsEscrow`: the refinement of WithdrawalEscrow, off
testnet and for proofs of drop about the vault's own nonces. Its invariant adds to IInv that a
settled nonce is one L1 has mined, so that a refunded withdrawal cannot be paid later, and that open
amounts are positive.

**TimedClear_proofs.** `TimedImplementsUntimed` needs of a proposal only that its proof stays one L1
has and was submitted about the nonce it names; the rest is that each action is one of the untimed
lifecycle, helper by helper. `NoKnownHeaderClears` assumes `Retention * FeedPace < TimelockTactical`
(in the code's numbers, a header at least every 285 Hive blocks, some 14 minutes) and counts Hive
blocks by headers:

    fedAt <= p.queue + (lastHeight - p.fed) * FeedPace    and    hive <= fedAt + FeedPace

so that by maturity at least `Retention` headers came after the newest one of the proposal.

**AdminTimelock_proofs.** `IInv == TypeOK /\ EnactedOnce /\ HeightsOfClass`, the last one tying the
stored maturity and lapse heights of a proposal to its class, which the refinement needs to show
that an executed proposal is a mature and fresh ticket. `TypeCorrect`, `DispatchedOnce`,
`RecordsArePermanent` and `PausedIsFrozen` follow, and `Refines`: the timelock implements
AnnouncedChange, step by step.

**Deposits_proofs.** `TypeCorrect` (with it that the tax is no more than the deposit).
`ChainLinkedAlways`: `ChainLinked`, without replaceBlock, whose parent hash the code does not look
at. `StaleEntriesAlwaysForgotten` and `ObservedAlwaysCredited`, without assumptions.
`WindowAlways`: `HeaderWindow`, by `HeaderInv`, which adds that the seed lies
between 1 and the tip. It covers pruning, replacement, seeding and the switch to a verifier.
`CreditedAtMostOnce`: `CreditedOnce`, by `CreditInv`: every credit left an observed entry that is
still there, and every stored header holds what L1 has at its height. Its assumptions are that
observed lists are not rewritten (`NoRewrites`; section 6 shows what replaceBlock does), that L1
holds an item at one height only (`OneHeightEach`), and `RouterAtomic`.

`UserSupplyAlwaysCredited` (`UserSupplyIsCredited`) and `AlwaysBacked` (`Backed`) sum over accounts
and over the credited deposits, of any number. Whichever way an atomic router goes, the balances
grow by the net amount (`SwapTotals`, `RouteTotals`), as long as no taxed deposit is swapped
(`NoTaxedSwaps`; run `swap_tax` shows why). `Backed` is proved as an equality (`Accounted`: nothing
the vault received is lost either), for a bridge that starts empty. It needs `CreditInv` as well: a
mapped item is one that was never credited (`VerifiedIsNew`), so that the sum of what was received
grows by its amount.

`CreditsAlwaysHeld` (`CreditsAreHeld`) is for any router, any tax and any rewriting, from a ledger in
which it holds (`HeldAtFirst`): the same lemmas bound what the balances grow by from below, in each
outcome of a swap and with the deposit mapped again within it.

**Scanner_proofs.** `ScannerTypes`, `NoneSkipped`, `NoneInvented`, `DeadLettersReached` and
`ScannerImplementsFeed`, for any chain, tokens, word and number of attempts, assuming that the RPC
node does not answer null (section 6 shows what it does then). They rest on

    IInv == TypeOK /\ CursorInv /\ BlockInv /\ CollectedInv /\ DeadLetterReached

`NoDepositSkipped` alone is not inductive: it needs that what lies between the persisted cursor and
`lastScanned` is collected or handed over (`CollectedInv`), that the block being scanned is the next
one and finalized (`CursorInv`), and that its hits are its logs (`BlockInv`), from which follows
that a completed block adds exactly what it owes.

**Encodings_proofs.** `FeeCapIsExact`, for any word: a wrapped product is off by a multiple of the
word that no division by 2 or 3 hides. `KeysReachOwnOrExtended`
(`KeysReachOnlyExtensions`), for any letters, domains and lengths, and any words of the caller: where
two joined names are one text, one is the other or the other's with a dash and more (`SplitAtDash`);
a domain character, which the host's names have at their front only, fixes where the spender begins,
and the last "-" where the symbol does. For balances it is
an equivalence: what the property names as within reach is reached.

`SubmissionsOnChain` (`AcceptedIsOnChain`) is about a caller who submits what he likes: any kind,
raw bytes, proof nodes, and any index and log position that fit the code's integers. It holds for
any block of L1 with up to 2^64 entries, any size of an address, a signature and a hash, and any
limits of the codec and the verifier. Every message of ProofRelay is one of these. The argument,
bottom up:

- Numbers (`BytesOf`, `ValueOfBytes`, `BytesInjective`): the bytes of a number determine it and are
  read back as it. `KeysInjective`: two indices have different keys, so that the trie of a block has
  a path for each (`HeldAt`).
- L1's trie is stated as a function of the paths a node is for; that such a function exists is shown
  by induction from the deepest nodes up (`NodesExist`). Each of its nodes is a leaf, an extension
  or a branch (`NodeKinds`).
- A hex-prefix path is read back (`PathRead`), with a 16 at the end exactly when it is a leaf's. The
  walk for a key therefore stays, turn after turn and node after node, at the node for the paths
  that agree with the key so far (`OnTheWay`), and a value it ends at is the key's. A proof node is
  the node L1 committed to, because its hash is: it makes no difference which others there are.
- `NodesRead` keeps only nodes that decode, so a value was no longer than the codec's limit.
- The fields of a transaction (`Read0`, `Read2`) and the logs of a receipt (`LogsRead`) are read as L1
  wrote them: the chain id and the parity come out of the v of EIP-155, r and s are padded to what
  they were signed as (`FixedWidthPads`), and the signature hash is recomputed from the same fields.

What is assumed of L1 (`IsTransaction`, `IsReceipt`): sizes of addresses and of r and s, chain ids
and v that fit 64 bits, and a token whose Transfer events have two indexed fields, as ERC-20 says.
The code checks `len(topics) >= 3`, which would also take a fourth.

`WithdrawalsReadBack` (`WithdrawalReadBack`) follows from the same reading. Its second part is about
an r and an s that both fill their bytes: `AttachSignature` writes 32 bytes each, and L1 takes no
leading zeros.

**Relay_proofs** is the other direction. `ProofsAccepted` (`ProvedIsAccepted`) holds for any block as
above and any proof the monitor builds in it. The induction over steps is short: an unchanged
message is one the monitor built (`IInv`; a message alone does not tell that, which is why
`ProvedIsAccepted` is not inductive). The work is in what the monitor builds and the contract makes
of it, bottom up:

- Bytes: the monitor's encoding of a transaction from its JSON fields is the one L1 holds
  (`TxEncoded`). What it reads back of numbers and logs is Encodings_proofs.
- Keys (`IndexKeys`): the key of an index has at most 18 nibbles, and none begins another, so that
  no key of a trie ends in a branch. The first byte tells the length.
- The builder: the function of keys and depth exists, by induction from the greatest depth up
  (`BuildExists`); `commonPrefixLen` is how far the keys agree, so each node is a leaf, an extension
  or a branch (`BuiltKinds`), and the nodes are those that L1 commits to (`SameRoot`).
- The proof: the nodes that `collectProof` meets are on the way to the key, each the child of the
  one before, down to a leaf (`WayDown`). The contract reads every one of them (`NodeReadable`,
  `NodeDecodes`, `AllRead`): embedded nodes are short, so that none lies deeper than the codec's
  limit, and no value is longer than the entry's.
- The walk: at each node on the way it goes on, through embedded children within the node and
  through hashes to the next node of the proof, and it ends at the value only when the key is used
  up (`ProofVerifies`, `BuiltVerifies`). It never runs out of proof nodes or of turns.
- Messages (`EthProofAccepted`, `Erc20ProofAccepted`): what is verified parses as a deposit. That it
  is read as L1 saw it is then `SubmissionsOnChain`.

`RelayImplementsSubmissions`: the specification of the relay, changed messages and all, implements
Evidence's, in which any message may be submitted. `RelayedOnChain` and `RelayedReadBack` carry its
two theorems over.

Two assumptions come on top. `RelayAssumption`: indices fit 64 bits, and the verifier's limits leave
room for a key of 18 nibbles: proof nodes, levels of nesting and the size of a hash above 18 (20, 20
and 32 in the code), strings at least as long as a hash. `SizesAssumption`: the encodings of
transactions and receipts have a natural number of bytes.

**Only model-checked.** Liveness (`EveryWithdrawalSettles`, `EveryProposalResolves`,
`EveryDepositDelivered`), which the prover does not support. `DecodeInvertsEncode`: an encoder and a
decoder of trees of any depth take induction over data, and the decoder (Codec) is a recursive
operator, for which the prover has no backend.

## 9. What is left, and what is not modelled

Built in this order: the withdrawal lifecycle over the ledger, the admin timelock, deposits over
headers, the scanner, the encodings; their abstract specifications and theorems. What would come
next:

1. **Scanner and Deposits together**: DepositFeed as the source of the calls of `map`, against the
   header window, to state how long a block may be pinned before its deposits are lost.
2. **replaceBlock under its delay**, next to clearNonce, and clearNonce against a verifier's headers.

Not modelled: SDK bindings (`sdk/`), generated JSON code, the allocator (`runtime/`) and error texts,
which keep no protocol state; logs, events, `getInfo` and health views, which change none;
`parseAmount`, `FormatDepositForContract` and the parsing of JSON, formats between strings and
numbers; keccak and signature recovery, which the host or a library computes; and the two words of
ABI call data. The models take from them only what section 3 says.
