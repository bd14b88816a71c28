\* Every way to settle, any evidence, vault changes and pauses, under fair
\* signers, oracle, bot and admin.
SPECIFICATION FairSpec
CONSTANTS
    other = other
    Accounts <- TwoAccounts
    Callers <- TwoAccounts
    Spenders <- TwoAccounts
    Parts <- PlainNames
    Eth = eth
    Tokens = {usdc}
    Amounts = {2}
    MinGasReserve = 2
    InitBal <- OneFunded
    InitAllow <- NoAllowance
    InitSupply <- OneSupply
    InitReserve = 3
    ReserveChoices = {}
    MaxAllowance = 3
    Ops <- SettlingAndAdmin
    Recipients = {carol}
    KeyAddr = vault1
    ZeroAddr = zero
    VaultChoices = {vault1, vault2}
    FeeCaps = {1}
    EthGas = 1
    TokenGas = 2
    MinWithdrawal <- UnitMinimum
    Retention = 3
    ExpiryWindow = 1
    InitHive = 1
    MaxHive = 2
    MaxHeight = 3
    MaxNonce = 2
    ForeignTxs <- Traffic
    OwnEvidenceOnly = FALSE
    MatchingTokenOnly = TRUE
    IsTestnet = FALSE
INVARIANT TypeOK
INVARIANT SignedForQueue
INVARIANT OnePaymentPerNonce
INVARIANT MinedHeadIsConfirmable
INVARIANT SupplyBalanced
PROPERTY SettlementExact
PROPERTY EveryWithdrawalSettles
CHECK_DEADLOCK FALSE
