\* Evidence about the vault's own nonces: the vault stays able to pay.  The
\* timelock is longer than a header lives.
SPECIFICATION TSpec
CONSTANTS
    other = other
    Accounts <- TwoAccounts
    Callers <- TwoAccounts
    Spenders <- TwoAccounts
    Parts <- PlainNames
    Eth = eth
    Tokens = {usdc}
    Amounts = {2}
    MinGasReserve = 2
    InitBal <- OneFunded
    InitAllow <- NoAllowance
    InitSupply <- OneSupply
    InitReserve = 3
    ReserveChoices = {}
    MaxAllowance = 3
    Ops <- Timed
    Recipients = {carol}
    KeyAddr = vault1
    ZeroAddr = zero
    VaultChoices = {}
    FeeCaps = {2}
    EthGas = 1
    TokenGas = 2
    MinWithdrawal <- UnitMinimum
    Retention = 2
    ExpiryWindow = 1
    InitHive = 1
    MaxHive = 4
    MaxHeight = 4
    MaxNonce = 2
    ForeignTxs <- Traffic
    OwnEvidenceOnly = TRUE
    MatchingTokenOnly = TRUE
    IsTestnet = FALSE
    TimelockTactical = 3
    ExpireWindowBlocks = 1
    FeedPace = 1
    MaxProposals = 1
INVARIANT Solvent
INVARIANT ReserveBounded
PROPERTY RefundOnlyIfNotExecuted
PROPERTY ImplementsEscrow
PROPERTY NoClearByKnownHeader
PROPERTY ImplementsUntimed
CHECK_DEADLOCK FALSE
