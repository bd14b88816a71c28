\* Hive heights far above L1 heights.
SPECIFICATION Spec
CONSTANTS
    other = other
    Accounts <- TwoAccounts
    Callers <- TwoAccounts
    Spenders <- TwoAccounts
    Parts <- PlainNames
    Eth = eth
    Tokens = {usdc}
    Amounts = {1, 2}
    MinGasReserve = 2
    InitBal <- OneFunded
    InitAllow <- NoAllowance
    InitSupply <- OneSupply
    InitReserve = 3
    ReserveChoices = {}
    MaxAllowance = 3
    Ops <- Settling
    Recipients = {carol}
    KeyAddr = vault1
    ZeroAddr = zero
    VaultChoices = {vault1, vault2}
    FeeCaps = {1}
    EthGas = 1
    TokenGas = 2
    MinWithdrawal <- UnitMinimum
    Retention = 2
    ExpiryWindow = 5
    InitHive = 90
    MaxHive = 90
    MaxHeight = 4
    MaxNonce = 2
    ForeignTxs <- Traffic
    OwnEvidenceOnly = FALSE
    MatchingTokenOnly = TRUE
    IsTestnet = FALSE
PROPERTY PreWindowOnlyWithdrawer
CHECK_DEADLOCK FALSE
