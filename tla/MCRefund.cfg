\* Evidence that is not about the withdrawal.
SPECIFICATION Spec
CONSTANTS
    other = other
    Accounts <- TwoAccounts
    Callers <- TwoAccounts
    Spenders <- TwoAccounts
    Parts <- PlainNames
    Eth = eth
    Tokens = {usdc}
    Amounts = {1, 2}
    MinGasReserve = 2
    InitBal <- OneFunded
    InitAllow <- NoAllowance
    InitSupply <- OneSupply
    InitReserve = 3
    ReserveChoices = {}
    MaxAllowance = 3
    Ops <- Settling
    Recipients = {carol}
    KeyAddr = vault1
    ZeroAddr = zero
    VaultChoices = {vault1, vault2}
    FeeCaps = {1}
    EthGas = 1
    TokenGas = 2
    MinWithdrawal <- UnitMinimum
    Retention = 2
    ExpiryWindow = 1
    InitHive = 1
    MaxHive = 2
    MaxHeight = 4
    MaxNonce = 2
    ForeignTxs <- Traffic
    OwnEvidenceOnly = FALSE
    MatchingTokenOnly = TRUE
    IsTestnet = FALSE
PROPERTY RefundOnlyIfNotExecuted
CHECK_DEADLOCK FALSE
