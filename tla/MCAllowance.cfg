\* A passive owner, spenders under allowance, transfers, on a testnet contract.
SPECIFICATION Spec
CONSTANTS
    other = other
    Accounts <- NestedNames
    Callers <- JustBob
    Spenders <- JustBob
    Parts <- DashedNames
    Eth = eth
    Tokens = {usdc}
    Amounts = {1}
    MinGasReserve = 2
    InitBal <- ThinlyFunded
    InitAllow <- AliceAllowsBob
    InitSupply <- ThinSupply
    InitReserve = 3
    ReserveChoices = {3}
    MaxAllowance = 1
    Ops <- ForOthers
    Recipients = {carol}
    KeyAddr = vault1
    ZeroAddr = zero
    VaultChoices = {vault1, vault2}
    FeeCaps = {1}
    EthGas = 1
    TokenGas = 2
    MinWithdrawal <- UnitMinimum
    Retention = 2
    ExpiryWindow = 1
    InitHive = 1
    MaxHive = 1
    MaxHeight = 1
    MaxNonce = 1
    ForeignTxs <- NoTraffic
    OwnEvidenceOnly = TRUE
    MatchingTokenOnly = TRUE
    IsTestnet = TRUE
INVARIANT QueueInv
INVARIANT UserSupplyTracksBalances
INVARIANT PassiveOwnerLosesAtMostAllowance
CHECK_DEADLOCK FALSE
