\* A native deposit routed to the DEX.
SPECIFICATION Spec
CONSTANTS
    vault1 = vault1
    vault2 = vault2
    payer = payer
    Accounts <- FourAccounts
    Callers <- JustRelayer
    Spenders = {}
    Parts = {}
    Eth = eth
    Tokens = {usdc}
    Amounts = {}
    MinGasReserve = 0
    InitBal <- NoBalance
    InitAllow <- NoAllowance
    InitSupply <- NoSupply
    InitReserve = 0
    ReserveChoices = {}
    MaxAllowance = 0
    Ops <- Depositing
    Contents <- AllContents
    NoParent = none
    ChainId = 1
    Chains = {1, 9}
    Verifiers = {}
    NoVerifier = noverifier
    Retention = 2
    Feeders <- JustRelayer
    Items <- AllItems
    Addresses = {zero, payer, vault1, vault2}
    ZeroAddr = zero
    VaultChoices = {vault1}
    Self <- Contract
    Router <- Dex
    NoRouter = norouter
    Relayers <- JustRelayer
    TaxBps = 2500
    SwapAssets = {eth}
    RouterAtomic = TRUE
    IsTestnet = FALSE
    BlocksAt <- Heights1
    MaxHeight = 2
    MaxCredits = 2
INVARIANT UserSupplyIsCredited
CHECK_DEADLOCK FALSE
