\* Headers replaced and observed lists cleared.
SPECIFICATION Spec
CONSTANTS
    vault1 = vault1
    vault2 = vault2
    payer = payer
    Accounts <- ThreeAccounts
    Callers <- JustRelayer
    Spenders = {}
    Parts = {}
    Eth = eth
    Tokens = {usdc}
    Amounts = {}
    MinGasReserve = 0
    InitBal <- NoBalance
    InitAllow <- NoAllowance
    InitSupply <- NoSupply
    InitReserve = 0
    ReserveChoices = {}
    MaxAllowance = 0
    Ops <- Rewriting
    Contents <- ForkedContents
    NoParent = none
    ChainId = 1
    Chains = {1, 9}
    Verifiers = {}
    NoVerifier = noverifier
    Retention = 2
    Feeders <- JustRelayer
    Items <- ForkedItems
    Addresses = {zero, payer, vault1, vault2}
    ZeroAddr = zero
    VaultChoices = {vault1, vault2}
    Self <- Contract
    Router <- Dex
    NoRouter = norouter
    Relayers = {}
    TaxBps = 2500
    SwapAssets = {usdc}
    RouterAtomic = FALSE
    IsTestnet = TRUE
    BlocksAt <- Forked
    MaxHeight = 3
    MaxCredits = 2
INVARIANT HeaderWindow
INVARIANT ObservedIsCredited
INVARIANT CreditsAreHeld
PROPERTY StaleEntriesForgotten
CHECK_DEADLOCK FALSE
