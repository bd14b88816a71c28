\* Passes over three blocks in any order, with failing RPC calls and crashes.
SPECIFICATION FairSpec
CONSTANTS
    usdc = usdc
    dai = dai
    Tokens = {usdc, dai}
    Eth = eth
    Word = 2
    Contents <- AllContents
    MaxHeight = 3
    MaxRetryAttempts = 2
    NullAnswers = FALSE
INVARIANT NoDepositSkipped
PROPERTY ImplementsFeed
PROPERTY EveryDepositDelivered
CHECK_DEADLOCK FALSE
