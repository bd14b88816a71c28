\* An RPC node that answers null for a block, its logs or a receipt.
SPECIFICATION Spec
CONSTANTS
    usdc = usdc
    dai = dai
    Tokens = {usdc, dai}
    Eth = eth
    Word = 2
    Contents <- AllContents
    MaxHeight = 1
    MaxRetryAttempts = 2
    NullAnswers = TRUE
INVARIANT NoDepositSkipped
CHECK_DEADLOCK FALSE
