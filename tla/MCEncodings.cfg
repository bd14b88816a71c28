SPECIFICATION MCSpec
CONSTANTS
    IntBytes = 2
    MaxDepth = 20
    MaxItemSize = 60
    MaxProofNodes = 20
    HashSize = 32
    Word = 65536
    AddressSize = 2
    SigSize = 3
    Blocks <- AllBlocks
    Unmined <- Forged
    Positions = {0, 1, 2, 15, 16, 127, 128, 129}
    Altered <- AlteredBlocks
    MaxChanges = 2
    ChainId = 5
    Vault <- vault
    Token <- token
    TransferEventSig <- transferSig
    Items <- SomeItems
    ByteStrings <- SomeBytes
    MaxUint64 = 15
    Letters = {"a"}
    Domains = {":"}
    MaxName = 3
INVARIANTS
    ProvedIsAccepted
    AcceptedIsOnChain
    WithdrawalReadBack
    DecodeInvertsEncode
    FeeCapExact
    KeysReachOnlyExtensions
CHECK_DEADLOCK FALSE
