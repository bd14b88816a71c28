\* Two proposals side by side, with lapsed ones expired by anyone.
SPECIFICATION FairSpec
CONSTANTS
    owner = owner
    other = other
    Values = {owner, other}
    Empty = empty
    Owner = owner
    Callers = {owner, other}
    TimelockLong = 3
    TimelockTactical = 2
    TimelockOperational = 1
    ExpireWindowBlocks = 2
    Proposable <- Operating
    MaxProposals = 2
    MaxHive = 5
INVARIANT TypeOK
INVARIANT EnactedOnce
PROPERTY RecordsPermanent
PROPERTY PauseFreezes
PROPERTY ImplementsAnnouncedChange
PROPERTY EveryProposalResolves
CHECK_DEADLOCK FALSE
