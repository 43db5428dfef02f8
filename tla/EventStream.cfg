SPECIFICATION FairSpec
CONSTANTS
    QueueSize = 2
    MaxProgress = 4
INVARIANTS
    InOrder
    UncutStreamHasVerdict
PROPERTIES
    StreamEnds
    KeepsStreamContract
