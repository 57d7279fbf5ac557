CONSTANTS
    None = None
    Garbled = Garbled
    Gone = Gone
    Slots <- MCSlots
    Fulls <- MCFulls
    Deltas <- MCDeltas
    FirstEpochs = {1, 2}
    EpochLimit = 5
    SealCert <- MCSealCert
    MaxPublished = 4
    MaxApplied = 2
    MaxResults = 1
SPECIFICATION Spec
CHECK_DEADLOCK FALSE
INVARIANT MaterializedIsLastWrite
INVARIANT EnvelopeIsConservative
INVARIANT OnlyWholeChainsApply
INVARIANT DiffIsNetChange
