CONSTANTS
    None = None
    Garbled = Garbled
    Setups <- Sha1Setups
    Truth <- MCTruth
    PqDisc = 3
    MaxDays = 1
    Damages = {}
SPECIFICATION Spec
CHECK_DEADLOCK FALSE
INVARIANT AbsenceMeansNeverIssued
