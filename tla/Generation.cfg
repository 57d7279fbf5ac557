CONSTANTS
    None = None
    Garbled = Garbled
    Setups <- MCSetups
    Truth <- MCTruth
    PqDisc = 3
    MaxDays = 2
    Damages = {"truncate", "garble", "exchange", "header", "field"}
SPECIFICATION Spec
CHECK_DEADLOCK FALSE
INVARIANT EveryIssuedSerialIsAnswered
INVARIANT ValidityIsSourced
INVARIANT StatusIsTheCAs
INVARIANT MappedAgrees
INVARIANT DamageIsRefused
