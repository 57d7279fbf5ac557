\* Three nodes, one of which uses another one's name; every fault.
SPECIFICATION FairSpec
CONSTANTS
  A = A
  B = B
  C = C
  a = a
  b = b
  c = c
  ka = ka
  kb = kb
  kc = kc
  s1 = s1
  s2 = s2
  None = None
  Nodes = {A, B, C}
  Names = {a, b, c}
  Keys = {ka, kb, kc}
  Scopes = {s1, s2}
  OutOfBounds = {}
  Urgent = {s2}
  Produces <- MixedProduces
  Fleets <- MixedFleets
  ChannelCap = 1
  AdmittedCap = 1
  TableCap = 1
  Ttl = 1
  MaxEpoch = 2
  MaxAnnounced = 2
  MaxFaults = 1
  Faults = {"forget", "stop", "expire"}
CHECK_DEADLOCK FALSE
INVARIANT TypeOK
INVARIANT OnlyMappedKeysAreHeard
INVARIANT RowsWereAnnounced
INVARIANT LagIsNotOverstated
INVARIANT OwnFramesAreAccepted
PROPERTY RowsNeverGoBack
PROPERTY NewestIsLearned
