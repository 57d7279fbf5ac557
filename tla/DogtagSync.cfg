\* Two entries that may carry the same serial, a directory that changes, trims
\* its log and fails over, and two faults.
SPECIFICATION FairSpec
CONSTANTS
  u1 = u1
  u2 = u2
  s1 = s1
  None = None
  Uuid <- TwoUuid
  Serial <- OneSerial
  MaxVersion = 4
  MaxFaults = 2
INVARIANT TypeOK
INVARIANT CheckpointResumes
INVARIANT SnapshotIsFresh
PROPERTY SnapshotsCatchUp
