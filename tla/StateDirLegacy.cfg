\* No configured CA: the newest bundle of a directory, and power losses.
SPECIFICATION Spec
CONSTANTS
  a1 = a1
  a2 = a2
  a2x = a2x
  a5 = a5
  c1 = c1
  m1 = m1
  m3 = m3
  A = A
  B = B
  C = C
  kA = kA
  kC = kC
  fA = fA
  fC = fC
  None = None
  Label <- OneLabel
  Order <- OneOrder
  Path <- TwoPath
  path <- LegacyPathOf
  Legacy = TRUE
  Bundle <- LegacyBundle
  Digest <- LegacyBundle
  Key <- TwoKey
  ca_scopes <- MCScopes
  epoch <- MCEpoch
  digest <- MCDigest
  prev <- MCPrev
  published <- LegacyPublish
  expiring = {}
  MAX_EPOCH_JUMP <- MCMaxJump
  Faults = {"power"}
CHECK_DEADLOCK FALSE
INVARIANT ReopenSucceeds
PROPERTY ImplementsTimeline
