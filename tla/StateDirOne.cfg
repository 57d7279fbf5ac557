\* One CA: forks, chained and jumping epochs, an expiring seal, every fault.
SPECIFICATION Spec
CONSTANTS
  a1 = a1
  a2 = a2
  a2x = a2x
  a5 = a5
  c1 = c1
  m1 = m1
  m3 = m3
  A = A
  B = B
  C = C
  kA = kA
  kC = kC
  fA = fA
  fC = fC
  None = None
  Label <- OneLabel
  Order <- OneOrder
  Path <- OnePath
  path <- OnePathOf
  Legacy = FALSE
  Bundle <- OneBundle
  Digest <- OneBundle
  Key <- OneKey
  ca_scopes <- MCScopes
  epoch <- MCEpoch
  digest <- MCDigest
  prev <- MCPrev
  published <- OnePublish
  expiring = {a1}
  MAX_EPOCH_JUMP <- MCMaxJump
  Faults = {"kill", "power", "fsync"}
CHECK_DEADLOCK FALSE
INVARIANT TypeOK
INVARIANT ServedIsDurable
INVARIANT CommittedIsServed
INVARIANT ServedIsNewest
PROPERTY DurableNeverRollsBack
