\* Three CAs, two with one file: processes die and fsyncs fail, the machine stays up.
SPECIFICATION Spec
CONSTANTS
  a1 = a1
  a2 = a2
  a2x = a2x
  a5 = a5
  c1 = c1
  m1 = m1
  m3 = m3
  A = A
  B = B
  C = C
  kA = kA
  kC = kC
  fA = fA
  fC = fC
  None = None
  Label <- ThreeLabel
  Order <- ThreeOrder
  Path <- TwoPath
  path <- ThreePathOf
  Legacy = FALSE
  Bundle <- ThreeBundle
  Digest <- ThreeBundle
  Key <- TwoKey
  ca_scopes <- MCScopes
  epoch <- MCEpoch
  digest <- MCDigest
  prev <- MCPrev
  published <- ThreePublish
  expiring = {}
  MAX_EPOCH_JUMP <- MCMaxJump
  Faults = {"kill", "fsync"}
CHECK_DEADLOCK FALSE
INVARIANT RestartOpens
INVARIANT RecoveryIsAccepted
INVARIANT UnchangedReloadIsAccepted
INVARIANT SharedFileAgrees
