\* Two labels of one scope, two concurrent requests, reloads, a rotation and time.
SPECIFICATION FairSpec
CONSTANTS
  ca1 = ca1
  ca2 = ca2
  r1 = r1
  r2 = r2
  None = None
  Order <- TwoOrder
  Setups <- ThreeSetups
  Serials = {1}
  Requests = {r1, r2}
  Validity = 1
  CertLife = 1
  MaxAge = 1
  MaxTime = 2
  MaxVersion = 1
CHECK_DEADLOCK FALSE
INVARIANT TypeOK
INVARIANT AnswersStayInWindow
INVARIANT SignerIsValid
INVARIANT OwnKeySigns
PROPERTY EveryRequestIsAnswered
