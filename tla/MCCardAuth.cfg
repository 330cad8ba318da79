\* The root key and one more, two signers, two challenges.
SPECIFICATION Spec
CONSTANTS
  KeyIds = {0, 1}
  AfterLast = 3
  Keys = {r, t}
  NoKey = noKey
  OddKey = oddKey
  PrefixCommands = {}
  EqualCommands = {e1}
  r = r
  t = t
  e1 = e1
  inc1 = inc1
  SignedBy <- MCSignedBy
  ChallengeSizes = {15, 16}
  Increments = {inc1}
  Nothing = nothing
  OtherData = otherData
  MaxDrawn = 2
  MaxSigned = 2
CONSTRAINT Bounds
PROPERTIES KeysChangeAsSigned
INVARIANTS TypeOK ChallengeAcceptedOnce ChangesAuthenticated
