SPECIFICATION Spec
CONSTANTS
  Pins = {p0, p1}
  Puks = {u0, u1}
  ZeroPin = p0
  ZeroPuk = u0
  Passwords = {w1, w2}
  CountersImage = countersImage
  OtherData = otherData
  MaxPinTrials = 3
  MaxPukTrials = 3
  MaxArchives = 2
VIEW WithoutLast
CONSTRAINT Bounds
INVARIANTS TypeOK TrialLeftWhereChecked AttemptsBounded
PROPERTIES StoppedUnlessUnlockedOrErased ErrorKeepsSecrets RestoredPairWasBackedUp
