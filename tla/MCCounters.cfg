\* Two counters, two lectures, two challenges.
SPECIFICATION CounterSpec
CONSTANTS
  KeyIds = {0}
  AfterLast = 3
  Keys = {r}
  NoKey = noKey
  OddKey = oddKey
  PrefixCommands = {}
  EqualCommands <- MCEqual
  SignedBy <- MCSignedBy
  ChallengeSizes = {16}
  Increments <- MCIncrements
  Nothing = nothing
  OtherData = otherData
  CounterIds = {1, 2}
  Cursors = {0, 1, 2}
  NewCounters <- MCNewCounters
  MaxDrawn = 2
  MaxSigned = 2
  MaxArchives = 1
VIEW WithoutHistory
CONSTRAINT Bounds
INVARIANTS CountersTypeOK AttendanceCountedOnce IndexEarned
