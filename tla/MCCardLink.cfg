\* Three calls, answers of none, one, two and three responses, the second of them full.
SPECIFICATION Spec
CONSTANTS
  Sizes = {0, 2, 4, 5}
  MaxOutput = 2
  MaxCalls = 3
  Unreadable = unreadable
INVARIANTS TypeOK AnsweredIsSaved
PROPERTIES ImplementsCalls CallEnds
