\* As MCHostCredentials, with credentials whose last piece is one byte of value 2.
SPECIFICATION HostSpec
CONSTANTS
  Creds = {c1, c2, c3}
  NoCred = noCred
  NumCreds = 2
  MaxNoOfCredentials = 3
  MaxBlobs = 5
  Bytes = {2}
  Shapes <- MCShapes
  MaxParts = 2
  MaxIssued = 3
  MaxRestarts = 0
  MaxLosses = 0
SYMMETRY CredSymmetry
INVARIANTS TakesOverIdBlobs
