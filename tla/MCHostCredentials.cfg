\* Three credentials, two slots on the card and five blobs; the host believes in three
\* slots.  Two restarts, one lost exchange, three secrets.
SPECIFICATION HostSpec
CONSTANTS
  Creds = {c1, c2, c3}
  NoCred = noCred
  NumCreds = 2
  MaxNoOfCredentials = 3
  MaxBlobs = 5
  Bytes = {4}
  Shapes <- MCShapes
  MaxParts = 2
  MaxIssued = 3
  MaxRestarts = 2
  MaxLosses = 1
SYMMETRY CredSymmetry
INVARIANTS HostTypeOK CredentialsKept CacheFollowsCard
PROPERTIES DeletionIsComplete ReadsBack
