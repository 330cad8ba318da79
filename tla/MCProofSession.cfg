\* Two provers, two credentials of one issuer, two challenges; four random values while they
\* are shared, six for an issuance and two presentations by one prover.
SPECIFICATION Spec
CONSTANTS
  ProverIds = {p1, p2}
  CredIds = {k1, k2}
  IssuerIds = {i1}
  NoProver = noProver
  NoIssuer = noIssuer
  Challenges = {c1, c2}
  NoChallenge = noChallenge
  Presentations = {1}
  MaxDrawn = 6
  MaxShared = 4
SYMMETRY Symmetry
CONSTRAINT Bounds
INVARIANTS TypeOK OneChallengePerNonce OpenNoncesUnused PresentationsWithinLimit
