SPECIFICATION Spec
CONSTANTS
  Base = 4
  MaxSmall = 2
  MaxBig = 3
  HashSize = 1
  GroupIds <- OneGroup
  g1 = g1
  g2 = g2
  Gens <- MCGens
  Data <- MCData
  Nonces <- MCNonces
  Challenges <- MCChallenges
  Secrets <- MCSecrets
SYMMETRY SameGens
INVARIANTS TypeOK ModulusPadded ReadsWhatWasSet GeneratorsCounted BaseIsGenerator ResponsesRight
