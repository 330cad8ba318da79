--------------------------- MODULE MCProofSession ---------------------------
(* ProofSession with a bounded random stream.  *)
EXTENDS ProofSession, FiniteSets, TLC

CONSTANTS
  MaxDrawn,    \* random values drawn in one run of the program
  MaxShared    \* the same while there are two provers or two credentials

Shared == \/ Cardinality({p \in ProverIds : provers[p].exists}) > 1
          \/ Cardinality({k \in CredIds : credentials[k].exists}) > 1

Bounds == drawn <= IF Shared THEN MaxShared ELSE MaxDrawn

Symmetry == Permutations(Challenges) \cup Permutations(ProverIds) \cup Permutations(CredIds)
=============================================================================
