---------------------------- MODULE MCCardAccess ----------------------------
(* CardAccess with the trial limits of defs_consts.h.  *)
EXTENDS CardAccess, FiniteSets

CONSTANT MaxArchives    \* archives the client keeps at once

Bounds == /\ Cardinality(archives) <= MaxArchives
          /\ wrong_pins <= MaxPinTrials + 1 /\ wrong_puks <= MaxPukTrials + 1

\* No action reads the last answer: states that differ only there are explored once.
WithoutLast == <<mode, secrets, trials, root_key, buffer, archives>>
=============================================================================
