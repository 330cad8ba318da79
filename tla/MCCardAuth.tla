----------------------------- MODULE MCCardAuth -----------------------------
(* CardAuth with a bounded number of challenges and signatures.  *)
EXTENDS CardAuth

CONSTANTS MaxDrawn, MaxSigned, r, t, e1, inc1

\* The root signs commands; the other signs an increment and, out of place, a command.
MCSignedBy ==
  [s \in Keys |-> IF s = r THEN {Message(SetKey(1), t), Message(RemoveKey(0), Nothing)}
                           ELSE {Message(e1, Nothing), inc1}]

Bounds == drawn <= MaxDrawn /\ Cardinality(signed) <= MaxSigned
=============================================================================
