----------------------------- MODULE MCCardLink -----------------------------
(* CardLink as it is: every constant is given by the configuration.  *)
EXTENDS CardLink
=============================================================================
