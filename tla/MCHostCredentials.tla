-------------------------- MODULE MCHostCredentials --------------------------
(* HostCredentials with serialized credentials of one and two blobs.  *)
EXTENDS HostCredentials

CONSTANTS Bytes   \* values of a last piece of one byte

Plain    == {[parts |-> 1, last |-> "short", value |-> 0], [parts |-> 1, last |-> "full", value |-> 0],
             [parts |-> 2, last |-> "short", value |-> 0]}
OneByte  == {[parts |-> 2, last |-> "byte", value |-> b] : b \in Bytes}
MCShapes == Plain \cup OneByte

CredSymmetry == Permutations(Creds)
=============================================================================
