------------------------------ MODULE MCGroups ------------------------------
(* Groups for TLC: four values of a byte, small numbers of two bytes and     *)
(* big ones of three, and numbers of each length there may be.               *)
EXTENDS Groups, TLC

OneGroup   == {0}
CONSTANTS g1, g2

MCGens     == {g1, g2}
SameGens   == Permutations(MCGens)
MCData     == {<<>>, <<2, 3>>, <<3, 1>>, <<1, 2, 1>>}
MCNonces   == {<<1>>, <<3>>, <<1, 1>>, <<2, 3>>, <<3, 2>>}
MCChallenges == {<<1>>, <<3>>}
MCSecrets  == {<<2>>, <<3>>, <<1, 2>>}
=============================================================================
