---------------------------- MODULE MCDictionary ----------------------------
(***************************************************************************)
(* Instances of the dictionary for TLC.                                    *)
(***************************************************************************)
EXTENDS Dictionary, TLC

CONSTANTS n1, n2, n3, n4

FourNodes == {n1, n2, n3, n4}

\* Addresses play no part.
FourAddresses == Permutations(FourNodes)
=============================================================================
