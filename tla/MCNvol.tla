------------------------------- MODULE MCNvol -------------------------------
(***************************************************************************)
(* Instances of one nvol3 volume for TLC.                                  *)
(***************************************************************************)
EXTENDS NvolDurable

CONSTANTS k1, k2, k3, v1, v2

OneKey == {k1}
TwoKeys == {k1, k2}
ThreeKeys == {k1, k2, k3}

OnePut == {<<k1, v1>>}

\* Both values of k1, so that records of it are updated, one of every other key.
SomePuts == {<<k1, v1>>, <<k1, v2>>} \cup (Keys \X {v2})
=============================================================================
