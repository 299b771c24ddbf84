-------------------------------- MODULE MCOCI --------------------------------
(***************************************************************************)
(* Values of the constants of OCI for TLC.                                 *)
(***************************************************************************)
EXTENDS OCI, FiniteSets, Naturals, TLC

CONSTANTS n1, t1, b1, b2, u1, c1, c2

\* At most three of the six possible blobs.
FewBlobs == Cardinality(blobs) <= 3

Symm == Permutations({b1, b2}) \cup Permutations({c1, c2})
=============================================================================
