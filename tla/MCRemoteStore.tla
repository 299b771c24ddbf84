--------------------------- MODULE MCRemoteStore ---------------------------
(***************************************************************************)
(* Values of the constants of RemoteStore for TLC.                         *)
(***************************************************************************)
EXTENDS RemoteStore, TLC

CONSTANTS k1, k2, b1, b2, p1, p2, g1

MCDigest  == (k1 :> b1) @@ (k2 :> b2)
MCBackend == (k1 :> "s3") @@ (k2 :> "gcs")
OneDigest  == (k1 :> b1)
OneBackend == (k1 :> "s3")

Symm == Permutations({p1, p2})
=============================================================================
