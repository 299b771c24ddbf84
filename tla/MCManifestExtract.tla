------------------------- MODULE MCManifestExtract -------------------------
(***************************************************************************)
(* ManifestExtract for TLC: every archive of up to three entries.          *)
(***************************************************************************)
EXTENDS ManifestExtract
=============================================================================
