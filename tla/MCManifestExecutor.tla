------------------------- MODULE MCManifestExecutor -------------------------
(***************************************************************************)
(* ManifestExecutor over the manifests of Providers, for TLC.              *)
(***************************************************************************)
EXTENDS ManifestExecutor, Providers

Manifests == Vendors
=============================================================================
