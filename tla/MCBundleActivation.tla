-------------------------- MODULE MCBundleActivation --------------------------
(* BundleActivation on a small instance.                                   *)
EXTENDS BundleActivation
=============================================================================
