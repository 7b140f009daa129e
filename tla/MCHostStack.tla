----------------------------- MODULE MCHostStack -----------------------------
(* HostStack on a small instance.                                          *)
EXTENDS HostStack, TLC

\* The two bundles are alike.
Symmetry == Permutations(Bundles)
=============================================================================
