--------------------------- MODULE MC_BundleVault ---------------------------
(***************************************************************************)
(* TLC instance of BundleVault.  Captures are interchangeable, and so are  *)
(* generations and encrypted members: no action orders or compares them.   *)
(***************************************************************************)
EXTENDS BundleVault, TLC

Symmetry ==
  Permutations(Capture) \cup Permutations(Generation) \cup Permutations(Payload)
    \cup Permutations(App)

=============================================================================
