-------------------------- MODULE MCTenantRestore --------------------------
(* TLC instance of TenantRestore: model values and symmetry.               *)
EXTENDS TenantRestore, TLC

Symmetry == Permutations(Requests) \cup Permutations(Workers)
=============================================================================
