-------------------------- MODULE MCTenantBackups --------------------------
(* TLC instance of TenantBackups: model values and symmetry.               *)
EXTENDS TenantBackups, TLC

Symmetry == Permutations(Backups) \cup Permutations(Workers)
=============================================================================
