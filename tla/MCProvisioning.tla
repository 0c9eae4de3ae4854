--------------------------- MODULE MCProvisioning ---------------------------
(***************************************************************************)
(* Small instances of ProvisioningService: every tenant belongs to an       *)
(* organization with the same contact address.                             *)
(***************************************************************************)
EXTENDS ProvisioningService, TLC

CONSTANTS contact

MCContactEmail == [t \in Tenants |-> contact]

\* Jobs, and tenants of the same contact, are interchangeable.
JobSymmetry == Permutations(Jobs)
Symmetry == Permutations(Jobs) \cup Permutations(Tenants)
=============================================================================
