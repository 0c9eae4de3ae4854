------------------------------- MODULE MCTask -------------------------------
(***************************************************************************)
(* Small instances of ProvisionTask.  The task never reads the contact      *)
(* address of an organization; the admin form takes an address of its own.  *)
(***************************************************************************)
EXTENDS ProvisionTask, TLC

CONSTANTS contact

MCContactEmail == [t \in Tenants |-> contact]

\* Jobs are interchangeable, and so are task ids.
TaskSymmetry == Permutations(Jobs) \cup Permutations(TaskIds)
=============================================================================
