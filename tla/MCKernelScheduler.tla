-------------------------- MODULE MCKernelScheduler --------------------------
(* Small instances of KernelScheduler for TLC. *)
EXTENDS KernelScheduler
=============================================================================
