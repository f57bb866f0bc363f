--------------------------- MODULE MCKernelSessions ---------------------------
(***************************************************************************)
(* KernelSessions on small instances; the bounds are in the .cfg files.    *)
(***************************************************************************)
EXTENDS KernelSessions
=============================================================================
