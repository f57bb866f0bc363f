----------------------- MODULE MCCommandKernelBridge -----------------------
(***************************************************************************)
(* CommandKernelBridge on small instances; the bounds are in the .cfg      *)
(* files.                                                                  *)
(***************************************************************************)
EXTENDS CommandKernelBridge
=============================================================================
