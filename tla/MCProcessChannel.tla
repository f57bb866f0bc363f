-------------------------- MODULE MCProcessChannel --------------------------
(***************************************************************************)
(* ProcessChannel on small instances; the bounds are in the .cfg files.    *)
(***************************************************************************)
EXTENDS ProcessChannel
=============================================================================
