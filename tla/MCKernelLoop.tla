---------------------------- MODULE MCKernelLoop ----------------------------
(***************************************************************************)
(* Three processes and an empty slot.                                      *)
(***************************************************************************)
EXTENDS KernelLoop

CONSTANTS p1, p2, p3, empty
=============================================================================
