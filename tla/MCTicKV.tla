------------------------------ MODULE MCTicKV ------------------------------
(***************************************************************************)
(* Two regions: the main key lives in the first, both user keys belong to  *)
(* the second. Two values: two small objects leave room for a header, a    *)
(* small and a large one do not.                                           *)
(***************************************************************************)
EXTENDS TicKV, TLC

CONSTANTS k1, k2, small, large

MCHome == (MainKey :> 0) @@ (k1 :> 1) @@ (k2 :> 1)
MCLength == (NoValue :> 0) @@ (small :> 1) @@ (large :> 3)
=============================================================================
