-------------------------- MODULE MCProcessMemory --------------------------
(***************************************************************************)
(* A process with 20 bytes of RAM in an address space of 64, two drivers   *)
(* and three grants, two of them of the same driver.                       *)
(***************************************************************************)
EXTENDS ProcessMemory, TLC

CONSTANTS g1, g2, g3, d1, d2

MCDriverOf == (g1 :> d1) @@ (g2 :> d2) @@ (g3 :> d2)
MCGrantSize == (g1 :> 4) @@ (g2 :> 3) @@ (g3 :> 1)
MCGrantAlign == (g1 :> 4) @@ (g2 :> 1) @@ (g3 :> 2)

\* A word, and a byte: the second leaves the break off any word boundary.
MCCustoms == {<<4, 4>>, <<1, 1>>}

\* Empty, in flash, at the start of RAM, near its end, wrapping around.
MCRanges == {<<0, 0>>, <<5, 3>>, <<17, 4>>, <<25, 3>>, <<60, 8>>}

\* The start of RAM, above the low buffer, above the high one, out of range.
MCAddrs == {16, 21, 28, 63}
=============================================================================
