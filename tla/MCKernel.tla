------------------------------ MODULE MCKernel ------------------------------
(***************************************************************************)
(* Two processes, of which one is restarted when it faults and the other   *)
(* is stopped: the newer and the older version of one application, or two  *)
(* applications that notify each other.                                    *)
(***************************************************************************)
EXTENDS Kernel, TLC

CONSTANTS old, new

MCSameApp == {<<old, new>>, <<new, old>>}
MCVersion == (old :> 1) @@ (new :> 2)
MCPolicy == (old :> "Stop") @@ (new :> "ThresholdRestartThenPanic")
=============================================================================
