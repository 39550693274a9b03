---------------------------- MODULE MCKernelParts ---------------------------
(***************************************************************************)
(* Four parts of the kernel that share no state, side by side: the ring    *)
(* buffer behind the task queues, the table of deferred calls, the queues  *)
(* of the multilevel feedback scheduler and the machine that checks        *)
(* credentials.  A behaviour is one of the part chosen at the start, the   *)
(* others keep a first state of theirs.                                    *)
(***************************************************************************)
EXTENDS RingBuffer, DeferredCall, MLFQ, MCCredentialsChecker

CONSTANTS p1, p2, p3

VARIABLE part

partvars == <<part, ringvars, callvars, vars, checkervars>>

PartsInit ==
  /\ part \in {"ring_buffer", "deferred_call", "mlfq", "checker"}
  /\ RingInit /\ (part # "ring_buffer" => \A c \in Cells : ring[c] = CHOOSE e \in Elems : TRUE)
  /\ CallsInit
  /\ Init /\ (part # "mlfq" => processes[0] = <<p1, p2, p3>>)
  /\ CheckerInit
  /\ part # "checker" => ~require /\ \A s \in Positions : footers[s] = NoProcess

RingStep == part = "ring_buffer" /\ RingNext /\ UNCHANGED <<part, callvars, vars, checkervars>>
CallStep == part = "deferred_call" /\ CallsNext /\ UNCHANGED <<part, ringvars, vars, checkervars>>
QueueStep == part = "mlfq" /\ Next /\ UNCHANGED <<part, ringvars, callvars, checkervars>>
CheckerStep == part = "checker" /\ CheckerNext /\ UNCHANGED <<part, ringvars, callvars, vars>>

PartsNext == RingStep \/ CallStep \/ QueueStep \/ CheckerStep

PartsSpec == PartsInit /\ [][PartsNext]_partvars /\ WF_partvars(CheckerStep)

\* Checking comes to its end, or to an error of the policy, whatever footers the
\* binaries have: next() and check_done() do not call each other for ever.
CheckingEnds == part = "checker" => Terminates
=============================================================================
