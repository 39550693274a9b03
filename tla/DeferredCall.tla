---------------------------- MODULE DeferredCall ----------------------------
(***************************************************************************)
(* Deferred calls (deferred_call.rs): created and registered while the     *)
(* board is set up, verified once, then set and serviced by the main loop. *)
(***************************************************************************)
EXTENDS Integers, FiniteSets

CONSTANTS
  DEFCALLS_LEN,  \* DEFCALLS.len(), and the width of BITMASK
  MaxCalls       \* bound: deferred calls a board creates

ASSUME DeferredAssumption == DEFCALLS_LEN \in Nat \ {0} /\ MaxCalls \in Nat

VARIABLES
  CTR,         \* deferred calls created; their indices are 1 .. CTR
  BITMASK,     \* the set of bits that are set
  DEFCALLS,    \* the indices that hold a handler
  asked,       \* history: calls set and not handled since
  stage        \* "setup", "loop"; "panic" of verify_setup, "overflow" of a shift

callvars == <<CTR, BITMASK, DEFCALLS, asked, stage>>

Created == 1 .. CTR

CallsInit ==
  /\ CTR = 0 /\ BITMASK = {} /\ DEFCALLS = {}
  /\ asked = {}
  /\ stage = "setup"

new ==
  /\ stage = "setup" /\ CTR < MaxCalls
  /\ CTR' = CTR + 1
  /\ UNCHANGED <<BITMASK, DEFCALLS, asked, stage>>

\* register: an index that does not fit is left to verify_setup.
register(i) ==
  /\ stage = "setup" /\ i \in Created
  /\ DEFCALLS' = IF i >= DEFCALLS_LEN THEN DEFCALLS ELSE DEFCALLS \cup {i}
  /\ UNCHANGED <<CTR, BITMASK, asked, stage>>

\* Mutant: only the number of calls is verified.
FitsOnly == CTR < DEFCALLS_LEN

SetupOK == CTR < DEFCALLS_LEN /\ Cardinality(DEFCALLS) = CTR

\* At the beginning of the kernel loop.
verify_setup ==
  /\ stage = "setup"
  /\ stage' = IF SetupOK THEN "loop" ELSE "panic"
  /\ UNCHANGED <<CTR, BITMASK, DEFCALLS, asked>>

\* The shift by an index as large as the width stops the kernel or, without
\* overflow checks, wraps around.
set(i) ==
  /\ stage \in {"setup", "loop"} /\ i \in Created
  /\ \/ BITMASK' = BITMASK \cup {i % DEFCALLS_LEN} /\ asked' = asked \cup {i} /\ UNCHANGED stage
     \/ i >= DEFCALLS_LEN /\ stage' = "overflow" /\ UNCHANGED <<BITMASK, asked>>
  /\ UNCHANGED <<CTR, DEFCALLS>>

TrailingZeros(i) == i \in BITMASK /\ \A j \in BITMASK : i <= j

\* service_next_pending, with the calls the handler sets; a call without a
\* handler is cleared and forgotten.
service_next_pending(i, again) ==
  /\ stage = "loop" /\ TrailingZeros(i)
  /\ again # {} => i \in DEFCALLS
  /\ BITMASK' = (BITMASK \ {i}) \cup again
  /\ asked' = (IF i \in DEFCALLS THEN asked \ {i} ELSE asked) \cup again
  /\ UNCHANGED <<CTR, DEFCALLS, stage>>

CallsNext ==
  \/ new \/ verify_setup
  \/ \E i \in Created : register(i) \/ set(i)
  \/ \E i \in BITMASK, again \in SUBSET Created : service_next_pending(i, again)

CallsSpec == CallsInit /\ [][CallsNext]_callvars

-----------------------------------------------------------------------------
CallsTypeOK ==
  /\ CTR \in 0 .. MaxCalls
  /\ BITMASK \subseteq 0 .. DEFCALLS_LEN - 1
  /\ DEFCALLS \subseteq 1 .. DEFCALLS_LEN - 1
  /\ asked \subseteq Created
  /\ stage \in {"setup", "loop", "panic", "overflow"}

\* Once the setup is verified no deferred call is lost: the calls that were set
\* and not handled since are the ones pending, and each of them has a handler.
NoCallLost == stage = "loop" => BITMASK = asked /\ asked \subseteq DEFCALLS
=============================================================================
