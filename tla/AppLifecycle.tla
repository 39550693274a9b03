---------------------------- MODULE AppLifecycle ----------------------------
(***************************************************************************)
(* What the kernel promises about the processes in its slots               *)
(* (doc/reference/trd-appid.md section 4 and the State type of             *)
(* kernel/src/process.rs), leaving out how it schedules and runs them:     *)
(* which of them may be alive together, and that every life of a process   *)
(* carries an identifier of its own.                                       *)
(***************************************************************************)
EXTENDS Integers

CONSTANTS
  Procs,    \* the process slots in use
  SameApp   \* pairs that share an Application Identifier or a Short ID

VARIABLES
  phase,    \* [Procs -> Phases]
  life      \* [Procs -> Nat] identifier of the current life

lvars == <<phase, life>>

Phases == {"unchecked", "rejected", "approved", "alive", "dead"}

LInit ==
  /\ phase = [p \in Procs |-> "unchecked"]
  /\ life \in [Procs -> Nat]
  /\ \A p, q \in Procs : p # q => life[p] # life[q]

Move(p, from, to) ==
  /\ phase[p] \in from
  /\ phase' = [phase EXCEPT ![p] = to]
  /\ UNCHANGED life

\* The checking policy decides once; a rejected process never leaves the phase.
Verdict(p) == \E to \in {"approved", "rejected"} : Move(p, {"unchecked"}, to)

\* A process comes alive only from approved, and only if nothing it shares an
\* identifier with is alive.
Come(p) ==
  /\ \A q \in Procs \ {p} : <<p, q>> \in SameApp => phase[q] # "alive"
  /\ Move(p, {"approved"}, "alive")

\* Exit, fault, termination, or a refusal to start it.
Die(p) == Move(p, {"approved", "alive"}, "dead")

\* A new life, which has yet to be started and may fail to be set up.
Renew(p) ==
  /\ phase[p] \in {"approved", "alive", "dead"}
  /\ life'[p] \in Nat /\ \A q \in Procs : life'[p] > life[q]
  /\ life' = [life EXCEPT ![p] = life'[p]]
  /\ \E to \in {"approved", "dead"} : phase' = [phase EXCEPT ![p] = to]

LNext == \E p \in Procs : Verdict(p) \/ Come(p) \/ Die(p) \/ Renew(p)

LSpec == LInit /\ [][LNext]_lvars
=============================================================================
