----------------------------- MODULE VirtualPwm -----------------------------
(***************************************************************************)
(* virtual_pwm.rs: MuxPwm and PwmPinUser.  The user in flight has the PWM  *)
(* until it stops; what the others want waits in their slots.  There are   *)
(* no callbacks.  hardware is the pin that is driven, and asked[d] is      *)
(* whether the last command of d was to start.                             *)
(***************************************************************************)
EXTENDS Mux

\* Mutant: a stop is dropped unless the pin is driven.
CommandUnlessStop(d, op) ==
  /\ operation' = [operation EXCEPT ![d] = IF op = "Stop" /\ inflight # d THEN @ ELSE op]
  /\ stack' = <<DoNextOp>>

\* The command replaces one that has not been carried out.
Command(d, op) ==
  /\ operation' = [operation EXCEPT ![d] = op]
  /\ stack' = <<DoNextOp>>

start(d) ==
  /\ stack = <<>>
  /\ Command(d, "Simple")
  /\ asked' = [asked EXCEPT ![d] = 1]
  /\ UNCHANGED <<buffer, inflight, hardware, deferred, refused, queue>>

stop(d) ==
  /\ stack = <<>>
  /\ Command(d, "Stop")
  /\ asked' = [asked EXCEPT ![d] = 0]
  /\ UNCHANGED <<buffer, inflight, hardware, deferred, refused, queue>>

NextNothing ==
  /\ Running("next") /\ IF inflight = None THEN Pending = {} ELSE operation[inflight] = "Idle"
  /\ Calls(<<>>)
  /\ UNCHANGED <<operation, buffer, inflight, hardware, deferred, asked, refused, queue>>

\* The first user with a command gets the PWM, even if it cannot be started; a
\* stop has nothing to stop, and the search goes on.
NextUser ==
  /\ Running("next") /\ inflight = None /\ Pending # {}
  /\ operation' = [operation EXCEPT ![FirstNode] = "Idle"]
  /\ IF operation[FirstNode] = "Stop"
     THEN UNCHANGED <<stack, inflight, hardware, refused>>
     ELSE /\ inflight' = FirstNode
          /\ Calls(<<>>)
          /\ \/ hardware' = FirstNode /\ UNCHANGED refused
             \/ refused' = TRUE /\ UNCHANGED hardware
  /\ UNCHANGED <<buffer, deferred, asked, queue>>

\* A command of the user that has the PWM is carried out, and the search goes
\* on.
NextCommand ==
  /\ Running("next") /\ inflight # None
  /\ operation[inflight] # "Idle"
  /\ operation' = [operation EXCEPT ![inflight] = "Idle"]
  /\ LET stops == operation[inflight] = "Stop" IN
     /\ inflight' = IF stops THEN None ELSE inflight
     /\ \/ hardware' = inflight' /\ UNCHANGED refused
        \/ refused' = TRUE /\ UNCHANGED hardware
  /\ UNCHANGED <<buffer, deferred, stack, asked, queue>>

Step == NextNothing \/ NextUser \/ NextCommand
Next == Step \/ \E d \in Devices : start(d) \/ stop(d)

=============================================================================
