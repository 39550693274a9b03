---------------------------- MODULE AlarmService ----------------------------
(***************************************************************************)
(* What the Alarm interface promises each client (kernel/src/hil/time.rs): *)
(* an armed alarm runs its callback once, never before reference + dt, and *)
(* with a bounded delay after it. Time is true elapsed time: left[c] is    *)
(* the number of ticks until the alarm of c is due, negative when it is    *)
(* overdue. Nothing here knows of wrapping counters or of sharing. The     *)
(* alarms are numbered from 1.                                             *)
(***************************************************************************)
EXTENDS Integers

CONSTANTS Alarms,     \* the clients' alarms
          MaxLeft,    \* the longest wait a client can ask for
          MaxLate     \* the longest delay of a callback

VARIABLES armed, left,
          called      \* the alarm whose callback is running, 0 if none is

vars == <<armed, left, called>>

Init == /\ armed = [c \in Alarms |-> FALSE]
        /\ left = [c \in Alarms |-> 0]
        /\ called = 0

\* A client (re)arms its alarm to be due in n ticks.
Set(c, n) == /\ armed' = [armed EXCEPT ![c] = TRUE]
             /\ left' = [left EXCEPT ![c] = n]
             /\ UNCHANGED called

Clear(c) == /\ armed' = [armed EXCEPT ![c] = FALSE]
            /\ left' = [left EXCEPT ![c] = 0]

Disarm(c) == Clear(c) /\ UNCHANGED called

\* The callback: only of an armed alarm that is due.
Fire(c) == /\ armed[c]
           /\ left[c] <= 0
           /\ Clear(c)
           /\ called' = c

Return == called' = 0 /\ UNCHANGED <<armed, left>>

\* A tick may not push an armed alarm past the longest delay.
Tick == /\ \A c \in Alarms : armed[c] => left[c] > -MaxLate
        /\ left' = [c \in Alarms |-> IF armed[c] THEN left[c] - 1 ELSE left[c]]
        /\ UNCHANGED <<armed, called>>

Next == \/ Tick
        \/ Return
        \/ \E c \in Alarms : \/ \E n \in 0..MaxLeft : Set(c, n)
                             \/ Disarm(c)
                             \/ Fire(c)

Spec == Init /\ [][Next]_vars
=============================================================================
