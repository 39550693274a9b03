------------------------------- MODULE Alarms -------------------------------
(***************************************************************************)
(* The two layers between the hardware alarm and the processes, side by    *)
(* side: the alarm virtualizer (VirtualAlarm) and the alarm driver         *)
(* (AlarmDriver).  A behaviour is one of the layer chosen at the start;    *)
(* the driver does not call the virtualizer here but an ideal alarm, for   *)
(* its references are older than the ones VirtualAlarm's clients use.      *)
(***************************************************************************)
EXTENDS VirtualAlarm

CONSTANTS NApps, U32, Moduli, AppDts, AppBack, AppLatency, MaxArmed

\* Every reference of a process is one of the last U32 ticks, and the alarm's
\* ticks are as wide as a u32 or wider by whole bits.
ASSUME DriverFits ==
  /\ {NApps, AppLatency, MaxArmed} \subseteq Nat /\ U32 \in Nat \ {0}
  /\ \A m \in Moduli : m \in Nat \ {0} /\ m % U32 = 0
  /\ AppDts \subseteq 0 .. U32 - 1 /\ AppBack \in 0 .. U32 - 1

VARIABLES layer, modulus, ticks, alarm, expiration, num_armed, resetting, due_in, late

Driver == INSTANCE AlarmDriver

drv == <<modulus, ticks, alarm, expiration, num_armed, resetting, due_in, late>>
allvars == <<layer, vars, drv>>

AlarmsInit ==
  /\ layer \in {"mux", "driver"}
  /\ Init /\ (layer = "driver" => now = 0)
  /\ Driver!DrvInit /\ (layer = "mux" => modulus = U32)

AlarmsNext ==
  /\ UNCHANGED layer
  /\ \/ layer = "mux" /\ Next /\ UNCHANGED drv
     \/ layer = "driver" /\ Driver!DrvNext /\ UNCHANGED vars

AlarmsSpec == AlarmsInit /\ [][AlarmsNext]_allvars

-----------------------------------------------------------------------------
DrvTypeOK ==
  /\ modulus \in Moduli /\ ticks \in 0 .. modulus - 1
  /\ alarm \in [armed : BOOLEAN, left : -(AppLatency + 1) .. U32]
  /\ \A p \in Driver!Apps :
       Driver!Enabled(p) => expiration[p] \in [reference : 0 .. U32 - 1, dt : AppDts]
  /\ num_armed \in 0 .. MaxArmed /\ resetting \in 0 .. 2 /\ late \in BOOLEAN

\* The end of one wait is not a whole turn of the u32 from the start of another.
HalfRange == \A dt \in AppDts : 2 * dt <= U32

\* As long as a process waits for an alarm the driver's alarm is set, and goes
\* off within the longest wait anyone asked for.  It goes off no later than any
\* process is due (and for a process that waits alone exactly then) if no alarm
\* was due yet, or seemed so, when it was set and no dt is more than half of the
\* range of a u32.  The ticks of processes and of the alarm may wrap meanwhile,
\* and processes may have ended with an alarm set, which the driver goes on
\* counting.
AppsWake ==
  /\ DrvTypeOK
  /\ resetting = 0 => \A p \in Driver!Apps : Driver!Enabled(p) =>
       /\ alarm.armed /\ \E dt \in AppDts : alarm.left <= dt
       /\ HalfRange /\ ~late => alarm.left <= due_in[p]
       /\ num_armed = 1 /\ due_in[p] >= 0 => alarm.left = due_in[p]

\* What the comments of reset_active_alarm() say: it finds the first alarm to
\* fire, and if one has passed the alarm fires immediately.
FirstAlarmIsSet ==
  resetting = 0 => \A p \in Driver!Apps :
    Driver!Enabled(p) => alarm.armed /\ (alarm.left <= 0 \/ alarm.left <= due_in[p])

\* No process gets an upcall before its alarm is due: the alarms the driver
\* finds passed, in ticks that wrap, are due in true time.
AppsNotEarly ==
  [][Driver!Alarm => \A p \in Driver!Apps :
        Driver!Enabled(p) /\ expiration'[p] = Driver!Disabled => due_in[p] <= 0]_allvars
=============================================================================
