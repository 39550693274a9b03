---------------------------- MODULE AlarmDriver -----------------------------
(***************************************************************************)
(* capsules/core/src/alarm.rs: the system call driver that shares one      *)
(* alarm among the processes.  Processes count in u32 ticks; the alarm may *)
(* count in wider ones.  The alarm below keeps the promise of AlarmService *)
(* and is known by the true time it has left.                              *)
(***************************************************************************)
EXTENDS Integers, FiniteSets

CONSTANTS NApps,      \* processes, in the order of the process array
          U32,        \* values of a u32
          Moduli,     \* values of the alarm's ticks: as wide as a u32 or wider
          AppDts,     \* the dts processes ask for
          AppBack,    \* how far in the past the reference of a process may be
          AppLatency, \* ticks for which a due alarm may wait for its handler
          MaxArmed    \* bound on num_armed

VARIABLES modulus,    \* the width of the alarm's ticks
          ticks,      \* Alarm::now()
          alarm,      \* the alarm below: armed, and ticks left
          expiration, \* per process, in its grant
          num_armed,
          resetting,  \* 0, or 1 + the ticks since a call that goes on to reset_active_alarm()
          due_in,     \* per process, observed: ticks until it is due, -1 when overdue
          late        \* observed: at the last reset_active_alarm() an alarm seemed passed

drv == <<modulus, ticks, alarm, expiration, num_armed, resetting, due_in, late>>

Apps == 1 .. NApps
Disabled == [reference |-> -1, dt |-> -1]
NotArmed == [armed |-> FALSE, left |-> 0]
Enabled(p) == expiration[p] # Disabled

\* Ticks of m values; the present in the ticks of a process.
within_range(m, t, start, end) == (t - start) % m < (end - start) % m
Now32 == ticks % U32

DrvInit ==
  /\ modulus \in Moduli /\ ticks = 0
  /\ alarm = NotArmed
  /\ expiration = [p \in Apps |-> Disabled] /\ due_in = [p \in Apps |-> 0]
  /\ num_armed = 0 /\ resetting = 0 /\ late = FALSE

-----------------------------------------------------------------------------
\* Set an alarm relative to now, or to a reference in the past.
rearm(p, back, dt) ==
  /\ resetting = 0 /\ (num_armed < MaxArmed \/ Enabled(p))
  /\ num_armed' = IF Enabled(p) THEN num_armed ELSE num_armed + 1
  /\ expiration' = [expiration EXCEPT ![p] = [reference |-> (ticks - back) % U32, dt |-> dt]]
  /\ due_in' = [due_in EXCEPT ![p] = IF dt > back THEN dt - back ELSE 0]
  /\ resetting' = 1
  /\ UNCHANGED <<modulus, ticks, alarm, late>>

Stop(p) ==
  /\ resetting = 0 /\ Enabled(p)
  /\ expiration' = [expiration EXCEPT ![p] = Disabled]
  /\ num_armed' = num_armed - 1
  /\ resetting' = 1
  /\ UNCHANGED <<modulus, ticks, alarm, due_in, late>>

\* The process ends and its grant is freed; the driver is not told.
Ends(p) ==
  /\ resetting = 0 /\ Enabled(p)
  /\ expiration' = [expiration EXCEPT ![p] = Disabled]
  /\ UNCHANGED <<modulus, ticks, alarm, num_armed, resetting, due_in, late>>

-----------------------------------------------------------------------------
\* The earlier of two expirations, the second one being looked at: it is taken
\* when it ends within the wait of the first, and also when that has passed.
Earlier(e, c) ==
  LET end == (e.reference + e.dt) % modulus IN
  IF c # Disabled /\ \/ e = Disabled
                     \/ within_range(modulus, (c.reference + c.dt) % modulus, e.reference, end)
                     \/ ~within_range(modulus, Now32, e.reference, end)
  THEN c ELSE e

\* What Earlier can take for passed: an alarm that is due, or one whose
\* reference is from before the u32 last wrapped when the ticks are wider.
SeemsPassed(p) == Enabled(p) /\ (due_in[p] <= 0 \/ (modulus # U32 /\ Now32 < expiration[p].reference))

\* Mutant: a reference before the last wrap of the u32 gets the high bits of now.
RealReferenceNoBorrow(reference) == (ticks - Now32 + reference) % modulus

\* The reference with the high bits that now had then.
RealReference(reference) ==
  (ticks - Now32 - (IF Now32 < reference THEN U32 ELSE 0) + reference) % modulus

\* What the alarm below makes of a reference and a dt, however old the
\* reference: one from dt or more ticks ago is due at once.
SetAlarm(reference, dt) ==
  LET age == (ticks - reference) % modulus
  IN  alarm' = [armed |-> TRUE, left |-> IF dt > age THEN dt - age ELSE 0]

\* The earliest expiration of the first n processes.
Earliest[n \in 0 .. NApps] ==
  IF n = 0 THEN Disabled ELSE Earlier(Earliest[n - 1], expiration[n])

reset_active_alarm ==
  /\ resetting # 0
  /\ LET earliest == Earliest[NApps] IN
     IF earliest = Disabled THEN alarm' = NotArmed
     ELSE SetAlarm(RealReference(earliest.reference), earliest.dt)
  /\ resetting' = 0
  /\ late' = \E p \in Apps : SeemsPassed(p)
  /\ UNCHANGED <<modulus, ticks, expiration, num_armed, due_in>>

\* Mutant: compares ends instead of waits.
PassedByEnd(e) == Now32 >= (e.reference + e.dt) % U32

Passed(e) == ~within_range(U32, Now32, e.reference, e.reference + e.dt)

\* The alarm below fires: an upcall to every process whose alarm has passed.
Alarm ==
  /\ resetting = 0 /\ alarm.armed /\ alarm.left <= 0
  /\ LET passed == {p \in Apps : Enabled(p) /\ Passed(expiration[p])} IN
     /\ expiration' = [p \in Apps |-> IF p \in passed THEN Disabled ELSE expiration[p]]
     /\ num_armed' = num_armed - Cardinality(passed)
  /\ alarm' = NotArmed
  /\ resetting' = IF num_armed' = 0 THEN 0 ELSE 1
  /\ UNCHANGED <<modulus, ticks, due_in, late>>

\* Time goes on, also between a call and its reset_active_alarm(), but not
\* without end before a due alarm is handled.
Tick ==
  /\ IF resetting = 0 THEN alarm.armed => alarm.left > -AppLatency ELSE resetting = 1
  /\ ticks' = (ticks + 1) % modulus
  /\ alarm' = IF alarm.armed THEN [alarm EXCEPT !.left = @ - 1] ELSE alarm
  /\ due_in' = [p \in Apps |-> IF due_in[p] < 0 THEN -1 ELSE due_in[p] - 1]
  /\ resetting' = IF resetting = 0 THEN 0 ELSE resetting + 1
  /\ UNCHANGED <<modulus, expiration, num_armed, late>>

Command(p) == Stop(p) \/ \E back \in 0 .. AppBack, dt \in AppDts : rearm(p, back, dt)
DrvStep == Tick \/ Alarm \/ reset_active_alarm
DrvNext == DrvStep \/ \E p \in Apps : Command(p) \/ Ends(p)

=============================================================================
