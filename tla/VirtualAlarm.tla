---------------------------- MODULE VirtualAlarm ----------------------------
(***************************************************************************)
(* The alarm virtualizer (capsules/core/src/virtualizers/virtual_alarm.rs):*)
(* a MuxAlarm shares one hardware alarm among the VirtualMuxAlarms of its  *)
(* list. The counter wraps at W ticks; time goes on between the steps of   *)
(* the interrupt handler, whose callbacks set and disarm alarms.           *)
(*                                                                         *)
(* armed and left are what the clients were promised (AlarmService); armed *)
(* is also the field of the same name, left is only observed.              *)
(***************************************************************************)
EXTENDS Integers, FiniteSets

CONSTANTS N,            \* virtual alarms, in the order of the mux's list
          W,            \* the counter wraps from W - 1 to 0
          MinDt,        \* minimum_dt() of the hardware
          Dts,          \* the dts clients ask for
          MaxBack,      \* how far in the past a client's reference may be
          Latency,      \* ticks an expired hardware alarm may wait for its handler
          HandlerTime   \* ticks that may pass while the handler runs

Alarms == 1..N
Ticks == 0..(W - 1)
HalfMax == W \div 2
MaxLate == Latency + 2 * HandlerTime

\* The margin the virtualizer needs: the longest dt it arms in one piece,
\* delayed as long as the system may delay it, does not wrap the counter, and the
\* first wait of a long alarm is not handled so late that its second is over.
ASSUME LatencyFits ==
    /\ N \in Nat \ {0}
    /\ W \in Nat /\ W % 2 = 0
    /\ Dts \subseteq Ticks
    /\ {MinDt, MaxBack, Latency, HandlerTime} \subseteq Nat
    /\ HalfMax + MinDt + MaxLate < W
    /\ MaxBack + HalfMax + MinDt < W
    /\ MaxBack + MaxLate <= HalfMax + MinDt

VARIABLES now,          \* the hardware counter
          hw,           \* the hardware alarm: its armed bit, expiry and ticks left
          dt_reference, \* per alarm: reference, dt, extended
          armed,        \* per alarm
          enabled,      \* MuxAlarm::enabled
          next_tick_vals,
          cursor,       \* the handler's place in the list, 0 outside the handler
          callback,     \* whether a client's callback is running in the handler
          spent,        \* ticks since the handler started
          left          \* per alarm, observed: ticks until it is due

vars == <<now, hw, dt_reference, armed, enabled, next_tick_vals, cursor,
          callback, spent, left>>

None == [reference |-> -1, dt |-> -1]   \* next_tick_vals without a value

\* What is not armed is not read before it is set again: its value is dropped.
Unset == [reference |-> 0, dt |-> 0, extended |-> FALSE]
Off == [armed |-> FALSE, expire |-> 0, left |-> 0]
firing == cursor # 0

-----------------------------------------------------------------------------
(* Wrapping arithmetic *)

wrapping_add(a, b) == (a + b) % W
wrapping_sub(a, b) == (a - b) % W
within_range(t, start, end) == wrapping_sub(t, start) < wrapping_sub(end, start)

reference_plus_dt(d) == wrapping_add(d.reference, d.dt)
Expired(d, t) == ~within_range(t, d.reference, reference_plus_dt(d))

\* set_alarm's split of a dt longer than half the counter into two waits.
Split(reference, dt) ==
    IF dt > HalfMax + MinDt
    THEN [reference |-> reference, dt |-> dt - HalfMax, extended |-> TRUE]
    ELSE [reference |-> reference, dt |-> dt, extended |-> FALSE]

-----------------------------------------------------------------------------
(* The hardware alarm, and the mux's two ways of programming it *)

\* The hardware measures from the reference, which is in the past.
HwSet(reference, dt) ==
    hw' = [armed  |-> TRUE,
           expire |-> wrapping_add(reference, dt),
           left   |-> dt - wrapping_sub(now, reference)]
HwDisarm == hw' = Off

MuxSetAlarm(reference, dt) ==
    /\ next_tick_vals' = [reference |-> reference, dt |-> dt]
    /\ HwSet(reference, dt)

MuxDisarm == /\ next_tick_vals' = None
             /\ HwDisarm

\* The counter moves on, inside and outside the handler. The system does not
\* leave an expired alarm unhandled, or stay in the handler, without end.
Tick ==
    /\ IF firing THEN spent < HandlerTime ELSE hw.armed => hw.left > -Latency
    /\ now' = wrapping_add(now, 1)
    /\ hw' = IF hw.armed THEN [hw EXCEPT !.left = @ - 1] ELSE hw
    /\ left' = [c \in Alarms |-> IF armed[c] THEN left[c] - 1 ELSE left[c]]
    /\ spent' = IF firing THEN spent + 1 ELSE spent
    /\ UNCHANGED <<dt_reference, armed, enabled, next_tick_vals, cursor, callback>>

-----------------------------------------------------------------------------
(* The virtual alarms' operations, called by other kernel code or from a   *)
(* callback of the handler                                                 *)

CanCall == firing => callback

\* Mutant: an expiry before the reference is taken for an earlier alarm.
SoonerByExpiry(reference, dt) == wrapping_add(reference, dt) < hw.expire

\* The new alarm is sooner than the one programmed in the hardware: the
\* latter is outside the new alarm's wait and still to come.
Sooner(reference, dt) ==
    /\ ~within_range(hw.expire, reference, wrapping_add(reference, dt))
    /\ \/ next_tick_vals = None
       \/ ~Expired(next_tick_vals, now)

set_alarm(c, back, requested) ==
    LET d == Split(wrapping_sub(now, back), requested) IN
    /\ CanCall
    /\ dt_reference' = [dt_reference EXCEPT ![c] = d]
    /\ armed' = [armed EXCEPT ![c] = TRUE]
    /\ enabled' = IF armed[c] THEN enabled ELSE enabled + 1
    /\ IF enabled = 0 \/ (~firing /\ Sooner(d.reference, d.dt))
       THEN MuxSetAlarm(d.reference, d.dt)
       ELSE UNCHANGED <<hw, next_tick_vals>>
    /\ left' = [left EXCEPT ![c] = IF requested > back THEN requested - back ELSE 0]
    /\ UNCHANGED <<now, cursor, callback, spent>>

\* The last disarm stops the hardware directly: next_tick_vals stays.
disarm(c) ==
    /\ CanCall
    /\ armed[c]
    /\ armed' = [armed EXCEPT ![c] = FALSE]
    /\ enabled' = enabled - 1
    /\ IF enabled = 1 THEN HwDisarm ELSE UNCHANGED hw
    /\ dt_reference' = [dt_reference EXCEPT ![c] = Unset]
    /\ left' = [left EXCEPT ![c] = 0]
    /\ UNCHANGED <<now, next_tick_vals, cursor, callback, spent>>

-----------------------------------------------------------------------------
(* MuxAlarm::alarm, the handler *)

AlarmStart ==
    /\ ~firing
    /\ hw.armed /\ hw.left <= 0
    /\ hw' = Off
    /\ cursor' = 1
    /\ spent' = 0
    /\ UNCHANGED <<now, dt_reference, armed, enabled, next_tick_vals, callback, left>>

\* One alarm of the list, looked at with a fresh now. A callback that was
\* running has returned.
ScanKeep(c) ==
    /\ ~(armed[c] /\ Expired(dt_reference[c], now))
    /\ callback' = FALSE
    /\ UNCHANGED <<dt_reference, armed, enabled, left>>

ScanExtended(c) ==
    /\ armed[c] /\ Expired(dt_reference[c], now)
    /\ dt_reference[c].extended
    /\ dt_reference' = [dt_reference EXCEPT ![c] =
          [reference |-> reference_plus_dt(@), dt |-> HalfMax, extended |-> FALSE]]
    /\ callback' = FALSE
    /\ UNCHANGED <<armed, enabled, left>>

\* Mutant: the first wait of a long alarm is taken for the whole.
ScanFireFirst(c) ==
    /\ armed[c] /\ Expired(dt_reference[c], now)
    /\ armed' = [armed EXCEPT ![c] = FALSE]
    /\ enabled' = enabled - 1
    /\ left' = [left EXCEPT ![c] = 0]
    /\ callback' = TRUE
    /\ dt_reference' = [dt_reference EXCEPT ![c] = Unset]

ScanFire(c) ==
    /\ armed[c] /\ Expired(dt_reference[c], now)
    /\ ~dt_reference[c].extended
    /\ armed' = [armed EXCEPT ![c] = FALSE]
    /\ enabled' = enabled - 1
    /\ left' = [left EXCEPT ![c] = 0]
    /\ callback' = TRUE
    /\ dt_reference' = [dt_reference EXCEPT ![c] = Unset]

AlarmScan ==
    /\ cursor \in Alarms
    /\ ScanKeep(cursor) \/ ScanExtended(cursor) \/ ScanFire(cursor)
    /\ cursor' = cursor + 1
    /\ UNCHANGED <<now, hw, next_tick_vals, spent>>

\* Ticks until c's current wait ends; an expired one comes first.
Wait(c) == IF Expired(dt_reference[c], now) THEN 0
           ELSE wrapping_sub(reference_plus_dt(dt_reference[c]), now)

Soonest == CHOOSE c \in Alarms :
              /\ armed[c]
              /\ \A d \in Alarms : armed[d] => \/ Wait(c) < Wait(d)
                                               \/ Wait(c) = Wait(d) /\ c <= d

AlarmEnd ==
    /\ cursor = N + 1
    /\ cursor' = 0
    /\ callback' = FALSE
    /\ spent' = 0
    /\ IF \E c \in Alarms : armed[c]
       THEN MuxSetAlarm(dt_reference[Soonest].reference, dt_reference[Soonest].dt)
       ELSE MuxDisarm
    /\ UNCHANGED <<now, dt_reference, armed, enabled, left>>

-----------------------------------------------------------------------------
Init ==
    /\ now \in Ticks
    /\ hw = Off
    /\ dt_reference = [c \in Alarms |-> Unset]
    /\ armed = [c \in Alarms |-> FALSE]
    /\ enabled = 0
    /\ next_tick_vals = None
    /\ cursor = 0
    /\ callback = FALSE
    /\ spent = 0
    /\ left = [c \in Alarms |-> 0]

Next ==
    \/ Tick
    \/ \E c \in Alarms : \/ \E back \in 0..MaxBack, dt \in Dts : set_alarm(c, back, dt)
                         \/ disarm(c)
    \/ AlarmStart
    \/ AlarmScan
    \/ AlarmEnd

Spec == Init /\ [][Next]_vars

-----------------------------------------------------------------------------
TypeOK ==
    /\ now \in Ticks
    /\ hw \in [armed : BOOLEAN, expire : Ticks, left : -W..W]
    /\ dt_reference \in [Alarms -> [reference : Ticks, dt : Ticks, extended : BOOLEAN]]
    /\ armed \in [Alarms -> BOOLEAN]
    /\ enabled \in 0..N
    /\ next_tick_vals \in [reference : Ticks, dt : Ticks] \cup {None}
    /\ cursor \in 0..(N + 1)
    /\ callback \in BOOLEAN
    /\ spent \in 0..HandlerTime
    /\ left \in [Alarms -> -W..W]

\* The end of c's current wait: an extended alarm has a second wait to go.
WaitLeft(c) == left[c] - (IF dt_reference[c].extended THEN HalfMax ELSE 0)

\* Outside the handler the hardware wakes the mux no later than the first armed
\* alarm needs, or as soon as it can: the alarm set last and the ones left behind
\* by a disarm included.
HardwareInTime ==
    /\ TypeOK
    /\ ~firing => \A c \in Alarms :
                     armed[c] => hw.armed /\ (hw.left <= WaitLeft(c) \/ hw.left <= 0)

Service == INSTANCE AlarmService
              WITH MaxLeft <- W, called <- IF callback THEN cursor - 1 ELSE 0

\* Every virtual alarm keeps the promise of the Alarm interface although the
\* counter wraps and the hardware is shared: a callback runs only when its alarm
\* is armed and reference + dt has passed, once for each set_alarm, and its delay
\* stays within MaxLate ("it can be delayed but will never fire early").
KeepsTheService == Service!Spec
=============================================================================
