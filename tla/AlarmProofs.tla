---------------------------- MODULE AlarmProofs -----------------------------
(***************************************************************************)
(* Proofs about VirtualAlarm, for any number of virtual alarms and a       *)
(* counter of any width that leaves the margin LatencyFits.                *)
(***************************************************************************)
EXTENDS AlarmSteps, WellFoundedInduction

-----------------------------------------------------------------------------
(* The handler *)

\* The counter tells whether the wait of c is over.
LEMMA ExpiredIs ==
  ASSUME TypeOK, NEW c \in Alarms
  PROVE  /\ dt_reference[c].dt \in 0 .. W - 1
         /\ Expired(dt_reference[c], now) <=> dt_reference[c].dt <= Age(c)
         /\ Wait(c) = IF Expired(dt_reference[c], now) THEN 0 ELSE dt_reference[c].dt - Age(c)
         /\ Wait(c) \in Nat
<1> DEFINE d == dt_reference[c]
           end == wrapping_add(d.reference, d.dt)
           age == wrapping_sub(now, d.reference)
<1>0. W \in Nat BY Margins
<1>1. now \in Ticks /\ d \in Waits BY StateTypes
<1>2. d.reference \in Ticks /\ d.dt \in Ticks /\ d.dt \in 0 .. W - 1 BY <1>1, WaitTypes
<1>3. age \in 0 .. W - 1 BY <1>1, <1>2, AgeFacts
<1>4. (within_range(now, d.reference, end) <=> age < d.dt) /\ (age < d.dt => wrapping_sub(end, now) = d.dt - age)
  BY <1>1, <1>2, WaitFacts
<1>5. Age(c) = age BY DEF Age
<1>6. Expired(d, now) <=> ~within_range(now, d.reference, end) BY DEF Expired, reference_plus_dt
<1>7. Wait(c) = IF Expired(d, now) THEN 0 ELSE wrapping_sub(end, now) BY DEF Wait, reference_plus_dt
<1> DEFINE dt == d.dt
<1>8. dt \in 0 .. W - 1 BY <1>2
<1>9. Expired(d, now) <=> ~(age < dt) BY <1>4, <1>6
<1>10. age < dt => wrapping_sub(end, now) = dt - age BY <1>4
<1> HIDE DEF dt, age, end, d
<1>11. /\ Expired(d, now) <=> dt <= age
       /\ Wait(c) = IF Expired(d, now) THEN 0 ELSE dt - age
       /\ Wait(c) \in Nat
  BY <1>0, <1>3, <1>7, <1>8, <1>9, <1>10
<1> QED BY <1>2, <1>5, <1>11 DEF d, dt

\* One alarm of the list. The callback runs only for an alarm that is due.
LEMMA ScanStep ==
  ASSUME AlarmInv, AlarmScan
  PROVE  AlarmInv' /\ cursor \in Alarms /\ (ScanFire(cursor) => armed[cursor] /\ left[cursor] <= 0)
<1>0. /\ W \in Nat \ {0} /\ N \in Nat \ {0} /\ HandlerTime \in Nat /\ Latency \in Nat /\ HalfMax \in Nat
      /\ 2 * HalfMax = W /\ 0 \in Ticks /\ 0 \in -W .. W
  BY Margins DEF Ticks
<1>1. TypeOK BY DEF AlarmInv
<1>2. /\ now \in Ticks /\ dt_reference \in [Alarms -> Waits] /\ armed \in [Alarms -> BOOLEAN]
      /\ spent \in 0 .. HandlerTime /\ left \in [Alarms -> Int]
      /\ \A x \in Alarms : Bound(x) \in 0 .. MaxLate /\ Age(x) \in 0 .. W - 1
  BY <1>1, StateTypes
<1>3. /\ cursor \in Alarms /\ cursor' = cursor + 1
      /\ now' = now /\ hw' = hw /\ next_tick_vals' = next_tick_vals /\ spent' = spent
  BY DEF AlarmScan
<1>4. PICK c \in Alarms : c = cursor BY <1>3
<1> DEFINE d == dt_reference[c]
<1>5. cursor \in 1 .. N /\ cursor' \in 2 .. N + 1 BY <1>0, <1>3 DEF Alarms
<1>6. firing /\ firing' BY <1>0, <1>5 DEF firing
<1>7. \A x \in Alarms : Bound(x)' = IF x = c THEN spent ELSE Bound(x)
  <2> SUFFICES ASSUME NEW x \in Alarms PROVE Bound(x)' = IF x = c THEN spent ELSE Bound(x) OBVIOUS
  <2>1. x \in 1 .. N BY DEF Alarms
  <2>2. Bound(x)' = IF x < cursor + 1 THEN spent ELSE Latency + HandlerTime + spent BY <1>3, <1>6 DEF Bound
  <2>3. Bound(x) = IF x < cursor THEN spent ELSE Latency + HandlerTime + spent BY <1>6 DEF Bound
  <2>4. (x < cursor + 1) <=> (x < cursor \/ x = c) BY <1>0, <1>5, <1>4, <2>1
  <2>5. ~(c < cursor) BY <1>5, <1>4
  <2> QED BY <2>2, <2>3, <2>4, <2>5
<1>8. firing' /\ hw'.armed => hw'.left >= -(MaxBack + spent') BY <1>3, <1>6 DEF AlarmInv
<1>9. cursor' >= 2 /\ cursor' \in 0 .. N + 1 BY <1>0, <1>5
<1>10. \A x \in Alarms : armed[x] => AlarmOK(dt_reference[x], Age(x), left[x], Bound(x)) BY DEF AlarmInv
<1>11. (Expired(d, now) <=> d.dt <= Age(c)) /\ d.dt \in 0 .. W - 1 BY <1>1, <1>3, ExpiredIs
<1>12. d \in Waits /\ Age(c) \in Nat /\ left[c] \in Int /\ Bound(c) \in 0 .. MaxLate /\ Bound(c) \in Nat /\ spent \in Nat
  BY <1>0, <1>2, <1>3
<1> HIDE DEF d
<1>13. CASE ScanKeep(c)
  <2>1. /\ ~(armed[c] /\ Expired(d, now)) /\ callback' = FALSE
        /\ dt_reference' = dt_reference /\ armed' = armed /\ enabled' = enabled /\ left' = left
    BY <1>13 DEF ScanKeep, d
  <2>2. \A x \in Alarms : Age(x)' = Age(x) BY <1>3, <2>1 DEF Age
  <2>3. ASSUME NEW x \in Alarms, armed'[x] PROVE AlarmOK(dt_reference'[x], Age(x)', left'[x], Bound(x)')
    <3>1. CASE x = c
      <4>1. ~Expired(d, now) /\ AlarmOK(d, Age(c), left[c], Bound(c)) BY <1>10, <2>1, <2>3, <3>1 DEF d
      <4>2. Age(c) < d.dt BY <1>11, <1>12, <4>1
      <4>3. AlarmOK(d, Age(c), left[c], spent) BY <1>12, <4>1, <4>2, AlarmOKKept
      <4> QED BY <1>7, <2>1, <2>2, <3>1, <4>3 DEF d
    <3>2. CASE x # c BY <1>7, <1>10, <2>1, <2>2, <2>3, <3>2
    <3> QED BY <3>1, <3>2
  <2>4. Counted(armed', enabled') BY <2>1 DEF AlarmInv
  <2>5. TypeOK' BY Zenon, <1>1, <1>3, <1>9, <2>1 DEF TypeOK
  <2>6. ~ScanFire(c) BY <2>1 DEF ScanFire, d
  <2> QED BY <1>3, <1>6, <1>8, <1>9, <2>1, <2>3, <2>4, <2>5, <2>6, <1>4 DEF AlarmInv
<1>14. CASE ScanExtended(c)
  <2> DEFINE e == [reference |-> reference_plus_dt(d), dt |-> HalfMax, extended |-> FALSE]
  <2>1. /\ armed[c] /\ Expired(d, now) /\ d.extended /\ callback' = FALSE
        /\ dt_reference' = [dt_reference EXCEPT ![c] = e]
        /\ armed' = armed /\ enabled' = enabled /\ left' = left
    BY <1>14 DEF ScanExtended, d
  <2>2. d.reference \in Ticks /\ d.dt \in Ticks BY <1>12, WaitTypes
  <2>3. d.dt <= Age(c) BY <1>11, <2>1
  <2>4. reference_plus_dt(d) \in Ticks /\ wrapping_sub(now, reference_plus_dt(d)) = Age(c) - d.dt
    <3>1. Age(c) = wrapping_sub(now, d.reference) BY DEF Age, d
    <3> QED BY <1>2, <2>2, <2>3, <3>1, WaitFacts DEF reference_plus_dt
  <2>5. HalfMax \in Ticks BY <1>0 DEF Ticks
  <2>6. e \in Waits /\ e.dt = HalfMax /\ ~e.extended /\ e.reference = reference_plus_dt(d) BY <2>4, <2>5 DEF Waits
  <2> HIDE DEF e
  <2>7. AlarmOK(e, Age(c) - d.dt, left[c], spent)
    <3>1. AlarmOK(d, Age(c), left[c], Bound(c)) BY <1>3, <1>10, <2>1, <1>4 DEF d
    <3> QED BY <1>12, <2>1, <2>3, <2>6, <3>1, AlarmOKExtended
  <2>8. dt_reference'[c] = e /\ Age(c)' = Age(c) - d.dt
    <3>1. dt_reference'[c] = e BY <1>2, <1>3, <2>1, <1>4
    <3> QED BY <1>3, <2>4, <2>6, <3>1 DEF Age
  <2>9. ASSUME NEW x \in Alarms, armed'[x] PROVE AlarmOK(dt_reference'[x], Age(x)', left'[x], Bound(x)')
    <3>1. CASE x = c BY <1>7, <2>1, <2>7, <2>8, <3>1
    <3>2. CASE x # c
      <4>1. dt_reference'[x] = dt_reference[x] BY <1>2, <2>1, <3>2
      <4>2. Age(x)' = Age(x) BY <1>3, <4>1 DEF Age
      <4> QED BY <1>7, <1>10, <2>1, <2>9, <3>2, <4>1, <4>2
    <3> QED BY <3>1, <3>2
  <2>10. Counted(armed', enabled') BY <2>1 DEF AlarmInv
  <2>11. TypeOK'
    <3>1. dt_reference' \in [Alarms -> [reference : Ticks, dt : Ticks, extended : BOOLEAN]] BY <1>2, <2>1, <2>6 DEF Waits
    <3> QED BY Zenon, <1>1, <1>3, <1>9, <2>1, <3>1 DEF TypeOK
  <2>12. ~ScanFire(c) BY <2>1 DEF ScanFire, d
  <2> QED BY <1>3, <1>6, <1>8, <1>9, <2>1, <2>9, <2>10, <2>11, <2>12, <1>4 DEF AlarmInv
<1>15. CASE ScanFire(c)
  <2>1. /\ armed[c] /\ Expired(d, now) /\ ~d.extended /\ callback' = TRUE
        /\ dt_reference' = [dt_reference EXCEPT ![c] = Unset]
        /\ armed' = [armed EXCEPT ![c] = FALSE] /\ enabled' = enabled - 1
        /\ left' = [left EXCEPT ![c] = 0]
    BY <1>15 DEF ScanFire, d
  <2>2. left[c] <= 0
    <3>1. AlarmOK(d, Age(c), left[c], Bound(c)) BY <1>3, <1>10, <2>1, <1>4 DEF d
    <3>2. left[c] = d.dt - Age(c) \/ left[c] <= 0 BY <2>1, <3>1 DEF AlarmOK
    <3>3. d.dt <= Age(c) BY <1>11, <2>1
    <3> QED BY <1>11, <1>12, <3>2, <3>3
  <2>3. \A x \in Alarms : armed'[x] => /\ x # c /\ armed[x] /\ dt_reference'[x] = dt_reference[x]
                                       /\ left'[x] = left[x] /\ Age(x)' = Age(x)
    BY <1>2, <1>3, <2>1 DEF Age
  <2>4. ASSUME NEW x \in Alarms, armed'[x] PROVE AlarmOK(dt_reference'[x], Age(x)', left'[x], Bound(x)')
    BY <1>7, <1>10, <2>3, <2>4
  <2>5. Counted(armed', enabled') /\ armed' \in [Alarms -> BOOLEAN]
    BY Zenon, <1>2, <1>3, <2>1, Counts, <1>4 DEF AlarmInv
  <2>6. enabled' \in 0 .. N BY <2>5, Counts
  <2>7. TypeOK'
    <3>1. Unset \in [reference : Ticks, dt : Ticks, extended : BOOLEAN] BY <1>0 DEF Unset
    <3>2. dt_reference' \in [Alarms -> [reference : Ticks, dt : Ticks, extended : BOOLEAN]] BY <1>1, <2>1, <3>1 DEF TypeOK
    <3>3. left' \in [Alarms -> -W .. W] BY <1>0, <1>1, <2>1 DEF TypeOK
    <3> QED BY <1>1, <1>3, <1>9, <2>1, <2>5, <2>6, <3>2, <3>3 DEF TypeOK
  <2> QED BY <1>3, <1>6, <1>8, <1>9, <2>1, <2>2, <2>4, <2>5, <2>7, <1>4 DEF AlarmInv
<1> QED BY <1>13, <1>14, <1>15, <1>4 DEF AlarmScan

\* A set of numbers that is not empty has a least one.
LEMMA LeastNumber ==
  ASSUME NEW T \in SUBSET Nat, T # {}
  PROVE  \E n \in T : \A m \in T : n <= m
<1>1. PICK x \in T : \A y \in T : ~(<<y, x>> \in OpToRel(<, Nat)) BY NatLessThanWellFounded, WFMin, Zenon
<1>2. \A y \in T : y < x => <<y, x>> \in OpToRel(<, Nat) BY DEF OpToRel
<1>3. \A y \in T : ~(y < x) BY <1>1, <1>2, Zenon
<1> QED BY <1>3, SMT

\* The alarm the handler ends with exists, and none ends its wait before it.
LEMMA SoonestIs ==
  ASSUME TypeOK, \E c \in Alarms : armed[c]
  PROVE  /\ Soonest \in Alarms /\ armed[Soonest]
         /\ \A d \in Alarms : armed[d] => Wait(Soonest) <= Wait(d)
<1> DEFINE Best(c) == /\ armed[c]
                      /\ \A d \in Alarms : armed[d] => \/ Wait(c) < Wait(d)
                                                       \/ Wait(c) = Wait(d) /\ c <= d
           S == {c \in Alarms : armed[c]}
           T == {Wait(c) : c \in S}
<1>0. N \in Nat BY Margins
<1>1. \A c \in Alarms : Wait(c) \in Nat BY ExpiredIs
<1>2. T \in SUBSET Nat /\ T # {} BY <1>1
<1>3. PICK w \in T : \A m \in T : w <= m BY <1>2, LeastNumber, Zenon
<1> DEFINE U == {c \in S : Wait(c) = w}
<1>4. U \in SUBSET Nat /\ U # {} BY <1>0, <1>3 DEF Alarms
<1>5. PICK k \in U : \A m \in U : k <= m BY <1>4, LeastNumber, Zenon
<1>6. k \in Alarms /\ armed[k] /\ Wait(k) = w BY <1>5
<1>7. ASSUME NEW d \in Alarms, armed[d] PROVE Wait(k) < Wait(d) \/ (Wait(k) = Wait(d) /\ k <= d)
  <2>1. Wait(d) \in T /\ w <= Wait(d) BY <1>3, <1>7
  <2>2. Wait(d) = w => k <= d BY <1>5, <1>7
  <2> QED BY <1>1, <1>6, <1>7, <2>1, <2>2
<1>8. Best(k) BY <1>6, <1>7
<1>9. Soonest = CHOOSE c \in Alarms : Best(c) BY DEF Soonest
<1> HIDE DEF Best
<1>10. Soonest \in Alarms /\ Best(Soonest) BY <1>6, <1>8, <1>9
<1> QED BY <1>1, <1>10 DEF Best

\* The end of MuxAlarm::alarm, which finds the soonest alarm and sets the
\* hardware for it.
LEMMA EndStep ==
  ASSUME AlarmInv, AlarmEnd
  PROVE  AlarmInv' /\ ~callback'
<1>0. /\ W \in Nat \ {0} /\ N \in Nat \ {0} /\ HandlerTime \in Nat /\ Latency \in Nat /\ HalfMax \in Nat
      /\ MaxLate \in Nat /\ MinDt \in Nat /\ MaxBack \in Nat
      /\ 0 \in Ticks /\ 0 \in -W .. W /\ 0 \in 0 .. N + 1 /\ 0 \in 0 .. HandlerTime
  BY Margins DEF Ticks
<1>1. TypeOK BY DEF AlarmInv
<1>2. /\ now \in Ticks /\ dt_reference \in [Alarms -> Waits] /\ armed \in [Alarms -> BOOLEAN]
      /\ spent \in 0 .. HandlerTime /\ left \in [Alarms -> Int]
      /\ \A x \in Alarms : Bound(x) \in 0 .. MaxLate /\ Age(x) \in 0 .. W - 1
  BY <1>1, StateTypes
<1>3. /\ cursor = N + 1 /\ cursor' = 0 /\ callback' = FALSE /\ spent' = 0
      /\ IF \E c \in Alarms : armed[c]
         THEN MuxSetAlarm(dt_reference[Soonest].reference, dt_reference[Soonest].dt)
         ELSE MuxDisarm
      /\ now' = now /\ dt_reference' = dt_reference /\ armed' = armed /\ enabled' = enabled /\ left' = left
  BY DEF AlarmEnd
<1>4. firing /\ ~firing' BY <1>0, <1>3 DEF firing
<1>5. Counted(armed', enabled') BY <1>3 DEF AlarmInv
<1>6. \A x \in Alarms : armed[x] => AlarmOK(dt_reference[x], Age(x), left[x], Bound(x)) BY DEF AlarmInv
<1>7. CASE ~\E c \in Alarms : armed[c]
  <2>1. hw' = Off /\ next_tick_vals' = None BY <1>3, <1>7 DEF MuxDisarm, HwDisarm
  <2>2. enabled' = 0 BY <1>2, <1>3, <1>7, Counts DEF AlarmInv
  <2>3. TypeOK'
    <3>1. hw' \in [armed : BOOLEAN, expire : Ticks, left : -W .. W] BY <1>0, <2>1 DEF Off
    <3> QED BY Zenon, <1>0, <1>1, <1>3, <2>1, <3>1 DEF TypeOK
  <2> QED BY <1>3, <1>4, <1>5, <1>7, <2>2, <2>3 DEF AlarmInv
<1>8. CASE \E c \in Alarms : armed[c]
  <2>1. PICK s \in Alarms : s = Soonest /\ armed[s] /\ \A d \in Alarms : armed[d] => Wait(s) <= Wait(d)
    BY <1>1, <1>8, SoonestIs, Zenon
  <2> DEFINE r == dt_reference[s].reference
             dt == dt_reference[s].dt
             age == Age(s)
  <2>2. r \in Ticks /\ dt \in Ticks /\ dt \in 0 .. W - 1 BY <1>2, <2>1, WaitTypes
  <2>3. age \in 0 .. W - 1 /\ age = wrapping_sub(now, r) BY <1>2, <2>1 DEF Age
  <2>4. dt <= HalfMax + MinDt BY <1>6, <2>1 DEF AlarmOK
  <2>5. /\ Expired(dt_reference[s], now) <=> dt <= age
        /\ Wait(s) = IF Expired(dt_reference[s], now) THEN 0 ELSE dt - age
        /\ Wait(s) \in Nat
    BY <1>1, <2>1, ExpiredIs
  <2>6. /\ hw' = [armed |-> TRUE, expire |-> wrapping_add(r, dt), left |-> dt - age]
        /\ next_tick_vals' = [reference |-> r, dt |-> dt]
    BY <1>3, <1>8, <2>1, <2>3 DEF MuxSetAlarm, HwSet
  <2>7. wrapping_add(r, dt) \in Ticks BY <1>2, <2>2, WaitFacts
  <2> HIDE DEF r, dt, age
  <2>8. dt - age \in -W .. W BY <1>0, <2>2, <2>3
  <2>9. /\ hw'.armed /\ hw'.expire = wrapping_add(r, dt) /\ hw'.left = dt - age
        /\ hw' \in [armed : BOOLEAN, expire : Ticks, left : -W .. W]
    <3> DEFINE e == wrapping_add(r, dt)
               k == dt - age
    <3>1. hw' = [armed |-> TRUE, expire |-> e, left |-> k] /\ e \in Ticks /\ k \in -W .. W BY <2>6, <2>7, <2>8
    <3> HIDE DEF e, k
    <3>2. hw'.armed /\ hw'.expire = e /\ hw'.left = k /\ hw' \in [armed : BOOLEAN, expire : Ticks, left : -W .. W]
      BY ONLY <3>1
    <3> QED BY <3>2 DEF e, k
  <2>10. /\ next_tick_vals'.reference = r /\ next_tick_vals'.dt = dt
         /\ next_tick_vals' \in [reference : Ticks, dt : Ticks]
    BY <2>2, <2>6
  <2>11. next_tick_vals' # None
    <3>1. None.dt = -1 /\ dt # -1 BY <1>0, <2>2 DEF None
    <3> QED BY <2>10, <3>1
  <2>12. ASSUME NEW x \in Alarms, armed'[x]
         PROVE  hw'.left <= LeftOfWait(dt_reference'[x], left'[x]) \/ hw'.left <= 0
    <3> DEFINE d == dt_reference[x].dt
               a == Age(x)
               l == left[x]
               ext == dt_reference[x].extended
    <3>1. d \in 0 .. W - 1 /\ (Expired(dt_reference[x], now) <=> d <= a)
          /\ Wait(x) = IF Expired(dt_reference[x], now) THEN 0 ELSE d - a
      BY <1>1, ExpiredIs
    <3>2. Wait(s) <= Wait(x) BY <1>3, <2>1, <2>12
    <3>3. IF ext THEN l = d + HalfMax - a ELSE l = d - a \/ (l <= 0 /\ d <= a)
      BY <1>3, <1>6, <2>12 DEF AlarmOK
    <3>4. a \in 0 .. W - 1 /\ l \in Int BY <1>2
    <3>5. LeftOfWait(dt_reference'[x], left'[x]) = l - (IF ext THEN HalfMax ELSE 0) BY <1>3 DEF LeftOfWait
    <3> HIDE DEF d, a, l, ext
    <3>6. dt > age => ~(d <= a) /\ dt - age <= d - a BY <2>2, <2>3, <2>5, <3>1, <3>2, <3>4
    <3>7. dt > age => dt - age <= l - (IF ext THEN HalfMax ELSE 0) BY <1>0, <2>2, <2>3, <3>1, <3>3, <3>4, <3>6
    <3>8. dt > age \/ dt - age <= 0 BY <2>2, <2>3
    <3> QED BY <2>9, <3>5, <3>7, <3>8
  <2>13. HwOK'
    <3>1. hw'.left = next_tick_vals'.dt - wrapping_sub(now', next_tick_vals'.reference) BY <1>3, <2>3, <2>9, <2>10
    <3> QED BY <2>4, <2>9, <2>10, <2>11, <2>12, <3>1 DEF HwOK, reference_plus_dt
  <2>14. ASSUME NEW x \in Alarms, armed'[x] PROVE AlarmOK(dt_reference'[x], Age(x)', left'[x], Bound(x)')
    <3> DEFINE q == Pending'
               b == Bound(x)'
    <3>1. x < cursor BY <1>0, <1>3 DEF Alarms
    <3>2. Bound(x) = spent BY <1>4, <3>1 DEF Bound
    <3>3. b = HandlerTime + q BY <1>4 DEF Bound
    <3>4. q \in 0 .. Latency
      <4>1. hw'.left \in Int BY <2>8, <2>9
      <4> QED BY <1>0, <4>1 DEF Pending
    <3> HIDE DEF q, b
    <3>5. spent \in Nat /\ b \in Nat /\ spent <= b BY <1>0, <1>2, <3>3, <3>4
    <3>6. AlarmOK(dt_reference[x], Age(x), left[x], spent) BY <1>3, <1>6, <2>14, <3>2
    <3>7. Age(x) \in Nat /\ dt_reference[x] \in Waits /\ left[x] \in Int BY <1>0, <1>2
    <3>8. AlarmOK(dt_reference[x], Age(x), left[x], b) BY ONLY <3>5, <3>6, <3>7, AlarmOKMonotone, Zenon
    <3>9. Age(x)' = Age(x) BY <1>3 DEF Age
    <3> QED BY <1>3, <3>8, <3>9 DEF b
  <2>15. TypeOK' BY Zenon, <1>0, <1>1, <1>3, <2>9, <2>10 DEF TypeOK
  <2> QED BY <1>3, <1>4, <1>5, <2>13, <2>14, <2>15 DEF AlarmInv
<1> QED BY <1>7, <1>8
-----------------------------------------------------------------------------
(* The theorems about the virtualizer *)

\* Every step of the virtualizer keeps the invariant.
LEMMA NextKeepsAlarmInv ==
  ASSUME AlarmInv, [Next]_vars
  PROVE  AlarmInv'
<1>1. CASE Tick BY <1>1, TickStep
<1>2. ASSUME NEW c \in Alarms, NEW back \in 0 .. MaxBack, NEW dt \in Dts, set_alarm(c, back, dt)
      PROVE  AlarmInv'
  BY <1>2, SetStep
<1>3. ASSUME NEW c \in Alarms, disarm(c) PROVE AlarmInv' BY <1>3, DisarmStep
<1>4. CASE AlarmStart BY <1>4, StartStep
<1>5. CASE AlarmScan BY <1>5, ScanStep
<1>6. CASE AlarmEnd BY <1>6, EndStep
<1>7. CASE UNCHANGED vars
  BY <1>7 DEF vars, AlarmInv, TypeOK, Counted, AlarmOK, HwOK, Age, Bound, Pending, firing, LeftOfWait,
              wrapping_sub, wrapping_add, reference_plus_dt
<1> QED BY <1>1, <1>2, <1>3, <1>4, <1>5, <1>6, <1>7 DEF Next

\* In every state the virtualizer (virtual_alarm.rs) can reach, whatever the
\* clients set and disarm and whenever the counter wraps: the counter has not
\* wrapped within a wait, the time it shows for each alarm is the time left, no
\* alarm is overdue by more than the handler's delays, enabled counts the armed
\* alarms, and outside the handler the hardware alarm comes in time for each.
THEOREM AlarmInvariance == Spec => []AlarmInv
<1>1. Init => AlarmInv BY AlarmInit
<1>2. AlarmInv /\ [Next]_vars => AlarmInv' BY NextKeepsAlarmInv
<1> QED BY <1>1, <1>2, PTL DEF Spec

\* Outside MuxAlarm::alarm the hardware alarm is set for no later than the end
\* of the first wait of any armed alarm, or goes off at once, for any number of
\* alarms and any width of the counter that leaves the margin.
THEOREM HardwareIsInTime == Spec => []HardwareInTime
<1>1. ASSUME AlarmInv PROVE HardwareInTime
  <2>1. TypeOK BY <1>1 DEF AlarmInv
  <2>2. ASSUME ~firing, NEW c \in Alarms, armed[c]
        PROVE  hw.armed /\ (hw.left <= WaitLeft(c) \/ hw.left <= 0)
    <3>1. enabled # 0 BY <1>1, <2>1, <2>2, StateTypes, Counts DEF AlarmInv
    <3>2. HwOK BY <1>1, <2>2, <3>1 DEF AlarmInv
    <3> QED BY <2>2, <3>2 DEF HwOK, WaitLeft, LeftOfWait
  <2> QED BY <2>1, <2>2 DEF HardwareInTime
<1>2. AlarmInv => HardwareInTime BY <1>1
<1> QED BY <1>2, AlarmInvariance, PTL

\* The virtualizer implements AlarmService: each client's callback runs only when
\* its alarm is armed and reference + dt has passed, once for each set_alarm, and
\* no armed alarm gets more than MaxLate ticks overdue.
THEOREM AlarmsKeepTheService == Spec => KeepsTheService
<1> DEFINE called == IF callback THEN cursor - 1 ELSE 0
<1>1. Init => Service!Init BY DEF Init, Service!Init
<1>2. ASSUME AlarmInv, [Next]_vars PROVE [Service!Next]_(Service!vars)
  <2>0. cursor \in Nat /\ callback \in BOOLEAN BY <1>2, StateTypes DEF AlarmInv
  <2>1. CASE Tick
    <3>1. \A c \in Alarms : armed[c] => left[c] > -MaxLate BY <1>2, <2>1, TickStep
    <3>2. Service!Tick BY <2>1, <3>1 DEF Tick, Service!Tick
    <3> QED BY <3>2 DEF Service!Next
  <2>2. ASSUME NEW c \in Alarms, NEW back \in 0 .. MaxBack, NEW dt \in Dts, set_alarm(c, back, dt)
        PROVE  Service!Next
    <3> DEFINE n == IF dt > back THEN dt - back ELSE 0
    <3>1. n \in 0 .. W BY <1>2, <2>2, SetStep
    <3>2. Service!Set(c, n) BY <2>2 DEF set_alarm, Service!Set
    <3> HIDE DEF n
    <3> QED BY <3>1, <3>2 DEF Service!Next
  <2>3. ASSUME NEW c \in Alarms, disarm(c) PROVE Service!Next
    <3>1. Service!Disarm(c) BY <2>3 DEF disarm, Service!Disarm, Service!Clear
    <3> QED BY <3>1 DEF Service!Next
  <2>4. CASE AlarmStart
    <3>1. ~callback /\ ~callback' BY <1>2, <2>4, StartStep
    <3> QED BY <2>4, <3>1 DEF AlarmStart, Service!vars
  <2>5. CASE AlarmScan
    <3>1. cursor \in Alarms /\ cursor' = cursor + 1 BY <2>5 DEF AlarmScan
    <3>2. CASE ScanKeep(cursor) \/ ScanExtended(cursor)
      <4>1. Service!Return BY <3>2 DEF ScanKeep, ScanExtended, Service!Return
      <4> QED BY <4>1 DEF Service!Next
    <3>3. CASE ScanFire(cursor)
      <4>1. armed[cursor] /\ left[cursor] <= 0 BY <1>2, <2>5, <3>3, ScanStep
      <4>2. called' = cursor BY <2>0, <3>1, <3>3 DEF ScanFire
      <4>3. Service!Fire(cursor) BY <3>3, <4>1, <4>2 DEF ScanFire, Service!Fire, Service!Clear
      <4> QED BY <3>1, <4>3 DEF Service!Next
    <3> QED BY <2>5, <3>2, <3>3 DEF AlarmScan
  <2>6. CASE AlarmEnd
    <3>1. Service!Return BY <2>6 DEF AlarmEnd, Service!Return
    <3> QED BY <3>1 DEF Service!Next
  <2>7. CASE UNCHANGED vars BY <2>7 DEF vars, Service!vars
  <2> QED BY <1>2, <2>1, <2>2, <2>3, <2>4, <2>5, <2>6, <2>7 DEF Next
<1>3. AlarmInv /\ [Next]_vars => [Service!Next]_(Service!vars) BY <1>2
<1> QED BY <1>1, <1>3, AlarmInvariance, PTL DEF Spec, KeepsTheService, Service!Spec
=============================================================================
