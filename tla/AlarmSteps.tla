----------------------------- MODULE AlarmSteps -----------------------------
(***************************************************************************)
(* The inductive invariant of VirtualAlarm, the arithmetic of its counter, *)
(* and the steps outside the handler's loop, which preserve the invariant: *)
(* a tick, set_alarm, disarm, and the start of the handler.                *)
(***************************************************************************)
EXTENDS VirtualAlarm, FiniteSetTheorems, TLAPS

-----------------------------------------------------------------------------
(* Wrapping arithmetic *)

\* What LatencyFits says of the constants, in the form the proofs use.
LEMMA Margins ==
  /\ N \in Nat \ {0} /\ W \in Nat \ {0} /\ HalfMax \in Nat /\ 2 * HalfMax = W
  /\ MinDt \in Nat /\ MaxBack \in Nat /\ Latency \in Nat /\ HandlerTime \in Nat
  /\ MaxLate = Latency + 2 * HandlerTime
  /\ HalfMax + MinDt + MaxLate < W /\ MaxBack + HalfMax + MinDt < W
  /\ MaxBack + MaxLate <= HalfMax + MinDt
  /\ \A dt \in Dts : dt \in 0 .. W - 1
<1>1. /\ N \in Nat \ {0} /\ W \in Nat /\ W % 2 = 0 /\ Dts \subseteq 0 .. W - 1
      /\ MinDt \in Nat /\ MaxBack \in Nat /\ Latency \in Nat /\ HandlerTime \in Nat
      /\ HalfMax + MinDt + MaxLate < W /\ MaxBack + HalfMax + MinDt < W
      /\ MaxBack + MaxLate <= HalfMax + MinDt
  BY LatencyFits DEF Ticks
<1>2. HalfMax \in Nat /\ 2 * HalfMax = W BY <1>1 DEF HalfMax
<1>3. MaxLate = Latency + 2 * HandlerTime /\ MaxLate \in Nat BY <1>1 DEF MaxLate
<1>4. W # 0 BY <1>1, <1>2, <1>3
<1> QED BY <1>1, <1>2, <1>3, <1>4

\* wrapping_sub without the modulus.
LEMMA SubIs ==
  ASSUME NEW a \in Ticks, NEW b \in Ticks
  PROVE  wrapping_sub(a, b) = IF b <= a THEN a - b ELSE a - b + W
<1>1. W \in Nat \ {0} BY Margins
<1> QED BY <1>1 DEF wrapping_sub, Ticks

\* wrapping_add without the modulus.
LEMMA AddIs ==
  ASSUME NEW a \in Ticks, NEW b \in Ticks
  PROVE  wrapping_add(a, b) = IF a + b < W THEN a + b ELSE a + b - W
<1>1. W \in Nat \ {0} BY Margins
<1> QED BY <1>1 DEF wrapping_add, Ticks

\* Ticks since r, as the counter shows them, and what a tick makes of them.
LEMMA AgeFacts ==
  ASSUME NEW t \in Ticks, NEW r \in Ticks
  PROVE  /\ wrapping_sub(t, r) \in 0 .. W - 1
         /\ wrapping_add(t, 1) \in Ticks
         /\ wrapping_sub(t, r) < W - 1 => wrapping_sub(wrapping_add(t, 1), r) = wrapping_sub(t, r) + 1
<1>0. W \in Nat \ {0} /\ t \in 0 .. W - 1 /\ r \in 0 .. W - 1 BY Margins DEF Ticks
<1>1. wrapping_sub(t, r) \in 0 .. W - 1 BY <1>0, SubIs
<1>2. wrapping_add(t, 1) \in Ticks BY <1>0 DEF wrapping_add, Ticks
<1>3. ASSUME wrapping_sub(t, r) < W - 1
      PROVE  wrapping_sub(wrapping_add(t, 1), r) = wrapping_sub(t, r) + 1
  <2>1. W > 1 /\ 1 \in Ticks BY <1>0, <1>1, <1>3 DEF Ticks
  <2>2. wrapping_add(t, 1) = IF t + 1 < W THEN t + 1 ELSE 0 BY <1>0, <2>1, AddIs
  <2> DEFINE u == wrapping_add(t, 1)
  <2>3. wrapping_sub(u, r) = IF r <= u THEN u - r ELSE u - r + W BY <1>2, SubIs
  <2>4. wrapping_sub(t, r) = IF r <= t THEN t - r ELSE t - r + W BY SubIs
  <2> HIDE DEF u
  <2>5. u = IF t + 1 < W THEN t + 1 ELSE 0 BY <2>2 DEF u
  <2>6. wrapping_sub(u, r) = wrapping_sub(t, r) + 1 BY <1>0, <1>3, <2>3, <2>4, <2>5
  <2> QED BY <2>6 DEF u
<1> QED BY <1>1, <1>2, <1>3

\* A wait, seen in the counter: whether it is over, what is left of it, and the
\* age of a wait that follows it.
LEMMA WaitFacts ==
  ASSUME NEW t \in Ticks, NEW r \in Ticks, NEW d \in Ticks
  PROVE  LET age == wrapping_sub(t, r)
             end == wrapping_add(r, d)
         IN  /\ end \in Ticks
             /\ within_range(t, r, end) <=> age < d
             /\ age < d => wrapping_sub(end, t) = d - age
             /\ d <= age => wrapping_sub(t, end) = age - d
<1> DEFINE age == wrapping_sub(t, r)
           end == wrapping_add(r, d)
<1>0. W \in Nat \ {0} /\ t \in 0 .. W - 1 /\ r \in 0 .. W - 1 /\ d \in 0 .. W - 1 BY Margins DEF Ticks
<1>1. end = IF r + d < W THEN r + d ELSE r + d - W BY AddIs
<1>2. age = IF r <= t THEN t - r ELSE t - r + W BY SubIs
<1> HIDE DEF age, end
<1>3. end \in Ticks BY <1>0, <1>1 DEF Ticks
<1>4. wrapping_sub(end, r) = IF r <= end THEN end - r ELSE end - r + W BY <1>3, SubIs
<1>5. wrapping_sub(end, r) = d BY <1>0, <1>1, <1>4
<1>6. within_range(t, r, end) <=> age < d BY <1>5 DEF within_range, age
<1>7. wrapping_sub(end, t) = IF t <= end THEN end - t ELSE end - t + W BY <1>3, SubIs
<1>8. wrapping_sub(t, end) = IF end <= t THEN t - end ELSE t - end + W BY <1>3, SubIs
<1>9. age < d => wrapping_sub(end, t) = d - age BY <1>0, <1>1, <1>2, <1>7
<1>10. d <= age => wrapping_sub(t, end) = age - d BY <1>0, <1>1, <1>2, <1>8
<1> QED BY <1>3, <1>6, <1>9, <1>10 DEF age, end

\* A reference in the past, as old as it was taken to be.
LEMMA PastReference ==
  ASSUME NEW t \in Ticks, NEW back \in Ticks
  PROVE  wrapping_sub(t, back) \in Ticks /\ wrapping_sub(t, wrapping_sub(t, back)) = back
<1> DEFINE r == wrapping_sub(t, back)
<1>0. W \in Nat \ {0} /\ t \in 0 .. W - 1 /\ back \in 0 .. W - 1 BY Margins DEF Ticks
<1>1. r = IF back <= t THEN t - back ELSE t - back + W BY SubIs
<1> HIDE DEF r
<1>2. r \in Ticks BY <1>0, <1>1 DEF Ticks
<1>3. wrapping_sub(t, r) = IF r <= t THEN t - r ELSE t - r + W BY <1>2, SubIs
<1>4. wrapping_sub(t, r) = back BY <1>0, <1>1, <1>3
<1> QED BY <1>2, <1>4 DEF r

\* The place of the hardware's expiry, l ticks away, in a wait of e ticks that
\* started back ticks ago.
LEMMA ExpiryInWait ==
  ASSUME NEW t \in Ticks, NEW r \in Ticks, NEW d \in Ticks, NEW back \in Ticks, NEW e \in Ticks,
         NEW l, l = d - wrapping_sub(t, r), d + back < W
  PROVE  LET n == wrapping_sub(t, back)
             in == within_range(wrapping_add(r, d), n, wrapping_add(n, e))
         IN  /\ in => l < e - back \/ l < 0
             /\ ~in => l >= e - back \/ l < 0
<1> DEFINE n == wrapping_sub(t, back)
           x == wrapping_add(r, d)
           age == wrapping_sub(t, r)
<1>0. W \in Nat \ {0} /\ t \in 0 .. W - 1 /\ r \in 0 .. W - 1 /\ d \in 0 .. W - 1
      /\ back \in 0 .. W - 1 /\ e \in 0 .. W - 1
  BY Margins DEF Ticks
<1>1. x = IF r + d < W THEN r + d ELSE r + d - W BY AddIs
<1>2. age = IF r <= t THEN t - r ELSE t - r + W BY SubIs
<1>3. n = IF back <= t THEN t - back ELSE t - back + W BY SubIs
<1>4. l = d - age OBVIOUS
<1>5. n \in Ticks /\ x \in Ticks BY <1>0, <1>1, <1>3 DEF Ticks
<1> HIDE DEF n, x, age
<1>6. within_range(x, n, wrapping_add(n, e)) <=> wrapping_sub(x, n) < e BY <1>5, WaitFacts
<1>7. wrapping_sub(x, n) = IF n <= x THEN x - n ELSE x - n + W BY <1>5, SubIs
<1>8. l >= 0 => wrapping_sub(x, n) = l + back BY <1>0, <1>1, <1>2, <1>3, <1>4, <1>7
<1>9. l \in Int BY <1>0, <1>2, <1>4
<1>10. wrapping_sub(x, n) < e => l < e - back \/ l < 0 BY <1>0, <1>8, <1>9
<1>11. ~(wrapping_sub(x, n) < e) => l >= e - back \/ l < 0 BY <1>0, <1>8, <1>9
<1> QED BY <1>6, <1>10, <1>11 DEF n, x

-----------------------------------------------------------------------------
(* One alarm: d is its wait, age the ticks since the reference of d, l the  *)
(* ticks left until it is due, and b bounds the ticks since its wait ended. *)

Waits == [reference : Ticks, dt : Ticks, extended : BOOLEAN]

Longer(a, b) == IF a > b THEN a ELSE b

\* The counter has not wrapped since the wait began, and what it shows agrees
\* with the time left.  An alarm set when its dt was already over has 0 left.
AlarmOK(d, age, l, b) ==
  /\ d.dt <= HalfMax + MinDt
  /\ age <= Longer(d.dt, MaxBack) + b
  /\ IF d.extended THEN d.dt > MinDt /\ l = d.dt + HalfMax - age
     ELSE l >= -b /\ (l = d.dt - age \/ (l <= 0 /\ d.dt <= age))

\* The wait of d is over when it has nothing left.
LeftOfWait(d, l) == l - (IF d.extended THEN HalfMax ELSE 0)

\* The types of the fields of a wait.
LEMMA WaitTypes ==
  ASSUME NEW d \in Waits
  PROVE  /\ d.reference \in Ticks /\ d.dt \in Ticks /\ d.extended \in BOOLEAN
         /\ d.dt \in 0 .. W - 1
<1>1. d.reference \in Ticks /\ d.dt \in Ticks /\ d.extended \in BOOLEAN BY DEF Waits
<1> QED BY <1>1 DEF Ticks

\* An alarm that is right within one delay is right within a longer one.
LEMMA AlarmOKMonotone ==
  ASSUME NEW d \in Waits, NEW age \in Nat, NEW l \in Int, NEW b \in Nat, NEW c \in Nat, b <= c,
         AlarmOK(d, age, l, b)
  PROVE  AlarmOK(d, age, l, c)
<1>1. d.dt \in 0 .. W - 1 BY WaitTypes
<1>2. W \in Nat /\ MaxBack \in Nat BY Margins
<1> QED BY <1>1, <1>2 DEF AlarmOK, Longer

\* A tick: the bound has to grow only when the wait is over.
LEMMA AlarmOKTick ==
  ASSUME NEW d \in Waits, NEW age \in Nat, NEW l \in Int, NEW b \in Nat, NEW c \in 0 .. MaxLate,
         AlarmOK(d, age, l, b), b <= c, LeftOfWait(d, l) <= 0 => b + 1 <= c
  PROVE  age < W - 1 /\ AlarmOK(d, age + 1, l - 1, c)
<1> DEFINE dt == d.dt
           ext == d.extended
<1>1. dt \in 0 .. W - 1 BY WaitTypes
<1>2. /\ W \in Nat \ {0} /\ HalfMax \in Nat /\ MinDt \in Nat /\ MaxBack \in Nat /\ MaxLate \in Nat
      /\ HalfMax + MinDt + MaxLate < W /\ MaxBack + MaxLate <= HalfMax + MinDt
  BY Margins
<1>3. /\ dt <= HalfMax + MinDt
      /\ age <= (IF dt > MaxBack THEN dt ELSE MaxBack) + b
      /\ IF ext THEN dt > MinDt /\ l = dt + HalfMax - age
         ELSE l >= -b /\ (l = dt - age \/ (l <= 0 /\ dt <= age))
  BY Zenon DEF AlarmOK, Longer
<1>4. l - (IF ext THEN HalfMax ELSE 0) <= 0 => b + 1 <= c BY Zenon DEF LeftOfWait
<1> SUFFICES /\ age < W - 1
             /\ age + 1 <= (IF dt > MaxBack THEN dt ELSE MaxBack) + c
             /\ IF ext THEN dt > MinDt /\ l - 1 = dt + HalfMax - (age + 1)
                ELSE l - 1 >= -c /\ (l - 1 = dt - (age + 1) \/ (l - 1 <= 0 /\ dt <= age + 1))
  BY Zenon, <1>3 DEF AlarmOK, Longer
<1> HIDE DEF dt, ext
<1>5. CASE ext BY <1>1, <1>2, <1>3, <1>4, <1>5
<1>6. CASE ~ext BY <1>1, <1>2, <1>3, <1>4, <1>6
<1> QED BY <1>5, <1>6

\* set_alarm, with a reference back ticks ago.
LEMMA AlarmOKSet ==
  ASSUME NEW r \in Ticks, NEW requested \in Ticks, NEW back \in 0 .. MaxBack, NEW b \in Nat
  PROVE  LET d == Split(r, requested)
             l == IF requested > back THEN requested - back ELSE 0
         IN  /\ d \in Waits /\ d.reference = r /\ d.dt <= HalfMax + MinDt
             /\ l \in 0 .. W - 1 /\ AlarmOK(d, back, l, b)
             /\ d.dt - back <= LeftOfWait(d, l) \/ d.dt - back <= 0
<1>1. requested \in 0 .. W - 1 BY DEF Ticks
<1>2. /\ W \in Nat \ {0} /\ HalfMax \in Nat /\ MinDt \in Nat /\ MaxBack \in Nat /\ 2 * HalfMax = W
      /\ MaxBack + HalfMax + MinDt < W /\ MaxLate \in Nat
  BY Margins
<1>3. CASE requested > HalfMax + MinDt
  <2>1. requested - HalfMax \in Ticks BY <1>1, <1>2, <1>3 DEF Ticks
  <2>2. Split(r, requested) = [reference |-> r, dt |-> requested - HalfMax, extended |-> TRUE] BY <1>3 DEF Split
  <2>3. requested > back BY <1>1, <1>2, <1>3
  <2>4. Split(r, requested) \in Waits BY <2>1, <2>2 DEF Waits
  <2> QED BY <1>1, <1>2, <1>3, <2>2, <2>3, <2>4 DEF AlarmOK, Longer, LeftOfWait
<1>4. CASE ~(requested > HalfMax + MinDt)
  <2>2. Split(r, requested) = [reference |-> r, dt |-> requested, extended |-> FALSE] BY <1>4 DEF Split
  <2>3. Split(r, requested) \in Waits BY <2>2 DEF Waits
  <2> QED BY <1>1, <1>2, <1>4, <2>2, <2>3 DEF AlarmOK, Longer, LeftOfWait
<1> QED BY <1>3, <1>4

\* The handler finds the wait not over.
LEMMA AlarmOKKept ==
  ASSUME NEW d \in Waits, NEW age \in Nat, NEW l \in Int, NEW b \in Nat, NEW c \in Nat,
         AlarmOK(d, age, l, b), age < d.dt
  PROVE  AlarmOK(d, age, l, c)
<1>1. d.dt \in 0 .. W - 1 BY WaitTypes
<1>2. W \in Nat /\ MaxBack \in Nat BY Margins
<1> QED BY <1>1, <1>2 DEF AlarmOK, Longer

\* It finds the first wait of two over: the second, which follows it, is not.
LEMMA AlarmOKExtended ==
  ASSUME NEW d \in Waits, NEW age \in Nat, NEW l \in Int, NEW b \in 0 .. MaxLate, NEW c \in Nat,
         NEW e \in Waits, e.dt = HalfMax, ~e.extended,
         AlarmOK(d, age, l, b), d.dt <= age, d.extended
  PROVE  AlarmOK(e, age - d.dt, l, c)
<1>1. d.dt \in 0 .. W - 1 BY WaitTypes
<1>2. /\ W \in Nat \ {0} /\ HalfMax \in Nat /\ MinDt \in Nat /\ MaxBack \in Nat /\ MaxLate \in Nat
      /\ 2 * HalfMax = W /\ HalfMax + MinDt + MaxLate < W /\ MaxBack + MaxLate <= HalfMax + MinDt
  BY Margins
<1>3. d.dt > MinDt /\ l = d.dt + HalfMax - age /\ age <= Longer(d.dt, MaxBack) + b BY DEF AlarmOK
<1>4. age - d.dt <= HalfMax BY <1>1, <1>2, <1>3 DEF Longer
<1>5. age - d.dt <= Longer(HalfMax, MaxBack) + c BY <1>1, <1>2, <1>4 DEF Longer
<1>6. l >= -c /\ l = HalfMax - (age - d.dt) BY <1>1, <1>2, <1>3, <1>4
<1> QED BY <1>2, <1>5, <1>6 DEF AlarmOK
-----------------------------------------------------------------------------
(* The invariant *)

Age(c) == wrapping_sub(now, dt_reference[c].reference)

\* The delay of the hardware's expiry, up to Latency.
Pending == IF hw.left > 0 THEN 0 ELSE IF hw.left < -Latency THEN Latency ELSE -hw.left

\* The longest delay of alarm c: what it waits for the handler, or has waited in
\* it until it is looked at; and what it waited in the handler that looked at
\* it before it was due.
Bound(c) ==
  IF ~firing THEN HandlerTime + Pending
  ELSE IF c < cursor THEN spent ELSE Latency + HandlerTime + spent

Counted(arm, n) == n = Cardinality({c \in Alarms : arm[c]})

\* The hardware alarm is next_tick_vals and comes soon enough for every alarm.
HwOK ==
  /\ hw.armed /\ next_tick_vals # None /\ next_tick_vals.dt <= HalfMax + MinDt
  /\ hw.expire = reference_plus_dt(next_tick_vals)
  /\ hw.left = next_tick_vals.dt - wrapping_sub(now, next_tick_vals.reference)
  /\ \A c \in Alarms : armed[c] => hw.left <= LeftOfWait(dt_reference[c], left[c]) \/ hw.left <= 0

AlarmInv ==
  /\ TypeOK
  /\ Counted(armed, enabled)
  /\ callback => cursor >= 2
  /\ firing /\ hw.armed => hw.left >= -(MaxBack + spent)
  /\ \A c \in Alarms : armed[c] => AlarmOK(dt_reference[c], Age(c), left[c], Bound(c))
  /\ ~firing /\ enabled # 0 => HwOK

\* enabled stays the number of armed alarms when one is armed or disarmed.
LEMMA Counts ==
  ASSUME NEW arm \in [Alarms -> BOOLEAN], NEW n, Counted(arm, n)
  PROVE  /\ n \in 0 .. N
         /\ n = 0 <=> \A c \in Alarms : ~arm[c]
         /\ \A c \in Alarms : Counted([arm EXCEPT ![c] = TRUE], IF arm[c] THEN n ELSE n + 1)
         /\ \A c \in Alarms : arm[c] => n >= 1 /\ Counted([arm EXCEPT ![c] = FALSE], n - 1)
<1> DEFINE S == {c \in Alarms : arm[c]}
<1>0. N \in Nat BY Margins
<1>1. IsFiniteSet(Alarms) /\ Cardinality(Alarms) = N BY <1>0, FS_Interval DEF Alarms
<1>2. IsFiniteSet(S) /\ Cardinality(S) <= N /\ Cardinality(S) \in Nat /\ n = Cardinality(S)
  <2>1. S \subseteq Alarms OBVIOUS
  <2> QED BY <1>1, <2>1, FS_Subset, FS_CardinalityType DEF Counted
<1>3. n \in 0 .. N BY <1>0, <1>2
<1>4. n = 0 <=> \A c \in Alarms : ~arm[c]
  <2>1. n = 0 <=> S = {} BY <1>2, FS_EmptySet
  <2> QED BY <2>1
<1>5. ASSUME NEW c \in Alarms PROVE Counted([arm EXCEPT ![c] = TRUE], IF arm[c] THEN n ELSE n + 1)
  <2>1. {x \in Alarms : [arm EXCEPT ![c] = TRUE][x]} = S \cup {c} OBVIOUS
  <2>2. Cardinality(S \cup {c}) = IF c \in S THEN n ELSE n + 1 BY <1>2, FS_AddElement
  <2>3. c \in S <=> arm[c] OBVIOUS
  <2> QED BY <2>1, <2>2, <2>3 DEF Counted
<1>6. ASSUME NEW c \in Alarms, arm[c] PROVE n >= 1 /\ Counted([arm EXCEPT ![c] = FALSE], n - 1)
  <2>1. {x \in Alarms : [arm EXCEPT ![c] = FALSE][x]} = S \ {c} OBVIOUS
  <2>2. c \in S BY <1>6
  <2>3. Cardinality(S \ {c}) = n - 1 BY <1>2, <2>2, FS_RemoveElement
  <2>4. n # 0 BY <1>4, <1>6
  <2> QED BY <1>3, <2>1, <2>3, <2>4 DEF Counted
<1> QED BY <1>3, <1>4, <1>5, <1>6

\* What TypeOK says, field by field.
LEMMA StateTypes ==
  ASSUME TypeOK
  PROVE  /\ now \in Ticks /\ hw.armed \in BOOLEAN /\ hw.expire \in Ticks /\ hw.left \in Int
         /\ hw = [armed |-> hw.armed, expire |-> hw.expire, left |-> hw.left]
         /\ dt_reference \in [Alarms -> Waits] /\ armed \in [Alarms -> BOOLEAN]
         /\ enabled \in Nat /\ cursor \in Nat /\ callback \in BOOLEAN
         /\ spent \in 0 .. HandlerTime /\ left \in [Alarms -> Int]
         /\ Pending \in 0 .. Latency
         /\ \A c \in Alarms : Bound(c) \in 0 .. MaxLate /\ Age(c) \in 0 .. W - 1
<1>0. /\ W \in Nat \ {0} /\ N \in Nat /\ HandlerTime \in Nat /\ Latency \in Nat
      /\ MaxLate = Latency + 2 * HandlerTime
  BY Margins
<1>1. /\ now \in Ticks /\ hw \in [armed : BOOLEAN, expire : Ticks, left : -W .. W]
      /\ dt_reference \in [Alarms -> Waits] /\ armed \in [Alarms -> BOOLEAN]
      /\ enabled \in 0 .. N /\ cursor \in 0 .. (N + 1) /\ callback \in BOOLEAN
      /\ spent \in 0 .. HandlerTime /\ left \in [Alarms -> -W .. W]
  BY DEF TypeOK, Waits
<1>2. hw.armed \in BOOLEAN /\ hw.expire \in Ticks /\ hw.left \in -W .. W
      /\ hw = [armed |-> hw.armed, expire |-> hw.expire, left |-> hw.left]
  BY <1>1
<1>3. hw.left \in Int /\ enabled \in Nat /\ cursor \in Nat BY <1>0, <1>1, <1>2
<1>4. left \in [Alarms -> Int] BY <1>0, <1>1
<1>5. Pending \in 0 .. Latency BY <1>0, <1>3 DEF Pending
<1>6. ASSUME NEW c \in Alarms PROVE Bound(c) \in 0 .. MaxLate /\ Age(c) \in 0 .. W - 1
  <2>1. Bound(c) \in 0 .. MaxLate BY <1>0, <1>1, <1>5 DEF Bound
  <2>2. dt_reference[c].reference \in Ticks BY <1>1, WaitTypes
  <2> QED BY Zenon, <1>1, <2>1, <2>2, AgeFacts DEF Age
<1> QED BY <1>1, <1>2, <1>3, <1>4, <1>5, <1>6

\* The invariant holds when no alarm was ever set.
LEMMA AlarmInit ==
  ASSUME Init
  PROVE  AlarmInv
<1>0. W \in Nat \ {0} /\ N \in Nat /\ HandlerTime \in Nat /\ 0 \in Ticks BY Margins DEF Ticks
<1>1. Counted(armed, enabled)
  <2>1. {c \in Alarms : armed[c]} = {} BY DEF Init
  <2> QED BY <2>1, FS_EmptySet DEF Init, Counted
<1>2. hw = Off /\ Off \in [armed : BOOLEAN, expire : Ticks, left : -W .. W] BY <1>0 DEF Init, Off
<1>3. dt_reference \in [Alarms -> [reference : Ticks, dt : Ticks, extended : BOOLEAN]] BY <1>0 DEF Init, Unset
<1>4. TypeOK
  <2>1. 0 \in -W .. W /\ 0 \in 0 .. N /\ 0 \in 0 .. N + 1 /\ 0 \in 0 .. HandlerTime BY <1>0
  <2>2. left \in [Alarms -> -W .. W] /\ armed \in [Alarms -> BOOLEAN] BY <2>1 DEF Init
  <2> QED BY Zenon, <1>2, <1>3, <2>1, <2>2 DEF Init, TypeOK
<1> QED BY <1>1, <1>4 DEF Init, AlarmInv, firing

\* Time passing keeps the invariant, and leaves no alarm overdue beyond MaxLate.
LEMMA TickStep ==
  ASSUME AlarmInv, Tick
  PROVE  AlarmInv' /\ \A c \in Alarms : armed[c] => left[c] > -MaxLate
<1>0. /\ W \in Nat \ {0} /\ N \in Nat /\ HandlerTime \in Nat /\ Latency \in Nat /\ MaxBack \in Nat
      /\ HalfMax \in Nat /\ MinDt \in Nat
      /\ MaxLate = Latency + 2 * HandlerTime /\ MaxLate \in Nat /\ HalfMax + MinDt + MaxLate < W
      /\ MaxBack + HalfMax + MinDt < W /\ MaxBack + MaxLate <= HalfMax + MinDt
  BY Margins
<1>1. TypeOK BY DEF AlarmInv
<1>2. /\ now \in Ticks /\ hw.armed \in BOOLEAN /\ hw.expire \in Ticks /\ hw.left \in Int
      /\ hw = [armed |-> hw.armed, expire |-> hw.expire, left |-> hw.left]
      /\ dt_reference \in [Alarms -> Waits] /\ armed \in [Alarms -> BOOLEAN]
      /\ enabled \in Nat /\ cursor \in Nat /\ callback \in BOOLEAN
      /\ spent \in 0 .. HandlerTime /\ left \in [Alarms -> Int]
      /\ Pending \in 0 .. Latency
      /\ \A c \in Alarms : Bound(c) \in 0 .. MaxLate /\ Age(c) \in 0 .. W - 1
  BY <1>1, StateTypes
<1>3. /\ IF firing THEN spent < HandlerTime ELSE hw.armed => hw.left > -Latency
      /\ now' = wrapping_add(now, 1)
      /\ hw' = IF hw.armed THEN [hw EXCEPT !.left = @ - 1] ELSE hw
      /\ left' = [c \in Alarms |-> IF armed[c] THEN left[c] - 1 ELSE left[c]]
      /\ spent' = IF firing THEN spent + 1 ELSE spent
      /\ dt_reference' = dt_reference /\ armed' = armed /\ enabled' = enabled
      /\ next_tick_vals' = next_tick_vals /\ cursor' = cursor /\ callback' = callback
  BY DEF Tick
<1>4. firing' = firing BY <1>3 DEF firing
<1>5. now' \in Ticks BY <1>2, <1>3, AgeFacts
<1>6. /\ hw'.armed = hw.armed /\ hw'.expire = hw.expire
      /\ hw'.left = IF hw.armed THEN hw.left - 1 ELSE hw.left
      /\ hw' = [armed |-> hw'.armed, expire |-> hw'.expire, left |-> hw'.left]
  BY <1>2, <1>3
<1>7. spent' \in 0 .. HandlerTime BY <1>0, <1>2, <1>3
<1>8. ~firing /\ enabled # 0 => HwOK BY DEF AlarmInv
<1>9. (\E c \in Alarms : armed[c]) => enabled # 0 BY <1>2, Counts DEF AlarmInv
<1>10. firing /\ hw.armed => hw.left >= -(MaxBack + spent) BY DEF AlarmInv
<1>11. firing' /\ hw'.armed => hw'.left >= -(MaxBack + spent') BY <1>0, <1>2, <1>3, <1>4, <1>6, <1>10
<1>12. ASSUME NEW c \in Alarms, armed[c]
       PROVE  /\ Age(c) < W - 1 /\ Age(c)' = Age(c) + 1 /\ left'[c] = left[c] - 1
              /\ Bound(c)' \in 0 .. MaxLate
              /\ AlarmOK(dt_reference[c], Age(c) + 1, left[c] - 1, Bound(c)')
  <2> DEFINE d == dt_reference[c]
             b == Bound(c)
             n == Bound(c)'
  <2>1. /\ d \in Waits /\ Age(c) \in Nat /\ left[c] \in Int /\ b \in Nat
        /\ AlarmOK(d, Age(c), left[c], b)
    BY <1>0, <1>2, <1>12 DEF AlarmInv
  <2>2. n \in 0 .. MaxLate /\ b <= n /\ (LeftOfWait(d, left[c]) <= 0 => b + 1 <= n)
    <3>1. CASE firing
      <4>1. b = IF c < cursor THEN spent ELSE Latency + HandlerTime + spent BY <3>1 DEF Bound
      <4>2. n = IF c < cursor THEN spent + 1 ELSE Latency + HandlerTime + (spent + 1)
        BY <1>3, <1>4, <3>1 DEF Bound
      <4> HIDE DEF b, n
      <4> QED BY <1>0, <1>2, <1>3, <3>1, <4>1, <4>2
    <3>2. CASE ~firing
      <4>1. HwOK BY <1>8, <1>9, <1>12, <3>2
      <4>2. hw.armed /\ (hw.left <= LeftOfWait(d, left[c]) \/ hw.left <= 0) BY <1>12, <4>1 DEF HwOK
      <4>3. hw.left > -Latency /\ hw'.left = hw.left - 1 BY <1>3, <1>6, <3>2, <4>2
      <4>4. b = HandlerTime + Pending BY <3>2 DEF Bound
      <4>5. n = HandlerTime + Pending' BY <1>4, <3>2 DEF Bound
      <4>6. LeftOfWait(d, left[c]) \in Int BY <1>0, <2>1 DEF LeftOfWait
      <4>7. Pending' \in 0 .. Latency /\ Pending <= Pending' /\ (hw.left <= 0 => Pending + 1 <= Pending')
        BY <1>0, <1>2, <4>3 DEF Pending
      <4> HIDE DEF b, n, d
      <4>8. LeftOfWait(d, left[c]) <= 0 => hw.left <= 0 BY <1>2, <4>2, <4>6
      <4> QED BY <1>0, <1>2, <4>4, <4>5, <4>7, <4>8
    <3> QED BY <3>1, <3>2
  <2> HIDE DEF b, n
  <2>3. Age(c) < W - 1 /\ AlarmOK(d, Age(c) + 1, left[c] - 1, n) BY <2>1, <2>2, AlarmOKTick
  <2>4. d.reference \in Ticks BY <2>1, WaitTypes
  <2>5. Age(c)' = Age(c) + 1 BY <1>2, <1>3, <2>3, <2>4, AgeFacts DEF Age
  <2> QED BY <1>3, <1>12, <2>2, <2>3, <2>5 DEF n
<1>13. ASSUME NEW c \in Alarms, armed[c] PROVE left[c] > -MaxLate /\ left[c] - 1 \in -W .. W
  <2>1. AlarmOK(dt_reference[c], Age(c) + 1, left[c] - 1, Bound(c)') /\ Bound(c)' \in 0 .. MaxLate BY <1>12, <1>13
  <2>2. dt_reference[c] \in Waits /\ dt_reference[c].dt \in 0 .. W - 1 BY <1>2, WaitTypes
  <2>3. left[c] \in -W .. W BY <1>1 DEF TypeOK
  <2> DEFINE dt == dt_reference[c].dt
             l == left[c]
             age == Age(c)
             b == Bound(c)'
  <2>4. age \in 0 .. W - 1 BY <1>2
  <2>5. CASE dt_reference[c].extended
    <3>1. dt > MinDt /\ l - 1 = dt + HalfMax - (age + 1) /\ age + 1 <= (IF dt > MaxBack THEN dt ELSE MaxBack) + b
      BY <2>1, <2>5 DEF AlarmOK, Longer
    <3> HIDE DEF dt, l, age, b
    <3>2. dt \in 0 .. W - 1 /\ l \in -W .. W /\ b \in 0 .. MaxLate BY <2>1, <2>2, <2>3 DEF dt, l, b
    <3>3. l > -MaxLate /\ l - 1 \in -W .. W BY <1>0, <2>4, <3>1, <3>2
    <3> QED BY <3>3 DEF l
  <2>6. CASE ~dt_reference[c].extended
    <3>1. l - 1 >= -b BY <2>1, <2>6 DEF AlarmOK
    <3> HIDE DEF l, b
    <3>2. l \in -W .. W /\ b \in 0 .. MaxLate BY <2>1, <2>3 DEF l, b
    <3>3. l > -MaxLate /\ l - 1 \in -W .. W BY <1>0, <3>1, <3>2
    <3> QED BY <3>3 DEF l
  <2> QED BY <2>5, <2>6
<1>14. ~firing' /\ enabled' # 0 => HwOK'
  <2> SUFFICES ASSUME ~firing, enabled # 0 PROVE HwOK' BY <1>3, <1>4
  <2> DEFINE v == next_tick_vals
  <2>1. HwOK BY <1>8
  <2>2. v \in [reference : Ticks, dt : Ticks] BY <1>1, <2>1 DEF TypeOK, HwOK
  <2>3. v.reference \in Ticks /\ v.dt \in 0 .. W - 1 BY <2>2 DEF Ticks
  <2>4. hw.armed /\ hw.left > -Latency /\ hw'.left = hw.left - 1 BY <1>3, <1>6, <2>1 DEF HwOK
  <2>5. wrapping_sub(now, v.reference) < W - 1
    <3> DEFINE a == wrapping_sub(now, v.reference)
    <3>1. a \in 0 .. W - 1 BY Zenon, <1>2, <2>3, AgeFacts
    <3>2. hw.left = v.dt - a /\ v.dt <= HalfMax + MinDt BY <2>1 DEF HwOK
    <3> HIDE DEF a, v
    <3>3. a < W - 1 BY <1>0, <2>3, <2>4, <3>1, <3>2
    <3> QED BY <3>3 DEF a, v
  <2>6. wrapping_sub(now', v.reference) = wrapping_sub(now, v.reference) + 1 BY <1>2, <1>3, <2>3, <2>5, AgeFacts
  <2>7. wrapping_sub(now, v.reference) \in 0 .. W - 1 BY Zenon, <1>2, <2>3, AgeFacts
  <2>8. hw'.left = v.dt - wrapping_sub(now', v.reference) BY <2>1, <2>3, <2>4, <2>6, <2>7 DEF HwOK
  <2>9. ASSUME NEW c \in Alarms, armed[c]
        PROVE  hw'.left <= LeftOfWait(dt_reference[c], left'[c]) \/ hw'.left <= 0
    <3>1. hw.left <= LeftOfWait(dt_reference[c], left[c]) \/ hw.left <= 0 BY <2>1, <2>9 DEF HwOK
    <3>2. left'[c] = left[c] - 1 /\ left[c] \in Int BY <1>2, <1>3, <2>9
    <3> QED BY <1>0, <1>2, <2>4, <3>1, <3>2 DEF LeftOfWait
  <2>10. hw'.armed /\ hw'.expire = reference_plus_dt(v) BY <1>6, <2>1 DEF HwOK
  <2> QED BY <1>3, <2>1, <2>8, <2>9, <2>10 DEF HwOK, reference_plus_dt
<1>15. TypeOK'
  <2>1. hw'.left \in -W .. W
    <3>1. hw.left \in -W .. W BY <1>1 DEF TypeOK
    <3> QED BY <1>0, <1>2, <1>3, <1>6, <1>7, <1>10, <3>1
  <2>2. hw' \in [armed : BOOLEAN, expire : Ticks, left : -W .. W] BY <1>2, <1>6, <2>1
  <2>3. left' \in [Alarms -> -W .. W]
    <3>1. \A c \in Alarms : (IF armed[c] THEN left[c] - 1 ELSE left[c]) \in -W .. W BY <1>1, <1>13 DEF TypeOK
    <3> QED BY <1>3, <3>1
  <2> QED BY <1>1, <1>3, <1>5, <1>7, <2>2, <2>3 DEF TypeOK
<1>16. \A c \in Alarms : armed'[c] => AlarmOK(dt_reference[c], Age(c), left[c], Bound(c))'
  BY <1>3, <1>12 DEF AlarmOK
<1>17. Counted(armed, enabled)' /\ (callback => cursor >= 2)' BY <1>3 DEF AlarmInv, Counted
<1> QED BY <1>11, <1>13, <1>14, <1>15, <1>16, <1>17 DEF AlarmInv
\* Sooner decides rightly whether a new wait ends before the hardware's.
LEMMA SoonerIsRight ==
  ASSUME AlarmInv, ~firing, enabled # 0, NEW back \in 0 .. MaxBack, NEW dt \in Ticks
  PROVE  LET r == wrapping_sub(now, back)
         IN  /\ Sooner(r, dt) => hw.left > 0 /\ hw.left >= dt - back
             /\ ~Sooner(r, dt) => hw.left < dt - back \/ hw.left <= 0
<1> DEFINE r == wrapping_sub(now, back)
           v == next_tick_vals
           age == wrapping_sub(now, v.reference)
<1>0. /\ W \in Nat \ {0} /\ MaxBack \in Nat /\ HalfMax \in Nat /\ MinDt \in Nat
      /\ MaxBack + HalfMax + MinDt < W
  BY Margins
<1>1. HwOK /\ TypeOK BY DEF AlarmInv
<1>2. v \in [reference : Ticks, dt : Ticks] /\ now \in Ticks /\ hw.left \in Int
  BY <1>1, StateTypes DEF TypeOK, HwOK
<1>3. v.reference \in Ticks /\ v.dt \in Ticks /\ v.dt \in 0 .. W - 1 BY <1>2 DEF Ticks
<1>4. back \in Ticks /\ dt \in 0 .. W - 1 BY <1>0 DEF Ticks
<1>5. /\ hw.expire = wrapping_add(v.reference, v.dt) /\ hw.left = v.dt - age
      /\ v.dt <= HalfMax + MinDt /\ v # None
  BY <1>1 DEF HwOK, reference_plus_dt
<1>6. v.dt + back < W BY <1>0, <1>3, <1>5
<1>7. age \in 0 .. W - 1 /\ (within_range(now, v.reference, wrapping_add(v.reference, v.dt)) <=> age < v.dt)
  BY <1>2, <1>3, AgeFacts, WaitFacts
<1>8. Expired(v, now) <=> hw.left <= 0
  <2> HIDE DEF v, age
  <2>1. Expired(v, now) <=> ~(age < v.dt) BY <1>7 DEF Expired, reference_plus_dt
  <2> QED BY <1>3, <1>5, <1>7, <2>1
<1> DEFINE in == within_range(hw.expire, r, wrapping_add(r, dt))
<1>9. (in => hw.left < dt - back \/ hw.left < 0) /\ (~in => hw.left >= dt - back \/ hw.left < 0)
  <2> DEFINE ref == v.reference
             dd == v.dt
             left0 == hw.left
  <2>1. ref \in Ticks /\ dd \in Ticks /\ now \in Ticks /\ left0 = dd - wrapping_sub(now, ref) /\ dd + back < W
        /\ hw.expire = wrapping_add(ref, dd)
    BY <1>2, <1>3, <1>5, <1>6
  <2> HIDE DEF ref, dd, left0, v
  <2>2. LET e == wrapping_add(ref, dd)
        IN  /\ within_range(e, r, wrapping_add(r, dt)) => left0 < dt - back \/ left0 < 0
            /\ ~within_range(e, r, wrapping_add(r, dt)) => left0 >= dt - back \/ left0 < 0
    BY ONLY <1>4, <2>1, ExpiryInWait, dt \in Ticks, Zenon
  <2> QED BY <2>1, <2>2 DEF left0
<1>10. Sooner(r, dt) <=> ~in /\ ~(hw.left <= 0) BY <1>5, <1>8 DEF Sooner
<1> HIDE DEF in, r
<1>11. /\ Sooner(r, dt) => hw.left > 0 /\ hw.left >= dt - back
       /\ ~Sooner(r, dt) => hw.left < dt - back \/ hw.left <= 0
  BY <1>2, <1>9, <1>10
<1> QED BY <1>11 DEF r

\* VirtualMuxAlarm::set_alarm keeps the invariant, in a callback and outside.
LEMMA SetStep ==
  ASSUME AlarmInv, NEW c \in Alarms, NEW back \in 0 .. MaxBack, NEW requested \in Dts,
         set_alarm(c, back, requested)
  PROVE  AlarmInv' /\ (IF requested > back THEN requested - back ELSE 0) \in 0 .. W
<1> DEFINE r == wrapping_sub(now, back)
           d == Split(r, requested)
           l == IF requested > back THEN requested - back ELSE 0
<1>0. /\ W \in Nat \ {0} /\ N \in Nat /\ HandlerTime \in Nat /\ Latency \in Nat /\ MaxBack \in Nat
      /\ HalfMax \in Nat /\ MinDt \in Nat /\ MaxBack + HalfMax + MinDt < W /\ requested \in 0 .. W - 1
  BY Margins
<1>1. TypeOK BY DEF AlarmInv
<1>2. /\ now \in Ticks /\ hw.armed \in BOOLEAN /\ hw.expire \in Ticks /\ hw.left \in Int
      /\ dt_reference \in [Alarms -> Waits] /\ armed \in [Alarms -> BOOLEAN]
      /\ enabled \in Nat /\ spent \in 0 .. HandlerTime /\ left \in [Alarms -> Int]
      /\ Pending \in 0 .. Latency
      /\ \A x \in Alarms : Bound(x) \in 0 .. MaxLate /\ Age(x) \in 0 .. W - 1
  BY <1>1, StateTypes
<1>3. back \in Ticks /\ requested \in Ticks BY <1>0 DEF Ticks
<1>4. r \in Ticks /\ wrapping_sub(now, r) = back BY <1>2, <1>3, PastReference
<1> HIDE DEF r
<1>5. /\ d \in Waits /\ d.reference = r /\ d.dt <= HalfMax + MinDt /\ l \in 0 .. W - 1
      /\ d.dt - back <= LeftOfWait(d, l) \/ d.dt - back <= 0
      /\ \A b \in Nat : AlarmOK(d, back, l, b)
  BY <1>3, <1>4, AlarmOKSet
<1> DEFINE P == enabled = 0 \/ (~firing /\ Sooner(d.reference, d.dt))
<1>6. /\ dt_reference' = [dt_reference EXCEPT ![c] = d]
      /\ armed' = [armed EXCEPT ![c] = TRUE]
      /\ enabled' = IF armed[c] THEN enabled ELSE enabled + 1
      /\ IF P THEN MuxSetAlarm(d.reference, d.dt) ELSE UNCHANGED <<hw, next_tick_vals>>
      /\ left' = [left EXCEPT ![c] = l]
      /\ now' = now /\ cursor' = cursor /\ callback' = callback /\ spent' = spent
  BY Zenon DEF set_alarm, r
<1> HIDE DEF d, l
<1>7. d.dt \in Ticks /\ d.dt \in 0 .. W - 1 BY <1>5, WaitTypes
<1>8. P => /\ hw' = [armed |-> TRUE, expire |-> wrapping_add(r, d.dt), left |-> d.dt - back]
           /\ next_tick_vals' = [reference |-> r, dt |-> d.dt]
  BY <1>4, <1>5, <1>6 DEF MuxSetAlarm, HwSet
<1>9. ~P => hw' = hw /\ next_tick_vals' = next_tick_vals BY <1>6
<1> HIDE DEF P
<1>10. P => /\ hw'.armed /\ hw'.expire = wrapping_add(r, d.dt) /\ hw'.left = d.dt - back /\ hw'.left \in -W .. W
            /\ hw' \in [armed : BOOLEAN, expire : Ticks, left : -W .. W]
            /\ next_tick_vals'.reference = r /\ next_tick_vals'.dt = d.dt /\ next_tick_vals' # None
            /\ next_tick_vals' \in [reference : Ticks, dt : Ticks]
  <2> SUFFICES ASSUME P
               PROVE  /\ hw'.armed /\ hw'.expire = wrapping_add(r, d.dt) /\ hw'.left = d.dt - back /\ hw'.left \in -W .. W
                      /\ hw' \in [armed : BOOLEAN, expire : Ticks, left : -W .. W]
                      /\ next_tick_vals'.reference = r /\ next_tick_vals'.dt = d.dt /\ next_tick_vals' # None
                      /\ next_tick_vals' \in [reference : Ticks, dt : Ticks]
    OBVIOUS
  <2>1. wrapping_add(r, d.dt) \in Ticks BY <1>2, <1>4, <1>7, WaitFacts
  <2>2. d.dt - back \in -W .. W BY <1>0, <1>7
  <2>3. next_tick_vals'.reference = r /\ next_tick_vals'.dt = d.dt
        /\ next_tick_vals' \in [reference : Ticks, dt : Ticks]
    BY <1>4, <1>7, <1>8
  <2>4. next_tick_vals'.dt # -1 /\ None.dt = -1 BY <1>0, <1>7, <2>3 DEF None
  <2>5. /\ hw'.armed /\ hw'.expire = wrapping_add(r, d.dt) /\ hw'.left = d.dt - back
        /\ hw' \in [armed : BOOLEAN, expire : Ticks, left : -W .. W]
    <3> DEFINE e == wrapping_add(r, d.dt)
               k == d.dt - back
    <3>1. hw' = [armed |-> TRUE, expire |-> e, left |-> k] /\ e \in Ticks /\ k \in -W .. W BY <1>8, <2>1, <2>2
    <3> HIDE DEF e, k
    <3>2. hw'.armed /\ hw'.expire = e /\ hw'.left = k /\ hw' \in [armed : BOOLEAN, expire : Ticks, left : -W .. W]
      BY ONLY <3>1
    <3> QED BY <3>2 DEF e, k
  <2> QED BY ONLY <2>2, <2>3, <2>4, <2>5
<1>11. hw'.left \in Int BY <1>2, <1>9, <1>10
<1>12. firing' = firing BY <1>6 DEF firing
<1>13. (\E x \in Alarms : armed[x]) => enabled # 0 BY <1>2, Counts DEF AlarmInv
<1>14. armed' \in [Alarms -> BOOLEAN] /\ Counted(armed', enabled') BY Zenon, <1>2, <1>6, Counts DEF AlarmInv
<1>15. enabled' \in 0 .. N BY <1>14, Counts
<1>16. ~firing /\ enabled # 0 /\ P => hw.left > 0 /\ hw.left >= d.dt - back
  BY <1>5, <1>7, SoonerIsRight DEF P, r
<1>17. ~firing /\ ~P => enabled # 0 /\ (hw.left < d.dt - back \/ hw.left <= 0)
  BY <1>5, <1>7, SoonerIsRight DEF P, r
<1>18. Pending' \in 0 .. Latency BY <1>0, <1>11 DEF Pending
<1>19. \A x \in Alarms : Bound(x)' \in Nat
  <2> SUFFICES ASSUME NEW x \in Alarms PROVE Bound(x)' \in Nat OBVIOUS
  <2>1. Bound(x)' = IF ~firing THEN HandlerTime + Pending'
                    ELSE IF x < cursor THEN spent ELSE Latency + HandlerTime + spent
    BY <1>6, <1>12 DEF Bound
  <2>2. Pending' \in Nat /\ HandlerTime \in Nat /\ Latency \in Nat /\ spent \in Nat BY <1>0, <1>2, <1>18
  <2> DEFINE b == Bound(x)'
             q == Pending'
  <2>3. b = IF ~firing THEN HandlerTime + q ELSE IF x < cursor THEN spent ELSE Latency + HandlerTime + spent BY <2>1
  <2>4. q \in Nat BY <2>2
  <2> HIDE DEF b, q
  <2>5. b \in Nat BY ONLY <2>2, <2>3, <2>4
  <2> QED BY <2>5 DEF b
<1>20. ASSUME NEW x \in Alarms, armed[x] PROVE Bound(x) <= Bound(x)'
  <2>1. CASE firing
    <3>1. Bound(x)' = Bound(x) BY <1>6, <1>12, <2>1 DEF Bound
    <3> QED BY <1>2, <1>19, <3>1
  <2>2. CASE ~firing
    <3>1. Bound(x) = HandlerTime + Pending /\ Bound(x)' = HandlerTime + Pending' BY <1>12, <2>2 DEF Bound
    <3>2. Pending <= Pending'
      <4>1. CASE P
        <5>1. hw.left > 0 BY <1>13, <1>16, <1>20, <2>2, <4>1
        <5>2. Pending = 0 BY <5>1 DEF Pending
        <5> QED BY <1>18, <5>2
      <4>2. CASE ~P
        <5>1. Pending' = Pending BY <1>9, <4>2 DEF Pending
        <5> QED BY <1>2, <5>1
      <4> QED BY <4>1, <4>2
    <3> DEFINE b == Bound(x)
               bp == Bound(x)'
               q == Pending
               qp == Pending'
    <3>3. b = HandlerTime + q /\ bp = HandlerTime + qp /\ q <= qp /\ q \in Nat /\ qp \in Nat /\ HandlerTime \in Nat
      BY <1>0, <1>2, <1>18, <3>1, <3>2
    <3> HIDE DEF b, bp, q, qp
    <3>4. b <= bp BY ONLY <3>3
    <3> QED BY <3>4 DEF b, bp
  <2> QED BY <2>1, <2>2
<1>21. dt_reference'[c] = d /\ left'[c] = l /\ Age(c)' = back BY <1>2, <1>4, <1>5, <1>6 DEF Age
<1>22. \A x \in Alarms : x # c => /\ dt_reference'[x] = dt_reference[x] /\ left'[x] = left[x]
                                  /\ armed'[x] = armed[x] /\ Age(x)' = Age(x)
  BY <1>2, <1>6 DEF Age
<1>23. ASSUME NEW x \in Alarms, armed'[x] PROVE AlarmOK(dt_reference'[x], Age(x)', left'[x], Bound(x)')
  <2>1. CASE x = c BY <1>5, <1>19, <1>21, <2>1
  <2>2. CASE x # c
    <3>1. armed[x] /\ AlarmOK(dt_reference[x], Age(x), left[x], Bound(x)) BY <1>22, <1>23, <2>2 DEF AlarmInv
    <3>2. dt_reference[x] \in Waits /\ Age(x) \in Nat /\ left[x] \in Int /\ Bound(x) \in Nat BY <1>0, <1>2
    <3>3. AlarmOK(dt_reference[x], Age(x), left[x], Bound(x)') BY <1>19, <1>20, <3>1, <3>2, AlarmOKMonotone
    <3> QED BY <1>22, <2>2, <3>3
  <2> QED BY <2>1, <2>2
<1>24. ASSUME ~firing PROVE HwOK'
  <2>0. LeftOfWait(d, l) \in Int /\ d.dt - back \in Int /\ \A x \in Alarms : LeftOfWait(dt_reference[x], left[x]) \in Int
    BY <1>0, <1>2, <1>5, <1>7 DEF LeftOfWait
  <2>1. CASE P
    <3>1. ASSUME NEW x \in Alarms, armed'[x]
          PROVE  hw'.left <= LeftOfWait(dt_reference'[x], left'[x]) \/ hw'.left <= 0
      <4>1. CASE x = c BY <1>5, <1>10, <1>21, <2>1, <4>1
      <4>2. CASE x # c
        <5>1. armed[x] BY <1>22, <3>1, <4>2
        <5>2. HwOK /\ hw.left > 0 /\ hw.left >= hw'.left BY <1>10, <1>13, <1>16, <1>24, <2>1, <5>1 DEF AlarmInv
        <5>3. hw.left <= LeftOfWait(dt_reference[x], left[x]) BY <1>2, <5>1, <5>2 DEF HwOK
        <5> QED BY <1>2, <1>11, <1>22, <2>0, <4>2, <5>2, <5>3
      <4> QED BY <4>1, <4>2
    <3>2. hw'.left = next_tick_vals'.dt - wrapping_sub(now', next_tick_vals'.reference) BY <1>4, <1>6, <1>10, <2>1
    <3>3. hw'.expire = wrapping_add(next_tick_vals'.reference, next_tick_vals'.dt) BY <1>10, <2>1
    <3> QED BY <1>5, <1>10, <2>1, <3>1, <3>2, <3>3 DEF HwOK, reference_plus_dt
  <2>2. CASE ~P
    <3>1. HwOK /\ (hw.left < d.dt - back \/ hw.left <= 0) BY <1>17, <1>24, <2>2 DEF AlarmInv
    <3>2. ASSUME NEW x \in Alarms, armed'[x]
          PROVE  hw'.left <= LeftOfWait(dt_reference'[x], left'[x]) \/ hw'.left <= 0
      <4>1. CASE x = c BY <1>2, <1>5, <1>9, <1>21, <2>0, <2>2, <3>1, <4>1
      <4>2. CASE x # c BY <1>9, <1>22, <2>2, <3>1, <3>2, <4>2 DEF HwOK
      <4> QED BY <4>1, <4>2
    <3> QED BY <1>6, <1>9, <2>2, <3>1, <3>2 DEF HwOK, reference_plus_dt, wrapping_add, wrapping_sub
  <2> QED BY <2>1, <2>2
<1>25. firing' /\ hw'.armed => hw'.left >= -(MaxBack + spent')
  <2>1. CASE P BY <1>0, <1>2, <1>6, <1>7, <1>10, <2>1
  <2>2. CASE ~P BY <1>6, <1>9, <1>12, <2>2 DEF AlarmInv
  <2> QED BY <2>1, <2>2
<1>26. TypeOK'
  <2>1. dt_reference' \in [Alarms -> [reference : Ticks, dt : Ticks, extended : BOOLEAN]] BY <1>2, <1>5, <1>6 DEF Waits
  <2>2. left' \in [Alarms -> -W .. W]
    <3>1. l \in -W .. W BY <1>0, <1>5
    <3> QED BY <1>1, <1>6, <3>1 DEF TypeOK
  <2>3. hw' \in [armed : BOOLEAN, expire : Ticks, left : -W .. W] BY <1>1, <1>9, <1>10 DEF TypeOK
  <2>4. next_tick_vals' \in [reference : Ticks, dt : Ticks] \cup {None} BY <1>1, <1>9, <1>10 DEF TypeOK
  <2> QED BY <1>1, <1>6, <1>14, <1>15, <2>1, <2>2, <2>3, <2>4 DEF TypeOK
<1>27. (callback => cursor >= 2)' BY <1>6 DEF AlarmInv
<1>28. AlarmInv' BY <1>12, <1>14, <1>23, <1>24, <1>25, <1>26, <1>27 DEF AlarmInv
<1>29. l \in 0 .. W BY <1>0, <1>5
<1> QED BY <1>28, <1>29 DEF l

\* VirtualMuxAlarm::disarm keeps the invariant.
LEMMA DisarmStep ==
  ASSUME AlarmInv, NEW c \in Alarms, disarm(c)
  PROVE  AlarmInv'
<1>0. W \in Nat \ {0} /\ N \in Nat /\ 0 \in Ticks /\ 0 \in -W .. W BY Margins DEF Ticks
<1>1. TypeOK BY DEF AlarmInv
<1>2. dt_reference \in [Alarms -> Waits] /\ armed \in [Alarms -> BOOLEAN] /\ enabled \in Nat
  BY <1>1, StateTypes
<1>3. /\ armed[c] /\ armed' = [armed EXCEPT ![c] = FALSE] /\ enabled' = enabled - 1
      /\ IF enabled = 1 THEN hw' = Off ELSE hw' = hw
      /\ dt_reference' = [dt_reference EXCEPT ![c] = Unset]
      /\ left' = [left EXCEPT ![c] = 0]
      /\ now' = now /\ next_tick_vals' = next_tick_vals /\ cursor' = cursor
      /\ callback' = callback /\ spent' = spent
  BY DEF disarm, HwDisarm
<1>4. firing' = firing BY <1>3 DEF firing
<1>5. Counted(armed', enabled') /\ armed' \in [Alarms -> BOOLEAN] BY Zenon, <1>2, <1>3, Counts DEF AlarmInv
<1>6. enabled' \in 0 .. N /\ (enabled' = 0 <=> \A x \in Alarms : ~armed'[x]) BY <1>5, Counts
<1>7. (\E x \in Alarms : armed'[x]) => hw' = hw /\ enabled # 0
  <2>1. enabled = 1 => enabled' = 0 BY <1>2, <1>3
  <2>2. enabled # 0 BY <1>2, <1>3, Counts DEF AlarmInv
  <2> QED BY <1>3, <1>6, <2>1, <2>2
<1>8. \A x \in Alarms : armed'[x] => /\ x # c /\ armed[x] /\ dt_reference'[x] = dt_reference[x]
                                     /\ left'[x] = left[x] /\ Age(x)' = Age(x)
  BY <1>2, <1>3 DEF Age
<1>9. ASSUME NEW x \in Alarms, armed'[x] PROVE AlarmOK(dt_reference'[x], Age(x)', left'[x], Bound(x)')
  <2>1. hw' = hw BY <1>7, <1>9
  <2>2. Bound(x)' = Bound(x) BY <1>3, <1>4, <2>1 DEF Bound, Pending
  <2> QED BY <1>8, <1>9, <2>2 DEF AlarmInv
<1>10. ~firing' /\ enabled' # 0 => HwOK'
  <2> SUFFICES ASSUME ~firing, enabled' # 0 PROVE HwOK' BY <1>4
  <2>1. HwOK /\ hw' = hw BY <1>6, <1>7 DEF AlarmInv
  <2> QED BY <1>3, <1>8, <2>1 DEF HwOK, reference_plus_dt, wrapping_add, wrapping_sub
<1>11. firing' /\ hw'.armed => hw'.left >= -(MaxBack + spent')
  <2>1. ~Off.armed BY DEF Off
  <2> QED BY <1>3, <1>4, <2>1 DEF AlarmInv
<1>12. TypeOK'
  <2>0. Off \in [armed : BOOLEAN, expire : Ticks, left : -W .. W] BY <1>0 DEF Off
  <2>1. hw' \in [armed : BOOLEAN, expire : Ticks, left : -W .. W] BY <1>1, <1>3, <2>0 DEF TypeOK
  <2>2. Unset \in [reference : Ticks, dt : Ticks, extended : BOOLEAN] BY <1>0 DEF Unset
  <2>3. dt_reference' \in [Alarms -> [reference : Ticks, dt : Ticks, extended : BOOLEAN]] BY <1>1, <1>3, <2>2 DEF TypeOK
  <2>4. left' \in [Alarms -> -W .. W] BY <1>0, <1>1, <1>3 DEF TypeOK
  <2> QED BY <1>1, <1>3, <1>5, <1>6, <2>1, <2>3, <2>4 DEF TypeOK
<1>13. (callback => cursor >= 2)' BY <1>3 DEF AlarmInv
<1> QED BY <1>5, <1>9, <1>10, <1>11, <1>12, <1>13 DEF AlarmInv

\* The start of MuxAlarm::alarm keeps the invariant.
LEMMA StartStep ==
  ASSUME AlarmInv, AlarmStart
  PROVE  AlarmInv' /\ ~callback /\ ~callback'
<1>0. /\ W \in Nat \ {0} /\ N \in Nat \ {0} /\ HandlerTime \in Nat /\ Latency \in Nat
      /\ 0 \in Ticks /\ 0 \in -W .. W /\ 1 \in 0 .. N + 1 /\ 0 \in 0 .. HandlerTime
  BY Margins DEF Ticks
<1>1. TypeOK BY DEF AlarmInv
<1>2. /\ dt_reference \in [Alarms -> Waits] /\ left \in [Alarms -> Int] /\ callback \in BOOLEAN
      /\ Pending \in 0 .. Latency /\ \A c \in Alarms : Bound(c) \in 0 .. MaxLate /\ Age(c) \in 0 .. W - 1
  BY <1>1, StateTypes
<1>3. /\ ~firing /\ hw' = Off /\ cursor' = 1 /\ spent' = 0
      /\ now' = now /\ dt_reference' = dt_reference /\ armed' = armed /\ enabled' = enabled
      /\ next_tick_vals' = next_tick_vals /\ callback' = callback /\ left' = left
  BY DEF AlarmStart
<1>4. ~callback BY <1>3 DEF AlarmInv, firing
<1>5. firing' BY <1>3 DEF firing
<1>6. ASSUME NEW x \in Alarms, armed'[x] PROVE AlarmOK(dt_reference'[x], Age(x)', left'[x], Bound(x)')
  <2>1. Bound(x) = HandlerTime + Pending BY <1>3 DEF Bound
  <2>2. Bound(x)' = Latency + HandlerTime BY <1>0, <1>3, <1>5 DEF Bound, Alarms
  <2>3. Bound(x) \in Nat /\ Latency + HandlerTime \in Nat /\ Bound(x) <= Latency + HandlerTime
    <3> DEFINE q == Pending
    <3>1. Bound(x) = HandlerTime + q /\ q \in 0 .. Latency BY <1>2, <2>1
    <3> HIDE DEF q
    <3> QED BY <1>0, <3>1
  <2>4. AlarmOK(dt_reference[x], Age(x), left[x], Bound(x)) BY <1>3, <1>6 DEF AlarmInv
  <2>5. Age(x) \in Nat /\ dt_reference[x] \in Waits /\ left[x] \in Int BY <1>0, <1>2
  <2>6. AlarmOK(dt_reference[x], Age(x), left[x], Latency + HandlerTime)
    BY ONLY <2>3, <2>4, <2>5, AlarmOKMonotone, Zenon
  <2>7. Age(x)' = Age(x) BY <1>3 DEF Age
  <2> QED BY <1>3, <2>2, <2>6, <2>7
<1>7. TypeOK'
  <2>1. hw' \in [armed : BOOLEAN, expire : Ticks, left : -W .. W] BY <1>0, <1>3 DEF Off
  <2> QED BY <1>0, <1>1, <1>3, <2>1 DEF TypeOK
<1>8. ~hw'.armed BY <1>3 DEF Off
<1>9. Counted(armed', enabled') BY <1>3 DEF AlarmInv
<1> QED BY <1>3, <1>4, <1>5, <1>6, <1>7, <1>8, <1>9 DEF AlarmInv
=============================================================================
