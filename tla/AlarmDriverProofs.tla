------------------------- MODULE AlarmDriverProofs --------------------------
(***************************************************************************)
(* Proofs about the alarm driver, for any number of processes, any dts and *)
(* references, and ticks of the alarm as wide as a u32 or wider.           *)
(***************************************************************************)
EXTENDS Alarms, AlarmProofs

-----------------------------------------------------------------------------
(* The alarm driver *)

Expirations == [reference : 0 .. U32 - 1, dt : AppDts]
Remaining(dt, age) == IF dt > age THEN dt - age ELSE 0

\* The processes that wait, and how long ago the reference of one was.
Waiting == {p \in Driver!Apps : Driver!Enabled(p)}
AppAge(p) == (Driver!Now32 - expiration[p].reference) % U32

\* What is left until the alarm of p, as p counts it, is what is left in true
\* time until p is due; num_armed counts all that wait; and an alarm chosen
\* among ones that had not passed comes before all of them.
DrvInv ==
  /\ modulus \in Moduli /\ ticks \in 0 .. modulus - 1
  /\ alarm \in [armed : BOOLEAN, left : -(AppLatency + 1) .. U32]
  /\ expiration \in [Driver!Apps -> Expirations \cup {Driver!Disabled}]
  /\ due_in \in [Driver!Apps -> -1 .. U32]
  /\ num_armed \in 0 .. MaxArmed /\ Cardinality(Waiting) <= num_armed
  /\ resetting \in 0 .. 2 /\ late \in BOOLEAN
  /\ alarm.armed /\ resetting # 2 => alarm.left >= -AppLatency
  /\ \A p \in Waiting : due_in[p] >= 0 => due_in[p] = Remaining(expiration[p].dt, AppAge(p))
  /\ resetting = 0 => \A p \in Waiting :
       /\ alarm.armed /\ \E dt \in AppDts : alarm.left <= dt
       /\ HalfRange /\ ~late => alarm.left <= due_in[p]
       /\ num_armed = 1 /\ due_in[p] >= 0 => alarm.left = due_in[p]

\* What DriverFits says of the constants, in the form the proofs use.
LEMMA DrvConstants ==
  /\ NApps \in Nat /\ AppLatency \in Nat /\ MaxArmed \in Nat /\ U32 \in Nat \ {0}
  /\ \A m \in Moduli : m \in Nat \ {0} /\ m % U32 = 0
  /\ AppDts \subseteq 0 .. U32 - 1 /\ AppBack \in 0 .. U32 - 1
  BY DriverFits

\* a % u is what division by u leaves, also for a negative a.
LEMMA Remainder ==
  ASSUME NEW u \in Nat \ {0}, NEW a \in Int
  PROVE  a % u \in 0 .. u - 1 /\ \E q \in Int : a = u * q + (a % u)
<1>1. a \div u \in Int /\ a = u * (a \div u) + (a % u) OBVIOUS
<1>2. a % u \in 0 .. u - 1 OBVIOUS
<1> QED BY Zenon, <1>1, <1>2

\* The remainder is the only one: what is congruent to r and in range has
\* remainder r.
LEMMA RemainderIs ==
  ASSUME NEW u \in Nat \ {0}, NEW a \in Int, NEW q \in Int, NEW r \in 0 .. u - 1, a = u * q + r
  PROVE  a % u = r
<1>1. PICK p \in Int : a = u * p + (a % u) BY Zenon, Remainder
<1> DEFINE s == a % u
<1>2. s \in 0 .. u - 1 /\ a = u * p + s BY <1>1, Remainder
<1> HIDE DEF s
<1>3. u * (p - q) = r - s BY <1>2
<1>4. p - q >= 1 => u * (p - q) >= u OBVIOUS
<1>5. p - q <= -1 => u * (p - q) <= -u OBVIOUS
<1>6. p = q BY <1>2, <1>3, <1>4, <1>5
<1>7. s = r BY <1>2, <1>6
<1> QED BY <1>7 DEF s

\* Ages in ticks of u values.
LEMMA Difference ==
  ASSUME NEW u \in Nat \ {0}, NEW a \in 0 .. u - 1, NEW b \in 0 .. u - 1
  PROVE  (a - b) % u = IF b <= a THEN a - b ELSE a - b + u
<1>1. CASE b <= a
  <2>1. a - b \in 0 .. u - 1 /\ a - b = u * 0 + (a - b) BY <1>1
  <2> QED BY <1>1, <2>1, RemainderIs
<1>2. CASE ~(b <= a)
  <2>1. a - b + u \in 0 .. u - 1 /\ a - b = u * (-1) + (a - b + u) BY <1>2
  <2> QED BY <1>2, <2>1, RemainderIs
<1> QED BY <1>1, <1>2

\* A tick of the wide counter is one of the narrow counter.
LEMMA NarrowTick ==
  ASSUME NEW u \in Nat \ {0}, NEW m \in Nat \ {0}, m % u = 0, NEW t \in 0 .. m - 1
  PROVE  /\ (t + 1) % m \in 0 .. m - 1
         /\ ((t + 1) % m) % u = IF t % u = u - 1 THEN 0 ELSE (t % u) + 1
<1> DEFINE r == t % u
           s == IF r = u - 1 THEN 0 ELSE r + 1
<1>0. t \in Int /\ t + 1 \in Int OBVIOUS
<1>1. PICK q \in Int : t = u * q + r BY ONLY <1>0, Remainder, u \in Nat \ {0}, Zenon
<1>2. r \in 0 .. u - 1 BY ONLY <1>0, Remainder, u \in Nat \ {0}, Zenon
<1> HIDE DEF r
<1> DEFINE k == IF r = u - 1 THEN q + 1 ELSE q
<1>3. s \in 0 .. u - 1 /\ k \in Int /\ t + 1 = u * k + s BY <1>1, <1>2
<1> HIDE DEF s, k
<1>4. (t + 1) % u = s BY ONLY <1>0, <1>3, RemainderIs, u \in Nat \ {0}, Zenon
<1>5. CASE t = m - 1
  <2>1. (t + 1) % m = 0
    <3>1. t + 1 = m * 1 + 0 /\ 0 \in 0 .. m - 1 BY <1>5
    <3> QED BY <3>1, RemainderIs
  <2>2. s = 0 BY <1>4, <1>5
  <2>3. 0 % u = 0
    <3>1. 0 = u * 0 + 0 /\ 0 \in 0 .. u - 1 OBVIOUS
    <3> QED BY <3>1, RemainderIs
  <2> QED BY <2>1, <2>2, <2>3 DEF s, r
<1>6. CASE t # m - 1
  <2>1. t + 1 \in 0 .. m - 1 /\ t + 1 = m * 0 + (t + 1) BY <1>6
  <2>2. (t + 1) % m = t + 1 BY <2>1, RemainderIs
  <2> QED BY <1>4, <2>1, <2>2 DEF s, r
<1> QED BY <1>5, <1>6

\* A reference back ticks ago, in the ticks of a process.
LEMMA NarrowReference ==
  ASSUME NEW u \in Nat \ {0}, NEW t \in Int, NEW back \in 0 .. u - 1
  PROVE  (t - back) % u \in 0 .. u - 1 /\ ((t % u) - ((t - back) % u)) % u = back
<1> DEFINE r == t % u
           s == IF back <= r THEN r - back ELSE r - back + u
<1>1. PICK q \in Int : t = u * q + r BY Zenon, Remainder
<1>2. r \in 0 .. u - 1 BY Remainder
<1> HIDE DEF r
<1> DEFINE k == IF back <= r THEN q ELSE q - 1
<1>3. s \in 0 .. u - 1 /\ k \in Int /\ t - back = u * k + s BY <1>1, <1>2
<1>4. (t - back) % u = s
  <2> HIDE DEF s, k
  <2> QED BY <1>3, RemainderIs
<1>5. (r - s) % u = IF s <= r THEN r - s ELSE r - s + u
  <2> HIDE DEF s
  <2> QED BY <1>2, <1>3, Difference
<1>6. (r - s) % u = back BY <1>2, <1>5
<1> QED BY <1>3, <1>4, <1>6 DEF r

\* RealReference is as old, in the ticks of the alarm, as the reference is in
\* those of the process.
LEMMA RealReferenceAge ==
  ASSUME NEW m \in Moduli, modulus = m, NEW t \in 0 .. m - 1, ticks = t, NEW ref \in 0 .. U32 - 1
  PROVE  (ticks - Driver!RealReference(ref)) % modulus = (Driver!Now32 - ref) % U32
<1> DEFINE n == t % U32
           age == IF n < ref THEN n - ref + U32 ELSE n - ref
           R == IF age <= t THEN t - age ELSE t - age + m
<1>0. U32 \in Nat \ {0} /\ m \in Nat \ {0} /\ m % U32 = 0 BY DrvConstants
<1>1. n \in 0 .. U32 - 1
  <2>1. t \in Int BY <1>0
  <2> QED BY ONLY <1>0, <2>1, Remainder, Zenon
<1>2. PICK k \in Int : m = U32 * k
  <2>1. m \in Int BY <1>0
  <2>2. PICK k \in Int : m = U32 * k + (m % U32) BY ONLY <1>0, <2>1, Remainder, Zenon
  <2>3. m = U32 * k BY <1>0, <2>2
  <2> QED BY <2>3
<1>3. k >= 1
  <2>1. k <= 0 => U32 * k <= 0 BY <1>0
  <2> QED BY <1>0, <1>2, <2>1
<1>4. U32 <= m
  <2>1. U32 * k >= U32 BY <1>0, <1>3
  <2> QED BY <1>2, <2>1
<1> HIDE DEF n
<1>5. age \in 0 .. U32 - 1 /\ age \in 0 .. m - 1 BY <1>0, <1>1, <1>4
<1>6. (n - ref) % U32 = age BY <1>0, <1>1, Difference
<1>7. t - n - (IF n < ref THEN U32 ELSE 0) + ref = t - age BY <1>0, <1>1
<1> HIDE DEF age
<1>8. (t - age) % m = R BY <1>0, <1>5, Difference
<1>9. R \in 0 .. m - 1 BY <1>0, <1>5
<1>10. (t - R) % m = IF R <= t THEN t - R ELSE t - R + m
  <2> HIDE DEF R
  <2> QED BY <1>0, <1>9, Difference
<1>11. (t - R) % m = age BY <1>0, <1>5, <1>10
<1> HIDE DEF R
<1>12. Driver!Now32 = n BY DEF Driver!Now32, n
<1>13. Driver!RealReference(ref) = R BY <1>7, <1>8, <1>12 DEF Driver!RealReference
<1> QED BY <1>6, <1>11, <1>12, <1>13
-----------------------------------------------------------------------------
(* The expiration reset_active_alarm finds *)

\* Induction over a set: a set with 0 and all successors is all of Nat.
LEMMA SetInduction ==
  ASSUME NEW T \in SUBSET Nat, 0 \in T, \A n \in Nat : n \in T => n + 1 \in T
  PROVE  T = Nat
<1> SUFFICES ASSUME Nat \ T # {} PROVE FALSE BY Zenon
<1>1. PICK n \in Nat \ T : \A m \in Nat \ T : n <= m BY Zenon, LeastNumber
<1>2. n - 1 \in Nat /\ n - 1 \in T BY <1>1
<1> QED BY <1>1, <1>2

\* The states a loop goes through: before the first step, and after each.
IsHistory(g, first, step, L) ==
  \A n \in 0 .. L : g[n] = IF n = 0 THEN first ELSE step[n][g[n - 1]]

\* Every start and every sequence of steps has a history of any length L.
LEMMA Iteration ==
  ASSUME NEW S, NEW first \in S, NEW step \in [Nat -> [S -> S]], NEW L \in Nat
  PROVE  \E g \in [0 .. L -> S] : IsHistory(g, first, step, L)
<1> DEFINE T == {m \in Nat : \E g \in [0 .. m -> S] : IsHistory(g, first, step, m)}
<1>1. 0 \in T
  <2>1. [n \in 0 .. 0 |-> first] \in [0 .. 0 -> S] OBVIOUS
  <2>2. IsHistory([n \in 0 .. 0 |-> first], first, step, 0) BY DEF IsHistory
  <2> QED BY <2>1, <2>2
<1>2. ASSUME NEW m \in Nat, m \in T PROVE m + 1 \in T
  <2>1. PICK g \in [0 .. m -> S] : IsHistory(g, first, step, m) BY <1>2
  <2> DEFINE h == [n \in 0 .. m + 1 |-> IF n <= m THEN g[n] ELSE step[m + 1][g[m]]]
  <2>2. step[m + 1][g[m]] \in S OBVIOUS
  <2>3. h \in [0 .. m + 1 -> S] BY <2>2
  <2>4. ASSUME NEW n \in 0 .. m + 1
        PROVE  h[n] = IF n = 0 THEN first ELSE step[n][h[n - 1]]
    <3>1. CASE n <= m
      <4>1. n \in 0 .. m /\ h[n] = g[n] BY <3>1
      <4>2. n # 0 => h[n - 1] = g[n - 1] BY <3>1
      <4> QED BY <2>1, <4>1, <4>2 DEF IsHistory
    <3>2. CASE ~(n <= m)
      <4>1. n = m + 1 /\ n - 1 = m /\ h[m] = g[m] BY <3>2
      <4> QED BY <4>1
    <3> QED BY <3>1, <3>2
  <2> HIDE DEF h
  <2>5. IsHistory(h, first, step, m + 1) BY <2>4 DEF IsHistory
  <2> QED BY <2>3, <2>5
<1> HIDE DEF T
<1>3. T = Nat
  <2>1. T \in SUBSET Nat BY DEF T
  <2> QED BY <1>1, <1>2, <2>1, SetInduction
<1> QED BY <1>3 DEF T

\* Earlier takes one of the two, and one that is set if there is any.
LEMMA EarlierIs ==
  ASSUME NEW e, NEW c
  PROVE  /\ Driver!Earlier(e, c) = e \/ Driver!Earlier(e, c) = c
         /\ c = Driver!Disabled => Driver!Earlier(e, c) = e
         /\ c # Driver!Disabled => Driver!Earlier(e, c) # Driver!Disabled
  BY Zenon DEF Driver!Earlier

\* reset_active_alarm's loop over the processes, one process at a time.
LEMMA EarliestUnfolds ==
  ASSUME expiration \in [Driver!Apps -> Expirations \cup {Driver!Disabled}]
  PROVE  \A n \in 0 .. NApps : Driver!Earliest[n] = IF n = 0 THEN Driver!Disabled
                                 ELSE Driver!Earlier(Driver!Earliest[n - 1], expiration[n])
<1> DEFINE S == Expirations \cup {Driver!Disabled}
           body(g) == [n \in 0 .. NApps |-> IF n = 0 THEN Driver!Disabled
                                           ELSE Driver!Earlier(g[n - 1], expiration[n])]
           step == [n \in Nat |-> [e \in S |-> IF n \in 1 .. NApps THEN Driver!Earlier(e, expiration[n]) ELSE e]]
<1>1. NApps \in Nat BY DrvConstants
<1>2. Driver!Disabled \in S OBVIOUS
<1>3. step \in [Nat -> [S -> S]]
  <2> SUFFICES ASSUME NEW n \in Nat, NEW e \in S, n \in 1 .. NApps
               PROVE  Driver!Earlier(e, expiration[n]) \in S
    BY Zenon
  <2>1. expiration[n] \in S BY DEF Driver!Apps
  <2> HIDE DEF S
  <2>2. Driver!Earlier(e, expiration[n]) = e \/ Driver!Earlier(e, expiration[n]) = expiration[n]
    BY ONLY EarlierIs, Zenon
  <2> QED BY Zenon, <2>1, <2>2
<1> HIDE DEF step, S
<1>4. PICK g \in [0 .. NApps -> S] : IsHistory(g, Driver!Disabled, step, NApps)
  BY <1>1, <1>2, <1>3, Iteration
<1>5. \A n \in 0 .. NApps : n # 0 => step[n][g[n - 1]] = Driver!Earlier(g[n - 1], expiration[n])
  <2> SUFFICES ASSUME NEW n \in 0 .. NApps, n # 0
               PROVE  step[n][g[n - 1]] = Driver!Earlier(g[n - 1], expiration[n])
    OBVIOUS
  <2>1. n \in Nat /\ n \in 1 .. NApps /\ g[n - 1] \in S BY <1>1
  <2> QED BY Zenon, <2>1 DEF step
<1>6. g = body(g) BY <1>4, <1>5 DEF IsHistory
<1> DEFINE h == CHOOSE f : f = body(f)
<1>7. h = body(h) BY Zenon, <1>6
<1>8. Driver!Earliest = h BY DEF Driver!Earliest
<1> HIDE DEF h
<1> QED BY Zenon, <1>7, <1>8

\* The loop ends with the expiration of a process that waits, if there is one.
LEMMA EarliestIs ==
  ASSUME expiration \in [Driver!Apps -> Expirations \cup {Driver!Disabled}]
  PROVE  /\ Driver!Earliest[NApps] # Driver!Disabled =>
               \E p \in Waiting : Driver!Earliest[NApps] = expiration[p]
         /\ Waiting # {} => Driver!Earliest[NApps] # Driver!Disabled
<1> DEFINE E == Driver!Earliest
           D == Driver!Disabled
           Right(n) == /\ E[n] # D => \E p \in 1 .. n : expiration[p] # D /\ E[n] = expiration[p]
                       /\ \A p \in 1 .. n : expiration[p] # D => E[n] # D
           T == {n \in Nat : n <= NApps => Right(n)}
<1>0. NApps \in Nat BY DrvConstants
<1>1. \A n \in 0 .. NApps : E[n] = IF n = 0 THEN D ELSE Driver!Earlier(E[n - 1], expiration[n])
  BY EarliestUnfolds
<1>2. 0 \in T
  <2>1. E[0] = D BY <1>0, <1>1
  <2> HIDE DEF E, D
  <2> QED BY <2>1
<1>3. ASSUME NEW n \in Nat, n \in T PROVE n + 1 \in T
  <2> SUFFICES ASSUME n + 1 <= NApps PROVE Right(n + 1) OBVIOUS
  <2>1. Right(n) BY <1>0, <1>3
  <2>2. E[n + 1] = Driver!Earlier(E[n], expiration[n + 1])
    <3>1. n + 1 \in 0 .. NApps /\ n + 1 # 0 /\ (n + 1) - 1 = n BY <1>0
    <3> QED BY <1>1, <3>1
  <2> DEFINE e == E[n]
             c == expiration[n + 1]
             f == Driver!Earlier(e, c)
  <2>3. /\ E[n + 1] = e \/ E[n + 1] = c
        /\ (c = D => E[n + 1] = e) /\ (c # D => E[n + 1] # D)
    <3>1. (f = e \/ f = c) /\ (c = D => f = e) /\ (c # D => f # D) BY ONLY EarlierIs, Zenon
    <3>2. E[n + 1] = f BY <2>2
    <3> HIDE DEF f, e, c, E, D
    <3> QED BY <3>1, <3>2
  <2>4. e # D => E[n + 1] # D BY Zenon, <2>3
  <2>5. \A p \in 1 .. n + 1 : p \in 1 .. n \/ p = n + 1 OBVIOUS
  <2>6. n + 1 \in 1 .. n + 1 /\ \A p \in 1 .. n : p \in 1 .. n + 1 OBVIOUS
  <2>7. E[n + 1] # D => \E p \in 1 .. n + 1 : expiration[p] # D /\ E[n + 1] = expiration[p]
    BY Zenon, <2>1, <2>3, <2>6
  <2>8. \A p \in 1 .. n + 1 : expiration[p] # D => E[n + 1] # D BY Zenon, <2>1, <2>3, <2>4, <2>5
  <2> QED BY <2>7, <2>8
<1> HIDE DEF T
<1>4. T = Nat
  <2>1. T \in SUBSET Nat BY DEF T
  <2> QED BY <1>2, <1>3, <2>1, SetInduction
<1>5. Right(NApps) BY <1>0, <1>4 DEF T
<1> QED BY <1>5 DEF Waiting, Driver!Enabled, Driver!Apps
-----------------------------------------------------------------------------
(* The steps of the driver *)

\* Sets of processes are finite.
LEMMA FiniteApps ==
  ASSUME NEW S \in SUBSET Driver!Apps
  PROVE  IsFiniteSet(S) /\ Cardinality(S) \in Nat /\ (Cardinality(S) = 0 <=> S = {})
<1>1. IsFiniteSet(Driver!Apps) BY DrvConstants, FS_Interval DEF Driver!Apps
<1>2. IsFiniteSet(S) BY <1>1, FS_Subset
<1> QED BY <1>2, FS_CardinalityType, FS_EmptySet

\* The types of what the driver reads, from the invariant.
LEMMA DrvTypes ==
  ASSUME DrvInv
  PROVE  /\ modulus \in Nat \ {0} /\ modulus % U32 = 0 /\ ticks \in 0 .. modulus - 1
         /\ Driver!Now32 \in 0 .. U32 - 1
         /\ alarm.armed \in BOOLEAN /\ alarm.left \in Int /\ alarm = [armed |-> alarm.armed, left |-> alarm.left]
         /\ alarm.left \in -(AppLatency + 1) .. U32
         /\ num_armed \in Nat /\ Cardinality(Waiting) \in Nat /\ IsFiniteSet(Waiting)
         /\ \A p \in Driver!Apps : due_in[p] \in -1 .. U32
         /\ \A p \in Waiting : /\ p \in Driver!Apps /\ expiration[p] \in Expirations
                                /\ expiration[p].reference \in 0 .. U32 - 1 /\ expiration[p].dt \in AppDts
                                /\ expiration[p].dt \in 0 .. U32 - 1 /\ AppAge(p) \in 0 .. U32 - 1
<1>0. U32 \in Nat \ {0} /\ AppDts \subseteq 0 .. U32 - 1 /\ MaxArmed \in Nat /\ AppLatency \in Nat BY DrvConstants
<1>1. modulus \in Nat \ {0} /\ modulus % U32 = 0 /\ ticks \in 0 .. modulus - 1 BY DrvConstants DEF DrvInv
<1>2. Driver!Now32 \in 0 .. U32 - 1
  <2>1. ticks \in Int BY <1>1
  <2> QED BY <1>0, <2>1, Remainder, Zenon DEF Driver!Now32
<1>3. alarm.armed \in BOOLEAN /\ alarm.left \in -(AppLatency + 1) .. U32 /\ alarm = [armed |-> alarm.armed, left |-> alarm.left]
  BY DEF DrvInv
<1>4. alarm.left \in Int BY <1>0, <1>3
<1>5. num_armed \in Nat BY <1>0 DEF DrvInv
<1>6. Cardinality(Waiting) \in Nat /\ IsFiniteSet(Waiting) BY FiniteApps DEF Waiting
<1>7. ASSUME NEW p \in Waiting
      PROVE  /\ p \in Driver!Apps /\ expiration[p] \in Expirations
             /\ expiration[p].reference \in 0 .. U32 - 1 /\ expiration[p].dt \in AppDts
             /\ expiration[p].dt \in 0 .. U32 - 1 /\ AppAge(p) \in 0 .. U32 - 1
  <2>1. p \in Driver!Apps /\ expiration[p] # Driver!Disabled BY DEF Waiting, Driver!Enabled
  <2>2. expiration[p] \in Expirations BY <2>1 DEF DrvInv
  <2>3. expiration[p].reference \in 0 .. U32 - 1 /\ expiration[p].dt \in AppDts BY <2>2 DEF Expirations
  <2>4. Driver!Now32 - expiration[p].reference \in Int BY <1>0, <1>2, <2>3
  <2>5. AppAge(p) \in 0 .. U32 - 1 BY <1>0, <2>4, Remainder, Zenon DEF AppAge
  <2> QED BY Zenon, <1>0, <2>1, <2>2, <2>3, <2>5
<1>8. \A p \in Driver!Apps : due_in[p] \in -1 .. U32 BY DEF DrvInv
<1> QED BY <1>1, <1>2, <1>3, <1>4, <1>5, <1>6, <1>7, <1>8

\* An expiration that is enabled is not Expiration::Disabled.
LEMMA NoneIsDisabled ==
  ASSUME NEW e \in Expirations
  PROVE  e # Driver!Disabled
<1>1. e.reference \in 0 .. U32 - 1 BY DEF Expirations
<1>2. Driver!Disabled.reference = -1 BY DEF Driver!Disabled
<1>3. e.reference # -1 BY <1>1, DrvConstants
<1> QED BY <1>2, <1>3

\* The ticks of the alarm are as wide as a u32 or wider.
LEMMA WideEnough ==
  ASSUME NEW m \in Moduli
  PROVE  U32 <= m
<1>0. U32 \in Nat \ {0} /\ m \in Nat \ {0} /\ m % U32 = 0 /\ m \in Int BY DrvConstants
<1>1. PICK k \in Int : m = U32 * k + (m % U32) BY ONLY <1>0, Remainder, Zenon
<1>2. k <= 0 => U32 * k <= 0 BY <1>0
<1>3. k >= 1 => U32 * k >= U32 BY <1>0
<1> QED BY <1>0, <1>1, <1>2, <1>3

\* The distance from b to a, when a is first cut to the width of the ticks.
LEMMA Distance ==
  ASSUME NEW u \in Nat \ {0}, NEW a \in Int, NEW b \in Int, NEW k \in Int,
         NEW r \in 0 .. u - 1, a - b = u * k + r
  PROVE  ((a % u) - b) % u = r
<1> DEFINE s == a % u
<1>1. PICK q \in Int : a = u * q + s BY Zenon, Remainder
<1>2. s \in 0 .. u - 1 BY Remainder
<1> HIDE DEF s
<1>3. s - b = u * (k - q) + r BY <1>1, <1>2
<1>4. s - b \in Int /\ k - q \in Int BY <1>2
<1>5. (s - b) % u = r BY ONLY <1>3, <1>4, RemainderIs, u \in Nat \ {0}, r \in 0 .. u - 1, Zenon
<1> QED BY <1>5 DEF s

\* The expirations that have not passed and do not seem so.
AgeOf(e) == (Driver!Now32 - e.reference) % U32
DueIn(e) == e.dt - AgeOf(e)
Open == {e \in Expirations : DueIn(e) > 0 /\ (modulus = U32 \/ e.reference <= Driver!Now32)}

\* The reference of one of these, in the ticks of the alarm.
LEMMA OpenReference ==
  ASSUME DrvInv, NEW e \in Open
  PROVE  /\ e.reference \in 0 .. U32 - 1 /\ e.dt \in AppDts /\ e.dt \in 0 .. U32 - 1
         /\ AgeOf(e) \in 0 .. e.dt - 1 /\ DueIn(e) \in 1 .. e.dt
         /\ e.reference = Driver!Now32 - AgeOf(e) \/ e.reference = Driver!Now32 - AgeOf(e) + modulus
<1> DEFINE n == Driver!Now32
           ref == e.reference
           age == AgeOf(e)
           dt == e.dt
<1>0. U32 \in Nat \ {0} /\ n \in 0 .. U32 - 1 /\ modulus \in Nat \ {0} BY Zenon, DrvConstants, DrvTypes
<1>1. ref \in 0 .. U32 - 1 /\ dt \in AppDts /\ dt \in 0 .. U32 - 1
  <2>1. e \in Expirations BY Zenon DEF Open
  <2>2. e.reference \in 0 .. U32 - 1 /\ e.dt \in AppDts BY ONLY <2>1 DEF Expirations
  <2> QED BY Zenon, <2>2, DrvConstants
<1>2. DueIn(e) = dt - age /\ dt - age > 0 /\ (modulus = U32 \/ ref <= n) BY DEF Open, DueIn
<1>3. age = (n - ref) % U32 BY DEF AgeOf
<1> HIDE DEF n, ref, age, dt
<1>4. age = IF ref <= n THEN n - ref ELSE n - ref + U32 BY Zenon, <1>0, <1>1, <1>3, Difference
<1>5. age \in Nat BY <1>0, <1>1, <1>4
<1>6. age \in 0 .. dt - 1 /\ DueIn(e) \in 1 .. dt BY <1>0, <1>1, <1>2, <1>5
<1>7. ref = n - age \/ ref = n - age + modulus BY <1>0, <1>1, <1>2, <1>4
<1> QED BY <1>1, <1>6, <1>7 DEF n, ref, age, dt

\* Of two alarms that have not passed, Earlier takes one that is due first.
LEMMA EarlierIsFirst ==
  ASSUME DrvInv, HalfRange, NEW e \in Open, NEW c \in Open
  PROVE  DueIn(Driver!Earlier(e, c)) <= DueIn(e) /\ DueIn(Driver!Earlier(e, c)) <= DueIn(c)
<1> DEFINE n == Driver!Now32
           m == modulus
           er == e.reference
           ed == e.dt
           ea == AgeOf(e)
           cr == c.reference
           cd == c.dt
           ca == AgeOf(c)
           end == (er + ed) % m
<1>a. U32 \in Nat \ {0} /\ n \in 0 .. U32 - 1 /\ m \in Nat \ {0} BY Zenon, DrvConstants, DrvTypes
<1>b. U32 <= m BY Zenon, WideEnough DEF DrvInv
<1>c. (ed \in AppDts => 2 * ed <= U32) /\ (cd \in AppDts => 2 * cd <= U32) BY Zenon DEF HalfRange
<1>0. /\ U32 \in Nat \ {0} /\ n \in 0 .. U32 - 1 /\ m \in Nat \ {0} /\ U32 <= m
      /\ (ed \in AppDts => 2 * ed <= U32) /\ (cd \in AppDts => 2 * cd <= U32)
  BY Zenon, <1>a, <1>b, <1>c
<1>1. /\ er \in 0 .. U32 - 1 /\ ed \in AppDts /\ ed \in 0 .. U32 - 1
      /\ ea \in 0 .. ed - 1 /\ DueIn(e) = ed - ea /\ (er = n - ea \/ er = n - ea + m)
  BY OpenReference DEF DueIn
<1>2. /\ cr \in 0 .. U32 - 1 /\ cd \in AppDts /\ cd \in 0 .. U32 - 1
      /\ ca \in 0 .. cd - 1 /\ DueIn(c) = cd - ca /\ (cr = n - ca \/ cr = n - ca + m)
  BY OpenReference DEF DueIn
<1> HIDE DEF n, m, er, ed, ea, cr, cd, ca
<1>3. (end - er) % m = ed
  <2>1. er + ed \in Int /\ er \in Int /\ ed \in 0 .. m - 1 /\ (er + ed) - er = m * 0 + ed
        /\ 0 \in Int
    BY <1>0, <1>1
  <2> QED BY ONLY <1>a, <2>1, Distance, Zenon
<1>4. (n - er) % m = ea
  <2>1. ea \in 0 .. m - 1 /\ n - er \in Int BY <1>0, <1>1
  <2>2. n - er = m * 0 + ea \/ n - er = m * (-1) + ea BY <1>0, <1>1
  <2>3. PICK k \in Int : n - er = m * k + ea BY <2>2
  <2> QED BY ONLY <1>a, <2>1, <2>3, RemainderIs, Zenon
<1>5. (((cr + cd) % m) - er) % m = (cd - ca) + ea
  <2> DEFINE d == (cd - ca) + ea
             x == cr + cd
  <2>1. d \in 0 .. m - 1 /\ x \in Int /\ er \in Int BY <1>0, <1>1, <1>2
  <2>2. x - er = m * 0 + d \/ x - er = m * 1 + d \/ x - er = m * (-1) + d
    BY <1>0, <1>1, <1>2
  <2> HIDE DEF d, x
  <2>3. PICK k \in Int : x - er = m * k + d BY <2>2
  <2> DEFINE y == x % m
  <2>4. PICK q \in Int : x = m * q + y BY ONLY <1>a, <2>1, Remainder, Zenon
  <2>5. y \in 0 .. m - 1 BY ONLY <1>a, <2>1, Remainder, Zenon
  <2> HIDE DEF y
  <2>6. y - er = m * (k - q) + d BY ONLY <1>a, <2>1, <2>3, <2>4, <2>5
  <2>7. y - er \in Int /\ k - q \in Int BY ONLY <1>a, <2>1, <2>5
  <2>8. (y - er) % m = d BY ONLY <1>a, <2>1, <2>6, <2>7, RemainderIs, Zenon
  <2> QED BY <2>8 DEF d, x, y
<1>6. Driver!within_range(m, n, er, end) BY <1>1, <1>3, <1>4 DEF Driver!within_range
<1>7. Driver!within_range(m, (cr + cd) % m, er, end) <=> (cd - ca) + ea < ed
  BY <1>3, <1>5 DEF Driver!within_range
<1>8. c # Driver!Disabled /\ e # Driver!Disabled BY NoneIsDisabled DEF Open
<1>9. Driver!Earlier(e, c) = IF (cd - ca) + ea < ed THEN c ELSE e
  BY <1>6, <1>7, <1>8 DEF Driver!Earlier, n, m, er, ed, cr, cd
<1>10. (cd - ca) + ea < ed <=> DueIn(c) < DueIn(e) BY <1>0, <1>1, <1>2
<1>11. DueIn(c) \in Int /\ DueIn(e) \in Int BY <1>0, <1>1, <1>2
<1> QED BY <1>9, <1>10, <1>11

\* A process whose alarm does not seem passed is due later, as it counts.
LEMMA DueLater ==
  ASSUME DrvInv, \A p \in Driver!Apps : ~Driver!SeemsPassed(p)
  PROVE  \A p \in Waiting : due_in[p] > 0 /\ expiration[p] \in Open /\ due_in[p] = DueIn(expiration[p])
<1> SUFFICES ASSUME NEW p \in Waiting
             PROVE  due_in[p] > 0 /\ expiration[p] \in Open /\ due_in[p] = DueIn(expiration[p])
  OBVIOUS
<1> DEFINE ref == expiration[p].reference
           dt == expiration[p].dt
           age == AppAge(p)
<1>1. /\ p \in Driver!Apps /\ Driver!Enabled(p) /\ expiration[p] \in Expirations /\ due_in[p] \in Int
      /\ ref \in 0 .. U32 - 1 /\ dt \in 0 .. U32 - 1 /\ age \in 0 .. U32 - 1
      /\ Driver!Now32 \in 0 .. U32 - 1 /\ U32 \in Nat
  BY DrvTypes, DrvConstants DEF Waiting
<1>2. ~(due_in[p] <= 0) /\ (modulus = U32 \/ ~(Driver!Now32 < ref)) BY <1>1 DEF Driver!SeemsPassed
<1>3. due_in[p] > 0 /\ due_in[p] >= 0 /\ (modulus = U32 \/ ref <= Driver!Now32) BY <1>1, <1>2
<1>4. due_in[p] = Remaining(dt, age) BY <1>3 DEF DrvInv
<1>5. due_in[p] = dt - age BY <1>1, <1>3, <1>4 DEF Remaining
<1>6. DueIn(expiration[p]) = dt - age BY DEF DueIn, AgeOf, AppAge
<1> QED BY <1>1, <1>3, <1>5, <1>6 DEF Open

\* When no alarm seems passed the loop ends with one that is due first.
LEMMA EarliestIsFirst ==
  ASSUME DrvInv, HalfRange, \A p \in Driver!Apps : ~Driver!SeemsPassed(p)
  PROVE  \A p, q \in Waiting : Driver!Earliest[NApps] = expiration[p] => due_in[p] <= due_in[q]
<1> DEFINE E == Driver!Earliest
           D == Driver!Disabled
           Right(n) == \A p \in 1 .. n : expiration[p] # D =>
                         E[n] \in Open /\ DueIn(E[n]) <= DueIn(expiration[p])
           T == {n \in Nat : n <= NApps => (E[n] = D \/ E[n] \in Open) /\ Right(n)}
<1>0. NApps \in Nat BY DrvConstants
<1>1. \A n \in 0 .. NApps : E[n] = IF n = 0 THEN D ELSE Driver!Earlier(E[n - 1], expiration[n])
  BY EarliestUnfolds DEF DrvInv
<1>2. \A p \in 1 .. NApps : expiration[p] # D => expiration[p] \in Open
  BY DueLater DEF Waiting, Driver!Enabled, Driver!Apps
<1>3. \A e \in Open : DueIn(e) \in Int /\ e # D
  <2> SUFFICES ASSUME NEW e \in Open PROVE DueIn(e) \in Int /\ e # D OBVIOUS
  <2>1. DueIn(e) \in Int BY OpenReference
  <2>2. e # D BY NoneIsDisabled DEF Open
  <2> QED BY <2>1, <2>2
<1>4. 0 \in T
  <2>1. E[0] = D BY <1>0, <1>1
  <2> HIDE DEF E, D
  <2> QED BY <2>1
<1>5. ASSUME NEW n \in Nat, n \in T PROVE n + 1 \in T
  <2> SUFFICES ASSUME n + 1 <= NApps PROVE (E[n + 1] = D \/ E[n + 1] \in Open) /\ Right(n + 1) OBVIOUS
  <2>1. (E[n] = D \/ E[n] \in Open) /\ Right(n) BY <1>0, <1>5
  <2> DEFINE e == E[n]
             c == expiration[n + 1]
             f == Driver!Earlier(e, c)
  <2>2. E[n + 1] = f
    <3>1. n + 1 \in 0 .. NApps /\ n + 1 # 0 /\ (n + 1) - 1 = n BY <1>0
    <3> QED BY <1>1, <3>1
  <2>3. c # D => c \in Open BY <1>0, <1>2
  <2>4. \A p \in 1 .. n + 1 : p \in 1 .. n \/ p = n + 1 OBVIOUS
  <2>5. (c = D => f = e) /\ (c # D /\ e = D => f = c) BY Zenon DEF Driver!Earlier
  <2>6. c \in Open /\ e \in Open => (f = e \/ f = c) /\ DueIn(f) <= DueIn(e) /\ DueIn(f) <= DueIn(c)
    BY Zenon, EarlierIsFirst, EarlierIs
  <2>7. ASSUME NEW p \in 1 .. n, expiration[p] # D
        PROVE  e \in Open /\ DueIn(e) <= DueIn(expiration[p]) /\ expiration[p] \in Open
    BY <1>0, <1>2, <2>1, <2>7
  <2> HIDE DEF E, D, c, f, e
  <2>8. f = D \/ f \in Open BY Zenon, <2>1, <2>3, <2>5, <2>6 DEF e
  <2>9. ASSUME NEW p \in 1 .. n, expiration[p] # D
        PROVE  f \in Open /\ DueIn(f) <= DueIn(expiration[p])
    <3>1. CASE c = D BY Zenon, <2>5, <2>7, <2>9, <3>1
    <3>2. CASE c # D
      <4>1. c \in Open /\ e \in Open /\ expiration[p] \in Open /\ DueIn(e) <= DueIn(expiration[p])
        BY Zenon, <2>3, <2>7, <2>9, <3>2
      <4>2. f \in Open /\ DueIn(f) <= DueIn(e) BY Zenon, <2>6, <4>1
      <4>3. DueIn(f) \in Int /\ DueIn(e) \in Int /\ DueIn(expiration[p]) \in Int BY Zenon, <1>3, <4>1, <4>2
      <4> QED BY <4>1, <4>2, <4>3
    <3> QED BY <3>1, <3>2
  <2>10. c # D => f \in Open /\ DueIn(f) <= DueIn(c)
    <3>1. CASE e = D
      <4>1. c # D => f = c /\ c \in Open BY Zenon, <2>3, <2>5, <3>1
      <4>2. c # D => DueIn(c) \in Int BY Zenon, <1>3, <2>3
      <4>3. c # D => DueIn(c) <= DueIn(c) BY <4>2
      <4> QED BY Zenon, <4>1, <4>3
    <3>2. CASE e # D BY Zenon, <2>1, <2>3, <2>6, <3>2 DEF e
    <3> QED BY <3>1, <3>2
  <2>11. Right(n + 1) BY Zenon, <2>2, <2>4, <2>9, <2>10 DEF c
  <2> QED BY Zenon, <2>2, <2>8, <2>11
<1> HIDE DEF T
<1>6. T = Nat
  <2>1. T \in SUBSET Nat BY DEF T
  <2> QED BY <1>4, <1>5, <2>1, SetInduction
<1>7. Right(NApps) BY <1>0, <1>6 DEF T
<1>8. ASSUME NEW p \in Waiting, NEW q \in Waiting, E[NApps] = expiration[p] PROVE due_in[p] <= due_in[q]
  <2>1. q \in 1 .. NApps /\ expiration[q] # D BY DEF Waiting, Driver!Enabled, Driver!Apps
  <2>2. DueIn(E[NApps]) <= DueIn(expiration[q]) BY <1>7, <2>1
  <2>3. due_in[p] = DueIn(expiration[p]) /\ due_in[q] = DueIn(expiration[q]) BY DueLater
  <2> HIDE DEF E, D
  <2> QED BY <1>8, <2>2, <2>3
<1> QED BY <1>8

\* The invariant holds when the driver starts.
LEMMA DrvInit ==
  ASSUME Driver!DrvInit
  PROVE  DrvInv
<1>0. U32 \in Nat \ {0} /\ MaxArmed \in Nat /\ AppLatency \in Nat BY DrvConstants
<1>1. modulus \in Moduli /\ modulus \in Nat \ {0} /\ ticks \in 0 .. modulus - 1
  BY DrvConstants DEF Driver!DrvInit
<1>2. 0 \in -(AppLatency + 1) .. U32 /\ 0 \in -1 .. U32 /\ 0 \in 0 .. MaxArmed BY <1>0
<1>3. alarm = Driver!NotArmed /\ expiration = [p \in Driver!Apps |-> Driver!Disabled]
      /\ due_in = [p \in Driver!Apps |-> 0] /\ num_armed = 0 /\ resetting = 0 /\ late = FALSE
  BY DEF Driver!DrvInit
<1>4. alarm \in [armed : BOOLEAN, left : -(AppLatency + 1) .. U32] /\ ~alarm.armed
  BY <1>2, <1>3 DEF Driver!NotArmed
<1>5. Waiting = {} BY <1>3 DEF Waiting, Driver!Enabled
<1>6. Cardinality(Waiting) = 0 BY <1>5, FS_EmptySet
<1>7. due_in \in [Driver!Apps -> -1 .. U32] BY <1>2, <1>3
<1>8. expiration \in [Driver!Apps -> Expirations \cup {Driver!Disabled}] BY Zenon, <1>3
<1>9. num_armed \in 0 .. MaxArmed /\ Cardinality(Waiting) <= num_armed /\ resetting \in 0 .. 2
  <2>1. num_armed = 0 /\ resetting = 0 BY Zenon, <1>3
  <2> QED BY ONLY <1>2, <1>6, <2>1
<1>10. late \in BOOLEAN BY Zenon, <1>3
<1> QED BY Zenon, <1>1, <1>4, <1>5, <1>7, <1>8, <1>9, <1>10 DEF DrvInv

\* rearm: the process waits dt from its reference.
LEMMA RearmStep ==
  ASSUME DrvInv, NEW p \in Driver!Apps, NEW back \in 0 .. AppBack, NEW dt \in AppDts, Driver!rearm(p, back, dt)
  PROVE  DrvInv'
<1> DEFINE ref == (ticks - back) % U32
           e == [reference |-> ref, dt |-> dt]
<1>0. /\ U32 \in Nat \ {0} /\ MaxArmed \in Nat /\ AppLatency \in Nat
      /\ dt \in 0 .. U32 - 1 /\ back \in 0 .. U32 - 1
  BY DrvConstants
<1>1. /\ ticks \in 0 .. modulus - 1 /\ modulus \in Nat \ {0} /\ num_armed \in Nat
      /\ Cardinality(Waiting) \in Nat /\ IsFiniteSet(Waiting)
  BY DrvTypes
<1>2. /\ num_armed < MaxArmed \/ Driver!Enabled(p)
      /\ num_armed' = IF Driver!Enabled(p) THEN num_armed ELSE num_armed + 1
      /\ expiration' = [expiration EXCEPT ![p] = e]
      /\ due_in' = [due_in EXCEPT ![p] = Remaining(dt, back)]
      /\ resetting = 0 /\ resetting' = 1 /\ modulus' = modulus /\ ticks' = ticks /\ alarm' = alarm /\ late' = late
  BY DEF Driver!rearm, Remaining
<1>3. ref \in 0 .. U32 - 1 /\ ((ticks % U32) - ref) % U32 = back
  <2>1. ticks \in Int BY <1>1
  <2> QED BY ONLY <1>0, <2>1, NarrowReference, Zenon
<1> HIDE DEF ref
<1>4. e \in Expirations /\ e # Driver!Disabled
  <2>1. e \in Expirations BY <1>3 DEF Expirations
  <2> QED BY <2>1, NoneIsDisabled
<1>5. e.reference = ref /\ e.dt = dt OBVIOUS
<1> HIDE DEF e
<1>6. expiration'[p] = e /\ due_in'[p] = Remaining(dt, back)
      /\ \A q \in Driver!Apps : q # p => expiration'[q] = expiration[q] /\ due_in'[q] = due_in[q]
  BY <1>2 DEF DrvInv
<1>7. Waiting' = Waiting \cup {p} BY <1>4, <1>6 DEF Waiting, Driver!Enabled
<1>8. num_armed' \in 0 .. MaxArmed /\ Cardinality(Waiting') <= num_armed'
  <2>1. p \in Waiting <=> Driver!Enabled(p) BY DEF Waiting
  <2>2. Cardinality(Waiting') = IF p \in Waiting THEN Cardinality(Waiting) ELSE Cardinality(Waiting) + 1
    BY <1>1, <1>7, FS_AddElement
  <2>3. Cardinality(Waiting) <= num_armed /\ num_armed <= MaxArmed BY <1>0, <1>1 DEF DrvInv
  <2> QED BY <1>0, <1>1, <1>2, <2>1, <2>2, <2>3
<1>9. AppAge(p)' = back BY <1>2, <1>3, <1>5, <1>6 DEF AppAge, Driver!Now32
<1>10. \A q \in Waiting : q # p => q \in Driver!Apps /\ AppAge(q)' = AppAge(q)
  BY <1>2, <1>6 DEF AppAge, Driver!Now32, Waiting
<1>11. ASSUME NEW q \in Waiting', due_in'[q] >= 0
       PROVE  due_in'[q] = Remaining(expiration'[q].dt, AppAge(q)')
  <2>1. CASE q = p BY <1>5, <1>6, <1>9, <2>1
  <2>2. CASE q # p
    <3>1. q \in Waiting /\ q \in Driver!Apps BY <1>7, <1>10, <2>2
    <3> QED BY <1>6, <1>10, <1>11, <2>2, <3>1 DEF DrvInv
  <2> QED BY <2>1, <2>2
<1>12. due_in' \in [Driver!Apps -> -1 .. U32]
  <2>1. Remaining(dt, back) \in -1 .. U32 BY <1>0 DEF Remaining
  <2> QED BY <1>2, <2>1 DEF DrvInv
<1>13. expiration' \in [Driver!Apps -> Expirations \cup {Driver!Disabled}] BY <1>2, <1>4 DEF DrvInv
<1> QED BY <1>2, <1>8, <1>11, <1>12, <1>13 DEF DrvInv
\* A process stops its alarm, or ends with it set.
LEMMA StopOrEndsStep ==
  ASSUME DrvInv, NEW p \in Driver!Apps, Driver!Stop(p) \/ Driver!Ends(p)
  PROVE  DrvInv'
<1>0. MaxArmed \in Nat BY DrvConstants
<1>1. num_armed \in Nat /\ Cardinality(Waiting) \in Nat /\ IsFiniteSet(Waiting) BY DrvTypes
<1>2. /\ resetting = 0 /\ Driver!Enabled(p)
      /\ expiration' = [expiration EXCEPT ![p] = Driver!Disabled]
      /\ \/ num_armed' = num_armed - 1 /\ resetting' = 1
         \/ num_armed' = num_armed /\ resetting' = resetting
      /\ modulus' = modulus /\ ticks' = ticks /\ alarm' = alarm /\ due_in' = due_in /\ late' = late
  BY DEF Driver!Stop, Driver!Ends
<1>3. expiration'[p] = Driver!Disabled /\ \A q \in Driver!Apps : q # p => expiration'[q] = expiration[q]
  BY <1>2 DEF DrvInv
<1>4. Waiting' = Waiting \ {p} BY <1>3 DEF Waiting, Driver!Enabled
<1>5. p \in Waiting BY <1>2 DEF Waiting
<1>6. num_armed' \in 0 .. MaxArmed /\ Cardinality(Waiting') <= num_armed'
  <2>1. Cardinality(Waiting') = Cardinality(Waiting) - 1 BY <1>1, <1>4, <1>5, FS_RemoveElement
  <2>2. Cardinality(Waiting') \in Nat BY FiniteApps DEF Waiting
  <2>3. Cardinality(Waiting) <= num_armed /\ num_armed <= MaxArmed BY <1>0, <1>1 DEF DrvInv
  <2> QED BY <1>0, <1>1, <1>2, <2>1, <2>2, <2>3
<1>7. \A q \in Waiting' : q \in Waiting /\ expiration'[q] = expiration[q] /\ AppAge(q)' = AppAge(q)
  BY <1>2, <1>3, <1>4 DEF AppAge, Driver!Now32, Waiting
<1>8. \A q \in Waiting' : due_in'[q] >= 0 => due_in'[q] = Remaining(expiration'[q].dt, AppAge(q)')
  BY <1>2, <1>7 DEF DrvInv
<1>9. resetting' = 0 => \A q \in Waiting' :
        /\ alarm'.armed /\ \E dt \in AppDts : alarm'.left <= dt
        /\ HalfRange /\ ~late' => alarm'.left <= due_in'[q]
        /\ num_armed' = 1 /\ due_in'[q] >= 0 => alarm'.left = due_in'[q]
  BY <1>2, <1>7 DEF DrvInv
<1>10. expiration' \in [Driver!Apps -> Expirations \cup {Driver!Disabled}] BY <1>2 DEF DrvInv
<1>11. resetting' \in 0 .. 2 /\ late' \in BOOLEAN BY <1>2 DEF DrvInv
<1>12. alarm'.armed /\ resetting' # 2 => alarm'.left >= -AppLatency BY <1>2 DEF DrvInv
<1>13. modulus' \in Moduli /\ ticks' \in 0 .. modulus' - 1 /\ due_in' \in [Driver!Apps -> -1 .. U32]
       /\ alarm' \in [armed : BOOLEAN, left : -(AppLatency + 1) .. U32]
  BY <1>2 DEF DrvInv
<1> QED BY <1>6, <1>8, <1>9, <1>10, <1>11, <1>12, <1>13 DEF DrvInv

\* reset_active_alarm: what is left of the alarm below is what is left of the
\* expiration it was set from; a process that waits alone is the one it is set for.
LEMMA ResetStep ==
  ASSUME DrvInv, Driver!reset_active_alarm
  PROVE  DrvInv'
<1> DEFINE e == Driver!Earliest[NApps]
<1>0. U32 \in Nat \ {0} /\ AppLatency \in Nat BY DrvConstants
<1>1. /\ modulus \in Moduli /\ ticks \in 0 .. modulus - 1 /\ num_armed \in Nat
      /\ Cardinality(Waiting) \in Nat /\ IsFiniteSet(Waiting)
  BY DrvTypes DEF DrvInv
<1>2. /\ IF e = Driver!Disabled THEN alarm' = Driver!NotArmed
         ELSE Driver!SetAlarm(Driver!RealReference(e.reference), e.dt)
      /\ resetting' = 0 /\ modulus' = modulus /\ ticks' = ticks /\ expiration' = expiration
      /\ num_armed' = num_armed /\ due_in' = due_in
      /\ late' = \E p \in Driver!Apps : Driver!SeemsPassed(p)
  BY DEF Driver!reset_active_alarm
<1>3. /\ e # Driver!Disabled => \E p \in Waiting : e = expiration[p]
      /\ Waiting # {} => e # Driver!Disabled
  BY EarliestIs DEF DrvInv
<1>10. ~late' => \A p \in Driver!Apps : ~Driver!SeemsPassed(p) BY <1>2
<1>9. HalfRange /\ ~late' => \A p, q \in Waiting : e = expiration[p] => due_in[p] <= due_in[q]
  BY Zenon, <1>10, EarliestIsFirst
<1> HIDE DEF e
<1>4. Waiting' = Waiting BY <1>2 DEF Waiting, Driver!Enabled
<1>5. \A p \in Waiting : AppAge(p)' = AppAge(p) BY <1>2 DEF AppAge, Driver!Now32
<1>6. /\ modulus' \in Moduli /\ ticks' \in 0 .. modulus' - 1 /\ due_in' \in [Driver!Apps -> -1 .. U32]
      /\ expiration' \in [Driver!Apps -> Expirations \cup {Driver!Disabled}]
      /\ num_armed' \in 0 .. MaxArmed /\ Cardinality(Waiting') <= num_armed' /\ resetting' \in 0 .. 2
      /\ late' \in BOOLEAN
      /\ \A p \in Waiting' : due_in'[p] >= 0 => due_in'[p] = Remaining(expiration'[p].dt, AppAge(p)')
  BY <1>2, <1>4, <1>5 DEF DrvInv
<1>7. CASE e = Driver!Disabled
  <2>1. alarm' = Driver!NotArmed BY <1>2, <1>7
  <2>2. Waiting' = {} BY <1>3, <1>4, <1>7
  <2>3. 0 \in -(AppLatency + 1) .. U32 BY <1>0
  <2>4. alarm' \in [armed : BOOLEAN, left : -(AppLatency + 1) .. U32] /\ ~alarm'.armed
    BY <2>1, <2>3 DEF Driver!NotArmed
  <2> QED BY <1>6, <2>2, <2>4 DEF DrvInv
<1>8. CASE e # Driver!Disabled
  <2>1. PICK p \in Waiting : e = expiration[p] BY <1>3, <1>8
  <2>2. e.reference \in 0 .. U32 - 1 /\ e.dt \in AppDts /\ e.dt \in 0 .. U32 - 1 /\ AppAge(p) \in 0 .. U32 - 1
    BY <2>1, DrvTypes
  <2>3. (ticks - Driver!RealReference(e.reference)) % modulus = AppAge(p)
    <3>1. (ticks - Driver!RealReference(e.reference)) % modulus = (Driver!Now32 - e.reference) % U32
      BY <1>1, <2>2, RealReferenceAge
    <3> QED BY <2>1, <3>1 DEF AppAge
  <2> DEFINE k == Remaining(e.dt, AppAge(p))
  <2>4. alarm' = [armed |-> TRUE, left |-> k] BY <1>2, <1>8, <2>3 DEF Driver!SetAlarm, Remaining
  <2>5. k \in Nat /\ k <= e.dt /\ k \in -(AppLatency + 1) .. U32
    <3> DEFINE dt == e.dt
               age == AppAge(p)
    <3>1. dt \in 0 .. U32 - 1 /\ age \in 0 .. U32 - 1 BY <2>2
    <3> HIDE DEF dt, age
    <3>2. Remaining(dt, age) \in Nat /\ Remaining(dt, age) <= dt /\ Remaining(dt, age) \in -(AppLatency + 1) .. U32
      BY <1>0, <3>1 DEF Remaining
    <3> QED BY <3>2 DEF dt, age
  <2> HIDE DEF k
  <2>6. /\ alarm'.armed /\ alarm'.left = k /\ alarm'.left >= -AppLatency
        /\ alarm' \in [armed : BOOLEAN, left : -(AppLatency + 1) .. U32]
    BY <1>0, <2>4, <2>5
  <2>7. \E dt \in AppDts : alarm'.left <= dt BY <2>2, <2>5, <2>6
  <2>8. ASSUME NEW q \in Waiting', num_armed' = 1, due_in'[q] >= 0 PROVE alarm'.left = due_in'[q]
    <3>1. Cardinality(Waiting \ {p}) = Cardinality(Waiting) - 1 BY Zenon, <1>1, FS_RemoveElement
    <3>2. Cardinality(Waiting) <= 1 BY <1>2, <2>8 DEF DrvInv
    <3>3. Waiting \ {p} \in SUBSET Driver!Apps BY DEF Waiting
    <3>4. Cardinality(Waiting \ {p}) \in Nat /\ (Cardinality(Waiting \ {p}) = 0 <=> Waiting \ {p} = {})
      BY <3>3, FiniteApps
    <3>5. Waiting \ {p} = {} BY <1>1, <3>1, <3>2, <3>4
    <3>6. q = p BY <1>4, <3>5
    <3>7. due_in[p] >= 0 /\ due_in'[q] = due_in[p] BY <1>2, <2>8, <3>6
    <3>8. due_in[p] = Remaining(expiration[p].dt, AppAge(p)) BY <3>7 DEF DrvInv
    <3> QED BY <2>1, <2>6, <3>7, <3>8 DEF k
  <2>9. ASSUME NEW q \in Waiting', HalfRange, ~late' PROVE alarm'.left <= due_in'[q]
    <3>1. due_in[p] <= due_in[q] /\ due_in'[q] = due_in[q] BY <1>2, <1>4, <1>9, <2>1, <2>9
    <3>2. due_in[p] > 0 BY Zenon, <1>10, <2>9, DueLater
    <3>3. due_in[p] \in -1 .. U32 BY Zenon, DrvTypes
    <3>4. due_in[p] >= 0 BY <1>0, <3>2, <3>3
    <3>5. due_in[p] = Remaining(expiration[p].dt, AppAge(p)) BY Zenon, <3>4 DEF DrvInv
    <3>6. due_in[p] = k BY Zenon, <2>1, <3>5 DEF k
    <3> QED BY <2>6, <3>1, <3>6
  <2> QED BY <1>6, <2>6, <2>7, <2>8, <2>9 DEF DrvInv
<1> QED BY <1>7, <1>8

\* Cardinality is the same operator in the driver's module and here.
LEMMA SameCardinality ==
  ASSUME NEW S
  PROVE  Driver!Cardinality(S) = Cardinality(S)
  BY Zenon DEF Driver!Cardinality, Cardinality

\* The driver's alarm handler: what it finds passed is due.
LEMMA UpcallStep ==
  ASSUME DrvInv, Driver!Alarm
  PROVE  /\ DrvInv'
         /\ \A p \in Driver!Apps :
              Driver!Enabled(p) /\ expiration'[p] = Driver!Disabled => due_in[p] <= 0
<1> DEFINE passed == {p \in Driver!Apps : Driver!Enabled(p) /\ Driver!Passed(expiration[p])}
<1>0. U32 \in Nat \ {0} /\ AppLatency \in Nat /\ MaxArmed \in Nat BY DrvConstants
<1>1. num_armed \in Nat /\ Cardinality(Waiting) \in Nat /\ IsFiniteSet(Waiting) BY DrvTypes
<1>2. /\ expiration' = [p \in Driver!Apps |-> IF p \in passed THEN Driver!Disabled ELSE expiration[p]]
      /\ num_armed' = num_armed - Cardinality(passed)
      /\ alarm' = Driver!NotArmed /\ resetting' = IF num_armed' = 0 THEN 0 ELSE 1
      /\ modulus' = modulus /\ ticks' = ticks /\ due_in' = due_in /\ late' = late
  BY Zenon, SameCardinality DEF Driver!Alarm
<1>3. passed \subseteq Waiting BY DEF Waiting
<1>4. ASSUME NEW p \in passed PROVE due_in[p] <= 0
  <2>1. p \in Waiting BY <1>3
  <2> DEFINE ref == expiration[p].reference
             dt == expiration[p].dt
             age == AppAge(p)
  <2>2. ref \in 0 .. U32 - 1 /\ dt \in 0 .. U32 - 1 /\ age \in 0 .. U32 - 1 BY <2>1, DrvTypes
  <2>3. ~(age < ((ref + dt) - ref) % U32) BY DEF Driver!Passed, Driver!within_range, AppAge
  <2>4. due_in[p] \in Int /\ (due_in[p] >= 0 => due_in[p] = Remaining(dt, age))
    BY <1>0, <2>1, DrvTypes DEF DrvInv
  <2> HIDE DEF ref, dt, age
  <2>5. (ref + dt) - ref = dt BY <1>0, <2>2
  <2>6. dt % U32 = dt
    <3>1. dt = U32 * 0 + dt /\ dt \in Int BY <1>0, <2>2
    <3> QED BY <1>0, <2>2, <3>1, RemainderIs
  <2>7. dt <= age BY <1>0, <2>2, <2>3, <2>5, <2>6
  <2>8. Remaining(dt, age) = 0 BY <1>0, <2>2, <2>7 DEF Remaining
  <2> QED BY <2>4, <2>8
<1>5. ASSUME NEW p \in Driver!Apps, Driver!Enabled(p), expiration'[p] = Driver!Disabled PROVE due_in[p] <= 0
  <2>1. p \in passed BY <1>2, <1>5 DEF Driver!Enabled
  <2> QED BY <1>4, <2>1
<1> HIDE DEF passed
<1>6. Waiting' = Waiting \ passed
  <2>1. \A p \in Driver!Apps : expiration'[p] = IF p \in passed THEN Driver!Disabled ELSE expiration[p] BY <1>2
  <2> QED BY <2>1 DEF Waiting, Driver!Enabled
<1>7. num_armed' \in 0 .. MaxArmed /\ Cardinality(Waiting') <= num_armed' /\ (num_armed' = 0 => Waiting' = {})
  <2>1. Cardinality(Waiting') = Cardinality(Waiting) - Cardinality(passed)
    <3>1. Waiting \cap passed = passed BY <1>3
    <3>2. Cardinality(Waiting \ passed) = Cardinality(Waiting) - Cardinality(Waiting \cap passed)
      BY ONLY <1>1, FS_Difference, Zenon
    <3> QED BY <1>6, <3>1, <3>2
  <2>2. Cardinality(Waiting') \in Nat /\ (Cardinality(Waiting') = 0 <=> Waiting' = {}) BY FiniteApps DEF Waiting
  <2>3. Cardinality(passed) \in Nat BY FiniteApps DEF passed
  <2>4. Cardinality(Waiting) <= num_armed /\ num_armed <= MaxArmed BY <1>0, <1>1 DEF DrvInv
  <2> QED BY <1>0, <1>1, <1>2, <2>1, <2>2, <2>3, <2>4
<1>8. \A p \in Waiting' : p \in Waiting /\ expiration'[p] = expiration[p] /\ AppAge(p)' = AppAge(p)
  BY <1>2, <1>6 DEF AppAge, Driver!Now32, Waiting
<1>9. \A p \in Waiting' : due_in'[p] >= 0 => due_in'[p] = Remaining(expiration'[p].dt, AppAge(p)')
  BY <1>2, <1>8 DEF DrvInv
<1>10. alarm' \in [armed : BOOLEAN, left : -(AppLatency + 1) .. U32] /\ ~alarm'.armed
  <2>1. 0 \in -(AppLatency + 1) .. U32 BY <1>0
  <2> QED BY <1>2, <2>1 DEF Driver!NotArmed
<1>11. expiration' \in [Driver!Apps -> Expirations \cup {Driver!Disabled}] BY <1>2 DEF DrvInv
<1>12. resetting' \in 0 .. 2 /\ (resetting' = 0 => Waiting' = {}) BY <1>2, <1>7
<1>13. /\ modulus' \in Moduli /\ ticks' \in 0 .. modulus' - 1 /\ due_in' \in [Driver!Apps -> -1 .. U32]
       /\ late' \in BOOLEAN
  BY <1>2 DEF DrvInv
<1>14. DrvInv' BY <1>7, <1>9, <1>10, <1>11, <1>12, <1>13 DEF DrvInv
<1> QED BY <1>5, <1>14

\* Time goes on: every wait grows older by one tick, in every width of ticks.
LEMMA DrvTickStep ==
  ASSUME DrvInv, Driver!Tick
  PROVE  DrvInv'
<1>0. U32 \in Nat \ {0} /\ AppLatency \in Nat /\ MaxArmed \in Nat BY DrvConstants
<1>1. /\ modulus \in Nat \ {0} /\ modulus % U32 = 0 /\ ticks \in 0 .. modulus - 1
      /\ alarm.armed \in BOOLEAN /\ alarm.left \in -(AppLatency + 1) .. U32
      /\ alarm = [armed |-> alarm.armed, left |-> alarm.left]
      /\ \A p \in Driver!Apps : due_in[p] \in -1 .. U32
  BY DrvTypes
<1>2. /\ IF resetting = 0 THEN alarm.armed => alarm.left > -AppLatency ELSE resetting = 1
      /\ ticks' = (ticks + 1) % modulus
      /\ alarm' = IF alarm.armed THEN [alarm EXCEPT !.left = @ - 1] ELSE alarm
      /\ due_in' = [p \in Driver!Apps |-> IF due_in[p] < 0 THEN -1 ELSE due_in[p] - 1]
      /\ resetting' = IF resetting = 0 THEN 0 ELSE resetting + 1
      /\ modulus' = modulus /\ expiration' = expiration /\ num_armed' = num_armed /\ late' = late
  BY DEF Driver!Tick
<1>3. /\ ticks' \in 0 .. modulus' - 1
      /\ Driver!Now32' = IF Driver!Now32 = U32 - 1 THEN 0 ELSE Driver!Now32 + 1
  BY <1>0, <1>1, <1>2, NarrowTick DEF Driver!Now32
<1>4. Waiting' = Waiting BY <1>2 DEF Waiting, Driver!Enabled
<1>5. /\ alarm'.armed = alarm.armed
      /\ alarm'.left = IF alarm.armed THEN alarm.left - 1 ELSE alarm.left
      /\ alarm' = [armed |-> alarm'.armed, left |-> alarm'.left]
  BY <1>1, <1>2
<1>6. resetting' \in 0 .. 2 /\ (resetting' = 0 <=> resetting = 0) BY <1>2
<1>7. alarm'.left \in -(AppLatency + 1) .. U32 /\ (alarm'.armed /\ resetting' # 2 => alarm'.left >= -AppLatency)
  <2>1. resetting # 2 BY <1>2
  <2>2. alarm.armed => alarm.left >= -AppLatency BY <2>1 DEF DrvInv
  <2> QED BY <1>0, <1>1, <1>2, <1>5, <2>2
<1>8. alarm' \in [armed : BOOLEAN, left : -(AppLatency + 1) .. U32]
  <2> DEFINE a == alarm'.armed
             l == alarm'.left
  <2>1. alarm' = [armed |-> a, left |-> l] /\ a \in BOOLEAN /\ l \in -(AppLatency + 1) .. U32 BY <1>1, <1>5, <1>7
  <2> HIDE DEF a, l
  <2> QED BY ONLY <2>1
<1>9. ASSUME NEW p \in Waiting, due_in'[p] >= 0
      PROVE  due_in[p] >= 1 /\ due_in'[p] = due_in[p] - 1 /\ due_in'[p] = Remaining(expiration'[p].dt, AppAge(p)')
  <2>1. p \in Driver!Apps BY DEF Waiting
  <2>2. due_in'[p] = IF due_in[p] < 0 THEN -1 ELSE due_in[p] - 1 BY <1>2, <2>1
  <2>3. due_in[p] \in -1 .. U32 BY <1>1, <2>1
  <2>4. due_in[p] >= 1 /\ due_in'[p] = due_in[p] - 1 BY <1>0, <1>9, <2>2, <2>3
  <2> DEFINE ref == expiration[p].reference
             dt == expiration[p].dt
             age == AppAge(p)
             next == AppAge(p)'
             n == Driver!Now32
             due == due_in[p]
  <2>5. /\ ref \in 0 .. U32 - 1 /\ dt \in 0 .. U32 - 1 /\ age \in 0 .. U32 - 1 /\ n \in 0 .. U32 - 1
    BY DrvTypes
  <2>6. due = Remaining(dt, age) BY <2>3, <2>4 DEF DrvInv
  <2>7. age = (n - ref) % U32 BY DEF AppAge
  <2> DEFINE m == IF n = U32 - 1 THEN 0 ELSE n + 1
  <2>8. next = (m - ref) % U32 BY <1>2, <1>3 DEF AppAge
  <2>9. m \in 0 .. U32 - 1 BY <1>0, <2>5
  <2> HIDE DEF ref, dt, age, next, n, due
  <2>10. age = IF ref <= n THEN n - ref ELSE n - ref + U32 BY Zenon, <1>0, <2>5, <2>7, Difference
  <2>11. next = IF ref <= m THEN m - ref ELSE m - ref + U32
    <3> HIDE DEF m
    <3> QED BY <1>0, <2>5, <2>8, <2>9, Difference
  <2>12. due >= 1 BY <2>4 DEF due
  <2>13. age < dt /\ due = dt - age BY <1>0, <2>5, <2>6, <2>12 DEF Remaining
  <2>14. next = age + 1 BY <1>0, <2>5, <2>10, <2>11, <2>13
  <2>15. Remaining(dt, next) = due - 1 BY <1>0, <2>5, <2>13, <2>14 DEF Remaining
  <2> QED BY <1>2, <2>4, <2>15 DEF dt, next, due
<1>10. resetting' = 0 => \A p \in Waiting' :
         /\ alarm'.armed /\ \E dt \in AppDts : alarm'.left <= dt
         /\ HalfRange /\ ~late' => alarm'.left <= due_in'[p]
         /\ num_armed' = 1 /\ due_in'[p] >= 0 => alarm'.left = due_in'[p]
  <2> SUFFICES ASSUME resetting = 0, NEW p \in Waiting
               PROVE  /\ alarm'.armed /\ \E dt \in AppDts : alarm'.left <= dt
                      /\ HalfRange /\ ~late' => alarm'.left <= due_in'[p]
                      /\ num_armed' = 1 /\ due_in'[p] >= 0 => alarm'.left = due_in'[p]
    BY <1>4, <1>6
  <2>1. /\ alarm.armed /\ \E dt \in AppDts : alarm.left <= dt
        /\ HalfRange /\ ~late => alarm.left <= due_in[p]
        /\ num_armed = 1 /\ due_in[p] >= 0 => alarm.left = due_in[p]
    BY DEF DrvInv
  <2>2. alarm'.armed /\ alarm'.left = alarm.left - 1 BY <1>5, <2>1
  <2>3. \E dt \in AppDts : alarm'.left <= dt
    <3>1. PICK dt \in AppDts : alarm.left <= dt BY <2>1
    <3>2. dt \in Int BY DrvConstants
    <3>3. alarm.left \in Int BY <1>0, <1>1
    <3>4. alarm'.left <= dt BY <2>2, <3>1, <3>2, <3>3
    <3> QED BY <3>4
  <2>4. ASSUME num_armed' = 1, due_in'[p] >= 0 PROVE alarm'.left = due_in'[p]
    <3>1. due_in[p] >= 1 /\ due_in'[p] = due_in[p] - 1 BY <1>9, <2>4
    <3>2. due_in[p] \in -1 .. U32 BY <1>1 DEF Waiting
    <3>3. due_in[p] >= 0 BY <1>0, <3>1, <3>2
    <3>4. alarm.left = due_in[p] BY <1>2, <2>1, <2>4, <3>3
    <3> QED BY <2>2, <3>1, <3>4
  <2>5. ASSUME HalfRange, ~late' PROVE alarm'.left <= due_in'[p]
    <3>1. due_in[p] \in -1 .. U32 /\ due_in'[p] = IF due_in[p] < 0 THEN -1 ELSE due_in[p] - 1
      BY <1>1, <1>2 DEF Waiting
    <3>2. alarm.left <= due_in[p] /\ alarm.left \in Int BY <1>0, <1>1, <1>2, <2>1, <2>5
    <3> QED BY <1>0, <2>2, <3>1, <3>2
  <2> QED BY <2>2, <2>3, <2>4, <2>5
<1>11. due_in' \in [Driver!Apps -> -1 .. U32]
  <2>1. \A p \in Driver!Apps : (IF due_in[p] < 0 THEN -1 ELSE due_in[p] - 1) \in -1 .. U32 BY <1>0, <1>1
  <2> QED BY <1>2, <2>1
<1>12. Cardinality(Waiting') <= num_armed' /\ num_armed' \in 0 .. MaxArmed /\ modulus' \in Moduli
       /\ late' \in BOOLEAN /\ expiration' \in [Driver!Apps -> Expirations \cup {Driver!Disabled}]
  BY <1>2, <1>4 DEF DrvInv
<1>13. \A p \in Waiting' : due_in'[p] >= 0 => due_in'[p] = Remaining(expiration'[p].dt, AppAge(p)') BY <1>4, <1>9
<1> QED BY <1>3, <1>6, <1>7, <1>8, <1>10, <1>11, <1>12, <1>13 DEF DrvInv
-----------------------------------------------------------------------------
(* The theorems about the driver *)

\* Every step of the driver and of the alarm below keeps the invariant.
LEMMA NextKeepsDrvInv ==
  ASSUME DrvInv, Driver!DrvNext \/ UNCHANGED drv
  PROVE  DrvInv'
<1>1. CASE Driver!Tick BY <1>1, DrvTickStep
<1>2. CASE Driver!Alarm BY <1>2, UpcallStep
<1>3. CASE Driver!reset_active_alarm BY <1>3, ResetStep
<1>4. ASSUME NEW p \in Driver!Apps, Driver!Command(p) \/ Driver!Ends(p) PROVE DrvInv'
  <2>1. CASE Driver!Stop(p) \/ Driver!Ends(p) BY <2>1, StopOrEndsStep
  <2>2. ASSUME NEW back \in 0 .. AppBack, NEW dt \in AppDts, Driver!rearm(p, back, dt) PROVE DrvInv'
    BY <2>2, RearmStep
  <2> QED BY <1>4, <2>1, <2>2 DEF Driver!Command
<1>5. CASE UNCHANGED drv
  BY <1>5 DEF drv, DrvInv, Waiting, AppAge, Driver!Now32, Driver!Enabled
<1> QED BY <1>1, <1>2, <1>3, <1>4, <1>5 DEF Driver!DrvNext, Driver!DrvStep

\* A step is one of the driver, or leaves it alone.
LEMMA LayersStep ==
  ASSUME [AlarmsNext]_allvars
  PROVE  Driver!DrvNext \/ UNCHANGED drv
<1>1. CASE AlarmsNext BY <1>1 DEF AlarmsNext
<1>2. CASE UNCHANGED allvars BY <1>2 DEF allvars
<1> QED BY <1>1, <1>2

\* In every state of the alarm driver (alarm.rs), for any number of processes,
\* dts and references and any width of the alarm's ticks: the time left to each
\* process, counted in u32 ticks that wrap, is the true time left until it is
\* due, and num_armed is at least the number of processes that wait, also after
\* processes ended with an alarm set.
THEOREM DriverInvariance == AlarmsSpec => []DrvInv
<1>1. AlarmsInit => DrvInv BY DrvInit DEF AlarmsInit
<1>2. DrvInv /\ [AlarmsNext]_allvars => DrvInv' BY LayersStep, NextKeepsDrvInv
<1> QED BY <1>1, <1>2, PTL DEF AlarmsSpec

\* As long as a process waits and no reset_active_alarm is under way, the alarm
\* below is set and goes off within the longest wait anyone asked for; no later
\* than any process is due if none seemed due when it was set and no dt is more
\* than half of the range of a u32; and exactly when the process is due if it
\* waits alone.
THEOREM AppsAlwaysWake == AlarmsSpec => []AppsWake
<1>1. ASSUME DrvInv PROVE AppsWake
  <2>1. DrvTypeOK
    <3>1. \A p \in Driver!Apps : Driver!Enabled(p) => expiration[p] \in [reference : 0 .. U32 - 1, dt : AppDts]
      BY <1>1 DEF DrvInv, Driver!Enabled, Expirations
    <3> QED BY <1>1, <3>1 DEF DrvInv, DrvTypeOK
  <2>2. \A p \in Driver!Apps : Driver!Enabled(p) => p \in Waiting BY DEF Waiting
  <2> QED BY <1>1, <2>1, <2>2 DEF DrvInv, AppsWake
<1>2. DrvInv => AppsWake BY <1>1
<1> QED BY <1>2, DriverInvariance, PTL

\* The driver's handler makes no upcall to a process before its alarm is due in
\* true time, although it compares u32 ticks that wrap.
THEOREM UpcallsAreNotEarly == AlarmsSpec => AppsNotEarly
<1>1. ASSUME DrvInv, Driver!Alarm
      PROVE  \A p \in Driver!Apps : Driver!Enabled(p) /\ expiration'[p] = Driver!Disabled => due_in[p] <= 0
  BY <1>1, UpcallStep
<1> DEFINE NotEarly == Driver!Alarm => \A p \in Driver!Apps :
                         Driver!Enabled(p) /\ expiration'[p] = Driver!Disabled => due_in[p] <= 0
<1>2. DrvInv => [NotEarly]_allvars BY <1>1
<1>3. AlarmsSpec => [][NotEarly]_allvars BY <1>2, DriverInvariance, PTL
<1> QED BY <1>3 DEF AppsNotEarly
=============================================================================
