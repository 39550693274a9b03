-------------------------- MODULE KernelLoopProofs --------------------------
(***************************************************************************)
(* Proofs about the kernel's loop: KernelLoop with the round robin, the    *)
(* cooperative and the priority scheduler, for any process array; and      *)
(* about what is checked before it runs: DeferredCall, for a table of any  *)
(* length and any number of calls, and CredentialsChecker, for any process *)
(* array and any footers.                                                  *)
(***************************************************************************)
EXTENDS KernelLoop, DeferredCall, CredentialsChecker, FiniteSetTheorems, TLAPS

-----------------------------------------------------------------------------
(* Lists *)

\* What moving the front of a list to its back does to positions.
LEMMA Rotation ==
  ASSUME NEW S, NEW s \in Seq(S), NEW i \in 1 .. Len(s) + 1
  PROVE  LET r == SubSeq(s, i, Len(s)) \o SubSeq(s, 1, i - 1)
             n == Len(s) - i + 1
         IN  /\ r \in Seq(S) /\ Len(r) = Len(s)
             /\ \A k \in 1 .. Len(s) : r[k] = IF k <= n THEN s[i + k - 1] ELSE s[k - n]
             /\ \A k \in 1 .. Len(s) : s[k] = IF k < i THEN r[k + n] ELSE r[k - i + 1]
<1> DEFINE a == SubSeq(s, i, Len(s))
           b == SubSeq(s, 1, i - 1)
<1>1. /\ a \in Seq(S) /\ Len(a) = Len(s) - i + 1
      /\ \A k \in 1 .. Len(a) : a[k] = s[i + k - 1]
  OBVIOUS
<1>2. /\ b \in Seq(S) /\ Len(b) = i - 1
      /\ \A k \in 1 .. Len(b) : b[k] = s[k]
  OBVIOUS
<1> HIDE DEF a, b
<1> DEFINE r == a \o b
<1>3. /\ r \in Seq(S) /\ Len(r) = Len(s)
      /\ \A k \in 1 .. Len(s) : r[k] = IF k <= Len(a) THEN a[k] ELSE b[k - Len(a)]
  <2>1. a \in Seq(S) /\ b \in Seq(S) BY <1>1, <1>2
  <2>2. /\ r \in Seq(S) /\ Len(r) = Len(a) + Len(b)
        /\ \A k \in 1 .. Len(a) + Len(b) : r[k] = IF k <= Len(a) THEN a[k] ELSE b[k - Len(a)]
    BY ONLY <2>1
  <2>3. Len(a) + Len(b) = Len(s) BY <1>1, <1>2
  <2> QED BY <2>2, <2>3
<1> HIDE DEF r
<1>4. \A k \in 1 .. Len(s) : r[k] = IF k <= Len(a) THEN s[i + k - 1] ELSE s[k - Len(a)]
  <2> TAKE k \in 1 .. Len(s)
  <2>1. CASE k <= Len(a)
    <3>1. k \in 1 .. Len(a) BY <1>1, <2>1
    <3> QED BY Zenon, <1>1, <1>3, <2>1, <3>1
  <2>2. CASE ~(k <= Len(a))
    <3>1. k - Len(a) \in 1 .. Len(b) BY <1>1, <1>2, <2>2
    <3> QED BY <1>2, <1>3, <2>2, <3>1
  <2> QED BY <2>1, <2>2
<1>5. \A k \in 1 .. Len(s) : s[k] = IF k < i THEN r[k + Len(a)] ELSE r[k - i + 1]
  <2> TAKE k \in 1 .. Len(s)
  <2>1. CASE k < i
    <3>1. k + Len(a) \in 1 .. Len(s) /\ ~(k + Len(a) <= Len(a)) /\ (k + Len(a)) - Len(a) = k
      BY <1>1, <2>1
    <3> QED BY <1>4, <2>1, <3>1
  <2>2. CASE ~(k < i)
    <3>1. k - i + 1 \in 1 .. Len(s) /\ k - i + 1 <= Len(a) /\ i + (k - i + 1) - 1 = k
      BY <1>1, <2>2
    <3> QED BY Zenon, <1>4, <2>2, <3>1
  <2> QED BY <2>1, <2>2
<1> QED BY Zenon, <1>1, <1>3, <1>4, <1>5 DEF a, b, r

\* p is before q in the list s.
BeforeIn(s, p, q) == \E i, j \in 1 .. Len(s) : i < j /\ s[i] = p /\ s[j] = q

\* The list s holds every element of S, and none twice.
Onto(s, S) == \A x \in S : \E i \in 1 .. Len(s) : s[i] = x
OneToOne(s) == \A i, j \in 1 .. Len(s) : s[i] = s[j] => i = j

\* The list s after everything before position i was moved to its back.
Turned(s, i) == SubSeq(s, i, Len(s)) \o SubSeq(s, 1, i - 1)

\* Turning a list keeps its elements and its length.
LEMMA TurnedIsList ==
  ASSUME NEW S, NEW s \in Seq(S), NEW i \in 1 .. Len(s) + 1
  PROVE  Turned(s, i) \in Seq(S) /\ Len(Turned(s, i)) = Len(s)
  BY Zenon, Rotation DEF Turned

\* No element of the list is lost,
LEMMA TurnedIsOnto ==
  ASSUME NEW S, NEW s \in Seq(S), NEW i \in 1 .. Len(s) + 1, NEW T, Onto(s, T)
  PROVE  Onto(Turned(s, i), T)
<1> DEFINE r == Turned(s, i)
           n == Len(s) - i + 1
<1>1. \A k \in 1 .. Len(s) : s[k] = IF k < i THEN r[k + n] ELSE r[k - i + 1]
  BY Zenon, Rotation DEF Turned
<1> HIDE DEF r
<1> SUFFICES ASSUME NEW x \in T, NEW k \in 1 .. Len(s), s[k] = x
             PROVE  \E l \in 1 .. Len(s) : r[l] = x
  BY TurnedIsList DEF r, Onto
<1>2. CASE k < i
  <2>1. k + n \in 1 .. Len(s) BY <1>2
  <2> QED BY <1>1, <1>2, <2>1
<1>3. CASE ~(k < i)
  <2>1. k - i + 1 \in 1 .. Len(s) BY <1>3
  <2> QED BY <1>1, <1>3, <2>1
<1> QED BY <1>2, <1>3

\* or duplicated.
LEMMA TurnedIsInjective ==
  ASSUME NEW S, NEW s \in Seq(S), NEW i \in 1 .. Len(s) + 1, OneToOne(s)
  PROVE  OneToOne(Turned(s, i))
<1> DEFINE r == Turned(s, i)
           n == Len(s) - i + 1
<1>1. \A k \in 1 .. Len(s) : r[k] = IF k <= n THEN s[i + k - 1] ELSE s[k - n]
  BY Zenon, Rotation DEF Turned
<1> HIDE DEF r
<1> SUFFICES ASSUME NEW k \in 1 .. Len(s), NEW l \in 1 .. Len(s), r[k] = r[l]
             PROVE  k = l
  BY TurnedIsList DEF r, OneToOne
<1> DEFINE at(m) == IF m <= n THEN i + m - 1 ELSE m - n
<1>2. \A m \in 1 .. Len(s) : at(m) \in 1 .. Len(s) OBVIOUS
<1>3. \A m \in 1 .. Len(s) : r[m] = s[at(m)] BY <1>1
<1>4. at(k) \in 1 .. Len(s) /\ at(l) \in 1 .. Len(s) BY <1>2
<1>5. s[at(k)] = s[at(l)] BY <1>3
<1> HIDE DEF at
<1>6. at(k) = at(l) BY <1>4, <1>5 DEF OneToOne
<1> QED BY <1>6 DEF at

\* Who was behind an element that does not move to the back still is, and so is
\* who moves there.
LEMMA TurnedBefore ==
  ASSUME NEW S, NEW s \in Seq(S), NEW i \in 1 .. Len(s) + 1,
         NEW k \in i .. Len(s), \A j \in 1 .. i - 1 : s[j] # s[k]
  PROVE  /\ \A q : BeforeIn(s, s[k], q) => BeforeIn(Turned(s, i), s[k], q)
         /\ \A j \in 1 .. i - 1 : BeforeIn(Turned(s, i), s[k], s[j])
<1> DEFINE r == Turned(s, i)
           n == Len(s) - i + 1
<1>1. /\ r \in Seq(S) /\ Len(r) = Len(s)
      /\ \A m \in 1 .. Len(s) : s[m] = IF m < i THEN r[m + n] ELSE r[m - i + 1]
  BY Zenon, Rotation DEF Turned
<1> HIDE DEF r
<1>2. \A m \in i .. Len(s) : m - i + 1 \in 1 .. Len(r) /\ m - i + 1 <= n /\ s[m] = r[m - i + 1]
  <2> TAKE m \in i .. Len(s)
  <2>1. m \in 1 .. Len(s) /\ ~(m < i) OBVIOUS
  <2> QED BY <1>1, <2>1
<1>3. \A j \in 1 .. i - 1 : j + n \in 1 .. Len(r) /\ s[j] = r[j + n]
  <2> TAKE j \in 1 .. i - 1
  <2>1. j \in 1 .. Len(s) /\ j < i OBVIOUS
  <2> QED BY <1>1, <2>1
<1>4. ASSUME NEW q, BeforeIn(s, s[k], q)
      PROVE  BeforeIn(r, s[k], q)
  <2>1. PICK x, y \in 1 .. Len(s) : x < y /\ s[x] = s[k] /\ s[y] = q
    BY <1>4 DEF BeforeIn
  <2>2. x \in i .. Len(s) /\ y \in i .. Len(s)
    <3>1. ~(x \in 1 .. i - 1) BY <2>1
    <3> QED BY <2>1, <3>1
  <2>3. x - i + 1 < y - i + 1 BY <2>1, <2>2
  <2> QED BY Zenon, <1>2, <2>1, <2>2, <2>3 DEF BeforeIn
<1>5. ASSUME NEW j \in 1 .. i - 1
      PROVE  BeforeIn(r, s[k], s[j])
  <2>1. k - i + 1 < j + n BY <1>2
  <2> QED BY Zenon, <1>2, <1>3, <2>1 DEF BeforeIn
<1> QED BY <1>4, <1>5 DEF r

-----------------------------------------------------------------------------
(* KernelLoop *)

Behind(p) == {q \in Present : Before(p, q)}

\* What makes the turns fair: the list holds every slot once, the running process
\* is at its head, and as many turns as a process has waited for, that many
\* processes are behind it.
LoopInv ==
  /\ TypeOK
  /\ time_remaining # 0 /\ (pc = "process" => timeslice # 0)
  /\ Onto(processes, Slots) /\ OneToOne(processes)
  /\ pc = "process" => /\ turns[running] = 0
                       /\ scheduler # "priority" => processes[1] = running
  /\ \A p \in Present :
       /\ ~ready[p] \/ scheduler = "priority" => turns[p] = 0
       /\ turns[p] <= Cardinality(Behind(p))

\* The list of the process array, and the processes behind one in it.
LEMMA ListFacts ==
  ASSUME TypeOK
  PROVE  /\ processes \in Seq(Slots) /\ Len(processes) = Cardinality(Slots) /\ Len(processes) \in Nat
         /\ IsFiniteSet(Present) /\ Cardinality(Present) \in Nat
         /\ \A p, q : Before(p, q) <=> BeforeIn(processes, p, q)
         /\ \A p : IsFiniteSet(Behind(p)) /\ Cardinality(Behind(p)) \in Nat
<1>1. Cardinality(Slots) \in Nat BY FS_CardinalityType, LoopAssumption
<1>2. IsFiniteSet(Present) BY FS_Subset, LoopAssumption
<1>3. Cardinality(Present) \in Nat BY <1>2, FS_CardinalityType
<1>4. \A p : IsFiniteSet(Behind(p)) BY <1>2, FS_Subset DEF Behind
<1>5. \A p : Cardinality(Behind(p)) \in Nat BY <1>4, FS_CardinalityType
<1>6. processes \in Seq(Slots) /\ Len(processes) = Cardinality(Slots) BY <1>1 DEF TypeOK
<1> QED BY <1>1, <1>2, <1>3, <1>4, <1>5, <1>6 DEF Before, BeforeIn

\* A sequence is a function on its indices.
LEMMA SeqIsFunction ==
  ASSUME NEW S, NEW s \in Seq(S)
  PROVE  s \in [1 .. Len(s) -> S]
  OBVIOUS

\* Processes that become ready or not keep the types.
LEMMA ReadinessTypes ==
  ASSUME TypeOK, NEW p \in Present, Ready(p) \/ NotReady(p)
  PROVE  ready' \in [Present -> BOOLEAN] /\ turns' \in [Present -> Nat]
<1>1. ready \in [Present -> BOOLEAN] /\ turns \in [Present -> Nat] BY DEF TypeOK
<1>2. CASE Ready(p) BY <1>1, <1>2 DEF Ready
<1>3. CASE NotReady(p) BY <1>1, <1>3 DEF NotReady
<1> QED BY <1>2, <1>3

\* Every step keeps the types, and time_remaining and timeslice stay above 0.
LEMMA LoopTypes ==
  ASSUME TypeOK, time_remaining # 0, pc = "process" => timeslice # 0, [Next]_vars
  PROVE  TypeOK' /\ time_remaining' # 0 /\ (pc' = "process" => timeslice' # 0)
<1> USE LoopAssumption DEF TypeOK, sched
<1>0. Timeslice # 0 /\ (GrantedTimeslice \in 1 .. Timeslice)
  BY DEF GrantedTimeslice
<1>1. CASE UNCHANGED vars BY <1>1 DEF vars
<1>2. CASE Interrupt BY <1>2 DEF Interrupt
<1>3. CapsuleEffect => ready' \in [Present -> BOOLEAN] /\ turns' \in [Present -> Nat]
  BY ReadinessTypes, Zenon DEF CapsuleEffect
<1>4. CASE ServiceInterrupts BY <1>3, <1>4 DEF ServiceInterrupts
<1>5. ASSUME NEW more \in BOOLEAN, ServiceDeferred(more)
      PROVE  TypeOK' /\ time_remaining' # 0 /\ (pc' = "process" => timeslice' # 0)
  BY <1>3, <1>5 DEF ServiceDeferred
<1>6. CASE KernelWorkDone BY <1>6 DEF KernelWorkDone
<1>7. CASE RunProcess
  <2>1. PICK i \in 1 .. Len(processes) :
          /\ IsReady(processes[i])
          /\ processes' = IF scheduler = "priority" THEN processes ELSE From(i)
          /\ running' = processes[i]
          /\ turns' = [turns EXCEPT ![processes[i]] = 0]
    BY Zenon, <1>7 DEF RunProcess
  <2>2. Turned(processes, i) \in Seq(Slots) /\ Len(Turned(processes, i)) = Len(processes)
    BY ListFacts, TurnedIsList
  <2>3. processes' \in [1 .. Cardinality(Slots) -> Slots]
    <3>1. Turned(processes, i) \in [1 .. Cardinality(Slots) -> Slots]
      BY <2>2, ListFacts, SeqIsFunction
    <3> QED BY <2>1, <3>1 DEF From, Turned
  <2>4. running' \in Present /\ running' # NoSlot BY <2>1 DEF IsReady
  <2>5. turns' \in [Present -> Nat] BY Zenon, <2>1
  <2> QED BY <1>0, <1>7, <2>3, <2>4, <2>5 DEF RunProcess
<1>8. CASE TrySleep BY <1>8 DEF TrySleep
<1>9. CASE Sleep BY <1>9 DEF Sleep
<1>10. ASSUME NEW reason, NEW executed \in Nat, pc = "process", Stops(reason, executed),
              reason = "KernelPreemption" /\ scheduler # "round_robin" => executed = 0
       PROVE  TypeOK' /\ time_remaining' # 0 /\ (pc' = "process" => timeslice' # 0)
  <2>1. processes' \in [1 .. Cardinality(Slots) -> Slots]
    <3>1. Len(processes) \in Nat \ {0}
      BY ListFacts, FS_EmptySet
    <3>2. ToBack \in Seq(Slots) /\ Len(ToBack) = Len(processes)
      BY <3>1, ListFacts, TurnedIsList DEF ToBack, From, Turned
    <3>3. ToBack \in [1 .. Cardinality(Slots) -> Slots] BY <3>2, ListFacts, SeqIsFunction
    <3> QED BY <1>10, <3>3 DEF Stops
  <2>2. turns' \in [Present -> Nat] BY <1>10 DEF Stops
  <2>3. last_rescheduled' \in BOOLEAN /\ time_remaining' \in 1 .. Timeslice
    <3>1. CASE Reschedules(reason, executed) /\ scheduler = "round_robin"
      BY <1>10, <3>1 DEF Stops, Reschedules
    <3>2. CASE ~(Reschedules(reason, executed) /\ scheduler = "round_robin")
      BY <1>10, <3>2 DEF Stops, Reschedules
    <3> QED BY <3>1, <3>2
  <2> QED BY <1>10, <2>1, <2>2, <2>3 DEF Stops
<1>11. CASE TimesliceExpired BY <1>10, <1>11 DEF TimesliceExpired
<1>12. Elapsed \subseteq Nat /\ (scheduler # "round_robin" => Elapsed = {0}) BY DEF Elapsed
<1>13. CASE KernelPreemption BY <1>10, <1>12, <1>13 DEF KernelPreemption
<1>14. CASE NoWorkLeft BY <1>10, <1>12, <1>14 DEF NoWorkLeft
<1>16. CASE Stopped BY <1>10, <1>12, <1>16 DEF Stopped
<1>15. CASE Execute
  <2>1. left' \in 0 .. timeslice BY <1>15 DEF Execute
  <2>2. ready' \in [Present -> BOOLEAN] /\ turns' \in [Present -> Nat]
    <3>1. running \in Present BY <1>15 DEF Execute
    <3> QED BY <1>15, <3>1, ReadinessTypes, Zenon DEF Execute
  <2> QED BY <1>15, <2>1, <2>2 DEF Execute
<1> QED BY Zenon, <1>1, <1>2, <1>4, <1>5, <1>6, <1>7, <1>8, <1>9, <1>11, <1>13, <1>14, <1>15, <1>16 DEF Next, Kernel

\* A step that leaves the list as it is.
LEMMA ListKept ==
  ASSUME LoopInv, TypeOK', time_remaining' # 0, pc' = "process" => timeslice' # 0,
         UNCHANGED <<scheduler, processes>>,
         \A p \in Present : turns'[p] = 0 \/ (turns'[p] = turns[p] /\ (ready[p] => ready'[p])),
         pc' = "process" => /\ turns'[running'] = 0
                            /\ scheduler # "priority" => processes[1] = running'
  PROVE  LoopInv'
<1>1. \A p \in Present : Behind(p)' = Behind(p) BY DEF Behind, Before
<1>2. \A p \in Present : Cardinality(Behind(p)) \in Nat BY ListFacts DEF LoopInv
<1>3. ASSUME NEW p \in Present
      PROVE  /\ ~ready'[p] \/ scheduler' = "priority" => turns'[p] = 0
             /\ turns'[p] <= Cardinality(Behind(p))
  <2>1. /\ ~ready[p] \/ scheduler = "priority" => turns[p] = 0
        /\ turns[p] <= Cardinality(Behind(p))
    BY DEF LoopInv
  <2>2. CASE turns'[p] = 0 BY <2>2, <1>2
  <2>3. CASE turns'[p] = turns[p] /\ (ready[p] => ready'[p]) BY <2>1, <2>3
  <2> QED BY <2>2, <2>3
<1>4. \A p \in Present :
        /\ ~ready'[p] \/ scheduler' = "priority" => turns'[p] = 0
        /\ turns'[p] <= Cardinality(Behind(p)')
  BY <1>1, <1>3
<1> QED BY <1>4 DEF LoopInv

\* A step that moves what is before position i to the back: the processes whose
\* count goes on were not moved, and it goes up only for the one that was.
LEMMA ListTurned ==
  ASSUME LoopInv, TypeOK', time_remaining' # 0, pc' = "process" => timeslice' # 0,
         NEW i \in 1 .. Len(processes), processes' = Turned(processes, i), scheduler' # "priority",
         \A p \in Present :
           \/ turns'[p] = 0
           \/ /\ ready'[p] /\ \A j \in 1 .. i - 1 : processes[j] # p
              /\ \/ turns'[p] = turns[p]
                 \/ i = 2 /\ processes[1] \in Present /\ turns'[p] = turns[p] + 1,
         pc' = "process" => turns'[running'] = 0 /\ processes'[1] = running'
  PROVE  LoopInv'
<1>0. TypeOK BY DEF LoopInv
<1>1. processes \in Seq(Slots) /\ i \in 1 .. Len(processes) + 1 BY <1>0, ListFacts
<1>2. Len(processes') = Len(processes) BY <1>1, TurnedIsList
<1>3. Onto(processes', Slots) BY <1>1, TurnedIsOnto DEF LoopInv
<1>4. OneToOne(processes') BY <1>1, TurnedIsInjective DEF LoopInv
<1>5. ASSUME NEW p \in Present, turns'[p] # 0
      PROVE  ready'[p] /\ turns'[p] <= Cardinality(Behind(p)')
  <2>1. /\ ready'[p] /\ \A j \in 1 .. i - 1 : processes[j] # p
        /\ \/ turns'[p] = turns[p]
           \/ i = 2 /\ processes[1] \in Present /\ turns'[p] = turns[p] + 1
    BY <1>5
  <2>2. PICK k \in 1 .. Len(processes) : processes[k] = p BY LoopAssumption DEF LoopInv, Onto
  <2>3. k \in i .. Len(processes)
    <3>1. ~(k \in 1 .. i - 1) BY <2>1, <2>2
    <3> QED BY <3>1
  <2>4. /\ \A q : BeforeIn(processes, p, q) => BeforeIn(processes', p, q)
        /\ \A j \in 1 .. i - 1 : BeforeIn(processes', p, processes[j])
    <3>1. \A j \in 1 .. i - 1 : processes[j] # processes[k] BY <2>1, <2>2
    <3> QED BY <1>1, <2>2, <2>3, <3>1, TurnedBefore
  <2>5. Behind(p) \subseteq Behind(p)' BY Zenon, <2>4 DEF Behind, Before, BeforeIn
  <2>6. /\ IsFiniteSet(Behind(p)') /\ Cardinality(Behind(p)') \in Nat
        /\ IsFiniteSet(Behind(p)) /\ Cardinality(Behind(p)) \in Nat
    <3>1. IsFiniteSet(Present) BY <1>0, ListFacts
    <3>2. Behind(p)' \subseteq Present BY DEF Behind
    <3>3. IsFiniteSet(Behind(p)') BY <3>1, <3>2, FS_Subset
    <3> QED BY <1>0, <3>3, ListFacts, FS_CardinalityType
  <2>7. turns[p] <= Cardinality(Behind(p)) /\ turns[p] \in Nat BY DEF LoopInv, TypeOK
  <2>8. CASE turns'[p] = turns[p]
    BY <2>1, <2>5, <2>6, <2>7, <2>8, FS_Subset
  <2>9. CASE i = 2 /\ processes[1] \in Present /\ turns'[p] = turns[p] + 1
    <3> DEFINE f == processes[1]
    <3>1. f \in Behind(p)' BY <2>4, <2>9 DEF Behind, Before, BeforeIn
    <3>2. f \notin Behind(p)
      <4>1. SUFFICES ASSUME NEW a \in 1 .. Len(processes), NEW b \in 1 .. Len(processes),
                            a < b, processes[b] = processes[1]
                     PROVE  FALSE
        BY DEF Behind, Before
      <4>2. b = 1 BY <4>1 DEF LoopInv, OneToOne
      <4> QED BY <4>1, <4>2
    <3> HIDE DEF f
    <3>3. Cardinality(Behind(p) \cup {f}) = Cardinality(Behind(p)) + 1
      BY Zenon, <2>6, <3>2, FS_AddElement
    <3>4. Cardinality(Behind(p) \cup {f}) <= Cardinality(Behind(p)')
      BY <2>5, <2>6, <3>1, FS_Subset
    <3> QED BY <2>1, <2>6, <2>7, <2>9, <3>3, <3>4
  <2> QED BY <2>1, <2>8, <2>9
<1>6. \A p \in Present : Cardinality(Behind(p)') \in Nat
  <2> TAKE p \in Present
  <2>1. IsFiniteSet(Present) BY <1>0, ListFacts
  <2>2. Behind(p)' \subseteq Present BY DEF Behind
  <2> QED BY <2>1, <2>2, FS_Subset, FS_CardinalityType
<1>7. \A p \in Present :
        /\ ~ready'[p] \/ scheduler' = "priority" => turns'[p] = 0
        /\ turns'[p] <= Cardinality(Behind(p)')
  BY <1>5, <1>6
<1> QED BY <1>3, <1>4, <1>7 DEF LoopInv

\* Every step of the loop and of the processes keeps the invariant.
LEMMA LoopStep == LoopInv /\ [Next]_vars => LoopInv'
<1> SUFFICES ASSUME LoopInv, [Next]_vars PROVE LoopInv' OBVIOUS
<1>1. TypeOK' /\ time_remaining' # 0 /\ (pc' = "process" => timeslice' # 0)
  BY LoopTypes DEF LoopInv
<1>2. TypeOK /\ turns \in [Present -> Nat] /\ ready \in [Present -> BOOLEAN] BY DEF LoopInv, TypeOK
<1>3. CapsuleEffect =>
        \A p \in Present : turns'[p] = 0 \/ (turns'[p] = turns[p] /\ (ready[p] => ready'[p]))
  BY <1>2 DEF CapsuleEffect, Ready, NotReady
<1>4. pc = "process" => /\ turns[running] = 0 /\ running \in Present
                        /\ scheduler # "priority" => processes[1] = running
  BY DEF LoopInv, TypeOK
<1>5. ASSUME UNCHANGED <<scheduler, processes, ready, turns>>,
             pc' = "process" => pc = "process" /\ running' = running
      PROVE  LoopInv'
  BY <1>1, <1>4, <1>5, ListKept
<1>6. CASE UNCHANGED vars BY <1>5, <1>6 DEF vars, sched
<1>7. CASE Interrupt BY <1>5, <1>7 DEF Interrupt, sched
<1>8. CASE ServiceInterrupts
  <2>1. \A p \in Present : turns'[p] = 0 \/ (turns'[p] = turns[p] /\ (ready[p] => ready'[p]))
    BY <1>3, <1>8 DEF ServiceInterrupts
  <2>2. UNCHANGED <<scheduler, processes>> /\ pc' # "process"
    BY <1>8 DEF ServiceInterrupts, sched
  <2> QED BY <1>1, <2>1, <2>2, ListKept
<1>9. ASSUME NEW more \in BOOLEAN, ServiceDeferred(more) PROVE LoopInv'
  <2>1. UNCHANGED <<scheduler, processes>> /\ pc' # "process" /\ CapsuleEffect
    BY <1>9 DEF ServiceDeferred, sched
  <2> QED BY <1>1, <1>3, <2>1, ListKept
<1>10. CASE KernelWorkDone BY <1>5, <1>10 DEF KernelWorkDone, sched
<1>11. CASE RunProcess
  <2>1. PICK i \in 1 .. Len(processes) :
          /\ IsReady(processes[i])
          /\ \A j \in 1 .. i - 1 : ~IsReady(processes[j])
          /\ processes' = IF scheduler = "priority" THEN processes ELSE From(i)
          /\ running' = processes[i]
          /\ turns' = [turns EXCEPT ![processes[i]] = 0]
    BY Zenon, <1>11 DEF RunProcess
  <2>2. scheduler' = scheduler /\ ready' = ready BY <1>11 DEF RunProcess
  <2>3. turns'[running'] = 0 /\ \A p \in Present : turns'[p] = 0 \/ turns'[p] = turns[p]
    BY <1>2, <2>1 DEF IsReady
  <2>4. CASE scheduler = "priority"
    BY <1>1, <2>1, <2>2, <2>3, <2>4, ListKept
  <2>5. CASE scheduler # "priority"
    <3>1. processes' = Turned(processes, i) BY <2>1, <2>5 DEF From, Turned
    <3>2. processes'[1] = running'
      <4>1. processes \in Seq(Slots) /\ i \in 1 .. Len(processes) + 1 /\ Len(processes) \in Nat
        BY <1>2, ListFacts
      <4>2. Turned(processes, i)[1] = processes[i]
        <5>1. 1 \in 1 .. Len(processes) /\ 1 <= Len(processes) - i + 1 /\ i + 1 - 1 = i BY <4>1
        <5> QED BY <4>1, <5>1, Rotation DEF Turned
      <4> QED BY <2>1, <3>1, <4>2
    <3>3. ASSUME NEW p \in Present, turns'[p] # 0
          PROVE  /\ ready'[p] /\ \A j \in 1 .. i - 1 : processes[j] # p
                 /\ turns'[p] = turns[p]
      <4>1. turns'[p] = turns[p] /\ turns[p] # 0 BY <2>3, <3>3
      <4>2. ready[p] BY <4>1 DEF LoopInv
      <4> QED BY <2>1, <2>2, <4>1, <4>2 DEF IsReady
    <3> QED BY <1>1, <2>2, <2>3, <2>5, <3>1, <3>2, <3>3, ListTurned
  <2> QED BY <2>4, <2>5
<1>12. CASE TrySleep BY <1>5, <1>12 DEF TrySleep, sched
<1>13. CASE Sleep BY <1>5, <1>13 DEF Sleep, sched
<1>14. ASSUME NEW reason, NEW executed, pc = "process", Stops(reason, executed) PROVE LoopInv'
  <2>1. pc' # "process" /\ scheduler' = scheduler /\ ready' = ready BY <1>14 DEF Stops
  <2>2. CASE scheduler = "priority" \/ Reschedules(reason, executed)
    <3>1. UNCHANGED <<processes, turns>> BY <1>14, <2>2 DEF Stops, Reschedules
    <3> QED BY <1>1, <2>1, <3>1, ListKept
  <2>3. CASE ~(scheduler = "priority" \/ Reschedules(reason, executed))
    <3>1. /\ processes' = Turned(processes, 2)
          /\ turns' = [p \in Present |-> IF p # running /\ ready[p] /\ turns[p] < MaxTurns
                                         THEN turns[p] + 1 ELSE turns[p]]
      BY <1>14, <2>3 DEF Stops, ToBack, From, Turned
    <3>2. processes[1] = running /\ running \in Present /\ turns[running] = 0 BY <1>4, <1>14, <2>3
    <3>3. ASSUME NEW p \in Present, turns'[p] # 0
          PROVE  ready'[p] /\ p # running /\ (turns'[p] = turns[p] \/ turns'[p] = turns[p] + 1)
      <4>1. ~ready[p] => turns[p] = 0 BY DEF LoopInv
      <4> QED BY <1>2, <2>1, <3>1, <3>2, <3>3, <4>1
    <3>4. CASE Len(processes) = 1
      <4>1. processes \in Seq(Slots) BY <1>2, ListFacts
      <4>2. \A p \in Present : p = running
        BY <3>2, <3>4, LoopAssumption DEF LoopInv, Onto
      <4>3. \A p \in Present : turns'[p] = 0 BY <3>3, <4>2
      <4>4. processes' = processes
        <5>1. SubSeq(processes, 2, 1) = <<>> /\ SubSeq(processes, 1, 1) = processes BY <3>4, <4>1
        <5> QED BY <3>1, <3>4, <4>1, <5>1 DEF Turned
      <4> QED BY <1>1, <2>1, <4>3, <4>4, ListKept
    <3>5. CASE Len(processes) # 1
      <4>1. 2 \in 1 .. Len(processes)
        <5>1. Len(processes) \in Nat BY <1>2, ListFacts
        <5>2. PICK k \in 1 .. Len(processes) : processes[k] = running
          BY <3>2, LoopAssumption DEF LoopInv, Onto
        <5> DEFINE n == Len(processes)
        <5> HIDE DEF n
        <5>3. n \in Nat /\ k \in 1 .. n /\ n # 1 BY <3>5, <5>1 DEF n
        <5>4. 2 \in 1 .. n BY <5>3
        <5> QED BY <5>4 DEF n
      <4>2. \A j \in 1 .. 2 - 1 : j = 1 OBVIOUS
      <4> QED BY <1>1, <2>1, <2>3, <3>1, <3>2, <3>3, <4>1, <4>2, ListTurned
    <3> QED BY <3>4, <3>5
  <2> QED BY <2>2, <2>3
<1>15. CASE TimesliceExpired BY <1>14, <1>15 DEF TimesliceExpired
<1>16. CASE KernelPreemption BY <1>14, <1>16 DEF KernelPreemption
<1>17. CASE NoWorkLeft BY <1>14, <1>17 DEF NoWorkLeft
<1>19. CASE Stopped BY <1>14, <1>19 DEF Stopped
<1>18. CASE Execute
  <2>1. UNCHANGED <<scheduler, processes, pc, running>> BY <1>18 DEF Execute, sched
  <2>2. \A p \in Present : turns'[p] = 0 \/ (turns'[p] = turns[p] /\ (ready[p] => ready'[p]))
    BY <1>2, <1>4, <1>18 DEF Execute, Ready, NotReady
  <2>3. turns'[running'] = 0 BY <1>4, <1>18, <2>1, <2>2 DEF Execute
  <2> QED BY <1>1, <1>4, <2>1, <2>2, <2>3, ListKept
<1> QED BY <1>6, <1>7, <1>8, <1>9, <1>10, <1>11, <1>12, <1>13, <1>15, <1>16, <1>17, <1>18, <1>19 DEF Next, Kernel

\* The invariant holds when the loop starts.
LEMMA LoopInit == Init => LoopInv
<1> SUFFICES ASSUME Init PROVE LoopInv OBVIOUS
<1> DEFINE n == Cardinality(Slots)
<1>1. n \in Nat BY FS_CardinalityType, LoopAssumption
<1>2. TypeOK
  <2>1. ready \in [Present -> BOOLEAN] BY DEF Init
  <2>2. turns \in [Present -> Nat] BY DEF Init
  <2>3. (pc = "process") = (running # NoSlot) BY DEF Init
  <2>4. Timeslice \in 0 .. Timeslice BY LoopAssumption
  <2> QED BY Zenon, <2>1, <2>2, <2>3, <2>4 DEF Init, TypeOK
<1>3. Len(processes) = n /\ processes \in Seq(Slots) BY <1>2, ListFacts
<1>4. \A s \in Slots : \E i \in 1 .. Len(processes) : processes[i] = s BY <1>3 DEF Init
<1>5. \A i, j \in 1 .. Len(processes) : processes[i] = processes[j] => i = j
  <2>1. processes \in Surjection(1 .. n, Slots) BY <1>3, <1>4 DEF Init, Surjection
  <2>2. IsFiniteSet(1 .. n) /\ Cardinality(1 .. n) = n BY <1>1, FS_Interval
  <2>3. processes \in Injection(1 .. n, Slots)
    BY <2>1, <2>2, LoopAssumption, FS_SurjSameCardinalityImpliesInj
  <2> QED BY <1>3, <2>3 DEF Injection, IsInjective
<1>6. \A p \in Present : Cardinality(Behind(p)) \in Nat BY <1>2, ListFacts
<1> QED BY <1>2, <1>4, <1>5, <1>6, LoopAssumption DEF Init, LoopInv, Onto, OneToOne

\* LoopInv is an invariant of the main loop.
THEOREM LoopInvariance == Spec => []LoopInv
  BY LoopInit, LoopStep, PTL DEF Spec

\* Whatever the interrupts and the processes do, no process is given a timeslice
\* of 0, and none runs for longer than it was given (RoundRobinSched::next).
THEOREM TimesliceIsNonzero == Spec => []TimesliceNonzero
<1>1. LoopInv => TimesliceNonzero BY DEF LoopInv, TimesliceNonzero
<1> QED BY <1>1, LoopInvariance, PTL

\* With any number of processes, a process that stays ready waits for at most one
\* turn of each other process, under round robin and under the cooperative
\* scheduler.
THEOREM TurnsAreFair == Spec => []FairTurns
<1>1. LoopInv => FairTurns
  <2> SUFFICES ASSUME LoopInv, NEW p \in Present PROVE turns[p] < MaxTurns BY DEF FairTurns
  <2>1. TypeOK BY DEF LoopInv
  <2>2. turns[p] <= Cardinality(Behind(p)) /\ turns[p] \in Nat BY DEF LoopInv, TypeOK
  <2>3. p \notin Behind(p) BY DEF LoopInv, Behind, Before, OneToOne
  <2>4. IsFiniteSet(Present) /\ Cardinality(Present) \in Nat /\ Cardinality(Behind(p)) \in Nat
    BY <2>1, ListFacts
  <2>5. Behind(p) \subseteq Present /\ Behind(p) # Present BY <2>3 DEF Behind
  <2>6. Cardinality(Behind(p)) < Cardinality(Present) BY <2>4, <2>5, FS_Subset
  <2> QED BY <2>2, <2>4, <2>6 DEF MaxTurns
<1> QED BY <1>1, LoopInvariance, PTL

-----------------------------------------------------------------------------
(* Deferred calls *)

\* While every index fits, the bits set are the calls asked for; once the setup
\* is verified every call fits and has a handler.
CallsInv ==
  /\ CallsTypeOK
  /\ DEFCALLS \subseteq Created
  /\ CTR < DEFCALLS_LEN => BITMASK = asked
  /\ stage = "loop" => CTR < DEFCALLS_LEN /\ DEFCALLS = Created

\* The count of verify_setup is enough: as many handlers as calls, at indices
\* of calls, is a handler for every call.
LEMMA CountSuffices ==
  ASSUME CallsInv, SetupOK
  PROVE  DEFCALLS = Created
<1>1. IsFiniteSet(1 .. CTR) /\ Cardinality(1 .. CTR) = CTR
  BY FS_Interval DEF CallsInv, CallsTypeOK
<1>2. Cardinality(DEFCALLS) = CTR BY DEF SetupOK
<1> QED BY Zenon, <1>1, <1>2, FS_Subset DEF CallsInv, Created

\* Type correctness and the absence of lost calls, for every behaviour.
THEOREM CallsInvariance == CallsSpec => []CallsInv
<1>1. CallsInit => CallsInv BY DeferredAssumption DEF CallsInit, CallsInv, CallsTypeOK, Created
<1>2. CallsInv /\ [CallsNext]_callvars => CallsInv'
  <2> SUFFICES ASSUME CallsInv, [CallsNext]_callvars PROVE CallsInv' OBVIOUS
  <2> USE DeferredAssumption
  <2>1. CASE new BY <2>1 DEF new, CallsInv, CallsTypeOK, Created
  <2>2. ASSUME NEW i \in Created, register(i) PROVE CallsInv'
    <3>1. DEFCALLS' \subseteq 1 .. DEFCALLS_LEN - 1 /\ DEFCALLS' \subseteq Created
      BY <2>2 DEF register, CallsInv, CallsTypeOK, Created
    <3> QED BY <2>2, <3>1 DEF register, CallsInv, CallsTypeOK, Created
  <2>3. CASE verify_setup
    <3>1. SetupOK => CTR < DEFCALLS_LEN /\ DEFCALLS = Created BY CountSuffices DEF SetupOK
    <3> QED BY <2>3, <3>1 DEF verify_setup, CallsInv, CallsTypeOK, Created
  <2>4. ASSUME NEW i \in Created, set(i) PROVE CallsInv'
    <3>1. i % DEFCALLS_LEN \in 0 .. DEFCALLS_LEN - 1 BY DEF CallsInv, CallsTypeOK, Created
    <3>2. CTR < DEFCALLS_LEN => i % DEFCALLS_LEN = i BY DEF CallsInv, CallsTypeOK, Created
    <3>3. BITMASK' \subseteq 0 .. DEFCALLS_LEN - 1 /\ asked' \subseteq Created
      BY Zenon, <2>4, <3>1 DEF set, CallsInv, CallsTypeOK
    <3>4. CTR < DEFCALLS_LEN => BITMASK' = asked' BY Zenon, <2>4, <3>2 DEF set, CallsInv, CallsTypeOK, Created
    <3> QED BY <2>4, <3>3, <3>4 DEF set, CallsInv, CallsTypeOK, Created
  <2>5. ASSUME NEW i \in BITMASK, NEW again \in SUBSET Created, service_next_pending(i, again)
        PROVE  CallsInv'
    <3>1. CTR < DEFCALLS_LEN /\ DEFCALLS = Created /\ BITMASK = asked BY <2>5 DEF service_next_pending, CallsInv
    <3>2. again \subseteq 0 .. DEFCALLS_LEN - 1 BY <3>1 DEF CallsInv, CallsTypeOK, Created
    <3>3. i \in DEFCALLS BY <3>1 DEF CallsInv, CallsTypeOK
    <3>4. BITMASK' = asked' BY <2>5, <3>1, <3>3 DEF service_next_pending
    <3> QED BY <2>5, <3>1, <3>2, <3>4 DEF service_next_pending, CallsInv, CallsTypeOK, Created
  <2>6. CASE UNCHANGED callvars BY <2>6 DEF callvars, CallsInv, CallsTypeOK, Created
  <2> QED BY <2>1, <2>2, <2>3, <2>4, <2>5, <2>6 DEF CallsNext
<1> QED BY <1>1, <1>2, PTL DEF CallsSpec

\* No deferred call is lost.
THEOREM NoneLost == CallsSpec => []NoCallLost
<1>1. CallsInv => NoCallLost BY DEF CallsInv, NoCallLost, CallsTypeOK
<1> QED BY <1>1, CallsInvariance, PTL

-----------------------------------------------------------------------------
(* Credentials *)

\* A process gets its verdict from what its own footers say or from the policy's
\* default, whatever order footers of all kinds are found in: approval is never
\* another process's, although the footer index is carried over to the next.
THEOREM VerdictsAreGrounded == CheckerSpec => []VerdictsGrounded
<1> USE CheckerAssumption DEF Positions, CheckerTypeOK, VerdictsGrounded
<1>1. CheckerInit => VerdictsGrounded BY DEF CheckerInit
<1>2. VerdictsGrounded /\ [CheckerNext]_checkervars => VerdictsGrounded'
  <2> SUFFICES ASSUME VerdictsGrounded, [CheckerNext]_checkervars
               PROVE  VerdictsGrounded'
    OBVIOUS
  <2>1. CASE SkipSlot BY <2>1 DEF SkipSlot, Has
  <2>2. CASE Finish BY <2>2 DEF Finish, Has
  <2>3. CASE StartCheck
    <3>1. process \in 0 .. Length - 1 /\ footers[process] \in Seq(Kinds)
      BY <2>3 DEF StartCheck, Looks
    <3>2. footer < Len(footers[process]) /\ footers[process][footer + 1] \in Checked
      BY <2>3, <3>1 DEF StartCheck, Looks, check_footer
    <3> QED BY <2>3, <3>1, <3>2 DEF StartCheck, Looks, Has
  <2>4. CASE ApplyDefault
    BY <2>4 DEF ApplyDefault, Looks, Default, Has
  <2>5. CASE SkipProcess BY <2>5 DEF SkipProcess, Looks, Has
  <2>6. CASE SkipFooter BY <2>6 DEF SkipFooter, Looks, Has
  <2>7. CASE GiveUp BY <2>7 DEF GiveUp, Looks, Has
  <2>8. CASE check_done
    <3> DEFINE result == footers[process][footer + 1]
    <3>1. /\ process \in 0 .. Length - 1 /\ footers[process] \in Seq(Kinds)
          /\ footer + 1 \in 1 .. Len(footers[process])
      BY <2>8 DEF check_done
    <3>2. Has(process, result) BY <3>1 DEF Has
    <3>3. \A s, k : Has(s, k)' <=> Has(s, k) BY <2>8 DEF check_done, Has
    <3>4. CASE result = "accept" /\ Decide("CredentialsApproved")
      BY <2>8, <3>1, <3>2, <3>3, <3>4 DEF check_done, Decide
    <3>5. CASE result = "reject" /\ Decide("CredentialsFailed")
      BY <2>8, <3>1, <3>2, <3>3, <3>5 DEF check_done, Decide
    <3>6. CASE result = "pass" /\ footer' = footer + 1 /\ UNCHANGED <<process, verdict>>
      BY <2>8, <3>1, <3>3, <3>6 DEF check_done
    <3> QED BY <2>8, <3>4, <3>5, <3>6 DEF check_done
  <2>9. CASE UNCHANGED checkervars BY <2>9 DEF checkervars, Has
  <2> QED BY Zenon, <2>1, <2>2, <2>3, <2>4, <2>5, <2>6, <2>7, <2>8, <2>9 DEF CheckerNext
<1> QED BY <1>1, <1>2, PTL DEF CheckerSpec
=============================================================================
