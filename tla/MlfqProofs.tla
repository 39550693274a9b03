----------------------------- MODULE MlfqProofs -----------------------------
(***************************************************************************)
(* Proofs about MLFQ, for any set of processes.                            *)
(***************************************************************************)
EXTENDS MLFQ, FiniteSetTheorems, TLAPS

-----------------------------------------------------------------------------
(* Queues *)

\* What moving the front of a queue to its back does to positions.
LEMMA Rotation ==
  ASSUME NEW S, NEW s \in Seq(S), NEW i \in 1 .. Len(s) + 1
  PROVE  LET r == SubSeq(s, i, Len(s)) \o SubSeq(s, 1, i - 1)
             n == Len(s) - i + 1
         IN  /\ r \in Seq(S) /\ Len(r) = Len(s)
             /\ \A k \in 1 .. Len(s) : r[k] = IF k <= n THEN s[i + k - 1] ELSE s[k - n]
             /\ \A k \in 1 .. Len(s) : s[k] = IF k < i THEN r[k + n] ELSE r[k - i + 1]
<1> DEFINE a == SubSeq(s, i, Len(s))
           b == SubSeq(s, 1, i - 1)
<1>1. /\ a \in Seq(S) /\ Len(a) = Len(s) - i + 1
      /\ \A k \in 1 .. Len(a) : a[k] = s[i + k - 1]
  OBVIOUS
<1>2. /\ b \in Seq(S) /\ Len(b) = i - 1
      /\ \A k \in 1 .. Len(b) : b[k] = s[k]
  OBVIOUS
<1> HIDE DEF a, b
<1> DEFINE r == a \o b
<1>3. /\ r \in Seq(S) /\ Len(r) = Len(s)
      /\ \A k \in 1 .. Len(s) : r[k] = IF k <= Len(a) THEN a[k] ELSE b[k - Len(a)]
  <2>1. a \in Seq(S) /\ b \in Seq(S) BY <1>1, <1>2
  <2>2. /\ r \in Seq(S) /\ Len(r) = Len(a) + Len(b)
        /\ \A k \in 1 .. Len(a) + Len(b) : r[k] = IF k <= Len(a) THEN a[k] ELSE b[k - Len(a)]
    BY ONLY <2>1
  <2>3. Len(a) + Len(b) = Len(s) BY <1>1, <1>2
  <2> QED BY <2>2, <2>3
<1> HIDE DEF r
<1>4. \A k \in 1 .. Len(s) : r[k] = IF k <= Len(a) THEN s[i + k - 1] ELSE s[k - Len(a)]
  <2> TAKE k \in 1 .. Len(s)
  <2>1. CASE k <= Len(a)
    <3>1. k \in 1 .. Len(a) BY <1>1, <2>1
    <3> QED BY Zenon, <1>1, <1>3, <2>1, <3>1
  <2>2. CASE ~(k <= Len(a))
    <3>1. k - Len(a) \in 1 .. Len(b) BY <1>1, <1>2, <2>2
    <3> QED BY <1>2, <1>3, <2>2, <3>1
  <2> QED BY <2>1, <2>2
<1>5. \A k \in 1 .. Len(s) : s[k] = IF k < i THEN r[k + Len(a)] ELSE r[k - i + 1]
  <2> TAKE k \in 1 .. Len(s)
  <2>1. CASE k < i
    <3>1. k + Len(a) \in 1 .. Len(s) /\ ~(k + Len(a) <= Len(a)) /\ (k + Len(a)) - Len(a) = k
      BY <1>1, <2>1
    <3> QED BY <1>4, <2>1, <3>1
  <2>2. CASE ~(k < i)
    <3>1. k - i + 1 \in 1 .. Len(s) /\ k - i + 1 <= Len(a) /\ i + (k - i + 1) - 1 = k
      BY <1>1, <2>2
    <3> QED BY Zenon, <1>4, <2>2, <3>1
  <2> QED BY <2>1, <2>2
<1> QED BY Zenon, <1>1, <1>3, <1>4, <1>5 DEF a, b, r

QueuesOf(S) == [0 .. 2 -> Seq(S)]

\* The element e is in place k of queue q.
Has(ps, q, k, e) == q \in 0 .. 2 /\ k \in 1 .. Len(ps[q]) /\ ps[q][k] = e

\* No element is in two places of the queues, and every one of S is in one.
Apart(ps) == \A a, i, b, j, e : Has(ps, a, i, e) /\ Has(ps, b, j, e) => a = b /\ i = j
Covers(ps, S) == \A e \in S : \E a, i : Has(ps, a, i, e)

\* x is before e in a queue.
AheadIn(ps, x, e) == \E a, i, j : Has(ps, a, i, e) /\ Has(ps, a, j, x) /\ j < i

\* The head of queue q goes to the tail of queue r.
MoveHead(ps, q, r) == [[ps EXCEPT ![q] = Tail(@)] EXCEPT ![r] = Append(@, Head(ps[q]))]

\* The places of the queues ns after the move, and where their elements were.
One(b) == IF b THEN 1 ELSE 0
HeadMoved(ps, ns, q, r) ==
  \A s \in 0 .. 2 :
    /\ Len(ns[s]) = Len(ps[s]) + One(s = r) - One(s = q)
    /\ \A k \in 1 .. Len(ns[s]) :
         ns[s][k] = IF s = r /\ k = Len(ns[s]) THEN ps[q][1] ELSE ps[s][k + One(s = q)]

\* Where every process is after the head of q went to the end of r.
LEMMA MovedPlaces ==
  ASSUME NEW S, NEW ps \in QueuesOf(S), NEW q \in 0 .. 2, NEW r \in 0 .. 2, ps[q] # <<>>
  PROVE  /\ MoveHead(ps, q, r) \in QueuesOf(S) /\ Len(ps[q]) \in Nat \ {0} /\ Head(ps[q]) = ps[q][1]
         /\ HeadMoved(ps, MoveHead(ps, q, r), q, r)
<1> DEFINE ns == MoveHead(ps, q, r)
           h == Head(ps[q])
           t == Tail(ps[q])
<1> USE DEF QueuesOf
<1>1. /\ ps[q] \in Seq(S) /\ Len(ps[q]) \in Nat \ {0} /\ h = ps[q][1] /\ h \in S
      /\ t \in Seq(S) /\ Len(t) = Len(ps[q]) - 1
      /\ \A k \in 1 .. Len(ps[q]) - 1 : t[k] = ps[q][k + 1]
  <2>1. ps[q] \in Seq(S) OBVIOUS
  <2> QED BY <2>1
<1>2. \A s \in 0 .. 2 : ps[s] \in Seq(S) OBVIOUS
<1>3. \A x \in Seq(S) : /\ Append(x, h) \in Seq(S) /\ Len(Append(x, h)) = Len(x) + 1
                        /\ \A k \in 1 .. Len(x) + 1 : Append(x, h)[k] = IF k = Len(x) + 1 THEN h ELSE x[k]
  BY <1>1
<1> HIDE DEF h, t, QueuesOf
<1>4. ns = [s \in 0 .. 2 |-> IF s = r THEN Append(IF s = q THEN t ELSE ps[s], h)
                             ELSE IF s = q THEN t ELSE ps[s]]
  BY Zenon DEF MoveHead, h, t, QueuesOf
<1> HIDE DEF ns
<1>5. ns \in QueuesOf(S) BY Zenon, <1>1, <1>2, <1>3, <1>4 DEF QueuesOf
<1>6. ASSUME NEW s \in 0 .. 2
      PROVE  /\ Len(ns[s]) = Len(ps[s]) + One(s = r) - One(s = q)
             /\ \A k \in 1 .. Len(ns[s]) :
                  ns[s][k] = IF s = r /\ k = Len(ns[s]) THEN ps[q][1] ELSE ps[s][k + One(s = q)]
  <2> DEFINE x == IF s = q THEN t ELSE ps[s]
             m == Len(ps[s])
             d == One(s = q)
  <2>1. m \in Nat /\ d \in 0 .. 1 /\ x \in Seq(S) BY <1>1, <1>2 DEF One
  <2>2. Len(x) = m - d /\ \A k \in 1 .. Len(x) : x[k] = ps[s][k + d]
    <3>1. CASE s = q BY <1>1, <3>1 DEF One
    <3>2. CASE s # q
      <4>1. d = 0 /\ x = ps[s] BY <3>2 DEF One
      <4>2. \A k \in 1 .. m : k + 0 = k BY <2>1
      <4> QED BY <2>1, <4>1, <4>2
    <3> QED BY <3>1, <3>2
  <2>3. ns[s] = IF s = r THEN Append(x, h) ELSE x BY Zenon, <1>4
  <2> HIDE DEF x, d
  <2>4. CASE s = r
    <3>1. Len(ns[s]) = Len(x) + 1 /\ \A k \in 1 .. Len(x) + 1 : ns[s][k] = IF k = Len(x) + 1 THEN h ELSE x[k]
      BY <1>3, <2>1, <2>3, <2>4
    <3>2. ASSUME NEW k \in 1 .. Len(ns[s])
          PROVE  ns[s][k] = IF k = Len(ns[s]) THEN ps[q][1] ELSE ps[s][k + d]
      <4>1. CASE k = Len(x) + 1 BY <1>1, <3>1, <4>1
      <4>2. CASE k # Len(x) + 1
        <5>1. k \in 1 .. Len(x) BY <2>1, <3>1, <4>2
        <5>2. ns[s][k] = x[k] BY <3>1, <4>2
        <5> QED BY <2>2, <3>1, <4>2, <5>1, <5>2
      <4> QED BY <4>1, <4>2
    <3>3. Len(ns[s]) = m + 1 - d BY <2>1, <2>2, <3>1
    <3> QED BY <2>4, <3>2, <3>3 DEF d, One
  <2>5. CASE s # r
    <3>0. ns[s] = x BY <2>3, <2>5
    <3>1. Len(ns[s]) = m + 0 - d
      <4> HIDE DEF m
      <4>1. m - d = m + 0 - d BY <2>1
      <4> QED BY <2>2, <3>0, <4>1
    <3>2. \A k \in 1 .. Len(ns[s]) : ns[s][k] = ps[s][k + d] BY <2>2, <2>3, <2>5
    <3> QED BY Zenon, <2>5, <3>1, <3>2 DEF d, One
  <2> QED BY <2>4, <2>5
<1>7. HeadMoved(ps, ns, q, r) BY Zenon, <1>6 DEF HeadMoved
<1> QED BY <1>1, <1>5, <1>7 DEF ns, h

\* The same, of the elements: where the one in a place was, and where it goes.
HeadTaken(ps, ns, q, r, n) ==
  /\ \A a, i, e : Has(ns, a, i, e) =>
       /\ i \in Nat \ {0} /\ (a = r => i <= n)
       /\ IF a = r /\ i = n THEN Has(ps, q, 1, e) ELSE Has(ps, a, i + One(a = q), e)
  /\ \A a, i, e : Has(ps, a, i, e) => \E b, j : Has(ns, b, j, e)

\* The same in terms of who is where: one process left a head for an end.
LEMMA MovedElements ==
  ASSUME NEW S, NEW ps \in QueuesOf(S), NEW ns \in QueuesOf(S), NEW q \in 0 .. 2, NEW r \in 0 .. 2,
         Len(ps[q]) \in Nat \ {0}, HeadMoved(ps, ns, q, r)
  PROVE  HeadTaken(ps, ns, q, r, Len(ns[r]))
<1>1. ASSUME NEW s, NEW k, NEW e, Has(ns, s, k, e)
      PROVE  /\ k \in Nat \ {0} /\ (s = r => k <= Len(ns[r]))
             /\ IF s = r /\ k = Len(ns[r]) THEN Has(ps, q, 1, e) ELSE Has(ps, s, k + One(s = q), e)
  <2> DEFINE n == Len(ns[s])
             m == Len(ps[s])
             d == One(s = q)
             c == One(s = r)
  <2>1. s \in 0 .. 2 /\ k \in 1 .. n /\ ns[s][k] = e BY <1>1 DEF Has
  <2>2. n \in Nat /\ m \in Nat BY <2>1 DEF QueuesOf
  <2>3. d \in 0 .. 1 /\ c \in 0 .. 1 /\ (s = r <=> c = 1) BY DEF One
  <2>4. /\ n = m + c - d
        /\ ns[s][k] = IF s = r /\ k = n THEN ps[q][1] ELSE ps[s][k + d]
    BY Zenon, <2>1 DEF HeadMoved
  <2>5. CASE s = r /\ k = n
    <3>1. 1 \in 1 .. Len(ps[q]) /\ ps[q][1] = e BY <2>1, <2>4, <2>5
    <3> QED BY <2>1, <2>2, <2>5, <3>1 DEF Has
  <2>6. CASE ~(s = r /\ k = n)
    <3> HIDE DEF n, m, d, c
    <3>1. k + d \in 1 .. m BY <2>1, <2>2, <2>3, <2>4, <2>6
    <3>2. ps[s][k + d] = e BY <2>1, <2>4, <2>6
    <3>3. Has(ps, s, k + d, e) BY <2>1, <3>1, <3>2 DEF Has, m
    <3>4. k \in Nat \ {0} /\ k <= n BY <2>1, <2>2
    <3> QED BY <2>6, <3>3, <3>4 DEF n, d
  <2> QED BY <2>5, <2>6
<1>2. ASSUME NEW s, NEW k, NEW e, Has(ps, s, k, e)
      PROVE  \E b, j : Has(ns, b, j, e)
  <2>0. s \in 0 .. 2 /\ k \in 1 .. Len(ps[s]) /\ ps[s][k] = e BY <1>2 DEF Has
  <2>1. CASE s = q /\ k = 1
    <3> DEFINE n == Len(ns[r])
               m == Len(ps[r])
               d == One(r = q)
    <3>1. n \in Nat /\ m \in Nat BY DEF QueuesOf
    <3>2. d \in 0 .. 1 /\ (d = 1 <=> r = q) BY DEF One
    <3>3. n = m + 1 - d /\ \A i \in 1 .. n : i = n => ns[r][i] = ps[q][1] BY Zenon DEF HeadMoved, One
    <3>4. r = q => m >= 1 OBVIOUS
    <3> HIDE DEF n, m, d
    <3>5. n \in 1 .. n BY <3>1, <3>2, <3>3, <3>4
    <3>6. ns[r][n] = e BY <2>0, <2>1, <3>3, <3>5
    <3>7. Has(ns, r, n, e) BY <3>5, <3>6 DEF Has, n
    <3> QED BY <3>7
  <2>2. CASE ~(s = q /\ k = 1)
    <3> DEFINE n == Len(ns[s])
               m == Len(ps[s])
               d == One(s = q)
               c == One(s = r)
    <3>1. n \in Nat /\ m \in Nat /\ k \in 1 .. m BY <2>0 DEF QueuesOf
    <3>2. d \in 0 .. 1 /\ c \in 0 .. 1 /\ (s = r <=> c = 1) /\ (d = 1 <=> s = q) BY DEF One
    <3>3. n = m + c - d /\ \A i \in 1 .. n : ~(s = r /\ i = n) => ns[s][i] = ps[s][i + d]
      BY Zenon, <2>0 DEF HeadMoved
    <3> HIDE DEF n, m, d, c
    <3>4. k - d \in 1 .. n /\ ~(s = r /\ k - d = n) /\ (k - d) + d = k BY <2>2, <3>1, <3>2, <3>3
    <3>5. ns[s][k - d] = e BY <2>0, <3>3, <3>4
    <3>6. Has(ns, s, k - d, e) BY <2>0, <3>4, <3>5 DEF Has, n
    <3> QED BY <3>6
  <2> QED BY <2>1, <2>2
<1> QED BY <1>1, <1>2 DEF HeadTaken

\* A head that goes to an end keeps every process in exactly one place.
LEMMA TakenKeeps ==
  ASSUME NEW ps, NEW ns, NEW q, NEW r, NEW n, HeadTaken(ps, ns, q, r, n)
  PROVE  /\ Apart(ps) => Apart(ns)
         /\ \A T : Covers(ps, T) => Covers(ns, T)
<1>1. ASSUME Apart(ps), NEW a, NEW i, NEW b, NEW j, NEW e, Has(ns, a, i, e), Has(ns, b, j, e)
      PROVE  a = b /\ i = j
  <2>1. /\ i \in Nat \ {0} /\ j \in Nat \ {0}
        /\ IF a = r /\ i = n THEN Has(ps, q, 1, e) ELSE Has(ps, a, i + One(a = q), e)
        /\ IF b = r /\ j = n THEN Has(ps, q, 1, e) ELSE Has(ps, b, j + One(b = q), e)
    BY <1>1 DEF HeadTaken
  <2>2. CASE a = r /\ i = n /\ b = r /\ j = n BY <2>2
  <2>3. CASE a = r /\ i = n /\ ~(b = r /\ j = n)
    <3>1. q = b /\ 1 = j + One(b = q) BY <1>1, <2>1, <2>3 DEF Apart
    <3> QED BY <2>1, <3>1 DEF One
  <2>4. CASE ~(a = r /\ i = n) /\ b = r /\ j = n
    <3>1. q = a /\ 1 = i + One(a = q) BY <1>1, <2>1, <2>4 DEF Apart
    <3> QED BY <2>1, <3>1 DEF One
  <2>5. CASE ~(a = r /\ i = n) /\ ~(b = r /\ j = n)
    <3>1. a = b /\ i + One(a = q) = j + One(b = q) BY <1>1, <2>1, <2>5 DEF Apart
    <3> QED BY <2>1, <3>1 DEF One
  <2> QED BY <2>2, <2>3, <2>4, <2>5
<1>2. \A T : Covers(ps, T) => Covers(ns, T) BY DEF Covers, HeadTaken
<1> QED BY <1>1, <1>2 DEF Apart

\* Nobody gets in front of those that were not moved.
LEMMA TakenAhead ==
  ASSUME NEW ps, NEW ns, NEW q, NEW r, NEW n, HeadTaken(ps, ns, q, r, n),
         NEW e, ~Has(ps, q, 1, e), NEW x, AheadIn(ns, x, e)
  PROVE  AheadIn(ps, x, e)
<1>1. PICK a, i, j : Has(ns, a, i, e) /\ Has(ns, a, j, x) /\ j < i BY DEF AheadIn
<1>2. /\ i \in Nat \ {0} /\ j \in Nat \ {0} /\ (a = r => i <= n)
      /\ IF a = r /\ i = n THEN Has(ps, q, 1, e) ELSE Has(ps, a, i + One(a = q), e)
      /\ IF a = r /\ j = n THEN Has(ps, q, 1, x) ELSE Has(ps, a, j + One(a = q), x)
  BY <1>1 DEF HeadTaken
<1>3. Has(ps, a, i + One(a = q), e) BY <1>2
<1>4. ~(a = r /\ j = n) BY <1>1, <1>2
<1>5. Has(ps, a, j + One(a = q), x) BY <1>2, <1>4
<1>6. j + One(a = q) < i + One(a = q) BY <1>1, <1>2 DEF One
<1> QED BY <1>3, <1>5, <1>6 DEF AheadIn

\* What is before place p of queue q goes to its tail.
QueueTurned(ps, ns, q, p, n) ==
  /\ p \in Nat \ {0} /\ n \in Nat
  /\ \A a, i, e : Has(ns, a, i, e) =>
       /\ i \in Nat \ {0}
       /\ IF a # q THEN Has(ps, a, i, e)
          ELSE IF i <= n THEN Has(ps, a, p + i - 1, e) ELSE Has(ps, a, i - n, e) /\ i - n < p
  /\ \A a, i, e : Has(ps, a, i, e) => \E j : Has(ns, a, j, e)

\* Who is where after next() has turned a queue to put its p-th process first.
LEMMA TurnedElements ==
  ASSUME NEW S, NEW ps \in QueuesOf(S), NEW q \in 0 .. 2, NEW p \in 1 .. Len(ps[q])
  PROVE  LET ns == [ps EXCEPT ![q] = Rotated(@, p)]
         IN  ns \in QueuesOf(S) /\ QueueTurned(ps, ns, q, p, Len(ps[q]) - p + 1)
<1> DEFINE ns == [ps EXCEPT ![q] = Rotated(@, p)]
           t == Rotated(ps[q], p)
           m == Len(ps[q])
           n == m - p + 1
<1>1. ps[q] \in Seq(S) /\ m \in Nat BY DEF QueuesOf
<1>2. p \in 1 .. m + 1 BY <1>1
<1>3. /\ t \in Seq(S) /\ Len(t) = m
      /\ \A k \in 1 .. m : t[k] = IF k <= n THEN ps[q][p + k - 1] ELSE ps[q][k - n]
      /\ \A k \in 1 .. m : ps[q][k] = IF k < p THEN t[k + n] ELSE t[k - p + 1]
  BY Zenon, <1>1, <1>2, Rotation DEF Rotated
<1>4. ns = [s \in 0 .. 2 |-> IF s = q THEN t ELSE ps[s]] BY Zenon DEF QueuesOf
<1> HIDE DEF t, ns
<1>5. ns \in QueuesOf(S) BY <1>3, <1>4 DEF QueuesOf
<1>6. ASSUME NEW a, NEW i, NEW e, Has(ns, a, i, e)
      PROVE  /\ i \in Nat \ {0}
             /\ IF a # q THEN Has(ps, a, i, e)
                ELSE IF i <= n THEN Has(ps, a, p + i - 1, e) ELSE Has(ps, a, i - n, e) /\ i - n < p
  <2>1. a \in 0 .. 2 /\ i \in 1 .. Len(ns[a]) /\ ns[a][i] = e BY <1>6 DEF Has
  <2>2. CASE a # q
    <3>1. ns[a] = ps[a] /\ ps[a] \in Seq(S) BY <1>4, <2>1, <2>2 DEF QueuesOf
    <3> QED BY <2>1, <2>2, <3>1 DEF Has
  <2>3. CASE a = q
    <3>1. ns[a] = t /\ i \in 1 .. m /\ t[i] = e BY <1>3, <1>4, <2>1, <2>3
    <3> HIDE DEF m
    <3>2. CASE i <= n
      <4>1. p + i - 1 \in 1 .. m /\ ps[q][p + i - 1] = e BY <1>1, <1>2, <1>3, <3>1, <3>2
      <4> QED BY <2>1, <2>3, <3>1, <3>2, <4>1 DEF Has, m
    <3>3. CASE ~(i <= n)
      <4>1. i - n \in 1 .. m /\ i - n < p /\ ps[q][i - n] = e BY <1>1, <1>2, <1>3, <3>1, <3>3
      <4>2. Has(ps, a, i - n, e) BY <2>1, <2>3, <4>1 DEF Has, m
      <4> QED BY <2>3, <3>1, <3>3, <4>1, <4>2
    <3> QED BY <3>2, <3>3
  <2> QED BY <2>2, <2>3
<1>7. ASSUME NEW a, NEW i, NEW e, Has(ps, a, i, e) PROVE \E j : Has(ns, a, j, e)
  <2>1. a \in 0 .. 2 /\ i \in 1 .. Len(ps[a]) /\ ps[a][i] = e BY <1>7 DEF Has
  <2>2. CASE a # q
    <3>1. ns[a] = ps[a] BY <1>4, <2>1, <2>2
    <3>2. Has(ns, a, i, e) BY <2>1, <3>1 DEF Has
    <3> QED BY <3>2
  <2>3. CASE a = q
    <3>1. ns[a] = t /\ i \in 1 .. m BY <1>4, <2>1, <2>3
    <3> HIDE DEF m
    <3>2. CASE i < p
      <4>1. i + n \in 1 .. m /\ t[i + n] = e BY <1>1, <1>2, <1>3, <2>1, <2>3, <3>1, <3>2
      <4>2. Has(ns, a, i + n, e) BY <1>3, <2>1, <3>1, <4>1 DEF Has
      <4> QED BY <4>2
    <3>3. CASE ~(i < p)
      <4>0. ps[q][i] = e /\ i \in 1 .. m BY <2>1, <2>3, <3>1
      <4>a. t[i - p + 1] = e BY <1>3, <3>3, <4>0
      <4>b. i - p + 1 \in 1 .. m BY <1>1, <1>2, <3>3, <4>0
      <4>1. i - p + 1 \in 1 .. m /\ t[i - p + 1] = e BY <4>a, <4>b
      <4>2. Has(ns, a, i - p + 1, e) BY <1>3, <2>1, <3>1, <4>1 DEF Has
      <4> QED BY <4>2
    <3> QED BY <3>2, <3>3
  <2> QED BY <2>2, <2>3
<1>8. p \in Nat \ {0} /\ n \in Nat BY <1>1, <1>2
<1>9. QueueTurned(ps, ns, q, p, n) BY <1>6, <1>7, <1>8 DEF QueueTurned
<1> QED BY <1>5, <1>9 DEF ns

\* Turning a queue keeps every process in exactly one place, and in its queue.
LEMMA QueueTurnedKeeps ==
  ASSUME NEW ps, NEW ns, NEW q, NEW p, NEW n, QueueTurned(ps, ns, q, p, n)
  PROVE  /\ Apart(ps) => Apart(ns)
         /\ \A T : Covers(ps, T) => Covers(ns, T)
         /\ \A a, i, e : Has(ns, a, i, e) => \E j : Has(ps, a, j, e)
<1>0. p \in Nat \ {0} /\ n \in Nat BY DEF QueueTurned
<1>1. ASSUME Apart(ps), NEW a, NEW i, NEW b, NEW j, NEW e, Has(ns, a, i, e), Has(ns, b, j, e)
      PROVE  a = b /\ i = j
  <2>1. /\ i \in Nat \ {0}
        /\ IF a # q THEN Has(ps, a, i, e)
           ELSE IF i <= n THEN Has(ps, a, p + i - 1, e) ELSE Has(ps, a, i - n, e) /\ i - n < p
    BY <1>1 DEF QueueTurned
  <2>2. /\ j \in Nat \ {0}
        /\ IF b # q THEN Has(ps, b, j, e)
           ELSE IF j <= n THEN Has(ps, b, p + j - 1, e) ELSE Has(ps, b, j - n, e) /\ j - n < p
    BY <1>1 DEF QueueTurned
  <2> DEFINE x == IF a # q THEN i ELSE IF i <= n THEN p + i - 1 ELSE i - n
             y == IF b # q THEN j ELSE IF j <= n THEN p + j - 1 ELSE j - n
  <2>3. Has(ps, a, x, e) /\ Has(ps, b, y, e) BY <2>1, <2>2
  <2>4. a = b /\ x = y
    <3> HIDE DEF x, y
    <3> QED BY <1>1, <2>3 DEF Apart
  <2> QED BY <1>0, <2>1, <2>2, <2>4
<1>2. \A T : Covers(ps, T) => Covers(ns, T)
  <2>1. \A a, i, e : Has(ps, a, i, e) => \E j : Has(ns, a, j, e) BY DEF QueueTurned
  <2> QED BY <2>1 DEF Covers
<1>3. \A a, i, e : Has(ns, a, i, e) => \E j : Has(ps, a, j, e) BY DEF QueueTurned
<1> QED BY <1>1, <1>2, <1>3 DEF Apart

\* Turning a queue puts nobody in front of a process that it does not pass over.
LEMMA QueueTurnedAhead ==
  ASSUME NEW ps, NEW ns, NEW q, NEW p, NEW n, QueueTurned(ps, ns, q, p, n),
         NEW e, \A i : Has(ps, q, i, e) => ~(i < p), NEW x, AheadIn(ns, x, e)
  PROVE  AheadIn(ps, x, e)
<1>0. p \in Nat \ {0} /\ n \in Nat BY DEF QueueTurned
<1>1. PICK a, i, j : Has(ns, a, i, e) /\ Has(ns, a, j, x) /\ j < i BY DEF AheadIn
<1>2. /\ i \in Nat \ {0}
      /\ IF a # q THEN Has(ps, a, i, e)
         ELSE IF i <= n THEN Has(ps, a, p + i - 1, e) ELSE Has(ps, a, i - n, e) /\ i - n < p
  BY <1>1 DEF QueueTurned
<1>3. /\ j \in Nat \ {0}
      /\ IF a # q THEN Has(ps, a, j, x)
         ELSE IF j <= n THEN Has(ps, a, p + j - 1, x) ELSE Has(ps, a, j - n, x) /\ j - n < p
  BY <1>1 DEF QueueTurned
<1>4. CASE a # q BY <1>1, <1>2, <1>3, <1>4 DEF AheadIn
<1>5. CASE a = q
  <2>1. i <= n BY <1>2, <1>5
  <2>2. j <= n BY <1>0, <1>1, <1>2, <1>3, <2>1
  <2>3. Has(ps, a, p + i - 1, e) /\ Has(ps, a, p + j - 1, x) BY <1>2, <1>3, <1>5, <2>1, <2>2
  <2>4. p + j - 1 < p + i - 1 BY <1>0, <1>1, <1>2, <1>3
  <2> QED BY <2>3, <2>4 DEF AheadIn
<1> QED BY <1>4, <1>5

\* Nobody gets in front of e.
NotPassed(ps, ns, e) == \A x : AheadIn(ns, x, e) => AheadIn(ps, x, e)

\* The head of queue q, if it has one, goes to the topmost queue.
HeadRedeemed(ps, ns, q) ==
  /\ Apart(ps) => Apart(ns)
  /\ \A T : Covers(ps, T) => Covers(ns, T)
  /\ \A a, i, e : Has(ns, a, i, e) /\ a # 0 => \E j : Has(ps, a, j, e) /\ (a = q => j # 1)
  /\ \A e : ~Has(ps, q, 1, e) => NotPassed(ps, ns, e)

RedeemHead(ps, q) == IF ps[q] = <<>> THEN ps ELSE MoveHead(ps, q, 0)

\* Redeeming a lower queue moves its head to the top, if it has one.
LEMMA HeadIsRedeemed ==
  ASSUME NEW S, NEW ps \in QueuesOf(S), NEW q \in 1 .. 2
  PROVE  RedeemHead(ps, q) \in QueuesOf(S) /\ HeadRedeemed(ps, RedeemHead(ps, q), q)
<1> DEFINE ns == RedeemHead(ps, q)
<1>0. q \in 0 .. 2 /\ 0 \in 0 .. 2 /\ q # 0 OBVIOUS
<1>1. CASE ps[q] = <<>>
  <2>1. ns = ps BY <1>1 DEF RedeemHead
  <2>2. ASSUME NEW i, NEW e PROVE ~Has(ps, q, i, e)
    <3>1. Len(ps[q]) = 0 BY <1>1
    <3> QED BY <3>1 DEF Has
  <2>3. \A a, i, e : Has(ps, a, i, e) /\ a # 0 => \E j : Has(ps, a, j, e) /\ (a = q => j # 1) BY <2>2
  <2>4. HeadRedeemed(ps, ps, q) BY <2>3 DEF HeadRedeemed, NotPassed
  <2> QED BY <2>1, <2>4
<1>2. CASE ps[q] # <<>>
  <2>1. ns = MoveHead(ps, q, 0) BY <1>2 DEF RedeemHead
  <2> HIDE DEF ns
  <2>2. ns \in QueuesOf(S) /\ Len(ps[q]) \in Nat \ {0} /\ HeadMoved(ps, ns, q, 0)
    BY <1>0, <1>2, <2>1, MovedPlaces
  <2>3. HeadTaken(ps, ns, q, 0, Len(ns[0])) BY <1>0, <2>2, MovedElements
  <2>4. ASSUME NEW a, NEW i, NEW e, Has(ns, a, i, e), a # 0
        PROVE  \E j : Has(ps, a, j, e) /\ (a = q => j # 1)
    <3>1. i \in Nat \ {0} /\ Has(ps, a, i + One(a = q), e) BY <2>3, <2>4 DEF HeadTaken
    <3>2. a = q => i + One(a = q) # 1 BY <3>1 DEF One
    <3> QED BY <3>1, <3>2
  <2>5. \A e : ~Has(ps, q, 1, e) => NotPassed(ps, ns, e) BY <2>3, TakenAhead DEF NotPassed
  <2>6. (Apart(ps) => Apart(ns)) /\ \A T : Covers(ps, T) => Covers(ns, T) BY <2>3, TakenKeeps
  <2> QED BY <2>2, <2>4, <2>5, <2>6 DEF HeadRedeemed, ns
<1> QED BY <1>1, <1>2

\* A refresh, or none: a process that stays in its queue is not passed.
Refreshed(ps, ns) ==
  /\ Apart(ps) => Apart(ns)
  /\ \A T : Covers(ps, T) => Covers(ns, T)
  /\ \A q, i, j, e : Apart(ps) /\ Has(ps, q, i, e) /\ Has(ns, q, j, e) => NotPassed(ps, ns, e)

\* Redeeming the two lower queues one after the other is a refresh.
LEMMA BothRedeemed ==
  ASSUME NEW ps, NEW ms, NEW ns, HeadRedeemed(ps, ms, 1), HeadRedeemed(ms, ns, 2)
  PROVE  Refreshed(ps, ns)
<1>1. (Apart(ps) => Apart(ns)) /\ \A T : Covers(ps, T) => Covers(ns, T) BY DEF HeadRedeemed
<1>2. ASSUME NEW q, NEW i, NEW j, NEW e, Apart(ps), Has(ps, q, i, e), Has(ns, q, j, e)
      PROVE  NotPassed(ps, ns, e)
  <2>1. Apart(ms) BY <1>2 DEF HeadRedeemed
  <2>2. ~Has(ps, 1, 1, e)
    <3>1. CASE q # 1 BY <1>2, <3>1 DEF Apart
    <3>2. CASE q = 1
      <4>1. PICK k : Has(ms, 1, k, e) BY <1>2, <3>2 DEF HeadRedeemed
      <4>2. PICK l : Has(ps, 1, l, e) /\ l # 1 BY <4>1 DEF HeadRedeemed
      <4> QED BY <1>2, <4>2 DEF Apart
    <3> QED BY <3>1, <3>2
  <2>3. ~Has(ms, 2, 1, e)
    <3>1. CASE q # 2
      <4>1. ASSUME Has(ms, 2, 1, e) PROVE FALSE
        <5>1. PICK l : Has(ps, 2, l, e) BY <4>1 DEF HeadRedeemed
        <5> QED BY <1>2, <3>1, <5>1 DEF Apart
      <4> QED BY <4>1
    <3>2. CASE q = 2
      <4>1. PICK k : Has(ms, 2, k, e) /\ k # 1 BY <1>2, <3>2 DEF HeadRedeemed
      <4> QED BY <2>1, <4>1 DEF Apart
    <3> QED BY <3>1, <3>2
  <2>4. NotPassed(ps, ms, e) /\ NotPassed(ms, ns, e) BY <2>2, <2>3 DEF HeadRedeemed
  <2> QED BY <2>4 DEF NotPassed
<1> QED BY <1>1, <1>2 DEF Refreshed

\* What moving the head of a lower queue to the top does to each queue.
LEMMA MoveHeadUp ==
  ASSUME NEW S, NEW ps \in QueuesOf(S), NEW q \in 1 .. 2
  PROVE  /\ MoveHead(ps, q, 0)[0] = Append(ps[0], Head(ps[q]))
         /\ MoveHead(ps, q, 0)[q] = Tail(ps[q])
         /\ \A s \in 1 .. 2 : s # q => MoveHead(ps, q, 0)[s] = ps[s]
<1> DEFINE t == Tail(ps[q])
           h == Head(ps[q])
           ms == [ps EXCEPT ![q] = t]
           ns == [ms EXCEPT ![0] = Append(@, h)]
<1>1. MoveHead(ps, q, 0) = ns BY DEF MoveHead
<1> HIDE DEF t, h
<1>2. DOMAIN ps = 0 .. 2 BY DEF QueuesOf
<1>3. DOMAIN ms = 0 .. 2 /\ ms[0] = ps[0] /\ ms[q] = t /\ \A s \in 1 .. 2 : s # q => ms[s] = ps[s] BY <1>2
<1> HIDE DEF ms
<1>4. ns[0] = Append(ms[0], h) /\ ns[q] = ms[q] /\ \A s \in 1 .. 2 : ns[s] = ms[s] BY <1>3
<1> HIDE DEF ns
<1> QED BY <1>1, <1>3, <1>4 DEF t, h

\* redeem_all_procs is a refresh.
LEMMA RedeemAll ==
  ASSUME NEW S, NEW ps \in QueuesOf(S)
  PROVE  redeem_all_procs(ps) \in QueuesOf(S) /\ Refreshed(ps, redeem_all_procs(ps))
<1> DEFINE ms == RedeemHead(ps, 1)
           ns == RedeemHead(ms, 2)
           h1 == IF ps[1] = <<>> THEN <<>> ELSE <<Head(ps[1])>>
           h2 == IF ps[2] = <<>> THEN <<>> ELSE <<Head(ps[2])>>
<1>1. ms \in QueuesOf(S) /\ HeadRedeemed(ps, ms, 1) BY HeadIsRedeemed
<1>2. ns \in QueuesOf(S) /\ HeadRedeemed(ms, ns, 2)
  <2> HIDE DEF ms
  <2> QED BY <1>1, HeadIsRedeemed
<1>3. ps[0] \in Seq(S) /\ ps[1] \in Seq(S) /\ ps[2] \in Seq(S) BY DEF QueuesOf
<1>4. \A x \in Seq(S), e \in S : Append(x, e) = x \o <<e>>
  <2> SUFFICES ASSUME NEW x \in Seq(S), NEW e \in S PROVE Append(x, e) = x \o <<e>> OBVIOUS
  <2> QED OBVIOUS
<1>5. \A x \in Seq(S) : x \o <<>> = x OBVIOUS
<1>6. \A x \in Seq(S) : x # <<>> => Head(x) \in S OBVIOUS
<1>7. /\ ms[0] = ps[0] \o h1 /\ ms[0] \in Seq(S)
      /\ ms[1] = IF ps[1] = <<>> THEN <<>> ELSE Tail(ps[1])
      /\ ms[2] = ps[2]
  <2>1. CASE ps[1] = <<>>
    <3>1. ms = ps /\ h1 = <<>> BY <2>1 DEF RedeemHead
    <3> HIDE DEF ms, h1
    <3> QED BY <1>3, <1>5, <2>1, <3>1
  <2>2. CASE ps[1] # <<>>
    <3>1. ms = MoveHead(ps, 1, 0) /\ h1 = <<Head(ps[1])>> BY <2>2 DEF RedeemHead
    <3> HIDE DEF ms, h1
    <3>2. ms[0] = Append(ps[0], Head(ps[1])) /\ ms[1] = Tail(ps[1]) /\ ms[2] = ps[2] BY <3>1, MoveHeadUp
    <3>3. Append(ps[0], Head(ps[1])) = ps[0] \o h1 BY Zenon, <1>3, <1>4, <1>6, <2>2, <3>1
    <3>4. ms[0] \in Seq(S) BY <1>1 DEF QueuesOf
    <3> QED BY <2>2, <3>2, <3>3, <3>4
  <2> QED BY Zenon, <2>1, <2>2
<1>8. /\ ns[0] = ms[0] \o h2
      /\ ns[1] = ms[1]
      /\ ns[2] = IF ps[2] = <<>> THEN <<>> ELSE Tail(ps[2])
  <2> HIDE DEF ms
  <2>1. CASE ms[2] = <<>>
    <3>1. ns = ms /\ h2 = <<>> BY <1>7, <2>1 DEF RedeemHead
    <3> HIDE DEF ns, h1, h2
    <3> QED BY <1>7, <1>5, <2>1, <3>1
  <2>2. CASE ms[2] # <<>>
    <3>1. ns = MoveHead(ms, 2, 0) /\ h2 = <<Head(ms[2])>> BY <1>7, <2>2 DEF RedeemHead
    <3> HIDE DEF ns, h1, h2
    <3>2. ns[0] = Append(ms[0], Head(ms[2])) /\ ns[2] = Tail(ms[2]) /\ ns[1] = ms[1] BY <1>1, <3>1, MoveHeadUp
    <3>3. Append(ms[0], Head(ms[2])) = ms[0] \o h2 BY Zenon, <1>3, <1>4, <1>6, <1>7, <2>2, <3>1
    <3> QED BY Zenon, <1>7, <2>2, <3>2, <3>3
  <2> QED BY Zenon, <2>1, <2>2
<1>9. redeem_all_procs(ps) = ns
  <2> HIDE DEF ms, ns
  <2>1. redeem_all_procs(ps) =
          [s \in 0 .. 2 |-> IF s = 0 THEN ps[0] \o h1 \o h2
                            ELSE IF ps[s] = <<>> THEN <<>> ELSE Tail(ps[s])]
    BY Zenon DEF redeem_all_procs, Head1, Popped, Queues
  <2> HIDE DEF h1, h2
  <2>2. \A s \in 0 .. 2 : ns[s] = IF s = 0 THEN ps[0] \o h1 \o h2
                                  ELSE IF ps[s] = <<>> THEN <<>> ELSE Tail(ps[s])
    <3> SUFFICES ASSUME NEW s \in 0 .. 2
                 PROVE  ns[s] = IF s = 0 THEN ps[0] \o h1 \o h2
                                ELSE IF ps[s] = <<>> THEN <<>> ELSE Tail(ps[s])
      BY Zenon
    <3>1. s = 0 \/ s = 1 \/ s = 2 OBVIOUS
    <3>2. ns[0] = ps[0] \o h1 \o h2 BY <1>7, <1>8
    <3>3. ns[1] = IF ps[1] = <<>> THEN <<>> ELSE Tail(ps[1]) BY <1>7, <1>8
    <3> QED BY Zenon, <1>8, <3>1, <3>2, <3>3
  <2>3. ns = [s \in 0 .. 2 |-> ns[s]] BY <1>2 DEF QueuesOf
  <2> QED BY <2>1, <2>2, <2>3
<1> HIDE DEF ms, ns
<1>10. Refreshed(ps, ns) BY <1>1, <1>2, BothRedeemed
<1> QED BY <1>2, <1>9, <1>10

-----------------------------------------------------------------------------
(* The invariant *)

\* The queues hold every process exactly once, and the process that runs is at
\* the head of the queue next() remembers.
MlfqInv ==
  /\ processes \in QueuesOf(Procs) /\ Apart(processes) /\ Covers(processes, Procs)
  /\ us_used \in [Procs -> 0 .. W - 1]
  /\ last_timeslice \in 0 .. W - 1 /\ last_queue_idx \in 0 .. 2
  /\ running \in Procs \cup {NoProc}
  /\ ready \in [Procs -> BOOLEAN]
  /\ running # NoProc => processes[last_queue_idx] # <<>> /\ processes[last_queue_idx][1] = running

\* What MLFQAssumption says of the constants, in the form the proofs use.
LEMMA MlfqConstants ==
         /\ IsFiniteSet(Procs) /\ NoProc \notin Procs /\ W \in Nat \ {0}
         /\ Slice0 \in Nat /\ Slice1 \in Nat /\ Slice2 \in Nat
<1>1. /\ IsFiniteSet(Procs) /\ NoProc \notin Procs /\ W \in Nat /\ MinQuanta \in Nat
      /\ Slice0 \in Nat /\ Slice1 \in Nat /\ Slice2 \in Nat /\ MinQuanta < Slice0 /\ Slice0 < W
  BY Zenon, MLFQAssumption
<1>2. W # 0 BY <1>1
<1> QED BY <1>1, <1>2

\* The invariant holds when the scheduler starts.
LEMMA MlfqInit ==
  ASSUME Init
  PROVE  MlfqInv
<1>0. IsFiniteSet(Procs) /\ NoProc \notin Procs /\ W \in Nat \ {0} BY MlfqConstants
<1> DEFINE n == Cardinality(Procs)
<1>1. n \in Nat BY <1>0, FS_CardinalityType
<1>2. PICK order \in [1 .. n -> Procs] :
        /\ \A p \in Procs : \E i \in DOMAIN order : order[i] = p
        /\ processes = [q \in 0 .. 2 |-> IF q = 0 THEN order ELSE <<>>]
  BY Zenon DEF Init, Queues
<1>3. order \in Seq(Procs) /\ Len(order) = n /\ DOMAIN order = 1 .. n BY <1>1, <1>2
<1>4. order \in Injection(1 .. n, Procs)
  <2>1. IsFiniteSet(1 .. n) /\ Cardinality(1 .. n) = n
    BY <1>1, FS_Interval
  <2>2. order \in Surjection(1 .. n, Procs) BY <1>2, <1>3 DEF Surjection
  <2> QED BY <1>0, <2>1, <2>2, FS_SurjSameCardinalityImpliesInj
<1>5. \A i, j \in 1 .. n : order[i] = order[j] => i = j BY <1>4 DEF Injection, IsInjective
<1> HIDE DEF n
<1>6. processes \in QueuesOf(Procs) BY <1>2, <1>3 DEF QueuesOf
<1>7. \A a, i, e : Has(processes, a, i, e) <=> a = 0 /\ i \in 1 .. n /\ order[i] = e
  <2> SUFFICES ASSUME NEW a, NEW i, NEW e
               PROVE  Has(processes, a, i, e) <=> a = 0 /\ i \in 1 .. n /\ order[i] = e
    OBVIOUS
  <2>1. CASE a = 0
    <3>1. processes[a] = order BY <1>2, <2>1
    <3> QED BY <1>3, <2>1, <3>1 DEF Has
  <2>2. CASE a \in 1 .. 2
    <3>1. processes[a] = <<>> /\ Len(processes[a]) = 0 BY <1>2, <2>2
    <3> QED BY <2>2, <3>1 DEF Has
  <2>3. CASE a \notin 0 .. 2 BY <2>3 DEF Has
  <2> QED BY <2>1, <2>2, <2>3
<1>8. Apart(processes) BY <1>5, <1>7 DEF Apart
<1>9. Covers(processes, Procs) BY Zenon, <1>2, <1>3, <1>7 DEF Covers
<1>10. /\ us_used \in [Procs -> 0 .. W - 1]
       /\ last_timeslice \in 0 .. W - 1 /\ last_queue_idx \in 0 .. 2
       /\ running = NoProc /\ ready \in [Procs -> BOOLEAN]
  <2>1. 0 \in 0 .. W - 1 BY <1>0
  <2>2. us_used = [p \in Procs |-> 0] /\ last_timeslice = 0 /\ last_queue_idx = 0
        /\ running = NoProc /\ ready = [p \in Procs |-> FALSE]
    BY DEF Init
  <2> QED BY <2>1, <2>2
<1> QED BY <1>6, <1>8, <1>9, <1>10 DEF MlfqInv

\* What a step of MLFQ does to the processes: a process that is ready before and
\* after it, in the same queue and not running, is not passed.
QueuesStep(ps, ns) ==
  /\ ns \in QueuesOf(Procs) /\ Apart(ns) /\ Covers(ns, Procs)
  /\ \A q, i, j, e : ready[e] /\ e # running /\ Has(ps, q, i, e) /\ Has(ns, q, j, e)
                     => NotPassed(ps, ns, e)

\* next() before it looks for a process, with or without a refresh.
LEMMA MlfqRefresh ==
  ASSUME MlfqInv, NEW refresh \in BOOLEAN
  PROVE  /\ Redeemed(refresh) \in QueuesOf(Procs)
         /\ Apart(Redeemed(refresh)) /\ Covers(Redeemed(refresh), Procs)
         /\ Refreshed(processes, Redeemed(refresh))
<1>1. Refreshed(processes, processes) BY DEF Refreshed, NotPassed
<1>2. redeem_all_procs(processes) \in QueuesOf(Procs) /\ Refreshed(processes, redeem_all_procs(processes))
  BY RedeemAll DEF MlfqInv
<1> DEFINE rs == redeem_all_procs(processes)
           ns == Redeemed(refresh)
<1>3. ns = rs \/ ns = processes BY DEF Redeemed
<1> HIDE DEF rs, ns
<1>4. ns \in QueuesOf(Procs) /\ Refreshed(processes, ns) BY <1>1, <1>2, <1>3 DEF MlfqInv, rs
<1>5. Apart(ns) /\ Covers(ns, Procs) BY <1>4 DEF MlfqInv, Refreshed
<1> QED BY <1>4, <1>5 DEF ns

\* result() moves the process that ran, which is a head, to the end of a queue.
LEMMA MlfqRequeue ==
  ASSUME MlfqInv, running # NoProc, NEW r \in 0 .. 2
  PROVE  QueuesStep(processes, Requeued(r)) /\ Head(processes[last_queue_idx]) = running
<1> DEFINE ns == MoveHead(processes, last_queue_idx, r)
           q == last_queue_idx
<1>1. Requeued(r) = ns BY Zenon DEF Requeued, MoveHead
<1>2. processes \in QueuesOf(Procs) /\ q \in 0 .. 2 /\ processes[q] # <<>> /\ processes[q][1] = running BY DEF MlfqInv
<1>3. ns \in QueuesOf(Procs) /\ Len(processes[q]) \in Nat \ {0} /\ Head(processes[q]) = processes[q][1]
      /\ HeadMoved(processes, ns, q, r)
  BY <1>2, MovedPlaces
<1> HIDE DEF ns
<1>4. HeadTaken(processes, ns, q, r, Len(ns[r])) BY <1>2, <1>3, MovedElements
<1>5. Apart(ns) /\ Covers(ns, Procs) BY <1>4, TakenKeeps DEF MlfqInv
<1>6. \A e : e # running => ~Has(processes, q, 1, e) BY <1>2 DEF Has
<1>7. \A e : e # running => NotPassed(processes, ns, e) BY <1>4, <1>6, TakenAhead DEF NotPassed
<1>8. QueuesStep(processes, ns) BY Zenon, <1>3, <1>5, <1>7 DEF QueuesStep
<1> QED BY <1>1, <1>2, <1>3, <1>8

\* next() runs the first ready process of a queue: those it turns past are not
\* ready.
LEMMA MlfqTurn ==
  ASSUME MlfqInv, NEW refresh \in BOOLEAN, NEW q \in 0 .. 2,
         NEW i \in 1 .. Len(Redeemed(refresh)[q]), FirstReady(Redeemed(refresh), q, i)
  PROVE  LET ps == Redeemed(refresh)
             ns == [ps EXCEPT ![q] = Rotated(@, i)]
         IN  /\ QueuesStep(processes, ns) /\ ps[q][i] \in Procs
             /\ ns[q] # <<>> /\ ns[q][1] = ps[q][i]
<1> DEFINE ps == Redeemed(refresh)
           ns == [ps EXCEPT ![q] = Rotated(@, i)]
           n == Len(ps[q]) - i + 1
<1>1. /\ ps \in QueuesOf(Procs) /\ Apart(ps) /\ Covers(ps, Procs) /\ Refreshed(processes, ps)
  BY MlfqRefresh
<1>2. \A j \in 1 .. i - 1 : ~ready[ps[q][j]] BY Zenon DEF FirstReady
<1>3. [ps EXCEPT ![q] = Rotated(@, i)] = ns BY Zenon DEF Rotated
<1> HIDE DEF ps
<1>4. i \in 1 .. Len(ps[q]) BY DEF ps
<1>5. ns \in QueuesOf(Procs) /\ QueueTurned(ps, ns, q, i, n) BY <1>1, <1>4, TurnedElements
<1>6. ps[q] \in Seq(Procs) /\ ps[q][i] \in Procs BY <1>1, <1>4 DEF QueuesOf
<1>7. ns[q] = Rotated(ps[q], i) BY <1>1 DEF QueuesOf
<1>8. ns[q] # <<>> /\ ns[q][1] = ps[q][i]
  <2> DEFINE m == Len(ps[q])
             t == Rotated(ps[q], i)
  <2>1. m \in Nat /\ i \in 1 .. m /\ i \in 1 .. m + 1 BY <1>4, <1>6
  <2>2. /\ t \in Seq(Procs) /\ Len(t) = m
        /\ \A k \in 1 .. m : t[k] = IF k <= m - i + 1 THEN ps[q][i + k - 1] ELSE ps[q][k - (m - i + 1)]
    BY Zenon, <1>6, <2>1, Rotation DEF Rotated
  <2> HIDE DEF m, t
  <2>3. 1 \in 1 .. m /\ 1 <= m - i + 1 /\ i + 1 - 1 = i BY <2>1
  <2>4. t[1] = ps[q][i] BY <2>2, <2>3
  <2>5. t # <<>> BY <2>1, <2>2
  <2> QED BY <1>7, <2>4, <2>5 DEF t
<1> HIDE DEF ns, n
<1>9. Apart(ns) /\ Covers(ns, Procs) BY <1>1, <1>5, QueueTurnedKeeps
<1>10. ASSUME NEW a, NEW k, NEW j, NEW e, ready[e], Has(processes, a, k, e), Has(ns, a, j, e)
       PROVE  NotPassed(processes, ns, e)
  <2>1. \A l : Has(ps, q, l, e) => ~(l < i)
    <3> SUFFICES ASSUME NEW l, Has(ps, q, l, e), l < i PROVE FALSE OBVIOUS
    <3>1. l \in 1 .. Len(ps[q]) /\ ps[q][l] = e BY DEF Has
    <3>2. l \in 1 .. i - 1 BY <1>4, <1>6, <3>1
    <3> QED BY <1>2, <1>10, <3>1, <3>2
  <2>2. NotPassed(ps, ns, e) BY <1>5, <2>1, QueueTurnedAhead DEF NotPassed
  <2>3. PICK l : Has(ps, a, l, e) BY <1>5, <1>10, QueueTurnedKeeps
  <2>4. NotPassed(processes, ps, e) BY Zenon, <1>1, <1>10, <2>3 DEF Refreshed, MlfqInv
  <2> QED BY <2>2, <2>4 DEF NotPassed
<1>11. QueuesStep(processes, ns) BY <1>5, <1>9, <1>10 DEF QueuesStep
<1> QED BY <1>3, <1>6, <1>8, <1>11 DEF ps, ns

\* Every step keeps the invariant, and moves processes in one of the ways above.
LEMMA MlfqStep ==
  ASSUME MlfqInv, [Next]_vars
  PROVE  MlfqInv' /\ QueuesStep(processes, processes')
<1>0. /\ NoProc \notin Procs /\ W \in Nat \ {0}
      /\ Slice0 \in Nat /\ Slice1 \in Nat /\ Slice2 \in Nat
  BY MlfqConstants
<1>1. /\ processes \in QueuesOf(Procs) /\ Apart(processes) /\ Covers(processes, Procs)
      /\ us_used \in [Procs -> 0 .. W - 1]
      /\ last_timeslice \in 0 .. W - 1 /\ last_queue_idx \in 0 .. 2
      /\ running \in Procs \cup {NoProc}
      /\ ready \in [Procs -> BOOLEAN]
  BY DEF MlfqInv
<1>2. QueuesStep(processes, processes) BY <1>1 DEF QueuesStep, NotPassed
<1>3. ASSUME NEW refresh \in BOOLEAN, RunProcess(refresh) PROVE MlfqInv' /\ QueuesStep(processes, processes')
  <2> DEFINE ps == Redeemed(refresh)
  <2>1. PICK q \in 0 .. 2 : \E i \in 1 .. Len(ps[q]) :
          /\ FirstReady(ps, q, i)
          /\ processes' = [ps EXCEPT ![q] = Rotated(@, i)]
          /\ running' = ps[q][i]
          /\ last_queue_idx' = q
          /\ last_timeslice' = Timeslice(q, ps[q][i])
    BY Zenon, <1>3 DEF RunProcess, Queues
  <2>2. PICK i \in 1 .. Len(ps[q]) :
          /\ FirstReady(ps, q, i)
          /\ processes' = [ps EXCEPT ![q] = Rotated(@, i)]
          /\ running' = ps[q][i]
          /\ last_queue_idx' = q
          /\ last_timeslice' = Timeslice(q, ps[q][i])
    BY Zenon, <2>1
  <2>3. /\ QueuesStep(processes, processes') /\ running' \in Procs
        /\ processes'[q] # <<>> /\ processes'[q][1] = running'
    <3> DEFINE ns == [ps EXCEPT ![q] = Rotated(@, i)]
    <3>1. FirstReady(ps, q, i) BY <2>2
    <3>2. QueuesStep(processes, ns) /\ ps[q][i] \in Procs /\ ns[q] # <<>> /\ ns[q][1] = ps[q][i]
      BY ONLY MlfqInv, refresh \in BOOLEAN, q \in 0 .. 2, i \in 1 .. Len(ps[q]), <3>1, MlfqTurn
    <3>3. processes' = ns /\ running' = ps[q][i] BY <2>2
    <3> HIDE DEF ps, ns
    <3> QED BY Zenon, <3>2, <3>3
  <2>4. us_used' = us_used /\ ready' = ready BY <1>3 DEF RunProcess
  <2>5. last_timeslice' \in 0 .. W - 1
    <3> DEFINE a == get_timeslice_us(q)
               b == us_used[running']
    <3>1. last_timeslice' = (a - b) % W BY <2>2 DEF Timeslice
    <3>2. a \in Nat
      <4>1. q = 0 \/ q = 1 \/ q = 2 OBVIOUS
      <4> QED BY <1>0, <4>1 DEF get_timeslice_us
    <3>3. b \in Nat BY <1>0, <1>1, <2>3
    <3> HIDE DEF a, b
    <3>4. a - b \in Int BY <3>2, <3>3
    <3> QED BY <1>0, <3>1, <3>4
  <2> QED BY Zenon, <1>1, <2>2, <2>3, <2>4, <2>5 DEF MlfqInv, QueuesStep
<1>4. ASSUME NEW refresh \in BOOLEAN, TrySleep(refresh) PROVE MlfqInv' /\ QueuesStep(processes, processes')
  <2>1. /\ processes' = Redeemed(refresh) /\ running = NoProc
        /\ us_used' = us_used /\ last_timeslice' = last_timeslice /\ last_queue_idx' = last_queue_idx
        /\ running' = running /\ ready' = ready
    BY <1>4 DEF TrySleep
  <2>2. processes' \in QueuesOf(Procs) /\ Apart(processes') /\ Covers(processes', Procs) /\ Refreshed(processes, processes')
    BY <2>1, MlfqRefresh
  <2>3. QueuesStep(processes, processes') BY <1>1, <2>2 DEF QueuesStep, Refreshed
  <2> QED BY Zenon, <1>1, <2>1, <2>2, <2>3 DEF MlfqInv
<1>5. ASSUME TimesliceExpired PROVE MlfqInv' /\ QueuesStep(processes, processes')
  <2>1. /\ processes' = Requeued(Demoted) /\ running # NoProc
        /\ us_used' = [us_used EXCEPT ![Head(processes[last_queue_idx])] = 0]
        /\ last_timeslice' = last_timeslice /\ last_queue_idx' = last_queue_idx
        /\ running' = NoProc /\ ready' = ready
    BY <1>5 DEF TimesliceExpired
  <2>2. Demoted \in 0 .. 2 BY <1>1 DEF Demoted
  <2>3. QueuesStep(processes, processes') /\ Head(processes[last_queue_idx]) = running BY <2>1, <2>2, MlfqRequeue
  <2>4. us_used' \in [Procs -> 0 .. W - 1]
    <3>1. 0 \in 0 .. W - 1 BY <1>0
    <3> QED BY Zenon, <1>1, <2>1, <3>1
  <2> QED BY Zenon, <1>1, <2>1, <2>3, <2>4 DEF MlfqInv, QueuesStep
<1>6. ASSUME NEW executed \in 0 .. last_timeslice, Returns(executed)
      PROVE  MlfqInv' /\ QueuesStep(processes, processes')
  <2>1. /\ processes' = Requeued(last_queue_idx) /\ running # NoProc
        /\ us_used' = [us_used EXCEPT ![Head(processes[last_queue_idx])] = last_timeslice - executed]
        /\ last_timeslice' = last_timeslice /\ last_queue_idx' = last_queue_idx
        /\ running' = NoProc /\ ready' = ready
    BY <1>6 DEF Returns
  <2>2. QueuesStep(processes, processes') /\ Head(processes[last_queue_idx]) = running BY <1>1, <2>1, MlfqRequeue
  <2>3. us_used' \in [Procs -> 0 .. W - 1]
    <3>1. last_timeslice - executed \in 0 .. W - 1 BY <1>0, <1>1
    <3> QED BY Zenon, <1>1, <2>1, <3>1
  <2> QED BY Zenon, <1>1, <2>1, <2>2, <2>3 DEF MlfqInv, QueuesStep
<1>7. ASSUME NEW p \in Procs, Readiness(p) PROVE MlfqInv' /\ QueuesStep(processes, processes')
  <2>1. /\ processes' = processes /\ us_used' = us_used /\ last_timeslice' = last_timeslice
        /\ last_queue_idx' = last_queue_idx /\ running' = running
        /\ ready' = [ready EXCEPT ![p] = ~@]
    BY <1>7 DEF Readiness
  <2>2. ready' \in [Procs -> BOOLEAN] BY <1>1, <2>1
  <2> QED BY Zenon, <1>2, <2>1, <2>2 DEF MlfqInv
<1>8. CASE UNCHANGED vars
  <2>1. /\ processes' = processes /\ us_used' = us_used /\ last_timeslice' = last_timeslice
        /\ last_queue_idx' = last_queue_idx /\ running' = running /\ ready' = ready
    BY <1>8 DEF vars
  <2> QED BY Zenon, <1>2, <2>1 DEF MlfqInv
<1> QED BY <1>3, <1>4, <1>5, <1>6, <1>7, <1>8 DEF Next

\* MLFQ's In and Ahead, of given queues.
InOf(ps, q) == {ps[q][i] : i \in 1 .. Len(ps[q])}
AheadOf(ps, p) ==
  {x \in Procs : \E q \in 0 .. 2 : \E i \in 1 .. Len(ps[q]) : \E j \in 1 .. i - 1 :
                   ps[q][i] = p /\ ps[q][j] = x}

\* In and Ahead in terms of who is where.
LEMMA InAndAhead ==
  ASSUME NEW ps \in QueuesOf(Procs)
  PROVE  /\ \A q \in 0 .. 2 : \A p : p \in InOf(ps, q) <=> \E i : Has(ps, q, i, p)
         /\ \A p, x : x \in AheadOf(ps, p) <=> x \in Procs /\ AheadIn(ps, x, p)
<1>1. \A q \in 0 .. 2 : \A p : p \in InOf(ps, q) <=> \E i : Has(ps, q, i, p) BY DEF InOf, Has
<1>2. ASSUME NEW p, NEW x PROVE x \in AheadOf(ps, p) <=> x \in Procs /\ AheadIn(ps, x, p)
  <2>1. x \in AheadOf(ps, p) <=>
          x \in Procs /\ \E q \in 0 .. 2 : \E i \in 1 .. Len(ps[q]) : \E j \in 1 .. i - 1 :
                           ps[q][i] = p /\ ps[q][j] = x
    BY DEF AheadOf
  <2>2. ASSUME NEW q \in 0 .. 2, NEW i \in 1 .. Len(ps[q]), NEW j \in 1 .. i - 1,
               ps[q][i] = p, ps[q][j] = x
        PROVE  AheadIn(ps, x, p)
    <3>1. Len(ps[q]) \in Nat BY DEF QueuesOf
    <3>2. j \in 1 .. Len(ps[q]) /\ j < i BY <3>1
    <3>3. Has(ps, q, i, p) /\ Has(ps, q, j, x) BY <2>2, <3>2 DEF Has
    <3> QED BY Zenon, <3>2, <3>3 DEF AheadIn
  <2>3. ASSUME AheadIn(ps, x, p)
        PROVE  \E q \in 0 .. 2 : \E i \in 1 .. Len(ps[q]) : \E j \in 1 .. i - 1 :
                 ps[q][i] = p /\ ps[q][j] = x
    <3>1. PICK q, i, j : Has(ps, q, i, p) /\ Has(ps, q, j, x) /\ j < i BY <2>3 DEF AheadIn
    <3>2. /\ q \in 0 .. 2 /\ i \in 1 .. Len(ps[q]) /\ j \in 1 .. Len(ps[q])
          /\ ps[q][i] = p /\ ps[q][j] = x
      BY <3>1 DEF Has
    <3>3. Len(ps[q]) \in Nat BY <3>2 DEF QueuesOf
    <3>4. j \in 1 .. i - 1 BY <3>1, <3>2, <3>3
    <3> QED BY <3>2, <3>4
  <2> QED BY <2>1, <2>2, <2>3
<1> QED BY <1>1, <1>2

\* The processes stay in the processes, each in one place, and the one that runs
\* stays at the head of its queue while do_process() runs it.
THEOREM MlfqInvariance == Spec => []MlfqInv
<1>1. Init => MlfqInv BY MlfqInit
<1>2. MlfqInv /\ [Next]_vars => MlfqInv' BY MlfqStep
<1> QED BY <1>1, <1>2, PTL DEF Spec

\* Whatever the processes do and whenever priorities are refreshed, next() and
\* result() keep every process in exactly one of the intrusive lists, once.
THEOREM QueuesPartitionProcesses == Spec => []Partition
<1>1. MlfqInv => Partition
  <2> SUFFICES ASSUME MlfqInv PROVE Partition OBVIOUS
  <2>1. DOMAIN processes = Queues BY DEF MlfqInv, QueuesOf, Queues
  <2>2. \A q \in Queues : In(q) \subseteq Procs
    <3> SUFFICES ASSUME NEW q \in 0 .. 2, NEW i \in 1 .. Len(processes[q]) PROVE processes[q][i] \in Procs
      BY DEF In, Queues
    <3>1. processes[q] \in Seq(Procs) BY DEF MlfqInv, QueuesOf
    <3> QED BY <3>1
  <2>3. TypeOK BY <2>1, <2>2 DEF MlfqInv, TypeOK, Queues
  <2>4. ASSUME NEW p \in Procs
        PROVE  \E q \in Queues : \E i \in 1 .. Len(processes[q]) :
                 /\ processes[q][i] = p
                 /\ \A r \in Queues : \A j \in 1 .. Len(processes[r]) : processes[r][j] = p => r = q /\ j = i
    <3>1. PICK q, i : Has(processes, q, i, p) BY DEF MlfqInv, Covers
    <3>2. \A r, j : Has(processes, r, j, p) => r = q /\ j = i BY <3>1 DEF MlfqInv, Apart
    <3>3. q \in 0 .. 2 /\ i \in 1 .. Len(processes[q]) /\ processes[q][i] = p BY <3>1 DEF Has
    <3>4. \A r \in 0 .. 2 : \A j \in 1 .. Len(processes[r]) : processes[r][j] = p => r = q /\ j = i BY <3>2 DEF Has
    <3> QED BY Zenon, <3>3, <3>4 DEF Queues
  <2> QED BY <2>3, <2>4 DEF Partition
<1> QED BY <1>1, MlfqInvariance, PTL

\* Rule 2 of the scheduler: nobody gets in front of a process that stays ready,
\* and in its queue, until it runs.
THEOREM ReadyAreNotOvertaken == Spec => NoOvertaking
<1> DEFINE Kept == \A p \in Procs : \A q \in Queues :
       (ready[p] /\ ready'[p] /\ p \in In(q) /\ p \in In(q)' /\ p # running)
         => Ahead(p)' \subseteq Ahead(p)
<1>1. MlfqInv /\ [Next]_vars => [Kept]_vars
  <2> SUFFICES ASSUME MlfqInv, [Next]_vars,
                      NEW p \in Procs, NEW q \in 0 .. 2,
                      ready[p], p \in In(q), p \in In(q)', p # running
               PROVE  Ahead(p)' \subseteq Ahead(p)
    BY DEF Queues
  <2>1. MlfqInv /\ QueuesStep(processes, processes') BY MlfqStep
  <2>2. processes \in QueuesOf(Procs) /\ processes' \in QueuesOf(Procs) BY Zenon, <2>1 DEF MlfqInv, QueuesStep
  <2>3. /\ In(q) = InOf(processes, q) /\ In(q)' = InOf(processes', q)
        /\ Ahead(p) = AheadOf(processes, p) /\ Ahead(p)' = AheadOf(processes', p)
    BY Zenon DEF In, Ahead, InOf, AheadOf, Queues
  <2>4. (\E i : Has(processes, q, i, p)) /\ (\E j : Has(processes', q, j, p)) BY <2>2, <2>3, InAndAhead
  <2>5. NotPassed(processes, processes', p) BY <2>1, <2>4 DEF QueuesStep
  <2>6. /\ \A x : x \in AheadOf(processes, p) <=> x \in Procs /\ AheadIn(processes, x, p)
        /\ \A x : x \in AheadOf(processes', p) <=> x \in Procs /\ AheadIn(processes', x, p)
    BY <2>2, InAndAhead
  <2> QED BY <2>3, <2>5, <2>6 DEF NotPassed
<1>2. Spec => []MlfqInv BY MlfqInvariance
<1> QED BY <1>1, <1>2, PTL DEF Spec, NoOvertaking

=============================================================================
