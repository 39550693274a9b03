-------------------------- MODULE RingBufferProofs --------------------------
(***************************************************************************)
(* Proofs about the ring buffer, for a ring of any size: its three views   *)
(* of what it holds agree, and it implements the trait Queue.              *)
(***************************************************************************)
EXTENDS RingBuffer, WellFoundedInduction, TLAPS

-----------------------------------------------------------------------------
(* Induction, with sets of numbers in place of predicates *)

\* A set of numbers that is not empty has a least one.
LEMMA LeastNumber ==
  ASSUME NEW T \in SUBSET Nat, T # {}
  PROVE  \E n \in T : \A m \in T : n <= m
<1>1. \A x, y \in Nat : x < y => <<x, y>> \in OpToRel(<, Nat) BY DEF OpToRel
<1>2. PICK x \in T : \A y \in T : ~(<<y, x>> \in OpToRel(<, Nat))
  BY NatLessThanWellFounded, WFMin, Zenon
<1>3. \A y \in T : ~(y < x) BY <1>1, <1>2, Zenon
<1> QED BY <1>3, SMT

\* Induction over a set: a set with 0 and all successors is all of Nat.
LEMMA SetInduction ==
  ASSUME NEW T \in SUBSET Nat, 0 \in T, \A n \in Nat : n \in T => n + 1 \in T
  PROVE  T = Nat
<1> SUFFICES ASSUME Nat \ T # {} PROVE FALSE BY Zenon
<1>1. PICK n \in Nat \ T : \A m \in Nat \ T : n <= m BY Zenon, LeastNumber
<1>2. n - 1 \in Nat /\ n - 1 \in T BY <1>1
<1> QED BY <1>1, <1>2

\* The states a loop goes through: before the first step, and after each.
IsHistory(g, first, step, L) ==
  \A n \in 0 .. L : g[n] = IF n = 0 THEN first ELSE step[n][g[n - 1]]

\* Every start and every sequence of steps has a history of any length L.
LEMMA Iteration ==
  ASSUME NEW S, NEW first \in S, NEW step \in [Nat -> [S -> S]], NEW L \in Nat
  PROVE  \E g \in [0 .. L -> S] : IsHistory(g, first, step, L)
<1> DEFINE T == {m \in Nat : \E g \in [0 .. m -> S] : IsHistory(g, first, step, m)}
<1>1. 0 \in T
  <2>1. [n \in 0 .. 0 |-> first] \in [0 .. 0 -> S] OBVIOUS
  <2>2. IsHistory([n \in 0 .. 0 |-> first], first, step, 0) BY DEF IsHistory
  <2> QED BY <2>1, <2>2
<1>2. ASSUME NEW m \in Nat, m \in T PROVE m + 1 \in T
  <2>1. PICK g \in [0 .. m -> S] : IsHistory(g, first, step, m) BY <1>2
  <2> DEFINE h == [n \in 0 .. m + 1 |-> IF n <= m THEN g[n] ELSE step[m + 1][g[m]]]
  <2>2. step[m + 1][g[m]] \in S OBVIOUS
  <2>3. h \in [0 .. m + 1 -> S] BY <2>2
  <2>4. ASSUME NEW n \in 0 .. m + 1
        PROVE  h[n] = IF n = 0 THEN first ELSE step[n][h[n - 1]]
    <3>1. CASE n <= m
      <4>1. n \in 0 .. m /\ h[n] = g[n] BY <3>1
      <4>2. n # 0 => h[n - 1] = g[n - 1] BY <3>1
      <4> QED BY <2>1, <4>1, <4>2 DEF IsHistory
    <3>2. CASE ~(n <= m)
      <4>1. n = m + 1 /\ n - 1 = m /\ h[m] = g[m] BY <3>2
      <4> QED BY <4>1
    <3> QED BY <3>1, <3>2
  <2> HIDE DEF h
  <2>5. IsHistory(h, first, step, m + 1) BY <2>4 DEF IsHistory
  <2> QED BY <2>3, <2>5
<1> HIDE DEF T
<1>3. T = Nat
  <2>1. T \in SUBSET Nat BY DEF T
  <2> QED BY <1>1, <1>2, <2>1, SetInduction
<1> QED BY <1>3 DEF T

-----------------------------------------------------------------------------
(* Sequences *)

\* Sequences with the same elements are the same.
LEMMA SameSeq ==
  ASSUME NEW S, NEW s \in Seq(S), NEW t \in Seq(S), Len(s) = Len(t),
         \A i \in 1 .. Len(s) : s[i] = t[i]
  PROVE  s = t
  OBVIOUS

\* Append as a function on indices.
LEMMA AppendAsFunction ==
  ASSUME NEW S, NEW s \in Seq(S), NEW e \in S
  PROVE  Append(s, e) = [i \in 1 .. Len(s) + 1 |-> IF i <= Len(s) THEN s[i] ELSE e]
<1> DEFINE t == [i \in 1 .. Len(s) + 1 |-> IF i <= Len(s) THEN s[i] ELSE e]
<1>1. t \in Seq(S) /\ Len(t) = Len(s) + 1 OBVIOUS
<1>2. \A i \in 1 .. Len(s) + 1 : Append(s, e)[i] = t[i] OBVIOUS
<1> HIDE DEF t
<1>3. Append(s, e) \in Seq(S) /\ Len(Append(s, e)) = Len(s) + 1 OBVIOUS
<1>4. Append(s, e) = t BY <1>1, <1>2, <1>3, SameSeq
<1> QED BY <1>4 DEF t

\* Tail as a function on indices.
LEMMA TailAsFunction ==
  ASSUME NEW S, NEW s \in Seq(S), Len(s) # 0
  PROVE  s # <<>> /\ Tail(s) = [i \in 1 .. Len(s) - 1 |-> s[i + 1]]
<1> DEFINE t == [i \in 1 .. Len(s) - 1 |-> s[i + 1]]
<1>0. Len(s) - 1 \in Nat /\ s # <<>> OBVIOUS
<1>1. t \in Seq(S) /\ Len(t) = Len(s) - 1 BY <1>0
<1>2. \A i \in 1 .. Len(s) - 1 : Tail(s)[i] = t[i] BY <1>0
<1>3. Tail(s) \in Seq(S) /\ Len(Tail(s)) = Len(s) - 1 BY <1>0
<1> HIDE DEF t
<1>4. Tail(s) = t BY <1>1, <1>2, <1>3, SameSeq
<1> QED BY <1>0, <1>4 DEF t

\* Two slices side by side.
LEMMA PairOfSeqs ==
  ASSUME NEW S, NEW x \in S, NEW y \in S
  PROVE  <<x>> \o <<y>> = <<x, y>>
<1> DEFINE a == <<x>>
           b == <<y>>
           c == <<x, y>>
<1>1. a \in Seq(S) /\ Len(a) = 1 /\ a[1] = x OBVIOUS
<1>2. b \in Seq(S) /\ Len(b) = 1 /\ b[1] = y OBVIOUS
<1>3. c \in Seq(S) /\ Len(c) = 2 /\ c[1] = x /\ c[2] = y OBVIOUS
<1> HIDE DEF a, b, c
<1>4. /\ a \o b \in Seq(S) /\ Len(a \o b) = Len(a) + Len(b)
      /\ \A i \in 1 .. Len(a) + Len(b) : (a \o b)[i] = IF i <= Len(a) THEN a[i] ELSE b[i - Len(a)]
  <2>1. a \in Seq(S) /\ b \in Seq(S) BY <1>1, <1>2
  <2> QED BY <2>1
<1>5. (a \o b)[1] = x /\ (a \o b)[2] = y /\ Len(a \o b) = 2 BY <1>1, <1>2, <1>4
<1>6. \A i \in 1 .. 2 : i = 1 \/ i = 2 OBVIOUS
<1>7. a \o b = c BY Zenon, <1>3, <1>4, <1>5, <1>6, SameSeq
<1> QED BY <1>7 DEF a, b, c

-----------------------------------------------------------------------------
(* Cells *)

\* The k-th cell from head on.
Cell(k) == (head + k) % N

\* The next index of the ring without the modulus.
LEMMA Successor ==
  ASSUME NEW c \in Cells
  PROVE  (c + 1) % N = IF c + 1 < N THEN c + 1 ELSE 0
<1> USE RingAssumption DEF Cells
<1>1. CASE c + 1 < N BY <1>1
<1>2. CASE c + 1 = N BY <1>2
<1> QED BY <1>1, <1>2

Places == ring \in [Cells -> Elems] /\ head \in Cells /\ tail \in Cells

\* The cells counted from head, without the modulus.
LEMMA CellFacts ==
  ASSUME head \in Cells
  PROVE  /\ \A k \in 0 .. N : Cell(k) = IF head + k < N THEN head + k ELSE head + k - N
         /\ \A k \in 0 .. N : Cell(k) \in Cells
         /\ Cell(0) = head /\ Cell(N) = head
<1> USE RingAssumption DEF Cells
<1>1. ASSUME NEW k \in 0 .. N
      PROVE  Cell(k) = IF head + k < N THEN head + k ELSE head + k - N
  <2>1. CASE head + k < N BY <2>1 DEF Cell
  <2>2. CASE ~(head + k < N) BY <2>2 DEF Cell
  <2> QED BY <2>1, <2>2
<1>2. ASSUME NEW k \in 0 .. N PROVE Cell(k) \in Cells
  BY <1>1
<1>3. Cell(0) = head BY <1>1
<1>4. Cell(N) = head BY <1>1
<1> QED BY <1>1, <1>2, <1>3, <1>4

\* Counting from head, no cell comes twice.
LEMMA CellDiffers ==
  ASSUME head \in Cells, NEW k \in 0 .. N - 1, NEW l \in 0 .. N - 1, Cell(k) = Cell(l)
  PROVE  k = l
<1> USE RingAssumption DEF Cells
<1>1. Cell(k) = IF head + k < N THEN head + k ELSE head + k - N BY CellFacts
<1>2. Cell(l) = IF head + l < N THEN head + l ELSE head + l - N BY CellFacts
<1> DEFINE c == Cell(k)
<1>3. c \in 0 .. N - 1 BY CellFacts
<1>4. c = Cell(l) OBVIOUS
<1> HIDE DEF c
<1>5. /\ c = head + k \/ c = head + k - N
      /\ c = head + l \/ c = head + l - N
  BY Zenon, <1>1, <1>2, <1>4 DEF c
<1> QED BY <1>3, <1>5

\* The index after one cell is the next cell.
LEMMA CellNext ==
  ASSUME head \in Cells, NEW k \in 0 .. N - 1
  PROVE  (Cell(k) + 1) % N = Cell(k + 1)
<1> USE RingAssumption DEF Cells
<1>1. Cell(k) = IF head + k < N THEN head + k ELSE head + k - N BY CellFacts
<1>2. Cell(k + 1) = IF head + (k + 1) < N THEN head + (k + 1) ELSE head + (k + 1) - N BY CellFacts
<1>3. Cell(k) \in Cells BY CellFacts
<1>4. (Cell(k) + 1) % N = IF Cell(k) + 1 < N THEN Cell(k) + 1 ELSE 0 BY <1>3, Successor
<1> QED BY <1>1, <1>2, <1>4

\* len is how far tail is from head.
LEMMA LenFacts ==
  ASSUME Places
  PROVE  /\ len \in 0 .. N - 1 /\ tail = Cell(len)
         /\ is_full <=> len = N - 1
         /\ has_elements <=> len # 0
<1> USE RingAssumption DEF Cells, Places
<1>1. len \in 0 .. N - 1 BY DEF len
<1>2. tail = Cell(len)
  <2>1. Cell(len) = IF head + len < N THEN head + len ELSE head + len - N BY <1>1, CellFacts
  <2> QED BY <2>1 DEF len
<1>3. (tail + 1) % N = IF tail + 1 < N THEN tail + 1 ELSE 0 BY Successor
<1>4. is_full <=> len = N - 1 BY <1>3 DEF is_full, len
<1>5. has_elements <=> len # 0 BY DEF has_elements, len
<1> QED BY <1>1, <1>2, <1>4, <1>5

\* len() is how far the tail is from the head.
LEMMA LenOfTail ==
  ASSUME Places, NEW k \in 0 .. N - 1, tail = Cell(k)
  PROVE  len = k
  BY LenFacts, CellDiffers DEF Places

\* The contents are the elements from head up to tail, len() of them.
LEMMA ContentsFacts ==
  ASSUME Places
  PROVE  /\ Contents \in Seq(Elems) /\ Len(Contents) = len
         /\ \A i \in 1 .. len : Contents[i] = ring[Cell(i - 1)]
<1>1. len \in Nat BY LenFacts, RingAssumption
<1>2. ASSUME NEW i \in 1 .. len
      PROVE  ring[(head + i - 1) % N] = ring[Cell(i - 1)] /\ ring[Cell(i - 1)] \in Elems
  <2>1. i - 1 \in 0 .. N BY LenFacts, RingAssumption
  <2>2. Cell(i - 1) \in Cells BY <2>1, CellFacts DEF Places
  <2>3. head + i - 1 = head + (i - 1) BY <1>1 DEF Places, Cells
  <2> QED BY <2>2, <2>3 DEF Places, Cell
<1>3. Contents \in [1 .. len -> Elems] BY <1>2 DEF Contents
<1>4. Contents \in Seq(Elems) /\ Len(Contents) = len BY <1>1, <1>3
<1> QED BY Zenon, <1>2, <1>4 DEF Contents

-----------------------------------------------------------------------------
(* retain *)

RetainStates == [ring : [Cells -> Elems], dst : Cells]

\* What retain()'s loop has achieved after n elements, of which it has kept ks:
\* those are in the cells up to dst, and the elements to come are where they were.
RetainRel(n, st, ks) ==
  /\ st \in RetainStates /\ ks \in Seq(Elems) /\ Len(ks) <= n
  /\ st.dst = Cell(Len(ks))
  /\ \A k \in 1 .. Len(ks) : st.ring[Cell(k - 1)] = ks[k]
  /\ \A k \in n + 1 .. len : st.ring[Cell(k - 1)] = ring[Cell(k - 1)]

\* One pass through retain's loop stays within the ring.
LEMMA RetainStepType ==
  ASSUME Places, NEW keep, NEW n \in Nat, NEW st \in RetainStates
  PROVE  RetainStep(keep, n, st) \in RetainStates
<1> USE RingAssumption DEF Places, Cells
<1> DEFINE src == (head + n - 1) % N
<1>1. src \in Cells
  <2>1. head + n - 1 \in Int OBVIOUS
  <2> QED BY <2>1
<1>2. st.ring \in [Cells -> Elems] /\ st.dst \in Cells BY DEF RetainStates
<1>3. (st.dst + 1) % N \in Cells
  <2>1. st.dst + 1 \in Int BY <1>2
  <2> QED BY <2>1
<1> HIDE DEF src, Cells
<1>4. [st.ring EXCEPT ![st.dst] = st.ring[src]] \in [Cells -> Elems] BY <1>1, <1>2
<1> QED BY <1>3, <1>4 DEF RetainStep, RetainStates, src

\* One pass compacts one more element, or drops it, and overwrites none still to
\* come.
LEMMA RetainRelStep ==
  ASSUME Places, NEW keep, NEW n \in 1 .. len, NEW st, NEW ks, RetainRel(n - 1, st, ks)
  PROVE  RetainRel(n, RetainStep(keep, n, st),
                   IF Contents[n] \in keep THEN Append(ks, Contents[n]) ELSE ks)
<1> DEFINE e == Contents[n]
           m == Len(ks)
<1>1. len \in 0 .. N - 1 /\ N \in Nat /\ head \in Nat /\ head \in Cells
  BY LenFacts, RingAssumption DEF Places, Cells
<1>2. /\ st \in RetainStates /\ ks \in Seq(Elems) /\ m <= n - 1 /\ m \in Nat
      /\ st.dst = Cell(m) /\ st.ring \in [Cells -> Elems] /\ st.dst \in Cells
      /\ \A k \in 1 .. m : st.ring[Cell(k - 1)] = ks[k]
      /\ \A k \in n .. len : st.ring[Cell(k - 1)] = ring[Cell(k - 1)]
  <2>1. (n - 1) + 1 = n BY <1>1
  <2> QED BY <2>1 DEF RetainRel, RetainStates
<1>3. (head + n - 1) % N = Cell(n - 1)
  <2>1. head + n - 1 = head + (n - 1) BY <1>1
  <2> QED BY <2>1 DEF Cell
<1>4. e = st.ring[Cell(n - 1)] /\ e \in Elems
  <2>1. e = ring[Cell(n - 1)] /\ e \in Elems BY ContentsFacts
  <2>2. n \in n .. len BY <1>1
  <2> QED BY <1>2, <2>1, <2>2
<1>5. RetainStep(keep, n, st) \in RetainStates
  <2>1. n \in Nat BY <1>1
  <2> QED BY <1>2, <2>1, RetainStepType
<1> HIDE DEF e
<1>6. CASE e \notin keep
  <2>1. RetainStep(keep, n, st) = st BY <1>3, <1>4, <1>6 DEF RetainStep
  <2>2. \A k \in n + 1 .. len : st.ring[Cell(k - 1)] = ring[Cell(k - 1)] BY <1>1, <1>2
  <2>3. RetainRel(n, st, ks) BY <1>1, <1>2, <2>2 DEF RetainRel
  <2> QED BY <1>6, <2>1, <2>3 DEF e
<1>7. CASE e \in keep
  <2> DEFINE r1 == [st.ring EXCEPT ![Cell(m)] = e]
             st1 == [ring |-> r1, dst |-> Cell(m + 1)]
             ks1 == Append(ks, e)
  <2>1. (Cell(m) + 1) % N = Cell(m + 1)
    <3>1. m \in 0 .. N - 1 BY <1>1, <1>2
    <3> QED BY <1>1, <3>1, CellNext
  <2>2. RetainStep(keep, n, st) = st1 BY <1>2, <1>3, <1>4, <1>7, <2>1 DEF RetainStep
  <2>3. ks1 \in Seq(Elems) /\ Len(ks1) = m + 1 /\ ks1[m + 1] = e
        /\ \A k \in 1 .. m : ks1[k] = ks[k]
    BY <1>2, <1>4
  <2>4. \A k \in 1 .. N : Cell(k - 1) \in Cells
    <3> TAKE k \in 1 .. N
    <3>1. k - 1 \in 0 .. N BY <1>1
    <3> QED BY <1>1, <3>1, CellFacts
  <2>5. \A k \in 1 .. N : k - 1 # m => r1[Cell(k - 1)] = st.ring[Cell(k - 1)]
    <3> TAKE k \in 1 .. N
    <3>1. k - 1 \in 0 .. N - 1 /\ m \in 0 .. N - 1 BY <1>1, <1>2
    <3> HAVE k - 1 # m
    <3>2. Cell(k - 1) # Cell(m) BY <1>1, <3>1, CellDiffers
    <3> QED BY <1>2, <2>4, <3>2
  <2>6. r1[Cell(m)] = e BY <1>2
  <2> HIDE DEF r1, ks1
  <2>7. ASSUME NEW k \in 1 .. m + 1 PROVE r1[Cell(k - 1)] = ks1[k]
    <3>1. CASE k = m + 1
      <4>1. k - 1 = m BY <1>2, <3>1
      <4> QED BY <2>3, <2>6, <3>1, <4>1
    <3>2. CASE k # m + 1
      <4>1. k \in 1 .. m /\ k \in 1 .. N /\ k - 1 # m BY <1>1, <1>2, <3>2
      <4> QED BY <1>2, <2>3, <2>5, <4>1
    <3> QED BY <3>1, <3>2
  <2>8. ASSUME NEW k \in n + 1 .. len PROVE r1[Cell(k - 1)] = ring[Cell(k - 1)]
    <3>1. k \in n .. len /\ k \in 1 .. N /\ k - 1 # m BY <1>1, <1>2
    <3> QED BY <1>2, <2>5, <3>1
  <2>9. st1.ring = r1 /\ st1.dst = Cell(m + 1) /\ m + 1 <= n BY <1>1, <1>2
  <2> HIDE DEF st1
  <2>10. RetainRel(n, st1, ks1) BY <1>5, <2>2, <2>3, <2>7, <2>8, <2>9 DEF RetainRel
  <2> QED BY <1>7, <2>2, <2>10 DEF e, ks1
<1> QED BY <1>6, <1>7 DEF e

\* retain's loop is the repetition of its passes.
LEMMA RetainLoopUnfolds ==
  ASSUME Places, NEW keep
  PROVE  \E g : /\ RetainLoop(keep) = g[len]
               /\ \A n \in 0 .. len : g[n] = IF n = 0 THEN [ring |-> ring, dst |-> head]
                                             ELSE RetainStep(keep, n, g[n - 1])
<1> DEFINE body(g) == [n \in 0 .. len |-> IF n = 0 THEN [ring |-> ring, dst |-> head]
                                        ELSE RetainStep(keep, n, g[n - 1])]
           step == [n \in Nat |-> [st \in RetainStates |-> RetainStep(keep, n, st)]]
           first == [ring |-> ring, dst |-> head]
<1>1. first \in RetainStates BY DEF RetainStates, Places
<1>2. step \in [Nat -> [RetainStates -> RetainStates]] BY RetainStepType
<1>3. len \in Nat BY LenFacts, RingAssumption
<1> HIDE DEF step, first
<1>4. PICK g \in [0 .. len -> RetainStates] : IsHistory(g, first, step, len)
  BY <1>1, <1>2, <1>3, Iteration
<1>5. \A n \in 0 .. len : n # 0 => step[n][g[n - 1]] = RetainStep(keep, n, g[n - 1])
  BY <1>3 DEF step
<1>6. g = body(g) BY <1>4, <1>5 DEF IsHistory, first
<1> DEFINE h == CHOOSE f : f = body(f)
<1>7. h = body(h) BY Zenon, <1>6
<1>8. RetainLoop(keep) = h[len] BY DEF RetainLoop
<1> HIDE DEF h
<1> QED BY Zenon, <1>7, <1>8

\* What the trait keeps, one element at a time.
LEMMA RetainedUnfolds ==
  ASSUME Places, NEW keep
  PROVE  \E g : /\ Abstract!Retained(keep) = g[len]
               /\ \A n \in 0 .. len :
                    g[n] = IF n = 0 THEN <<>>
                           ELSE IF Contents[n] \in keep THEN Append(g[n - 1], Contents[n]) ELSE g[n - 1]
<1> DEFINE body(g) == [n \in 0 .. len |->
                         IF n = 0 THEN <<>>
                         ELSE IF Contents[n] \in keep THEN Append(g[n - 1], Contents[n]) ELSE g[n - 1]]
           step == [n \in Nat |-> [ks \in Seq(Elems) |->
                     IF n \in 1 .. len /\ Contents[n] \in keep THEN Append(ks, Contents[n]) ELSE ks]]
<1>1. <<>> \in Seq(Elems) OBVIOUS
<1>2. \A n \in 1 .. len : Contents[n] \in Elems BY ContentsFacts
<1>3. step \in [Nat -> [Seq(Elems) -> Seq(Elems)]] BY <1>2
<1>4. len \in Nat /\ Len(Contents) = len BY LenFacts, ContentsFacts, RingAssumption
<1> HIDE DEF step
<1>5. PICK g \in [0 .. len -> Seq(Elems)] : IsHistory(g, <<>>, step, len)
  BY Zenon, <1>1, <1>3, <1>4, Iteration
<1>6. ASSUME NEW n \in 0 .. len, n # 0
      PROVE  step[n][g[n - 1]] = IF Contents[n] \in keep THEN Append(g[n - 1], Contents[n]) ELSE g[n - 1]
  <2>1. n \in 1 .. len /\ n \in Nat /\ n - 1 \in 0 .. len BY <1>4, <1>6
  <2>2. g[n - 1] \in Seq(Elems) BY <2>1
  <2> QED BY <2>1, <2>2 DEF step
<1>7. g = body(g) BY Zenon, <1>5, <1>6 DEF IsHistory
<1> DEFINE h == CHOOSE f : f = body(f)
<1>8. h = body(h) BY Zenon, <1>7
<1>9. Abstract!Retained(keep) = h[len] BY <1>4 DEF Abstract!Retained
<1> HIDE DEF h
<1> QED BY Zenon, <1>8, <1>9

\* retain()'s loop compacts the ring to the elements it keeps, in their order.
LEMMA RetainCompacts ==
  ASSUME Places, NEW keep
  PROVE  RetainRel(len, RetainLoop(keep), Abstract!Retained(keep))
<1>1. len \in 0 .. N - 1 /\ N \in Nat BY LenFacts, RingAssumption
<1>2. PICK g : /\ RetainLoop(keep) = g[len]
               /\ \A n \in 0 .. len : g[n] = IF n = 0 THEN [ring |-> ring, dst |-> head]
                                             ELSE RetainStep(keep, n, g[n - 1])
  BY RetainLoopUnfolds
<1>3. PICK h : /\ Abstract!Retained(keep) = h[len]
               /\ \A n \in 0 .. len :
                    h[n] = IF n = 0 THEN <<>>
                           ELSE IF Contents[n] \in keep THEN Append(h[n - 1], Contents[n]) ELSE h[n - 1]
  BY RetainedUnfolds
<1> DEFINE T == {n \in Nat : n <= len => RetainRel(n, g[n], h[n])}
<1>4. 0 \in T
  <2>1. g[0] = [ring |-> ring, dst |-> head] /\ h[0] = <<>> BY <1>1, <1>2, <1>3
  <2>2. head = Cell(0) BY CellFacts DEF Places
  <2>3. RetainRel(0, [ring |-> ring, dst |-> head], <<>>)
    BY <2>2 DEF RetainRel, RetainStates, Places
  <2> QED BY <2>1, <2>3
<1>5. ASSUME NEW n \in Nat, n \in T PROVE n + 1 \in T
  <2>1. SUFFICES ASSUME n + 1 <= len PROVE RetainRel(n + 1, g[n + 1], h[n + 1]) OBVIOUS
  <2>2. n + 1 \in 1 .. len /\ n + 1 \in 0 .. len /\ n + 1 # 0 /\ (n + 1) - 1 = n /\ n <= len
    BY <1>1, <2>1
  <2>3. RetainRel(n, g[n], h[n]) BY <1>5, <2>2
  <2>4. g[n + 1] = RetainStep(keep, n + 1, g[n]) BY <1>2, <2>2
  <2>5. h[n + 1] = IF Contents[n + 1] \in keep THEN Append(h[n], Contents[n + 1]) ELSE h[n]
    BY <1>3, <2>2
  <2> QED BY <2>2, <2>3, <2>4, <2>5, RetainRelStep
<1> HIDE DEF T
<1>6. T = Nat
  <2>1. T \in SUBSET Nat BY DEF T
  <2> QED BY <1>4, <1>5, <2>1, SetInduction
<1>7. len \in Nat /\ len <= len BY <1>1
<1>8. RetainRel(len, g[len], h[len]) BY <1>6, <1>7 DEF T
<1> QED BY <1>2, <1>3, <1>8

-----------------------------------------------------------------------------
(* The invariant, and the views *)

\* What the ring holds after a step that leaves tail m cells after head.
LEMMA NewContents ==
  ASSUME Places', NEW m \in 0 .. N - 1, tail' = (head' + m) % N
  PROVE  /\ len' = m
         /\ Contents' = [i \in 1 .. m |-> ring'[(head' + i - 1) % N]]
<1> USE RingAssumption
<1>1. head' \in 0 .. N - 1 /\ tail' \in 0 .. N - 1 BY Zenon DEF Places, Cells
<1> DEFINE h == head'
           t == tail'
<1>2. h \in 0 .. N - 1 /\ t \in 0 .. N - 1 /\ t = (h + m) % N BY Zenon, <1>1
<1>3. len' = IF t > h THEN t - h ELSE IF t < h THEN (N - h) + t ELSE 0 BY DEF len
<1> HIDE DEF h, t
<1>4. t = IF h + m < N THEN h + m ELSE h + m - N
  <2>1. CASE h + m < N BY <1>2, <2>1
  <2>2. CASE ~(h + m < N) BY <1>2, <2>2
  <2> QED BY <2>1, <2>2
<1>5. len' = m BY <1>2, <1>3, <1>4
<1> QED BY <1>5 DEF Contents

\* retain leaves what the trait says it keeps, in order.
LEMMA RetainedState ==
  ASSUME Places, NEW keep, retain(keep)
  PROVE  /\ Places'
         /\ len' = Len(Abstract!Retained(keep))
         /\ Contents' = Abstract!Retained(keep)
<1> DEFINE st == RetainLoop(keep)
           ks == Abstract!Retained(keep)
<1>1. RetainRel(len, st, ks) BY RetainCompacts
<1>2. ring' = st.ring /\ tail' = st.dst /\ head' = head BY DEF retain
<1> HIDE DEF st, ks
<1>3. len \in 0 .. N - 1 /\ N \in Nat /\ head \in Cells BY LenFacts, RingAssumption DEF Places
<1>4. ks \in Seq(Elems) /\ Len(ks) \in 0 .. N - 1 BY <1>1, <1>3 DEF RetainRel
<1>5. Places' BY <1>1, <1>2 DEF Places, RetainRel, RetainStates
<1>6. tail' = (head' + Len(ks)) % N BY <1>1, <1>2 DEF RetainRel, Cell
<1>7. len' = Len(ks) /\ Contents' = [k \in 1 .. Len(ks) |-> ring'[(head' + k - 1) % N]]
  BY <1>4, <1>5, <1>6, NewContents
<1>8. Contents' = ks
  <2>1. Contents' = [k \in 1 .. Len(ks) |-> ring'[(head + k - 1) % N]]
    BY <1>2, <1>7
  <2>2. ASSUME NEW k \in 1 .. Len(ks) PROVE ring'[(head + k - 1) % N] = ks[k]
    <3>1. head + k - 1 = head + (k - 1) BY <1>3, <1>4 DEF Cells
    <3> QED BY <1>1, <1>2, <3>1 DEF RetainRel, Cell
  <2>3. ks = [k \in 1 .. Len(ks) |-> ks[k]] BY <1>4
  <2> QED BY <2>1, <2>2, <2>3
<1> QED BY <1>5, <1>7, <1>8 DEF ks

\* Every operation keeps head, tail and cells in range.
LEMMA RingTypes == RingTypeOK /\ [RingNext]_ringvars => RingTypeOK'
<1> SUFFICES ASSUME RingTypeOK, [RingNext]_ringvars PROVE RingTypeOK' OBVIOUS
<1>1. Places BY DEF RingTypeOK, Places
<1>2. \A c \in Cells : (c + 1) % N \in Cells BY RingAssumption DEF Cells
<1>3. 0 \in Cells BY RingAssumption DEF Cells
<1>4. CASE UNCHANGED ringvars BY <1>4 DEF ringvars, RingTypeOK
<1>5. ASSUME NEW val \in Elems, enqueue(val) PROVE RingTypeOK' BY Zenon, <1>2, <1>5 DEF enqueue, RingTypeOK
<1>6. ASSUME NEW val \in Elems, push(val) PROVE RingTypeOK' BY <1>2, <1>6 DEF push, RingTypeOK
<1>7. CASE dequeue BY <1>2, <1>7 DEF dequeue, RingTypeOK
<1>8. CASE empty BY <1>3, <1>8 DEF empty, RingTypeOK
<1>9. ASSUME NEW keep \in SUBSET Elems, retain(keep) PROVE RingTypeOK'
  <2>1. Places' BY <1>1, <1>9, RetainedState
  <2> QED BY <1>9, <2>1 DEF retain, Places, RingTypeOK
<1> QED BY <1>4, <1>5, <1>6, <1>7, <1>8, <1>9 DEF RingNext

\* The ring starts in range.
LEMMA RingStarts == RingInit => RingTypeOK
  BY RingAssumption DEF RingInit, RingTypeOK, Cells

\* In range, the views agree.
LEMMA TypesGiveViews == RingTypeOK => ViewsAgree
<1> SUFFICES ASSUME RingTypeOK PROVE ViewsAgree OBVIOUS
<1>0. Places BY DEF RingTypeOK, Places
<1>1. len \in 0 .. N - 1 /\ N \in Nat /\ N >= 2 /\ head \in 0 .. N - 1 /\ tail \in 0 .. N - 1
  BY <1>0, LenFacts, RingAssumption DEF Places, Cells
<1>2. available_len = N - (1 + len) BY <1>1 DEF available_len
<1>3. len + available_len = N - 1 BY <1>1, <1>2
<1>4. is_full <=> available_len = 0
  <2>1. is_full <=> len = N - 1 BY <1>0, LenFacts
  <2> QED BY <1>1, <1>2, <2>1
<1>5. Contents \in Seq(Elems) /\ Len(Contents) = len BY <1>0, ContentsFacts
<1>6. ASSUME NEW i \in 1 .. len
      PROVE  Contents[i] = ring[IF head + i - 1 < N THEN head + i - 1 ELSE head + i - 1 - N]
  <2>1. i - 1 \in 0 .. N /\ head + (i - 1) = head + i - 1 BY <1>1
  <2>2. Cell(i - 1) = IF head + (i - 1) < N THEN head + (i - 1) ELSE head + (i - 1) - N
    BY <1>0, <2>1, CellFacts DEF Places
  <2> QED BY <1>0, <2>1, <2>2, ContentsFacts
<1>7. CASE head < tail
  <2>1. len = tail - head BY <1>1, <1>7 DEF len
  <2>2. ASSUME NEW i \in 1 .. len PROVE Contents[i] = ring[head + i - 1]
    <3>1. head + i - 1 < N BY <1>1, <2>1
    <3> QED BY <1>6, <3>1
  <2>3. Contents = Slice(head, tail) BY <1>5, <2>1, <2>2 DEF Slice
  <2>4. as_slices = <<Contents>> BY <1>7, <2>3 DEF as_slices
  <2>5. as_slices # <<>> BY <2>4
  <2> QED BY <1>3, <1>4, <2>4, <2>5 DEF ViewsAgree
<1>8. CASE head > tail
  <2> DEFINE k == N - head
  <2>1. len = k + tail /\ k \in 1 .. len BY <1>1, <1>8 DEF len
  <2>2. ASSUME NEW i \in 1 .. k PROVE Contents[i] = ring[head + i - 1]
    <3>1. i \in 1 .. len /\ head + i - 1 < N BY <1>1, <2>1
    <3> QED BY <1>6, <3>1
  <2>3. ASSUME NEW i \in 1 .. tail PROVE Contents[k + i] = ring[0 + i - 1]
    <3>1. k + i \in 1 .. len /\ ~(head + (k + i) - 1 < N) /\ head + (k + i) - 1 - N = 0 + i - 1
      BY <1>1, <2>1
    <3> QED BY <1>6, <3>1
  <2>4. SubSeq(Contents, 1, k) = Slice(head, N)
    <3>1. SubSeq(Contents, 1, k) \in Seq(Elems) /\ Len(SubSeq(Contents, 1, k)) = k
          /\ \A i \in 1 .. k : SubSeq(Contents, 1, k)[i] = Contents[i]
      BY <1>1, <1>5, <2>1
    <3> QED BY <1>1, <2>2, <3>1 DEF Slice
  <2>5. SubSeq(Contents, k + 1, len) = Slice(0, tail)
    <3> DEFINE b == SubSeq(Contents, k + 1, len)
    <3>1. b \in Seq(Elems) /\ Len(b) = tail /\ \A i \in 1 .. tail : b[i] = Contents[k + i]
      BY <1>1, <1>5, <2>1
    <3> HIDE DEF b
    <3>2. b = [i \in 1 .. tail |-> b[i]] BY <1>1, <3>1
    <3>3. b = [i \in 1 .. tail |-> ring[0 + i - 1]] BY <2>3, <3>1, <3>2
    <3>4. tail - 0 = tail BY <1>1
    <3>5. b = Slice(0, tail) BY <3>3, <3>4 DEF Slice
    <3> QED BY <3>5 DEF b
  <2>6. CASE tail = 0
    <3>1. SubSeq(Contents, 1, k) = Contents BY <1>1, <1>5, <2>1, <2>6
    <3>2. as_slices = <<Contents>> BY <1>1, <1>8, <2>4, <2>6, <3>1 DEF as_slices
    <3>3. as_slices # <<>> BY <3>2
    <3> QED BY <1>3, <1>4, <3>2, <3>3 DEF ViewsAgree
  <2>7. CASE tail # 0
    <3>1. k \in 1 .. len - 1 BY <1>1, <2>1, <2>7
    <3>2. as_slices = <<SubSeq(Contents, 1, k), SubSeq(Contents, k + 1, len)>>
      <4>1. as_slices = <<Slice(head, N)>> \o <<Slice(0, tail)>>
        BY <1>1, <1>8, <2>7 DEF as_slices
      <4>2. \A x, y \in Seq(Elems) : <<x>> \o <<y>> = <<x, y>> BY Zenon, PairOfSeqs
      <4>3. SubSeq(Contents, 1, k) \in Seq(Elems) /\ SubSeq(Contents, k + 1, len) \in Seq(Elems)
        BY <1>1, <1>5, <3>1
      <4> QED BY Zenon, <2>4, <2>5, <4>1, <4>2, <4>3
    <3>3. as_slices # <<>> BY <3>2
    <3> QED BY Zenon, <1>3, <1>4, <3>1, <3>2, <3>3 DEF ViewsAgree
  <2> QED BY <2>6, <2>7
<1>9. CASE ~(head < tail) /\ ~(head > tail)
  <2>1. as_slices = <<>> BY <1>9 DEF as_slices
  <2>2. len = 0 BY <1>1, <1>9 DEF len
  <2> QED BY <1>3, <1>4, <2>1, <2>2 DEF ViewsAgree
<1> QED BY <1>7, <1>8, <1>9

\* For a ring of any size, the indices stay inside it and len, available_len and
\* as_slices agree with what it holds, also when that wraps around its end.
THEOREM ViewsAlwaysAgree == RingSpec => []ViewsAgree
  BY RingStarts, RingTypes, TypesGiveViews, PTL DEF RingSpec

-----------------------------------------------------------------------------
(* The refinement *)

\* Writing at the tail and moving it appends to the contents.
LEMMA AppendCell ==
  ASSUME Places, Places', NEW val \in Elems, ring' = [ring EXCEPT ![tail] = val],
         tail' = (tail + 1) % N, head' = head, ~is_full
  PROVE  Contents' = Append(Contents, val)
<1> USE RingAssumption
<1>1. len \in 0 .. N - 2 /\ tail = Cell(len) /\ head \in Cells BY LenFacts DEF Places
<1>2. tail' = (head' + (len + 1)) % N BY <1>1, CellNext DEF Cell
<1>3. len + 1 \in 0 .. N - 1 BY <1>1
<1>4. Contents' = [i \in 1 .. len + 1 |-> ring'[(head' + i - 1) % N]] BY <1>2, <1>3, NewContents
<1>5. Contents \in Seq(Elems) /\ Len(Contents) = len
      /\ \A i \in 1 .. len : Contents[i] = ring[Cell(i - 1)]
  BY ContentsFacts
<1>6. ASSUME NEW i \in 1 .. len + 1
      PROVE  ring'[(head' + i - 1) % N] = IF i <= len THEN Contents[i] ELSE val
  <2>1. head' + i - 1 = head + (i - 1) /\ i - 1 \in 0 .. N - 1 /\ i - 1 \in 0 .. N
    BY <1>1 DEF Cells
  <2>2. (head' + i - 1) % N = Cell(i - 1) /\ Cell(i - 1) \in Cells BY <1>1, <2>1, CellFacts DEF Cell
  <2>3. CASE i <= len
    <3>1. i - 1 # len /\ len \in 0 .. N - 1 /\ i \in 1 .. len BY <1>1, <2>3
    <3>2. Cell(i - 1) # tail BY <1>1, <2>1, <3>1, CellDiffers
    <3> QED BY <1>5, <2>2, <2>3, <3>1, <3>2 DEF Places
  <2>4. CASE ~(i <= len)
    <3>1. i - 1 = len BY <1>1, <2>4
    <3>2. Cell(i - 1) = tail BY <1>1, <3>1
    <3> QED BY <2>2, <2>4, <3>2 DEF Places
  <2> QED BY <2>3, <2>4
<1>7. Contents' = [i \in 1 .. len + 1 |-> IF i <= len THEN Contents[i] ELSE val] BY <1>4, <1>6
<1>8. Append(Contents, val)
        = [i \in 1 .. Len(Contents) + 1 |-> IF i <= Len(Contents) THEN Contents[i] ELSE val]
  <2>1. Contents \in Seq(Elems) BY <1>5
  <2> QED BY <2>1, AppendAsFunction
<1> QED BY <1>5, <1>7, <1>8, Zenon

\* When head moves by one, the cells move by one.
LEMMA HeadMoves ==
  ASSUME Places, Places', head' = (head + 1) % N
  PROVE  \A k \in 0 .. N - 1 : (head' + k) % N = Cell(k + 1)
<1> USE RingAssumption
<1> DEFINE h == head'
<1>1. h \in 0 .. N - 1 BY DEF Places, Cells
<1>2. h = IF head + 1 < N THEN head + 1 ELSE 0 BY Successor DEF Places
<1> HIDE DEF h
<1> TAKE k \in 0 .. N - 1
<1>3. (h + k) % N = IF h + k < N THEN h + k ELSE h + k - N
  <2>1. ASSUME h + k < N PROVE (h + k) % N = h + k BY <1>1, <2>1
  <2>2. ASSUME ~(h + k < N) PROVE (h + k) % N = h + k - N BY <1>1, <2>2
  <2> QED BY <2>1, <2>2
<1>4. k + 1 \in 0 .. N OBVIOUS
<1>5. Cell(k + 1) = IF head + (k + 1) < N THEN head + (k + 1) ELSE head + (k + 1) - N
  BY <1>4, CellFacts DEF Places
<1>6. (h + k) % N = Cell(k + 1) BY <1>1, <1>2, <1>3, <1>5 DEF Cells, Places
<1> QED BY <1>6 DEF h

\* Moving head drops the first of the contents.
LEMMA DropCell ==
  ASSUME Places, Places', ring' = ring, tail' = tail, head' = (head + 1) % N, has_elements
  PROVE  Contents' = Tail(Contents) /\ ring[head] = Head(Contents) /\ Contents # <<>>
<1> USE RingAssumption
<1>1. len \in 1 .. N - 1 /\ tail = Cell(len) /\ head \in Cells BY LenFacts DEF Places
<1>2. Contents \in Seq(Elems) /\ Len(Contents) = len
      /\ \A i \in 1 .. len : Contents[i] = ring[Cell(i - 1)]
  BY ContentsFacts
<1>3. \A k \in 0 .. N - 1 : (head' + k) % N = Cell(k + 1) BY HeadMoves
<1>4. tail' = (head' + (len - 1)) % N
  <2>1. len - 1 \in 0 .. N - 1 /\ (len - 1) + 1 = len BY <1>1
  <2> QED BY <1>1, <1>3, <2>1
<1>5. Contents' = [i \in 1 .. len - 1 |-> ring'[(head' + i - 1) % N]]
  <2>1. len - 1 \in 0 .. N - 1 BY <1>1
  <2> QED BY <1>4, <2>1, NewContents
<1>6. ASSUME NEW i \in 1 .. len - 1 PROVE ring'[(head' + i - 1) % N] = Contents[i + 1]
  <2>1. head' + i - 1 = head' + (i - 1) /\ i - 1 \in 0 .. N - 1 /\ (i - 1) + 1 = i
        /\ i + 1 \in 1 .. len /\ (i + 1) - 1 = i
    BY <1>1 DEF Places, Cells
  <2> QED BY <1>2, <1>3, <2>1
<1>7. Contents' = [i \in 1 .. len - 1 |-> Contents[i + 1]] BY <1>5, <1>6
<1>8. Contents' = Tail(Contents) /\ Contents # <<>>
  <2>1. Contents \in Seq(Elems) /\ Len(Contents) # 0 BY <1>1, <1>2
  <2>2. Contents # <<>> /\ Tail(Contents) = [i \in 1 .. Len(Contents) - 1 |-> Contents[i + 1]]
    BY <2>1, TailAsFunction, Zenon
  <2> QED BY <1>2, <1>7, <2>2, Zenon
<1>9. ring[head] = Head(Contents)
  <2>1. Contents[1] = ring[Cell(0)] BY <1>1, <1>2
  <2>2. Cell(0) = head BY <1>1, CellFacts
  <2> QED BY <1>1, <1>2, <2>1, <2>2
<1> QED BY <1>8, <1>9

\* push on a full ring.
LEMMA ReplaceCell ==
  ASSUME Places, Places', NEW val \in Elems, is_full,
         ring' = [ring EXCEPT ![tail] = val], tail' = (tail + 1) % N, head' = (head + 1) % N
  PROVE  Contents' = Append(Tail(Contents), val) /\ ring[head] = Head(Contents)
<1> USE RingAssumption
<1>1. len = N - 1 /\ tail = Cell(N - 1) /\ head \in Cells BY LenFacts DEF Places
<1>2. Contents \in Seq(Elems) /\ Len(Contents) = N - 1
      /\ \A i \in 1 .. N - 1 : Contents[i] = ring[Cell(i - 1)]
  BY <1>1, ContentsFacts
<1>3. \A k \in 0 .. N - 1 : (head' + k) % N = Cell(k + 1) BY HeadMoves
<1>4. tail' = (head' + (N - 1)) % N
  <2>1. tail' = Cell((N - 1) + 1)
    <3>1. N - 1 \in 0 .. N - 1 OBVIOUS
    <3> QED BY <1>1, <3>1, CellNext
  <2>2. N - 1 \in 0 .. N - 1 OBVIOUS
  <2> QED BY <1>3, <2>1, <2>2
<1>5. Contents' = [i \in 1 .. N - 1 |-> ring'[(head' + i - 1) % N]]
  <2>1. N - 1 \in 0 .. N - 1 OBVIOUS
  <2> QED BY <1>4, <2>1, NewContents
<1> DEFINE t == Tail(Contents)
<1>6. /\ t \in Seq(Elems) /\ Len(t) = N - 2 /\ Contents # <<>>
      /\ \A i \in 1 .. N - 2 : t[i] = Contents[i + 1]
  BY <1>2
<1>7. ASSUME NEW i \in 1 .. N - 1
      PROVE  ring'[(head' + i - 1) % N] = IF i <= N - 2 THEN t[i] ELSE val
  <2>1. head' + i - 1 = head' + (i - 1) /\ i - 1 \in 0 .. N - 1 /\ (i - 1) + 1 = i
        /\ i \in 0 .. N - 1 /\ i \in 0 .. N
    BY DEF Places, Cells
  <2>2. (head' + i - 1) % N = Cell(i) /\ Cell(i) \in Cells BY <1>1, <1>3, <2>1, CellFacts
  <2>3. CASE i <= N - 2
    <3>1. i + 1 \in 1 .. N - 1 /\ (i + 1) - 1 = i /\ i # N - 1 /\ i \in 1 .. N - 2
          /\ N - 1 \in 0 .. N - 1
      BY <2>3
    <3>2. Cell(i) # tail BY <1>1, <2>1, <3>1, CellDiffers
    <3>3. ring'[Cell(i)] = ring[Cell(i)] BY <2>2, <3>2 DEF Places
    <3> QED BY <1>2, <1>6, <2>2, <2>3, <3>1, <3>3
  <2>4. CASE ~(i <= N - 2)
    <3>1. i = N - 1 BY <2>4
    <3> QED BY <1>1, <2>2, <2>4, <3>1 DEF Places
  <2> QED BY Zenon, <2>3, <2>4
<1> HIDE DEF t
<1>8. Append(t, val) = [i \in 1 .. Len(t) + 1 |-> IF i <= Len(t) THEN t[i] ELSE val]
  BY <1>6, AppendAsFunction
<1>9. Contents' = [i \in 1 .. N - 1 |-> IF i <= N - 2 THEN t[i] ELSE val] BY <1>5, <1>7
<1>10. Contents' = Append(t, val)
  <2>1. Len(t) = N - 2 /\ Len(t) + 1 = N - 1 BY <1>6
  <2> QED BY <1>8, <1>9, <2>1, Zenon
<1>11. ring[head] = Head(Contents)
  <2>1. Contents[1] = ring[Cell(0)] BY <1>2
  <2>2. Cell(0) = head BY <1>1, CellFacts
  <2> QED BY <1>2, <1>6, <2>1, <2>2
<1> QED BY <1>10, <1>11 DEF t

\* Every operation is the operation of the trait, or changes nothing of it.
LEMMA QueueStep ==
  RingTypeOK /\ RingTypeOK' /\ [RingNext]_ringvars => [Abstract!QNext]_(Abstract!qvars)
<1> SUFFICES ASSUME RingTypeOK, RingTypeOK', [RingNext]_ringvars
             PROVE  Abstract!QNext \/ UNCHANGED Abstract!qvars
  OBVIOUS
<1>1. Places /\ Places' BY DEF RingTypeOK, Places
<1>2. Contents \in Seq(Elems) /\ Len(Contents) = len /\ len \in 0 .. N - 1 /\ N \in Nat
  BY <1>1, ContentsFacts, LenFacts, RingAssumption
<1>3. (Abstract!IsFull <=> is_full) /\ (Abstract!HasElements <=> has_elements)
  BY <1>1, <1>2, LenFacts DEF Abstract!IsFull, Abstract!HasElements
<1>4. UNCHANGED <<ring, head, tail>> => UNCHANGED Contents BY DEF Contents, len
<1>5. CASE UNCHANGED ringvars BY <1>4, <1>5 DEF ringvars, Abstract!qvars
<1>6. ASSUME NEW val \in Elems, enqueue(val) PROVE Abstract!QNext
  <2>1. CASE is_full
    BY Zenon, <1>3, <1>4, <1>6, <2>1 DEF enqueue, Abstract!QNext, Abstract!EnqueueItem
  <2>2. CASE ~is_full
    <3>1. Contents' = Append(Contents, val) /\ result' = TRUE
      BY <1>1, <1>6, <2>2, AppendCell DEF enqueue
    <3> QED BY Zenon, <1>3, <2>2, <3>1 DEF Abstract!QNext, Abstract!EnqueueItem
  <2> QED BY <2>1, <2>2
<1>7. ASSUME NEW val \in Elems, push(val) PROVE Abstract!QNext
  <2>1. CASE is_full
    <3>1. Contents' = Append(Tail(Contents), val) /\ result' = Head(Contents)
      BY Zenon, <1>1, <1>7, <2>1, ReplaceCell DEF push
    <3> QED BY <1>3, <2>1, <3>1 DEF Abstract!QNext, Abstract!PushItem
  <2>2. CASE ~is_full
    <3>1. Contents' = Append(Contents, val) /\ result' = None
      BY Zenon, <1>1, <1>7, <2>2, AppendCell DEF push
    <3> QED BY <1>3, <2>2, <3>1 DEF Abstract!QNext, Abstract!PushItem
  <2> QED BY <2>1, <2>2
<1>8. CASE dequeue
  <2>1. CASE has_elements
    <3>1. Contents' = Tail(Contents) /\ result' = Head(Contents)
      BY <1>1, <1>8, <2>1, DropCell DEF dequeue
    <3> QED BY <1>3, <2>1, <3>1 DEF Abstract!QNext, Abstract!DequeueItem
  <2>2. CASE ~has_elements
    BY <1>3, <1>4, <1>8, <2>2 DEF dequeue, Abstract!QNext, Abstract!DequeueItem
  <2> QED BY <2>1, <2>2
<1>9. CASE empty
  <2>1. len' = 0 BY <1>9 DEF empty, len
  <2>2. Contents' = <<>> BY <2>1 DEF Contents
  <2> QED BY <1>9, <2>2 DEF empty, Abstract!QNext, Abstract!EmptyItems
<1>10. ASSUME NEW keep \in SUBSET Elems, retain(keep) PROVE Abstract!QNext
  <2>1. Contents' = Abstract!Retained(keep) BY <1>1, <1>10, RetainedState
  <2> QED BY <1>10, <2>1 DEF retain, Abstract!QNext, Abstract!RetainItems
<1> QED BY <1>5, <1>6, <1>7, <1>8, <1>9, <1>10 DEF RingNext

\* A ring of any size implements the trait Queue, whatever sequence of calls is
\* made: first-in first-out order survives wrap-around, push's overwriting and
\* retain's compaction in place.
THEOREM RingImplementsQueue == RingSpec => ImplementsQueue
<1>1. RingInit => Abstract!QInit
  <2> SUFFICES ASSUME RingInit PROVE Abstract!QInit OBVIOUS
  <2>1. len = 0 BY DEF RingInit, len
  <2>2. Contents = <<>> BY <2>1 DEF Contents
  <2> QED BY <2>2 DEF RingInit, Abstract!QInit
<1> QED BY <1>1, RingStarts, RingTypes, QueueStep, PTL DEF RingSpec, ImplementsQueue, Abstract!QSpec

=============================================================================
