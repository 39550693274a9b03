----------------------------- MODULE RingBuffer -----------------------------
(***************************************************************************)
(* kernel/src/collections/ring_buffer.rs: the circular buffer behind every *)
(* process's task queue.  head is where the oldest element is, tail is     *)
(* where the next one goes, and head = tail means empty, so a ring of N    *)
(* cells holds at most N - 1 elements.                                     *)
(***************************************************************************)
EXTENDS Sequences, Naturals

CONSTANTS Elems,  \* the elements that may be queued
          N,      \* ring.len()
          None    \* the None of an Option

\* `% self.ring.len()` needs a non-empty ring, and a ring of one cell has no
\* room for an element: every user in the kernel passes a longer one.
ASSUME RingAssumption == N \in Nat /\ N >= 2 /\ None \notin Elems

VARIABLES ring, head, tail,
          result  \* what the last operation returned

ringvars == <<ring, head, tail, result>>

Cells == 0 .. N - 1

has_elements == head # tail

is_full == head = (tail + 1) % N

\* Mutant: a wrapped ring's length counted the wrong way round.
LenUnwrapped ==
  IF tail > head THEN tail - head ELSE head - tail

len ==
  IF tail > head THEN tail - head
  ELSE IF tail < head THEN (N - head) + tail
  ELSE 0

\* saturating_sub
available_len == IF N < 1 + len THEN 0 ELSE N - (1 + len)

\* The cells from..to-1 as a sequence, a Rust slice.
Slice(from, to) == [i \in 1 .. to - from |-> ring[from + i - 1]]

\* Up to two slices which, concatenated, are the contents.
as_slices ==
  IF head < tail THEN <<Slice(head, tail)>>
  ELSE IF head > tail
       THEN <<Slice(head, N)>> \o (IF tail = 0 THEN <<>> ELSE <<Slice(0, tail)>>)
  ELSE <<>>

-----------------------------------------------------------------------------
\* RingBuffer::new over a slice of arbitrary content.
RingInit ==
  /\ ring \in [Cells -> Elems]
  /\ head = 0
  /\ tail = 0
  /\ result = None

enqueue(val) ==
  \/ /\ is_full
     /\ result' = FALSE
     /\ UNCHANGED <<ring, head, tail>>
  \/ /\ ~is_full
     /\ ring' = [ring EXCEPT ![tail] = val]
     /\ tail' = (tail + 1) % N
     /\ result' = TRUE
     /\ UNCHANGED head

\* Overwrites the oldest element of a full ring, and returns it.
push(val) ==
  /\ head' = IF is_full THEN (head + 1) % N ELSE head
  /\ result' = IF is_full THEN ring[head] ELSE None
  /\ ring' = [ring EXCEPT ![tail] = val]
  /\ tail' = (tail + 1) % N

dequeue ==
  \/ /\ has_elements
     /\ result' = ring[head]
     /\ head' = (head + 1) % N
     /\ UNCHANGED <<ring, tail>>
  \/ /\ ~has_elements
     /\ result' = None
     /\ UNCHANGED <<ring, head, tail>>

empty ==
  /\ head' = 0
  /\ tail' = 0
  /\ result' = None
  /\ UNCHANGED ring

\* retain()'s loop looks at the n-th element, and moves one it keeps to dst.
RetainStep(keep, n, before) ==
  LET src == (head + n - 1) % N
  IN IF before.ring[src] \in keep
     THEN [ring |-> [before.ring EXCEPT ![before.dst] = before.ring[src]],
           dst |-> (before.dst + 1) % N]
     ELSE before

\* The ring compacted in place up to dst.
RetainLoop(keep) ==
  LET loop[n \in 0 .. len] ==
        IF n = 0 THEN [ring |-> ring, dst |-> head] ELSE RetainStep(keep, n, loop[n - 1])
  IN loop[len]

\* Mutant: the elements are compacted but the tail is left where it was.
RetainKeepTail(keep) ==
  /\ ring' = RetainLoop(keep).ring
  /\ result' = None
  /\ UNCHANGED <<head, tail>>

retain(keep) ==
  /\ ring' = RetainLoop(keep).ring
  /\ tail' = RetainLoop(keep).dst
  /\ result' = None
  /\ UNCHANGED head

RingNext ==
  \/ \E val \in Elems : enqueue(val) \/ push(val)
  \/ dequeue
  \/ empty
  \/ \E keep \in SUBSET Elems : retain(keep)

RingSpec == RingInit /\ [][RingNext]_ringvars

-----------------------------------------------------------------------------
\* The indices stay inside the ring, whatever wraps: `self.ring[self.tail]`
\* and `self.ring[self.head]` never panic.
RingTypeOK ==
  /\ ring \in [Cells -> Elems]
  /\ head \in Cells
  /\ tail \in Cells
  /\ result \in Elems \cup BOOLEAN \cup {None}

\* The queue the ring stands for: the `len` cells from head on, cyclically.
Contents == [i \in 1 .. len |-> ring[(head + i - 1) % N]]

\* len, available_len and as_slices, each with its own case analysis of
\* head and tail, agree with one another and with the logical contents, also
\* when the contents wrap around the end of the ring; head and tail stay in range.
ViewsAgree ==
  /\ RingTypeOK
  /\ len + available_len = N - 1
  /\ is_full <=> available_len = 0
  /\ as_slices = <<>> => len = 0
  /\ as_slices \in {<<>>, <<Contents>>}
       \cup {<<SubSeq(Contents, 1, k), SubSeq(Contents, k + 1, len)>> : k \in 1 .. len - 1}

\* Every operation of the ring buffer does to the contents what the trait
\* Queue says, and returns what it says: FIFO order survives wrap-around,
\* push's overwriting and retain's compaction in place.
Abstract == INSTANCE Queue WITH items <- Contents, Capacity <- N - 1

ImplementsQueue == Abstract!QSpec
=============================================================================
