------------------------------- MODULE Queue -------------------------------
(***************************************************************************)
(* What the trait `Queue<T>` of kernel/src/collections/queue.rs promises   *)
(* its users: a first-in first-out queue of bounded capacity.  This is the *)
(* abstract specification that the ring buffer implements, and the view of *)
(* a process's task queue that the other modules take.                     *)
(***************************************************************************)
EXTENDS Sequences, Naturals

CONSTANTS Elems,     \* the elements that may be queued
          Capacity,  \* how many of them fit
          None       \* the None of an Option

VARIABLES items,     \* the queued elements, front first
          result     \* what the last operation returned

qvars == <<items, result>>

HasElements == items # <<>>

IsFull == Len(items) = Capacity

QInit == items = <<>> /\ result = None

\* "If the queue isn't full, add a new element to the back of the queue.
\* Returns whether the element was added."
EnqueueItem(e) ==
  /\ items' = IF IsFull THEN items ELSE Append(items, e)
  /\ result' = ~IsFull

\* "Add a new element to the back of the queue, poping one from the front if
\* necessary."
PushItem(e) ==
  /\ items' = Append(IF IsFull THEN Tail(items) ELSE items, e)
  /\ result' = IF IsFull THEN Head(items) ELSE None

\* "Remove the element from the front of the queue."
DequeueItem ==
  /\ items' = IF HasElements THEN Tail(items) ELSE items
  /\ result' = IF HasElements THEN Head(items) ELSE None

\* "Remove all elements from the ring buffer."
EmptyItems == items' = <<>> /\ result' = None

\* "Retains only the elements that satisfy the predicate."
Retained(keep) ==
  LET kept[n \in 0 .. Len(items)] ==
        IF n = 0 THEN <<>>
        ELSE IF items[n] \in keep THEN Append(kept[n - 1], items[n]) ELSE kept[n - 1]
  IN kept[Len(items)]

RetainItems(keep) == items' = Retained(keep) /\ result' = None

QNext ==
  \/ \E e \in Elems : EnqueueItem(e) \/ PushItem(e)
  \/ DequeueItem
  \/ EmptyItems
  \/ \E keep \in SUBSET Elems : RetainItems(keep)

QSpec == QInit /\ [][QNext]_qvars
=============================================================================
