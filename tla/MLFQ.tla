-------------------------------- MODULE MLFQ --------------------------------
(***************************************************************************)
(* The multilevel feedback queue scheduler (scheduler/mlfq.rs), between    *)
(* the calls next() and result() of the main loop.  Of a process only      *)
(* whether it is ready is kept, and of the alarm whether a priority        *)
(* refresh is due.                                                         *)
(***************************************************************************)
EXTENDS Integers, Sequences, FiniteSets

CONSTANTS
  Procs,
  NoProc,
  Slice0, Slice1, Slice2,  \* get_timeslice_us(0), (1), (2)
  MinQuanta,  \* MIN_QUANTA_THRESHOLD_US
  W           \* u32 arithmetic is modulo W

ASSUME MLFQAssumption ==
  /\ IsFiniteSet(Procs) /\ NoProc \notin Procs
  /\ MinQuanta \in Nat /\ W \in Nat
  /\ \A s \in {Slice0, Slice1, Slice2} : s \in Nat /\ MinQuanta < s /\ s < W

Queues == 0 .. 2

VARIABLES
  processes,       \* [Queues -> sequences of Procs]
  us_used,         \* [Procs -> 0 .. W - 1]: us_used_this_queue
  last_timeslice, last_queue_idx,
  running,         \* the process do_process() runs, or NoProc
  ready            \* [Procs -> BOOLEAN]

vars == <<processes, us_used, last_timeslice, last_queue_idx, running, ready>>

get_timeslice_us(q) == <<Slice0, Slice1, Slice2>>[q + 1]

\* The board pushes every process to the topmost queue.
Init ==
  /\ \E order \in [1 .. Cardinality(Procs) -> Procs] :
       /\ \A p \in Procs : \E i \in DOMAIN order : order[i] = p
       /\ processes = [q \in Queues |-> IF q = 0 THEN order ELSE <<>>]
  /\ us_used = [p \in Procs |-> 0]
  /\ last_timeslice = 0 /\ last_queue_idx = 0
  /\ running = NoProc
  /\ ready = [p \in Procs |-> FALSE]

\* Kernel work, or the running process, changes whether a process is ready.
Readiness(p) ==
  /\ ready' = [ready EXCEPT ![p] = ~@]
  /\ UNCHANGED <<processes, us_used, last_timeslice, last_queue_idx, running>>

-----------------------------------------------------------------------------
Popped(s) == IF s = <<>> THEN <<>> ELSE Tail(s)
Head1(s) == IF s = <<>> THEN <<>> ELSE <<Head(s)>>

\* Mutant: redeemed processes are pushed to the head of the topmost queue.
RedeemToHead(ps) ==
  [q \in Queues |-> IF q = 0 THEN Head1(ps[2]) \o Head1(ps[1]) \o ps[0] ELSE Popped(ps[q])]

\* The head of each lower queue goes to the tail of the topmost one.
redeem_all_procs(ps) ==
  [q \in Queues |-> IF q = 0 THEN ps[0] \o Head1(ps[1]) \o Head1(ps[2]) ELSE Popped(ps[q])]

Redeemed(refresh) == IF refresh THEN redeem_all_procs(processes) ELSE processes

\* get_next_ready_process_node: the first ready process of the highest queue
\* that has one.
FirstReady(ps, q, i) ==
  /\ ready[ps[q][i]] /\ \A j \in 1 .. i - 1 : ~ready[ps[q][j]]
  /\ \A r \in 0 .. q - 1 : \A j \in 1 .. Len(ps[r]) : ~ready[ps[r][j]]

\* The queue after what is before position i was pushed to its tail.
Rotated(s, i) == SubSeq(s, i, Len(s)) \o SubSeq(s, 1, i - 1)

\* The difference wraps around in a release build.
Timeslice(q, p) == (get_timeslice_us(q) - us_used[p]) % W

RunProcess(refresh) ==
  /\ running = NoProc
  /\ LET ps == Redeemed(refresh) IN
       \E q \in Queues : \E i \in 1 .. Len(ps[q]) :
         /\ FirstReady(ps, q, i)
         /\ processes' = [ps EXCEPT ![q] = Rotated(@, i)]
         /\ running' = ps[q][i]
         /\ last_queue_idx' = q
         /\ last_timeslice' = Timeslice(q, ps[q][i])
  /\ UNCHANGED <<us_used, ready>>

TrySleep(refresh) ==
  /\ running = NoProc
  /\ \A p \in Procs : ~ready[p]
  /\ processes' = Redeemed(refresh)
  /\ UNCHANGED <<us_used, last_timeslice, last_queue_idx, running, ready>>

-----------------------------------------------------------------------------
\* Mutant: the head is pushed without being popped.
RequeuedTwice(r) == [processes EXCEPT ![r] = Append(@, Head(processes[last_queue_idx]))]

\* result() moves the head of its queue to the tail of queue r.
Requeued(r) ==
  LET q == last_queue_idx
      without == [processes EXCEPT ![q] = Tail(@)]
  IN  [without EXCEPT ![r] = Append(@, Head(processes[q]))]

Demoted == IF last_queue_idx = 2 THEN 2 ELSE last_queue_idx + 1

\* do_process() returns with TimesliceExpired: the process is punished.
TimesliceExpired ==
  /\ running # NoProc
  /\ us_used' = [us_used EXCEPT ![Head(processes[last_queue_idx])] = 0]
  /\ processes' = Requeued(Demoted)
  /\ running' = NoProc
  /\ UNCHANGED <<last_timeslice, last_queue_idx, ready>>

\* It returns with NoWorkLeft or Stopped, after some time.
Returns(executed) ==
  /\ running # NoProc
  /\ last_timeslice > MinQuanta
  /\ us_used' = [us_used EXCEPT ![Head(processes[last_queue_idx])] = last_timeslice - executed]
  /\ processes' = Requeued(last_queue_idx)
  /\ running' = NoProc
  /\ UNCHANGED <<last_timeslice, last_queue_idx, ready>>

Next ==
  \/ \E refresh \in BOOLEAN : RunProcess(refresh) \/ TrySleep(refresh)
  \/ TimesliceExpired
  \/ \E executed \in 0 .. last_timeslice : Returns(executed)
  \/ \E p \in Procs : Readiness(p)

Spec == Init /\ [][Next]_vars

-----------------------------------------------------------------------------
In(q) == {processes[q][i] : i \in 1 .. Len(processes[q])}

TypeOK ==
  /\ DOMAIN processes = Queues /\ \A q \in Queues : In(q) \subseteq Procs
  /\ us_used \in [Procs -> 0 .. W - 1]
  /\ last_timeslice \in 0 .. W - 1 /\ last_queue_idx \in Queues
  /\ running \in Procs \cup {NoProc}
  /\ ready \in [Procs -> BOOLEAN]

\* The intrusive lists stay disjoint: every process is in exactly one queue,
\* once, and the times it is charged stay within their width.
Partition ==
  TypeOK /\ \A p \in Procs :
    \E q \in Queues : \E i \in 1 .. Len(processes[q]) :
      /\ processes[q][i] = p
      /\ \A r \in Queues : \A j \in 1 .. Len(processes[r]) :
           processes[r][j] = p => r = q /\ j = i

\* The processes that are before p in its queue.
Ahead(p) ==
  {r \in Procs : \E q \in Queues : \E i \in 1 .. Len(processes[q]) : \E j \in 1 .. i - 1 :
                   processes[q][i] = p /\ processes[q][j] = r}

\* Rule 2, round robin: nobody gets in front of a process that stays ready, and
\* in its queue, until it runs.
NoOvertaking ==
  [][\A p \in Procs : \A q \in Queues :
       (ready[p] /\ ready'[p] /\ p \in In(q) /\ p \in In(q)' /\ p # running)
         => Ahead(p)' \subseteq Ahead(p)]_vars
=============================================================================
