----------------------------- MODULE KernelLoop -----------------------------
(***************************************************************************)
(* The main loop (kernel_loop_operation and do_process in kernel.rs) with  *)
(* the round robin, the cooperative or the priority scheduler, against     *)
(* interrupts that arrive at any time.  Of a process only whether it is    *)
(* ready is kept: Kernel models the rest.                                  *)
(***************************************************************************)
EXTENDS Integers, Sequences, FiniteSets

CONSTANTS
  Slots,      \* slots of the process array
  Present,    \* those that hold a process
  NoSlot,
  Schedulers, \* those a board may have, of "round_robin", "cooperative" and "priority"
  Timeslice,  \* DEFAULT_TIMESLICE_US
  MinQuanta   \* MIN_QUANTA_THRESHOLD_US

ASSUME LoopAssumption ==
  /\ IsFiniteSet(Slots) /\ Present \subseteq Slots /\ NoSlot \notin Slots /\ Slots # {}
  /\ Schedulers \subseteq {"round_robin", "cooperative", "priority"}
  /\ MinQuanta \in Nat /\ Timeslice \in Nat /\ Timeslice > MinQuanta

VARIABLES
  scheduler,  \* the board's scheduler, which never changes
  processes,  \* the scheduler's list, or the process array: a sequence of Slots
  time_remaining, last_rescheduled,
  ready,      \* [Present -> BOOLEAN]
  work,       \* subset of {"interrupt", "deferred"}: pending kernel work
  pc,         \* "loop", "deferred", "process", "try_sleep", "sleep"
  running,    \* the slot do_process() runs
  timeslice, left,   \* what it was given, and what the scheduler timer shows
  turns       \* [Present -> Nat] history: turns of others while it was ready

sched == <<scheduler, processes, time_remaining, last_rescheduled>>
vars == <<sched, ready, work, pc, running, timeslice, left, turns>>

Init ==
  /\ scheduler \in Schedulers
  /\ processes \in [1 .. Cardinality(Slots) -> Slots]
  /\ \A s \in Slots : \E i \in DOMAIN processes : processes[i] = s
  /\ time_remaining = Timeslice /\ last_rescheduled = FALSE
  /\ ready = [p \in Present |-> FALSE]
  /\ work = {}
  /\ pc = "loop" /\ running = NoSlot /\ timeslice = Timeslice /\ left = Timeslice
  /\ turns = [p \in Present |-> 0]

-----------------------------------------------------------------------------
\* The hardware: an interrupt becomes pending, and wakes the chip if it sleeps.
\* One that was pending before does not.
Interrupt ==
  /\ work' = work \cup {"interrupt"}
  /\ pc' = IF pc = "sleep" THEN "loop" ELSE pc
  /\ UNCHANGED <<sched, ready, running, timeslice, left, turns>>

\* Code of capsules may make a process ready (an upcall) or not ready (it is
\* stopped or terminated) and may set a deferred call.
Ready(p) == ready' = [ready EXCEPT ![p] = TRUE] /\ UNCHANGED turns
NotReady(p) == ready' = [ready EXCEPT ![p] = FALSE] /\ turns' = [turns EXCEPT ![p] = 0]
CapsuleEffect == UNCHANGED <<ready, turns>> \/ \E p \in Present : Ready(p) \/ NotReady(p)

\* execute_kernel_work: service the interrupts, then deferred calls while there
\* are no new interrupts.
ServiceInterrupts ==
  /\ pc = "loop" /\ work # {}
  /\ pc' = "deferred"
  /\ work' \in {work \ {"interrupt"}, (work \ {"interrupt"}) \cup {"deferred"}}
  /\ IF "interrupt" \in work THEN CapsuleEffect ELSE UNCHANGED <<ready, turns>>
  /\ UNCHANGED <<sched, running, timeslice, left>>

\* more: other deferred calls are pending, or this one sets one.
ServiceDeferred(more) ==
  /\ pc = "deferred" /\ "deferred" \in work /\ "interrupt" \notin work
  /\ CapsuleEffect
  /\ work' = IF more THEN work ELSE work \ {"deferred"}
  /\ UNCHANGED <<sched, pc, running, timeslice, left>>

KernelWorkDone ==
  /\ pc = "deferred" /\ ("deferred" \notin work \/ "interrupt" \in work)
  /\ pc' = "loop"
  /\ UNCHANGED <<sched, ready, work, running, timeslice, left, turns>>

-----------------------------------------------------------------------------
IsReady(s) == s \in Present /\ ready[s]

\* The list after everything before position i was moved to its back.
From(i) == SubSeq(processes, i, Len(processes)) \o SubSeq(processes, 1, i - 1)

GrantedTimeslice == IF last_rescheduled THEN time_remaining ELSE Timeslice

\* next(): the first ready process in the list, which moves to its head unless
\* the order is that of priority.
RunProcess ==
  /\ pc = "loop" /\ work = {}
  /\ \E i \in 1 .. Len(processes) :
       /\ IsReady(processes[i])
       /\ \A j \in 1 .. i - 1 : ~IsReady(processes[j])
       /\ processes' = IF scheduler = "priority" THEN processes ELSE From(i)
       /\ running' = processes[i]
       /\ turns' = [turns EXCEPT ![processes[i]] = 0]
  /\ timeslice' = GrantedTimeslice /\ left' = GrantedTimeslice
  /\ time_remaining' = GrantedTimeslice
  /\ pc' = "process"
  /\ UNCHANGED <<scheduler, last_rescheduled, ready, work>>

\* next() finds nothing ready: try to sleep.
TrySleep ==
  /\ pc = "loop" /\ work = {}
  /\ \A p \in Present : ~ready[p]
  /\ pc' = "try_sleep"
  /\ UNCHANGED <<sched, ready, work, running, timeslice, left, turns>>

\* Mutant: no check in the atomic section.
SleepUnchecked ==
  /\ pc = "try_sleep"
  /\ pc' = "sleep"
  /\ UNCHANGED <<sched, ready, work, running, timeslice, left, turns>>

\* In an atomic section: sleep unless there is work after all.
Sleep ==
  /\ pc = "try_sleep"
  /\ pc' = IF work = {} THEN "sleep" ELSE "loop"
  /\ UNCHANGED <<sched, ready, work, running, timeslice, left, turns>>

-----------------------------------------------------------------------------
\* Mutant: a process that is preempted at the end of its timeslice keeps it.
ReschedulesZero(reason, executed) ==
  scheduler # "priority" /\ reason = "KernelPreemption" /\ (scheduler = "round_robin" => time_remaining >= executed)

\* result(): whether the process stays at the head of the list, for what is left
\* of its timeslice.
Reschedules(reason, executed) ==
  scheduler # "priority" /\ reason = "KernelPreemption"
  /\ (scheduler = "round_robin" => time_remaining > executed)

\* Mutant: a process that has used its turn stays at the head of the list.
ToBackNever == processes

ToBack == From(2)

\* Bound: turns are counted up to this.
MaxTurns == Cardinality(Present)

\* do_process() returns to the scheduler.
Stops(reason, executed) ==
  /\ pc' = "loop" /\ running' = NoSlot
  /\ last_rescheduled' = Reschedules(reason, executed)
  /\ IF Reschedules(reason, executed)
     THEN time_remaining' = time_remaining - executed /\ UNCHANGED <<processes, turns>>
     ELSE /\ processes' = IF scheduler = "priority" THEN processes ELSE ToBack
          /\ turns' = IF scheduler = "priority" THEN turns ELSE
                      [p \in Present |-> IF p # running /\ ready[p] /\ turns[p] < MaxTurns
                                          THEN turns[p] + 1 ELSE turns[p]]
          /\ UNCHANGED time_remaining
  /\ UNCHANGED <<scheduler, ready, work, timeslice, left>>

\* The checks of do_process() before the process executes, in their order.
Expired == scheduler = "round_robin" /\ left <= MinQuanta

\* The time a process is found to have used: the timer runs on after the checks.
Elapsed == IF scheduler = "round_robin" THEN timeslice - left .. timeslice ELSE {0}

\* Mutant: only the kernel's own work stops a process.
continue_unless_work == work = {}

\* The priority scheduler also looks for a ready process before this one.
Before(s, p) ==
  \E i, j \in 1 .. Len(processes) : i < j /\ processes[i] = s /\ processes[j] = p

continue_process ==
  work = {} /\ (scheduler = "priority" => \A s \in Slots : Before(s, running) => ~IsReady(s))

TimesliceExpired == pc = "process" /\ Expired /\ Stops("TimesliceExpired", timeslice)

KernelPreemption ==
  /\ pc = "process" /\ ~Expired /\ ~continue_process
  /\ \E executed \in Elapsed : Stops("KernelPreemption", executed)

NoWorkLeft ==
  /\ pc = "process" /\ ~Expired /\ continue_process /\ ~ready[running]
  /\ \E executed \in Elapsed : Stops("NoWorkLeft", executed)

\* A process that is stopped counts as ready while it has tasks, and does not
\* execute.
Stopped ==
  /\ pc = "process" /\ ~Expired /\ continue_process /\ ready[running]
  /\ \E executed \in Elapsed : Stops("Stopped", executed)

\* The process executes for some time, up to a system call, a fault or an
\* interrupt.  It may stop being ready; its system call may make another process
\* ready and may set a deferred call.  There is no timer but that of the round
\* robin scheduler; under the others left only tells one execution from the next,
\* so that a process that goes on for ever takes steps.
Execute ==
  /\ pc = "process" /\ ~Expired /\ continue_process /\ ready[running]
  /\ IF scheduler = "round_robin" THEN \E t \in 1 .. left : left' = left - t
     ELSE left' = timeslice - left
  /\ \/ UNCHANGED <<ready, turns>> \/ NotReady(running) \/ \E p \in Present : Ready(p)
  /\ work' \in {work, work \cup {"deferred"}}
  /\ UNCHANGED <<sched, pc, running, timeslice>>

Kernel ==
  \/ ServiceInterrupts \/ (\E more \in BOOLEAN : ServiceDeferred(more)) \/ KernelWorkDone
  \/ RunProcess \/ TrySleep \/ Sleep
  \/ TimesliceExpired \/ KernelPreemption \/ NoWorkLeft \/ Stopped \/ Execute

Next == Interrupt \/ Kernel

\* The kernel never stops while it can go on.  Interrupts leave it the time to
\* service deferred calls, to run processes, and the processes the time to
\* execute, unless they are stopped: they do not always arrive just before.
\* Deferred calls do not set each other for ever.  A process may execute for ever.
Fairness ==
  /\ WF_vars(Kernel)
  /\ SF_vars(ServiceDeferred(FALSE)) /\ SF_vars(KernelWorkDone /\ work = {})
  /\ SF_vars(RunProcess) /\ SF_vars(Execute \/ Stopped)

Spec == Init /\ [][Next]_vars /\ Fairness

-----------------------------------------------------------------------------
TypeOK ==
  /\ scheduler \in Schedulers
  /\ processes \in [1 .. Cardinality(Slots) -> Slots]
  /\ time_remaining \in 0 .. Timeslice /\ last_rescheduled \in BOOLEAN
  /\ ready \in [Present -> BOOLEAN] /\ turns \in [Present -> Nat]
  /\ work \subseteq {"interrupt", "deferred"}
  /\ pc \in {"loop", "deferred", "process", "try_sleep", "sleep"}
  /\ running \in Present \cup {NoSlot} /\ (pc = "process") = (running # NoSlot)
  /\ timeslice \in 0 .. Timeslice /\ left \in 0 .. timeslice

\* The assertion in RoundRobinSched::next: no process is given a timeslice of 0,
\* and none runs for longer than the timeslice it was given.
TimesliceNonzero == TypeOK /\ (pc = "process" => timeslice # 0)

\* While a process stays ready, every other process has at most one turn before
\* it has its own.
FairTurns == \A p \in Present : turns[p] < MaxTurns

\* No interrupt and no deferred call is lost, whatever the loop was doing when
\* it arrived.
WorkIsDone == \A w \in {"interrupt", "deferred"} : (w \in work) ~> (w \notin work)

\* Under round robin a process that stays ready gets to run.  Under priority it
\* does while no process before it in the array is ready, however late it became
\* ready, whichever process was running then and whatever system calls that one
\* makes.  The cooperative scheduler leaves it to the other processes.
Outranked(p) == \E q \in Present : Before(q, p) /\ ready[q]
ReadyRuns ==
  \A p \in Present :
    /\ (scheduler = "round_robin" /\ ready[p]) ~> (~ready[p] \/ running = p)
    /\ (scheduler = "priority" /\ ready[p] /\ ~Outranked(p))
         ~> (~ready[p] \/ Outranked(p) \/ running = p)
=============================================================================
