---------------------------- MODULE KernelProofs ----------------------------
(***************************************************************************)
(* Proofs about Kernel, for any set of processes, versions, policies,      *)
(* queue length and number of restarts: the inductive invariant, the steps *)
(* that preserve it by their shape (a process ends, the kernel panics, a   *)
(* process moves between states, starts, or takes a task off its queue),   *)
(* the steps that change subscriptions or add to a queue (subscribe, the   *)
(* upcalls of capsules, IPC), and the theorems.                            *)
(***************************************************************************)
EXTENDS Kernel, FiniteSetTheorems, SequenceTheorems, TLAPS

\* Every identifier in use was handed out: the next one is new.
IdentsHandedOut == \A p \in Procs : ident[p] < next_ident

IInv ==
  /\ TypeOK
  /\ IdentsHandedOut
  /\ EndedIsClean
  /\ PendingUpcallsCurrent
  /\ TasksOfThisLife
  /\ UniqueRunning

-----------------------------------------------------------------------------
\* Clear, from what a caller knows: the process is left without tasks and
\* without a grant, also when terminate() had nothing to do.
LEMMA ClearFacts ==
  ASSUME IInv, ~panicked, NEW p \in Procs, Restartable(p), Clear(p)
  PROVE  /\ tasks' = [tasks EXCEPT ![p] = <<>>]
         /\ grant' = [grant EXCEPT ![p] = FALSE]
<1>1. CASE Terminable(p) BY <1>1 DEF Clear
<1>2. CASE ~Terminable(p)
  <2>1. tasks[p] = <<>> /\ grant[p] = FALSE
    BY <1>2 DEF IInv, TypeOK, EndedIsClean, Terminable
  <2> QED BY <1>2, <2>1 DEF Clear, IInv, TypeOK
<1> QED BY <1>1, <1>2

\* The shape of a step that ends a process or gives it a new life.
Ends(p) ==
  /\ \E s \in {"Terminated", "Faulted", "CredentialsApproved"} : state' = [state EXCEPT ![p] = s]
  /\ tasks' = [tasks EXCEPT ![p] = <<>>]
  /\ grant' = [grant EXCEPT ![p] = FALSE]
  /\ \/ UNCHANGED <<ident, next_ident>>
     \/ ident' = [ident EXCEPT ![p] = next_ident] /\ next_ident' = next_ident + 1
  /\ restart_count' \in [Procs -> Nat]
  /\ UNCHANGED <<sub, panicked>>

\* The shape of a step that stops the kernel over a fault of p.
Panics(p) ==
  /\ state' = [state EXCEPT ![p] = "Faulted"]
  /\ tasks' = tasks \/ (tasks[p] # <<>> /\ tasks' = [tasks EXCEPT ![p] = Tail(@)])
  /\ panicked' = TRUE
  /\ UNCHANGED <<ident, next_ident, restart_count, grant, sub>>

\* The shape of a step that moves p between states and leaves it as running,
\* or as not running, as it was.
Moves(p) ==
  /\ \E s \in States : state' = [state EXCEPT ![p] = s]
  /\ is_running(p)' <=> is_running(p)
  /\ UNCHANGED <<tasks, ident, next_ident, restart_count, grant, sub, panicked>>

\* Ending a process preserves the invariant: what it leaves behind is empty.
LEMMA EndsStep ==
  ASSUME IInv, NEW p \in Procs, Ends(p), cur' \in Procs \cup {NoProc}
  PROVE  IInv'
<1> USE DEF IInv
<1>0. PICK s \in {"Terminated", "Faulted", "CredentialsApproved"} :
        state' = [state EXCEPT ![p] = s]
  BY Zenon DEF Ends
<1>1. TypeOK'
  <2>1. state' \in [Procs -> States] BY <1>0 DEF TypeOK, States
  <2>2. tasks' \in [Procs -> Seq(Task)] /\ \A q \in Procs : Len(tasks'[q]) <= QueueLen
    BY KernelAssumption DEF TypeOK, Ends
  <2>3. ident' \in [Procs -> Nat] /\ next_ident' \in Nat BY SMTT(30) DEF TypeOK, Ends
  <2> QED BY Zenon, <2>1, <2>2, <2>3 DEF TypeOK, Ends
<1>2. IdentsHandedOut'
  <2>1. CASE UNCHANGED <<ident, next_ident>> BY <2>1 DEF IdentsHandedOut
  <2>2. CASE ident' = [ident EXCEPT ![p] = next_ident] /\ next_ident' = next_ident + 1
    BY SMTT(30), <2>2 DEF IdentsHandedOut, TypeOK
  <2> QED BY <2>1, <2>2 DEF Ends
<1>3. \A q \in Procs : is_running(q)' <=> (q # p /\ is_running(q))
  BY <1>0 DEF is_running, TypeOK
<1>4. EndedIsClean' BY <1>3 DEF EndedIsClean, Ends, TypeOK
<1>5. \A q \in Procs : q # p => tasks'[q] = tasks[q] /\ grant'[q] = grant[q] /\ ident'[q] = ident[q]
  BY DEF Ends, TypeOK
<1>6. tasks'[p] = <<>> BY DEF Ends, TypeOK
<1>7. PendingUpcallsCurrent' BY SMTT(30), <1>5, <1>6 DEF PendingUpcallsCurrent, Ends
<1>8. TasksOfThisLife' BY <1>5, <1>6 DEF TasksOfThisLife
<1>9. UniqueRunning' BY <1>3 DEF UniqueRunning
<1> QED BY <1>1, <1>2, <1>4, <1>7, <1>8, <1>9

\* Taking the first task leaves tasks that were pending.
LEMMA TailKept ==
  ASSUME TypeOK, NEW p \in Procs, tasks[p] # <<>>, tasks' = [tasks EXCEPT ![p] = Tail(@)]
  PROVE  /\ tasks' \in [Procs -> Seq(Task)]
         /\ \A q \in Procs : Len(tasks'[q]) <= QueueLen
         /\ \A q \in Procs : \A i \in 1 .. Len(tasks'[q]) :
              \E j \in 1 .. Len(tasks[q]) : tasks'[q][i] = tasks[q][j]
<1>1. /\ Tail(tasks[p]) \in Seq(Task)
      /\ Len(Tail(tasks[p])) = Len(tasks[p]) - 1
      /\ \A i \in 1 .. Len(tasks[p]) - 1 : Tail(tasks[p])[i] = tasks[p][i + 1]
  BY DEF TypeOK
<1>2. tasks'[p] = Tail(tasks[p]) /\ \A q \in Procs : q # p => tasks'[q] = tasks[q]
  BY DEF TypeOK
<1>3. tasks' \in [Procs -> Seq(Task)] BY <1>1 DEF TypeOK
<1>4. ASSUME NEW q \in Procs
      PROVE  /\ Len(tasks'[q]) <= QueueLen
             /\ \A i \in 1 .. Len(tasks'[q]) :
                  \E j \in 1 .. Len(tasks[q]) : tasks'[q][i] = tasks[q][j]
  <2>1. Len(tasks[q]) \in Nat /\ Len(tasks[q]) <= QueueLen /\ QueueLen \in Nat
    BY KernelAssumption DEF TypeOK
  <2>2. CASE q = p
    <3>1. Len(tasks'[p]) = Len(tasks[p]) - 1 BY Zenon, <1>1, <1>2
    <3>2. ASSUME NEW i \in 1 .. Len(tasks'[p])
          PROVE  \E j \in 1 .. Len(tasks[p]) : tasks'[p][i] = tasks[p][j]
      <4>1. i \in 1 .. Len(tasks[p]) - 1 /\ i + 1 \in 1 .. Len(tasks[p]) BY <2>1, <2>2, <3>1
      <4> QED BY <1>1, <1>2, <4>1
    <3> QED BY <2>1, <2>2, <3>1, <3>2
  <2>3. CASE q # p BY <1>2, <2>1, <2>3
  <2> QED BY <2>2, <2>3
<1> QED BY <1>3, <1>4

\* Stopping the kernel preserves the invariant.
LEMMA PanicsStep ==
  ASSUME IInv, NEW p \in Procs, Panics(p), cur' \in Procs \cup {NoProc}
  PROVE  IInv'
<1> USE DEF IInv
<1>1. /\ tasks' \in [Procs -> Seq(Task)]
      /\ \A q \in Procs : Len(tasks'[q]) <= QueueLen
      /\ \A q \in Procs : \A i \in 1 .. Len(tasks'[q]) :
           \E j \in 1 .. Len(tasks[q]) : tasks'[q][i] = tasks[q][j]
  <2>1. CASE tasks' = tasks BY <2>1 DEF TypeOK
  <2>2. CASE tasks[p] # <<>> /\ tasks' = [tasks EXCEPT ![p] = Tail(@)]
    BY Zenon, <2>2, TailKept DEF TypeOK
  <2> QED BY <2>1, <2>2 DEF Panics
<1>2. TypeOK' BY Zenon, <1>1 DEF TypeOK, Panics, States
<1>3. IdentsHandedOut' BY DEF IdentsHandedOut, Panics
<1>4. EndedIsClean' /\ PendingUpcallsCurrent' BY DEF EndedIsClean, PendingUpcallsCurrent, Panics
<1>5. TasksOfThisLife' BY SMTT(30), <1>1 DEF TasksOfThisLife, Panics
<1>6. UniqueRunning' BY DEF UniqueRunning, Panics, is_running, TypeOK
<1> QED BY <1>2, <1>3, <1>4, <1>5, <1>6

\* Moving between states of one kind preserves the invariant.
LEMMA MovesStep ==
  ASSUME IInv, NEW p \in Procs, Moves(p), cur' \in Procs \cup {NoProc}
  PROVE  IInv'
<1> USE DEF IInv
<1>0. PICK s \in States : state' = [state EXCEPT ![p] = s] BY Zenon DEF Moves
<1>1. TypeOK' BY <1>0 DEF TypeOK, Moves
<1>2. \A q \in Procs : is_running(q)' <=> is_running(q) BY <1>0 DEF Moves, is_running, TypeOK
<1>3. EndedIsClean' BY <1>2 DEF EndedIsClean, Moves
<1>4. UniqueRunning' BY <1>2 DEF UniqueRunning
<1>5. IdentsHandedOut' /\ PendingUpcallsCurrent' /\ TasksOfThisLife'
  BY DEF IdentsHandedOut, PendingUpcallsCurrent, TasksOfThisLife, Moves
<1> QED BY <1>1, <1>3, <1>4, <1>5

-----------------------------------------------------------------------------
\* terminate() ends the process.
LEMMA TerminateShape ==
  ASSUME IInv, ~panicked, NEW p \in Procs, terminate(p)
  PROVE  Ends(p)
<1>1. Restartable(p) BY DEF terminate, Terminable, Restartable, is_running
<1>2. /\ tasks' = [tasks EXCEPT ![p] = <<>>]
      /\ grant' = [grant EXCEPT ![p] = FALSE]
  BY <1>1, ClearFacts DEF terminate
<1> QED BY <1>2 DEF terminate, Ends, IInv, TypeOK

\* try_restart() ends the process, with a new identifier.
LEMMA RestartShape ==
  ASSUME IInv, ~panicked, NEW p \in Procs, try_restart(p)
  PROVE  Ends(p)
<1>1. /\ tasks' = [tasks EXCEPT ![p] = <<>>]
      /\ grant' = [grant EXCEPT ![p] = FALSE]
  BY ClearFacts DEF try_restart
<1>2. restart_count' \in [Procs -> Nat]
  <2>1. restart_count \in [Procs -> Nat] BY DEF IInv, TypeOK
  <2>2. CASE restart_count' = [restart_count EXCEPT ![p] = @ + 1] BY <2>1, <2>2
  <2>3. CASE UNCHANGED restart_count BY <2>1, <2>3
  <2> QED BY <2>2, <2>3 DEF try_restart
<1>3. \E s \in {"Terminated", "Faulted", "CredentialsApproved"} : state' = [state EXCEPT ![p] = s]
  BY DEF try_restart
<1> QED BY <1>1, <1>2, <1>3 DEF try_restart, NewIdentifier, Ends

\* A fault ends the process or stops the kernel.
LEMMA FaultShape ==
  ASSUME IInv, ~panicked, NEW p \in Procs, set_fault_state(p)
  PROVE  Ends(p) \/ Panics(p)
<1>1. CASE try_restart(p) BY <1>1, RestartShape
<1>2. CASE FaultAction(p) = "Panic" /\ ~try_restart(p)
  BY <1>2 DEF set_fault_state, Panics
<1>3. CASE FaultAction(p) = "Stop" /\ ~try_restart(p)
  <2>1. /\ tasks' = [tasks EXCEPT ![p] = <<>>]
        /\ grant' = [grant EXCEPT ![p] = FALSE]
    BY <1>3, ClearFacts DEF set_fault_state
  <2> QED BY <1>3, <2>1 DEF set_fault_state, Ends, IInv, TypeOK
<1> QED BY <1>1, <1>2, <1>3 DEF set_fault_state

\* Starting a process: it was not running, so nothing of it is pending, and
\* nothing it shares an identifier with is running.
LEMMA StartStep ==
  ASSUME IInv, ~panicked, NEW p \in Procs, state[p] = "CredentialsApproved",
         is_runnable(p), enqueue_init_task(p), cur' = cur
  PROVE  IInv'
<1> USE DEF IInv
<1> DEFINE t == [up |-> "Kernel", fn |-> "init", id |-> ident[p]]
<1>1. tasks[p] = <<>> /\ ~is_running(p) BY DEF EndedIsClean, is_running
<1>2. t \in Task BY DEF TypeOK, Task
<1>3. tasks' = [tasks EXCEPT ![p] = <<t>>]
  BY <1>1, KernelAssumption DEF enqueue_init_task, TypeOK
<1> HIDE DEF t
<1>4. <<t>> \in Seq(Task) /\ Len(<<t>>) = 1 /\ <<t>>[1] = t BY <1>2
<1>5. TypeOK'
  <2>1. tasks' \in [Procs -> Seq(Task)] BY <1>3, <1>4 DEF TypeOK
  <2>2. \A q \in Procs : Len(tasks'[q]) <= QueueLen
    BY <1>3, <1>4, KernelAssumption DEF TypeOK
  <2> QED BY <2>1, <2>2 DEF TypeOK, enqueue_init_task, States
<1>6. \A q \in Procs : is_running(q)' <=> (q = p \/ is_running(q))
  BY DEF enqueue_init_task, is_running, TypeOK
<1>7. EndedIsClean' BY <1>3, <1>6 DEF EndedIsClean, enqueue_init_task, TypeOK
<1>8. /\ tasks'[p] = <<t>>
      /\ \A q \in Procs : q # p => tasks'[q] = tasks[q]
  BY <1>3 DEF TypeOK
<1>9. t.up = "Kernel" /\ t.id = ident[p] BY ZenonT(30) DEF t
<1>10. PendingUpcallsCurrent'
  BY <1>4, <1>8, <1>9 DEF PendingUpcallsCurrent, enqueue_init_task
<1>11. TasksOfThisLife' BY <1>4, <1>8, <1>9 DEF TasksOfThisLife, enqueue_init_task
<1>12. \A q \in Procs : <<p, q>> \in SameApp => ~is_running(q)
  BY DEF is_runnable, Blocks, is_running
<1>13. UniqueRunning' BY Zenon, <1>6, <1>12, KernelAssumption DEF UniqueRunning
<1>14. IdentsHandedOut' BY DEF IdentsHandedOut, enqueue_init_task
<1> QED BY <1>5, <1>7, <1>10, <1>11, <1>13, <1>14

\* Delivering a task takes it out of the queue and keeps the others.
LEMMA DeliverStep ==
  ASSUME IInv, NEW p \in Procs, Deliver(p)
  PROVE  IInv'
<1> USE DEF IInv
<1>2. \A q \in Procs : q # p => tasks'[q] = tasks[q] BY DEF Deliver, TypeOK
<1>3. \A q \in Procs : \A i \in 1 .. Len(tasks'[q]) :
        \E j \in 1 .. Len(tasks[q]) : tasks'[q][i] = tasks[q][j]
  BY TailKept DEF Deliver
<1>5. TypeOK'
  <2>1. tasks' \in [Procs -> Seq(Task)] /\ \A q \in Procs : Len(tasks'[q]) <= QueueLen
    BY Zenon, TailKept DEF Deliver
  <2> QED BY <2>1 DEF TypeOK, Deliver, Iterate, States
<1>6. \A q \in Procs : is_running(q)' <=> is_running(q)
  BY DEF Deliver, is_running, TypeOK
<1>7. EndedIsClean'
  <2>1. is_running(p) BY DEF Deliver, is_running
  <2> QED BY <1>2, <1>6, <2>1 DEF EndedIsClean, Deliver
<1>8. PendingUpcallsCurrent'
  <2> SUFFICES ASSUME ~panicked', NEW q \in Procs, NEW i \in 1 .. Len(tasks'[q])
               PROVE  \/ tasks'[q][i].up \in {"Kernel", "IPC"}
                      \/ grant'[q] /\ tasks'[q][i].fn = sub'[q][tasks'[q][i].up]
    BY DEF PendingUpcallsCurrent
  <2>1. PICK j \in 1 .. Len(tasks[q]) : tasks'[q][i] = tasks[q][j] BY <1>3
  <2> QED BY <2>1 DEF PendingUpcallsCurrent, Deliver
<1>9. TasksOfThisLife'
  <2> SUFFICES ASSUME NEW q \in Procs, NEW i \in 1 .. Len(tasks'[q])
               PROVE  tasks'[q][i].id = ident'[q]
    BY DEF TasksOfThisLife
  <2>1. PICK j \in 1 .. Len(tasks[q]) : tasks'[q][i] = tasks[q][j] BY <1>3
  <2> QED BY <2>1 DEF TasksOfThisLife, Deliver
<1>10. UniqueRunning' BY <1>6 DEF UniqueRunning
<1>11. IdentsHandedOut' BY DEF IdentsHandedOut, Deliver
<1> QED BY SMTT(30), <1>5, <1>7, <1>8, <1>9, <1>10, <1>11

\* What subscribe keeps of the queue: tasks that were in it, none for u, in a
\* sequence that is no longer than it was.
LEMMA RemovedPending ==
  ASSUME IInv, NEW p \in Procs, NEW u, remove_pending_upcalls(p, u)
  PROVE  /\ tasks' \in [Procs -> Seq(Task)]
         /\ \A q \in Procs : q # p => tasks'[q] = tasks[q]
         /\ Len(tasks'[p]) <= QueueLen
         /\ \A i \in 1 .. Len(tasks'[p]) :
              \E j \in 1 .. Len(tasks[p]) : tasks'[p][i] = tasks[p][j] /\ tasks[p][j].up # u
<1> DEFINE S == {i \in 1 .. Len(tasks[p]) : tasks[p][i].up # u}
<1>1. tasks[p] \in Seq(Task) /\ Len(tasks[p]) \in Nat /\ Len(tasks[p]) <= QueueLen
  BY DEF IInv, TypeOK
<1>2. Cardinality(S) \in Nat /\ Cardinality(S) <= Len(tasks[p])
  <2>1. IsFiniteSet(1 .. Len(tasks[p])) /\ Cardinality(1 .. Len(tasks[p])) = Len(tasks[p])
    BY SMTT(30), <1>1, FS_Interval
  <2>2. S \in SUBSET (1 .. Len(tasks[p])) OBVIOUS
  <2>3. IsFiniteSet(S) /\ Cardinality(S) <= Len(tasks[p]) BY <2>1, <2>2, FS_Subset
  <2> QED BY <2>3, FS_CardinalityType
<1>3. PICK f \in Selections(S) : tasks' = [tasks EXCEPT ![p] = [i \in DOMAIN f |-> tasks[p][f[i]]]]
  BY Zenon DEF remove_pending_upcalls
<1>4. f \in [1 .. Cardinality(S) -> S] BY DEF Selections
<1> DEFINE new == [i \in DOMAIN f |-> tasks[p][f[i]]]
<1>5. DOMAIN new = 1 .. Cardinality(S) /\ \A i \in 1 .. Cardinality(S) : new[i] = tasks[p][f[i]]
  BY Zenon, <1>4
<1>6. \A i \in 1 .. Cardinality(S) :
        f[i] \in 1 .. Len(tasks[p]) /\ tasks[p][f[i]].up # u /\ tasks[p][f[i]] \in Task
  <2>1. \A x \in S : x \in 1 .. Len(tasks[p]) /\ tasks[p][x].up # u OBVIOUS
  <2>2. \A x \in 1 .. Len(tasks[p]) : tasks[p][x] \in Task BY <1>1
  <2> HIDE DEF S
  <2>3. \A i \in 1 .. Cardinality(S) : f[i] \in S BY <1>4
  <2> QED BY <2>1, <2>2, <2>3
<1>7. tasks'[p] = new /\ \A q \in Procs : q # p => tasks'[q] = tasks[q]
  BY <1>3 DEF IInv, TypeOK
<1> HIDE DEF S, new
<1>8. new \in [1 .. Cardinality(S) -> Task] 
  <2>1. new = [i \in 1 .. Cardinality(S) |-> tasks[p][f[i]]] BY <1>4 DEF new
  <2> QED BY <1>6, <2>1
<1>9. new \in Seq(Task) /\ Len(new) = Cardinality(S) BY <1>2, <1>5, <1>8
<1>10. tasks' \in [Procs -> Seq(Task)] BY <1>3, <1>9 DEF IInv, TypeOK, new
<1>11. Len(tasks'[p]) <= QueueLen BY SMTT(30), <1>1, <1>2, <1>7, <1>9, KernelAssumption
<1>12. \A i \in 1 .. Len(tasks'[p]) :
         \E j \in 1 .. Len(tasks[p]) : tasks'[p][i] = tasks[p][j] /\ tasks[p][j].up # u
  BY <1>5, <1>6, <1>7, <1>9
<1> QED BY Zenon, <1>7, <1>10, <1>11, <1>12

-----------------------------------------------------------------------------
\* A successful subscribe changes one upcall and keeps no task for it.
LEMMA SubscribeStep ==
  ASSUME IInv, NEW p \in Procs, NEW u \in Upcalls, NEW fn \in Fns \cup {Null}, Subscribe(p, u, fn)
  PROVE  IInv'
<1> USE DEF IInv
<1>1. state[p] = "Running" /\ ~panicked /\ cur' = cur BY DEF Subscribe, InUserspace, Iterate
<1>2. /\ tasks' \in [Procs -> Seq(Task)]
      /\ \A q \in Procs : q # p => tasks'[q] = tasks[q]
      /\ Len(tasks'[p]) <= QueueLen
      /\ \A i \in 1 .. Len(tasks'[p]) :
           \E j \in 1 .. Len(tasks[p]) : tasks'[p][i] = tasks[p][j] /\ tasks[p][j].up # u
  BY RemovedPending DEF Subscribe
<1>3. /\ grant'[p] = TRUE
      /\ sub'[p] = [v \in Upcalls |-> IF v = u THEN fn ELSE IF grant[p] THEN sub[p][v] ELSE Null]
      /\ \A q \in Procs : q # p => grant'[q] = grant[q] /\ sub'[q] = sub[q]
  BY DEF Subscribe, TypeOK
<1>4. TypeOK'
  <2>1. sub' \in [Procs -> [Upcalls -> Fns \cup {Null}]]
    <3> DEFINE new == [v \in Upcalls |-> IF v = u THEN fn ELSE IF grant[p] THEN sub[p][v] ELSE Null]
    <3>1. new \in [Upcalls -> Fns \cup {Null}] BY Zenon DEF TypeOK
    <3>2. sub' = [sub EXCEPT ![p] = new] BY DEF Subscribe
    <3> HIDE DEF new
    <3> QED BY <3>1, <3>2 DEF TypeOK
  <2>2. grant' \in [Procs -> BOOLEAN] BY DEF Subscribe, TypeOK
  <2>3. \A q \in Procs : Len(tasks'[q]) <= QueueLen BY Zenon, <1>2 DEF TypeOK
  <2> QED BY <1>1, <1>2, <2>1, <2>2, <2>3 DEF TypeOK, Subscribe
<1>5. IdentsHandedOut' BY DEF IdentsHandedOut, Subscribe
<1>6. \A q \in Procs : is_running(q)' <=> is_running(q) BY DEF Subscribe, is_running
<1>7. EndedIsClean'
  <2>1. is_running(p) BY <1>1 DEF is_running
  <2> QED BY Zenon, <1>1, <1>2, <1>3, <1>6, <2>1 DEF EndedIsClean
<1>8. PendingUpcallsCurrent'
  <2> SUFFICES ASSUME NEW q \in Procs, NEW i \in 1 .. Len(tasks'[q])
               PROVE  \/ tasks'[q][i].up \in {"Kernel", "IPC"}
                      \/ grant'[q] /\ tasks'[q][i].fn = sub'[q][tasks'[q][i].up]
    BY DEF PendingUpcallsCurrent
  <2>1. CASE q = p
    <3>1. PICK j \in 1 .. Len(tasks[p]) : tasks'[p][i] = tasks[p][j] /\ tasks[p][j].up # u
      BY <1>2, <2>1
    <3> DEFINE t == tasks[p][j]
    <3>2. t \in Task BY DEF TypeOK
    <3>3. t.up \in Upcalls \cup {"Kernel", "IPC"} BY <3>2 DEF Task
    <3>4. t.up \in {"Kernel", "IPC"} \/ (grant[p] /\ t.fn = sub[p][t.up])
      BY <1>1 DEF PendingUpcallsCurrent
    <3> HIDE DEF t
    <3>5. tasks'[p][i] = t /\ t.up # u BY <3>1 DEF t
    <3>6. t.up \notin {"Kernel", "IPC"} /\ grant[p] => sub'[p][t.up] = sub[p][t.up]
      BY SMTT(30), <1>3, <3>3, <3>5
    <3> QED BY <1>3, <2>1, <3>4, <3>5, <3>6
  <2>2. CASE q # p
    <3>1. tasks'[q] = tasks[q] /\ grant'[q] = grant[q] /\ sub'[q] = sub[q] BY <1>2, <1>3, <2>2
    <3>2. i \in 1 .. Len(tasks[q]) BY <3>1
    <3>3. tasks[q][i].up \in {"Kernel", "IPC"} \/ (grant[q] /\ tasks[q][i].fn = sub[q][tasks[q][i].up])
      BY <1>1, <3>2 DEF PendingUpcallsCurrent
    <3> QED BY <3>1, <3>3
  <2> QED BY <2>1, <2>2
<1>9. TasksOfThisLife'
  <2> SUFFICES ASSUME NEW q \in Procs, NEW i \in 1 .. Len(tasks'[q])
               PROVE  tasks'[q][i].id = ident[q]
    BY DEF TasksOfThisLife, Subscribe
  <2>1. CASE q = p
    <3>1. PICK j \in 1 .. Len(tasks[p]) : tasks'[p][i] = tasks[p][j] BY <1>2, <2>1
    <3> QED BY <2>1, <3>1 DEF TasksOfThisLife
  <2>2. CASE q # p BY SMTT(30), <1>2, <2>2 DEF TasksOfThisLife
  <2> QED BY Zenon, <2>1, <2>2
<1>10. UniqueRunning' BY <1>6 DEF UniqueRunning
<1> QED BY <1>4, <1>5, <1>7, <1>8, <1>9, <1>10

\* An upcall a capsule schedules is for the subscribed function and for the
\* life its ProcessId names.
LEMMA CapsuleStep ==
  ASSUME IInv, NEW p \in Procs, NEW id \in Nat, NEW u \in Upcalls, CapsuleUpcall(p, id, u)
  PROVE  IInv'
<1> USE DEF IInv
<1>1. ~panicked /\ id = ident[p] /\ is_running(p) BY DEF CapsuleUpcall, get_process
<1>2. \A q \in Procs : is_running(q)' <=> is_running(q) BY DEF CapsuleUpcall, is_running
<1>3. UniqueRunning' BY <1>2 DEF UniqueRunning
<1>4. IdentsHandedOut' BY DEF IdentsHandedOut, CapsuleUpcall
<1>5. CASE ~grant[p]
  <2>1. /\ tasks' = tasks /\ grant' = [grant EXCEPT ![p] = TRUE]
        /\ sub' = [sub EXCEPT ![p] = [v \in Upcalls |-> Null]]
    BY <1>5 DEF CapsuleUpcall
  <2>2. TypeOK'
    <3>1. [v \in Upcalls |-> Null] \in [Upcalls -> Fns \cup {Null}] OBVIOUS
    <3>2. sub' \in [Procs -> [Upcalls -> Fns \cup {Null}]] BY <2>1, <3>1 DEF TypeOK
    <3>3. grant' \in [Procs -> BOOLEAN] BY <2>1 DEF TypeOK
    <3> QED BY <2>1, <3>2, <3>3 DEF TypeOK, CapsuleUpcall
  <2>3. EndedIsClean' BY Zenon, <1>1, <1>2, <2>1 DEF EndedIsClean, TypeOK
  <2>4. PendingUpcallsCurrent' BY ZenonT(30), <1>1, <1>5, <2>1 DEF PendingUpcallsCurrent, TypeOK
  <2>5. TasksOfThisLife' BY Zenon, <2>1 DEF TasksOfThisLife, CapsuleUpcall
  <2> QED BY <1>3, <1>4, <2>2, <2>3, <2>4, <2>5
<1>6. CASE grant[p]
  <2> DEFINE t == [up |-> u, fn |-> sub[p][u], id |-> id]
  <2>1. /\ sub[p][u] # Null /\ Len(tasks[p]) < QueueLen
        /\ tasks' = [tasks EXCEPT ![p] = Append(@, t)]
        /\ grant' = grant /\ sub' = sub /\ ident' = ident /\ panicked' = panicked
    BY <1>6 DEF CapsuleUpcall, enqueue_task
  <2>2. t \in Task BY <1>1, <2>1 DEF Task, TypeOK
  <2>3. t.up = u /\ t.fn = sub[p][t.up] /\ t.id = ident[p] BY <1>1
  <2> HIDE DEF t
  <2>4. tasks[p] \in Seq(Task) /\ Len(tasks[p]) \in Nat BY DEF TypeOK
  <2>5. /\ Append(tasks[p], t) \in Seq(Task)
        /\ Len(Append(tasks[p], t)) = Len(tasks[p]) + 1
        /\ \A i \in 1 .. Len(tasks[p]) + 1 :
             Append(tasks[p], t)[i] = IF i <= Len(tasks[p]) THEN tasks[p][i] ELSE t
    BY <2>2, <2>4
  <2>6. /\ tasks'[p] = Append(tasks[p], t)
        /\ \A q \in Procs : q # p => tasks'[q] = tasks[q]
    BY <2>1 DEF TypeOK
  <2>7. \A q \in Procs : \A i \in 1 .. Len(tasks'[q]) :
          \/ q = p /\ tasks'[q][i] = t
          \/ i \in 1 .. Len(tasks[q]) /\ tasks'[q][i] = tasks[q][i]
    <3> SUFFICES ASSUME NEW q \in Procs, NEW i \in 1 .. Len(tasks'[q])
                 PROVE  \/ q = p /\ tasks'[q][i] = t
                        \/ i \in 1 .. Len(tasks[q]) /\ tasks'[q][i] = tasks[q][i]
      OBVIOUS
    <3>1. CASE q = p
      <4>1. i \in 1 .. Len(tasks[p]) + 1 BY <2>5, <2>6, <3>1
      <4>2. CASE i <= Len(tasks[p]) BY SMTT(30), <2>4, <2>5, <2>6, <3>1, <4>1, <4>2
      <4>3. CASE ~(i <= Len(tasks[p])) BY <2>5, <2>6, <3>1, <4>1, <4>3
      <4> QED BY <4>2, <4>3
    <3>2. CASE q # p BY <2>6, <3>2
    <3> QED BY <3>1, <3>2
  <2>8. TypeOK'
    <3>1. tasks' \in [Procs -> Seq(Task)] BY <2>1, <2>5 DEF TypeOK
    <3>2. Len(tasks'[p]) <= QueueLen BY <2>1, <2>4, <2>5, <2>6, KernelAssumption
    <3>3. \A q \in Procs : Len(tasks'[q]) <= QueueLen BY Zenon, <2>6, <3>2 DEF TypeOK
    <3> QED BY Zenon, <2>1, <3>1, <3>3 DEF TypeOK, CapsuleUpcall
  <2>9. EndedIsClean' BY ZenonT(30), <1>1, <1>2, <2>1, <2>6 DEF EndedIsClean
  <2>10. PendingUpcallsCurrent'
    BY SMTT(30), <1>1, <1>6, <2>1, <2>3, <2>7 DEF PendingUpcallsCurrent
  <2>11. TasksOfThisLife' BY SMTT(30), <2>1, <2>3, <2>7 DEF TasksOfThisLife
  <2> QED BY <1>3, <1>4, <2>8, <2>9, <2>10, <2>11
<1> QED BY <1>5, <1>6

\* Adding tasks that are current, and allocating grants of processes that are
\* running, preserves the invariant.
LEMMA QueuesStep ==
  ASSUME IInv, ~panicked, NEW p \in Procs, is_running(p),
         tasks' \in [Procs -> Seq(Task)], \A q \in Procs : Len(tasks'[q]) <= QueueLen,
         \A q \in Procs : q # p => tasks'[q] = tasks[q],
         \A i \in 1 .. Len(tasks'[p]) :
           \/ \E j \in 1 .. Len(tasks[p]) : tasks'[p][i] = tasks[p][j]
           \/ /\ tasks'[p][i].id = ident[p]
              /\ \/ tasks'[p][i].up = "IPC"
                 \/ grant[p] /\ tasks'[p][i].fn = sub[p][tasks'[p][i].up],
         grant' \in [Procs -> BOOLEAN], sub' \in [Procs -> [Upcalls -> Fns \cup {Null}]],
         \A q \in Procs : grant[q] => grant'[q] /\ sub'[q] = sub[q],
         \A q \in Procs : grant'[q] => grant[q] \/ is_running(q),
         panicked' \in BOOLEAN, UNCHANGED <<state, ident, next_ident, restart_count, cur>>
  PROVE  IInv'
<1> USE DEF IInv
<1>1. TypeOK' BY Zenon DEF TypeOK
<1>2. IdentsHandedOut' BY DEF IdentsHandedOut
<1>3. \A q \in Procs : is_running(q)' <=> is_running(q) BY DEF is_running
<1>4. EndedIsClean' BY Zenon, <1>3 DEF EndedIsClean
<1>5. UniqueRunning' BY Zenon, <1>3 DEF UniqueRunning
<1>6. PendingUpcallsCurrent'
  <2> SUFFICES ASSUME NEW q \in Procs, NEW i \in 1 .. Len(tasks'[q])
               PROVE  \/ tasks'[q][i].up \in {"Kernel", "IPC"}
                      \/ grant'[q] /\ tasks'[q][i].fn = sub'[q][tasks'[q][i].up]
    BY Zenon DEF PendingUpcallsCurrent
  <2>1. \/ tasks'[q][i].up \in {"Kernel", "IPC"}
        \/ grant[q] /\ tasks'[q][i].fn = sub[q][tasks'[q][i].up]
    <3>1. CASE \E j \in 1 .. Len(tasks[q]) : tasks'[q][i] = tasks[q][j]
      <4>1. PICK j \in 1 .. Len(tasks[q]) : tasks'[q][i] = tasks[q][j] BY Zenon, <3>1
      <4>2. tasks[q][j].up \in {"Kernel", "IPC"} \/ (grant[q] /\ tasks[q][j].fn = sub[q][tasks[q][j].up])
        BY ZenonT(30) DEF PendingUpcallsCurrent
      <4> QED BY Zenon, <4>1, <4>2
    <3>2. CASE ~\E j \in 1 .. Len(tasks[q]) : tasks'[q][i] = tasks[q][j]
      <4>1. q = p BY Zenon, <3>2
      <4>2. \/ tasks'[p][i].up = "IPC"
            \/ grant[p] /\ tasks'[p][i].fn = sub[p][tasks'[p][i].up]
        BY ZenonT(30), <3>2, <4>1
      <4> QED BY <4>1, <4>2
    <3> QED BY Zenon, <3>1, <3>2
  <2> QED BY Zenon, <2>1
<1>7. TasksOfThisLife'
  <2> SUFFICES ASSUME NEW q \in Procs, NEW i \in 1 .. Len(tasks'[q])
               PROVE  tasks'[q][i].id = ident[q]
    BY DEF TasksOfThisLife
  <2>1. CASE \E j \in 1 .. Len(tasks[q]) : tasks'[q][i] = tasks[q][j]
    BY <2>1 DEF TasksOfThisLife
  <2>2. CASE ~\E j \in 1 .. Len(tasks[q]) : tasks'[q][i] = tasks[q][j] BY SMTT(30), <2>2
  <2> QED BY Zenon, <2>1, <2>2
<1> QED BY ZenonT(30), <1>1, <1>2, <1>4, <1>5, <1>6, <1>7

\* A queue with one more task.
LEMMA AppendKept ==
  ASSUME NEW s \in Seq(Task), NEW t \in Task
  PROVE  /\ Append(s, t) \in Seq(Task) /\ Len(Append(s, t)) = Len(s) + 1
         /\ \A i \in 1 .. Len(Append(s, t)) :
              Append(s, t)[i] = t \/ (i \in 1 .. Len(s) /\ Append(s, t)[i] = s[i])
<1>1. Len(s) \in Nat OBVIOUS
<1>2. /\ Append(s, t) \in Seq(Task) /\ Len(Append(s, t)) = Len(s) + 1
      /\ \A i \in 1 .. Len(s) + 1 : Append(s, t)[i] = IF i <= Len(s) THEN s[i] ELSE t
  OBVIOUS
<1>3. ASSUME NEW i \in 1 .. Len(Append(s, t))
      PROVE  Append(s, t)[i] = t \/ (i \in 1 .. Len(s) /\ Append(s, t)[i] = s[i])
  <2>1. i \in 1 .. Len(s) + 1 BY <1>2
  <2>2. CASE i <= Len(s) BY <1>1, <1>2, <2>1, <2>2
  <2>3. CASE ~(i <= Len(s)) BY Zenon, <1>2, <2>1, <2>3
  <2> QED BY <2>2, <2>3
<1> QED BY <1>2, <1>3

\* Removing the head of a queue and appending a task keeps the queue's length,
\* and what is in it is the task or was there before.
LEMMA RequeueKept ==
  ASSUME NEW s \in Seq(Task), s # <<>>, NEW t \in Task
  PROVE  /\ Append(Tail(s), t) \in Seq(Task) /\ Len(Append(Tail(s), t)) = Len(s)
         /\ \A i \in 1 .. Len(Append(Tail(s), t)) :
              \/ Append(Tail(s), t)[i] = t
              \/ \E j \in 1 .. Len(s) : Append(Tail(s), t)[i] = s[j]
<1>1. Tail(s) \in Seq(Task) /\ Len(Tail(s)) = Len(s) - 1 /\ Len(s) \in Nat OBVIOUS
<1>2. \A i \in 1 .. Len(s) - 1 : Tail(s)[i] = s[i + 1] OBVIOUS
<1> DEFINE r == Tail(s)
<1> HIDE DEF r
<1>3. r \in Seq(Task) /\ Len(r) = Len(s) - 1 /\ Len(s) \in Nat BY Zenon, <1>1 DEF r
<1>4. \A i \in 1 .. Len(s) - 1 : r[i] = s[i + 1] BY Zenon, <1>2 DEF r
<1>5. Append(r, t) \in Seq(Task) /\ Len(Append(r, t)) = Len(r) + 1 BY Zenon, <1>3, AppendKept
<1>6. \A i \in 1 .. Len(Append(r, t)) :
        Append(r, t)[i] = t \/ (i \in 1 .. Len(r) /\ Append(r, t)[i] = r[i])
  BY Zenon, <1>3, AppendKept
<1>7. \A i \in 1 .. Len(r) : i + 1 \in 1 .. Len(s) /\ r[i] = s[i + 1] BY <1>3, <1>4
<1>8. Len(Append(r, t)) = Len(s) BY <1>3, <1>5
<1> QED BY Zenon, <1>5, <1>6, <1>7, <1>8 DEF r

\* A notification joins the queue of the process it is for.
LEMMA NotifyStep ==
  ASSUME IInv, NEW p \in Procs, NEW q \in Procs, Notify(p, q)
  PROVE  IInv'
<1> USE DEF IInv
<1> DEFINE t == [up |-> "IPC", fn |-> <<p, ident[p]>>, id |-> ident[q]]
<1>1. /\ ~panicked /\ is_running(q) /\ Len(tasks[q]) < QueueLen
      /\ tasks' = [tasks EXCEPT ![q] = Append(@, t)]
      /\ UNCHANGED <<state, ident, next_ident, restart_count, grant, sub, cur, panicked>>
  BY DEF Notify, InUserspace, Iterate, enqueue_task
<1>2. t \in Task /\ t.up = "IPC" /\ t.id = ident[q]
  <2>1. <<p, ident[p]>> \in Procs \X Nat /\ ident[q] \in Nat BY DEF TypeOK
  <2> QED BY <2>1 DEF Task
<1> HIDE DEF t
<1>3. tasks[q] \in Seq(Task) /\ Len(tasks[q]) \in Nat BY DEF TypeOK
<1>4. tasks'[q] = Append(tasks[q], t) /\ \A r \in Procs : r # q => tasks'[r] = tasks[r]
  BY Zenon, <1>1 DEF TypeOK
<1>5. /\ Append(tasks[q], t) \in Seq(Task) /\ Len(Append(tasks[q], t)) = Len(tasks[q]) + 1
      /\ \A i \in 1 .. Len(Append(tasks[q], t)) :
           \/ Append(tasks[q], t)[i] = t
           \/ i \in 1 .. Len(tasks[q]) /\ Append(tasks[q], t)[i] = tasks[q][i]
  BY Zenon, <1>2, <1>3, AppendKept
<1>6. tasks' \in [Procs -> Seq(Task)] BY <1>1, <1>5 DEF TypeOK
<1>7. \A r \in Procs : Len(tasks'[r]) <= QueueLen
  <2>1. Len(tasks'[q]) <= QueueLen BY SMTT(30), <1>1, <1>3, <1>4, <1>5, KernelAssumption
  <2> QED BY Zenon, <1>4, <2>1 DEF TypeOK
<1>8. \A i \in 1 .. Len(tasks'[q]) :
        \/ \E j \in 1 .. Len(tasks[q]) : tasks'[q][i] = tasks[q][j]
        \/ tasks'[q][i].id = ident[q] /\ tasks'[q][i].up = "IPC"
  BY <1>2, <1>4, <1>5
<1>9. /\ grant' \in [Procs -> BOOLEAN] /\ sub' \in [Procs -> [Upcalls -> Fns \cup {Null}]]
      /\ panicked' \in BOOLEAN
  BY Zenon, <1>1 DEF TypeOK
<1> QED BY Zenon, <1>1, <1>4, <1>6, <1>7, <1>8, <1>9, QueuesStep

\* Handling a notification allocates grants of running processes only, and
\* schedules the upcall that is subscribed.
LEMMA DeliverIPCStep ==
  ASSUME IInv, NEW p \in Procs, NEW u \in Upcalls, DeliverIPC(p, u)
  PROVE  IInv'
<1> USE DEF IInv
<1> DEFINE q == Head(tasks[p]).fn[1]
           t == [up |-> u, fn |-> sub[p][u], id |-> ident[p]]
<1>1. /\ ~panicked /\ is_running(p) /\ tasks[p] # <<>>
      /\ UNCHANGED <<state, ident, next_ident, restart_count, cur>>
      /\ panicked' \in BOOLEAN
  BY DEF DeliverIPC, Iterate, is_running
<1>2. PICK entered \in Entered(p, q, Head(tasks[p]).fn[2]) :
        /\ grant' = [r \in Procs |-> grant[r] \/ r \in entered]
        /\ sub' = [r \in Procs |-> IF r \in entered /\ ~grant[r] THEN [v \in Upcalls |-> Null] ELSE sub[r]]
  BY Zenon DEF DeliverIPC, Enter
<1>3. \/ tasks' = [tasks EXCEPT ![p] = Tail(@)]
      \/ grant[p] /\ sub[p][u] # Null /\ tasks' = [tasks EXCEPT ![p] = Append(Tail(@), t)]
  BY Zenon DEF DeliverIPC
<1>4. \A r \in Procs : r \in entered => is_running(r) BY Zenon, <1>1 DEF Entered, Enterable
<1>5. grant' \in [Procs -> BOOLEAN] BY Zenon, <1>2
<1>6. sub' \in [Procs -> [Upcalls -> Fns \cup {Null}]]
  <2>1. [v \in Upcalls |-> Null] \in [Upcalls -> Fns \cup {Null}] OBVIOUS
  <2>2. \A r \in Procs : sub[r] \in [Upcalls -> Fns \cup {Null}] BY DEF TypeOK
  <2> QED BY <1>2, <2>1, <2>2
<1>7. \A r \in Procs : (grant[r] => grant'[r] /\ sub'[r] = sub[r])
                      /\ (grant'[r] => grant[r] \/ is_running(r))
  BY Zenon, <1>2, <1>4
<1>8. CASE tasks' = [tasks EXCEPT ![p] = Tail(@)]
  <2>1. \A r \in Procs : r # p => tasks'[r] = tasks[r] BY <1>8 DEF TypeOK
  <2>2. /\ tasks' \in [Procs -> Seq(Task)] /\ \A r \in Procs : Len(tasks'[r]) <= QueueLen
        /\ \A i \in 1 .. Len(tasks'[p]) : \E j \in 1 .. Len(tasks[p]) : tasks'[p][i] = tasks[p][j]
    BY Zenon, <1>1, <1>8, TailKept
  <2> QED BY ZenonT(30), <1>1, <1>5, <1>6, <1>7, <2>1, <2>2, QueuesStep
<1>9. CASE grant[p] /\ sub[p][u] # Null /\ tasks' = [tasks EXCEPT ![p] = Append(Tail(@), t)]
  <2>1. t \in Task /\ t.id = ident[p] /\ t.fn = sub[p][t.up] BY SMTT(30), <1>9 DEF Task, TypeOK
  <2> HIDE DEF t
  <2> DEFINE s == Append(Tail(tasks[p]), t)
  <2>2. tasks[p] \in Seq(Task) BY DEF TypeOK
  <2>3. /\ s \in Seq(Task) /\ Len(s) = Len(tasks[p])
        /\ \A i \in 1 .. Len(s) : s[i] = t \/ \E j \in 1 .. Len(tasks[p]) : s[i] = tasks[p][j]
    BY Zenon, <1>1, <2>1, <2>2, RequeueKept
  <2>4. tasks' = [tasks EXCEPT ![p] = s] BY Zenon, <1>9
  <2> HIDE DEF s
  <2>5. tasks'[p] = s /\ \A r \in Procs : r # p => tasks'[r] = tasks[r]
    BY Zenon, <2>4 DEF TypeOK
  <2>6. tasks' \in [Procs -> Seq(Task)] BY Zenon, <2>3, <2>4 DEF TypeOK
  <2>7. \A r \in Procs : Len(tasks'[r]) <= QueueLen BY Zenon, <2>3, <2>5 DEF TypeOK
  <2>8. \A i \in 1 .. Len(tasks'[p]) :
          \/ \E j \in 1 .. Len(tasks[p]) : tasks'[p][i] = tasks[p][j]
          \/ /\ tasks'[p][i].id = ident[p]
             /\ grant[p] /\ tasks'[p][i].fn = sub[p][tasks'[p][i].up]
    BY ZenonT(30), <1>9, <2>1, <2>3, <2>5
  <2> QED BY ZenonT(30), <1>1, <1>5, <1>6, <1>7, <2>5, <2>6, <2>7, <2>8, QueuesStep
<1> QED BY ZenonT(30), <1>3, <1>8, <1>9

-----------------------------------------------------------------------------
\* At boot nothing is running, pending or allocated.
LEMMA InitEstablishes == Init => IInv
<1> SUFFICES ASSUME Init PROVE IInv OBVIOUS
<1>1. Cardinality(Procs) \in Nat BY KernelAssumption, FS_CardinalityType
<1>2. <<>> \in Seq(Task) /\ Len(<<>>) = 0 OBVIOUS
<1>3. TypeOK
  <2>1. tasks \in [Procs -> Seq(Task)] /\ \A p \in Procs : Len(tasks[p]) <= QueueLen
    BY <1>2, KernelAssumption DEF Init
  <2>2. ident \in [Procs -> Nat] /\ next_ident \in Nat BY <1>1 DEF Init
  <2>3. sub \in [Procs -> [Upcalls -> Fns \cup {Null}]] BY DEF Init
  <2> QED BY Zenon, <2>1, <2>2, <2>3 DEF Init, TypeOK, States
<1>4. IdentsHandedOut BY <1>1 DEF Init, IdentsHandedOut
<1>5. \A p \in Procs : ~is_running(p) /\ tasks[p] = <<>> /\ grant[p] = FALSE
  BY DEF Init, is_running
<1>6. EndedIsClean /\ UniqueRunning BY <1>5 DEF EndedIsClean, UniqueRunning
<1>7. PendingUpcallsCurrent /\ TasksOfThisLife
  BY <1>2, <1>5 DEF PendingUpcallsCurrent, TasksOfThisLife
<1> QED BY <1>3, <1>4, <1>6, <1>7 DEF IInv

\* No step of the kernel, of a process, a capsule or the console breaks the
\* invariant.
LEMMA NextPreserves ==
  ASSUME IInv, [Next]_vars
  PROVE  IInv'
<1>0. CASE UNCHANGED vars
  BY <1>0 DEF vars, IInv, TypeOK, IdentsHandedOut, EndedIsClean, PendingUpcallsCurrent,
              TasksOfThisLife, UniqueRunning, is_running
<1>a. cur \in Procs \cup {NoProc} /\ state \in [Procs -> States] BY DEF IInv, TypeOK
<1>1. ASSUME NEW p \in Procs, Schedule(p) \/ Return(p) PROVE IInv'
  <2>1. cur' \in Procs \cup {NoProc} BY <1>1 DEF Schedule, Return
  <2>2. UNCHANGED <<state, tasks, ident, next_ident, restart_count, grant, sub, panicked>>
    BY <1>1 DEF Schedule, Return
  <2>3. TypeOK' BY Zenon, <2>1, <2>2 DEF IInv, TypeOK
  <2>4. IdentsHandedOut' /\ PendingUpcallsCurrent' /\ TasksOfThisLife'
    BY <2>2 DEF IInv, IdentsHandedOut, PendingUpcallsCurrent, TasksOfThisLife
  <2>5. EndedIsClean' /\ UniqueRunning'
    BY <2>2 DEF IInv, EndedIsClean, UniqueRunning, is_running
  <2> QED BY <2>3, <2>4, <2>5 DEF IInv
<1>2. ASSUME NEW p \in Procs, StartOrRefuse(p) PROVE IInv'
  <2>1. CASE is_runnable(p) BY <1>2, <2>1, StartStep DEF StartOrRefuse, Iterate
  <2>2. CASE ~is_runnable(p)
    BY <1>2, <1>a, <2>2, TerminateShape, EndsStep DEF StartOrRefuse, Iterate
  <2> QED BY <2>1, <2>2
<1>3. ASSUME NEW p \in Procs, DeliveryFails(p) PROVE IInv'
  <2>1. ~panicked /\ cur' = cur BY <1>3 DEF DeliveryFails, Iterate
  <2>2. set_fault_state(p) \/ Panics(p) BY <1>3 DEF DeliveryFails, Panics
  <2> QED BY ZenonT(30), <1>a, <2>1, <2>2, FaultShape, EndsStep, PanicsStep
<1>4. ASSUME NEW p \in Procs, Fault(p) \/ ConsoleFault(p) PROVE IInv'
  <2>1. ~panicked /\ cur' = cur /\ set_fault_state(p)
    BY <1>4 DEF Fault, ConsoleFault, InUserspace, Iterate, KernelWork
  <2> QED BY <1>a, <2>1, FaultShape, EndsStep, PanicsStep
<1>5. ASSUME NEW p \in Procs, Exit(p) \/ ConsoleTerminate(p) \/ ConsoleBoot(p) PROVE IInv'
  <2>1. ~panicked /\ cur' = cur /\ (terminate(p) \/ try_restart(p))
    BY <1>5 DEF Exit, ConsoleTerminate, ConsoleBoot, InUserspace, Iterate, KernelWork
  <2> QED BY <1>a, <2>1, TerminateShape, RestartShape, EndsStep
<1>6. ASSUME NEW p \in Procs,
             Yield(p) \/ mark_credentials_pass(p) \/ mark_credentials_fail(p) \/ stop(p) \/ resume(p)
      PROVE IInv'
  <2>1. cur' = cur
    BY <1>6 DEF Yield, InUserspace, Iterate, mark_credentials_pass, mark_credentials_fail, stop,
                resume, KernelWork
  <2>2. Moves(p)
    BY <1>6, <1>a DEF Yield, InUserspace, Iterate, mark_credentials_pass, mark_credentials_fail,
                      stop, resume, Set, Moves, States, is_running
  <2> QED BY SMTT(30), <1>a, <2>1, <2>2, MovesStep
<1>7. ASSUME NEW p \in Procs, NEW id \in 0 .. MaxIdent - 1, NEW u \in Upcalls,
             CapsuleUpcall(p, id, u)
      PROVE IInv'
  <2>1. id \in Nat BY KernelAssumption
  <2> QED BY <1>7, <2>1, CapsuleStep
<1> QED
  BY ZenonT(30), <1>0, <1>1, <1>2, <1>3, <1>4, <1>5, <1>6, <1>7, DeliverStep, SubscribeStep, NotifyStep,
     DeliverIPCStep DEF Next

\* The inductive invariant holds of every behaviour of the kernel.
THEOREM Invariance == Spec => []IInv
<1>1. Init => IInv BY InitEstablishes
<1>2. IInv /\ [Next]_vars => IInv' BY NextPreserves
<1> QED BY <1>1, <1>2, PTL DEF Spec

\* Type correctness; in particular no queue of tasks ever exceeds its length.
THEOREM TypeCorrect == Spec => []TypeOK
<1>1. IInv => TypeOK BY DEF IInv
<1> QED BY <1>1, Invariance, PTL

\* do_process() never panics over a process that cannot be run: one that is
\* not running has no tasks, so it is not ready.
THEOREM NoUnrunnable == Spec => []NeverUnrunnable
<1>1. IInv => NeverUnrunnable
  <2> SUFFICES ASSUME IInv, ~panicked, cur # NoProc, ready(cur),
                      state[cur] \in {"Faulted", "Terminated", "CredentialsUnchecked", "CredentialsFailed"}
               PROVE  FALSE
    BY DEF NeverUnrunnable
  <2>1. cur \in Procs /\ ~is_running(cur) BY DEF IInv, TypeOK, is_running
  <2>2. tasks[cur] = <<>> BY <2>1 DEF IInv, EndedIsClean
  <2> QED BY <2>2 DEF ready
<1> QED BY <1>1, Invariance, PTL

\* What a process leaves behind when it ends is cleared.
THEOREM EndedClean == Spec => []EndedIsClean
<1>1. IInv => EndedIsClean BY DEF IInv
<1> QED BY <1>1, Invariance, PTL

\* Pending upcalls are for the functions now subscribed.
THEOREM PendingCurrent == Spec => []PendingUpcallsCurrent
<1>1. IInv => PendingUpcallsCurrent BY DEF IInv
<1> QED BY <1>1, Invariance, PTL

\* No task outlives the life of the process it was scheduled for.
THEOREM LivesApart == Spec => []TasksOfThisLife
<1>1. IInv => TasksOfThisLife BY DEF IInv
<1> QED BY <1>1, Invariance, PTL

\* Of the processes that share an identifier at most one runs.
THEOREM Uniqueness == Spec => []UniqueRunning
<1>1. IInv => UniqueRunning BY DEF IInv
<1> QED BY <1>1, Invariance, PTL

-----------------------------------------------------------------------------
\* How a step changes the phase of a process.
Phases == [p \in Procs |-> Phase(state[p])]

\* A change of the state of one process is a change of its phase.
LEMMA PhaseOfStep ==
  ASSUME TypeOK, NEW p \in Procs, NEW s, state' = [state EXCEPT ![p] = s]
  PROVE  /\ Phases' = [Phases EXCEPT ![p] = Phase(s)]
         /\ Phases[p] = Phase(state[p])
         /\ Phases \in [Procs -> {Phase(state[q]) : q \in Procs}]
BY Zenon DEF Phases, TypeOK

\* A step that keeps every phase and identifier is a stutter of AppLifecycle.
LEMMA StutterStep ==
  ASSUME Phases' = Phases, ident' = ident
  PROVE  UNCHANGED Lifecycle!lvars
BY DEF Phases, Lifecycle!lvars

\* Ending or restarting a process that is approved, alive or dead is a death, a
\* renewal or a stutter.
LEMMA EndsLifecycle ==
  ASSUME IInv, NEW p \in Procs, Restartable(p), Ends(p),
         state'[p] = "CredentialsApproved" => ident' # ident
  PROVE  [Lifecycle!LNext]_(Lifecycle!lvars)
<1>1. PICK s \in {"Terminated", "Faulted", "CredentialsApproved"} : state' = [state EXCEPT ![p] = s]
  BY Zenon DEF Ends
<1>2. /\ Phases' = [Phases EXCEPT ![p] = Phase(s)] /\ Phases[p] = Phase(state[p])
  BY Zenon, <1>1, PhaseOfStep DEF IInv
<1>3. Phase(state[p]) \in {"approved", "alive", "dead"}
  BY DEF IInv, TypeOK, States, Restartable, Phase
<1>4. s = "CredentialsApproved" => ident' # ident BY <1>1 DEF IInv, TypeOK
<1>5. CASE ident' = [ident EXCEPT ![p] = next_ident]
  <2>1. ident'[p] = next_ident /\ next_ident \in Nat /\ \A q \in Procs : next_ident > ident[q]
    BY <1>5 DEF IInv, TypeOK, IdentsHandedOut
  <2>2. Phase(s) \in {"approved", "dead"} BY DEF Phase
  <2>3. Lifecycle!Renew(p) BY Zenon, <1>2, <1>3, <1>5, <2>1, <2>2 DEF Lifecycle!Renew, Phases
  <2> QED BY <2>3 DEF Lifecycle!LNext
<1>6. CASE ident' = ident
  <2>1. Phase(s) = "dead" BY <1>4, <1>6 DEF Phase
  <2>2. CASE Phase(state[p]) = "dead"
    <3>1. Phases' = Phases BY Zenon, <1>2, <2>1, <2>2 DEF Phases
    <3> QED BY <1>6, <3>1, StutterStep
  <2>3. CASE Phase(state[p]) # "dead"
    <3>1. Lifecycle!Die(p)
      BY Zenon, <1>2, <1>3, <1>6, <2>1, <2>3 DEF Lifecycle!Die, Lifecycle!Move, Phases
    <3> QED BY Zenon, <3>1 DEF Lifecycle!LNext
  <2> QED BY <2>2, <2>3
<1> QED BY <1>5, <1>6 DEF Ends

\* A step between two states of one phase is a stutter.
LEMMA SamePhase ==
  ASSUME IInv, NEW p \in Procs, NEW s, state' = [state EXCEPT ![p] = s],
         Phase(s) = Phase(state[p]), ident' = ident
  PROVE  [Lifecycle!LNext]_(Lifecycle!lvars)
<1>1. Phases' = [Phases EXCEPT ![p] = Phase(s)] /\ Phases[p] = Phase(state[p])
  BY Zenon, PhaseOfStep DEF IInv
<1>2. Phases' = Phases BY <1>1 DEF Phases
<1> QED BY <1>2, StutterStep

\* A fault that stops the kernel is a death or a stutter.
LEMMA PanicsLifecycle ==
  ASSUME IInv, NEW p \in Procs, Restartable(p), Panics(p)
  PROVE  [Lifecycle!LNext]_(Lifecycle!lvars)
<1>1. state' = [state EXCEPT ![p] = "Faulted"] /\ ident' = ident BY DEF Panics
<1>2. Phases' = [Phases EXCEPT ![p] = "dead"] /\ Phases[p] = Phase(state[p])
  <2>1. Phase("Faulted") = "dead" BY DEF Phase
  <2> QED BY Zenon, <1>1, <2>1, PhaseOfStep DEF IInv
<1>3. Phase(state[p]) \in {"approved", "alive", "dead"}
  BY DEF IInv, TypeOK, States, Restartable, Phase
<1>4. CASE Phase(state[p]) = "dead"
  <2>1. Phases' = Phases BY Zenon, <1>2, <1>4 DEF Phases
  <2> QED BY <1>1, <2>1, StutterStep
<1>5. CASE Phase(state[p]) # "dead"
  <2>1. Lifecycle!Die(p) BY <1>1, <1>2, <1>3, <1>5 DEF Lifecycle!Die, Lifecycle!Move, Phases
  <2> QED BY <2>1 DEF Lifecycle!LNext
<1> QED BY <1>4, <1>5

\* terminate(), try_restart() and set_fault_state() are steps of AppLifecycle.
LEMMA EndingLifecycle ==
  ASSUME IInv, ~panicked, NEW p \in Procs, terminate(p) \/ try_restart(p) \/ set_fault_state(p)
  PROVE  [Lifecycle!LNext]_(Lifecycle!lvars)
<1>1. Restartable(p)
  BY DEF terminate, Terminable, try_restart, set_fault_state, Restartable, is_running
<1>2. CASE terminate(p)
  <2>1. state'[p] # "CredentialsApproved" BY <1>2 DEF terminate, IInv, TypeOK
  <2> QED BY SMTT(30), <1>1, <1>2, <2>1, TerminateShape, EndsLifecycle
<1>3. CASE try_restart(p)
  <2>1. ident'[p] # ident[p]
    BY <1>3 DEF try_restart, NewIdentifier, IInv, TypeOK, IdentsHandedOut
  <2> QED BY SMTT(30), <1>1, <1>3, <2>1, RestartShape, EndsLifecycle
<1>4. CASE set_fault_state(p) /\ ~try_restart(p)
  <2>1. state' = [state EXCEPT ![p] = "Faulted"] BY <1>4 DEF set_fault_state
  <2>2. state'[p] # "CredentialsApproved" BY <2>1 DEF IInv, TypeOK
  <2> QED BY SMTT(30), <1>1, <1>4, <2>2, FaultShape, EndsLifecycle, PanicsLifecycle
<1> QED BY <1>2, <1>3, <1>4

\* Every step of the kernel is a step of AppLifecycle or a stutter.
LEMMA NextLifecycle ==
  ASSUME IInv, [Next]_vars
  PROVE  [Lifecycle!LNext]_(Lifecycle!lvars)
<1>0. state \in [Procs -> States] /\ ident \in [Procs -> Nat] BY DEF IInv, TypeOK
<1>1. ASSUME UNCHANGED <<state, ident>> PROVE [Lifecycle!LNext]_(Lifecycle!lvars)
  <2>1. Phases' = Phases BY <1>1 DEF Phases
  <2> QED BY <1>1, <2>1, StutterStep
<1>2. ASSUME NEW p \in Procs, StartOrRefuse(p), is_runnable(p) PROVE Lifecycle!LNext
  <2>1. state' = [state EXCEPT ![p] = "Yielded"] /\ ident' = ident /\ state[p] = "CredentialsApproved"
    BY <1>2 DEF StartOrRefuse, enqueue_init_task
  <2>2. Phase("Yielded") = "alive" /\ Phase("CredentialsApproved") = "approved" BY DEF Phase
  <2>3. Phases' = [Phases EXCEPT ![p] = "alive"] /\ Phases[p] = "approved"
    BY ZenonT(30), <2>1, <2>2, PhaseOfStep DEF IInv
  <2>4. \A q \in Procs : <<p, q>> \in SameApp => Phases[q] # "alive"
    <3> SUFFICES ASSUME NEW q \in Procs, <<p, q>> \in SameApp PROVE Phases[q] # "alive" OBVIOUS
    <3>1. ~is_running(q) BY <1>2 DEF is_runnable, Blocks, is_running
    <3> QED BY <1>0, <3>1 DEF is_running, Phase, States, Phases
  <2>5. Lifecycle!Come(p) BY <2>1, <2>3, <2>4 DEF Lifecycle!Come, Lifecycle!Move, Phases
  <2> QED BY <2>5 DEF Lifecycle!LNext
<1>3. ASSUME NEW p \in Procs, NEW s \in {"CredentialsApproved", "CredentialsFailed"},
             Set(p, "CredentialsUnchecked", s)
      PROVE  Lifecycle!LNext
  <2>1. /\ Phase("CredentialsUnchecked") = "unchecked"
        /\ Phase(s) \in {"approved", "rejected"}
    BY DEF Phase
  <2>2. Phases' = [Phases EXCEPT ![p] = Phase(s)] /\ Phases[p] = "unchecked" /\ ident' = ident
    BY Zenon, <1>3, <2>1, PhaseOfStep DEF IInv, Set
  <2>3. Lifecycle!Verdict(p) BY Zenon, <2>1, <2>2 DEF Lifecycle!Verdict, Lifecycle!Move, Phases
  <2> QED BY <2>3 DEF Lifecycle!LNext
<1>4. ASSUME NEW p \in Procs, Deliver(p) \/ Yield(p) \/ stop(p) \/ resume(p)
      PROVE  [Lifecycle!LNext]_(Lifecycle!lvars)
  <2>1. /\ state[p] \in {"Running", "Yielded", "StoppedRunning", "StoppedYielded"} /\ ident' = ident
        /\ \E s \in {"Running", "Yielded", "StoppedRunning", "StoppedYielded"} :
             state' = [state EXCEPT ![p] = s]
    BY <1>4 DEF Deliver, Yield, InUserspace, stop, resume, Set
  <2>2. PICK s \in {"Running", "Yielded", "StoppedRunning", "StoppedYielded"} :
          state' = [state EXCEPT ![p] = s]
    BY Zenon, <2>1
  <2>3. Phase(s) = "alive" /\ Phase(state[p]) = "alive" BY <2>1 DEF Phase
  <2> QED BY ZenonT(30), <2>1, <2>2, <2>3, SamePhase
<1>5. ASSUME NEW p \in Procs, DeliveryFails(p) PROVE [Lifecycle!LNext]_(Lifecycle!lvars)
  <2>1. CASE set_fault_state(p) BY <1>5, <2>1, EndingLifecycle DEF DeliveryFails, Iterate
  <2>2. CASE ~set_fault_state(p)
    <3>1. Panics(p) /\ state[p] = "Yielded" BY <1>5, <2>2 DEF DeliveryFails, Panics
    <3>2. Restartable(p) BY <3>1 DEF Restartable
    <3> QED BY <3>1, <3>2, PanicsLifecycle
  <2> QED BY <2>1, <2>2
<1>6. ASSUME NEW p \in Procs,
             \/ StartOrRefuse(p) /\ ~is_runnable(p)
             \/ Fault(p) \/ Exit(p) \/ ConsoleFault(p) \/ ConsoleTerminate(p) \/ ConsoleBoot(p)
      PROVE  [Lifecycle!LNext]_(Lifecycle!lvars)
  <2>1. ~panicked /\ (terminate(p) \/ try_restart(p) \/ set_fault_state(p))
    BY <1>6 DEF StartOrRefuse, Fault, Exit, ConsoleFault, ConsoleTerminate, ConsoleBoot,
                InUserspace, Iterate, KernelWork
  <2> QED BY <2>1, EndingLifecycle
<1>7. CASE UNCHANGED vars BY <1>1, <1>7 DEF vars
<1>8. CASE Next
  <2>1. PICK p \in Procs :
          \/ UNCHANGED <<state, ident>>
          \/ StartOrRefuse(p)
          \/ \E s \in {"CredentialsApproved", "CredentialsFailed"} : Set(p, "CredentialsUnchecked", s)
          \/ Deliver(p) \/ Yield(p) \/ stop(p) \/ resume(p)
          \/ DeliveryFails(p)
          \/ Fault(p) \/ Exit(p) \/ ConsoleFault(p) \/ ConsoleTerminate(p) \/ ConsoleBoot(p)
    BY ZenonT(30), <1>8 DEF Next, Schedule, Return, Subscribe, CapsuleUpcall, Notify, DeliverIPC,
                mark_credentials_pass, mark_credentials_fail
  <2> QED BY ZenonT(30), <1>1, <1>2, <1>3, <1>4, <1>5, <1>6, <2>1
<1> QED BY <1>7, <1>8

\* The kernel keeps the promise of AppLifecycle: processes come alive only when
\* approved and unique, a rejected process stays rejected, and every life has
\* an identifier no process ever had.
THEOREM Refinement == Spec => ImplementsLifecycle
<1>1. Init => Lifecycle!LInit
  <2> SUFFICES ASSUME Init PROVE Lifecycle!LInit OBVIOUS
  <2>1. Phase("CredentialsUnchecked") = "unchecked" BY DEF Phase
  <2>2. [p \in Procs |-> Phase(state[p])] = [p \in Procs |-> "unchecked"] BY <2>1 DEF Init
  <2>3. ident \in [Procs -> Nat] BY InitEstablishes DEF IInv, TypeOK
  <2> QED BY <2>2, <2>3 DEF Init, Lifecycle!LInit
<1>2. IInv /\ [Next]_vars => [Lifecycle!LNext]_(Lifecycle!lvars) BY NextLifecycle
<1> QED BY <1>1, <1>2, Invariance, PTL DEF Spec, ImplementsLifecycle, Lifecycle!LSpec
=============================================================================
