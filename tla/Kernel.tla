------------------------------- MODULE Kernel -------------------------------
(***************************************************************************)
(* The processes of a board from loading to termination: the state machine *)
(* of process_standard.rs driven by the main loop, the system calls, the   *)
(* capsules, inter-process communication and the process console           *)
(* (kernel.rs, grant.rs, upcall.rs, ipc.rs, process_checker.rs,            *)
(* process_policies.rs).                                                   *)
(*                                                                         *)
(* The kernel is single-threaded.  While cur names a process the kernel is *)
(* in do_process() for it; otherwise it is in its main loop, where it also *)
(* does its own work: interrupts, deferred calls, the console.             *)
(***************************************************************************)
EXTENDS Integers, Sequences, FiniteSets

CONSTANTS
  Procs,       \* the process slots in use
  NoProc,      \* no process
  SameApp,     \* <<p, q>>: same Application Identifier, or equal Short IDs
  Version,     \* [Procs -> Nat] binary_version()
  Policy,      \* [Procs -> Policies] the fault policy
  Threshold,   \* of the restart policies that have one
  Upcalls,     \* the upcall identifiers of a driver
  Fns,         \* upcall functions of a process, in its memory
  Null,        \* the null upcall
  QueueLen,    \* tasks a process can have pending: CALLBACK_LEN - 1
  MaxIdent     \* bound: process identifiers handed out

Policies == {"Panic", "Stop", "Restart", "ThresholdRestart", "ThresholdRestartThenPanic"}

ASSUME KernelAssumption ==
  /\ NoProc \notin Procs /\ IsFiniteSet(Procs)
  /\ SameApp \subseteq Procs \X Procs
  /\ \A p, q \in Procs : <<p, q>> \in SameApp => <<q, p>> \in SameApp
  /\ Version \in [Procs -> Nat] /\ Policy \in [Procs -> Policies]
  /\ Threshold \in Nat /\ QueueLen \in Nat \ {0} /\ MaxIdent \in Nat
  /\ Null \notin Fns

VARIABLES
  state,        \* [Procs -> States]
  tasks,        \* [Procs -> Seq(Task)] the pending tasks
  ident,        \* [Procs -> Nat] process_id.identifier
  next_ident,   \* process_identifier_max
  restart_count,
  grant,        \* [Procs -> BOOLEAN] whether the driver's grant is allocated
  sub,          \* [Procs -> [Upcalls -> Fns \cup {Null}]] the saved upcalls in it
  cur,          \* the process do_process() is running, or NoProc
  panicked      \* the kernel stopped: a fault, or a grant entered twice

vars == <<state, tasks, ident, next_ident, restart_count, grant, sub, cur, panicked>>

States == {"CredentialsUnchecked", "CredentialsFailed", "CredentialsApproved", "Running",
           "Yielded", "StoppedRunning", "StoppedYielded", "Faulted", "Terminated"}

\* A task is a function call: the upcall it is for, or "Kernel" for the call
\* that starts the process, and the function; or it is "IPC" with the ProcessId
\* of the process that notified this one.  id is the identifier under which the
\* task was scheduled; the code keeps none in the queue.
Task == [up : Upcalls \cup {"Kernel", "IPC"}, fn : Fns \cup {"init"} \cup (Procs \X Nat), id : Nat]

is_running(p) == state[p] \in {"Running", "Yielded", "StoppedRunning", "StoppedYielded"}

\* Mutant: everything is ready that is not waiting.
ReadyUnlessWaiting(p) == tasks[p] # <<>> \/ state[p] \notin {"Yielded", "StoppedYielded"}

ready(p) == tasks[p] # <<>> \/ state[p] \in {"Running", "CredentialsApproved"}

Init ==
  /\ state = [p \in Procs |-> "CredentialsUnchecked"]
  /\ tasks = [p \in Procs |-> <<>>]
  /\ ident \in [Procs -> 0 .. Cardinality(Procs) - 1]       \* in loading order
  /\ \A p, q \in Procs : p # q => ident[p] # ident[q]
  /\ next_ident = Cardinality(Procs)
  /\ restart_count = [p \in Procs |-> 0]
  /\ grant = [p \in Procs |-> FALSE]
  /\ sub = [p \in Procs |-> [u \in Upcalls |-> Null]]
  /\ cur = NoProc
  /\ panicked = FALSE

-----------------------------------------------------------------------------
\* terminate: which processes it concerns, and what it clears.
Terminable(p) == is_running(p) \/ state[p] \in {"Faulted", "CredentialsApproved"}

Clear(p) ==
  /\ tasks' = IF Terminable(p) THEN [tasks EXCEPT ![p] = <<>>] ELSE tasks
  /\ grant' = IF Terminable(p) THEN [grant EXCEPT ![p] = FALSE] ELSE grant

terminate(p) ==
  /\ Terminable(p)
  /\ Clear(p)
  /\ state' = [state EXCEPT ![p] = "Terminated"]
  /\ UNCHANGED <<ident, next_ident, restart_count, sub, panicked>>

\* reset() gives the process a new identifier before anything can fail.
NewIdentifier(p) ==
  /\ next_ident < MaxIdent
  /\ ident' = [ident EXCEPT ![p] = next_ident]
  /\ next_ident' = next_ident + 1

\* Mutant: any process can be restarted.
AnyRestartable(p) == TRUE

Restartable(p) == state[p] \notin {"CredentialsFailed", "CredentialsUnchecked"}

\* try_restart: terminate, then reset(), which may fail to set up the MPU or
\* the stack and then leaves the process terminated.
try_restart(p) ==
  /\ Restartable(p)
  /\ Clear(p)
  /\ NewIdentifier(p)
  /\ \/ /\ state' = [state EXCEPT ![p] = "CredentialsApproved"]
        /\ restart_count' = [restart_count EXCEPT ![p] = @ + 1]
     \/ /\ state' = [state EXCEPT ![p] = "Terminated"]
        /\ UNCHANGED restart_count
  /\ UNCHANGED <<sub, panicked>>

\* The fault policies.
FaultAction(p) ==
  CASE Policy[p] \in {"Panic", "Stop", "Restart"} -> Policy[p]
    [] restart_count[p] <= Threshold -> "Restart"
    [] Policy[p] = "ThresholdRestart" -> "Stop"
    [] OTHER -> "Panic"

set_fault_state(p) ==
  /\ Restartable(p)              \* else return: never make it runnable
  /\ \/ /\ FaultAction(p) = "Panic"
        /\ state' = [state EXCEPT ![p] = "Faulted"]
        /\ panicked' = TRUE
        /\ UNCHANGED <<tasks, ident, next_ident, restart_count, grant, sub>>
     \/ /\ FaultAction(p) = "Restart"
        /\ try_restart(p)
     \/ /\ FaultAction(p) = "Stop"
        /\ Clear(p)
        /\ state' = [state EXCEPT ![p] = "Faulted"]
        /\ UNCHANGED <<ident, next_ident, restart_count, sub, panicked>>

-----------------------------------------------------------------------------
\* is_runnable: no other process that shares an identifier with p blocks it.
\* Mutant: only newer binaries block.
BlocksIfNewer(q, p) ==
  /\ state[q] \notin {"CredentialsUnchecked", "CredentialsFailed", "Terminated"}
  /\ <<p, q>> \in SameApp
  /\ Version[q] > Version[p]

Blocks(q, p) ==
  /\ state[q] \notin {"CredentialsUnchecked", "CredentialsFailed"}
  /\ <<p, q>> \in SameApp
  /\ (Version[q] > Version[p] /\ state[q] # "Terminated") \/ is_running(q)

is_runnable(p) ==
  /\ state[p] \in {"CredentialsApproved", "Terminated"}
  /\ ~\E q \in Procs : Blocks(q, p)

\* enqueue_init_task: the state first, then the task, whose queue is empty.
enqueue_init_task(p) ==
  /\ state' = [state EXCEPT ![p] = "Yielded"]
  /\ tasks' = IF Len(tasks[p]) < QueueLen
              THEN [tasks EXCEPT ![p] = Append(@, [up |-> "Kernel", fn |-> "init", id |-> ident[p]])]
              ELSE tasks
  /\ UNCHANGED <<ident, next_ident, restart_count, grant, sub, panicked>>

-----------------------------------------------------------------------------
\* The main loop: the scheduler picks a process that is ready.
Schedule(p) ==
  /\ ~panicked /\ cur = NoProc
  /\ ready(p)
  /\ cur' = p
  /\ UNCHANGED <<state, tasks, ident, next_ident, restart_count, grant, sub, panicked>>

\* do_process() returns: its timeslice is used up, the scheduler has something
\* more urgent, the process is no longer ready, or it is stopped.  The first
\* two can happen in any iteration.
Return(p) ==
  /\ ~panicked /\ cur = p
  /\ cur' = NoProc
  /\ UNCHANGED <<state, tasks, ident, next_ident, restart_count, grant, sub, panicked>>

\* An iteration of do_process() that goes on to look at the process's state.
Iterate(p) == ~panicked /\ cur = p /\ ready(p) /\ UNCHANGED cur

\* CredentialsApproved: start the process if no other one prevents it.
StartOrRefuse(p) ==
  /\ Iterate(p)
  /\ state[p] = "CredentialsApproved"
  /\ IF is_runnable(p) THEN enqueue_init_task(p) ELSE terminate(p)

\* Yielded: take the first task and set the process up to execute it.
Deliver(p) ==
  /\ Iterate(p)
  /\ state[p] = "Yielded" /\ tasks[p] # <<>> /\ Head(tasks[p]).up # "IPC"
  /\ tasks' = [tasks EXCEPT ![p] = Tail(@)]
  /\ state' = [state EXCEPT ![p] = "Running"]
  /\ UNCHANGED <<ident, next_ident, restart_count, grant, sub, panicked>>

\* ... which fails if the stack has no room for it: the process has faulted.
DeliveryFails(p) ==
  /\ Iterate(p)
  /\ state[p] = "Yielded" /\ tasks[p] # <<>> /\ Head(tasks[p]).up # "IPC"
  /\ \/ set_fault_state(p) /\ FaultAction(p) # "Panic"    \* what is left of the queue is cleared
     \/ /\ FaultAction(p) = "Panic"
        /\ state' = [state EXCEPT ![p] = "Faulted"]
        /\ tasks' = [tasks EXCEPT ![p] = Tail(@)]
        /\ panicked' = TRUE
        /\ UNCHANGED <<ident, next_ident, restart_count, grant, sub>>

\* Running: switch to the process, and handle what it comes back with.  A
\* system call whose return value cannot be written faults the process, which
\* Fault covers.
InUserspace(p) == Iterate(p) /\ state[p] = "Running"

Fault(p) == InUserspace(p) /\ set_fault_state(p)

\* yield-wait, and yield-no-wait with tasks pending.
Yield(p) ==
  /\ InUserspace(p)
  /\ state' = [state EXCEPT ![p] = "Yielded"]
  /\ UNCHANGED <<tasks, ident, next_ident, restart_count, grant, sub, panicked>>

Exit(p) == InUserspace(p) /\ (terminate(p) \/ try_restart(p))

\* What is selected from a sequence by a set of its positions, in order.
Selections(S) ==
  {f \in [1 .. Cardinality(S) -> S] : \A i, j \in 1 .. Cardinality(S) : i < j => f[i] < f[j]}

\* RingBuffer::retain of the tasks that are not for upcall u.
remove_pending_upcalls(p, u) ==
  \E f \in Selections({i \in 1 .. Len(tasks[p]) : tasks[p][i].up # u}) :
    tasks' = [tasks EXCEPT ![p] = [i \in DOMAIN f |-> tasks[p][f[i]]]]

\* subscribe with a valid or null function: allocate the driver's grant if need
\* be, swap the upcall, and cancel those pending for the previous one.
Subscribe(p, u, fn) ==
  /\ InUserspace(p)
  /\ grant' = [grant EXCEPT ![p] = TRUE]
  /\ sub' = [sub EXCEPT ![p] = [v \in Upcalls |-> IF v = u THEN fn
                                                   ELSE IF grant[p] THEN sub[p][v] ELSE Null]]
  /\ remove_pending_upcalls(p, u)
  /\ UNCHANGED <<state, ident, next_ident, restart_count, panicked>>

-----------------------------------------------------------------------------
\* Mutant: only the slot is compared.
get_process_slot(p, id) == TRUE

\* A ProcessId finds its process only in the life it was made for.
get_process(p, id) == id = ident[p]

enqueue_task(p, t) ==
  /\ is_running(p)
  /\ Len(tasks[p]) < QueueLen
  /\ tasks' = [tasks EXCEPT ![p] = Append(@, t)]

\* A capsule, in the kernel's own work or in a command system call of the
\* running process, enters its grant of the process it knows as id and
\* schedules an upcall.  The grant is allocated if need be, with null upcalls.
\* Entering the grant of a process that is not running fails.
CapsuleUpcall(p, id, u) ==
  /\ ~panicked
  /\ cur # NoProc => state[cur] = "Running"
  /\ get_process(p, id)
  /\ is_running(p)
  /\ IF grant[p]
     THEN /\ sub[p][u] # Null
          /\ enqueue_task(p, [up |-> u, fn |-> sub[p][u], id |-> id])
          /\ UNCHANGED <<grant, sub>>
     ELSE /\ grant' = [grant EXCEPT ![p] = TRUE]
          /\ sub' = [sub EXCEPT ![p] = [v \in Upcalls |-> Null]]
          /\ UNCHANGED tasks
  /\ UNCHANGED <<state, ident, next_ident, restart_count, cur, panicked>>

\* Notifying a service or a client: commands 2 and 3 of the IPC driver.
Notify(p, q) ==
  /\ InUserspace(p)
  /\ enqueue_task(q, [up |-> "IPC", fn |-> <<p, ident[p]>>, id |-> ident[q]])
  /\ UNCHANGED <<state, ident, next_ident, restart_count, grant, sub, panicked>>

\* Mutant: whatever the ProcessId names.
EnterableAny(q) == TRUE

\* Whether the driver can enter its grant of a process it has the ProcessId of.
Enterable(q) == is_running(q)

\* Mutant: the upcalls saved in a grant are set up again every time.
EnterAnew(entered) ==
  /\ grant' = [r \in Procs |-> grant[r] \/ r \in entered]
  /\ sub' = [r \in Procs |-> IF r \in entered THEN [v \in Upcalls |-> Null] ELSE sub[r]]

\* Entering a grant allocates it if need be, with null upcalls.
Enter(entered) ==
  /\ grant' = [r \in Procs |-> grant[r] \/ r \in entered]
  /\ sub' = [r \in Procs |-> IF r \in entered /\ ~grant[r] THEN [v \in Upcalls |-> Null] ELSE sub[r]]

\* The grants that are entered to handle a notification of q, under the
\* identifier id, to p: that of p, and inside it that of q.  Entering may fail
\* for want of memory if the grant is not allocated yet.
Entered(p, q, id) ==
  IF ~get_process(q, id) THEN {{}}
  ELSE {E \in {{}, {p}, {p, q}} :
          /\ p \notin E => ~grant[p]
          /\ q \in E => Enterable(q)
          /\ p \in E /\ q \notin E => ~Enterable(q) \/ ~grant[q]}

\* An IPC task turns into an upcall, at the end of the queue, if both grants
\* could be entered.  That of a process that notified itself is entered twice.
DeliverIPC(p, u) ==
  /\ Iterate(p)
  /\ state[p] = "Yielded" /\ tasks[p] # <<>> /\ Head(tasks[p]).up = "IPC"
  /\ LET q == Head(tasks[p]).fn[1] IN
     \E entered \in Entered(p, q, Head(tasks[p]).fn[2]) :
       /\ Enter(entered)
       /\ panicked' = (p = q /\ p \in entered)
       /\ tasks' = [tasks EXCEPT ![p] =
                      IF q \in entered /\ q # p /\ grant[p] /\ sub[p][u] # Null
                      THEN Append(Tail(@), [up |-> u, fn |-> sub[p][u], id |-> ident[p]])
                      ELSE Tail(@)]
  /\ UNCHANGED <<state, ident, next_ident, restart_count>>

\* Kernel work that concerns processes: a verdict of the credentials checker,
\* and the commands of the process console.
KernelWork == ~panicked /\ cur = NoProc /\ UNCHANGED cur

Set(p, from, to) ==
  /\ state[p] = from
  /\ state' = [state EXCEPT ![p] = to]
  /\ UNCHANGED <<tasks, ident, next_ident, restart_count, grant, sub, panicked>>

mark_credentials_pass(p) == KernelWork /\ Set(p, "CredentialsUnchecked", "CredentialsApproved")
mark_credentials_fail(p) == KernelWork /\ Set(p, "CredentialsUnchecked", "CredentialsFailed")

stop(p) ==
  KernelWork /\ (Set(p, "Running", "StoppedRunning") \/ Set(p, "Yielded", "StoppedYielded"))

resume(p) ==
  KernelWork /\ (Set(p, "StoppedRunning", "Running") \/ Set(p, "StoppedYielded", "Yielded"))

ConsoleFault(p) == KernelWork /\ set_fault_state(p)
ConsoleTerminate(p) == KernelWork /\ terminate(p)
ConsoleBoot(p) == KernelWork /\ state[p] = "Terminated" /\ try_restart(p)

Next ==
  \E p \in Procs :
    \/ Schedule(p) \/ Return(p)
    \/ StartOrRefuse(p) \/ Deliver(p) \/ DeliveryFails(p)
    \/ Fault(p) \/ Yield(p) \/ Exit(p)
    \/ \E u \in Upcalls, fn \in Fns \cup {Null} : Subscribe(p, u, fn)
    \/ \E id \in 0 .. MaxIdent - 1, u \in Upcalls : CapsuleUpcall(p, id, u)
    \/ (\E q \in Procs : Notify(p, q)) \/ \E u \in Upcalls : DeliverIPC(p, u)
    \/ mark_credentials_pass(p) \/ mark_credentials_fail(p)
    \/ stop(p) \/ resume(p)
    \/ ConsoleFault(p) \/ ConsoleTerminate(p) \/ ConsoleBoot(p)

Spec == Init /\ [][Next]_vars

-----------------------------------------------------------------------------
TypeOK ==
  /\ state \in [Procs -> States]
  /\ tasks \in [Procs -> Seq(Task)]
  /\ \A p \in Procs : Len(tasks[p]) <= QueueLen
  /\ ident \in [Procs -> Nat] /\ next_ident \in Nat
  /\ restart_count \in [Procs -> Nat]
  /\ grant \in [Procs -> BOOLEAN]
  /\ sub \in [Procs -> [Upcalls -> Fns \cup {Null}]]
  /\ cur \in Procs \cup {NoProc}
  /\ panicked \in BOOLEAN

\* do_process() never reaches its panic "Attempted to schedule an unrunnable
\* process": whatever made a process stop being runnable also made it not
\* ready, even in the middle of its timeslice.
NeverUnrunnable ==
  ~panicked /\ cur # NoProc /\ ready(cur) =>
    state[cur] \notin {"Faulted", "Terminated", "CredentialsUnchecked", "CredentialsFailed"}

\* A process that ended, by exit, fault or termination, has been cleaned up: no
\* task of it is pending and no capsule finds a grant of it.
EndedIsClean ==
  ~panicked =>
    \A p \in Procs : ~is_running(p) => tasks[p] = <<>> /\ ~grant[p]

\* Every pending upcall calls the function now subscribed for it: after a
\* subscribe succeeds the previous function is never invoked (TRD 104).
PendingUpcallsCurrent ==
  ~panicked =>
    \A p \in Procs : \A i \in 1 .. Len(tasks[p]) :
      LET t == tasks[p][i] IN t.up \in {"Kernel", "IPC"} \/ (grant[p] /\ t.fn = sub[p][t.up])

\* A task scheduled for one life of a process is never left for the next: a
\* ProcessId a capsule kept across a restart has no effect on the new life.
TasksOfThisLife ==
  \A p \in Procs : \A i \in 1 .. Len(tasks[p]) : tasks[p][i].id = ident[p]

\* Two processes that share an Application Identifier or a Short ID never run
\* at the same time: "The kernel maintains that a running process has a unique
\* Application Identifier and a unique Short ID among running processes"
\* (trd-appid.md), through restarts, rollbacks and verdicts in any order.
UniqueRunning ==
  \A p, q \in Procs : p # q /\ <<p, q>> \in SameApp => ~(is_running(p) /\ is_running(q))

\* The promise of AppLifecycle: processes come alive only when approved and
\* unique, a rejected process stays rejected, and every new life has an
\* identifier no process ever had.
Phase(s) ==
  CASE s = "CredentialsUnchecked" -> "unchecked"
    [] s = "CredentialsFailed" -> "rejected"
    [] s = "CredentialsApproved" -> "approved"
    [] s \in {"Faulted", "Terminated"} -> "dead"
    [] OTHER -> "alive"

Lifecycle == INSTANCE AppLifecycle WITH phase <- [p \in Procs |-> Phase(state[p])], life <- ident

ImplementsLifecycle == Lifecycle!LSpec
=============================================================================
