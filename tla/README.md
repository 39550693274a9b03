# Tock: a TLA+ model of the kernel core, its virtualizers and its key-value store

Tock is an operating system for microcontrollers. One single-threaded kernel
serves several mutually distrusting processes; drivers ("capsules") run inside
the kernel, and keep what they store for a process in that process's own RAM.
This project models the part every board depends on: the life of processes,
their memory, IPC, the main loop and its schedulers, deferred calls and the
checking of credentials; and, above it, the capsules that share one peripheral
among many clients (the virtualizers, the alarm driver) and the key-value store
on flash. Source paths are relative to `kernel/src/` unless they say
otherwise.

## 1. The system and its parts

| part | source | state | operations |
|---|---|---|---|
| task queue | `collections/ring_buffer.rs` | array, head, tail | enqueue, push, dequeue, empty, retain |
| process memory | `process_standard.rs`, `grant.rs`, `kernel.rs` | breaks, high-water mark, MPU region, grant pointers, buffers | brk, allow, allocate/enter/leave grant, custom grants, terminate, reset |
| process state | `process_standard.rs`, `kernel.rs`, `upcall.rs`, `process_policies.rs` | `State`, tasks, identifier, restart count, subscriptions | do_process, yield, subscribe, exit, fault, restart, stop, resume |
| application identity | `process_checker.rs` | states and versions of all processes | is_runnable |
| credentials checker | `kernel.rs` (`ProcessCheckerMachine`) | process and footer index | next, check_done |
| main loop | `kernel.rs`, `scheduler.rs` | pending interrupts and deferred calls, the running process | kernel work, run a process, sleep |
| schedulers | `scheduler/*.rs` | lists of processes, timeslices | next, result, continue_process |
| deferred calls | `deferred_call.rs` | counter, bit mask, table | new, register, set, service_next_pending, verify_setup |
| IPC | `ipc.rs` | tasks that name another process, grants | notify a service or a client, deliver |
| alarms | `capsules/core/src/virtualizers/virtual_alarm.rs`, `capsules/core/src/alarm.rs`, `hil/time.rs` | references and dts in ticks that wrap, counts of what is armed | set_alarm, disarm, the interrupt handler; set and stop by a process |
| virtualizers | `capsules/core/src/virtualizers/*.rs` | a slot per device, the device in flight | request, completion, refusal, do_next_op |
| key-value store | `libraries/tickv/src/` | regions of objects on flash, the operation suspended | initialise, append, get, invalidate, collect; power loss |

How they interact: the main loop does kernel work (interrupts, then deferred
calls), in which capsules enter grants and queue upcalls; when there is none it
asks the scheduler for a process and runs it with `do_process`, which delivers
tasks, switches to the process and handles its system calls. A fault goes
through the process's fault policy. A process that ends loses its tasks and its
grants; a restart gives it a new identifier, so the `ProcessId`s capsules kept no
longer find it. The credentials checker runs from callbacks in kernel work,
while processes already approved are being scheduled. Virtualizers and drivers
run in kernel work and in system calls: a completion calls a client, which may
ask for something again before the virtualizer that called it goes on.

What is hard here: pointers that wrap and round; an "entered" flag in the lowest
bit of a pointer; identifiers and buffers that outlive the process they were
for; faults and restarts between any two steps; interrupts between the decision
to sleep and sleeping; verdicts, starts and console commands in any order;
calls that re-enter the code that called them; counters that wrap between a
comparison and its use; power lost in the middle of a write.
`PROJECT.json` lists these hazards with the line where each bites.

## 2. Modules

Every module names the functions it models in its comments; `PROJECT.json` maps
each definition to its lines.

- **Queue**, **RingBuffer**. `Queue` is the FIFO the trait promises; `RingBuffer`
  is the array with its one unused cell, `retain` included as the in-place loop.
  `RingBuffer` implements `Queue` (refinement mapping: the cells from head to tail).
- **ProcessMemory**. The RAM of one process. Addresses are integers modulo
  `W = 2*H`; additions and subtractions wrap where the code's do. The MPU is
  external: `Exposing` says that its region covers the application break and
  stays below the kernel's, the contract of `platform/mpu.rs`. `open` counts the
  closures that hold a grant.
- **Kernel**, **AppLifecycle**. All processes, one action per step of
  `do_process`, per system call and per kind of kernel work. `cur` is the process
  `do_process` is running. A task carries a history field, the identifier it was
  scheduled under, that the code does not have. `AppLifecycle` is the abstract
  promise: one verdict, a process comes alive only when approved and alone, a
  new identifier per life. `Kernel` implements it.
- **CredentialsChecker**. The checking machine; the layout of the binaries and
  the policy's answers are inputs.
- **KernelLoop**. The main loop with the round robin, the cooperative or the
  priority scheduler (`scheduler`, chosen initially); processes are reduced to
  whether they are ready, and time to what is left of a timeslice. A process that is
  stopped while it is scheduled is the action `Stopped`. `turns` is a history variable
  for the fairness property.
- **MLFQ**. The multilevel feedback queue scheduler, with 32-bit time abstracted
  to arithmetic modulo `W`.
- **DeferredCall**. `asked` is a history variable.
- **AlarmService**, **VirtualAlarm**. `AlarmService` is the promise of the `Alarm`
  interface in true elapsed time: a callback once per `set_alarm`, not early, and
  with a bounded delay. `VirtualAlarm` is the mux on a counter that wraps at `W`
  ticks; time passes inside its handler, and callbacks set and disarm alarms. The
  observed `left` is the true time an alarm has left. `VirtualAlarm` implements
  `AlarmService`.
- **AlarmDriver**, **Alarms**. The system call driver, on an ideal alarm: `SetAlarm`
  serves a reference of any age, and one older than its dt at once. The modulus of the
  alarm's ticks is that of a process's (`U32`) or a multiple of it; processes may end
  with an alarm set. The observed `late` says whether an alarm was due, or seemed so,
  at the last `reset_active_alarm`. `Alarms` has the virtualizer and the driver side by
  side, to be checked in one run; the driver does not call the virtualizer. Its
  references may be as old as the alarm they belong to (`alarm.rs:151`), older than the
  `MaxBack` for which `VirtualAlarm` is known to keep its promise (section 5).
- **Mux**, **VirtualSpi**, **VirtualI2C**, **VirtualFlash**, **VirtualUartTx**,
  **VirtualUartRx**, **VirtualAdc**, **VirtualRng**, **VirtualPwm**,
  **Virtualizers**. `Mux` is the state the virtualizers share. Calls nest, so the
  calls still to be made are kept explicitly in `stack`, and a client's code may
  request at any point of it that its code can run. The peripheral may refuse
  (`refused` remembers that it did). `asked` counts what the client is owed.
  `VirtualUartRx` has its own state: one read of the hardware shared by receives of
  different lengths; the hardware may refuse a read, by which the mux loses its
  buffer (`lost`), and may fail to abort one. `Virtualizers` has them side by side.
- **TicKV**. Regions are sequences of objects; a flash operation suspends the
  library, and power may fail at any moment, also half way through a write. The
  observed `stored` holds what was committed and not invalidated since.

MC modules give constants their values; `MCKernelParts` also puts four small parts
of the kernel that share no state side by side in one run. `*Proofs` modules hold the
theorems; `AlarmSteps` holds the arithmetic and the first steps `AlarmProofs` rests on.

Abstractions to know when reading `Kernel`: a command system call is
`CapsuleUpcall` while a process is running; a return value that cannot be written
is `Fault`; `hardfault_all_apps` and a console command that matches several
names are sequences of single steps. The upcall numbers that IPC uses are not
computed from positions in the process array but chosen freely; the shared buffer
and discovery by name are left out. Delivering an IPC task enters the grants of
both processes, which may fail for want of memory, and panics when the grant is
entered already, as when a process notifies itself. `mark_credentials_fail` sets the
state whatever it was (`process_standard.rs:301`); the model has it for an unchecked
process, which is what it is called for: the checker visits each process once, and
until then `stop`, `set_fault_state`, `try_restart` and `terminate` all leave an
unchecked process as it is.

Limits of other models: in `ProcessMemory` a process ends or restarts only while none
of its grants is entered (`AtTopLevel`), and no custom grant of an earlier life is
entered; code that ends a process from inside a grant of it is not covered. In
`VirtualAlarm` clients are set before the first alarm: `set_alarm_client`
(`virtual_alarm.rs:91`) clears `armed` and leaves the mux's count of enabled alarms.

## 3. What the runs check

Passing runs.

| run | instance | distinct states | shows |
|---|---|---|---|
| `kernel_parts` | ring of 4 cells, 3 elements; table of 4, up to 5 deferred calls; MLFQ with 3 processes, slices 1, 2, 3; checker with 2 slots, up to 2 footers each | 203,430 | the ring buffer is a FIFO queue and its views agree; no deferred call is lost; queues partition the processes, no overtaking; grounded verdicts, and an end of checking |
| `process_memory` | 64 addresses, 20 bytes of RAM, 3 grants for 2 drivers, 2 lives | 183,000 | order of the regions, accessible buffers, isolated grants, exact flags, one-way marks |
| `kernel` | two versions of one application, 2 upcalls, queue of 2, 4 identifiers | 157,136 | no unrunnable process, lives apart, uniqueness, the abstract life cycle |
| `kernel_ipc` | a client and a service running together, 2 functions to subscribe, 3 identifiers | 995,384 | clean ends and current upcalls, with tasks that name a process that has ended or started again |
| `kernel_loop` | one of three schedulers, 3 processes, an empty slot, timeslice 3 | 65,430 | timeslice never zero, fair turns; no work is lost, also when it arrives on the way to sleep; ready processes execute, under priorities unless outranked for ever |
| `alarms` | 2 alarms on a counter of 8, latency and handler 1 tick; 2 processes on a u32 of 4, alarm ticks of 4 or 8 | 407,672 | hardware in time, the promise of `AlarmService`; processes woken in time if nobody was late, and not early |
| `tickv` | 2 regions of 13 bytes, 2 keys, 2 lengths | 234,982 | committed values survive, gets return whole values, operations end |
| `virtualizers` | 3 devices, 2 buffers each; reads of 2, receives of 1 and 3 | 159,521 | the right client, nothing lost, doubled or forgotten, refusals reported, streams without gaps, the hardware as its users left it, first device served, aborts that the UART carries out end |

A `TypeOK` states the shape of each module's variables. Where it is not proved (section
5) it is a conjunct of one of the invariants above.

Why the bounds are enough: the ring buffer wraps several times; process memory
has room for some but not all grants, so that every check both passes and fails,
and 2 lives are enough for a stale handle; the task queue fills; the deferred
call table overflows; the checker meets every pair of processes with up to 2 footers,
so that one's scan can disturb the next's; the MLFQ slices differ and the modulus is
just above the largest. The counter of 8 is just above the longest wait with every delay
(`LatencyFits`, see section 5), so all arithmetic wraps, dts of 5 and 7 are split in two waits,
and one of 4 is not; a u32 of 4 leaves one tick of slack over the longest dt of a
process and keeps dts within half of its range (`HalfRange`), and `MaxArmed` of 3 lets
one process end with its alarm set while both wait. A region holds two small objects with room for a header, or a small and a
large one without, so that the search both goes on and gives up, and a third
object goes to a neighbour. Three devices are one in flight and two that wait, and
two of them share an ADC channel, one is on SMBus; receives of 1 and 3 on reads of
2 end inside, at and beyond a read. The `kernel` instance has the policies MCKernel
names; the proofs cover all policies, versions and numbers of processes.

The runs in which TLC refutes what a text of the repository says.

| run | statement | what the code does |
|---|---|---|
| `credentials_checker_scan` | footers are scanned from the beginning | after Accept or Reject the footer index is not reset |
| `alarms_first` | the first alarm to fire is set, and one that has passed fires immediately (`capsules/core/src/alarm.rs:71`, `:99`) | the branch at 118 takes the alarm being looked at, not the one that has passed: a process that sets an alarm while another's is due delays it. With wider ticks an alarm from before the last wrap of the lower bits is taken for passed too |
| `tickv_search` | a search ends when the key is found, all regions are searched or a region is empty (`libraries/tickv/SPEC.md:150`) | it also ends at a region without room for a header (`tickv.rs:283`), so a key stored behind a full region is not found |
| `uart_receives` | a receive answered `Ok(())` ends in a callback (`kernel/src/hil/uart.rs:167`) | when the UART refuses the read the error is ignored and the mux's buffer is gone (`virtual_uart.rs:275`); no later receive is read for. `capsules/extra/src/segger_rtt.rs:287` always refuses |

Other disagreements between code and text, which the models contain but no run
is about:

- An older version that is checked first is started while the newer is still being
  checked, and then blocks it (`process_checker.rs:133`; line 84 says what should run).
- The time left of a preempted process's slice may be given to another process
  (`scheduler/round_robin.rs:101`; see line 16).
- After a promotion the time used in a lower queue is subtracted from the shorter
  slice of the top queue and wraps (`scheduler/mlfq.rs:157`; lines 14-15
  give the slices).
- A priority refresh promotes one process of each lower queue (`scheduler/mlfq.rs:99`),
  not all (line 146).

What the virtualizers do when a peripheral refuses, and other limits under which
their properties are stated:

- I2C: the completion set on a refusal is overwritten by Idle on the following line
  (`virtual_i2c.rs:117`); the request is not answered and the bus stays in flight.
- Flash and ADC: a refused request leaves its device in flight
  (`virtual_flash.rs:111`, `virtual_adc.rs:53`). PWM: errors are ignored.
- SPI: the refusal is reported later, from a deferred call; until the next request
  another one can be left in its slot. A second request is accepted while one is in
  flight. UART transmission: a refusal calls the client but does not start the next
  request (`virtual_uart.rs:223`).
- RNG: a client that answers `Continue::More` is not called again
  (`virtual_rng.rs:80`), and a cancelled request stays in flight.
- UART reception: a device gets the bytes of the read under way from before its
  request. A client calls for its own device only: one that starts a receive for a
  device already visited in the same pass is left out. A receive that is aborted
  before the read for it has begun, as one started and aborted in the same callback,
  is not ended until some other receive is read for; `NothingForgotten` excepts
  receives that are being aborted, and those after the loss of the buffer, and
  `AbortEnds` is about aborts of a read that the UART carries out.
- All: the list is searched from its head, so only its first device has a liveness
  property.

Smaller disagreements, seen while reading and not kept as runs because each is
plain from a line or two:

- `reset()` (`process_standard.rs:1990`) recomputes the kernel break without the
  word alignment of `create()` (1743). It matters only if the end of a process's
  memory is not word-aligned; `process_standard.rs:1766` relies on no MPU doing that.
- `is_pending` (`deferred_call.rs:189`) compares the selected bit with 1; indices
  start at 1, so it is never true.
- `verify_setup` (`deferred_call.rs:239`) refuses exactly 32 calls; its comment
  allows them.
- `MLFQSched::result` (`scheduler/mlfq.rs:173`) stores the time that was left of
  the timeslice as the time used.

Deadlock checking: the cfgs that turn the check off are those of systems that may stop
(a panic, the end of checking) or reach a bound.

## 4. Fairness

Four modules state liveness. `CredentialsChecker` (in `MCKernelParts`)
assumes that its machine keeps taking steps and that a check that was started
comes back. `KernelLoop` assumes that the loop keeps running (weak fairness of
`Kernel`); that interrupts do not arrive forever at exactly the moments that
keep deferred calls, kernel work or a process from proceeding (strong fairness
of `ServiceDeferred(FALSE)`, of leaving kernel work with none left, of
`RunProcess` and of `Execute \/ Stopped`). The code does not guarantee the second:
under an interrupt storm Tock starves processes by design. It is an assumption on the
hardware and on deferred call handlers, which must not set themselves for ever. Nothing
is assumed of processes: one may execute for ever, and each execution is a step, so that
under priorities `ReadyRuns` rests on `continue_process` alone.

`TicKV` assumes that the flash completes what it was asked to do (weak fairness of
`Complete`). `Virtualizers` assumes that calls return, deferred calls are serviced
and peripherals complete (weak fairness of `Step`), and that a client returns from
its callback however much it requests in it (strong fairness of the steps taken
while a client runs). The kernel is single-threaded and its main loop services
interrupts and deferred calls before it runs a process, so both come from the code
except for the clients, which are capsules of the same kernel.

## 5. What is proved

TLAPS checks every theorem, for all values of the constants that satisfy the
named assumptions.

- **ProcessMemoryProofs**, under `Aligned` (the end of memory is word-aligned):
  type correctness, `LayoutOrdered`, `BuffersAccessible`, `GrantsIsolated`,
  `EnteredFlagExact`, `OneGrantPerDriver`, `MarksMoveOneWay`. The inductive
  invariant adds to the layout that every reachable buffer lies below the
  high-water mark (not only below the break, which brk may lower to the mark)
  and that the entered flag leaves block addresses even. Arithmetic on wrapped
  and aligned addresses is confined to a few lemmas. Without `Aligned` the restart
  step fails, for the reason given in section 3.
- **KernelProofs**: type correctness, `NeverUnrunnable`, `EndedIsClean`,
  `PendingUpcallsCurrent`, `TasksOfThisLife`, `UniqueRunning`, and
  `Spec => ImplementsLifecycle`. The invariant adds that identifiers in use are
  distinct and below the counter. Steps are grouped by shape: a process ends,
  the kernel panics, a process moves between states, a function is subscribed, a
  task is queued; `NotifyStep` and `DeliverIPCStep` are the steps of IPC.
- **RingBufferProofs**, for a ring of any size and any elements: `ViewsAgree`, and
  `RingSpec => ImplementsQueue`. The argument counts cells from the head (`Cell(k)`), so
  that each operation is a statement about indices without a modulus. `retain` is
  the hard one: `RetainRel` relates the ring after n passes of the loop to what the
  trait keeps of the first n elements, and says that the elements still to be looked
  at are not overwritten.
- **KernelLoopProofs**, in three parts. The main loop with each of its schedulers, for
  any number of processes: `TimesliceNonzero`, `FairTurns`. The
  invariant `LoopInv` adds that the list holds every slot once, that the running
  process is at its head, and that a process has missed no more turns than there are
  processes behind it: the bound on turns alone is not inductive. Deferred calls:
  `NoCallLost`; that as many entries are filled as calls were created implies that
  each has its handler is `CountSuffices`. The checking machine: `VerdictsGrounded`.
- **MlfqProofs**, for any number of processes and any slices below the width of the
  time: `Partition` and `NoOvertaking`. `MlfqInv` adds that the running process is at
  the head of the queue `next()` remembered; without that, `result()` would move
  another one. Each step is a head that goes to an end, a queue turned, or a refresh.
- **AlarmSteps**, **AlarmProofs**, under `LatencyFits`, for any number of alarms and
  any width of the counter: `HardwareInTime` and `Spec => KeepsTheService`, the
  refinement of `AlarmService`. `AlarmInv` says that the counter has not wrapped
  since the wait of an armed alarm began, that what it shows for the alarm agrees
  with the true time left, how far overdue it may be at each point of the handler
  (`Bound`: less for alarms the scan has passed), that `enabled` counts the armed
  alarms, and that outside the handler the hardware alarm comes soon enough for each.
- **AlarmDriverProofs**, under `DriverFits`, for any number of processes, dts and
  references, and ticks of the alarm as wide as a u32 or wider: `AppsWake` and
  `AppsNotEarly`. `DrvInv` says that what is left to a process in u32 ticks that wrap
  is the true time left, that `num_armed` is at least the number of processes that
  wait (not exactly: a process that ends with an alarm set is never taken off), and
  that an alarm chosen among ones that had not passed comes first (`EarliestIsFirst`,
  for dts of at most half of the range of a u32: with longer ones the end of one wait
  may be a whole turn of the u32 after the start of another, and seem to be within it).

What the proofs taught about the model. `LatencyFits` has the conjunct
`MaxBack + MaxLate <= HalfMax + MinDt`, which the instance checked by TLC satisfied
without saying so: without it the refinement fails for larger constants (2 alarms,
`W` = 12, dts 0, 3 and 7, `MaxBack` = 5, `Latency` = 3, `HandlerTime` = 1), where the
first wait of a long alarm is handled so late that its second is over as well, and
the second then starts from the time it should have ended. It is an assumption on
the system, not on the code: no reference is further back, and no interrupt later,
than half of the counter's range. `AppsWake` bounds the wait by a dt someone may ask
for. The fold over the processes in `reset_active_alarm` and the loop of `retain`
are recursive functions, so that their steps can be named.

Recursive functions. What they compute is proved by induction over a set of numbers
(`LeastNumber`, `SetInduction`), and that they exist by `Iteration`, the existence of a
history of any length. These few lemmas are stated where they are used, in
`RingBufferProofs` and in the proofs of the alarms.

Only model-checked: everything about the virtualizers other than the alarm's, and
about `TicKV` (where search, collection and power loss make the invariant a good deal
larger than the properties), and all liveness: `CheckingEnds`, `WorkIsDone`, `ReadyRuns`
and those of `Virtualizers` and `TicKV`. Liveness under fairness and `ENABLED` are out
of the prover's reach.

## 6. Not modelled, and the plan

Not modelled: process loading and binary parsing, discovery and buffer sharing of
IPC, `virtual_timer` and `virtual_aes_ccm`, the configuration setters of the SPI
virtualizer and the single-word calls of the UART's, the capsule on top of TicKV and
TicKV's early returns for objects that are too large (`tickv.rs:621`, which do not
give the read buffer back) and the version check in its garbage collection (919:
the flash of the model starts erased, or with another format in one region and without
the main key, and then initialisation leaves no other version; that of a flash with a
main key next to another version is not covered), the log, the other drivers, MPU and
context switch code of `arch/`, and all of `chips/` and `boards/`, which are most of the repository: they
set hardware registers and static configuration, and most of what a model of them would
say is an assumption about the hardware. Reasons for each part are in `PROJECT.json`.

Planned, in this order:

1. Proofs: `EachInOnePlace` and `RightClient` of `Virtualizers`, module by module on
   `Mux`; `Durable` of `TicKV`.
2. The driver on top of `VirtualAlarm`, with references as old as its alarms; then
   `virtual_timer` on `AlarmService`.
3. The log: flash operations with power loss between any two.
