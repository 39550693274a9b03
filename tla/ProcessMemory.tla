--------------------------- MODULE ProcessMemory ---------------------------
(***************************************************************************)
(* The RAM of one process (kernel/src/process_standard.rs, grant.rs and    *)
(* the allow and memop system calls of kernel.rs):                         *)
(*                                                                         *)
(*   MemStart    allow_high_water_mark   app_break   kernel_memory_break   *)
(*      |  process-accessible memory  ...    | unused |  grants  | kernel  *)
(*                                                                         *)
(* The process moves app_break with brk, hands buffers below it to the     *)
(* kernel with allow, and the kernel allocates grants downwards from its   *)
(* own structures.  The MPU, external to this code, exposes the memory up  *)
(* to mpu_end.  Addresses are unsigned integers below W and wrap.          *)
(***************************************************************************)
EXTENDS Integers

CONSTANTS
  H,           \* 2^31: half the address space, isize::MAX + 1
  MemStart,    \* memory_start
  MemEnd,      \* memory_start + memory_len
  Word,        \* size_of::<usize>()
  MinApp,      \* initial_process_app_brk_size()
  KernSize,    \* bytes of grant pointers, task queue and process struct
  FlashStart,  \* flash_non_protected_start()
  FlashEnd,    \* flash_end()
  Grants,      \* the grants created before the first process was loaded
  Drivers,     \* driver numbers
  DriverOf,    \* [Grants -> Drivers]
  GrantSize,   \* [Grants -> Nat], size of a grant's memory
  GrantAlign,  \* [Grants -> Aligns], its alignment
  Customs,     \* the <<size, align>> capsules ask custom grants of
  Addrs,       \* the addresses a process passes to brk
  Ranges,      \* the <<address, length>> a process passes to allow
  MpuEnds,     \* the addresses at which an MPU region can end (external)
  MaxIdent     \* bound: process identifiers handed out to this process

W == 2 * H

\* What align_of::<T>() can be for the types the kernel's grants hold.
Aligns == {1, 2, 4, 8, 16}

ASSUME MemoryAssumption ==
  /\ H \in Nat /\ H >= 32
  /\ MemStart \in Nat /\ MemStart > 0 /\ MemEnd \in Nat /\ MemEnd < W
  /\ Word \in {4, 8} /\ MinApp \in Nat /\ KernSize \in Nat /\ KernSize % Word = 0
  \* allocate_app_memory_region() found room for all of it in create()
  /\ MemStart + MinApp + KernSize + Word <= MemEnd
  /\ FlashStart \in Nat /\ FlashEnd \in Nat /\ FlashEnd < MemStart
  /\ DriverOf \in [Grants -> Drivers]
  \* no Rust type is larger than isize::MAX, nor of size zero once the
  \* kernel's own counters are in front of it
  /\ GrantSize \in [Grants -> 1 .. H - 1] /\ GrantAlign \in [Grants -> Aligns]
  /\ Customs \subseteq (0 .. H - 1) \X Aligns
  /\ Addrs \subseteq 0 .. W - 1 /\ Ranges \subseteq (0 .. W - 1) \X (0 .. W - 1)
  /\ MpuEnds \subseteq 0 .. W - 1
  /\ MaxIdent \in Nat

VARIABLES
  life,                   \* the part of State that gates memory operations
  ident,                  \* process_id.identifier, new with every restart
  app_break,
  kernel_memory_break,
  allow_high_water_mark,
  mpu_config,             \* whether the MPU configuration is there
  mpu_end,                \* end of what the MPU exposes (external)
  grant_ptr,              \* [Grants -> address], 0 is null, low bit = entered
  allowed,                \* [Grants -> buffer] the allow slot in each grant
  open,                   \* [Grants -> Nat] how many closures have entered each
  custom,                 \* custom grants held by capsules
  readable                \* userspace-readable buffer held by a capsule

breaks == <<app_break, kernel_memory_break, allow_high_water_mark, mpu_config, mpu_end>>
vars == <<life, ident, breaks, grant_ptr, allowed, open, custom, readable>>

-----------------------------------------------------------------------------
\* Pointer arithmetic: wrapping_add, wrapping_sub, and `& !(align - 1)`.
WrappingAdd(a, b) == IF a + b < W THEN a + b ELSE a + b - W
WrappingSub(a, b) == IF a >= b THEN a - b ELSE a + W - b
AlignDown(a, align) == a - (a % align)

\* is_running()
Active == life = "Active"

\* A buffer in a grant is a pointer and a length: the process it belongs to is
\* whichever owns the grant.  One held by a capsule also names its process.
Buffer(start, size) == [start |-> start, size |-> size]
Handle(id, start, size) == [id |-> id, start |-> start, size |-> size]

\* Mutant: a buffer that wraps around the address space is not noticed.
OwnedIgnoringWrap(start, size) == start >= MemStart /\ WrappingAdd(start, size) <= app_break

in_app_owned_memory(start, size) ==
  LET end == WrappingAdd(start, size)
  IN end >= start /\ start >= MemStart /\ end <= app_break

in_app_flash_memory(start, size) ==
  LET end == WrappingAdd(start, size)
  IN end >= start /\ start >= FlashStart /\ end <= FlashEnd

\* The kernel structures of create(): the break is word-aligned first.
KernelStructs == AlignDown(MemEnd, Word) - KernSize

\* The MPU exposes all of the process-accessible memory and nothing the kernel
\* owns, or refuses when its granularity does not allow that.
Exposing(app_end, kernel_start) == {e \in MpuEnds : app_end <= e /\ e <= kernel_start}

IsAllocated(g) == grant_ptr[g] # 0
Entered(g) == grant_ptr[g] % 2 = 1
GrantBase(g) == grant_ptr[g] - (grant_ptr[g] % 2)

-----------------------------------------------------------------------------
\* create() leaves the process unchecked; it is approved and started later.
Init ==
  /\ life = "CredentialsApproved"
  /\ ident = 1
  /\ app_break = MemStart + MinApp
  /\ kernel_memory_break = KernelStructs
  /\ allow_high_water_mark = MemStart
  /\ mpu_config = TRUE
  /\ mpu_end \in Exposing(app_break, kernel_memory_break)
  /\ grant_ptr = [g \in Grants |-> 0]
  /\ allowed = [g \in Grants |-> Buffer(0, 0)]
  /\ open = [g \in Grants |-> 0]
  /\ custom = {}
  /\ readable = Handle(0, 0, 0)

\* enqueue_init_task: the process starts running.
Start ==
  /\ life = "CredentialsApproved"
  /\ life' = "Active"
  /\ UNCHANGED <<ident, breaks, grant_ptr, allowed, open, custom, readable>>

\* System calls are handled, and processes managed, when no capsule is inside
\* a grant: all of this runs on the one kernel thread.
AtTopLevel == \A g \in Grants : open[g] = 0

-----------------------------------------------------------------------------
\* memop brk and sbrk: move the end of the process-accessible memory.  The
\* error returns change nothing, the MPU's refusal among them.
brk(new_break) ==
  /\ Active /\ AtTopLevel /\ mpu_config
  /\ new_break >= allow_high_water_mark
  /\ new_break < MemEnd
  /\ new_break <= kernel_memory_break
  \* update_app_memory_region() is Ok
  /\ mpu_end' \in Exposing(new_break, kernel_memory_break)
  /\ app_break' = new_break
  /\ UNCHANGED <<life, ident, kernel_memory_break, allow_high_water_mark, mpu_config,
                 grant_ptr, allowed, open, custom, readable>>

\* build_readwrite_process_buffer / build_readonly_process_buffer: which
\* buffers are accepted, and what becomes of the high water mark.
Accepts(start, size, writable) ==
  \/ size = 0
  \/ in_app_owned_memory(start, size)
  \/ ~writable /\ in_app_flash_memory(start, size)

\* Mutant: the high water mark follows the last buffer only.
LastBufferMark(start, size) ==
  IF size # 0 /\ in_app_owned_memory(start, size)
  THEN WrappingAdd(start, size)
  ELSE allow_high_water_mark

RaisedMark(start, size) ==
  LET end == WrappingAdd(start, size) IN
  IF size # 0 /\ in_app_owned_memory(start, size) /\ end > allow_high_water_mark
  THEN end
  ELSE allow_high_water_mark

-----------------------------------------------------------------------------
\* allocate_in_grant_region_internal: the candidate for the new break.
\* Mutant: rounding the new break up to the alignment instead of down.
NewBreakUp(size, align) ==
  LET a == IF align > 2 THEN align ELSE 2
  IN AlignDown(WrappingSub(kernel_memory_break, size) + a - 1, a)

NewBreak(size, align) ==
  AlignDown(WrappingSub(kernel_memory_break, size), IF align > 2 THEN align ELSE 2)

\* Mutant: no check against the process's break.
FitsBelow(new_break) ==
  /\ mpu_config
  /\ new_break <= kernel_memory_break
  /\ mpu_end' \in Exposing(MemStart, new_break)

\* The allocation passes the checks and lowers the break; the MPU agrees to
\* expose no more than what lies below it.
Fits(new_break) ==
  /\ mpu_config
  /\ new_break >= app_break
  /\ new_break <= kernel_memory_break
  /\ mpu_end' \in Exposing(app_break, new_break)

\* allocate_grant: its checks before it allocates.
Allocatable(g) ==
  /\ Active
  /\ ~IsAllocated(g)
  /\ \A h \in Grants : IsAllocated(h) => DriverOf[h] # DriverOf[g]

\* ProcessGrant::new for a grant not yet allocated: allocate, enter, write the
\* default upcalls and buffers, leave.  buf is what the allow slot then holds.
Allocate(g, buf) ==
  LET new_break == NewBreak(GrantSize[g], GrantAlign[g]) IN
  /\ Allocatable(g)
  /\ Fits(new_break)
  /\ kernel_memory_break' = new_break
  /\ grant_ptr' = [grant_ptr EXCEPT ![g] = new_break]
  /\ allowed' = [allowed EXCEPT ![g] = buf]
  /\ UNCHANGED <<life, ident, app_break, mpu_config, open, custom, readable>>

\* What the read-write and the read-only allow share: allow_rw and allow_ro
\* swap the buffer into the driver's grant.  The high water mark is raised
\* while the buffer is built, before anything else can fail.
Allow(d, start, size, writable) ==
  /\ Active /\ AtTopLevel
  /\ Accepts(start, size, writable)
  /\ allow_high_water_mark' = RaisedMark(start, size)
  /\ \/ \E g \in Grants :       \* the driver's grant is there: swap the buffer
          /\ IsAllocated(g) /\ DriverOf[g] = d
          /\ allowed' = [allowed EXCEPT ![g] = Buffer(start, size)]
          /\ UNCHANGED <<life, ident, app_break, kernel_memory_break, mpu_config, mpu_end,
                         grant_ptr, open, custom, readable>>
     \/ \E g \in Grants :       \* NOMEM: have the driver allocate it, and retry;
          /\ DriverOf[g] = d      \* the retry may still find no such slot
          /\ Allocate(g, Buffer(start, size)) \/ Allocate(g, Buffer(0, 0))
     \/ UNCHANGED <<life, ident, app_break, kernel_memory_break, mpu_config, mpu_end,
                    grant_ptr, allowed, open, custom, readable>>   \* no grant, no such slot

ReadWriteAllow(d, start, size) == Allow(d, start, size, TRUE)

ReadOnlyAllow(d, start, size) == Allow(d, start, size, FALSE)

\* The userspace-readable allow system call: the capsule keeps the buffer, or
\* rejects it, with the mark raised all the same.
UserspaceReadableAllow(start, size) ==
  /\ Active /\ AtTopLevel
  /\ Accepts(start, size, TRUE)
  /\ allow_high_water_mark' = RaisedMark(start, size)
  /\ readable' \in {readable, Handle(ident, start, size)}
  /\ UNCHANGED <<life, ident, app_break, kernel_memory_break, mpu_config, mpu_end,
                 grant_ptr, allowed, open, custom>>

-----------------------------------------------------------------------------
\* Grant::enter for a grant not yet allocated: first ProcessGrant::new.  Also
\* what a subscribe or a driver's allocate_grant comes to.
AllocateGrant(g) ==
  /\ Allocate(g, Buffer(0, 0))
  /\ UNCHANGED allow_high_water_mark

\* ProcessGrant::enter, through access_grant_with_allocator and enter_grant:
\* the lowest bit of the pointer marks the grant as entered; a
\* second enter finds it set and gets AlreadyInUse.
\* Mutant: the flag is not consulted.
EnterAgain(g) ==
  /\ Active /\ IsAllocated(g)
  /\ grant_ptr' = [grant_ptr EXCEPT ![g] = @ + 1 - (@ % 2)]
  /\ open' = [open EXCEPT ![g] = @ + 1]
  /\ UNCHANGED <<life, ident, breaks, allowed, custom, readable>>

EnterGrant(g) ==
  /\ Active /\ IsAllocated(g)
  /\ ~Entered(g)
  /\ grant_ptr' = [grant_ptr EXCEPT ![g] = @ + 1 - (@ % 2)]
  /\ open' = [open EXCEPT ![g] = @ + 1]
  /\ UNCHANGED <<life, ident, breaks, allowed, custom, readable>>

\* leave_grant, when the closure of enter() returns.
LeaveGrant(g) ==
  /\ open[g] > 0
  /\ grant_ptr' = IF Active THEN [grant_ptr EXCEPT ![g] = @ - (@ % 2)] ELSE grant_ptr
  /\ open' = [open EXCEPT ![g] = @ - 1]
  /\ UNCHANGED <<life, ident, breaks, allowed, custom, readable>>

\* GrantRegionAllocator::alloc_*, from inside an entered grant.
AllocateCustomGrant(size, align) ==
  LET new_break == NewBreak(size, align) IN
  /\ Active /\ ~AtTopLevel
  /\ Fits(new_break)
  /\ kernel_memory_break' = new_break
  /\ custom' = custom \cup {[id |-> ident, offset |-> MemEnd - new_break, size |-> size]}
  /\ UNCHANGED <<life, ident, app_break, allow_high_water_mark, mpu_config,
                 grant_ptr, allowed, open, readable>>

-----------------------------------------------------------------------------
\* terminate: the grants are gone, the breaks stay where they are.
Terminate ==
  /\ AtTopLevel
  /\ life \in {"Active", "CredentialsApproved"}
  /\ life' = "Inactive"
  /\ grant_ptr' = [g \in Grants |-> 0]
  /\ UNCHANGED <<ident, breaks, allowed, open, custom, readable>>

ForgetGrants == grant_ptr' = [g \in Grants |-> 0]

\* try_restart, of a running or a terminated process: terminate, then reset().
\* The new identifier comes first, whatever happens after it.
\* reset() finds no MPU configuration, or the MPU refuses the old regions: the
\* configuration it has taken is not put back.
RestartFails ==
  /\ AtTopLevel /\ ident < MaxIdent
  /\ ident' = ident + 1
  /\ life' = "Inactive"
  /\ ForgetGrants
  /\ mpu_config' = FALSE
  /\ UNCHANGED <<app_break, kernel_memory_break, allow_high_water_mark, mpu_end,
                 allowed, open, custom, readable>>

\* reset() lays the memory out again; initialize_process() may still fail, and
\* leaves the process terminated.
Restart ==
  /\ AtTopLevel /\ ident < MaxIdent
  /\ mpu_config
  /\ ident' = ident + 1
  /\ life' \in {"CredentialsApproved", "Inactive"}
  /\ ForgetGrants
  /\ app_break' = MemStart + MinApp
  /\ kernel_memory_break' = MemEnd - KernSize
  /\ allow_high_water_mark' = MemStart
  /\ mpu_end' \in Exposing(app_break', kernel_memory_break')
  /\ UNCHANGED <<mpu_config, allowed, open, custom, readable>>

-----------------------------------------------------------------------------
Next ==
  \/ Start
  \/ \E a \in Addrs : brk(a)
  \/ \E d \in Drivers, r \in Ranges : ReadWriteAllow(d, r[1], r[2]) \/ ReadOnlyAllow(d, r[1], r[2])
  \/ \E r \in Ranges : UserspaceReadableAllow(r[1], r[2])
  \/ \E g \in Grants : AllocateGrant(g) \/ EnterGrant(g) \/ LeaveGrant(g)
  \/ \E c \in Customs : AllocateCustomGrant(c[1], c[2])
  \/ Terminate
  \/ RestartFails
  \/ Restart

Spec == Init /\ [][Next]_vars

-----------------------------------------------------------------------------
Address == 0 .. W - 1

TypeOK ==
  /\ life \in {"CredentialsApproved", "Active", "Inactive"}
  /\ ident \in 1 .. MaxIdent + 1
  /\ app_break \in Address /\ kernel_memory_break \in Address
  /\ allow_high_water_mark \in Address /\ mpu_end \in Address
  /\ mpu_config \in BOOLEAN
  /\ grant_ptr \in [Grants -> Address]
  /\ allowed \in [Grants -> [start : Address, size : Address]]
  /\ open \in [Grants -> Nat]
  /\ custom \subseteq [id : 1 .. MaxIdent + 1, offset : Address, size : 0 .. H - 1]
  /\ readable \in [id : 0 .. MaxIdent + 1, start : Address, size : Address]

\* The regions of a process's memory keep their order whatever sequence of
\* brk, allow, grant allocation and restart the process and the capsules go
\* through.  In particular the MPU, whose region may end above app_break,
\* never exposes kernel-owned memory to the process.
LayoutOrdered ==
  /\ MemStart <= allow_high_water_mark
  /\ allow_high_water_mark <= app_break
  /\ app_break <= mpu_end
  /\ mpu_end <= kernel_memory_break

\* Where a buffer may be: nowhere (length 0), in RAM below a limit, in flash.
BufferBelow(b, limit) ==
  \/ b.size = 0
  \/ MemStart <= b.start /\ b.start + b.size <= limit
  \/ FlashStart <= b.start /\ b.start + b.size <= FlashEnd

\* Every buffer a capsule can still reach, through a grant of the process or
\* through a handle that names its current incarnation, is memory the process
\* itself may access: no later brk or restart pulls it away, and it does not
\* overlap the grant region ("guarantees that the buffer is safe to convert
\* into a slice", processbuffer.rs).  A grant keeps one buffer, of either kind,
\* so one in the flash of the process is admitted for both.
BuffersAccessible ==
  /\ \A g \in Grants : IsAllocated(g) => BufferBelow(allowed[g], app_break)
  /\ readable.id = ident => BufferBelow(readable, app_break)

\* The memory capsules hold of the current incarnation: lo inclusive, hi not.
GrantBlock(g) == [lo |-> GrantBase(g), hi |-> GrantBase(g) + GrantSize[g]]
CustomBlock(c) == [lo |-> MemEnd - c.offset, hi |-> MemEnd - c.offset + c.size]
LiveCustom == {c \in custom : c.id = ident}

InGrantRegion(b) == kernel_memory_break <= b.lo /\ b.hi <= KernelStructs
Disjoint(b, c) == b.hi <= c.lo \/ c.hi <= b.lo

\* The allocations in the grant region do not overlap one another, nor the
\* process-accessible memory below it, nor the kernel structures above it,
\* although every one of them is carved out by pointer arithmetic that wraps
\* and rounds.
GrantsIsolated ==
  /\ \A g \in Grants : IsAllocated(g) => InGrantRegion(GrantBlock(g))
  /\ \A c \in LiveCustom : InGrantRegion(CustomBlock(c))
  /\ \A g, h \in Grants :
       g # h /\ IsAllocated(g) /\ IsAllocated(h) => Disjoint(GrantBlock(g), GrantBlock(h))
  /\ \A g \in Grants, c \in LiveCustom : IsAllocated(g) => Disjoint(GrantBlock(g), CustomBlock(c))
  /\ \A c, d \in LiveCustom : c # d => Disjoint(CustomBlock(c), CustomBlock(d))

\* The kernel's own structures of the process, placed by create(), stay above
\* the break below which grants are allocated: reset() gives the break the
\* place that create() gave it ("Recalculate initial_kernel_memory_size as was
\* done in create()", process_standard.rs:1953).
KernelStructsProtected == kernel_memory_break <= KernelStructs

\* The entered flag lives in the lowest bit of the grant pointer and tells the
\* truth: it is set exactly while a closure has the grant open, so no two
\* closures ever hold references to the same grant.
EnteredFlagExact == \A g \in Grants : open[g] = IF Entered(g) THEN 1 ELSE 0

\* A driver number leads to at most one allocated grant, so subscribe and
\* allow, which look the grant up by driver number, cannot pick the wrong one.
OneGrantPerDriver ==
  \A g, h \in Grants : IsAllocated(g) /\ IsAllocated(h) /\ DriverOf[g] = DriverOf[h] => g = h

\* Within one incarnation of the process the high water mark only rises and
\* the kernel's break only falls; only a restart, which invalidates every
\* handle by taking a new identifier, moves them back.
MarksMoveOneWay ==
  [][ident' = ident => /\ allow_high_water_mark' >= allow_high_water_mark
                       /\ kernel_memory_break' <= kernel_memory_break]_vars
=============================================================================
