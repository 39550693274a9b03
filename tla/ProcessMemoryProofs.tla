------------------------ MODULE ProcessMemoryProofs ------------------------
(***************************************************************************)
(* Proofs about ProcessMemory, for every memory layout, every set of       *)
(* grants and every system call argument.  The layout theorem assumes what *)
(* every MPU of the repository provides, a memory end on a word boundary:  *)
(* without it reset() misplaces the kernel's break.                        *)
(***************************************************************************)
EXTENDS ProcessMemory, TLAPS

\* The end of memory is on a word boundary.
Aligned == MemEnd % Word = 0

\* Every reachable buffer lies below the high water mark: what brk relies on
\* to leave the buffers alone, and stronger than BuffersAccessible.
BuffersBelowMark ==
  /\ \A g \in Grants : IsAllocated(g) => BufferBelow(allowed[g], allow_high_water_mark)
  /\ readable.id = ident => BufferBelow(readable, allow_high_water_mark)

\* No closure runs inside a grant of a process that is not running.
InactiveOutside == Active \/ AtTopLevel

\* Nobody holds a handle of a future incarnation.
HandlesPast == readable.id <= ident /\ \A c \in custom : c.id <= ident

IInv ==
  /\ TypeOK
  /\ LayoutOrdered
  /\ KernelStructsProtected
  /\ BuffersBelowMark
  /\ GrantsIsolated
  /\ EnteredFlagExact
  /\ OneGrantPerDriver
  /\ InactiveOutside
  /\ HandlesPast

-----------------------------------------------------------------------------
\* Rounding down to a power of two loses less than 16 and leaves an even number.
LEMMA AlignDownFacts ==
  ASSUME NEW x \in Nat, NEW a \in {2, 4, 8, 16}
  PROVE  /\ AlignDown(x, a) \in Nat
         /\ AlignDown(x, a) <= x
         /\ AlignDown(x, a) > x - 16
         /\ AlignDown(x, a) % 2 = 0
<1>1. CASE a = 2 BY <1>1 DEF AlignDown
<1>2. CASE a = 4 BY <1>2 DEF AlignDown
<1>3. CASE a = 8 BY <1>3 DEF AlignDown
<1>4. CASE a = 16 BY <1>4 DEF AlignDown
<1> QED BY <1>1, <1>2, <1>3, <1>4

\* A block that passes the check against the old break ends at or below it:
\* a subtraction that wraps never passes.
LEMMA NewBreakFacts ==
  ASSUME kernel_memory_break \in Address, NEW size \in 0 .. H - 1, NEW align \in Aligns,
         NewBreak(size, align) <= kernel_memory_break
  PROVE  /\ NewBreak(size, align) \in Nat
         /\ NewBreak(size, align) + size <= kernel_memory_break
         /\ NewBreak(size, align) % 2 = 0
<1> DEFINE a == IF align > 2 THEN align ELSE 2
           x == WrappingSub(kernel_memory_break, size)
<1>1. a \in {2, 4, 8, 16} BY DEF Aligns
<1>2. x \in Nat /\ (x = kernel_memory_break - size \/ x > kernel_memory_break + H)
  BY MemoryAssumption DEF WrappingSub, Address, W
<1>3. NewBreak(size, align) = AlignDown(x, a) BY DEF NewBreak
<1> HIDE DEF a, x
<1>4. /\ AlignDown(x, a) \in Nat /\ AlignDown(x, a) <= x
      /\ AlignDown(x, a) > x - 16 /\ AlignDown(x, a) % 2 = 0
  BY Zenon, <1>1, <1>2, AlignDownFacts
<1> QED BY <1>2, <1>3, <1>4, MemoryAssumption DEF Address, W

\* Where create() puts the kernel structures.
LEMMA KernelStructsFacts ==
  /\ KernelStructs \in Nat
  /\ MemStart + MinApp <= KernelStructs
  /\ KernelStructs <= MemEnd /\ MemEnd < W
  /\ Aligned => KernelStructs = MemEnd - KernSize
<1>1. CASE Word = 4 BY <1>1, MemoryAssumption DEF KernelStructs, AlignDown, Aligned, W
<1>2. CASE Word = 8 BY <1>2, MemoryAssumption DEF KernelStructs, AlignDown, Aligned, W
<1> QED BY <1>1, <1>2, MemoryAssumption

\* The MPU exposes what lies between the two breaks.
LEMMA ExposingFacts ==
  ASSUME NEW lo, NEW hi, NEW e \in Exposing(lo, hi)
  PROVE  e \in Address /\ lo <= e /\ e <= hi
BY MemoryAssumption DEF Exposing, Address

-----------------------------------------------------------------------------
\* An accepted buffer lies below the raised mark, and the mark below the break.
LEMMA AcceptedBuffer ==
  ASSUME TypeOK, LayoutOrdered, NEW start \in Address, NEW size \in Address, NEW rw \in BOOLEAN,
         Accepts(start, size, rw)
  PROVE  /\ RaisedMark(start, size) \in Address
         /\ allow_high_water_mark <= RaisedMark(start, size)
         /\ RaisedMark(start, size) <= app_break
         /\ BufferBelow(Buffer(start, size), RaisedMark(start, size))
<1> USE MemoryAssumption DEF Address, W
<1>1. RaisedMark(start, size) \in Address /\ allow_high_water_mark <= RaisedMark(start, size)
      /\ RaisedMark(start, size) <= app_break
  BY DEF RaisedMark, in_app_owned_memory, WrappingAdd, TypeOK, LayoutOrdered
<1>2. CASE size = 0 BY <1>1, <1>2 DEF BufferBelow, Buffer
<1>3. CASE size # 0 /\ in_app_owned_memory(start, size)
  <2>1. start + size <= RaisedMark(start, size) /\ MemStart <= start
    BY <1>3 DEF RaisedMark, in_app_owned_memory, WrappingAdd, TypeOK
  <2> QED BY <1>1, <2>1 DEF BufferBelow, Buffer
<1>4. CASE size # 0 /\ in_app_flash_memory(start, size)
  <2>1. FlashStart <= start /\ start + size <= FlashEnd
    BY <1>4 DEF in_app_flash_memory, WrappingAdd
  <2> QED BY <1>1, <2>1 DEF BufferBelow, Buffer
<1> QED BY <1>1, <1>2, <1>3, <1>4 DEF Accepts

\* Raising the limit keeps a buffer below it.
LEMMA BufferBelowMono ==
  ASSUME NEW b, b.start \in Int, b.size \in Int, NEW lo \in Int, NEW hi \in Int,
         lo <= hi, BufferBelow(b, lo)
  PROVE  BufferBelow(b, hi)
BY MemoryAssumption DEF BufferBelow

\* Everything about grants depends only on these variables.
LEMMA GrantFrame ==
  ASSUME IInv, UNCHANGED <<grant_ptr, custom, ident, kernel_memory_break>>
  PROVE  /\ GrantsIsolated' /\ OneGrantPerDriver' /\ KernelStructsProtected'
         /\ \A g \in Grants : IsAllocated(g)' = IsAllocated(g) /\ Entered(g)' = Entered(g)
BY DEF IInv, GrantsIsolated, OneGrantPerDriver, KernelStructsProtected, IsAllocated, Entered,
       InGrantRegion, GrantBlock, CustomBlock, GrantBase, LiveCustom, Disjoint, KernelStructs

\* A restart or a termination leaves no grant, and with a new identifier no
\* custom grant, of the new incarnation.
LEMMA FreshFrame ==
  ASSUME TypeOK, HandlesPast, grant_ptr' = [g \in Grants |-> 0], custom' = custom,
         ident' = ident + 1
  PROVE  GrantsIsolated' /\ OneGrantPerDriver' /\ LiveCustom' = {}
         /\ \A g \in Grants : ~IsAllocated(g)' /\ ~Entered(g)'
<1>1. \A g \in Grants : ~IsAllocated(g)' /\ ~Entered(g)'
  BY DEF IsAllocated, Entered
<1>2. LiveCustom' = {}
  BY DEF LiveCustom, HandlesPast, TypeOK
<1> QED BY <1>1, <1>2 DEF GrantsIsolated, OneGrantPerDriver

\* Allocating a grant: the new block is below the old break, the others above.
LEMMA AllocateGrantFrame ==
  ASSUME IInv, NEW g \in Grants, NEW buf, Allocate(g, buf)
  PROVE  /\ kernel_memory_break' \in Address /\ kernel_memory_break' <= KernelStructs
         /\ grant_ptr' \in [Grants -> Address]
         /\ app_break <= kernel_memory_break' /\ mpu_end' \in Address
         /\ app_break <= mpu_end' /\ mpu_end' <= kernel_memory_break'
         /\ GrantsIsolated' /\ OneGrantPerDriver'
         /\ \A h \in Grants \ {g} : IsAllocated(h)' = IsAllocated(h) /\ Entered(h)' = Entered(h)
         /\ ~Entered(g) /\ ~Entered(g)'
<1> DEFINE nb == NewBreak(GrantSize[g], GrantAlign[g])
<1>1. /\ nb \in Nat /\ nb + GrantSize[g] <= kernel_memory_break /\ nb % 2 = 0
      /\ app_break <= nb /\ GrantSize[g] \in 1 .. H - 1
  <2>1. GrantSize[g] \in 1 .. H - 1 /\ GrantAlign[g] \in Aligns BY MemoryAssumption
  <2>2. nb <= kernel_memory_break /\ app_break <= nb BY DEF Allocate, Fits
  <2> QED BY <2>1, <2>2, NewBreakFacts, MemoryAssumption DEF IInv, TypeOK
<1> HIDE DEF nb
<1>2. /\ kernel_memory_break' = nb /\ grant_ptr' = [grant_ptr EXCEPT ![g] = nb]
      /\ mpu_end' \in Exposing(app_break, nb) /\ custom' = custom /\ ident' = ident
      /\ grant_ptr[g] = 0 /\ \A h \in Grants : IsAllocated(h) => DriverOf[h] # DriverOf[g]
  BY DEF Allocate, Fits, Allocatable, nb, IsAllocated
<1>3. mpu_end' \in Address /\ app_break <= mpu_end' /\ mpu_end' <= nb
  BY <1>2, ExposingFacts
<1>4. /\ nb \in Address /\ nb < kernel_memory_break /\ nb > 0
      /\ kernel_memory_break <= KernelStructs /\ KernelStructs \in Nat /\ MemEnd \in Nat
  <2>1. /\ kernel_memory_break \in Address /\ app_break \in Address
        /\ allow_high_water_mark \in Address /\ mpu_end \in Address
        /\ LayoutOrdered /\ kernel_memory_break <= KernelStructs
    BY DEF IInv, TypeOK, KernelStructsProtected
  <2>2. MemStart \in Nat /\ MemStart > 0 /\ H \in Nat /\ MemEnd \in Nat BY MemoryAssumption
  <2>3. app_break > 0 BY <2>1, <2>2 DEF LayoutOrdered, Address, W
  <2>4. nb \in Address /\ nb < kernel_memory_break /\ nb > 0
    BY <1>1, <2>1, <2>2, <2>3 DEF Address, W
  <2> QED BY <2>1, <2>2, <2>4, KernelStructsFacts
<1>5. /\ grant_ptr' \in [Grants -> Address] /\ grant_ptr'[g] = nb
      /\ \A h \in Grants \ {g} : grant_ptr'[h] = grant_ptr[h]
  BY <1>2, <1>4 DEF IInv, TypeOK
<1>6. /\ \A h \in Grants \ {g} : IsAllocated(h)' = IsAllocated(h) /\ Entered(h)' = Entered(h)
                                 /\ GrantBlock(h)' = GrantBlock(h)
      /\ ~Entered(g) /\ ~Entered(g)' /\ ~IsAllocated(g)
      /\ GrantBlock(g)' = [lo |-> nb, hi |-> nb + GrantSize[g]]
  BY <1>1, <1>2, <1>5 DEF IsAllocated, Entered, GrantBlock, GrantBase
<1>7. LiveCustom' = LiveCustom /\ KernelStructs' = KernelStructs
      /\ \A c \in LiveCustom : CustomBlock(c)' = CustomBlock(c)
  BY <1>2 DEF LiveCustom, KernelStructs, CustomBlock, AlignDown
<1>8. OneGrantPerDriver'
  BY <1>2, <1>6 DEF OneGrantPerDriver, IInv
<1>9. GrantsIsolated'
  <2>1. \A h \in Grants \ {g} : IsAllocated(h) =>
           /\ GrantBlock(h).lo \in Int /\ GrantBlock(h).hi \in Int
           /\ InGrantRegion(GrantBlock(h))
    BY MemoryAssumption DEF IInv, GrantsIsolated, GrantBlock, GrantBase, TypeOK, Address
  <2>2. \A c \in LiveCustom :
           /\ CustomBlock(c).lo \in Int /\ CustomBlock(c).hi \in Int
           /\ InGrantRegion(CustomBlock(c))
    BY MemoryAssumption DEF IInv, GrantsIsolated, CustomBlock, LiveCustom, TypeOK, Address
  <2>3. kernel_memory_break \in Int BY DEF IInv, TypeOK, Address
  <2>4. InGrantRegion(GrantBlock(g))'
    BY <1>1, <1>2, <1>4, <1>6, <1>7, <2>3, MemoryAssumption DEF InGrantRegion
  <2>5. \A h \in Grants \ {g} : IsAllocated(h) => InGrantRegion(GrantBlock(h))'
                                  /\ Disjoint(GrantBlock(g), GrantBlock(h))'
                                  /\ Disjoint(GrantBlock(h), GrantBlock(g))'
    BY <1>1, <1>2, <1>4, <1>6, <1>7, <2>1, <2>3 DEF InGrantRegion, Disjoint
  <2>6. \A c \in LiveCustom : InGrantRegion(CustomBlock(c))'
                                  /\ Disjoint(GrantBlock(g), CustomBlock(c))'
    BY <1>1, <1>2, <1>4, <1>6, <1>7, <2>2, <2>3 DEF InGrantRegion, Disjoint
  <2>7. \A h, k \in Grants \ {g} : h # k /\ IsAllocated(h) /\ IsAllocated(k)
                                    => Disjoint(GrantBlock(h), GrantBlock(k))'
    BY <1>6 DEF IInv, GrantsIsolated, Disjoint
  <2>8. \A h \in Grants \ {g}, c \in LiveCustom : IsAllocated(h)
                                    => Disjoint(GrantBlock(h), CustomBlock(c))'
    BY <1>6, <1>7 DEF IInv, GrantsIsolated, Disjoint
  <2>9. \A c, d \in LiveCustom : c # d => Disjoint(CustomBlock(c), CustomBlock(d))'
    BY <1>7 DEF IInv, GrantsIsolated, Disjoint
  <2> QED BY <1>6, <1>7, <2>4, <2>5, <2>6, <2>7, <2>8, <2>9 DEF GrantsIsolated
<1> QED BY <1>1, <1>2, <1>3, <1>4, <1>5, <1>6, <1>8, <1>9 DEF IInv, TypeOK, Address

\* Allocating a custom grant, by the same argument.
LEMMA CustomGrantFrame ==
  ASSUME IInv, NEW size \in 0 .. H - 1, NEW align \in Aligns, AllocateCustomGrant(size, align)
  PROVE  /\ kernel_memory_break' \in Address /\ kernel_memory_break' <= KernelStructs
         /\ custom' \subseteq [id : 1 .. MaxIdent + 1, offset : Address, size : 0 .. H - 1]
         /\ \A c \in custom' : c.id <= ident
         /\ app_break <= kernel_memory_break' /\ mpu_end' \in Address
         /\ app_break <= mpu_end' /\ mpu_end' <= kernel_memory_break'
         /\ GrantsIsolated'
<1>a. PICK nb : nb = NewBreak(size, align) OBVIOUS
<1>b. PICK new : new = [id |-> ident, offset |-> MemEnd - nb, size |-> size] BY Zenon
<1>1. nb \in Nat /\ nb + size <= kernel_memory_break /\ app_break <= nb
  <2>1. nb <= kernel_memory_break /\ app_break <= nb BY <1>a DEF AllocateCustomGrant, Fits
  <2> QED BY <1>a, <2>1, NewBreakFacts DEF IInv, TypeOK
<1>2. /\ kernel_memory_break' = nb /\ custom' = custom \cup {new}
      /\ mpu_end' \in Exposing(app_break, nb) /\ grant_ptr' = grant_ptr /\ ident' = ident
  BY <1>a, <1>b DEF AllocateCustomGrant, Fits
<1>3. mpu_end' \in Address /\ app_break <= mpu_end' /\ mpu_end' <= nb
  BY <1>2, ExposingFacts
<1>4. /\ kernel_memory_break \in Address /\ kernel_memory_break <= KernelStructs
      /\ KernelStructs \in Nat /\ KernelStructs <= MemEnd /\ MemEnd \in Address
      /\ ident \in 1 .. MaxIdent + 1 /\ app_break \in Address
  BY KernelStructsFacts, MemoryAssumption DEF IInv, TypeOK, KernelStructsProtected, Address, W
<1>5. nb \in Address /\ nb <= kernel_memory_break /\ nb + size <= KernelStructs
      /\ MemEnd - nb \in Address /\ MemEnd - (MemEnd - nb) = nb
  BY <1>1, <1>4, MemoryAssumption DEF Address, W
<1>6. /\ custom' \subseteq [id : 1 .. MaxIdent + 1, offset : Address, size : 0 .. H - 1]
      /\ \A c \in custom' : c.id <= ident
  BY <1>b, <1>2, <1>4, <1>5 DEF IInv, TypeOK, HandlesPast
<1>7. /\ LiveCustom' = LiveCustom \cup {new} /\ KernelStructs' = KernelStructs
      /\ \A c \in LiveCustom : CustomBlock(c)' = CustomBlock(c)
      /\ CustomBlock(new)' = [lo |-> nb, hi |-> nb + size]
      /\ \A g \in Grants : IsAllocated(g)' = IsAllocated(g) /\ GrantBlock(g)' = GrantBlock(g)
  <2>1. LiveCustom' = LiveCustom \cup {new} BY <1>b, <1>2 DEF LiveCustom
  <2>2. CustomBlock(new)' = [lo |-> nb, hi |-> nb + size] BY <1>b, <1>5 DEF CustomBlock
  <2> QED BY <1>2, <2>1, <2>2
          DEF KernelStructs, CustomBlock, AlignDown, IsAllocated, GrantBlock, GrantBase
<1>8. GrantsIsolated'
  <2>1. \A g \in Grants : IsAllocated(g) =>
           /\ GrantBlock(g).lo \in Int /\ GrantBlock(g).hi \in Int
           /\ InGrantRegion(GrantBlock(g))
    BY MemoryAssumption DEF IInv, GrantsIsolated, GrantBlock, GrantBase, TypeOK, Address
  <2>2. \A c \in LiveCustom :
           /\ CustomBlock(c).lo \in Int /\ CustomBlock(c).hi \in Int
           /\ InGrantRegion(CustomBlock(c))
    BY MemoryAssumption DEF IInv, GrantsIsolated, CustomBlock, LiveCustom, TypeOK, Address
  <2>3. kernel_memory_break \in Int /\ nb \in Int /\ size \in Int BY <1>4, <1>5 DEF Address
  <2>4. InGrantRegion(CustomBlock(new))'
    BY <1>2, <1>5, <1>7, <2>3 DEF InGrantRegion
  <2>5. \A g \in Grants : IsAllocated(g) => InGrantRegion(GrantBlock(g))'
                             /\ Disjoint(GrantBlock(g), CustomBlock(new))'
    BY <1>1, <1>2, <1>5, <1>7, <2>1, <2>3 DEF InGrantRegion, Disjoint
  <2>6. \A c \in LiveCustom : InGrantRegion(CustomBlock(c))'
                             /\ Disjoint(CustomBlock(c), CustomBlock(new))'
                             /\ Disjoint(CustomBlock(new), CustomBlock(c))'
    BY <1>1, <1>2, <1>5, <1>7, <2>2, <2>3 DEF InGrantRegion, Disjoint
  <2>7. \A g, h \in Grants : g # h /\ IsAllocated(g) /\ IsAllocated(h)
                             => Disjoint(GrantBlock(g), GrantBlock(h))'
    BY <1>7 DEF IInv, GrantsIsolated, Disjoint
  <2>8. \A g \in Grants, c \in LiveCustom : IsAllocated(g)
                             => Disjoint(GrantBlock(g), CustomBlock(c))'
    BY <1>7 DEF IInv, GrantsIsolated, Disjoint
  <2>9. \A c, d \in LiveCustom : c # d => Disjoint(CustomBlock(c), CustomBlock(d))'
    BY <1>7 DEF IInv, GrantsIsolated, Disjoint
  <2> QED BY <1>7, <2>4, <2>5, <2>6, <2>7, <2>8, <2>9 DEF GrantsIsolated
<1> QED BY <1>1, <1>2, <1>3, <1>5, <1>6, <1>8, <1>4 DEF Address

-----------------------------------------------------------------------------
\* A new process has its regions in order, no grants and no buffers.
LEMMA InitEstablishes == Init => IInv
<1> SUFFICES ASSUME Init PROVE IInv OBVIOUS
<1> USE MemoryAssumption, KernelStructsFacts
<1>1. /\ app_break = MemStart + MinApp /\ kernel_memory_break = KernelStructs
      /\ allow_high_water_mark = MemStart /\ mpu_end \in Exposing(app_break, kernel_memory_break)
      /\ grant_ptr = [g \in Grants |-> 0] /\ open = [g \in Grants |-> 0] /\ custom = {}
      /\ ident = 1 /\ readable = Handle(0, 0, 0)
  BY DEF Init
<1>2. mpu_end \in Address /\ app_break <= mpu_end /\ mpu_end <= kernel_memory_break
  BY <1>1, ExposingFacts
<1>3. app_break \in Address /\ kernel_memory_break \in Address /\ allow_high_water_mark \in Address
      /\ 0 \in Address
  BY <1>1 DEF Address, W
<1>4. TypeOK
  <2>1. allowed \in [Grants -> [start : Address, size : Address]] BY <1>3 DEF Init, Buffer
  <2>2. readable \in [id : 0 .. MaxIdent + 1, start : Address, size : Address]
    BY <1>1, <1>3 DEF Handle
  <2>3. ident \in 1 .. MaxIdent + 1 BY <1>1
  <2>4. life \in {"CredentialsApproved", "Active", "Inactive"} /\ mpu_config \in BOOLEAN
    BY DEF Init
  <2>5. grant_ptr \in [Grants -> Address] /\ open \in [Grants -> Nat] BY <1>1, <1>3
  <2> QED BY <1>1, <1>2, <1>3, <2>1, <2>2, <2>3, <2>4, <2>5 DEF TypeOK
<1>5. \A g \in Grants : ~IsAllocated(g) /\ ~Entered(g) BY <1>1 DEF IsAllocated, Entered
<1>6. LayoutOrdered /\ KernelStructsProtected
  BY <1>1, <1>2 DEF LayoutOrdered, KernelStructsProtected
<1>7. BuffersBelowMark /\ HandlesPast /\ InactiveOutside /\ EnteredFlagExact
  BY <1>1, <1>5 DEF BuffersBelowMark, HandlesPast, Handle, InactiveOutside, AtTopLevel, EnteredFlagExact
<1>8. GrantsIsolated /\ OneGrantPerDriver
  BY <1>1, <1>5 DEF GrantsIsolated, OneGrantPerDriver, LiveCustom
<1> QED BY <1>4, <1>6, <1>7, <1>8 DEF IInv

-----------------------------------------------------------------------------
\* One step of each operation preserves the invariant.

\* Operations that leave the grants alone need only restore the layout and the
\* buffers; the identifier stays.
LEMMA GrantsUntouched ==
  ASSUME IInv, TypeOK', LayoutOrdered', BuffersBelowMark', HandlesPast', InactiveOutside',
         UNCHANGED <<grant_ptr, custom, ident, kernel_memory_break, open>>
  PROVE  IInv'
<1>1. EnteredFlagExact' BY GrantFrame DEF IInv, EnteredFlagExact
<1> QED BY <1>1, GrantFrame DEF IInv

\* Starting the process keeps the invariant.
LEMMA StartStep == ASSUME IInv, Start PROVE IInv'
<1>1. UNCHANGED <<ident, breaks, grant_ptr, allowed, open, custom, readable>> /\ life' = "Active"
  BY DEF Start
<1>2. TypeOK' /\ LayoutOrdered' BY <1>1 DEF IInv, TypeOK, LayoutOrdered, breaks
<1>3. HandlesPast' /\ InactiveOutside' BY <1>1 DEF IInv, HandlesPast, InactiveOutside, Active
<1>4. BuffersBelowMark'
  BY <1>1 DEF IInv, BuffersBelowMark, BufferBelow, IsAllocated, breaks
<1> QED BY <1>1, <1>2, <1>3, <1>4, GrantsUntouched DEF breaks

\* brk keeps the invariant, whatever region the MPU exposes.
LEMMA BrkStep == ASSUME IInv, NEW a \in Addrs, brk(a) PROVE IInv'
<1>1. /\ UNCHANGED <<life, ident, kernel_memory_break, allow_high_water_mark, mpu_config,
                     grant_ptr, allowed, open, custom, readable>>
      /\ app_break' = a /\ a >= allow_high_water_mark /\ a <= kernel_memory_break
      /\ mpu_end' \in Exposing(a, kernel_memory_break)
  BY DEF brk
<1>2. mpu_end' \in Address /\ a <= mpu_end' /\ mpu_end' <= kernel_memory_break
  BY <1>1, ExposingFacts
<1>3. a \in Address BY MemoryAssumption DEF Address
<1>4. TypeOK' BY <1>1, <1>2, <1>3 DEF IInv, TypeOK
<1>5. LayoutOrdered' BY <1>1, <1>2 DEF IInv, LayoutOrdered
<1>6. HandlesPast' /\ InactiveOutside'
  BY <1>1 DEF IInv, HandlesPast, InactiveOutside, Active, AtTopLevel
<1>7. BuffersBelowMark' BY <1>1 DEF IInv, BuffersBelowMark, BufferBelow, IsAllocated
<1> QED BY <1>1, <1>4, <1>5, <1>6, <1>7, GrantsUntouched

\* Raising the mark within the break keeps every buffer below it.
LEMMA MarkRaised ==
  ASSUME IInv, allow_high_water_mark' \in Address, allow_high_water_mark <= allow_high_water_mark'
  PROVE  /\ \A g \in Grants : IsAllocated(g) => BufferBelow(allowed[g], allow_high_water_mark')
         /\ readable.id = ident => BufferBelow(readable, allow_high_water_mark')
<1>1. allow_high_water_mark \in Int /\ allow_high_water_mark' \in Int
  BY DEF IInv, TypeOK, Address
<1>2. \A g \in Grants : allowed[g].start \in Int /\ allowed[g].size \in Int
  BY DEF IInv, TypeOK, Address
<1>3. readable.start \in Int /\ readable.size \in Int BY DEF IInv, TypeOK, Address
<1> QED BY <1>1, <1>2, <1>3, BufferBelowMono DEF IInv, BuffersBelowMark

\* ProcessGrant::new with a buffer that lies below the (possibly raised) mark.
LEMMA AllocateStep ==
  ASSUME IInv, NEW g \in Grants, NEW buf \in [start : Address, size : Address],
         Allocate(g, buf), BufferBelow(buf, allow_high_water_mark'),
         allow_high_water_mark' \in Address,
         allow_high_water_mark <= allow_high_water_mark', allow_high_water_mark' <= app_break
  PROVE  IInv'
<1>1. /\ UNCHANGED <<life, ident, app_break, mpu_config, open, custom, readable>>
      /\ allowed' = [allowed EXCEPT ![g] = buf]
  BY DEF Allocate
<1>2. TypeOK' BY <1>1, AllocateGrantFrame DEF IInv, TypeOK
<1>3. LayoutOrdered'
  <2>1. MemStart <= allow_high_water_mark'
    BY MemoryAssumption DEF IInv, TypeOK, LayoutOrdered, Address
  <2> QED BY <1>1, <2>1, AllocateGrantFrame DEF LayoutOrdered
<1>4. KernelStructsProtected' BY AllocateGrantFrame DEF KernelStructsProtected, KernelStructs
<1>5. BuffersBelowMark'
  <2>1. \A h \in Grants : IsAllocated(h)' => BufferBelow(allowed'[h], allow_high_water_mark')
    <3> SUFFICES ASSUME NEW h \in Grants, IsAllocated(h)'
                 PROVE  BufferBelow(allowed'[h], allow_high_water_mark')
      OBVIOUS
    <3>1. CASE h = g BY <1>1, <3>1 DEF IInv, TypeOK
    <3>2. CASE h # g
      <4>1. IsAllocated(h) /\ allowed'[h] = allowed[h]
        BY <1>1, <3>2, AllocateGrantFrame DEF IInv, TypeOK
      <4> QED BY <4>1, MarkRaised
    <3> QED BY <3>1, <3>2
  <2>2. readable'.id = ident' => BufferBelow(readable', allow_high_water_mark')
    BY <1>1, MarkRaised
  <2> QED BY <2>1, <2>2 DEF BuffersBelowMark, BufferBelow
<1>6. EnteredFlagExact' BY <1>1, AllocateGrantFrame DEF IInv, EnteredFlagExact
<1>7. InactiveOutside' /\ HandlesPast'
  BY <1>1 DEF IInv, InactiveOutside, HandlesPast, Active, AtTopLevel
<1> QED BY <1>2, <1>3, <1>4, <1>5, <1>6, <1>7, AllocateGrantFrame DEF IInv

\* Allocating a grant keeps the invariant, whether or not there is room.
LEMMA AllocateGrantStep == ASSUME IInv, NEW g \in Grants, AllocateGrant(g) PROVE IInv'
<1>1. Allocate(g, Buffer(0, 0)) /\ allow_high_water_mark' = allow_high_water_mark
  BY DEF AllocateGrant
<1>2. Buffer(0, 0) \in [start : Address, size : Address]
  BY MemoryAssumption DEF Buffer, Address, W
<1>3. BufferBelow(Buffer(0, 0), allow_high_water_mark') BY DEF BufferBelow, Buffer
<1>4. allow_high_water_mark \in Address /\ allow_high_water_mark <= allow_high_water_mark
      /\ allow_high_water_mark <= app_break
  BY DEF IInv, TypeOK, LayoutOrdered, Address
<1> QED BY <1>1, <1>2, <1>3, <1>4, AllocateStep

\* Sharing a buffer, read-write or read-only, keeps the invariant.
LEMMA AllowStep ==
  ASSUME IInv, NEW d \in Drivers, NEW r \in Ranges, NEW rw \in BOOLEAN, Allow(d, r[1], r[2], rw)
  PROVE  IInv'
<1> DEFINE b == Buffer(r[1], r[2])
<1>1. r[1] \in Address /\ r[2] \in Address BY MemoryAssumption DEF Address
<1>2. Accepts(r[1], r[2], rw) /\ allow_high_water_mark' = RaisedMark(r[1], r[2]) BY DEF Allow
<1>3. /\ allow_high_water_mark' \in Address
      /\ allow_high_water_mark <= allow_high_water_mark' /\ allow_high_water_mark' <= app_break
      /\ BufferBelow(b, allow_high_water_mark')
  BY <1>1, <1>2, AcceptedBuffer DEF IInv
<1>4. b \in [start : Address, size : Address] BY <1>1 DEF Buffer
<1>5. MemStart <= allow_high_water_mark'
  BY <1>3, MemoryAssumption DEF IInv, TypeOK, LayoutOrdered, Address
<1> HIDE DEF b
<1>6. ASSUME UNCHANGED <<life, ident, app_break, kernel_memory_break, mpu_config, mpu_end,
                         grant_ptr, open, custom, readable>>,
             \/ \E g \in Grants : allowed' = [allowed EXCEPT ![g] = b]
             \/ allowed' = allowed
      PROVE  IInv'
  <2>1. TypeOK' BY <1>3, <1>4, <1>6 DEF IInv, TypeOK
  <2>2. LayoutOrdered' BY <1>3, <1>5, <1>6 DEF IInv, LayoutOrdered
  <2>3. HandlesPast' /\ InactiveOutside'
    BY Zenon, <1>6 DEF IInv, HandlesPast, InactiveOutside, Active, AtTopLevel
  <2>4. BuffersBelowMark'
    <3>1. \A g \in Grants : allowed'[g] = allowed[g] \/ allowed'[g] = b
      BY Zenon, <1>6 DEF IInv, TypeOK
    <3>2. \A g \in Grants : IsAllocated(g) => BufferBelow(allowed'[g], allow_high_water_mark')
      BY <1>3, <3>1, MarkRaised
    <3> QED BY <1>3, <1>6, <3>2, MarkRaised DEF BuffersBelowMark, BufferBelow, IsAllocated
  <2> QED BY <1>6, <2>1, <2>2, <2>3, <2>4, GrantsUntouched
<1>7. CASE \E g \in Grants : DriverOf[g] = d /\ Allocate(g, b)
  BY <1>3, <1>4, <1>7, AllocateStep
<1>8. CASE \E g \in Grants : DriverOf[g] = d /\ Allocate(g, Buffer(0, 0))
  <2>1. Buffer(0, 0) \in [start : Address, size : Address]
    BY MemoryAssumption DEF Buffer, Address, W
  <2>2. BufferBelow(Buffer(0, 0), allow_high_water_mark') BY DEF BufferBelow, Buffer
  <2> QED BY <1>3, <1>8, <2>1, <2>2, AllocateStep
<1> QED BY <1>6, <1>7, <1>8 DEF Allow, b

\* Sharing a buffer the process goes on reading keeps the invariant.
LEMMA ReadableStep ==
  ASSUME IInv, NEW r \in Ranges, UserspaceReadableAllow(r[1], r[2])
  PROVE  IInv'
<1>1. r[1] \in Address /\ r[2] \in Address BY MemoryAssumption DEF Address
<1>2. /\ Accepts(r[1], r[2], TRUE) /\ allow_high_water_mark' = RaisedMark(r[1], r[2])
      /\ readable' = readable \/ readable' = Handle(ident, r[1], r[2])
      /\ UNCHANGED <<life, ident, app_break, kernel_memory_break, mpu_config, mpu_end,
                     grant_ptr, allowed, open, custom>>
  BY Zenon DEF UserspaceReadableAllow
<1>3. /\ allow_high_water_mark' \in Address
      /\ allow_high_water_mark <= allow_high_water_mark' /\ allow_high_water_mark' <= app_break
      /\ BufferBelow(Buffer(r[1], r[2]), allow_high_water_mark')
  BY Zenon, <1>1, <1>2, AcceptedBuffer DEF IInv
<1>4. MemStart <= allow_high_water_mark'
  BY <1>3, MemoryAssumption DEF IInv, TypeOK, LayoutOrdered, Address
<1>5. TypeOK' BY <1>1, <1>2, <1>3 DEF IInv, TypeOK, Handle
<1>6. LayoutOrdered' BY <1>2, <1>3, <1>4 DEF IInv, LayoutOrdered
<1>7. HandlesPast' /\ InactiveOutside'
  <2>1. readable'.id = readable.id \/ readable'.id = ident BY <1>2 DEF Handle
  <2>2. HandlesPast' BY <1>2, <2>1 DEF IInv, TypeOK, HandlesPast
  <2>3. InactiveOutside' BY <1>2 DEF IInv, InactiveOutside, Active, AtTopLevel
  <2> QED BY <2>2, <2>3
<1>8. BuffersBelowMark'
  <2>1. readable'.id = ident' => BufferBelow(readable', allow_high_water_mark')
    <3>1. CASE readable' = readable BY <1>2, <1>3, <3>1, MarkRaised
    <3>2. CASE readable' = Handle(ident, r[1], r[2])
      BY <1>3, <3>2 DEF Handle, Buffer, BufferBelow
    <3> QED BY <1>2, <3>1, <3>2
  <2> QED BY Zenon, <1>2, <1>3, <2>1, MarkRaised DEF BuffersBelowMark, BufferBelow, IsAllocated
<1> QED BY <1>2, <1>5, <1>6, <1>7, <1>8, GrantsUntouched

\* Setting or clearing the flag moves no block: the pointer below it stays.
LEMMA FlagFrame ==
  ASSUME IInv, NEW g \in Grants, NEW p \in Address,
         grant_ptr' = [grant_ptr EXCEPT ![g] = p], p - (p % 2) = GrantBase(g), IsAllocated(g),
         UNCHANGED <<ident, breaks, allowed, custom, readable, life>>
  PROVE  /\ grant_ptr' \in [Grants -> Address]
         /\ GrantsIsolated' /\ OneGrantPerDriver' /\ KernelStructsProtected' /\ BuffersBelowMark'
         /\ \A h \in Grants \ {g} : Entered(h)' = Entered(h)
         /\ (Entered(g)' <=> p % 2 = 1)
<1>1. /\ grant_ptr' \in [Grants -> Address] /\ grant_ptr'[g] = p
      /\ \A h \in Grants \ {g} : grant_ptr'[h] = grant_ptr[h]
  BY DEF IInv, TypeOK
<1>2. GrantBase(g) > 0
  <2>1. kernel_memory_break > 0
    BY MemoryAssumption DEF IInv, TypeOK, LayoutOrdered, Address, W
  <2>2. kernel_memory_break <= GrantBase(g)
    BY DEF IInv, GrantsIsolated, InGrantRegion, GrantBlock
  <2>3. GrantBase(g) \in Int /\ kernel_memory_break \in Int
    BY DEF IInv, TypeOK, Address, GrantBase
  <2> QED BY <2>1, <2>2, <2>3
<1>3. p # 0 BY <1>2
<1>4. \A h \in Grants : IsAllocated(h)' = IsAllocated(h) /\ GrantBase(h)' = GrantBase(h)
  <2>1. IsAllocated(g)' = IsAllocated(g) /\ GrantBase(g)' = GrantBase(g)
    BY <1>1, <1>3 DEF IsAllocated, GrantBase
  <2> QED BY <1>1, <2>1 DEF IsAllocated, GrantBase
<1>5. \A h \in Grants : GrantBlock(h)' = GrantBlock(h) BY <1>4 DEF GrantBlock
<1>6. LiveCustom' = LiveCustom /\ KernelStructs' = KernelStructs
      /\ kernel_memory_break' = kernel_memory_break
      /\ \A c \in LiveCustom : CustomBlock(c)' = CustomBlock(c)
  BY Zenon DEF LiveCustom, KernelStructs, CustomBlock, AlignDown, breaks
<1>7. GrantsIsolated'
  BY <1>4, <1>5, <1>6 DEF IInv, GrantsIsolated, InGrantRegion, Disjoint
<1>8. OneGrantPerDriver' BY <1>4 DEF IInv, OneGrantPerDriver
<1>9. KernelStructsProtected' BY Zenon, <1>6 DEF IInv, KernelStructsProtected
<1>10. BuffersBelowMark'
  <2>1. /\ allowed' = allowed /\ readable' = readable /\ ident' = ident
        /\ allow_high_water_mark' = allow_high_water_mark
    BY DEF breaks
  <2> QED BY <1>4, <2>1 DEF IInv, BuffersBelowMark, BufferBelow
<1>11. (Entered(g)' <=> p % 2 = 1) /\ \A h \in Grants \ {g} : Entered(h)' = Entered(h)
  BY <1>1 DEF Entered
<1> QED BY <1>1, <1>7, <1>8, <1>9, <1>10, <1>11

\* Entering a grant keeps the invariant.
LEMMA EnterStep == ASSUME IInv, NEW g \in Grants, EnterGrant(g) PROVE IInv'
<1>1. /\ Active /\ IsAllocated(g) /\ ~Entered(g)
      /\ open' = [open EXCEPT ![g] = @ + 1]
      /\ UNCHANGED <<life, ident, breaks, allowed, custom, readable>>
  BY DEF EnterGrant
<1>2. PICK p : p = grant_ptr[g] + 1 - (grant_ptr[g] % 2) OBVIOUS
<1>3. grant_ptr' = [grant_ptr EXCEPT ![g] = p] BY <1>2 DEF EnterGrant, IInv, TypeOK
<1>4. grant_ptr[g] \in Address BY DEF IInv, TypeOK
<1>5. p \in Address /\ p % 2 = 1 /\ p - (p % 2) = GrantBase(g)
  BY <1>1, <1>2, <1>4, MemoryAssumption DEF Address, W, Entered, GrantBase
<1>6. open \in [Grants -> Nat] /\ open[g] = 0 BY <1>1 DEF IInv, TypeOK, EnteredFlagExact
<1>7. open' \in [Grants -> Nat] /\ open'[g] = 1 /\ \A h \in Grants \ {g} : open'[h] = open[h]
  BY SMTT(30), <1>1, <1>6
<1>8. TypeOK' BY <1>1, <1>3, <1>5, <1>7, FlagFrame DEF IInv, TypeOK, breaks
<1>9. LayoutOrdered' BY <1>1 DEF IInv, LayoutOrdered, breaks
<1>10. EnteredFlagExact' BY Zenon, <1>1, <1>3, <1>5, <1>7, FlagFrame DEF IInv, EnteredFlagExact
<1>11. InactiveOutside' /\ HandlesPast'
  BY <1>1 DEF IInv, InactiveOutside, Active, HandlesPast
<1> QED BY Zenon, <1>1, <1>3, <1>5, <1>8, <1>9, <1>10, <1>11, FlagFrame DEF IInv

\* Leaving a grant keeps the invariant.
LEMMA LeaveStep == ASSUME IInv, NEW g \in Grants, LeaveGrant(g) PROVE IInv'
<1>1. /\ open[g] > 0 /\ open' = [open EXCEPT ![g] = @ - 1]
      /\ UNCHANGED <<life, ident, breaks, allowed, custom, readable>>
  BY DEF LeaveGrant
<1>2. Active /\ Entered(g) /\ open[g] = 1
  BY <1>1 DEF IInv, InactiveOutside, AtTopLevel, EnteredFlagExact
<1>3. PICK p : p = grant_ptr[g] - (grant_ptr[g] % 2) OBVIOUS
<1>4. grant_ptr' = [grant_ptr EXCEPT ![g] = p] BY <1>2, <1>3 DEF LeaveGrant, IInv, TypeOK
<1>5. grant_ptr[g] \in Address BY DEF IInv, TypeOK
<1>6. p \in Address /\ p % 2 = 0 /\ p - (p % 2) = GrantBase(g) /\ IsAllocated(g)
  BY <1>2, <1>3, <1>5, MemoryAssumption DEF Address, W, Entered, GrantBase, IsAllocated
<1>7. open' \in [Grants -> Nat] /\ open'[g] = 0 /\ \A h \in Grants \ {g} : open'[h] = open[h]
  BY SMTT(30), <1>1, <1>2 DEF IInv, TypeOK
<1>8. TypeOK' BY <1>1, <1>4, <1>6, <1>7, FlagFrame DEF IInv, TypeOK, breaks
<1>9. LayoutOrdered' BY <1>1 DEF IInv, LayoutOrdered, breaks
<1>10. EnteredFlagExact'
  <2>1. (Entered(g)' <=> p % 2 = 1) /\ \A h \in Grants \ {g} : Entered(h)' = Entered(h)
    BY Zenon, <1>1, <1>4, <1>6, FlagFrame
  <2>2. ~Entered(g)' BY <1>6, <2>1
  <2> QED BY <1>7, <2>1, <2>2 DEF IInv, EnteredFlagExact
<1>11. InactiveOutside' /\ HandlesPast'
  BY <1>1, <1>2 DEF IInv, InactiveOutside, Active, HandlesPast
<1> QED BY Zenon, <1>1, <1>4, <1>6, <1>8, <1>9, <1>10, <1>11, FlagFrame DEF IInv

\* Allocating a custom grant keeps the invariant.
LEMMA CustomStep ==
  ASSUME IInv, NEW c \in Customs, AllocateCustomGrant(c[1], c[2])
  PROVE  IInv'
<1>1. c[1] \in 0 .. H - 1 /\ c[2] \in Aligns BY MemoryAssumption
<1>2. UNCHANGED <<life, ident, app_break, allow_high_water_mark, mpu_config,
                  grant_ptr, allowed, open, readable>>
  BY DEF AllocateCustomGrant
<1>3. /\ kernel_memory_break' \in Address /\ kernel_memory_break' <= KernelStructs
      /\ custom' \subseteq [id : 1 .. MaxIdent + 1, offset : Address, size : 0 .. H - 1]
      /\ \A d \in custom' : d.id <= ident
      /\ app_break <= kernel_memory_break' /\ mpu_end' \in Address
      /\ app_break <= mpu_end' /\ mpu_end' <= kernel_memory_break'
      /\ GrantsIsolated'
  BY <1>1, CustomGrantFrame
<1>4. TypeOK' BY <1>2, <1>3 DEF IInv, TypeOK
<1>5. LayoutOrdered' BY <1>2, <1>3 DEF IInv, LayoutOrdered
<1>6. KernelStructsProtected' BY Zenon, <1>3 DEF KernelStructsProtected, KernelStructs
<1>7. BuffersBelowMark' BY <1>2 DEF IInv, BuffersBelowMark, BufferBelow, IsAllocated
<1>8. EnteredFlagExact' /\ OneGrantPerDriver'
  BY Zenon, <1>2 DEF IInv, EnteredFlagExact, Entered, OneGrantPerDriver, IsAllocated
<1>9. InactiveOutside' /\ HandlesPast'
  BY <1>2, <1>3 DEF IInv, InactiveOutside, Active, AtTopLevel, HandlesPast
<1> QED BY <1>3, <1>4, <1>5, <1>6, <1>7, <1>8, <1>9 DEF IInv

\* terminate keeps the invariant.
LEMMA TerminateStep == ASSUME IInv, Terminate PROVE IInv'
<1>1. /\ life' = "Inactive" /\ grant_ptr' = [g \in Grants |-> 0] /\ AtTopLevel
      /\ UNCHANGED <<ident, breaks, allowed, open, custom, readable>>
  BY DEF Terminate
<1>2. \A g \in Grants : ~IsAllocated(g)' /\ ~Entered(g)'
  BY SMTT(30), <1>1 DEF IsAllocated, Entered
<1>3. TypeOK' BY <1>1, MemoryAssumption DEF IInv, TypeOK, breaks, Address, W
<1>4. LayoutOrdered' /\ KernelStructsProtected'
  BY <1>1 DEF IInv, LayoutOrdered, KernelStructsProtected, KernelStructs, breaks
<1>5. BuffersBelowMark' BY Zenon, <1>1, <1>2 DEF IInv, BuffersBelowMark, BufferBelow, breaks
<1>6. EnteredFlagExact' /\ InactiveOutside'
  BY <1>1, <1>2 DEF EnteredFlagExact, InactiveOutside, AtTopLevel
<1>7. OneGrantPerDriver' BY <1>2 DEF OneGrantPerDriver
<1>8. GrantsIsolated'
  <2>1. LiveCustom' = LiveCustom /\ KernelStructs' = KernelStructs
        /\ kernel_memory_break' = kernel_memory_break
        /\ \A c \in LiveCustom : CustomBlock(c)' = CustomBlock(c)
    BY <1>1 DEF LiveCustom, KernelStructs, CustomBlock, AlignDown, breaks
  <2> QED BY <1>2, <2>1 DEF IInv, GrantsIsolated, InGrantRegion, Disjoint
<1>9. HandlesPast' BY <1>1 DEF IInv, HandlesPast
<1> QED BY <1>3, <1>4, <1>5, <1>6, <1>7, <1>8, <1>9 DEF IInv

\* What a restart does to the handles, however far reset() gets.
LEMMA RestartFrame ==
  ASSUME IInv, AtTopLevel, ident < MaxIdent, ident' = ident + 1, ForgetGrants,
         UNCHANGED <<allowed, open, custom, readable>>
  PROVE  /\ ident' \in 1 .. MaxIdent + 1 /\ grant_ptr' \in [Grants -> Address]
         /\ BuffersBelowMark' /\ GrantsIsolated' /\ EnteredFlagExact'
         /\ OneGrantPerDriver' /\ InactiveOutside' /\ HandlesPast'
<1>1. grant_ptr' = [g \in Grants |-> 0] BY DEF ForgetGrants
<1>2. ident \in Int /\ ident' \in 1 .. MaxIdent + 1 BY MemoryAssumption DEF IInv, TypeOK
<1>3. grant_ptr' \in [Grants -> Address] BY <1>1, MemoryAssumption DEF Address, W
<1>4. GrantsIsolated' /\ OneGrantPerDriver' /\ \A g \in Grants : ~IsAllocated(g)' /\ ~Entered(g)'
  BY <1>1, FreshFrame DEF IInv
<1>5. readable'.id # ident' BY <1>2 DEF IInv, TypeOK, HandlesPast
<1>6. BuffersBelowMark' BY <1>4, <1>5 DEF BuffersBelowMark
<1>7. EnteredFlagExact' /\ InactiveOutside'
  BY <1>4 DEF EnteredFlagExact, InactiveOutside, AtTopLevel
<1>8. HandlesPast' BY <1>2 DEF IInv, TypeOK, HandlesPast
<1> QED BY <1>2, <1>3, <1>4, <1>6, <1>7, <1>8

\* A restart that fails keeps the invariant.
LEMMA RestartFailsStep == ASSUME IInv, RestartFails PROVE IInv'
<1>1. /\ AtTopLevel /\ ident < MaxIdent /\ ident' = ident + 1 /\ ForgetGrants
      /\ UNCHANGED <<allowed, open, custom, readable>>
      /\ UNCHANGED <<app_break, kernel_memory_break, allow_high_water_mark, mpu_end>>
      /\ life' = "Inactive" /\ mpu_config' = FALSE
  BY DEF RestartFails
<1>2. TypeOK' BY Zenon, <1>1, RestartFrame DEF IInv, TypeOK
<1>3. LayoutOrdered' /\ KernelStructsProtected'
  BY <1>1 DEF IInv, LayoutOrdered, KernelStructsProtected, KernelStructs
<1> QED BY <1>1, <1>2, <1>3, RestartFrame DEF IInv

\* A restart keeps the invariant; this is where Aligned is needed.
LEMMA RestartStep == ASSUME Aligned, IInv, Restart PROVE IInv'
<1>1. /\ AtTopLevel /\ ident < MaxIdent /\ ident' = ident + 1 /\ ForgetGrants
      /\ UNCHANGED <<mpu_config, allowed, open, custom, readable>>
      /\ life' \in {"CredentialsApproved", "Inactive"}
      /\ app_break' = MemStart + MinApp /\ kernel_memory_break' = MemEnd - KernSize
      /\ allow_high_water_mark' = MemStart
      /\ mpu_end' \in Exposing(app_break', kernel_memory_break')
  BY DEF Restart
<1>2. kernel_memory_break' = KernelStructs BY <1>1, KernelStructsFacts
<1>3. mpu_end' \in Address /\ app_break' <= mpu_end' /\ mpu_end' <= kernel_memory_break'
  BY <1>1, ExposingFacts
<1>4. app_break' \in Address /\ kernel_memory_break' \in Address /\ allow_high_water_mark' \in Address
  BY <1>1, <1>2, KernelStructsFacts, MemoryAssumption DEF Address, W
<1>5. TypeOK' BY <1>1, <1>3, <1>4, RestartFrame DEF IInv, TypeOK
<1>6. LayoutOrdered' BY <1>1, <1>3, MemoryAssumption DEF LayoutOrdered
<1>7. KernelStructsProtected'
  BY <1>2, KernelStructsFacts DEF KernelStructsProtected, KernelStructs
<1> QED BY <1>1, <1>5, <1>6, <1>7, RestartFrame DEF IInv

\* Every step keeps the invariant.
LEMMA NextPreserves == ASSUME Aligned, IInv, [Next]_vars PROVE IInv'
<1>1. CASE Start BY <1>1, StartStep
<1>2. CASE \E a \in Addrs : brk(a) BY <1>2, BrkStep
<1>3. CASE \E d \in Drivers, r \in Ranges :
             ReadWriteAllow(d, r[1], r[2]) \/ ReadOnlyAllow(d, r[1], r[2])
  BY Zenon, <1>3, AllowStep DEF ReadWriteAllow, ReadOnlyAllow
<1>4. CASE \E r \in Ranges : UserspaceReadableAllow(r[1], r[2]) BY <1>4, ReadableStep
<1>5. CASE \E g \in Grants : AllocateGrant(g) \/ EnterGrant(g) \/ LeaveGrant(g)
  BY <1>5, AllocateGrantStep, EnterStep, LeaveStep
<1>6. CASE \E c \in Customs : AllocateCustomGrant(c[1], c[2]) BY <1>6, CustomStep
<1>7. CASE Terminate BY <1>7, TerminateStep
<1>8. CASE RestartFails BY <1>8, RestartFailsStep
<1>9. CASE Restart BY <1>9, RestartStep
<1>10. CASE UNCHANGED vars
  <2>1. UNCHANGED <<life, ident, app_break, kernel_memory_break, allow_high_water_mark, mpu_config,
                    mpu_end, grant_ptr, allowed, open, custom, readable>>
    BY <1>10 DEF vars, breaks
  <2>2. TypeOK' /\ LayoutOrdered' /\ HandlesPast' /\ InactiveOutside'
    BY <2>1 DEF IInv, TypeOK, LayoutOrdered, HandlesPast, InactiveOutside, Active, AtTopLevel
  <2>3. BuffersBelowMark' BY Zenon, <2>1 DEF IInv, BuffersBelowMark, BufferBelow, IsAllocated
  <2> QED BY <2>1, <2>2, <2>3, GrantsUntouched
<1> QED BY <1>1, <1>2, <1>3, <1>4, <1>5, <1>6, <1>7, <1>8, <1>9, <1>10 DEF Next

\* The invariant holds of every reachable state.
THEOREM Invariance == Aligned => (Spec => []IInv)
<1> SUFFICES ASSUME Aligned PROVE Spec => []IInv OBVIOUS
<1>1. Init => IInv BY InitEstablishes
<1>2. IInv /\ [Next]_vars => IInv' BY NextPreserves
<1> QED BY <1>1, <1>2, PTL DEF Spec

\* Every value stays in its type.
THEOREM TypeCorrect == Aligned => (Spec => []TypeOK)
<1>1. IInv => TypeOK BY DEF IInv
<1> QED BY <1>1, Invariance, PTL

\* Process memory, the MPU's region and kernel memory keep their order, through
\* every sequence of brk, allow, grant allocation, termination and restart.
THEOREM LayoutSafe == Aligned => (Spec => []LayoutOrdered)
<1>1. IInv => LayoutOrdered BY Zenon DEF IInv
<1> QED BY <1>1, Invariance, PTL

\* Every buffer a capsule can reach is memory its process may access: brk never
\* moves below one, and a restart leaves none behind.
THEOREM BuffersSafe == Aligned => (Spec => []BuffersAccessible)
<1>1. IInv => BuffersAccessible
  <2> SUFFICES ASSUME IInv PROVE BuffersAccessible OBVIOUS
  <2>1. /\ allow_high_water_mark \in Int /\ app_break \in Int /\ allow_high_water_mark <= app_break
        /\ \A g \in Grants : allowed[g].start \in Int /\ allowed[g].size \in Int
        /\ readable.start \in Int /\ readable.size \in Int
    BY DEF IInv, TypeOK, LayoutOrdered, Address
  <2> QED BY <2>1, BufferBelowMono DEF IInv, BuffersBelowMark, BuffersAccessible
<1> QED BY <1>1, Invariance, PTL

\* The allocations in the grant region overlap neither one another, nor process
\* memory, nor the kernel's structures, whatever sizes and alignments are asked
\* for and although the arithmetic wraps.
THEOREM GrantsSafe == Aligned => (Spec => []GrantsIsolated)
<1>1. IInv => GrantsIsolated BY DEF IInv
<1> QED BY <1>1, Invariance, PTL

\* The flag in the grant pointer is set exactly while one closure is inside.
THEOREM EntrySafe == Aligned => (Spec => []EnteredFlagExact)
<1>1. IInv => EnteredFlagExact BY DEF IInv
<1> QED BY <1>1, Invariance, PTL

\* A driver number leads to one grant.
THEOREM DriverSafe == Aligned => (Spec => []OneGrantPerDriver)
<1>1. IInv => OneGrantPerDriver BY DEF IInv
<1> QED BY <1>1, Invariance, PTL

\* Within one incarnation the mark only rises and the kernel break only falls.
THEOREM MarksSafe == Aligned => (Spec => MarksMoveOneWay)
<1> DEFINE A == ident' = ident => /\ allow_high_water_mark' >= allow_high_water_mark
                                  /\ kernel_memory_break' <= kernel_memory_break
<1>1. IInv /\ [Next]_vars => [A]_vars
  <2> SUFFICES ASSUME IInv, Next, ident' = ident
               PROVE  /\ allow_high_water_mark' >= allow_high_water_mark
                      /\ kernel_memory_break' <= kernel_memory_break
    BY DEF vars
  <2>1. allow_high_water_mark \in Int /\ kernel_memory_break \in Int /\ ident \in Int
    BY DEF IInv, TypeOK, Address
  <2>2. CASE Start \/ Terminate BY <2>1, <2>2 DEF Start, Terminate, breaks
  <2>3. CASE \E a \in Addrs : brk(a) BY <2>1, <2>3 DEF brk
  <2>4. ASSUME NEW d \in Drivers, NEW r \in Ranges, NEW rw \in BOOLEAN, Allow(d, r[1], r[2], rw)
        PROVE  /\ allow_high_water_mark' >= allow_high_water_mark
               /\ kernel_memory_break' <= kernel_memory_break
    <3>1. r[1] \in Address /\ r[2] \in Address BY MemoryAssumption DEF Address
    <3>2. RaisedMark(r[1], r[2]) \in Int /\ allow_high_water_mark <= RaisedMark(r[1], r[2])
      <4>1. Accepts(r[1], r[2], rw) BY <2>4 DEF Allow
      <4>2. RaisedMark(r[1], r[2]) \in Address /\ allow_high_water_mark <= RaisedMark(r[1], r[2])
        BY <3>1, <4>1, AcceptedBuffer DEF IInv
      <4> QED BY <4>2 DEF Address
    <3>3. kernel_memory_break' <= kernel_memory_break
      <4>1. \/ kernel_memory_break' = kernel_memory_break
            \/ \E g \in Grants : Allocate(g, Buffer(r[1], r[2])) \/ Allocate(g, Buffer(0, 0))
        BY <2>4 DEF Allow
      <4>2. ASSUME NEW g \in Grants, Allocate(g, Buffer(r[1], r[2])) \/ Allocate(g, Buffer(0, 0))
            PROVE  kernel_memory_break' <= kernel_memory_break
        BY Zenon, <4>2 DEF Allocate, Fits
      <4> QED BY <2>1, <4>1, <4>2
    <3>4. allow_high_water_mark' = RaisedMark(r[1], r[2]) BY <2>4 DEF Allow
    <3> QED BY <2>1, <3>2, <3>3, <3>4
  <2>5. ASSUME NEW r \in Ranges, UserspaceReadableAllow(r[1], r[2])
        PROVE  /\ allow_high_water_mark' >= allow_high_water_mark
               /\ kernel_memory_break' <= kernel_memory_break
    <3>1. r[1] \in Address /\ r[2] \in Address BY MemoryAssumption DEF Address
    <3>2. RaisedMark(r[1], r[2]) \in Int /\ allow_high_water_mark <= RaisedMark(r[1], r[2])
      <4>1. Accepts(r[1], r[2], TRUE) BY Zenon, <2>5 DEF UserspaceReadableAllow
      <4>2. RaisedMark(r[1], r[2]) \in Address /\ allow_high_water_mark <= RaisedMark(r[1], r[2])
        BY Zenon, <3>1, <4>1, AcceptedBuffer DEF IInv
      <4> QED BY <4>2 DEF Address
    <3> QED BY <2>1, <2>5, <3>2 DEF UserspaceReadableAllow
  <2>6. CASE \E g \in Grants : AllocateGrant(g) \/ EnterGrant(g) \/ LeaveGrant(g)
    <3>1. ASSUME NEW g \in Grants, AllocateGrant(g)
          PROVE  /\ allow_high_water_mark' = allow_high_water_mark
                 /\ kernel_memory_break' <= kernel_memory_break
      BY Zenon, <3>1 DEF AllocateGrant, Allocate, Fits
    <3>2. ASSUME NEW g \in Grants, EnterGrant(g) \/ LeaveGrant(g)
          PROVE  /\ allow_high_water_mark' = allow_high_water_mark
                 /\ kernel_memory_break' = kernel_memory_break
      BY <3>2 DEF EnterGrant, LeaveGrant, breaks
    <3> QED BY SMTT(30), <2>1, <2>6, <3>1, <3>2
  <2>7. CASE \E c \in Customs : AllocateCustomGrant(c[1], c[2])
    BY <2>1, <2>7 DEF AllocateCustomGrant, Fits
  <2>8. CASE RestartFails \/ Restart BY <2>1, <2>8 DEF RestartFails, Restart
  <2> QED
    BY Zenon, <2>2, <2>3, <2>4, <2>5, <2>6, <2>7, <2>8 DEF Next, ReadWriteAllow, ReadOnlyAllow
<1> QED BY <1>1, Invariance, PTL DEF Spec, MarksMoveOneWay

=============================================================================
