------------------------------- MODULE TicKV -------------------------------
(***************************************************************************)
(* The key-value store on flash (libraries/tickv): TicKV's operations on   *)
(* regions of objects and AsyncTicKV's steps between flash operations,     *)
(* with power lost at any moment. The caller is the one async_ops.rs       *)
(* documents: one operation at a time, continue_operation after each read  *)
(* or erase the operation asked for, until it is done.                     *)
(*                                                                         *)
(* A region is the sequence of its objects; the rest of it is erased. An   *)
(* object's value and check sum are abstracted to the value it was written *)
(* with and whether all of it was written.                                 *)
(***************************************************************************)
EXTENDS Integers, Sequences

CONSTANTS NumRegions,     \* flash_size / S
          S,              \* the size of a region
          HEADER_LENGTH, CHECK_SUM_LEN,
          Keys,           \* the (hashed) keys of the users
          MainKey,        \* the key that marks the flash as initialised
          Home,           \* get_region: key -> region
          Values,         \* the values of the users
          Length,         \* value -> its length
          NoValue,        \* the value of the main key, and of a failed get
          Orphan,         \* the key of an object whose hash was not written
          Foreign         \* the key of data in another format

Regions == 0..(NumRegions - 1)
NoRegion == NumRegions

ASSUME FlashShape ==
    /\ {NumRegions, S, HEADER_LENGTH, CHECK_SUM_LEN} \subseteq Nat \ {0}
    /\ Home \in [Keys \cup {MainKey} -> Regions]
    /\ Length \in [Values \cup {NoValue} -> Nat] /\ Length[NoValue] = 0
    /\ HEADER_LENGTH + CHECK_SUM_LEN < S
    /\ MainKey \notin Keys /\ NoValue \notin Values
    /\ Orphan # Foreign /\ {Orphan, Foreign} \cap (Keys \cup {MainKey}) = {}

VARIABLES flash,        \* region -> its objects
          device,       \* the flash operation in progress
          state,        \* State: the operation, its phase and region, with
                        \* AsyncTicKV's key and value, read only during it
          read_buffer,  \* whether the library holds its buffer
          initialised,  \* the caller initialised the store since power came
          reply,        \* how the last operation ended
          stored        \* observed: key -> values whose append has completed
                        \* and that nobody has asked to invalidate since

vars == <<flash, device, state, read_buffer, initialised, reply, stored>>

Objects == [key : Keys \cup {MainKey, Orphan, Foreign}, value : Values \cup {NoValue},
            at : 0..(S - 1), len : 1..S, valid : BOOLEAN, whole : BOOLEAN]

None == [op |-> "None", phase |-> "None", region |-> NoRegion,
         key |-> MainKey, value |-> NoValue]
Idle == [does |-> "nothing", region |-> NoRegion]
NoReply == [op |-> "None", key |-> MainKey, code |-> "None", value |-> NoValue]

-----------------------------------------------------------------------------
(* Regions *)

\* Where the walk over a region stands: at an object, or at the erased rest.
Places(data) == 1 .. (Len(data) + 1)

First(places, Stops(_)) == CHOOSE i \in places : Stops(i) /\ \A j \in 1 .. (i - 1) : ~Stops(j)

\* Offset of the i-th object, or of the erased rest of the region.
Offset(data, i) == IF i <= Len(data) THEN data[i].at
                   ELSE IF data = <<>> THEN 0
                   ELSE data[Len(data)].at + data[Len(data)].len

Distance(offset) == IF offset > 0 THEN 2 * offset - 1 ELSE -(2 * offset)

\* Mutant: after the last region the search starts again.
increment_region_round(k, r) == (r + 1) % NumRegions

\* The region after r in the search from k's own: the next one, the one before,
\* the one after the next, and so on.
increment_region_offset(k, r) ==
    LET Rank(s) == Distance(s - Home[k])
        later == {s \in Regions : Rank(s) > Rank(r)}
    IN  IF later = {} THEN NoRegion
        ELSE CHOOSE s \in later : \A t \in later : Rank(s) <= Rank(t)

\* Where the walk over the objects of a region ends: at the key, at another
\* format, at the erased rest, or where no header fits any more. After the last
\* of these the search is not continued, nor after an empty region.
find_key_offset(k, data) ==
    LET Ends(i) == Offset(data, i) + HEADER_LENGTH >= S
        Stops(i) == \/ Ends(i)
                    \/ i = Len(data) + 1
                    \/ data[i].key = Foreign
                    \/ data[i].valid /\ data[i].key = k
        i == First(Places(data), Stops)
    IN  IF Ends(i) THEN [at |-> 0, cont |-> FALSE, code |-> "KeyNotFound"]
        ELSE IF i = Len(data) + 1
             THEN [at |-> 0, cont |-> i > 1, code |-> "KeyNotFound"]
        ELSE IF data[i].key = Foreign
             THEN [at |-> 0, cont |-> FALSE, code |-> "UnsupportedVersion"]
        ELSE [at |-> i, cont |-> FALSE, code |-> "Ok"]

\* What an operation does next with the region it has read: go on to another
\* region, start a write, or end.
Goto(r) == [does |-> "read", region |-> r]
End(code) == [does |-> "end", code |-> code]
Erase(r) == [does |-> "erase", region |-> r]

Elsewhere(k, r, code) ==
    LET next == increment_region_offset(k, r)
    IN  IF next = NoRegion THEN End(code) ELSE Goto(next)

Missed(k, r, found) == IF found.cont THEN Elsewhere(k, r, found.code) ELSE End(found.code)

\* append_key with region r in the buffer. "Lost" is the early return that
\* leaves without the buffer: the object but not its check sum fits.
AppendIn(k, v, r) ==
    LET data == flash[r]
        package_length == HEADER_LENGTH + Length[v]
        Full(i) == Offset(data, i) + package_length >= S
        Stops(i) == Full(i) \/ i = Len(data) + 1 \/ data[i].key = Foreign
        i == First(Places(data), Stops)
    IN  IF find_key_offset(k, data).code = "Ok" THEN End("KeyAlreadyExists")
        ELSE IF Full(i) THEN Elsewhere(k, r, "FlashFull")
        ELSE IF i <= Len(data) THEN End("UnsupportedVersion")
        ELSE IF Offset(data, i) + package_length + CHECK_SUM_LEN > S THEN End("Lost")
        ELSE [does   |-> "write",
              region |-> r,
              object |-> [key |-> k, value |-> v, at |-> Offset(data, i),
                          len |-> package_length + CHECK_SUM_LEN,
                          valid |-> TRUE, whole |-> TRUE]]

\* Mutant: the check sum is not compared.
GetUnchecked(k, r) ==
    LET found == find_key_offset(k, flash[r])
    IN  IF found.code # "Ok" THEN Missed(k, r, found) ELSE End("Ok")

\* get_key with region r in the buffer; the caller's buffer is large enough.
GetIn(k, r) ==
    LET found == find_key_offset(k, flash[r])
    IN  IF found.code # "Ok" THEN Missed(k, r, found)
        ELSE IF flash[r][found.at].whole THEN End("Ok")
        ELSE End("InvalidCheckSum")

GetValue(k, r) == flash[r][find_key_offset(k, flash[r]).at].value

\* invalidate_key with region r in the buffer.
InvalidateIn(k, r) ==
    LET found == find_key_offset(k, flash[r])
    IN  IF found.code # "Ok" THEN Missed(k, r, found)
        ELSE [does |-> "clear", region |-> r, at |-> found.at]

\* Mutant: one deleted object is enough.
ErasableSome(data) == \E i \in DOMAIN data : ~data[i].valid

\* garbage_collect_region, the region in the buffer: only a region all of whose
\* objects are marked deleted is erased.
Erasable(data) == data # <<>> /\ \A i \in DOMAIN data : ~data[i].valid

-----------------------------------------------------------------------------
(* Ending and continuing an operation *)

Finish(code, v) ==
    /\ state' = None
    /\ device' = Idle
    /\ read_buffer' = (code # "Lost")
    /\ reply' = [op |-> state.op, key |-> state.key, code |-> code, value |-> v]
    /\ initialised' = (initialised \/ state.op = "Init")

\* A flash operation is started for the operation, which stays at the phase. A
\* queued write ends it for the library; the caller waits for the flash.
Ask(d, phase) ==
    /\ device' = d
    /\ state' = [state EXCEPT !.phase = phase, !.region = d.region]
    /\ UNCHANGED <<read_buffer, initialised, reply>>

\* What continue_operation makes of a step's outcome.
Follow(outcome, phase, v) ==
    \E out \in {outcome} :
       \/ out.does = "end" /\ Finish(out.code, v)
       \/ out.does = "read" /\ Ask(out, phase)
       \/ out.does \in {"write", "clear"} /\ Ask(out, "Queued")

\* garbage_collect's loop, from region r on.
CollectFrom(r) ==
    IF r \in Regions THEN Ask(Goto(r), "ReadRegion") ELSE Finish("Ok", NoValue)

\* initialise's erasure, from region r on; then it appends the main key.
EraseFrom(r) ==
    IF r \in Regions THEN Ask(Erase(r), "EraseRegion")
    ELSE Ask(Goto(Home[MainKey]), "AppendKeyReadRegion")

-----------------------------------------------------------------------------
(* The operations. Each begins by asking for a region; without the buffer  *)
(* it panics.                                                              *)

Begin(op, phase, k, v, r) ==
    /\ state = None
    /\ IF read_buffer
       THEN /\ state' = [op |-> op, phase |-> phase, region |-> r, key |-> k, value |-> v]
            /\ device' = Goto(r)
       ELSE /\ state' = [None EXCEPT !.op = "Panic"]
            /\ UNCHANGED device
    /\ reply' = NoReply
    /\ UNCHANGED <<flash, read_buffer, initialised>>

initialise ==
    /\ ~initialised
    /\ Begin("Init", "GetKeyReadRegion", MainKey, NoValue, Home[MainKey])
    /\ UNCHANGED stored

append_key(k, v) ==
    /\ initialised
    /\ Begin("AppendKey", "ReadRegion", k, v, Home[k])
    /\ UNCHANGED stored

get_key(k) ==
    /\ initialised
    /\ Begin("GetKey", "ReadRegion", k, NoValue, Home[k])
    /\ UNCHANGED stored

invalidate_key(k) ==
    /\ initialised
    /\ Begin("InvalidateKey", "ReadRegion", k, NoValue, Home[k])
    /\ stored' = [stored EXCEPT ![k] = {}]

garbage_collect ==
    /\ initialised
    /\ Begin("GarbageCollect", "ReadRegion", MainKey, NoValue, 0)
    /\ UNCHANGED stored

-----------------------------------------------------------------------------
(* The flash completes: set_read_buffer, continue_operation *)

InitRead(k, r) ==
    \E out \in {GetIn(k, r)} :
       IF out.does = "read" \/ out = End("Ok")
       THEN Follow(out, "GetKeyReadRegion", NoValue)
       ELSE EraseFrom(0)

ReadComplete ==
    LET k == state.key
        r == state.region
    IN
    /\ device.does = "read"
    /\ \/ /\ state.op = "AppendKey"
          /\ Follow(AppendIn(k, state.value, r), "ReadRegion", NoValue)
       \/ /\ state.op = "GetKey"
          /\ Follow(GetIn(k, r), "ReadRegion",
                    IF GetIn(k, r) = End("Ok") THEN GetValue(k, r) ELSE NoValue)
       \/ /\ state.op = "InvalidateKey"
          /\ Follow(InvalidateIn(k, r), "ReadRegion", NoValue)
       \/ /\ state.op = "GarbageCollect"
          /\ IF Erasable(flash[r]) THEN Ask(Erase(r), "EraseRegion") ELSE CollectFrom(r + 1)
       \/ /\ state.op = "Init" /\ state.phase = "GetKeyReadRegion"
          /\ InitRead(k, r)
       \/ /\ state.op = "Init" /\ state.phase = "AppendKeyReadRegion"
          /\ Follow(AppendIn(k, NoValue, r), "AppendKeyReadRegion", NoValue)
    /\ UNCHANGED <<flash, stored>>

Erased(r) == [flash EXCEPT ![r] = <<>>]
Cleared(r, i) == [flash EXCEPT ![r][i].valid = FALSE]
Written(r, o) == [flash EXCEPT ![r] = Append(@, o)]

EraseComplete ==
    /\ device.does = "erase"
    /\ flash' = Erased(device.region)
    /\ IF state.op = "Init" THEN EraseFrom(device.region + 1)
                            ELSE CollectFrom(device.region + 1)
    /\ UNCHANGED stored

WriteComplete ==
    /\ device.does = "write"
    /\ flash' = Written(device.region, device.object)
    /\ stored' = IF state.op = "Init" THEN stored
                 ELSE [stored EXCEPT ![state.key] = @ \cup {state.value}]
    /\ Finish("Ok", NoValue)

ClearComplete ==
    /\ device.does = "clear"
    /\ flash' = Cleared(device.region, device.at)
    /\ Finish("Ok", NoValue)
    /\ UNCHANGED stored

-----------------------------------------------------------------------------
(* Power *)

\* An object whose write was cut off, its bytes written in order: the value or
\* the check sum is incomplete, or the hash, or the length (read as longer).
CutOff(o) ==
    {[o EXCEPT !.value = NoValue, !.whole = FALSE]} \cup
    {[o EXCEPT !.key = Orphan, !.value = NoValue, !.whole = FALSE, !.len = l] :
        l \in {o.len, o.len + 1, S}}

\* The flash after power is lost: the operation in progress happened, did not,
\* or was cut off. An erase and the clearing of one bit are not cut off.
AfterPowerLoss ==
    {flash} \cup
    CASE device.does = "erase" -> {Erased(device.region)}
      [] device.does = "clear" -> {Cleared(device.region, device.at)}
      [] device.does = "write" -> {Written(device.region, o) :
                                      o \in CutOff(device.object) \cup {device.object}}
      [] OTHER -> {}

PowerLoss ==
    /\ flash' \in AfterPowerLoss
    /\ device' = Idle
    /\ state' = None
    /\ read_buffer' = TRUE
    /\ initialised' = FALSE
    /\ reply' = NoReply
    /\ UNCHANGED stored

-----------------------------------------------------------------------------
\* The flash is new, or holds data of another format somewhere.
Init ==
    /\ flash \in {[r \in Regions |-> IF r = f THEN <<[key |-> Foreign, value |-> NoValue,
                    at |-> 0, len |-> S, valid |-> TRUE, whole |-> TRUE]>> ELSE <<>>] :
                    f \in Regions \cup {NoRegion}}
    /\ device = Idle
    /\ state = None
    /\ read_buffer = TRUE
    /\ initialised = FALSE
    /\ reply = NoReply
    /\ stored = [k \in Keys |-> {}]

Complete == ReadComplete \/ EraseComplete \/ WriteComplete \/ ClearComplete

Next ==
    \/ initialise
    \/ \E k \in Keys : \/ \E v \in Values : append_key(k, v)
                       \/ get_key(k)
                       \/ invalidate_key(k)
    \/ garbage_collect
    \/ Complete
    \/ PowerLoss

\* The flash completes what it is asked to do.
Spec == Init /\ [][Next]_vars /\ WF_vars(Complete)

-----------------------------------------------------------------------------
Operations == {"None", "Panic", "Init", "AppendKey", "GetKey", "InvalidateKey", "GarbageCollect"}
Phases == {"None", "GetKeyReadRegion", "EraseRegion", "AppendKeyReadRegion", "ReadRegion", "Queued"}

TypeOK ==
    /\ \A r \in Regions : \A i \in DOMAIN flash[r] :
          LET o == flash[r][i] IN o \in Objects /\ (o.whole => o.at + o.len <= S)
    /\ device.does \in {"nothing", "read", "erase", "write", "clear"}
    /\ device.region \in Regions \cup {NoRegion}
    /\ state \in [op : Operations, phase : Phases, region : Regions \cup {NoRegion},
                  key : Keys \cup {MainKey}, value : Values \cup {NoValue}]
    /\ {read_buffer, initialised} \subseteq BOOLEAN
    /\ stored \in [Keys -> SUBSET Values]

\* The regions searched for k before r.
Before(k, r) == {s \in Regions : Distance(s - Home[k]) < Distance(r - Home[k])}

Holds(r, k, v) == \E i \in DOMAIN flash[r] : /\ flash[r][i].key = k /\ flash[r][i].value = v
                                             /\ flash[r][i].valid /\ flash[r][i].whole

\* "Once a transaction has completed and been committed to flash it will remain
\* there": an appended value that nobody asked to invalidate is in the flash,
\* whole and not marked deleted, whatever was collected, cut off or initialised
\* again since; and no region holds more than its size.
Durable == TypeOK /\ \A k \in Keys : \A v \in stored[k] : \E r \in Regions : Holds(r, k, v)

\* A get that succeeds returns a value that was appended for its key, never what
\* a write that was cut off left behind.
GetsWholeValues ==
    reply.op = "GetKey" /\ reply.code = "Ok" =>
        reply.value \in Values /\ \E r \in Regions : Holds(r, reply.key, reply.value)

\* What SPEC.md says of a search: it goes on until all regions are searched, the
\* key is found, or a region is empty.  So a get misses a stored key only when a
\* region that is searched before the key's is empty; stated for a flash in
\* which no write was ever cut off.
FoundUnlessEmpty ==
    /\ reply.op = "GetKey" /\ reply.code = "KeyNotFound"
    /\ \A r \in Regions : \A i \in DOMAIN flash[r] : flash[r][i].whole
    =>
        \A v \in stored[reply.key] : \A r \in Regions :
            Holds(r, reply.key, v) => \E s \in Before(reply.key, r) : flash[s] = <<>>

\* Every operation ends, through as many regions as it must visit.
OperationsEnd == state.op \in Operations \ {"None", "Panic"} ~> state = None
=============================================================================
