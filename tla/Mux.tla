-------------------------------- MODULE Mux ---------------------------------
(***************************************************************************)
(* What the virtualizers of capsules/core/src/virtualizers have in common: *)
(* a mux owns one peripheral and a list of virtual devices, each with a    *)
(* slot for one request, starts one request at a time and hands the answer *)
(* to the client of the device in flight.                                  *)
(*                                                                         *)
(* The kernel is single-threaded, but calls nest: a completion calls a     *)
(* client, which may ask for something again before the mux goes on.  The  *)
(* calls still to be made are kept in stack, innermost first; interrupts   *)
(* and deferred calls are handled only when it is empty.                   *)
(***************************************************************************)
EXTENDS Naturals, Sequences, FiniteSets, FiniteSetsExt

CONSTANTS
  N,           \* number of devices, in the order of the mux's list
  Buffers      \* buffers a client has: requests it can have outstanding

VARIABLES
  operation,   \* [Devices -> Operations] the request in the device's slot
  buffer,      \* [Devices -> BOOLEAN] whether the device holds a client's buffer
  inflight,    \* the device in flight, or None
  hardware,    \* the device whose request the peripheral executes, or None
  deferred,    \* whether the mux's deferred call is pending
  stack,       \* the calls to be made before the kernel can do anything else
  asked,       \* [Devices -> Nat] requests accepted and not yet answered
  refused,     \* whether the peripheral has ever refused to start a request
  queue        \* the devices that had a request when the last one completed

mux == <<operation, buffer, inflight, hardware, deferred, stack, asked, refused, queue>>

Devices == 1 .. N
None == 0
Operations == {"Idle", "Queued", "Erase", "Done", "Sample", "Get", "Simple", "Stop"}

\* do_next_op() is to be called; the client of dev is to be called back; the
\* client of dev is running; the ADC mux looks at dev; what the client of dev
\* answers the RNG mux is to be handled.
Frame == [do : {"next", "call", "client", "visit", "returned"}, dev : Devices \cup {None}]
DoNextOp == [do |-> "next", dev |-> None]
Callback(d) == [do |-> "call", dev |-> d]

MuxInit ==
  /\ operation = [d \in Devices |-> "Idle"] /\ buffer = [d \in Devices |-> FALSE]
  /\ inflight = None /\ hardware = None /\ deferred = FALSE /\ stack = <<>>
  /\ asked = [d \in Devices |-> 0] /\ refused = FALSE /\ queue = {}

Running(f) == stack # <<>> /\ Head(stack).do = f

\* A client can call when the kernel runs it: from its own event, or from a
\* callback.
ClientRuns == stack = <<>> \/ Running("client")

Pending == {d \in Devices : operation[d] # "Idle"}

\* Mutant: the last device of the list.
LastNode == Max(Pending)

\* The device that do_next_op() finds: the first of the list.
FirstNode == Min(Pending)

\* The call that has been made is replaced by the calls it makes.
Calls(fs) == stack' = fs \o Tail(stack)

\* A client is called back with its buffer, and may make requests before it
\* returns.
CallClient(d) ==
  /\ Running("call") /\ Head(stack).dev = d
  /\ asked' = [asked EXCEPT ![d] = @ - 1]
  /\ Calls(<<[do |-> "client", dev |-> d]>>)
  /\ UNCHANGED <<operation, buffer, inflight, hardware, deferred, refused, queue>>

ClientReturns ==
  /\ Running("client")
  /\ Calls(<<>>)
  /\ UNCHANGED <<operation, buffer, inflight, hardware, deferred, asked, refused, queue>>

handle_deferred_call ==
  /\ stack = <<>> /\ deferred
  /\ deferred' = FALSE
  /\ stack' = <<DoNextOp>>
  /\ UNCHANGED <<operation, buffer, inflight, hardware, asked, refused, queue>>

-----------------------------------------------------------------------------
MuxTypeOK ==
  /\ operation \in [Devices -> Operations] /\ buffer \in [Devices -> BOOLEAN]
  /\ inflight \in Devices \cup {None} /\ hardware \in Devices \cup {None}
  /\ deferred \in BOOLEAN /\ refused \in BOOLEAN /\ queue \subseteq Devices
  /\ stack \in Seq(Frame) /\ Len(stack) <= 2 * N + 2
  /\ asked \in [Devices -> 0 .. Buffers]

\* The places in which a request of d can be: the device, the peripheral, or a
\* callback that is about to be made.
Held(d) ==
  (IF buffer[d] \/ operation[d] \in {"Erase", "Get"} THEN 1 ELSE 0)
  + (IF hardware = d THEN 1 ELSE 0)
  + Len(SelectSeq(stack, LAMBDA f : f = Callback(d)))

Accounted == \A d \in Devices : asked[d] = Held(d)

\* Nothing is going to happen by itself.
Quiet == stack = <<>> /\ hardware = None /\ ~deferred

=============================================================================
