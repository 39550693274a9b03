----------------------------- MODULE VirtualRng -----------------------------
(***************************************************************************)
(* virtual_rng.rs: MuxRngMaster and VirtualRngMasterDevice.  A client waits*)
(* for randomness, or cancels, before it asks again.                       *)
(***************************************************************************)
EXTENDS Mux

VARIABLE forgot   \* a client asked for more in its callback, or cancelled the
                  \* request in flight: the mux does not know who is in flight
vars == <<mux, forgot>>

\* Starting the request of n, with the slots as in ops.  The generator may
\* refuse; then the request is dropped.
Started(n, ops) ==
  /\ operation' = [ops EXCEPT ![n] = "Idle"]
  /\ \/ hardware' = n /\ inflight' = n /\ UNCHANGED refused
     \/ refused' = TRUE /\ UNCHANGED <<hardware, inflight>>

\* get() hands do_next_op()'s result to the caller, whoever's request it
\* started; a caller that is refused has not asked.
get(d) ==
  /\ ClientRuns /\ asked[d] = 0
  /\ LET ops == [operation EXCEPT ![d] = "Get"] IN
     \/ /\ inflight # None
        /\ operation' = ops
        /\ UNCHANGED <<hardware, inflight, refused>>
     \/ inflight = None /\ Started(Min(Pending \cup {d}), ops)
  /\ asked' = [asked EXCEPT ![d] = IF inflight' = None THEN 0 ELSE 1]
  /\ UNCHANGED <<buffer, deferred, stack, queue, forgot>>

\* The mux keeps the device in flight when the generator cancels its request.
\* The generator may also fail to, and call back all the same.
cancel(d) ==
  /\ ClientRuns /\ asked[d] = 1
  /\ operation' = [operation EXCEPT ![d] = "Idle"]
  /\ \/ /\ inflight = d /\ forgot' = TRUE
        /\ hardware' = None /\ asked' = [asked EXCEPT ![d] = 0]
     \/ inflight = d /\ UNCHANGED <<hardware, asked, forgot>>
     \/ inflight # d /\ asked' = [asked EXCEPT ![d] = 0] /\ UNCHANGED <<hardware, forgot>>
  /\ UNCHANGED <<buffer, inflight, deferred, stack, refused, queue>>

Returned(d) == [do |-> "returned", dev |-> d]

randomness_available ==
  /\ stack = <<>> /\ hardware # None
  /\ hardware' = None
  /\ inflight' = None
  /\ stack' = IF inflight = None THEN <<>> ELSE <<Callback(inflight), Returned(inflight)>>
  /\ UNCHANGED <<operation, buffer, deferred, asked, refused, queue, forgot>>

\* Once the mux has forgotten whom it serves, a client may be called that has
\* not asked.
CallRngClient(d) ==
  /\ Running("call") /\ Head(stack).dev = d
  /\ asked' = [asked EXCEPT ![d] = 0]
  /\ Calls(<<[do |-> "client", dev |-> d]>>)
  /\ UNCHANGED <<operation, buffer, inflight, hardware, deferred, refused, queue, forgot>>

\* The client is done, or wants to be called again when there is more: the
\* generator goes on, but the device is no longer in flight.
ClientAnswers(d) ==
  /\ Running("returned") /\ Head(stack).dev = d
  /\ \/ /\ Calls(<<DoNextOp>>)
        /\ UNCHANGED <<hardware, asked, forgot>>
     \/ /\ asked[d] = 0
        /\ asked' = [asked EXCEPT ![d] = 1] /\ forgot' = TRUE
        /\ hardware' = IF hardware = None THEN d ELSE hardware
        /\ Calls(<<>>)
  /\ UNCHANGED <<operation, buffer, inflight, deferred, refused, queue>>

NextNothing ==
  /\ Running("next") /\ (inflight # None \/ Pending = {})
  /\ Calls(<<>>)
  /\ UNCHANGED <<operation, buffer, inflight, hardware, deferred, asked, refused, queue, forgot>>

NextStart ==
  /\ Running("next") /\ inflight = None /\ Pending # {}
  /\ Started(FirstNode, operation)
  /\ Calls(<<>>)
  /\ UNCHANGED <<buffer, deferred, asked, queue, forgot>>

Step == NextNothing \/ NextStart \/ randomness_available
        \/ (\E d \in Devices : CallRngClient(d) \/ ClientAnswers(d))
        \/ (ClientReturns /\ UNCHANGED forgot)
Next == Step \/ \E d \in Devices : get(d) \/ cancel(d)

=============================================================================
