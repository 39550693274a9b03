----------------------------- MODULE VirtualAdc -----------------------------
(***************************************************************************)
(* virtual_adc.rs: MuxAdc and AdcDevice.  A sample answers every device on *)
(* its channel that has asked by the time its turn comes; a request stays  *)
(* in its slot while it is in flight.  As in the repository, a client      *)
(* waits for a sample or stops sampling before it asks again.              *)
(***************************************************************************)
EXTENDS Mux

CONSTANT SharedChannel   \* the devices on one channel; every other has its own

SameChannel(d, e) == d = e \/ {d, e} \subseteq SharedChannel

sample(d) ==
  /\ ClientRuns /\ asked[d] = 0
  /\ operation' = [operation EXCEPT ![d] = "Sample"]
  /\ asked' = [asked EXCEPT ![d] = 1]
  /\ stack' = <<DoNextOp>> \o stack
  /\ UNCHANGED <<buffer, inflight, hardware, deferred, refused, queue>>

stop_sampling(d) ==
  /\ ClientRuns /\ asked[d] = 1
  /\ operation' = [operation EXCEPT ![d] = "Idle"]
  /\ asked' = [asked EXCEPT ![d] = 0]
  /\ stack' = <<DoNextOp>> \o stack
  /\ UNCHANGED <<buffer, inflight, hardware, deferred, refused, queue>>

Visit(d) == [do |-> "visit", dev |-> d]

\* The devices on the channel of the one in flight, in the order of the list.
Visits == [i \in 1 .. N |-> Visit(i)]

sample_ready ==
  /\ stack = <<>> /\ hardware # None
  /\ hardware' = None
  /\ inflight' = None
  /\ stack' = SelectSeq(Visits, LAMBDA f : inflight # None /\ SameChannel(f.dev, inflight)) \o <<DoNextOp>>
  /\ queue' = Pending
  /\ UNCHANGED <<operation, buffer, deferred, asked, refused>>

\* Its request is taken before its client is called.
VisitNode(d) ==
  /\ Running("visit") /\ Head(stack).dev = d
  /\ operation' = [operation EXCEPT ![d] = "Idle"]
  /\ Calls(IF operation[d] = "Idle" THEN <<>> ELSE <<Callback(d)>>)
  /\ UNCHANGED <<buffer, inflight, hardware, deferred, asked, refused, queue>>

NextNothing ==
  /\ Running("next") /\ (inflight # None \/ Pending = {})
  /\ Calls(<<>>)
  /\ UNCHANGED <<operation, buffer, inflight, hardware, deferred, asked, refused, queue>>

\* The device is in flight whatever the converter says.
NextStart ==
  /\ Running("next") /\ inflight = None /\ Pending # {}
  /\ inflight' = FirstNode
  /\ \/ hardware' = FirstNode /\ UNCHANGED refused
     \/ refused' = TRUE /\ UNCHANGED hardware
  /\ Calls(<<>>)
  /\ UNCHANGED <<operation, buffer, deferred, asked, queue>>

Step == NextNothing \/ NextStart \/ ClientReturns \/ sample_ready
        \/ \E d \in Devices : VisitNode(d) \/ CallClient(d)
Next == Step \/ \E d \in Devices : sample(d) \/ stop_sampling(d)

\* The places in which a request can be.
Waiting(d) == (IF operation[d] = "Idle" THEN 0 ELSE 1)
              + Len(SelectSeq(stack, LAMBDA f : f = Callback(d)))

=============================================================================
