----------------------------- MODULE VirtualSpi -----------------------------
(***************************************************************************)
(* virtual_spi.rs: MuxSpiMaster and VirtualSpiMasterDevice.  A transfer    *)
(* that the controller refuses is left in the device as Done and reported  *)
(* from a deferred call.  Chip select, polarity, phase and rate are data,  *)
(* except that the controller may refuse them like the transfer itself.    *)
(***************************************************************************)
EXTENDS Mux

read_write_bytes(d) ==
  /\ ClientRuns /\ asked[d] < Buffers
  /\ operation[d] = "Idle"                        \* else BUSY
  /\ operation' = [operation EXCEPT ![d] = "Queued"]
  /\ buffer' = [buffer EXCEPT ![d] = TRUE]
  /\ asked' = [asked EXCEPT ![d] = @ + 1]
  /\ stack' = <<DoNextOp>> \o stack
  /\ UNCHANGED <<inflight, hardware, deferred, refused, queue>>

\* The device in flight, if any, is called back after the next operation has
\* been started.
\* Mutant: the callback first.
DoneCallbackFirst(d) == (IF d = None THEN <<>> ELSE <<Callback(d)>>) \o <<DoNextOp>>

Done(d) == <<DoNextOp>> \o (IF d = None THEN <<>> ELSE <<Callback(d)>>)

\* The controller finishes a transfer.
read_write_done ==
  /\ stack = <<>> /\ hardware # None
  /\ hardware' = None
  /\ inflight' = None
  /\ stack' = Done(inflight)
  /\ queue' = Pending
  /\ UNCHANGED <<operation, buffer, deferred, asked, refused>>

\* do_next_op: nothing waits, or a transfer is under way.
NextNothing ==
  /\ Running("next")
  /\ IF inflight = None THEN Pending = {}
                        ELSE operation[inflight] # "Done" \/ ~buffer[inflight]
  /\ Calls(<<>>)
  /\ UNCHANGED <<operation, buffer, inflight, hardware, deferred, asked, refused, queue>>

NextStart ==
  /\ Running("next") /\ inflight = None /\ Pending # {}
  /\ operation[FirstNode] = "Queued"
  /\ operation' = [operation EXCEPT ![FirstNode] = "Idle"]
  /\ buffer' = [buffer EXCEPT ![FirstNode] = FALSE]
  /\ inflight' = FirstNode /\ hardware' = FirstNode
  /\ queue' = {}
  /\ Calls(<<>>)
  /\ UNCHANGED <<deferred, asked, refused>>

\* Mutant: the refused transfer is not in flight.
NextRefusedFree ==
  /\ Running("next") /\ inflight = None /\ Pending # {}
  /\ operation[FirstNode] = "Queued"
  /\ operation' = [operation EXCEPT ![FirstNode] = "Done"]
  /\ deferred' = TRUE /\ refused' = TRUE
  /\ Calls(<<>>)
  /\ UNCHANGED <<buffer, inflight, hardware, asked, queue>>

\* Mutant: no deferred call.
NextRefusedSilent ==
  /\ Running("next") /\ inflight = None /\ Pending # {}
  /\ operation[FirstNode] = "Queued"
  /\ operation' = [operation EXCEPT ![FirstNode] = "Done"]
  /\ inflight' = FirstNode
  /\ refused' = TRUE
  /\ Calls(<<>>)
  /\ UNCHANGED <<buffer, hardware, deferred, asked, queue>>

\* The controller refuses the configuration or the transfer.
NextRefused ==
  /\ Running("next") /\ inflight = None /\ Pending # {}
  /\ operation[FirstNode] = "Queued"
  /\ operation' = [operation EXCEPT ![FirstNode] = "Done"]
  /\ inflight' = FirstNode
  /\ deferred' = TRUE /\ refused' = TRUE
  /\ Calls(<<>>)
  /\ UNCHANGED <<buffer, hardware, asked, queue>>

\* A Done that is no longer in flight: its buffer, if it were still there, goes
\* to read_write_done() with nobody in flight.
NextStale ==
  /\ Running("next") /\ inflight = None /\ Pending # {}
  /\ operation[FirstNode] = "Done"
  /\ operation' = [operation EXCEPT ![FirstNode] = "Idle"]
  /\ buffer' = [buffer EXCEPT ![FirstNode] = FALSE]
  /\ Calls(IF buffer[FirstNode] THEN Done(None) ELSE <<>>)
  /\ UNCHANGED <<inflight, hardware, deferred, asked, refused, queue>>

\* The refusal is reported; the operation stays Done.
NextReport ==
  /\ Running("next") /\ inflight # None
  /\ operation[inflight] = "Done" /\ buffer[inflight]
  /\ buffer' = [buffer EXCEPT ![inflight] = FALSE]
  /\ inflight' = None
  /\ Calls(Done(inflight))
  /\ UNCHANGED <<operation, hardware, deferred, asked, refused, queue>>

do_next_op == NextNothing \/ NextStart \/ NextRefused \/ NextStale \/ NextReport

Step == do_next_op \/ ClientReturns \/ handle_deferred_call \/ read_write_done
        \/ \E d \in Devices : CallClient(d)
Next == Step \/ \E d \in Devices : read_write_bytes(d)

=============================================================================
