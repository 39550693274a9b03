--------------------------- MODULE VirtualUartTx ----------------------------
(***************************************************************************)
(* The transmit half of virtual_uart.rs: MuxUart and UartDevice.  Requests *)
(* are started from a deferred call, one call for any number of requests.  *)
(* transmit_word(), which no caller in the repository uses, is left out.   *)
(***************************************************************************)
EXTENDS Mux

VARIABLE transmitting   \* [Devices -> BOOLEAN]

vars == <<mux, transmitting>>

Init == MuxInit /\ transmitting = [d \in Devices |-> FALSE]

transmit_buffer(d) ==
  /\ ClientRuns /\ asked[d] < Buffers
  /\ ~transmitting[d]                             \* else BUSY
  /\ transmitting' = [transmitting EXCEPT ![d] = TRUE]
  /\ operation' = [operation EXCEPT ![d] = "Queued"]
  /\ buffer' = [buffer EXCEPT ![d] = TRUE]
  /\ asked' = [asked EXCEPT ![d] = @ + 1]
  /\ deferred' = TRUE                             \* do_next_op_async
  /\ UNCHANGED <<inflight, hardware, stack, refused, queue>>

\* Mutant: the next operation is not started after the callback.
transmitted_buffer_only ==
  /\ stack = <<>> /\ hardware # None
  /\ hardware' = None /\ inflight' = None
  /\ stack' = IF inflight = None THEN <<>> ELSE <<Callback(inflight)>>
  /\ queue' = Pending
  /\ UNCHANGED <<operation, buffer, deferred, asked, refused, transmitting>>

transmitted_buffer ==
  /\ stack = <<>> /\ hardware # None
  /\ hardware' = None /\ inflight' = None
  /\ stack' = (IF inflight = None THEN <<>> ELSE <<Callback(inflight)>>) \o <<DoNextOp>>
  /\ queue' = Pending
  /\ UNCHANGED <<operation, buffer, deferred, asked, refused, transmitting>>

\* The device is free for the next request when its client is called.
DeviceCallback(d) ==
  /\ CallClient(d)
  /\ transmitting' = [transmitting EXCEPT ![d] = FALSE]

NextNothing ==
  /\ Running("next")
  /\ inflight # None \/ \A d \in Pending : d = FirstNode => ~buffer[d]
  /\ Calls(<<>>)
  /\ UNCHANGED <<operation, buffer, inflight, hardware, deferred, asked, refused, queue, transmitting>>

NextStart ==
  /\ Running("next") /\ inflight = None /\ Pending # {} /\ buffer[FirstNode]
  /\ operation' = [operation EXCEPT ![FirstNode] = "Idle"]
  /\ buffer' = [buffer EXCEPT ![FirstNode] = FALSE]
  /\ queue' = {}
  /\ \/ /\ inflight' = FirstNode /\ hardware' = FirstNode
        /\ Calls(<<>>)
        /\ UNCHANGED refused
     \/ /\ refused' = TRUE                        \* the client is told at once
        /\ Calls(<<Callback(FirstNode)>>)
        /\ UNCHANGED <<inflight, hardware>>
  /\ UNCHANGED <<deferred, asked, transmitting>>

Step ==
  \/ NextNothing \/ NextStart \/ transmitted_buffer
  \/ (ClientReturns \/ handle_deferred_call) /\ UNCHANGED transmitting
  \/ \E d \in Devices : DeviceCallback(d)
Next == Step \/ \E d \in Devices : transmit_buffer(d)

=============================================================================
