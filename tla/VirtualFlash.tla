---------------------------- MODULE VirtualFlash ----------------------------
(***************************************************************************)
(* virtual_flash.rs: MuxFlash and FlashUser.  Reading and writing a page   *)
(* differ only in data and take a buffer; erasing takes none.  A user does *)
(* not check that its slot is free: as everywhere in the repository, its   *)
(* client waits for a callback before it asks again.                       *)
(***************************************************************************)
EXTENDS Mux

\* op is "Queued" for read_page() and write_page(), "Erase" for erase_page().
Request(d, op) ==
  /\ ClientRuns /\ asked[d] = 0
  /\ operation' = [operation EXCEPT ![d] = op]
  /\ buffer' = [buffer EXCEPT ![d] = @ \/ op = "Queued"]
  /\ asked' = [asked EXCEPT ![d] = @ + 1]
  /\ stack' = <<DoNextOp>> \o stack
  /\ UNCHANGED <<inflight, hardware, deferred, refused, queue>>

\* read_complete, write_complete, erase_complete.
Complete ==
  /\ stack = <<>> /\ hardware # None
  /\ hardware' = None
  /\ inflight' = None
  /\ stack' = (IF inflight = None THEN <<>> ELSE <<Callback(inflight)>>) \o <<DoNextOp>>
  /\ queue' = Pending
  /\ UNCHANGED <<operation, buffer, deferred, asked, refused>>

NextNothing ==
  /\ Running("next") /\ (inflight # None \/ Pending = {})
  /\ Calls(<<>>)
  /\ UNCHANGED <<operation, buffer, inflight, hardware, deferred, asked, refused, queue>>

\* The slot is freed and the user is in flight whatever the flash says; the
\* buffer of a read or a write comes back when it refuses.
NextStart ==
  /\ Running("next") /\ inflight = None /\ Pending # {}
  /\ operation' = [operation EXCEPT ![FirstNode] = "Idle"]
  /\ inflight' = FirstNode
  /\ queue' = {}
  /\ \/ /\ hardware' = FirstNode
        /\ buffer' = [buffer EXCEPT ![FirstNode] = FALSE]
        /\ UNCHANGED refused
     \/ /\ refused' = TRUE
        /\ buffer' = [buffer EXCEPT ![FirstNode] = @ /\ operation[FirstNode] # "Erase"]
        /\ UNCHANGED hardware
  /\ Calls(<<>>)
  /\ UNCHANGED <<deferred, asked>>

Step == NextNothing \/ NextStart \/ ClientReturns \/ Complete
        \/ \E d \in Devices : CallClient(d)
Next == Step \/ \E d \in Devices, op \in {"Queued", "Erase"} : Request(d, op)

=============================================================================
