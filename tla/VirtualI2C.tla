----------------------------- MODULE VirtualI2C -----------------------------
(***************************************************************************)
(* virtual_i2c.rs: MuxI2C with I2CDevice and SMBusDevice.  The two kinds   *)
(* of device share the controller; I2C devices go first.  The mux powers   *)
(* the controller while some device is enabled.  Write, read and           *)
(* write_read differ only in data.                                         *)
(*                                                                         *)
(* When the controller refuses a transfer the code marks the device        *)
(* CommandComplete and sets the deferred call, and then overwrites the     *)
(* mark with Idle and puts the device in flight: no answer is ever given.  *)
(***************************************************************************)
EXTENDS Mux

CONSTANT SMBus           \* the devices that are SMBus devices

VARIABLES
  smbus_inflight,        \* inflight is the mux's i2c_inflight
  enabled_devices,       \* {d : its enabled is set}
  enabled,               \* the mux's count
  on                     \* whether the controller is enabled

power == <<enabled_devices, enabled, on>>
vars == <<mux, smbus_inflight, power>>

Init ==
  /\ MuxInit
  /\ smbus_inflight = None /\ enabled_devices = {} /\ enabled = 0 /\ on = FALSE

enable(d) ==
  /\ ClientRuns
  /\ d \notin enabled_devices
  /\ enabled_devices' = enabled_devices \cup {d}
  /\ enabled' = enabled + 1
  /\ on' = (on \/ enabled = 0)
  /\ UNCHANGED <<mux, smbus_inflight>>

disable(d) ==
  /\ ClientRuns
  /\ d \in enabled_devices
  /\ enabled_devices' = enabled_devices \ {d}
  /\ enabled' = enabled - 1
  /\ on' = (on /\ enabled # 1)
  /\ UNCHANGED <<mux, smbus_inflight>>

\* write, read, write_read.
Request(d) ==
  /\ ClientRuns /\ asked[d] < Buffers
  /\ operation[d] = "Idle"                        \* else ArbitrationLost
  /\ operation' = [operation EXCEPT ![d] = "Queued"]
  /\ buffer' = [buffer EXCEPT ![d] = TRUE]
  /\ asked' = [asked EXCEPT ![d] = @ + 1]
  /\ stack' = <<DoNextOp>> \o stack
  /\ UNCHANGED <<inflight, hardware, deferred, refused, queue, smbus_inflight, power>>

command_complete ==
  /\ stack = <<>> /\ hardware # None
  /\ hardware' = None
  /\ \/ /\ inflight # None
        /\ inflight' = None
        /\ stack' = <<Callback(inflight), DoNextOp>>
        /\ UNCHANGED smbus_inflight
     \/ /\ inflight = None /\ smbus_inflight # None
        /\ smbus_inflight' = None
        /\ stack' = <<Callback(smbus_inflight), DoNextOp>>
        /\ UNCHANGED inflight
     \/ /\ inflight = None /\ smbus_inflight = None
        /\ stack' = <<DoNextOp>>
        /\ UNCHANGED <<inflight, smbus_inflight>>
  /\ queue' = Pending
  /\ UNCHANGED <<operation, buffer, deferred, asked, refused, power>>

NextNothing ==
  /\ Running("next")
  /\ inflight # None \/ smbus_inflight # None \/ Pending = {}
  /\ Calls(<<>>)
  /\ UNCHANGED <<operation, buffer, inflight, hardware, deferred, asked, refused, queue,
                 smbus_inflight, power>>

NextStart(d) ==
  /\ operation' = [operation EXCEPT ![d] = "Idle"]
  /\ queue' = {}
  /\ \/ /\ hardware' = d
        /\ buffer' = [buffer EXCEPT ![d] = FALSE]
        /\ UNCHANGED <<deferred, refused>>
     \/ /\ deferred' = TRUE /\ refused' = TRUE
        /\ UNCHANGED <<hardware, buffer>>
  /\ Calls(<<>>)
  /\ UNCHANGED <<asked, power>>

\* Mutant: an SMBus transfer under way is overlooked.
do_next_op_i2c ==
  \/ NextNothing
  \/ /\ Running("next") /\ inflight = None
     /\ \/ /\ Pending \ SMBus # {}
           /\ inflight' = Min(Pending \ SMBus)
           /\ NextStart(Min(Pending \ SMBus))
           /\ UNCHANGED smbus_inflight
        \/ /\ Pending \ SMBus = {} /\ Pending # {}
           /\ smbus_inflight' = FirstNode
           /\ NextStart(FirstNode)
           /\ UNCHANGED inflight

do_next_op ==
  \/ NextNothing
  \/ /\ Running("next") /\ inflight = None /\ smbus_inflight = None
     /\ \/ /\ Pending \ SMBus # {}
           /\ inflight' = Min(Pending \ SMBus)
           /\ NextStart(Min(Pending \ SMBus))
           /\ UNCHANGED smbus_inflight
        \/ /\ Pending \ SMBus = {} /\ Pending # {}
           /\ smbus_inflight' = FirstNode
           /\ NextStart(FirstNode)
           /\ UNCHANGED inflight

Step ==
  \/ do_next_op \/ command_complete
  \/ /\ ClientReturns \/ handle_deferred_call \/ \E d \in Devices : CallClient(d)
     /\ UNCHANGED <<smbus_inflight, power>>
Next == Step \/ \E d \in Devices : Request(d) \/ enable(d) \/ disable(d)

=============================================================================
