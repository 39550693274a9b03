---------------------------- MODULE Virtualizers ----------------------------
(***************************************************************************)
(* The virtualizers side by side: a behaviour is one of a mux of the kind  *)
(* chosen at the start.  They share the state of Mux, the receive half of  *)
(* the UART has its own.                                                   *)
(***************************************************************************)
EXTENDS Mux, VirtualUartRx

CONSTANTS Kinds, SMBus, SharedChannel

VARIABLES kind, transmitting, smbus_inflight, enabled_devices, enabled, on, forgot

Spi == INSTANCE VirtualSpi
Flash == INSTANCE VirtualFlash
UartTx == INSTANCE VirtualUartTx
I2C == INSTANCE VirtualI2C
Adc == INSTANCE VirtualAdc
Rng == INSTANCE VirtualRng
Pwm == INSTANCE VirtualPwm

i2c == <<smbus_inflight, enabled_devices, enabled, on>>
vars == <<kind, mux, transmitting, i2c, forgot, rx>>

Init == kind \in Kinds /\ UartTx!Init /\ I2C!Init /\ forgot = FALSE /\ RxInit

\* The state that only muxes of other kinds have.
Others ==
  /\ UNCHANGED kind
  /\ (kind # "uart_tx" => UNCHANGED transmitting)
  /\ (kind # "i2c" => UNCHANGED i2c)
  /\ (kind # "rng" => UNCHANGED forgot)
  /\ IF kind = "uart_rx" THEN UNCHANGED mux ELSE UNCHANGED rx

Next ==
  /\ \/ kind = "spi" /\ Spi!Next
     \/ kind = "flash" /\ Flash!Next
     \/ kind = "uart_tx" /\ UartTx!Next
     \/ kind = "i2c" /\ I2C!Next
     \/ kind = "adc" /\ Adc!Next
     \/ kind = "rng" /\ Rng!Next
     \/ kind = "pwm" /\ Pwm!Next
     \/ kind = "uart_rx" /\ RxNext
  /\ Others

\* Calls return, deferred calls are serviced and the peripherals complete what
\* they have started.  A client returns from its callback however much it asks
\* for in it, and then the kernel comes back to its main loop, which services
\* interrupts and deferred calls before anything else.
Step ==
  \/ kind = "spi" /\ Spi!Step
  \/ kind = "flash" /\ Flash!Step
  \/ kind = "uart_tx" /\ UartTx!Step
  \/ kind = "i2c" /\ I2C!Step
  \/ kind = "adc" /\ Adc!Step
  \/ kind = "rng" /\ Rng!Step
  \/ kind = "pwm" /\ Pwm!Step
  \/ kind = "uart_rx" /\ RxStep

Spec == Init /\ [][Next]_vars /\ WF_vars(Step /\ Others) /\ SF_vars(ClientRuns /\ Step /\ Others)

-----------------------------------------------------------------------------
TypeOK ==
  /\ kind \in Kinds /\ MuxTypeOK
  /\ transmitting \in [Devices -> BOOLEAN]
  /\ smbus_inflight \in SMBus \cup {None} /\ (kind = "i2c" => inflight \notin SMBus)
  /\ forgot \in BOOLEAN
  /\ enabled_devices \subseteq Devices /\ enabled \in 0 .. N /\ on \in BOOLEAN
  /\ \A d \in Receivers : /\ rx_buffer[d] = NoBuffer \/ rx_buffer[d] \in Seq(Byte)
                          /\ rx_len[d] \in RxLens \cup {0}
                          /\ rx_state[d] \in {"Idle", "Receiving", "Aborting"}
                          /\ Waits(d) => Remaining(d) >= 0
  /\ lost \in BOOLEAN /\ (lost => uart = Off)
  /\ uart.len \in 0 .. RX_BUF_LEN /\ uart.data \in Seq(Byte) /\ Len(uart.data) <= uart.len
  /\ scan \in 0 .. NRx + 1 /\ next_read_len \in 0 .. RX_BUF_LEN

\* The device in flight is the one whose request the peripheral executes: a
\* completion, which names no device, goes to the client that asked.  (The RNG
\* mux forgets whom it serves when a client wants more; the PWM has no clients,
\* and may drive a pin it could not stop.)
RightClient ==
  hardware # None /\ ~forgot /\ (kind = "pwm" => ~refused)
    => hardware = (IF smbus_inflight # None THEN smbus_inflight ELSE inflight)

\* Every request that was accepted is in exactly one place, so its buffer is
\* neither lost nor handed to a client twice.  The I2C, flash and RNG muxes keep
\* this only as long as the peripheral refuses nothing.  (The PWM has no
\* requests that are answered.)
EachInOnePlace ==
  TypeOK /\
  IF kind = "adc" THEN \A d \in Devices : asked[d] = Adc!Waiting(d)
  ELSE kind # "pwm" /\ (refused => kind \in {"spi", "uart_tx"}) /\ ~forgot => Accounted

\* When nothing is under way nobody waits: no request is left behind with
\* neither a transfer, nor a deferred call, nor a read that would bring the mux
\* back to it.  Excepted are the requests of muxes whose peripheral has refused
\* one, the RNG mux once it forgot whom it serves, and of the receives those
\* made after the UART refused a read and those that were started and aborted
\* in one callback, which no read is started for.
NothingForgotten ==
  /\ Quiet /\ ~refused /\ ~forgot /\ kind # "pwm" => \A d \in Devices : asked[d] = 0
  /\ ~completing_read /\ uart = Off /\ ~lost =>
       \A d \in Receivers : Waits(d) => rx_state[d] = "Aborting"

\* What hil/uart.rs promises of an accepted receive: "the struct will issue a
\* `received_buffer` callback in the future".  So while a client waits, a read
\* is under way or its completion is being handled.
AcceptedIsRead == ~completing_read /\ uart = Off => \A d \in Receivers : ~Waits(d)

\* The hardware is as its users left it.  Between commands the PWM drives a pin
\* whose user last asked for it, and some pin if any user did: no stop is
\* overtaken by an earlier start that waited.  The I2C controller is on exactly
\* while some device is enabled.
HardwareFollows ==
  /\ kind = "pwm" /\ stack = <<>> /\ ~refused =>
       /\ hardware # None => asked[hardware] = 1
       /\ hardware = None => \A d \in Devices : asked[d] = 0
  /\ enabled = Cardinality(enabled_devices) /\ on = (enabled_devices # {})

\* A transfer that the SPI controller refused is reported to its client.
Unreported(d) == kind = "spi" /\ operation[d] = "Done" /\ buffer[d]
RefusedIsReported == \A d \in Devices : Unreported(d) ~> ~Unreported(d)

\* The SPI mux starts a request made in a callback only after one that was
\* already waiting when the transfer completed.
Sharing ==
  [][kind = "spi" /\ ~refused' /\ hardware' # hardware /\ hardware' # None
     => queue = {} \/ hardware' \in queue]_vars

\* As long as nothing is refused, and the RNG mux has not forgotten whom it
\* serves, the requests of the first device of the list are answered, however
\* busy the others are.  (The others have no such promise.)
FirstIsServed ==
  <>refused \/ <>forgot \/ kind = "pwm" \/ []<>(asked[1] = 0) \/ []<><<asked'[1] < asked[1]>>_vars

\* A device that waits for more has every byte the UART delivered since its
\* first one, in order, up to the last.
NothingMissed ==
  \A d \in Receivers : Waits(d) =>
    LET b == rx_buffer[d] IN
    /\ \A i \in 1 .. Len(b) - 1 : b[i + 1] = (b[i] + 1) % ByteMod
    /\ b # <<>> /\ Remaining(d) > 0 => (b[Len(b)] + Len(uart.data)) % ByteMod = last

\* A receive whose abort the UART takes ends, whether or not another byte
\* arrives.  (When the UART fails to abort, it waits for the read's end.)
Aborted(d) == rx_state[d] = "Aborting" /\ Waits(d)
AbortEnds == \A d \in Receivers : Aborted(d) /\ uart.aborted ~> ~Aborted(d)

=============================================================================
