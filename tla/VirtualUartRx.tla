--------------------------- MODULE VirtualUartRx ----------------------------
(***************************************************************************)
(* The receive half of virtual_uart.rs.  Devices with receives of different*)
(* lengths share one read of the UART: what it delivers is copied to every *)
(* device, and the next read is as long as the shortest receive that is    *)
(* left.  A device that starts or aborts a receive aborts the read under   *)
(* way, so that received_buffer() computes the length anew.                *)
(*                                                                         *)
(* The UART may refuse to read and may fail to abort: the mux ignores both *)
(* answers, and the buffer that comes back with a refusal is dropped.      *)
(*                                                                         *)
(* Bytes are numbered, modulo ByteMod, as the UART delivers them.          *)
(***************************************************************************)
EXTENDS Integers, Sequences, SequencesExt

CONSTANTS
  NRx,          \* number of devices that are receivers, in list order
  RX_BUF_LEN,   \* length of the mux's buffer
  RxLens,       \* lengths of the receives
  ByteMod       \* greater than every length

ASSUME RxAssumption ==
  RX_BUF_LEN \in Nat \ {0} /\ RxLens \subseteq 1 .. ByteMod - 1

VARIABLES
  rx_buffer,      \* [Receivers -> Seq(Byte) or NoBuffer] what has been copied
                  \* to the client's buffer: rx_position is its length
  rx_len,         \* [Receivers -> RxLens \cup {0}]
  rx_state,       \* [Receivers -> {"Idle", "Receiving", "Aborting"}]
  uart,           \* the read of the UART: its length, what it has received,
                  \* and whether it is being aborted; Off when there is none
  lost,           \* the mux's buffer came back with a refusal, and is gone
  scan,           \* received_buffer(): the device it is at, 0 when not running
  in_client,      \* whether the client of that device is running
  next_read_len,  \* received_buffer()'s locals
  read_pending,
  last            \* the last byte delivered

rx == <<rx_buffer, rx_len, rx_state, uart, lost, scan, in_client, next_read_len, read_pending, last>>

Receivers == 1 .. NRx
Byte == 0 .. ByteMod - 1
NoBuffer == <<-1>>
Off == [len |-> 0, data |-> <<>>, aborted |-> FALSE]

Waits(d) == rx_buffer[d] # NoBuffer
Remaining(d) == rx_len[d] - Len(rx_buffer[d])
completing_read == scan # 0
Shorter(a, b) == IF a < b THEN a ELSE b

RxInit ==
  /\ rx_buffer = [d \in Receivers |-> NoBuffer]
  /\ rx_len = [d \in Receivers |-> 0]
  /\ rx_state = [d \in Receivers |-> "Idle"]
  /\ uart = Off /\ lost = FALSE
  /\ scan = 0 /\ in_client = FALSE /\ next_read_len = 0 /\ read_pending = FALSE
  /\ last = 0

Read(n) == [len |-> Shorter(n, RX_BUF_LEN), data |-> <<>>, aborted |-> FALSE]

\* uart.receive_buffer(): the read starts, or is refused.
StartRead(n) == (uart' = Read(n) /\ UNCHANGED lost) \/ (lost' = TRUE /\ UNCHANGED uart)

\* uart.receive_abort(): nothing to abort, aborted, or not, and then the read
\* goes on.
AbortRead == UNCHANGED uart \/ (uart # Off /\ uart' = [uart EXCEPT !.aborted = TRUE])

\* The mux is without its buffer in received_buffer(), while a read is under
\* way, and once it has lost it.
start_receive(n) ==
  \/ completing_read /\ UNCHANGED <<uart, lost>>
  \/ ~completing_read /\ (uart # Off \/ lost) /\ AbortRead /\ UNCHANGED lost
  \/ ~completing_read /\ uart = Off /\ ~lost /\ StartRead(n)

\* The device's client can call from a callback of that device, and when no
\* client of the mux is being called.
RxClientRuns(d) == ~completing_read \/ (in_client /\ d = scan)

receive_buffer(d, n) ==
  /\ RxClientRuns(d)
  /\ ~Waits(d)                                        \* else BUSY
  /\ rx_buffer' = [rx_buffer EXCEPT ![d] = <<>>]
  /\ rx_len' = [rx_len EXCEPT ![d] = n]
  /\ rx_state' = [rx_state EXCEPT ![d] = "Receiving"]
  /\ start_receive(n)
  /\ UNCHANGED <<scan, in_client, next_read_len, read_pending, last>>

receive_abort(d) ==
  /\ RxClientRuns(d)
  /\ rx_state' = [rx_state EXCEPT ![d] = "Aborting"]
  /\ AbortRead
  /\ UNCHANGED <<rx_buffer, rx_len, lost, scan, in_client, next_read_len, read_pending, last>>

-----------------------------------------------------------------------------
\* The UART receives a byte.
Receive ==
  /\ uart # Off /\ ~uart.aborted /\ Len(uart.data) < uart.len
  /\ ~completing_read
  /\ last' = (last + 1) % ByteMod
  /\ uart' = [uart EXCEPT !.data = Append(@, (last + 1) % ByteMod)]
  /\ UNCHANGED <<rx_buffer, rx_len, rx_state, lost, scan, in_client, next_read_len, read_pending>>

\* Mutant: a receive that is being aborted gets nothing.
CopyReceiving(d) ==
  LET len == Shorter(Len(uart.data), Remaining(d)) IN
  IF ~Waits(d) THEN NoBuffer
  ELSE rx_buffer[d] \o
       (IF rx_state[d] # "Receiving" THEN [i \in 1 .. len |-> 0] ELSE SubSeq(uart.data, 1, len))

\* A device that waits gets the bytes that it still lacks.
Copy(d) ==
  LET len == Shorter(Len(uart.data), Remaining(d)) IN
  IF ~Waits(d) THEN NoBuffer
  ELSE rx_buffer[d] \o
       (IF rx_state[d] = "Idle" THEN [i \in 1 .. len |-> 0] ELSE SubSeq(uart.data, 1, len))

\* The read ends: complete, aborted, or early with an error.  First all
\* devices get their bytes.
received_buffer ==
  /\ uart # Off /\ ~completing_read
  /\ rx_buffer' = [d \in Receivers |-> Copy(d)]
  /\ uart' = Off
  /\ scan' = 1
  /\ next_read_len' = RX_BUF_LEN /\ read_pending' = FALSE
  /\ UNCHANGED <<rx_len, rx_state, lost, in_client, last>>

Scanning == scan \in Receivers /\ ~in_client

\* Mutant: an abort waits for the receive to be complete.
EndsComplete(d) == Remaining(d) = 0

Ends(d) == Remaining(d) = 0 \/ rx_state[d] = "Aborting"

\* The second pass over the devices: nothing to do here,
ScanIdle ==
  /\ Scanning /\ ~Waits(scan)
  /\ scan' = scan + 1
  /\ UNCHANGED <<rx_buffer, rx_len, rx_state, uart, lost, in_client, next_read_len, read_pending, last>>

\* the receive is complete or aborted,
ScanCallback ==
  /\ Scanning /\ Waits(scan)
  /\ Ends(scan)
  /\ rx_buffer' = [rx_buffer EXCEPT ![scan] = NoBuffer]
  /\ rx_state' = [rx_state EXCEPT ![scan] = "Idle"]
  /\ in_client' = TRUE
  /\ UNCHANGED <<rx_len, uart, lost, scan, next_read_len, read_pending, last>>

\* or it goes on.
ScanPending ==
  /\ Scanning /\ Waits(scan)
  /\ ~Ends(scan)
  /\ next_read_len' = Shorter(next_read_len, Remaining(scan))
  /\ read_pending' = TRUE
  /\ scan' = scan + 1
  /\ UNCHANGED <<rx_buffer, rx_len, rx_state, uart, lost, in_client, last>>

\* The client returns, and may have started another receive: one that it has
\* not aborted as well is to be read for.
RxClientReturns ==
  /\ in_client
  /\ in_client' = FALSE
  /\ scan' = scan + 1
  /\ IF rx_state[scan] = "Receiving"
       THEN /\ read_pending' = TRUE
            /\ next_read_len' = Shorter(next_read_len, rx_len[scan])
       ELSE UNCHANGED <<read_pending, next_read_len>>
  /\ UNCHANGED <<rx_buffer, rx_len, rx_state, uart, lost, last>>

\* The mux has its buffer again and reads on, if a device waits for more.
ScanEnd ==
  /\ scan = NRx + 1
  /\ scan' = 0
  /\ IF read_pending THEN StartRead(next_read_len) ELSE UNCHANGED <<uart, lost>>
  /\ next_read_len' = 0 /\ read_pending' = FALSE      \* locals, forgotten
  /\ UNCHANGED <<rx_buffer, rx_len, rx_state, in_client, last>>

\* What must happen: a read that is complete or aborted is handed over, and the
\* handler runs to its end.
RxStep ==
  \/ (uart.aborted \/ Len(uart.data) = uart.len) /\ received_buffer
  \/ ScanIdle \/ ScanCallback \/ ScanPending \/ RxClientReturns \/ ScanEnd
RxNext ==
  \/ RxStep \/ Receive \/ received_buffer
  \/ \E d \in Receivers : receive_abort(d) \/ \E n \in RxLens : receive_buffer(d, n)

=============================================================================
