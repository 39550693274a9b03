SPECIFICATION Spec
CONSTANTS
  N = 3
  Buffers = 2
  SMBus = {3}
  SharedChannel = {1, 3}
  Kinds = {"uart_rx"}
  NRx = 3
  RX_BUF_LEN = 2
  RxLens = {1, 3}
  ByteMod = 4
INVARIANT AcceptedIsRead
CHECK_DEADLOCK FALSE
