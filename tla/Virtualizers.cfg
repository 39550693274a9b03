SPECIFICATION Spec
CONSTANTS
  N = 3
  Buffers = 2
  SMBus = {3}
  SharedChannel = {1, 3}
  Kinds = {"spi", "flash", "uart_tx", "i2c", "uart_rx", "adc", "rng", "pwm"}
  NRx = 3
  RX_BUF_LEN = 2
  RxLens = {1, 3}
  ByteMod = 4
INVARIANTS RightClient EachInOnePlace NothingForgotten HardwareFollows NothingMissed
PROPERTIES RefusedIsReported Sharing FirstIsServed AbortEnds
CHECK_DEADLOCK FALSE
