SPECIFICATION LossSpec
CONSTANTS
  Links = {"uart"}
  UART_RX_FIFO_DEPTH = 7
  MaxFrames = 3
INVARIANTS LostByteSpoilsOneFrame
CHECK_DEADLOCK FALSE
