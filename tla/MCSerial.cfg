SPECIFICATION FairSpec
CONSTANTS
  Links = {"uart", "i2c"}
  UART_RX_FIFO_DEPTH = 7
  MaxFrames = 4
INVARIANTS WholeRequestsOnly WindowIsSafe AnswerIsOwn LaunchFindsIdle
PROPERTIES RequestAnswered
