---------------------------- MODULE SerialLoss -----------------------------
(***************************************************************************)
(* The serial transport on a line that may swallow a byte: the start edge  *)
(* is missed and the receiver sees nothing, not even a framing error.      *)
(***************************************************************************)
EXTENDS SerialCmd

VARIABLE hit   \* the request a byte vanished from, or 0

UartLostByte ==
  /\ UartHost /\ hit = 0 /\ next[2] # 0
  /\ next' = Following(next) /\ hit' = next[1]
  /\ Cmd(Silence)

LossInit == Init /\ hit = 0
LossNext == UartLostByte \/ (Next /\ UNCHANGED hit)
LossSpec == LossInit /\ [][LossNext]_<<vars, hit>>

\* "a stray or lost byte only corrupts one frame" (arv_dtm_cmd.v:32): while
\* nothing else goes wrong, the SYNC of a request is consumed as the payload of
\* no other one than that which lost the byte.
LostByteSpoilsOneFrame ==
  state = "RX" /\ rx_take /\ loss = "none" /\ Head(fifo)[2] = 0
    => Head(fifo)[1] = hit
=============================================================================
