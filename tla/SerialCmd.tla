----------------------------- MODULE SerialCmd -----------------------------
(***************************************************************************)
(* The command engine of the serial Debug Transport Modules (arv_dtm_cmd), *)
(* with its receive FIFO (arv_dtm_rxfifo), between the byte engine of a    *)
(* UART or of an I2C target and the DMI master.  One step is one clk_i     *)
(* edge with at most one event on the wire.                                *)
(*                                                                         *)
(* The host sends requests 1, 2, ... of seven bytes each; a byte is the    *)
(* pair <<request, place in the frame>>, and place 0 is the SYNC byte.     *)
(* Whether a data byte equals 0x55 too is chosen when the engine hunts a   *)
(* SYNC and meets it, and which operation a request asks for is chosen     *)
(* when it is executed: nothing looks at either before.                    *)
(*                                                                         *)
(* The DMI master is the abstraction its own module justifies: one         *)
(* transfer at a time, whose result is of the request last launched, and   *)
(* which a hard reset drops.                                               *)
(***************************************************************************)
EXTENDS Integers, Sequences

CONSTANTS Links,              \* the transports the run starts from
          UART_RX_FIFO_DEPTH, \* FIFO depth of the UART build
          MaxFrames           \* bound on the requests the host sends

ASSUME SerialAssumption == /\ Links \subseteq {"uart", "i2c"}
                           /\ UART_RX_FIFO_DEPTH \in Nat \ {0}
                           /\ MaxFrames \in Nat \ {0}

VARIABLES
  link,        \* "uart" or "i2c": which byte engine this build has
  polite,      \* the UART host keeps the documented pipelining bound
  phy,         \* phase of the I2C target; "uart" otherwise
  next,        \* the next byte the host sends
  fifo,        \* bytes received and not yet consumed
  state, rxcnt, txcnt, abandoned, rx_overrun, abort_d,
  inflight,    \* the DMI master has a transfer in flight
  cur, done,   \* the requests it is for, and that the last result is of
  sync, whole, \* the byte taken as SYNC; the bytes since are its own frame
  data,        \* the request whose transfer gave the captured read data
  loss,        \* the first byte loss since the host last reconnected
  since,       \* the first request of the session (UART) or transaction (I2C)
  replies,     \* UART: answers the host got in this session
  unseen       \* bytes were dropped that no status word has told of

host == <<link, polite>>
cmd  == <<state, rxcnt, txcnt, abandoned, rx_overrun, abort_d>>
vars == <<host, phy, next, fifo, cmd, inflight, cur, done, sync, whole, data,
          loss, since, replies, unseen>>

FrameLen == 7
ReplyLen == 5
NoByte   == <<0, 0>>
NoData   == -1

States == {"SYNC", "RX", "EXEC", "WAIT", "RESP"}
Phases == {"uart", "idle", "addr", "write", "load", "loaded", "read", "nacked"}
Ops    == {"access", "status", "clear", "poll", "reset"}
Bytes  == Nat \X (0 .. FrameLen - 1)

DEPTH == IF link = "uart" THEN UART_RX_FIFO_DEPTH ELSE 8

Init ==
  /\ link \in Links
  /\ polite \in IF link = "uart" THEN BOOLEAN ELSE {FALSE}
  /\ phy = IF link = "uart" THEN "uart" ELSE "idle"
  /\ next = <<1, 0>> /\ fifo = <<>>
  /\ state = "SYNC" /\ rxcnt = 0 /\ txcnt = 0
  /\ abandoned = FALSE /\ rx_overrun = FALSE /\ abort_d = FALSE
  /\ inflight = FALSE /\ cur = 0 /\ done = 0
  /\ sync = NoByte /\ whole = FALSE /\ data = NoData
  /\ loss = "none" /\ since = 1 /\ replies = 0 /\ unseen = FALSE

-----------------------------------------------------------------------------
(* The engine.  in holds the byte engine's outputs in this cycle: rx, the  *)
(* byte received (a sequence of at most one); the frame delimiters         *)
(* boundary and stop; error, a byte dropped on a framing error; abort;     *)
(* ready, a response byte is taken.  in.renew says that the host starts    *)
(* its framing anew.                                                       *)

Heard(bytes, on) ==
  [rx |-> bytes, boundary |-> "boundary" \in on, stop |-> "stop" \in on,
   error |-> "error" \in on, abort |-> "abort" \in on,
   ready |-> "ready" \in on, renew |-> "renew" \in on]
Silence == Heard(<<>>, {})

rx_take == fifo # <<>> /\ state \in {"SYNC", "RX"}
tx_xfer(in) == state = "RESP" /\ in.ready
ReplySent(in) == tx_xfer(in) /\ txcnt = ReplyLen - 1

\* A push into a full FIFO is taken if the same cycle pops a byte.
Bug_room_ignores_pop == Len(fifo) < DEPTH
room == Len(fifo) < DEPTH \/ rx_take
fifo_overrun(in) == in.rx # <<>> /\ ~room
Bug_overrun_not_flushed(in) ==
  in.abort \/ in.boundary \/ in.stop \/ in.error
fifo_flush(in) ==
  in.abort \/ in.boundary \/ in.stop \/ in.error \/ fifo_overrun(in)

Bug_pop_drops_push(in) ==
  IF fifo_flush(in) THEN <<>>
  ELSE IF rx_take THEN Tail(fifo)
  ELSE fifo \o (IF room THEN in.rx ELSE <<>>)
FifoNext(in) ==
  IF fifo_flush(in) THEN <<>>
  ELSE (IF rx_take THEN Tail(fifo) ELSE fifo) \o (IF room THEN in.rx ELSE <<>>)

\* The byte at the head of the FIFO reads 0x55.
IsSync(looks) == Head(fifo)[2] = 0 \/ looks

Bug_launch_on_abort(op, in) == state = "EXEC" /\ op = "access" /\ ~inflight
launch(op, in) == state = "EXEC" /\ op = "access" /\ ~inflight /\ ~in.abort
hardreset(op, in) == (state = "EXEC" /\ op = "reset") \/ (in.abort /\ ~abort_d)

\* The state machine without the resyncs.
StateNext(op, looks, in) ==
  CASE state = "SYNC" -> IF rx_take /\ IsSync(looks) THEN "RX" ELSE "SYNC"
    [] state = "RX"   -> IF rx_take /\ rxcnt = FrameLen - 2 THEN "EXEC" ELSE "RX"
    [] state = "EXEC" -> IF op = "access" /\ ~inflight THEN "WAIT" ELSE "RESP"
    [] state = "WAIT" -> IF inflight THEN "WAIT"
                         ELSE IF abandoned \/ in.stop THEN "SYNC" ELSE "RESP"
    [] state = "RESP" -> IF ReplySent(in) THEN "SYNC" ELSE "RESP"

\* A resync of an engine that is collecting a request.
RequestResync(in) ==
  /\ in.boundary \/ fifo_overrun(in) \/ in.error
  /\ state \in {"RX", "SYNC"}

\* A resync of an engine whose answer the host has given up.
AnswerResync(in) ==
  /\ in.stop \/ abandoned \/ (in.boundary /\ txcnt # 0)
  /\ state = "RESP"

Resync(in) == in.abort \/ RequestResync(in) \/ AnswerResync(in)

Bug_stop_in_wait_forgotten(in) ==
  state # "SYNC" /\ (abandoned \/ (in.stop /\ state = "EXEC"))
AbandonedNext(in) ==
  state # "SYNC" /\ (abandoned \/ (in.stop /\ state \in {"EXEC", "WAIT"}))

OverrunFlagNext(op, in) ==
  fifo_overrun(in) \/ (rx_overrun /\ ~(state = "EXEC" /\ op = "clear"))

Fsm(op, looks, in) ==
  /\ state' = IF Resync(in) THEN "SYNC" ELSE StateNext(op, looks, in)
  /\ rxcnt' = IF in.abort \/ RequestResync(in) THEN 0
              ELSE IF state = "SYNC" /\ StateNext(op, looks, in) = "RX" THEN 0
              ELSE IF state = "RX" /\ rx_take /\ rxcnt # FrameLen - 2
                   THEN rxcnt + 1 ELSE rxcnt
  /\ txcnt' = IF in.abort \/ AnswerResync(in) \/ state = "SYNC" THEN 0
              ELSE IF tx_xfer(in) /\ ~ReplySent(in) THEN txcnt + 1
              ELSE IF state = "WAIT" /\ ~inflight THEN 0 ELSE txcnt
  /\ abandoned' = AbandonedNext(in)
  /\ rx_overrun' = OverrunFlagNext(op, in)
  /\ abort_d' = in.abort

\* The request in execution: its number, or 0 for bytes of several frames.
Req == IF whole THEN sync[1] ELSE 0

DmiLink(op, in) ==
  \E finish \in BOOLEAN :
    /\ finish => inflight
    /\ inflight' = (launch(op, in) \/ (inflight /\ ~finish /\ ~hardreset(op, in)))
    /\ cur' = IF launch(op, in) THEN Req ELSE cur
    /\ done' = IF finish /\ ~hardreset(op, in) THEN cur ELSE done

\* What the captured answer and the assembled request are made of.
Provenance(op, in) ==
  /\ sync' = IF state' = "SYNC" THEN NoByte
             ELSE IF state = "SYNC" THEN Head(fifo) ELSE sync
  /\ whole' = IF state' = "SYNC" THEN FALSE
              ELSE IF state = "SYNC" THEN Head(fifo)[2] = 0
              ELSE IF state = "RX" /\ rx_take
                   THEN whole /\ Head(fifo) = <<sync[1], rxcnt + 1>> ELSE whole
  /\ data' = IF state' # "RESP" THEN NoData
             ELSE IF state = "WAIT" THEN done ELSE data

\* What the host can know of its own bytes and of the answers.
Bookkeeping(op, in) ==
  /\ loss' = IF in.renew THEN "none"
             ELSE IF loss # "none" THEN loss
             ELSE IF in.error THEN "line"
             ELSE IF fifo_overrun(in) THEN "overrun" ELSE loss
  /\ replies' = IF in.renew \/ link # "uart" THEN 0
                ELSE IF ReplySent(in) THEN replies + 1
                ELSE replies
  /\ unseen' = (fifo_overrun(in)
                \/ (unseen /\ ~(state = "EXEC" /\ op \in {"status", "clear"} /\ rx_overrun)))

Cmd(in) ==
  \E op \in Ops, looks \in BOOLEAN :
    /\ state # "EXEC" => op = "poll"
    /\ looks => state = "SYNC" /\ fifo # <<>>
    /\ fifo' = FifoNext(in)
    /\ Fsm(op, looks, in)
    /\ DmiLink(op, in)
    /\ Provenance(op, in)
    /\ Bookkeeping(op, in)

-----------------------------------------------------------------------------
(* The host and the byte engines.                                          *)

Following(b) == IF b[2] = FrameLen - 1 THEN <<b[1] + 1, 0>> ELSE <<b[1], b[2] + 1>>
NewFrame     == IF next[2] = 0 THEN next ELSE <<next[1] + 1, 0>>
Sending      == next[1] <= MaxFrames

\* Requests sent whose answers the host has not received.
Outstanding == next[1] - since - replies
Window      == 1 + DEPTH \div FrameLen

Clocked == UNCHANGED <<host, phy, next, since>>

Quiet == phy # "loaded" /\ Cmd(Silence) /\ Clocked

\* UART: tx_ready is high whenever the transmitter is idle.
UartTx == link = "uart" /\ Cmd(Heard(<<>>, {"ready"})) /\ Clocked

UartHost == link = "uart" /\ Sending /\ UNCHANGED <<host, phy, since>>

UartByte ==
  /\ UartHost
  /\ polite /\ next[2] = 0 => Outstanding < Window
  /\ next' = Following(next)
  /\ \E on \in SUBSET {"ready"} : Cmd(Heard(<<next>>, on))

\* A stop bit sampled low: the byte is dropped and the engine told.
UartFramingError ==
  /\ UartHost /\ next' = Following(next)
  /\ \E on \in SUBSET {"ready"} : Cmd(Heard(<<>>, {"error"} \cup on))

\* A break and a new 0x80: the host reconnects and starts with a whole request.
UartBreak ==
  /\ link = "uart" /\ ~abort_d
  /\ next' = NewFrame /\ since' = NewFrame[1]
  /\ Cmd(Heard(<<>>, {"abort", "renew"}))
  /\ UNCHANGED <<host, phy>>

\* Three framing errors unlock the baud; the receiver locks again later, on
\* any byte of the stream that looks like 0x80.
UartRearm ==
  /\ UartHost /\ loss = "line" /\ ~abort_d
  /\ \E f \in {next[1], next[1] + 1}, i \in 0 .. FrameLen - 1 :
       /\ f = next[1] => i >= next[2]
       /\ f <= MaxFrames
       /\ next' = <<f, i>>
  /\ Cmd(Heard(<<>>, {"abort"}))

\* I2C: a START is heard outside a stretch and delimits a frame.  After bytes
\* of an answer were read it means that the host gave the rest up.
I2cStart ==
  /\ link = "i2c" /\ phy \in {"idle", "addr", "write", "read", "nacked"}
  /\ phy' = "addr" /\ next' = NewFrame
  /\ since' = IF phy \in {"read", "nacked"} THEN NewFrame[1] ELSE since
  /\ Cmd(Heard(<<>>, {"boundary"}))
  /\ UNCHANGED host

\* The address byte: write, read, or another target.
I2cAddress ==
  /\ phy = "addr" /\ phy' \in {"write", "load", "idle"}
  /\ Cmd(Silence) /\ UNCHANGED <<host, next, since>>

I2cByte ==
  /\ phy = "write" /\ Sending
  /\ next' = Following(next)
  /\ Cmd(Heard(<<next>>, {}))
  /\ UNCHANGED <<host, phy, since>>

\* STOP, heard outside the read phase only.
I2cStop ==
  /\ link = "i2c" /\ phy \in {"idle", "addr", "write", "nacked"}
  /\ phy' = "idle" /\ next' = NewFrame /\ since' = NewFrame[1]
  /\ Cmd(Heard(<<>>, {"boundary", "stop", "renew"}))
  /\ UNCHANGED host

\* SCL is stretched until the engine has a byte; tx_ready follows a cycle later.
I2cLoad ==
  /\ phy = "load" /\ state = "RESP" /\ phy' = "loaded"
  /\ Cmd(Silence) /\ UNCHANGED <<host, next, since>>

I2cTaken ==
  /\ phy = "loaded" /\ phy' = "read"
  /\ Cmd(Heard(<<>>, {"ready"})) /\ UNCHANGED <<host, next, since>>

\* The host acknowledges the byte and asks for another, or does not.
I2cReadEnd ==
  /\ phy = "read" /\ phy' \in {"load", "nacked"}
  /\ Cmd(Silence) /\ UNCHANGED <<host, next, since>>

\* No SCL edge while the target holds a line: the bus is released.
I2cWatchdog ==
  /\ phy \in {"addr", "write", "load", "loaded", "read"}
  /\ phy' = "idle" /\ next' = NewFrame /\ since' = NewFrame[1]
  /\ Cmd(Heard(<<>>, {"abort", "renew"} \cup IF phy = "loaded" THEN {"ready"} ELSE {}))
  /\ UNCHANGED host

Next ==
  \/ Quiet \/ UartTx \/ UartByte \/ UartFramingError
  \/ UartBreak \/ UartRearm
  \/ I2cStart \/ I2cAddress \/ I2cByte \/ I2cStop \/ I2cLoad \/ I2cTaken
  \/ I2cReadEnd \/ I2cWatchdog

Spec == Init /\ [][Next]_vars

\* The clock runs and the debug module answers (Quiet), and the transmitter
\* ends its byte (UartTx); the host owes nothing.
FairSpec == Spec /\ WF_vars(Quiet) /\ WF_vars(UartTx)

-----------------------------------------------------------------------------
\* Every register keeps its range.
TypeOK ==
  /\ link \in {"uart", "i2c"} /\ polite \in BOOLEAN /\ phy \in Phases
  /\ next \in Bytes /\ fifo \in Seq(Bytes) /\ Len(fifo) <= DEPTH
  /\ state \in States /\ rxcnt \in 0 .. FrameLen - 2 /\ txcnt \in 0 .. ReplyLen - 1
  /\ abandoned \in BOOLEAN /\ rx_overrun \in BOOLEAN /\ abort_d \in BOOLEAN
  /\ inflight \in BOOLEAN /\ cur \in Nat /\ done \in Nat
  /\ sync \in Bytes /\ whole \in BOOLEAN /\ data \in Nat \cup {NoData}
  /\ loss \in {"none", "line", "overrun"} /\ since \in Nat /\ replies \in Nat
  /\ unseen \in BOOLEAN

\* No request is executed that the host did not send: one that starts at a real
\* SYNC is a whole frame, whatever was dropped, refused or aborted; one that
\* starts at a data byte equal to 0x55 follows a loss the host can know of.
WholeRequestsOnly ==
  state = "EXEC" => IF sync[2] = 0 THEN whole ELSE loss # "none"

\* A host that keeps the pipelining bound of the manual never overruns the
\* FIFO, however slow the DMI and the transmitter are.
WindowIsSafe == polite => loss # "overrun"

\* The answer being sent is the one its reader expects.  A UART host that lost
\* nothing gets the answers of its requests, each once and in the order sent,
\* also after breaks that dropped requests and answers; an I2C host reads the
\* answer of a request of this bus transaction, never one given up by a STOP, by
\* a repeated START or to the watchdog, also when it was still being fetched.
\* The data of an access is that of its own DMI transfer.
AnswerIsOwn ==
  state = "RESP" /\ ~abandoned /\ loss = "none" =>
    /\ IF link = "uart" THEN Req = since + replies ELSE Req >= since
    /\ data \in {NoData, Req}

\* No request is executed while a transfer is outstanding, its own or that of an
\* earlier one: the DMI master would answer it with the earlier's data.  Whatever
\* ends a request early (a resync, an abort in the cycle of the launch, a STOP)
\* drops its transfer or waits for it.
LaunchFindsIdle == state = "EXEC" => ~inflight

\* Bytes dropped since the last status word that told of a drop are on record,
\* also when the drop and the clearing of the flag fall in one cycle.
FlagTellsDrop == unseen => rx_overrun

\* Every request of a UART host that keeps the bound is answered, unless the
\* host reconnects or a byte is lost on the line.
RequestAnswered ==
  \A f \in 1 .. MaxFrames :
    (polite /\ next[1] > f /\ since <= f)
      ~> (since + replies > f \/ since > f \/ loss # "none")
=============================================================================
