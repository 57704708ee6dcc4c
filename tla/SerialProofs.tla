---------------------------- MODULE SerialProofs ----------------------------
(***************************************************************************)
(* What the serial command engine keeps for every FIFO depth, every number *)
(* of requests and both transports.  The argument: the FIFO and the byte   *)
(* the host sends next are one run of the host's stream (InOrder), because *)
(* whatever breaks the run empties the FIFO; so an engine that collects    *)
(* behind a real SYNC stays in step with its frame (Collecting), and one   *)
(* that lost nothing meets the next SYNC first (Aligned).  Its answers are *)
(* the host's own because in a run without a loss requests are counted one *)
(* by one (Numbered), nothing is pushed while the host reads (Reading) and *)
(* the data sent are those of the request executing (Fetched).  A polite   *)
(* host never fills the FIFO because the FIFO holds no more than the bytes *)
(* of the requests it has outstanding (Counted, Paced), less the one that  *)
(* the engine executes whenever it does not take bytes.                    *)
(***************************************************************************)
EXTENDS SerialCmd, TLAPS

\* The bytes of s follow one another in the host's stream, up to the byte n.
Linked(s, n) ==
  \A i \in 1 .. Len(s) : Following(s[i]) = IF i = Len(s) THEN n ELSE s[i + 1]
First(s, n) == IF s = <<>> THEN n ELSE Head(s)

InOrder == Linked(fifo, next)
Upcoming == First(fifo, next)

Collecting ==
  state = "RX" => IF sync[2] = 0 THEN whole /\ Upcoming = <<sync[1], rxcnt + 1>>
                  ELSE loss # "none"
Aligned == state # "RX" /\ loss = "none" => Upcoming[2] = 0

\* A transfer is in flight only while its request waits for it; the cycle after
\* an abort finds the engine at rest.
WaitedFor == (inflight => state = "WAIT") /\ (abort_d => state = "SYNC")

\* Only the phases of a write let bytes in, so what is answered while the host
\* reads is the one answer it reads; bytes of it taken are counted in txcnt.
Reading ==
  /\ phy = "uart" <=> link = "uart"
  /\ link = "uart" => ~abandoned
  /\ phy \notin {"uart", "write"} => fifo = <<>> /\ state # "RX"
  /\ phy = "loaded" => state \in {"SYNC", "RESP"}
  /\ phy \in {"read", "nacked"} => state = "SYNC" \/ (state = "RESP" /\ txcnt # 0)
  /\ next[1] >= since

\* A transfer waited for is that of the request, and so is the data captured.
Fetched ==
  /\ state = "WAIT" => cur = Req /\ (~inflight => done = Req)
  /\ data = NoData \/ (state = "RESP" /\ data = Req)

Executing == state \in {"EXEC", "WAIT", "RESP"}

\* While nothing is lost, the request a UART engine is at is the first not yet
\* answered, and that of an I2C engine is of this transaction.
Numbered ==
  loss = "none" =>
    IF link = "uart"
    THEN /\ state = "SYNC" => Upcoming[1] = since + replies
         /\ state # "SYNC" => sync[1] = since + replies
         /\ Executing => whole /\ Upcoming[1] = since + replies + 1
    ELSE /\ Upcoming[1] >= since
         /\ state = "RX" => sync[1] >= since
         /\ Executing /\ ~abandoned => whole /\ sync[1] >= since

\* The bytes in the FIFO are those between the next one to consume and the
\* next one to send, counted along the host's stream.
Place(b) == FrameLen * b[1] + b[2]
Counted == Len(fifo) = Place(next) - Place(Upcoming)

\* A polite host that lost nothing keeps its window, in the middle of a
\* request also with that one counted.
Paced ==
  polite => /\ link = "uart"
            /\ loss = "none" => /\ Outstanding <= Window
                                /\ next[2] # 0 => Outstanding < Window

IInv == /\ TypeOK /\ InOrder /\ Collecting /\ Aligned
        /\ WholeRequestsOnly /\ WaitedFor /\ FlagTellsDrop
        /\ Reading /\ Fetched /\ Numbered
        /\ Counted /\ Paced /\ WindowIsSafe

-----------------------------------------------------------------------------
(* What a step gives the engine.                                           *)

Inputs == [rx : {<<>>, <<next>>}, boundary : BOOLEAN, stop : BOOLEAN,
           error : BOOLEAN, abort : BOOLEAN, ready : BOOLEAN, renew : BOOLEAN]

Cut(in) == in.abort \/ in.boundary \/ in.error
Plain(in) == ~Cut(in) /\ ~in.stop /\ ~in.renew

\* The host sends a byte, or nothing, or the run of its bytes is cut.
Wire(in) ==
  \/ in.rx = <<next>> /\ Plain(in) /\ next' = Following(next)
  \/ in.rx = <<>> /\ Plain(in) /\ next' = next
  \/ /\ in.rx = <<>> /\ Cut(in)
     /\ next'[2] = 0 \/ (~in.renew /\ (in.error \/ loss # "none"))

\* What an event of either transport is to the engine, and to the host's count.
UartEvent(in) ==
  /\ link = "uart" /\ phy' = phy /\ ~in.stop /\ ~in.boundary
  /\ in.renew => in.abort /\ next'[2] = 0 /\ since' = next'[1]
  /\ ~in.renew => since' = since /\ next'[1] >= next[1]
                 /\ (in.abort => loss = "line")

I2cPlain(in) ==
  /\ Plain(in) /\ since' = since /\ next'[1] >= next[1]
  /\ phy' = "write" \/ (in.rx = <<>> /\ phy # "write")
  /\ phy' = "loaded" => state = "RESP" /\ ~in.ready
  /\ phy' \in {"read", "nacked"} =>
       (in.ready /\ phy = "loaded") \/ (~in.ready /\ phy \in {"read", "nacked"})

I2cStarts(in) ==
  /\ in.rx = <<>> /\ in.boundary /\ ~in.stop /\ ~in.abort /\ ~in.renew /\ phy' = "addr"
  /\ phy \notin {"load", "loaded"}
  /\ next'[1] >= next[1]
  /\ since' = IF phy \in {"read", "nacked"} THEN next'[1] ELSE since

I2cEnds(in) ==
  /\ in.rx = <<>> /\ in.renew /\ (in.abort \/ (in.boundary /\ in.stop))
  /\ phy' = "idle" /\ since' = next'[1]

Event(in) ==
  \/ UartEvent(in)
  \/ link = "i2c" /\ phy' # "uart" /\ (I2cPlain(in) \/ I2cStarts(in) \/ I2cEnds(in))

\* A polite host starts a request only inside its window.
InWindow(in) == polite /\ in.rx # <<>> /\ next[2] = 0 => Outstanding < Window

LEMMA FollowingType ==
  ASSUME NEW b \in Bytes
  PROVE  /\ Following(b) \in Bytes
         /\ b[2] # FrameLen - 1 => Following(b) = <<b[1], b[2] + 1>>
         /\ b[2] = FrameLen - 1 => Following(b)[2] = 0
         /\ b[2] = FrameLen - 1 => Following(b)[1] = b[1] + 1
         /\ Following(b)[1] >= b[1]
         /\ Place(Following(b)) = Place(b) + 1 /\ Place(b) \in Nat
BY DEF Following, Bytes, FrameLen, Place

LEMMA NewFrameType ==
  ASSUME next \in Bytes
  PROVE  NewFrame \in Bytes /\ NewFrame[2] = 0 /\ NewFrame[1] \in Nat
         /\ NewFrame[1] >= next[1]
BY DEF NewFrame, Bytes, FrameLen

LEMMA HeardType ==
  ASSUME NEW bytes \in {<<>>, <<next>>}, NEW on
  PROVE  Heard(bytes, on) \in Inputs
BY DEF Heard, Inputs

LEMMA StepIsCycle ==
  ASSUME TypeOK, phy = "uart" <=> link = "uart", polite => link = "uart", Next
  PROVE  \E in \in Inputs : /\ Cmd(in) /\ Wire(in) /\ Event(in) /\ InWindow(in)
                            /\ next' \in Bytes /\ since' \in Nat
                            /\ phy' \in Phases /\ UNCHANGED host
<1>1. next \in Bytes /\ since \in Nat /\ phy \in Phases /\ link \in {"uart", "i2c"}
      /\ next[1] \in Nat /\ next[1] >= next[1]
  BY DEF TypeOK, Bytes
<1>2. NewFrame \in Bytes /\ NewFrame[2] = 0 /\ NewFrame[1] \in Nat
      /\ NewFrame[1] >= next[1]
  BY <1>1, NewFrameType
<1>3. Following(next) \in Bytes /\ Following(next)[1] >= next[1]
  BY <1>1, FollowingType
<1>4. \A on : Heard(<<>>, on) \in Inputs /\ Heard(<<next>>, on) \in Inputs
  BY HeardType
<1>5. CASE Quiet
  BY <1>1, <1>4, <1>5 DEF InWindow, Quiet, Clocked, Wire, Plain, Cut, host, Silence, Heard,
     Event, UartEvent, I2cPlain, I2cStarts, I2cEnds
<1>6. CASE UartTx
  BY <1>1, <1>4, <1>6 DEF InWindow, UartTx, Clocked, Wire, Plain, Cut, host, Heard,
     Event, UartEvent, I2cPlain, I2cStarts, I2cEnds
<1>7. CASE UartByte
  BY <1>1, <1>3, <1>4, <1>7 DEF InWindow, UartByte, UartHost, Wire, Plain, Cut, host, Heard,
     Event, UartEvent, I2cPlain, I2cStarts, I2cEnds
<1>8. CASE UartFramingError
  BY <1>1, <1>3, <1>4, <1>8 DEF InWindow, UartFramingError, UartHost, Wire, Cut, host, Heard,
     Event, UartEvent, I2cPlain, I2cStarts, I2cEnds
<1>9. CASE UartBreak
  BY <1>1, <1>2, <1>4, <1>9 DEF InWindow, UartBreak, Wire, Cut, host, Heard,
     Event, UartEvent, I2cPlain, I2cStarts, I2cEnds
<1>10. CASE UartRearm
  <2>1. next' \in Bytes /\ next'[1] >= next[1]
    BY <1>1, <1>10 DEF UartRearm, Bytes
  <2> QED BY <1>1, <1>4, <1>10, <2>1 DEF InWindow, UartRearm, UartHost, Wire, Cut, host, Heard,
     Event, UartEvent, I2cPlain, I2cStarts, I2cEnds
<1>11. CASE I2cStart
  BY <1>1, <1>2, <1>4, <1>11 DEF InWindow, I2cStart, Wire, Cut, host, Heard,
     Event, UartEvent, I2cPlain, I2cStarts, I2cEnds, Phases
<1>12. CASE I2cAddress
  BY <1>1, <1>4, <1>12 DEF InWindow, I2cAddress, Wire, Plain, Cut, host, Silence, Heard,
     Event, UartEvent, I2cPlain, I2cStarts, I2cEnds, Phases
<1>13. CASE I2cByte
  BY <1>1, <1>3, <1>4, <1>13 DEF InWindow, I2cByte, Wire, Plain, Cut, host, Heard,
     Event, UartEvent, I2cPlain, I2cStarts, I2cEnds
<1>14. CASE I2cStop
  BY <1>1, <1>2, <1>4, <1>14 DEF InWindow, I2cStop, Wire, Cut, host, Heard,
     Event, UartEvent, I2cPlain, I2cStarts, I2cEnds, Phases
<1>15. CASE I2cLoad
  BY <1>1, <1>4, <1>15 DEF InWindow, I2cLoad, Wire, Plain, Cut, host, Silence, Heard,
     Event, UartEvent, I2cPlain, I2cStarts, I2cEnds, Phases
<1>16. CASE I2cTaken
  BY <1>1, <1>4, <1>16 DEF InWindow, I2cTaken, Wire, Plain, Cut, host, Heard,
     Event, UartEvent, I2cPlain, I2cStarts, I2cEnds, Phases
<1>17. CASE I2cReadEnd
  BY <1>1, <1>4, <1>17 DEF InWindow, I2cReadEnd, Wire, Plain, Cut, host, Silence, Heard,
     Event, UartEvent, I2cPlain, I2cStarts, I2cEnds, Phases
<1>18. CASE I2cWatchdog
  BY <1>1, <1>2, <1>4, <1>18 DEF InWindow, I2cWatchdog, Wire, Cut, host, Heard,
     Event, UartEvent, I2cPlain, I2cStarts, I2cEnds, Phases
<1> QED
  BY <1>5, <1>6, <1>7, <1>8, <1>9, <1>10, <1>11, <1>12, <1>13, <1>14, <1>15,
     <1>16, <1>17, <1>18 DEF Next

-----------------------------------------------------------------------------
(* The FIFO.                                                               *)

LEMMA EmptyOrHead ==
  ASSUME NEW s \in Seq(Bytes)
  PROVE  /\ Len(s) = 0 => s = <<>>
         /\ Len(s) >= 1 => s # <<>> /\ Head(s) = s[1]
OBVIOUS

LEMMA PopLinked ==
  ASSUME NEW s \in Seq(Bytes), NEW n \in Bytes, s # <<>>, Linked(s, n)
  PROVE  /\ Tail(s) \in Seq(Bytes) /\ Len(Tail(s)) = Len(s) - 1
         /\ Linked(Tail(s), n)
         /\ First(Tail(s), n) = Following(Head(s))
<1>1. Len(s) \in Nat /\ Len(s) >= 1 /\ Head(s) = s[1]
  OBVIOUS
<1>2. Tail(s) \in Seq(Bytes) /\ Len(Tail(s)) = Len(s) - 1
  OBVIOUS
<1>3. ASSUME NEW i \in 1 .. Len(s) - 1 PROVE Tail(s)[i] = s[i + 1]
  OBVIOUS
<1>4. ASSUME NEW i \in 1 .. Len(s)
      PROVE  Following(s[i]) = IF i = Len(s) THEN n ELSE s[i + 1]
  BY DEF Linked
<1>5. Linked(Tail(s), n)
  <2>1. SUFFICES ASSUME NEW i \in 1 .. Len(Tail(s))
                 PROVE  Following(Tail(s)[i]) =
                          IF i = Len(Tail(s)) THEN n ELSE Tail(s)[i + 1]
    BY DEF Linked
  <2>2. i \in 1 .. Len(s) - 1 /\ Tail(s)[i] = s[i + 1]
    BY <1>1, <1>2, <1>3
  <2>3. Following(s[i + 1]) = IF i + 1 = Len(s) THEN n ELSE s[i + 2]
    BY <1>1, <1>4, <2>2
  <2>4. CASE i + 1 = Len(s)
    BY <1>1, <1>2, <2>2, <2>3, <2>4
  <2>5. CASE i + 1 # Len(s)
    <3>1. i + 1 \in 1 .. Len(s) - 1 /\ (i + 1) + 1 = i + 2
      BY <1>1, <2>2, <2>5
    <3>2. Tail(s)[i + 1] = s[i + 2]
      BY <1>3, <3>1
    <3>3. i # Len(Tail(s))
      <4>1. i # Len(s) - 1
        BY <1>1, <2>2, <2>5
      <4> QED BY <1>2, <4>1, Zenon
    <3>4. Following(s[i + 1]) = s[i + 2]
      BY <2>3, <2>5
    <3> QED BY <2>2, <3>2, <3>3, <3>4, Zenon
  <2> QED BY <2>4, <2>5
<1>6. Following(Head(s)) = IF 1 = Len(s) THEN n ELSE s[2]
  <2>1. 1 \in 1 .. Len(s) /\ 1 + 1 = 2
    BY <1>1
  <2>2. Following(s[1]) = IF 1 = Len(s) THEN n ELSE s[1 + 1]
    BY <1>4, <2>1
  <2> QED BY <1>1, <2>1, <2>2
<1>7. CASE Len(s) = 1
  <2>1. Tail(s) = <<>>
    <3>1. Len(Tail(s)) = 0
      BY <1>2, <1>7
    <3> QED BY <1>2, <3>1, EmptyOrHead, Zenon
  <2> QED BY <1>2, <1>5, <1>6, <1>7, <2>1 DEF First
<1>8. CASE Len(s) # 1
  <2>1. 1 \in 1 .. Len(s) - 1 /\ 1 + 1 = 2 /\ Len(Tail(s)) >= 1
    BY <1>1, <1>2, <1>8
  <2>2. Tail(s)[1] = s[2]
    BY <1>3, <2>1
  <2>3. Tail(s) # <<>> /\ Head(Tail(s)) = Tail(s)[1]
    BY <1>2, <2>1, EmptyOrHead
  <2> QED BY <1>2, <1>5, <1>6, <1>8, <2>2, <2>3 DEF First
<1> QED BY <1>7, <1>8

LEMMA PushLinked ==
  ASSUME NEW s \in Seq(Bytes), NEW n \in Bytes, Linked(s, n)
  PROVE  /\ s \o <<n>> \in Seq(Bytes) /\ Len(s \o <<n>>) = Len(s) + 1
         /\ Linked(s \o <<n>>, Following(n))
         /\ First(s \o <<n>>, Following(n)) = First(s, n)
<1> DEFINE t == s \o <<n>>
<1>1. /\ t \in Seq(Bytes) /\ Len(s) \in Nat /\ Len(t) = Len(s) + 1
      /\ \A i \in 1 .. Len(s) : t[i] = s[i]
      /\ t[Len(s) + 1] = n
  OBVIOUS
<1>2. Linked(t, Following(n))
  <2>1. SUFFICES ASSUME NEW i \in 1 .. Len(t)
                 PROVE  Following(t[i]) = IF i = Len(t) THEN Following(n) ELSE t[i + 1]
    BY DEF Linked
  <2>2. CASE i = Len(t)
    BY <1>1, <2>2
  <2>3. CASE i = Len(s)
    BY <1>1, <2>3 DEF Linked
  <2>4. CASE i < Len(s)
    BY <1>1, <2>4 DEF Linked
  <2> QED BY <1>1, <2>2, <2>3, <2>4
<1>3. First(t, Following(n)) = First(s, n)
  <2>1. t # <<>> /\ Head(t) = t[1]
    BY <1>1
  <2>2. CASE s = <<>>
    BY <1>1, <2>1, <2>2 DEF First
  <2>3. CASE s # <<>>
    BY <1>1, <2>1, <2>3 DEF First
  <2> QED BY <2>2, <2>3
<1> QED BY <1>1, <1>2, <1>3

\* What a cycle does to the FIFO: it is emptied, or it stays in step.
LEMMA FifoStep ==
  ASSUME TypeOK, InOrder, NEW in \in Inputs, Wire(in), next' \in Bytes,
         fifo' = FifoNext(in), link' = link
  PROVE  /\ fifo' \in Seq(Bytes) /\ Len(fifo') <= DEPTH'
         /\ InOrder'
         /\ Cut(in) \/ fifo_overrun(in) => fifo' = <<>> /\ Upcoming' = next'
         /\ ~Cut(in) /\ ~fifo_overrun(in) =>
              Upcoming' = IF rx_take THEN Following(Upcoming) ELSE Upcoming
         /\ Counted => Counted'
<1>1. /\ next \in Bytes /\ fifo \in Seq(Bytes) /\ Len(fifo) <= DEPTH
      /\ DEPTH \in Nat /\ DEPTH' = DEPTH
  BY SerialAssumption DEF TypeOK, DEPTH
<1>2. CASE fifo_flush(in)
  <2>1. fifo' = <<>>
    BY <1>2 DEF FifoNext
  <2>2. Cut(in) \/ fifo_overrun(in)
    BY <1>2 DEF fifo_flush, Cut, Wire, Plain
  <2>3. Counted'
    <3>1. Place(next') \in Nat /\ Len(<<>>) = 0
      BY FollowingType
    <3>2. fifo' = <<>> /\ Upcoming' = next'
      BY <2>1 DEF Upcoming, First
    <3> QED BY <3>1, <3>2 DEF Counted, Place
  <2> QED BY <1>1, <2>1, <2>2, <2>3 DEF InOrder, Linked, Upcoming, First
<1>3. CASE ~fifo_flush(in)
  <2> DEFINE t == IF rx_take THEN Tail(fifo) ELSE fifo
  <2>1. ~Cut(in) /\ ~fifo_overrun(in) /\ Plain(in)
    BY <1>3 DEF fifo_flush, Cut, Wire
  <2>2. fifo' = t \o (IF room THEN in.rx ELSE <<>>)
    BY <1>3 DEF FifoNext
  <2>3. /\ t \in Seq(Bytes) /\ Linked(t, next)
        /\ First(t, next) = IF rx_take THEN Following(Upcoming) ELSE Upcoming
        /\ Len(t) = IF rx_take THEN Len(fifo) - 1 ELSE Len(fifo)
    <3>1. CASE rx_take
      <4>1. fifo # <<>>
        BY <3>1 DEF rx_take
      <4> QED BY <1>1, <3>1, <4>1, PopLinked DEF InOrder, Upcoming, First
    <3>2. CASE ~rx_take
      BY <1>1, <3>2 DEF InOrder, Upcoming
    <3> QED BY <3>1, <3>2
  <2>6. Counted => Len(t) = Place(next) - Place(First(t, next))
    <3> SUFFICES ASSUME Counted PROVE Len(t) = Place(next) - Place(First(t, next))
      OBVIOUS
    <3>1. Upcoming \in Bytes
      BY <1>1, EmptyOrHead DEF Upcoming, First
    <3>2. /\ Place(Upcoming) \in Nat /\ Place(next) \in Nat /\ Len(fifo) \in Nat
          /\ Place(Following(Upcoming)) = Place(Upcoming) + 1
      BY <1>1, <3>1, FollowingType
    <3> QED BY <2>3, <3>2 DEF Counted
  <2> HIDE DEF t
  <2>4. CASE in.rx = <<>>
    <3>1. fifo' = t
      BY <2>2, <2>3, <2>4
    <3>2. next' = next
      BY <2>1, <2>4 DEF Wire, Plain
    <3>3. Len(t) = Place(next) - Place(First(t, next)) => Counted'
      BY <3>1, <3>2 DEF Counted, Upcoming, Place
    <3> QED BY <1>1, <2>1, <2>3, <2>6, <3>1, <3>2, <3>3 DEF InOrder, Upcoming
  <2>5. CASE in.rx = <<next>>
    <3>1. room
      BY <2>1, <2>5 DEF fifo_overrun
    <3>2. fifo' = t \o <<next>> /\ next' = Following(next)
      BY <2>1, <2>2, <2>5, <3>1 DEF Wire
    <3>3. Len(t) + 1 <= DEPTH
      BY <1>1, <2>3, <3>1 DEF room
    <3>4. /\ Len(fifo') = Len(t) + 1 /\ Upcoming' = First(t, next)
          /\ Place(next') = Place(next) + 1
      BY <1>1, <2>3, <3>2, PushLinked, FollowingType DEF Upcoming, Place
    <3>5. Len(t) = Place(next) - Place(First(t, next)) => Counted'
      <4>1. First(t, next) \in Bytes /\ Place(next) \in Nat
        BY <1>1, <2>3, EmptyOrHead, FollowingType DEF First
      <4> QED BY <1>1, <2>3, <3>4, <4>1, FollowingType DEF Counted, Place
    <3> QED BY <1>1, <2>1, <2>3, <2>6, <3>2, <3>3, <3>5, PushLinked DEF InOrder, Upcoming
  <2> QED BY <2>4, <2>5 DEF Wire
<1> QED BY <1>2, <1>3

-----------------------------------------------------------------------------
(* The state machine.                                                      *)

LEMMA StateNextIs ==
  ASSUME NEW op, NEW looks, NEW in
  PROVE  /\ state = "SYNC" =>
              StateNext(op, looks, in) = IF rx_take /\ IsSync(looks) THEN "RX" ELSE "SYNC"
         /\ state = "RX" =>
              StateNext(op, looks, in) =
                IF rx_take /\ rxcnt = FrameLen - 2 THEN "EXEC" ELSE "RX"
         /\ state = "EXEC" =>
              StateNext(op, looks, in) =
                IF op = "access" /\ ~inflight THEN "WAIT" ELSE "RESP"
         /\ state = "WAIT" => StateNext(op, looks, in) \in {"WAIT", "SYNC", "RESP"}
         /\ state = "WAIT" /\ inflight => StateNext(op, looks, in) = "WAIT"
         /\ state = "RESP" => StateNext(op, looks, in) \in {"SYNC", "RESP"}
BY DEF StateNext

LEMMA CycleType ==
  ASSUME TypeOK, InOrder, NEW in \in Inputs, Cmd(in), Wire(in), next' \in Bytes,
         since' \in Nat, phy' \in Phases, UNCHANGED host
  PROVE  TypeOK'
<1>1. PICK op \in Ops, looks \in BOOLEAN :
        /\ fifo' = FifoNext(in)
        /\ Fsm(op, looks, in)
        /\ DmiLink(op, in)
        /\ Provenance(op, in)
        /\ Bookkeeping(op, in)
  BY DEF Cmd
<1>2. /\ state \in States /\ rxcnt \in 0 .. FrameLen - 2 /\ txcnt \in 0 .. ReplyLen - 1
      /\ sync \in Bytes /\ cur \in Nat /\ done \in Nat /\ fifo \in Seq(Bytes)
      /\ replies \in Nat /\ data \in Nat \cup {NoData}
      /\ loss \in {"none", "line", "overrun"}
  BY DEF TypeOK
<1>3. abandoned \in BOOLEAN /\ rx_overrun \in BOOLEAN /\ inflight \in BOOLEAN
      /\ whole \in BOOLEAN /\ unseen \in BOOLEAN /\ in.abort \in BOOLEAN
      /\ in.stop \in BOOLEAN
  BY DEF TypeOK, Inputs
<1>4. fifo' \in Seq(Bytes) /\ Len(fifo') <= DEPTH'
  BY <1>1, FifoStep DEF host
<1>5. state' \in States
  BY <1>1, <1>2, StateNextIs DEF Fsm, States
<1>6. rxcnt' \in 0 .. FrameLen - 2 /\ txcnt' \in 0 .. ReplyLen - 1
  BY <1>1, <1>2 DEF Fsm, FrameLen, ReplyLen, ReplySent, tx_xfer
<1>7. abandoned' \in BOOLEAN /\ rx_overrun' \in BOOLEAN /\ abort_d' \in BOOLEAN
      /\ inflight' \in BOOLEAN /\ unseen' \in BOOLEAN
  BY <1>1, <1>3 DEF Fsm, AbandonedNext, OverrunFlagNext, DmiLink, Bookkeeping
<1>8. sync' \in Bytes /\ whole' \in BOOLEAN
  <2>1. NoByte \in Bytes
    BY DEF NoByte, Bytes, FrameLen
  <2>2. state = "SYNC" /\ state' # "SYNC" => fifo # <<>>
    BY <1>1, StateNextIs DEF Fsm, rx_take
  <2>3. fifo # <<>> => Head(fifo) \in Bytes
    BY <1>2
  <2> QED BY <1>1, <1>2, <1>3, <2>1, <2>2, <2>3 DEF Provenance
<1>9. cur' \in Nat /\ done' \in Nat
  <2>1. Req \in Nat
    BY <1>2 DEF Req, Bytes
  <2> QED BY <1>1, <1>2, <2>1 DEF DmiLink
<1>10. data' \in Nat \cup {NoData}
  BY <1>1, <1>2 DEF Provenance
<1>11. loss' \in {"none", "line", "overrun"} /\ replies' \in Nat
  BY <1>1, <1>2 DEF Bookkeeping
<1>12. link' \in {"uart", "i2c"} /\ polite' \in BOOLEAN
  BY DEF TypeOK, host
<1> QED
  BY <1>4, <1>5, <1>6, <1>7, <1>8, <1>9, <1>10, <1>11, <1>12 DEF TypeOK

\* The engine stays in step with the host's stream.
LEMMA CycleInStep ==
  ASSUME TypeOK, InOrder, Collecting, Aligned, NEW in \in Inputs, Cmd(in),
         Wire(in), next' \in Bytes, UNCHANGED host
  PROVE  InOrder' /\ Collecting' /\ Aligned' /\ WholeRequestsOnly'
<1>1. PICK op \in Ops, looks \in BOOLEAN :
        /\ looks => state = "SYNC" /\ fifo # <<>>
        /\ fifo' = FifoNext(in)
        /\ Fsm(op, looks, in)
        /\ Provenance(op, in)
        /\ Bookkeeping(op, in)
  BY DEF Cmd
<1>2. /\ state \in States /\ rxcnt \in 0 .. FrameLen - 2
      /\ sync \in Bytes /\ fifo \in Seq(Bytes) /\ next \in Bytes
      /\ whole \in BOOLEAN
  BY DEF TypeOK
<1>3. /\ InOrder'
      /\ Cut(in) \/ fifo_overrun(in) => fifo' = <<>> /\ Upcoming' = next'
      /\ ~Cut(in) /\ ~fifo_overrun(in) =>
           Upcoming' = IF rx_take THEN Following(Upcoming) ELSE Upcoming
  BY <1>1, FifoStep DEF host
<1>4. rx_take => Upcoming = Head(fifo) /\ Upcoming \in Bytes
  BY <1>2 DEF rx_take, Upcoming, First
<1>5. state \in {"RX", "SYNC"} /\ (Cut(in) \/ fifo_overrun(in)) => state' = "SYNC"
  BY <1>1 DEF Fsm, Resync, RequestResync, Cut
<1>6. Cut(in) \/ fifo_overrun(in) => loss' # "none" \/ next'[2] = 0
  <2>1. CASE Cut(in)
    BY <1>1, <2>1 DEF Wire, Plain, Bookkeeping
  <2>2. CASE ~Cut(in) /\ fifo_overrun(in)
    BY <1>1, <2>2 DEF Wire, Plain, Bookkeeping
  <2> QED BY <2>1, <2>2
<1>7. ~Cut(in) /\ ~fifo_overrun(in) => loss' = loss /\ ~in.stop
  BY <1>1 DEF Wire, Plain, Cut, Bookkeeping
<1>8. state \in {"EXEC", "WAIT", "RESP"} => state' \in {"WAIT", "RESP", "SYNC"}
  BY <1>1, StateNextIs DEF Fsm
<1>9. CASE Cut(in) \/ fifo_overrun(in)
  <2>1. state' \in {"WAIT", "RESP", "SYNC"}
    BY <1>2, <1>5, <1>8, <1>9 DEF States
  <2> QED BY <1>3, <1>6, <1>9, <2>1 DEF Collecting, Aligned, WholeRequestsOnly
<1>10. CASE ~Cut(in) /\ ~fifo_overrun(in) /\ state = "RX"
  <2>1. ~Resync(in)
    BY <1>7, <1>10 DEF Cut, Resync, RequestResync, AnswerResync
  <2>2. CASE ~rx_take
    <3>1. state' = "RX" /\ rxcnt' = rxcnt /\ sync' = sync /\ whole' = whole
      BY <1>1, <1>10, <2>1, <2>2, StateNextIs DEF Fsm, Provenance, Resync
    <3>2. Upcoming' = Upcoming
      BY <1>3, <1>10, <2>2
    <3> QED BY <1>3, <1>7, <1>10, <3>1, <3>2 DEF Collecting, Aligned, WholeRequestsOnly
  <2>3. CASE rx_take
    <3>1. Upcoming' = Following(Upcoming) /\ Upcoming = Head(fifo) /\ Upcoming \in Bytes
      BY <1>3, <1>4, <1>10, <2>3
    <3>2. sync' = sync /\ state' = IF rxcnt = FrameLen - 2 THEN "EXEC" ELSE "RX"
      BY <1>1, <1>10, <2>1, <2>3, StateNextIs DEF Fsm, Provenance
    <3>3. whole' = (whole /\ Upcoming = <<sync[1], rxcnt + 1>>)
      BY <1>1, <1>10, <2>3, <3>1, <3>2 DEF Provenance
    <3>4. rxcnt # FrameLen - 2 => rxcnt' = rxcnt + 1
      BY <1>1, <1>10, <2>1, <2>3 DEF Fsm, Resync
    <3>5. CASE sync[2] # 0
      <4>1. loss' # "none"
        BY <1>7, <1>10, <3>5 DEF Collecting
      <4> QED BY <1>3, <3>2, <3>5, <4>1 DEF Collecting, Aligned, WholeRequestsOnly
    <3>6. CASE sync[2] = 0
      <4>1. whole /\ Upcoming = <<sync[1], rxcnt + 1>>
        BY <1>10, <3>6 DEF Collecting
      <4>2. whole'
        BY <3>3, <4>1
      <4>3. CASE rxcnt = FrameLen - 2
        <5>1. Upcoming[2] = FrameLen - 1
          BY <4>1, <4>3 DEF FrameLen
        <5>2. Upcoming'[2] = 0
          BY <3>1, <5>1, FollowingType
        <5> QED BY <1>3, <3>2, <3>6, <4>2, <4>3, <5>2 DEF Collecting, Aligned, WholeRequestsOnly
      <4>4. CASE rxcnt # FrameLen - 2
        <5>1. Upcoming[2] # FrameLen - 1
          BY <1>2, <4>1, <4>4 DEF FrameLen
        <5>2. Upcoming' = <<sync[1], (rxcnt + 1) + 1>>
          BY <3>1, <4>1, <5>1, FollowingType
        <5> QED
          BY <1>3, <3>2, <3>4, <3>6, <4>2, <4>4, <5>2 DEF Collecting, Aligned, WholeRequestsOnly
      <4> QED BY <4>3, <4>4
    <3> QED BY <3>5, <3>6
  <2> QED BY <2>2, <2>3
<1>11. CASE ~Cut(in) /\ ~fifo_overrun(in) /\ state = "SYNC"
  <2>1. ~Resync(in)
    BY <1>7, <1>11 DEF Cut, Resync, RequestResync, AnswerResync
  <2>2. state' = IF rx_take /\ IsSync(looks) THEN "RX" ELSE "SYNC"
    BY <1>1, <1>11, <2>1, StateNextIs DEF Fsm
  <2>3. CASE ~rx_take
    <3>1. Upcoming' = Upcoming
      BY <1>3, <1>11, <2>3
    <3> QED BY <1>3, <1>7, <1>11, <2>2, <2>3, <3>1 DEF Collecting, Aligned, WholeRequestsOnly
  <2>4. CASE rx_take /\ ~IsSync(looks)
    <3>1. Head(fifo)[2] # 0
      BY <2>4 DEF IsSync
    <3>2. loss' # "none"
      BY <1>4, <1>7, <1>11, <2>4, <3>1 DEF Aligned
    <3> QED BY <1>3, <2>2, <2>4, <3>2 DEF Collecting, Aligned, WholeRequestsOnly
  <2>5. CASE rx_take /\ IsSync(looks)
    <3>1. Upcoming' = Following(Upcoming) /\ Upcoming = Head(fifo) /\ Upcoming \in Bytes
      BY <1>3, <1>4, <1>11, <2>5
    <3>2. state' = "RX" /\ sync' = Upcoming /\ whole' = (Upcoming[2] = 0) /\ rxcnt' = 0
      BY <1>1, <1>11, <2>1, <2>2, <2>5, <3>1, StateNextIs DEF Fsm, Provenance, Resync
    <3>3. CASE Upcoming[2] = 0
      <4>1. Upcoming' = <<Upcoming[1], 0 + 1>>
        BY <3>1, <3>3, FollowingType DEF FrameLen
      <4> QED BY <1>3, <3>2, <3>3, <4>1 DEF Collecting, Aligned, WholeRequestsOnly
    <3>4. CASE Upcoming[2] # 0
      <4>1. loss' # "none"
        BY <1>7, <1>11, <3>4 DEF Aligned
      <4> QED BY <1>3, <3>2, <3>4, <4>1 DEF Collecting, Aligned, WholeRequestsOnly
    <3> QED BY <3>3, <3>4
  <2> QED BY <2>3, <2>4, <2>5
<1>12. CASE ~Cut(in) /\ ~fifo_overrun(in) /\ state \in {"EXEC", "WAIT", "RESP"}
  <2>1. Upcoming' = Upcoming
    BY <1>3, <1>12 DEF rx_take
  <2> QED BY <1>3, <1>7, <1>8, <1>12, <2>1 DEF Collecting, Aligned, WholeRequestsOnly
<1> QED BY <1>2, <1>9, <1>10, <1>11, <1>12 DEF States

\* A transfer never outlives the wait of its request, and no drop is forgotten.
LEMMA CycleWaits ==
  ASSUME TypeOK, WaitedFor, FlagTellsDrop, NEW in \in Inputs, Cmd(in)
  PROVE  WaitedFor' /\ FlagTellsDrop'
<1>1. PICK op \in Ops, looks \in BOOLEAN :
        Fsm(op, looks, in) /\ DmiLink(op, in) /\ Bookkeeping(op, in)
  BY DEF Cmd
<1>2. in.abort \in BOOLEAN /\ abort_d \in BOOLEAN /\ inflight \in BOOLEAN
      /\ rx_overrun \in BOOLEAN /\ unseen \in BOOLEAN
  BY DEF TypeOK, Inputs
<1>3. abort_d' => state' = "SYNC"
  BY <1>1, <1>2 DEF Fsm, Resync
<1>4. CASE launch(op, in)
  <2>1. StateNext(op, looks, in) = "WAIT" /\ ~Resync(in)
    BY <1>4, StateNextIs DEF launch, Resync, RequestResync, AnswerResync
  <2>2. state' = "WAIT"
    BY <1>1, <2>1 DEF Fsm
  <2> QED BY <1>1, <1>2, <1>3, <2>2 DEF WaitedFor, FlagTellsDrop, Fsm, Bookkeeping, OverrunFlagNext
<1>5. CASE ~launch(op, in)
  <2>1. inflight' => inflight /\ state = "WAIT" /\ ~abort_d /\ ~in.abort
    BY <1>1, <1>2, <1>5 DEF DmiLink, WaitedFor, hardreset
  <2>2. inflight' => state' = "WAIT"
    BY <1>1, <2>1, StateNextIs DEF Fsm, Resync, RequestResync, AnswerResync
  <2> QED BY <1>1, <1>2, <1>3, <2>2 DEF WaitedFor, FlagTellsDrop, Fsm, Bookkeeping, OverrunFlagNext
<1> QED BY <1>4, <1>5

-----------------------------------------------------------------------------
(* Whose the answer is.                                                    *)

\* The parts of a cycle that say whose request the engine is at.
LEMMA CycleFetches ==
  ASSUME TypeOK, WaitedFor, Fetched, NEW in \in Inputs, Cmd(in)
  PROVE  Fetched'
<1>1. PICK op \in Ops, looks \in BOOLEAN :
        Fsm(op, looks, in) /\ DmiLink(op, in) /\ Provenance(op, in)
  BY DEF Cmd
<1>2. state \in States /\ inflight \in BOOLEAN /\ in.abort \in BOOLEAN
  BY DEF TypeOK, Inputs
<1>3. state' # "SYNC" /\ state \in {"EXEC", "WAIT", "RESP"} => Req' = Req
  BY <1>1 DEF Provenance, Req
<1>4. state' = "WAIT" => cur' = Req' /\ (~inflight' => done' = Req')
  <2> SUFFICES ASSUME state' = "WAIT"
               PROVE  cur' = Req' /\ (~inflight' => done' = Req')
    OBVIOUS
  <2>1. ~in.abort /\ StateNext(op, looks, in) = "WAIT"
    BY <1>1, <1>2 DEF Fsm, Resync
  <2>2. CASE state = "EXEC"
    <3>1. launch(op, in)
      BY <2>1, <2>2, StateNextIs DEF launch
    <3> QED BY <1>1, <1>3, <2>2, <3>1 DEF DmiLink
  <2>3. CASE state = "WAIT"
    <3>1. inflight /\ ~launch(op, in) /\ ~hardreset(op, in)
      BY <2>1, <2>3 DEF StateNext, launch, hardreset
    <3>2. cur' = cur /\ (~inflight' => done' = cur)
      BY <1>1, <1>2, <3>1 DEF DmiLink
    <3> QED BY <1>3, <2>3, <3>2 DEF Fetched
  <2> QED BY <1>2, <2>1, <2>2, <2>3, StateNextIs DEF States
<1>5. data' = NoData \/ (state' = "RESP" /\ data' = Req')
  <2> SUFFICES ASSUME state' = "RESP" PROVE data' = NoData \/ data' = Req'
    BY <1>1 DEF Provenance
  <2>1. StateNext(op, looks, in) = "RESP"
    BY <1>1 DEF Fsm
  <2>2. CASE state = "WAIT"
    <3>1. ~inflight /\ data' = done
      BY <1>1, <2>1, <2>2, StateNextIs DEF Provenance
    <3> QED BY <1>3, <2>2, <3>1 DEF Fetched
  <2>3. CASE state # "WAIT"
    <3>1. data' = data /\ state \in {"EXEC", "RESP"}
      BY <1>1, <1>2, <2>1, <2>3, StateNextIs DEF Provenance, States
    <3> QED BY <1>3, <3>1 DEF Fetched
  <2> QED BY <2>2, <2>3
<1> QED BY <1>4, <1>5 DEF Fetched

\* Which states of the engine can follow which.
LEMMA Moves ==
  ASSUME TypeOK, NEW in \in Inputs, NEW op, NEW looks, Fsm(op, looks, in)
  PROVE  /\ state = "SYNC" => state' \in {"SYNC", "RX"}
         /\ state = "RX" => state' \in {"SYNC", "RX", "EXEC"}
         /\ Executing => state' \in {"SYNC", "WAIT", "RESP"}
         /\ state' = "RX" => ~(Cut(in) \/ fifo_overrun(in))
         /\ in.boundary /\ state' # "SYNC" => Executing
<1>1. state \in States /\ in.abort \in BOOLEAN /\ in.boundary \in BOOLEAN
      /\ in.error \in BOOLEAN
  BY DEF TypeOK, Inputs
<1>2. state = "SYNC" => state' \in {"SYNC", "RX"}
  BY StateNextIs DEF Fsm
<1>3. state = "RX" => state' \in {"SYNC", "RX", "EXEC"}
  BY StateNextIs DEF Fsm
<1>4. Executing => state' \in {"SYNC", "WAIT", "RESP"}
  BY StateNextIs DEF Fsm, Executing
<1>5. state \in {"SYNC", "RX"} /\ (Cut(in) \/ fifo_overrun(in)) => state' = "SYNC"
  BY DEF Fsm, Resync, RequestResync, Cut
<1> QED BY <1>1, <1>2, <1>3, <1>4, <1>5 DEF States, Executing, Cut

\* While the host reads an answer nothing is pushed and no request collected.
LEMMA CycleReads ==
  ASSUME TypeOK, InOrder, Reading, NEW in \in Inputs, Cmd(in), Wire(in), Event(in),
         next' \in Bytes, since' \in Nat, UNCHANGED host
  PROVE  Reading'
<1>1. PICK op \in Ops, looks \in BOOLEAN :
        Fsm(op, looks, in) /\ fifo' = FifoNext(in)
  BY DEF Cmd
<1>2. /\ state \in States /\ link \in {"uart", "i2c"} /\ abandoned \in BOOLEAN
      /\ in.stop \in BOOLEAN /\ next[1] \in Nat /\ since \in Nat /\ next'[1] \in Nat
      /\ txcnt \in 0 .. ReplyLen - 1 /\ fifo \in Seq(Bytes)
  BY DEF TypeOK, Inputs, Bytes
<1>3. link' = link
  BY DEF host
<1>4. phy' = "uart" <=> link' = "uart"
  BY <1>3 DEF Event, UartEvent, Reading
<1>5. link' = "uart" => ~abandoned'
  BY <1>1, <1>2, <1>3 DEF Event, UartEvent, Reading, Fsm, AbandonedNext
<1>6. next'[1] >= since'
  BY <1>2 DEF Event, UartEvent, I2cPlain, I2cStarts, I2cEnds, Reading
\* With an empty FIFO the engine stays where it hunts a SYNC.
<1>7. fifo = <<>> /\ state # "RX" =>
        /\ state' # "RX" /\ (state = "SYNC" => state' = "SYNC")
        /\ in.rx = <<>> => fifo' = <<>>
  BY <1>1, <1>2, StateNextIs DEF Fsm, rx_take, FifoNext, States
<1>8. Cut(in) => fifo' = <<>> /\ state' # "RX"
  BY <1>1, FifoStep, Moves DEF host
<1>9. phy' \notin {"uart", "write"} => fifo' = <<>> /\ state' # "RX"
  <2> SUFFICES ASSUME phy' \notin {"uart", "write"}
               PROVE  fifo' = <<>> /\ state' # "RX"
    OBVIOUS
  <2>1. CASE UartEvent(in)
    BY <2>1 DEF UartEvent, Reading
  <2>2. CASE link = "i2c" /\ I2cPlain(in)
    BY <1>7, <2>2 DEF I2cPlain, Reading
  <2>3. CASE I2cStarts(in) \/ I2cEnds(in)
    BY <1>8, <2>3 DEF I2cStarts, I2cEnds, Cut
  <2> QED BY <2>1, <2>2, <2>3 DEF Event
<1>10. phy' \in {"loaded", "read", "nacked"} => link = "i2c" /\ I2cPlain(in)
  BY DEF Event, UartEvent, I2cStarts, I2cEnds, Reading
<1>11. state = "RESP" => state' \in {"SYNC", "RESP"}
  BY <1>1, StateNextIs DEF Fsm
<1>12. state = "RESP" /\ state' = "RESP" =>
         txcnt' = IF in.ready THEN txcnt + 1 ELSE txcnt
  BY <1>1 DEF Fsm, Resync, ReplySent, tx_xfer, StateNext
<1>13. phy' = "loaded" => state' \in {"SYNC", "RESP"}
  BY <1>10, <1>11 DEF I2cPlain
<1>14. phy' \in {"read", "nacked"} =>
         state' = "SYNC" \/ (state' = "RESP" /\ txcnt' # 0)
  <2> SUFFICES ASSUME phy' \in {"read", "nacked"}, state' # "SYNC"
               PROVE  state' = "RESP" /\ txcnt' # 0
    OBVIOUS
  <2>1. CASE in.ready /\ phy = "loaded"
    <3>1. state = "RESP"
      BY <1>7, <2>1 DEF Reading
    <3> QED BY <1>2, <1>11, <1>12, <2>1, <3>1
  <2>2. CASE ~in.ready /\ phy \in {"read", "nacked"}
    <3>1. state = "RESP" /\ txcnt # 0
      BY <1>7, <2>2 DEF Reading
    <3> QED BY <1>11, <1>12, <2>2, <3>1
  <2> QED BY <1>10, <2>1, <2>2 DEF I2cPlain
<1> QED BY <1>4, <1>5, <1>6, <1>9, <1>13, <1>14 DEF Reading

\* In a run without a loss the host's requests are answered one by one.
LEMMA CycleNumbers ==
  ASSUME TypeOK, InOrder, Collecting, Aligned, Reading, Numbered,
         NEW in \in Inputs, Cmd(in), Wire(in), Event(in),
         next' \in Bytes, since' \in Nat, UNCHANGED host,
         WholeRequestsOnly', Reading'
  PROVE  Numbered'
<1> SUFFICES ASSUME loss' = "none" PROVE Numbered'
  BY DEF Numbered
<1>1. PICK op \in Ops, looks \in BOOLEAN :
        /\ fifo' = FifoNext(in) /\ Fsm(op, looks, in)
        /\ Provenance(op, in) /\ Bookkeeping(op, in)
  BY DEF Cmd
<1>2. /\ state \in States /\ link \in {"uart", "i2c"} /\ link' = link
      /\ abandoned \in BOOLEAN /\ fifo \in Seq(Bytes) /\ next \in Bytes /\ sync \in Bytes
      /\ replies \in Nat /\ since \in Nat /\ whole \in BOOLEAN
      /\ in.stop \in BOOLEAN /\ in.boundary \in BOOLEAN /\ in.abort \in BOOLEAN
  BY DEF TypeOK, Inputs, host
<1>3. /\ Cut(in) => Upcoming' = next'
      /\ ~Cut(in) /\ ~fifo_overrun(in) =>
           Upcoming' = IF rx_take THEN Following(Upcoming) ELSE Upcoming
  BY <1>1, FifoStep DEF host
<1>4. Upcoming \in Bytes /\ (rx_take => Upcoming = Head(fifo))
  BY <1>2 DEF rx_take, Upcoming, First
<1>5. in.renew \/ (loss = "none" /\ ~in.error /\ ~fifo_overrun(in))
  BY <1>1 DEF Bookkeeping
<1>6. /\ state' \in {"RX", "EXEC", "WAIT", "RESP"} /\ state = "RX" => sync' = sync
      /\ Executing /\ state' # "SYNC" => sync' = sync /\ whole' = whole
      /\ state = "SYNC" /\ state' # "SYNC" => sync' = Head(fifo)
  BY <1>1 DEF Provenance, Executing
<1>7. Executing' /\ state = "RX" => state' = "EXEC"
  BY <1>1, StateNextIs DEF Fsm, Executing
<1>8. Executing' /\ state = "RX" /\ loss = "none" => whole'
  BY <1>6, <1>7 DEF Executing, Collecting, WholeRequestsOnly
<1>9. Executing' => state # "SYNC"
  BY <1>1, Moves DEF Executing
<1>10. ~abandoned' /\ state # "SYNC" => ~abandoned
  BY <1>1, <1>2 DEF Fsm, AbandonedNext
<1>11. state' = "RX" => ~Cut(in)
  BY <1>1, Moves
<1>12. CASE link = "uart"
  <2>1. UartEvent(in)
    BY <1>12 DEF Event
  <2>2. CASE in.renew
    <3>1. state' = "SYNC" /\ Cut(in) /\ replies' = 0 /\ since' = next'[1]
      BY <1>1, <2>1, <2>2 DEF UartEvent, Fsm, Resync, Cut, Bookkeeping
    <3>2. Upcoming'[1] = since' + replies'
      BY <1>3, <3>1 DEF Bytes
    <3> QED BY <1>2, <1>12, <3>1, <3>2 DEF Numbered, Executing
  <2>3. CASE ~in.renew
    <3>1. loss = "none" /\ ~in.error /\ ~fifo_overrun(in) /\ ~in.abort /\ since' = since
      BY <1>5, <2>1, <2>3 DEF UartEvent
    <3>2. ~Cut(in) /\ ~Resync(in) /\ ~in.stop /\ ~abandoned
      BY <1>12, <2>1, <3>1 DEF UartEvent, Cut, Resync, RequestResync, AnswerResync, Reading
    <3>3. state' = StateNext(op, looks, in)
      BY <1>1, <3>2 DEF Fsm
    <3>4. replies' = IF ReplySent(in) THEN replies + 1 ELSE replies
      BY <1>1, <1>12, <2>3 DEF Bookkeeping
    <3>5. CASE state = "SYNC"
      <4>1. ~ReplySent(in)
        BY <3>5 DEF ReplySent, tx_xfer
      <4>2. Upcoming[1] = since + replies /\ Upcoming[2] = 0
        BY <1>12, <3>1, <3>5 DEF Numbered, Aligned
      <4>3. state' = IF rx_take THEN "RX" ELSE "SYNC"
        BY <1>4, <3>3, <3>5, <4>2, StateNextIs DEF IsSync
      <4> QED
        BY <1>2, <1>3, <1>4, <1>6, <1>12, <3>1, <3>2, <3>4, <3>5, <4>1, <4>2, <4>3
           DEF Numbered, Executing
    <3>6. CASE state = "RX"
      <4>1. ~ReplySent(in)
        BY <3>6 DEF ReplySent, tx_xfer
      <4>2. sync[1] = since + replies /\ Upcoming = <<sync[1], rxcnt + 1>>
        BY <1>12, <3>1, <3>6 DEF Numbered, Collecting
      <4>3. state' = IF rx_take /\ rxcnt = FrameLen - 2 THEN "EXEC" ELSE "RX"
        BY <3>3, <3>6, StateNextIs
      <4>4. state' = "EXEC" => Upcoming'[1] = sync[1] + 1
        <5> SUFFICES ASSUME state' = "EXEC" PROVE Upcoming'[1] = sync[1] + 1
          OBVIOUS
        <5>1. rx_take /\ Upcoming[2] = FrameLen - 1 /\ Upcoming[1] = sync[1]
          BY <4>2, <4>3 DEF FrameLen
        <5> QED BY <1>3, <1>4, <3>1, <3>2, <5>1, FollowingType
      <4> QED
        BY <1>2, <1>6, <1>8, <1>12, <3>1, <3>4, <3>6, <4>1, <4>2, <4>3, <4>4
           DEF Numbered, Executing
    <3>7. CASE Executing
      <4>1. sync[1] = since + replies /\ whole /\ Upcoming[1] = since + replies + 1
        BY <1>12, <3>1, <3>7 DEF Numbered, Executing
      <4>2. Upcoming' = Upcoming
        BY <1>3, <3>1, <3>2, <3>7 DEF rx_take, Executing
      <4>3. state' = "SYNC" <=> ReplySent(in)
        BY <3>2, <3>3, <3>7 DEF StateNext, ReplySent, tx_xfer, Executing
      <4>4. state' # "RX"
        BY <1>1, <3>7, Moves
      <4>5. CASE ReplySent(in)
        <5>1. state' = "SYNC" /\ Upcoming'[1] = since' + replies' /\ ~Executing'
          BY <1>2, <3>1, <3>4, <4>1, <4>2, <4>3, <4>5 DEF Executing
        <5> QED BY <1>2, <1>12, <5>1 DEF Numbered
      <4>6. CASE ~ReplySent(in)
        <5>1. state' # "SYNC" /\ sync' = sync /\ whole' = whole /\ replies' = replies
          BY <1>6, <3>4, <3>7, <4>3, <4>6
        <5> QED BY <1>2, <1>12, <3>1, <4>1, <4>2, <5>1 DEF Numbered
      <4> QED BY <4>5, <4>6
    <3> QED BY <1>2, <3>5, <3>6, <3>7 DEF States, Executing
  <2> QED BY <2>2, <2>3
<1>13. CASE link = "i2c"
  <2>1. CASE I2cPlain(in)
    <3>1. loss = "none" /\ ~fifo_overrun(in) /\ ~Cut(in) /\ since' = since
      BY <1>5, <2>1 DEF I2cPlain, Plain
    <3>2. Upcoming[1] >= since /\ (state = "RX" => sync[1] >= since)
          /\ (Executing /\ ~abandoned => whole /\ sync[1] >= since)
      BY <1>13, <3>1 DEF Numbered
    <3>3. Upcoming'[1] >= since
      <4>1. Upcoming[1] \in Nat /\ Following(Upcoming)[1] >= Upcoming[1]
            /\ Following(Upcoming)[1] \in Nat
        BY <1>4, FollowingType DEF Bytes
      <4> QED BY <1>2, <1>3, <3>1, <3>2, <4>1
    <3>4. state' = "RX" => sync'[1] >= since
      <4>1. CASE state = "SYNC"
        <5>1. state' = "RX" => rx_take
          BY <1>1, <4>1, StateNextIs DEF Fsm
        <5> QED BY <1>4, <1>6, <3>2, <4>1, <5>1
      <4>2. CASE state # "SYNC"
        BY <1>1, <1>2, <1>6, <3>2, <4>2, Moves DEF States, Executing
      <4> QED BY <4>1, <4>2
    <3>5. Executing' /\ ~abandoned' => whole' /\ sync'[1] >= since
      BY <1>2, <1>6, <1>8, <1>9, <1>10, <3>1, <3>2 DEF States, Executing
    <3> QED BY <1>2, <1>13, <3>1, <3>3, <3>4, <3>5 DEF Numbered
  <2>2. CASE I2cStarts(in)
    <3>1. loss = "none" /\ Cut(in)
      BY <1>5, <2>2 DEF I2cStarts, Cut
    <3>2. Upcoming'[1] >= since' /\ state' # "RX"
      BY <1>3, <1>11, <3>1 DEF Reading
    <3>3. Executing' /\ ~abandoned' => whole' /\ sync'[1] >= since'
      <4> SUFFICES ASSUME Executing', ~abandoned' PROVE whole' /\ sync'[1] >= since'
        OBVIOUS
      <4>1. Executing /\ state' # "SYNC"
        BY <1>1, <2>2, Moves DEF I2cStarts, Executing
      <4>2. phy \notin {"read", "nacked"}
        <5> SUFFICES ASSUME phy \in {"read", "nacked"} PROVE FALSE
          OBVIOUS
        <5>1. AnswerResync(in)
          BY <2>2, <4>1 DEF Reading, Executing, I2cStarts, AnswerResync
        <5> QED BY <1>1, <4>1, <5>1 DEF Fsm, Resync
      <4>3. since' = since
        BY <2>2, <4>2 DEF I2cStarts
      <4> QED
        BY <1>6, <1>10, <1>13, <3>1, <4>1, <4>3 DEF Numbered, Executing
    <3> QED BY <1>2, <1>13, <3>2, <3>3 DEF Numbered
  <2>3. CASE I2cEnds(in)
    <3>1. Cut(in) /\ since' = next'[1]
      BY <2>3 DEF I2cEnds, Cut
    <3>2. Upcoming'[1] >= since' /\ state' # "RX"
      BY <1>3, <1>11, <3>1 DEF Reading
    <3>3. Executing' => abandoned'
      <4> SUFFICES ASSUME Executing' PROVE abandoned'
        OBVIOUS
      <4>1. ~in.abort /\ in.boundary /\ in.stop /\ state' # "SYNC"
        BY <1>1, <2>3 DEF I2cEnds, Fsm, Resync, Executing
      <4>2. Executing
        BY <1>1, <4>1, Moves
      <4>3. state # "RESP"
        BY <1>1, <4>1 DEF Fsm, Resync, AnswerResync
      <4> QED BY <1>1, <4>1, <4>2, <4>3 DEF Fsm, AbandonedNext, Executing
    <3> QED BY <1>2, <1>13, <3>2, <3>3 DEF Numbered
  <2> QED BY <1>13, <2>1, <2>2, <2>3 DEF Event, UartEvent
<1> QED BY <1>2, <1>12, <1>13

-----------------------------------------------------------------------------
(* Why the window is safe.                                                 *)

\* Outside SYNC and RX the FIFO holds what the host sent after the request
\* in execution: fewer bytes than it has room for.
LEMMA WindowFits ==
  ASSUME TypeOK, Aligned, Numbered, Counted, Paced, polite, loss = "none", Executing,
         next[2] = 0 => Outstanding < Window
  PROVE  Len(fifo) < DEPTH
<1>1. /\ next \in Bytes /\ next[1] \in Nat /\ next[2] \in 0 .. 6
      /\ since \in Nat /\ replies \in Nat /\ DEPTH \in Nat /\ Len(fifo) \in Nat
  BY SerialAssumption DEF TypeOK, DEPTH, Bytes, FrameLen
<1>2. link = "uart" /\ Outstanding < Window
  BY DEF Paced
<1>3. Upcoming[1] = since + replies + 1 /\ Upcoming[2] = 0
  BY <1>2 DEF Numbered, Aligned, Executing
<1>4. Len(fifo) = 7 * (Outstanding - 1) + next[2]
  <2>1. Place(next) = 7 * next[1] + next[2] /\ Place(Upcoming) = 7 * (since + replies + 1)
    BY <1>1, <1>3 DEF Place, FrameLen
  <2>2. Len(fifo) = (7 * next[1] + next[2]) - 7 * (since + replies + 1)
    BY <2>1 DEF Counted
  <2>3. PICK a \in Nat, b \in 0 .. 6, c \in Nat, d \in Nat :
          a = next[1] /\ b = next[2] /\ c = since /\ d = replies
    BY <1>1
  <2>4. Len(fifo) = (7 * a + b) - 7 * (c + d + 1) /\ Outstanding = a - c - d
    BY <2>2, <2>3 DEF Outstanding
  <2>5. (7 * a + b) - 7 * (c + d + 1) = 7 * ((a - c - d) - 1) + b
    OBVIOUS
  <2> QED BY <2>3, <2>4, <2>5
<1>5. Outstanding \in Int /\ DEPTH \div 7 \in Nat /\ 7 * (DEPTH \div 7) <= DEPTH
  BY <1>1 DEF Outstanding
<1>6. Outstanding - 1 <= DEPTH \div 7 - 1
  BY <1>2, <1>5 DEF Window, FrameLen
<1> QED BY <1>1, <1>4, <1>5, <1>6

LEMMA CyclePaces ==
  ASSUME TypeOK, InOrder, Aligned, Reading, Numbered, Counted, Paced, WindowIsSafe,
         NEW in \in Inputs, Cmd(in), Wire(in), Event(in), InWindow(in),
         next' \in Bytes, since' \in Nat, UNCHANGED host
  PROVE  Counted' /\ Paced' /\ WindowIsSafe'
<1>1. PICK op \in Ops, looks \in BOOLEAN :
        fifo' = FifoNext(in) /\ Fsm(op, looks, in) /\ Bookkeeping(op, in)
  BY DEF Cmd
<1>2. Counted'
  BY <1>1, FifoStep DEF host
<1>3. CASE ~polite
  BY <1>2, <1>3 DEF Paced, WindowIsSafe, host
<1>4. CASE polite
  <2>1. link = "uart" /\ link' = link /\ polite' = polite /\ UartEvent(in)
    BY <1>4 DEF Paced, Event, host
  <2>2. /\ state \in States /\ DEPTH \in Nat \ {0} /\ fifo \in Seq(Bytes)
        /\ next \in Bytes /\ next[1] \in Nat /\ since \in Nat /\ replies \in Nat
        /\ next'[1] \in Nat /\ loss \in {"none", "line", "overrun"}
    BY SerialAssumption DEF TypeOK, DEPTH, Bytes
  <2>3. loss = "none" => ~fifo_overrun(in)
    <3> SUFFICES ASSUME loss = "none", fifo_overrun(in) PROVE FALSE
      OBVIOUS
    <3>1. in.rx = <<next>> /\ Len(fifo) >= DEPTH /\ ~rx_take
      BY <2>2 DEF fifo_overrun, room, Wire
    <3>2. fifo # <<>>
      BY <2>2, <3>1
    <3>3. Executing
      BY <2>2, <3>1, <3>2 DEF rx_take, Executing, States
    <3>4. next[2] = 0 => Outstanding < Window
      BY <1>4, <3>1 DEF InWindow
    <3>5. Len(fifo) < DEPTH
      BY <1>4, <3>3, <3>4, WindowFits
    <3> QED BY <2>2, <3>1, <3>5
  <2>4. CASE in.renew
    <3>1. loss' = "none" /\ replies' = 0 /\ next'[2] = 0 /\ since' = next'[1]
      BY <1>1, <2>1, <2>4 DEF Bookkeeping, UartEvent
    <3>2. DEPTH' = DEPTH /\ DEPTH \div 7 \in Nat
      BY <2>1, <2>2 DEF DEPTH
    <3>3. Outstanding' = 0 /\ Window' >= 0
      BY <2>2, <3>1, <3>2 DEF Outstanding, Window, FrameLen
    <3> QED BY <1>2, <2>1, <3>1, <3>3 DEF Paced, WindowIsSafe
  <2>5. CASE ~in.renew
    <3>1. loss' # "overrun" /\ (loss' = "none" => loss = "none" /\ ~in.error)
      BY <1>1, <1>4, <2>2, <2>3, <2>5 DEF Bookkeeping, WindowIsSafe
    <3>2. WindowIsSafe'
      BY <3>1 DEF WindowIsSafe
    <3>3. ASSUME loss' = "none"
          PROVE  Outstanding' <= Window' /\ (next'[2] # 0 => Outstanding' < Window')
      <4>1. loss = "none" /\ ~Cut(in)
        BY <2>1, <2>5, <3>1, <3>3 DEF Cut, UartEvent
      <4>2. since' = since /\ Window' = Window /\ Window \in Nat
        BY <2>1, <2>2, <2>5 DEF UartEvent, Window, DEPTH, FrameLen
      <4>3. replies' \in Nat /\ replies' >= replies
        BY <1>1, <2>1, <2>2, <2>5 DEF Bookkeeping
      <4>4. Outstanding <= Window /\ (next[2] # 0 => Outstanding < Window)
        BY <1>4, <4>1 DEF Paced
      <4>5. Outstanding \in Int /\ Outstanding' \in Int
            /\ Outstanding' <= Outstanding + (next'[1] - next[1])
        BY <2>2, <4>2, <4>3 DEF Outstanding
      <4>6. CASE in.rx = <<>>
        <5>1. next' = next
          BY <4>1, <4>6 DEF Wire
        <5> QED BY <2>2, <4>2, <4>4, <4>5, <5>1
      <4>7. CASE in.rx = <<next>>
        <5>1. next' = Following(next) /\ Outstanding < Window
          BY <1>4, <4>1, <4>4, <4>7 DEF Wire, InWindow
        <5>2. CASE next[2] = FrameLen - 1
          <6>1. next'[2] = 0 /\ next'[1] = next[1] + 1
            BY <2>2, <5>1, <5>2, FollowingType
          <6> QED BY <2>2, <4>2, <4>5, <5>1, <6>1
        <5>3. CASE next[2] # FrameLen - 1
          <6>1. next'[1] = next[1]
            <7>1. Following(next) = <<next[1], next[2] + 1>>
              BY <2>2, <5>3, FollowingType
            <7> QED BY <5>1, <7>1
          <6> QED BY <2>2, <4>2, <4>5, <5>1, <6>1
        <5> QED BY <5>2, <5>3
      <4> QED BY <4>6, <4>7 DEF Wire
    <3>4. Paced'
      BY <2>1, <3>3 DEF Paced
    <3> QED BY <1>2, <3>2, <3>4
  <2> QED BY <2>4, <2>5
<1> QED BY <1>3, <1>4

-----------------------------------------------------------------------------
LEMMA InitInvariant == Init => IInv
<1> SUFFICES ASSUME Init PROVE IInv
  OBVIOUS
<1>1. link \in {"uart", "i2c"} /\ polite \in BOOLEAN
  BY SerialAssumption DEF Init
<1>2. <<1, 0>> \in Bytes /\ NoByte \in Bytes
  BY DEF Bytes, FrameLen, NoByte
<1>3. DEPTH \in Nat
  BY SerialAssumption DEF DEPTH
<1>4. TypeOK
  <2>1. fifo \in Seq(Bytes) /\ Len(fifo) <= DEPTH
    BY <1>3 DEF Init
  <2>2. phy \in Phases /\ state \in States
    BY DEF Init, Phases, States
  <2>3. /\ rxcnt \in 0 .. FrameLen - 2 /\ txcnt \in 0 .. ReplyLen - 1
        /\ cur \in Nat /\ done \in Nat /\ since \in Nat /\ replies \in Nat
        /\ data \in Nat \cup {NoData} /\ next \in Bytes /\ sync \in Bytes
    BY <1>2 DEF Init, FrameLen, ReplyLen
  <2> QED BY <1>1, <2>1, <2>2, <2>3 DEF Init, TypeOK
<1>5. InOrder /\ Collecting /\ Aligned /\ WholeRequestsOnly
  BY DEF Init, InOrder, Linked, Collecting, Aligned, Upcoming, First, WholeRequestsOnly
<1>6. Reading /\ Fetched /\ Numbered
  BY DEF Init, Reading, Fetched, Numbered, Executing, Upcoming, First
<1>7. Counted /\ Paced /\ WindowIsSafe
  <2>1. Counted
    BY DEF Init, Counted, Upcoming, First, Place, FrameLen
  <2>2. Outstanding = 0 /\ Window >= 0 /\ next[2] = 0 /\ (polite => link = "uart")
    <3>1. DEPTH \div 7 \in Nat
      BY <1>3
    <3>2. polite => link = "uart"
      BY DEF Init
    <3> QED BY <3>1, <3>2 DEF Init, Outstanding, Window, FrameLen
  <2> QED BY <2>1, <2>2 DEF Init, Paced, WindowIsSafe
<1> QED BY <1>4, <1>5, <1>6, <1>7 DEF IInv, Init, WaitedFor, FlagTellsDrop

LEMMA NextInvariant == IInv /\ [Next]_vars => IInv'
<1> SUFFICES ASSUME IInv, [Next]_vars PROVE IInv'
  OBVIOUS
<1>1. CASE Next
  <2>1. PICK in \in Inputs : /\ Cmd(in) /\ Wire(in) /\ Event(in) /\ InWindow(in)
                             /\ next' \in Bytes /\ since' \in Nat
                             /\ phy' \in Phases /\ UNCHANGED host
    BY <1>1, StepIsCycle DEF IInv, Reading, Paced
  <2>2. TypeOK'
    BY <2>1, CycleType DEF IInv
  <2>3. InOrder' /\ Collecting' /\ Aligned' /\ WholeRequestsOnly'
    BY <2>1, CycleInStep DEF IInv
  <2>4. WaitedFor' /\ FlagTellsDrop'
    BY <2>1, CycleWaits DEF IInv
  <2>5. Reading'
    BY <2>1, CycleReads DEF IInv
  <2>6. Fetched'
    BY <2>1, CycleFetches DEF IInv
  <2>7. Numbered'
    BY <2>1, <2>3, <2>5, CycleNumbers DEF IInv
  <2>8. Counted' /\ Paced' /\ WindowIsSafe'
    BY <2>1, CyclePaces DEF IInv
  <2> QED BY <2>2, <2>3, <2>4, <2>5, <2>6, <2>7, <2>8 DEF IInv
<1>2. CASE UNCHANGED vars
  BY <1>2 DEF IInv, TypeOK, InOrder, Linked, Collecting, Aligned, Upcoming, First,
     WholeRequestsOnly, WaitedFor, FlagTellsDrop, vars, host, cmd, DEPTH,
     Reading, Fetched, Numbered, Executing, Req, Counted, Paced, WindowIsSafe,
     Outstanding, Window, Place
<1> QED BY <1>1, <1>2

LEMMA InvariantHolds == Spec => []IInv
BY InitInvariant, NextInvariant, PTL DEF Spec

\* Every register of the command engine, its FIFO included, keeps its range.
THEOREM SerialTypeCorrect == Spec => []TypeOK
<1>1. IInv => TypeOK
  BY DEF IInv
<1> QED BY <1>1, InvariantHolds, PTL

\* Whatever the host sends and the line drops, a request that starts at a real
\* SYNC is executed only as the whole frame the host sent.
THEOREM RequestsWhole == Spec => []WholeRequestsOnly
<1>1. IInv => WholeRequestsOnly
  BY DEF IInv
<1> QED BY <1>1, InvariantHolds, PTL

\* No access is launched onto an outstanding transfer: the branch of S_EXEC that
\* guards against it cannot be taken.
THEOREM LaunchesFindIdle == Spec => []LaunchFindsIdle
<1>1. IInv => LaunchFindsIdle
  BY DEF IInv, WaitedFor, LaunchFindsIdle
<1> QED BY <1>1, InvariantHolds, PTL

\* The sticky overrun flag stands while a drop has not been told to the host.
THEOREM DropsAreTold == Spec => []FlagTellsDrop
<1>1. IInv => FlagTellsDrop
  BY DEF IInv
<1> QED BY <1>1, InvariantHolds, PTL

\* Every answer goes to the request its reader waits for, and the data of an
\* access is that of its own transfer, whatever breaks, STOPs, repeated STARTs
\* and watchdogs gave up before.
THEOREM AnswersAreOwn == Spec => []AnswerIsOwn
<1>1. IInv => AnswerIsOwn
  <2> SUFFICES ASSUME IInv, state = "RESP", ~abandoned, loss = "none"
               PROVE  /\ IF link = "uart" THEN Req = since + replies ELSE Req >= since
                      /\ data \in {NoData, Req}
    BY DEF AnswerIsOwn
  <2>1. Executing
    BY DEF Executing
  <2>2. Req = sync[1] /\ IF link = "uart" THEN sync[1] = since + replies ELSE sync[1] >= since
    BY <2>1 DEF IInv, Numbered, Req
  <2> QED BY <2>2 DEF IInv, Fetched
<1> QED BY <1>1, InvariantHolds, PTL

\* A host that keeps the pipelining bound of the manual never overruns the
\* FIFO, for every depth of it.
THEOREM WindowAlwaysSafe == Spec => []WindowIsSafe
<1>1. IInv => WindowIsSafe
  BY DEF IInv
<1> QED BY <1>1, InvariantHolds, PTL
=============================================================================
