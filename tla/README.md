# Arvern IPs: a TLA+ verification project

The repository holds synthesizable IP blocks around the Arvern RISC-V core: an
interrupt controller, AHB-Lite interconnects, memory controllers, a debug
transport, a timer, and the C drivers of some of them.  Nearly all of it is
synchronous RTL: a block is a set of registers, one clock edge computes all of
them from the inputs, and everything hard lies in what several edges, several
masters or several clocks do to each other.  The modules here take a clock edge
as the step: variables are the registers (`arv_ipdff` instances), an action is
one edge of one clock with every register it loads, and inputs of the edge are
chosen with `\E`.

Paths below are relative to `src/`; `PROJECT.json` maps every definition to its
lines.

## 1. Inventory

| Part | State it keeps | Operations and interactions | What is hard, what makes it correct |
|---|---|---|---|
| **PLIC** `ahb_plic` | per source: `pending`, `in_service`, priority; per context: enables, threshold; the data-phase record `u_dph`, an ERROR flop | register reads and writes over AHB, claim (a read with a side effect), completion, an always-running gateway per source, comparison tree per context, a privilege filter, `hclk_en_o` | A source is served once at a time by one context and no request is lost, whatever claims, completions, lines and reconfigurations coincide; notification agrees with what a claim returns; stopping the clock changes nothing |
| **PLIC driver** `ahb_plic/sw` | none (registers only) | `plic_dispatch` (claim, call, complete), `plic_enable`/`plic_disable` (read-modify-write) | Runs in trap handlers of several contexts and in ordinary code at once; a trap may nest a handler into an interrupted read-modify-write |
| **DMI master** `arv_dtm_dmi_master` | tck side: ack synchronizer, `inflight`, status, data; hclk side: two synchronizers, APB FSM, captured request and response; two reset domains | a launch toggles a level into hclk, an APB transfer runs, an ack toggles back; `dmihardreset` is a third level; the probe resets the tck side alone | Two unrelated clocks, multi-bit data without synchronizers, abandoned requests, slaves that answer late or never |
| **JTAG TAP** `arv_dtm_tap` | TAP state, IR, DR; sticky status, `errinfo`, held failure, abort flag | scans by a debugger; launches and hard resets into the DMI master | Status captured at one edge and acted on at another while the request completes in between |
| **cJTAG front end** `arv_dtm_cjtag` | escape counter, activation FSM, OScan1 phase | turns two wires into TAP clocks (one tck edge in three) and a TAP reset | Framing; the TAP behind it sees a thinned clock |
| **Serial command engine** `arv_dtm_cmd`, `arv_dtm_rxfifo` | command FSM, receive FIFO, sticky overrun, `abandoned` | frames of seven bytes become DMI requests, answers become five bytes; resyncs on errors, overruns, STOPs, aborts | Frames truncated by overruns, hosts that stop mid-answer, a full FIFO, an answer that outlives its reader |
| **Serial byte engines** `arv_dtm_uart`, `_i2c` | bit and byte FSMs, auto-baud, bus watchdog | bytes, framing errors, breaks; START, STOP, stretching | Resynchronisation: what of the stream a dropped byte takes with it |
| **Generic interconnect** `ahb_interconnect_generic` with `manager_if`, `manager_mux`, `subordinate_mux`, `default_subordinate`, `arbiter_2m` | per manager: cached address phase, data-phase flag; held selects; error state of the default subordinate | managers issue AHB transfers, an external arbiter grants | Grants parked during wait states, replay from the cache, data phase of one transfer with the address phase of another |
| **Hiperf interconnect** `ahb_interconnect_hiperf` | two level-1 buses (fetch, data) and a two-channel level-2 fabric per executable subordinate | as above, in two levels | A beat waits in either of two caches; stalls propagate upwards; nobody starves |
| **Fused interconnect** `ahb_interconnect_fused` with `ahb_fused_sram_ctrl`, `ahb_fused_rom_ctrl` | as hiperf, memory controllers instead of level-2 fabrics | two ports share one macro | Fetch port without forwarding, contention, parked write |
| **SRAM controller** `ahb_sram_controller` | three-state FSM, parked address, strobes and data, forwarding select | AHB loads and stores on a single-port macro | A store is parked behind loads and must be visible to them byte by byte |
| **ROM controller** `ahb_rom_controller` | read strobe, error state | loads; stores are denied | Two-cycle ERROR |
| **ACLINT** `ahb_aclint` | `mtime` in a slow clock, its mirror in hclk, write shadow, `mtimecmp`, software interrupts | timer reads and writes across clocks, clock hold, deadline interrupts; a C driver | 64-bit values in halves across clocks and across readers, stale mirror after sleep, sleep racing a write, time arithmetic that wraps |
| **Oscillator and reset primitives** `arv_osc_ctrl`, `arv_reset_gen` | announce/run flops, release stages | stop and wake of the clock, release order of resets | A wake between the announcement of a stop and the stop |
| **Flops, synchronizer, gates** `arv_primitives` | - | building blocks of all the above | The synchronizer's metastable outcome |
| **Peripheral example, custom CSRs, benches, scripts** | registers | templates and tests | - |

Interactions: managers, fabric, memory and PLIC talk AHB-Lite (address phase,
data phase, `hready`, two-cycle ERROR); every block asks for its clock with
`hclk_en_o` and must not need an edge it did not ask for; the TAP and the DMI
master share pulses and a status in the tck domain, and the DMI master is an APB
master in hclk; the drivers meet the PLIC only through its registers and the
trap line.

## 2. Modules

| Module | Models | State and actions against the code |
|---|---|---|
| `Plic` | `ahb_plic`, `plic_pending`, `plic_target`, `plic_priority`, `plic_enable` | Every register is a variable, and `..._nxt` what it takes at an edge. `HclkEdge(aph)` is one hclk edge: the data phase of the transfer in `dph` (claim, completion, configuration writes, or a denial), all gateways, then the next address phase. `hclk_en` off gives the edge to nobody: `LineChange` may move a line, no register moves |
| `PlicGateway` | the abstract gateway contract: idle, pending, in service | what `Plic` refines, per source |
| `PlicArbiter` | the comparison tree of `plic_target` | operators over `Plic`'s state, against the winner `Plic` defines; `Pow2` counts a level's nodes |
| `PlicDriver` | `ahb_plic.c` | one process per context: its step, the source it services, its read-modify-write and the one its trap interrupted (`rmw`, `cut`); a bus step is a transfer of one driver. `TakeTrap` may interrupt a context between `EnableLoad` and `EnableStore`, the end of the handler (`Returned`) resumes it. Composes `Plic` |
| `DmiMaster` | `arv_dtm_dmi_master`, `arv_synchronizer`, the APB slave as environment | tck side and hclk side as separate actions; levels that cross are in `level`, and `unsettled` names those that have changed since the last edge of the clock that samples them |
| `Tap` | `arv_dtm_tap`, the JTAG build's wiring | `TapClock` is one enabled tck edge of the TAP with the DMI master's tck side, `TckOnly` an edge the cJTAG enable withholds (`Skips` is the set of numbers of edges that may be withheld before a TAP clock), `Hclk` an hclk edge, `Reset` TRST or an escape |
| `SerialCmd` | `arv_dtm_cmd`, `arv_dtm_rxfifo`, the byte level of `arv_dtm_uart` and `arv_dtm_i2c` | one step is a clock edge with at most one event of the wire: `Cmd(in)` is the edge of the engine and FIFO for the byte engine's outputs `in`, and each action is one such event (`UartByte`, `UartBreak`, `I2cStop`, `I2cWatchdog`, ...) with the `Cmd` it causes. A byte is its place in the host's stream, so that a mix of frames shows |
| `SerialLoss` | the same on a line that may swallow a byte without a framing error | `UartLostByte` once |
| `AhbBlocks` | the interconnect's blocks as operators | the outputs and next registers of `manager_if`, `arbiter_2m`, `subordinate_mux`, `default_subordinate` |
| `AhbGeneric` | `ahb_interconnect_generic` | `Next` is one hclk edge: managers may put a new beat on the bus, the arbiter any grant of its contract, subordinates wait, err or answer |
| `AhbHiperf` | `ahb_interconnect_hiperf` | the same with both level-1 buses and, for every executable subordinate, the level-2 fabric; arbiters as coded |
| `Crossbar` | abstract: each manager's transfer is accepted, executed once at its target, answered with that execution's result | refined by `AhbGeneric` and `AhbHiperf` |
| `SramBlocks` | the controller both SRAM blocks share | state, write parking, forwarding, macro, as record operators |
| `SramState` | the controller's registers and its macro | the variables `SramController` and `FusedSram` share |
| `SramController` | `ahb_sram_controller` | one edge per step; an edge `hclk_en_o` does not ask for may be withheld |
| `FusedSram` | `ahb_fused_sram_ctrl` | two port interfaces, both arbitration schemes, the parked-write hold around `SramBlocks` |
| `FusedRom` | `ahb_fused_rom_ctrl` | the arbiter with its two schemes, the saved address and its replay, the refusal of stores, as record operators |
| `FusedFabric` | `ahb_interconnect_fused` | a fetch bus and a data bus, each with a subordinate multiplexer and a default subordinate, around one ROM and one SRAM controller; `HclkEdge(aph, hwdata)` is one edge of all of them, `Gated` a cycle whose edge `hclk_en_o` did not ask for |
| `AhbMemory` | abstract: a memory that executes a store when its data phase ends and answers a load with the contents at that moment | refined by `SramController` and by the data bus of `FusedFabric` |
| `OscCtrl` | `arv_osc_ctrl` | the announce and run flops with their asynchronous preset, as functions of a record |
| `Mtimer` | `aclint_mtimer`, `aclint_lf_tick`, `aclint_mtimer_wr_shadow`, `aclint_mtimer_count_lf`, the data phase of `ahb_aclint` | `HclkEdge` is one edge of the always-on clock with the tick pipeline, the trust synchronizer, the write shadow and the mirror; `LfRise` and `LfFall` the edges of the slow clock, with the counter, the load one-shot and the wake comparator; `OtherWake` a restart of the oscillator by someone else. Stopping is `OscEdge` in `HclkEdge` |
| `AclintDriver` | `aclint_timer_set`, `aclint_timer_disable`, `aclint_mtime_lo` of `ahb_aclint.c`, a hart in WFI | a call is a sequence of stores, one per bus transfer; the hart may enter WFI between calls. Composes `Mtimer` and `OscCtrl` |
| `AclintTime` | `aclint_mtime_read`, `aclint_timer_set_rel`, `aclint_timer_disable`, `aclint_timer_expired`, `aclint_delay_ticks` (`_us`, `_ms`) and `ticks_ceil` of `ahb_aclint.c`; the MTIME_HI snapshot of `ahb_aclint.v` | a call is a sequence of loads and stores, one per step; `OtherLoad` is an MTIME_LO load of any other context, `Tick` the end of a period of MTIME |
| `PlicProofs`, `TapProofs`, `SerialProofs`, `AhbGenericProofs`, `AhbHiperfProofs`, `SramProofs`, `AclintProofs`, `AclintTimeProofs` | - | the theorems |
| `MC*` | - | small sets for TLC |

Data is abstracted to what properties tell apart.  In the crossing a request is
represented by whose it is (launched last or earlier), so that one bit shows any
mix-up.  In the fabrics a transfer is one opaque record with its target and its
written data, so that `HBURST`, `HPROT`, `HSIZE` and user bits ride along as one
value: the code treats them as one bundle of wires through the same cache and
multiplexer.  In the memories a word is a function from byte lanes to values;
loads always read whole words, which is what the code does.  A time of the timer
is a number whose halves are the two registers; the halves have two or three values
instead of 2^32, so that carries between them and stores of one half are common.
In `AclintTime`, which computes with times, words have 8 values and times 16.
In the two-port controllers a cached beat or a saved address that has been passed on
is forgotten: nothing reads it again, and a use of it would show as a lost transfer.

## 3. Runs

| Run | Question | Instance and why it is enough |
|---|---|---|
| `plic` | Do the gateways keep their contract, are denied transfers inert, is the gated clock lossless, under arbitrary traffic? | One hart (M and S context), two sources in two enable words, priorities 0..2, every kind of register write, wrong modes and sizes. Two sources and two contexts are the smallest with races for a claim and a tie-break; an out-of-range ID 3 is included |
| `plic_driver` | Is service exclusive, has a source in service always a handler whose completion counts, does the tree find the best source and agree with the notification, is every request served unless outranked for ever? | Two contexts dispatch; M-mode code and the handlers nested into it change two sources of one word, so that a stale word is stored (S-mode enables are other registers and stay as set up); five sources, in a tree padded to eight, with devices on the last three, so that two can conspire to outrank one and both halves of the tree matter; multicast and private sources, equal and different priorities, threshold on and off |
| `tap_jtag` | Results, failures, busy: do they belong to the last request, always? Does the link stay busy? | RATIO = 1, the documented lower bound of hclk; synchronous hclk resets, the weaker of the two; both kinds of slave; the debugger unrestricted. `Skips = {0, 2}`: any mixture of JTAG, where every tck edge is a TAP clock, and OScan1, where one in three is |
| `serial` | Are requests executed whole or not at all, do answers reach the request they belong to, does a host that keeps the documented window lose nothing, is it answered, is no transfer left behind by an abort? | Both transports, a debug module of any speed, framing errors, overruns, breaks, relocks, watchdog trips, STOPs and repeated STARTs at any time. Four requests against a FIFO of seven bytes: the window is two requests, so that it is full, emptied and full again |
| `dtm_lost_byte` | Does a byte that vanishes spoil one frame only? | No: see Findings. Three requests, one lost byte |
| `ahb_generic` | Is the fabric a crossbar under *any* arbiter of the contract? | Two managers, two subordinates, one address of nobody, up to one wait state, errors everywhere |
| `ahb_hiperf` | The same with two levels; is the clock request sufficient; can data traffic starve fetches? | The fetch port and a data manager that goes to either subordinate, one shared executable subordinate, one data-only subordinate |
| `sram_controller` | Is it a memory? | Two words, two byte lanes with all strobe sets, two values: a parked word, another word, and lanes that are parked or not |
| `fused` | Is the data bus a memory, does a fetch see earlier stores, how long can one wait, what fails? | Two words of each memory, the ROM's distinct; one lane, as forwarding, the only thing that differs between lanes, is settled by `sram_controller`; stores to the ROM, to nobody and on the fetch bus. Toggled priority; the fixed-priority build passes too |
| `mtimer_write` | Is the counter captured only at rest, do stores land once and whole, does time never go back? | Stores of either half of either register at any time, clock stops the timer did not agree to (`HONOURS = FALSE`), synchronous resets |
| `aclint_driver` | Does a hart that stores a deadline and sleeps wake up, and never too early? | The driver's store sequences with deadlines before, at and after the wrap of the low half; the oscillator stops whenever nobody requests it (`HONOURS = TRUE`), asynchronous resets. Both reset styles pass both runs |
| `aclint_time` | Is a 64-bit read one instant, is a relative deadline never early, does a delay last as long as asked and end? | Others load MTIME_LO between any two accesses; times up to the last one, one wrap of the low half on the way; relative deadlines that overflow; delays that round up, take several chunks, wrap, are zero, or as long as there are ticks |

Named bounds: `MAX_WAIT` (wait states of a subordinate; a longer wait repeats the same state),
`RATIO` (a lower bound of the code's integration rules, the counter `since` saturates there, so hclk
may be arbitrarily faster), `Skips` (tck edges withheld before a TAP clock: two at most, as an OScan1
packet is three TCKC, `arv_dtm_cjtag.v:337`; with three, `FailureIffReal` would be false, as a
completion could pass between two TAP clocks), `PRIO_MAX`, `WORD`
(sources per enable word; 32 in the code), `LEAF_W` (width of an ID in the arbiter tree), `LO_MOD`
and `HI_MOD` (values of a half of a time), `MAX_TIME` (the counter stops there; deadlines behind and
at it included), `BITS` (width of a 64-bit time, 4 here), `MAX_GAP` (MTIME periods a busy wait may
be kept from polling; the code's comment allows 2^31 - 1, the rest of a word beyond one chunk, and
`GapAssumption` keeps that proportion), `MaxFrames` (requests a serial host sends),
`UART_RX_FIFO_DEPTH` (7 bytes, one frame: the smallest with a window of two), `HIGH_MIN` and
`LOW_MIN` (hclk periods in the phases of the slow clock, the documented minimum; longer phases are
all longer ones, as `since` saturates), `WaitCap`. There is no bound on the length of a behaviour:
every module has finitely many states. Only `MAX_TIME` and `MaxFrames` end one, and where nothing
can follow the deadlock check is off (`aclint_time`, and `dtm_lost_byte`, which looks for one
state).

Properties worth a second look:

* `GatewayContract`, `ExclusiveService`: `PlicGateway` allows only
  idle -> pending -> in service -> idle; a claim and a rising line at one edge, or two
  claims in adjacent cycles, must map to one of these.
* `InServiceMeansHandled`: the PLIC ignores the completion of a source that is not enabled, which
  then stays in service for good. Handlers, and the code a trap interrupted between the load and
  the store of a `plic_enable`, store words of the same register; a change made in a handler may be
  undone by the interrupted store (the driver masks nothing), but never while the source it
  concerns is in service.
* `ServedOrOutranked`: a completion is ignored for a source no longer
  enabled in that context; the driver's order keeps this from stranding a source.
* `GateLossless`, `ClockGateSafe`: an edge that was not requested would have loaded
  nothing; for the PLIC, `regs_nxt`, which every edge loads, is then what the registers hold.
* `TreeFindsBest`: the tree built of pairwise comparisons, padding included, against the definition
  of the best source, in every state of registers and gateways. The notification is an OR of
  comparisons the tree has no part in; it must agree with what a claim returns.
  (`NotificationHeld`, proved: a notification disappears only for a reason.)
* `ResultIsOfLastRequest`, `FailureIffReal`, `ScanTellsLaunch`: what the debugger reads is
  about its own last request, through aborts, late acknowledges, busy and failed
  together, and resets of the tck side only.
* `CrossingStable`: multi-bit values are sampled only after a whole period of rest.
* `OneTransferPerLaunch`: a reset of the probe side makes levels fall; the hclk
  side must not take that for a launch.
* `WholeRequestsOnly`: after any drop, refusal or abort the bytes behind it must not complete
  the frame before it. The exception it states is the code's: after a loss the host knows of, a data
  byte equal to SYNC may be taken for one.
* `WindowIsSafe`: the pipelining bound of the manual counts requests, the FIFO counts bytes, and the
  engine does not read while it answers.
* `AnswerIsOwn`, `RequestAnswered`: the reader of an answer may be gone (STOP, repeated START,
  watchdog, break) while the answer is still being fetched; the next request must not get it, nor be
  left without its own.
* `LaunchFindsIdle`: an abort that meets the cycle of the launch, or any other early end of a request,
  must leave no transfer behind for the next one to find.
* `TwoCycleError`, `ImplementsCrossbar`: no transfer is
  lost, doubled, altered or answered by another's target.
* `OnlyDenialsFail`: an ERROR is never due to what another bus or an earlier beat did.
* `ImplementsMemory`, `SingleImplementsMemory`: an answer is always the current content, although a
  store may be parked for any time behind loads.
* `FetchSeesEarlierStores`, `TwoWaitStates`: port A has no forwarding and depends on the
  hold; two is tight (one is violated).
* `CounterSettled`: the mirror is loaded without a handshake; after a stop of any length the
  pipeline holds samples of different ages and only the warm-up count keeps a false tick out.
* `WritesLand`: a load launched before a stop is taken once although hclk may not see
  the slow edges in between; two stores around a tick are not torn.
* `TimeNeverGoesBack`: across stops, launches and loads, as software reads it. Excepted is the
  time in which only a HI half is on its way: the low half may wrap under it.
* `NoOversleep`, `DeadlineServed`, `RequestsHoldClock`: a deadline still in the shadow is unknown to the
  slow side, so the clock must hold until it is not.
* `NoSpuriousTimer`: every comparand between the stores of one call is no smaller than the lesser
  of the old and the new deadline, and the mirror is never ahead of the counter.
* `AnswerOfOneInstant`: one snapshot of the high half serves all readers; the retry loop must make
  up for another context moving it between any two loads.
* `NoEarlyAlarm`: as `NoSpuriousTimer`, for the 64-bit sum of a relative deadline and its saturation.
* `DelayNeverShort`, `DelayEndsOnTime`: 32-bit differences of the low word stand for 64-bit
  durations; rounding, the period in progress, chunks and late polls may not cut a delay short, nor
  make it miss its end and wait a word longer. `Started` is the period the call fell in; a delay of
  UINT64_MAX ticks is excepted, as the driver cannot add one to it (`ahb_aclint.c:128`).

### Fairness

* `Plic`, `PlicDriver`: hclk ticks when it is requested (that is what `hclk_en_o` asks of
  the clock controller), and each context keeps executing its handler and takes a
  trap that stays pending. Nothing is assumed about devices.
* `Tap`: both clocks tick, and an APB slave does not answer *not ready* for ever.
  The latter is an assumption about the slave; a debugger's hard reset is the
  remedy when it fails, and is possible in every state.
* `SerialCmd`: the clock runs and the debug module answers in the end (`Quiet`), the transmitter
  ends its byte (`UartTx`). The host owes nothing: `RequestAnswered` speaks of requests it has sent.
* `AclintDriver`: the slow clock never stops (both its edges are weakly fair), the oscillator toggles
  while it is enabled, and an awake hart executes. Nothing makes anyone wake the
  oscillator but the timer's own output.
* `AhbHiperf`: the clock ticks when requested; `MAX_WAIT` bounds wait states, as AHB
  requires a subordinate to finish.

`AclintTime` needs none: that a delay ends on time is the invariant `DelayEndsOnTime`.
Deadlock is checked in every run but the two named under the bounds.

### Findings

`dtm_lost_byte`: `arv_dtm_cmd.v:32` and `doc/arv_dtm_uart.md:187` say that a lost byte corrupts only
the frame it lands in. A byte that raises a framing error indeed does: the engine is told and starts
over. One that raises none (a start edge the receiver misses) leaves the engine one byte short, and
it takes the SYNC of the next request for the last byte of this one: the next request, without its
SYNC, is skipped too. With a host that sends one request at a time this takes until the next request
is sent, so its timeout tells the host; with a pipelining host two requests are gone.

## 4. Proofs

All for every value of the constants (under the named assumptions of the modules).

* `PlicProofs`: type correctness; a source is never both pending and in service;
  every step of `Plic` is a step of `PlicGateway` for each source or leaves it alone; a
  notification is withdrawn only for a reason. The inductive invariant is `TypeOK` and
  exclusion of the two flags: without the latter a completion could clear a flag of a
  source that is pending, a step the gateway does not have. Also `DeniedInert`. `GateLossless`
  needs, of the history, that the second ERROR cycle is of a denied transfer and that the data
  phase holds a transfer with an address or none.
  `TreeFindsBest`: by induction over the levels (`NodesStandForSpans`) a node of the tree stands for
  the qualifying sources among the leaves below it: it is valid if there are any, and then carries
  the best. One comparison keeps that (`NodeOfTwo`), as the right child's leaves have the higher
  numbers; the root's leaves are all sources, and a best one is unique. It beats whatever raised a
  notification (`WinnerNotifies`).

  Of `PlicDriver`: `ExclusiveService`, and that the sources in service are exactly those some
  context handles, each still enabled there (`InServiceMeansHandled`), so that every completion is
  accepted; for any sources that handlers and interrupted code enable and disable. The step that
  carries it: the access in the data phase is that of the context the bus waits for and the
  privilege filter lets it pass, so software learns from an edge exactly what the edge did to the
  gateway. `StepOK` adds that the word a handler is about to store has the bit of its own source: it
  was read while that was enabled, and nobody else stores to this context's word before the handler
  returns.
* `TapProofs`: type correctness; `errinfo` names the device exactly while the status is
  failed; the status a scan captured always tells whether its operation is launched.
  `ErrInv` adds to `errinfo` that a failure is shown or held only while nothing is in
  flight, and held only behind a nonzero status. `ScanInv` says what the status captured
  by a dmi scan still means at every later state of that scan: 0 means the link is
  idle, with no completion left to observe and no error (only this scan could launch,
  so it stays so); anything else has been made sticky.

  Of the crossing: `CrossingStable`, `OneTransferPerLaunch`, `ResultIsOfLastRequest` and
  `FailureIffReal`, for every ratio of the clocks, both reset styles and JTAG or cJTAG. `CrossInv`
  is about three levels and the flops behind each. At most one change of a level is on its way
  (`ToggleInv`), because the link is idle or the TAP needs several edges from one Update-DR to the
  next: `DelayInv` counts tck edges along the controller's graph (`Edges`) and says how many flops a
  level has passed by then. `LinkInv`: a busy link has its request on its way, at the slave, or on
  its way back; an idle one has nothing anywhere but a transfer a hard reset is about to abandon.
  `AckInv`: the acknowledge of an abandoned transfer has died out before the next launch.
  `ResetInv`: what crossed before a reset has died out before either side may use it. `AnswerInv`
  and `FailureInv` then follow the data and the failure through the phases of a request, in
  which a completion must meet a TAP clock; this is where `Skips` matters.
* `SerialProofs`: type correctness, `WholeRequestsOnly`, `LaunchFindsIdle`, `FlagTellsDrop`,
  `AnswerIsOwn`, for every depth of the FIFO and any number of requests. The inductive invariant
  says that the FIFO holds bytes in the order sent and behind one another while nothing is lost
  (`InOrder`), that what is collected is the sync byte's frame up to `rxcnt` and the FIFO goes on
  from there (`Collecting`), that without a loss the engine hunts at a frame's start (`Aligned`),
  and that a transfer in flight is one the engine waits for (`WaitedFor`).  The flush on every loss
  is what keeps `Collecting`. For `AnswerIsOwn` it adds that without a loss UART requests are
  counted one by one and an I2C reader never gets an answer to a request from before its own write
  (`Numbered`), that nothing is pushed while the host reads (`Reading`), and that a transfer and the
  data captured are those of the request executing (`Fetched`). For `WindowIsSafe`: the FIFO holds
  exactly the bytes between the next consumed and the next sent, counted along the stream
  (`Counted`), and a polite host that lost nothing keeps its window in requests (`Paced`). While the
  engine does not read, the request it executes has left the FIFO, and the rest of the window fits
  in it; while it reads, it takes a byte at every edge.
* `AhbGenericProofs`: the fabric implements `Crossbar`. The inductive invariant conjoins
  `TypeOK`, `OneDataPhase`, `Tracked` (which manager owns the data phase), `Routed` (the held
  selects are those of its transfer) and `Owned` (cached beats belong to their manager). Each is
  needed: a grant acts on a cached beat only if it is its manager's, an answer
  reaches the right manager only if selects and owner agree.
* `AhbHiperfProofs`: the fabric of two levels implements `Crossbar`, for any number of managers and
  subordinates of either kind; its clock request is sufficient (`ClockGateSafe`); type correctness.
  The invariant says that a transfer is in exactly one place. On a side's bus at most one manager
  has the data phase (`OneDataPhase`, `Tracked`) and the held selects are those of its transfer
  (`Routed`); for an executable subordinate the side's channel holds that transfer, parked or in its
  data phase, and one channel at most has the subordinate (`Carried`); a subordinate executes what
  its channel or bus presents and nothing else (`Executing`); a default subordinate answers exactly
  the transfers astray (`Denied`). Managers and channels are the same block, so one lemma about an
  edge of an interface (`InterfaceStep`) serves both levels.
* `SramProofs`: the single-port controller implements `AhbMemory`, for any number of words, lanes
  and values. The inductive invariant relates the macro and the parked write to the abstract memory
  (`Tracks`) and the word latched for the running load to the abstract answer
  (`Answers`).

  Of `FusedFabric`, for both priority schemes (the run has the toggled one): the data bus implements
  `AhbMemory`; `FetchSeesEarlierStores`, `TwoWaitStates` and `OnlyDenialsFail`. `FabricInv` says what
  a port holds in terms of the beat its bus waits for (`PortInv`), that the controller is in a write
  exactly when the data bus is (`StateInv`), that a default subordinate is in its first or second
  error cycle (`DfltInv`), that the ROM's saved address is that of the one port that waits, which
  under toggled priority goes first (`RomInv`), that a beat waiting for the SRAM goes first, or may
  lose one more contest when the macro is at rest (`WaitInv`, which bounds the wait), that a load's
  word is the one under the parked write (`LoadInv`) and that a fetch's word is one it may see
  (`FetchInv`). The last needs the parked-write hold, as the fetch port has no forwarding.
* `AclintProofs`: type correctness of timer, oscillator and hart; `RequestsHoldClock`; and
  `NoOversleep`, for every width of the registers, length of the clock phases, set of deadlines
  and reset style. The inductive invariant conjoins `TypeOK`, `CpuOK`
  (what the hart's program may be), `RequestsHoldClock` and `DeadlineOnItsWay`: unless the
  stored deadline has reached the slow side, the pending flag that holds the clock
  is up. Without the last one a slow edge could compare with an old deadline while the
  clock stops. That the wake output starts the oscillator is then one step of `LfRise`.

  Of `Mtimer` alone, under any stores and any stops: `CounterSettled`, `WritesLand` and
  `TimeNeverGoesBack`. What the pipeline of samples may hold is bounded by the time since the
  oscillator started, as the trust synchronizer and the warm-up counter tell it (`Age`), and the time
  since the slow clock last changed (`PhaseInv`, `HighInv`, `LowInv`): a sample from before a stop has
  left before ticks are believed. Between two ticks lies a rising edge, which has taken the
  load launched at the first (`LoadInv`); the mirror is never ahead of the counter but by a load
  (`MirrorInv`). Of the driver on it: `NoSpuriousTimer` and `ReadIsCurrent`. The driver stores no
  MTIME, so the mirror is behind by at most the edge in the pipeline (`ReadInv`); no store of a call
  takes the comparand below both deadlines (`CallInv`).
* `AclintTimeProofs`: all four properties of the run, for any width, times, delays and traffic.
  `ReadInv`: the snapshot never runs ahead of MTIME nor behind the load of the low half, so the
  first high half is at most that of the instant of the low load, and the snapshot at least; equal
  halves are then both that instant's. `AlarmInv`: after each store of a call the comparand is no
  smaller than the lesser of the old and the new deadline.

  Of delays: `TicksRoundedUp`, the shift-subtract loop of `ticks_ceil` returns the exact quotient
  rounded up, by induction over its rounds: the quotient and remainder so far account for all of the
  dividend but the bits not yet shifted in (`DivisionStep`). `DelayInv`: the delay has counted up to
  a moment `Behind(s)`, `s` being when it loaded its start, that no poll has been ahead of by more
  than a chunk or a gap. As a gap is at most a chunk and two chunks are less than a word
  (`GapAssumption`), the difference of low halves at a poll is that of the times
  (`LowDifference`), so each chunk is taken off at its end, never before and at most a gap
  after. `DelayNeverShort` and `DelayEndsOnTime` follow.

Induction in these proofs is over the naturals with a set in place of a predicate (`SetInduction`,
from the well-foundedness of `<`), which the provers can instantiate; recursive functions over
a finite range (`Pow2`, `Division`, `G_LVL`) are first shown to satisfy their equations (`Pow2Def`,
`DivisionDef`, `LevelDef`).

Only model-checked: liveness (`ServedOrOutranked`, `BusyEnds`, `FetchCompletes`, `DeadlineServed`,
`RequestAnswered`), which rests on fairness and so on `ENABLED`.
Every other property of a passing run is a theorem.

## 5. Not modelled, and why

* The ROM controller: a registered read strobe and the two-cycle ERROR for stores; its fused twin is
  modelled.
* Of the serial transport: the bit level (see below) and the launched-then-reset race of a hart
  whose clock is stopped (`arv_dtm_dmi_master.v:162`): `SerialCmd` takes a hard reset as done when
  issued.
* Of the fused interconnect: the manager multiplexer on its data bus (that of `AhbGeneric`) and the
  peripherals behind it.
* Of the ACLINT: software interrupts, the Zicntr port, the privilege filter (the PLIC's is
  modelled), `LF_SYNC_EN = 1`, more than one hart. Of its driver: `aclint_mtime_write` as a call
  (its stores are `Mtimer`'s), the single-store software-interrupt calls and the rejection of bad
  arguments. Resets in operation: the models start from them.
* UART and I2C bit sampling, cJTAG escapes and OScan1 framing: analog-like timing in
  front of byte or TAP-clock events; the models take the events in any order the engines can emit them.
* Reset generator: small, mostly asynchronous. Resets inside
  AHB and SRAM modules: all blocks share one reset, the models start from it.
* `HMASTER` tag bits, lock and burst: passed through, no block acts on them.
* Peripheral example (the PLIC shares its bus structure), custom CSRs (no concurrency),
  benches, lint and synthesis scripts.
* Software that changes the enables of another hart's context while that hart runs: neither the
  driver nor its documents say how such code synchronises. Contexts change their own enables, and
  a handler does not disable the source it services, as `ahb_plic.h:110` demands.
* The PLIC's read data other than claims and enable words, which no software here
  uses for control.

## 6. Plan

1. PLIC and its driver - done, all safety proved.
2. DMI master and TAP - done, all safety proved, the crossing included.
3. AHB fabric: blocks, generic, hiperf - done, both proved against `Crossbar`.
4. SRAM controllers against `AhbMemory` - done, single-port and fused proved.
5. `ahb_fused_rom_ctrl` and the fused interconnect against `AhbMemory` - done and proved; the
   single-port ROM controller remains.
6. ACLINT timer, oscillator controller and the driver - done: deadlines and sleep, 64-bit reads,
   relative deadlines and delays proved. Remaining: the Zicntr grant.
7. Serial command engine with FIFO - done, all safety proved. Remaining: its composition with
   `DmiMaster` instead of the abstraction, for hard resets that wait for a stopped clock.
8. Reset generator; cJTAG activation as an event FSM.
9. Proofs: every safety and action property of the passing runs and every refinement - done. The
   liveness properties remain with TLC.
