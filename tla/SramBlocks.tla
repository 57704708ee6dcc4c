----------------------------- MODULE SramBlocks -----------------------------
(* The write-parking SRAM controller shared by ahb_sram_controller and, as  *)
(* section 5 of it, by ahb_fused_sram_ctrl: its state machine, its buffers  *)
(* and the commands it gives the single-ported macro.  Registers are a      *)
(* record `c'; `aph' is the beat in its address phase (op "idle": none) and *)
(* `hwdata' the write data of that cycle.  Byte strobes are a set of lanes; *)
(* Strobes are those that some size and low address bits select.            *)
CONSTANTS Addrs, Lanes, Vals, Strobes

ASSUME SramAssumption ==
  Strobes \subseteq SUBSET Lanes /\ Addrs # {} /\ Vals # {}

Words == [Lanes -> Vals]

(* What a cycle may sample; the lanes of a read and the address of an idle  *)
(* cycle reach nothing.                                                     *)
Idle   == [op |-> "idle", addr |-> CHOOSE a \in Addrs : TRUE, lanes |-> {}]
Reads  == [op : {"read"}, addr : Addrs, lanes : {{}}]
Writes == [op : {"write"}, addr : Addrs, lanes : Strobes]
Beats  == {Idle} \cup Reads \cup Writes

Controller ==
  [state      : {"IDLE", "READ", "WRITE", "READ_PENDING_WRITE"},
   wr_addr    : Addrs,            \* sram_wr_addr_buf
   wr_en      : SUBSET Lanes,     \* sram_wr_en_buf
   pause      : Words,            \* hwdata_pause
   from_pause : SUBSET Lanes,     \* sram_read_from_pause_post
   rd_cmd     : SUBSET Lanes]     \* sram_rd_cmd_post

(* After a reset; only the strobe buffer's value differs between the two.  *)
Zero == CHOOSE v \in Vals : TRUE
ControllerReset(wr_en) ==
  [state |-> "IDLE", wr_addr |-> Idle.addr, wr_en |-> wr_en,
   pause |-> [l \in Lanes |-> Zero], from_pause |-> {}, rd_cmd |-> {}]

(* `word' with the lanes of `lanes' taken from `data'. *)
Overlay(word, lanes, data) ==
  [l \in Lanes |-> IF l \in lanes THEN data[l] ELSE word[l]]

state_nxt(c, aph) ==
  IF aph.op = "write" THEN "WRITE"
  ELSE IF aph.op = "idle" THEN "IDLE"
  ELSE IF c.state \in {"WRITE", "READ_PENDING_WRITE"} THEN "READ_PENDING_WRITE"
  ELSE "READ"

sram_rd_cmd(aph)        == aph.op = "read"
sram_wr_pause(c, aph)   == c.state = "WRITE" /\ aph.op = "read"
sram_wr_restore(c, aph) == c.state = "READ_PENDING_WRITE" /\ aph.op # "read"
sram_wr_active(c, aph)  ==
  (c.state = "WRITE" /\ ~sram_wr_pause(c, aph)) \/ sram_wr_restore(c, aph)

sram_din(c, aph, hwdata) ==
  IF sram_wr_restore(c, aph) THEN c.pause ELSE hwdata

(* BUG: every lane of the parked word is forwarded, written or not. *)
Bug_forwards_whole_word(c, aph, compared) ==
  IF /\ compared
     /\ state_nxt(c, aph) = "READ_PENDING_WRITE"
     /\ c.wr_addr = aph.addr
  THEN Lanes ELSE {}

(* The lanes of the word being read that the pause buffer will supply;      *)
(* `compared' says whether the address comparator looks at this read.       *)
sram_read_from_pause(c, aph, compared) ==
  IF /\ compared
     /\ state_nxt(c, aph) = "READ_PENDING_WRITE"
     /\ c.wr_addr = aph.addr
  THEN c.wr_en ELSE {}

ControllerNext(c, aph, hwdata, compared) ==
  LET forwarded == sram_read_from_pause(c, aph, compared)
      loads     == state_nxt(c, aph) = "WRITE"
  IN [state      |-> state_nxt(c, aph),
      wr_addr    |-> IF loads THEN aph.addr ELSE c.wr_addr,
      wr_en      |-> IF loads THEN aph.lanes ELSE c.wr_en,
      pause      |-> IF sram_wr_pause(c, aph) THEN hwdata ELSE c.pause,
      from_pause |-> forwarded,
      rd_cmd     |-> IF sram_rd_cmd(aph) THEN Lanes \ forwarded ELSE {}]

(* The read data; a lane that neither gate selects reads as zero. *)
hrdata(c, sram_dout) ==
  [l \in Lanes |-> IF l \in c.rd_cmd THEN sram_dout[l]
                   ELSE IF l \in c.from_pause THEN c.pause[l] ELSE Zero]

(* The macro, one access an edge: its array afterwards, and the words its   *)
(* output may show in the next cycle (any word, unless it was read).        *)
MacroNext(sram, c, aph, hwdata) ==
  IF sram_wr_active(c, aph)
  THEN [sram EXCEPT ![c.wr_addr] = Overlay(@, c.wr_en, sram_din(c, aph, hwdata))]
  ELSE sram
DoutNext(sram, c, aph) ==
  IF sram_rd_cmd(aph) THEN {sram[aph.addr]} ELSE Words

(* The memory that bus traffic has written: the macro under a parked write. *)
Visible(sram, c) ==
  IF c.state = "READ_PENDING_WRITE"
  THEN [sram EXCEPT ![c.wr_addr] = Overlay(@, c.wr_en, c.pause)]
  ELSE sram
=============================================================================
