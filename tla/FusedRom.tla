----------------------------- MODULE FusedRom -----------------------------
(* ahb_fused_rom_ctrl: an executable ROM with a fetch port A and a data     *)
(* port B on one macro.  The port that loses a contest has its address      *)
(* saved, which is replayed while its bus is held; a store on port B is     *)
(* refused.  The registers are a record `r', `aph' is the beat each port    *)
(* samples.                                                                 *)
CONSTANTS RomAddrs, FIXED_B_PRIO

Ports == {"A", "B"}

Registers ==
  [any_pending    : BOOLEAN,             \* arb[1]: saved_addr is to be replayed
   priority_a     : BOOLEAN,             \* arb[0]
   saved_addr     : RomAddrs,
   hreadyout      : [Ports -> BOOLEAN],
   b_err_st       : {"idle", "err1", "err2"},
   rom_was_active : BOOLEAN]

AnyAddr == CHOOSE a \in RomAddrs : TRUE
Reset ==
  [any_pending |-> FALSE, priority_a |-> ~FIXED_B_PRIO,
   saved_addr |-> AnyAddr, hreadyout |-> [P \in Ports |-> TRUE],
   b_err_st |-> "idle", rom_was_active |-> FALSE]

aph_read(aph, P) == aph[P].op = "read"
b_aph_write(aph) == aph["B"].op = "write"

a_lost(r, aph) ==
  /\ aph_read(aph, "A")
  /\ IF FIXED_B_PRIO THEN aph_read(aph, "B") /\ ~r.any_pending
     ELSE ~r.priority_a /\ (aph_read(aph, "B") \/ r.any_pending)

b_lost(r, aph) ==
  /\ ~FIXED_B_PRIO
  /\ aph_read(aph, "B") /\ r.priority_a
  /\ aph_read(aph, "A") \/ r.any_pending

(* A fixed-priority B also preempts the replay of A's fetch. *)
a_stall(r, aph) ==
  IF FIXED_B_PRIO
  THEN aph_read(aph, "B") /\ (aph_read(aph, "A") \/ r.any_pending)
  ELSE a_lost(r, aph)

(* BUG: a fetch goes before the replay of a saved address. *)
Bug_fetch_preempts_replay(r, aph) ==
  IF FIXED_B_PRIO
  THEN ~aph_read(aph, "B") /\ (aph_read(aph, "A") \/ r.any_pending)
  ELSE aph_read(aph, "A") /\ (r.priority_a \/ ~aph_read(aph, "B"))

a_grant(r, aph) ==
  IF FIXED_B_PRIO
  THEN ~aph_read(aph, "B") /\ (aph_read(aph, "A") \/ r.any_pending)
  ELSE aph_read(aph, "A") /\ ~r.any_pending /\ (r.priority_a \/ ~aph_read(aph, "B"))

pending_nxt(r, aph) ==
  \/ a_lost(r, aph) \/ b_lost(r, aph)
  \/ FIXED_B_PRIO /\ r.any_pending /\ ~a_grant(r, aph)

priority_nxt(r, aph) ==
  (a_lost(r, aph) /\ ~FIXED_B_PRIO) \/ (r.priority_a /\ ~b_lost(r, aph))

rom_read(r, aph) == r.any_pending \/ \E P \in Ports : aph_read(aph, P)

rom_addr(r, aph) ==
  IF FIXED_B_PRIO
  THEN IF aph_read(aph, "B") THEN aph["B"].addr
       ELSE IF r.any_pending THEN r.saved_addr ELSE aph["A"].addr
  ELSE IF a_grant(r, aph) THEN aph["A"].addr
       ELSE IF r.any_pending THEN r.saved_addr ELSE aph["B"].addr

(* BUG: a store that follows a refused one at once is taken for a read. *)
Bug_err2_to_idle(r, aph) ==
  IF r.b_err_st = "err1" THEN "err2"
  ELSE IF r.b_err_st = "idle" /\ b_aph_write(aph) THEN "err1" ELSE "idle"

b_err_st_nxt(r, aph) ==
  IF r.b_err_st = "err1" THEN "err2"
  ELSE IF b_aph_write(aph) THEN "err1" ELSE "idle"

b_hreadyout_nxt(r, aph) ==
  ~b_aph_write(aph) /\ (r.b_err_st = "err1" \/ ~b_lost(r, aph))

(* An address that has been replayed is dead, and forgotten here. *)
RomNext(r, aph) ==
  [any_pending    |-> pending_nxt(r, aph),
   priority_a     |-> priority_nxt(r, aph),
   saved_addr     |-> IF a_lost(r, aph) THEN aph["A"].addr
                      ELSE IF b_lost(r, aph) THEN aph["B"].addr
                      ELSE IF pending_nxt(r, aph) THEN r.saved_addr ELSE AnyAddr,
   hreadyout      |-> [P \in Ports |-> IF P = "A" THEN ~a_stall(r, aph)
                                       ELSE b_hreadyout_nxt(r, aph)],
   b_err_st       |-> b_err_st_nxt(r, aph),
   rom_was_active |-> rom_read(r, aph)]

b_hresp(r) == r.b_err_st # "idle"

rom_hclk_en(r, aph) ==
  \/ \E P \in Ports : aph_read(aph, P)
  \/ b_aph_write(aph) \/ r.rom_was_active \/ b_hresp(r)

(* The macro: its output holds the last word read. *)
RomDoutNext(r, aph, content, dout) ==
  IF rom_read(r, aph) THEN content[rom_addr(r, aph)] ELSE dout
=============================================================================
