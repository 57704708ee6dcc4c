----------------------------- MODULE FusedSram -----------------------------
(* ahb_fused_sram_ctrl: an executable SRAM with two AHB ports, A for the    *)
(* instruction fetches of one manager and B for data, on one single-ported  *)
(* macro.  Each port caches an address phase it cannot pass on and holds    *)
(* its bus meanwhile; an arbiter grants one port at a time, and neither     *)
(* while a parked write is restored.  The controller behind it is the one   *)
(* of SramBlocks, except that only reads of port B are compared with the    *)
(* parked address.                                                          *)
(* `aph' holds the beat each port samples; FusedFabric drives the ports.    *)
EXTENDS SramState, Naturals

CONSTANT FIXED_B_PRIO
ASSUME FixedAssumption == FIXED_B_PRIO \in BOOLEAN

VARIABLES m,                \* m0 and m1: the registers of ports A and B
          toggle_priority
sram_rtl == <<m, toggle_priority, c, sram, sram_dout>>

Ports == {"A", "B"}
Port == [aph_pending : BOOLEAN, dph_ongoing : BOOLEAN, cache : Beats]

SramTypeOK ==
  /\ m \in [Ports -> Port] /\ toggle_priority \in BOOLEAN
  /\ c \in Controller
  /\ sram \in [Addrs -> Words] /\ sram_dout \in Words

hreadyout(P) == m[P].dph_ongoing \/ ~m[P].aph_pending

aph_valid(aph, P)   == aph[P] # Idle
m_request(aph, P)   == aph_valid(aph, P) \/ m[P].aph_pending
beat_to_sub(aph, P) == IF m[P].aph_pending THEN m[P].cache ELSE aph[P]

(* BUG: the ports are granted while a write is parked. *)
Bug_not_held_off(aph, P) == m_request(aph, P)

arb_request(aph, P) == m_request(aph, P) /\ c.state # "READ_PENDING_WRITE"

(* BUG: the fixed scheme's order under the toggle scheme. *)
Bug_always_B_first == "B"

First == IF FIXED_B_PRIO \/ toggle_priority THEN "B" ELSE "A"

arb_grant(aph, P) ==
  /\ arb_request(aph, P)
  /\ P # First => ~arb_request(aph, First)

latch_aph(aph, P) == aph_valid(aph, P) /\ ~arb_grant(aph, P)

(* The beat on the internal bus. *)
bus(aph) ==
  IF arb_grant(aph, "B") THEN beat_to_sub(aph, "B")
  ELSE IF arb_grant(aph, "A") THEN beat_to_sub(aph, "A")
  ELSE Idle

(* A cached beat that has been passed on is dead, and forgotten here. *)
PortNext(aph, P) ==
  [aph_pending |-> IF latch_aph(aph, P) \/ arb_grant(aph, P)
                   THEN latch_aph(aph, P) ELSE m[P].aph_pending,
   dph_ongoing |-> arb_grant(aph, P),
   cache       |-> IF latch_aph(aph, P) THEN aph[P]
                   ELSE IF arb_grant(aph, P) THEN Idle ELSE m[P].cache]

m_hclk_en(aph, P) ==
  aph_valid(aph, P) \/ m[P].aph_pending \/ arb_grant(aph, P) \/ m[P].dph_ongoing
sram_hclk_en(aph) ==
  \/ \E P \in Ports : m_hclk_en(aph, P)
  \/ bus(aph) # Idle \/ c.state # "IDLE"

a_hrdata == sram_dout
b_hrdata == IF m["B"].dph_ongoing THEN hrdata(c, sram_dout) ELSE [l \in Lanes |-> Zero]

SramInit ==
  /\ m = [P \in Ports |-> [aph_pending |-> FALSE, dph_ongoing |-> FALSE,
                           cache |-> Idle]]
  /\ toggle_priority = FALSE
  /\ c = ControllerReset(Lanes)
  /\ sram \in [Addrs -> Words] /\ sram_dout \in Words

SramEdge(aph, hwdata) ==
  /\ m' = [P \in Ports |-> PortNext(aph, P)]
  /\ toggle_priority' = IF ~FIXED_B_PRIO /\ \E P \in Ports : arb_grant(aph, P)
                        THEN arb_grant(aph, "A") ELSE toggle_priority
  /\ c' = ControllerNext(c, bus(aph), hwdata, arb_grant(aph, "B"))
  /\ sram' = MacroNext(sram, c, bus(aph), hwdata)
  /\ sram_dout' \in DoutNext(sram, c, bus(aph))
=============================================================================
