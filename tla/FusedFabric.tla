---------------------------- MODULE FusedFabric ----------------------------
(* ahb_interconnect_fused with one fused ROM and one fused SRAM: the fetch  *)
(* bus drives port A of both controllers, the data bus port B, and each bus *)
(* has a subordinate multiplexer and a default subordinate.  The data bus   *)
(* carries whatever the manager multiplexer of AhbGeneric may put on it;    *)
(* peripherals, which only that bus reaches, are left out.                  *)
(* One step is one edge of hclk; `aph' holds the beat each bus presents in  *)
(* the last cycle of its address phase.                                     *)
EXTENDS FusedSram

CONSTANTS RomAddrs, RomContent, Nowhere
ASSUME FabricAssumption ==
  /\ RomAddrs # {} /\ RomAddrs \cap Addrs = {}
  /\ RomContent \in [RomAddrs -> Words] /\ Nowhere \notin Addrs \cup RomAddrs

VARIABLES rom, rom_dout,  \* the ROM controller's registers, its macro's output
          dflt,           \* the default subordinate of each bus
          held,           \* the beat in its data phase on each bus
          maySee,         \* the values the fetch in progress may return
          waited          \* wait states of each data phase so far
rtl == <<sram_rtl, rom, rom_dout, dflt>>
vars == <<rtl, held, maySee, waited>>

Rom    == INSTANCE FusedRom
Blocks == INSTANCE AhbBlocks WITH Xfers <- {}, None <- "none", MAX_WAIT <- 0

WaitCap  == 3  \* `waited' stops counting here
SysAddrs == Addrs \cup RomAddrs \cup {Nowhere}
SysReads == [op : {"read"}, addr : SysAddrs, lanes : {{}}]
Refused  == [op : {"write"}, addr : RomAddrs \cup {Nowhere}, lanes : {{}}]

(* The beats of each bus.  The strobes of a store that no memory takes      *)
(* reach nothing, nor does the address of a store on the fetch bus.         *)
BusBeats(P) ==
  {Idle} \cup SysReads \cup
  (IF P = "A" THEN {[op |-> "write", addr |-> Idle.addr, lanes |-> {}]}
   ELSE Writes \cup Refused)

TypeOK ==
  /\ SramTypeOK
  /\ rom \in Rom!Registers /\ rom_dout \in Words
  /\ dflt \in [Ports -> Blocks!Dflt]
  /\ \A P \in Ports : held[P] \in BusBeats(P)
  /\ maySee \in [Lanes -> SUBSET Vals]
  /\ waited \in [Ports -> 0 .. WaitCap]

----------------------------------------------------------------------------
(* Routing. *)
Subordinates == {"sram", "rom", "dflt"}

(* The subordinate a beat selects: port A takes no store. *)
Target(P, beat) ==
  IF beat.addr = Nowhere \/ (P = "A" /\ beat.op = "write") THEN "dflt"
  ELSE IF beat.addr \in Addrs THEN "sram" ELSE "rom"

To(s, aph) ==
  [P \in Ports |-> IF aph[P] # Idle /\ Target(P, aph[P]) = s THEN aph[P] ELSE Idle]

s_hreadyout(s, P) ==
  CASE s = "sram" -> hreadyout(P)
    [] s = "rom"  -> rom.hreadyout[P]
    [] OTHER      -> Blocks!dflt_hreadyout(dflt[P])
s_hresp(s, P) ==
  CASE s = "sram" -> FALSE
    [] s = "rom"  -> P = "B" /\ Rom!b_hresp(rom)
    [] OTHER      -> Blocks!dflt_hresp(dflt[P])

(* A bus without a data phase keeps the select of its last one, any.        *)
hsel_latched(P) == IF held[P] = Idle THEN Subordinates ELSE {Target(P, held[P])}
hready(P) == \A s \in hsel_latched(P) : s_hreadyout(s, P)
hresp(P)  == \E s \in hsel_latched(P) : s_hresp(s, P)

bus_hrdata(P) ==
  CASE Target(P, held[P]) = "sram" -> IF P = "A" THEN a_hrdata ELSE b_hrdata
    [] Target(P, held[P]) = "rom"  -> rom_dout
    [] OTHER                       -> [l \in Lanes |-> Zero]

(* What the managers may present: nothing while their bus is held. *)
Offer(P) == IF hready(P) THEN BusBeats(P) ELSE {Idle}
Offers == {[P \in Ports |-> IF P = "A" THEN a ELSE b] : a \in Offer("A"), b \in Offer("B")}

(* hwdata is sampled in a store's data phase only. *)
WriteData == IF c.state = "WRITE" THEN Words ELSE {[l \in Lanes |-> Zero]}

----------------------------------------------------------------------------
hclk_en(aph) ==
  \/ held["B"] # Idle
  \/ \E P \in Ports : aph[P] # Idle \/ dflt[P].p0 \/ dflt[P].p1
  \/ sram_hclk_en(To("sram", aph)) \/ Rom!rom_hclk_en(rom, To("rom", aph))

(* The values that a write ending its data phase now gives lane l of addr. *)
Landing(addr, hwdata) ==
  [l \in Lanes |-> IF c.state = "WRITE" /\ c.wr_addr = addr /\ l \in c.wr_en
                   THEN {hwdata[l]} ELSE {}]

(* The memories as bus traffic has written them. *)
Contents == [a \in Addrs \cup RomAddrs |->
               IF a \in Addrs THEN Visible(sram, c)[a] ELSE RomContent[a]]

(* A fetch may return what was written before its address phase, or by a    *)
(* write whose data phase ends between that cycle and its grant.            *)
Fetching(beat) == beat.op = "read" /\ beat.addr # Nowhere
MaySeeNext(aph, hwdata) ==
  LET seen(addr, before) == [l \in Lanes |-> before[l] \cup Landing(addr, hwdata)[l]]
  IN IF Fetching(aph["A"])
     THEN seen(aph["A"].addr, [l \in Lanes |-> {Contents[aph["A"].addr][l]}])
     ELSE IF ~hready("A") THEN seen(held["A"].addr, maySee)
     ELSE [l \in Lanes |-> {}]

DataPhases(aph) ==
  /\ held' = [P \in Ports |-> IF hready(P) THEN aph[P] ELSE held[P]]
  /\ waited' = [P \in Ports |->
                  IF hready(P) THEN 0
                  ELSE IF waited[P] = WaitCap THEN WaitCap ELSE waited[P] + 1]

Init ==
  /\ SramInit
  /\ rom = Rom!Reset /\ rom_dout \in Words
  /\ dflt = [P \in Ports |-> Blocks!DfltReset]
  /\ held = [P \in Ports |-> Idle]
  /\ maySee = [l \in Lanes |-> {}]
  /\ waited = [P \in Ports |-> 0]

HclkEdge(aph, hwdata) ==
  /\ SramEdge(To("sram", aph), hwdata)
  /\ rom' = Rom!RomNext(rom, To("rom", aph))
  /\ rom_dout' = Rom!RomDoutNext(rom, To("rom", aph), RomContent, rom_dout)
  /\ dflt' = [P \in Ports |-> Blocks!DfltNext(dflt[P], To("dflt", aph)[P] # Idle)]
  /\ DataPhases(aph)
  /\ maySee' = MaySeeNext(aph, hwdata)

(* The clock gate outside the fabric withholds the edge. *)
Gated(aph) ==
  /\ ~hclk_en(aph)
  /\ DataPhases(aph)
  /\ UNCHANGED <<rtl, maySee>>

Next == \E aph \in Offers :
          \/ \E hwdata \in WriteData : HclkEdge(aph, hwdata)
          \/ Gated(aph)

Spec == Init /\ [][Next]_vars
-----------------------------------------------------------------------------
(* Nothing answers there, or what answers there takes no stores. *)
Denied(P) ==
  \/ held[P].addr = Nowhere
  \/ held[P].op = "write" /\ (P = "A" \/ held[P].addr \in RomAddrs)

DataPort == INSTANCE AhbMemory
              WITH Addrs <- Addrs \cup RomAddrs, mem <- Contents,
                   dph <- IF Denied("B") THEN Idle ELSE held["B"],
                   ready <- hready("B"), rdata <- bus_hrdata("B")

(* Loads on the data bus return what every earlier store left, or the ROM's *)
(* word, whatever fetches do with the macros and wherever a store is parked *)
(* meanwhile; a store takes effect once, when its data phase ends, and one  *)
(* that is denied has none.                                                 *)
ImplementsMemory == DataPort!Spec

(* A fetch returns every store whose data phase ended before the fetch's    *)
(* address phase, though port A bypasses the forwarding of parked writes;   *)
(* each byte it returns is that value or one stored while it waited         *)
(* (ahb_fused_sram_ctrl.v:29, "a Port-A fetch issued after the write's      *)
(* data phase always sees it").  A fetch from the ROM returns its word.     *)
FetchSeesEarlierStores ==
  Fetching(held["A"]) /\ hready("A") =>
    \A l \in Lanes : bus_hrdata("A")[l] \in maySee[l]

(* No beat waits for more than two cycles: a contest lost in a write's data *)
(* phase and the restore after it do not add up with a second contest.      *)
(* Under FIXED_B_PRIO this holds of port B only; A may starve, as           *)
(* documented (ahb_interconnect.md:250).                                    *)
TwoWaitStates ==
  \A P \in Ports : P = "B" \/ ~FIXED_B_PRIO => waited[P] <= 2

(* ERROR is the answer to stores into the ROM, stores of the fetch manager  *)
(* and addresses of nobody, to these only, and takes two cycles, whatever   *)
(* precedes and follows them on either bus.                                 *)
OnlyDenialsFail ==
  \A P \in Ports : /\ hresp(P) = Denied(P)
                   /\ Denied(P) => hready(P) = (waited[P] = 1)
=============================================================================
