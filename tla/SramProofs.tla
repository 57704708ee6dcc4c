----------------------------- MODULE SramProofs -----------------------------
(* Proofs about the controller that parks writes in front of a single-port  *)
(* macro, and about the two designs that have it: SramController, which is  *)
(* a memory, and FusedFabric, for any memories, either priority scheme and  *)
(* any traffic: the data bus carries a memory, a fetch sees every earlier   *)
(* store, no beat waits for more than two cycles, and ERROR answers the     *)
(* denied beats only.                                                       *)
EXTENDS SramController, FusedFabric, TLAPS

(* The write-parking controller and its macro. *)
LEMMA IdleBeat ==
  Idle.op = "idle" /\ Idle.addr \in Addrs /\ Idle.lanes = {} /\ Idle \in Beats
BY SramAssumption DEF Idle, Beats

LEMMA BeatsType ==
  ASSUME NEW b \in Beats
  PROVE  /\ b.op \in {"idle", "read", "write"} /\ b.addr \in Addrs
         /\ b.lanes \in SUBSET Lanes
         /\ b # Idle => b.op # "idle"
         /\ b = [op |-> b.op, addr |-> b.addr, lanes |-> b.lanes]
<1>1. CASE b = Idle
  BY <1>1, IdleBeat DEF Idle
<1>2. CASE b \in Reads \cup Writes
  BY <1>2, SramAssumption DEF Reads, Writes
<1> QED BY <1>1, <1>2 DEF Beats

LEMMA ZeroWord == Zero \in Vals /\ [l \in Lanes |-> Zero] \in Words
BY SramAssumption DEF Zero, Words

(* The registers after an edge that takes the beat b. *)
LEMMA ControllerFacts ==
  ASSUME NEW k \in Controller, NEW b \in Beats, NEW w \in Words,
         NEW compared \in BOOLEAN, NEW k2, k2 = ControllerNext(k, b, w, compared)
  PROVE  /\ k2 \in Controller
         /\ k2.state = state_nxt(k, b)
         /\ b.op = "write" => k2.wr_addr = b.addr /\ k2.wr_en = b.lanes
         /\ b.op # "write" => k2.wr_addr = k.wr_addr /\ k2.wr_en = k.wr_en
         /\ k2.pause = IF sram_wr_pause(k, b) THEN w ELSE k.pause
         /\ k2.from_pause = sram_read_from_pause(k, b, compared)
         /\ b.op = "read" => k2.rd_cmd = Lanes \ k2.from_pause
<1> DEFINE kn == ControllerNext(k, b, w, compared)
<1>1. /\ b.op \in {"idle", "read", "write"} /\ b.addr \in Addrs
      /\ b.lanes \in SUBSET Lanes
  BY BeatsType
<1>2. /\ k.wr_addr \in Addrs /\ k.wr_en \in SUBSET Lanes /\ k.pause \in Words
      /\ k.state \in {"IDLE", "READ", "WRITE", "READ_PENDING_WRITE"}
  BY DEF Controller
<1>3. /\ state_nxt(k, b) \in {"IDLE", "READ", "WRITE", "READ_PENDING_WRITE"}
      /\ state_nxt(k, b) = "WRITE" <=> b.op = "write"
  BY <1>1 DEF state_nxt
<1>4. sram_read_from_pause(k, b, compared) \in SUBSET Lanes
  BY <1>2 DEF sram_read_from_pause
<1>5. kn \in Controller
  BY <1>1, <1>2, <1>3, <1>4 DEF ControllerNext, Controller
<1>6. /\ kn.state = state_nxt(k, b)
      /\ kn.wr_addr = IF state_nxt(k, b) = "WRITE" THEN b.addr ELSE k.wr_addr
      /\ kn.wr_en = IF state_nxt(k, b) = "WRITE" THEN b.lanes ELSE k.wr_en
      /\ kn.pause = IF sram_wr_pause(k, b) THEN w ELSE k.pause
      /\ kn.from_pause = sram_read_from_pause(k, b, compared)
      /\ kn.rd_cmd = IF sram_rd_cmd(b)
                     THEN Lanes \ sram_read_from_pause(k, b, compared) ELSE {}
  BY DEF ControllerNext
<1> QED BY <1>3, <1>5, <1>6 DEF sram_rd_cmd

LEMMA OverlayType ==
  ASSUME NEW w \in Words, NEW lanes, NEW data \in Words
  PROVE  Overlay(w, lanes, data) \in Words
BY DEF Overlay, Words

LEMMA MacroType ==
  ASSUME NEW k \in Controller, NEW b \in Beats, NEW w \in Words,
         NEW s \in [Addrs -> Words]
  PROVE  /\ MacroNext(s, k, b, w) \in [Addrs -> Words]
         /\ DoutNext(s, k, b) \subseteq Words
         /\ Visible(s, k) \in [Addrs -> Words]
<1>1. k.wr_addr \in Addrs /\ k.pause \in Words /\ b.addr \in Addrs
  BY BeatsType DEF Controller
<1>2. sram_din(k, b, w) \in Words
  BY <1>1 DEF sram_din
<1>3. /\ Overlay(s[k.wr_addr], k.wr_en, sram_din(k, b, w)) \in Words
      /\ Overlay(s[k.wr_addr], k.wr_en, k.pause) \in Words
  BY <1>1, <1>2, OverlayType
<1> QED BY <1>1, <1>3 DEF MacroNext, DoutNext, Visible

(* The memory under the parked write changes exactly by the write, if any,  *)
(* whose data phase ends at the edge.                                       *)
LEMMA VisibleStep ==
  ASSUME NEW k \in Controller, NEW b \in Beats, NEW w \in Words,
         NEW s \in [Addrs -> Words], NEW compared \in BOOLEAN,
         NEW k2, k2 = ControllerNext(k, b, w, compared),
         NEW s2, s2 = MacroNext(s, k, b, w)
  PROVE  Visible(s2, k2) = IF k.state = "WRITE"
                           THEN [s EXCEPT ![k.wr_addr] = Overlay(@, k.wr_en, w)]
                           ELSE Visible(s, k)
<1>1. /\ b.op \in {"idle", "read", "write"}
      /\ k.state \in {"IDLE", "READ", "WRITE", "READ_PENDING_WRITE"}
  BY BeatsType DEF Controller
<1>2. /\ k2.state = state_nxt(k, b)
      /\ b.op # "write" => k2.wr_addr = k.wr_addr /\ k2.wr_en = k.wr_en
      /\ k2.pause = IF sram_wr_pause(k, b) THEN w ELSE k.pause
  BY ControllerFacts
<1>3. CASE k.state = "WRITE" /\ b.op = "read"
  BY <1>2, <1>3
     DEF MacroNext, Visible, state_nxt, sram_wr_pause, sram_wr_restore, sram_wr_active
<1>4. CASE k.state = "WRITE" /\ b.op # "read"
  BY <1>1, <1>2, <1>4
     DEF MacroNext, Visible, state_nxt, sram_wr_pause, sram_wr_restore,
         sram_wr_active, sram_din
<1>5. CASE k.state = "READ_PENDING_WRITE"
  BY <1>1, <1>2, <1>5
     DEF MacroNext, Visible, state_nxt, sram_wr_pause, sram_wr_restore,
         sram_wr_active, sram_din
<1>6. CASE k.state \in {"IDLE", "READ"}
  BY <1>1, <1>2, <1>6
     DEF MacroNext, Visible, state_nxt, sram_wr_pause, sram_wr_restore, sram_wr_active
<1> QED BY <1>1, <1>3, <1>4, <1>5, <1>6

(* A read that is compared with the parked address finds its word on hrdata *)
(* in the next cycle, the lanes of a parked write included.                 *)
LEMMA AnswerStep ==
  ASSUME NEW s \in [Addrs -> Words], NEW a \in Addrs, NEW k2 \in Controller,
         k2.from_pause = IF k2.state = "READ_PENDING_WRITE" /\ k2.wr_addr = a
                         THEN k2.wr_en ELSE {},
         k2.rd_cmd = Lanes \ k2.from_pause
  PROVE  hrdata(k2, s[a]) = Visible(s, k2)[a]
<1>1. k2.wr_addr \in Addrs /\ k2.wr_en \in SUBSET Lanes
  BY DEF Controller
<1>2. s[a] = [l \in Lanes |-> s[a][l]]
  BY DEF Words
<1>3. hrdata(k2, s[a])
        = [l \in Lanes |-> IF l \in k2.from_pause THEN k2.pause[l] ELSE s[a][l]]
  BY DEF hrdata
<1>4. CASE k2.state = "READ_PENDING_WRITE" /\ k2.wr_addr = a
  <2>1. Visible(s, k2)[a]
          = [l \in Lanes |-> IF l \in k2.wr_en THEN k2.pause[l] ELSE s[a][l]]
    BY <1>1, <1>4 DEF Visible, Overlay
  <2> QED BY <1>3, <1>4, <2>1
<1>5. CASE ~(k2.state = "READ_PENDING_WRITE" /\ k2.wr_addr = a)
  <2>1. Visible(s, k2)[a] = s[a]
    BY <1>1, <1>5 DEF Visible
  <2> QED BY <1>2, <1>3, <1>5, <2>1
<1> QED BY <1>4, <1>5

LEMMA HrdataType ==
  ASSUME NEW k \in Controller, NEW dout \in Words
  PROVE  hrdata(k, dout) \in Words
BY ZeroWord DEF Controller, hrdata, Words

-----------------------------------------------------------------------------
(* The single-port controller.  The macro itself is not the memory: what    *)
(* refines the memory is the macro under the parked write, and the          *)
(* invariant says that the controller's state names the beat in its data    *)
(* phase and that the read gates select its word.                           *)
Tracks ==
  /\ dph.op = "write" <=> c.state = "WRITE"
  /\ dph.op = "write" => dph.addr = c.wr_addr /\ dph.lanes = c.wr_en
  /\ dph.op = "read" <=> c.state \in {"READ", "READ_PENDING_WRITE"}

Answers == dph.op = "read" => hrdata(c, sram_dout) = Visible(sram, c)[dph.addr]

SingleInv == SingleTypeOK /\ Tracks /\ Answers

LEMMA SingleInvInit == SingleInit => SingleInv
<1> SUFFICES ASSUME SingleInit PROVE SingleInv
  OBVIOUS
<1>1. SingleTypeOK
  BY ZeroWord, IdleBeat DEF SingleInit, SingleTypeOK, ControllerReset, Controller
<1>2. Tracks /\ Answers
  BY IdleBeat DEF SingleInit, Tracks, Answers, ControllerReset
<1> QED BY <1>1, <1>2 DEF SingleInv

(* What an edge does to the visible memory, and what it answers next.       *)
LEMMA SingleEdgeFacts ==
  ASSUME SingleInv, NEW aph \in Beats, NEW hwdata \in Words, SingleEdge(aph, hwdata)
  PROVE  /\ SingleInv'
         /\ Visible(sram', c') = Memory!Written(hwdata)
<1>1. PICK yes \in BOOLEAN : yes = TRUE
  OBVIOUS
<1>2. /\ c \in Controller /\ sram \in [Addrs -> Words] /\ dph \in Beats
      /\ sram' = MacroNext(sram, c, aph, hwdata) /\ sram_dout' \in DoutNext(sram, c, aph)
      /\ dph' = aph
  BY DEF SingleInv, SingleTypeOK, SingleEdge
<1>3. c' = ControllerNext(c, aph, hwdata, yes)
  BY <1>1, Zenon DEF SingleEdge
<1>4. /\ c' \in Controller /\ c'.state = state_nxt(c, aph)
      /\ aph.op = "write" => c'.wr_addr = aph.addr /\ c'.wr_en = aph.lanes
      /\ aph.op # "write" => c'.wr_addr = c.wr_addr /\ c'.wr_en = c.wr_en
      /\ c'.from_pause = sram_read_from_pause(c, aph, yes)
      /\ aph.op = "read" => c'.rd_cmd = Lanes \ c'.from_pause
  BY <1>2, <1>3, ControllerFacts
<1>5. /\ aph.op \in {"idle", "read", "write"} /\ aph.addr \in Addrs
  BY BeatsType
<1>6. SingleTypeOK'
  BY <1>2, <1>4, MacroType DEF SingleTypeOK
<1>7. Tracks'
  BY <1>2, <1>4, <1>5 DEF Tracks, state_nxt
<1>8. Answers'
  <2> SUFFICES ASSUME aph.op = "read"
               PROVE  hrdata(c', sram_dout') = Visible(sram', c')[aph.addr]
    BY <1>2 DEF Answers
  <2>1. sram' = sram /\ sram_dout' = sram[aph.addr]
    BY <1>2 DEF MacroNext, DoutNext, sram_rd_cmd, sram_wr_active, sram_wr_pause, sram_wr_restore
  <2>2. c'.from_pause = IF c'.state = "READ_PENDING_WRITE" /\ c'.wr_addr = aph.addr
                        THEN c'.wr_en ELSE {}
    BY <1>1, <1>4 DEF sram_read_from_pause
  <2> QED BY <1>2, <1>4, <1>5, <2>1, <2>2, AnswerStep
<1>9. Visible(sram', c') = Memory!Written(hwdata)
  <2>1. Visible(sram', c') = IF c.state = "WRITE"
                             THEN [sram EXCEPT ![c.wr_addr] = Overlay(@, c.wr_en, hwdata)]
                             ELSE Visible(sram, c)
    BY <1>2, <1>3, VisibleStep
  <2>2. c.state = "WRITE" => Visible(sram, c) = sram
    BY DEF Visible
  <2> QED BY <2>1, <2>2 DEF SingleInv, Tracks, Memory!Written, Memory!Overlay, Overlay
<1> QED BY <1>6, <1>7, <1>8, <1>9 DEF SingleInv

(* A withheld edge finds nothing in progress. *)
LEMMA SingleGatedFacts ==
  ASSUME SingleInv, NEW aph \in Beats, SingleGated(aph)
  PROVE  /\ aph = Idle /\ dph.op = "idle" /\ dph' = Idle
         /\ UNCHANGED <<c, sram, sram_dout>>
<1>1. aph = Idle /\ c.state = "IDLE"
  BY DEF SingleGated, single_hclk_en
<1>2. dph.op = "idle"
  BY <1>1, BeatsType DEF SingleInv, SingleTypeOK, Tracks
<1> QED BY <1>1, <1>2 DEF SingleGated

LEMMA SingleInvNext == SingleInv /\ [SingleNext]_svars => SingleInv'
<1> SUFFICES ASSUME SingleInv, [SingleNext]_svars PROVE SingleInv'
  OBVIOUS
<1>1. ASSUME NEW aph \in Beats, NEW hwdata \in Words, SingleEdge(aph, hwdata)
      PROVE  SingleInv'
  BY <1>1, SingleEdgeFacts
<1>2. ASSUME NEW aph \in Beats, SingleGated(aph) PROVE SingleInv'
  BY <1>2, SingleGatedFacts, IdleBeat DEF SingleInv, SingleTypeOK, Tracks, Answers
<1>3. CASE UNCHANGED svars
  BY <1>3 DEF svars, SingleInv, SingleTypeOK, Tracks, Answers
<1> QED BY <1>1, <1>2, <1>3 DEF SingleNext

THEOREM SingleInvariant == SingleSpec => []SingleInv
BY SingleInvInit, SingleInvNext, PTL DEF SingleSpec

(* Every register of the controller keeps its range, and every word in the  *)
(* macro is a word, for any memory and any traffic.                         *)
THEOREM SramTypeCorrect == SingleSpec => []SingleTypeOK
<1>1. SingleInv => SingleTypeOK
  BY DEF SingleInv
<1> QED BY <1>1, SingleInvariant, PTL

LEMMA SingleInitRefines == SingleInit => Memory!Init
<1> SUFFICES ASSUME SingleInit PROVE Memory!Init
  OBVIOUS
<1>1. /\ Visible(sram, c) = sram
      /\ hrdata(c, sram_dout) = [l \in Lanes |-> Zero]
  BY DEF SingleInit, ControllerReset, Visible, hrdata
<1>2. Idle \in Memory!Beats
  BY IdleBeat, BeatsType DEF Memory!Beats
<1> QED BY <1>1, <1>2, IdleBeat, ZeroWord DEF SingleInit, Memory!Init, Memory!Words, Words

LEMMA SingleRefines ==
  SingleInv /\ SingleInv' /\ [SingleNext]_svars
    => [Memory!Next]_<<Visible(sram, c), dph, TRUE, hrdata(c, sram_dout)>>
<1> SUFFICES ASSUME SingleInv, SingleInv', [SingleNext]_svars
             PROVE [Memory!Next]_<<Visible(sram, c), dph, TRUE, hrdata(c, sram_dout)>>
  OBVIOUS
<1>1. hrdata(c, sram_dout)' \in Memory!Words
  BY HrdataType DEF SingleInv, SingleTypeOK, Memory!Words, Words
<1>2. dph'.op = "read" => hrdata(c, sram_dout)' = Visible(sram, c)'[dph'.addr]
  BY DEF SingleInv, Answers
<1>3. Memory!Answer
  BY <1>1, <1>2 DEF Memory!Answer
<1>4. ASSUME NEW aph \in Beats, NEW hwdata \in Words, SingleEdge(aph, hwdata)
      PROVE  Memory!Next
  <2>1. aph \in Memory!Beats /\ hwdata \in Memory!Words
    BY BeatsType DEF Memory!Beats, Memory!Words, Words
  <2>2. Visible(sram, c)' = Memory!Written(hwdata) /\ dph' = aph
    BY <1>4, SingleEdgeFacts DEF SingleEdge
  <2>3. Memory!Complete(hwdata)
    BY <2>1, <2>2 DEF Memory!Complete
  <2> QED BY <1>3, <2>1, <2>3 DEF Memory!Next
<1>5. ASSUME NEW aph \in Beats, SingleGated(aph) PROVE Memory!Next
  <2>1. /\ aph = Idle /\ dph.op = "idle" /\ dph' = Idle
        /\ Visible(sram, c)' = Visible(sram, c)
    BY <1>5, SingleGatedFacts
  <2>2. PICK w \in Memory!Words : TRUE
    BY <1>1
  <2>3. Idle \in Memory!Beats
    BY IdleBeat, BeatsType DEF Memory!Beats
  <2>4. Memory!Complete(w)
    BY <2>1, <2>3 DEF Memory!Complete, Memory!Written
  <2> QED BY <1>3, <2>2, <2>4 DEF Memory!Next
<1>6. CASE UNCHANGED svars
  BY <1>6 DEF svars
<1> QED BY <1>4, <1>5, <1>6 DEF SingleNext

(* The controller is a memory: whatever it parks and forwards, a load       *)
(* returns what every earlier store left in each byte, for every memory     *)
(* size, word width and byte-strobe pattern.                                *)
THEOREM SramIsMemory == SingleSpec => SingleImplementsMemory
<1>1. SingleSpec => Memory!Spec
  BY SingleInvariant, SingleInitRefines, SingleRefines, PTL DEF SingleSpec, Memory!Spec
<1> QED BY <1>1 DEF SingleImplementsMemory

-----------------------------------------------------------------------------
(* The fused fabric. *)
At(P, s) == held[P] # Idle /\ Target(P, held[P]) = s

(* What a port of the SRAM controller holds is the beat its bus waits for,  *)
(* or the one that the macro has just been given.                           *)
PortInv ==
  \A P \in Ports :
    /\ m[P].aph_pending => At(P, "sram") /\ m[P].cache = held[P] /\ ~m[P].dph_ongoing
    /\ m[P].dph_ongoing => At(P, "sram")
    /\ At(P, "sram") => m[P].aph_pending \/ m[P].dph_ongoing

(* The controller is in a write's data phase when the data bus is. *)
StateInv ==
  /\ ~(m["A"].dph_ongoing /\ m["B"].dph_ongoing)
  /\ c.state = "WRITE" <=> (m["B"].dph_ongoing /\ held["B"].op = "write")
  /\ c.state = "WRITE" => c.wr_addr = held["B"].addr /\ c.wr_en = held["B"].lanes

(* The default subordinate answers in two cycles. *)
DfltInv ==
  \A P \in Ports :
    /\ At(P, "dflt") <=> (dflt[P].p0 \/ dflt[P].p1)
    /\ dflt[P].p0 => ~dflt[P].p1 /\ waited[P] = 0
    /\ dflt[P].p1 => waited[P] = 1

(* The ROM's saved address is that of the one port that waits, which under  *)
(* toggled priority goes before the other in the next cycle.                *)
RomInv ==
  /\ \A P \in Ports :
       /\ ~rom.hreadyout[P] => At(P, "rom") /\ (held[P].op = "read" => rom.any_pending)
       /\ At(P, "rom") /\ held[P].op = "read" =>
            /\ rom.rom_was_active
            /\ rom.hreadyout[P] => rom_dout = RomContent[held[P].addr]
            /\ ~rom.hreadyout[P] => /\ rom.saved_addr = held[P].addr
                                    /\ FIXED_B_PRIO => P = "A"
                                    /\ ~FIXED_B_PRIO => rom.priority_a = (P = "A")
            /\ ~FIXED_B_PRIO \/ P = "B" =>
                 waited[P] = 0 \/ (waited[P] = 1 /\ rom.hreadyout[P])
  /\ rom.any_pending =>
       \E P \in Ports : ~rom.hreadyout[P] /\ held[P].op = "read"
  /\ FIXED_B_PRIO => ~rom.priority_a
  /\ (At("B", "rom") /\ held["B"].op = "write") <=> rom.b_err_st # "idle"
  /\ rom.b_err_st = "err1" => ~rom.hreadyout["B"] /\ waited["B"] = 0
  /\ rom.b_err_st = "err2" => rom.hreadyout["B"] /\ waited["B"] = 1

(* A beat that waits for the SRAM goes first once it has waited a cycle, or *)
(* the macro is at rest and one contest is left to lose.                    *)
WaitInv ==
  \A P \in Ports : P = "B" \/ ~FIXED_B_PRIO =>
    /\ m[P].aph_pending =>
         \/ waited[P] = 0 /\ (First = P \/ c.state = "IDLE")
         \/ waited[P] = 1 /\ First = P /\ c.state # "READ_PENDING_WRITE"
    /\ m[P].dph_ongoing => waited[P] <= 2
    /\ held[P] = Idle => waited[P] = 0

(* A load in its data phase gets the word under any parked write.           *)
LoadInv ==
  m["B"].dph_ongoing /\ held["B"].op = "read" =>
    hrdata(c, sram_dout) = Visible(sram, c)[held["B"].addr]

(* A fetch that waits may see what the memory holds; one in its data phase  *)
(* has been given a word it may see.                                        *)
FetchInv ==
  /\ m["A"].aph_pending =>
       \A l \in Lanes : Visible(sram, c)[held["A"].addr][l] \in maySee[l]
  /\ m["A"].dph_ongoing => \A l \in Lanes : sram_dout[l] \in maySee[l]
  /\ At("A", "rom") =>
       \A l \in Lanes : RomContent[held["A"].addr][l] \in maySee[l]

FabricInv == /\ TypeOK /\ PortInv /\ StateInv /\ DfltInv /\ RomInv /\ WaitInv
             /\ LoadInv /\ FetchInv

-----------------------------------------------------------------------------
(* The beats, and the subordinates they select. *)
LEMMA IdleFacts ==
  /\ Idle.op = "idle" /\ Idle.addr \in Addrs /\ Idle.lanes = {}
  /\ Idle \in Beats /\ \A P \in Ports : Idle \in BusBeats(P)
BY IdleBeat DEF BusBeats

LEMMA BeatFacts ==
  ASSUME NEW P \in Ports, NEW b \in BusBeats(P), b # Idle
  PROVE  /\ b.op \in {"read", "write"} /\ b.addr \in SysAddrs
         /\ b.lanes \in SUBSET Lanes
         /\ Target(P, b) \in Subordinates
         /\ Target(P, b) = "sram" => /\ b \in Reads \cup Writes /\ b.addr \in Addrs
                                     /\ P = "A" => b.op = "read"
         /\ Target(P, b) = "rom"  => /\ b.addr \in RomAddrs
                                     /\ P = "A" => b.op = "read"
         /\ Target(P, b) = "dflt" <=> (b.addr = Nowhere \/ (P = "A" /\ b.op = "write"))
<1>1. CASE b \in SysReads
  BY <1>1, FabricAssumption DEF SysReads, SysAddrs, Target, Subordinates, Reads
<1>2. CASE P = "A" /\ b = [op |-> "write", addr |-> Idle.addr, lanes |-> {}]
  BY <1>2, IdleFacts DEF SysAddrs, Target, Subordinates
<1>3. CASE P = "B" /\ b \in Writes
  BY <1>3, FabricAssumption, SramAssumption DEF SysAddrs, Target, Subordinates, Writes
<1>4. CASE P = "B" /\ b \in Refused
  BY <1>4, FabricAssumption DEF SysAddrs, Target, Subordinates, Refused
<1> QED BY <1>1, <1>2, <1>3, <1>4 DEF BusBeats, Ports

(* A bus is held exactly by the subordinate that its beat waits for. *)
LEMMA ReadyFacts ==
  ASSUME FabricInv, NEW P \in Ports
  PROVE  hready(P) <=> /\ ~m[P].aph_pending /\ rom.hreadyout[P] /\ ~dflt[P].p0
<1>1. CASE held[P] = Idle
  <2>1. ~At(P, "sram") /\ ~At(P, "rom") /\ ~At(P, "dflt")
    BY <1>1 DEF At
  <2>2. hreadyout(P) /\ rom.hreadyout[P] /\ ~dflt[P].p0 /\ ~m[P].aph_pending
    BY <2>1 DEF FabricInv, PortInv, RomInv, DfltInv, hreadyout
  <2> QED BY <1>1, <2>2
          DEF hready, hsel_latched, s_hreadyout, Blocks!dflt_hreadyout, Subordinates
<1>2. CASE held[P] # Idle
  <2>1. held[P] \in BusBeats(P)
    BY DEF FabricInv, TypeOK
  <2>2. Target(P, held[P]) \in Subordinates
    BY <1>2, <2>1, BeatFacts
  <2>3. hready(P) <=> s_hreadyout(Target(P, held[P]), P)
    BY <1>2 DEF hready, hsel_latched
  <2>4. CASE Target(P, held[P]) = "sram"
    <3>1. At(P, "sram") /\ ~At(P, "rom") /\ ~At(P, "dflt")
      BY <1>2, <2>4 DEF At
    <3>2. /\ rom.hreadyout[P] /\ ~dflt[P].p0
          /\ m[P].aph_pending => ~m[P].dph_ongoing
      BY <3>1 DEF FabricInv, PortInv, RomInv, DfltInv
    <3> QED BY <2>3, <2>4, <3>2 DEF s_hreadyout, hreadyout
  <2>5. CASE Target(P, held[P]) = "rom"
    <3>1. At(P, "rom") /\ ~At(P, "sram") /\ ~At(P, "dflt")
      BY <1>2, <2>5 DEF At
    <3>2. ~m[P].aph_pending /\ ~dflt[P].p0
      BY <3>1 DEF FabricInv, PortInv, DfltInv
    <3> QED BY <2>3, <2>5, <3>2 DEF s_hreadyout
  <2>6. CASE Target(P, held[P]) = "dflt"
    <3>1. At(P, "dflt") /\ ~At(P, "sram") /\ ~At(P, "rom")
      BY <1>2, <2>6 DEF At
    <3>2. ~m[P].aph_pending /\ rom.hreadyout[P]
      BY <3>1 DEF FabricInv, PortInv, RomInv
    <3> QED BY <2>3, <2>6, <3>2 DEF s_hreadyout, Blocks!dflt_hreadyout
  <2> QED BY <2>2, <2>4, <2>5, <2>6 DEF Subordinates
<1> QED BY <1>1, <1>2

(* What an edge samples. *)
LEMMA OfferFacts ==
  ASSUME FabricInv, NEW aph \in Offers, NEW P \in Ports
  PROVE  /\ aph[P] \in BusBeats(P)
         /\ aph[P] # Idle => hready(P)
         /\ \A s : To(s, aph)[P] = IF aph[P] # Idle /\ Target(P, aph[P]) = s
                                   THEN aph[P] ELSE Idle
<1>1. PICK a \in Offer("A"), b \in Offer("B") :
        aph = [Q \in Ports |-> IF Q = "A" THEN a ELSE b]
  BY DEF Offers
<1>2. aph[P] \in Offer(P)
  BY <1>1 DEF Ports
<1>3. aph[P] \in BusBeats(P) /\ (aph[P] # Idle => hready(P))
  BY <1>2, IdleFacts DEF Offer
<1> QED BY <1>3 DEF To

(* The data phases after an edge. *)
LEMMA HeldStep ==
  ASSUME FabricInv, NEW aph \in Offers, DataPhases(aph), NEW P \in Ports
  PROVE  /\ held'[P] = IF hready(P) THEN aph[P] ELSE held[P]
         /\ held'[P] \in BusBeats(P)
         /\ waited'[P] = IF hready(P) THEN 0
                         ELSE IF waited[P] = WaitCap THEN WaitCap ELSE waited[P] + 1
         /\ held' = [Q \in Ports |-> held'[Q]]
         /\ waited' \in [Ports -> 0 .. WaitCap]
<1>1. held[P] \in BusBeats(P) /\ waited \in [Ports -> 0 .. WaitCap]
  BY DEF FabricInv, TypeOK
<1>2. held'[P] = IF hready(P) THEN aph[P] ELSE held[P]
  BY DEF DataPhases
<1>3. held' = [Q \in Ports |-> held'[Q]]
  BY DEF DataPhases
<1>4. waited'[P] = IF hready(P) THEN 0
                   ELSE IF waited[P] = WaitCap THEN WaitCap ELSE waited[P] + 1
  BY DEF DataPhases
<1>5. waited' \in [Ports -> 0 .. WaitCap]
  BY <1>1 DEF DataPhases, WaitCap
<1> QED BY <1>1, <1>2, <1>3, <1>4, <1>5, OfferFacts

-----------------------------------------------------------------------------
(* The ports of the SRAM controller. *)
LEMMA WaitingFacts ==
  ASSUME FabricInv, NEW P \in Ports
  PROVE  /\ m[P].aph_pending <=> At(P, "sram") /\ ~hready(P)
         /\ m[P].aph_pending => m[P].cache = held[P]
         /\ m[P] \in Port
<1>1. /\ hready(P) <=> ~m[P].aph_pending /\ rom.hreadyout[P] /\ ~dflt[P].p0
      /\ ~rom.hreadyout[P] => At(P, "rom")
      /\ dflt[P].p0 => At(P, "dflt")
      /\ m[P].aph_pending => At(P, "sram") /\ m[P].cache = held[P]
      /\ m[P] \in Port
  BY ReadyFacts DEF FabricInv, TypeOK, SramTypeOK, PortInv, RomInv, DfltInv
<1>2. At(P, "sram") => ~At(P, "rom") /\ ~At(P, "dflt")
  BY DEF At
<1> QED BY <1>1, <1>2

(* What a port of the SRAM controller samples, and what it may be granted.  *)
LEMMA GrantFacts ==
  ASSUME FabricInv, NEW aph \in Offers, NEW x, x = To("sram", aph),
         DataPhases(aph), NEW P \in Ports
  PROVE  /\ x[P] \in Beats /\ (x[P] = Idle \/ x[P] = aph[P])
         /\ x[P] # Idle => hready(P) /\ ~m[P].aph_pending /\ held'[P] = x[P]
         /\ m[P].aph_pending => held'[P] = held[P] /\ m[P].cache = held[P]
         /\ At(P, "sram")' <=> m_request(x, P)
         /\ m_request(x, P) => beat_to_sub(x, P) = held'[P] /\ held'[P] \in Beats \ {Idle}
         /\ arb_grant(x, P) => m_request(x, P) /\ c.state # "READ_PENDING_WRITE"
<1>1. /\ aph[P] \in BusBeats(P)
      /\ aph[P] # Idle => hready(P)
      /\ x[P] = IF aph[P] # Idle /\ Target(P, aph[P]) = "sram" THEN aph[P] ELSE Idle
  BY OfferFacts
<1>2. held'[P] = IF hready(P) THEN aph[P] ELSE held[P]
  BY HeldStep
<1>3. /\ m[P].aph_pending <=> At(P, "sram") /\ ~hready(P)
      /\ m[P].aph_pending => m[P].cache = held[P]
  BY WaitingFacts
<1>4. x[P] # Idle => hready(P) /\ ~m[P].aph_pending /\ held'[P] = x[P]
  BY <1>1, <1>2, <1>3
<1>5. m[P].aph_pending => held'[P] = held[P] /\ m[P].cache = held[P]
  BY <1>2, <1>3
<1>6. At(P, "sram")' <=> m_request(x, P)
  <2>1. m_request(x, P) <=> x[P] # Idle \/ m[P].aph_pending
    BY DEF m_request, aph_valid
  <2>2. At(P, "sram")' <=> held'[P] # Idle /\ Target(P, held'[P]) = "sram"
    BY DEF At, Target
  <2>3. At(P, "sram") <=> held[P] # Idle /\ Target(P, held[P]) = "sram"
    BY DEF At
  <2> QED BY <1>1, <1>2, <1>3, <2>1, <2>2, <2>3
<1>7. held'[P] \in BusBeats(P)
  BY HeldStep
<1>8. At(P, "sram")' => held'[P] \in Beats \ {Idle}
  BY <1>7, BeatFacts DEF At, Target, Beats
<1>9. m_request(x, P) => beat_to_sub(x, P) = held'[P]
  BY <1>4, <1>5, Zenon DEF m_request, aph_valid, beat_to_sub
<1>10. x[P] \in Beats
  <2>1. CASE x[P] = Idle
    BY <2>1, IdleFacts
  <2>2. CASE x[P] # Idle
    BY <1>1, <2>2, BeatFacts DEF Beats
  <2> QED BY <2>1, <2>2
<1>11. x[P] = Idle \/ x[P] = aph[P]
  BY <1>1
<1>12. arb_grant(x, P) => m_request(x, P) /\ c.state # "READ_PENDING_WRITE"
  BY DEF arb_grant, arb_request
<1> QED BY <1>4, <1>5, <1>6, <1>8, <1>9, <1>10, <1>11, <1>12

(* The two ports are never granted together. *)
LEMMA OneGrant ==
  ASSUME NEW x PROVE ~(arb_grant(x, "A") /\ arb_grant(x, "B"))
<1>1. First = "A" \/ First = "B"
  BY DEF First
<1> QED BY <1>1 DEF arb_grant

(* Who asks and is not held off, while the other does not go first, is      *)
(* granted.                                                                 *)
LEMMA SomeGrant ==
  ASSUME NEW x, NEW P \in Ports, NEW Q \in Ports, P # Q,
         m_request(x, P), c.state # "READ_PENDING_WRITE"
  PROVE  /\ First = P => arb_grant(x, P)
         /\ ~arb_grant(x, P) => First = Q /\ arb_grant(x, Q)
<1>1. First \in {P, Q}
  BY DEF First, Ports
<1>2. arb_request(x, P)
  BY DEF arb_request
<1> QED BY <1>1, <1>2 DEF arb_grant

LEMMA PortStep ==
  ASSUME FabricInv, NEW aph \in Offers, NEW hwdata, HclkEdge(aph, hwdata),
         NEW x, x = To("sram", aph), NEW P \in Ports
  PROVE  /\ m'[P] \in Port
         /\ m'[P].dph_ongoing <=> arb_grant(x, P)
         /\ m'[P].aph_pending <=> m_request(x, P) /\ ~arb_grant(x, P)
         /\ m'[P].aph_pending => m'[P].cache = held'[P]
<1> DEFINE pn == PortNext(x, P)
<1>1. m'[P] = pn
  BY DEF HclkEdge, SramEdge
<1>2. /\ pn.aph_pending = IF latch_aph(x, P) \/ arb_grant(x, P)
                          THEN latch_aph(x, P) ELSE m[P].aph_pending
      /\ pn.dph_ongoing = arb_grant(x, P)
      /\ pn.cache = IF latch_aph(x, P) THEN x[P]
                    ELSE IF arb_grant(x, P) THEN Idle ELSE m[P].cache
  BY DEF PortNext
<1>3. /\ x[P] \in Beats
      /\ x[P] # Idle => held'[P] = x[P]
      /\ m[P].aph_pending => held'[P] = held[P] /\ m[P].cache = held[P]
      /\ arb_grant(x, P) => m_request(x, P)
  BY GrantFacts DEF HclkEdge
<1>4. m[P] \in Port
  BY WaitingFacts
<1>5. /\ latch_aph(x, P) \in BOOLEAN /\ arb_grant(x, P) \in BOOLEAN
      /\ latch_aph(x, P) <=> x[P] # Idle /\ ~arb_grant(x, P)
      /\ m_request(x, P) <=> x[P] # Idle \/ m[P].aph_pending
  BY DEF latch_aph, arb_grant, aph_valid, m_request
<1>6. pn \in Port
  BY <1>3, <1>4, <1>5, IdleFacts DEF Port, PortNext
<1>7. m'[P].dph_ongoing <=> arb_grant(x, P)
  BY <1>1, <1>2
<1>8. m'[P].aph_pending <=> m_request(x, P) /\ ~arb_grant(x, P)
  BY <1>1, <1>2, <1>3, <1>5
<1>9. m'[P].aph_pending => m'[P].cache = held'[P]
  BY <1>1, <1>2, <1>3, <1>5, <1>8
<1> QED BY <1>1, <1>6, <1>7, <1>8, <1>9

LEMMA PortInvStep ==
  ASSUME FabricInv, NEW aph \in Offers, NEW hwdata, HclkEdge(aph, hwdata)
  PROVE  PortInv'
<1> DEFINE x == To("sram", aph)
<1> SUFFICES ASSUME NEW P \in Ports
             PROVE  /\ m'[P].aph_pending => /\ At(P, "sram")' /\ m'[P].cache = held'[P]
                                            /\ ~m'[P].dph_ongoing
                    /\ m'[P].dph_ongoing => At(P, "sram")'
                    /\ At(P, "sram")' => m'[P].aph_pending \/ m'[P].dph_ongoing
  BY DEF PortInv
<1>1. /\ m'[P].dph_ongoing <=> arb_grant(x, P)
      /\ m'[P].aph_pending <=> m_request(x, P) /\ ~arb_grant(x, P)
      /\ m'[P].aph_pending => m'[P].cache = held'[P]
  BY PortStep
<1>2. /\ At(P, "sram")' <=> m_request(x, P)
      /\ arb_grant(x, P) => m_request(x, P)
  BY GrantFacts DEF HclkEdge
<1> QED BY <1>1, <1>2

-----------------------------------------------------------------------------
(* The controller behind the two ports. *)
LEMMA BusFacts ==
  ASSUME FabricInv, NEW aph \in Offers, DataPhases(aph), NEW x, x = To("sram", aph)
  PROVE  /\ bus(x) \in Beats
         /\ arb_grant(x, "B") => bus(x) = held'["B"]
         /\ arb_grant(x, "A") => bus(x) = held'["A"] /\ bus(x).op = "read"
         /\ ~arb_grant(x, "A") /\ ~arb_grant(x, "B") => bus(x) = Idle
         /\ bus(x).op = "write" => arb_grant(x, "B")
<1>1. /\ arb_grant(x, "A") => beat_to_sub(x, "A") = held'["A"] /\ held'["A"] \in Beats
      /\ arb_grant(x, "B") => beat_to_sub(x, "B") = held'["B"] /\ held'["B"] \in Beats
  BY GrantFacts DEF Ports
<1>2. ~(arb_grant(x, "A") /\ arb_grant(x, "B"))
  BY OneGrant
<1>3. arb_grant(x, "A") => At("A", "sram")'
  BY GrantFacts DEF Ports
<1>4. At("A", "sram")' => held'["A"].op = "read"
  <2>1. held'["A"] \in BusBeats("A")
    BY HeldStep DEF Ports
  <2> QED BY <2>1, BeatFacts DEF At, Target, Ports
<1>5. bus(x) = IF arb_grant(x, "B") THEN beat_to_sub(x, "B")
               ELSE IF arb_grant(x, "A") THEN beat_to_sub(x, "A") ELSE Idle
  BY DEF bus
<1> QED BY <1>1, <1>2, <1>3, <1>4, <1>5, IdleFacts

LEMMA ControllerStep ==
  ASSUME FabricInv, NEW aph \in Offers, NEW hwdata \in Words, HclkEdge(aph, hwdata),
         NEW b, b = bus(To("sram", aph)),
         NEW g, g = arb_grant(To("sram", aph), "B")
  PROVE  /\ g \in BOOLEAN /\ b \in Beats /\ c \in Controller
         /\ sram \in [Addrs -> Words] /\ sram_dout \in Words
         /\ c' = ControllerNext(c, b, hwdata, g) /\ c' \in Controller
         /\ sram' = MacroNext(sram, c, b, hwdata) /\ sram' \in [Addrs -> Words]
         /\ sram_dout' \in DoutNext(sram, c, b) /\ sram_dout' \in Words
         /\ c'.state = state_nxt(c, b)
         /\ b.op = "write" => c'.wr_addr = b.addr /\ c'.wr_en = b.lanes
<1>1. c \in Controller /\ sram \in [Addrs -> Words] /\ sram_dout \in Words
  BY DEF FabricInv, TypeOK, SramTypeOK
<1>2. b \in Beats
  BY BusFacts DEF HclkEdge
<1>3. g \in BOOLEAN
  BY DEF arb_grant
<1>4. /\ c' = ControllerNext(c, b, hwdata, g)
      /\ sram' = MacroNext(sram, c, b, hwdata)
      /\ sram_dout' \in DoutNext(sram, c, b)
  BY DEF HclkEdge, SramEdge
<1>5. /\ c' \in Controller /\ c'.state = state_nxt(c, b)
      /\ b.op = "write" => c'.wr_addr = b.addr /\ c'.wr_en = b.lanes
  BY <1>1, <1>2, <1>3, <1>4, ControllerFacts
<1>6. sram' \in [Addrs -> Words] /\ sram_dout' \in Words
  BY <1>1, <1>2, <1>4, MacroType
<1> QED BY <1>1, <1>2, <1>3, <1>4, <1>5, <1>6

LEMMA StateInvStep ==
  ASSUME FabricInv, NEW aph \in Offers, NEW hwdata \in Words, HclkEdge(aph, hwdata)
  PROVE  StateInv'
<1> DEFINE x == To("sram", aph)
           b == bus(x)
<1>1. /\ m'["A"].dph_ongoing <=> arb_grant(x, "A")
      /\ m'["B"].dph_ongoing <=> arb_grant(x, "B")
  BY PortStep DEF Ports
<1>2. /\ c'.state = state_nxt(c, b)
      /\ b.op = "write" => c'.wr_addr = b.addr /\ c'.wr_en = b.lanes
      /\ b.op \in {"idle", "read", "write"}
  BY ControllerStep, BeatsType
<1>3. c'.state = "WRITE" <=> b.op = "write"
  BY <1>2 DEF state_nxt
<1>4. /\ arb_grant(x, "B") => b = held'["B"]
      /\ b.op = "write" => arb_grant(x, "B")
  BY BusFacts DEF HclkEdge
<1>5. ~(arb_grant(x, "A") /\ arb_grant(x, "B"))
  BY OneGrant
<1> HIDE DEF b, x
<1>6. ~(m'["A"].dph_ongoing /\ m'["B"].dph_ongoing)
  BY <1>1, <1>5
<1>7. c'.state = "WRITE" <=> (m'["B"].dph_ongoing /\ held'["B"].op = "write")
  BY <1>1, <1>3, <1>4
<1>8. c'.state = "WRITE" => c'.wr_addr = held'["B"].addr /\ c'.wr_en = held'["B"].lanes
  BY <1>2, <1>3, <1>4
<1> QED BY <1>6, <1>7, <1>8 DEF StateInv

LEMMA LoadInvStep ==
  ASSUME FabricInv, NEW aph \in Offers, NEW hwdata \in Words, HclkEdge(aph, hwdata)
  PROVE  LoadInv'
<1> DEFINE x == To("sram", aph)
           b == bus(x)
           g == arb_grant(x, "B")
<1> SUFFICES ASSUME m'["B"].dph_ongoing, held'["B"].op = "read"
             PROVE  hrdata(c', sram_dout') = Visible(sram', c')[held'["B"].addr]
  BY DEF LoadInv
<1>1. g
  BY PortStep DEF Ports
<1>2. b = held'["B"]
  BY <1>1, BusFacts DEF HclkEdge
<1>3. /\ g \in BOOLEAN /\ b \in Beats /\ c \in Controller /\ sram \in [Addrs -> Words]
      /\ c' = ControllerNext(c, b, hwdata, g) /\ c' \in Controller
      /\ sram' = MacroNext(sram, c, b, hwdata)
      /\ sram_dout' \in DoutNext(sram, c, b)
  BY ControllerStep
<1>4. b.op = "read" /\ b.addr \in Addrs
  BY <1>2, <1>3, BeatsType
<1>5. sram' = sram /\ sram_dout' = sram[b.addr]
  BY <1>3, <1>4 DEF MacroNext, DoutNext, sram_rd_cmd, sram_wr_active, sram_wr_pause,
                    sram_wr_restore
<1>6. /\ c'.state = state_nxt(c, b)
      /\ c'.wr_addr = c.wr_addr /\ c'.wr_en = c.wr_en
      /\ c'.from_pause = sram_read_from_pause(c, b, g)
      /\ c'.rd_cmd = Lanes \ c'.from_pause
  BY <1>3, <1>4, ControllerFacts
<1>7. c'.from_pause = IF c'.state = "READ_PENDING_WRITE" /\ c'.wr_addr = b.addr
                      THEN c'.wr_en ELSE {}
  BY <1>1, <1>6 DEF sram_read_from_pause
<1> HIDE DEF b, g
<1>8. hrdata(c', sram[b.addr]) = Visible(sram, c')[b.addr]
  BY <1>3, <1>4, <1>6, <1>7, AnswerStep
<1> QED BY <1>2, <1>5, <1>8

-----------------------------------------------------------------------------
(* What a fetch may see. *)
LEMMA LandingStep ==
  ASSUME FabricInv, NEW aph \in Offers, NEW hwdata \in Words, HclkEdge(aph, hwdata),
         NEW a \in Addrs, NEW l \in Lanes
  PROVE  Visible(sram', c')[a][l] \in {Visible(sram, c)[a][l]} \cup Landing(a, hwdata)[l]
<1> DEFINE b == bus(To("sram", aph))
           g == arb_grant(To("sram", aph), "B")
<1>1. /\ g \in BOOLEAN /\ b \in Beats /\ c \in Controller /\ sram \in [Addrs -> Words]
      /\ c' = ControllerNext(c, b, hwdata, g)
      /\ sram' = MacroNext(sram, c, b, hwdata)
  BY ControllerStep
<1> HIDE DEF b, g
<1>2. Visible(sram', c') = IF c.state = "WRITE"
                           THEN [sram EXCEPT ![c.wr_addr] = Overlay(@, c.wr_en, hwdata)]
                           ELSE Visible(sram, c)
  BY <1>1, VisibleStep
<1>3. CASE c.state = "WRITE"
  <2>1. Visible(sram, c) = sram /\ c.wr_addr \in Addrs
    BY <1>1, <1>3 DEF Visible, Controller
  <2>2. CASE c.wr_addr = a
    <3>1. Visible(sram', c')[a] = Overlay(sram[a], c.wr_en, hwdata)
      BY <1>1, <1>2, <1>3, <2>2
    <3>2. Visible(sram', c')[a][l] = IF l \in c.wr_en THEN hwdata[l] ELSE sram[a][l]
      BY <3>1 DEF Overlay
    <3>3. Landing(a, hwdata)[l] = IF l \in c.wr_en THEN {hwdata[l]} ELSE {}
      BY <1>3, <2>2 DEF Landing
    <3> QED BY <2>1, <3>2, <3>3
  <2>3. CASE c.wr_addr # a
    BY <1>1, <1>2, <1>3, <2>1, <2>3
  <2> QED BY <2>2, <2>3
<1>4. CASE c.state # "WRITE"
  BY <1>2, <1>4
<1> QED BY <1>3, <1>4

(* The values that a fetch in its data phase may return after the edge. *)
LEMMA MaySeeStep ==
  ASSUME FabricInv, NEW aph \in Offers, NEW hwdata \in Words, HclkEdge(aph, hwdata),
         NEW l \in Lanes
  PROVE  /\ Fetching(aph["A"]) =>
              /\ held'["A"] = aph["A"]
              /\ maySee'[l] = {Contents[held'["A"].addr][l]}
                                \cup Landing(held'["A"].addr, hwdata)[l]
         /\ ~Fetching(aph["A"]) /\ ~hready("A") =>
              /\ held'["A"] = held["A"]
              /\ maySee'[l] = maySee[l] \cup Landing(held'["A"].addr, hwdata)[l]
         /\ maySee' \in [Lanes -> SUBSET Vals]
<1>1. /\ held'["A"] = IF hready("A") THEN aph["A"] ELSE held["A"]
      /\ aph["A"] # Idle => hready("A")
  BY HeldStep, OfferFacts DEF HclkEdge, Ports
<1>2. Fetching(aph["A"]) => held'["A"] = aph["A"]
  BY <1>1, IdleFacts DEF Fetching
<1>3. maySee' = MaySeeNext(aph, hwdata)
  BY DEF HclkEdge
<1>4. Fetching(aph["A"]) =>
        maySee' = [k \in Lanes |-> {Contents[aph["A"].addr][k]}
                                     \cup Landing(aph["A"].addr, hwdata)[k]]
  BY <1>3 DEF MaySeeNext
<1>5. ~Fetching(aph["A"]) /\ ~hready("A") =>
        maySee' = [k \in Lanes |-> maySee[k] \cup Landing(held["A"].addr, hwdata)[k]]
  BY <1>3 DEF MaySeeNext
<1>6. ~Fetching(aph["A"]) /\ hready("A") => maySee' = [k \in Lanes |-> {}]
  BY <1>3 DEF MaySeeNext
<1>7. \A addr : \A k \in Lanes : Landing(addr, hwdata)[k] \in SUBSET Vals
  BY DEF Landing, Words
<1>8. maySee \in [Lanes -> SUBSET Vals]
  BY DEF FabricInv, TypeOK
<1>9. Fetching(aph["A"]) => \A k \in Lanes : Contents[aph["A"].addr][k] \in Vals
  <2> SUFFICES ASSUME Fetching(aph["A"]), NEW k \in Lanes
               PROVE  Contents[aph["A"].addr][k] \in Vals
    OBVIOUS
  <2>1. aph["A"] \in BusBeats("A") /\ aph["A"] # Idle
    BY OfferFacts, IdleFacts DEF Ports, Fetching
  <2>2. aph["A"].addr \in Addrs \cup RomAddrs
    BY <2>1, BeatFacts DEF Fetching, SysAddrs, Ports
  <2>3. Visible(sram, c) \in [Addrs -> Words]
    BY MacroType, IdleFacts, ZeroWord DEF FabricInv, TypeOK, SramTypeOK
  <2>4. Contents[aph["A"].addr] \in Words
    BY <2>2, <2>3, FabricAssumption DEF Contents
  <2> QED BY <2>4 DEF Words
<1>10. maySee' \in [Lanes -> SUBSET Vals]
  <2>1. CASE Fetching(aph["A"])
    BY <1>4, <1>7, <1>9, <2>1
  <2>2. CASE ~Fetching(aph["A"]) /\ ~hready("A")
    BY <1>5, <1>7, <1>8, <2>2
  <2>3. CASE ~Fetching(aph["A"]) /\ hready("A")
    BY <1>6, <2>3
  <2> QED BY <2>1, <2>2, <2>3
<1>11. Fetching(aph["A"]) => maySee'[l] = {Contents[held'["A"].addr][l]}
                                            \cup Landing(held'["A"].addr, hwdata)[l]
  BY <1>2, <1>4
<1>12. ~Fetching(aph["A"]) /\ ~hready("A") =>
         /\ held'["A"] = held["A"]
         /\ maySee'[l] = maySee[l] \cup Landing(held'["A"].addr, hwdata)[l]
  BY <1>1, <1>5
<1> QED BY <1>2, <1>10, <1>11, <1>12

(* A fetch that asks for the macro may see what the memory held and what    *)
(* the edge adds to it.                                                     *)
LEMMA FetchAsks ==
  ASSUME FabricInv, NEW aph \in Offers, NEW hwdata \in Words, HclkEdge(aph, hwdata),
         m_request(To("sram", aph), "A"), NEW l \in Lanes
  PROVE  /\ held'["A"].addr \in Addrs
         /\ Visible(sram, c)[held'["A"].addr][l] \in maySee'[l]
         /\ Landing(held'["A"].addr, hwdata)[l] \subseteq maySee'[l]
<1> DEFINE x == To("sram", aph)
           a == held'["A"].addr
<1>1. /\ x["A"] = Idle \/ x["A"] = aph["A"]
      /\ x["A"] # Idle => hready("A") /\ held'["A"] = x["A"]
      /\ m["A"].aph_pending => held'["A"] = held["A"]
      /\ At("A", "sram")'
      /\ held'["A"] \in Beats \ {Idle}
      /\ held'["A"] \in BusBeats("A")
  BY GrantFacts, HeldStep DEF HclkEdge, Ports
<1>2. a \in Addrs /\ held'["A"].op = "read"
  BY <1>1, BeatFacts DEF At, Target, Ports
<1>3. Contents[a] = Visible(sram, c)[a]
  BY <1>2 DEF Contents
<1>4. CASE x["A"] # Idle
  <2>1. Fetching(aph["A"])
    BY <1>1, <1>2, <1>4, FabricAssumption DEF Fetching
  <2> QED BY <1>2, <1>3, <2>1, MaySeeStep
<1>5. CASE x["A"] = Idle
  <2>1. m["A"].aph_pending
    BY <1>5 DEF m_request, aph_valid
  <2>2. ~hready("A") /\ aph["A"] = Idle
    BY <2>1, WaitingFacts, OfferFacts DEF Ports
  <2>3. ~Fetching(aph["A"])
    BY <2>2, IdleFacts DEF Fetching
  <2>4. Visible(sram, c)[a][l] \in maySee[l]
    BY <1>1, <2>1 DEF FabricInv, FetchInv
  <2> QED BY <1>2, <2>2, <2>3, <2>4, MaySeeStep
<1> QED BY <1>4, <1>5

LEMMA FetchInvStep ==
  ASSUME FabricInv, NEW aph \in Offers, NEW hwdata \in Words, HclkEdge(aph, hwdata)
  PROVE  FetchInv'
<1> DEFINE x == To("sram", aph)
           a == held'["A"].addr
<1>1. ASSUME m'["A"].aph_pending, NEW l \in Lanes
      PROVE  Visible(sram', c')[a][l] \in maySee'[l]
  <2>1. m_request(x, "A")
    BY <1>1, PortStep DEF Ports
  <2>2. /\ a \in Addrs
        /\ Visible(sram, c)[a][l] \in maySee'[l]
        /\ Landing(a, hwdata)[l] \subseteq maySee'[l]
    BY <2>1, FetchAsks
  <2>3. Visible(sram', c')[a][l] \in {Visible(sram, c)[a][l]} \cup Landing(a, hwdata)[l]
    BY <2>2, LandingStep
  <2> QED BY <2>2, <2>3
<1>2. ASSUME m'["A"].dph_ongoing, NEW l \in Lanes
      PROVE  sram_dout'[l] \in maySee'[l]
  <2>1. arb_grant(x, "A")
    BY <1>2, PortStep DEF Ports
  <2>2. m_request(x, "A") /\ c.state # "READ_PENDING_WRITE"
    BY <2>1, GrantFacts DEF HclkEdge, Ports
  <2>3. bus(x) = held'["A"] /\ bus(x).op = "read"
    BY <2>1, BusFacts DEF HclkEdge
  <2>4. sram_dout' \in DoutNext(sram, c, bus(x))
    BY ControllerStep
  <2>5. sram_dout' = Visible(sram, c)[a]
    BY <2>2, <2>3, <2>4 DEF DoutNext, sram_rd_cmd, Visible
  <2>6. Visible(sram, c)[a][l] \in maySee'[l]
    BY <2>2, FetchAsks
  <2> QED BY <2>5, <2>6
<1>3. ASSUME At("A", "rom")', NEW l \in Lanes
      PROVE  RomContent[a][l] \in maySee'[l]
  <2>1. /\ held'["A"] # Idle /\ Target("A", held'["A"]) = "rom"
        /\ held'["A"] \in BusBeats("A")
        /\ held'["A"] = IF hready("A") THEN aph["A"] ELSE held["A"]
        /\ aph["A"] # Idle => hready("A")
    BY <1>3, HeldStep, OfferFacts DEF At, Target, HclkEdge, Ports
  <2>2. a \in RomAddrs /\ held'["A"].op = "read"
    BY <2>1, BeatFacts DEF Ports
  <2>3. CASE hready("A")
    <3>1. aph["A"] = held'["A"] /\ Fetching(aph["A"])
      BY <2>1, <2>2, <2>3, FabricAssumption DEF Fetching
    <3>2. Contents[a] = RomContent[a]
      BY <2>2, FabricAssumption DEF Contents
    <3> QED BY <3>1, <3>2, MaySeeStep
  <2>4. CASE ~hready("A")
    <3>1. held["A"] = held'["A"] /\ aph["A"] = Idle
      BY <2>1, <2>4
    <3>2. ~Fetching(aph["A"])
      BY <3>1, IdleFacts DEF Fetching
    <3>3. At("A", "rom")
      BY <2>1, <3>1 DEF At
    <3>4. RomContent[a][l] \in maySee[l]
      BY <3>1, <3>3 DEF FabricInv, FetchInv
    <3> QED BY <2>4, <3>2, <3>4, MaySeeStep
  <2> QED BY <2>3, <2>4
<1> QED BY <1>1, <1>2, <1>3 DEF FetchInv

-----------------------------------------------------------------------------
(* The default subordinate and the wait states. *)
LEMMA DfltInvStep ==
  ASSUME FabricInv, NEW aph \in Offers, NEW hwdata, HclkEdge(aph, hwdata)
  PROVE  DfltInv'
<1> SUFFICES ASSUME NEW P \in Ports
             PROVE  /\ At(P, "dflt")' <=> (dflt'[P].p0 \/ dflt'[P].p1)
                    /\ dflt'[P].p0 => ~dflt'[P].p1 /\ waited'[P] = 0
                    /\ dflt'[P].p1 => waited'[P] = 1
  BY DEF DfltInv
<1> DEFINE z == To("dflt", aph)[P] # Idle
<1>1. dflt'[P] = [p0 |-> z, p1 |-> dflt[P].p0]
  BY DEF HclkEdge, Blocks!DfltNext
<1>2. (dflt'[P].p0 <=> z) /\ (dflt'[P].p1 <=> dflt[P].p0)
  <2>1. dflt'[P].p0 = z /\ dflt'[P].p1 = dflt[P].p0
    BY <1>1
  <2> QED BY <2>1, Zenon
<1>3. /\ z <=> aph[P] # Idle /\ Target(P, aph[P]) = "dflt"
      /\ aph[P] # Idle => hready(P)
  BY OfferFacts, Zenon
<1>4. /\ held'[P] = IF hready(P) THEN aph[P] ELSE held[P]
      /\ waited'[P] = IF hready(P) THEN 0
                      ELSE IF waited[P] = WaitCap THEN WaitCap ELSE waited[P] + 1
  BY HeldStep DEF HclkEdge
<1>5. /\ At(P, "dflt") <=> (dflt[P].p0 \/ dflt[P].p1)
      /\ dflt[P].p0 => ~dflt[P].p1 /\ waited[P] = 0
      /\ m[P].aph_pending => At(P, "sram")
      /\ ~rom.hreadyout[P] => At(P, "rom")
  BY DEF FabricInv, DfltInv, PortInv, RomInv
<1>6. hready(P) <=> ~m[P].aph_pending /\ rom.hreadyout[P] /\ ~dflt[P].p0
  BY ReadyFacts
<1>7. /\ At(P, "dflt") <=> held[P] # Idle /\ Target(P, held[P]) = "dflt"
      /\ At(P, "dflt")' <=> held'[P] # Idle /\ Target(P, held'[P]) = "dflt"
      /\ At(P, "dflt") => ~At(P, "sram") /\ ~At(P, "rom")
  BY DEF At, Target
<1> HIDE DEF z
<1>8. CASE hready(P)
  BY <1>2, <1>3, <1>4, <1>6, <1>7, <1>8
<1>9. CASE ~hready(P)
  <2>1. ~z /\ held'[P] = held[P]
    BY <1>3, <1>4, <1>9
  <2>2. At(P, "dflt")' <=> dflt[P].p0
    BY <1>5, <1>6, <1>7, <1>9, <2>1
  <2>3. dflt[P].p0 => waited'[P] = 1
    BY <1>4, <1>5, <1>9 DEF WaitCap
  <2> QED BY <1>2, <2>1, <2>2, <2>3
<1> QED BY <1>8, <1>9

(* The contest's winner goes last in the next. *)
LEMMA PriorityStep ==
  ASSUME FabricInv, NEW aph \in Offers, NEW hwdata, HclkEdge(aph, hwdata),
         NEW x, x = To("sram", aph), NEW P \in Ports, NEW Q \in Ports, P # Q,
         P = "B" \/ ~FIXED_B_PRIO
  PROVE  /\ arb_grant(x, Q) => First' = P
         /\ ~arb_grant(x, P) /\ ~arb_grant(x, Q) => First' = First
         /\ FIXED_B_PRIO => First = P /\ First' = P
         /\ toggle_priority' \in BOOLEAN
<1>1. toggle_priority' = IF ~FIXED_B_PRIO /\ \E R \in Ports : arb_grant(x, R)
                         THEN arb_grant(x, "A") ELSE toggle_priority
  BY DEF HclkEdge, SramEdge
<1>2. ~(arb_grant(x, "A") /\ arb_grant(x, "B"))
  BY OneGrant
<1>3. toggle_priority \in BOOLEAN /\ arb_grant(x, "A") \in BOOLEAN
  BY DEF FabricInv, TypeOK, SramTypeOK, arb_grant
<1>4. CASE FIXED_B_PRIO
  <2>1. P = "B" /\ First = "B" /\ First' = "B"
    BY <1>4 DEF First, Ports
  <2>2. toggle_priority' = toggle_priority
    BY <1>1, <1>4
  <2> QED BY <1>3, <2>1, <2>2
<1>5. CASE ~FIXED_B_PRIO
  <2>1. /\ First = IF toggle_priority THEN "B" ELSE "A"
        /\ First' = IF toggle_priority' THEN "B" ELSE "A"
    BY <1>5 DEF First
  <2>2. ~arb_grant(x, P) /\ ~arb_grant(x, Q) => toggle_priority' = toggle_priority
    BY <1>1 DEF Ports
  <2>3. arb_grant(x, Q) => toggle_priority' = arb_grant(x, "A")
    BY <1>1, <1>5
  <2>4. toggle_priority' \in BOOLEAN
    BY <1>1, <1>3
  <2>5. arb_grant(x, Q) => First' = P
    <3>1. CASE Q = "A"
      BY <2>1, <2>3, <3>1 DEF Ports
    <3>2. CASE Q = "B"
      BY <1>2, <2>1, <2>3, <3>2 DEF Ports
    <3> QED BY <3>1, <3>2 DEF Ports
  <2> QED BY <1>5, <2>1, <2>2, <2>4, <2>5
<1> QED BY <1>4, <1>5

LEMMA WaitInvStep ==
  ASSUME FabricInv, NEW aph \in Offers, NEW hwdata \in Words, HclkEdge(aph, hwdata)
  PROVE  WaitInv'
<1> DEFINE x == To("sram", aph)
<1> SUFFICES ASSUME NEW P \in Ports, P = "B" \/ ~FIXED_B_PRIO
             PROVE  /\ m'[P].aph_pending =>
                         \/ waited'[P] = 0 /\ (First' = P \/ c'.state = "IDLE")
                         \/ /\ waited'[P] = 1 /\ First' = P
                            /\ c'.state # "READ_PENDING_WRITE"
                    /\ m'[P].dph_ongoing => waited'[P] <= 2
                    /\ held'[P] = Idle => waited'[P] = 0
  BY DEF WaitInv
<1>1. PICK Q \in Ports : Q # P
  BY DEF Ports
<1>2. /\ m'[P].dph_ongoing <=> arb_grant(x, P)
      /\ m'[P].aph_pending <=> m_request(x, P) /\ ~arb_grant(x, P)
  BY PortStep
<1>3. /\ arb_grant(x, Q) => First' = P
      /\ ~arb_grant(x, P) /\ ~arb_grant(x, Q) => First' = First
      /\ FIXED_B_PRIO => First = P /\ First' = P
  BY <1>1, PriorityStep
<1>4. /\ waited'[P] = IF hready(P) THEN 0
                      ELSE IF waited[P] = WaitCap THEN WaitCap ELSE waited[P] + 1
      /\ held'[P] = IF hready(P) THEN aph[P] ELSE held[P]
  BY HeldStep DEF HclkEdge
<1>5. /\ m[P].aph_pending =>
           \/ waited[P] = 0 /\ (First = P \/ c.state = "IDLE")
           \/ waited[P] = 1 /\ First = P /\ c.state # "READ_PENDING_WRITE"
      /\ m[P].aph_pending <=> At(P, "sram") /\ ~hready(P)
  BY WaitingFacts DEF FabricInv, WaitInv
<1>6. /\ First \in {P, Q}
      /\ m_request(x, P) /\ c.state # "READ_PENDING_WRITE" =>
           /\ First = P => arb_grant(x, P)
           /\ ~arb_grant(x, P) => First = Q /\ arb_grant(x, Q)
  <2>1. First \in {P, Q}
    BY <1>1 DEF First, Ports
  <2> QED BY <1>1, <2>1, SomeGrant
<1>7. /\ ~arb_grant(x, P) /\ ~arb_grant(x, Q) => c'.state = "IDLE"
      /\ c.state = "IDLE" => c'.state # "READ_PENDING_WRITE"
  <2>1. c'.state = state_nxt(c, bus(x))
    BY ControllerStep
  <2>2. ~arb_grant(x, P) /\ ~arb_grant(x, Q) => bus(x) = Idle
    <3>1. ~arb_grant(x, P) /\ ~arb_grant(x, Q) => ~arb_grant(x, "A") /\ ~arb_grant(x, "B")
      BY <1>1 DEF Ports
    <3> QED BY <3>1, BusFacts DEF HclkEdge
  <2>3. bus(x) = Idle => c'.state = "IDLE"
    BY <2>1, IdleFacts DEF state_nxt
  <2>4. c.state = "IDLE" => c'.state # "READ_PENDING_WRITE"
    BY <2>1 DEF state_nxt
  <2> QED BY <2>2, <2>3, <2>4
<1>8. arb_grant(x, P) => m_request(x, P) /\ c.state # "READ_PENDING_WRITE"
  BY GrantFacts DEF HclkEdge
<1>9. arb_grant(x, Q) => c.state # "READ_PENDING_WRITE"
  BY <1>1, GrantFacts DEF HclkEdge
<1>10. m_request(x, P) /\ ~hready(P) => m[P].aph_pending
  <2>1. x[P] # Idle => hready(P)
    BY GrantFacts DEF HclkEdge
  <2> QED BY <2>1 DEF m_request, aph_valid
<1>11. ASSUME ~hready(P) PROVE held'[P] # Idle
  <2>1. held'[P] = held[P]
    BY <1>4, <1>11
  <2>2. /\ hready(P) <=> ~m[P].aph_pending /\ rom.hreadyout[P] /\ ~dflt[P].p0
        /\ m[P].aph_pending => At(P, "sram")
        /\ ~rom.hreadyout[P] => At(P, "rom")
        /\ dflt[P].p0 => At(P, "dflt")
    BY ReadyFacts DEF FabricInv, PortInv, RomInv, DfltInv
  <2> QED BY <1>11, <2>1, <2>2 DEF At
<1> HIDE DEF x
<1>12. CASE hready(P)
  <2>1. waited'[P] = 0
    BY <1>4, <1>12
  <2>2. m'[P].aph_pending => First' = P \/ c'.state = "IDLE"
    BY <1>2, <1>3, <1>6, <1>7, <1>9
  <2> QED BY <2>1, <2>2
<1>13. CASE ~hready(P) /\ ~m[P].aph_pending
  BY <1>2, <1>8, <1>10, <1>11, <1>13
<1>14. CASE ~hready(P) /\ m[P].aph_pending /\ waited[P] = 0
  <2>1. waited'[P] = 1
    BY <1>4, <1>14 DEF WaitCap
  <2>2. First = P \/ c.state = "IDLE"
    BY <1>5, <1>14
  <2>3. m'[P].aph_pending => First' = P /\ c'.state # "READ_PENDING_WRITE"
    <3> SUFFICES ASSUME m'[P].aph_pending
                 PROVE  First' = P /\ c'.state # "READ_PENDING_WRITE"
      OBVIOUS
    <3>1. m_request(x, P) /\ ~arb_grant(x, P)
      BY <1>2
    <3>2. CASE arb_grant(x, Q)
      <4>1. c.state # "READ_PENDING_WRITE"
        BY <1>9, <3>2
      <4>2. First = Q
        BY <1>6, <3>1, <4>1
      <4> QED BY <1>1, <1>3, <1>7, <2>2, <3>2, <4>2
    <3>3. CASE ~arb_grant(x, Q)
      <4>1. c.state = "READ_PENDING_WRITE"
        BY <1>6, <3>1, <3>3
      <4> QED BY <1>3, <1>7, <2>2, <3>1, <3>3, <4>1
    <3> QED BY <3>2, <3>3
  <2> QED BY <1>11, <1>14, <2>1, <2>3
<1>15. CASE ~hready(P) /\ m[P].aph_pending /\ waited[P] # 0
  <2>1. waited[P] = 1 /\ First = P /\ c.state # "READ_PENDING_WRITE"
    BY <1>5, <1>15
  <2>2. waited'[P] = 2
    BY <1>4, <1>15, <2>1 DEF WaitCap
  <2>3. ~m'[P].aph_pending
    BY <1>2, <1>6, <2>1
  <2> QED BY <1>11, <1>15, <2>2, <2>3
<1> QED BY <1>12, <1>13, <1>14, <1>15

-----------------------------------------------------------------------------
(* The ROM controller. *)
RomWaits(P) == ~rom.hreadyout[P] /\ held[P].op = "read"

LEMMA RomHeld ==
  ASSUME FabricInv, NEW P \in Ports
  PROVE  /\ At(P, "rom") /\ ~hready(P) <=> ~rom.hreadyout[P]
         /\ At(P, "rom") => held[P].op \in {"read", "write"} /\ held[P].addr \in RomAddrs
         /\ At(P, "rom") /\ held[P].op = "write" => P = "B"
         /\ RomWaits(P) =>
              /\ At(P, "rom") /\ rom.any_pending /\ rom.saved_addr = held[P].addr
              /\ FIXED_B_PRIO => P = "A"
              /\ ~FIXED_B_PRIO => rom.priority_a = (P = "A")
              /\ ~FIXED_B_PRIO \/ P = "B" => waited[P] = 0
         /\ rom \in Rom!Registers
<1>1. /\ hready(P) <=> ~m[P].aph_pending /\ rom.hreadyout[P] /\ ~dflt[P].p0
      /\ ~rom.hreadyout[P] => At(P, "rom") /\ (held[P].op = "read" => rom.any_pending)
      /\ m[P].aph_pending => At(P, "sram")
      /\ dflt[P].p0 => At(P, "dflt")
  BY ReadyFacts DEF FabricInv, PortInv, DfltInv, RomInv
<1>2. At(P, "rom") => ~At(P, "sram") /\ ~At(P, "dflt")
  BY DEF At
<1>3. At(P, "rom") /\ ~hready(P) <=> ~rom.hreadyout[P]
  BY <1>1, <1>2
<1>4. held[P] \in BusBeats(P) /\ rom \in Rom!Registers
  BY DEF FabricInv, TypeOK
<1>5. At(P, "rom") => /\ held[P].op \in {"read", "write"} /\ held[P].addr \in RomAddrs
                      /\ P = "A" => held[P].op = "read"
  BY <1>4, BeatFacts DEF At
<1>6. At(P, "rom") /\ held[P].op = "read" /\ ~rom.hreadyout[P] =>
        /\ rom.saved_addr = held[P].addr
        /\ FIXED_B_PRIO => P = "A"
        /\ ~FIXED_B_PRIO => rom.priority_a = (P = "A")
        /\ ~FIXED_B_PRIO \/ P = "B" => waited[P] = 0
  BY DEF FabricInv, RomInv
<1>7. At(P, "rom") /\ held[P].op = "write" => P = "B"
  BY <1>5 DEF Ports
<1> QED BY <1>1, <1>3, <1>4, <1>5, <1>6, <1>7 DEF RomWaits

LEMMA RomSampled ==
  ASSUME FabricInv, NEW aph \in Offers, DataPhases(aph), NEW y, y = To("rom", aph),
         NEW P \in Ports
  PROVE  /\ y[P].op \in {"idle", "read", "write"}
         /\ y[P].op # "idle" => /\ hready(P) /\ rom.hreadyout[P] /\ At(P, "rom")'
                                /\ held'[P] = y[P] /\ y[P].addr \in RomAddrs
                                /\ waited'[P] = 0
         /\ y["A"].op # "write"
         /\ At(P, "rom")' => /\ y[P].op # "idle" \/ ~rom.hreadyout[P]
                             /\ held'[P].op \in {"read", "write"}
         /\ ~rom.hreadyout[P] => /\ y[P].op = "idle" /\ held'[P] = held[P]
                                 /\ At(P, "rom")'
                                 /\ waited'[P] = IF waited[P] = WaitCap THEN WaitCap
                                                 ELSE waited[P] + 1
<1>1. ASSUME NEW Q \in Ports
      PROVE  /\ aph[Q] \in BusBeats(Q)
             /\ aph[Q] # Idle => hready(Q)
             /\ y[Q] = IF aph[Q] # Idle /\ Target(Q, aph[Q]) = "rom" THEN aph[Q] ELSE Idle
  BY OfferFacts
<1>2. /\ held'[P] = IF hready(P) THEN aph[P] ELSE held[P]
      /\ held'[P] \in BusBeats(P)
      /\ waited'[P] = IF hready(P) THEN 0
                      ELSE IF waited[P] = WaitCap THEN WaitCap ELSE waited[P] + 1
  BY HeldStep
<1>3. /\ At(P, "rom") /\ ~hready(P) <=> ~rom.hreadyout[P]
      /\ hready(P) <=> ~m[P].aph_pending /\ rom.hreadyout[P] /\ ~dflt[P].p0
  BY RomHeld, ReadyFacts
<1>4. /\ At(P, "rom") <=> held[P] # Idle /\ Target(P, held[P]) = "rom"
      /\ At(P, "rom")' <=> held'[P] # Idle /\ Target(P, held'[P]) = "rom"
  BY DEF At, Target
<1>5. y["A"].op # "write"
  <2>1. CASE y["A"] = Idle
    BY <2>1, IdleFacts
  <2>2. CASE y["A"] # Idle
    BY <1>1, <2>2, BeatFacts DEF Ports
  <2> QED BY <2>1, <2>2
<1>6. /\ y[P].op \in {"idle", "read", "write"}
      /\ y[P].op # "idle" => y[P] # Idle /\ y[P].addr \in RomAddrs
      /\ y[P] # Idle => y[P].op # "idle"
  <2>1. CASE y[P] = Idle
    BY <2>1, IdleFacts
  <2>2. CASE y[P] # Idle
    BY <1>1, <2>2, BeatFacts
  <2> QED BY <2>1, <2>2
<1>7. At(P, "rom")' => held'[P].op \in {"read", "write"}
  BY <1>2, <1>4, BeatFacts
<1>8. y[P].op # "idle" => /\ hready(P) /\ rom.hreadyout[P] /\ At(P, "rom")'
                          /\ held'[P] = y[P] /\ waited'[P] = 0
  BY <1>1, <1>2, <1>3, <1>4, <1>6
<1>9. At(P, "rom")' => y[P].op # "idle" \/ ~rom.hreadyout[P]
  BY <1>1, <1>2, <1>3, <1>4, <1>6
<1>10. ~rom.hreadyout[P] => /\ y[P].op = "idle" /\ held'[P] = held[P] /\ At(P, "rom")'
                            /\ waited'[P] = IF waited[P] = WaitCap THEN WaitCap
                                            ELSE waited[P] + 1
  BY <1>2, <1>3, <1>4, <1>8
<1> QED BY <1>5, <1>6, <1>7, <1>8, <1>9, <1>10

(* The two sides of the ROM's arbiter, in terms of the reads it sees. *)
LEMMA RomFields ==
  ASSUME NEW r \in Rom!Registers, NEW y, NEW r2, r2 = Rom!RomNext(r, y)
  PROVE  /\ r2.any_pending <=> Rom!pending_nxt(r, y)
         /\ r2.priority_a <=> Rom!priority_nxt(r, y)
         /\ r2.saved_addr = IF Rom!a_lost(r, y) THEN y["A"].addr
                            ELSE IF Rom!b_lost(r, y) THEN y["B"].addr
                            ELSE IF Rom!pending_nxt(r, y) THEN r.saved_addr
                            ELSE Rom!AnyAddr
         /\ r2.hreadyout["A"] <=> ~Rom!a_stall(r, y)
         /\ r2.hreadyout["B"] <=> Rom!b_hreadyout_nxt(r, y)
         /\ r2.b_err_st = Rom!b_err_st_nxt(r, y)
         /\ r2.rom_was_active <=> Rom!rom_read(r, y)
<1> DEFINE rn == Rom!RomNext(r, y)
<1>1. /\ rn.any_pending = Rom!pending_nxt(r, y)
      /\ rn.priority_a = Rom!priority_nxt(r, y)
      /\ rn.saved_addr = IF Rom!a_lost(r, y) THEN y["A"].addr
                         ELSE IF Rom!b_lost(r, y) THEN y["B"].addr
                         ELSE IF Rom!pending_nxt(r, y) THEN r.saved_addr
                         ELSE Rom!AnyAddr
      /\ rn.b_err_st = Rom!b_err_st_nxt(r, y)
      /\ rn.rom_was_active = Rom!rom_read(r, y)
  BY DEF Rom!RomNext
<1>2. rn.hreadyout = [P \in Rom!Ports |-> IF P = "A" THEN ~Rom!a_stall(r, y)
                                          ELSE Rom!b_hreadyout_nxt(r, y)]
  BY DEF Rom!RomNext
<1>3. /\ rn.hreadyout["A"] = ~Rom!a_stall(r, y)
      /\ rn.hreadyout["B"] = Rom!b_hreadyout_nxt(r, y)
  BY <1>2 DEF Rom!Ports
<1>4. r2 = rn
  OBVIOUS
<1> HIDE DEF rn
<1> QED BY <1>1, <1>3, <1>4, Zenon

(* Who waits, who asks, and whose beat is in its data phase after the edge. *)
LEMMA RomTraffic ==
  ASSUME FabricInv, NEW aph \in Offers, DataPhases(aph), NEW y, y = To("rom", aph)
  PROVE  /\ y["A"].op = "read" => ~RomWaits("A")
         /\ y["B"].op # "idle" => ~RomWaits("B") /\ rom.b_err_st # "err1"
         /\ rom.any_pending <=> RomWaits("A") \/ RomWaits("B")
         /\ FIXED_B_PRIO => ~rom.priority_a /\ ~RomWaits("B")
         /\ ~FIXED_B_PRIO => /\ RomWaits("A") => rom.priority_a
                             /\ RomWaits("B") => ~rom.priority_a
         /\ ~(RomWaits("B") /\ rom.b_err_st = "err1")
         /\ At("A", "rom")' <=> y["A"].op = "read" \/ RomWaits("A")
         /\ At("A", "rom")' => held'["A"].op = "read"
         /\ (At("B", "rom")' /\ held'["B"].op = "read") <=> y["B"].op = "read" \/ RomWaits("B")
         /\ (At("B", "rom")' /\ held'["B"].op = "write")
              <=> y["B"].op = "write" \/ rom.b_err_st = "err1"
         /\ rom.b_err_st \in {"idle", "err1", "err2"}
<1>1. /\ y["A"].op \in {"idle", "read"}
      /\ y["A"].op # "idle" => rom.hreadyout["A"] /\ At("A", "rom")' /\ held'["A"] = y["A"]
      /\ At("A", "rom")' => y["A"].op # "idle" \/ ~rom.hreadyout["A"]
      /\ ~rom.hreadyout["A"] => held'["A"] = held["A"] /\ At("A", "rom")'
  BY RomSampled DEF Ports
<1>2. /\ y["B"].op \in {"idle", "read", "write"}
      /\ y["B"].op # "idle" => rom.hreadyout["B"] /\ At("B", "rom")' /\ held'["B"] = y["B"]
      /\ At("B", "rom")' => y["B"].op # "idle" \/ ~rom.hreadyout["B"]
      /\ ~rom.hreadyout["B"] => held'["B"] = held["B"] /\ At("B", "rom")'
  BY RomSampled DEF Ports
<1>3. /\ ~rom.hreadyout["A"] => At("A", "rom")
      /\ At("A", "rom") => held["A"].op = "read"
      /\ ~rom.hreadyout["B"] => At("B", "rom")
      /\ At("B", "rom") => held["B"].op \in {"read", "write"}
  BY RomHeld DEF Ports
<1>4. /\ (At("B", "rom") /\ held["B"].op = "write") <=> rom.b_err_st # "idle"
      /\ rom.b_err_st = "err1" => ~rom.hreadyout["B"]
      /\ rom.b_err_st = "err2" => rom.hreadyout["B"]
      /\ FIXED_B_PRIO => ~rom.priority_a
      /\ rom.any_pending => RomWaits("A") \/ RomWaits("B")
  BY DEF FabricInv, RomInv, RomWaits, Ports
<1>5. /\ RomWaits("A") => /\ rom.any_pending
                          /\ ~FIXED_B_PRIO => rom.priority_a = ("A" = "A")
      /\ RomWaits("B") => /\ rom.any_pending
                          /\ FIXED_B_PRIO => "B" = "A"
                          /\ ~FIXED_B_PRIO => rom.priority_a = ("B" = "A")
  BY RomHeld DEF Ports
<1>6. rom.b_err_st \in {"idle", "err1", "err2"} /\ rom.priority_a \in BOOLEAN
  BY RomHeld DEF Ports, Rom!Registers
<1>7. /\ RomWaits("A") <=> ~rom.hreadyout["A"] /\ held["A"].op = "read"
      /\ RomWaits("B") <=> ~rom.hreadyout["B"] /\ held["B"].op = "read"
  BY DEF RomWaits
<1>8. ~rom.hreadyout["B"] <=> RomWaits("B") \/ rom.b_err_st = "err1"
  BY <1>3, <1>4, <1>6, <1>7
<1>9. ~(RomWaits("B") /\ rom.b_err_st = "err1")
  BY <1>4, <1>7
<1>10. /\ ~FIXED_B_PRIO => /\ RomWaits("A") => rom.priority_a
                           /\ RomWaits("B") => ~rom.priority_a
       /\ FIXED_B_PRIO => ~RomWaits("B")
  BY <1>5, <1>6
<1>11. /\ At("A", "rom")' <=> y["A"].op = "read" \/ RomWaits("A")
       /\ At("A", "rom")' => held'["A"].op = "read"
       /\ y["A"].op = "read" => ~RomWaits("A")
  BY <1>1, <1>3, <1>7
<1>12. y["B"].op # "idle" => ~RomWaits("B") /\ rom.b_err_st # "err1"
  BY <1>2, <1>4, <1>7
<1>13. (At("B", "rom")' /\ held'["B"].op = "read") <=> y["B"].op = "read" \/ RomWaits("B")
  BY <1>2, <1>3, <1>7
<1>14. (At("B", "rom")' /\ held'["B"].op = "write")
          <=> y["B"].op = "write" \/ rom.b_err_st = "err1"
  BY <1>2, <1>3, <1>4, <1>6, <1>7
<1> QED BY <1>4, <1>5, <1>6, <1>9, <1>10, <1>11, <1>12, <1>13, <1>14

(* The arbiter after an edge: who waits then, and in front of whom.         *)
LEMMA RomArbiterStep ==
  ASSUME FabricInv, NEW aph \in Offers, NEW hwdata, HclkEdge(aph, hwdata),
         NEW y, y = To("rom", aph)
  PROVE  /\ ~rom'.hreadyout["A"] => (y["A"].op = "read" \/ RomWaits("A")) /\ rom'.any_pending
         /\ ~rom'.hreadyout["B"] <=>
              \/ y["B"].op = "write"
              \/ (y["B"].op = "read" /\ Rom!b_lost(rom, y))
         /\ ~rom'.hreadyout["B"] /\ y["B"].op # "write" => rom'.any_pending
         /\ rom'.any_pending => ~rom'.hreadyout["A"]
                                  \/ (~rom'.hreadyout["B"] /\ y["B"].op = "read")
         /\ FIXED_B_PRIO => ~rom'.priority_a
         /\ ~FIXED_B_PRIO /\ ~rom'.hreadyout["A"] => y["A"].op = "read" /\ rom'.priority_a
         /\ ~FIXED_B_PRIO /\ ~rom'.hreadyout["B"] /\ y["B"].op # "write"
              => ~rom'.priority_a
         /\ FIXED_B_PRIO => ~Rom!b_lost(rom, y)
<1>1. /\ rom'.any_pending <=> Rom!pending_nxt(rom, y)
      /\ rom'.priority_a <=> Rom!priority_nxt(rom, y)
      /\ rom'.hreadyout["A"] <=> ~Rom!a_stall(rom, y)
      /\ rom'.hreadyout["B"] <=> Rom!b_hreadyout_nxt(rom, y)
  <2>1. rom \in Rom!Registers /\ rom' = Rom!RomNext(rom, y)
    BY RomHeld DEF Ports, HclkEdge
  <2> QED BY <2>1, RomFields
<1>2. /\ y["A"].op = "read" => ~RomWaits("A")
      /\ y["B"].op # "idle" => ~RomWaits("B") /\ rom.b_err_st # "err1"
      /\ rom.any_pending <=> RomWaits("A") \/ RomWaits("B")
      /\ FIXED_B_PRIO => ~rom.priority_a /\ ~RomWaits("B")
      /\ ~FIXED_B_PRIO => /\ RomWaits("A") => rom.priority_a
                          /\ RomWaits("B") => ~rom.priority_a
  BY RomTraffic DEF HclkEdge
<1>3. /\ Rom!aph_read(y, "A") <=> y["A"].op = "read"
      /\ Rom!aph_read(y, "B") <=> y["B"].op = "read"
      /\ Rom!b_aph_write(y) <=> y["B"].op = "write"
  BY DEF Rom!aph_read, Rom!b_aph_write
<1>4. CASE FIXED_B_PRIO
  <2>1. /\ Rom!a_lost(rom, y) <=> /\ Rom!aph_read(y, "A") /\ Rom!aph_read(y, "B")
                                  /\ ~rom.any_pending
        /\ ~Rom!b_lost(rom, y)
        /\ Rom!a_stall(rom, y) <=> /\ Rom!aph_read(y, "B")
                                   /\ Rom!aph_read(y, "A") \/ rom.any_pending
        /\ Rom!a_grant(rom, y) <=> /\ ~Rom!aph_read(y, "B")
                                   /\ Rom!aph_read(y, "A") \/ rom.any_pending
    BY <1>4 DEF Rom!a_lost, Rom!b_lost, Rom!a_stall, Rom!a_grant
  <2>2. /\ Rom!pending_nxt(rom, y) <=> \/ Rom!a_lost(rom, y)
                                       \/ rom.any_pending /\ ~Rom!a_grant(rom, y)
        /\ Rom!priority_nxt(rom, y) <=> rom.priority_a
        /\ Rom!b_hreadyout_nxt(rom, y) <=> ~Rom!b_aph_write(y)
    BY <1>4, <2>1 DEF Rom!pending_nxt, Rom!priority_nxt, Rom!b_hreadyout_nxt
  <2> QED BY <1>1, <1>2, <1>3, <1>4, <2>1, <2>2
<1>5. CASE ~FIXED_B_PRIO
  <2>1. /\ Rom!a_lost(rom, y) <=> /\ Rom!aph_read(y, "A") /\ ~rom.priority_a
                                  /\ Rom!aph_read(y, "B") \/ rom.any_pending
        /\ Rom!b_lost(rom, y) <=> /\ Rom!aph_read(y, "B") /\ rom.priority_a
                                  /\ Rom!aph_read(y, "A") \/ rom.any_pending
        /\ Rom!a_stall(rom, y) <=> Rom!a_lost(rom, y)
    BY <1>5 DEF Rom!a_lost, Rom!b_lost, Rom!a_stall
  <2>2. /\ Rom!pending_nxt(rom, y) <=> Rom!a_lost(rom, y) \/ Rom!b_lost(rom, y)
        /\ Rom!priority_nxt(rom, y) <=> \/ Rom!a_lost(rom, y)
                                        \/ rom.priority_a /\ ~Rom!b_lost(rom, y)
        /\ Rom!b_hreadyout_nxt(rom, y) <=>
             ~Rom!b_aph_write(y) /\ (rom.b_err_st = "err1" \/ ~Rom!b_lost(rom, y))
    BY <1>5 DEF Rom!pending_nxt, Rom!priority_nxt, Rom!b_hreadyout_nxt
  <2> QED BY <1>1, <1>2, <1>3, <1>5, <2>1, <2>2
<1> QED BY <1>4, <1>5

(* The address that is replayed, and the word on the macro's output.        *)
LEMMA RomAddrStep ==
  ASSUME FabricInv, NEW aph \in Offers, NEW hwdata, HclkEdge(aph, hwdata),
         NEW P \in Ports, At(P, "rom")', held'[P].op = "read"
  PROVE  /\ rom'.rom_was_active
         /\ ~rom'.hreadyout[P] => rom'.saved_addr = held'[P].addr
         /\ rom'.hreadyout[P] => rom_dout' = RomContent[held'[P].addr]
<1> DEFINE y == To("rom", aph)
<1>1. /\ rom'.saved_addr = IF Rom!a_lost(rom, y) THEN y["A"].addr
                           ELSE IF Rom!b_lost(rom, y) THEN y["B"].addr
                           ELSE IF Rom!pending_nxt(rom, y) THEN rom.saved_addr
                           ELSE Rom!AnyAddr
      /\ rom'.hreadyout["A"] <=> ~Rom!a_stall(rom, y)
      /\ rom'.hreadyout["B"] <=> Rom!b_hreadyout_nxt(rom, y)
      /\ rom'.rom_was_active <=> Rom!rom_read(rom, y)
  <2>1. rom \in Rom!Registers /\ rom' = Rom!RomNext(rom, y)
    BY RomHeld DEF HclkEdge
  <2> QED BY <2>1, RomFields
<1>2. /\ y["A"].op = "read" => ~RomWaits("A")
      /\ y["B"].op # "idle" => ~RomWaits("B") /\ rom.b_err_st # "err1"
      /\ rom.any_pending <=> RomWaits("A") \/ RomWaits("B")
      /\ FIXED_B_PRIO => ~rom.priority_a /\ ~RomWaits("B")
      /\ ~FIXED_B_PRIO => /\ RomWaits("A") => rom.priority_a
                          /\ RomWaits("B") => ~rom.priority_a
      /\ At("A", "rom")' <=> y["A"].op = "read" \/ RomWaits("A")
      /\ (At("B", "rom")' /\ held'["B"].op = "read") <=> y["B"].op = "read" \/ RomWaits("B")
      /\ ~(RomWaits("B") /\ rom.b_err_st = "err1")
  BY RomTraffic DEF HclkEdge
<1>3. y[P].op = "read" \/ RomWaits(P)
  BY <1>2 DEF Ports
<1>4. /\ y[P].op = "read" => held'[P] = y[P] /\ y[P].addr \in RomAddrs
      /\ RomWaits(P) => held'[P] = held[P] /\ rom.saved_addr = held[P].addr
  BY RomSampled, RomHeld DEF HclkEdge, RomWaits
<1>5. /\ Rom!aph_read(y, "A") <=> y["A"].op = "read"
      /\ Rom!aph_read(y, "B") <=> y["B"].op = "read"
      /\ Rom!b_aph_write(y) <=> y["B"].op = "write"
      /\ Rom!rom_read(rom, y) <=> rom.any_pending \/ y["A"].op = "read" \/ y["B"].op = "read"
  BY DEF Rom!aph_read, Rom!b_aph_write, Rom!rom_read, Rom!Ports
<1>6. Rom!rom_read(rom, y)
  BY <1>2, <1>3, <1>5 DEF Ports
<1>7. rom_dout' = RomContent[Rom!rom_addr(rom, y)]
  BY <1>6 DEF HclkEdge, Rom!RomDoutNext
<1> HIDE DEF y
<1>8. CASE FIXED_B_PRIO
  <2>1. /\ Rom!a_lost(rom, y) <=> /\ y["A"].op = "read" /\ y["B"].op = "read"
                                  /\ ~rom.any_pending
        /\ ~Rom!b_lost(rom, y)
        /\ Rom!a_stall(rom, y) <=> /\ y["B"].op = "read"
                                   /\ y["A"].op = "read" \/ rom.any_pending
        /\ Rom!a_grant(rom, y) <=> /\ y["B"].op # "read"
                                   /\ y["A"].op = "read" \/ rom.any_pending
        /\ Rom!rom_addr(rom, y) = IF y["B"].op = "read" THEN y["B"].addr
                                  ELSE IF rom.any_pending THEN rom.saved_addr
                                  ELSE y["A"].addr
    BY <1>5, <1>8 DEF Rom!a_lost, Rom!b_lost, Rom!a_stall, Rom!a_grant, Rom!rom_addr
  <2>2. /\ Rom!pending_nxt(rom, y) <=> \/ Rom!a_lost(rom, y)
                                       \/ rom.any_pending /\ ~Rom!a_grant(rom, y)
        /\ Rom!b_hreadyout_nxt(rom, y) <=> y["B"].op # "write"
    BY <1>5, <1>8, <2>1 DEF Rom!pending_nxt, Rom!b_hreadyout_nxt
  <2>3. CASE P = "A"
    <3>1. ~rom'.hreadyout[P] => rom'.saved_addr = held'[P].addr
      BY <1>1, <1>2, <1>3, <1>4, <1>8, <2>1, <2>2, <2>3
    <3>2. rom'.hreadyout[P] => Rom!rom_addr(rom, y) = held'[P].addr
      BY <1>1, <1>2, <1>3, <1>4, <1>8, <2>1, <2>2, <2>3
    <3> QED BY <1>1, <1>6, <1>7, <3>1, <3>2
  <2>4. CASE P = "B"
    <3>1. y["B"].op = "read"
      BY <1>2, <1>3, <1>8, <2>4
    <3>2. rom'.hreadyout[P] /\ Rom!rom_addr(rom, y) = held'[P].addr
      BY <1>1, <1>4, <2>1, <2>2, <2>4, <3>1
    <3> QED BY <1>1, <1>6, <1>7, <3>2
  <2> QED BY <2>3, <2>4 DEF Ports
<1>9. CASE ~FIXED_B_PRIO
  <2>1. /\ Rom!a_lost(rom, y) <=> /\ y["A"].op = "read" /\ ~rom.priority_a
                                  /\ y["B"].op = "read" \/ rom.any_pending
        /\ Rom!b_lost(rom, y) <=> /\ y["B"].op = "read" /\ rom.priority_a
                                  /\ y["A"].op = "read" \/ rom.any_pending
        /\ Rom!a_stall(rom, y) <=> Rom!a_lost(rom, y)
        /\ Rom!a_grant(rom, y) <=> /\ y["A"].op = "read" /\ ~rom.any_pending
                                   /\ rom.priority_a \/ y["B"].op # "read"
    BY <1>5, <1>9 DEF Rom!a_lost, Rom!b_lost, Rom!a_stall, Rom!a_grant
  <2>2. /\ Rom!rom_addr(rom, y) = IF Rom!a_grant(rom, y) THEN y["A"].addr
                                  ELSE IF rom.any_pending THEN rom.saved_addr
                                  ELSE y["B"].addr
        /\ Rom!b_hreadyout_nxt(rom, y) <=>
             y["B"].op # "write" /\ (rom.b_err_st = "err1" \/ ~Rom!b_lost(rom, y))
    BY <1>5, <1>9 DEF Rom!rom_addr, Rom!b_hreadyout_nxt
  <2>3. CASE P = "A"
    <3>1. ~rom'.hreadyout[P] => rom'.saved_addr = held'[P].addr
      BY <1>1, <1>2, <1>3, <1>4, <1>9, <2>1, <2>2, <2>3
    <3>2. rom'.hreadyout[P] => Rom!rom_addr(rom, y) = held'[P].addr
      BY <1>1, <1>2, <1>3, <1>4, <1>9, <2>1, <2>2, <2>3
    <3> QED BY <1>1, <1>6, <1>7, <3>1, <3>2
  <2>4. CASE P = "B"
    <3>1. ~rom'.hreadyout[P] => rom'.saved_addr = held'[P].addr
      BY <1>1, <1>2, <1>3, <1>4, <1>9, <2>1, <2>2, <2>4
    <3>2. rom'.hreadyout[P] => Rom!rom_addr(rom, y) = held'[P].addr
      BY <1>1, <1>2, <1>3, <1>4, <1>9, <2>1, <2>2, <2>4
    <3> QED BY <1>1, <1>6, <1>7, <3>1, <3>2
  <2> QED BY <2>3, <2>4 DEF Ports
<1> QED BY <1>8, <1>9

LEMMA RomInvStep ==
  ASSUME FabricInv, NEW aph \in Offers, NEW hwdata, HclkEdge(aph, hwdata)
  PROVE  RomInv'
<1> DEFINE y == To("rom", aph)
<1>1. /\ ~rom'.hreadyout["A"] => (y["A"].op = "read" \/ RomWaits("A")) /\ rom'.any_pending
      /\ ~rom'.hreadyout["B"] <=>
           \/ y["B"].op = "write"
           \/ (y["B"].op = "read" /\ Rom!b_lost(rom, y))
      /\ ~rom'.hreadyout["B"] /\ y["B"].op # "write" => rom'.any_pending
      /\ rom'.any_pending => ~rom'.hreadyout["A"]
                               \/ (~rom'.hreadyout["B"] /\ y["B"].op = "read")
      /\ FIXED_B_PRIO => ~rom'.priority_a
      /\ ~FIXED_B_PRIO /\ ~rom'.hreadyout["A"] => y["A"].op = "read" /\ rom'.priority_a
      /\ ~FIXED_B_PRIO /\ ~rom'.hreadyout["B"] /\ y["B"].op # "write"
           => ~rom'.priority_a
      /\ FIXED_B_PRIO => ~Rom!b_lost(rom, y)
  BY RomArbiterStep
<1>2. /\ y["A"].op = "read" => ~RomWaits("A")
      /\ y["B"].op # "idle" => ~RomWaits("B") /\ rom.b_err_st # "err1"
      /\ FIXED_B_PRIO => ~RomWaits("B")
      /\ At("A", "rom")' <=> y["A"].op = "read" \/ RomWaits("A")
      /\ At("A", "rom")' => held'["A"].op = "read"
      /\ (At("B", "rom")' /\ held'["B"].op = "read") <=> y["B"].op = "read" \/ RomWaits("B")
      /\ (At("B", "rom")' /\ held'["B"].op = "write")
           <=> y["B"].op = "write" \/ rom.b_err_st = "err1"
      /\ ~(RomWaits("B") /\ rom.b_err_st = "err1")
      /\ rom.b_err_st \in {"idle", "err1", "err2"}
  BY RomTraffic DEF HclkEdge
<1>3. /\ y["A"].op \in {"idle", "read"}
      /\ y["B"].op \in {"idle", "read", "write"}
      /\ y["A"].op # "idle" => waited'["A"] = 0
      /\ y["B"].op # "idle" => waited'["B"] = 0 /\ held'["B"] = y["B"]
      /\ At("B", "rom")' => held'["B"].op \in {"read", "write"}
  BY RomSampled DEF HclkEdge, Ports
<1>4. /\ RomWaits("A") /\ ~FIXED_B_PRIO => waited'["A"] = 1
      /\ RomWaits("B") => waited'["B"] = 1
      /\ rom.b_err_st = "err1" => waited'["B"] = 1
  <2>1. ASSUME NEW P \in Ports, ~rom.hreadyout[P], waited[P] = 0
        PROVE  waited'[P] = 1
    BY <2>1, RomSampled DEF HclkEdge, WaitCap
  <2>2. /\ RomWaits("A") /\ ~FIXED_B_PRIO => ~rom.hreadyout["A"] /\ waited["A"] = 0
        /\ RomWaits("B") => ~rom.hreadyout["B"] /\ waited["B"] = 0
        /\ rom.b_err_st = "err1" => ~rom.hreadyout["B"] /\ waited["B"] = 0
    BY RomHeld DEF RomWaits, Ports, FabricInv, RomInv
  <2> QED BY <2>1, <2>2 DEF Ports
<1>5. rom'.b_err_st = IF rom.b_err_st = "err1" THEN "err2"
                      ELSE IF y["B"].op = "write" THEN "err1" ELSE "idle"
  <2>1. rom \in Rom!Registers /\ rom' = Rom!RomNext(rom, y)
    BY RomHeld DEF HclkEdge, Ports
  <2>2. rom'.b_err_st = Rom!b_err_st_nxt(rom, y)
    BY <2>1, RomFields
  <2> QED BY <2>2 DEF Rom!b_err_st_nxt, Rom!b_aph_write
<1>6. ASSUME NEW P \in Ports, At(P, "rom")', held'[P].op = "read"
      PROVE  /\ rom'.rom_was_active
             /\ ~rom'.hreadyout[P] => rom'.saved_addr = held'[P].addr
             /\ rom'.hreadyout[P] => rom_dout' = RomContent[held'[P].addr]
  BY <1>6, RomAddrStep
<1> HIDE DEF y
<1>7. ASSUME NEW P \in Ports, ~rom'.hreadyout[P]
      PROVE  At(P, "rom")' /\ (held'[P].op = "read" => rom'.any_pending)
  <2>1. CASE P = "A"
    BY <1>1, <1>2, <1>7, <2>1
  <2>2. CASE P = "B"
    <3>1. y["B"].op \in {"read", "write"} /\ At("B", "rom")'
      BY <1>1, <1>2, <1>7, <2>2
    <3> QED BY <1>1, <1>3, <1>7, <2>2, <3>1
  <2> QED BY <2>1, <2>2 DEF Ports
<1>8. ASSUME NEW P \in Ports, At(P, "rom")', held'[P].op = "read", ~rom'.hreadyout[P]
      PROVE  /\ FIXED_B_PRIO => P = "A"
             /\ ~FIXED_B_PRIO => rom'.priority_a = (P = "A")
  <2>1. rom'.priority_a \in BOOLEAN
    <3>1. rom'.priority_a = Rom!priority_nxt(rom, y)
      BY DEF HclkEdge, Rom!RomNext, y
    <3> QED BY <3>1 DEF Rom!priority_nxt
  <2>2. CASE P = "A"
    BY <1>1, <1>8, <2>1, <2>2
  <2>3. CASE P = "B"
    <3>1. y["B"].op = "read" /\ Rom!b_lost(rom, y)
      BY <1>1, <1>3, <1>8, <2>3
    <3> QED BY <1>1, <1>8, <2>1, <2>3, <3>1
  <2> QED BY <2>2, <2>3 DEF Ports
<1>9. ASSUME NEW P \in Ports, At(P, "rom")', held'[P].op = "read", ~FIXED_B_PRIO \/ P = "B"
      PROVE  waited'[P] = 0 \/ (waited'[P] = 1 /\ rom'.hreadyout[P])
  <2>1. CASE P = "A"
    BY <1>1, <1>2, <1>3, <1>4, <1>9, <2>1
  <2>2. CASE P = "B"
    BY <1>1, <1>2, <1>3, <1>4, <1>9, <2>2
  <2> QED BY <2>1, <2>2 DEF Ports
<1>10. rom'.any_pending => \E P \in Ports : ~rom'.hreadyout[P] /\ held'[P].op = "read"
  BY <1>1, <1>2, <1>3 DEF Ports
<1>11. /\ (At("B", "rom")' /\ held'["B"].op = "write") <=> rom'.b_err_st # "idle"
       /\ rom'.b_err_st = "err1" => ~rom'.hreadyout["B"] /\ waited'["B"] = 0
       /\ rom'.b_err_st = "err2" => rom'.hreadyout["B"] /\ waited'["B"] = 1
  BY <1>1, <1>2, <1>3, <1>4, <1>5
<1> QED BY <1>1, <1>6, <1>7, <1>8, <1>9, <1>10, <1>11 DEF RomInv

LEMMA RomTypeStep ==
  ASSUME FabricInv, NEW aph \in Offers, NEW hwdata, HclkEdge(aph, hwdata)
  PROVE  rom' \in Rom!Registers /\ rom_dout' \in Words
<1> DEFINE y == To("rom", aph)
<1>1. /\ rom \in Rom!Registers /\ rom.saved_addr \in RomAddrs /\ rom_dout \in Words
  BY RomHeld DEF Ports, FabricInv, TypeOK, Rom!Registers
<1>2. /\ y["A"].op = "read" => y["A"].addr \in RomAddrs
      /\ y["B"].op = "read" => y["B"].addr \in RomAddrs
  BY RomSampled DEF HclkEdge, Ports
<1>3. Rom!AnyAddr \in RomAddrs
  BY FabricAssumption DEF Rom!AnyAddr
<1>4. rom' = Rom!RomNext(rom, y)
  BY DEF HclkEdge
<1>5. rom_dout' = IF Rom!rom_read(rom, y) THEN RomContent[Rom!rom_addr(rom, y)] ELSE rom_dout
  BY DEF HclkEdge, Rom!RomDoutNext
<1>6. /\ Rom!aph_read(y, "A") <=> y["A"].op = "read"
      /\ Rom!aph_read(y, "B") <=> y["B"].op = "read"
      /\ Rom!rom_read(rom, y) <=> rom.any_pending \/ y["A"].op = "read" \/ y["B"].op = "read"
  BY DEF Rom!aph_read, Rom!rom_read, Rom!Ports
<1> HIDE DEF y
<1>7. Rom!rom_read(rom, y) => Rom!rom_addr(rom, y) \in RomAddrs
  BY <1>1, <1>2, <1>6 DEF Rom!rom_addr, Rom!a_grant
<1>8. /\ Rom!a_lost(rom, y) => y["A"].op = "read"
      /\ Rom!b_lost(rom, y) => y["B"].op = "read"
  BY <1>6 DEF Rom!a_lost, Rom!b_lost
<1>9. rom'.saved_addr \in RomAddrs
  <2>1. rom'.saved_addr = IF Rom!a_lost(rom, y) THEN y["A"].addr
                          ELSE IF Rom!b_lost(rom, y) THEN y["B"].addr
                          ELSE IF Rom!pending_nxt(rom, y) THEN rom.saved_addr
                          ELSE Rom!AnyAddr
    BY <1>4 DEF Rom!RomNext
  <2> QED BY <1>1, <1>2, <1>3, <1>8, <2>1
<1>10. /\ Rom!pending_nxt(rom, y) \in BOOLEAN /\ Rom!priority_nxt(rom, y) \in BOOLEAN
       /\ Rom!rom_read(rom, y) \in BOOLEAN
       /\ [P \in Rom!Ports |-> IF P = "A" THEN ~Rom!a_stall(rom, y)
                               ELSE Rom!b_hreadyout_nxt(rom, y)] \in [Rom!Ports -> BOOLEAN]
       /\ Rom!b_err_st_nxt(rom, y) \in {"idle", "err1", "err2"}
  BY DEF Rom!pending_nxt, Rom!priority_nxt, Rom!rom_read, Rom!b_hreadyout_nxt,
         Rom!b_err_st_nxt
<1>11. rom' \in Rom!Registers
  BY <1>4, <1>9, <1>10 DEF Rom!RomNext, Rom!Registers
<1>12. rom_dout' \in Words
  BY <1>1, <1>5, <1>7, FabricAssumption
<1> QED BY <1>11, <1>12

LEMMA TypeStep ==
  ASSUME FabricInv, NEW aph \in Offers, NEW hwdata \in Words, HclkEdge(aph, hwdata)
  PROVE  TypeOK'
<1>1. SramTypeOK'
  <2>1. m' = [P \in Ports |-> PortNext(To("sram", aph), P)]
    BY DEF HclkEdge, SramEdge
  <2>2. \A P \in Ports : m'[P] \in Port
    BY PortStep
  <2>3. m' \in [Ports -> Port]
    BY <2>1, <2>2
  <2>4. toggle_priority' \in BOOLEAN
    <3>1. toggle_priority' = IF ~FIXED_B_PRIO
                                  /\ \E P \in Ports : arb_grant(To("sram", aph), P)
                             THEN arb_grant(To("sram", aph), "A") ELSE toggle_priority
      BY DEF HclkEdge, SramEdge
    <3>2. arb_grant(To("sram", aph), "A") \in BOOLEAN /\ toggle_priority \in BOOLEAN
      BY DEF arb_grant, FabricInv, TypeOK, SramTypeOK
    <3> QED BY <3>1, <3>2
  <2>5. c' \in Controller /\ sram' \in [Addrs -> Words] /\ sram_dout' \in Words
    BY ControllerStep
  <2> QED BY <2>3, <2>4, <2>5 DEF SramTypeOK
<1>2. rom' \in Rom!Registers /\ rom_dout' \in Words
  BY RomTypeStep
<1>3. dflt' \in [Ports -> Blocks!Dflt]
  <2>1. dflt' = [P \in Ports |-> [p0 |-> To("dflt", aph)[P] # Idle, p1 |-> dflt[P].p0]]
    BY DEF HclkEdge, Blocks!DfltNext
  <2>2. \A P \in Ports : dflt[P].p0 \in BOOLEAN
    BY DEF FabricInv, TypeOK, Blocks!Dflt
  <2>3. \A P \in Ports :
          [p0 |-> To("dflt", aph)[P] # Idle, p1 |-> dflt[P].p0] \in Blocks!Dflt
    BY <2>2 DEF Blocks!Dflt
  <2> QED BY <2>1, <2>3
<1>4. \A P \in Ports : held'[P] \in BusBeats(P)
  BY HeldStep DEF HclkEdge
<1>5. waited' \in [Ports -> 0 .. WaitCap]
  BY HeldStep DEF HclkEdge, Ports
<1>6. maySee' \in [Lanes -> SUBSET Vals]
  <2>1. CASE Lanes = {}
    BY <2>1 DEF HclkEdge, MaySeeNext
  <2>2. CASE Lanes # {}
    BY <2>2, MaySeeStep
  <2> QED BY <2>1, <2>2
<1> QED BY <1>1, <1>2, <1>3, <1>4, <1>5, <1>6 DEF TypeOK, BusBeats

(* A withheld edge finds both buses, and everything behind them, idle.      *)
LEMMA GatedStep ==
  ASSUME FabricInv, NEW aph \in Offers, Gated(aph)
  PROVE  /\ \A P \in Ports : aph[P] = Idle /\ held[P] = Idle /\ held'[P] = Idle
                             /\ waited'[P] = 0 /\ hready(P)
                             /\ ~m[P].aph_pending /\ ~m[P].dph_ongoing
         /\ c.state = "IDLE"
         /\ UNCHANGED <<m, toggle_priority, c, sram, sram_dout, rom, rom_dout, dflt, maySee>>
<1>1. UNCHANGED <<m, toggle_priority, c, sram, sram_dout, rom, rom_dout, dflt, maySee>>
  BY DEF Gated, rtl, sram_rtl
<1>2. /\ ~hclk_en(aph) /\ DataPhases(aph)
  BY DEF Gated
<1>3. /\ held["B"] = Idle
      /\ \A P \in Ports : aph[P] = Idle /\ ~dflt[P].p0 /\ ~dflt[P].p1
      /\ \A P \in Ports : ~m[P].aph_pending /\ ~m[P].dph_ongoing
      /\ c.state = "IDLE" /\ ~rom.rom_was_active
  BY <1>2 DEF hclk_en, sram_hclk_en, m_hclk_en, Rom!rom_hclk_en
<1>4. ASSUME NEW P \in Ports PROVE held[P] = Idle
  <2>1. CASE P = "B"
    BY <1>3, <2>1
  <2>2. CASE P = "A"
    <3>1. ~At("A", "sram") /\ ~At("A", "dflt")
      BY <1>3 DEF FabricInv, PortInv, DfltInv, Ports
    <3>2. ~At("A", "rom")
      <4>1. At("A", "rom") => held["A"].op = "read"
        BY RomHeld DEF Ports
      <4> QED BY <1>3, <4>1 DEF FabricInv, RomInv, Ports
    <3>3. held["A"] # Idle => Target("A", held["A"]) \in Subordinates
      BY BeatFacts DEF FabricInv, TypeOK, Ports
    <3> QED BY <2>2, <3>1, <3>2, <3>3 DEF At, Subordinates
  <2> QED BY <2>1, <2>2 DEF Ports
<1>5. ASSUME NEW P \in Ports PROVE hready(P)
  <2>1. ~At(P, "rom")
    BY <1>4 DEF At
  <2>2. rom.hreadyout[P]
    BY <2>1 DEF FabricInv, RomInv
  <2> QED BY <1>3, <2>2, ReadyFacts
<1>6. ASSUME NEW P \in Ports PROVE held'[P] = Idle /\ waited'[P] = 0
  BY <1>2, <1>3, <1>5, HeldStep
<1> QED BY <1>1, <1>3, <1>4, <1>5, <1>6

LEMMA GatedInv ==
  ASSUME FabricInv, NEW aph \in Offers, Gated(aph)
  PROVE  FabricInv'
<1>1. /\ \A P \in Ports : held[P] = Idle /\ held'[P] = Idle /\ waited'[P] = 0
      /\ \A P \in Ports : ~m[P].aph_pending /\ ~m[P].dph_ongoing
      /\ c.state = "IDLE"
      /\ UNCHANGED <<m, toggle_priority, c, sram, sram_dout, rom, rom_dout, dflt, maySee>>
  BY GatedStep
<1>2. /\ \A P \in Ports : \A s : ~At(P, s) /\ ~At(P, s)'
      /\ Idle.op = "idle"
  BY <1>1, IdleFacts DEF At
<1>3. TypeOK'
  <2>1. waited' \in [Ports -> 0 .. WaitCap]
    BY HeldStep DEF Gated, Ports
  <2> QED BY <1>1, <2>1, IdleFacts DEF FabricInv, TypeOK, SramTypeOK, BusBeats
<1>4. PortInv' /\ StateInv' /\ LoadInv' /\ FetchInv'
  BY <1>1, <1>2 DEF PortInv, StateInv, LoadInv, FetchInv, Ports
<1>5. DfltInv'
  BY <1>1, <1>2 DEF FabricInv, DfltInv
<1>6. RomInv'
  BY <1>1, <1>2 DEF FabricInv, RomInv, Ports
<1>7. WaitInv'
  BY <1>1 DEF WaitInv
<1> QED BY <1>3, <1>4, <1>5, <1>6, <1>7 DEF FabricInv

-----------------------------------------------------------------------------
(* The invariant. *)
LEMMA InitInvariant == Init => FabricInv
<1> SUFFICES ASSUME Init PROVE FabricInv
  OBVIOUS
<1>1. /\ m = [P \in Ports |-> [aph_pending |-> FALSE, dph_ongoing |-> FALSE,
                               cache |-> Idle]]
      /\ toggle_priority = FALSE
      /\ c = ControllerReset(Lanes)
      /\ sram \in [Addrs -> Words] /\ sram_dout \in Words
      /\ rom = Rom!Reset /\ rom_dout \in Words
      /\ dflt = [P \in Ports |-> [p0 |-> FALSE, p1 |-> FALSE]]
      /\ held = [P \in Ports |-> Idle]
      /\ maySee = [l \in Lanes |-> {}]
      /\ waited = [P \in Ports |-> 0]
  BY DEF Init, SramInit, Blocks!DfltReset
<1>2. /\ \A P \in Ports : /\ ~m[P].aph_pending /\ ~m[P].dph_ongoing
                          /\ ~dflt[P].p0 /\ ~dflt[P].p1
                          /\ held[P] = Idle /\ waited[P] = 0
                          /\ \A s : ~At(P, s)
      /\ c.state = "IDLE"
  BY <1>1 DEF At, ControllerReset
<1>3. /\ ~rom.any_pending /\ rom.priority_a = ~FIXED_B_PRIO
      /\ \A P \in Ports : rom.hreadyout[P]
      /\ rom.b_err_st = "idle"
  BY <1>1 DEF Rom!Reset, Rom!Ports, Ports
<1>4. TypeOK
  <2>1. c \in Controller
    BY <1>1, ZeroWord, IdleFacts DEF ControllerReset, Controller
  <2>2. Rom!AnyAddr \in RomAddrs
    BY FabricAssumption DEF Rom!AnyAddr
  <2>3. rom \in Rom!Registers
    <3>1. (~FIXED_B_PRIO) \in BOOLEAN
      OBVIOUS
    <3> QED BY <1>1, <2>2, <3>1 DEF Rom!Reset, Rom!Registers
  <2>4. m \in [Ports -> Port] /\ dflt \in [Ports -> Blocks!Dflt]
    BY <1>1, IdleFacts DEF Port, Blocks!Dflt
  <2>5. waited \in [Ports -> 0 .. WaitCap] /\ maySee \in [Lanes -> SUBSET Vals]
    BY <1>1 DEF WaitCap
  <2> QED BY <1>1, <2>1, <2>3, <2>4, <2>5, IdleFacts DEF TypeOK, SramTypeOK, BusBeats
<1>5. PortInv /\ StateInv /\ LoadInv /\ FetchInv
  BY <1>2 DEF PortInv, StateInv, LoadInv, FetchInv, Ports
<1>6. DfltInv /\ WaitInv
  BY <1>2 DEF DfltInv, WaitInv
<1>7. RomInv
  BY <1>2, <1>3 DEF RomInv, Ports
<1> QED BY <1>4, <1>5, <1>6, <1>7 DEF FabricInv

LEMMA ZeroData ==
  /\ [l \in Lanes |-> Zero] \in Words
  /\ WriteData \subseteq Words
BY ZeroWord DEF WriteData

LEMMA NextInvariant == FabricInv /\ [Next]_vars => FabricInv'
<1> SUFFICES ASSUME FabricInv, [Next]_vars PROVE FabricInv'
  OBVIOUS
<1>1. ASSUME NEW aph \in Offers, NEW hwdata \in WriteData, HclkEdge(aph, hwdata)
      PROVE  FabricInv'
  <2>1. hwdata \in Words
    BY ZeroData
  <2>2. TypeOK' /\ PortInv' /\ StateInv' /\ LoadInv' /\ FetchInv'
    BY <1>1, <2>1, TypeStep, PortInvStep, StateInvStep, LoadInvStep, FetchInvStep
  <2>3. DfltInv' /\ WaitInv' /\ RomInv'
    BY <1>1, <2>1, DfltInvStep, WaitInvStep, RomInvStep
  <2> QED BY <2>2, <2>3 DEF FabricInv
<1>2. ASSUME NEW aph \in Offers, Gated(aph) PROVE FabricInv'
  BY <1>2, GatedInv
<1>3. CASE UNCHANGED vars
  <2>1. UNCHANGED <<m, toggle_priority, c, sram, sram_dout, rom, rom_dout, dflt,
                    held, maySee, waited>>
    BY <1>3 DEF vars, rtl, sram_rtl
  <2>2. TypeOK' /\ PortInv' /\ StateInv' /\ DfltInv'
    BY <2>1 DEF FabricInv, TypeOK, SramTypeOK, PortInv, StateInv, DfltInv, At, Target, BusBeats
  <2>3. RomInv' /\ WaitInv' /\ LoadInv' /\ FetchInv'
    BY <2>1 DEF FabricInv, RomInv, WaitInv, LoadInv, FetchInv, At, Target, First
  <2> QED BY <2>2, <2>3 DEF FabricInv
<1> QED BY <1>1, <1>2, <1>3 DEF Next

THEOREM FabricInvariant == Spec => []FabricInv
BY InitInvariant, NextInvariant, PTL DEF Spec

(* Every register keeps its range, and what is in its data phase on a bus   *)
(* is a beat of that bus, for any memories and either scheme.               *)
THEOREM FabricTypeCorrect == Spec => []TypeOK
<1>1. FabricInv => TypeOK
  BY DEF FabricInv
<1> QED BY <1>1, FabricInvariant, PTL

(* A fetch returns every store whose data phase ended before the fetch's    *)
(* address phase, in each byte, although the fetch bypasses the forwarding  *)
(* of parked writes; the macro has the write back before the fetch port is  *)
(* granted again.                                                           *)
THEOREM FetchAlwaysSeesStores == Spec => []FetchSeesEarlierStores
<1>1. FabricInv => FetchSeesEarlierStores
  <2> SUFFICES ASSUME FabricInv, Fetching(held["A"]), hready("A"), NEW l \in Lanes
               PROVE  bus_hrdata("A")[l] \in maySee[l]
    BY DEF FetchSeesEarlierStores
  <2>1. /\ held["A"] # Idle /\ held["A"] \in BusBeats("A")
        /\ held["A"].op = "read" /\ held["A"].addr # Nowhere
    BY IdleFacts DEF Fetching, FabricInv, TypeOK, Ports
  <2>2. /\ Target("A", held["A"]) \in Subordinates
        /\ Target("A", held["A"]) # "dflt"
    BY <2>1, BeatFacts DEF Ports
  <2>3. CASE Target("A", held["A"]) = "sram"
    <3>1. At("A", "sram") /\ ~m["A"].aph_pending
      BY <2>1, <2>3, WaitingFacts DEF At, Ports
    <3>2. m["A"].dph_ongoing
      BY <3>1 DEF FabricInv, PortInv, Ports
    <3> QED BY <2>3, <3>2 DEF FabricInv, FetchInv, bus_hrdata, a_hrdata
  <2>4. CASE Target("A", held["A"]) = "rom"
    <3>1. At("A", "rom") /\ rom.hreadyout["A"]
      BY <2>1, <2>4, ReadyFacts DEF At, Ports
    <3>2. rom_dout = RomContent[held["A"].addr]
      BY <2>1, <3>1 DEF FabricInv, RomInv, Ports
    <3> QED BY <2>4, <3>1, <3>2 DEF FabricInv, FetchInv, bus_hrdata
  <2> QED BY <2>2, <2>3, <2>4 DEF Subordinates
<1> QED BY <1>1, FabricInvariant, PTL

(* No beat waits for more than two cycles: whoever loses a contest wins the *)
(* next, and the restore of a parked write costs one cycle more at most.    *)
(* Under FIXED_B_PRIO this is what port B is promised.                      *)
THEOREM AlwaysTwoWaitStates == Spec => []TwoWaitStates
<1>1. FabricInv => TwoWaitStates
  <2> SUFFICES ASSUME FabricInv, NEW P \in Ports, P = "B" \/ ~FIXED_B_PRIO
               PROVE  waited[P] <= 2
    BY DEF TwoWaitStates
  <2>1. /\ held[P] \in BusBeats(P)
        /\ held[P] # Idle => Target(P, held[P]) \in Subordinates
    BY BeatFacts DEF FabricInv, TypeOK
  <2>2. CASE held[P] = Idle
    BY <2>2 DEF FabricInv, WaitInv
  <2>3. CASE At(P, "sram")
    <3>1. m[P].aph_pending \/ m[P].dph_ongoing
      BY <2>3 DEF FabricInv, PortInv
    <3> QED BY <3>1 DEF FabricInv, WaitInv
  <2>4. CASE At(P, "rom")
    <3>1. held[P].op \in {"read", "write"} /\ (held[P].op = "write" => P = "B")
      BY <2>4, RomHeld
    <3>2. CASE held[P].op = "read"
      BY <2>4, <3>2 DEF FabricInv, RomInv
    <3>3. CASE held[P].op = "write"
      <4>1. rom.b_err_st \in {"err1", "err2"} /\ P = "B"
        BY <2>4, <3>1, <3>3 DEF FabricInv, TypeOK, Rom!Registers, RomInv
      <4> QED BY <4>1 DEF FabricInv, RomInv
    <3> QED BY <3>1, <3>2, <3>3
  <2>5. CASE At(P, "dflt")
    BY <2>5 DEF FabricInv, DfltInv
  <2> QED BY <2>1, <2>2, <2>3, <2>4, <2>5 DEF At, Subordinates
<1> QED BY <1>1, FabricInvariant, PTL

LEMMA DenialFacts ==
  ASSUME FabricInv, NEW P \in Ports
  PROVE  /\ hresp(P) <=> Denied(P)
         /\ Denied(P) => (hready(P) <=> waited[P] = 1)
         /\ Denied(P) <=> At(P, "dflt") \/ (At(P, "rom") /\ held[P].op = "write")
<1>1. /\ held[P] \in BusBeats(P)
      /\ held[P] # Idle => /\ Target(P, held[P]) \in Subordinates
                           /\ held[P].op \in {"read", "write"}
      /\ At(P, "sram") => held[P].addr \in Addrs /\ (P = "A" => held[P].op = "read")
      /\ At(P, "rom")  => held[P].addr \in RomAddrs /\ (P = "A" => held[P].op = "read")
      /\ At(P, "dflt") => (held[P].addr = Nowhere \/ (P = "A" /\ held[P].op = "write"))
  BY BeatFacts DEF FabricInv, TypeOK, At
<1>2. /\ (At(P, "rom") /\ held[P].op = "write") <=> P = "B" /\ rom.b_err_st # "idle"
      /\ At(P, "dflt") <=> (dflt[P].p0 \/ dflt[P].p1)
      /\ rom.b_err_st \in {"idle", "err1", "err2"}
      /\ rom.b_err_st = "err1" => ~rom.hreadyout["B"] /\ waited["B"] = 0
      /\ rom.b_err_st = "err2" => rom.hreadyout["B"] /\ waited["B"] = 1
      /\ dflt[P].p0 => ~dflt[P].p1 /\ waited[P] = 0
      /\ dflt[P].p1 => waited[P] = 1
  <2>1. P = "A" => ~(At(P, "rom") /\ held[P].op = "write")
    BY <1>1
  <2>2. P = "B" => ((At(P, "rom") /\ held[P].op = "write") <=> rom.b_err_st # "idle")
    BY DEF FabricInv, RomInv
  <2>3. P = "A" \/ P = "B"
    BY DEF Ports
  <2>4. rom.b_err_st \in {"idle", "err1", "err2"}
    BY DEF FabricInv, TypeOK, Rom!Registers
  <2>5. /\ At(P, "dflt") <=> (dflt[P].p0 \/ dflt[P].p1)
        /\ dflt[P].p0 => ~dflt[P].p1 /\ waited[P] = 0
        /\ dflt[P].p1 => waited[P] = 1
    BY DEF FabricInv, DfltInv
  <2>6. /\ rom.b_err_st = "err1" => ~rom.hreadyout["B"] /\ waited["B"] = 0
        /\ rom.b_err_st = "err2" => rom.hreadyout["B"] /\ waited["B"] = 1
    BY DEF FabricInv, RomInv
  <2> QED BY <2>1, <2>2, <2>3, <2>4, <2>5, <2>6
<1>3. hready(P) <=> ~m[P].aph_pending /\ rom.hreadyout[P] /\ ~dflt[P].p0
  BY ReadyFacts
<1>4. /\ m[P].aph_pending => At(P, "sram")
      /\ ~rom.hreadyout[P] => At(P, "rom")
  BY DEF FabricInv, PortInv, RomInv
<1>5. Denied(P) <=> At(P, "dflt") \/ (At(P, "rom") /\ held[P].op = "write")
  <2>1. Denied(P) <=> \/ held[P].addr = Nowhere
                      \/ held[P].op = "write" /\ (P = "A" \/ held[P].addr \in RomAddrs)
    BY DEF Denied
  <2>2. CASE held[P] = Idle
    BY <2>1, <2>2, IdleFacts, FabricAssumption DEF At
  <2>3. CASE held[P] # Idle
    <3>1. At(P, "sram") \/ At(P, "rom") \/ At(P, "dflt")
      BY <1>1, <2>3 DEF At, Subordinates
    <3>2. CASE At(P, "sram")
      BY <1>1, <2>1, <3>2, FabricAssumption DEF At
    <3>3. CASE At(P, "rom")
      <4>1. ~At(P, "dflt")
        BY <3>3 DEF At
      <4> QED BY <1>1, <2>1, <3>3, <4>1, FabricAssumption
    <3>4. CASE At(P, "dflt")
      BY <1>1, <2>1, <3>4
    <3> QED BY <3>1, <3>2, <3>3, <3>4
  <2> QED BY <2>2, <2>3
<1>6. hresp(P) <=> Denied(P)
  <2>1. /\ ~s_hresp("sram", P)
        /\ s_hresp("rom", P) <=> P = "B" /\ rom.b_err_st # "idle"
        /\ s_hresp("dflt", P) <=> dflt[P].p0 \/ dflt[P].p1
    BY DEF s_hresp, Rom!b_hresp, Blocks!dflt_hresp
  <2>2. s_hresp("rom", P) => At(P, "rom")
    BY <1>2, <2>1
  <2>3. s_hresp("dflt", P) => At(P, "dflt")
    BY <1>2, <2>1
  <2>4. CASE held[P] = Idle
    <3>1. \A s \in Subordinates : ~s_hresp(s, P)
      BY <2>1, <2>2, <2>3, <2>4 DEF Subordinates, At
    <3>2. ~hresp(P)
      BY <2>4, <3>1 DEF hresp, hsel_latched
    <3> QED BY <1>5, <2>4, <3>2 DEF At
  <2>5. CASE held[P] # Idle
    <3>1. hresp(P) <=> s_hresp(Target(P, held[P]), P)
      BY <2>5 DEF hresp, hsel_latched
    <3> QED BY <1>1, <1>2, <1>5, <2>1, <2>5, <3>1 DEF At, Subordinates
  <2> QED BY <2>4, <2>5
<1>7. At(P, "dflt") => ~At(P, "sram") /\ ~At(P, "rom")
  BY DEF At
<1>8. At(P, "rom") => ~At(P, "sram") /\ ~At(P, "dflt")
  BY DEF At
<1>9. Denied(P) => (hready(P) <=> waited[P] = 1)
  <2>1. CASE At(P, "dflt")
    BY <1>2, <1>3, <1>4, <1>7, <2>1
  <2>2. CASE At(P, "rom") /\ held[P].op = "write"
    <3>1. P = "B" /\ rom.b_err_st \in {"err1", "err2"}
      BY <1>2, <2>2
    <3>2. ~m[P].aph_pending /\ ~dflt[P].p0
      BY <1>2, <1>4, <1>8, <2>2
    <3> QED BY <1>2, <1>3, <3>1, <3>2
  <2> QED BY <1>5, <2>1, <2>2
<1> QED BY <1>5, <1>6, <1>9

(* ERROR answers stores into the ROM, stores of the fetch manager and       *)
(* addresses of nobody, nothing else, and takes two cycles, whatever goes   *)
(* on meanwhile on the other bus.                                           *)
THEOREM OnlyDenialsEverFail == Spec => []OnlyDenialsFail
<1>1. FabricInv => OnlyDenialsFail
  <2> SUFFICES ASSUME FabricInv, NEW P \in Ports
               PROVE  /\ hresp(P) = Denied(P)
                      /\ Denied(P) => hready(P) = (waited[P] = 1)
    BY DEF OnlyDenialsFail
  <2>1. /\ hresp(P) <=> Denied(P)
        /\ Denied(P) => (hready(P) <=> waited[P] = 1)
    BY DenialFacts
  <2>2. hresp(P) \in BOOLEAN /\ Denied(P) \in BOOLEAN /\ hready(P) \in BOOLEAN
    BY DEF hresp, Denied, hready
  <2> QED BY <2>1, <2>2
<1> QED BY <1>1, FabricInvariant, PTL

-----------------------------------------------------------------------------
(* The data bus carries a memory. *)
DataBeat == IF Denied("B") THEN Idle ELSE held["B"]

(* What the data bus shows is typed, and a load whose data phase ends finds *)
(* the word of the memory there.                                            *)
DataAnswers ==
  /\ hready("B") \in BOOLEAN /\ bus_hrdata("B") \in Words
  /\ DataBeat \in DataPort!Beats
  /\ Contents \in [Addrs \cup RomAddrs -> Words]
  /\ hready("B") /\ DataBeat.op = "read" => bus_hrdata("B") = Contents[DataBeat.addr]
  /\ DataBeat.op = "write" => DataBeat = held["B"] /\ At("B", "sram")
  /\ c.state = "WRITE" => DataBeat = held["B"] /\ held["B"].op = "write" /\ hready("B")

LEMMA DataAnswered == FabricInv => DataAnswers
<1> SUFFICES ASSUME FabricInv PROVE DataAnswers
  OBVIOUS
<1>1. /\ Denied("B") <=> At("B", "dflt") \/ (At("B", "rom") /\ held["B"].op = "write")
  BY DenialFacts DEF Ports
<1>2. /\ held["B"] \in BusBeats("B")
      /\ c \in Controller /\ sram_dout \in Words /\ rom_dout \in Words
      /\ sram \in [Addrs -> Words]
  BY DEF FabricInv, TypeOK, SramTypeOK, Ports
<1>3. hready("B") \in BOOLEAN
  BY DEF hready
<1>4. bus_hrdata("B") \in Words
  BY <1>2, HrdataType, ZeroWord DEF bus_hrdata, b_hrdata
<1>5. Contents \in [Addrs \cup RomAddrs -> Words]
  <2>1. Visible(sram, c) \in [Addrs -> Words]
    BY <1>2, MacroType, IdleFacts, ZeroWord
  <2> QED BY <2>1, FabricAssumption DEF Contents
<1>6. /\ Idle \in DataPort!Beats /\ Idle.op = "idle"
  BY IdleFacts DEF Idle, DataPort!Beats
<1>7. ~Denied("B") /\ held["B"] # Idle =>
        /\ At("B", "sram") \/ (At("B", "rom") /\ held["B"].op = "read")
        /\ held["B"] \in DataPort!Beats
  <2> SUFFICES ASSUME ~Denied("B"), held["B"] # Idle
               PROVE  /\ At("B", "sram") \/ (At("B", "rom") /\ held["B"].op = "read")
                      /\ held["B"] \in DataPort!Beats
    OBVIOUS
  <2>1. /\ held["B"].op \in {"read", "write"} /\ held["B"].lanes \in SUBSET Lanes
        /\ Target("B", held["B"]) \in Subordinates
        /\ Target("B", held["B"]) = "sram" => held["B"].addr \in Addrs
        /\ Target("B", held["B"]) = "rom" => held["B"].addr \in RomAddrs
    BY <1>2, BeatFacts DEF Ports
  <2>2. At("B", "sram") \/ (At("B", "rom") /\ held["B"].op = "read")
    BY <1>1, <2>1 DEF At, Subordinates
  <2>3. held["B"].addr \in Addrs \cup RomAddrs
    BY <2>1, <2>2 DEF At
  <2>4. held["B"] = [op |-> held["B"].op, addr |-> held["B"].addr, lanes |-> held["B"].lanes]
    BY <1>2 DEF BusBeats, Idle, SysReads, Writes, Refused
  <2> QED BY <2>1, <2>2, <2>3, <2>4 DEF DataPort!Beats
<1>8. DataBeat \in DataPort!Beats
  BY <1>6, <1>7 DEF DataBeat
<1>9. hready("B") /\ DataBeat.op = "read" => bus_hrdata("B") = Contents[DataBeat.addr]
  <2> SUFFICES ASSUME hready("B"), DataBeat.op = "read"
               PROVE  bus_hrdata("B") = Contents[DataBeat.addr]
    OBVIOUS
  <2>1. DataBeat = held["B"] /\ ~Denied("B") /\ held["B"] # Idle
    BY <1>6 DEF DataBeat
  <2>2. held["B"].op = "read"
    BY <2>1
  <2>3. CASE At("B", "sram")
    <3>1. ~m["B"].aph_pending /\ m["B"].dph_ongoing
      BY <2>3, WaitingFacts DEF FabricInv, PortInv, Ports
    <3>2. bus_hrdata("B") = hrdata(c, sram_dout)
      BY <2>3, <3>1 DEF At, bus_hrdata, b_hrdata
    <3>3. hrdata(c, sram_dout) = Visible(sram, c)[held["B"].addr]
      BY <2>2, <3>1 DEF FabricInv, LoadInv
    <3>4. held["B"].addr \in Addrs
      BY <1>2, <2>1, <2>3, BeatFacts DEF At, Ports
    <3> QED BY <2>1, <3>2, <3>3, <3>4 DEF Contents
  <2>4. CASE At("B", "rom")
    <3>1. rom.hreadyout["B"]
      BY ReadyFacts DEF Ports
    <3>2. rom_dout = RomContent[held["B"].addr]
      BY <2>2, <2>4, <3>1 DEF FabricInv, RomInv, Ports
    <3>3. held["B"].addr \in RomAddrs
      BY <2>4, RomHeld DEF Ports
    <3> QED BY <2>1, <2>4, <3>2, <3>3, FabricAssumption DEF Contents, At, bus_hrdata
  <2> QED BY <1>7, <2>1, <2>3, <2>4
<1>10. DataBeat.op = "write" => DataBeat = held["B"] /\ At("B", "sram")
  BY <1>6, <1>7 DEF DataBeat
<1>11. c.state = "WRITE" => DataBeat = held["B"] /\ held["B"].op = "write" /\ hready("B")
  <2> SUFFICES ASSUME c.state = "WRITE"
               PROVE  DataBeat = held["B"] /\ held["B"].op = "write" /\ hready("B")
    OBVIOUS
  <2>1. m["B"].dph_ongoing /\ held["B"].op = "write"
    BY DEF FabricInv, StateInv
  <2>2. At("B", "sram") /\ ~m["B"].aph_pending
    BY <2>1 DEF FabricInv, PortInv, Ports
  <2>3. ~Denied("B") /\ hready("B")
    BY <1>1, <2>2, WaitingFacts DEF At, Ports
  <2> QED BY <2>1, <2>3 DEF DataBeat
<1> QED BY <1>3, <1>4, <1>5, <1>8, <1>9, <1>10, <1>11 DEF DataAnswers

LEMMA InitRefines == Init => DataPort!Init
<1> SUFFICES ASSUME Init PROVE DataPort!Init
  OBVIOUS
<1>1. FabricInv
  BY InitInvariant
<1>2. DataAnswers
  BY <1>1, DataAnswered
<1>3. held["B"] = Idle
  BY DEF Init, Ports
<1>4. DataBeat = Idle /\ Idle.op = "idle"
  BY <1>3, IdleFacts DEF DataBeat
<1>5. hready("B")
  <2>1. /\ ~m["B"].aph_pending /\ ~dflt["B"].p0
    BY DEF Init, SramInit, Blocks!DfltReset, Ports
  <2>2. rom.hreadyout["B"]
    BY DEF Init, Rom!Reset, Rom!Ports
  <2> QED BY <1>1, <2>1, <2>2, ReadyFacts DEF Ports
<1>6. /\ Contents \in [Addrs \cup RomAddrs -> DataPort!Words]
      /\ DataBeat \in DataPort!Beats /\ DataBeat.op = "idle"
      /\ hready("B") = TRUE
      /\ bus_hrdata("B") \in DataPort!Words
  BY <1>2, <1>4, <1>5 DEF DataAnswers, DataPort!Words, Words
<1> QED BY <1>6 DEF DataPort!Init, DataBeat

(* The memory changes exactly by the store, if any, whose data phase ends.  *)
LEMMA ContentsStep ==
  ASSUME FabricInv, NEW aph \in Offers, NEW hwdata \in Words, HclkEdge(aph, hwdata)
  PROVE  /\ hready("B") => Contents' = DataPort!Written(hwdata)
         /\ ~hready("B") => Contents' = Contents
<1> DEFINE b == bus(To("sram", aph))
           g == arb_grant(To("sram", aph), "B")
<1>1. /\ g \in BOOLEAN /\ b \in Beats /\ c \in Controller /\ sram \in [Addrs -> Words]
      /\ c' = ControllerNext(c, b, hwdata, g)
      /\ sram' = MacroNext(sram, c, b, hwdata)
  BY ControllerStep
<1> HIDE DEF b, g
<1>2. Visible(sram', c') = IF c.state = "WRITE"
                           THEN [sram EXCEPT ![c.wr_addr] = Overlay(@, c.wr_en, hwdata)]
                           ELSE Visible(sram, c)
  BY <1>1, VisibleStep
<1>3. DataAnswers
  BY DataAnswered
<1>4. /\ Contents' = [a \in Addrs \cup RomAddrs |->
                        IF a \in Addrs THEN Visible(sram', c')[a] ELSE RomContent[a]]
      /\ Contents = [a \in Addrs \cup RomAddrs |->
                       IF a \in Addrs THEN Visible(sram, c)[a] ELSE RomContent[a]]
  BY DEF Contents
<1>5. DataPort!Written(hwdata) =
        IF DataBeat.op = "write"
        THEN [Contents EXCEPT ![DataBeat.addr] = DataPort!Overlay(@, DataBeat.lanes, hwdata)]
        ELSE Contents
  BY DEF DataPort!Written, DataBeat
<1>6. CASE c.state = "WRITE"
  <2>1. /\ DataBeat = held["B"] /\ held["B"].op = "write" /\ hready("B")
        /\ c.wr_addr = held["B"].addr /\ c.wr_en = held["B"].lanes
        /\ c.wr_addr \in Addrs
    BY <1>1, <1>3, <1>6 DEF DataAnswers, FabricInv, StateInv, Controller
  <2>2. Visible(sram, c) = sram
    BY <1>6 DEF Visible
  <2>3. DataPort!Written(hwdata)
          = [Contents EXCEPT ![c.wr_addr] = Overlay(@, c.wr_en, hwdata)]
    BY <1>5, <2>1 DEF Overlay, DataPort!Overlay
  <2>4. Visible(sram', c') = [sram EXCEPT ![c.wr_addr] = Overlay(@, c.wr_en, hwdata)]
    BY <1>2, <1>6
  <2>5. Contents' = [Contents EXCEPT ![c.wr_addr] = Overlay(@, c.wr_en, hwdata)]
    <3>1. Contents[c.wr_addr] = sram[c.wr_addr]
      BY <1>4, <2>1, <2>2
    <3>2. ASSUME NEW a \in Addrs \cup RomAddrs
          PROVE  Contents'[a] = [Contents EXCEPT ![c.wr_addr] =
                                                 Overlay(@, c.wr_en, hwdata)][a]
      BY <1>1, <1>4, <2>1, <2>2, <2>4, <3>1
    <3> QED BY <1>4, <3>2
  <2> QED BY <2>1, <2>3, <2>5
<1>7. CASE c.state # "WRITE"
  <2>1. Contents' = Contents
    BY <1>2, <1>4, <1>7
  <2>2. ~(hready("B") /\ DataBeat.op = "write")
    <3> SUFFICES ASSUME hready("B"), DataBeat.op = "write" PROVE FALSE
      OBVIOUS
    <3>1. held["B"].op = "write" /\ At("B", "sram")
      BY <1>3 DEF DataAnswers
    <3>2. m["B"].dph_ongoing
      BY <3>1, WaitingFacts DEF FabricInv, PortInv, Ports
    <3> QED BY <1>7, <3>1, <3>2 DEF FabricInv, StateInv
  <2> QED BY <1>5, <2>1, <2>2
<1> QED BY <1>6, <1>7

LEMMA NextRefines ==
  FabricInv /\ FabricInv' /\ DataAnswers' /\ [Next]_vars =>
    [DataPort!Next]_<<Contents, IF Denied("B") THEN Idle ELSE held["B"],
                      hready("B"), bus_hrdata("B")>>
<1> SUFFICES ASSUME FabricInv, DataAnswers', [Next]_vars
             PROVE  [DataPort!Next]_<<Contents, IF Denied("B") THEN Idle ELSE held["B"],
                                      hready("B"), bus_hrdata("B")>>
  OBVIOUS
<1>1. DataPort!Answer
  <2>1. /\ hready("B")' \in BOOLEAN /\ bus_hrdata("B")' \in Words
        /\ hready("B")' /\ DataBeat'.op = "read"
             => bus_hrdata("B")' = Contents'[DataBeat'.addr]
    BY DEF DataAnswers
  <2> QED BY <2>1 DEF DataPort!Answer, DataPort!Words, Words, DataBeat
<1>2. DataBeat' \in DataPort!Beats
  BY DEF DataAnswers
<1>3. held'["B"] = held["B"] => DataBeat' = DataBeat
  BY DEF DataBeat, Denied
<1>4. ASSUME NEW aph \in Offers, NEW hwdata \in WriteData, HclkEdge(aph, hwdata)
      PROVE  DataPort!Next
  <2>1. hwdata \in Words
    BY ZeroData
  <2>2. /\ hready("B") => Contents' = DataPort!Written(hwdata)
        /\ ~hready("B") => Contents' = Contents
    BY <1>4, <2>1, ContentsStep
  <2>3. CASE hready("B")
    <3>1. DataPort!Complete(hwdata)
      BY <1>2, <2>2, <2>3 DEF DataPort!Complete, DataBeat
    <3>2. hwdata \in DataPort!Words
      BY <2>1 DEF Words, DataPort!Words
    <3> QED BY <1>1, <3>1, <3>2 DEF DataPort!Next
  <2>4. CASE ~hready("B")
    <3>1. held'["B"] = held["B"]
      BY <1>4, <2>4, HeldStep DEF HclkEdge, Ports
    <3>2. DataPort!Wait
      BY <1>3, <2>2, <2>4, <3>1 DEF DataPort!Wait, DataBeat
    <3> QED BY <1>1, <3>2 DEF DataPort!Next
  <2> QED BY <2>3, <2>4
<1>5. ASSUME NEW aph \in Offers, Gated(aph) PROVE DataPort!Next
  <2>1. /\ held["B"] = Idle /\ hready("B")
        /\ UNCHANGED <<c, sram>>
    BY <1>5, GatedStep DEF Ports
  <2>2. Contents' = Contents
    BY <2>1 DEF Contents, Visible
  <2>3. DataBeat.op = "idle"
    BY <2>1, IdleFacts DEF DataBeat
  <2>4. PICK w \in Words : TRUE
    BY ZeroWord
  <2>5. DataPort!Written(w) = Contents
    BY <2>3 DEF DataPort!Written, DataBeat
  <2>6. DataPort!Complete(w) /\ w \in DataPort!Words
    BY <1>2, <2>1, <2>2, <2>4, <2>5 DEF DataPort!Complete, DataBeat, DataPort!Words, Words
  <2> QED BY <1>1, <2>6 DEF DataPort!Next
<1>6. CASE UNCHANGED vars
  <2>1. UNCHANGED <<m, c, sram, sram_dout, rom, rom_dout, dflt, held>>
    BY <1>6 DEF vars, rtl, sram_rtl
  <2>2. Contents' = Contents
    BY <2>1 DEF Contents, Visible
  <2>3. (IF Denied("B") THEN Idle ELSE held["B"])' = IF Denied("B") THEN Idle ELSE held["B"]
    BY <2>1 DEF Denied
  <2>4. hready("B")' = hready("B")
    BY <2>1 DEF hready, hsel_latched, s_hreadyout, hreadyout, Target, Blocks!dflt_hreadyout
  <2>5. bus_hrdata("B")' = bus_hrdata("B")
    BY <2>1 DEF bus_hrdata, Target, b_hrdata, hrdata
  <2> QED BY <2>2, <2>3, <2>4, <2>5
<1> QED BY <1>4, <1>5, <1>6 DEF Next

(* The data bus carries one memory, the SRAM's words and the ROM's          *)
(* together: loads return what every earlier store left, whatever fetches   *)
(* do with the macros and wherever a store is parked meanwhile, and a store *)
(* that is denied has no effect.                                            *)
THEOREM DataBusImplementsMemory == Spec => ImplementsMemory
<1>1. Spec => DataPort!Spec
  BY FabricInvariant, DataAnswered, InitRefines, NextRefines, PTL DEF Spec, DataPort!Spec
<1> QED BY <1>1 DEF ImplementsMemory
=============================================================================
