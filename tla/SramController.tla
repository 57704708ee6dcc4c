--------------------------- MODULE SramController ---------------------------
(* ahb_sram_controller: an AHB subordinate without wait states in front of  *)
(* an SRAM macro with one port.  When the address phase of a read meets the *)
(* data phase of a write, the read takes the port: the write is parked and  *)
(* restored in the first cycle without a read, and reads of the parked word *)
(* are answered from the buffer, lane by lane.                              *)
(* One step is one edge of hclk.  `aph' is the beat sampled at that edge:   *)
(* op "idle" when hsel, hready or htrans[1] is low.                         *)
EXTENDS SramState

VARIABLE dph  \* the manager's beat in its data phase
svars == <<c, sram, sram_dout, dph>>

SingleTypeOK ==
  /\ c \in Controller
  /\ sram \in [Addrs -> Words] /\ sram_dout \in Words
  /\ dph \in Beats

SingleInit ==
  /\ c = ControllerReset({})
  /\ sram \in [Addrs -> Words] /\ sram_dout \in Words
  /\ dph = Idle

(* The clock gate outside may withhold the edge when this is low. *)
single_hclk_en(aph) == aph # Idle \/ c.state # "IDLE"

SingleEdge(aph, hwdata) ==
  /\ c' = ControllerNext(c, aph, hwdata, TRUE)
  /\ sram' = MacroNext(sram, c, aph, hwdata)
  /\ sram_dout' \in DoutNext(sram, c, aph)
  /\ dph' = aph

SingleGated(aph) ==
  /\ ~single_hclk_en(aph)
  /\ dph' = aph
  /\ UNCHANGED <<c, sram, sram_dout>>

SingleNext ==
  \E aph \in Beats :
    \/ \E hwdata \in Words : SingleEdge(aph, hwdata)
    \/ SingleGated(aph)

SingleSpec == SingleInit /\ [][SingleNext]_svars
-----------------------------------------------------------------------------
Memory == INSTANCE AhbMemory
            WITH mem <- Visible(sram, c), ready <- TRUE,
                 rdata <- hrdata(c, sram_dout)

(* A load returns what every earlier store left, byte by byte, though the   *)
(* store may not have reached the macro and may be held off by any number   *)
(* of reads (ahb_sram_controller.md:62, "a read of the pending word is      *)
(* served from the buffer, byte lane by byte lane"), and though the clock   *)
(* may stop whenever the enable is low.                                     *)
SingleImplementsMemory == Memory!Spec
=============================================================================
