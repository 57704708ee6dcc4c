--------------------------------- MODULE Tap ---------------------------------
(***************************************************************************)
(* The JTAG TAP of the debug transport (arv_dtm_tap) in front of DmiMaster:*)
(* the 16-state controller, the dtmcs and dmi registers, the sticky error  *)
(* with its pending failure, and the launch and hardreset pulses.  The     *)
(* debugger drives tms and the shifted data as it likes; on cJTAG only one *)
(* tck edge in three is a TAP clock: a packet broken off by an escape      *)
(* resets the TAP.                                                         *)
(*                                                                         *)
(* Shifting is abstracted: a scan with at least one shift edge ends with   *)
(* any content, one without keeps what it captured.                        *)
(***************************************************************************)
EXTENDS DmiMaster

CONSTANT Skips  \* tck edges between two TAP clocks: {0} on JTAG, {2} in OScan1
ASSUME SkipAssumption == Skips \subseteq 0 .. 2 /\ Skips # {}

VARIABLES
  tap,    \* controller state, instruction, and the scan in progress: has it
          \* shifted, and the status its capture showed to the debugger
  err,    \* sticky_err, errinfo, fail_pend, abort_pending, dm_inflight_d
  phase   \* tck edges until the next TAP clock

vars == <<dmivars, tap, err, phase>>

(* Next controller state for tms low and tms high. *)
NextStates ==
  [TLR    |-> <<"RTI", "TLR">>,       RTI    |-> <<"RTI", "SEL_DR">>,
   SEL_DR |-> <<"CAP_DR", "SEL_IR">>, CAP_DR |-> <<"SHF_DR", "EX1_DR">>,
   SHF_DR |-> <<"SHF_DR", "EX1_DR">>, EX1_DR |-> <<"PAU_DR", "UPD_DR">>,
   PAU_DR |-> <<"PAU_DR", "EX2_DR">>, EX2_DR |-> <<"SHF_DR", "UPD_DR">>,
   UPD_DR |-> <<"RTI", "SEL_DR">>,    SEL_IR |-> <<"CAP_IR", "TLR">>,
   CAP_IR |-> <<"SHF_IR", "EX1_IR">>, SHF_IR |-> <<"SHF_IR", "EX1_IR">>,
   EX1_IR |-> <<"PAU_IR", "UPD_IR">>, PAU_IR |-> <<"PAU_IR", "EX2_IR">>,
   EX2_IR |-> <<"SHF_IR", "UPD_IR">>, UPD_IR |-> <<"RTI", "SEL_DR">>]
TapStates    == DOMAIN NextStates
Instructions == {"IDCODE", "DTMCS", "DMI"}
Ops          == {"nop", "read", "write", "reserved"}

(* Update-DR data: the op of a dmi scan, the reset bits of a dtmcs scan. *)
Content == [op: Ops, hardreset: BOOLEAN, reset: BOOLEAN]
Nothing == [op |-> "nop", hardreset |-> FALSE, reset |-> FALSE]

complete_edge   == err.inflight_d /\ ~t.inflight
Bug_abort_not_masked == complete_edge /\ t.cstatus = "failed"
complete_failed == complete_edge /\ t.cstatus = "failed" /\ ~err.abort_pending

combined_status ==
  IF t.inflight THEN 3
  ELSE IF err.sticky # 0 THEN err.sticky
  ELSE IF complete_failed THEN 2 ELSE 0

(* A scan without shifting requests what its own capture loaded. *)
OpOfStatus(s) == CASE s = 0 -> "nop" [] s = 2 -> "write" [] s = 3 -> "reserved"

dmi_op_active(d) == d.op \in {"read", "write"}
dmi_launch(d) ==
  /\ tap.state = "UPD_DR" /\ tap.ir = "DMI"
  /\ dmi_op_active(d)
  /\ ~t.inflight /\ err.sticky = 0 /\ ~complete_failed
dmi_hardreset(d) == tap.state = "UPD_DR" /\ tap.ir = "DTMCS" /\ d.hardreset
dmireset(d)      == tap.state = "UPD_DR" /\ tap.ir = "DTMCS" /\ d.reset /\ ~d.hardreset

TapRegReset == [state |-> "TLR", ir |-> "IDCODE", shifted |-> FALSE, status |-> 0]
ErrReset == [sticky |-> 0, errinfo |-> "unknown", fail_pend |-> FALSE,
             abort_pending |-> FALSE, inflight_d |-> FALSE]

Init ==
  /\ DmiInit
  /\ tap = TapRegReset
  /\ err = ErrReset
  /\ phase = 0

----------------------------------------------------------------------------
IrNext ==
  CASE tap.state = "TLR"    -> {"IDCODE"}
    [] tap.state = "UPD_IR" -> IF tap.shifted THEN Instructions ELSE {"IDCODE"}
    [] OTHER -> {tap.ir}

TapRegs(tms) ==
  \E ir \in IrNext :
    tap' = [state   |-> NextStates[tap.state][IF tms THEN 2 ELSE 1],
            ir      |-> ir,
            shifted |-> tap.state \in {"SHF_DR", "SHF_IR"}
                        \/ (tap.shifted /\ tap.state \notin {"CAP_DR", "CAP_IR", "UPD_DR", "UPD_IR"}),
            status  |-> CASE tap.state = "CAP_DR" -> combined_status
                          [] tap.state = "UPD_DR" -> 0
                          [] OTHER -> tap.status]

(* What the dr registers hold at Update-DR, as far as it has an effect. *)
Contents ==
  IF tap.state # "UPD_DR" THEN {Nothing}
  ELSE IF tap.ir = "DMI"
  THEN {[Nothing EXCEPT !.op = o] : o \in IF tap.shifted THEN Ops ELSE {OpOfStatus(tap.status)}}
  ELSE IF tap.ir = "DTMCS" /\ tap.shifted
  THEN {d \in Content : d.op = "nop"}
  ELSE {Nothing}

(* A later row of the code overrides an earlier one. *)
Bug_busy_ends_with_request(d) ==
  IF dmi_hardreset(d) THEN 0
  ELSE IF dmireset(d) THEN IF err.fail_pend \/ complete_failed THEN 2 ELSE 0
  ELSE IF complete_failed THEN 2
  ELSE IF tap.state = "CAP_DR" /\ tap.ir = "DMI" /\ t.inflight THEN 3
  ELSE IF complete_edge THEN 0 ELSE err.sticky
StickyNext(d) ==
  IF dmi_hardreset(d) THEN 0
  ELSE IF dmireset(d) THEN IF err.fail_pend \/ complete_failed THEN 2 ELSE 0
  ELSE IF tap.state = "UPD_DR" /\ tap.ir = "DMI" /\ dmi_op_active(d) /\ t.inflight /\ err.sticky = 0 THEN 3
  ELSE IF complete_failed /\ err.sticky = 0 THEN 2
  ELSE IF tap.state = "CAP_DR" /\ tap.ir = "DMI" /\ t.inflight THEN 3
  ELSE err.sticky

ErrInfoNext(d) ==
  IF dmi_hardreset(d) THEN "unknown"
  ELSE IF dmireset(d) THEN IF err.fail_pend \/ complete_failed THEN "device" ELSE "unknown"
  ELSE IF complete_failed /\ err.sticky = 0 THEN "device"
  ELSE err.errinfo

FailPendNext(d) ==
  ~dmi_hardreset(d) /\ ~dmireset(d) /\ (err.fail_pend \/ (complete_failed /\ err.sticky # 0))

ErrRegs(d) ==
  err' = [sticky        |-> StickyNext(d),
          errinfo       |-> ErrInfoNext(d),
          fail_pend     |-> FailPendNext(d),
          abort_pending |-> (dmi_hardreset(d) /\ t.inflight) \/ (err.abort_pending /\ ~complete_edge),
          inflight_d    |-> t.inflight]

(* The debugger abandons a request with dmihardreset, and clears a failure *)
(* with dmireset while the status it can read shows that failure.          *)
History(d) ==
  ghost' = [wanted  |-> dmi_launch(d) \/ (ghost.wanted /\ ~(dmi_hardreset(d) /\ t.inflight)),
            unbegun |-> dmi_launch(d) \/ ghost.unbegun,
            owed    |-> ghost.owed /\ ~dmi_hardreset(d) /\ ~dmi_launch(d)
                        /\ ~(dmireset(d) /\ err.sticky = 2)]

(* One enabled tck edge. *)
TapClock(tms, d) ==
  /\ since = RATIO /\ rst.tck = 2 /\ phase = 0
  /\ phase' \in Skips
  /\ TckSide(dmi_launch(d), dmi_hardreset(d))
  /\ TapRegs(tms)
  /\ ErrRegs(d)
  /\ History(d)

(* A tck edge that is no TAP clock: only the DMI master sees it. *)
TckOnly ==
  /\ since = RATIO /\ rst.tck = 2 /\ phase > 0
  /\ phase' = phase - 1
  /\ TckSide(FALSE, FALSE)
  /\ UNCHANGED <<tap, err, ghost>>

Reset ==
  /\ TapReset
  /\ tap' = TapRegReset
  /\ err' = ErrReset
  /\ phase' = 0

TckEdge ==
  \/ TckInReset /\ UNCHANGED <<tap, err, phase>>
  \/ TckOnly
  \/ \E tms \in BOOLEAN, d \in Contents : TapClock(tms, d)

Hclk == HclkEdge /\ UNCHANGED <<tap, err, phase>>

Next == TckEdge \/ Hclk \/ Reset
Spec == Init /\ [][Next]_vars

----------------------------------------------------------------------------
(* Properties. *)

TypeOK ==
  /\ DmiTypeOK
  /\ tap \in [state: TapStates, ir: Instructions, shifted: BOOLEAN, status: {0, 2, 3}]
  /\ err \in [sticky: {0, 2, 3}, errinfo: {"unknown", "device"}, fail_pend: BOOLEAN,
              abort_pending: BOOLEAN, inflight_d: BOOLEAN]
  /\ phase \in 0 .. 2

(* The link shows or holds a failure exactly when the last request really  *)
(* failed and the debugger has not cleared it: no failure is lost behind a *)
(* busy status or a reset of it, and an abandoned request or the status    *)
(* left over from an older one never reads as a failure.                   *)
FailureHeld == complete_failed \/ err.sticky = 2 \/ err.fail_pend
FailureIffReal == ~t.inflight => (FailureHeld <=> ghost.owed)

(* The status a dmi scan reads out tells the debugger whether the request  *)
(* it shifts in is taken: 0 means launched, busy or failed means dropped.  *)
ScanTellsLaunch ==
  \A d \in Contents : dmi_op_active(d) => (dmi_launch(d) <=> tap.status = 0)

(* errinfo names the device as the cause exactly while status is failed.   *)
ErrinfoAgrees == err.errinfo = "device" <=> err.sticky = 2

(* The link does not stay busy: every request is answered or abandoned.    *)
Fairness ==
  /\ WF_vars(TckEdge)
  /\ WF_vars(Hclk)
  /\ WF_vars(Hclk /\ (h.state = "ACCESS" => h'.state # "ACCESS"))
FairSpec == Spec /\ Fairness
BusyEnds == t.inflight ~> ~t.inflight

============================================================================
