------------------------------ MODULE TapProofs ------------------------------
(* Proofs about the TAP and the DMI master behind it, for every clock      *)
(* ratio, TAP clock period, reset style and choice of slaves.              *)
EXTENDS Tap, Integers, TLAPS

LEMMA SampledType ==
  ASSUME DmiTypeOK, NEW l \in Levels
  PROVE  Sampled(l) \subseteq BOOLEAN
BY DEF DmiTypeOK, Sampled

LEMMA AgedType ==
  ASSUME NEW o \in Owners
  PROVE  Aged(o) \in Owners
BY DEF Owners, Aged

LEMMA AgeAllType ==
  ASSUME DmiTypeOK, AgeAll
  PROVE  /\ h' \in [req: Chain, hardreset: Chain, state: {"IDLE", "SETUP", "ACCESS"},
                    hreq: Owners, rsp: Owners, rsp_stat: Statuses]
         /\ slave' \in [kind: Slaves, owes: Owners, err: BOOLEAN]
BY AgedType DEF DmiTypeOK, AgeAll

LEMMA ThroughType ==
  ASSUME NEW s \in Chain, NEW b \in BOOLEAN
  PROVE  Through(s, b) \in Chain
BY DEF Chain, Through

LEMMA TckSideType ==
  ASSUME DmiTypeOK, NEW launch \in BOOLEAN, NEW hardreset \in BOOLEAN,
         TckSide(launch, hardreset), ghost' \in [wanted: BOOLEAN, unbegun: BOOLEAN, owed: BOOLEAN]
  PROVE  DmiTypeOK'
<1>1. t' \in [ack: Chain, inflight: BOOLEAN, cstatus: Statuses, rdata: Owners]
  <2>1. PICK meta \in Sampled("ack") :
          t' = [ack      |-> Through(t.ack, meta),
                inflight |-> InflightNext(launch, hardreset),
                cstatus  |-> IF ack_tck_edge THEN h.rsp_stat ELSE t.cstatus,
                rdata    |-> LET r == IF ack_tck_edge THEN h.rsp ELSE t.rdata
                             IN  IF launch THEN Aged(r) ELSE r]
    BY DEF TckSide
  <2>2. meta \in BOOLEAN
    BY SampledType DEF Levels
  <2>3. Through(t.ack, meta) \in Chain
    BY <2>2, ThroughType DEF DmiTypeOK
  <2>4. InflightNext(launch, hardreset) \in BOOLEAN
    BY DEF InflightNext, DmiTypeOK
  <2>5. (LET r == IF ack_tck_edge THEN h.rsp ELSE t.rdata
         IN  IF launch THEN Aged(r) ELSE r) \in Owners
    BY AgedType DEF DmiTypeOK
  <2> QED
    BY <2>1, <2>3, <2>4, <2>5 DEF DmiTypeOK
<1>2. /\ h' \in [req: Chain, hardreset: Chain, state: {"IDLE", "SETUP", "ACCESS"},
                 hreq: Owners, rsp: Owners, rsp_stat: Statuses]
      /\ slave' \in [kind: Slaves, owes: Owners, err: BOOLEAN]
  BY AgeAllType DEF TckSide, DmiTypeOK
<1>3. level' \in [Levels -> BOOLEAN]
  BY DEF TckSide, DmiTypeOK, Levels
<1>4. unsettled' \subseteq Levels
  BY DEF TckSide, DmiTypeOK, Levels
<1>5. since' \in 0 .. RATIO
  BY RatioAssumption DEF TckSide
<1> QED
  BY <1>1, <1>2, <1>3, <1>4, <1>5 DEF TckSide, DmiTypeOK

LEMMA AnswersType ==
  ASSUME DmiTypeOK, NEW a \in Answers
  PROVE  a.ready \in BOOLEAN /\ a.err \in BOOLEAN /\ a.owner \in Owners
<1>1. CASE slave.kind = "dm"
  <2>1. a = [ready |-> slave.owes # "none", err |-> slave.err, owner |-> slave.owes]
    BY <1>1 DEF Answers
  <2> QED
    BY <2>1 DEF DmiTypeOK
<1>2. CASE slave.kind # "dm"
  <2>1. PICK r \in {dmi_penable} \cup {FALSE}, e \in BOOLEAN :
          a = [ready |-> r, err |-> e, owner |-> h.hreq]
    BY <1>2 DEF Answers
  <2>2. r \in BOOLEAN
    BY <2>1 DEF dmi_penable
  <2> QED
    BY <2>1, <2>2 DEF DmiTypeOK
<1> QED
  BY <1>1, <1>2

LEMMA HclkType ==
  ASSUME DmiTypeOK, HclkEdge
  PROVE  DmiTypeOK'
<1>1. PICK a \in Answers :
        IF hclk_in_reset
        THEN /\ HclkRegsInReset
             /\ level' = [level EXCEPT !["ack"] = FALSE]
             /\ ghost' = [ghost EXCEPT !.unbegun = FALSE]
        ELSE /\ HclkRegs(a)
             /\ level' = [level EXCEPT !["ack"] = (Retires(a) # @)]
             /\ ghost' = [ghost EXCEPT
                  !.unbegun = @ /\ ~hreq_cap_en,
                  !.owed = @ \/ (Retires(a) /\ a.err /\ h.hreq = "last" /\ ghost.wanted)]
  BY DEF HclkEdge
<1>2. a.ready \in BOOLEAN /\ a.err \in BOOLEAN /\ a.owner \in Owners
  BY AnswersType
<1>3. h' \in [req: Chain, hardreset: Chain, state: {"IDLE", "SETUP", "ACCESS"},
              hreq: Owners, rsp: Owners, rsp_stat: Statuses]
  <2>1. CASE hclk_in_reset
    <3>1. HclkReset \in [req: Chain, hardreset: Chain, state: {"IDLE", "SETUP", "ACCESS"},
                         hreq: Owners, rsp: Owners, rsp_stat: Statuses]
      BY DEF HclkReset, Cleared, Chain, Owners, Statuses
    <3>2. h.req.meta \in BOOLEAN /\ h.hardreset.meta \in BOOLEAN
      BY DEF DmiTypeOK, Chain
    <3>3. \/ h' = HclkReset
          \/ h' = [HclkReset EXCEPT !.req.sync = h.req.meta, !.hardreset.sync = h.hardreset.meta]
      BY <1>1, <2>1 DEF HclkRegsInReset
    <3>4. \A x, y \in BOOLEAN :
            [HclkReset EXCEPT !.req.sync = x, !.hardreset.sync = y]
              \in [req: Chain, hardreset: Chain, state: {"IDLE", "SETUP", "ACCESS"},
                   hreq: Owners, rsp: Owners, rsp_stat: Statuses]
      BY <3>1 DEF Chain
    <3> QED
      BY <3>1, <3>2, <3>3, <3>4
  <2>2. CASE ~hclk_in_reset
    <3>1. PICK req \in Sampled("req"), hr \in Sampled("hardreset") :
            h' = [req       |-> Through(h.req, req),
                  hardreset |-> Through(h.hardreset, hr),
                  state     |-> state_nxt(a),
                  hreq      |-> IF hreq_cap_en THEN "last" ELSE h.hreq,
                  rsp       |-> IF Retires(a) THEN a.owner ELSE h.rsp,
                  rsp_stat  |-> IF Retires(a) THEN IF a.err THEN "failed" ELSE "ok"
                                              ELSE h.rsp_stat]
      BY <1>1, <2>2 DEF HclkRegs
    <3>2. req \in BOOLEAN /\ hr \in BOOLEAN
      BY SampledType DEF Levels
    <3>3. Through(h.req, req) \in Chain /\ Through(h.hardreset, hr) \in Chain
      BY <3>2, ThroughType DEF DmiTypeOK
    <3>4. state_nxt(a) \in {"IDLE", "SETUP", "ACCESS"}
      BY DEF state_nxt, DmiTypeOK
    <3> QED
      BY <3>1, <3>3, <3>4, <1>2 DEF DmiTypeOK, Owners, Statuses
  <2> QED
    BY <2>1, <2>2
<1>4. level' \in [Levels -> BOOLEAN]
  <2>1. level \in [Levels -> BOOLEAN] /\ "ack" \in Levels
    BY DEF DmiTypeOK, Levels
  <2>2. \A b \in BOOLEAN : [level EXCEPT !["ack"] = b] \in [Levels -> BOOLEAN]
    BY <2>1
  <2>3. FALSE \in BOOLEAN /\ (Retires(a) # level["ack"]) \in BOOLEAN
    OBVIOUS
  <2> QED
    BY <1>1, <2>2, <2>3
<1>5. ghost' \in [wanted: BOOLEAN, unbegun: BOOLEAN, owed: BOOLEAN]
  BY <1>1 DEF DmiTypeOK
<1>6. slave' \in [kind: Slaves, owes: Owners, err: BOOLEAN]
  BY DEF HclkEdge, SlaveStep, DmiTypeOK, Owners
<1>7. rst' \in [tck: 0 .. 2, hclk: 0 .. 2, align: BOOLEAN]
  <2>1. rst \in [tck: 0 .. 2, hclk: 0 .. 2, align: BOOLEAN]
    BY DEF DmiTypeOK
  <2>2. (rst.hclk = 2) \in BOOLEAN /\ (IF rst.hclk < 2 THEN rst.hclk + 1 ELSE 2) \in 0 .. 2
    BY <2>1
  <2>3. rst' = [rst EXCEPT !.hclk = IF rst.hclk < 2 THEN rst.hclk + 1 ELSE 2,
                           !.align = (rst.hclk = 2)]
    BY DEF HclkEdge
  <2> QED
    BY <2>1, <2>2, <2>3
<1>8. since' \in 0 .. RATIO
  BY RatioAssumption DEF HclkEdge, DmiTypeOK
<1>9. unsettled' \subseteq Levels /\ t' = t
  BY DEF HclkEdge, DmiTypeOK, Levels
<1> QED
  BY <1>3, <1>4, <1>5, <1>6, <1>7, <1>8, <1>9 DEF DmiTypeOK

LEMMA TckInResetType ==
  ASSUME DmiTypeOK, TckInReset
  PROVE  DmiTypeOK'
<1>1. rst' \in [tck: 0 .. 2, hclk: 0 .. 2, align: BOOLEAN] /\ since' \in 0 .. RATIO
  BY RatioAssumption DEF TckInReset, DmiTypeOK
<1> QED
  BY <1>1 DEF TckInReset, DmiTypeOK

LEMMA TapResetType ==
  ASSUME DmiTypeOK, TapReset
  PROVE  DmiTypeOK'
<1>1. t' \in [ack: Chain, inflight: BOOLEAN, cstatus: Statuses, rdata: Owners]
  BY DEF TapReset, TckReset, Cleared, Chain, Statuses, Owners
<1>2. rst' \in [tck: 0 .. 2, hclk: 0 .. 2, align: BOOLEAN]
  <2>1. rst \in [tck: 0 .. 2, hclk: 0 .. 2, align: BOOLEAN]
    BY DEF DmiTypeOK
  <2>2. rst' = [tck |-> 0, hclk |-> 0, align |-> rst.align]
    BY <2>1 DEF TapReset
  <2>3. 0 \in 0 .. 2 /\ rst.align \in BOOLEAN
    BY <2>1
  <2> QED
    BY <2>2, <2>3
<1>3. level' \in [Levels -> BOOLEAN] /\ unsettled' \subseteq Levels
  BY DEF TapReset, DmiTypeOK, Levels
<1>4. ghost' \in [wanted: BOOLEAN, unbegun: BOOLEAN, owed: BOOLEAN] /\ since' \in 0 .. RATIO
  BY DEF TapReset, DmiTypeOK
<1>5. AgeAll
  BY DEF TapReset
<1> QED
  BY <1>1, <1>2, <1>3, <1>4, <1>5, AgeAllType DEF DmiTypeOK

----------------------------------------------------------------------------
(* The controller: every state has two successors, and a data scan is only *)
(* entered by its capture and left by its update.                          *)
Scan == {"SHF_DR", "EX1_DR", "PAU_DR", "EX2_DR", "UPD_DR"}

LEMMA NextStateType ==
  ASSUME NEW s \in TapStates, NEW i \in {1, 2}
  PROVE  /\ NextStates[s][i] \in TapStates
         /\ NextStates[s][i] \in Scan => s = "CAP_DR" \/ s \in Scan \ {"UPD_DR"}
BY DEF TapStates, NextStates, Scan

LEMMA ContentsType ==
  ASSUME TypeOK, NEW d \in Contents
  PROVE  d \in Content
<1>1. CASE d = Nothing
  BY <1>1 DEF Nothing, Content, Ops
<1>2. CASE tap.state = "UPD_DR" /\ tap.ir = "DMI"
  <2>1. PICK o \in (IF tap.shifted THEN Ops ELSE {OpOfStatus(tap.status)}) :
          d = [Nothing EXCEPT !.op = o]
    BY <1>2 DEF Contents
  <2>2. o \in Ops
    BY <2>1 DEF TypeOK, Ops, OpOfStatus
  <2> QED
    BY <2>1, <2>2 DEF Nothing, Content
<1>3. CASE tap.state = "UPD_DR" /\ tap.ir # "DMI" /\ tap.ir = "DTMCS" /\ tap.shifted
  BY <1>3 DEF Contents
<1> QED
  BY <1>1, <1>2, <1>3 DEF Contents

(* The status register and errinfo, and what they say about the link: a    *)
(* failure is only shown or held while no request is in flight.            *)
ErrInv ==
  /\ ErrinfoAgrees
  /\ err.sticky = 2 \/ err.fail_pend => ~t.inflight
  /\ err.fail_pend => err.sticky # 0

(* From its capture to its update, a dmi scan that read status 0 finds the *)
(* link idle and without error, one that read another status finds a       *)
(* sticky error.                                                           *)
ScanInv ==
  tap.ir = "DMI" /\ tap.state \in Scan =>
    IF tap.status = 0 THEN ~t.inflight /\ ~err.inflight_d /\ err.sticky = 0
    ELSE err.sticky # 0

LEMMA InitType ==
  ASSUME Init
  PROVE  TypeOK
<1>1. t \in [ack: Chain, inflight: BOOLEAN, cstatus: Statuses, rdata: Owners]
  BY DEF Init, DmiInit, TckReset, Cleared, Chain, Statuses, Owners
<1>2. h \in [req: Chain, hardreset: Chain, state: {"IDLE", "SETUP", "ACCESS"},
             hreq: Owners, rsp: Owners, rsp_stat: Statuses]
  BY DEF Init, DmiInit, HclkReset, Cleared, Chain, Statuses, Owners
<1>3. /\ level \in [Levels -> BOOLEAN]
      /\ unsettled \subseteq Levels
      /\ rst \in [tck: 0 .. 2, hclk: 0 .. 2, align: BOOLEAN]
      /\ slave \in [kind: Slaves, owes: Owners, err: BOOLEAN]
      /\ since \in 0 .. RATIO
      /\ ghost \in [wanted: BOOLEAN, unbegun: BOOLEAN, owed: BOOLEAN]
  <2>1. [tck |-> 2, hclk |-> 2, align |-> TRUE] \in [tck: 0 .. 2, hclk: 0 .. 2, align: BOOLEAN]
    OBVIOUS
  <2>2. [wanted |-> FALSE, unbegun |-> FALSE, owed |-> FALSE]
          \in [wanted: BOOLEAN, unbegun: BOOLEAN, owed: BOOLEAN]
    OBVIOUS
  <2>3. slave \in [kind: Slaves, owes: {"none"}, err: {FALSE}]
    BY DEF Init, DmiInit
  <2>4. slave \in [kind: Slaves, owes: Owners, err: BOOLEAN]
    BY <2>3 DEF Owners
  <2> QED
    BY <2>1, <2>2, <2>4, RatioAssumption DEF Init, DmiInit
<1>4. DmiTypeOK
  BY <1>1, <1>2, <1>3 DEF DmiTypeOK
<1>5. tap \in [state: TapStates, ir: Instructions, shifted: BOOLEAN, status: {0, 2, 3}]
  BY DEF Init, TapRegReset, TapStates, NextStates, Instructions
<1>6. err \in [sticky: {0, 2, 3}, errinfo: {"unknown", "device"}, fail_pend: BOOLEAN,
               abort_pending: BOOLEAN, inflight_d: BOOLEAN]
  BY DEF Init, ErrReset
<1>7. phase \in 0 .. 2
  BY SkipAssumption DEF Init
<1> QED
  BY <1>4, <1>5, <1>6, <1>7 DEF TypeOK

LEMMA ErrRegsType ==
  ASSUME TypeOK, NEW d \in Contents, ErrRegs(d)
  PROVE  err' \in [sticky: {0, 2, 3}, errinfo: {"unknown", "device"}, fail_pend: BOOLEAN,
                   abort_pending: BOOLEAN, inflight_d: BOOLEAN]
<1>1. StickyNext(d) \in {0, 2, 3}
  BY DEF StickyNext, TypeOK
<1>2. ErrInfoNext(d) \in {"unknown", "device"}
  BY DEF ErrInfoNext, TypeOK
<1>3. FailPendNext(d) \in BOOLEAN /\ t.inflight \in BOOLEAN
  BY DEF FailPendNext, TypeOK, DmiTypeOK
<1>4. ((dmi_hardreset(d) /\ t.inflight) \/ (err.abort_pending /\ ~complete_edge)) \in BOOLEAN
  OBVIOUS
<1> QED
  BY <1>1, <1>2, <1>3, <1>4 DEF ErrRegs

LEMMA TapRegsType ==
  ASSUME TypeOK, NEW tms \in BOOLEAN, TapRegs(tms)
  PROVE  /\ tap' \in [state: TapStates, ir: Instructions, shifted: BOOLEAN, status: {0, 2, 3}]
         /\ tap'.state \in Scan => tap.state = "CAP_DR" \/ tap.state \in Scan \ {"UPD_DR"}
         /\ tap'.state \in Scan => tap'.ir = tap.ir
         /\ tap'.status = CASE tap.state = "CAP_DR" -> combined_status
                            [] tap.state = "UPD_DR" -> 0
                            [] OTHER -> tap.status
<1> DEFINE i == IF tms THEN 2 ELSE 1
           sh == \/ tap.state \in {"SHF_DR", "SHF_IR"}
                 \/ /\ tap.shifted
                    /\ tap.state \notin {"CAP_DR", "CAP_IR", "UPD_DR", "UPD_IR"}
           st == CASE tap.state = "CAP_DR" -> combined_status
                   [] tap.state = "UPD_DR" -> 0
                   [] OTHER -> tap.status
<1>1. PICK ir \in IrNext :
        tap' = [state |-> NextStates[tap.state][i], ir |-> ir, shifted |-> sh, status |-> st]
  BY DEF TapRegs
<1>2. ir \in Instructions /\ (tap.state \notin {"TLR", "UPD_IR"} => ir = tap.ir)
  BY DEF IrNext, TypeOK, Instructions
<1>3. combined_status \in {0, 2, 3} /\ tap.status \in {0, 2, 3}
  BY DEF combined_status, TypeOK
<1>4. st \in {0, 2, 3}
  BY <1>3
<1>5. sh \in BOOLEAN /\ i \in {1, 2} /\ tap.state \in TapStates
  BY DEF TypeOK
<1>6. /\ NextStates[tap.state][i] \in TapStates
      /\ NextStates[tap.state][i] \in Scan => tap.state = "CAP_DR" \/ tap.state \in Scan \ {"UPD_DR"}
  BY <1>5, NextStateType
<1> HIDE DEF i, sh, st
<1>7. tap'.state = NextStates[tap.state][i] /\ tap'.ir = ir /\ tap'.status = st
  BY <1>1
<1>8. tap'.state \in Scan => tap'.ir = tap.ir
  BY <1>2, <1>6, <1>7 DEF Scan
<1> QED
  BY <1>1, <1>2, <1>4, <1>5, <1>6, <1>7, <1>8 DEF st

(* Every register keeps its type under every action. *)
LEMMA NextType ==
  ASSUME TypeOK, [Next]_vars
  PROVE  TypeOK'
<1>1. CASE \E tms \in BOOLEAN, d \in Contents : TapClock(tms, d)
  <2>1. PICK tms \in BOOLEAN, d \in Contents : TapClock(tms, d)
    BY <1>1
  <2>2. ghost' \in [wanted: BOOLEAN, unbegun: BOOLEAN, owed: BOOLEAN]
    BY <2>1 DEF TapClock, History
  <2>3. dmi_launch(d) \in BOOLEAN /\ dmi_hardreset(d) \in BOOLEAN
    BY ContentsType DEF dmi_launch, dmi_hardreset, dmi_op_active, Content
  <2>4. DmiTypeOK'
    BY <2>1, <2>2, <2>3, TckSideType DEF TapClock, TypeOK
  <2> QED
    BY <2>1, <2>4, ErrRegsType, TapRegsType, SkipAssumption DEF TapClock, TypeOK
<1>2. CASE TckInReset /\ UNCHANGED <<tap, err, phase>>
  BY <1>2, TckInResetType DEF TypeOK
<1>3. CASE TckOnly
  <2>1. DmiTypeOK'
    BY <1>3, TckSideType DEF TckOnly, TypeOK, DmiTypeOK
  <2> QED
    BY <1>3, <2>1, SkipAssumption DEF TckOnly, TypeOK
<1>4. CASE Hclk
  BY <1>4, HclkType DEF Hclk, TypeOK
<1>5. CASE Reset
  <2>1. tap' \in [state: TapStates, ir: Instructions, shifted: BOOLEAN, status: {0, 2, 3}]
    BY <1>5 DEF Reset, TapRegReset, TapStates, NextStates, Instructions
  <2>2. err' \in [sticky: {0, 2, 3}, errinfo: {"unknown", "device"}, fail_pend: BOOLEAN,
                  abort_pending: BOOLEAN, inflight_d: BOOLEAN]
    BY <1>5 DEF Reset, ErrReset
  <2>3. DmiTypeOK'
    BY <1>5, TapResetType DEF Reset, TypeOK
  <2> QED
    BY <1>5, <2>1, <2>2, <2>3, SkipAssumption DEF Reset, TypeOK
<1>6. CASE UNCHANGED vars
  BY <1>6 DEF vars, dmivars, TypeOK, DmiTypeOK
<1> QED
  BY <1>1, <1>2, <1>3, <1>4, <1>5, <1>6 DEF Next, TckEdge

(* Every register of the TAP and of both halves of the DMI master keeps    *)
(* its range.                                                              *)
THEOREM TapTypeCorrect == Spec => []TypeOK
<1>1. Init => TypeOK
  BY InitType
<1>2. TypeOK /\ [Next]_vars => TypeOK'
  BY NextType
<1> QED
  BY <1>1, <1>2, PTL DEF Spec

(* The only way inflight rises is a launch. *)
LEMMA InflightRises ==
  ASSUME TypeOK, NEW l \in BOOLEAN, NEW hr \in BOOLEAN, TckSide(l, hr)
  PROVE  /\ ~l => (t'.inflight => t.inflight)
         /\ l => t'.inflight
         /\ hr /\ ~l => ~t'.inflight
BY DEF TckSide, InflightNext

(* Steps that leave the TAP registers alone never set inflight. *)
LEMMA QuietSteps ==
  ASSUME TypeOK, TckOnly \/ Hclk \/ (TckInReset /\ UNCHANGED <<tap, err, phase>>) \/ UNCHANGED vars
  PROVE  UNCHANGED <<tap, err>> /\ (t'.inflight => t.inflight)
<1>1. CASE TckOnly
  BY <1>1, InflightRises DEF TckOnly
<1>2. CASE Hclk
  BY <1>2 DEF Hclk, HclkEdge
<1>3. CASE TckInReset /\ UNCHANGED <<tap, err, phase>>
  BY <1>3 DEF TckInReset
<1>4. CASE UNCHANGED vars
  BY <1>4 DEF vars, dmivars
<1> QED
  BY <1>1, <1>2, <1>3, <1>4

LEMMA ErrInvStep ==
  ASSUME TypeOK, ErrInv, [Next]_vars
  PROVE  ErrInv'
<1>1. CASE \E tms \in BOOLEAN, d \in Contents : TapClock(tms, d)
  <2>1. PICK tms \in BOOLEAN, d \in Contents : TapClock(tms, d)
    BY <1>1
  <2>2. /\ err'.sticky = StickyNext(d)
        /\ err'.errinfo = ErrInfoNext(d)
        /\ err'.fail_pend = FailPendNext(d)
    BY <2>1 DEF TapClock, ErrRegs
  <2>3. dmi_launch(d) \in BOOLEAN /\ dmi_hardreset(d) \in BOOLEAN
    BY ContentsType DEF dmi_launch, dmi_hardreset, dmi_op_active, Content
  <2>4. /\ ~dmi_launch(d) => (t'.inflight => t.inflight)
        /\ dmi_hardreset(d) /\ ~dmi_launch(d) => ~t'.inflight
    BY <2>1, <2>3, InflightRises DEF TapClock
  <2>5. complete_failed => ~t.inflight
    BY DEF complete_failed, complete_edge
  <2>6. dmi_launch(d) => ~dmi_hardreset(d) /\ ~dmireset(d) /\ err.sticky = 0 /\ ~t.inflight
                         /\ ~complete_failed /\ tap.state = "UPD_DR"
    BY DEF dmi_launch, dmi_hardreset, dmireset
  <2>7. CASE dmi_launch(d)
    <3>1. err'.sticky = 0 /\ err'.errinfo = err.errinfo
      BY <2>2, <2>6, <2>7 DEF StickyNext, ErrInfoNext
    <3>2. ~err'.fail_pend
      BY <2>2, <2>6, <2>7 DEF FailPendNext, ErrInv
    <3> QED
      BY <3>1, <3>2, <2>6, <2>7 DEF ErrInv, ErrinfoAgrees
  <2>8. CASE ~dmi_launch(d)
    <3>1. ErrinfoAgrees'
      BY <2>2, <2>5 DEF ErrinfoAgrees, ErrInv, StickyNext, ErrInfoNext
    <3>2. err'.fail_pend => /\ ~dmi_hardreset(d) /\ ~dmireset(d)
                            /\ err.fail_pend \/ (complete_failed /\ err.sticky # 0)
      BY <2>2 DEF FailPendNext
    <3>3. err'.sticky = 2 => err.sticky = 2 \/ err.fail_pend \/ complete_failed
      BY <2>2 DEF StickyNext
    <3>4. err'.sticky = 2 \/ err'.fail_pend => ~t'.inflight
      BY <2>4, <2>5, <2>8, <3>2, <3>3 DEF ErrInv
    <3>5. err'.fail_pend => err'.sticky # 0
      BY <2>2, <3>2 DEF ErrInv, StickyNext
    <3> QED
      BY <3>1, <3>4, <3>5 DEF ErrInv
  <2> QED
    BY <2>7, <2>8
<1>2. CASE TckOnly \/ Hclk \/ (TckInReset /\ UNCHANGED <<tap, err, phase>>) \/ UNCHANGED vars
  BY <1>2, QuietSteps DEF ErrInv, ErrinfoAgrees
<1>3. CASE Reset
  BY <1>3 DEF Reset, ErrReset, TapReset, TckReset, ErrInv, ErrinfoAgrees
<1> QED
  BY <1>1, <1>2, <1>3 DEF Next, TckEdge

(* errinfo blames the device exactly while the status is failed.           *)
THEOREM ErrinfoCorrect == Spec => []ErrinfoAgrees
<1>1. Init => ErrInv
  BY DEF Init, ErrReset, DmiInit, TckReset, ErrInv, ErrinfoAgrees
<1>2. TypeOK /\ ErrInv /\ [Next]_vars => ErrInv'
  BY ErrInvStep
<1>3. ErrInv => ErrinfoAgrees
  BY DEF ErrInv
<1> QED
  BY <1>1, <1>2, <1>3, TapTypeCorrect, PTL DEF Spec

LEMMA ScanInvStep ==
  ASSUME TypeOK, ScanInv, [Next]_vars
  PROVE  ScanInv'
<1>1. CASE \E tms \in BOOLEAN, d \in Contents : TapClock(tms, d)
  <2>1. PICK tms \in BOOLEAN, d \in Contents : TapClock(tms, d)
    BY <1>1
  <2> SUFFICES ASSUME tap'.ir = "DMI", tap'.state \in Scan
               PROVE  IF tap'.status = 0
                      THEN ~t'.inflight /\ ~err'.inflight_d /\ err'.sticky = 0
                      ELSE err'.sticky # 0
    BY DEF ScanInv
  <2>2. /\ tap.ir = "DMI"
        /\ tap.state = "CAP_DR" \/ tap.state \in Scan \ {"UPD_DR"}
        /\ tap.state # "UPD_DR"
    BY <2>1, TapRegsType DEF TapClock, Scan
  <2>3. tap'.status = IF tap.state = "CAP_DR" THEN combined_status ELSE tap.status
    BY <2>1, <2>2, TapRegsType DEF TapClock
  <2>4. ~dmi_launch(d) /\ ~dmi_hardreset(d) /\ ~dmireset(d)
    BY <2>2 DEF dmi_launch, dmi_hardreset, dmireset
  <2>5. t'.inflight => t.inflight
    <3>1. dmi_launch(d) \in BOOLEAN /\ dmi_hardreset(d) \in BOOLEAN
      BY ContentsType DEF dmi_launch, dmi_hardreset, dmi_op_active, Content
    <3> QED
      BY <2>1, <2>4, <3>1, InflightRises DEF TapClock
  <2>6. err'.inflight_d = t.inflight /\ err'.sticky = StickyNext(d)
    BY <2>1 DEF TapClock, ErrRegs
  <2>7. CASE tap.state = "CAP_DR"
    BY <2>2, <2>3, <2>4, <2>5, <2>6, <2>7 DEF StickyNext, combined_status, complete_failed, complete_edge
  <2>8. CASE tap.state \in Scan \ {"UPD_DR"}
    <3>1. tap.state # "CAP_DR"
      BY <2>8 DEF Scan
    <3> QED
      BY <2>2, <2>3, <2>4, <2>5, <2>6, <2>8, <3>1
      DEF ScanInv, StickyNext, complete_failed, complete_edge
  <2> QED
    BY <2>2, <2>7, <2>8
<1>2. CASE TckOnly \/ Hclk \/ (TckInReset /\ UNCHANGED <<tap, err, phase>>) \/ UNCHANGED vars
  BY <1>2, QuietSteps DEF ScanInv
<1>3. CASE Reset
  BY <1>3 DEF Reset, TapRegReset, ScanInv, Scan
<1> QED
  BY <1>1, <1>2, <1>3 DEF Next, TckEdge

(* The status a dmi scan read out tells whether the request it shifts in   *)
(* is launched.                                                            *)
THEOREM ScanTellsLaunchAlways == Spec => []ScanTellsLaunch
<1>1. Init => ScanInv
  BY DEF Init, TapRegReset, ScanInv, Scan
<1>2. TypeOK /\ ScanInv /\ [Next]_vars => ScanInv'
  BY ScanInvStep
<1>3. TypeOK /\ ScanInv => ScanTellsLaunch
  <2> SUFFICES ASSUME TypeOK, ScanInv, NEW d \in Contents, dmi_op_active(d)
               PROVE  dmi_launch(d) <=> tap.status = 0
    BY DEF ScanTellsLaunch
  <2>1. tap.state = "UPD_DR" /\ tap.ir = "DMI"
    BY DEF Contents, Nothing, Content, dmi_op_active
  <2>2. tap.state \in Scan
    BY <2>1 DEF Scan
  <2> QED
    BY <2>1, <2>2 DEF ScanInv, dmi_launch, complete_failed, complete_edge
<1> QED
  BY <1>1, <1>2, <1>3, TapTypeCorrect, PTL DEF Spec

----------------------------------------------------------------------------
(* The crossing.  What the step lemmas below need of each action is stated *)
(* once, flop by flop.                                                     *)

ResetPhase == rst.hclk < 2 \/ ~rst.align

(* What is known of the flops that follow a level n edges after it last    *)
(* changed: after one edge it is settled, after two the first flop holds   *)
(* it, and so on.                                                          *)
Passed(l, s, n) ==
  /\ n >= 1 => l \notin unsettled
  /\ n >= 2 => s.meta = level[l]
  /\ n >= 3 => s.sync = level[l]
  /\ n >= 4 => s.d = level[l]

(* At most one change of a level is on its way through its flops.          *)
OneChange(l, s) ==
  /\ s.d = level[l] => s.sync = level[l]
  /\ s.sync = level[l] => s.meta = level[l]
  /\ l \in unsettled => s.meta # level[l]

(* The least number of tck edges from an Update-DR to a controller state.  *)
Edges == [TLR    |-> 0, RTI    |-> 0, SEL_DR |-> 0, CAP_DR |-> 1,
          SHF_DR |-> 2, EX1_DR |-> 2, PAU_DR |-> 3, EX2_DR |-> 3,
          UPD_DR |-> 3, SEL_IR |-> 1, CAP_IR |-> 2, SHF_IR |-> 3,
          EX1_IR |-> 3, PAU_IR |-> 4, EX2_IR |-> 4, UPD_IR |-> 4]

SinceReq == Edges[tap.state]
(* A hardreset needs another instruction than a request, and loading the   *)
(* instruction register takes five edges more.                             *)
SinceHardreset ==
  Edges[tap.state] + IF tap.ir = "DMI" /\ tap.state # "TLR" THEN 5 ELSE 0
(* Once an hclk edge has followed, the tck edge under way counts too.      *)
SoFar(n) == IF since > 0 THEN n + 1 ELSE n

ReqPending == level["req"] # h.req.d
HardresetPending == level["hardreset"] # h.hardreset.d
AckPending == level["ack"] # t.ack.d

(* While the hclk side comes out of reset the tck side is idle in the TAP's*)
(* first states, and all that crossed earlier has died out before either   *)
(* side may use it.                                                        *)
ResetInv ==
  /\ rst.tck < 2 => tap.state = "TLR"
  /\ rst.tck < 2 \/ rst.hclk < 2 => ~t.ack.meta /\ ~t.ack.sync /\ ~t.ack.d
  /\ rst.hclk = 1 => ~rst.align
  /\ rst.tck = 1 /\ since > 0 => rst.hclk >= 1
  /\ rst.tck = 2 => rst.hclk >= 1
  /\ rst.tck = 2 /\ since > 0 => rst.hclk = 2
  /\ tap.state # "TLR" => rst.hclk = 2
  /\ tap.state = "RTI" /\ since > 0 => rst.align
  /\ tap.state \notin {"TLR", "RTI"} => rst.align
  /\ ResetPhase => /\ tap.ir = "IDCODE"
                   /\ ~t.inflight /\ ~ghost.wanted /\ ~level["req"] /\ ~level["hardreset"]
  /\ ResetPhase /\ rst.hclk >= 1 => "req" \notin unsettled /\ "hardreset" \notin unsettled
  /\ rst.hclk = 2 /\ ~rst.align =>
       /\ ~h.req.meta /\ ~h.req.d /\ (CLK_ARST_EN => ~h.req.sync)
       /\ ~h.hardreset.meta /\ ~h.hardreset.d /\ (CLK_ARST_EN => ~h.hardreset.sync)
       /\ h.state = "IDLE" /\ ~level["ack"]

(* A request or hardreset has passed as many flops as tck edges have gone  *)
(* by since the Update-DR that may have sent it.                           *)
DelayInv ==
  tap.state # "TLR" =>
    /\ Passed("req", h.req, SoFar(SinceReq))
    /\ Passed("hardreset", h.hardreset, SoFar(SinceHardreset))

ToggleInv ==
  /\ ~ResetPhase => OneChange("req", h.req) /\ OneChange("hardreset", h.hardreset)
  /\ t.inflight => OneChange("ack", t.ack)

(* Every request level the hclk side has yet to see is one not begun.      *)
BegunInv ==
  /\ ~hclk_in_reset /\ EdgeOf(h.req) => ghost.unbegun
  /\ ~ResetPhase /\ ReqPending => ghost.unbegun

(* While the link is busy, its request is on its way, at the slave or on   *)
(* its way back; while it is not, nothing is, save a transfer that a       *)
(* hardreset on its way is about to abandon.                               *)
LinkInv ==
  /\ t.inflight =>
       /\ ghost.wanted /\ ~ResetPhase /\ ~HardresetPending
       /\ ReqPending \/ h.state # "IDLE" \/ AckPending
       /\ ~(ReqPending /\ h.state # "IDLE")
  /\ ~ResetPhase /\ ~t.inflight =>
       /\ ~ReqPending
       /\ h.state # "IDLE" => HardresetPending
  /\ "ack" \in unsettled => t.ack.meta = t.ack.sync /\ t.ack.sync = t.ack.d

(* The acknowledge is quiet until the transfer retires, and an answer that *)
(* escaped an abandoned transfer has passed before the next launch.        *)
AckInv ==
  /\ ~t.inflight => Passed("ack", t.ack, SinceHardreset - 2)
  /\ ~t.inflight /\ ghost.wanted => Passed("ack", t.ack, 4)
  /\ ~ResetPhase /\ (ReqPending \/ h.state # "IDLE") => Passed("ack", t.ack, 4)

(* Whose request and whose answer the data registers hold.                 *)
AnswerInv ==
  /\ ~t.inflight /\ ghost.wanted => t.rdata = "last" /\ h.state = "IDLE"
  /\ t.inflight /\ h.state # "IDLE" => h.hreq = "last" /\ ~ghost.owed
  /\ t.inflight /\ ReqPending => ~ghost.owed
  /\ t.inflight /\ AckPending => h.rsp = "last" /\ (ghost.owed <=> h.rsp_stat = "failed")
  /\ slave.kind = "dm" /\ slave.owes # "none" =>
       h.state = "IDLE" \/ (h.state = "ACCESS" /\ slave.owes = h.hreq)

(* What the error registers hold in each phase of a request.  A completion *)
(* is noticed at the first TAP clock after it: the answer takes three tck  *)
(* edges, and there is a TAP clock among any three.                        *)
FailureInv ==
  /\ t.inflight => ~err.abort_pending /\ err.sticky # 2 /\ ~err.fail_pend
  /\ ~t.inflight /\ err.inflight_d =>
       /\ err.sticky # 2 /\ ~err.fail_pend
       /\ IF err.abort_pending THEN ~ghost.owed
          ELSE ghost.wanted /\ (ghost.owed <=> t.cstatus = "failed")
  /\ ~t.inflight /\ ~err.inflight_d =>
       /\ ~err.abort_pending
       /\ ghost.owed <=> err.sticky = 2 \/ err.fail_pend
  /\ t.inflight /\ ~err.inflight_d =>
       /\ phase >= 1 => t.ack.sync = t.ack.d
       /\ phase >= 2 => t.ack.meta = t.ack.d
  /\ err.fail_pend => err.sticky = 3

CrossInv == /\ ResetInv /\ DelayInv /\ ToggleInv /\ BegunInv
            /\ LinkInv /\ AckInv /\ AnswerInv /\ FailureInv

(* Types of the flops the step lemmas reason about. *)
LEMMA Flops ==
  ASSUME DmiTypeOK
  PROVE  /\ t.ack.meta \in BOOLEAN /\ t.ack.sync \in BOOLEAN /\ t.ack.d \in BOOLEAN
         /\ h.req.meta \in BOOLEAN /\ h.req.sync \in BOOLEAN /\ h.req.d \in BOOLEAN
         /\ h.hardreset.meta \in BOOLEAN /\ h.hardreset.sync \in BOOLEAN
         /\ h.hardreset.d \in BOOLEAN
         /\ level["req"] \in BOOLEAN /\ level["hardreset"] \in BOOLEAN /\ level["ack"] \in BOOLEAN
         /\ t.inflight \in BOOLEAN /\ t.cstatus \in Statuses /\ t.rdata \in Owners
         /\ h.state \in {"IDLE", "SETUP", "ACCESS"}
         /\ rst.tck \in 0 .. 2 /\ rst.hclk \in 0 .. 2 /\ rst.align \in BOOLEAN
         /\ since \in 0 .. RATIO
         /\ ghost.wanted \in BOOLEAN /\ ghost.unbegun \in BOOLEAN /\ ghost.owed \in BOOLEAN
BY DEF DmiTypeOK, Chain, Levels

LEMMA FlopsAfter ==
  ASSUME DmiTypeOK'
  PROVE  /\ t'.ack.meta \in BOOLEAN /\ t'.ack.sync \in BOOLEAN /\ t'.ack.d \in BOOLEAN
         /\ h'.req.meta \in BOOLEAN /\ h'.req.sync \in BOOLEAN /\ h'.req.d \in BOOLEAN
         /\ h'.hardreset.meta \in BOOLEAN /\ h'.hardreset.sync \in BOOLEAN
         /\ h'.hardreset.d \in BOOLEAN
         /\ level'["req"] \in BOOLEAN /\ level'["hardreset"] \in BOOLEAN
         /\ level'["ack"] \in BOOLEAN
         /\ t'.inflight \in BOOLEAN /\ h'.state \in {"IDLE", "SETUP", "ACCESS"}
         /\ ghost'.wanted \in BOOLEAN /\ ghost'.unbegun \in BOOLEAN /\ ghost'.owed \in BOOLEAN
BY DEF DmiTypeOK, Chain, Levels

(* A tck edge outside reset, flop by flop. *)
TckFlops(launch, hardreset) ==
  /\ "ack" \notin unsettled => t'.ack.meta = level["ack"]
  /\ t'.ack.sync = t.ack.meta /\ t'.ack.d = t.ack.sync
  /\ t'.inflight <=> IF launch \/ EdgeOf(t.ack) \/ hardreset THEN launch ELSE t.inflight
  /\ t'.cstatus = IF EdgeOf(t.ack) THEN h.rsp_stat ELSE t.cstatus
  /\ ~launch => t'.rdata = IF EdgeOf(t.ack) THEN h.rsp ELSE t.rdata
  /\ level'["req"] <=> ~(launch <=> level["req"])
  /\ level'["hardreset"] <=> ~(hardreset <=> level["hardreset"])
  /\ level'["ack"] = level["ack"]
  /\ "ack" \notin unsettled'
  /\ "req" \in unsettled' <=> "req" \in unsettled \/ launch
  /\ "hardreset" \in unsettled' <=> "hardreset" \in unsettled \/ hardreset
  /\ h'.req = h.req /\ h'.hardreset = h.hardreset
  /\ h'.state = h.state /\ h'.rsp_stat = h.rsp_stat
  /\ ~launch => h'.hreq = h.hreq /\ h'.rsp = h.rsp /\ slave' = slave
  /\ slave'.kind = slave.kind
  /\ slave.owes = "none" => slave'.owes = "none"
  /\ slave.owes = h.hreq => slave'.owes = h'.hreq
  /\ slave'.owes # "none" => slave.owes # "none"
  /\ since' = 0 /\ rst' = rst

LEMMA TckSideFlops ==
  ASSUME DmiTypeOK, NEW launch \in BOOLEAN, NEW hardreset \in BOOLEAN,
         TckSide(launch, hardreset)
  PROVE  TckFlops(launch, hardreset)
<1>1. PICK meta \in Sampled("ack") :
        t' = [ack      |-> Through(t.ack, meta),
              inflight |-> InflightNext(launch, hardreset),
              cstatus  |-> IF ack_tck_edge THEN h.rsp_stat ELSE t.cstatus,
              rdata    |-> LET r == IF ack_tck_edge THEN h.rsp ELSE t.rdata
                           IN  IF launch THEN Aged(r) ELSE r]
  BY DEF TckSide
<1>2. /\ "ack" \notin unsettled => t'.ack.meta = level["ack"]
      /\ t'.ack.sync = t.ack.meta /\ t'.ack.d = t.ack.sync
  BY <1>1 DEF Sampled, Through
<1>3. t'.inflight <=> IF launch \/ EdgeOf(t.ack) \/ hardreset THEN launch ELSE t.inflight
  BY <1>1, Flops DEF InflightNext, ack_tck_edge
<1>4. /\ t'.cstatus = IF EdgeOf(t.ack) THEN h.rsp_stat ELSE t.cstatus
      /\ ~launch => t'.rdata = IF EdgeOf(t.ack) THEN h.rsp ELSE t.rdata
  BY <1>1 DEF ack_tck_edge
<1>5. /\ level'["req"] <=> ~(launch <=> level["req"])
      /\ level'["hardreset"] <=> ~(hardreset <=> level["hardreset"])
      /\ level'["ack"] = level["ack"]
  <2>1. level' = [level EXCEPT !["req"] = (launch # level["req"]),
                               !["hardreset"] = (hardreset # level["hardreset"])]
    BY DEF TckSide
  <2>2. DOMAIN level = Levels
    BY DEF DmiTypeOK
  <2>3. /\ level'["req"] = (launch # level["req"])
        /\ level'["hardreset"] = (hardreset # level["hardreset"])
        /\ level'["ack"] = level["ack"]
    BY <2>1, <2>2 DEF Levels
  <2> QED
    BY <2>3, Flops
<1>6. /\ "ack" \notin unsettled'
      /\ "req" \in unsettled' <=> "req" \in unsettled \/ launch
      /\ "hardreset" \in unsettled' <=> "hardreset" \in unsettled \/ hardreset
      /\ since' = 0 /\ rst' = rst
  BY DEF TckSide
<1>7. CASE launch
  <2>1. h' = [h EXCEPT !.hreq = Aged(h.hreq), !.rsp = Aged(h.rsp)]
        /\ slave' = [slave EXCEPT !.owes = Aged(slave.owes)]
    BY <1>7 DEF TckSide, AgeAll
  <2>2. /\ h'.req = h.req /\ h'.hardreset = h.hardreset
        /\ h'.state = h.state /\ h'.rsp_stat = h.rsp_stat
        /\ h'.hreq = Aged(h.hreq)
        /\ slave'.kind = slave.kind /\ slave'.owes = Aged(slave.owes)
    BY <2>1 DEF DmiTypeOK
  <2> QED
    BY <1>2, <1>3, <1>4, <1>5, <1>6, <1>7, <2>2 DEF TckFlops, Aged
<1>8. CASE ~launch
  <2>1. h' = h /\ slave' = slave
    BY <1>8 DEF TckSide
  <2> QED
    BY <1>2, <1>3, <1>4, <1>5, <1>6, <1>8, <2>1 DEF TckFlops
<1> QED
  BY <1>7, <1>8

(* An hclk edge, flop by flop: outside the reset of the hclk side, and in  *)
(* it.                                                                     *)
HclkCommon ==
  /\ rst'.hclk = IF rst.hclk < 2 THEN rst.hclk + 1 ELSE 2
  /\ rst'.align <=> rst.hclk = 2
  /\ rst'.tck = rst.tck
  /\ since' = IF since < RATIO THEN since + 1 ELSE RATIO
  /\ "req" \notin unsettled' /\ "hardreset" \notin unsettled'
  /\ level'["req"] = level["req"] /\ level'["hardreset"] = level["hardreset"]
  /\ t' = t /\ tap' = tap /\ err' = err /\ phase' = phase
  /\ ghost'.wanted = ghost.wanted
  /\ slave'.kind = slave.kind

HclkFlops(a) ==
  /\ "req" \notin unsettled => h'.req.meta = level["req"]
  /\ h'.req.sync = h.req.meta /\ h'.req.d = h.req.sync
  /\ "hardreset" \notin unsettled => h'.hardreset.meta = level["hardreset"]
  /\ h'.hardreset.sync = h.hardreset.meta /\ h'.hardreset.d = h.hardreset.sync
  /\ h'.state = state_nxt(a)
  /\ h'.hreq = IF hreq_cap_en THEN "last" ELSE h.hreq
  /\ Retires(a) => h'.rsp = a.owner /\ h'.rsp_stat = IF a.err THEN "failed" ELSE "ok"
  /\ ~Retires(a) => h'.rsp = h.rsp /\ h'.rsp_stat = h.rsp_stat
  /\ level'["ack"] <=> ~(Retires(a) <=> level["ack"])
  /\ "ack" \in unsettled' <=> "ack" \in unsettled \/ Retires(a)
  /\ ghost'.unbegun <=> ghost.unbegun /\ ~hreq_cap_en
  /\ ghost'.owed <=> ghost.owed \/ (Retires(a) /\ a.err /\ h.hreq = "last" /\ ghost.wanted)

HclkResetFlops ==
  /\ ~h'.req.meta /\ ~h'.req.d
  /\ h'.req.sync => ~CLK_ARST_EN /\ h.req.meta
  /\ ~h'.hardreset.meta /\ ~h'.hardreset.d
  /\ h'.hardreset.sync => ~CLK_ARST_EN /\ h.hardreset.meta
  /\ h'.state = "IDLE" /\ h'.hreq = "none"
  /\ ~level'["ack"]
  /\ "ack" \in unsettled' <=> "ack" \in unsettled \/ level["ack"]
  /\ ~ghost'.unbegun /\ ghost'.owed = ghost.owed

LEMMA HclkStepFlops ==
  ASSUME DmiTypeOK, Hclk
  PROVE  /\ HclkCommon
         /\ hclk_in_reset => HclkResetFlops
         /\ ~hclk_in_reset => \E a \in Answers : HclkFlops(a)
<1>1. PICK a \in Answers :
        IF hclk_in_reset
        THEN /\ HclkRegsInReset
             /\ level' = [level EXCEPT !["ack"] = FALSE]
             /\ ghost' = [ghost EXCEPT !.unbegun = FALSE]
        ELSE /\ HclkRegs(a)
             /\ level' = [level EXCEPT !["ack"] = (Retires(a) # @)]
             /\ ghost' = [ghost EXCEPT
                  !.unbegun = @ /\ ~hreq_cap_en,
                  !.owed = @ \/ (Retires(a) /\ a.err /\ h.hreq = "last" /\ ghost.wanted)]
  BY DEF Hclk, HclkEdge
<1>2. DOMAIN level = Levels /\ "ack" \in Levels /\ "req" \in Levels /\ "hardreset" \in Levels
  BY DEF DmiTypeOK, Levels
<1>3. HclkCommon
  <2>1. /\ rst'.hclk = IF rst.hclk < 2 THEN rst.hclk + 1 ELSE 2
        /\ rst'.align <=> rst.hclk = 2
        /\ rst'.tck = rst.tck
    <3>1. rst' = [rst EXCEPT !.hclk = IF rst.hclk < 2 THEN rst.hclk + 1 ELSE 2,
                             !.align = (rst.hclk = 2)]
      BY DEF Hclk, HclkEdge
    <3>2. rst \in [tck: 0 .. 2, hclk: 0 .. 2, align: BOOLEAN]
      BY DEF DmiTypeOK
    <3> QED
      BY <3>1, <3>2
  <2>2. since' = IF since < RATIO THEN since + 1 ELSE RATIO
    BY DEF Hclk, HclkEdge
  <2>3. "req" \notin unsettled' /\ "hardreset" \notin unsettled'
    BY DEF Hclk, HclkEdge
  <2>4. level'["req"] = level["req"] /\ level'["hardreset"] = level["hardreset"]
    BY <1>1, <1>2
  <2>5. ghost'.wanted = ghost.wanted
    BY <1>1 DEF DmiTypeOK
  <2>6. slave'.kind = slave.kind
    BY DEF Hclk, HclkEdge, SlaveStep, DmiTypeOK
  <2> QED
    BY <2>1, <2>2, <2>3, <2>4, <2>5, <2>6 DEF HclkCommon, Hclk, HclkEdge
<1>4. "ack" \in unsettled' <=> "ack" \in unsettled \/ level'["ack"] # level["ack"]
  BY DEF Hclk, HclkEdge
<1>5. ASSUME hclk_in_reset
      PROVE  HclkResetFlops
  <2>1. /\ ~h'.req.meta /\ ~h'.req.d
        /\ h'.req.sync => ~CLK_ARST_EN /\ h.req.meta
        /\ ~h'.hardreset.meta /\ ~h'.hardreset.d
        /\ h'.hardreset.sync => ~CLK_ARST_EN /\ h.hardreset.meta
        /\ h'.state = "IDLE" /\ h'.hreq = "none"
    <3>1. CASE CLK_ARST_EN
      BY <1>1, <1>5, <3>1 DEF HclkRegsInReset, HclkReset, Cleared
    <3>2. CASE ~CLK_ARST_EN
      <4>1. /\ HclkReset.req = Cleared /\ HclkReset.hardreset = Cleared
            /\ HclkReset.state = "IDLE" /\ HclkReset.hreq = "none"
            /\ DOMAIN HclkReset = {"req", "hardreset", "state", "hreq", "rsp", "rsp_stat"}
        BY DEF HclkReset
      <4>2. /\ Cleared.meta = FALSE /\ Cleared.d = FALSE
            /\ DOMAIN Cleared = {"meta", "sync", "d"}
        BY DEF Cleared
      <4>3. h' = [HclkReset EXCEPT !.req.sync = h.req.meta,
                                   !.hardreset.sync = h.hardreset.meta]
        BY <1>1, <1>5, <3>2 DEF HclkRegsInReset
      <4>4. /\ h'.req = [Cleared EXCEPT !.sync = h.req.meta]
            /\ h'.hardreset = [Cleared EXCEPT !.sync = h.hardreset.meta]
            /\ h'.state = "IDLE" /\ h'.hreq = "none"
        BY <4>1, <4>3
      <4> QED
        BY <3>2, <4>2, <4>4
    <3> QED
      BY <3>1, <3>2
  <2>2. level'["ack"] = FALSE
    BY <1>1, <1>2, <1>5
  <2>3. "ack" \in unsettled' <=> "ack" \in unsettled \/ level["ack"]
    BY <1>4, <2>2, Flops
  <2>4. ~ghost'.unbegun /\ ghost'.owed = ghost.owed
    BY <1>1, <1>5 DEF DmiTypeOK
  <2> QED
    BY <2>1, <2>2, <2>3, <2>4 DEF HclkResetFlops
<1>6. ASSUME ~hclk_in_reset
      PROVE  HclkFlops(a)
  <2>1. PICK req \in Sampled("req"), hr \in Sampled("hardreset") :
          h' = [req       |-> Through(h.req, req),
                hardreset |-> Through(h.hardreset, hr),
                state     |-> state_nxt(a),
                hreq      |-> IF hreq_cap_en THEN "last" ELSE h.hreq,
                rsp       |-> IF Retires(a) THEN a.owner ELSE h.rsp,
                rsp_stat  |-> IF Retires(a) THEN IF a.err THEN "failed" ELSE "ok"
                                            ELSE h.rsp_stat]
    BY <1>1, <1>6 DEF HclkRegs
  <2>2. /\ "req" \notin unsettled => h'.req.meta = level["req"]
        /\ h'.req.sync = h.req.meta /\ h'.req.d = h.req.sync
        /\ "hardreset" \notin unsettled => h'.hardreset.meta = level["hardreset"]
        /\ h'.hardreset.sync = h.hardreset.meta /\ h'.hardreset.d = h.hardreset.sync
    BY <2>1 DEF Sampled, Through
  <2>3. /\ h'.state = state_nxt(a)
        /\ h'.hreq = IF hreq_cap_en THEN "last" ELSE h.hreq
        /\ Retires(a) => h'.rsp = a.owner /\ h'.rsp_stat = IF a.err THEN "failed" ELSE "ok"
        /\ ~Retires(a) => h'.rsp = h.rsp /\ h'.rsp_stat = h.rsp_stat
    BY <2>1
  <2>4. level'["ack"] = (Retires(a) # level["ack"])
    BY <1>1, <1>2, <1>6
  <2>5. Retires(a) \in BOOLEAN
    BY DEF Retires
  <2>6. level'["ack"] <=> ~(Retires(a) <=> level["ack"])
    BY <2>4, <2>5, Flops
  <2>7. "ack" \in unsettled' <=> "ack" \in unsettled \/ Retires(a)
    <3>1. level'["ack"] # level["ack"] <=> Retires(a)
      BY <2>4, <2>5, Flops
    <3> QED
      BY <1>4, <3>1
  <2>8. /\ ghost'.unbegun <=> ghost.unbegun /\ ~hreq_cap_en
        /\ ghost'.owed <=> ghost.owed \/ (Retires(a) /\ a.err /\ h.hreq = "last" /\ ghost.wanted)
    <3> DEFINE u == ghost.unbegun /\ ~hreq_cap_en
               o == ghost.owed \/ (Retires(a) /\ a.err /\ h.hreq = "last" /\ ghost.wanted)
    <3>1. ghost' = [ghost EXCEPT !.unbegun = u, !.owed = o]
      BY <1>1, <1>6
    <3>2. ghost \in [wanted: BOOLEAN, unbegun: BOOLEAN, owed: BOOLEAN]
      BY DEF DmiTypeOK
    <3> HIDE DEF u, o
    <3>3. ghost'.unbegun = u /\ ghost'.owed = o
      BY <3>1, <3>2
    <3> QED
      BY <3>3 DEF u, o
  <2> QED
    BY <2>2, <2>3, <2>6, <2>7, <2>8 DEF HclkFlops
<1> QED
  BY <1>1, <1>3, <1>5, <1>6

LEMMA EdgesStep ==
  ASSUME NEW s \in TapStates, NEW i \in {1, 2}
  PROVE  LET n == NextStates[s][i] IN
         /\ Edges[s] \in 0 .. 4 /\ Edges[n] \in 0 .. 4
         /\ s # "UPD_DR" => Edges[n] <= Edges[s] + 1
         /\ s = "UPD_DR" => Edges[n] = 0 /\ Edges[s] = 3
         /\ s = "UPD_IR" => Edges[n] = 0 /\ Edges[s] = 4
         /\ s = "TLR" => n \in {"TLR", "RTI"} /\ Edges[n] = 0
         /\ n # "TLR" /\ s # "UPD_IR" => (s = "TLR" => n = "RTI")
BY DEF TapStates, NextStates, Edges

(* What a tck edge does to the crossing, be it a TAP clock or not.         *)
TckStep(launch, hardreset) ==
  /\ TckFlops(launch, hardreset)
  /\ since = RATIO /\ rst.tck = 2
  /\ launch => tap.state = "UPD_DR" /\ tap.ir = "DMI" /\ ~hardreset /\ ~t.inflight
  /\ hardreset => tap.state = "UPD_DR" /\ tap.ir = "DTMCS" /\ ~launch
  /\ tap.state = "TLR" => /\ tap'.state \in {"TLR", "RTI"}
                          /\ tap.state # tap'.state => tap'.ir = "IDCODE"
  /\ ResetPhase => tap'.ir = "IDCODE"
  /\ SinceReq \in 0 .. 4 /\ SinceReq' \in 0 .. 4
  /\ SinceReq' <= SinceReq + 1
  /\ launch \/ hardreset => SinceReq' = 0 /\ SinceReq = 3
  /\ SinceHardreset \in 0 .. 9 /\ SinceHardreset' \in 0 .. 9
  /\ SinceHardreset' <= SinceHardreset + 1
  /\ hardreset => SinceHardreset' = 0 /\ SinceHardreset = 3
  /\ launch => SinceHardreset = 8
  /\ ghost'.wanted <=> launch \/ (ghost.wanted /\ ~(hardreset /\ t.inflight))
  /\ ghost'.unbegun <=> launch \/ ghost.unbegun
  /\ launch \/ hardreset => ~ghost'.owed
  /\ ~hardreset /\ t.inflight => ghost'.owed = ghost.owed

LEMMA TapClockStep ==
  ASSUME TypeOK, CrossInv, NEW tms \in BOOLEAN, NEW d \in Contents, TapClock(tms, d)
  PROVE  TckStep(dmi_launch(d), dmi_hardreset(d))
<1> DEFINE L == dmi_launch(d)
           H == dmi_hardreset(d)
           i == IF tms THEN 2 ELSE 1
           n == NextStates[tap.state][i]
<1>1. L \in BOOLEAN /\ H \in BOOLEAN /\ dmireset(d) \in BOOLEAN
  BY ContentsType DEF dmi_launch, dmi_hardreset, dmireset, dmi_op_active, Content
<1>2. TckFlops(L, H)
  BY <1>1, TckSideFlops DEF TapClock, TypeOK
<1>3. since = RATIO /\ rst.tck = 2
  BY DEF TapClock
<1>4. /\ L => tap.state = "UPD_DR" /\ tap.ir = "DMI" /\ ~t.inflight
      /\ H => tap.state = "UPD_DR" /\ tap.ir = "DTMCS"
      /\ dmireset(d) => tap.state = "UPD_DR" /\ tap.ir = "DTMCS"
      /\ ~(L /\ H)
  BY DEF dmi_launch, dmi_hardreset, dmireset
<1>5. /\ tap'.state = n
      /\ tap.state = "TLR" => tap'.ir = "IDCODE"
      /\ tap.state \notin {"TLR", "UPD_IR"} => tap'.ir = tap.ir
  <2> DEFINE sh == \/ tap.state \in {"SHF_DR", "SHF_IR"}
                   \/ /\ tap.shifted
                      /\ tap.state \notin {"CAP_DR", "CAP_IR", "UPD_DR", "UPD_IR"}
             st == CASE tap.state = "CAP_DR" -> combined_status
                     [] tap.state = "UPD_DR" -> 0
                     [] OTHER -> tap.status
  <2>1. PICK ir \in IrNext :
          tap' = [state |-> n, ir |-> ir, shifted |-> sh, status |-> st]
    BY DEF TapClock, TapRegs
  <2>2. /\ tap.state = "TLR" => ir = "IDCODE"
        /\ tap.state \notin {"TLR", "UPD_IR"} => ir = tap.ir
    BY <2>1 DEF IrNext
  <2> HIDE DEF n, sh, st
  <2>3. tap'.state = n /\ tap'.ir = ir
    BY <2>1
  <2> QED
    BY <2>2, <2>3
<1>6. tap.state \in TapStates /\ i \in {1, 2}
  BY DEF TypeOK
<1>7. /\ Edges[tap.state] \in 0 .. 4 /\ Edges[n] \in 0 .. 4
      /\ tap.state # "UPD_DR" => Edges[n] <= Edges[tap.state] + 1
      /\ tap.state = "UPD_DR" => Edges[n] = 0 /\ Edges[tap.state] = 3
      /\ tap.state = "UPD_IR" => Edges[n] = 0 /\ Edges[tap.state] = 4
      /\ tap.state = "TLR" => n \in {"TLR", "RTI"} /\ Edges[n] = 0
  BY <1>6, EdgesStep
<1>8. /\ ghost'.wanted <=> L \/ (ghost.wanted /\ ~(H /\ t.inflight))
      /\ ghost'.unbegun <=> L \/ ghost.unbegun
      /\ ghost'.owed = (ghost.owed /\ ~H /\ ~L /\ ~(dmireset(d) /\ err.sticky = 2))
  <2> DEFINE w == L \/ (ghost.wanted /\ ~(H /\ t.inflight))
             u == L \/ ghost.unbegun
             o == ghost.owed /\ ~H /\ ~L /\ ~(dmireset(d) /\ err.sticky = 2)
  <2>1. ghost' = [wanted |-> w, unbegun |-> u, owed |-> o]
    BY DEF TapClock, History
  <2> HIDE DEF w, u, o
  <2>3. ghost'.wanted = w /\ ghost'.unbegun = u /\ ghost'.owed = o
    BY <2>1
  <2> QED
    BY <2>3 DEF w, u, o
<1>9. t.inflight => err.sticky # 2
  BY DEF CrossInv, FailureInv
<1>10. ResetPhase => tap.state = "TLR"
  BY <1>3, RatioAssumption DEF ResetPhase, CrossInv, ResetInv
<1> HIDE DEF n, i, L, H
<1>11. SinceReq = Edges[tap.state] /\ SinceReq' = Edges[n]
  BY <1>5 DEF SinceReq
<1>12. /\ SinceHardreset = Edges[tap.state] + IF tap.ir = "DMI" /\ tap.state # "TLR" THEN 5 ELSE 0
       /\ SinceHardreset' = Edges[n] + IF tap'.ir = "DMI" /\ n # "TLR" THEN 5 ELSE 0
  BY <1>5 DEF SinceHardreset
<1>13. /\ SinceHardreset \in 0 .. 9 /\ SinceHardreset' \in 0 .. 9
       /\ SinceHardreset' <= SinceHardreset + 1
       /\ H => SinceHardreset' = 0 /\ SinceHardreset = 3
       /\ L => SinceHardreset = 8
  BY <1>4, <1>5, <1>7, <1>12
<1>14. /\ L => /\ tap.state = "UPD_DR" /\ tap.ir = "DMI" /\ ~H /\ ~t.inflight
       /\ H => /\ tap.state = "UPD_DR" /\ tap.ir = "DTMCS" /\ ~L
       /\ tap.state = "TLR" => /\ tap'.state \in {"TLR", "RTI"}
                               /\ tap.state # tap'.state => tap'.ir = "IDCODE"
       /\ ResetPhase => tap'.ir = "IDCODE"
  BY <1>4, <1>5, <1>7, <1>10
<1>15. /\ SinceReq \in 0 .. 4 /\ SinceReq' \in 0 .. 4
       /\ SinceReq' <= SinceReq + 1
       /\ L \/ H => SinceReq' = 0 /\ SinceReq = 3
  BY <1>4, <1>7, <1>11
<1>16. TckStep(L, H)
  <2>1. /\ L \/ H => ~ghost'.owed
        /\ ~H /\ t.inflight => ghost'.owed = ghost.owed
    <3>1. ghost.owed \in BOOLEAN
      BY Flops DEF TypeOK
    <3> QED
      BY <1>4, <1>8, <1>9, <3>1
  <2> QED
    BY <1>2, <1>3, <1>8, <1>13, <1>14, <1>15, <2>1 DEF TckStep
<1> QED
  BY <1>16 DEF L, H

LEMMA TckOnlyStep ==
  ASSUME TypeOK, CrossInv, TckOnly
  PROVE  TckStep(FALSE, FALSE)
<1>1. TckFlops(FALSE, FALSE)
  BY TckSideFlops DEF TckOnly, TypeOK
<1>2. UNCHANGED <<tap, ghost>> /\ since = RATIO /\ rst.tck = 2
  BY DEF TckOnly
<1>3. Edges[tap.state] \in 0 .. 4 /\ tap.state \in TapStates
  <2>1. tap.state \in TapStates /\ 1 \in {1, 2}
    BY DEF TypeOK
  <2> QED
    BY <2>1, EdgesStep
<1>4. SinceReq \in 0 .. 4 /\ SinceReq' = SinceReq
  BY <1>2, <1>3 DEF SinceReq
<1>5. SinceHardreset \in 0 .. 9 /\ SinceHardreset' = SinceHardreset
  BY <1>2, <1>3 DEF SinceHardreset
<1>6. ResetPhase => tap.ir = "IDCODE"
  BY DEF CrossInv, ResetInv
<1>7. SinceReq' <= SinceReq + 1 /\ SinceHardreset' <= SinceHardreset + 1
  BY <1>4, <1>5
<1>8. /\ ghost'.wanted = ghost.wanted /\ ghost'.unbegun = ghost.unbegun
      /\ ghost'.owed = ghost.owed /\ tap' = tap
  BY <1>2
<1> QED
  BY <1>1, <1>2, <1>4, <1>5, <1>6, <1>7, <1>8 DEF TckStep

LEMMA TckKeepsReset ==
  ASSUME TypeOK, TypeOK', CrossInv, NEW L \in BOOLEAN, NEW H \in BOOLEAN, TckStep(L, H)
  PROVE  ResetInv'
<1>1. ResetInv
  BY DEF CrossInv
<1>2. rst.hclk = 2 /\ rst.tck = 2 /\ rst' = rst /\ since' = 0
  BY <1>1, RatioAssumption DEF ResetInv, TckStep, TckFlops
<1>3. tap.state # "TLR" => ~ResetPhase
  BY <1>1, <1>2, RatioAssumption DEF ResetInv, ResetPhase, TckStep
<1>4. ResetPhase => ~L /\ ~H
  BY <1>3 DEF TckStep
<1>5. ResetPhase <=> ResetPhase'
  BY <1>2 DEF ResetPhase
<1>6. tap'.state \notin {"TLR", "RTI"} => rst'.align
  BY <1>1, <1>2, RatioAssumption DEF ResetInv, TckStep
<1>7. ResetPhase' => /\ tap'.ir = "IDCODE"
                     /\ ~t'.inflight /\ ~ghost'.wanted /\ ~level'["req"] /\ ~level'["hardreset"]
  BY <1>1, <1>4, <1>5 DEF ResetInv, TckStep, TckFlops
<1>8. ResetPhase' => "req" \notin unsettled' /\ "hardreset" \notin unsettled'
  BY <1>1, <1>2, <1>4, <1>5 DEF ResetInv, TckStep, TckFlops
<1>9. rst'.hclk = 2 /\ ~rst'.align =>
       /\ ~h'.req.meta /\ ~h'.req.d /\ (CLK_ARST_EN => ~h'.req.sync)
       /\ ~h'.hardreset.meta /\ ~h'.hardreset.d /\ (CLK_ARST_EN => ~h'.hardreset.sync)
       /\ h'.state = "IDLE" /\ ~level'["ack"]
  BY <1>1, <1>2 DEF ResetInv, TckStep, TckFlops
<1> QED
  BY <1>2, <1>6, <1>7, <1>8, <1>9 DEF ResetInv

(* A tck edge without a launch moves the count on by at most one, and a    *)
(* level has passed no fewer flops than before.                            *)
LEMMA PassedLater ==
  ASSUME NEW l, NEW s, NEW m \in Int, NEW n \in Int, n <= m, Passed(l, s, m)
  PROVE  Passed(l, s, n)
BY DEF Passed

LEMMA TckKeepsDelay ==
  ASSUME TypeOK, TypeOK', CrossInv, NEW L \in BOOLEAN, NEW H \in BOOLEAN, TckStep(L, H)
  PROVE  DelayInv'
<1> SUFFICES ASSUME tap'.state # "TLR"
             PROVE  /\ Passed("req", h.req, SoFar(SinceReq))'
                    /\ Passed("hardreset", h.hardreset, SoFar(SinceHardreset))'
  BY DEF DelayInv
<1>1. /\ SoFar(SinceReq) = SinceReq + 1 /\ SoFar(SinceReq)' = SinceReq'
      /\ SoFar(SinceHardreset) = SinceHardreset + 1
      /\ SoFar(SinceHardreset)' = SinceHardreset'
  BY RatioAssumption DEF SoFar, TckStep, TckFlops
<1>2. /\ SinceReq \in 0 .. 4 /\ SinceReq' \in 0 .. 4 /\ SinceReq' <= SinceReq + 1
      /\ SinceHardreset \in 0 .. 9 /\ SinceHardreset' \in 0 .. 9
      /\ SinceHardreset' <= SinceHardreset + 1
  BY DEF TckStep
<1>3. h'.req = h.req /\ h'.hardreset = h.hardreset
  BY DEF TckStep, TckFlops
<1>4. CASE tap.state = "TLR"
  <2>1. tap'.ir = "IDCODE" /\ tap'.state = "RTI"
    BY <1>4 DEF TckStep
  <2>2. SinceReq' = 0 /\ SinceHardreset' = 0
    BY <2>1 DEF SinceReq, SinceHardreset, Edges
  <2> QED
    BY <1>1, <2>2 DEF Passed
<1>5. CASE tap.state # "TLR"
  <2>1. /\ Passed("req", h.req, SinceReq + 1)
        /\ Passed("hardreset", h.hardreset, SinceHardreset + 1)
    BY <1>1, <1>5 DEF CrossInv, DelayInv
  <2>2. /\ Passed("req", h.req, SinceReq')
        /\ Passed("hardreset", h.hardreset, SinceHardreset')
    BY <1>2, <2>1, PassedLater
  <2>3. Passed("req", h.req, SoFar(SinceReq))'
    <3>1. CASE L
      BY <1>1, <3>1 DEF Passed, TckStep
    <3>2. CASE ~L
      <4>1. level'["req"] = level["req"] /\ ("req" \in unsettled' <=> "req" \in unsettled)
        BY <3>2, Flops, FlopsAfter DEF TckStep, TckFlops, TypeOK
      <4> QED
        BY <1>1, <1>3, <2>2, <4>1 DEF Passed
    <3> QED
      BY <3>1, <3>2
  <2>4. Passed("hardreset", h.hardreset, SoFar(SinceHardreset))'
    <3>1. CASE H
      BY <1>1, <3>1 DEF Passed, TckStep
    <3>2. CASE ~H
      <4>1. level'["hardreset"] = level["hardreset"]
            /\ ("hardreset" \in unsettled' <=> "hardreset" \in unsettled)
        BY <3>2, Flops, FlopsAfter DEF TckStep, TckFlops, TypeOK
      <4> QED
        BY <1>1, <1>3, <2>2, <4>1 DEF Passed
    <3> QED
      BY <3>1, <3>2
  <2> QED
    BY <2>3, <2>4
<1> QED
  BY <1>4, <1>5

(* At an Update-DR everything that crossed before has arrived: a launch    *)
(* finds all three chains at rest and the APB side idle, a hardreset finds *)
(* its own chain and the request's at rest.                                *)
LEMMA AtUpdate ==
  ASSUME TypeOK, CrossInv, NEW L \in BOOLEAN, NEW H \in BOOLEAN, TckStep(L, H), L \/ H
  PROVE  /\ ~ResetPhase
         /\ Passed("req", h.req, 4) /\ Passed("hardreset", h.hardreset, 4)
         /\ L => Passed("ack", t.ack, 4) /\ h.state = "IDLE"
<1>1. tap.state = "UPD_DR" /\ since > 0
  BY RatioAssumption DEF TckStep
<1>2. ~ResetPhase
  <2>1. rst.hclk = 2 /\ rst.align
    BY <1>1 DEF CrossInv, ResetInv
  <2> QED
    BY <2>1 DEF ResetPhase
<1>3. SinceReq = 3 /\ SinceHardreset >= 3 /\ SinceHardreset \in Int
  BY DEF TckStep
<1>4. SoFar(SinceReq) = 4 /\ SoFar(SinceHardreset) >= 4 /\ SoFar(SinceHardreset) \in Int
  BY <1>1, <1>3 DEF SoFar
<1>5. Passed("req", h.req, 4) /\ Passed("hardreset", h.hardreset, 4)
  BY <1>1, <1>4 DEF CrossInv, DelayInv, Passed
<1>6. L => Passed("ack", t.ack, 4)
  <2>1. L => ~t.inflight /\ SinceHardreset = 8
    BY DEF TckStep
  <2> QED
    BY <2>1 DEF CrossInv, AckInv, Passed
<1>7. L => h.state = "IDLE"
  BY <1>2, <1>5 DEF CrossInv, LinkInv, HardresetPending, Passed, TckStep
<1> QED
  BY <1>2, <1>5, <1>6, <1>7

LEMMA TckKeepsToggle ==
  ASSUME TypeOK, TypeOK', CrossInv, NEW L \in BOOLEAN, NEW H \in BOOLEAN, TckStep(L, H)
  PROVE  ToggleInv'
<1>1. ToggleInv
  BY DEF CrossInv
<1>2. ResetPhase <=> ResetPhase'
  BY DEF ResetPhase, TckStep, TckFlops
<1>3. ASSUME ~ResetPhase PROVE OneChange("req", h.req)'
  <2>1. CASE L
    <3>1. Passed("req", h.req, 4)
      BY <2>1, AtUpdate
    <3>2. level'["req"] # level["req"]
      BY <2>1, Flops, FlopsAfter DEF TckStep, TckFlops, TypeOK
    <3> QED
      BY <3>1, <3>2 DEF Passed, OneChange, TckStep, TckFlops
  <2>2. CASE ~L
    <3>1. level'["req"] = level["req"] /\ ("req" \in unsettled' <=> "req" \in unsettled)
      BY <2>2, Flops, FlopsAfter DEF TckStep, TckFlops, TypeOK
    <3> QED
      BY <1>1, <1>3, <3>1 DEF ToggleInv, OneChange, TckStep, TckFlops
  <2> QED
    BY <2>1, <2>2
<1>4. ASSUME ~ResetPhase PROVE OneChange("hardreset", h.hardreset)'
  <2>1. CASE H
    <3>1. Passed("hardreset", h.hardreset, 4)
      BY <2>1, AtUpdate
    <3>2. level'["hardreset"] # level["hardreset"]
      BY <2>1, Flops, FlopsAfter DEF TckStep, TckFlops, TypeOK
    <3> QED
      BY <3>1, <3>2 DEF Passed, OneChange, TckStep, TckFlops
  <2>2. CASE ~H
    <3>1. /\ level'["hardreset"] = level["hardreset"]
          /\ "hardreset" \in unsettled' <=> "hardreset" \in unsettled
      BY <2>2, Flops, FlopsAfter DEF TckStep, TckFlops, TypeOK
    <3> QED
      BY <1>1, <1>4, <3>1 DEF ToggleInv, OneChange, TckStep, TckFlops
  <2> QED
    BY <2>1, <2>2
<1>5. ASSUME t'.inflight PROVE OneChange("ack", t.ack)'
  <2>1. level'["ack"] = level["ack"] /\ "ack" \notin unsettled'
        /\ t'.ack.sync = t.ack.meta /\ t'.ack.d = t.ack.sync
        /\ ("ack" \notin unsettled => t'.ack.meta = level["ack"])
    BY DEF TckStep, TckFlops
  <2>2. CASE L
    <3>1. Passed("ack", t.ack, 4)
      BY <2>2, AtUpdate
    <3> QED
      BY <2>1, <3>1 DEF Passed, OneChange
  <2>3. CASE ~L
    <3>1. t.inflight /\ OneChange("ack", t.ack)
      BY <1>1, <1>5, <2>3 DEF ToggleInv, TckStep, TckFlops
    <3> QED
      BY <2>1, <3>1, Flops, FlopsAfter DEF OneChange, TypeOK
  <2> QED
    BY <2>2, <2>3
<1> QED
  BY <1>2, <1>3, <1>4, <1>5 DEF ToggleInv

LEMMA TckKeepsBegun ==
  ASSUME TypeOK, TypeOK', CrossInv, NEW L \in BOOLEAN, NEW H \in BOOLEAN, TckStep(L, H)
  PROVE  BegunInv'
<1>1. BegunInv /\ (ghost'.unbegun <=> L \/ ghost.unbegun) /\ h'.req = h.req
      /\ rst' = rst
  BY DEF CrossInv, TckStep, TckFlops
<1>2. ~L => level'["req"] = level["req"]
  BY Flops, FlopsAfter DEF TckStep, TckFlops, TypeOK
<1> QED
  BY <1>1, <1>2 DEF BegunInv, hclk_in_reset, EdgeOf, ResetPhase, ReqPending

(* An acknowledge edge comes only while no request is on its way or at the *)
(* slave.                                                                  *)
LEMMA AckEdge ==
  ASSUME TypeOK, CrossInv, EdgeOf(t.ack)
  PROVE  /\ ResetPhase \/ (~ReqPending /\ h.state = "IDLE")
         /\ ~t.inflight => ~ghost.wanted
         /\ t.inflight => AckPending /\ t.ack.sync = level["ack"] /\ "ack" \notin unsettled
BY Flops DEF CrossInv, AckInv, ToggleInv, LinkInv, Passed, OneChange, EdgeOf, AckPending, TypeOK

LEMMA TckKeepsLink ==
  ASSUME TypeOK, TypeOK', CrossInv, NEW L \in BOOLEAN, NEW H \in BOOLEAN, TckStep(L, H)
  PROVE  LinkInv'
<1> DEFINE edge == EdgeOf(t.ack)
<1>1. LinkInv /\ (ResetPhase <=> ResetPhase')
  BY DEF CrossInv, ResetPhase, TckStep, TckFlops
<1>2. /\ ~L => (t'.inflight <=> t.inflight /\ ~edge /\ ~H)
      /\ L => ~H /\ ~t.inflight /\ t'.inflight
      /\ h'.state = h.state /\ "ack" \notin unsettled'
      /\ ghost'.wanted <=> L \/ (ghost.wanted /\ ~(H /\ t.inflight))
  BY Flops DEF TckStep, TckFlops, TypeOK
<1>3. /\ ReqPending' <=> IF L THEN ~ReqPending ELSE ReqPending
      /\ HardresetPending' <=> IF H THEN ~HardresetPending ELSE HardresetPending
  BY Flops, FlopsAfter DEF TckStep, TckFlops, ReqPending, HardresetPending, TypeOK
<1>4. ~edge => (t'.ack.d = t.ack.d /\ (AckPending' <=> AckPending))
  BY Flops, FlopsAfter DEF TckStep, TckFlops, AckPending, EdgeOf, TypeOK
<1>5. L \/ H => ~ReqPending /\ ~HardresetPending
  BY AtUpdate DEF Passed, ReqPending, HardresetPending
<1>6. L => h.state = "IDLE" /\ ~ResetPhase
  BY AtUpdate
<1>7. edge => ResetPhase \/ (~ReqPending /\ h.state = "IDLE")
  BY AckEdge
<1> HIDE DEF edge
<1>8. t'.inflight =>
        /\ ghost'.wanted /\ ~ResetPhase' /\ ~HardresetPending'
        /\ ReqPending' \/ h'.state # "IDLE" \/ AckPending'
        /\ ~(ReqPending' /\ h'.state # "IDLE")
  <2>1. CASE L
    BY <1>1, <1>2, <1>3, <1>5, <1>6, <2>1
  <2>2. CASE ~L
    BY <1>1, <1>2, <1>3, <1>4, <2>2 DEF LinkInv
  <2> QED
    BY <2>1, <2>2
<1>9. ~ResetPhase' /\ ~t'.inflight =>
        /\ ~ReqPending'
        /\ h'.state # "IDLE" => HardresetPending'
  <2>1. CASE t.inflight
    BY <1>1, <1>2, <1>3, <1>5, <1>7, <2>1
  <2>2. CASE ~t.inflight
    BY <1>1, <1>2, <1>3, <1>5, <2>2 DEF LinkInv
  <2> QED
    BY <2>1, <2>2
<1> QED
  BY <1>2, <1>8, <1>9 DEF LinkInv

LEMMA TckKeepsAck ==
  ASSUME TypeOK, TypeOK', CrossInv, NEW L \in BOOLEAN, NEW H \in BOOLEAN, TckStep(L, H)
  PROVE  AckInv'
<1>1. AckInv /\ (ResetPhase <=> ResetPhase')
  BY DEF CrossInv, ResetPhase, TckStep, TckFlops
<1>2. /\ "ack" \notin unsettled => t'.ack.meta = level["ack"]
      /\ t'.ack.sync = t.ack.meta /\ t'.ack.d = t.ack.sync
      /\ level'["ack"] = level["ack"] /\ "ack" \notin unsettled'
      /\ ~L => (t'.inflight <=> t.inflight /\ ~EdgeOf(t.ack) /\ ~H)
      /\ L => t'.inflight
      /\ ghost'.wanted <=> L \/ (ghost.wanted /\ ~(H /\ t.inflight))
      /\ h'.state = h.state
  BY Flops DEF TckStep, TckFlops, TypeOK
<1>3. Passed("ack", t.ack, 4) => Passed("ack", t.ack, 4)'
  BY <1>2 DEF Passed
<1>4. t.inflight /\ EdgeOf(t.ack) => Passed("ack", t.ack, 4)'
  <2> SUFFICES ASSUME t.inflight, EdgeOf(t.ack) PROVE Passed("ack", t.ack, 4)'
    OBVIOUS
  <2>1. OneChange("ack", t.ack) /\ t.ack.sync = level["ack"] /\ "ack" \notin unsettled
    BY AckEdge DEF CrossInv, ToggleInv
  <2> QED
    BY <1>2, <2>1 DEF Passed, OneChange
<1>5. ~t'.inflight => Passed("ack", t.ack, SinceHardreset - 2)'
  <2> SUFFICES ASSUME ~t'.inflight PROVE Passed("ack", t.ack, SinceHardreset - 2)'
    OBVIOUS
  <2>1. CASE Passed("ack", t.ack, 4)'
    BY <2>1 DEF Passed
  <2>2. CASE ~Passed("ack", t.ack, 4)'
    <3>1. ~L /\ (t.inflight => H)
      BY <1>2, <1>4, <2>2
    <3>2. CASE H
      <4>1. SinceHardreset' = 0
        BY <3>2 DEF TckStep
      <4> QED
        BY <4>1 DEF Passed
    <3>3. CASE ~t.inflight
      <4>1. Passed("ack", t.ack, SinceHardreset - 2)
        BY <1>1, <3>3 DEF AckInv
      <4>2. PICK m \in 0 .. 9, n \in 0 .. 9 :
              m = SinceHardreset /\ n = SinceHardreset' /\ n <= m + 1
        BY DEF TckStep
      <4>3. Passed("ack", t.ack, m - 2)
        BY <4>1, <4>2
      <4>4. /\ n - 2 >= 1 => "ack" \notin unsettled'
            /\ n - 2 >= 2 => t'.ack.meta = level'["ack"]
            /\ n - 2 >= 3 => t'.ack.sync = level'["ack"]
            /\ n - 2 >= 4 => t'.ack.d = level'["ack"]
        <5>1. /\ n - 2 >= 2 => m - 2 >= 1
              /\ n - 2 >= 3 => m - 2 >= 2
              /\ n - 2 >= 4 => m - 2 >= 3
          <6>1. n <= m + 1
            BY <4>2
          <6> QED
            BY <6>1
        <5>2. /\ n - 2 >= 2 => "ack" \notin unsettled
              /\ n - 2 >= 3 => t.ack.meta = level["ack"]
              /\ n - 2 >= 4 => t.ack.sync = level["ack"]
          BY <4>3, <5>1 DEF Passed
        <5> QED
          BY <1>2, <5>2
      <4> QED
        BY <4>2, <4>4 DEF Passed
    <3> QED
      BY <3>1, <3>2, <3>3
  <2> QED
    BY <2>1, <2>2
<1>6. ~t'.inflight /\ ghost'.wanted => Passed("ack", t.ack, 4)'
  BY <1>1, <1>2, <1>3, <1>4 DEF AckInv
<1>7. ~ResetPhase' /\ (ReqPending' \/ h'.state # "IDLE") => Passed("ack", t.ack, 4)'
  <2>1. CASE L
    BY <1>3, <2>1, AtUpdate
  <2>2. CASE ~L
    <3>1. ReqPending' <=> ReqPending
      BY <2>2, Flops, FlopsAfter DEF TckStep, TckFlops, ReqPending, TypeOK
    <3> QED
      BY <1>1, <1>2, <1>3, <3>1 DEF AckInv
  <2> QED
    BY <2>1, <2>2
<1> QED
  BY <1>5, <1>6, <1>7 DEF AckInv

LEMMA TckKeepsAnswer ==
  ASSUME TypeOK, TypeOK', CrossInv, NEW L \in BOOLEAN, NEW H \in BOOLEAN, TckStep(L, H)
  PROVE  AnswerInv'
<1>1. AnswerInv
  BY DEF CrossInv
<1>2. /\ ~L => (t'.inflight <=> t.inflight /\ ~EdgeOf(t.ack) /\ ~H)
      /\ L => t'.inflight
      /\ ghost'.wanted <=> L \/ (ghost.wanted /\ ~(H /\ t.inflight))
      /\ L \/ H => ~ghost'.owed
      /\ ~H /\ t.inflight => ghost'.owed = ghost.owed
      /\ h'.state = h.state /\ h'.rsp_stat = h.rsp_stat
      /\ ~L => h'.hreq = h.hreq /\ h'.rsp = h.rsp
      /\ ~L => t'.rdata = IF EdgeOf(t.ack) THEN h.rsp ELSE t.rdata
  BY Flops DEF TckStep, TckFlops, TypeOK
<1>3. ~t'.inflight /\ ghost'.wanted => t'.rdata = "last" /\ h'.state = "IDLE"
  <2> SUFFICES ASSUME ~t'.inflight, ghost'.wanted
               PROVE  t'.rdata = "last" /\ h'.state = "IDLE"
    OBVIOUS
  <2>1. ~L /\ ghost.wanted
    BY <1>2
  <2>2. CASE t.inflight
    <3>1. EdgeOf(t.ack)
      BY <1>2, <2>1, <2>2
    <3>2. AckPending /\ (ResetPhase \/ h.state = "IDLE")
      BY <2>2, <3>1, AckEdge
    <3>3. ~ResetPhase
      BY <2>2 DEF CrossInv, LinkInv
    <3> QED
      BY <1>1, <1>2, <2>1, <2>2, <3>1, <3>2, <3>3 DEF AnswerInv
  <2>3. CASE ~t.inflight
    <3>1. ~EdgeOf(t.ack)
      BY <2>1, <2>3, AckEdge
    <3> QED
      BY <1>1, <1>2, <2>1, <2>3, <3>1 DEF AnswerInv
  <2> QED
    BY <2>2, <2>3
<1>4. t'.inflight /\ h'.state # "IDLE" => h'.hreq = "last" /\ ~ghost'.owed
  <2>1. CASE L
    BY <1>2, <2>1, AtUpdate
  <2>2. CASE ~L
    BY <1>1, <1>2, <2>2 DEF AnswerInv
  <2> QED
    BY <2>1, <2>2
<1>5. t'.inflight /\ ReqPending' => ~ghost'.owed
  <2>1. CASE L
    BY <1>2, <2>1
  <2>2. CASE ~L
    <3>1. ReqPending' <=> ReqPending
      BY <2>2, Flops, FlopsAfter DEF TckStep, TckFlops, ReqPending, TypeOK
    <3> QED
      BY <1>1, <1>2, <2>2, <3>1 DEF AnswerInv
  <2> QED
    BY <2>1, <2>2
<1>6. t'.inflight /\ AckPending' =>
        h'.rsp = "last" /\ (ghost'.owed <=> h'.rsp_stat = "failed")
  <2>1. CASE L
    <3>1. Passed("ack", t.ack, 4)
      BY <2>1, AtUpdate
    <3> QED
      BY <3>1 DEF Passed, AckPending, TckStep, TckFlops
  <2>2. CASE ~L
    <3>1. t'.inflight => t.inflight /\ ~H /\ (AckPending' <=> AckPending)
      BY <1>2, <2>2, Flops, FlopsAfter DEF TckStep, TckFlops, AckPending, EdgeOf, TypeOK
    <3> QED
      BY <1>1, <1>2, <2>2, <3>1 DEF AnswerInv
  <2> QED
    BY <2>1, <2>2
<1>7. slave'.kind = "dm" /\ slave'.owes # "none" =>
        h'.state = "IDLE" \/ (h'.state = "ACCESS" /\ slave'.owes = h'.hreq)
  BY <1>1 DEF AnswerInv, TckStep, TckFlops
<1> QED
  BY <1>3, <1>4, <1>5, <1>6, <1>7 DEF AnswerInv

(* An hclk edge at which the hclk side is out of reset for good, and one   *)
(* at which it leaves its reset: everything that crosses is at rest.       *)
LEMMA HclkPhases ==
  ASSUME TypeOK, CrossInv, Hclk
  PROVE  /\ HclkCommon
         /\ ResetPhase' => ResetPhase
         /\ ResetPhase /\ ~ResetPhase' => rst.hclk = 2 /\ ~rst.align
         /\ hclk_in_reset => ResetPhase
<1>1. HclkCommon
  BY HclkStepFlops DEF TypeOK
<1>2. rst.hclk \in 0 .. 2
  BY Flops DEF TypeOK
<1> QED
  BY <1>1, <1>2 DEF HclkCommon, ResetPhase, hclk_in_reset

LEMMA HclkLeavesReset ==
  ASSUME TypeOK, TypeOK', CrossInv, Hclk, rst.hclk = 2, ~rst.align
  PROVE  /\ ~h'.req.meta /\ ~h'.req.sync /\ ~h'.req.d /\ ~level'["req"]
         /\ ~h'.hardreset.meta /\ ~h'.hardreset.sync /\ ~h'.hardreset.d /\ ~level'["hardreset"]
         /\ h'.state = "IDLE" /\ ~level["ack"] /\ ~level'["ack"]
         /\ ~h.req.meta
         /\ "ack" \in unsettled' => "ack" \in unsettled
<1>1. /\ ~h.req.meta /\ ~h.req.d /\ (CLK_ARST_EN => ~h.req.sync)
      /\ ~h.hardreset.meta /\ ~h.hardreset.d /\ (CLK_ARST_EN => ~h.hardreset.sync)
      /\ h.state = "IDLE" /\ ~level["ack"]
      /\ ~level["req"] /\ ~level["hardreset"]
      /\ "req" \notin unsettled /\ "hardreset" \notin unsettled
  BY DEF CrossInv, ResetInv, ResetPhase
<1>2. HclkCommon
  BY HclkPhases
<1>3. CASE hclk_in_reset
  <2>1. HclkResetFlops
    BY <1>3, HclkStepFlops DEF TypeOK
  <2> QED
    BY <1>1, <1>2, <2>1 DEF HclkResetFlops, HclkCommon
<1>4. CASE ~hclk_in_reset
  <2>1. PICK a \in Answers : HclkFlops(a)
    BY <1>4, HclkStepFlops DEF TypeOK
  <2>2. CLK_ARST_EN
    BY <1>4, SlaveAssumption DEF hclk_in_reset
  <2>3. ~EdgeOf(h.req) /\ ~Retires(a)
    BY <1>1, <2>2, Flops DEF EdgeOf, Retires, dmi_penable, TypeOK
  <2>4. h'.state = "IDLE"
    BY <1>1, <2>1, <2>3 DEF HclkFlops, state_nxt, req_h_edge
  <2> QED
    BY <1>1, <1>2, <2>1, <2>2, <2>3, <2>4 DEF HclkFlops, HclkCommon
<1> QED
  BY <1>3, <1>4

LEMMA HclkRuns ==
  ASSUME TypeOK, CrossInv, Hclk, ~ResetPhase
  PROVE  /\ ~ResetPhase'
         /\ \E a \in Answers : HclkFlops(a)
BY HclkPhases, HclkStepFlops DEF TypeOK

LEMMA HclkKeepsReset ==
  ASSUME TypeOK, TypeOK', CrossInv, Hclk
  PROVE  ResetInv'
<1>1. ResetInv /\ HclkCommon /\ (ResetPhase' => ResetPhase)
  BY HclkPhases DEF CrossInv
<1>2. rst.hclk \in 0 .. 2 /\ rst.tck \in 0 .. 2
  BY Flops DEF TypeOK
<1>3. /\ rst'.tck = rst.tck /\ t' = t /\ tap' = tap
      /\ rst'.hclk < 2 => rst.hclk < 2
      /\ rst'.hclk >= 1
      /\ rst.hclk >= 1 => rst'.hclk = 2
      /\ rst.hclk = 2 => rst'.align
      /\ rst'.hclk = 1 => ~rst'.align
  BY <1>1, <1>2 DEF HclkCommon
<1>4. /\ rst'.tck < 2 => tap'.state = "TLR"
      /\ rst'.tck < 2 \/ rst'.hclk < 2 => ~t'.ack.meta /\ ~t'.ack.sync /\ ~t'.ack.d
      /\ rst'.hclk = 1 => ~rst'.align
      /\ rst'.tck = 1 /\ since' > 0 => rst'.hclk >= 1
      /\ rst'.tck = 2 => rst'.hclk >= 1
      /\ rst'.tck = 2 /\ since' > 0 => rst'.hclk = 2
      /\ tap'.state # "TLR" => rst'.hclk = 2
      /\ tap'.state = "RTI" /\ since' > 0 => rst'.align
      /\ tap'.state \notin {"TLR", "RTI"} => rst'.align
  BY <1>1, <1>2, <1>3 DEF ResetInv
<1>5. ResetPhase' => /\ tap'.ir = "IDCODE"
                     /\ ~t'.inflight /\ ~ghost'.wanted /\ ~level'["req"] /\ ~level'["hardreset"]
  BY <1>1 DEF ResetInv, HclkCommon
<1>6. "req" \notin unsettled' /\ "hardreset" \notin unsettled'
  BY <1>1 DEF HclkCommon
<1>7. ASSUME rst'.hclk = 2, ~rst'.align
      PROVE  /\ ~h'.req.meta /\ ~h'.req.d /\ (CLK_ARST_EN => ~h'.req.sync)
             /\ ~h'.hardreset.meta /\ ~h'.hardreset.d /\ (CLK_ARST_EN => ~h'.hardreset.sync)
             /\ h'.state = "IDLE" /\ ~level'["ack"]
  <2>1. rst.hclk = 1
    BY <1>1, <1>2, <1>7 DEF HclkCommon
  <2>2. hclk_in_reset
    BY <1>1, <2>1 DEF ResetInv, hclk_in_reset
  <2> QED
    BY <2>2, HclkStepFlops DEF HclkResetFlops, TypeOK
<1> QED
  BY <1>4, <1>5, <1>6, <1>7 DEF ResetInv

LEMMA HclkKeepsDelay ==
  ASSUME TypeOK, TypeOK', CrossInv, Hclk
  PROVE  DelayInv'
<1> SUFFICES ASSUME tap.state # "TLR"
             PROVE  /\ Passed("req", h.req, SoFar(SinceReq))'
                    /\ Passed("hardreset", h.hardreset, SoFar(SinceHardreset))'
  BY HclkPhases DEF DelayInv, HclkCommon
<1>1. HclkCommon
  BY HclkPhases
<1>2. PICK r \in 0 .. 4, q \in 0 .. 9 : r = SinceReq /\ q = SinceHardreset
  <2>1. Edges[tap.state] \in 0 .. 4
    BY EdgesStep DEF TypeOK
  <2> QED
    BY <2>1 DEF SinceReq, SinceHardreset
<1>3. SinceReq' = r /\ SinceHardreset' = q
  BY <1>1, <1>2 DEF HclkCommon, SinceReq, SinceHardreset
<1>4. since' > 0
  <2>1. since \in 0 .. RATIO /\ since' = IF since < RATIO THEN since + 1 ELSE RATIO
    BY <1>1, Flops DEF HclkCommon, TypeOK
  <2> QED
    BY <2>1, RatioAssumption
<1>5. SoFar(SinceReq)' = r + 1 /\ SoFar(SinceHardreset)' = q + 1
  BY <1>3, <1>4 DEF SoFar
<1>6. CASE ResetPhase
  <2>1. tap.state = "RTI" /\ tap.ir = "IDCODE"
    BY <1>6 DEF CrossInv, ResetInv, ResetPhase
  <2>2. r = 0 /\ q = 0
    BY <1>2, <2>1 DEF SinceReq, SinceHardreset, Edges
  <2>3. SoFar(SinceReq)' = 1 /\ SoFar(SinceHardreset)' = 1
    BY <1>5, <2>2
  <2> QED
    BY <1>1, <2>3 DEF Passed, HclkCommon
<1>7. CASE ~ResetPhase
  <2>1. PICK a \in Answers : HclkFlops(a)
    BY <1>7, HclkRuns
  <2>2. Passed("req", h.req, SoFar(SinceReq)) /\ Passed("hardreset", h.hardreset, SoFar(SinceHardreset))
    BY DEF CrossInv, DelayInv
  <2>3. SoFar(SinceReq) \in {r, r + 1} /\ SoFar(SinceHardreset) \in {q, q + 1}
    BY <1>2 DEF SoFar
  <2>4. Passed("req", h.req, r) /\ Passed("hardreset", h.hardreset, q)
    <3>1. CASE since > 0
      <4>1. Passed("req", h.req, r + 1) /\ Passed("hardreset", h.hardreset, q + 1)
        BY <1>2, <2>2, <3>1 DEF SoFar
      <4> QED
        BY <4>1, PassedLater
    <3>2. CASE ~(since > 0)
      BY <1>2, <2>2, <3>2 DEF SoFar
    <3> QED
      BY <3>1, <3>2
  <2>5. /\ r + 1 >= 1 => "req" \notin unsettled'
        /\ r + 1 >= 2 => h'.req.meta = level'["req"]
        /\ r + 1 >= 3 => h'.req.sync = level'["req"]
        /\ r + 1 >= 4 => h'.req.d = level'["req"]
    <3>1. (r + 1 >= 2 => r >= 1) /\ (r + 1 >= 3 => r >= 2) /\ (r + 1 >= 4 => r >= 3)
      OBVIOUS
    <3> QED
      BY <1>1, <2>1, <2>4, <3>1 DEF Passed, HclkFlops, HclkCommon
  <2>6. /\ q + 1 >= 1 => "hardreset" \notin unsettled'
        /\ q + 1 >= 2 => h'.hardreset.meta = level'["hardreset"]
        /\ q + 1 >= 3 => h'.hardreset.sync = level'["hardreset"]
        /\ q + 1 >= 4 => h'.hardreset.d = level'["hardreset"]
    <3>1. (q + 1 >= 2 => q >= 1) /\ (q + 1 >= 3 => q >= 2) /\ (q + 1 >= 4 => q >= 3)
      OBVIOUS
    <3> QED
      BY <1>1, <2>1, <2>4, <3>1 DEF Passed, HclkFlops, HclkCommon
  <2> QED
    BY <1>5, <2>5, <2>6 DEF Passed
<1> QED
  BY <1>6, <1>7

(* What the chain of a single change shows: an edge comes from a level the *)
(* last flop has not seen, and it is gone once that flop has.              *)
LEMMA EdgeIsPending ==
  ASSUME TypeOK, CrossInv, ~ResetPhase
  PROVE  /\ EdgeOf(h.req) => ReqPending /\ h.req.sync = level["req"]
                             /\ h.req.meta = level["req"]
         /\ EdgeOf(h.hardreset) => HardresetPending /\ h.hardreset.sync = level["hardreset"]
BY Flops DEF CrossInv, ToggleInv, OneChange, EdgeOf, ReqPending, HardresetPending, TypeOK

(* How pending levels and the FSM move at an hclk edge out of reset.       *)
LEMMA HclkMoves ==
  ASSUME TypeOK, TypeOK', CrossInv, Hclk, ~ResetPhase, NEW a \in Answers, HclkFlops(a)
  PROVE  /\ ReqPending' <=> ReqPending /\ ~EdgeOf(h.req)
         /\ HardresetPending' <=> HardresetPending /\ ~EdgeOf(h.hardreset)
         /\ Retires(a) <=> h.state = "ACCESS" /\ a.ready /\ ~EdgeOf(h.hardreset)
         /\ h'.state # "IDLE" <=> /\ ~EdgeOf(h.hardreset)
                                  /\ \/ h.state = "IDLE" /\ EdgeOf(h.req)
                                     \/ h.state = "SETUP"
                                     \/ h.state = "ACCESS" /\ ~a.ready
         /\ hreq_cap_en <=> h.state = "IDLE" /\ EdgeOf(h.req) /\ ~EdgeOf(h.hardreset)
<1>1. HclkCommon
  BY HclkPhases
<1>2. ReqPending' <=> ReqPending /\ ~EdgeOf(h.req)
  <2>1. h'.req.d = h.req.sync /\ level'["req"] = level["req"]
    BY <1>1 DEF HclkFlops, HclkCommon
  <2> QED
    BY <2>1, Flops, EdgeIsPending DEF ReqPending, EdgeOf, TypeOK
<1>3. HardresetPending' <=> HardresetPending /\ ~EdgeOf(h.hardreset)
  <2>1. h'.hardreset.d = h.hardreset.sync /\ level'["hardreset"] = level["hardreset"]
    BY <1>1 DEF HclkFlops, HclkCommon
  <2> QED
    BY <2>1, Flops, EdgeIsPending DEF HardresetPending, EdgeOf, TypeOK
<1>4. Retires(a) <=> h.state = "ACCESS" /\ a.ready /\ ~EdgeOf(h.hardreset)
  BY DEF Retires, dmi_penable, hardreset_h_edge
<1>5. h'.state # "IDLE" <=> /\ ~EdgeOf(h.hardreset)
                            /\ \/ h.state = "IDLE" /\ EdgeOf(h.req)
                               \/ h.state = "SETUP"
                               \/ h.state = "ACCESS" /\ ~a.ready
  BY Flops DEF HclkFlops, state_nxt, hardreset_h_edge, req_h_edge, TypeOK
<1> QED
  BY <1>2, <1>3, <1>4, <1>5 DEF hreq_cap_en, req_h_edge, hardreset_h_edge

LEMMA HclkKeepsToggle ==
  ASSUME TypeOK, TypeOK', CrossInv, Hclk
  PROVE  ToggleInv'
<1>1. HclkCommon /\ ToggleInv
  BY HclkPhases DEF CrossInv
<1>2. ASSUME ~ResetPhase'
      PROVE  OneChange("req", h.req)' /\ OneChange("hardreset", h.hardreset)'
  <2>1. CASE ResetPhase
    BY <1>1, <1>2, <2>1, HclkPhases, HclkLeavesReset, FlopsAfter DEF OneChange, HclkCommon, TypeOK
  <2>2. CASE ~ResetPhase
    <3>1. PICK a \in Answers : HclkFlops(a)
      BY <2>2, HclkRuns
    <3>2. OneChange("req", h.req)'
      BY <1>1, <2>2, <3>1 DEF ToggleInv, OneChange, HclkFlops, HclkCommon
    <3>3. OneChange("hardreset", h.hardreset)'
      BY <1>1, <2>2, <3>1 DEF ToggleInv, OneChange, HclkFlops, HclkCommon
    <3> QED
      BY <3>2, <3>3
  <2> QED
    BY <2>1, <2>2
<1>3. ASSUME t'.inflight
      PROVE  OneChange("ack", t.ack)'
  <2>1. t' = t /\ t.inflight /\ ~ResetPhase /\ OneChange("ack", t.ack)
    BY <1>1, <1>3 DEF CrossInv, LinkInv, ToggleInv, HclkCommon
  <2>2. PICK a \in Answers : HclkFlops(a)
    BY <2>1, HclkRuns
  <2>3. Retires(a) => Passed("ack", t.ack, 4)
    BY <2>1 DEF Retires, dmi_penable, CrossInv, AckInv
  <2>4. CASE Retires(a)
    <3>1. level'["ack"] # level["ack"]
      BY <2>2, <2>4, Flops, FlopsAfter DEF HclkFlops, TypeOK
    <3> QED
      BY <2>1, <2>3, <2>4, <3>1 DEF Passed, OneChange
  <2>5. CASE ~Retires(a)
    <3>1. level'["ack"] = level["ack"] /\ ("ack" \in unsettled' => "ack" \in unsettled)
      BY <2>2, <2>5, Flops, FlopsAfter DEF HclkFlops, TypeOK
    <3> QED
      BY <2>1, <3>1 DEF OneChange
  <2> QED
    BY <2>4, <2>5
<1> QED
  BY <1>2, <1>3 DEF ToggleInv

LEMMA HclkKeepsBegun ==
  ASSUME TypeOK, TypeOK', CrossInv, Hclk
  PROVE  BegunInv'
<1>1. BegunInv /\ HclkCommon
  BY HclkPhases DEF CrossInv
<1>2. CASE rst.hclk = 2 /\ ~rst.align
  <2>1. ~EdgeOf(h.req)' /\ ~ReqPending'
    BY <1>2, HclkLeavesReset, FlopsAfter DEF EdgeOf, ReqPending, TypeOK
  <2> QED
    BY <2>1 DEF BegunInv
<1>3. CASE ~ResetPhase
  <2>1. PICK a \in Answers : HclkFlops(a)
    BY <1>3, HclkRuns
  <2>2. /\ ReqPending' => ReqPending /\ ~EdgeOf(h.req)
        /\ hreq_cap_en => EdgeOf(h.req)
        /\ ghost'.unbegun <=> ghost.unbegun /\ ~hreq_cap_en
    BY <1>3, <2>1, HclkMoves DEF HclkFlops
  <2>3. EdgeOf(h.req)' => ReqPending /\ ~EdgeOf(h.req)
    BY <1>3, <2>1, EdgeIsPending, Flops, FlopsAfter
    DEF EdgeOf, ReqPending, HclkFlops, TypeOK, CrossInv, ToggleInv, OneChange
  <2>4. ReqPending => ghost.unbegun
    BY <1>1, <1>3 DEF BegunInv
  <2> QED
    BY <2>2, <2>3, <2>4 DEF BegunInv
<1>4. CASE rst.hclk < 2
  <2>1. ResetPhase'
    BY <1>1, <1>4, Flops DEF ResetPhase, HclkCommon, TypeOK
  <2>2. CASE CLK_ARST_EN
    <3>1. HclkResetFlops
      BY <1>4, <2>2, HclkStepFlops DEF hclk_in_reset, TypeOK
    <3>2. ~EdgeOf(h.req)'
      BY <2>2, <3>1, FlopsAfter DEF HclkResetFlops, EdgeOf, TypeOK
    <3> QED
      BY <2>1, <3>2 DEF BegunInv
  <2>3. CASE ~CLK_ARST_EN
    <3>1. ~rst'.align
      BY <1>1, <1>4, Flops DEF HclkCommon, TypeOK
    <3>2. hclk_in_reset'
      BY <2>3, <3>1 DEF hclk_in_reset
    <3> QED
      BY <2>1, <3>2 DEF BegunInv
  <2> QED
    BY <2>2, <2>3
<1> QED
  BY <1>2, <1>3, <1>4, Flops DEF ResetPhase, TypeOK

LEMMA HclkKeepsLink ==
  ASSUME TypeOK, TypeOK', CrossInv, Hclk
  PROVE  LinkInv'
<1>1. LinkInv /\ HclkCommon
  BY HclkPhases DEF CrossInv
<1>2. t' = t /\ ghost'.wanted = ghost.wanted
  BY <1>1 DEF HclkCommon
<1>3. CASE ResetPhase
  <2>1. ~t'.inflight
    BY <1>2, <1>3 DEF CrossInv, ResetInv
  <2>2. ~ResetPhase' => ~ReqPending' /\ h'.state = "IDLE"
    BY <1>3, HclkPhases, HclkLeavesReset, FlopsAfter DEF ReqPending, TypeOK
  <2>3. "ack" \in unsettled' => t'.ack.meta = t'.ack.sync /\ t'.ack.sync = t'.ack.d
    <3>1. CASE rst.hclk < 2
      BY <1>2, <3>1, Flops DEF CrossInv, ResetInv, TypeOK
    <3>2. CASE ~(rst.hclk < 2)
      <4>1. "ack" \in unsettled' => "ack" \in unsettled
        BY <1>3, <3>2, HclkLeavesReset, Flops DEF ResetPhase, TypeOK
      <4> QED
        BY <1>1, <1>2, <4>1 DEF LinkInv
    <3> QED
      BY <3>1, <3>2
  <2> QED
    BY <2>1, <2>2, <2>3 DEF LinkInv
<1>4. CASE ~ResetPhase
  <2>1. PICK a \in Answers : HclkFlops(a)
    BY <1>4, HclkRuns
  <2>2. /\ ReqPending' <=> ReqPending /\ ~EdgeOf(h.req)
        /\ HardresetPending' <=> HardresetPending /\ ~EdgeOf(h.hardreset)
        /\ Retires(a) <=> h.state = "ACCESS" /\ a.ready /\ ~EdgeOf(h.hardreset)
        /\ h'.state # "IDLE" <=> /\ ~EdgeOf(h.hardreset)
                                 /\ \/ h.state = "IDLE" /\ EdgeOf(h.req)
                                    \/ h.state = "SETUP"
                                    \/ h.state = "ACCESS" /\ ~a.ready
    BY <1>4, <2>1, HclkMoves
  <2>3. /\ EdgeOf(h.req) => ReqPending
        /\ EdgeOf(h.hardreset) => HardresetPending
        /\ h.state \in {"IDLE", "SETUP", "ACCESS"}
    BY <1>4, EdgeIsPending, Flops DEF TypeOK
  <2>4. ReqPending \/ h.state # "IDLE" => Passed("ack", t.ack, 4)
    BY <1>4 DEF CrossInv, AckInv
  <2>5. /\ ~AckPending => (AckPending' <=> Retires(a))
        /\ AckPending => (AckPending' <=> ~Retires(a))
    BY <1>2, <2>1, Flops, FlopsAfter DEF AckPending, HclkFlops, TypeOK
  <2>6. ReqPending \/ h.state # "IDLE" => ~AckPending
    BY <2>4 DEF Passed, AckPending
  <2>7. t'.inflight =>
          /\ ghost'.wanted /\ ~ResetPhase' /\ ~HardresetPending'
          /\ ReqPending' \/ h'.state # "IDLE" \/ AckPending'
          /\ ~(ReqPending' /\ h'.state # "IDLE")
    <3> SUFFICES ASSUME t.inflight
                 PROVE  /\ ghost'.wanted /\ ~ResetPhase' /\ ~HardresetPending'
                        /\ ReqPending' \/ h'.state # "IDLE" \/ AckPending'
                        /\ ~(ReqPending' /\ h'.state # "IDLE")
      BY <1>2
    <3>1. /\ ghost.wanted /\ ~HardresetPending
          /\ ReqPending \/ h.state # "IDLE" \/ AckPending
          /\ ~(ReqPending /\ h.state # "IDLE")
      BY <1>1 DEF LinkInv
    <3>2. ghost'.wanted /\ ~ResetPhase' /\ ~HardresetPending'
      BY <1>2, <1>4, <2>2, <3>1, HclkRuns
    <3>3. ReqPending' \/ h'.state # "IDLE" \/ AckPending'
      BY <2>2, <2>3, <2>5, <2>6, <3>1
    <3>4. ~(ReqPending' /\ h'.state # "IDLE")
      BY <2>2, <2>3, <3>1
    <3> QED
      BY <3>2, <3>3, <3>4
  <2>8. ~t'.inflight => /\ ~ReqPending'
                        /\ h'.state # "IDLE" => HardresetPending'
    BY <1>1, <1>2, <1>4, <2>2, <2>3 DEF LinkInv
  <2>9. "ack" \in unsettled' => t'.ack.meta = t'.ack.sync /\ t'.ack.sync = t'.ack.d
    <3>1. "ack" \in unsettled' => "ack" \in unsettled \/ h.state # "IDLE"
      BY <2>1, <2>2 DEF HclkFlops
    <3> QED
      BY <1>1, <1>2, <2>4, <3>1 DEF LinkInv, Passed
  <2> QED
    BY <2>7, <2>8, <2>9 DEF LinkInv
<1> QED
  BY <1>3, <1>4

LEMMA HclkKeepsAck ==
  ASSUME TypeOK, TypeOK', CrossInv, Hclk
  PROVE  AckInv'
<1>1. AckInv /\ HclkCommon
  BY HclkPhases DEF CrossInv
<1>2. t' = t /\ tap' = tap /\ ghost'.wanted = ghost.wanted /\ SinceHardreset' = SinceHardreset
  BY <1>1 DEF HclkCommon, SinceHardreset
<1>3. CASE ResetPhase
  <2>1. SinceHardreset = 0
    <3>1. tap.state \in {"TLR", "RTI"} /\ tap.ir = "IDCODE"
      BY <1>3 DEF CrossInv, ResetInv, ResetPhase
    <3> QED
      BY <3>1 DEF SinceHardreset, Edges
  <2>2. Passed("ack", t.ack, SinceHardreset - 2)'
    BY <1>2, <2>1 DEF Passed
  <2>3. ~ghost'.wanted
    BY <1>2, <1>3 DEF CrossInv, ResetInv
  <2>4. ~ResetPhase' => ~ReqPending' /\ h'.state = "IDLE"
    BY <1>3, HclkPhases, HclkLeavesReset, FlopsAfter DEF ReqPending, TypeOK
  <2> QED
    BY <2>2, <2>3, <2>4 DEF AckInv
<1>4. CASE ~ResetPhase
  <2>1. PICK a \in Answers : HclkFlops(a)
    BY <1>4, HclkRuns
  <2>2. /\ ReqPending' <=> ReqPending /\ ~EdgeOf(h.req)
        /\ Retires(a) <=> h.state = "ACCESS" /\ a.ready /\ ~EdgeOf(h.hardreset)
        /\ h'.state # "IDLE" <=> /\ ~EdgeOf(h.hardreset)
                                 /\ \/ h.state = "IDLE" /\ EdgeOf(h.req)
                                    \/ h.state = "SETUP"
                                    \/ h.state = "ACCESS" /\ ~a.ready
    BY <1>4, <2>1, HclkMoves
  <2>3. EdgeOf(h.req) => ReqPending
    BY <1>4, EdgeIsPending
  <2>4. ~Retires(a) => /\ level'["ack"] = level["ack"]
                       /\ "ack" \in unsettled' => "ack" \in unsettled
    BY <2>1, Flops, FlopsAfter DEF HclkFlops, TypeOK
  <2>5. /\ ~t.inflight => ~ReqPending /\ (h.state # "IDLE" => HardresetPending)
        /\ t.inflight => ~(ReqPending /\ h.state # "IDLE")
    BY <1>4 DEF CrossInv, LinkInv
  <2>6. ~t'.inflight => Passed("ack", t.ack, SinceHardreset - 2)'
    <3> SUFFICES ASSUME ~t.inflight
                 PROVE  Passed("ack", t.ack, SinceHardreset - 2)'
      BY <1>2
    <3>1. CASE Retires(a)
      <4>1. h.hardreset.sync # level["hardreset"]
        BY <2>2, <2>5, <3>1, Flops DEF EdgeOf, HardresetPending, TypeOK
      <4>2. PICK q \in 0 .. 9 : q = SinceHardreset
        <5>1. Edges[tap.state] \in 0 .. 4
          BY EdgesStep DEF TypeOK
        <5> QED
          BY <5>1 DEF SinceHardreset
      <4>3. q <= 2
        <5>1. CASE tap.state = "TLR"
          BY <4>2, <5>1 DEF SinceHardreset, Edges
        <5>2. CASE tap.state # "TLR"
          <6>1. Passed("hardreset", h.hardreset, SoFar(SinceHardreset))
            BY <5>2 DEF CrossInv, DelayInv
          <6>2. SoFar(SinceHardreset) \in {q, q + 1}
            BY <4>2 DEF SoFar
          <6>3. ~(q >= 3)
            BY <4>1, <6>1, <6>2 DEF Passed
          <6> QED
            BY <6>3
        <5> QED
          BY <5>1, <5>2
      <4>4. ~(q - 2 >= 1) /\ ~(q - 2 >= 2) /\ ~(q - 2 >= 3) /\ ~(q - 2 >= 4)
        BY <4>3
      <4> QED
        BY <1>2, <4>2, <4>4 DEF Passed
    <3>2. CASE ~Retires(a)
      <4>1. Passed("ack", t.ack, SinceHardreset - 2)
        BY <1>1 DEF AckInv
      <4> QED
        BY <1>2, <2>4, <3>2, <4>1 DEF Passed
    <3> QED
      BY <3>1, <3>2
  <2>7. ~t'.inflight /\ ghost'.wanted => Passed("ack", t.ack, 4)'
    <3> SUFFICES ASSUME ~t.inflight, ghost.wanted
                 PROVE  Passed("ack", t.ack, 4)'
      BY <1>2
    <3>1. Passed("ack", t.ack, 4) /\ h.state = "IDLE"
      BY <1>1 DEF AckInv, CrossInv, AnswerInv
    <3> QED
      BY <1>2, <2>2, <2>4, <3>1 DEF Passed
  <2>8. ~ResetPhase' /\ (ReqPending' \/ h'.state # "IDLE") => Passed("ack", t.ack, 4)'
    <3> SUFFICES ASSUME ReqPending' \/ h'.state # "IDLE"
                 PROVE  Passed("ack", t.ack, 4)'
      OBVIOUS
    <3>1. (ReqPending \/ h.state # "IDLE") /\ ~Retires(a)
      BY <2>2, <2>3, <2>5
    <3>2. Passed("ack", t.ack, 4)
      BY <1>1, <1>4, <3>1 DEF AckInv
    <3> QED
      BY <1>2, <2>4, <3>1, <3>2 DEF Passed
  <2> QED
    BY <2>6, <2>7, <2>8 DEF AckInv
<1> QED
  BY <1>3, <1>4

(* The answer that retires a transfer is that of the request captured.     *)
LEMMA AnswerOwner ==
  ASSUME TypeOK, CrossInv, NEW a \in Answers, Retires(a)
  PROVE  a.owner = h.hreq /\ a.err \in BOOLEAN
<1>1. h.state = "ACCESS" /\ a.ready
  BY DEF Retires, dmi_penable
<1>2. CASE slave.kind = "dm"
  <2>1. a = [ready |-> slave.owes # "none", err |-> slave.err, owner |-> slave.owes]
    BY <1>2 DEF Answers
  <2>2. slave.owes # "none" /\ a.owner = slave.owes
    BY <1>1, <2>1
  <2> QED
    BY <1>1, <1>2, <2>2, AnswersType DEF CrossInv, AnswerInv, TypeOK
<1>3. CASE slave.kind # "dm"
  <2>1. PICK r \in {dmi_penable} \cup {FALSE}, e \in BOOLEAN :
          a = [ready |-> r, err |-> e, owner |-> h.hreq]
    BY <1>3 DEF Answers
  <2> QED
    BY <2>1
<1> QED
  BY <1>2, <1>3

LEMMA HclkKeepsAnswer ==
  ASSUME TypeOK, TypeOK', CrossInv, Hclk
  PROVE  AnswerInv'
<1>1. AnswerInv /\ HclkCommon
  BY HclkPhases DEF CrossInv
<1>2. t' = t /\ ghost'.wanted = ghost.wanted
  BY <1>1 DEF HclkCommon
<1>3. ASSUME t.inflight \/ ghost.wanted
      PROVE  /\ ~t'.inflight /\ ghost'.wanted => t'.rdata = "last" /\ h'.state = "IDLE"
             /\ t'.inflight /\ h'.state # "IDLE" => h'.hreq = "last" /\ ~ghost'.owed
             /\ t'.inflight /\ ReqPending' => ~ghost'.owed
             /\ t'.inflight /\ AckPending' =>
                  h'.rsp = "last" /\ (ghost'.owed <=> h'.rsp_stat = "failed")
  <2>1. ~ResetPhase
    BY <1>3 DEF CrossInv, ResetInv
  <2>2. PICK a \in Answers : HclkFlops(a)
    BY <2>1, HclkRuns
  <2>3. /\ ReqPending' <=> ReqPending /\ ~EdgeOf(h.req)
        /\ Retires(a) <=> h.state = "ACCESS" /\ a.ready /\ ~EdgeOf(h.hardreset)
        /\ h'.state # "IDLE" <=> /\ ~EdgeOf(h.hardreset)
                                 /\ \/ h.state = "IDLE" /\ EdgeOf(h.req)
                                    \/ h.state = "SETUP"
                                    \/ h.state = "ACCESS" /\ ~a.ready
        /\ hreq_cap_en <=> h.state = "IDLE" /\ EdgeOf(h.req) /\ ~EdgeOf(h.hardreset)
    BY <2>1, <2>2, HclkMoves
  <2>4. EdgeOf(h.req) => ReqPending
    BY <2>1, EdgeIsPending
  <2>5. /\ ghost'.owed <=> ghost.owed \/ (Retires(a) /\ a.err /\ h.hreq = "last" /\ ghost.wanted)
        /\ h'.hreq = IF hreq_cap_en THEN "last" ELSE h.hreq
        /\ Retires(a) => h'.rsp = a.owner /\ h'.rsp_stat = IF a.err THEN "failed" ELSE "ok"
        /\ ~Retires(a) => h'.rsp = h.rsp /\ h'.rsp_stat = h.rsp_stat
    BY <2>2 DEF HclkFlops
  <2>6. /\ ~t.inflight => ~ReqPending
        /\ t.inflight => ghost.wanted /\ ~(ReqPending /\ h.state # "IDLE")
    BY <2>1 DEF CrossInv, LinkInv
  <2>7. ~t'.inflight /\ ghost'.wanted => t'.rdata = "last" /\ h'.state = "IDLE"
    BY <1>1, <1>2, <2>3, <2>4, <2>6 DEF AnswerInv
  <2>8. t'.inflight /\ h'.state # "IDLE" => h'.hreq = "last" /\ ~ghost'.owed
    <3> SUFFICES ASSUME t.inflight, h'.state # "IDLE"
                 PROVE  h'.hreq = "last" /\ ~ghost'.owed
      BY <1>2
    <3>1. CASE h.state = "IDLE"
      BY <1>1, <2>3, <2>4, <2>5, <3>1 DEF AnswerInv
    <3>2. CASE h.state # "IDLE"
      BY <1>1, <2>3, <2>5, <3>2 DEF AnswerInv
    <3> QED
      BY <3>1, <3>2
  <2>9. t'.inflight /\ ReqPending' => ~ghost'.owed
    BY <1>1, <1>2, <2>3, <2>5, <2>6 DEF AnswerInv
  <2>10. t'.inflight /\ AckPending' =>
           h'.rsp = "last" /\ (ghost'.owed <=> h'.rsp_stat = "failed")
    <3> SUFFICES ASSUME t.inflight, AckPending'
                 PROVE  h'.rsp = "last" /\ (ghost'.owed <=> h'.rsp_stat = "failed")
      BY <1>2
    <3>1. CASE Retires(a)
      <4>1. h.hreq = "last" /\ ~ghost.owed /\ ghost.wanted
        BY <1>1, <2>3, <2>6, <3>1 DEF AnswerInv
      <4>2. a.owner = h.hreq /\ a.err \in BOOLEAN
        BY <3>1, AnswerOwner
      <4> QED
        BY <2>5, <3>1, <4>1, <4>2
    <3>2. CASE ~Retires(a)
      <4>1. AckPending
        BY <1>2, <2>2, <3>2, Flops, FlopsAfter DEF AckPending, HclkFlops, TypeOK
      <4> QED
        BY <1>1, <2>5, <3>2, <4>1 DEF AnswerInv
    <3> QED
      BY <3>1, <3>2
  <2> QED
    BY <2>7, <2>8, <2>9, <2>10
<1>4. slave'.kind = "dm" /\ slave'.owes # "none" =>
        h'.state = "IDLE" \/ (h'.state = "ACCESS" /\ slave'.owes = h'.hreq)
  <2> SUFFICES ASSUME slave'.owes # "none"
               PROVE  h'.state = "IDLE" \/ (h'.state = "ACCESS" /\ slave'.owes = h'.hreq)
    OBVIOUS
  <2>1. slave \in [kind: Slaves, owes: Owners, err: BOOLEAN]
    BY DEF TypeOK, DmiTypeOK
  <2>2. /\ slave.kind = "dm" /\ dmi_penable /\ slave.owes = "none"
        /\ slave'.owes = h.hreq
    BY <2>1 DEF Hclk, HclkEdge, SlaveStep
  <2>3. CASE hclk_in_reset
    BY <2>3, HclkStepFlops DEF HclkResetFlops, TypeOK
  <2>4. CASE ~hclk_in_reset
    <3>1. PICK a \in Answers : HclkFlops(a)
      BY <2>4, HclkStepFlops DEF TypeOK
    <3>2. ~a.ready
      <4>1. a = [ready |-> slave.owes # "none", err |-> slave.err, owner |-> slave.owes]
        BY <2>2 DEF Answers
      <4> QED
        BY <2>2, <4>1
    <3> QED
      BY <2>2, <3>1, <3>2 DEF HclkFlops, state_nxt, hreq_cap_en, dmi_penable
  <2> QED
    BY <2>3, <2>4
<1> QED
  BY <1>2, <1>3, <1>4 DEF AnswerInv

LEMMA HclkKeepsFailure ==
  ASSUME TypeOK, TypeOK', CrossInv, Hclk
  PROVE  FailureInv'
<1>1. FailureInv /\ HclkCommon
  BY HclkPhases DEF CrossInv
<1>2. t' = t /\ err' = err /\ phase' = phase /\ ghost'.wanted = ghost.wanted
  BY <1>1 DEF HclkCommon
<1>3. ~t.inflight => (ghost'.owed <=> ghost.owed)
  <2>1. CASE hclk_in_reset
    BY <2>1, HclkStepFlops DEF HclkResetFlops, TypeOK
  <2>2. CASE ~hclk_in_reset
    <3>1. PICK a \in Answers : HclkFlops(a)
      BY <2>2, HclkStepFlops DEF TypeOK
    <3>2. ~t.inflight /\ ghost.wanted => ~Retires(a)
      BY DEF Retires, dmi_penable, CrossInv, AnswerInv
    <3> QED
      BY <3>1, <3>2 DEF HclkFlops
  <2> QED
    BY <2>1, <2>2
<1> QED
  BY <1>1, <1>2, <1>3 DEF FailureInv

(* A completion is noticed before the next request, and a failure shown or *)
(* held is one the debugger is owed.                                       *)
LEMMA TapClockKeepsFailure ==
  ASSUME TypeOK, TypeOK', CrossInv, NEW tms \in BOOLEAN, NEW d \in Contents, TapClock(tms, d)
  PROVE  FailureInv'
<1> DEFINE L == dmi_launch(d)
           H == dmi_hardreset(d)
           R == dmireset(d)
           edge == EdgeOf(t.ack)
<1>1. L \in BOOLEAN /\ H \in BOOLEAN /\ R \in BOOLEAN
  BY ContentsType DEF dmi_launch, dmi_hardreset, dmireset, dmi_op_active, Content
<1>2. TckStep(L, H)
  BY TapClockStep
<1>3. /\ err'.sticky = StickyNext(d)
      /\ err'.fail_pend = FailPendNext(d)
      /\ err'.abort_pending = ((H /\ t.inflight) \/ (err.abort_pending /\ ~complete_edge))
      /\ err'.inflight_d = t.inflight
  BY DEF TapClock, ErrRegs
<1>4. /\ ~L => (t'.inflight <=> t.inflight /\ ~edge /\ ~H)
      /\ L => t'.inflight /\ ~t.inflight /\ ~H
      /\ ghost'.wanted <=> L \/ (ghost.wanted /\ ~(H /\ t.inflight))
      /\ ~H /\ t.inflight => ghost'.owed = ghost.owed
      /\ t'.cstatus = IF edge THEN h.rsp_stat ELSE t.cstatus
  BY <1>2, Flops DEF TckStep, TckFlops, TypeOK
<1>5. ghost'.owed <=> ghost.owed /\ ~H /\ ~L /\ ~(R /\ err.sticky = 2)
  <2> DEFINE o == ghost.owed /\ ~H /\ ~L /\ ~(R /\ err.sticky = 2)
             w == L \/ (ghost.wanted /\ ~(H /\ t.inflight))
             u == L \/ ghost.unbegun
  <2>1. ghost' = [wanted |-> w, unbegun |-> u, owed |-> o]
    BY DEF TapClock, History
  <2> HIDE DEF o, w, u
  <2>2. ghost'.owed = o
    BY <2>1
  <2> QED
    BY <2>2 DEF o
<1>6. /\ complete_edge <=> err.inflight_d /\ ~t.inflight
      /\ complete_failed <=> err.inflight_d /\ ~t.inflight /\ t.cstatus = "failed"
                             /\ ~err.abort_pending
  BY DEF complete_edge, complete_failed
<1>7. /\ L => ~H /\ ~R /\ err.sticky = 0 /\ ~t.inflight /\ ~complete_failed
      /\ H => ~R
  BY DEF dmi_launch, dmi_hardreset, dmireset
<1>8. FailureInv /\ (t.inflight => ghost.wanted)
  BY DEF CrossInv, LinkInv
<1>9. t.inflight /\ edge => (ghost.owed <=> h.rsp_stat = "failed")
  BY AckEdge DEF CrossInv, AnswerInv
<1>10. /\ err'.sticky = 2 =>
            /\ ~H
            /\ IF R THEN err.fail_pend \/ complete_failed
               ELSE err.sticky = 2 \/ (complete_failed /\ err.sticky = 0)
       /\ ~H /\ R /\ (err.fail_pend \/ complete_failed) => err'.sticky = 2
       /\ ~H /\ ~R /\ err.sticky = 2 /\ ~t.inflight => err'.sticky = 2
       /\ ~H /\ ~R /\ complete_failed /\ err.sticky = 0 => err'.sticky = 2
       /\ ~H /\ ~R /\ err.sticky = 3 => err'.sticky = 3
  BY <1>3, <1>6 DEF StickyNext
<1>11. err'.fail_pend <=> ~H /\ ~R /\ (err.fail_pend \/ (complete_failed /\ err.sticky # 0))
  BY <1>3 DEF FailPendNext
<1> HIDE DEF L, H, R, edge
<1>12. t'.inflight => ~err'.abort_pending /\ err'.sticky # 2 /\ ~err'.fail_pend
  <2>1. CASE L
    <3>1. ~err'.abort_pending
      BY <1>3, <1>6, <1>7, <1>8, <2>1 DEF FailureInv
    <3>2. ~err.fail_pend
      BY <1>7, <1>8, <2>1 DEF FailureInv
    <3> QED
      BY <1>7, <1>10, <1>11, <2>1, <3>1, <3>2
  <2>2. CASE ~L /\ t'.inflight
    <3>1. t.inflight /\ ~H
      BY <1>4, <2>2
    <3>2. ~complete_failed /\ ~err.abort_pending /\ err.sticky # 2 /\ ~err.fail_pend
      BY <1>6, <1>8, <3>1 DEF FailureInv
    <3> QED
      BY <1>3, <1>10, <1>11, <3>1, <3>2
  <2> QED
    BY <2>1, <2>2
<1>13. ASSUME ~t'.inflight, err'.inflight_d
       PROVE  /\ err'.sticky # 2 /\ ~err'.fail_pend
              /\ IF err'.abort_pending THEN ~ghost'.owed
                 ELSE ghost'.wanted /\ (ghost'.owed <=> t'.cstatus = "failed")
  <2>1. t.inflight /\ ~L /\ (edge \/ H)
    BY <1>3, <1>4, <1>13
  <2>2. ~complete_failed /\ ~err.abort_pending /\ err.sticky # 2 /\ ~err.fail_pend
    BY <1>6, <1>8, <2>1 DEF FailureInv
  <2>3. err'.sticky # 2 /\ ~err'.fail_pend
    BY <1>10, <1>11, <2>2
  <2>4. err'.abort_pending <=> H
    BY <1>3, <2>1, <2>2
  <2>5. H => ~ghost'.owed
    BY <1>5
  <2>6. ~H => ghost'.wanted /\ (ghost'.owed <=> t'.cstatus = "failed")
    BY <1>4, <1>5, <1>8, <1>9, <2>1, <2>2
  <2> QED
    BY <2>3, <2>4, <2>5, <2>6
<1>14. ASSUME ~t'.inflight, ~err'.inflight_d
       PROVE  /\ ~err'.abort_pending
              /\ ghost'.owed <=> err'.sticky = 2 \/ err'.fail_pend
  <2>1. ~t.inflight /\ ~L
    BY <1>3, <1>4, <1>14
  <2>2. ~err'.abort_pending
    BY <1>3, <1>6, <1>8, <2>1 DEF FailureInv
  <2>3. err.sticky \in {0, 2, 3} /\ (err.fail_pend => err.sticky = 3)
    BY <1>8 DEF TypeOK, FailureInv
  <2>4. ghost.owed <=> complete_failed \/ err.sticky = 2 \/ err.fail_pend
    <3>1. CASE err.inflight_d
      BY <1>6, <1>8, <2>1, <3>1 DEF FailureInv
    <3>2. CASE ~err.inflight_d
      BY <1>6, <1>8, <2>1, <3>2 DEF FailureInv
    <3> QED
      BY <3>1, <3>2 DEF TypeOK
  <2>5. complete_failed => err.sticky # 2 /\ ~err.fail_pend
    BY <1>6, <1>8 DEF FailureInv
  <2>6. CASE H
    BY <1>5, <1>10, <1>11, <2>2, <2>6
  <2>7. CASE R /\ ~H
    <3>1. err'.sticky = 2 <=> err.fail_pend \/ complete_failed
      BY <1>10, <2>7
    <3>2. ghost'.owed <=> ghost.owed /\ err.sticky # 2
      BY <1>5, <2>1, <2>7
    <3> QED
      BY <1>11, <2>2, <2>3, <2>4, <2>5, <2>7, <3>1, <3>2
  <2>8. CASE ~R /\ ~H
    <3>1. ghost'.owed <=> ghost.owed
      BY <1>5, <2>1, <2>8
    <3>2. err'.sticky = 2 <=> err.sticky = 2 \/ (complete_failed /\ err.sticky = 0)
      BY <1>10, <2>1, <2>8
    <3>3. err'.fail_pend <=> err.fail_pend \/ (complete_failed /\ err.sticky # 0)
      BY <1>11, <2>8
    <3> QED
      BY <2>2, <2>3, <2>4, <3>1, <3>2, <3>3
  <2> QED
    BY <1>1, <2>6, <2>7, <2>8
<1>15. ASSUME t'.inflight, ~err'.inflight_d
       PROVE  /\ phase' >= 1 => t'.ack.sync = t'.ack.d
              /\ phase' >= 2 => t'.ack.meta = t'.ack.d
  <2>1. L
    BY <1>3, <1>4, <1>15
  <2>2. Passed("ack", t.ack, 4)
    BY <1>1, <1>2, <2>1, AtUpdate
  <2> QED
    BY <1>2, <2>2 DEF Passed, TckStep, TckFlops
<1>16. err'.fail_pend => err'.sticky = 3
  <2>1. CASE err.fail_pend
    BY <1>8, <1>10, <1>11, <2>1 DEF FailureInv
  <2>2. CASE ~err.fail_pend
    <3>1. err'.fail_pend => complete_failed /\ err.sticky = 3 /\ ~H /\ ~R
      <4>1. complete_failed => err.sticky # 2
        BY <1>6, <1>8 DEF FailureInv
      <4> QED
        BY <1>11, <2>2, <4>1 DEF TypeOK
    <3> QED
      BY <1>10, <3>1
  <2> QED
    BY <2>1, <2>2
<1> QED
  BY <1>12, <1>13, <1>14, <1>15, <1>16 DEF FailureInv

LEMMA TckOnlyKeepsFailure ==
  ASSUME TypeOK, TypeOK', CrossInv, TckOnly
  PROVE  FailureInv'
<1> DEFINE edge == EdgeOf(t.ack)
<1>1. FailureInv
  BY DEF CrossInv
<1>2. /\ t'.inflight <=> t.inflight /\ ~edge
      /\ t'.cstatus = IF edge THEN h.rsp_stat ELSE t.cstatus
      /\ t'.ack.sync = t.ack.meta /\ t'.ack.d = t.ack.sync
  BY TckOnlyStep, Flops DEF TckStep, TckFlops, TypeOK
<1>3. /\ err' = err /\ ghost' = ghost
      /\ phase >= 1 /\ phase \in 0 .. 2 /\ phase' = phase - 1
  BY DEF TckOnly, TypeOK
<1>4. edge /\ ~t.inflight => ~ghost.wanted
  BY AckEdge
<1>5. t.inflight /\ edge => ghost.wanted /\ (ghost.owed <=> h.rsp_stat = "failed")
  BY AckEdge DEF CrossInv, AnswerInv, LinkInv
<1>6. t.inflight /\ ~err.inflight_d => ~edge
  BY <1>1, <1>3 DEF FailureInv, EdgeOf
<1>7. t'.inflight /\ ~err'.inflight_d =>
        /\ phase' >= 1 => t'.ack.sync = t'.ack.d
        /\ phase' >= 2 => t'.ack.meta = t'.ack.d
  <2>1. phase' >= 1 => phase >= 2
    BY <1>3
  <2>2. ~(phase' >= 2)
    BY <1>3
  <2>3. t.inflight /\ ~err.inflight_d /\ phase >= 2 =>
          t.ack.meta = t.ack.d /\ t.ack.sync = t.ack.d
    BY <1>1, <1>3 DEF FailureInv
  <2> QED
    BY <1>2, <1>3, <2>1, <2>2, <2>3
<1> HIDE DEF edge
<1>8. t'.inflight => ~err'.abort_pending /\ err'.sticky # 2 /\ ~err'.fail_pend
  BY <1>1, <1>2, <1>3 DEF FailureInv
<1>9. ASSUME ~t'.inflight, err'.inflight_d
      PROVE  /\ err'.sticky # 2 /\ ~err'.fail_pend
             /\ IF err'.abort_pending THEN ~ghost'.owed
                ELSE ghost'.wanted /\ (ghost'.owed <=> t'.cstatus = "failed")
  <2>1. CASE t.inflight
    BY <1>1, <1>2, <1>3, <1>5, <1>9, <2>1 DEF FailureInv
  <2>2. CASE ~t.inflight
    BY <1>1, <1>2, <1>3, <1>4, <1>9, <2>2 DEF FailureInv
  <2> QED
    BY <2>1, <2>2
<1>10. ASSUME ~t'.inflight, ~err'.inflight_d
       PROVE  /\ ~err'.abort_pending
              /\ ghost'.owed <=> err'.sticky = 2 \/ err'.fail_pend
  BY <1>1, <1>2, <1>3, <1>6, <1>10 DEF FailureInv
<1>11. err'.fail_pend => err'.sticky = 3
  BY <1>1, <1>3 DEF FailureInv
<1> QED
  BY <1>7, <1>8, <1>9, <1>10, <1>11 DEF FailureInv

LEMMA CrossInit ==
  ASSUME Init
  PROVE  CrossInv
<1>1. /\ t = TckReset /\ h = HclkReset /\ level = [l \in Levels |-> FALSE] /\ unsettled = {}
      /\ rst = [tck |-> 2, hclk |-> 2, align |-> TRUE]
      /\ slave.owes = "none" /\ since = RATIO
      /\ ghost = [wanted |-> FALSE, unbegun |-> FALSE, owed |-> FALSE]
      /\ tap = TapRegReset /\ err = ErrReset /\ phase = 0
  <2>1. slave \in [kind: Slaves, owes: {"none"}, err: {FALSE}]
    BY DEF Init, DmiInit
  <2> QED
    BY <2>1 DEF Init, DmiInit
<1>2. /\ ~t.ack.meta /\ ~t.ack.sync /\ ~t.ack.d /\ ~t.inflight /\ t.ack.sync = t.ack.d
  BY <1>1 DEF TckReset, Cleared
<1>3. /\ h.req.meta = FALSE /\ h.req.sync = FALSE /\ h.req.d = FALSE
      /\ h.hardreset.meta = FALSE /\ h.hardreset.sync = FALSE /\ h.hardreset.d = FALSE
      /\ h.state = "IDLE"
  BY <1>1 DEF HclkReset, Cleared
<1>4. level["req"] = FALSE /\ level["hardreset"] = FALSE /\ level["ack"] = FALSE
  BY <1>1 DEF Levels
<1>5. rst.tck = 2 /\ rst.hclk = 2 /\ rst.align /\ ~ResetPhase
  BY <1>1 DEF ResetPhase
<1>6. ~ghost.wanted /\ ~ghost.owed /\ tap.state = "TLR" /\ tap.ir = "IDCODE"
  BY <1>1 DEF TapRegReset
<1>7. err.sticky = 0 /\ ~err.fail_pend /\ ~err.abort_pending /\ ~err.inflight_d
  BY <1>1 DEF ErrReset
<1>8. ResetInv
  BY <1>2, <1>3, <1>4, <1>5, <1>6 DEF ResetInv
<1>9. DelayInv /\ ToggleInv
  BY <1>1, <1>2, <1>3, <1>4, <1>6 DEF DelayInv, ToggleInv, OneChange
<1>10. BegunInv /\ LinkInv
  BY <1>1, <1>2, <1>3, <1>4 DEF BegunInv, LinkInv, EdgeOf, ReqPending
<1>11. AckInv
  <2>1. SinceHardreset = 0
    BY <1>6 DEF SinceHardreset, Edges
  <2>2. Passed("ack", t.ack, SinceHardreset - 2)
    BY <2>1 DEF Passed
  <2> QED
    BY <1>3, <1>4, <1>6, <2>2 DEF AckInv, ReqPending
<1>12. AnswerInv /\ FailureInv
  BY <1>1, <1>2, <1>3, <1>6, <1>7 DEF AnswerInv, FailureInv
<1> QED
  BY <1>8, <1>9, <1>10, <1>11, <1>12 DEF CrossInv

(* A tck edge of a TAP still in reset changes nothing that crosses.        *)
LEMMA TckInResetKeeps ==
  ASSUME TypeOK, CrossInv, TckInReset, UNCHANGED <<tap, err, phase>>
  PROVE  CrossInv'
<1>1. /\ since = RATIO /\ rst.tck < 2 /\ since' = 0
      /\ rst'.tck = rst.tck + 1 /\ rst'.hclk = rst.hclk /\ rst'.align = rst.align
      /\ unsettled' = unsettled \ {"ack"}
      /\ t' = t /\ h' = h /\ level' = level /\ slave' = slave /\ ghost' = ghost
      /\ tap' = tap /\ err' = err /\ phase' = phase
  <2>1. rst \in [tck: 0 .. 2, hclk: 0 .. 2, align: BOOLEAN]
    BY DEF TypeOK, DmiTypeOK
  <2> QED
    BY <2>1 DEF TckInReset
<1>2. tap.state = "TLR" /\ (ResetPhase' <=> ResetPhase) /\ (hclk_in_reset' <=> hclk_in_reset)
  BY <1>1 DEF CrossInv, ResetInv, ResetPhase, hclk_in_reset
<1>3. /\ ReqPending' = ReqPending /\ HardresetPending' = HardresetPending
      /\ AckPending' = AckPending /\ SinceHardreset' = SinceHardreset
  BY <1>1 DEF ReqPending, HardresetPending, AckPending, SinceHardreset
<1>4. ResetInv'
  <2>1. rst.tck \in 0 .. 2
    BY Flops DEF TypeOK
  <2>2. rst'.tck = 2 => rst'.hclk >= 1
    BY <1>1, <2>1, RatioAssumption DEF CrossInv, ResetInv
  <2> QED
    BY <1>1, <1>2, <2>2, RatioAssumption DEF CrossInv, ResetInv
<1>5. DelayInv' /\ ToggleInv'
  BY <1>1, <1>2 DEF CrossInv, DelayInv, ToggleInv, OneChange
<1>6. BegunInv' /\ LinkInv'
  BY <1>1, <1>2, <1>3 DEF CrossInv, BegunInv, LinkInv
<1>7. AckInv'
  <2>1. Passed("ack", t.ack, 4) => Passed("ack", t.ack, 4)'
    BY <1>1 DEF Passed
  <2>2. Passed("ack", t.ack, SinceHardreset - 2) => Passed("ack", t.ack, SinceHardreset - 2)'
    BY <1>1, <1>3 DEF Passed
  <2> QED
    BY <1>1, <1>2, <1>3, <2>1, <2>2 DEF CrossInv, AckInv
<1>8. AnswerInv' /\ FailureInv'
  BY <1>1, <1>3 DEF CrossInv, AnswerInv, FailureInv
<1> QED
  BY <1>4, <1>5, <1>6, <1>7, <1>8 DEF CrossInv

(* A reset of the probe side leaves at most a transfer under way, for the  *)
(* hclk side's own reset to end.                                           *)
LEMMA ResetKeeps ==
  ASSUME TypeOK, CrossInv, Reset
  PROVE  CrossInv'
<1>1. /\ ~t'.ack.meta /\ ~t'.ack.sync /\ ~t'.ack.d /\ t'.ack.meta = t'.ack.sync
      /\ t'.ack.sync = t'.ack.d /\ ~t'.inflight
  BY DEF Reset, TapReset, TckReset, Cleared
<1>2. /\ rst'.tck = 0 /\ rst'.hclk = 0 /\ rst'.align = rst.align
  <2>1. rst \in [tck: 0 .. 2, hclk: 0 .. 2, align: BOOLEAN]
    BY DEF TypeOK, DmiTypeOK
  <2> QED
    BY <2>1 DEF Reset, TapReset
<1>3. ~level'["req"] /\ ~level'["hardreset"] /\ since' = since
  <2>1. level \in [Levels -> BOOLEAN] /\ "req" \in Levels /\ "hardreset" \in Levels
    BY DEF TypeOK, DmiTypeOK, Levels
  <2> QED
    BY <2>1 DEF Reset, TapReset
<1>4. /\ h'.req = h.req /\ h'.state = h.state
      /\ slave'.kind = slave.kind
      /\ slave'.owes = Aged(slave.owes) /\ h'.hreq = Aged(h.hreq)
  BY DEF Reset, TapReset, AgeAll, TypeOK, DmiTypeOK
<1>5. ~ghost'.wanted /\ ~ghost'.owed /\ ghost'.unbegun = ghost.unbegun
  BY DEF Reset, TapReset, TypeOK, DmiTypeOK
<1>6. tap'.state = "TLR" /\ tap'.ir = "IDCODE"
  BY DEF Reset, TapRegReset
<1>7. err'.sticky = 0 /\ ~err'.fail_pend /\ ~err'.abort_pending /\ ~err'.inflight_d
  BY DEF Reset, ErrReset
<1>8. ResetPhase'
  BY <1>2 DEF ResetPhase
<1>9. ResetInv' /\ DelayInv' /\ ToggleInv'
  BY <1>1, <1>2, <1>3, <1>5, <1>6, <1>8 DEF ResetInv, DelayInv, ToggleInv
<1>10. BegunInv'
  BY <1>2, <1>4, <1>5, <1>8 DEF CrossInv, BegunInv, hclk_in_reset, EdgeOf
<1>11. LinkInv'
  BY <1>1, <1>8 DEF LinkInv
<1>12. AckInv'
  <2>1. SinceHardreset' = 0
    BY <1>6 DEF SinceHardreset, Edges
  <2> QED
    BY <1>5, <1>8, <2>1 DEF AckInv, Passed
<1>13. AnswerInv'
  BY <1>1, <1>4, <1>5 DEF CrossInv, AnswerInv, Aged
<1>14. FailureInv'
  BY <1>1, <1>5, <1>7 DEF FailureInv
<1> QED
  BY <1>9, <1>10, <1>11, <1>12, <1>13, <1>14 DEF CrossInv

LEMMA CrossStep ==
  ASSUME TypeOK, TypeOK', CrossInv, [Next]_vars
  PROVE  CrossInv'
<1>1. ASSUME NEW tms \in BOOLEAN, NEW d \in Contents, TapClock(tms, d)
      PROVE  CrossInv'
  <2>1. TckStep(dmi_launch(d), dmi_hardreset(d))
    BY <1>1, TapClockStep
  <2>2. dmi_launch(d) \in BOOLEAN /\ dmi_hardreset(d) \in BOOLEAN
    BY ContentsType DEF dmi_launch, dmi_hardreset, dmi_op_active, Content
  <2>3. FailureInv'
    BY <1>1, TapClockKeepsFailure
  <2> QED
    BY <2>1, <2>2, <2>3, TckKeepsReset, TckKeepsDelay, TckKeepsToggle, TckKeepsBegun,
       TckKeepsLink, TckKeepsAck, TckKeepsAnswer DEF CrossInv
<1>2. CASE TckOnly
  <2>1. TckStep(FALSE, FALSE)
    BY <1>2, TckOnlyStep
  <2>2. FailureInv'
    BY <1>2, TckOnlyKeepsFailure
  <2> QED
    BY <2>1, <2>2, TckKeepsReset, TckKeepsDelay, TckKeepsToggle, TckKeepsBegun,
       TckKeepsLink, TckKeepsAck, TckKeepsAnswer DEF CrossInv
<1>3. CASE TckInReset /\ UNCHANGED <<tap, err, phase>>
  BY <1>3, TckInResetKeeps
<1>4. CASE Hclk
  BY <1>4, HclkKeepsReset, HclkKeepsDelay, HclkKeepsToggle, HclkKeepsBegun, HclkKeepsLink,
     HclkKeepsAck, HclkKeepsAnswer, HclkKeepsFailure DEF CrossInv
<1>5. CASE Reset
  BY <1>5, ResetKeeps
<1>6. CASE UNCHANGED vars
  <2>1. UNCHANGED <<t, h, level, unsettled, rst, slave, since, ghost, tap, err, phase>>
    BY <1>6 DEF vars, dmivars
  <2>2. ResetInv' /\ DelayInv' /\ ToggleInv'
    BY <2>1 DEF CrossInv, ResetInv, DelayInv, ToggleInv, OneChange, Passed, SoFar, SinceReq,
                SinceHardreset, ResetPhase
  <2>3. BegunInv' /\ LinkInv' /\ AckInv'
    BY <2>1 DEF CrossInv, BegunInv, LinkInv, AckInv, hclk_in_reset, EdgeOf, ReqPending,
                HardresetPending, AckPending, Passed, SinceHardreset, ResetPhase
  <2>4. AnswerInv' /\ FailureInv'
    BY <2>1 DEF CrossInv, AnswerInv, FailureInv, ReqPending, AckPending
  <2> QED
    BY <2>2, <2>3, <2>4 DEF CrossInv
<1> QED
  BY <1>1, <1>2, <1>3, <1>4, <1>5, <1>6 DEF Next, TckEdge

(* The invariant of the crossing holds in every behaviour.                 *)
THEOREM CrossInvariant == Spec => []CrossInv
<1>1. Init => CrossInv
  BY CrossInit
<1>2. TypeOK /\ TypeOK' /\ CrossInv /\ [Next]_vars => CrossInv'
  BY CrossStep
<1> QED
  BY <1>1, <1>2, TapTypeCorrect, PTL DEF Spec

(* No register is read across the clock boundary in a cycle in which it    *)
(* may still be changing.                                                  *)
THEOREM CrossingAlwaysStable == Spec => []CrossingStable
<1>1. TypeOK /\ CrossInv => CrossingStable
  <2> SUFFICES ASSUME TypeOK, CrossInv PROVE CrossingStable
    OBVIOUS
  <2>1. ack_tck_edge => "ack" \notin unsettled
    BY DEF ack_tck_edge, EdgeOf, CrossInv, LinkInv
  <2>2. ASSUME hreq_cap_en, rst.hclk = 2 PROVE "req" \notin unsettled
    <3>1. EdgeOf(h.req)
      BY <2>2 DEF hreq_cap_en, req_h_edge
    <3>2. CASE rst.align
      <4>1. ~ResetPhase
        BY <2>2, <3>2 DEF ResetPhase
      <4> QED
        BY <3>1, <4>1, EdgeIsPending DEF CrossInv, ToggleInv, OneChange
    <3>3. CASE ~rst.align
      BY <2>2, <3>3 DEF CrossInv, ResetInv, ResetPhase
    <3> QED
      BY <3>2, <3>3
  <2> QED
    BY <2>1, <2>2 DEF CrossingStable
<1> QED
  BY <1>1, TapTypeCorrect, CrossInvariant, PTL

(* An APB transfer begins once per launch and never without one.           *)
THEOREM OneTransferPerLaunchAlways == Spec => OneTransferPerLaunch
<1>1. ASSUME TypeOK, CrossInv, [Next]_vars, h.state = "IDLE", h'.state = "SETUP"
      PROVE  ghost.unbegun
  <2>1. CASE Hclk
    <3>1. CASE hclk_in_reset
      BY <1>1, <2>1, <3>1, HclkStepFlops DEF HclkResetFlops, TypeOK
    <3>2. CASE ~hclk_in_reset
      <4>1. PICK a \in Answers : HclkFlops(a)
        BY <1>1, <2>1, <3>2, HclkStepFlops DEF TypeOK
      <4>2. EdgeOf(h.req)
        BY <1>1, <4>1 DEF HclkFlops, state_nxt, req_h_edge
      <4> QED
        BY <1>1, <3>2, <4>2 DEF CrossInv, BegunInv
    <3> QED
      BY <3>1, <3>2
  <2>2. CASE \E tms \in BOOLEAN, d \in Contents : TapClock(tms, d)
    <3>1. PICK tms \in BOOLEAN, d \in Contents : TapClock(tms, d)
      BY <2>2
    <3>2. TckStep(dmi_launch(d), dmi_hardreset(d))
      BY <1>1, <3>1, TapClockStep
    <3> QED
      BY <1>1, <3>2 DEF TckStep, TckFlops
  <2>3. CASE TckOnly
    <3>1. TckStep(FALSE, FALSE)
      BY <1>1, <2>3, TckOnlyStep
    <3> QED
      BY <1>1, <3>1 DEF TckStep, TckFlops
  <2>4. CASE TckInReset /\ UNCHANGED <<tap, err, phase>>
    BY <1>1, <2>4 DEF TckInReset
  <2>5. CASE Reset
    BY <1>1, <2>5 DEF Reset, TapReset, AgeAll, TypeOK, DmiTypeOK
  <2>6. CASE UNCHANGED vars
    BY <1>1, <2>6 DEF vars, dmivars
  <2> QED
    BY <1>1, <2>1, <2>2, <2>3, <2>4, <2>5, <2>6 DEF Next, TckEdge
<1>2. TypeOK /\ CrossInv /\ [Next]_vars
        => [h.state = "IDLE" /\ h'.state = "SETUP" => ghost.unbegun]_dmivars
  BY <1>1
<1> QED
  BY <1>2, TapTypeCorrect, CrossInvariant, PTL DEF Spec, OneTransferPerLaunch

(* When the link is no longer busy it shows the result of the request      *)
(* launched last, unless that was abandoned.                               *)
THEOREM ResultIsAlwaysOfLast == Spec => []ResultIsOfLastRequest
<1>1. CrossInv => ResultIsOfLastRequest
  BY DEF CrossInv, AnswerInv, ResultIsOfLastRequest
<1> QED
  BY <1>1, CrossInvariant, PTL

(* A failure is shown or held exactly when one is owed to the debugger.    *)
THEOREM FailureAlwaysReal == Spec => []FailureIffReal
<1>1. TypeOK /\ CrossInv => FailureIffReal
  <2> SUFFICES ASSUME TypeOK, CrossInv, ~t.inflight
               PROVE  FailureHeld <=> ghost.owed
    BY DEF FailureIffReal
  <2>1. complete_failed <=> err.inflight_d /\ t.cstatus = "failed" /\ ~err.abort_pending
    BY DEF complete_failed, complete_edge
  <2>2. CASE err.inflight_d
    BY <2>1, <2>2 DEF CrossInv, FailureInv, FailureHeld
  <2>3. CASE ~err.inflight_d
    BY <2>1, <2>3 DEF CrossInv, FailureInv, FailureHeld
  <2> QED
    BY <2>2, <2>3
<1> QED
  BY <1>1, TapTypeCorrect, CrossInvariant, PTL

============================================================================
