------------------------------ MODULE DmiMaster ------------------------------
(***************************************************************************)
(* The debug transport's DMI master (arv_dtm_dmi_master): one request at a *)
(* time crosses from the transport clock (tck) to hclk as a toggled level, *)
(* runs as an APB transfer, and its result crosses back the same way; a    *)
(* dmihardreset crosses as a third level and abandons the transfer.        *)
(*                                                                         *)
(* The two clocks are independent: edges interleave in any order, as long  *)
(* as RATIO hclk edges pass between two tck edges.  The first flop of a    *)
(* synchronizer may sample either value of a level that has changed since  *)
(* the last edge of its clock.                                             *)
(*                                                                         *)
(* A request and its result are represented by whose they are: "last" for  *)
(* the request launched last, "earlier" for one before it.                 *)
(***************************************************************************)
EXTENDS Naturals

CONSTANTS
  RATIO,        \* at least this many hclk edges between two tck edges
  CLK_ARST_EN,  \* TRUE: hclk flops have an asynchronous reset
  Slaves        \* the APB slaves: "dm" (arv_debug_dm), "waiting" (any latency)

ASSUME RatioAssumption == RATIO \in Nat \ {0}
ASSUME SlaveAssumption == Slaves \subseteq {"dm", "waiting"} /\ CLK_ARST_EN \in BOOLEAN

VARIABLES
  t,          \* tck registers: ack synchronizer, inflight, cstatus_o, rdata_o
  h,          \* hclk registers: two synchronizers, FSM, request and response
  level,      \* the three levels that cross: "req", "hardreset", "ack"
  unsettled,  \* levels changed since the last edge of the clock sampling them
  rst,        \* release stages of the two reset synchronizers, aligned reset
  slave,      \* the APB slave: its kind and the answer it owes
  since,      \* hclk edges since the last tck edge, up to RATIO
  ghost       \* history: is the last request still wanted, not yet begun, and
              \* has it failed without the debugger having cleared the failure

dmivars == <<t, h, level, unsettled, rst, slave, since, ghost>>

Owners   == {"none", "earlier", "last"}
Statuses == {"ok", "failed"}
Levels   == {"req", "hardreset", "ack"}
Chain    == [meta: BOOLEAN, sync: BOOLEAN, d: BOOLEAN]

(* arv_synchronizer followed by the flop its edge detector compares with. *)
Cleared           == [meta |-> FALSE, sync |-> FALSE, d |-> FALSE]
Through(s, input) == [meta |-> input, sync |-> s.meta, d |-> s.sync]
EdgeOf(s)         == s.sync # s.d

(* What the first flop may capture of a level. *)
Sampled(l) == IF l \in unsettled THEN BOOLEAN ELSE {level[l]}

(* A new launch makes the last request an earlier one. *)
Aged(owner) == IF owner = "last" THEN "earlier" ELSE owner
AgeAll == /\ h' = [h EXCEPT !.hreq = Aged(@), !.rsp = Aged(@)]
          /\ slave' = [slave EXCEPT !.owes = Aged(@)]

ack_tck_edge     == EdgeOf(t.ack)
Bug_unsynchronized == level["req"] # h.req.d
req_h_edge       == EdgeOf(h.req)
hardreset_h_edge == EdgeOf(h.hardreset)

TckReset == [ack |-> Cleared, inflight |-> FALSE, cstatus |-> "ok", rdata |-> "none"]
HclkReset == [req |-> Cleared, hardreset |-> Cleared, state |-> "IDLE",
              hreq |-> "none", rsp |-> "none", rsp_stat |-> "ok"]

DmiInit ==
  /\ t = TckReset
  /\ h = HclkReset
  /\ level = [l \in Levels |-> FALSE]
  /\ unsettled = {}
  /\ rst = [tck |-> 2, hclk |-> 2, align |-> TRUE]
  /\ slave \in [kind: Slaves, owes: {"none"}, err: {FALSE}]
  /\ since = RATIO
  /\ ghost = [wanted |-> FALSE, unbegun |-> FALSE, owed |-> FALSE]

----------------------------------------------------------------------------
(* The tck side of one tck edge outside reset.                             *)
Bug_inflight_cleared_early(launch, hardreset) ==
  IF launch \/ t.ack.meta # t.ack.sync \/ hardreset THEN launch ELSE t.inflight
Bug_answer_not_seen(launch, hardreset) ==
  IF launch \/ hardreset THEN launch ELSE t.inflight
InflightNext(launch, hardreset) ==
  IF launch \/ ack_tck_edge \/ hardreset THEN launch ELSE t.inflight

TckSide(launch, hardreset) ==
  /\ \E meta \in Sampled("ack") :
       t' = [ack      |-> Through(t.ack, meta),
             inflight |-> InflightNext(launch, hardreset),
             cstatus  |-> IF ack_tck_edge THEN h.rsp_stat ELSE t.cstatus,
             rdata    |-> LET r == IF ack_tck_edge THEN h.rsp ELSE t.rdata
                          IN  IF launch THEN Aged(r) ELSE r]
  /\ level' = [level EXCEPT !["req"] = (launch # @), !["hardreset"] = (hardreset # @)]
  /\ unsettled' = (unsettled \ {"ack"}) \cup (IF launch THEN {"req"} ELSE {})
                                        \cup (IF hardreset THEN {"hardreset"} ELSE {})
  /\ IF launch THEN AgeAll ELSE UNCHANGED <<h, slave>>
  /\ since' = 0
  /\ UNCHANGED rst

(* A tck edge while the TAP reset is held or its release is synchronized. *)
TckInReset ==
  /\ since = RATIO
  /\ rst.tck < 2
  /\ rst' = [rst EXCEPT !.tck = @ + 1]
  /\ since' = 0
  /\ unsettled' = unsettled \ {"ack"}
  /\ UNCHANGED <<t, h, level, slave, ghost>>

(* TRST or a cJTAG escape: the tck domain is cleared at once, the hclk     *)
(* domain when its own clock sees it.  The pulse may have any width.       *)
TapReset ==
  /\ t' = TckReset
  /\ level' = [level EXCEPT !["req"] = FALSE, !["hardreset"] = FALSE]
  /\ unsettled' = unsettled \cup {l \in {"req", "hardreset"} : level[l]}
  /\ rst' = [rst EXCEPT !.tck = 0, !.hclk = 0]
  /\ AgeAll
  /\ ghost' = [ghost EXCEPT !.wanted = FALSE, !.owed = FALSE]
  /\ UNCHANGED since

----------------------------------------------------------------------------
(* The hclk side.  ready and err are the slave's answer in this cycle.     *)

dmi_psel    == h.state # "IDLE"
dmi_penable == h.state = "ACCESS"

Answers ==  \* pready, pslverr and whose transfer the answer belongs to
  IF slave.kind = "dm"
  THEN {[ready |-> slave.owes # "none", err |-> slave.err, owner |-> slave.owes]}
  ELSE {[ready |-> r, err |-> e, owner |-> h.hreq] : r \in {dmi_penable} \cup {FALSE}, e \in BOOLEAN}

state_nxt(a) ==
  IF hardreset_h_edge THEN "IDLE"
  ELSE CASE h.state = "IDLE"   -> IF req_h_edge THEN "SETUP" ELSE "IDLE"
         [] h.state = "SETUP"  -> "ACCESS"
         [] h.state = "ACCESS" -> IF a.ready THEN "IDLE" ELSE "ACCESS"

hreq_cap_en == h.state = "IDLE" /\ req_h_edge /\ ~hardreset_h_edge

Retires(a) == dmi_penable /\ a.ready /\ ~hardreset_h_edge

HclkRegs(a) ==
  \E req \in Sampled("req"), hr \in Sampled("hardreset") :
    h' = [req       |-> Through(h.req, req),
          hardreset |-> Through(h.hardreset, hr),
          state     |-> state_nxt(a),
          hreq      |-> IF hreq_cap_en THEN "last" ELSE h.hreq,
          rsp       |-> IF Retires(a) THEN a.owner ELSE h.rsp,
          rsp_stat  |-> IF Retires(a) THEN IF a.err THEN "failed" ELSE "ok"
                                      ELSE h.rsp_stat]

(* With synchronous resets the second synchronizer flop has no reset. *)
HclkRegsInReset ==
  h' = IF CLK_ARST_EN THEN HclkReset
       ELSE [HclkReset EXCEPT !.req.sync = h.req.meta, !.hardreset.sync = h.hardreset.meta]

SlaveStep ==
  IF slave.kind = "dm" /\ dmi_penable /\ slave.owes = "none"
  THEN \E e \in BOOLEAN : slave' = [slave EXCEPT !.owes = h.hreq, !.err = e]
  ELSE slave' = [slave EXCEPT !.owes = "none", !.err = FALSE]

Bug_hclk_not_reset == FALSE
hclk_in_reset == IF CLK_ARST_EN THEN rst.hclk < 2 ELSE ~rst.align

HclkEdge ==
  /\ rst' = [rst EXCEPT !.hclk = IF @ < 2 THEN @ + 1 ELSE 2, !.align = (rst.hclk = 2)]
  /\ since' = IF since < RATIO THEN since + 1 ELSE RATIO
  /\ SlaveStep
  /\ \E a \in Answers :
       IF hclk_in_reset
       THEN /\ HclkRegsInReset
            /\ level' = [level EXCEPT !["ack"] = FALSE]
            /\ ghost' = [ghost EXCEPT !.unbegun = FALSE]
       ELSE /\ HclkRegs(a)
            /\ level' = [level EXCEPT !["ack"] = (Retires(a) # @)]
            /\ ghost' = [ghost EXCEPT
                  !.unbegun = @ /\ ~hreq_cap_en,
                  !.owed = @ \/ (Retires(a) /\ a.err /\ h.hreq = "last" /\ ghost.wanted)]
  /\ unsettled' = (unsettled \cap {"ack"}) \cup (IF level'["ack"] # level["ack"] THEN {"ack"} ELSE {})
  /\ UNCHANGED t

----------------------------------------------------------------------------
(* Properties of the crossing, for the module that drives launch_i.        *)

DmiTypeOK ==
  /\ t \in [ack: Chain, inflight: BOOLEAN, cstatus: Statuses, rdata: Owners]
  /\ h \in [req: Chain, hardreset: Chain, state: {"IDLE", "SETUP", "ACCESS"},
            hreq: Owners, rsp: Owners, rsp_stat: Statuses]
  /\ level \in [Levels -> BOOLEAN]
  /\ unsettled \subseteq Levels
  /\ rst \in [tck: 0 .. 2, hclk: 0 .. 2, align: BOOLEAN]
  /\ slave \in [kind: Slaves, owes: Owners, err: BOOLEAN]
  /\ since \in 0 .. RATIO
  /\ ghost \in [wanted: BOOLEAN, unbegun: BOOLEAN, owed: BOOLEAN]

(* Multi-bit registers are read across the clock boundary only when they   *)
(* have been still for a whole period of the reading clock; a reset that   *)
(* has just reached the reading side discards what it reads.               *)
CrossingStable ==
  /\ ack_tck_edge => "ack" \notin unsettled
  /\ hreq_cap_en /\ rst.hclk = 2 => "req" \notin unsettled

(* An APB transfer begins once per launch and never without one, whatever  *)
(* resets the probe side takes.                                            *)
OneTransferPerLaunch ==
  [][h.state = "IDLE" /\ h'.state = "SETUP" => ghost.unbegun]_dmivars

(* When the link stops being busy, what it shows is the result of the      *)
(* request launched last, unless that request was abandoned.               *)
ResultIsOfLastRequest ==
  ghost.wanted /\ ~t.inflight => t.rdata = "last"

============================================================================
