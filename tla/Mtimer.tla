------------------------------- MODULE Mtimer -------------------------------
(***************************************************************************)
(* The ACLINT machine timer (aclint_mtimer with its tick, write shadow and *)
(* counter, LF_SYNC_EN = 0, one hart) under an oscillator controller.      *)
(*                                                                         *)
(* MTIME counts edges of clk_lf.  The hclk side samples clk_lf as data and *)
(* turns each rising edge into a tick; everything crosses on ticks, without*)
(* a handshake: the counter into a mirror that software reads, deadlines   *)
(* and MTIME loads into registers that the LF side reads.  When hclk stops,*)
(* the LF side goes on alone and wakes the oscillator at the deadline.     *)
(*                                                                         *)
(* A time is a number below HI_MOD * LO_MOD whose halves are the registers;*)
(* counting stops at MAX_TIME.                                             *)
(***************************************************************************)
EXTENDS Naturals, OscCtrl

CONSTANTS
  LO_MOD, HI_MOD,     \* values of a half (2^32 in the code)
  MAX_TIME,           \* bound: where counting stops
  HIGH_MIN, LOW_MIN,  \* hclk periods in the shortest clk_lf phases
  ARST_EN,            \* reset style
  HONOURS,            \* does the oscillator's enable include hclk_en_o?
  Traffic             \* transfers that may be addressed to the timer

ASSUME ModAssumption == LO_MOD \in Nat \ {0} /\ HI_MOD \in Nat \ {0}
ASSUME TimeAssumption == MAX_TIME \in 0 .. LO_MOD * HI_MOD - 1
ASSUME PhaseAssumption ==  \* ahb_aclint.md, "Minimum clk_lf timing"
  /\ HIGH_MIN \in Nat /\ LOW_MIN \in Nat
  /\ HIGH_MIN >= 2 /\ LOW_MIN >= 2 /\ HIGH_MIN + LOW_MIN >= 6
ASSUME StyleAssumption == ARST_EN \in BOOLEAN /\ HONOURS \in BOOLEAN

VARIABLES
  lf,    \* clk_lf: its level, the hclk edges since it changed and since it rose
  osc,   \* the oscillator controller's registers
  tick,  \* aclint_lf_tick: sampling pipeline, trust synchronizer, warm-up
  wr,    \* aclint_mtimer_wr_shadow
  cnt,   \* aclint_mtimer_count_lf, clocked by clk_lf
  view,  \* the mirror and its valid flag
  dph,   \* the transfer in its data phase
  ghost  \* history: halves stored since the last LF edge, a pair among the
         \* stores waiting to launch, a launched load not yet taken
mvars == <<lf, osc, tick, wr, cnt, view, dph, ghost>>

Times    == 0 .. LO_MOD * HI_MOD - 1
AllOnes  == LO_MOD * HI_MOD - 1
Halves   == {"lo", "hi"}
Lo(t)    == t % LO_MOD
Hi(t)    == t \div LO_MOD
Join(hi, lo) == hi * LO_MOD + lo

(* t with the given halves taken from u. *)
Merge(t, halves, u) ==
  Join(IF "hi" \in halves THEN Hi(u) ELSE Hi(t), IF "lo" \in halves THEN Lo(u) ELSE Lo(t))

(* A transfer; val carries the stored half in place. *)
Access   == [op: {"none", "read", "write"}, reg: {"mtime", "mtimecmp"}, half: Halves, val: Times]
ASSUME TrafficAssumption == Traffic \subseteq Access
NoAccess == [op |-> "none", reg |-> "mtime", half |-> "lo", val |-> 0]
ReadLo   == [NoAccess EXCEPT !.op = "read"]
Store(reg, half, t) ==
  [op |-> "write", reg |-> reg, half |-> half, val |-> Merge(0, {half}, t)]
Stored(reg) == IF dph.op = "write" /\ dph.reg = reg THEN {dph.half} ELSE {}

Least(a, b) == IF a < b THEN a ELSE b
(* hclk edges after which a change of clk_lf is long past. *)
Settled == IF HIGH_MIN > LOW_MIN THEN HIGH_MIN ELSE LOW_MIN

----------------------------------------------------------------------------
(* Ticks and trust. *)
Bug_untrusted_tick == tick.s3 /\ ~tick.d
lf_tick == tick.s3 /\ ~tick.d /\ tick.warm = 4

lf_trust_rstn(trust) == trust = 2

TrustNext(announced) ==
  IF clk_en_o(osc) /\ announced THEN Least(tick.trust + 1, 2) ELSE 0

(* Whether flops reset by trust load their input at this edge: an           *)
(* asynchronous reset acts as soon as trust falls, a synchronous one at the *)
(* next edge.                                                               *)
Keeps(trust_nxt) ==
  lf_trust_rstn(tick.trust) /\ (ARST_EN => lf_trust_rstn(trust_nxt))

(* The first flop may miss a level that has just changed. *)
SampledLf == IF lf.since = 0 THEN BOOLEAN ELSE {lf.level}

TickNext(meta, trust_nxt) ==
  [meta |-> meta, sync |-> tick.meta, s3 |-> tick.sync, d |-> tick.s3,
   trust |-> trust_nxt,
   warm |-> IF Keeps(trust_nxt) THEN Least(tick.warm + 1, 4) ELSE 0]

(* BUG: a mirror taken before the stop stays valid after it. *)
Bug_mirror_stays_valid(trust_nxt) ==
  [mirror |-> IF lf_tick THEN cnt.mtime ELSE view.mirror,
   valid  |-> lf_tick \/ view.valid]
ViewNext(trust_nxt) ==
  [mirror |-> IF lf_tick THEN cnt.mtime ELSE view.mirror,
   valid  |-> Keeps(trust_nxt) /\ (lf_tick \/ view.valid)]

----------------------------------------------------------------------------
(* The write shadow. *)
Bug_launch_between_stores == lf_tick /\ wr.load_pend # {} /\ ~wr.load_req
load_launch == lf_tick /\ wr.load_pend # {} /\ ~wr.wr_recent /\ ~wr.load_req

(* BUG: a tick in the cycle of a store ends the clock request for it. *)
Bug_tick_wins(recent, stores) == ~lf_tick /\ (recent \/ stores # {})
(* Stores since the last tick. *)
RecentNext(recent, stores) == stores # {} \/ (recent /\ ~lf_tick)

load_pend_nxt ==
  IF load_launch THEN Stored("mtime") ELSE wr.load_pend \cup Stored("mtime")

WrNext ==
  [cmp_s1     |-> Merge(wr.cmp_s1, Stored("mtimecmp"), dph.val),
   cmp_s2     |-> IF lf_tick THEN wr.cmp_s1 ELSE wr.cmp_s2,
   cmp_recent |-> RecentNext(wr.cmp_recent, Stored("mtimecmp")),
   mtime_s1   |-> Merge(wr.mtime_s1, Stored("mtime"), dph.val),
   wr_recent  |-> RecentNext(wr.wr_recent, Stored("mtime")),
   load_pend  |-> load_pend_nxt,
   load_req   |-> IF lf_tick THEN load_launch ELSE wr.load_req,
   load_we    |-> IF load_launch THEN wr.load_pend ELSE wr.load_we,
   load_val   |-> IF load_launch THEN wr.mtime_s1 ELSE wr.load_val]

(* BUG: a deadline on its way does not ask for the clock. *)
Bug_cmp_not_held == wr.load_pend # {} \/ wr.load_req \/ wr.wr_recent
wr_pending == wr.load_pend # {} \/ wr.load_req \/ wr.wr_recent \/ wr.cmp_recent

----------------------------------------------------------------------------
(* What software reads, and the interrupt. *)
(* BUG: a store is shown only until its launch. *)
Bug_pending_ends_at_launch == wr.load_pend
mtime_pending == wr.load_pend \cup (IF wr.load_req THEN wr.load_we ELSE {})
mtime_rd_src  == Merge(view.mirror, mtime_pending, wr.mtime_s1)
irq_m_timer   == mtime_rd_src >= wr.cmp_s1

reg_ready == ~(dph = ReadLo /\ ~view.valid)
hclk_en(aph) == aph # NoAccess \/ dph # NoAccess \/ wr_pending

----------------------------------------------------------------------------
(* One edge of hclk_aon, with the next transfer in its address phase; other *)
(* is the clock request of the rest of the chip.                            *)
HclkEdge(aph, other) ==
  /\ osc_en_o(osc)
  /\ reg_ready \/ aph = NoAccess
  /\ osc' = OscEdge(osc, cnt.wake, other \/ (HONOURS /\ hclk_en(aph)))
  /\ LET trust_nxt == TrustNext(clk_en_o(osc'))
     IN  /\ \E meta \in SampledLf : tick' = TickNext(meta, trust_nxt)
         /\ view' = ViewNext(trust_nxt)
  /\ wr' = WrNext
  /\ dph' = IF reg_ready THEN aph ELSE dph
  /\ lf' = [lf EXCEPT !.since = Least(@ + 1, Settled), !.risen = Least(@ + 1, Settled)]
  /\ ghost' =
       IF load_launch
       THEN [fresh |-> Stored("mtime"), joined |-> FALSE, owed |-> TRUE]
       ELSE LET fresh == ghost.fresh \cup Stored("mtime")
            IN  [ghost EXCEPT !.fresh = fresh, !.joined = @ \/ fresh = Halves]
  /\ UNCHANGED cnt

mtime_load == wr.load_req /\ ~cnt.load_req_d
mtime_next == IF mtime_load THEN Merge(cnt.mtime, wr.load_we, wr.load_val)
              ELSE IF cnt.mtime < MAX_TIME THEN cnt.mtime + 1 ELSE cnt.mtime

(* A rising edge of clk_lf: counter, load one-shot and wake comparator. *)
LfRise ==
  /\ ~lf.level /\ (lf.since >= LOW_MIN \/ ~osc_en_o(osc))
  /\ lf' = [level |-> TRUE, since |-> 0, risen |-> 0]
  /\ cnt' = [mtime |-> mtime_next, load_req_d |-> wr.load_req,
             wake |-> mtime_next >= wr.cmp_s2]
  /\ osc' = IF cnt'.wake THEN OscPreset ELSE osc
  /\ ghost' = [ghost EXCEPT !.fresh = {}, !.owed = @ /\ ~mtime_load]
  /\ UNCHANGED <<tick, wr, view, dph>>

LfFall ==
  /\ lf.level /\ (lf.since >= HIGH_MIN \/ ~osc_en_o(osc))
  /\ lf' = [lf EXCEPT !.level = FALSE, !.since = 0]
  /\ UNCHANGED <<osc, tick, wr, cnt, view, dph, ghost>>

(* Something else wakes the oscillator: in the announce window, or after a  *)
(* stop of any length.                                                      *)
OtherWake ==
  /\ ~clk_en_o(osc) \/ ~osc_en_o(osc)
  /\ osc' = OscPreset
  /\ \E since \in {lf.since, IF osc_en_o(osc) THEN lf.since ELSE Settled} :
       lf' = [lf EXCEPT !.since = since]
  /\ UNCHANGED <<tick, wr, cnt, view, dph, ghost>>

MInit ==
  /\ lf = [level |-> FALSE, since |-> Settled, risen |-> Settled]
  /\ osc = OscPreset
  /\ tick = [meta |-> FALSE, sync |-> FALSE, s3 |-> FALSE, d |-> FALSE, trust |-> 0, warm |-> 0]
  /\ wr = [cmp_s1 |-> AllOnes, cmp_s2 |-> AllOnes, cmp_recent |-> FALSE, mtime_s1 |-> 0,
           wr_recent |-> FALSE, load_pend |-> {}, load_req |-> FALSE, load_we |-> {},
           load_val |-> 0]
  /\ cnt = [mtime |-> 0, load_req_d |-> FALSE, wake |-> FALSE]
  /\ view = [mirror |-> 0, valid |-> FALSE]
  /\ dph = NoAccess
  /\ ghost = [fresh |-> {}, joined |-> FALSE, owed |-> FALSE]

LfStep == LfRise \/ LfFall \/ OtherWake
MNext == LfStep \/ \E aph \in Traffic \cup {NoAccess}, other \in BOOLEAN : HclkEdge(aph, other)
MSpec == MInit /\ [][MNext]_mvars

----------------------------------------------------------------------------
TypeOK ==
  /\ lf \in [level: BOOLEAN, since: 0 .. Settled, risen: 0 .. Settled]
  /\ osc \in Osc
  /\ tick \in [meta: BOOLEAN, sync: BOOLEAN, s3: BOOLEAN, d: BOOLEAN, trust: 0 .. 2, warm: 0 .. 4]
  /\ wr \in [cmp_s1: Times, cmp_s2: Times, cmp_recent: BOOLEAN, mtime_s1: Times,
             wr_recent: BOOLEAN, load_pend: SUBSET Halves, load_req: BOOLEAN,
             load_we: SUBSET Halves, load_val: Times]
  /\ cnt \in [mtime: Times, load_req_d: BOOLEAN, wake: BOOLEAN]
  /\ view \in [mirror: Times, valid: BOOLEAN]
  /\ dph \in Access
  /\ ghost \in [fresh: SUBSET Halves, joined: BOOLEAN, owed: BOOLEAN]

(* The mirror captures the counter only when three hclk edges have passed   *)
(* since it moved (the crossing's 3T budget), also in the first edges after *)
(* the oscillator restarts.                                                 *)
CounterSettled == lf_tick => lf.risen >= 3

(* A launched MTIME load is taken by the counter once, before the tick that *)
(* retires it, however long hclk stops in between.                          *)
LoadTakenOnce ==
  /\ mtime_load => ghost.owed
  /\ lf_tick /\ wr.load_req => ~ghost.owed

(* Two halves stored within one LF period are launched together: a tick     *)
(* that falls between the stores launches nothing.                          *)
PairLandsWhole ==
  load_launch => ghost.fresh = {} /\ (ghost.joined => wr.load_pend = Halves)

(* The value the counter is about to take is the one software reads back.   *)
ReadBackIsWhatLands ==
  mtime_load /\ wr.load_pend = {} => mtime_next = mtime_rd_src

(* What software stores to MTIME reaches the counter, once and unmixed.     *)
WritesLand == LoadTakenOnce /\ PairLandsWhole /\ ReadBackIsWhatLands

(* Time as software reads it never goes back unless it is stored to, not    *)
(* even over a stop of the clock.  Excepted is a lone HI store on its way,  *)
(* under which LO may wrap.                                                 *)
TimeNeverGoesBack ==
  [][\/ Stored("mtime") # {} \/ mtime_pending' = {"hi"}
     \/ mtime_rd_src' >= mtime_rd_src]_mvars
============================================================================
